--------------------------- MODULE SOCEnvironment ---------------------------
(***************************************************************************)
(* One episode engine: the class SOCEnvironment of server/environment.py,  *)
(* with the tool functions of tools/ and the shared metric of              *)
(* graders/team_grader.py that its handlers call.                          *)
(*                                                                         *)
(* An episode is played solo ("tier1_solo") or by a team whose phases      *)
(* triage -> response -> oversight -> complete belong to Tier-1, Tier-2    *)
(* and the Manager.  Each call of step() is one action: the handler, the   *)
(* reward it earns, the bookkeeping after it and the phase change or       *)
(* termination it causes happen together, because the caller holds a lock. *)
(*                                                                         *)
(* Rewards are exact.  A handler's reward is an integer in                 *)
(* ten-thousandths; the running totals are integers in units of            *)
(* 1 / (100000 * Scale), which makes the 0.6 / 0.4 blend and the team      *)
(* metric (a fraction with denominator Scale) whole numbers.               *)
(***************************************************************************)
EXTENDS Integers, Sequences, FiniteSets, Bags

CONSTANTS
  Registry,            \* scenarios a registered generator may produce
  GeneratedScenarios,  \* scenarios /generate_scenario may load
  Modes,               \* the episode modes clients ask for
  UsedActions,         \* the action types clients send
  AlertIds,            \* alert ids, known to a scenario or not
  NamedAlerts,         \* the alert_id fields clients send, None when omitted
  Verdicts,            \* the classifications clients send
  Indicators, Hosts, Users, LogSources, Techniques, ResponseActions,
  ParentOf,            \* technique -> its parent ("T1566.001" -> "T1566")
  GraderScores,        \* individual grader results, in thousandths
  JudgeRewards,        \* rewards the explanation judge may give, ten-thousandths
  PhaseBudget,         \* steps each team phase may take
  StepBound,           \* bound of the model on steps that consume no budget
  None                 \* Python's None

Classifications == {"true_positive", "false_positive",
                    "benign_true_positive", "unclassified"}
WorkPhases == {"triage", "response", "oversight"}
Phases == WorkPhases \cup {"complete"}
Roles == {"tier1", "tier2", "manager"}
TicketKinds == {"escalation", "closure", "override", "flag"}

Tier1Actions == {"enrich_indicator", "query_logs", "correlate_alerts", "check_asset",
                 "check_user", "classify_alert", "map_technique", "recommend_action",
                 "escalate", "escalate_to_tier2", "phase_complete", "noop"}
Tier2Actions == {"forensic_timeline", "sandbox_detonate", "memory_analysis",
                 "isolate_host", "disable_user", "block_ioc", "close_case",
                 "phase_complete", "noop"}
ManagerActions == {"review_decision", "override_classification", "flag_inconsistency",
                   "explain_team_behavior", "submit_investigation",
                   "phase_complete", "noop"}
ActionTypes == Tier1Actions \cup Tier2Actions \cup ManagerActions

RoleOf == [p \in WorkPhases |-> CASE p = "triage"    -> "tier1"
                                  [] p = "response"  -> "tier2"
                                  [] p = "oversight" -> "manager"]

\* A scenario with its answer key.  Observables (indicators, hosts, users)
\* are listed per alert; log_db gives the observables a log source shows.
Scenario ==
  [alerts      : Seq(AlertIds),
   truth       : [AlertIds -> Classifications],
   required    : SUBSET AlertIds,              \* required_escalations
   flags       : SUBSET AlertIds,              \* expected_manager_flags
   linked      : SUBSET SUBSET AlertIds,       \* pairs with a shared indicator
   chain       : SUBSET SUBSET AlertIds,       \* adjacent pairs of the kill chain
   observables : [AlertIds -> SUBSET (Indicators \cup Hosts \cup Users)],
   relevant    : [AlertIds -> SUBSET (Indicators \cup LogSources)],
   intel       : SUBSET Indicators,            \* in the threat intel database
   malicious   : SUBSET Indicators,
   log_db      : [AlertIds -> [LogSources -> SUBSET (Hosts \cup Users)]],
   directory   : SUBSET (Hosts \cup Users),    \* asset_db and user_db
   critical    : SUBSET Hosts,
   techniques  : [AlertIds -> SUBSET Techniques],
   responses   : [AlertIds -> SUBSET ResponseActions],
   max_steps   : Nat \ {0}]

AlertsOf(c) == {c.alerts[n] : n \in 1..Len(c.alerts)}

ASSUME ScenarioAssumption ==
  \A c \in Registry \cup GeneratedScenarios : c \in Scenario /\ c.alerts # <<>>
ASSUME BudgetAssumption == PhaseBudget \in [WorkPhases -> Nat \ {0}]
ASSUME InputAssumption == /\ UsedActions \subseteq ActionTypes
                          /\ NamedAlerts \subseteq AlertIds \cup {None}
                          /\ Verdicts \subseteq Classifications
                          /\ Modes \subseteq {"team", "tier1_solo"}
                          /\ Techniques \subseteq DOMAIN ParentOf
ASSUME RewardAssumption == GraderScores \subseteq Int /\ JudgeRewards \subseteq Int
ASSUME NoneAssumption == None \notin AlertIds /\ None \notin Registry
                         /\ None \notin GeneratedScenarios /\ None \notin Phases \cup Classifications

VARIABLES
  config,               \* the episode's scenario, None before the first reset
  generated,            \* _generated_scenario
  mode, phase, phase_step,
  step, done,
  investigations,       \* per-alert InvestigationState
  alert_class,          \* AlertMeta.classification of the config's alerts
  escalated_alert_ids, tickets,
  containments,         \* number of _containment_results
  action_history,       \* bag of action signatures
  prev_team_shared,     \* team metric already paid for, times Scale
  role_reward,          \* _tier1_reward, _tier2_reward, _manager_reward
  cumulative_reward,
  reward                \* obs.reward of the latest reset() or step()

casework == <<investigations, alert_class>>
handoff == <<escalated_alert_ids, tickets, containments>>
ledger  == <<prev_team_shared, role_reward, cumulative_reward>>
vars == <<config, generated, mode, phase, phase_step, step, done, casework,
          handoff, action_history, ledger, reward>>

-----------------------------------------------------------------------------
(* The shared team metric and the units of the ledger.                     *)

Positives == {a \in AlertsOf(config) : config.truth[a] # "false_positive"}
Negatives == AlertsOf(config) \ Positives

AtLeastOne(n) == IF n = 0 THEN 1 ELSE n
Scale == AtLeastOne(Cardinality(Positives)) * AtLeastOne(Cardinality(Negatives))

\* compute_team_metrics times Scale: contained true alerts times dismissed
\* false ones, where an empty class counts as fully handled.
TeamShared(invs) ==
  LET contained == {a \in Positives : /\ invs[a].classification = config.truth[a]
                                      /\ \/ invs[a].recommended # {}
                                         \/ invs[a].escalated}
      dismissed == {a \in Negatives : invs[a].classification = "false_positive"}
  IN  (IF Positives = {} THEN 1 ELSE Cardinality(contained))
        * (IF Negatives = {} THEN 1 ELSE Cardinality(dismissed))

Plain(r) == 10 * r * Scale        \* an unblended reward in ledger units

Clamp(x) == IF x < 100 * Scale THEN 100 * Scale
            ELSE IF x > 99900 * Scale THEN 99900 * Scale ELSE x

\* A repeat of an action seen n >= 2 times costs 0.05 * min(n - 1, 4).
Repeats(sig) == IF BagIn(sig, action_history) THEN action_history[sig] ELSE 0
LoopPenalty(sig) ==
  LET n == Repeats(sig)
  IN  IF n < 2 THEN 0 ELSE Plain(500) * (IF n > 5 THEN 4 ELSE n - 1)

\* The reward of a dispatched step, given the handler's own reward.
StepReward(sig, r) ==
  (IF mode = "team"
     THEN 6 * r * Scale + 40000 * (TeamShared(investigations') - prev_team_shared)
     ELSE Plain(r))
  - LoopPenalty(sig)

-----------------------------------------------------------------------------
(* Phases.  `earned' is the step reward that led here, `spent' the phase   *)
(* steps used.                                                             *)

\* Mutant: the step's own reward is booked but not reported.
FinalizeHidingReward(earned, spent, penalty) ==
  \E g \in GraderScores :
    LET final == Clamp(60 * g * Scale + 40000 * TeamShared(investigations'))
    IN  /\ phase' = "complete" /\ done' = TRUE /\ phase_step' = spent
        /\ reward' = penalty + final
        /\ cumulative_reward' = cumulative_reward + earned + penalty + final

Finalize(earned, spent, penalty) ==
  \E g \in GraderScores :
    LET final == Clamp(60 * g * Scale + 40000 * TeamShared(investigations'))
    IN  /\ phase' = "complete"
        /\ done' = TRUE
        /\ phase_step' = spent
        /\ reward' = earned + penalty + final
        /\ cumulative_reward' = cumulative_reward + earned + penalty + final

\* Mutant: the reward of the step that ends the phase is lost.
EnterDroppingReward(next, earned) ==
  /\ phase' = next /\ phase_step' = 0 /\ reward' = 0
  /\ UNCHANGED <<done, cumulative_reward>>

Enter(next, earned) ==
  /\ phase' = next
  /\ phase_step' = 0
  /\ reward' = earned
  /\ cumulative_reward' = cumulative_reward + earned
  /\ UNCHANGED done

\* Mutant: triage always hands over.
AdvancePhaseAlways(earned, spent) ==
  \/ phase = "triage" /\ Enter("response", earned)
  \/ phase = "response" /\ Enter("oversight", earned)
  \/ phase = "oversight" /\ Finalize(earned, spent, 0)

\* Mutant: the episode ends with the response.
AdvancePhaseSkippingOversight(earned, spent) ==
  \/ phase = "triage" /\ escalated_alert_ids' # <<>> /\ Enter("response", earned)
  \/ phase = "triage" /\ escalated_alert_ids' = <<>> /\ Finalize(earned, spent, 0)
  \/ phase \in {"response", "oversight"} /\ Finalize(earned, spent, 0)

AdvancePhase(earned, spent) ==
  \/ /\ phase = "triage"
     /\ escalated_alert_ids' = <<>>
     /\ Finalize(earned, spent, IF config.required = {} THEN 0 ELSE Plain(-1000))
  \/ phase = "triage" /\ escalated_alert_ids' # <<>> /\ Enter("response", earned)
  \/ phase = "response" /\ Enter("oversight", earned)
  \/ phase = "oversight" /\ Finalize(earned, spent, 0)

-----------------------------------------------------------------------------
(* The tail of step(): what follows every dispatched handler.              *)

\* Mutant: every role may send every action.
AllowedToAll == [r \in Roles |-> ActionTypes]

Allowed == [r \in Roles |-> CASE r = "tier1"   -> Tier1Actions
                              [] r = "tier2"   -> Tier2Actions
                              [] r = "manager" -> ManagerActions]

\* Mutant: a spent budget stops the turns of a team but does not end the episode.
RunningWithinMaxSteps == config # None /\ ~done /\ step < config.max_steps

Running == config # None /\ ~done

\* The dispatcher lets an action type through.
Permitted(kind) ==
  /\ Running
  /\ kind \in UsedActions
  /\ mode = "team" => kind \in Allowed[RoleOf[phase]]

MissedPositives(invs) ==
  {a \in AlertsOf(config) : /\ config.truth[a] = "true_positive"
                            /\ invs[a].classification \notin
                                 {"true_positive", "benign_true_positive"}}

\* Mutant: the metric already paid for is not remembered.
TeamTailForgettingMetric(pay) ==
  /\ role_reward' = [role_reward EXCEPT ![RoleOf[phase]] = @ + pay]
  /\ UNCHANGED prev_team_shared
  /\ \/ /\ phase_step + 1 < PhaseBudget[phase]
        /\ phase_step' = phase_step + 1
        /\ reward' = pay /\ cumulative_reward' = cumulative_reward + pay
        /\ UNCHANGED <<phase, done>>
     \/ phase_step + 1 >= PhaseBudget[phase] /\ AdvancePhase(pay, phase_step + 1)

\* Mutant: a phase is given one step more than its budget.
TeamTailOneTooMany(pay) ==
  /\ prev_team_shared' = TeamShared(investigations')
  /\ role_reward' = [role_reward EXCEPT ![RoleOf[phase]] = @ + pay]
  /\ \/ /\ phase_step + 1 <= PhaseBudget[phase]
        /\ phase_step' = phase_step + 1
        /\ reward' = pay /\ cumulative_reward' = cumulative_reward + pay
        /\ UNCHANGED <<phase, done>>
     \/ phase_step + 1 > PhaseBudget[phase] /\ AdvancePhase(pay, phase_step + 1)

\* A team step pays the acting role, and ends the phase with the last step of
\* its budget.
TeamTail(pay) ==
  /\ prev_team_shared' = TeamShared(investigations')
  /\ role_reward' = [role_reward EXCEPT ![RoleOf[phase]] = @ + pay]
  /\ \/ /\ phase_step + 1 < PhaseBudget[phase]
        /\ phase_step' = phase_step + 1
        /\ reward' = pay
        /\ cumulative_reward' = cumulative_reward + pay
        /\ UNCHANGED <<phase, done>>
     \/ /\ phase_step + 1 >= PhaseBudget[phase]
        /\ AdvancePhase(pay, phase_step + 1)

\* The last step of a solo episode is charged 0.5 for each missed true positive.
Overtime == IF step + 1 >= config.max_steps
              THEN Plain(5000) * Cardinality(MissedPositives(investigations')) ELSE 0

\* Mutant: a solo episode is given one step more than its budget.
SoloTailOneTooMany(pay) ==
  /\ done' = (step + 1 > config.max_steps)
  /\ reward' = pay /\ cumulative_reward' = cumulative_reward + pay - Overtime
  /\ UNCHANGED <<phase, phase_step, prev_team_shared, role_reward>>

SoloTail(pay) ==
  /\ done' = (step + 1 >= config.max_steps)
  /\ reward' = pay
  /\ cumulative_reward' = cumulative_reward + pay - Overtime
  /\ UNCHANGED <<phase, phase_step, prev_team_shared, role_reward>>

\* Loop detection, blending and the ledgers: the tail of every dispatched step.
Commit(sig, r) ==
  /\ step' = step + 1
  /\ action_history' = action_history (+) SetToBag({sig})
  /\ UNCHANGED <<config, generated, mode>>
  /\ \/ mode = "team" /\ TeamTail(StepReward(sig, r))
     \/ mode = "tier1_solo" /\ SoloTail(StepReward(sig, r))

-----------------------------------------------------------------------------
(* reset() and the calls that dispatch nothing.                            *)

Untouched == [classification |-> None, enriched |-> {}, queried |-> {},
              correlated |-> {}, looked_up |-> {}, mapped |-> {},
              recommended |-> {}, escalated |-> FALSE, closed |-> FALSE]

Init ==
  /\ config = None /\ generated = None
  /\ mode = "tier1_solo" /\ phase = None /\ phase_step = 0
  /\ step = 0 /\ done = FALSE
  /\ investigations = <<>> /\ alert_class = <<>>
  /\ escalated_alert_ids = <<>> /\ tickets = <<>> /\ containments = 0
  /\ action_history = EmptyBag
  /\ prev_team_shared = 0 /\ role_reward = [r \in Roles |-> 0]
  /\ cumulative_reward = 0 /\ reward = 0

\* Mutant: the end of the previous episode is carried over.
FreshClockStillDone(m) ==
  /\ phase' = IF m = "team" THEN "triage" ELSE None
  /\ phase_step' = 0 /\ step' = 0
  /\ UNCHANGED done

FreshClock(m) ==
  /\ phase' = IF m = "team" THEN "triage" ELSE None
  /\ phase_step' = 0
  /\ step' = 0 /\ done' = FALSE

FreshLedger ==
  /\ prev_team_shared' = 0 /\ role_reward' = [r \in Roles |-> 0]
  /\ cumulative_reward' = 0 /\ reward' = 0

\* A new episode on scenario c.
Begin(c, m) ==
  /\ config' = c
  /\ mode' = m
  /\ FreshClock(m)
  /\ investigations' = [a \in AlertsOf(c) |-> Untouched]
  /\ alert_class' = [a \in AlertsOf(c) |-> "unclassified"]
  /\ escalated_alert_ids' = <<>> /\ tickets' = <<>> /\ containments' = 0
  /\ action_history' = EmptyBag
  /\ FreshLedger
  /\ UNCHANGED generated

Reset == \E c \in Registry, m \in Modes : Begin(c, m)

ResetGenerated == generated # None /\ \E m \in Modes : Begin(generated, m)

\* An unknown task, mode or seed, or no generated scenario: ValueError before
\* any state is touched.
RejectedReset == UNCHANGED vars

SetGeneratedScenario ==
  /\ generated' \in GeneratedScenarios
  /\ UNCHANGED <<config, mode, phase, phase_step, step, done, casework, handoff,
                 action_history, ledger, reward>>

\* step() before the first reset, or after the end of the episode.
StepBeforeReset ==
  /\ config = None
  /\ reward' = -5000
  /\ UNCHANGED <<config, generated, mode, phase, phase_step, step, done, casework,
                 handoff, action_history, ledger>>

StepAfterDone ==
  /\ config # None /\ done
  /\ reward' = 0
  /\ UNCHANGED <<config, generated, mode, phase, phase_step, step, done, casework,
                 handoff, action_history, ledger>>

\* An action signed by a role whose turn it is not.
WrongRole ==
  /\ Running /\ mode = "team"
  /\ step < StepBound
  /\ step' = step + 1
  /\ reward' = Plain(-300)
  /\ UNCHANGED <<config, generated, mode, phase, phase_step, done, casework, handoff,
                 action_history, ledger>>

TeamPhaseComplete ==
  /\ Running /\ mode = "team"
  /\ "phase_complete" \in UsedActions
  /\ step' = step + 1
  /\ UNCHANGED <<config, generated, mode, casework, handoff, action_history,
                 prev_team_shared, role_reward>>
  /\ AdvancePhase(0, phase_step)

\* Solo episodes have no phase to advance: the call only counts a step.
SoloPhaseComplete ==
  /\ Running /\ mode = "tier1_solo"
  /\ "phase_complete" \in UsedActions
  /\ step < StepBound
  /\ step' = step + 1
  /\ reward' = 0
  /\ UNCHANGED <<config, generated, mode, phase, phase_step, done, casework, handoff,
                 action_history, ledger>>

\* Only the Manager's submit ends a team episode.
ManagerSubmit ==
  /\ Running /\ mode = "team" /\ phase = "oversight"
  /\ "submit_investigation" \in UsedActions
  /\ step' = step + 1
  /\ UNCHANGED <<config, generated, mode, casework, handoff, action_history,
                 prev_team_shared, role_reward>>
  /\ Finalize(0, phase_step, 0)

EfficiencyPercent(used) ==
  IF 100 * used <= 75 * config.max_steps THEN 100
  ELSE IF 100 * used <= 90 * config.max_steps THEN 85 ELSE 70

\* _handle_submit adds the score to the total, and step() adds the returned
\* reward, which is the same score, once more.
SoloSubmitScored(g) ==
  /\ Running /\ mode = "tier1_solo"
  /\ "submit_investigation" \in UsedActions
  /\ step' = step + 1
  /\ done' = TRUE
  /\ action_history' = action_history (+) SetToBag({<<"submit_investigation">>})
  /\ LET final == Clamp(g * EfficiencyPercent(step + 1) * Scale)
         pay   == final - LoopPenalty(<<"submit_investigation">>)
     IN  reward' = pay /\ cumulative_reward' = cumulative_reward + final + pay
  /\ UNCHANGED <<config, generated, mode, phase, phase_step, casework, handoff,
                 prev_team_shared, role_reward>>

SoloSubmit == \E g \in GraderScores : SoloSubmitScored(g)

\* An action type outside the acting role's set.
Forbidden(kind) ==
  /\ Running /\ mode = "team"
  /\ kind \in UsedActions \ Allowed[RoleOf[phase]]
  /\ UNCHANGED <<casework, handoff>>
  /\ Commit(<<kind>>, -300)

Noop ==
  /\ Permitted("noop")
  /\ UNCHANGED <<casework, handoff>>
  /\ Commit(<<"noop">>, -100)

\* A required parameter is missing, or names nothing the episode knows.
Incomplete(kind) ==
  /\ Permitted(kind)
  /\ kind \notin {"noop", "close_case", "phase_complete", "submit_investigation"}
  /\ UNCHANGED <<casework, handoff>>
  /\ Commit(<<kind>>, IF kind \in {"enrich_indicator", "query_logs", "correlate_alerts",
                                   "check_asset", "check_user", "classify_alert"}
                        THEN -300 ELSE -200)

-----------------------------------------------------------------------------
(* Tier-1 handlers.                                                        *)

Known(a) == a \in DOMAIN investigations

\* A missing alert id stands for the first alert of the queue.
OrFirst(a) == IF a = None THEN config.alerts[1] ELSE a

\* The first alert listing observable x, or the first alert of all.
AlertOf(x) ==
  LET hits == {n \in 1..Len(config.alerts) : x \in config.observables[config.alerts[n]]}
  IN  IF hits = {} THEN config.alerts[1]
      ELSE config.alerts[CHOOSE n \in hits : \A m \in hits : n <= m]

\* investigations.get(a) or the first investigation.
Owner(a) == IF Known(a) THEN a ELSE config.alerts[1]

\* One more entry in one of an investigation's evidence lists.
Noted(inv, field, x) == [inv EXCEPT ![field] = @ \cup {x}]

Record(a, field, x) ==
  investigations' = [investigations EXCEPT ![a] = Noted(@, field, x)]

EnrichReward(a, i) ==
  LET relevant == i \in config.relevant[a]
  IN  CASE i \in investigations[a].enriched         -> -300
        [] /\ i \notin investigations[a].enriched
           /\ i \notin config.intel                 -> IF relevant THEN 0 ELSE -200
        [] OTHER -> IF ~relevant THEN -300
                    ELSE IF i \in config.malicious THEN 1200 ELSE 800

Enrich(i, q) ==
  /\ Permitted("enrich_indicator")
  /\ LET a == Owner(IF q = None THEN AlertOf(i) ELSE q)
     IN  /\ Record(a, "enriched", i)
         /\ UNCHANGED <<alert_class, handoff>>
         /\ Commit(<<"enrich_indicator", i, q>>, EnrichReward(a, i))

QueryLogs(s, q) ==
  /\ Permitted("query_logs")
  /\ Known(OrFirst(q))
  /\ LET a == OrFirst(q)
     IN  /\ Record(a, "queried", s)
         /\ UNCHANGED <<alert_class, handoff>>
         /\ Commit(<<"query_logs", s, q>>,
                   IF s \in investigations[a].queried THEN -300
                   ELSE IF s \notin config.relevant[a] THEN -500
                   ELSE IF config.log_db[a][s] = {} THEN 0 ELSE 1000)

\* Mutant: a link is stored with the first alert only.
CorrelateOneSided(a, b) ==
  /\ Permitted("correlate_alerts")
  /\ Known(a) /\ Known(b) /\ a # b
  /\ Record(a, "correlated", {a, b})
  /\ UNCHANGED <<alert_class, handoff>>
  /\ Commit(<<"correlate_alerts", a, b>>, 0)

\* A link between two alerts is stored with both investigations.
Correlate(a, b) ==
  /\ Permitted("correlate_alerts")
  /\ Known(a) /\ Known(b) /\ a # b
  /\ LET pair  == {a, b}
         again == pair \in investigations[a].correlated
     IN  /\ investigations' =
              [x \in DOMAIN investigations |->
                 IF x \in pair /\ (again \/ pair \in config.linked)
                   THEN [investigations[x] EXCEPT !.correlated = @ \cup {pair}]
                   ELSE investigations[x]]
         /\ UNCHANGED <<alert_class, handoff>>
         /\ Commit(<<"correlate_alerts", a, b>>,
                   IF again THEN 0
                   ELSE IF pair \notin config.linked THEN -300
                   ELSE IF pair \in config.chain THEN 3000 ELSE 2000)

\* The log entries gathered for an alert mention x.
SeenInLogs(a, x) == \E s \in investigations[a].queried : x \in config.log_db[a][s]

\* check_asset and check_user: look a host or a user up in its directory.
CheckDirectory(kind, x) ==
  /\ Permitted(kind)
  /\ LET a == AlertOf(x)
     IN  /\ \/ x \in config.directory /\ Record(a, "looked_up", x)
            \/ x \notin config.directory /\ UNCHANGED investigations
         /\ UNCHANGED <<alert_class, handoff>>
         /\ Commit(<<kind, x>>,
                   IF x \in investigations[a].looked_up THEN 0
                   ELSE IF x \in config.directory
                          THEN IF SeenInLogs(a, x) THEN 500 ELSE 200
                          ELSE IF SeenInLogs(a, x) THEN 0 ELSE -300)

HasEvidence(inv) == \/ inv.enriched # {} \/ inv.queried # {}
                    \/ inv.correlated # {} \/ inv.looked_up # {}

\* Mutant: the queue's copy of the classification is not written.
ClassifyHidden(a, c) ==
  /\ Permitted("classify_alert")
  /\ Known(a)
  /\ investigations' = [investigations EXCEPT ![a].classification = c]
  /\ UNCHANGED <<alert_class, handoff>>
  /\ Commit(<<"classify_alert", a, c>>, 0)

Classify(a, c) ==
  /\ Permitted("classify_alert")
  /\ Known(a)
  /\ investigations' = [investigations EXCEPT ![a].classification = c]
  /\ alert_class' = [alert_class EXCEPT ![a] = c]
  /\ UNCHANGED handoff
  /\ Commit(<<"classify_alert", a, c>>,
            IF ~HasEvidence(investigations[a]) THEN -1000
            ELSE IF c = config.truth[a] THEN 3000 ELSE -2000)

\* Mutant: the technique is recorded by its parent.
MapTechniqueParent(a, t) ==
  /\ Permitted("map_technique")
  /\ Known(OrFirst(a))
  /\ Record(OrFirst(a), "mapped", ParentOf[t])
  /\ UNCHANGED <<alert_class, handoff>>
  /\ Commit(<<"map_technique", a, t>>, 0)

MapTechnique(a, t) ==
  /\ Permitted("map_technique")
  /\ Known(OrFirst(a))
  /\ Record(OrFirst(a), "mapped", t)
  /\ UNCHANGED <<alert_class, handoff>>
  /\ LET expected == config.techniques[OrFirst(a)]
     IN  Commit(<<"map_technique", a, t>>,
                IF t \in expected THEN 500
                ELSE IF \E e \in expected : ParentOf[e] = ParentOf[t] THEN 200
                ELSE -100)

RecommendAction(a, x) ==
  /\ Permitted("recommend_action")
  /\ Known(OrFirst(a))
  /\ Record(OrFirst(a), "recommended", x)
  /\ UNCHANGED <<alert_class, handoff>>
  /\ Commit(<<"recommend_action", a, x>>,
            IF x = "no_action"
              THEN IF config.truth[OrFirst(a)] = "false_positive" THEN 500 ELSE -1000
              ELSE IF x \in config.responses[OrFirst(a)] THEN 800 ELSE 200)

Escalate(a) ==
  /\ Permitted("escalate")
  /\ Known(OrFirst(a))
  /\ investigations' = [investigations EXCEPT ![OrFirst(a)].escalated = TRUE]
  /\ UNCHANGED <<alert_class, handoff>>
  /\ Commit(<<"escalate", a>>,
            CASE config.truth[OrFirst(a)] = "true_positive"  -> 500
              [] config.truth[OrFirst(a)] = "false_positive" -> -1000
              [] OTHER -> 200)

\* Mutant: a ticket is left without a resolution state.
TicketUnresolvable(kind, a, from, to, valid) ==
  [kind |-> kind, alert |-> a, from |-> from, to |-> to, valid |-> valid,
   created |-> step + 1, resolved |-> None]

Ticket(kind, a, from, to, valid) ==
  [kind |-> kind, alert |-> a, from |-> from, to |-> to, valid |-> valid,
   created |-> step + 1, resolved |-> FALSE]

\* Ticket ids are the positions in this sequence (_next_ticket_id counts them).
IssueTicket(kind, a, from, to, valid) ==
  tickets' = Append(tickets, Ticket(kind, a, from, to, valid))

\* Mutant: the search misses the latest entry.
IsEscalatedEarlier(a) ==
  \E n \in 1..(Len(escalated_alert_ids) - 1) : escalated_alert_ids[n] = a

IsEscalated(a) == \E n \in 1..Len(escalated_alert_ids) : escalated_alert_ids[n] = a

\* Escalating more than a quarter of the queue costs 0.08 for each new alert.
OverEscalation(a) ==
  IF ~IsEscalated(a) /\ 4 * (Len(escalated_alert_ids) + 1) > Len(config.alerts)
    THEN -800 ELSE 0

EscalateToTier2(b) ==
  /\ Permitted("escalate_to_tier2")
  /\ Known(OrFirst(b))
  /\ LET a == OrFirst(b)
     IN  /\ investigations' = [investigations EXCEPT ![a].escalated = TRUE]
         /\ escalated_alert_ids' = IF IsEscalated(a) THEN escalated_alert_ids
                                   ELSE Append(escalated_alert_ids, a)
         /\ IssueTicket("escalation", a, "tier1", "tier2", FALSE)
         /\ UNCHANGED <<alert_class, containments>>
         /\ Commit(<<"escalate_to_tier2", b>>,
                   OverEscalation(a)
                     + (CASE a \in config.required -> 1200
                          [] a \notin config.required
                             /\ config.truth[a] = "true_positive"  -> 600
                          [] a \notin config.required
                             /\ config.truth[a] = "false_positive" -> -1000
                          [] OTHER -> 300))

-----------------------------------------------------------------------------
(* Tier-2 handlers.                                                        *)

\* An observable of some true positive.
InTruePositive(x) == \E a \in AlertsOf(config) : /\ config.truth[a] = "true_positive"
                                                 /\ x \in config.observables[a]

Intel(x, unknown, malicious, clean) ==
  IF x \notin config.intel THEN unknown
  ELSE IF x \in config.malicious THEN malicious ELSE clean

ContainmentReward(kind, x) ==
  CASE kind = "forensic_timeline" -> IF InTruePositive(x) THEN 1200 ELSE 300
    [] kind = "memory_analysis"   -> IF InTruePositive(x) /\ x \in config.critical
                                       THEN 1000 ELSE 400
    [] kind = "isolate_host"      -> IF InTruePositive(x) THEN 2000 ELSE -1500
    [] kind = "disable_user"      -> IF InTruePositive(x) THEN 1800 ELSE -1500
    [] kind = "sandbox_detonate"  -> Intel(x, 200, 1000, 200)
    [] kind = "block_ioc"         -> Intel(x, 200, 1200, -800)

TargetsOf(kind) ==
  CASE kind \in {"forensic_timeline", "memory_analysis", "isolate_host"} -> Hosts
    [] kind = "disable_user" -> Users
    [] kind \in {"sandbox_detonate", "block_ioc"} -> Indicators

\* The six forensic and containment tools: each leaves one result.
Contain(kind, x) ==
  /\ Permitted(kind)
  /\ containments' = containments + 1
  /\ UNCHANGED <<casework, escalated_alert_ids, tickets>>
  /\ Commit(<<kind, x>>, ContainmentReward(kind, x))

\* An omitted alert id means the first escalated alert; an unknown one closes
\* the case of the first investigation but is named on the ticket.
CloseCase(b) ==
  /\ Permitted("close_case")
  /\ LET named == IF b # None THEN b
                  ELSE IF escalated_alert_ids # <<>> THEN escalated_alert_ids[1]
                  ELSE config.alerts[1]
         a     == Owner(named)
     IN  /\ investigations' = [investigations EXCEPT ![a].closed = TRUE]
         /\ IssueTicket("closure", named, "tier2", "manager", FALSE)
         /\ containments' = containments + 1
         /\ UNCHANGED <<alert_class, escalated_alert_ids>>
         /\ Commit(<<"close_case", b>>, IF investigations[a].closed THEN -200 ELSE 500)

-----------------------------------------------------------------------------
(* Manager handlers.                                                       *)

\* The ticket numbered t or, when there is none, the first ticket of alert a.
ReviewedTicket(t, a) ==
  IF t \in 1..Len(tickets) THEN t
  ELSE LET ofAlert == {n \in 1..Len(tickets) : tickets[n].alert = a}
       IN  IF ofAlert = {} THEN 0 ELSE CHOOSE n \in ofAlert : \A m \in ofAlert : n <= m

TruthOf(a) == IF a \in AlertsOf(config) THEN config.truth[a] ELSE None

ReviewReward(ticket) ==
  CASE ticket.kind = "escalation" ->
         IF TruthOf(ticket.alert) = "true_positive" THEN 1200 ELSE 200
    [] ticket.kind = "closure" ->
         IF /\ Known(ticket.alert)
            /\ investigations[ticket.alert].classification = TruthOf(ticket.alert)
           THEN 1000 ELSE 300
    [] OTHER -> 100

ReviewDecision(t, a) ==
  /\ Permitted("review_decision")
  /\ ReviewedTicket(t, a) # 0
  /\ LET n == ReviewedTicket(t, a)
     IN  /\ tickets' = [tickets EXCEPT ![n].resolved = TRUE]
         /\ UNCHANGED <<casework, escalated_alert_ids, containments>>
         /\ Commit(<<"review_decision", t, a>>, ReviewReward(tickets[n]))

\* The override reaches the investigation, not the alert of the queue.
OverrideClassification(a, c) ==
  /\ Permitted("override_classification")
  /\ Known(a)
  /\ LET correct == investigations[a].classification = config.truth[a]
     IN  /\ investigations' = IF correct THEN investigations
                              ELSE [investigations EXCEPT ![a].classification = c]
         /\ IssueTicket("override", a, "manager", "tier1", FALSE)
         /\ UNCHANGED <<alert_class, escalated_alert_ids, containments>>
         /\ Commit(<<"override_classification", a, c>>,
                   IF correct THEN -500 ELSE IF c = config.truth[a] THEN 2500 ELSE -2000)

FlagInconsistency(a) ==
  /\ Permitted("flag_inconsistency")
  /\ IssueTicket("flag", a, "manager", None, a \in config.flags)
  /\ UNCHANGED <<casework, escalated_alert_ids, containments>>
  /\ Commit(<<"flag_inconsistency", a>>, IF a \in config.flags THEN 1500 ELSE -1500)

ExplainTeamBehavior ==
  /\ Permitted("explain_team_behavior")
  /\ UNCHANGED <<casework, handoff>>
  /\ \E r \in JudgeRewards : Commit(<<"explain_team_behavior">>, r)

-----------------------------------------------------------------------------
\* A call the dispatcher accepts or refuses, by the role whose turn it is.
Turn ==
  \/ TeamPhaseComplete
  \/ ManagerSubmit
  \/ SoloSubmit
  \/ Noop
  \/ \E kind \in UsedActions : Forbidden(kind)
  \/ \E kind \in UsedActions : Incomplete(kind)
  \/ \E i \in Indicators, q \in NamedAlerts : Enrich(i, q)
  \/ \E s \in LogSources, q \in NamedAlerts : QueryLogs(s, q)
  \/ \E a, b \in NamedAlerts \ {None} : Correlate(a, b)
  \/ \E h \in Hosts : CheckDirectory("check_asset", h)
  \/ \E u \in Users : CheckDirectory("check_user", u)
  \/ \E a \in NamedAlerts \ {None}, c \in Verdicts : Classify(a, c)
  \/ \E a \in NamedAlerts, t \in Techniques : MapTechnique(a, t)
  \/ \E a \in NamedAlerts, x \in ResponseActions : RecommendAction(a, x)
  \/ \E a \in NamedAlerts : Escalate(a)
  \/ \E a \in NamedAlerts : EscalateToTier2(a)
  \/ \E kind \in {"forensic_timeline", "memory_analysis", "isolate_host",
                  "disable_user", "sandbox_detonate", "block_ioc"} :
       \E x \in TargetsOf(kind) : Contain(kind, x)
  \/ \E a \in NamedAlerts : CloseCase(a)
  \/ \E t \in 0..Len(tickets), a \in NamedAlerts : ReviewDecision(t, a)
  \/ \E a \in NamedAlerts \ {None}, c \in Verdicts : OverrideClassification(a, c)
  \/ \E a \in NamedAlerts \ {None} : FlagInconsistency(a)
  \/ ExplainTeamBehavior

\* Calls that take no turn of an episode in progress.
Outside ==
  \/ Reset
  \/ ResetGenerated
  \/ RejectedReset
  \/ SetGeneratedScenario
  \/ StepBeforeReset
  \/ StepAfterDone

Next == Outside \/ WrongRole \/ SoloPhaseComplete \/ Turn

Spec == Init /\ [][Next]_vars

-----------------------------------------------------------------------------
(* What each role is shown (_build_observation).                           *)

VisibleAlerts(role) ==
  IF role = "tier2" THEN {a \in AlertsOf(config) : IsEscalated(a)} ELSE AlertsOf(config)

VisibleTickets(role) ==
  {n \in 1..Len(tickets) :
     LET t == tickets[n]
     IN  CASE role = "manager" -> TRUE
           [] role = "tier2"   -> t.kind = "escalation" /\ t.to \in {"tier2", None}
           [] role = "tier1"   -> \/ t.to \in {"tier1", None}
                                  \/ t.kind = "closure" /\ t.from = "tier2"}

\* investigation_budget: "Remaining steps before forced termination".
BudgetSum == PhaseBudget["triage"] + PhaseBudget["response"] + PhaseBudget["oversight"]
MaxSteps == IF mode = "team" THEN BudgetSum ELSE config.max_steps
InvestigationBudget == IF step >= MaxSteps THEN 0 ELSE MaxSteps - step

-----------------------------------------------------------------------------
(* Properties.                                                             *)

Investigation ==
  [classification : Classifications \cup {None},
   enriched : SUBSET Indicators, queried : SUBSET LogSources,
   correlated : SUBSET SUBSET AlertIds, looked_up : SUBSET (Hosts \cup Users),
   mapped : SUBSET Techniques, recommended : SUBSET ResponseActions,
   escalated : BOOLEAN, closed : BOOLEAN]

TicketType ==
  [kind : TicketKinds, alert : AlertIds, from : Roles, to : Roles \cup {None},
   valid : BOOLEAN, created : Nat, resolved : BOOLEAN]

\* The type of the engine's state, from __init__ and the Pydantic models.
TypeOK ==
  /\ config \in Registry \cup GeneratedScenarios \cup {None}
  /\ generated \in GeneratedScenarios \cup {None}
  /\ mode \in {"team", "tier1_solo"}
  /\ phase \in Phases \cup {None} /\ phase_step \in Nat
  /\ step \in Nat /\ done \in BOOLEAN
  /\ config # None => /\ investigations \in [AlertsOf(config) -> Investigation]
                      /\ alert_class \in [AlertsOf(config) -> Classifications]
                      /\ escalated_alert_ids \in Seq(AlertsOf(config))
  /\ tickets \in Seq(TicketType) /\ containments \in Nat
  /\ IsABag(action_history)
  /\ prev_team_shared \in Int /\ role_reward \in [Roles -> Int]
  /\ cumulative_reward \in Int /\ reward \in Int

InTeam == config # None /\ mode = "team"

\* A team episode is over exactly when its phase is complete, and a phase in
\* progress never has its whole budget spent: the step that spends the last
\* unit also hands over (step L288-298, _advance_phase).
PhaseAndDoneAgree ==
  InTeam => /\ done <=> phase = "complete"
            /\ phase \in WorkPhases => phase_step < PhaseBudget[phase]

\* Tier-2 and the Manager are only ever put to work on a non-empty escalation
\* list (_advance_phase's short-circuit).
NoHandoverWithoutEscalation ==
  InTeam /\ phase \in {"response", "oversight"} => escalated_alert_ids # <<>>

\* The two filters of the Tier-2 view agree: the alerts shown to Tier-2 are
\* those its tickets name, each with its investigation marked escalated, and
\* no alert is listed twice, however often it is escalated.
Tier2ViewConsistent ==
  config # None =>
    /\ VisibleAlerts("tier2") = {tickets[n].alert : n \in VisibleTickets("tier2")}
    /\ \A a \in VisibleAlerts("tier2") : investigations[a].escalated
    /\ \A m, n \in 1..Len(escalated_alert_ids) :
         escalated_alert_ids[m] = escalated_alert_ids[n] => m = n

Rank(kind) == CASE kind = "escalation" -> 1
                [] kind = "closure" -> 2
                [] kind \in {"override", "flag"} -> 3

PhaseRank == CASE phase = "triage" -> 1
               [] phase = "response" -> 2
               [] OTHER -> 3

\* The ticket trail of a team episode follows its phases: no escalation after
\* a closure, no closure after an oversight ticket, no ticket of a phase not
\* reached, at most one ticket per step, none from the future.
TicketTrailFollowsPhases ==
  InTeam =>
    /\ \A n \in 1..Len(tickets) : /\ Rank(tickets[n].kind) <= PhaseRank
                                  /\ tickets[n].created <= step
    /\ \A m, n \in 1..Len(tickets) :
         m < n => /\ Rank(tickets[m].kind) <= Rank(tickets[n].kind)
                  /\ tickets[m].created < tickets[n].created

\* The team part of the rewards telescopes: what has been paid out is the team
\* metric of the present investigations, so an action that does not improve
\* the metric earns no team reward (README "Reward Integrity" #1).
SharedMetricPaidOnce == InTeam => prev_team_shared = TeamShared(investigations)

\* The per-role totals account for the whole running total of a team episode;
\* once it is over the difference is the final score, in [0.001, 0.999], and
\* at most the 0.10 penalty of a triage that escalated nothing.
RoleTotal == role_reward["tier1"] + role_reward["tier2"] + role_reward["manager"]
LedgerBalances ==
  InTeam => LET rest == cumulative_reward - RoleTotal
            IN  IF done THEN rest + Plain(1000) >= 100 * Scale /\ rest <= 99900 * Scale
                ELSE rest = 0

\* Nothing of a team episode survives into a solo one played in the same engine
\* (reset), and no solo step touches the team bookkeeping.
SoloLeavesTeamStateAlone ==
  mode = "tier1_solo" => /\ phase = None /\ phase_step = 0
                         /\ prev_team_shared = 0 /\ RoleTotal = 0

\* A correlation is known to both investigations it links, so asking for it
\* in the other order is a duplicate as well (correlate_alerts looks at the
\* first alert only).
CorrelationsSymmetric ==
  config # None =>
    \A a \in AlertsOf(config) : \A pair \in investigations[a].correlated :
      a \in pair /\ \A b \in pair : pair \in investigations[b].correlated

\* A call that takes a turn of the team episode in progress.
TeamTurn == /\ InTeam /\ config' = config /\ mode' = mode /\ step' = step + 1
            /\ <<phase, phase_step>>' # <<phase, phase_step>>

\* In team mode, what the caller is told it earned is what is booked, on every
\* path: dispatched, phase change by request or by exhausted budget, final.
EveryTurnIsBooked == [][TeamTurn => reward' = cumulative_reward' - cumulative_reward]_vars

\* The total is that of the rewards handed out (SOCObservation.cumulative_reward,
\* "Total reward accumulated this episode").
TotalIsSumOfRewards ==
  [][config # None /\ step' = step + 1 => reward' = cumulative_reward' - cumulative_reward]_vars

\* No budget left means the episode has been terminated
\* (SOCObservation.investigation_budget, "Remaining steps before forced termination").
BudgetForcesTermination == config # None /\ InvestigationBudget = 0 => done

\* The copies of the action history, numbered per signature: one per handler run.
WorkDone == UNION {{sig} \X (1..action_history[sig]) : sig \in DOMAIN action_history}

\* The turns of a team episode in progress: those left to its phase, and to the
\* phases after it.
TeamBudget == PhaseBudget["triage"] + PhaseBudget["response"] + PhaseBudget["oversight"]
TurnsLeft ==
  PhaseBudget[phase] - phase_step
    + (IF phase = "triage" THEN PhaseBudget["response"] ELSE 0)
    + (IF phase = "oversight" THEN 0 ELSE PhaseBudget["oversight"])

\* However phase completions and refused turns are mixed in, an episode in progress
\* has run no more handlers than its budget allows (step L288-303): in a solo episode
\* the steps that return early can outlast the budget, the work cannot; a team never
\* runs more than the turns it had, whichever phase it ended early.
DispatchedStepsWithinBudget ==
  Running => /\ mode = "tier1_solo" => Cardinality(WorkDone) < config.max_steps
             /\ mode = "team" => /\ TurnsLeft > 0
                                 /\ Cardinality(WorkDone) + TurnsLeft <= TeamBudget

\* An alert's two classifications, the one the queue shows and the one the
\* metric is computed from, part only where the Manager has overridden it, so
\* what Tier-1 sees is always its own last verdict.
QueueDiffersOnlyByOverride ==
  config # None =>
    \A a \in AlertsOf(config) :
      investigations[a].classification \notin {None, alert_class[a]} =>
        \E n \in 1..Len(tickets) : tickets[n].kind = "override" /\ tickets[n].alert = a

\* The queue shows the current classification (AlertMeta.classification).
QueueShowsClassification ==
  config # None =>
    \A a \in AlertsOf(config) : investigations[a].classification \in {None, alert_class[a]}

\* Every behaviour of the engine, seen through its phase, its phase counter and
\* whether anything was escalated, is one the team protocol allows.
Episode == INSTANCE TeamEpisode WITH
  at        <- IF ~InTeam THEN "none" ELSE IF phase = "complete" THEN "over" ELSE phase,
  spent     <- phase_step,
  escalated <- escalated_alert_ids # <<>>
ImplementsTeamEpisode == Episode!Spec

-----------------------------------------------------------------------------
(* A driver that plays episodes to their end: it sends actions of the role *)
(* shown in the observation and resets only between episodes, as the       *)
(* episode loops of inference.py and baselines.py do.                      *)

EpisodeLoop == \/ (config = None \/ done) /\ (Reset \/ ResetGenerated)
               \/ Turn

LiveSpec == Init /\ [][EpisodeLoop]_vars /\ WF_vars(Turn)

\* Every episode so driven ends.
EpisodesEnd == Running ~> done

\* A team episode that has an escalation reaches the Manager before it ends.
EscalationsReachOversight ==
  InTeam /\ ~done /\ escalated_alert_ids # <<>> ~> phase = "oversight"

=============================================================================
