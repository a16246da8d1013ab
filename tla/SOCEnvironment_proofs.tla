----------------------- MODULE SOCEnvironment_proofs ------------------------
(***************************************************************************)
(* Proofs about SOCEnvironment, for every set of scenarios, every phase    *)
(* budget and every set of inputs.                                         *)
(***************************************************************************)
EXTENDS SOCEnvironment, FiniteSetTheorems, SequenceTheorems, WellFoundedInduction, TLAPS

-----------------------------------------------------------------------------
(* The units of the ledger.                                                *)

\* A scenario's alert set is finite, so its metric has a denominator.
LEMMA AlertsFinite ==
  ASSUME NEW c \in Scenario
  PROVE  IsFiniteSet(AlertsOf(c)) /\ AlertsOf(c) \subseteq AlertIds
<1> DEFINE f == [n \in 1..Len(c.alerts) |-> c.alerts[n]]
<1>1. c.alerts \in Seq(AlertIds)
  BY DEF Scenario
<1>2. Len(c.alerts) \in Nat
  BY <1>1
<1>3. IsFiniteSet(1..Len(c.alerts))
  BY <1>2, FS_Interval
<1>4. f \in Surjection(1..Len(c.alerts), AlertsOf(c))
  BY DEF Surjection, AlertsOf
<1>5. IsFiniteSet(AlertsOf(c))
  BY <1>3, <1>4, FS_Surjection
<1>6. AlertsOf(c) \subseteq AlertIds
  BY <1>1 DEF AlertsOf
<1> QED
  BY <1>5, <1>6

\* The denominator of the team metric is a positive number.
LEMMA ScaleIsPositive ==
  ASSUME config \in Scenario
  PROVE  Scale \in Nat \ {0}
<1>1. IsFiniteSet(Positives) /\ IsFiniteSet(Negatives)
  BY AlertsFinite, FS_Subset DEF Positives, Negatives
<1>2. Cardinality(Positives) \in Nat /\ Cardinality(Negatives) \in Nat
  BY <1>1, FS_CardinalityType
<1>3. /\ AtLeastOne(Cardinality(Positives)) \in Nat \ {0}
      /\ AtLeastOne(Cardinality(Negatives)) \in Nat \ {0}
  BY <1>2 DEF AtLeastOne
<1>4. \A x, y \in Nat \ {0} : x * y \in Nat \ {0}
  OBVIOUS
<1> QED
  BY <1>3, <1>4 DEF Scale

\* The team metric is a number, whatever the investigations hold.
LEMMA TeamSharedIsNat ==
  ASSUME config \in Scenario, NEW invs
  PROVE  TeamShared(invs) \in Nat
<1> DEFINE contained == {a \in Positives : /\ invs[a].classification = config.truth[a]
                                           /\ \/ invs[a].recommended # {}
                                              \/ invs[a].escalated}
           dismissed == {a \in Negatives : invs[a].classification = "false_positive"}
<1>1. IsFiniteSet(contained) /\ IsFiniteSet(dismissed)
  BY AlertsFinite, FS_Subset DEF Positives, Negatives
<1>2. Cardinality(contained) \in Nat /\ Cardinality(dismissed) \in Nat
  BY <1>1, FS_CardinalityType
<1>3. \A x, y \in Nat : x * y \in Nat
  OBVIOUS
<1> QED
  BY <1>2, <1>3 DEF TeamShared

\* The penalty for a repeated action is a whole number of ledger units.
LEMMA PenaltyIsInt ==
  ASSUME config \in Scenario, IsABag(action_history), NEW sig
  PROVE  LoopPenalty(sig) \in Int
<1>1. Repeats(sig) \in Nat
  BY DEF Repeats, BagIn, BagToSet, IsABag
<1>2. \A r \in Int : Plain(r) \in Int
  BY ScaleIsPositive DEF Plain
<1>3. \A n \in Nat : (IF n > 5 THEN 4 ELSE n - 1) \in Int
  OBVIOUS
<1>4. \A x, y \in Int : x * y \in Int
  OBVIOUS
<1> QED
  BY <1>1, <1>2, <1>3, <1>4 DEF LoopPenalty


\* So is the reward of a dispatched step, blended or not.
LEMMA StepRewardIsInt ==
  ASSUME config \in Scenario, IsABag(action_history), prev_team_shared \in Int,
         NEW sig, NEW r \in Int
  PROVE  StepReward(sig, r) \in Int
<1>1. Scale \in Int /\ LoopPenalty(sig) \in Int
  BY ScaleIsPositive, PenaltyIsInt
<1>2. TeamShared(investigations') \in Int
  BY TeamSharedIsNat
<1>3. \A x, y \in Int : x * y \in Int
  OBVIOUS
<1>4. 6 * r * Scale \in Int /\ 10 * r * Scale \in Int
  BY <1>1, <1>3
<1> QED
  BY <1>1, <1>2, <1>4 DEF StepReward, Plain

-----------------------------------------------------------------------------
(* Phase changes.                                                          *)

\* The configuration in play is a scenario with alerts.
LEMMA ConfigIsScenario ==
  ASSUME TypeOK, config # None
  PROVE  config \in Scenario /\ config.alerts # <<>>
BY ScenarioAssumption DEF TypeOK

\* PhaseAndDoneAgree, with what it needs to be inductive: a team episode is
\* always in a phase, and a solo engine has no config to play as a team.
PhaseInv == /\ PhaseAndDoneAgree
            /\ InTeam => phase \in Phases
            /\ config = None => mode = "tier1_solo"

\* A running team episode is in a phase with a role to act (_current_role).
LEMMA RunningTeamWorks ==
  ASSUME PhaseInv, Running, mode = "team"
  PROVE  phase \in WorkPhases /\ RoleOf[phase] \in Roles
BY DEF PhaseInv, PhaseAndDoneAgree, InTeam, Running, Phases, WorkPhases, RoleOf, Roles

\* The final score lies in [0.001, 0.999] (_finalize_team_episode).
LEMMA ClampRange ==
  ASSUME config \in Scenario, NEW x \in Int
  PROVE  /\ Clamp(x) \in Int
         /\ 100 * Scale <= Clamp(x) /\ Clamp(x) <= 99900 * Scale
BY ScaleIsPositive DEF Clamp

\* A final score in [0.001, 0.999] is paid and booked.
FinalResult(earned, spent, penalty) ==
  /\ phase' = "complete" /\ done' = TRUE /\ phase_step' = spent
  /\ \E final \in Int :
       /\ 100 * Scale <= final /\ final <= 99900 * Scale
       /\ reward' = earned + penalty + final
       /\ cumulative_reward' = cumulative_reward + reward'

\* Finalize ends the episode and books the earned reward, the penalty and the score.
LEMMA FinalizeEffect ==
  ASSUME config \in Scenario, NEW earned \in Int, NEW spent \in Nat, NEW penalty \in Int,
         cumulative_reward \in Int, Finalize(earned, spent, penalty)
  PROVE  FinalResult(earned, spent, penalty)
<1>1. PICK g \in GraderScores :
        LET final == Clamp(60 * g * Scale + 40000 * TeamShared(investigations'))
        IN  /\ reward' = earned + penalty + final
            /\ cumulative_reward' = cumulative_reward + earned + penalty + final
  BY DEF Finalize
<1> DEFINE blend == 60 * g * Scale + 40000 * TeamShared(investigations')
<1>2. g \in Int /\ Scale \in Int /\ TeamShared(investigations') \in Int
  BY RewardAssumption, ScaleIsPositive, TeamSharedIsNat
<1>3. 60 * g * Scale \in Int
  <2>1. \A x, y \in Int : x * y \in Int
    OBVIOUS
  <2> QED
    BY <1>2, <2>1
<1>4. blend \in Int
  BY <1>2, <1>3
<1> HIDE DEF blend
<1>5. /\ Clamp(blend) \in Int
      /\ 100 * Scale <= Clamp(blend) /\ Clamp(blend) <= 99900 * Scale
  BY <1>4, ClampRange
<1>6. /\ reward' = earned + penalty + Clamp(blend)
      /\ cumulative_reward' = cumulative_reward + reward'
  BY <1>1, <1>5 DEF blend
<1>7. phase' = "complete" /\ done' = TRUE /\ phase_step' = spent
  BY DEF Finalize
<1> QED
  BY <1>5, <1>6, <1>7 DEF FinalResult

\* Whatever ends a phase pays `earned' and, at the end of the episode, a final
\* score less at most the penalty for a triage without escalations.
AdvanceResult(earned) ==
  /\ phase' \in {"response", "oversight", "complete"}
  /\ phase_step' \in Nat /\ (phase' # "complete" => phase_step' = 0)
  /\ done' \in BOOLEAN /\ (done' <=> phase' = "complete")
  /\ \E terminal \in Int :
       /\ reward' = earned + terminal
       /\ cumulative_reward' = cumulative_reward + reward'
       /\ phase' # "complete" => terminal = 0
       /\ phase' = "complete" => /\ 100 * Scale <= terminal + Plain(1000)
                                 /\ terminal <= 99900 * Scale

\* Advancing a phase books the earned reward and, at the end, a bounded terminal part.
LEMMA AdvanceEffect ==
  ASSUME TypeOK, Running, NEW earned \in Int, NEW spent \in Nat,
         AdvancePhase(earned, spent)
  PROVE  AdvanceResult(earned)
<1>1. config \in Scenario /\ cumulative_reward \in Int /\ done = FALSE
  BY ConfigIsScenario DEF Running, TypeOK
<1>2. Scale \in Nat \ {0} /\ Plain(1000) = 10000 * Scale /\ Plain(-1000) = -10000 * Scale
  BY <1>1, ScaleIsPositive DEF Plain
<1>3. ASSUME NEW penalty \in Int, penalty \in {0, Plain(-1000)},
             Finalize(earned, spent, penalty)
      PROVE  AdvanceResult(earned)
  <2>1. FinalResult(earned, spent, penalty)
    BY <1>1, <1>3, FinalizeEffect
  <2>2. PICK final \in Int :
          /\ 100 * Scale <= final /\ final <= 99900 * Scale
          /\ reward' = earned + penalty + final
          /\ cumulative_reward' = cumulative_reward + reward'
    BY <2>1 DEF FinalResult
  <2>3. phase' = "complete" /\ done' = TRUE /\ phase_step' = spent
    BY <2>1 DEF FinalResult
  <2> DEFINE terminal == penalty + final
  <2>4. terminal \in Int /\ reward' = earned + terminal
    BY <1>3, <2>2
  <2>5. 100 * Scale <= terminal + Plain(1000) /\ terminal <= 99900 * Scale
    BY <1>2, <1>3, <2>2
  <2> HIDE DEF terminal
  <2>6. \E t \in Int :
          /\ reward' = earned + t
          /\ cumulative_reward' = cumulative_reward + reward'
          /\ phase' # "complete" => t = 0
          /\ phase' = "complete" => /\ 100 * Scale <= t + Plain(1000)
                                    /\ t <= 99900 * Scale
    BY <2>2, <2>3, <2>4, <2>5
  <2> QED
    BY <2>3, <2>6 DEF AdvanceResult
<1>4. ASSUME NEW next \in {"response", "oversight"}, Enter(next, earned)
      PROVE  AdvanceResult(earned)
  <2>1. /\ phase' = next /\ phase_step' = 0 /\ done' = FALSE
        /\ reward' = earned + 0
        /\ cumulative_reward' = cumulative_reward + reward'
    BY <1>1, <1>4 DEF Enter
  <2>2. \E t \in Int :
          /\ reward' = earned + t
          /\ cumulative_reward' = cumulative_reward + reward'
          /\ phase' # "complete" => t = 0
          /\ phase' = "complete" => /\ 100 * Scale <= t + Plain(1000)
                                    /\ t <= 99900 * Scale
    BY <2>1
  <2>3. phase' \in {"response", "oversight", "complete"} /\ phase' # "complete"
    BY <2>1
  <2>4. done' \in BOOLEAN /\ (done' <=> phase' = "complete")
    BY <2>1, <2>3
  <2>5. phase_step' \in Nat /\ (phase' # "complete" => phase_step' = 0)
    BY <2>1
  <2> QED
    BY <2>2, <2>3, <2>4, <2>5 DEF AdvanceResult
<1>5. CASE phase = "triage" /\ Finalize(earned, spent, IF config.required = {} THEN 0
                                                                        ELSE Plain(-1000))
  <2> DEFINE charge == IF config.required = {} THEN 0 ELSE Plain(-1000)
  <2>1. Finalize(earned, spent, charge)
    BY <1>5
  <2>2. charge \in Int /\ charge \in {0, Plain(-1000)}
    BY <1>2
  <2> HIDE DEF charge
  <2> QED
    BY <1>3, <2>1, <2>2
<1>6. CASE \E next \in {"response", "oversight"} : Enter(next, earned)
  BY <1>4, <1>6
<1>7. CASE phase = "oversight" /\ Finalize(earned, spent, 0)
  BY <1>3, <1>7
<1> QED
  BY <1>5, <1>6, <1>7 DEF AdvancePhase

\* Where a phase that ends after `spent' counted turns hands over to.
Handover(spent) ==
  /\ phase = "triage" => \/ phase' = "response" /\ escalated_alert_ids' # <<>>
                         \/ phase' = "complete" /\ escalated_alert_ids' = <<>>
  /\ phase = "response" => phase' = "oversight"
  /\ phase = "oversight" => phase' = "complete"
  /\ phase' = "complete" => phase_step' = spent

\* Where each phase leads, and what becomes of the phase counter (_advance_phase).
LEMMA HandoverEffect ==
  ASSUME NEW earned, NEW spent, AdvancePhase(earned, spent)
  PROVE  Handover(spent)
BY DEF AdvancePhase, Handover, Enter, Finalize

PhaseEnds(earned, spent) == AdvanceResult(earned) /\ Handover(spent)

\* What every dispatched turn does to the counters and the ledger.
CommitResult(pay) ==
  /\ step' = step + 1
  /\ UNCHANGED <<config, generated, mode>>
  /\ IsABag(action_history')
  /\ \E sig : action_history' = action_history (+) SetToBag({sig})
  /\ mode = "team" =>
       /\ prev_team_shared' = TeamShared(investigations')
       /\ role_reward' = [role_reward EXCEPT ![RoleOf[phase]] = @ + pay]
       /\ \/ /\ phase_step' = phase_step + 1 /\ phase_step + 1 < PhaseBudget[phase]
             /\ reward' = pay /\ cumulative_reward' = cumulative_reward + pay
             /\ UNCHANGED <<phase, done>>
          \/ PhaseEnds(pay, phase_step + 1)
  /\ mode = "tier1_solo" =>
       /\ UNCHANGED <<phase, phase_step, prev_team_shared, role_reward>>
       /\ reward' \in Int /\ cumulative_reward' \in Int /\ done' \in BOOLEAN
       /\ done' <=> step + 1 >= config.max_steps

\* The action history stays a bag when a signature is added.
LEMMA HistoryGrows ==
  ASSUME NEW history, IsABag(history), NEW sig
  PROVE  IsABag(history (+) SetToBag({sig}))
<1> DEFINE one == SetToBag({sig})
           both == history (+) one
           sum(e) == (IF e \in DOMAIN history THEN history[e] ELSE 0)
                       + (IF e \in DOMAIN one THEN one[e] ELSE 0)
<1>1. DOMAIN one = {sig} /\ one[sig] = 1
  BY DEF SetToBag
<1>2. \A e \in DOMAIN history : history[e] \in Nat /\ history[e] > 0
  BY DEF IsABag
<1>3. both = [e \in DOMAIN history \cup DOMAIN one |-> sum(e)]
  BY DEF (+)
<1>4. \A e \in DOMAIN history \cup DOMAIN one : sum(e) \in {n \in Nat : n > 0}
  BY <1>1, <1>2
<1> HIDE DEF sum, one
<1>5. both \in [DOMAIN history \cup DOMAIN one -> {n \in Nat : n > 0}]
  BY <1>3, <1>4
<1>6. DOMAIN both = DOMAIN history \cup DOMAIN one
  BY <1>3
<1> QED
  BY <1>5, <1>6 DEF IsABag, one

\* The tail of step() keeps the books typed and moves the phase only as it may.
LEMMA CommitEffect ==
  ASSUME TypeOK, PhaseInv, Running, NEW sig, NEW r \in Int, Commit(sig, r)
  PROVE  \E pay \in Int : CommitResult(pay)
<1> DEFINE pay == StepReward(sig, r)
<1>1. config \in Scenario
  BY ConfigIsScenario DEF Running
<1>2. pay \in Int
  BY <1>1, StepRewardIsInt DEF TypeOK
<1>3. IsABag(action_history') /\ \E s : action_history' = action_history (+) SetToBag({s})
  <2>1. action_history' = action_history (+) SetToBag({sig})
    BY DEF Commit
  <2>2. IsABag(action_history)
    BY DEF TypeOK
  <2> QED
    BY <2>1, <2>2, HistoryGrows
<1>4. /\ step' = step + 1 /\ UNCHANGED <<config, generated, mode>>
      /\ mode = "team" => TeamTail(pay)
      /\ mode = "tier1_solo" => SoloTail(pay)
  BY DEF Commit
<1> HIDE DEF pay
<1>5. ASSUME mode = "team", ~(phase_step + 1 < PhaseBudget[phase])
      PROVE  PhaseEnds(pay, phase_step + 1)
  <2>1. AdvancePhase(pay, phase_step + 1)
    BY <1>4, <1>5 DEF TeamTail
  <2>2. phase_step + 1 \in Nat
    BY DEF TypeOK
  <2> QED
    BY <1>2, <2>1, <2>2, AdvanceEffect, HandoverEffect DEF PhaseEnds
<1>6. ASSUME mode = "tier1_solo"
      PROVE  reward' \in Int /\ cumulative_reward' \in Int /\ done' \in BOOLEAN
  <2>1. IsFiniteSet(MissedPositives(investigations'))
    BY <1>1, AlertsFinite, FS_Subset DEF MissedPositives
  <2>2. Cardinality(MissedPositives(investigations')) \in Int
    BY <2>1, FS_CardinalityType
  <2>3. Plain(5000) \in Int
    BY <1>1, ScaleIsPositive DEF Plain
  <2>4. \A x, y \in Int : x * y \in Int
    OBVIOUS
  <2>5. Overtime \in Int
    BY <2>2, <2>3, <2>4 DEF Overtime
  <2>6. cumulative_reward \in Int
    BY DEF TypeOK
  <2> QED
    BY <1>2, <1>4, <1>6, <2>5, <2>6 DEF SoloTail
<1>7. ASSUME mode = "team"
      PROVE  /\ prev_team_shared' = TeamShared(investigations')
             /\ role_reward' = [role_reward EXCEPT ![RoleOf[phase]] = @ + pay]
             /\ \/ /\ phase_step' = phase_step + 1 /\ phase_step + 1 < PhaseBudget[phase]
                   /\ reward' = pay /\ cumulative_reward' = cumulative_reward + pay
                   /\ UNCHANGED <<phase, done>>
                \/ PhaseEnds(pay, phase_step + 1)
  <2>1. TeamTail(pay)
    BY <1>4, <1>7
  <2>2. /\ prev_team_shared' = TeamShared(investigations')
        /\ role_reward' = [role_reward EXCEPT ![RoleOf[phase]] = @ + pay]
    BY <2>1 DEF TeamTail
  <2>3. CASE phase_step + 1 < PhaseBudget[phase]
    <3>1. ~(phase_step + 1 >= PhaseBudget[phase])
      BY <1>7, <2>3, RunningTeamWorks, BudgetAssumption DEF TypeOK
    <3> QED
      BY <2>1, <2>2, <2>3, <3>1 DEF TeamTail
  <2>4. CASE ~(phase_step + 1 < PhaseBudget[phase])
    BY <1>5, <1>7, <2>2, <2>4
  <2> QED
    BY <2>3, <2>4
<1>8. ASSUME mode = "tier1_solo"
      PROVE  /\ UNCHANGED <<phase, phase_step, prev_team_shared, role_reward>>
             /\ done' <=> step + 1 >= config.max_steps
  BY <1>4, <1>8 DEF SoloTail
<1>9. CommitResult(pay)
  BY <1>3, <1>4, <1>6, <1>7, <1>8 DEF CommitResult
<1> QED
  BY <1>2, <1>9
-----------------------------------------------------------------------------
(* What a dispatched handler does to the case, before the bookkeeping.     *)

CaseTyped ==
  /\ investigations' \in [AlertsOf(config) -> Investigation]
  /\ alert_class' \in [AlertsOf(config) -> Classifications]
  /\ escalated_alert_ids' \in Seq(AlertsOf(config))
  /\ tickets' \in Seq(TicketType) /\ containments' \in Nat

\* Only triage escalates, and an escalation is never withdrawn.
EscalationGrows ==
  \/ UNCHANGED escalated_alert_ids
  \/ escalated_alert_ids' # <<>> /\ (mode = "team" => phase = "triage")

HandlerEffect == CaseTyped /\ EscalationGrows /\ \E pay \in Int : CommitResult(pay)

\* In a running episode the case is over the alerts of a scenario.
LEMMA CaseIsTyped ==
  ASSUME TypeOK, Running
  PROVE  /\ investigations \in [AlertsOf(config) -> Investigation]
         /\ alert_class \in [AlertsOf(config) -> Classifications]
         /\ escalated_alert_ids \in Seq(AlertsOf(config))
         /\ tickets \in Seq(TicketType) /\ containments \in Nat /\ step \in Nat
         /\ AlertsOf(config) \subseteq AlertIds
<1>1. config \in Scenario
  BY ConfigIsScenario DEF Running
<1> QED
  BY <1>1, AlertsFinite DEF TypeOK, Running

\* A handler that only edits the investigations and the queue.
LEMMA CaseworkHandler ==
  ASSUME TypeOK, PhaseInv, Running, NEW sig, NEW r \in Int, Commit(sig, r),
         UNCHANGED handoff,
         investigations' \in [AlertsOf(config) -> Investigation],
         alert_class' \in [AlertsOf(config) -> Classifications]
  PROVE  HandlerEffect
<1>1. UNCHANGED <<escalated_alert_ids, tickets, containments>>
  BY DEF handoff
<1>2. CaseTyped
  BY <1>1, CaseIsTyped DEF CaseTyped
<1>3. EscalationGrows
  BY <1>1 DEF EscalationGrows
<1>4. \E pay \in Int : CommitResult(pay)
  BY CommitEffect
<1> QED
  BY <1>2, <1>3, <1>4 DEF HandlerEffect

\* A handler that leaves the case alone.
LEMMA IdleHandler ==
  ASSUME TypeOK, PhaseInv, Running, NEW sig, NEW r \in Int, Commit(sig, r),
         UNCHANGED <<casework, handoff>>
  PROVE  HandlerEffect
<1>1. UNCHANGED handoff /\ UNCHANGED <<investigations, alert_class>>
  BY DEF casework
<1>2. /\ investigations' \in [AlertsOf(config) -> Investigation]
      /\ alert_class' \in [AlertsOf(config) -> Classifications]
  BY <1>1, CaseIsTyped
<1> QED
  BY <1>1, <1>2, CaseworkHandler

\* A handler outside triage that may issue a ticket.
LEMMA TicketHandler ==
  ASSUME TypeOK, PhaseInv, Running, NEW sig, NEW r \in Int, Commit(sig, r),
         UNCHANGED <<alert_class, escalated_alert_ids>>,
         investigations' \in [AlertsOf(config) -> Investigation],
         tickets' \in Seq(TicketType), containments' \in Nat
  PROVE  HandlerEffect
<1>1. CaseTyped
  BY CaseIsTyped DEF CaseTyped
<1>2. EscalationGrows
  BY DEF EscalationGrows
<1>3. \E pay \in Int : CommitResult(pay)
  BY CommitEffect
<1> QED
  BY <1>1, <1>2, <1>3 DEF HandlerEffect

-----------------------------------------------------------------------------
(* The alerts a handler picks.                                             *)

\* A non-empty set of positions in a queue has a least member.
LEMMA LeastExists ==
  ASSUME NEW T \in SUBSET Nat, T # {}
  PROVE  \E n \in T : \A m \in T : n <= m
<1> DEFINE Below == {ss \in Nat \X Nat : ss[1] < ss[2]}
<1>1. IsWellFoundedOn(Below, Nat)
  BY NatLessThanWellFounded DEF OpToRel
<1> HIDE DEF Below
<1>2. PICK n \in T : \A m \in T : ~ (<<m, n>> \in Below)
  BY <1>1, WFMin, Zenon
<1>3. \A m \in T : ~(m < n)
  BY <1>2 DEF Below
<1> QED
  BY <1>3

\* The alert that stands in for an omitted id exists.
LEMMA FirstAlert ==
  ASSUME TypeOK, Running
  PROVE  /\ config.alerts \in Seq(AlertIds) /\ Len(config.alerts) \in Nat \ {0}
         /\ \A n \in 1..Len(config.alerts) : config.alerts[n] \in AlertsOf(config)
         /\ config.alerts[1] \in AlertsOf(config)
<1>1. config \in Scenario /\ config.alerts # <<>>
  BY ConfigIsScenario DEF Running
<1>2. config.alerts \in Seq(AlertIds)
  BY <1>1 DEF Scenario
<1>3. Len(config.alerts) \in Nat \ {0}
  BY <1>1, <1>2
<1>4. \A n \in 1..Len(config.alerts) : config.alerts[n] \in AlertsOf(config)
  BY DEF AlertsOf
<1> QED
  BY <1>2, <1>3, <1>4

\* The alert found for an observable is one of the queue (_infer_alert_id_from_indicator).
LEMMA AlertOfKnown ==
  ASSUME TypeOK, Running, NEW x
  PROVE  AlertOf(x) \in AlertsOf(config)
<1> DEFINE hits == {n \in 1..Len(config.alerts) : x \in config.observables[config.alerts[n]]}
<1>1. CASE hits = {}
  BY <1>1, FirstAlert DEF AlertOf
<1>2. CASE hits # {}
  <2>1. hits \in SUBSET Nat /\ hits \subseteq 1..Len(config.alerts)
    BY FirstAlert
  <2>2. \E n \in hits : \A m \in hits : n <= m
    BY <1>2, <2>1, LeastExists
  <2> DEFINE first == CHOOSE n \in hits : \A m \in hits : n <= m
  <2>3. first \in hits
    BY <2>2
  <2>4. AlertOf(x) = config.alerts[first]
    BY <1>2 DEF AlertOf
  <2> HIDE DEF first, hits
  <2> QED
    BY <2>1, <2>3, <2>4, FirstAlert
<1> QED
  BY <1>1, <1>2

\* Known ids are those of the scenario's alerts.
LEMMA KnownIsAlert ==
  ASSUME TypeOK, Running, NEW a
  PROVE  /\ Known(a) <=> a \in AlertsOf(config)
         /\ Owner(a) \in AlertsOf(config)
BY CaseIsTyped, FirstAlert DEF Known, Owner
-----------------------------------------------------------------------------
(* Edits of one investigation.                                             *)

\* Replacing one investigation by another leaves the investigations typed.
LEMMA EditTyped ==
  ASSUME TypeOK, Running, NEW a \in AlertsOf(config), NEW inv \in Investigation,
         investigations' = [investigations EXCEPT ![a] = inv]
  PROVE  investigations' \in [AlertsOf(config) -> Investigation]
BY CaseIsTyped

\* Every alert of the queue has an investigation.
LEMMA InvestigationOf ==
  ASSUME TypeOK, Running, NEW a \in AlertsOf(config)
  PROVE  investigations[a] \in Investigation
BY CaseIsTyped

\* Noting an indicator leaves an investigation.
LEMMA EnrichTyped ==
  ASSUME NEW inv \in Investigation, NEW i \in Indicators
  PROVE  Noted(inv, "enriched", i) \in Investigation
BY DEF Noted, Investigation

\* Noting a log source leaves an investigation.
LEMMA QueryTyped ==
  ASSUME NEW inv \in Investigation, NEW s \in LogSources
  PROVE  Noted(inv, "queried", s) \in Investigation
BY DEF Noted, Investigation

\* Noting a link leaves an investigation.
LEMMA CorrelateTyped ==
  ASSUME NEW inv \in Investigation, NEW pair \in SUBSET AlertIds
  PROVE  [inv EXCEPT !["correlated"] = @ \cup {pair}] \in Investigation
BY DEF Investigation

\* Noting a host or user leaves an investigation.
LEMMA LookupTyped ==
  ASSUME NEW inv \in Investigation, NEW x \in Hosts \cup Users
  PROVE  Noted(inv, "looked_up", x) \in Investigation
BY DEF Noted, Investigation

\* Noting a technique leaves an investigation.
LEMMA MapTyped ==
  ASSUME NEW inv \in Investigation, NEW t \in Techniques
  PROVE  Noted(inv, "mapped", t) \in Investigation
BY DEF Noted, Investigation

\* Noting a response leaves an investigation.
LEMMA RecommendTyped ==
  ASSUME NEW inv \in Investigation, NEW x \in ResponseActions
  PROVE  Noted(inv, "recommended", x) \in Investigation
BY DEF Noted, Investigation

\* A new classification leaves an investigation.
LEMMA VerdictTyped ==
  ASSUME NEW inv \in Investigation, NEW c \in Verdicts
  PROVE  [inv EXCEPT !.classification = c] \in Investigation
BY InputAssumption DEF Investigation

\* Marking it escalated or closed leaves an investigation.
LEMMA MarkTyped ==
  ASSUME NEW inv \in Investigation
  PROVE  /\ [inv EXCEPT !.escalated = TRUE] \in Investigation
         /\ [inv EXCEPT !.closed = TRUE] \in Investigation
BY DEF Investigation

-----------------------------------------------------------------------------
(* The handlers.                                                           *)

\* A handler runs only in an episode in progress.
LEMMA PermittedRuns ==
  ASSUME NEW kind, Permitted(kind)
  PROVE  Running
BY DEF Permitted

\* noop is a handler that keeps the state typed and books its reward.
LEMMA NoopEffect ==
  ASSUME TypeOK, PhaseInv, Noop
  PROVE  HandlerEffect
BY IdleHandler DEF Noop, Permitted

\* So is an action outside the role's set.
LEMMA ForbiddenEffect ==
  ASSUME TypeOK, PhaseInv, NEW kind, Forbidden(kind)
  PROVE  HandlerEffect
BY IdleHandler DEF Forbidden

\* So is an action with a missing or unknown parameter.
LEMMA IncompleteEffect ==
  ASSUME TypeOK, PhaseInv, NEW kind, Incomplete(kind)
  PROVE  HandlerEffect
<1> DEFINE r == IF kind \in {"enrich_indicator", "query_logs", "correlate_alerts",
                             "check_asset", "check_user", "classify_alert"}
                  THEN -300 ELSE -200
<1>1. Running /\ UNCHANGED <<casework, handoff>> /\ Commit(<<kind>>, r)
  BY DEF Incomplete, Permitted
<1>2. r \in Int
  OBVIOUS
<1> HIDE DEF r
<1> QED
  BY <1>1, <1>2, IdleHandler

\* So is explain_team_behavior, whatever the judge answers.
LEMMA ExplainEffect ==
  ASSUME TypeOK, PhaseInv, ExplainTeamBehavior
  PROVE  HandlerEffect
<1>1. PICK r \in JudgeRewards : Commit(<<"explain_team_behavior">>, r)
  BY DEF ExplainTeamBehavior
<1>2. Running /\ UNCHANGED <<casework, handoff>> /\ r \in Int
  BY RewardAssumption DEF ExplainTeamBehavior, Permitted
<1> QED
  BY <1>1, <1>2, IdleHandler

\* So is enrich_indicator.
LEMMA EnrichEffect ==
  ASSUME TypeOK, PhaseInv, NEW i \in Indicators, NEW q, Enrich(i, q)
  PROVE  HandlerEffect
<1> DEFINE a == Owner(IF q = None THEN AlertOf(i) ELSE q)
           r == EnrichReward(a, i)
           inv == Noted(investigations[a], "enriched", i)
<1>0. /\ Running /\ Commit(<<"enrich_indicator", i, q>>, r)
      /\ Record(a, "enriched", i) /\ alert_class' = alert_class /\ UNCHANGED handoff
  BY Zenon DEF Enrich, Permitted
<1>1. investigations' = [investigations EXCEPT ![a] = inv]
  BY <1>0, Zenon DEF Record
<1>2. r \in Int
  BY DEF EnrichReward
<1>3. a \in AlertsOf(config)
  BY <1>0, <1>1, KnownIsAlert
<1> HIDE DEF a, r
<1>4. inv \in Investigation
  BY <1>0, <1>1, <1>3, InvestigationOf, EnrichTyped
<1> HIDE DEF inv
<1>5. /\ investigations' \in [AlertsOf(config) -> Investigation]
      /\ alert_class' \in [AlertsOf(config) -> Classifications]
  BY <1>0, <1>1, <1>3, <1>4, EditTyped, CaseIsTyped
<1> QED
  BY <1>0, <1>1, <1>2, <1>5, CaseworkHandler

\* So is query_logs.
LEMMA QueryLogsEffect ==
  ASSUME TypeOK, PhaseInv, NEW s \in LogSources, NEW q, QueryLogs(s, q)
  PROVE  HandlerEffect
<1> DEFINE a == OrFirst(q)
           r == IF s \in investigations[a].queried THEN -300
                ELSE IF s \notin config.relevant[a] THEN -500
                ELSE IF config.log_db[a][s] = {} THEN 0 ELSE 1000
           inv == Noted(investigations[a], "queried", s)
<1>0. /\ Running /\ Known(a) /\ Commit(<<"query_logs", s, q>>, r)
      /\ Record(a, "queried", s) /\ alert_class' = alert_class /\ UNCHANGED handoff
  BY Zenon DEF QueryLogs, Permitted
<1>1. investigations' = [investigations EXCEPT ![a] = inv]
  BY <1>0, Zenon DEF Record
<1>2. r \in Int
  OBVIOUS
<1>3. a \in AlertsOf(config)
  BY <1>0, <1>1, KnownIsAlert
<1> HIDE DEF a, r
<1>4. inv \in Investigation
  BY <1>0, <1>1, <1>3, InvestigationOf, QueryTyped
<1> HIDE DEF inv
<1>5. /\ investigations' \in [AlertsOf(config) -> Investigation]
      /\ alert_class' \in [AlertsOf(config) -> Classifications]
  BY <1>0, <1>1, <1>3, <1>4, EditTyped, CaseIsTyped
<1> QED
  BY <1>0, <1>1, <1>2, <1>5, CaseworkHandler

\* So is correlate_alerts, which edits two investigations.
LEMMA CorrelateEffect ==
  ASSUME TypeOK, PhaseInv, NEW a, NEW b, Correlate(a, b)
  PROVE  HandlerEffect
<1> DEFINE pair == {a, b}
           again == pair \in investigations[a].correlated
           r == IF again THEN 0
                ELSE IF pair \notin config.linked THEN -300
                ELSE IF pair \in config.chain THEN 3000 ELSE 2000
           inv(x) == [investigations[x] EXCEPT !["correlated"] = @ \cup {pair}]
<1>1. /\ Running /\ Known(a) /\ Known(b) /\ Commit(<<"correlate_alerts", a, b>>, r)
      /\ investigations' = [x \in DOMAIN investigations |->
                              IF x \in pair /\ (again \/ pair \in config.linked)
                                THEN inv(x) ELSE investigations[x]]
      /\ alert_class' = alert_class /\ UNCHANGED handoff
  BY DEF Correlate, Permitted
<1>2. r \in Int
  OBVIOUS
<1>3. pair \in SUBSET AlertIds
  BY <1>1, KnownIsAlert, CaseIsTyped
<1> HIDE DEF pair, again, r
<1>4. \A x \in AlertsOf(config) : investigations[x] \in Investigation /\ inv(x) \in Investigation
  BY <1>1, <1>3, InvestigationOf, CorrelateTyped
<1> HIDE DEF inv
<1>5. DOMAIN investigations = AlertsOf(config)
  BY <1>1, CaseIsTyped
<1>6. investigations' \in [AlertsOf(config) -> Investigation]
  BY <1>1, <1>4, <1>5
<1>7. alert_class' \in [AlertsOf(config) -> Classifications]
  BY <1>1, CaseIsTyped
<1> QED
  BY <1>1, <1>2, <1>6, <1>7, CaseworkHandler

\* So are check_asset and check_user.
LEMMA CheckDirectoryEffect ==
  ASSUME TypeOK, PhaseInv, NEW kind, NEW x \in Hosts \cup Users, CheckDirectory(kind, x)
  PROVE  HandlerEffect
<1> DEFINE a == AlertOf(x)
           r == IF x \in investigations[a].looked_up THEN 0
                ELSE IF x \in config.directory
                       THEN IF SeenInLogs(a, x) THEN 500 ELSE 200
                       ELSE IF SeenInLogs(a, x) THEN 0 ELSE -300
           inv == Noted(investigations[a], "looked_up", x)
<1>0. /\ Running /\ Commit(<<kind, x>>, r)
      /\ Record(a, "looked_up", x) \/ investigations' = investigations
      /\ alert_class' = alert_class /\ UNCHANGED handoff
  BY Zenon DEF CheckDirectory, Permitted
<1>1. \/ investigations' = [investigations EXCEPT ![a] = inv]
      \/ investigations' = investigations
  BY <1>0, Zenon DEF Record
<1>2. r \in Int
  OBVIOUS
<1>3. a \in AlertsOf(config)
  BY <1>0, <1>1, AlertOfKnown
<1> HIDE DEF a, r
<1>4. inv \in Investigation
  BY <1>0, <1>1, <1>3, InvestigationOf, LookupTyped
<1> HIDE DEF inv
<1>5. /\ investigations' \in [AlertsOf(config) -> Investigation]
      /\ alert_class' \in [AlertsOf(config) -> Classifications]
  BY <1>0, <1>1, <1>3, <1>4, EditTyped, CaseIsTyped
<1> QED
  BY <1>0, <1>1, <1>2, <1>5, CaseworkHandler
\* So is classify_alert, which edits the queue as well.
LEMMA ClassifyEffect ==
  ASSUME TypeOK, PhaseInv, NEW a, NEW c \in Verdicts, Classify(a, c)
  PROVE  HandlerEffect
<1> DEFINE r == IF ~HasEvidence(investigations[a]) THEN -1000
                ELSE IF c = config.truth[a] THEN 3000 ELSE -2000
           inv == [investigations[a] EXCEPT !.classification = c]
<1>1. /\ Running /\ Known(a) /\ Commit(<<"classify_alert", a, c>>, r)
      /\ investigations' = [investigations EXCEPT ![a].classification = c]
      /\ alert_class' = [alert_class EXCEPT ![a] = c] /\ UNCHANGED handoff
  BY Zenon DEF Classify, Permitted
<1>2. investigations' = [investigations EXCEPT ![a] = inv]
  BY <1>1
<1>3. r \in Int
  OBVIOUS
<1>4. a \in AlertsOf(config)
  BY <1>1, KnownIsAlert
<1>5. inv \in Investigation
  BY <1>1, <1>4, InvestigationOf, VerdictTyped
<1> HIDE DEF inv, r
<1>6. c \in Classifications
  BY InputAssumption
<1>7. /\ investigations' \in [AlertsOf(config) -> Investigation]
      /\ alert_class' \in [AlertsOf(config) -> Classifications]
  BY <1>1, <1>2, <1>4, <1>5, <1>6, EditTyped, CaseIsTyped
<1> QED
  BY <1>1, <1>3, <1>7, CaseworkHandler

\* So is map_technique.
LEMMA MapTechniqueEffect ==
  ASSUME TypeOK, PhaseInv, NEW b, NEW t \in Techniques, MapTechnique(b, t)
  PROVE  HandlerEffect
<1> DEFINE a == OrFirst(b)
           r == IF t \in config.techniques[a] THEN 500
                ELSE IF \E e \in config.techniques[a] : ParentOf[e] = ParentOf[t] THEN 200
                ELSE -100
           inv == Noted(investigations[a], "mapped", t)
<1>1. /\ Running /\ Known(a) /\ Commit(<<"map_technique", b, t>>, r)
      /\ Record(a, "mapped", t) /\ alert_class' = alert_class /\ UNCHANGED handoff
  BY Zenon DEF MapTechnique, Permitted
<1>2. investigations' = [investigations EXCEPT ![a] = inv]
  BY <1>1, Zenon DEF Record
<1>3. r \in Int
  OBVIOUS
<1>4. a \in AlertsOf(config)
  BY <1>1, KnownIsAlert
<1> HIDE DEF a, r
<1>5. inv \in Investigation
  BY <1>1, <1>4, InvestigationOf, MapTyped
<1> HIDE DEF inv
<1>6. /\ investigations' \in [AlertsOf(config) -> Investigation]
      /\ alert_class' \in [AlertsOf(config) -> Classifications]
  BY <1>1, <1>2, <1>4, <1>5, EditTyped, CaseIsTyped
<1> QED
  BY <1>1, <1>3, <1>6, CaseworkHandler

\* So is recommend_action.
LEMMA RecommendEffect ==
  ASSUME TypeOK, PhaseInv, NEW b, NEW x \in ResponseActions, RecommendAction(b, x)
  PROVE  HandlerEffect
<1> DEFINE a == OrFirst(b)
           r == IF x = "no_action"
                  THEN IF config.truth[a] = "false_positive" THEN 500 ELSE -1000
                  ELSE IF x \in config.responses[a] THEN 800 ELSE 200
           inv == Noted(investigations[a], "recommended", x)
<1>1. /\ Running /\ Known(a) /\ Commit(<<"recommend_action", b, x>>, r)
      /\ Record(a, "recommended", x) /\ alert_class' = alert_class /\ UNCHANGED handoff
  BY Zenon DEF RecommendAction, Permitted
<1>2. investigations' = [investigations EXCEPT ![a] = inv]
  BY <1>1, Zenon DEF Record
<1>3. r \in Int
  OBVIOUS
<1>4. a \in AlertsOf(config)
  BY <1>1, KnownIsAlert
<1> HIDE DEF a, r
<1>5. inv \in Investigation
  BY <1>1, <1>4, InvestigationOf, RecommendTyped
<1> HIDE DEF inv
<1>6. /\ investigations' \in [AlertsOf(config) -> Investigation]
      /\ alert_class' \in [AlertsOf(config) -> Classifications]
  BY <1>1, <1>2, <1>4, <1>5, EditTyped, CaseIsTyped
<1> QED
  BY <1>1, <1>3, <1>6, CaseworkHandler

\* Both escalations mark one investigation.
LEMMA MarkEscalated ==
  ASSUME TypeOK, Running, NEW a, Known(a),
         investigations' = [investigations EXCEPT ![a].escalated = TRUE]
  PROVE  investigations' \in [AlertsOf(config) -> Investigation]
<1> DEFINE inv == [investigations[a] EXCEPT !.escalated = TRUE]
<1>1. investigations' = [investigations EXCEPT ![a] = inv]
  OBVIOUS
<1>2. a \in AlertsOf(config)
  BY KnownIsAlert
<1>3. inv \in Investigation
  BY <1>2, InvestigationOf, MarkTyped
<1> HIDE DEF inv
<1> QED
  BY <1>1, <1>2, <1>3, EditTyped

\* So is escalate, which leaves the escalation list alone.
LEMMA EscalateEffect ==
  ASSUME TypeOK, PhaseInv, NEW b, Escalate(b)
  PROVE  HandlerEffect
<1> DEFINE a == OrFirst(b)
           r == CASE config.truth[a] = "true_positive"  -> 500
                  [] config.truth[a] = "false_positive" -> -1000
                  [] OTHER -> 200
<1>1. /\ Running /\ Known(a) /\ Commit(<<"escalate", b>>, r)
      /\ investigations' = [investigations EXCEPT ![a].escalated = TRUE]
      /\ alert_class' = alert_class /\ UNCHANGED handoff
  BY Zenon DEF Escalate, Permitted
<1>2. r \in Int
  OBVIOUS
<1> HIDE DEF a, r
<1>3. /\ investigations' \in [AlertsOf(config) -> Investigation]
      /\ alert_class' \in [AlertsOf(config) -> Classifications]
  BY <1>1, MarkEscalated, CaseIsTyped
<1> QED
  BY <1>1, <1>2, <1>3, CaseworkHandler
\* Issuing a ticket leaves the tickets typed.
LEMMA TicketTyped ==
  ASSUME TypeOK, Running, NEW kind \in TicketKinds, NEW a \in AlertIds, NEW from \in Roles,
         NEW to \in Roles \cup {None}, NEW valid \in BOOLEAN,
         IssueTicket(kind, a, from, to, valid)
  PROVE  tickets' \in Seq(TicketType)
<1>1. Ticket(kind, a, from, to, valid) \in TicketType
  BY CaseIsTyped DEF Ticket, TicketType
<1>2. tickets' = Append(tickets, Ticket(kind, a, from, to, valid))
  BY DEF IssueTicket
<1> QED
  BY <1>1, <1>2, CaseIsTyped, AppendProperties

\* The action sets of the roles keep escalation to triage.
LEMMA OnlyTriageEscalates ==
  ASSUME PhaseInv, Permitted("escalate_to_tier2"), mode = "team"
  PROVE  phase = "triage"
<1>1. phase \in WorkPhases
  BY RunningTeamWorks DEF Permitted
<1>2. "escalate_to_tier2" \in Allowed[RoleOf[phase]]
  BY DEF Permitted
<1>3. "escalate_to_tier2" \notin Tier2Actions \cup ManagerActions
  BY DEF Tier2Actions, ManagerActions
<1> QED
  BY <1>1, <1>2, <1>3 DEF WorkPhases, RoleOf, Allowed, Roles

\* escalate_to_tier2 is such a handler and lengthens the escalation list in triage only.
LEMMA EscalateToTier2Effect ==
  ASSUME TypeOK, PhaseInv, NEW b, EscalateToTier2(b)
  PROVE  HandlerEffect
<1> DEFINE a == OrFirst(b)
           bonus == CASE a \in config.required -> 1200
                      [] a \notin config.required
                         /\ config.truth[a] = "true_positive"  -> 600
                      [] a \notin config.required
                         /\ config.truth[a] = "false_positive" -> -1000
                      [] OTHER -> 300
           r == OverEscalation(a) + bonus
<1>1. /\ Running /\ Known(a) /\ Permitted("escalate_to_tier2")
      /\ investigations' = [investigations EXCEPT ![a].escalated = TRUE]
      /\ escalated_alert_ids' = IF IsEscalated(a) THEN escalated_alert_ids
                                ELSE Append(escalated_alert_ids, a)
      /\ IssueTicket("escalation", a, "tier1", "tier2", FALSE)
      /\ UNCHANGED <<alert_class, containments>>
  BY Zenon DEF EscalateToTier2, Permitted
<1>2. Commit(<<"escalate_to_tier2", b>>, r)
  BY Zenon DEF EscalateToTier2
<1>3. r \in Int
  <2>1. OverEscalation(a) \in Int
    BY DEF OverEscalation
  <2>2. bonus \in Int
    OBVIOUS
  <2> QED
    BY <2>1, <2>2
<1>4. a \in AlertsOf(config) /\ a \in AlertIds
  BY <1>1, KnownIsAlert, CaseIsTyped
<1> HIDE DEF a, r, bonus
<1>5. investigations' \in [AlertsOf(config) -> Investigation]
  BY <1>1, MarkEscalated
<1>6. escalated_alert_ids' \in Seq(AlertsOf(config)) /\ escalated_alert_ids' # <<>>
  <2>1. CASE IsEscalated(a)
    <3>1. 1..Len(escalated_alert_ids) # {}
      BY <2>1 DEF IsEscalated
    <3>2. escalated_alert_ids # <<>>
      BY <3>1
    <3> QED
      BY <1>1, <2>1, <3>2, CaseIsTyped
  <2>2. CASE ~IsEscalated(a)
    <3>1. escalated_alert_ids' = Append(escalated_alert_ids, a)
      BY <1>1, <2>2
    <3>2. escalated_alert_ids \in Seq(AlertsOf(config))
      BY <1>1, CaseIsTyped
    <3> QED
      BY <1>4, <3>1, <3>2, AppendProperties
  <2> QED
    BY <2>1, <2>2
<1>7. tickets' \in Seq(TicketType)
  BY <1>1, <1>4, TicketTyped DEF TicketKinds, Roles
<1>8. CaseTyped
  BY <1>1, <1>5, <1>6, <1>7, CaseIsTyped DEF CaseTyped
<1>9. EscalationGrows
  BY <1>1, <1>6, OnlyTriageEscalates DEF EscalationGrows
<1>10. \E pay \in Int : CommitResult(pay)
  BY <1>1, <1>2, <1>3, CommitEffect
<1> QED
  BY <1>8, <1>9, <1>10 DEF HandlerEffect

\* The six containment tools are such handlers.
LEMMA ContainEffect ==
  ASSUME TypeOK, PhaseInv,
         NEW kind \in {"forensic_timeline", "memory_analysis", "isolate_host",
                       "disable_user", "sandbox_detonate", "block_ioc"},
         NEW x, Contain(kind, x)
  PROVE  HandlerEffect
<1>1. Running /\ containments' = containments + 1
      /\ UNCHANGED <<investigations, alert_class, escalated_alert_ids, tickets>>
      /\ Commit(<<kind, x>>, ContainmentReward(kind, x))
  BY DEF Contain, Permitted, casework
<1>2. ContainmentReward(kind, x) \in Int
  BY DEF ContainmentReward, Intel
<1>3. /\ investigations' \in [AlertsOf(config) -> Investigation]
      /\ tickets' \in Seq(TicketType) /\ containments' \in Nat
  BY <1>1, CaseIsTyped
<1> QED
  BY <1>1, <1>2, <1>3, TicketHandler

\* So is close_case, with an unknown or an omitted id too.
LEMMA CloseCaseEffect ==
  ASSUME TypeOK, PhaseInv, NEW b \in NamedAlerts, CloseCase(b)
  PROVE  HandlerEffect
<1> DEFINE named == IF b # None THEN b
                    ELSE IF escalated_alert_ids # <<>> THEN escalated_alert_ids[1]
                    ELSE config.alerts[1]
           a == Owner(named)
           r == IF investigations[a].closed THEN -200 ELSE 500
           inv == [investigations[a] EXCEPT !.closed = TRUE]
<1>1. /\ Running /\ investigations' = [investigations EXCEPT ![a].closed = TRUE]
      /\ IssueTicket("closure", named, "tier2", "manager", FALSE)
      /\ containments' = containments + 1
      /\ UNCHANGED <<alert_class, escalated_alert_ids>>
      /\ Commit(<<"close_case", b>>, r)
  BY Zenon DEF CloseCase, Permitted
<1>2. r \in Int
  OBVIOUS
<1>3. investigations' = [investigations EXCEPT ![a] = inv]
  BY <1>1
<1>4. named \in AlertIds
  <2>1. CASE b # None
    BY <2>1, InputAssumption
  <2>2. CASE b = None /\ escalated_alert_ids # <<>>
    <3>1. escalated_alert_ids[1] \in AlertsOf(config)
      BY <1>1, <2>2, CaseIsTyped
    <3> QED
      BY <1>1, <2>2, <3>1, CaseIsTyped
  <2>3. CASE b = None /\ escalated_alert_ids = <<>>
    BY <1>1, <2>3, FirstAlert, CaseIsTyped
  <2> QED
    BY <2>1, <2>2, <2>3
<1> HIDE DEF named, r
<1>5. a \in AlertsOf(config)
  BY <1>1, KnownIsAlert
<1>6. inv \in Investigation
  BY <1>1, <1>5, InvestigationOf, MarkTyped
<1> HIDE DEF a, inv
<1>7. investigations' \in [AlertsOf(config) -> Investigation]
  BY <1>1, <1>3, <1>5, <1>6, EditTyped
<1>8. tickets' \in Seq(TicketType) /\ containments' \in Nat
  <2>1. "closure" \in TicketKinds /\ "tier2" \in Roles /\ "manager" \in Roles
    BY DEF TicketKinds, Roles
  <2>2. tickets' \in Seq(TicketType)
    BY <1>1, <1>4, <2>1, TicketTyped
  <2>3. containments' \in Nat
    BY <1>1, CaseIsTyped
  <2> QED
    BY <2>2, <2>3
<1> QED
  BY <1>1, <1>2, <1>7, <1>8, TicketHandler
\* The ticket a review resolves is one of the tickets.
LEMMA ReviewedTicketExists ==
  ASSUME TypeOK, Running, NEW t, NEW a, ReviewedTicket(t, a) # 0
  PROVE  ReviewedTicket(t, a) \in 1..Len(tickets)
<1> DEFINE ofAlert == {n \in 1..Len(tickets) : tickets[n].alert = a}
<1>1. CASE t \in 1..Len(tickets)
  BY <1>1 DEF ReviewedTicket
<1>2. CASE t \notin 1..Len(tickets) /\ ofAlert # {}
  <2>1. ofAlert \in SUBSET Nat /\ ofAlert \subseteq 1..Len(tickets)
    BY CaseIsTyped
  <2>2. \E n \in ofAlert : \A m \in ofAlert : n <= m
    BY <1>2, <2>1, LeastExists
  <2> DEFINE first == CHOOSE n \in ofAlert : \A m \in ofAlert : n <= m
  <2>3. first \in ofAlert
    BY <2>2
  <2>4. ReviewedTicket(t, a) = first
    BY <1>2 DEF ReviewedTicket
  <2> HIDE DEF first, ofAlert
  <2> QED
    BY <2>1, <2>3, <2>4
<1>3. CASE t \notin 1..Len(tickets) /\ ofAlert = {}
  BY <1>3 DEF ReviewedTicket
<1> QED
  BY <1>1, <1>2, <1>3

\* review_decision is such a handler.
LEMMA ReviewEffect ==
  ASSUME TypeOK, PhaseInv, NEW t, NEW a, ReviewDecision(t, a)
  PROVE  HandlerEffect
<1> DEFINE n == ReviewedTicket(t, a)
           resolved == [tickets[n] EXCEPT !.resolved = TRUE]
<1>1. /\ Running /\ ReviewedTicket(t, a) # 0
      /\ tickets' = [tickets EXCEPT ![n].resolved = TRUE]
      /\ UNCHANGED <<investigations, alert_class, escalated_alert_ids, containments>>
      /\ Commit(<<"review_decision", t, a>>, ReviewReward(tickets[n]))
  BY Zenon DEF ReviewDecision, Permitted, casework
<1>2. ReviewReward(tickets[n]) \in Int
  BY DEF ReviewReward
<1>3. n \in 1..Len(tickets)
  BY <1>1, ReviewedTicketExists
<1> HIDE DEF n
<1>4. tickets' = [tickets EXCEPT ![n] = resolved]
  BY <1>1
<1>5. tickets \in Seq(TicketType)
  BY <1>1, CaseIsTyped
<1>6. tickets[n] \in TicketType
  BY <1>3, <1>5
<1>7. resolved \in TicketType
  BY <1>6 DEF TicketType
<1> HIDE DEF resolved
<1>8. tickets' \in Seq(TicketType)
  BY <1>3, <1>4, <1>5, <1>7, ExceptSeq
<1>9. investigations' \in [AlertsOf(config) -> Investigation] /\ containments' \in Nat
  BY <1>1, CaseIsTyped
<1> QED
  BY <1>1, <1>2, <1>8, <1>9, TicketHandler

\* So is override_classification.
LEMMA OverrideEffect ==
  ASSUME TypeOK, PhaseInv, NEW a, NEW c \in Verdicts, OverrideClassification(a, c)
  PROVE  HandlerEffect
<1> DEFINE correct == investigations[a].classification = config.truth[a]
           r == IF correct THEN -500 ELSE IF c = config.truth[a] THEN 2500 ELSE -2000
           inv == [investigations[a] EXCEPT !.classification = c]
<1>1. /\ Running /\ Known(a) /\ Commit(<<"override_classification", a, c>>, r)
      /\ investigations' = IF correct THEN investigations
                           ELSE [investigations EXCEPT ![a].classification = c]
      /\ IssueTicket("override", a, "manager", "tier1", FALSE)
      /\ UNCHANGED <<alert_class, escalated_alert_ids, containments>>
  BY Zenon DEF OverrideClassification, Permitted
<1>2. r \in Int
  OBVIOUS
<1> HIDE DEF correct, r
<1>3. investigations' = investigations \/ investigations' = [investigations EXCEPT ![a] = inv]
  BY <1>1
<1>4. a \in AlertsOf(config) /\ a \in AlertIds
  BY <1>1, KnownIsAlert, CaseIsTyped
<1>5. inv \in Investigation
  BY <1>1, <1>4, InvestigationOf, VerdictTyped
<1> HIDE DEF inv
<1>6. investigations' \in [AlertsOf(config) -> Investigation] /\ containments' \in Nat
  BY <1>1, <1>3, <1>4, <1>5, EditTyped, CaseIsTyped
<1>7. "override" \in TicketKinds /\ "tier1" \in Roles /\ "manager" \in Roles
  BY DEF TicketKinds, Roles
<1>8. tickets' \in Seq(TicketType)
  BY <1>1, <1>4, <1>7, TicketTyped
<1> QED
  BY <1>1, <1>2, <1>6, <1>8, TicketHandler

\* So is flag_inconsistency.
LEMMA FlagEffect ==
  ASSUME TypeOK, PhaseInv, NEW a \in NamedAlerts \ {None}, FlagInconsistency(a)
  PROVE  HandlerEffect
<1> DEFINE valid == a \in config.flags
           r == IF valid THEN 1500 ELSE -1500
<1>1. /\ Running /\ Commit(<<"flag_inconsistency", a>>, r)
      /\ IssueTicket("flag", a, "manager", None, valid)
      /\ UNCHANGED <<investigations, alert_class, escalated_alert_ids, containments>>
  BY Zenon DEF FlagInconsistency, Permitted, casework
<1>2. r \in Int /\ valid \in BOOLEAN
  OBVIOUS
<1> HIDE DEF valid, r
<1>3. a \in AlertIds
  BY InputAssumption
<1>4. "flag" \in TicketKinds /\ "manager" \in Roles
  BY DEF TicketKinds, Roles
<1>5. tickets' \in Seq(TicketType)
  BY <1>1, <1>2, <1>3, <1>4, TicketTyped
<1>6. investigations' \in [AlertsOf(config) -> Investigation] /\ containments' \in Nat
  BY <1>1, CaseIsTyped
<1> QED
  BY <1>1, <1>2, <1>5, <1>6, TicketHandler
-----------------------------------------------------------------------------
(* The shapes of a step.                                                   *)

\* A phase change on request: phase_complete, or the Manager's submit.
PhaseRequest ==
  /\ Running /\ mode = "team"
  /\ step' = step + 1
  /\ UNCHANGED <<config, generated, mode, casework, handoff, action_history,
                 prev_team_shared, role_reward>>
  /\ PhaseEnds(0, phase_step)

Dispatched == Running /\ HandlerEffect

\* A requested phase change earns nothing and ends the phase.
LEMMA PhaseRequestEffect ==
  ASSUME TypeOK, TeamPhaseComplete \/ ManagerSubmit
  PROVE  PhaseRequest
<1>1. AdvancePhase(0, phase_step)
  BY DEF TeamPhaseComplete, ManagerSubmit, AdvancePhase
<1>2. Running /\ phase_step \in Nat
  BY DEF TeamPhaseComplete, ManagerSubmit, TypeOK
<1>3. PhaseEnds(0, phase_step)
  BY <1>1, <1>2, AdvanceEffect, HandoverEffect DEF PhaseEnds
<1> QED
  BY <1>3 DEF PhaseRequest, TeamPhaseComplete, ManagerSubmit

\* Every turn is a phase request, a solo submit or the work of one handler.
LEMMA TurnShape ==
  ASSUME TypeOK, PhaseInv, Turn
  PROVE  PhaseRequest \/ SoloSubmit \/ Dispatched
<1>1. CASE TeamPhaseComplete \/ ManagerSubmit
  BY <1>1, PhaseRequestEffect
<1>2. CASE SoloSubmit
  BY <1>2
<1>3. CASE Noop
  BY <1>3, NoopEffect DEF Noop, Permitted, Dispatched
<1>4. CASE \E kind \in UsedActions : Forbidden(kind)
  BY <1>4, ForbiddenEffect DEF Forbidden, Dispatched
<1>5. CASE \E kind \in UsedActions : Incomplete(kind)
  BY <1>5, IncompleteEffect DEF Incomplete, Permitted, Dispatched
<1>6. CASE \E i \in Indicators, q \in NamedAlerts : Enrich(i, q)
  BY <1>6, EnrichEffect DEF Enrich, Permitted, Dispatched
<1>7. CASE \E s \in LogSources, q \in NamedAlerts : QueryLogs(s, q)
  BY <1>7, QueryLogsEffect DEF QueryLogs, Permitted, Dispatched
<1>8. CASE \E a, b \in NamedAlerts \ {None} : Correlate(a, b)
  <2>1. PICK a, b \in NamedAlerts \ {None} : Correlate(a, b)
    BY <1>8
  <2>2. HandlerEffect
    BY <2>1, CorrelateEffect
  <2>3. Running
    BY <2>1 DEF Correlate, Permitted
  <2> QED
    BY <2>2, <2>3 DEF Dispatched
<1>9. CASE \/ \E h \in Hosts : CheckDirectory("check_asset", h)
           \/ \E u \in Users : CheckDirectory("check_user", u)
  <2>1. CASE \E h \in Hosts : CheckDirectory("check_asset", h)
    <3>1. PICK h \in Hosts : CheckDirectory("check_asset", h)
      BY <2>1
    <3>2. h \in Hosts \cup Users
      OBVIOUS
    <3> QED
      BY <3>1, <3>2, CheckDirectoryEffect DEF CheckDirectory, Permitted, Dispatched
  <2>2. CASE \E u \in Users : CheckDirectory("check_user", u)
    <3>1. PICK u \in Users : CheckDirectory("check_user", u)
      BY <2>2
    <3>2. u \in Hosts \cup Users
      OBVIOUS
    <3> QED
      BY <3>1, <3>2, CheckDirectoryEffect DEF CheckDirectory, Permitted, Dispatched
  <2> QED
    BY <1>9, <2>1, <2>2
<1>10. CASE \E a \in NamedAlerts \ {None}, c \in Verdicts : Classify(a, c)
  <2>1. PICK a \in NamedAlerts \ {None}, c \in Verdicts : Classify(a, c)
    BY <1>10
  <2>2. HandlerEffect
    BY <2>1, ClassifyEffect
  <2>3. Running
    BY <2>1 DEF Classify, Permitted
  <2> QED
    BY <2>2, <2>3 DEF Dispatched
<1>11. CASE \E a \in NamedAlerts, t \in Techniques : MapTechnique(a, t)
  BY <1>11, MapTechniqueEffect DEF MapTechnique, Permitted, Dispatched
<1>12. CASE \E a \in NamedAlerts, x \in ResponseActions : RecommendAction(a, x)
  BY <1>12, RecommendEffect DEF RecommendAction, Permitted, Dispatched
<1>13. CASE \E a \in NamedAlerts : Escalate(a)
  BY <1>13, EscalateEffect DEF Escalate, Permitted, Dispatched
<1>14. CASE \E a \in NamedAlerts : EscalateToTier2(a)
  BY <1>14, EscalateToTier2Effect DEF EscalateToTier2, Permitted, Dispatched
<1>15. CASE \E kind \in {"forensic_timeline", "memory_analysis", "isolate_host",
                         "disable_user", "sandbox_detonate", "block_ioc"} :
              \E x \in TargetsOf(kind) : Contain(kind, x)
  BY <1>15, ContainEffect DEF Contain, Permitted, Dispatched
<1>16. CASE \E a \in NamedAlerts : CloseCase(a)
  BY <1>16, CloseCaseEffect DEF CloseCase, Permitted, Dispatched
<1>17. CASE \E t \in 0..Len(tickets), a \in NamedAlerts : ReviewDecision(t, a)
  BY <1>17, ReviewEffect DEF ReviewDecision, Permitted, Dispatched
<1>18. CASE \E a \in NamedAlerts \ {None}, c \in Verdicts : OverrideClassification(a, c)
  <2>1. PICK a \in NamedAlerts \ {None}, c \in Verdicts : OverrideClassification(a, c)
    BY <1>18
  <2>2. HandlerEffect
    BY <2>1, OverrideEffect
  <2>3. Running
    BY <2>1 DEF OverrideClassification, Permitted
  <2> QED
    BY <2>2, <2>3 DEF Dispatched
<1>19. CASE \E a \in NamedAlerts \ {None} : FlagInconsistency(a)
  BY <1>19, FlagEffect DEF FlagInconsistency, Permitted, Dispatched
<1>20. CASE ExplainTeamBehavior
  BY <1>20, ExplainEffect DEF ExplainTeamBehavior, Permitted, Dispatched
<1> QED
  BY <1>1, <1>2, <1>3, <1>4, <1>5, <1>6, <1>7, <1>8, <1>9, <1>10, <1>11, <1>12,
     <1>13, <1>14, <1>15, <1>16, <1>17, <1>18, <1>19, <1>20 DEF Turn
-----------------------------------------------------------------------------
(* The inductive invariant.                                                *)

\* The properties lean on each other: the phases decide which ledger applies,
\* the types make its arithmetic meaningful, and a hand-over is sound because
\* escalations are never withdrawn.
IInv == /\ TypeOK
        /\ PhaseInv
        /\ NoHandoverWithoutEscalation
        /\ SharedMetricPaidOnce
        /\ LedgerBalances
        /\ SoloLeavesTeamStateAlone

\* The units of the ledger change only with the scenario.
LEMMA SameScenario ==
  ASSUME config' = config
  PROVE  /\ Scale' = Scale /\ Plain(1000)' = Plain(1000)
         /\ TeamShared(investigations)' = TeamShared(investigations')
         /\ AlertsOf(config)' = AlertsOf(config)
<1>1. AlertsOf(config)' = AlertsOf(config)
  BY DEF AlertsOf
<1>2. Positives' = Positives
  BY <1>1 DEF Positives
<1>3. Negatives' = Negatives
  BY <1>1, <1>2 DEF Negatives
<1>4. Scale' = Scale
  BY <1>2, <1>3 DEF Scale
<1>5. Plain(1000)' = Plain(1000)
  BY <1>4 DEF Plain
<1>6. TeamShared(investigations)' = TeamShared(investigations')
  BY <1>2, <1>3 DEF TeamShared
<1> QED
  BY <1>1, <1>4, <1>5, <1>6

\* A new engine satisfies the invariant.
LEMMA InitInv ==
  ASSUME Init
  PROVE  IInv
<1>1. TypeOK
  <2>1. IsABag(EmptyBag)
    BY DEF IsABag, EmptyBag, SetToBag
  <2>2. <<>> \in Seq(TicketType)
    OBVIOUS
  <2>3. /\ config = None /\ generated = None /\ mode = "tier1_solo" /\ phase = None
        /\ phase_step = 0 /\ step = 0 /\ done = FALSE /\ containments = 0
        /\ prev_team_shared = 0 /\ cumulative_reward = 0 /\ reward = 0
    BY DEF Init
  <2>4. role_reward \in [Roles -> Int] /\ IsABag(action_history) /\ tickets \in Seq(TicketType)
    BY <2>1, <2>2 DEF Init
  <2>5. /\ config \in Registry \cup GeneratedScenarios \cup {None}
        /\ generated \in GeneratedScenarios \cup {None}
        /\ mode \in {"team", "tier1_solo"}
        /\ phase \in Phases \cup {None} /\ phase_step \in Nat
        /\ step \in Nat /\ containments \in Nat
        /\ prev_team_shared \in Int /\ cumulative_reward \in Int /\ reward \in Int
    BY <2>3
  <2>6. done \in BOOLEAN /\ ~(config # None)
    BY <2>3
  <2> QED
    BY <2>4, <2>5, <2>6, Zenon DEF TypeOK
<1>2. ~InTeam /\ RoleTotal = 0
  BY DEF Init, InTeam, RoleTotal, Roles
<1> QED
  BY <1>1, <1>2 DEF IInv, Init, PhaseInv, PhaseAndDoneAgree, NoHandoverWithoutEscalation,
     SharedMetricPaidOnce, LedgerBalances, SoloLeavesTeamStateAlone

\* A step that may count and report, and changes nothing else of the episode.
Still == /\ UNCHANGED <<config, mode, phase, phase_step, done, casework, handoff,
                        action_history, ledger>>
         /\ generated' \in GeneratedScenarios \cup {None}
         /\ step' \in Nat /\ step <= step' /\ reward' \in Int

\* A call that leaves the case and the books alone preserves the invariant.
LEMMA StillInv ==
  ASSUME IInv, Still
  PROVE  IInv'
<1>1. /\ UNCHANGED <<config, mode, phase, phase_step, done, investigations, alert_class,
                     escalated_alert_ids, tickets, containments, action_history>>
      /\ UNCHANGED <<prev_team_shared, role_reward, cumulative_reward>>
  BY DEF Still, casework, handoff, ledger
<1>2. TypeOK'
  BY <1>1, SameScenario DEF IInv, Still, TypeOK
<1>3. InTeam' = InTeam /\ RoleTotal' = RoleTotal
  BY <1>1 DEF InTeam, RoleTotal
<1>4. PhaseInv' /\ NoHandoverWithoutEscalation'
  BY <1>1, <1>3 DEF IInv, PhaseInv, PhaseAndDoneAgree, NoHandoverWithoutEscalation
<1>5. SharedMetricPaidOnce'
  BY <1>1, <1>3, SameScenario DEF IInv, SharedMetricPaidOnce
<1>6. LedgerBalances' /\ SoloLeavesTeamStateAlone'
  BY <1>1, <1>3, SameScenario DEF IInv, LedgerBalances, SoloLeavesTeamStateAlone
<1> QED
  BY <1>2, <1>4, <1>5, <1>6 DEF IInv

\* The calls that take no turn, and those ignored in a turn, are of that kind.
LEMMA StillSteps ==
  ASSUME IInv,
         \/ UNCHANGED vars \/ RejectedReset \/ SetGeneratedScenario
         \/ StepBeforeReset \/ StepAfterDone \/ WrongRole \/ SoloPhaseComplete
  PROVE  Still
<1>1. CASE UNCHANGED vars \/ RejectedReset
  BY <1>1 DEF IInv, TypeOK, RejectedReset, vars, Still
<1>2. CASE SetGeneratedScenario
  BY <1>2 DEF IInv, TypeOK, SetGeneratedScenario, Still
<1>3. CASE StepBeforeReset \/ StepAfterDone
  BY <1>3 DEF IInv, TypeOK, StepBeforeReset, StepAfterDone, Still
<1>4. CASE WrongRole
  <2>1. config \in Scenario
    BY <1>4, ConfigIsScenario DEF IInv, WrongRole, Running
  <2>2. Plain(-300) \in Int
    BY <2>1, ScaleIsPositive DEF Plain
  <2> QED
    BY <1>4, <2>2 DEF IInv, TypeOK, WrongRole, Still
<1>5. CASE SoloPhaseComplete
  BY <1>5 DEF IInv, TypeOK, SoloPhaseComplete, Still
<1> QED
  BY <1>1, <1>2, <1>3, <1>4, <1>5

\* A fresh team episode has earned nothing: its metric is zero, because it has
\* an alert and none is handled.
LEMMA FreshMetric ==
  ASSUME NEW c, NEW m, c \in Scenario, c.alerts # <<>>, Begin(c, m)
  PROVE  TeamShared(investigations)' = 0
<1> DEFINE P == Positives'
           N == Negatives'
<1>1. config' = c /\ investigations' = [a \in AlertsOf(c) |-> Untouched]
  BY DEF Begin, FreshClock, FreshLedger
<1>2. P = {a \in AlertsOf(c) : c.truth[a] # "false_positive"} /\ N = AlertsOf(c) \ P
  BY <1>1 DEF Positives, Negatives, AlertsOf
<1>3. \A a \in AlertsOf(c) : investigations'[a] = Untouched
  BY <1>1
<1>4. \A a \in AlertsOf(c) : /\ investigations'[a].classification = None
                             /\ investigations'[a].recommended = {}
                             /\ ~investigations'[a].escalated
  BY <1>3 DEF Untouched
<1>5. {a \in P : /\ investigations'[a].classification = c.truth[a]
                 /\ \/ investigations'[a].recommended # {}
                    \/ investigations'[a].escalated} = {}
  BY <1>2, <1>4
<1>6. \A a \in AlertsOf(c) : investigations'[a].classification # "false_positive"
  BY <1>4, NoneAssumption DEF Classifications
<1>7. {a \in N : investigations'[a].classification = "false_positive"} = {}
  BY <1>2, <1>6
<1>8. Cardinality({}) = 0
  BY FS_EmptySet
<1>9. P # {} \/ N # {}
  <2>1. 1 \in 1..Len(c.alerts)
    BY DEF Scenario
  <2>2. AlertsOf(c) # {}
    BY <2>1 DEF AlertsOf
  <2> QED
    BY <1>2, <2>2
<1> DEFINE contained == {a \in P : /\ investigations'[a].classification = c.truth[a]
                                   /\ \/ investigations'[a].recommended # {}
                                      \/ investigations'[a].escalated}
           dismissed == {a \in N : investigations'[a].classification = "false_positive"}
<1>10. TeamShared(investigations)' = (IF P = {} THEN 1 ELSE Cardinality(contained))
                                       * (IF N = {} THEN 1 ELSE Cardinality(dismissed))
  BY <1>1 DEF TeamShared
<1>11. Cardinality(contained) = 0 /\ Cardinality(dismissed) = 0
  BY <1>5, <1>7, <1>8
<1> HIDE DEF P, N, contained, dismissed
<1> QED
  BY <1>9, <1>10, <1>11
\* A reset to any scenario and mode establishes the invariant (reset).
LEMMA BeginInv ==
  ASSUME IInv, NEW c \in Registry \cup GeneratedScenarios, NEW m \in Modes, Begin(c, m)
  PROVE  IInv'
<1>1. c \in Scenario /\ c.alerts # <<>> /\ c # None
  BY ScenarioAssumption, NoneAssumption
<1>2. m \in {"team", "tier1_solo"}
  BY InputAssumption
<1>3. /\ config' = c /\ mode' = m /\ phase' = (IF m = "team" THEN "triage" ELSE None)
      /\ phase_step' = 0 /\ step' = 0 /\ done' = FALSE /\ generated' = generated
      /\ tickets' = <<>> /\ containments' = 0 /\ escalated_alert_ids' = <<>>
      /\ prev_team_shared' = 0 /\ role_reward' = [r \in Roles |-> 0]
      /\ cumulative_reward' = 0 /\ reward' = 0
  BY DEF Begin, FreshClock, FreshLedger
<1>4. AlertsOf(config)' = AlertsOf(c)
  BY <1>3 DEF AlertsOf
<1>5. TypeOK'
  <2>1. Untouched \in Investigation
    BY DEF Untouched, Investigation
  <2>2. /\ investigations' \in [AlertsOf(c) -> Investigation]
        /\ alert_class' \in [AlertsOf(c) -> Classifications]
    BY <2>1 DEF Begin, FreshClock, FreshLedger, Classifications
  <2>3. IsABag(action_history')
    BY DEF Begin, FreshClock, FreshLedger, IsABag, EmptyBag, SetToBag
  <2>4. <<>> \in Seq(TicketType) /\ <<>> \in Seq(AlertsOf(c))
    OBVIOUS
  <2>5. phase' \in Phases \cup {None}
    BY <1>3 DEF Phases, WorkPhases
  <2>6. generated' \in GeneratedScenarios \cup {None} /\ role_reward' \in [Roles -> Int]
    BY <1>3 DEF IInv, TypeOK
  <2>7. /\ config' \in Registry \cup GeneratedScenarios \cup {None}
        /\ mode' \in {"team", "tier1_solo"} /\ phase_step' \in Nat
        /\ step' \in Nat /\ containments' \in Nat
        /\ prev_team_shared' \in Int /\ cumulative_reward' \in Int /\ reward' \in Int
    BY <1>2, <1>3
  <2>8. done' \in BOOLEAN
    BY <1>3
  <2>9. /\ tickets' \in Seq(TicketType) /\ escalated_alert_ids' \in Seq(AlertsOf(config)')
        /\ investigations' \in [AlertsOf(config)' -> Investigation']
        /\ alert_class' \in [AlertsOf(config)' -> Classifications]
    BY <1>3, <1>4, <2>2, <2>4 DEF Investigation
  <2> QED
    BY <2>3, <2>5, <2>6, <2>7, <2>8, <2>9, Zenon DEF TypeOK
<1>6. PhaseInv'
  <2>1. CASE m = "team"
    <3>1. phase' = "triage" /\ "triage" \in WorkPhases /\ "triage" # "complete"
      BY <1>3, <2>1 DEF WorkPhases
    <3>2. PhaseBudget["triage"] > 0
      BY <3>1, BudgetAssumption
    <3> QED
      BY <1>1, <1>3, <3>1, <3>2 DEF PhaseInv, PhaseAndDoneAgree, InTeam, Phases
  <2>2. CASE m = "tier1_solo"
    BY <1>1, <1>3, <2>2 DEF PhaseInv, PhaseAndDoneAgree, InTeam
  <2> QED
    BY <1>2, <2>1, <2>2
<1>7. NoHandoverWithoutEscalation'
  BY <1>3, NoneAssumption DEF NoHandoverWithoutEscalation, Phases, WorkPhases
<1>8. SharedMetricPaidOnce'
  BY <1>1, <1>3, FreshMetric DEF SharedMetricPaidOnce
<1>9. RoleTotal' = 0
  BY <1>3 DEF RoleTotal, Roles
<1>10. LedgerBalances'
  BY <1>3, <1>9 DEF LedgerBalances
<1>11. SoloLeavesTeamStateAlone'
  BY <1>3, <1>9 DEF SoloLeavesTeamStateAlone
<1> QED
  BY <1>5, <1>6, <1>7, <1>8, <1>10, <1>11 DEF IInv

\* A phase that ends leaves the counters as a phase in progress needs them.
LEMMA PhaseEndsInv ==
  ASSUME IInv, Running, mode = "team", UNCHANGED <<config, mode>>,
         NEW earned \in Int, NEW spent, PhaseEnds(earned, spent)
  PROVE  PhaseInv' /\ phase' \in Phases /\ done' \in BOOLEAN /\ phase_step' \in Nat
<1>1. /\ phase' \in {"response", "oversight", "complete"} /\ phase_step' \in Nat
      /\ phase' # "complete" => phase_step' = 0
      /\ done' \in BOOLEAN /\ (done' <=> phase' = "complete")
  BY DEF PhaseEnds, AdvanceResult
<1>2. phase' \in WorkPhases => phase_step' < PhaseBudget[phase']
  <2>1. "complete" \notin WorkPhases
    BY DEF WorkPhases
  <2>2. \A p \in WorkPhases : 0 < PhaseBudget[p]
    BY BudgetAssumption
  <2> QED
    BY <1>1, <2>1, <2>2
<1>3. phase' \in Phases
  BY <1>1 DEF Phases, WorkPhases
<1>4. config' # None
  BY DEF Running
<1> QED
  BY <1>1, <1>2, <1>3, <1>4 DEF PhaseInv, PhaseAndDoneAgree

\* The money: what a phase end pays beyond `earned' is the final score.
LEMMA PhaseEndsLedger ==
  ASSUME IInv, Running, mode = "team", UNCHANGED <<config, mode>>,
         NEW earned \in Int, NEW spent, PhaseEnds(earned, spent),
         RoleTotal \in Int, RoleTotal' = RoleTotal + earned
  PROVE  LedgerBalances' /\ reward' \in Int /\ cumulative_reward' \in Int
<1>1. InTeam /\ ~done /\ cumulative_reward \in Int
  BY DEF Running, InTeam, IInv, TypeOK
<1>2. cumulative_reward = RoleTotal
  BY <1>1 DEF IInv, LedgerBalances
<1>3. PICK terminal \in Int :
        /\ reward' = earned + terminal
        /\ cumulative_reward' = cumulative_reward + reward'
        /\ phase' # "complete" => terminal = 0
        /\ phase' = "complete" => /\ 100 * Scale <= terminal + Plain(1000)
                                  /\ terminal <= 99900 * Scale
  BY DEF PhaseEnds, AdvanceResult
<1>4. cumulative_reward' - RoleTotal' = terminal
  BY <1>1, <1>2, <1>3
<1>5. done' <=> phase' = "complete"
  BY DEF PhaseEnds, AdvanceResult
<1>6. Scale' = Scale /\ Plain(1000)' = Plain(1000)
  BY SameScenario
<1>7. config \in Scenario
  BY <1>1, ConfigIsScenario DEF IInv, InTeam
<1>8. Plain(1000) \in Int /\ Scale \in Int
  BY <1>7, ScaleIsPositive DEF Plain
<1>9. IF done' THEN /\ (cumulative_reward' - RoleTotal') + Plain(1000)' >= 100 * Scale'
                    /\ cumulative_reward' - RoleTotal' <= 99900 * Scale'
      ELSE cumulative_reward' - RoleTotal' = 0
  BY <1>3, <1>4, <1>5, <1>6, <1>8
<1>10. LedgerBalances'
  BY <1>9 DEF LedgerBalances
<1> QED
  BY <1>1, <1>3, <1>10
\* Paying one role raises the sum of the roles' totals by the same amount.
LEMMA RolePays ==
  ASSUME role_reward \in [Roles -> Int], NEW role \in Roles, NEW pay \in Int,
         role_reward' = [role_reward EXCEPT ![role] = @ + pay]
  PROVE  /\ RoleTotal \in Int /\ RoleTotal' = RoleTotal + pay
         /\ role_reward' \in [Roles -> Int]
BY DEF RoleTotal, Roles

\* A requested phase change preserves the invariant.
LEMMA PhaseRequestInv ==
  ASSUME IInv, PhaseRequest
  PROVE  IInv'
<1>1. /\ Running /\ mode = "team" /\ InTeam
      /\ UNCHANGED <<config, generated, mode, investigations, alert_class,
                     escalated_alert_ids, tickets, containments, action_history>>
      /\ UNCHANGED <<prev_team_shared, role_reward>>
      /\ step' = step + 1 /\ PhaseEnds(0, phase_step)
  BY DEF PhaseRequest, Running, InTeam, casework, handoff
<1>2. /\ PhaseInv' /\ phase' \in Phases /\ done' \in BOOLEAN /\ phase_step' \in Nat
  BY <1>1, PhaseEndsInv
<1>3. RoleTotal \in Int /\ RoleTotal' = RoleTotal + 0
  BY <1>1 DEF IInv, TypeOK, RoleTotal, Roles
<1>4. LedgerBalances' /\ reward' \in Int /\ cumulative_reward' \in Int
  BY <1>1, <1>3, PhaseEndsLedger
<1>5. TypeOK'
  BY <1>1, <1>2, <1>4, SameScenario DEF IInv, TypeOK
<1>6. NoHandoverWithoutEscalation'
  <2>1. phase \in WorkPhases
    BY <1>1, RunningTeamWorks DEF IInv
  <2>2. phase' = "response" \/ phase' = "oversight" => escalated_alert_ids' # <<>>
    BY <1>1, <2>1 DEF PhaseEnds, Handover, WorkPhases, IInv, NoHandoverWithoutEscalation
  <2> QED
    BY <2>2 DEF NoHandoverWithoutEscalation
<1>7. SharedMetricPaidOnce'
  BY <1>1, SameScenario DEF IInv, SharedMetricPaidOnce
<1>8. SoloLeavesTeamStateAlone'
  BY <1>1 DEF SoloLeavesTeamStateAlone
<1> QED
  BY <1>2, <1>4, <1>5, <1>6, <1>7, <1>8 DEF IInv

\* A solo submit preserves the invariant.
LEMMA SoloSubmitInv ==
  ASSUME IInv, SoloSubmit
  PROVE  IInv'
<1>1. /\ Running /\ mode = "tier1_solo" /\ step' = step + 1 /\ done' = TRUE
      /\ action_history' = action_history (+) SetToBag({<<"submit_investigation">>})
      /\ UNCHANGED <<config, generated, mode, phase, phase_step, investigations, alert_class,
                     escalated_alert_ids, tickets, containments>>
      /\ UNCHANGED <<prev_team_shared, role_reward>>
  BY DEF SoloSubmit, SoloSubmitScored, casework, handoff
<1>2. config \in Scenario /\ IsABag(action_history) /\ cumulative_reward \in Int
  BY <1>1, ConfigIsScenario DEF IInv, Running, TypeOK
<1>3. PICK g \in GraderScores :
        LET final == Clamp(g * EfficiencyPercent(step + 1) * Scale)
            pay   == final - LoopPenalty(<<"submit_investigation">>)
        IN  reward' = pay /\ cumulative_reward' = cumulative_reward + final + pay
  BY DEF SoloSubmit, SoloSubmitScored
<1>4. reward' \in Int /\ cumulative_reward' \in Int
  <2> DEFINE final == Clamp(g * EfficiencyPercent(step + 1) * Scale)
  <2>1. g \in Int /\ EfficiencyPercent(step + 1) \in Int /\ Scale \in Int
    BY <1>2, RewardAssumption, ScaleIsPositive DEF EfficiencyPercent
  <2>2. \A x, y \in Int : x * y \in Int
    OBVIOUS
  <2>3. g * EfficiencyPercent(step + 1) * Scale \in Int
    BY <2>1, <2>2
  <2>4. final \in Int
    BY <1>2, <2>3, ClampRange
  <2>5. LoopPenalty(<<"submit_investigation">>) \in Int
    BY <1>2, PenaltyIsInt
  <2>6. /\ reward' = final - LoopPenalty(<<"submit_investigation">>)
        /\ cumulative_reward' = cumulative_reward + final + reward'
    BY <1>3
  <2> HIDE DEF final
  <2> QED
    BY <1>2, <2>4, <2>5, <2>6
<1>5. IsABag(action_history')
  BY <1>1, <1>2, HistoryGrows
<1>6. TypeOK'
  <2>1. step' \in Nat
    BY <1>1 DEF IInv, TypeOK
  <2> QED
    BY <1>1, <1>4, <1>5, <2>1, SameScenario DEF IInv, TypeOK
<1>7. ~InTeam' /\ RoleTotal' = RoleTotal
  BY <1>1 DEF InTeam, RoleTotal
<1>8. PhaseInv' /\ NoHandoverWithoutEscalation' /\ SharedMetricPaidOnce' /\ LedgerBalances'
  BY <1>1, <1>7 DEF IInv, PhaseInv, PhaseAndDoneAgree, NoHandoverWithoutEscalation,
     SharedMetricPaidOnce, LedgerBalances, Running
<1>9. SoloLeavesTeamStateAlone'
  BY <1>1, <1>7 DEF IInv, SoloLeavesTeamStateAlone
<1> QED
  BY <1>6, <1>8, <1>9 DEF IInv

\* Every dispatched step preserves the invariant.
LEMMA DispatchedInv ==
  ASSUME IInv, Dispatched
  PROVE  IInv'
<1>1. PICK pay \in Int : CommitResult(pay)
  BY DEF Dispatched, HandlerEffect
<1>2. /\ Running /\ CaseTyped /\ EscalationGrows
      /\ step' = step + 1 /\ UNCHANGED <<config, generated, mode>> /\ IsABag(action_history')
  BY <1>1 DEF Dispatched, HandlerEffect, CommitResult
<1>3. /\ AlertsOf(config)' = AlertsOf(config)
      /\ TeamShared(investigations)' = TeamShared(investigations')
  BY <1>2, SameScenario
<1>4. /\ step' \in Nat /\ generated' \in GeneratedScenarios \cup {None}
      /\ config' \in Registry \cup GeneratedScenarios \cup {None}
      /\ mode \in {"team", "tier1_solo"} /\ mode' \in {"team", "tier1_solo"}
  BY <1>2 DEF IInv, TypeOK
<1>5. CASE mode = "tier1_solo"
  <2>1. /\ UNCHANGED <<phase, phase_step, prev_team_shared, role_reward>>
        /\ reward' \in Int /\ cumulative_reward' \in Int /\ done' \in BOOLEAN
    BY <1>1, <1>5 DEF CommitResult
  <2>2. TypeOK'
    BY <1>2, <1>3, <1>4, <2>1 DEF IInv, TypeOK, CaseTyped
  <2>3. ~InTeam' /\ RoleTotal' = RoleTotal
    BY <1>2, <1>5, <2>1 DEF InTeam, RoleTotal
  <2>4. PhaseInv' /\ NoHandoverWithoutEscalation' /\ SharedMetricPaidOnce' /\ LedgerBalances'
    BY <1>2, <1>5, <2>3 DEF PhaseInv, PhaseAndDoneAgree, NoHandoverWithoutEscalation,
       SharedMetricPaidOnce, LedgerBalances, Running
  <2>5. SoloLeavesTeamStateAlone'
    BY <2>1, <2>3, <1>2, <1>5 DEF IInv, SoloLeavesTeamStateAlone
  <2> QED
    BY <2>2, <2>4, <2>5 DEF IInv
<1>6. CASE mode = "team"
  <2>1. /\ prev_team_shared' = TeamShared(investigations')
        /\ role_reward' = [role_reward EXCEPT ![RoleOf[phase]] = @ + pay]
        /\ \/ /\ phase_step' = phase_step + 1 /\ phase_step + 1 < PhaseBudget[phase]
              /\ reward' = pay /\ cumulative_reward' = cumulative_reward + pay
              /\ UNCHANGED <<phase, done>>
           \/ PhaseEnds(pay, phase_step + 1)
    BY <1>1, <1>6 DEF CommitResult
  <2>2. phase \in WorkPhases /\ RoleOf[phase] \in Roles /\ InTeam /\ config \in Scenario
    BY <1>2, <1>6, RunningTeamWorks, ConfigIsScenario DEF IInv, InTeam, Running
  <2>3. RoleTotal \in Int /\ RoleTotal' = RoleTotal + pay /\ role_reward' \in [Roles -> Int]
    BY <2>1, <2>2, RolePays DEF IInv, TypeOK
  <2>4. SharedMetricPaidOnce' /\ prev_team_shared' \in Int
    BY <1>3, <2>1, <2>2, TeamSharedIsNat DEF SharedMetricPaidOnce
  <2>5. SoloLeavesTeamStateAlone'
    BY <1>2, <1>6 DEF SoloLeavesTeamStateAlone
  <2>6. CASE PhaseEnds(pay, phase_step + 1)
    <3>1. PhaseInv' /\ phase' \in Phases /\ done' \in BOOLEAN /\ phase_step' \in Nat
      BY <1>2, <1>6, <2>6, PhaseEndsInv
    <3>2. LedgerBalances' /\ reward' \in Int /\ cumulative_reward' \in Int
      BY <1>2, <1>6, <2>3, <2>6, PhaseEndsLedger
    <3>3. NoHandoverWithoutEscalation'
      <4>1. phase' = "response" => escalated_alert_ids' # <<>>
        BY <2>2, <2>6 DEF PhaseEnds, Handover, WorkPhases
      <4>2. phase' = "oversight" => phase = "response"
        BY <2>2, <2>6 DEF PhaseEnds, Handover, WorkPhases
      <4>3. phase = "response" => escalated_alert_ids' # <<>>
        BY <1>2, <2>2 DEF EscalationGrows, IInv, NoHandoverWithoutEscalation
      <4> QED
        BY <4>1, <4>2, <4>3 DEF NoHandoverWithoutEscalation
    <3>4. TypeOK'
      BY <1>2, <1>3, <1>4, <2>3, <2>4, <3>1, <3>2 DEF TypeOK, CaseTyped
    <3> QED
      BY <2>4, <2>5, <3>1, <3>2, <3>3, <3>4 DEF IInv
  <2>7. CASE /\ phase_step' = phase_step + 1 /\ phase_step + 1 < PhaseBudget[phase]
             /\ reward' = pay /\ cumulative_reward' = cumulative_reward + pay
             /\ UNCHANGED <<phase, done>>
    <3>1. ~done /\ ~done' /\ done' \in BOOLEAN /\ phase' \in Phases
      BY <1>2, <2>7, <2>2 DEF Running, IInv, TypeOK, Phases
    <3>2. phase' # "complete"
      BY <2>2, <2>7 DEF WorkPhases
    <3>3. PhaseInv'
      BY <1>2, <1>6, <2>2, <2>7, <3>1, <3>2 DEF PhaseInv, PhaseAndDoneAgree, InTeam
    <3>4. NoHandoverWithoutEscalation'
      BY <1>2, <2>2, <2>7 DEF EscalationGrows, IInv, NoHandoverWithoutEscalation
    <3>5. cumulative_reward \in Int /\ cumulative_reward - RoleTotal = 0
      BY <2>2, <3>1 DEF IInv, LedgerBalances, TypeOK
    <3>6. cumulative_reward' - RoleTotal' = 0 /\ cumulative_reward' \in Int /\ reward' \in Int
      BY <2>3, <2>7, <3>5
    <3>7. LedgerBalances'
      BY <3>1, <3>6 DEF LedgerBalances
    <3>8. phase_step' \in Nat
      BY <2>7 DEF IInv, TypeOK
    <3>9. TypeOK'
      BY <1>2, <1>3, <1>4, <2>3, <2>4, <3>1, <3>6, <3>8 DEF TypeOK, CaseTyped
    <3> QED
      BY <2>4, <2>5, <3>3, <3>4, <3>7, <3>9 DEF IInv
  <2> QED
    BY <2>1, <2>6, <2>7
<1> QED
  BY <1>4, <1>5, <1>6
\* Every step of the engine has one of these shapes.
LEMMA StepShape ==
  ASSUME IInv, [Next]_vars
  PROVE  \/ Still \/ PhaseRequest \/ SoloSubmit \/ Dispatched
         \/ \E c \in Registry \cup GeneratedScenarios, m \in Modes : Begin(c, m)
<1>1. TypeOK /\ PhaseInv
  BY DEF IInv
<1>2. CASE \/ UNCHANGED vars \/ RejectedReset \/ SetGeneratedScenario
           \/ StepBeforeReset \/ StepAfterDone \/ WrongRole \/ SoloPhaseComplete
  BY <1>2, StillSteps
<1>3. CASE Reset
  BY <1>3 DEF Reset
<1>4. CASE ResetGenerated
  <2>1. generated \in GeneratedScenarios
    BY <1>1, <1>4 DEF ResetGenerated, TypeOK
  <2> QED
    BY <1>4, <2>1 DEF ResetGenerated
<1>5. CASE Turn
  BY <1>1, <1>5, TurnShape
<1> QED
  BY <1>2, <1>3, <1>4, <1>5 DEF Next, Outside

\* Every step of the specification preserves the invariant.
LEMMA StepInv ==
  ASSUME IInv, [Next]_vars
  PROVE  IInv'
<1>1. CASE Still
  BY <1>1, StillInv
<1>2. CASE PhaseRequest
  BY <1>2, PhaseRequestInv
<1>3. CASE SoloSubmit
  BY <1>3, SoloSubmitInv
<1>4. CASE Dispatched
  BY <1>4, DispatchedInv
<1>5. CASE \E c \in Registry \cup GeneratedScenarios, m \in Modes : Begin(c, m)
  BY <1>5, BeginInv
<1> QED
  BY <1>1, <1>2, <1>3, <1>4, <1>5, StepShape

\* The invariant, type correctness with the properties below, holds in every state.
THEOREM Invariance == Spec => []IInv
<1>1. Init => IInv
  BY InitInv
<1>2. IInv /\ [Next]_vars => IInv'
  BY StepInv
<1> QED
  BY <1>1, <1>2, PTL DEF Spec

-----------------------------------------------------------------------------
(* The results.                                                            *)

\* The engine's state keeps its types through every handler and every reset.
THEOREM TypeCorrect == Spec => []TypeOK
<1>1. IInv => TypeOK
  BY DEF IInv
<1> QED
  BY <1>1, Invariance, PTL

\* `done' and the complete phase coincide, and no phase in progress has spent
\* its budget, for every budget and however phases end.
THEOREM PhasesAreConsistent == Spec => []PhaseAndDoneAgree
<1>1. IInv => PhaseAndDoneAgree
  BY DEF IInv, PhaseInv
<1> QED
  BY <1>1, Invariance, PTL

\* Tier-2 and the Manager never work on an empty escalation list.
THEOREM HandoversAreJustified == Spec => []NoHandoverWithoutEscalation
<1>1. IInv => NoHandoverWithoutEscalation
  BY DEF IInv
<1> QED
  BY <1>1, Invariance, PTL

\* The team rewards paid out add up to the team metric of the present state.
THEOREM MetricIsPaidOnce == Spec => []SharedMetricPaidOnce
<1>1. IInv => SharedMetricPaidOnce
  BY DEF IInv
<1> QED
  BY <1>1, Invariance, PTL

\* The per-role totals and the running total of a team episode differ by
\* nothing until it ends, and then by a final score in its range.
THEOREM LedgerIsBalanced == Spec => []LedgerBalances
<1>1. IInv => LedgerBalances
  BY DEF IInv
<1> QED
  BY <1>1, Invariance, PTL

\* A solo episode carries nothing over from a team episode before it.
THEOREM ModesAreSeparate == Spec => []SoloLeavesTeamStateAlone
<1>1. IInv => SoloLeavesTeamStateAlone
  BY DEF IInv
<1> QED
  BY <1>1, Invariance, PTL

\* Whatever a counted turn of a team episode pays is what it books.
THEOREM TurnsAreBooked == Spec => EveryTurnIsBooked
<1>1. ASSUME IInv, [Next]_vars, TeamTurn
      PROVE  reward' = cumulative_reward' - cumulative_reward
  <2>1. /\ mode = "team" /\ step \in Nat /\ step' = step + 1 /\ cumulative_reward \in Int
        /\ ~UNCHANGED <<phase, phase_step>>
    BY <1>1 DEF TeamTurn, InTeam, IInv, TypeOK
  <2>2. ~Still /\ ~SoloSubmit
    BY <2>1 DEF Still, SoloSubmit, SoloSubmitScored
  <2>3. ~ \E c \in Registry \cup GeneratedScenarios, m \in Modes : Begin(c, m)
    BY <2>1 DEF Begin, FreshClock, FreshLedger
  <2>4. CASE PhaseRequest
    <3>1. PICK terminal \in Int :
            /\ reward' = 0 + terminal /\ cumulative_reward' = cumulative_reward + reward'
      BY <2>4 DEF PhaseRequest, PhaseEnds, AdvanceResult
    <3> QED
      BY <2>1, <3>1
  <2>5. CASE Dispatched
    <3>1. PICK pay \in Int : CommitResult(pay)
      BY <2>5 DEF Dispatched, HandlerEffect
    <3>2. CASE reward' = pay /\ cumulative_reward' = cumulative_reward + pay
      BY <2>1, <3>2
    <3>3. CASE PhaseEnds(pay, phase_step + 1)
      <4>1. PICK terminal \in Int :
              /\ reward' = pay + terminal /\ cumulative_reward' = cumulative_reward + reward'
        BY <3>3 DEF PhaseEnds, AdvanceResult
      <4> QED
        BY <2>1, <4>1
    <3> QED
      BY <2>1, <3>1, <3>2, <3>3 DEF CommitResult
  <2> QED
    BY <1>1, <2>2, <2>3, <2>4, <2>5, StepShape
<1>2. IInv /\ [Next]_vars =>
        [TeamTurn => reward' = cumulative_reward' - cumulative_reward]_vars
  BY <1>1
<1> QED
  BY <1>2, Invariance, PTL DEF Spec, EveryTurnIsBooked
-----------------------------------------------------------------------------
(* The engine implements the team protocol.                                *)

At == IF ~InTeam THEN "none" ELSE IF phase = "complete" THEN "over" ELSE phase
SomeEscalated == escalated_alert_ids # <<>>

\* What the abstract episode sees of a running team episode.
LEMMA AtWork ==
  ASSUME IInv, InTeam, ~done
  PROVE  phase \in WorkPhases /\ At = phase /\ phase # "complete"
BY DEF IInv, PhaseInv, PhaseAndDoneAgree, Phases, WorkPhases, At

\* A phase that ends is one of the three ends of the protocol.
LEMMA EndImplements ==
  ASSUME IInv, Running, mode = "team", UNCHANGED <<config, mode>>, EscalationGrows,
         NEW earned, NEW spent \in {phase_step, phase_step + 1}, PhaseEnds(earned, spent)
  PROVE  Episode!Next
<1>1. /\ phase \in WorkPhases /\ At = phase /\ InTeam
  BY AtWork DEF Running, InTeam
<1>2. InTeam'
  BY <1>1 DEF InTeam
<1>3. /\ phase' \in {"response", "oversight", "complete"}
      /\ phase' # "complete" => phase_step' = 0
      /\ phase' = "complete" => phase_step' = spent
  BY DEF PhaseEnds, AdvanceResult, Handover
<1>4. At' = IF phase' = "complete" THEN "over" ELSE phase'
  BY <1>2 DEF At
<1>5. SomeEscalated => SomeEscalated'
  BY DEF SomeEscalated, EscalationGrows
<1>6. CASE phase = "triage"
  <2>1. \/ SomeEscalated' /\ At' = "response" /\ phase_step' = 0
        \/ ~SomeEscalated' /\ At' = "over" /\ phase_step' \in {phase_step, phase_step + 1}
    BY <1>3, <1>4, <1>6 DEF PhaseEnds, Handover, SomeEscalated
  <2> QED
    BY <1>1, <1>5, <1>6, <2>1 DEF Episode!Next, Episode!EndTriage, At, SomeEscalated
<1>7. CASE phase = "response"
  <2>1. At' = "oversight" /\ phase_step' = 0 /\ SomeEscalated' = SomeEscalated
    BY <1>3, <1>4, <1>7 DEF PhaseEnds, Handover, EscalationGrows, SomeEscalated
  <2> QED
    BY <1>1, <1>7, <2>1 DEF Episode!Next, Episode!EndResponse, At, SomeEscalated
<1>8. CASE phase = "oversight"
  <2>1. /\ At' = "over" /\ phase_step' \in {phase_step, phase_step + 1}
        /\ SomeEscalated' = SomeEscalated
    BY <1>3, <1>4, <1>8 DEF PhaseEnds, Handover, EscalationGrows, SomeEscalated
  <2> QED
    BY <1>1, <1>8, <2>1 DEF Episode!Next, Episode!EndOversight, At, SomeEscalated
<1> QED
  BY <1>1, <1>6, <1>7, <1>8 DEF WorkPhases

\* A dispatched step is a step of the abstract episode.
LEMMA DispatchedImplements ==
  ASSUME IInv, Dispatched
  PROVE  [Episode!Next]_(Episode!vars)
<1>1. PICK pay \in Int : CommitResult(pay)
  BY DEF Dispatched, HandlerEffect
<1>2. Running /\ EscalationGrows /\ UNCHANGED <<config, mode>> /\ mode \in {"team", "tier1_solo"}
  BY <1>1 DEF Dispatched, HandlerEffect, CommitResult, IInv, TypeOK
<1>3. CASE mode = "tier1_solo"
  <2>1. At = "none" /\ At' = "none" /\ phase_step' = phase_step
    BY <1>1, <1>2, <1>3 DEF CommitResult, At, InTeam
  <2>2. SomeEscalated' = SomeEscalated \/ SomeEscalated' = TRUE
    BY <1>2 DEF EscalationGrows, SomeEscalated
  <2> QED
    BY <2>1, <2>2 DEF Episode!Next, Episode!SoloEscalation, Episode!vars, At, SomeEscalated
<1>4. CASE mode = "team"
  <2>1. phase \in WorkPhases /\ At = phase /\ InTeam /\ phase # "complete" /\ InTeam'
    BY <1>2, <1>4, AtWork DEF Running, InTeam
  <2>2. CASE PhaseEnds(pay, phase_step + 1)
    BY <1>2, <1>4, <2>2, EndImplements
  <2>3. CASE /\ phase_step' = phase_step + 1 /\ phase_step + 1 < PhaseBudget[phase]
             /\ UNCHANGED phase
    <3>1. At' = At
      BY <2>1, <2>3 DEF At
    <3>2. /\ SomeEscalated => SomeEscalated'
          /\ phase # "triage" => SomeEscalated' = SomeEscalated
      BY <1>2, <1>4 DEF EscalationGrows, SomeEscalated
    <3> QED
      BY <2>1, <2>3, <3>1, <3>2 DEF Episode!Next, Episode!Work, Episode!WorkPhases,
         WorkPhases, At, SomeEscalated
  <2> QED
    BY <1>1, <1>4, <2>2, <2>3 DEF CommitResult
<1> QED
  BY <1>2, <1>3, <1>4

\* Every step of the engine is a step of the abstract episode, or none.
LEMMA StepImplements ==
  ASSUME IInv, [Next]_vars
  PROVE  [Episode!Next]_(Episode!vars)
<1>1. CASE Still
  BY <1>1 DEF Still, handoff, Episode!vars, InTeam
<1>2. CASE PhaseRequest
  <2>1. EscalationGrows /\ Running /\ mode = "team" /\ UNCHANGED <<config, mode>>
    BY <1>2 DEF PhaseRequest, handoff, EscalationGrows
  <2> QED
    BY <1>2, <2>1, EndImplements DEF PhaseRequest
<1>3. CASE SoloSubmit
  BY <1>3 DEF SoloSubmit, SoloSubmitScored, handoff, Episode!vars, InTeam
<1>4. CASE Dispatched
  BY <1>4, DispatchedImplements
<1>5. CASE \E c \in Registry \cup GeneratedScenarios, m \in Modes : Begin(c, m)
  <2>1. PICK c \in Registry \cup GeneratedScenarios, m \in Modes : Begin(c, m)
    BY <1>5
  <2>2. /\ config' = c /\ mode' = m /\ phase' = (IF m = "team" THEN "triage" ELSE None)
        /\ phase_step' = 0 /\ escalated_alert_ids' = <<>>
    BY <2>1 DEF Begin, FreshClock, FreshLedger
  <2>3. At' \in {"none", "triage"}
    BY <2>2 DEF At, InTeam
  <2> QED
    BY <2>2, <2>3 DEF Episode!Next, Episode!Begin, At
<1> QED
  BY <1>1, <1>2, <1>3, <1>4, <1>5, StepShape

\* Seen through its phase, its counter and whether anything is escalated, the
\* engine is the protocol of TeamEpisode.
THEOREM Implementation == Spec => ImplementsTeamEpisode
<1>1. Init => Episode!Init
  BY DEF Init, Episode!Init, InTeam
<1>2. IInv /\ [Next]_vars => [Episode!Next]_(Episode!vars)
  BY StepImplements
<1> QED
  BY <1>1, <1>2, Invariance, PTL DEF Spec, ImplementsTeamEpisode, Episode!Spec

-----------------------------------------------------------------------------
(* The work of an episode and its budget.                                  *)

\* A piece of work is a copy of a signature of the history.
LEMMA WorkIsCopies ==
  ASSUME NEW piece
  PROVE  piece \in WorkDone <=> \E e \in DOMAIN action_history :
                                  \E n \in 1..action_history[e] : piece = <<e, n>>
BY DEF WorkDone

\* Dispatching an action adds exactly one piece of work to the history.
LEMMA OneMorePiece ==
  ASSUME IsABag(action_history), NEW sig, action_history' = action_history (+) SetToBag({sig})
  PROVE  \E piece : piece \notin WorkDone /\ WorkDone' = WorkDone \cup {piece}
<1> DEFINE one == SetToBag({sig})
           before == IF sig \in DOMAIN action_history THEN action_history[sig] ELSE 0
           piece == <<sig, before + 1>>
<1>1. DOMAIN one = {sig} /\ one[sig] = 1
  BY DEF SetToBag
<1>2. before \in Nat /\ \A e \in DOMAIN action_history : action_history[e] \in Nat
  BY DEF IsABag
<1>3. action_history' = [e \in DOMAIN action_history \cup DOMAIN one |->
                           (IF e \in DOMAIN action_history THEN action_history[e] ELSE 0)
                             + (IF e \in DOMAIN one THEN one[e] ELSE 0)]
  BY DEF (+)
<1> HIDE DEF one
<1>4. DOMAIN action_history' = DOMAIN action_history \cup {sig}
  BY <1>1, <1>3
<1>5. action_history'[sig] = before + 1
  BY <1>1, <1>2, <1>3
<1>6. \A e \in DOMAIN action_history \ {sig} : action_history'[e] = action_history[e]
  BY <1>1, <1>2, <1>3
<1>7. \A p : p \in WorkDone' <=> \E e \in DOMAIN action_history' :
                                   \E n \in 1..action_history'[e] : p = <<e, n>>
  BY DEF WorkDone
<1>8. piece \notin WorkDone
  BY <1>2, WorkIsCopies
<1>9. ASSUME NEW p \in WorkDone
      PROVE  p \in WorkDone'
  <2> PICK e \in DOMAIN action_history : \E n \in 1..action_history[e] : p = <<e, n>>
    BY <1>9, WorkIsCopies
  <2>1. PICK n \in 1..action_history[e] : p = <<e, n>>
    OBVIOUS
  <2>2. e \in DOMAIN action_history' /\ n \in 1..action_history'[e]
    <3>1. CASE e = sig
      <4>1. n \in 1..before /\ before \in Nat
        BY <1>2, <3>1
      <4> HIDE DEF before
      <4> QED
        BY <1>4, <1>5, <3>1, <4>1
    <3>2. CASE e # sig
      BY <1>4, <1>6, <3>2
    <3> QED
      BY <3>1, <3>2
  <2> QED
    BY <1>7, <2>1, <2>2
<1>10. piece \in WorkDone'
  <2>1. sig \in DOMAIN action_history' /\ before + 1 \in 1..action_history'[sig]
    BY <1>2, <1>4, <1>5
  <2> QED
    BY <1>7, <2>1
<1>11. ASSUME NEW p \in WorkDone', p # piece
       PROVE  p \in WorkDone
  <2> PICK e \in DOMAIN action_history' : \E n \in 1..action_history'[e] : p = <<e, n>>
    BY <1>7, <1>11
  <2>1. PICK n \in 1..action_history'[e] : p = <<e, n>>
    OBVIOUS
  <2>2. e \in DOMAIN action_history /\ n \in 1..action_history[e]
    <3>1. CASE e = sig
      <4>1. n \in 1..(before + 1) /\ n # before + 1
        BY <1>5, <1>11, <2>1, <3>1
      <4>2. n \in 1..before
        BY <1>2, <4>1
      <4>3. sig \in DOMAIN action_history
        BY <4>2
      <4> QED
        BY <3>1, <4>2, <4>3
    <3>2. CASE e # sig
      BY <1>4, <1>6, <2>1, <3>2
    <3> QED
      BY <3>1, <3>2
  <2> QED
    BY <2>1, <2>2, WorkIsCopies
<1> HIDE DEF piece
<1> QED
  BY <1>8, <1>9, <1>10, <1>11

\* In a solo episode every piece of work took a step of its own, and the budget
\* is checked with each of them; in a team episode it took one of the turns.
BudgetInv ==
  /\ IsFiniteSet(WorkDone)
  /\ Running /\ mode = "tier1_solo" => /\ Cardinality(WorkDone) <= step
                                       /\ Cardinality(WorkDone) < config.max_steps
  /\ Running /\ mode = "team" => Cardinality(WorkDone) + TurnsLeft <= TeamBudget

\* A team at work has a turn left.
LEMMA TurnsAreLeft ==
  ASSUME IInv, Running, mode = "team"
  PROVE  /\ TurnsLeft \in Nat \ {0} /\ TeamBudget \in Nat
         /\ phase \in WorkPhases /\ phase_step \in Nat
<1>1. phase \in WorkPhases /\ phase_step \in Nat /\ phase_step < PhaseBudget[phase]
  BY AtWork DEF Running, InTeam, IInv, TypeOK, PhaseInv, PhaseAndDoneAgree
<1>2. \A p \in WorkPhases : PhaseBudget[p] \in Nat \ {0}
  BY BudgetAssumption
<1> QED
  BY <1>1, <1>2 DEF TurnsLeft, TeamBudget, WorkPhases

\* A phase that ends, early or not, leaves its unused turns behind.
LEMMA EndedTurns ==
  ASSUME IInv, Running, mode = "team", NEW earned, NEW spent, PhaseEnds(earned, spent), ~done'
  PROVE  TurnsLeft' \in Int /\ TurnsLeft' < TurnsLeft
<1>1. /\ phase \in WorkPhases /\ phase_step \in Nat /\ phase_step < PhaseBudget[phase]
  BY AtWork DEF Running, InTeam, IInv, TypeOK, PhaseInv, PhaseAndDoneAgree
<1>2. \A p \in WorkPhases : PhaseBudget[p] \in Nat \ {0}
  BY BudgetAssumption
<1>3. /\ phase' \in {"response", "oversight"} /\ phase_step' = 0
      /\ phase' = "response" => phase = "triage"
      /\ phase' = "oversight" => phase = "response"
  BY <1>1 DEF PhaseEnds, AdvanceResult, Handover, WorkPhases
<1> QED
  BY <1>1, <1>2, <1>3 DEF TurnsLeft, WorkPhases

\* Every step keeps the work of an episode within its steps, its turns and its budget.
LEMMA BudgetStep ==
  ASSUME IInv, BudgetInv, [Next]_vars
  PROVE  BudgetInv'
<1>1. IsABag(action_history) /\ step \in Nat
  BY DEF IInv, TypeOK
<1>2. Cardinality(WorkDone) \in Nat
  BY FS_CardinalityType DEF BudgetInv
<1>3. ASSUME UNCHANGED <<config, mode, phase, phase_step, done, action_history>>,
             step <= step', step' \in Nat
      PROVE  BudgetInv'
  <2>1. WorkDone' = WorkDone /\ TurnsLeft' = TurnsLeft
    BY <1>3 DEF WorkDone, TurnsLeft
  <2>2. Running' = Running
    BY <1>3 DEF Running
  <2> QED
    BY <1>1, <1>2, <1>3, <2>1, <2>2 DEF BudgetInv
<1>4. ASSUME NEW sig, action_history' = action_history (+) SetToBag({sig})
      PROVE  IsFiniteSet(WorkDone') /\ Cardinality(WorkDone') = Cardinality(WorkDone) + 1
  <2>1. PICK piece : piece \notin WorkDone /\ WorkDone' = WorkDone \cup {piece}
    BY <1>1, <1>4, OneMorePiece
  <2> QED
    BY <2>1, FS_AddElement DEF BudgetInv
<1>5. CASE Still
  BY <1>3, <1>5 DEF Still
<1>6. CASE PhaseRequest
  <2>1. WorkDone' = WorkDone /\ mode' = "team" /\ mode = "team" /\ Running
    BY <1>6 DEF PhaseRequest, WorkDone
  <2>2. TurnsLeft \in Nat /\ TeamBudget \in Nat
    BY <2>1, TurnsAreLeft
  <2>3. ~done' => TurnsLeft' \in Int /\ TurnsLeft' < TurnsLeft
    BY <1>6, <2>1, EndedTurns DEF PhaseRequest
  <2>4. Cardinality(WorkDone) + TurnsLeft <= TeamBudget
    BY <2>1 DEF BudgetInv
  <2>5. ~done' => Cardinality(WorkDone) + TurnsLeft' <= TeamBudget
    BY <1>2, <2>2, <2>3, <2>4
  <2> QED
    BY <2>1, <2>5 DEF BudgetInv, Running
<1>7. CASE SoloSubmit
  <2>1. action_history' = action_history (+) SetToBag({<<"submit_investigation">>}) /\ done'
    BY <1>7 DEF SoloSubmit, SoloSubmitScored
  <2>2. IsFiniteSet(WorkDone') /\ ~Running'
    BY <1>4, <2>1 DEF Running
  <2> QED
    BY <2>2 DEF BudgetInv
<1>8. CASE Dispatched
  <2>1. PICK pay \in Int : CommitResult(pay)
    BY <1>8 DEF Dispatched, HandlerEffect
  <2>2. PICK sig : action_history' = action_history (+) SetToBag({sig})
    BY <2>1 DEF CommitResult
  <2>3. IsFiniteSet(WorkDone') /\ Cardinality(WorkDone') = Cardinality(WorkDone) + 1
    BY <1>4, <2>2
  <2>4. ASSUME Running', mode' = "tier1_solo"
        PROVE  Cardinality(WorkDone') <= step' /\ Cardinality(WorkDone') < config'.max_steps
    <3>1. /\ step' = step + 1 /\ config' = config /\ mode' = mode
          /\ mode = "tier1_solo" => (done' <=> step + 1 >= config.max_steps)
      BY <2>1 DEF CommitResult
    <3>2. Running /\ mode = "tier1_solo" /\ ~done' /\ config.max_steps \in Nat
      BY <1>8, <2>4, <3>1, ConfigIsScenario DEF Dispatched, Running, IInv, Scenario
    <3>3. Cardinality(WorkDone) <= step
      BY <3>2 DEF BudgetInv
    <3> QED
      BY <1>1, <1>2, <2>3, <3>1, <3>2, <3>3
  <2>5. ASSUME Running', mode' = "team"
        PROVE  Cardinality(WorkDone') + TurnsLeft' <= TeamBudget
    <3>1. Running /\ mode = "team" /\ ~done'
      BY <1>8, <2>1, <2>5 DEF Dispatched, CommitResult, Running
    <3>2. TurnsLeft \in Nat /\ TeamBudget \in Nat /\ phase_step \in Nat /\ phase \in WorkPhases
      BY <3>1, TurnsAreLeft
    <3>3. TurnsLeft' \in Int /\ TurnsLeft' < TurnsLeft
      <4>1. CASE PhaseEnds(pay, phase_step + 1)
        BY <3>1, <4>1, EndedTurns
      <4>2. CASE UNCHANGED phase /\ phase_step' = phase_step + 1
        BY <3>2, <4>2, BudgetAssumption DEF TurnsLeft, WorkPhases
      <4> QED
        BY <2>1, <3>1, <4>1, <4>2 DEF CommitResult
    <3>4. Cardinality(WorkDone) + TurnsLeft <= TeamBudget
      BY <3>1 DEF BudgetInv
    <3> QED
      BY <1>2, <2>3, <3>2, <3>3, <3>4
  <2> QED
    BY <2>3, <2>4, <2>5 DEF BudgetInv
<1>9. CASE \E c \in Registry \cup GeneratedScenarios, m \in Modes : Begin(c, m)
  <2>1. PICK c \in Registry \cup GeneratedScenarios, m \in Modes : Begin(c, m)
    BY <1>9
  <2>2. config' \in Scenario /\ action_history' = EmptyBag /\ step' = 0
    BY <2>1, ScenarioAssumption DEF Begin, FreshClock
  <2>3. config'.max_steps \in Nat \ {0}
    BY <2>2 DEF Scenario
  <2>4. WorkDone' = {}
    BY <2>2 DEF WorkDone, EmptyBag, SetToBag
  <2>5. IsFiniteSet(WorkDone') /\ Cardinality(WorkDone') = 0
    BY <2>4, FS_EmptySet
  <2>6. mode' = "team" => TurnsLeft' = TeamBudget
    <3>1. mode' = "team" => phase' = "triage" /\ phase_step' = 0
      BY <2>1 DEF Begin, FreshClock, FreshLedger
    <3> QED
      BY <3>1, BudgetAssumption DEF TurnsLeft, TeamBudget, WorkPhases
  <2>7. TeamBudget \in Nat
    BY BudgetAssumption DEF TeamBudget, WorkPhases
  <2> QED
    BY <2>2, <2>3, <2>5, <2>6, <2>7 DEF BudgetInv
<1> QED
  BY <1>5, <1>6, <1>7, <1>8, <1>9, StepShape

\* However phase completions are mixed in, the handlers an episode runs stay within
\* its budget while it lasts: a solo episode's step budget, a team's turns, of which a
\* team at work always has one left (step, environment.py L288-303).
THEOREM WorkWithinBudget == Spec => []DispatchedStepsWithinBudget
<1>1. Init => BudgetInv
  <2>1. Init => WorkDone = {} /\ ~Running
    BY DEF Init, WorkDone, EmptyBag, SetToBag, Running
  <2> QED
    BY <2>1, FS_EmptySet DEF BudgetInv
<1>2. IInv /\ BudgetInv /\ [Next]_vars => BudgetInv'
  BY BudgetStep
<1>3. IInv /\ BudgetInv => DispatchedStepsWithinBudget
  <2>1. IInv /\ Running /\ mode = "team" => TurnsLeft > 0
    BY TurnsAreLeft
  <2> QED
    BY <2>1 DEF BudgetInv, DispatchedStepsWithinBudget
<1> QED
  BY <1>1, <1>2, <1>3, Invariance, PTL DEF Spec

=============================================================================
