------------------------------ MODULE AgentPlay ------------------------------
(***************************************************************************)
(* The reference policies of baselines.py on the tasks of scenarios/,      *)
(* graded by graders/: run_episode plays each of them on the engine of     *)
(* server/environment.py, one episode after another, as benchmark.py does. *)
(* A last play is that of POST /baseline, whose agent is one object shared *)
(* by all sessions (server/app.py), so that another session may touch its  *)
(* memory between any two steps.                                           *)
(*                                                                         *)
(* Alert ids are the positions in the batch a task was built from; the     *)
(* queue shows them in the order of task.queue.                            *)
(***************************************************************************)
EXTENDS SOCEnvironment, HeuristicAgent, Graders, AlertScenarios

CONSTANTS
  Tasks,         \* the task records played (see AlertScenarios)
  Contended,     \* those of them also played by the server's shared agent
  Disturbances   \* bound of the model on interferences per play

VARIABLES
  task, player,
  attempted,     \* _attempted_correlations
  plan, left,    \* OracleAgent: _plan and _actions_left
  disturbed,     \* interferences in this play
  asked,         \* pairs the undisturbed heuristic asked for
  scores         \* player -> task score, thousandths

book == <<asked, scores>>
agent == <<player, attempted, plan, left, disturbed>>
allVars == <<vars, task, agent, book>>

Players == <<"submit", "oracle", "heuristic", "baseline">>
ASSUME NoneIsNoPlayer == None \notin ToSet(Players)

TeamTasks == {"team_phishing_escalation", "team_lateral_team", "red_team_generated"}

-----------------------------------------------------------------------------
(* A task as the engine's scenario.                                        *)

Pairs(seq) == {{seq[n], seq[n + 1]} : n \in 1..(Len(seq) - 1)}

ScenarioOf(t) ==
  LET known == DOMAIN t.truth
      Keyed(field(_)) == [a \in AlertIds |-> IF a \in known THEN field(a) ELSE {}]
      observables(a) == Indicated(t.alerts[a])
      linkedTo(a)    == {b \in known : a < b /\ observables(a) \cap observables(b) # {}}
      relevant(a)    == ToSet(t.keys[a].iocs) \cup ToSet(t.keys[a].sources)
      techniques(a)  == ToSet(t.keys[a].techniques)
      responses(a)   == ToSet(t.keys[a].responses)
  IN  [alerts      |-> t.queue,
       truth       |-> [a \in AlertIds |-> IF a \in known THEN t.truth[a]
                                           ELSE "false_positive"],
       required    |-> t.required, flags |-> t.flags,
       linked      |-> UNION {{{a, b} : b \in linkedTo(a)} : a \in known},
       chain       |-> Pairs(t.kill),
       observables |-> Keyed(observables), relevant |-> Keyed(relevant),
       intel       |-> t.intel.malicious \cup t.intel.clean,
       malicious   |-> t.intel.malicious,
       log_db      |-> [a \in AlertIds |-> [s \in LogSources |->
                          IF a \in known /\ \E entry \in t.logs[a] : entry[1] = s
                            THEN Hosts ELSE {}]],
       directory   |-> {}, critical |-> {},
       techniques  |-> Keyed(techniques), responses |-> Keyed(responses),
       max_steps   |-> t.max_steps]

ASSUME TasksAreRegistered == Registry = {ScenarioOf(t) : t \in Tasks}
ASSUME TasksAreValid == \A t \in Tasks : ValidScenario(t)
ASSUME TasksAreTyped ==
  \A t \in Tasks :
    /\ t.name \in GradedTasks \cup TeamTasks
    /\ \A a \in DOMAIN t.alerts :
         /\ t.alerts[a].severity \in ToSet(SeverityOrder)
         /\ t.alerts[a].indicators \in Seq([type : STRING, names : Seq(Indicators)])
    /\ t.truth \in Seq(Judged)
    /\ t.keys \in Seq([techniques : Seq(Techniques), responses : Seq(ResponseActions),
                       sources : Seq(LogSources), iocs : Seq(Indicators)])
    /\ t.chains \in Seq(Seq(AlertIds)) /\ t.kill \in Seq(AlertIds)

\* env.grade(), with `used' steps counted.
GradeAt(used, invs) ==
  IF task.name \in TeamTasks THEN Bounded((1000 * TeamShared(invs)) \div Scale)
  ELSE Grade(task, invs, used)

-----------------------------------------------------------------------------
(* The agents.                                                             *)

\* Mutant: evidence is gathered first.
ChecklistEvidenceFirst(t) ==
  FlattenSeq(Each(t.queue, LAMBDA a :
    Each(t.keys[a].sources, LAMBDA x : <<"query_logs", x, a>>)))
    \o Each(t.queue, LAMBDA a : <<"classify_alert", a, t.truth[a]>>)

\* OracleAgent.reset: the grader's checklist in order of priority.
Checklist(t) ==
  LET Listed(Field(_), Work(_, _)) ==
        FlattenSeq([n \in DOMAIN t.queue |->
                      Each(Field(t.keys[t.queue[n]]), LAMBDA x : Work(t.queue[n], x))])
      chains == (IF t.kill = <<>> THEN <<>> ELSE <<t.kill>>) \o t.chains
      links  == FlattenSeq(Each(chains, LAMBDA c :
                  [n \in 1..(Len(c) - 1) |-> <<c[n], c[n + 1]>>]))
      fresh  == Pick([n \in DOMAIN links |-> n], LAMBDA n :
                  \A m \in 1..(n - 1) : ToSet(links[m]) # ToSet(links[n]))
      Techniques_(key) == key.techniques
      Responses(key)   == key.responses
      Sources(key)     == key.sources
  IN  Each(t.queue, LAMBDA a : <<"classify_alert", a, t.truth[a]>>)
      \o Each(fresh, LAMBDA n : <<"correlate_alerts", links[n][1], links[n][2]>>)
      \o Listed(Techniques_, LAMBDA a, x : <<"map_technique", a, x>>)
      \o Listed(Responses, LAMBDA a, x : <<"recommend_action", a, x>>)
      \o Listed(Sources, LAMBDA a, x : <<"query_logs", x, a>>)

\* The action the player sends next.
Move ==
  CASE player = "submit" -> Submit
    [] player = "oracle" -> IF left = 0 \/ InvestigationBudget <= 1 \/ plan = <<>>
                              THEN Submit ELSE Head(plan)
    [] OTHER -> NextAction(task, investigations, InvestigationBudget, attempted)

-----------------------------------------------------------------------------
(* Episodes.                                                               *)

PlayInit ==
  /\ Init
  /\ task \in Tasks /\ player = None
  /\ attempted = {} /\ plan = <<>> /\ left = 0 /\ disturbed = 0
  /\ asked = {} /\ scores = <<>>

\* The players still to come, in order; "baseline" only where it is contended.  A
\* generated task is loaded into a session of the server: only its agent plays it.
Waiting == SelectSeq(Players, LAMBDA p :
                       /\ p \notin DOMAIN scores
                       /\ p = "baseline" => task \in Contended
                       /\ task.name = "red_team_generated" => p = "baseline")

\* A new episode: every agent starts with an empty memory.
StartPlay ==
  /\ player = None /\ Waiting # <<>>
  /\ Begin(ScenarioOf(task), "tier1_solo")
  /\ player' = Head(Waiting)
  /\ attempted' = {} /\ disturbed' = 0
  /\ plan' = Checklist(task)
  /\ left' = Max({0, (3 * task.max_steps) \div 4 - 1})
  /\ UNCHANGED <<task, book>>

\* The player's move on the engine.
Play(move) ==
  \/ move[1] = "enrich_indicator" /\ Enrich(move[2], move[3])
  \/ move[1] = "query_logs"       /\ QueryLogs(move[2], move[3])
  \/ move[1] = "correlate_alerts" /\ Correlate(move[2], move[3])
  \/ move[1] = "classify_alert"   /\ Classify(move[2], move[3])
  \/ move[1] = "map_technique"    /\ MapTechnique(move[2], move[3])
  \/ move[1] = "recommend_action" /\ RecommendAction(move[2], move[3])
  \/ /\ move[1] = "submit_investigation"
     /\ SoloSubmitScored(GradeAt(step + 1, investigations))

Act ==
  /\ player # None /\ ~done
  /\ Play(Move)
  /\ attempted' = IF player \in {"heuristic", "baseline"}
                    THEN Remembered(Move, attempted) ELSE attempted
  /\ plan' = IF player = "oracle" /\ Move # Submit THEN Tail(plan) ELSE plan
  /\ left' = IF player = "oracle" /\ Move # Submit THEN left - 1 ELSE left
  /\ UNCHANGED <<task, player, disturbed, book>>

\* Another session's /baseline resets the shared agent, or has just finished
\* with the same task.
Interfere ==
  /\ player = "baseline" /\ ~done /\ disturbed < Disturbances
  /\ attempted' \in {{}, attempted \cup asked}
  /\ disturbed' = disturbed + 1
  /\ UNCHANGED <<vars, task, player, plan, left, book>>

Submitted == BagIn(Submit, action_history)

\* The score of a finished play: what the submission earned, or the grade at
\* the efficiency of the last step when the budget ran out first.
PlayScore == IF Submitted THEN reward \div (100 * Scale)
             ELSE Clamp(GradeAt(step, investigations) * EfficiencyPercent(step) * Scale)
                    \div (100 * Scale)

EndPlay ==
  /\ player # None /\ done
  /\ scores' = [p \in DOMAIN scores \cup {player} |->
                  IF p = player THEN PlayScore ELSE scores[p]]
  /\ asked' = IF player = "heuristic" THEN attempted ELSE asked
  /\ player' = None
  /\ UNCHANGED <<vars, task, attempted, plan, left, disturbed>>

\* Every agent has played the task: run_benchmark goes on to the next one.
TaskPlayed == player = None /\ Waiting = <<>> /\ UNCHANGED allVars

PlayNext == StartPlay \/ Act \/ Interfere \/ EndPlay \/ TaskPlayed

PlaySpec == PlayInit /\ [][PlayNext]_allVars

-----------------------------------------------------------------------------
(* Properties.                                                             *)

\* An answer key that asks for something in every part its grader scores: a part
\* with nothing to do counts as done.
Demanding(t) ==
  LET real == Alerts(t) \ Those(t, "false_positive")
      cost(perTrue, perBenign) ==
        perTrue * Cardinality(Those(t, "true_positive"))
          + perBenign * Cardinality(Those(t, "benign_true_positive"))
      answered == \E a \in Alerts(t) : t.keys[a].responses # <<>>
      chained  == t.chains # <<>> /\ \A n \in DOMAIN t.chains : t.chains[n] # <<>>
  IN  CASE t.name \in {"phishing", "ransomware", "cloud_compromise"} ->
             /\ t.keys[1].sources # <<>>
             /\ 1 \in real => t.keys[1].techniques # <<>> /\ t.keys[1].responses # <<>>
        [] t.name = "lateral_movement" ->
             answered /\ \E a \in real : t.keys[a].techniques # <<>>
        [] t.name = "queue_management" -> answered /\ chained /\ cost(20, 10) >= 100
        [] t.name = "insider_threat"   -> answered /\ chained /\ cost(11, 5) >= 100
        [] t.name = "apt_campaign"     -> chained
        [] OTHER -> TRUE

\* An empty submission earns the floor on every task that asks for work, and no play
\* scores below it: a score lies strictly between 0 and 1, whatever was or was not
\* done (README.md L303-312, graders/base.py).
InactionEarnsTheFloor ==
  \A p \in DOMAIN scores : /\ scores[p] \in 1..999
                           /\ p = "submit" /\ Demanding(task) => scores[p] = 1

\* The rows of the leaderboard whose score is the same for every seed (README.md
\* L303-312, benchmarks/results.md): the order of a shuffled queue decides nothing.
Published ==
  [heuristic |-> "lateral_movement" :> 710 @@ "queue_management" :> 885
                   @@ "insider_threat" :> 782,
   oracle    |-> "lateral_movement" :> 750 @@ "apt_campaign" :> 800]

\* The leaderboard: the published rows are reproduced; the oracle is the upper bound
\* it is documented to be (OracleAgent, "an upper-bound reference"), also where its
\* checklist does not fit in the budget; and a play disturbed by another session
\* never scores above the undisturbed one.
LeaderboardHolds ==
  \A p \in DOMAIN scores :
    /\ "oracle" \in DOMAIN scores => scores[p] <= scores["oracle"]
    /\ p = "baseline" /\ "heuristic" \in DOMAIN scores => scores[p] <= scores["heuristic"]
    /\ p \in DOMAIN Published /\ task.name \in DOMAIN Published[p] =>
         scores[p] = Published[p][task.name]

\* What an analyst has to show for its steps: a piece of work for every indicator
\* enriched, source queried and pair tried, and for every alert judged, mapped and
\* answered.
Pieces(invs, pairs) ==
  (UNION {({"enrich_indicator"} \X invs[a].enriched \X {a})
            \cup ({"query_logs"} \X invs[a].queried \X {a}) : a \in DOMAIN invs})
  \cup ({"correlate_alerts"} \X pairs)
  \cup ({"classify_alert"} \X {a \in DOMAIN invs : ~Open(invs[a])})
  \cup ({"map_technique"} \X {a \in DOMAIN invs : invs[a].mapped # {}})
  \cup ({"recommend_action"} \X {a \in DOMAIN invs : invs[a].recommended # {}})

\* The pieces of work a task offers the rule-based analyst, by its playbook.
Enrichable(t, a) ==
  (UNION {ToSet(UpTo(2, e.names)) :
            e \in {x \in ToSet(t.alerts[a].indicators) : x.type \in VALID_INDICATOR_TYPES}})
  \ t.intel.private
EvidenceOn(t, a) ==
  ({"enrich_indicator"} \X Enrichable(t, a) \X {a})
  \cup ({"query_logs"} \X ToSet(SmartSources(t.alerts[a])) \X {a})
PairsOf(known) == UNION {{{a, b} : b \in known \ {a}} : a \in known}
Offered(t) ==
  LET known == ToSet(t.queue)
  IN  ({"classify_alert", "recommend_action"} \X known)
      \cup (IF Len(t.queue) >= 20 THEN {}
            ELSE ({"map_technique"} \X known) \cup ({"correlate_alerts"} \X PairsOf(known)))
      \cup (IF Len(t.queue) >= 20 \/ Len(t.queue) = 5 THEN {}
            ELSE UNION {EvidenceOn(t, a) : a \in known})

\* The budget of the task has room for all of it, and for the submission.
Ample(t) == Cardinality(Offered(t)) < t.max_steps

Analyst == player \in {"heuristic", "baseline"}

\* As long as nobody else touches its memory, the rule-based analyst wastes no step:
\* each one adds a piece of work, no call is made twice (so that the loop penalty
\* never applies), and no pair is tried again the other way round.
EveryStepIsNewWork ==
  Analyst /\ disturbed = 0 =>
    /\ step = Cardinality(Pieces(investigations, attempted)) + IF Submitted THEN 1 ELSE 0
    /\ \A call \in BagToSet(action_history) : action_history[call] = 1

\* Disturbed or not, the rule-based analyst submits only when every alert has its
\* verdict and every alert it calls real has a response.
SubmitsFinishedWork ==
  Analyst /\ Submitted =>
    \A a \in DOMAIN investigations :
      /\ ~Open(investigations[a])
      /\ investigations[a].classification # "false_positive"
           => investigations[a].recommended # {}

\* Left alone, it submits before its budget runs out.  The thirty steps of a
\* generated task do not grow with its queue: there only an ample budget promises it.
PlaysFinishTheirWork ==
  Analyst /\ disturbed = 0 /\ done /\ (task.name # "red_team_generated" \/ Ample(task))
  => Submitted

\* A first verdict on an alert never costs anything if it is right: whatever the
\* agent has or has not done so far, submitting after it earns no less.
RightVerdictNeverCosts ==
  [][\A a \in DOMAIN investigations :
       /\ player # None /\ player' = player
       /\ Open(investigations[a])
       /\ investigations'[a].classification = config.truth[a]
       => GradeAt(step + 1, investigations') >= GradeAt(step + 1, investigations)]_allVars
=============================================================================
