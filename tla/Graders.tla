------------------------------- MODULE Graders -------------------------------
(***************************************************************************)
(* The task graders of graders/: what an investigation is worth.           *)
(*                                                                         *)
(* A grader reads the task's answer key, the investigations and the steps  *)
(* used.  Its components are fractions in hundred-thousandths, its result  *)
(* is in thousandths.  TeamGrader is the engine's team metric.             *)
(***************************************************************************)
EXTENDS Integers, Sequences, FiniteSets, FiniteSetsExt, Functions, SequencesExt

One == 100000

\* k of n, where nothing to do counts as done.
Share(k, n) == IF n = 0 THEN One ELSE (One * k) \div n

Positive == {"true_positive", "benign_true_positive"}
Judged == Positive \cup {"false_positive"}

Alerts(task) == DOMAIN task.truth
Those(task, verdict) == {a \in Alerts(task) : task.truth[a] = verdict}
Called(invs, verdicts) == {a \in DOMAIN invs : invs[a].classification \in verdicts}

\* The mean of the alerts' scores.
Mean(scores) == IF DOMAIN scores = {} THEN One
                ELSE SumFunction(scores) \div Cardinality(DOMAIN scores)

\* Scores lie strictly between 0 and 1.
Bounded(thousandths) == IF thousandths < 1 THEN 1
                        ELSE IF thousandths > 999 THEN 999 ELSE thousandths

\* A sum of components, each times its percentage, rounded to thousandths.
Total(sum) == Bounded((sum + 5000) \div 10000)

-----------------------------------------------------------------------------
(* Components of BaseGrader.                                               *)

ClassificationAccuracy(task, invs) ==
  Share(Cardinality({a \in Alerts(task) : invs[a].classification = task.truth[a]}),
        Cardinality(Alerts(task)))

Parent(technique) == SubSeq(technique, 1, 5)

\* An expected technique is worth half when only its parent is mapped.
TechniqueMatch(mapped, expected) ==
  LET halves == {t \in expected : t \notin mapped /\ Parent(t) \in mapped}
  IN  Share(2 * Cardinality(mapped \cap expected) + Cardinality(halves),
            2 * Cardinality(expected))

TechniqueAccuracy(task, invs) ==
  LET expected(a) == ToSet(task.keys[a].techniques)
      attacks     == {a \in Alerts(task) : /\ expected(a) # {}
                                           /\ task.truth[a] # "false_positive"}
  IN  Mean([a \in attacks |-> TechniqueMatch(invs[a].mapped, expected(a))])

\* Mutant: an alert nobody looked at counts as dismissed.
ResponseQualityUntriaged(task, invs) ==
  LET score(a) == IF task.truth[a] = "false_positive"
                    THEN IF invs[a].recommended = {} THEN One ELSE 0
                    ELSE LET due == ToSet(task.keys[a].responses)
                         IN  Share(Cardinality(invs[a].recommended \cap due), Cardinality(due))
  IN  Mean([a \in {a \in Alerts(task) : task.keys[a].responses # <<>>} |-> score(a)])

\* On a false alarm the right response is none, from whoever looked at it.
ResponseQuality(task, invs) ==
  LET expected(a) == ToSet(task.keys[a].responses)
      dismissed(a) == \/ "no_action" \in invs[a].recommended
                      \/ invs[a].classification \in Judged /\ invs[a].recommended = {}
      score(a) ==
        IF task.truth[a] = "false_positive" THEN IF dismissed(a) THEN One ELSE 0
        ELSE Share(Cardinality(invs[a].recommended \cap expected(a)),
                   Cardinality(expected(a)))
  IN  Mean([a \in {a \in Alerts(task) : expected(a) # {}} |-> score(a)])

Coverage(task, invs) ==
  Share(Cardinality(Called(invs, Judged)), Cardinality(Alerts(task)))

EfficiencyScore(task, steps) ==
  LET within(percent) == 100 * steps <= percent * task.max_steps
  IN  CASE within(40) -> 10
        [] ~within(40) /\ within(60) -> 8
        [] ~within(60) /\ within(80) -> 6
        [] OTHER -> 3

\* Efficiency counts for the alerts that were classified.
EarnedEfficiency(task, invs, steps) ==
  (EfficiencyScore(task, steps) * Coverage(task, invs)) \div 10

F1(hits, wrong, missed) == IF hits = 0 THEN 0 ELSE Share(2 * hits, 2 * hits + wrong + missed)

\* Attack chains whose every alert is in S.
ChainsWithin(task, S) ==
  Share(Cardinality({n \in DOMAIN task.chains : ToSet(task.chains[n]) \subseteq S}),
        Len(task.chains))

-----------------------------------------------------------------------------
(* PhishingGrader: phishing, ransomware, cloud_compromise.                 *)

\* Nothing mapped and nothing done is right on a false alarm, once classified.
SingleTechnique(task, inv) ==
  IF task.truth[1] = "false_positive"
    THEN IF inv.classification \notin Judged THEN 0
         ELSE IF inv.mapped = {} THEN One ELSE One \div 2
    ELSE TechniqueMatch(inv.mapped, ToSet(task.keys[1].techniques))

SingleEvidence(task, inv) ==
  LET relevant == ToSet(task.keys[1].sources)
  IN  Share(Cardinality(inv.queried \cap relevant), Cardinality(relevant))

SingleResponse(task, inv) ==
  LET expected == ToSet(task.keys[1].responses)
      aggressive == {"isolate_endpoint", "block_ip", "disable_account"}
  IN  IF task.truth[1] # "false_positive"
        THEN Share(Cardinality(inv.recommended \cap expected), Cardinality(expected))
      ELSE CASE \/ "no_action" \in inv.recommended
                \/ inv.recommended = {} /\ inv.classification \in Judged -> One
             [] inv.recommended = {} /\ inv.classification \notin Judged -> 0
             [] OTHER -> IF inv.recommended \cap aggressive # {} THEN 0 ELSE One \div 2

SingleAlertGrade(task, invs) ==
  LET inv == invs[1]
  IN  Total(40 * ClassificationAccuracy(task, invs) + 20 * SingleTechnique(task, inv)
            + 20 * SingleEvidence(task, inv) + 20 * SingleResponse(task, inv))

-----------------------------------------------------------------------------
(* LateralMovementGrader.                                                  *)

ChainReconstruction(task, invs) ==
  LET found == UNION {invs[a].correlated : a \in DOMAIN invs}
      links == {{task.kill[n], task.kill[n + 1]} : n \in 1..(Len(task.kill) - 1)}
  IN  IF Len(task.kill) < 2 THEN 0
      ELSE Share(Cardinality(links \cap found), Cardinality(links))

LateralMovementGrade(task, invs, steps) ==
  Total(30 * ClassificationAccuracy(task, invs) + 20 * TechniqueAccuracy(task, invs)
        + 20 * ChainReconstruction(task, invs) + 20 * ResponseQuality(task, invs)
        + 10 * EarnedEfficiency(task, invs, steps))

-----------------------------------------------------------------------------
(* QueueManagementGrader and InsiderThreatGrader.                          *)

\* Mutant: a dismissed alert counts as called.
PositiveF1OfJudged(task, invs) ==
  LET positives == Alerts(task) \ Those(task, "false_positive")
      called    == Called(invs, Judged)
  IN  F1(Cardinality(positives \cap called), Cardinality(called \ positives),
         Cardinality(positives \ called))

\* A benign true positive is a positive: calling either kind either is a hit.
PositiveF1(task, invs) ==
  LET positives == Alerts(task) \ Those(task, "false_positive")
      called    == Called(invs, Positive)
  IN  F1(Cardinality(positives \cap called), Cardinality(called \ positives),
         Cardinality(positives \ called))

\* What is left after each missed true and each missed benign positive costs
\* a percentage.
MissedTruePositives(task, invs, perTrue, perBenign) ==
  LET missed(verdict) == Cardinality(Those(task, verdict) \ Called(invs, Positive))
      cost == perTrue * missed("true_positive") + perBenign * missed("benign_true_positive")
  IN  IF cost > 100 THEN 0 ELSE One - 1000 * cost

QueueManagementGrade(task, invs, steps) ==
  Total(30 * PositiveF1(task, invs) + 20 * ChainsWithin(task, Called(invs, Positive))
        + 20 * MissedTruePositives(task, invs, 20, 10)
        + 15 * EarnedEfficiency(task, invs, steps) + 15 * ResponseQuality(task, invs))

InsiderThreatGrade(task, invs, steps) ==
  Total(25 * PositiveF1(task, invs) + 25 * ChainsWithin(task, Called(invs, Positive))
        + 20 * MissedTruePositives(task, invs, 11, 5)
        + 15 * EarnedEfficiency(task, invs, steps) + 15 * ResponseQuality(task, invs))

-----------------------------------------------------------------------------
(* APTCampaignGrader.  The engine never calls set_context, so there is no  *)
(* narrative to reward and the policy counts as complied with.             *)

AptCampaignGrade(task, invs) ==
  LET attacks == Those(task, "true_positive")
      called  == Called(invs, {"true_positive"})
  IN  Total(40 * F1(Cardinality(attacks \cap called), Cardinality(called \ attacks),
                    Cardinality(attacks \ called))
            + 25 * ChainsWithin(task, called) + 15 * Coverage(task, invs))

-----------------------------------------------------------------------------
\* GRADER_REGISTRY, but for the team tasks.
GradedTasks == {"phishing", "ransomware", "cloud_compromise", "lateral_movement",
                "queue_management", "insider_threat", "apt_campaign"}

Grade(task, invs, steps) ==
  CASE task.name \in {"phishing", "ransomware", "cloud_compromise"} ->
         SingleAlertGrade(task, invs)
    [] task.name = "lateral_movement" -> LateralMovementGrade(task, invs, steps)
    [] task.name = "queue_management" -> QueueManagementGrade(task, invs, steps)
    [] task.name = "insider_threat"   -> InsiderThreatGrade(task, invs, steps)
    [] task.name = "apt_campaign"     -> AptCampaignGrade(task, invs)
=============================================================================
