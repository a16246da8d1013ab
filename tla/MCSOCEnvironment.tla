-------------------------- MODULE MCSOCEnvironment --------------------------
(***************************************************************************)
(* Small instances of SOCEnvironment for TLC.                              *)
(***************************************************************************)
EXTENDS SOCEnvironment

\* Two alerts, a true positive that must be escalated and a false positive,
\* linked by an indicator.  "X" is an id no scenario knows.
MCAlertIds == {"tp", "fp", "X"}

MCScenario(alerts, required, maxSteps) ==
  [alerts |-> alerts,
   truth |-> [a \in MCAlertIds |-> IF a = "tp" THEN "true_positive" ELSE "false_positive"],
   required |-> required,
   flags |-> {"fp"},
   linked |-> {{"tp", "fp"}},
   chain |-> {},
   observables |-> [a \in MCAlertIds |-> IF a = "fp" THEN {"ioc", "host", "user"} ELSE {"ioc"}],
   relevant |-> [a \in MCAlertIds |-> IF a = "tp" THEN {"ioc", "edr"} ELSE {}],
   intel |-> {"ioc"},
   malicious |-> {"ioc"},
   log_db |-> [a \in MCAlertIds |-> [s \in {"edr"} |-> IF a = "fp" THEN {"host"} ELSE {}]],
   directory |-> {"host"},
   critical |-> {"host"},
   techniques |-> [a \in MCAlertIds |-> {"T1566.001"}],
   responses |-> [a \in MCAlertIds |-> {"isolate"}],
   max_steps |-> maxSteps]

MCTwoAlerts == {MCScenario(<<"tp", "fp">>, {"tp"}, 4)}
MCOneAlert == {MCScenario(<<"fp">>, {}, 3)}
MCShort == {MCScenario(<<"tp", "fp">>, {"tp"}, 3)}
MCNoScenario == {}

MCParentOf == [t \in {"T1566.001", "T1566.002", "T1486"} |->
                 IF t = "T1486" THEN "T1486" ELSE "T1566"]

\* The code's budgets are 40, 20 and 8.
MCTeamBudget == [p \in WorkPhases |-> 2]
MCShortBudget == [p \in WorkPhases |-> IF p = "triage" THEN 2 ELSE 1]
=============================================================================
