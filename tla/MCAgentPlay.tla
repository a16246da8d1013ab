----------------------------- MODULE MCAgentPlay -----------------------------
(***************************************************************************)
(* Every task of the benchmark, for TLC.  The shuffled queues are tried in *)
(* the order they were built, in reverse and mixed.                        *)
(***************************************************************************)
EXTENDS AgentPlay, QueueScenarios, RedTeamScenarios

Reversed(t) == Shuffled(t, Reverse(t.queue))
Interleaved(t) == Shuffled(t, SelectSeq(t.queue, LAMBDA n : n % 3 = 2)
                                \o SelectSeq(t.queue, LAMBDA n : n % 3 # 2))

\* Generated tasks of a level without noise and at 60%, the generator's default,
\* with the attack or the noise first, each also obfuscated: the first noise alert
\* then has the attack's address.
Generated(level) ==
  UNION {LET fp      == NoiseSize(tp, percent)
             address == AttackAlerts(pattern, tp)[1].indicators[1].names[1]
             queue   == [n \in 1..(tp + fp) |-> n]
         IN  UNION {{RedTeam(pattern, tp, fp, <<>>, FALSE, order),
                     RedTeam(pattern, tp, fp, <<address>>, TRUE, order)} :
                    order \in {queue, Reverse(queue)}} :
         pattern \in PatternsFor(level, Patterns), tp \in AttackSizes[level],
         percent \in {0, 60}}

MCAlertIds == 1..36
MCShuffledTasks == {TeamLateral, QueueManagement, InsiderThreat,
                    AptCampaign(Phishing), AptCampaign(Newsletter)}
MCTasks ==
  {Phishing, Newsletter, Ransomware, BackupJob, CloudCompromise, NewLocation,
   LateralMovement, TeamPhishing}
    \cup MCShuffledTasks \cup {Reversed(t) : t \in MCShuffledTasks}
                   \cup {Interleaved(t) : t \in MCShuffledTasks}
    \cup Generated("low") \cup Generated("medium") \cup Generated("high")
\* All but the eight-alert team task have room for everything its analyst may try.
ASSUME BudgetsAreAmple ==
  \A t \in MCTasks : t.name \notin {"team_lateral_team", "red_team_generated"} => Ample(t)

\* Every task asks for work in every part of it that is scored.
ASSUME TasksAreDemanding == \A t \in MCTasks : Demanding(t)

\* The long queues are classified by title: their plays have no memory to disturb.
MCContended == {t \in MCTasks : Len(t.queue) < 20}

MCRegistry == {ScenarioOf(t) : t \in MCTasks}
MCNoScenario == {}

Keys(field(_)) == UNION {UNION {ToSet(field(t.keys[a])) : a \in DOMAIN t.keys} : t \in MCTasks}
MCIndicators == UNION {UNION {Indicated(t.alerts[a]) : a \in DOMAIN t.alerts} : t \in MCTasks}
                  \cup Keys(LAMBDA key : key.iocs)
MCLogSources == {"auth", "cloud_trail", "dns", "email_gateway", "endpoint", "firewall",
                 "ids", "proxy"}
MCTechniques == Keys(LAMBDA key : key.techniques)
                  \cup {TechniqueRules[n][2] : n \in DOMAIN TechniqueRules}
                  \cup {SourceTechniqueRules[n][2] : n \in DOMAIN SourceTechniqueRules}
MCResponses == {"no_action", "isolate_endpoint", "block_ip", "block_domain", "disable_account",
                "reset_password", "revoke_sessions", "quarantine_file"}
MCParentOf == [t \in MCTechniques |-> Parent(t)]
MCBudget == [p \in WorkPhases |-> 1]
MCActions == ActionTypes
=============================================================================
