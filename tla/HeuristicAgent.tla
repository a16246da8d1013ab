--------------------------- MODULE HeuristicAgent ---------------------------
(***************************************************************************)
(* The rule-based analyst of baseline_agent.py: a function from what an    *)
(* episode shows (the queue, the investigations, the budget left) and the  *)
(* pairs the agent remembers having tried to its next action.              *)
(*                                                                         *)
(* Alerts are those of module AlertScenarios; the task record carries what *)
(* an enrichment or a log query would show.  An action is a tuple: its     *)
(* type and its parameters.                                                *)
(***************************************************************************)
EXTENDS Naturals, Sequences, FiniteSets, FiniteSetsExt, SequencesExt

\* The answer of the first rule <<keywords, answer>> that a word matches.
FirstMatch(rules, words, default) ==
  LET hits == {n \in DOMAIN rules : rules[n][1] \cap words # {}}
  IN  IF hits = {} THEN default ELSE rules[Min(hits)][2]

-----------------------------------------------------------------------------
(* Keyword rules on the title and on the source system.                    *)

BTP_TITLE_KEYWORDS ==
  {"pentest", "red team", "red-team", "authorized", "maintenance",
   "scheduled backup", "backup job", "nightly backup", "vulnerability scan",
   "vuln scan", "gpo update", "group policy", "key rotation", "ssh key", "patch",
   "planned", "approved", "simulated", "exercise"}

FP_TITLE_KEYWORDS ==
  {"geo-block", "geoblock", "cdn anomaly", "false alarm", "scanner noise",
   "dns false", "av heuristic", "service account lockout", "login page scan",
   "automated scan", "rate limit", "honeypot"}

TechniqueRules == <<
  <<{"macro-enabled", "macro"}, "T1566.001">>,
  <<{"lsass", "credential dump"}, "T1003.001">>,
  <<{"rdp", "lateral movement"}, "T1021.001">>,
  <<{"large archive"}, "T1074.001">>,
  <<{"outbound https transfer"}, "T1041">>,
  <<{"suspicious cloud storage download"}, "T1567">>,
  <<{"scheduled task"}, "T1053.005">>,
  <<{"unauthorized database access"}, "T1078">>,
  <<{"bulk data export"}, "T1530">>,
  <<{"cloud upload"}, "T1567">>,
  <<{"vpn login anomaly"}, "T1133">>,
  <<{"service account privilege escalation"}, "T1098">>,
  <<{"configuration changes", "firewall rules modified"}, "T1562.004">>,
  <<{"after-hours badge access"}, "T1078">>,
  <<{"mass file deletion"}, "T1485">>,
  <<{"usb mass storage"}, "T1052.001">>,
  <<{"phish"}, "T1566.001">>,
  <<{"credential", "mimikatz"}, "T1003.001">>,
  <<{"lateral"}, "T1021.001">>,
  <<{"staging", "archive"}, "T1074.001">>,
  <<{"exfil", "outbound", "transfer"}, "T1041">>,
  <<{"brute", "stuffing", "failed login"}, "T1110.004">>,
  <<{"takeover", "impossible travel"}, "T1078">>,
  <<{"scheduled", "persistence", "cron"}, "T1053.005">>,
  <<{"spearphish", "click"}, "T1566.002">>,
  <<{"delet", "wipe", "destruction"}, "T1485">>,
  <<{"usb", "removable"}, "T1052.001">>,
  <<{"insider", "unauthorized", "privilege"}, "T1078">>,
  <<{"vpn"}, "T1133">>,
  <<{"powershell", "script"}, "T1059.001">>>>

SourceTechniqueRules == <<
  <<{"email"}, "T1566.001">>,
  <<{"endpoint", "edr"}, "T1059.001">>,
  <<{"firewall"}, "T1071.001">>>>

InferTechnique(alert) ==
  FirstMatch(TechniqueRules, alert.words,
             FirstMatch(SourceTechniqueRules, alert.source, "T1566.001"))

ResponseRules == <<
  <<{"phishing email"}, "isolate_endpoint">>,
  <<{"lsass", "credential dump"}, "reset_password">>,
  <<{"rdp lateral movement", "account takeover"}, "revoke_sessions">>,
  <<{"large archive", "scheduled task created"}, "quarantine_file">>,
  <<{"outbound https transfer", "credential stuffing"}, "block_ip">>,
  <<{"spearphishing link clicked", "cloud upload"}, "block_domain">>,
  <<{"suspicious cloud storage download"}, "revoke_sessions">>,
  <<{"unauthorized database access"}, "disable_account">>,
  <<{"bulk data export"}, "quarantine_file">>,
  <<{"vpn login anomaly"}, "block_ip">>,
  <<{"service account privilege escalation"}, "disable_account">>,
  <<{"configuration changes", "firewall rules modified"}, "isolate_endpoint">>,
  <<{"after-hours badge access"}, "disable_account">>,
  <<{"mass file deletion", "usb mass storage"}, "isolate_endpoint">>,
  <<{"credential", "lsass", "password", "brute"}, "disable_account">>,
  <<{"rdp", "lateral", "takeover"}, "revoke_sessions">>,
  <<{"malware", "macro", "archive", "file"}, "quarantine_file">>,
  <<{"exfil", "c2", "outbound", "transfer"}, "block_ip">>,
  <<{"phish"}, "isolate_endpoint">>>>

IndicatorTypes(alert) == {alert.indicators[n].type : n \in DOMAIN alert.indicators}

\* A response without a matching title: by indicator, then by source system.
ResponseByEvidence(alert) ==
  CASE "domain" \in IndicatorTypes(alert) -> "block_domain"
    [] "domain" \notin IndicatorTypes(alert) /\ "ip" \in IndicatorTypes(alert) -> "block_ip"
    [] OTHER -> IF alert.source \cap {"endpoint", "edr"} # {} THEN "isolate_endpoint"
                ELSE "block_ip"

InferResponseAction(alert, verdict) ==
  IF verdict \in {"false_positive", "benign_true_positive"} THEN "no_action"
  ELSE FirstMatch(ResponseRules, alert.words, ResponseByEvidence(alert))

\* Rules on the title and the source system together: <<title, source, answer>>.
SourceRules == <<
  <<{"email", "phish"}, {}, <<"email_gateway", "endpoint", "dns", "firewall">>>>,
  <<{"credential"}, {"endpoint", "edr"}, <<"endpoint", "auth", "ids", "firewall">>>>,
  <<{"exfil", "outbound"}, {"firewall"}, <<"firewall", "proxy", "ids", "endpoint">>>>,
  <<{"rdp", "lateral"}, {"auth"}, <<"auth", "endpoint", "firewall", "ids">>>>,
  <<{"file", "stag"}, {"dlp"}, <<"endpoint", "auth", "firewall", "proxy">>>>,
  <<{"vpn", "insider", "badge"}, {}, <<"auth", "endpoint", "firewall", "proxy">>>>,
  <<{"cloud", "s3", "upload"}, {}, <<"cloud_trail", "endpoint", "proxy", "firewall">>>>>>

SmartSources(alert) ==
  LET hits == {n \in DOMAIN SourceRules : \/ SourceRules[n][1] \cap alert.words # {}
                                          \/ SourceRules[n][2] \cap alert.source # {}}
  IN  IF hits = {} THEN <<"endpoint", "auth", "firewall", "email_gateway">>
      ELSE SourceRules[Min(hits)][3]

TitleRules == <<
  <<{"internal penetration test", "psexec remote execution", "bulk password reset",
     "scheduled vulnerability scan", "ssh key rotation", "group policy update",
     "backup server", "scheduled job", "admin maintenance activity",
     "it maintenance window"}, "benign_true_positive">>,
  <<{"credential stuffing attack detected", "possible account takeover",
     "suspicious cloud storage download", "spearphishing link clicked",
     "scheduled task created for persistence", "unauthorized database access",
     "bulk data export", "suspicious cloud upload", "vpn login anomaly",
     "service account privilege escalation", "critical configuration changes",
     "after-hours badge access", "mass file deletion",
     "usb mass storage device"}, "true_positive">>>>

ClassifyByTitle(alert) == FirstMatch(TitleRules, alert.words, "false_positive")

LateralStages == <<
  <<{"phishing email"}, 0>>, <<{"lsass", "credential dumping"}, 1>>,
  <<{"rdp", "lateral movement"}, 2>>, <<{"large archive", "file server"}, 3>>,
  <<{"outbound https transfer", "exfil"}, 4>>>>

LateralStageRank(alert) == FirstMatch(LateralStages, alert.words, 99)

-----------------------------------------------------------------------------
(* The verdict on an alert from the evidence gathered for it.              *)

InferClassification(task, a, inv) ==
  LET alert      == task.alerts[a]
      malicious  == inv.enriched \cap task.intel.malicious # {}
      suspicious == \E source \in inv.queried : <<source, "alarming">> \in task.logs[a]
      sanctioned == \E source \in inv.queried : <<source, "sanctioned">> \in task.logs[a]
      likelyBtp  == \/ alert.words \cap BTP_TITLE_KEYWORDS # {}
                    \/ sanctioned /\ ~malicious
                    \/ alert.service /\ ~malicious /\ ~suspicious
      likelyFp   == \/ alert.words \cap FP_TITLE_KEYWORDS # {}
                    \/ alert.severity \in {"low", "info"} /\ ~malicious /\ ~suspicious
  IN  CASE likelyBtp -> "benign_true_positive"
        [] ~likelyBtp /\ likelyFp -> "false_positive"
        [] OTHER -> IF malicious \/ suspicious \/ alert.severity \in {"critical", "high"}
                      THEN "true_positive" ELSE "false_positive"

-----------------------------------------------------------------------------
(* next_action: three playbooks, by the length of the queue.  Each lists   *)
(* the work it still sees in the order it wants it done; the next action   *)
(* is the head of the list.                                                *)

Submit == <<"submit_investigation">>

Open(inv) == inv.classification \notin {"true_positive", "false_positive",
                                        "benign_true_positive"}

Each(queue, Work(_)) == [n \in DOMAIN queue |-> Work(queue[n])]
Pick(queue, Test(_)) == FlattenSeq(Each(queue, LAMBDA x : IF Test(x) THEN <<x>> ELSE <<>>))

\* The alerts of a queue that still need a verdict, a technique, a response.
Unjudged(queue, invs)   == Pick(queue, LAMBDA a : Open(invs[a]))
Unmapped(queue, invs)   == Pick(queue, LAMBDA a : invs[a].mapped = {})
Unanswered(queue, invs) == Pick(queue, LAMBDA a : invs[a].recommended = {})

\* Mutant: an alert with a technique counts as followed up.
UnfollowedOnceMapped(queue, invs) ==
  Pick(queue, LAMBDA a : /\ invs[a].classification \in {"true_positive", "benign_true_positive"}
                         /\ invs[a].mapped = {})

\* The alerts called real that still need a technique or a response.
Unfollowed(queue, invs) ==
  Pick(queue, LAMBDA a : /\ invs[a].classification \in {"true_positive", "benign_true_positive"}
                         /\ invs[a].mapped = {} \/ invs[a].recommended = {})

\* The queue by rank, equal ranks in queue order (Python's sort is stable).
Ranked(queue, ranks, Rank_(_)) ==
  FlattenSeq(Each(ranks, LAMBDA r : Pick(queue, LAMBDA a : Rank_(a) = r)))

SeverityOrder == <<"critical", "high", "medium", "low", "info">>
BySeverity(task, queue) == Ranked(queue, SeverityOrder, LAMBDA a : task.alerts[a].severity)

Indicated(alert) == UNION {ToSet(alert.indicators[n].names) : n \in DOMAIN alert.indicators}

LateralOrder(task) ==
  Ranked(task.queue, <<0, 1, 2, 3, 4, 99>>, LAMBDA a : LateralStageRank(task.alerts[a]))

\* Successive stages nobody has linked, and the agent has not tried to.
UntriedStages(task, invs, attempted) ==
  LET ordered == LateralOrder(task)
      known   == attempted \cup UNION {invs[a].correlated : a \in DOMAIN invs}
      stages  == [n \in 1..(Len(ordered) - 1) |-> <<ordered[n], ordered[n + 1]>>]
  IN  Pick(stages, LAMBDA p : {p[1], p[2]} \notin known)

\* Five alerts: a kill chain.  Correlate its stages, call everything real.
NextLateralAction(task, invs, attempted) ==
  Head(Each(UntriedStages(task, invs, attempted), LAMBDA p :
            <<"correlate_alerts", p[1], p[2]>>)
       \o Each(Unjudged(task.queue, invs), LAMBDA a : <<"classify_alert", a, "true_positive">>)
       \o Each(Unmapped(task.queue, invs), LAMBDA a :
            <<"map_technique", a, InferTechnique(task.alerts[a])>>)
       \o Each(Unanswered(task.queue, invs), LAMBDA a :
            <<"recommend_action", a, InferResponseAction(task.alerts[a], "true_positive")>>)
       \o <<Submit>>)

\* Twenty alerts or more: classify by title, the most severe first.  (Equal
\* severities are in timestamp order in the code, in queue order here.)
NextQueueAction(task, invs) ==
  LET ordered == BySeverity(task, task.queue)
  IN  Head(Each(Unjudged(ordered, invs), LAMBDA a :
                <<"classify_alert", a, ClassifyByTitle(task.alerts[a])>>)
           \o Each(Unanswered(ordered, invs), LAMBDA a :
                <<"recommend_action", a,
                  InferResponseAction(task.alerts[a], invs[a].classification)>>)
           \o <<Submit>>)

VALID_INDICATOR_TYPES == {"ip", "domain", "file_hash", "email", "url", "user"}

UpTo(n, seq) == SubSeq(seq, 1, IF n < Len(seq) THEN n ELSE Len(seq))

\* Indicators of alert a not enriched yet, with `open' alerts unclassified.
Unenriched(task, a, inv, open) ==
  LET entries == Pick(task.alerts[a].indicators, LAMBDA e :
                        /\ e.type \in VALID_INDICATOR_TYPES
                        /\ e.type = "user" => open <= 1)
      most    == IF open >= 10 THEN 1 ELSE 2
      some    == FlattenSeq(Each(entries, LAMBDA e : UpTo(most, e.names)))
  IN  Pick(some, LAMBDA i : i \notin task.intel.private \cup inv.enriched)

StepsPerAlert(budget, open) == IF budget < open THEN 1 ELSE budget \div open

\* Log sources of alert a not queried yet: fewer of them when time is short.
Unqueried(task, a, inv, budget, open) ==
  LET most == IF open >= 20 THEN 1
              ELSE IF open >= 8 \/ StepsPerAlert(budget, open) <= 3 THEN 2 ELSE 4
  IN  Pick(UpTo(most, SmartSources(task.alerts[a])), LAMBDA s : s \notin inv.queried)

\* Alerts to correlate with alert a: those that share an indicator, then the
\* first few of the queue as long as the alert is in few attempted pairs.
Uncorrelated(task, a, attempted, budget, open) ==
  LET others  == Pick(task.queue, LAMBDA b : b # a)
      most    == IF StepsPerAlert(budget, open) <= 3 /\ Len(others) > 3 THEN 3 ELSE Len(others)
      tried   == Cardinality({pair \in attempted : a \in pair})
      sharing == Pick(others, LAMBDA b :
                   Indicated(task.alerts[a]) \cap Indicated(task.alerts[b]) # {})
      guesses == IF tried < most THEN UpTo(most, others) ELSE <<>>
  IN  Pick(sharing \o guesses, LAMBDA b : {a, b} \notin attempted)

\* Any other queue: follow up on what is classified, then investigate the most
\* severe open alert.
NextGenericAction(task, invs, budget, attempted) ==
  LET open      == Unjudged(task.queue, invs)
      followUp(a) ==
        IF invs[a].mapped = {}
          THEN <<"map_technique", a, InferTechnique(task.alerts[a])>>
          ELSE <<"recommend_action", a,
                 InferResponseAction(task.alerts[a], invs[a].classification)>>
      investigation(a) ==
        LET left == Len(open)
        IN  Each(Unenriched(task, a, invs[a], left), LAMBDA i : <<"enrich_indicator", i, a>>)
            \o Each(Unqueried(task, a, invs[a], budget, left),
                    LAMBDA s : <<"query_logs", s, a>>)
            \o Each(Uncorrelated(task, a, attempted, budget, left),
                    LAMBDA b : <<"correlate_alerts", a, b>>)
            \o <<<<"classify_alert", a, InferClassification(task, a, invs[a])>>>>
  IN  Head(Each(Unfollowed(task.queue, invs), followUp)
           \o IF open = <<>> THEN <<Submit>> ELSE investigation(BySeverity(task, open)[1]))

NextAction(task, invs, budget, attempted) ==
  CASE Len(task.queue) = 5 -> NextLateralAction(task, invs, attempted)
    [] Len(task.queue) >= 20 -> NextQueueAction(task, invs)
    [] OTHER -> NextGenericAction(task, invs, budget, attempted)

\* Mutant: nothing is remembered.
RememberedNothing(action, attempted) == attempted

\* The agent remembers the pairs it asked for, linked or not.
Remembered(action, attempted) ==
  IF action[1] = "correlate_alerts" THEN attempted \cup {{action[2], action[3]}} ELSE attempted
=============================================================================
