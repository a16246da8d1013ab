--------------------------- MODULE AlertScenarios ---------------------------
(***************************************************************************)
(* What the scenario generators of scenarios/ put into an episode, as far  *)
(* as a player, a grader or the engine looks at it.                        *)
(*                                                                         *)
(* An alert is its severity, the words a rule-based analyst looks for in   *)
(* its title and in the name of its source system, and its indicators in   *)
(* the order they are listed.  Names that a generator draws at random (an  *)
(* address, a user, a hash) are named after the variable that holds them,  *)
(* and two draws never collide.  A log entry is what its details say:      *)
(* quiet, alarming (a macro, an encoded command or critical severity) or   *)
(* sanctioned (authorized or scheduled).  Asset and user directories,      *)
(* times and texts are left out.                                           *)
(***************************************************************************)
EXTENDS Naturals, Sequences, FiniteSets, SequencesExt

Of(type, names) == [type |-> type, names |-> names]

Alert(severity, words, source, indicators) ==
  [severity |-> severity, words |-> words, source |-> source,
   indicators |-> indicators, service |-> FALSE]

\* An alert whose indicators name a service account, a backup or a scanner.
ServiceAlert(severity, words, source, indicators) ==
  [Alert(severity, words, source, indicators) EXCEPT !.service = TRUE]

Quiet(source)      == <<source, "quiet">>
Alarming(source)   == <<source, "alarming">>
Sanctioned(source) == <<source, "sanctioned">>

\* The answer key of one alert: what its expert would have mapped,
\* recommended, queried and enriched.
Key(techniques, responses, sources, iocs) ==
  [techniques |-> techniques, responses |-> responses,
   sources |-> sources, iocs |-> iocs]

Dismissed(sources) == Key(<<>>, <<"no_action">>, sources, <<>>)

\* A batch of alerts with the same verdict and the chains among them.
Batch(verdict, alerts, intel, logs, keys, chains) ==
  [alerts |-> alerts,
   truth |-> [n \in 1..Len(alerts) |-> verdict],
   keys |-> keys, logs |-> logs, intel |-> intel, chains |-> chains]

\* Batches side by side: positions in the chains of a later batch move up.
Merge(batches) ==
  LET All(part(_)) == FlattenSeq([b \in DOMAIN batches |-> part(batches[b])])
      before(b) == Len(FlattenSeq([c \in 1..(b - 1) |-> batches[c].alerts]))
      moved(b) == [n \in DOMAIN batches[b].chains |->
                     [m \in DOMAIN batches[b].chains[n] |->
                        before(b) + batches[b].chains[n][m]]]
      Alerts(x) == x.alerts   Truth(x) == x.truth
      Keys(x) == x.keys       Logs(x) == x.logs
      union(field) == UNION {batches[b].intel[field] : b \in DOMAIN batches}
  IN  [alerts |-> All(Alerts), truth |-> All(Truth), keys |-> All(Keys),
       logs |-> All(Logs),
       intel |-> [f \in {"malicious", "clean", "private"} |-> union(f)],
       chains |-> FlattenSeq([b \in DOMAIN batches |-> moved(b)])]

\* A task: a batch with its kill chain, required escalations, manager flags
\* and step budget.  The queue starts in the order the batch lists.
Task(name, batch, kill, required, flags, maxSteps) ==
  [name |-> name, alerts |-> batch.alerts, truth |-> batch.truth,
   keys |-> batch.keys, logs |-> batch.logs, intel |-> batch.intel,
   chains |-> batch.chains, kill |-> kill, required |-> required,
   flags |-> flags, max_steps |-> maxSteps,
   queue |-> [n \in 1..Len(batch.alerts) |-> n]]

\* The same task with its queue in another order.
Shuffled(task, order) == [task EXCEPT !.queue = order]

\* validate_scenario, but for the catalogue of techniques: the queue lists every
\* alert once, each has a verdict, and nothing in the answer key speaks of an
\* alert that is not there.
ValidScenario(task) ==
  LET known == DOMAIN task.alerts
  IN  /\ task.alerts # <<>> /\ task.max_steps > 0
      /\ Len(task.queue) = Len(task.alerts) /\ ToSet(task.queue) = known
      /\ DOMAIN task.truth = known /\ DOMAIN task.keys = known /\ DOMAIN task.logs = known
      /\ task.required \cup task.flags \subseteq known
      /\ ToSet(task.kill) \cup UNION {ToSet(c) : c \in ToSet(task.chains)} \subseteq known

-----------------------------------------------------------------------------
(* Phishing: scenarios/phishing.py.                                        *)

PhishingAlerts == <<
  \* Suspicious Phishing Email with Executable Attachment
  Alert("high", {"email", "phish", "phishing email"}, {"email"},
         <<Of("ip", <<"P.attacker_ip", "P.c2_ip">>),
           Of("domain", <<"P.malicious_domain", "P.c2_domain">>),
           Of("file_hash", <<"P.attachment_hash">>),
           Of("email", <<"P.sender_email">>)>>)>>

PhishingIntel ==
  [malicious |-> {"P.attacker_ip", "P.malicious_domain", "P.attachment_hash",
      "P.sender_email", "P.c2_domain", "P.c2_ip"},
   clean |-> {},
   private |-> {}]

PhishingLogs == <<
  {Quiet("firewall"), Quiet("dns"), Quiet("endpoint"), Alarming("endpoint"),
    Quiet("email_gateway"), Alarming("ids")}>>

PhishingKeys == <<
  Key(<<"T1566.001", "T1204.002", "T1059.001", "T1071.001", "T1041">>,
      <<"isolate_endpoint", "block_ip", "block_domain", "quarantine_file">>,
      <<"email_gateway", "endpoint", "dns", "firewall", "ids">>,
      <<"P.attacker_ip", "P.malicious_domain", "P.attachment_hash", "P.sender_email",
        "P.c2_domain", "P.c2_ip">>)>>

Phishing ==
  Task("phishing",
       Batch("true_positive", PhishingAlerts, PhishingIntel,
             PhishingLogs, PhishingKeys, <<>>),
       <<>>, {}, {}, 15)

NewsletterAlerts == <<
  \* Potential Phishing Email - Newsletter with Attachment
  Alert("medium", {"email", "phish", "phishing email"}, {"email"},
         <<Of("ip", <<"P.sender_ip">>), Of("domain", <<"P.sender_domain">>),
           Of("file_hash", <<"P.pdf_hash">>), Of("email", <<"P.sender_email">>)>>)>>

NewsletterIntel ==
  [malicious |-> {},
   clean |-> {"P.sender_ip", "P.sender_domain", "P.pdf_hash", "P.sender_email"},
   private |-> {}]

NewsletterLogs == <<
  {Quiet("email_gateway")}>>

NewsletterKeys == <<
  Key(<<>>, <<"no_action">>, <<"email_gateway", "endpoint">>,
      <<"P.sender_ip", "P.sender_domain", "P.pdf_hash">>)>>

Newsletter ==
  Task("phishing",
       Batch("false_positive", NewsletterAlerts, NewsletterIntel,
             NewsletterLogs, NewsletterKeys, <<>>),
       <<>>, {}, {}, 15)

-----------------------------------------------------------------------------
(* Ransomware: scenarios/ransomware.py.                                    *)

RansomwareAlerts == <<
  \* Ransomware Behavior - Mass File Encryption and Shadow Copy Deletion
  Alert("critical", {"delet", "file"}, {"edr"},
         <<Of("ip", <<"R.c2_ip">>), Of("domain", <<"R.c2_domain">>),
           Of("file_hash", <<"R.payload_hash">>)>>)>>

RansomwareIntel ==
  [malicious |-> {"R.payload_hash", "R.c2_domain", "R.c2_ip"},
   clean |-> {},
   private |-> {}]

RansomwareLogs == <<
  {Quiet("firewall"), Quiet("dns"), Alarming("endpoint"), Alarming("ids")}>>

RansomwareKeys == <<
  Key(<<"T1486", "T1490", "T1489", "T1071.001", "T1083">>,
      <<"isolate_endpoint", "quarantine_file", "block_ip", "block_domain">>,
      <<"endpoint", "dns", "firewall", "ids">>,
      <<"R.payload_hash", "R.c2_domain", "R.c2_ip">>)>>

Ransomware ==
  Task("ransomware",
       Batch("true_positive", RansomwareAlerts, RansomwareIntel,
             RansomwareLogs, RansomwareKeys, <<>>),
       <<>>, {}, {}, 15)

BackupJobAlerts == <<
  \* Possible Ransomware - High-Volume File Access by Backup Process
  Alert("medium", {"file"}, {"edr"},
         <<Of("ip", <<"R.vendor_ip">>), Of("domain", <<"R.vendor_domain">>),
           Of("file_hash", <<"R.agent_hash">>)>>)>>

BackupJobIntel ==
  [malicious |-> {},
   clean |-> {"R.agent_hash", "R.vendor_domain", "R.vendor_ip"},
   private |-> {}]

BackupJobLogs == <<
  {Quiet("endpoint")}>>

BackupJobKeys == <<
  Key(<<>>, <<"no_action">>, <<"endpoint">>,
      <<"R.vendor_ip", "R.vendor_domain", "R.agent_hash">>)>>

BackupJob ==
  Task("ransomware",
       Batch("false_positive", BackupJobAlerts, BackupJobIntel,
             BackupJobLogs, BackupJobKeys, <<>>),
       <<>>, {}, {}, 15)

-----------------------------------------------------------------------------
(* Cloud compromise: scenarios/cloud_compromise.py.                        *)

CloudCompromiseAlerts == <<
  \* Cloud Identity Compromise - Impossible Travel and IAM Abuse
  Alert("critical", {"cloud", "impossible travel"}, {},
         <<Of("ip", <<"C.attacker_ip">>), Of("user", <<"C.username">>)>>)>>

CloudCompromiseIntel ==
  [malicious |-> {"C.attacker_ip"},
   clean |-> {"C.username"},
   private |-> {}]

CloudCompromiseLogs == <<
  {Quiet("auth"), Quiet("cloud_trail"), Alarming("cloud_trail")}>>

CloudCompromiseKeys == <<
  Key(<<"T1078.004", "T1098.001", "T1562.008", "T1530">>,
      <<"disable_account", "revoke_sessions", "reset_password", "block_ip">>,
      <<"auth", "cloud_trail">>, <<"C.attacker_ip", "C.username">>)>>

CloudCompromise ==
  Task("cloud_compromise",
       Batch("true_positive", CloudCompromiseAlerts, CloudCompromiseIntel,
             CloudCompromiseLogs, CloudCompromiseKeys, <<>>),
       <<>>, {}, {}, 15)

NewLocationAlerts == <<
  \* Cloud Console Access from a New Location
  Alert("low", {"cloud"}, {},
         <<Of("ip", <<"C.travel_ip">>), Of("user", <<"C.username">>)>>)>>

NewLocationIntel ==
  [malicious |-> {},
   clean |-> {"C.travel_ip", "C.username"},
   private |-> {}]

NewLocationLogs == <<
  {Quiet("auth"), Quiet("cloud_trail")}>>

NewLocationKeys == <<
  Key(<<>>, <<"no_action">>, <<"auth", "cloud_trail">>,
      <<"C.travel_ip", "C.username">>)>>

NewLocation ==
  Task("cloud_compromise",
       Batch("false_positive", NewLocationAlerts, NewLocationIntel,
             NewLocationLogs, NewLocationKeys, <<>>),
       <<>>, {}, {}, 15)

-----------------------------------------------------------------------------
(* Lateral movement: scenarios/lateral_movement.py.                        *)

LateralAlerts == <<
  \* Phishing Email with Macro-Enabled Attachment
  Alert("high", {"email", "macro", "macro-enabled", "phish",
         "phishing email"}, {"email"},
         <<Of("ip", <<"L.phishing_ip", "L.ext_c2_ip">>),
           Of("domain", <<"L.phishing_domain">>),
           Of("file_hash", <<"L.dropper_hash">>),
           Of("email", <<"L.attacker_email">>)>>),
  \* Suspicious Process Accessing LSASS Memory (Credential Dumping)
  Alert("critical", {"credential", "credential dump", "credential dumping",
         "lsass"}, {"endpoint"},
         <<Of("ip", <<"L.victim_ip1">>), Of("file_hash", <<"L.mimikatz_hash">>),
           Of("user", <<"L.victim_username">>)>>),
  \* Anomalous RDP Lateral Movement - Unusual User/Host Pair
  Alert("high", {"lateral", "lateral movement", "rdp", "rdp lateral movement"}, {},
         <<Of("ip", <<"L.victim_ip1", "L.lateral_ip">>),
           Of("user", <<"L.victim_username">>)>>),
  \* Large Archive File Created on File Server
  Alert("medium", {"archive", "file", "file server", "large",
         "large archive"}, {"dlp"},
         <<Of("ip", <<"L.lateral_ip">>), Of("file_hash", <<"L.archive_hash">>),
           Of("user", <<"L.victim_username">>),
           Of("hostname", <<"L.file_server">>)>>),
  \* Large Outbound HTTPS Transfer to Known Malicious IP
  Alert("critical", {"large", "outbound", "outbound https transfer",
         "transfer"}, {"firewall"},
         <<Of("ip", <<"L.lateral_ip", "L.ext_c2_ip">>),
           Of("domain", <<"L.ext_c2_domain">>),
           Of("hostname", <<"L.file_server">>)>>)>>

LateralIntel ==
  [malicious |-> {"L.phishing_ip", "L.phishing_domain", "L.dropper_hash",
      "L.attacker_email", "L.ext_c2_ip", "L.ext_c2_domain", "L.mimikatz_hash"},
   clean |-> {"L.archive_hash"},
   private |-> {"L.victim_ip1", "L.lateral_ip"}]

LateralLogs == <<
  {Quiet("endpoint"), Alarming("email_gateway")},
  {Alarming("endpoint"), Alarming("ids")},
  {Quiet("firewall"), Quiet("auth")},
  {Quiet("endpoint"), Quiet("auth")},
  {Alarming("firewall"), Quiet("proxy"), Alarming("ids")}>>

LateralKeys == <<
  Key(<<"T1566.001", "T1204.002">>, <<"isolate_endpoint", "quarantine_file">>,
      <<"email_gateway", "endpoint">>,
      <<"L.phishing_ip", "L.phishing_domain", "L.dropper_hash", "L.attacker_email">>),
  Key(<<"T1003.001", "T1059.001">>, <<"isolate_endpoint", "reset_password">>,
      <<"endpoint", "ids">>, <<"L.mimikatz_hash">>),
  Key(<<"T1021.001", "T1078">>, <<"disable_account", "revoke_sessions">>,
      <<"auth", "firewall">>, <<>>),
  Key(<<"T1074.001", "T1560.001">>, <<"isolate_endpoint", "quarantine_file">>,
      <<"endpoint", "auth">>, <<"L.archive_hash">>),
  Key(<<"T1041", "T1071.001">>, <<"block_ip", "block_domain">>,
      <<"firewall", "proxy", "ids">>, <<"L.ext_c2_ip", "L.ext_c2_domain">>)>>

LateralBatch ==
  Batch("true_positive", LateralAlerts, LateralIntel, LateralLogs, LateralKeys,
        <<<<1, 2, 3, 4, 5>>>>)

LateralMovement ==
  Task("lateral_movement", LateralBatch, <<1, 2, 3, 4, 5>>, {}, {}, 30)

-----------------------------------------------------------------------------
(* The team tasks: team_phishing_escalation.py, team_lateral_team.py.      *)

TeamPhishingAlerts == <<
  \* Phishing Email with Malicious Executable - Team Escalation Required
  Alert("high", {"email", "phish", "phishing email"}, {"email"},
         <<Of("ip", <<"TP.sender_ip">>), Of("domain", <<"TP.malicious_domain">>),
           Of("file_hash", <<"TP.file_hash">>), Of("email", <<"TP.sender_email">>)>>)>>

TeamPhishingIntel ==
  [malicious |-> {"TP.sender_ip", "TP.malicious_domain", "TP.file_hash",
      "TP.sender_email"},
   clean |-> {},
   private |-> {}]

TeamPhishingLogs == <<
  {Quiet("firewall"), Quiet("dns"), Quiet("endpoint"), Alarming("endpoint"),
    Quiet("email_gateway"), Alarming("ids")}>>

TeamPhishingKeys == <<
  Key(<<"T1566.001", "T1204.002">>, <<"quarantine_file", "block_ip">>,
      <<"email_gateway", "endpoint", "dns", "firewall", "ids">>,
      <<"TP.sender_ip", "TP.malicious_domain", "TP.file_hash", "TP.sender_email">>)>>

TeamPhishing ==
  Task("team_phishing_escalation",
       Batch("true_positive", TeamPhishingAlerts, TeamPhishingIntel,
             TeamPhishingLogs, TeamPhishingKeys, <<>>),
       <<>>, {1}, {}, 68)

TeamLateralAttackAlerts == <<
  \* Phishing Email with Malicious Attachment Delivered
  Alert("high", {"email", "phish", "phishing email"}, {"email"},
         <<Of("ip", <<"TL.attacker_ip">>), Of("domain", <<"TL.phishing_domain">>),
           Of("file_hash", <<"TL.phishing_hash">>), Of("email", <<"TL.email1">>)>>),
  \* Credential Dumping Tool Executed on Workstation
  Alert("critical", {"credential", "credential dump", "credential dumping"}, {"edr"},
         <<Of("ip", <<"TL.workstation_ip">>),
           Of("file_hash", <<"TL.cred_dump_hash">>)>>),
  \* Lateral Movement Detected - SMB Spread to Domain Controller
  Alert("critical", {"lateral", "lateral movement"}, {"firewall"},
         <<Of("ip", <<"TL.workstation_ip", "TL.dc_ip">>)>>),
  \* Suspicious Data Staging to Temp Folder on File Server
  Alert("medium", {"file", "file server", "stag", "staging"}, {"dlp", "endpoint"},
         <<Of("ip", <<"TL.staging_server_ip", "TL.dc_ip">>)>>),
  \* Outbound Data Exfiltration to External IP
  Alert("critical", {"exfil", "outbound"}, {"firewall"},
         <<Of("ip", <<"TL.staging_server_ip", "TL.exfil_ip">>),
           Of("domain", <<"TL.exfil_domain">>)>>)>>

TeamLateralAttackIntel ==
  [malicious |-> {"TL.attacker_ip", "TL.phishing_domain", "TL.phishing_hash",
      "TL.cred_dump_hash", "TL.exfil_ip", "TL.exfil_domain"},
   clean |-> {},
   private |-> {"TL.workstation_ip", "TL.dc_ip", "TL.staging_server_ip"}]

TeamLateralAttackLogs == <<
  {Quiet("endpoint"), Quiet("email_gateway")},
  {Alarming("endpoint"), Alarming("auth")},
  {Alarming("firewall"), Quiet("auth")},
  {Quiet("endpoint")},
  {Alarming("firewall"), Alarming("proxy")}>>

TeamLateralAttackKeys == <<
  Key(<<"T1566.001">>, <<"quarantine_file", "block_ip">>,
      <<"email_gateway", "endpoint">>,
      <<"TL.attacker_ip", "TL.phishing_domain", "TL.phishing_hash">>),
  Key(<<"T1003.001">>, <<"disable_account", "isolate_endpoint">>,
      <<"endpoint", "auth">>, <<"TL.cred_dump_hash", "TL.workstation_ip">>),
  Key(<<"T1021.002">>, <<"isolate_endpoint", "block_ip">>, <<"firewall", "auth">>,
      <<"TL.workstation_ip", "TL.dc_ip">>),
  Key(<<"T1074.001">>, <<"isolate_endpoint">>, <<"endpoint">>,
      <<"TL.staging_server_ip", "TL.dc_ip">>),
  Key(<<"T1041">>, <<"block_ip", "block_domain">>, <<"firewall", "proxy">>,
      <<"TL.exfil_ip", "TL.exfil_domain">>)>>

TeamLateralNoiseAlerts == <<
  \* High-Volume DNS Queries - Possible DNS Tunneling
  Alert("low", {}, {}, <<Of("ip", <<"TL.noise_ip_1">>)>>),
  \* Login from Unusual Geographic Location
  Alert("medium", {}, {}, <<Of("ip", <<"TL.noise_ip_2">>)>>),
  \* Internal Port Scan Detected
  Alert("low", {}, {}, <<Of("ip", <<"TL.monitoring_ip">>)>>)>>

TeamLateralNoiseIntel ==
  [malicious |-> {},
   clean |-> {"TL.noise_ip_1", "TL.noise_ip_2", "TL.monitoring_ip"},
   private |-> {"TL.noise_ip_1", "TL.monitoring_ip"}]

TeamLateralNoiseLogs == <<
  {Quiet("dns")},
  {Quiet("auth")},
  {Sanctioned("ids")}>>

TeamLateralNoiseKeys == <<
  Key(<<>>, <<"no_action">>, <<"dns">>, <<"TL.noise_ip_1">>),
  Key(<<>>, <<"no_action">>, <<"auth">>, <<"TL.noise_ip_2">>),
  Key(<<>>, <<"no_action">>, <<"ids">>, <<"TL.monitoring_ip">>)>>

TeamLateral ==
  Task("team_lateral_team",
       Merge(<<Batch("true_positive", TeamLateralAttackAlerts, TeamLateralAttackIntel,
                     TeamLateralAttackLogs, TeamLateralAttackKeys, <<<<1, 2, 3, 4, 5>>>>),
               Batch("false_positive", TeamLateralNoiseAlerts, TeamLateralNoiseIntel,
                     TeamLateralNoiseLogs, TeamLateralNoiseKeys, <<>>)>>),
       <<1, 2, 3, 4, 5>>, {2, 3, 5}, {4}, 68)
=============================================================================
