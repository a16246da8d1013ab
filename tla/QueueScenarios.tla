--------------------------- MODULE QueueScenarios ---------------------------
(***************************************************************************)
(* The tasks that hide attacks in a queue: scenarios/queue_management.py,  *)
(* insider_threat.py and the composite apt_campaign.py.                    *)
(***************************************************************************)
EXTENDS AlertScenarios, TLC

\* False positives made from templates <<severity, title words, log source>>:
\* each has one public address nobody knows and one quiet log entry.
NoiseBatch(prefix, templates, sources) ==
  Batch("false_positive",
        [n \in DOMAIN templates |->
           Alert(templates[n][1], templates[n][2], {},
                 <<Of("ip", <<prefix \o ToString(n)>>)>>)],
        [malicious |-> {}, clean |-> {}, private |-> {}],
        [n \in DOMAIN templates |-> {Quiet(templates[n][3])}],
        [n \in DOMAIN templates |-> Dismissed(sources)],
        <<>>)

-----------------------------------------------------------------------------
(* Queue management: 5 true positives in 2 chains, 3 benign, 12 false.     *)

QueueChainAAlerts == <<
  \* Credential Stuffing Attack Detected
  Alert("high", {"credential", "credential stuffing",
         "credential stuffing attack detected", "stuffing"}, {"auth"},
         <<Of("ip", <<"QA.attacker_ip">>), Of("user", <<"QA.victim_user">>)>>),
  \* Successful Login After Multiple Failures - Possible Account Takeover
  Alert("critical", {"account takeover", "possible account takeover", "takeover"}, {},
         <<Of("ip", <<"QA.attacker_ip">>), Of("user", <<"QA.victim_user">>)>>),
  \* Suspicious Cloud Storage Download - Mass File Access
  Alert("high", {"cloud", "file", "suspicious cloud storage download"}, {},
         <<Of("ip", <<"QA.attacker_ip">>), Of("domain", <<"QA.c2_domain">>),
           Of("user", <<"QA.victim_user">>), Of("file_hash", <<"QA.tool_hash">>)>>)>>

QueueChainAIntel ==
  [malicious |-> {"QA.attacker_ip", "QA.c2_domain", "QA.tool_hash"},
   clean |-> {},
   private |-> {}]

QueueChainALogs == <<
  {Quiet("auth")},
  {Quiet("auth")},
  {Quiet("cloud_trail")}>>

QueueChainAKeys == <<
  Key(<<"T1110.003">>, <<"block_ip">>, <<"auth">>, <<"QA.attacker_ip">>),
  Key(<<"T1078">>, <<"disable_account", "revoke_sessions">>, <<"auth">>,
      <<"QA.attacker_ip">>),
  Key(<<"T1567">>, <<"revoke_sessions", "reset_password">>, <<"cloud_trail">>,
      <<"QA.c2_domain", "QA.tool_hash">>)>>

QueueChainA ==
  Batch("true_positive", QueueChainAAlerts, QueueChainAIntel, QueueChainALogs,
        QueueChainAKeys, <<<<1, 2, 3>>>>)

QueueChainBAlerts == <<
  \* Spearphishing Link Clicked - Credential Harvesting Page
  Alert("high", {"click", "credential", "phish", "spearphish",
         "spearphishing link clicked"}, {"email"},
         <<Of("ip", <<"QB.ext_ip">>), Of("domain", <<"QB.malicious_domain">>),
           Of("user", <<"QB.victim_user">>)>>),
  \* Scheduled Task Created for Persistence
  Alert("high", {"persistence", "scheduled", "scheduled task",
         "scheduled task created",
         "scheduled task created for persistence"}, {"edr"},
         <<Of("ip", <<"QB.victim_ip">>), Of("file_hash", <<"QB.payload_hash">>),
           Of("user", <<"QB.victim_user">>)>>)>>

QueueChainBIntel ==
  [malicious |-> {"QB.ext_ip", "QB.malicious_domain", "QB.payload_hash"},
   clean |-> {},
   private |-> {"QB.victim_ip"}]

QueueChainBLogs == <<
  {Quiet("proxy")},
  {Quiet("endpoint")}>>

QueueChainBKeys == <<
  Key(<<"T1566.002">>, <<"block_domain", "block_ip">>, <<"proxy">>,
      <<"QB.ext_ip", "QB.malicious_domain">>),
  Key(<<"T1053.005", "T1059.001">>, <<"isolate_endpoint", "quarantine_file">>,
      <<"endpoint">>, <<"QB.payload_hash">>)>>

QueueChainB ==
  Batch("true_positive", QueueChainBAlerts, QueueChainBIntel, QueueChainBLogs,
        QueueChainBKeys, <<<<1, 2>>>>)

QueueBenignAlerts == <<
  \* Port Scan Detected - Multiple Hosts
  Alert("medium", {}, {},
         <<Of("ip", <<"QT.pentest_ip">>), Of("user", <<"QT.pentest_user">>)>>),
  \* PsExec Remote Execution - Admin Maintenance Activity
  Alert("medium", {"admin maintenance activity", "maintenance",
         "psexec remote execution"}, {"edr"},
         <<Of("ip", <<"QT.admin_ip">>), Of("user", <<"QT.admin_user">>),
           Of("hostname", <<"QT.admin_host">>)>>),
  \* Bulk Password Reset - IT Maintenance Window
  ServiceAlert("low", {"bulk password reset", "it maintenance window", "maintenance",
         "password"}, {}, <<Of("user", <<"QT.it_user">>)>>)>>

QueueBenignIntel ==
  [malicious |-> {},
   clean |-> {"QT.pentest_ip"},
   private |-> {"QT.pentest_ip", "QT.admin_ip"}]

QueueBenignLogs == <<
  {Sanctioned("ids")},
  {Sanctioned("endpoint")},
  {Sanctioned("auth")}>>

QueueBenign ==
  Batch("benign_true_positive", QueueBenignAlerts, QueueBenignIntel, QueueBenignLogs,
        <<Dismissed(<<"ids">>), Dismissed(<<"endpoint">>),
          Dismissed(<<"auth">>)>>, <<>>)

QueueNoiseTemplates == <<
  <<"low", {"geoblock"}, "firewall">>,
  <<"info", {"vulnerability scan"}, "firewall">>,
  <<"low", {"geoblock", "outbound"}, "firewall">>,
  <<"low", {}, "endpoint">>,
  <<"low", {"script"}, "endpoint">>,
  <<"low", {"archive"}, "endpoint">>,
  <<"low", {"script"}, "endpoint">>,
  <<"low", {}, "auth">>,
  <<"low", {}, "auth">>,
  <<"low", {}, "auth">>,
  <<"info", {}, "dns">>,
  <<"info", {"vulnerability scan"}, "firewall">>>>

QueueNoise == NoiseBatch("QF.", QueueNoiseTemplates, <<"email_gateway", "firewall">>)

QueueManagement ==
  Task("queue_management",
       Merge(<<QueueChainA, QueueChainB, QueueBenign, QueueNoise>>),
       <<1, 2, 3>>, {}, {}, 60)

-----------------------------------------------------------------------------
(* Insider threat: 9 true positives in 3 chains, 5 benign, 16 false.       *)

InsiderChainAAlerts == <<
  \* Unauthorized Database Access - Sensitive Tables Queried
  Alert("high", {"authorized", "unauthorized", "unauthorized database access"}, {},
         <<Of("ip", <<"IA.insider_ip", "IA.db_ip">>),
           Of("user", <<"IA.insider_user">>), Of("hostname", <<"IA.db_server">>)>>),
  \* Bulk Data Export to Local CSV Files
  Alert("high", {"bulk data export", "file"}, {},
         <<Of("ip", <<"IA.insider_ip">>), Of("file_hash", <<"IA.export_hash">>),
           Of("user", <<"IA.insider_user">>),
           Of("hostname", <<"IA.insider_host">>)>>),
  \* Suspicious Cloud Upload - Personal Storage Service
  Alert("critical", {"cloud", "cloud upload", "suspicious cloud upload",
         "upload"}, {},
         <<Of("ip", <<"IA.insider_ip", "IA.cloud_ip">>),
           Of("domain", <<"IA.cloud_domain">>), Of("user", <<"IA.insider_user">>),
           Of("file_hash", <<"IA.export_hash">>)>>)>>

InsiderChainAIntel ==
  [malicious |-> {"IA.cloud_domain"},
   clean |-> {"IA.cloud_ip", "IA.export_hash"},
   private |-> {"IA.insider_ip", "IA.db_ip"}]

InsiderChainALogs == <<
  {Quiet("auth"), Quiet("cloud_trail")},
  {Quiet("endpoint")},
  {Quiet("proxy")}>>

InsiderChainAKeys == <<
  Key(<<"T1078">>, <<"disable_account", "revoke_sessions">>,
      <<"auth", "cloud_trail">>, <<"IA.insider_ip", "IA.db_ip">>),
  Key(<<"T1530">>, <<"isolate_endpoint", "quarantine_file">>, <<"endpoint">>,
      <<"IA.export_hash">>),
  Key(<<"T1567">>, <<"block_domain", "disable_account">>, <<"proxy">>,
      <<"IA.cloud_domain", "IA.cloud_ip", "IA.export_hash">>)>>

InsiderChainA ==
  Batch("true_positive", InsiderChainAAlerts, InsiderChainAIntel, InsiderChainALogs,
        InsiderChainAKeys, <<<<1, 2, 3>>>>)

InsiderChainBAlerts == <<
  \* VPN Login Anomaly - Vendor Account from Unusual Location
  Alert("high", {"vpn", "vpn login anomaly"}, {},
         <<Of("ip", <<"IB.vendor_vpn_ip">>), Of("user", <<"IB.vendor_user">>)>>),
  \* Service Account Privilege Escalation
  ServiceAlert("critical", {"privilege", "service account privilege escalation"}, {},
         <<Of("ip", <<"IB.target_ip">>),
           Of("user", <<"IB.vendor_user", "IB.svc_account">>),
           Of("hostname", <<"IB.target_server">>)>>),
  \* Critical Configuration Changes - Firewall Rules Modified
  ServiceAlert("critical", {"configuration changes",
         "critical configuration changes", "firewall rules modified"}, {},
         <<Of("ip", <<"IB.config_ip">>), Of("user", <<"IB.svc_account">>),
           Of("hostname", <<"IB.config_server">>),
           Of("file_hash", <<"IB.tool_hash">>)>>)>>

InsiderChainBIntel ==
  [malicious |-> {"IB.vendor_vpn_ip", "IB.tool_hash"},
   clean |-> {},
   private |-> {"IB.target_ip", "IB.config_ip"}]

InsiderChainBLogs == <<
  {Quiet("auth")},
  {Quiet("auth")},
  {Quiet("firewall"), Quiet("endpoint")}>>

InsiderChainBKeys == <<
  Key(<<"T1133">>, <<"block_ip", "disable_account">>, <<"auth">>,
      <<"IB.vendor_vpn_ip">>),
  Key(<<"T1098">>, <<"disable_account", "revoke_sessions">>, <<"auth">>, <<>>),
  Key(<<"T1562.004">>, <<"isolate_endpoint", "disable_account">>,
      <<"firewall", "endpoint">>, <<"IB.tool_hash">>)>>

InsiderChainB ==
  Batch("true_positive", InsiderChainBAlerts, InsiderChainBIntel, InsiderChainBLogs,
        InsiderChainBKeys, <<<<1, 2, 3>>>>)

InsiderChainCAlerts == <<
  \* After-Hours Badge Access - Terminated Employee on PIP
  Alert("medium", {"after-hours badge access", "badge"}, {},
         <<Of("user", <<"IC.disgruntled_user">>),
           Of("ip", <<"IC.disgruntled_ip">>)>>),
  \* Mass File Deletion - Engineering Share
  Alert("critical", {"delet", "file", "mass file deletion"}, {},
         <<Of("ip", <<"IC.disgruntled_ip", "IC.file_server_ip">>),
           Of("user", <<"IC.disgruntled_user">>),
           Of("hostname", <<"IC.file_server">>)>>),
  \* USB Mass Storage Device - Large Data Copy Detected
  Alert("critical", {"large", "usb", "usb mass storage",
         "usb mass storage device"}, {"endpoint"},
         <<Of("ip", <<"IC.disgruntled_ip">>), Of("user", <<"IC.disgruntled_user">>),
           Of("hostname", <<"IC.disgruntled_host">>),
           Of("file_hash", <<"IC.usb_hash">>)>>)>>

InsiderChainCIntel ==
  [malicious |-> {},
   clean |-> {"IC.usb_hash"},
   private |-> {"IC.disgruntled_ip", "IC.file_server_ip"}]

InsiderChainCLogs == <<
  {Quiet("auth")},
  {Quiet("endpoint"), Quiet("auth")},
  {Quiet("endpoint")}>>

InsiderChainCKeys == <<
  Key(<<"T1078">>, <<"disable_account">>, <<"auth">>, <<>>),
  Key(<<"T1485">>, <<"disable_account", "isolate_endpoint">>, <<"auth", "endpoint">>,
      <<"IC.disgruntled_ip", "IC.file_server_ip">>),
  Key(<<"T1052.001">>, <<"isolate_endpoint", "disable_account">>, <<"endpoint">>,
      <<"IC.usb_hash">>)>>

InsiderChainC ==
  Batch("true_positive", InsiderChainCAlerts, InsiderChainCIntel, InsiderChainCLogs,
        InsiderChainCKeys, <<<<1, 2, 3>>>>)

InsiderBenignAlerts == <<
  \* Internal Penetration Test - Credential Spraying Detected
  Alert("high", {"credential", "internal penetration test"}, {},
         <<Of("ip", <<"IT.pentest_ip">>), Of("user", <<"IT.pentest_user">>)>>),
  \* Large Data Transfer to Backup Server - Scheduled Job
  ServiceAlert("medium", {"backup server", "large", "scheduled", "scheduled job",
         "transfer"}, {"dlp"},
         <<Of("ip", <<"IT.backup_ip">>), Of("user", <<"IT.backup_user">>),
           Of("hostname", <<"IT.backup_host">>)>>),
  \* Admin Account Mass Group Policy Update
  Alert("medium", {"group policy", "group policy update"}, {},
         <<Of("ip", <<"IT.admin_ip">>), Of("user", <<"IT.admin_user">>),
           Of("hostname", <<"IT.admin_host">>)>>),
  \* Scheduled Vulnerability Scan - Internal Scanner
  Alert("low", {"scheduled", "scheduled vulnerability scan",
         "vulnerability scan"}, {}, <<Of("user", <<"IT.it_user">>)>>),
  \* SSH Key Rotation - DevOps Automation
  Alert("low", {"key rotation", "ssh key", "ssh key rotation"}, {},
         <<Of("user", <<"IT.devops_user">>)>>)>>

InsiderBenignIntel ==
  [malicious |-> {},
   clean |-> {"IT.pentest_ip"},
   private |-> {"IT.pentest_ip", "IT.backup_ip", "IT.admin_ip"}]

InsiderBenignLogs == <<
  {Sanctioned("ids")},
  {Quiet("firewall")},
  {Quiet("auth")},
  {Sanctioned("ids")},
  {Quiet("auth")}>>

InsiderBenign ==
  Batch("benign_true_positive", InsiderBenignAlerts, InsiderBenignIntel, InsiderBenignLogs,
        <<Dismissed(<<"ids">>), Dismissed(<<"firewall">>), Dismissed(<<"auth">>),
          Dismissed(<<"ids">>), Dismissed(<<"auth">>)>>, <<>>)

InsiderNoiseTemplates == <<
  <<"low", {"geoblock"}, "firewall">>,
  <<"info", {"vulnerability scan"}, "firewall">>,
  <<"info", {}, "dns">>,
  <<"low", {}, "dns">>,
  <<"low", {"malware"}, "dns">>,
  <<"low", {}, "endpoint">>,
  <<"low", {"script"}, "endpoint">>,
  <<"low", {}, "endpoint">>,
  <<"info", {}, "proxy">>,
  <<"low", {}, "auth">>,
  <<"low", {"password", "service account lockout"}, "auth">>,
  <<"low", {}, "auth">>,
  <<"low", {"cloud", "geoblock", "outbound"}, "firewall">>,
  <<"info", {}, "ids">>,
  <<"info", {}, "firewall">>,
  <<"info", {}, "proxy">>>>

InsiderNoise == NoiseBatch("IF.", InsiderNoiseTemplates, <<"firewall", "dns">>)

InsiderBatch ==
  Merge(<<InsiderChainA, InsiderChainB, InsiderChainC, InsiderBenign, InsiderNoise>>)

InsiderThreat == Task("insider_threat", InsiderBatch, <<1, 2, 3>>, {}, {}, 80)

-----------------------------------------------------------------------------
(* APT campaign: phishing, lateral movement and insider threat at once.    *)

\* The campaign's key keeps the verdicts, techniques and chains of its parts,
\* and nothing else; every true positive must be escalated.
AptCampaign(phish) ==
  LET parts == <<[phish EXCEPT !.chains = <<>>], LateralMovement, InsiderThreat>>
      all   == Merge(parts)
      bare  == [n \in DOMAIN all.keys |-> Key(all.keys[n].techniques, <<>>, <<>>, <<>>)]
  IN  Task("apt_campaign", [all EXCEPT !.keys = bare], <<>>,
           {n \in DOMAIN all.truth : all.truth[n] = "true_positive"}, {}, 250)
=============================================================================
