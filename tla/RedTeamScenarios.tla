-------------------------- MODULE RedTeamScenarios --------------------------
(***************************************************************************)
(* The tasks the red-team generator makes (scenarios/red_team_generator.py)*)
(* for POST /generate_scenario: an attack whose pattern and size follow    *)
(* the difficulty, and noise by density, some of it at the attack's own    *)
(* addresses when the correlations are obfuscated.                         *)
(*                                                                         *)
(* Positions come in the order the alerts are made, attack first; the      *)
(* generator then shuffles the queue.  The freshness of the intelligence   *)
(* changes confidences only and is left out.                               *)
(***************************************************************************)
EXTENDS AlertScenarios, Integers

Nth(name, n) == "RT." \o name \o ToString(n)
Under(list, n) == list[((n - 1) % Len(list)) + 1]

-----------------------------------------------------------------------------
(* The attack.                                                             *)

PhishingAttack(count) ==
  [n \in 1..count |->
     Alert("high", {"email"}, {"email"},
           <<Of("ip", <<Nth("attacker_ip", n)>>), Of("domain", <<Nth("malicious_domain", n)>>),
             Of("file_hash", <<Nth("file_hash", n)>>), Of("email", <<Nth("sender", n)>>)>>)]

Protocols == <<"SMB", "RDP", "SMB", "RDP", "WMI">>
Severities == <<"low", "medium", "high", "high", "critical">>

\* Every hop leaves from the same host.  The internal domain is drawn from three
\* names; here all hops have drawn the same.
LateralAttack(count) ==
  [n \in 1..count |->
     LET protocol == Under(Protocols, n)
     IN  Alert(IF n <= Len(Severities) THEN Severities[n] ELSE "critical",
               {"lateral", "lateral movement"} \cup (IF protocol = "RDP" THEN {"rdp"} ELSE {}),
               {"edr"},
               <<Of("ip", <<"RT.base_src_ip", Nth("dst_ip", n)>>),
                 Of("domain", <<"RT.internal">>)>>
                 \o (IF protocol = "SMB" THEN <<Of("file_hash", <<Nth("file_hash", n)>>)>>
                                         ELSE <<>>))]

InsiderAttack(count) ==
  [n \in 1..count |->
     Alert("medium", {}, {"dlp"},
           <<Of("ip", <<"RT.insider_ip">>), Of("domain", <<"RT.cloud_domain">>)>>)]

AttackAlerts(pattern, count) ==
  CASE pattern = "phishing"         -> PhishingAttack(count)
    [] pattern = "lateral_movement" -> LateralAttack(count)
    [] OTHER                        -> InsiderAttack(count)

-----------------------------------------------------------------------------
(* The noise.                                                              *)

NoiseTemplates == <<
  <<"info", {}>>,                       \* DNS Query Volume Spike
  <<"low", {}>>,                        \* Routine Admin Login Outside Hours
  <<"low", {}>>,                        \* Port Scan Detected - Internal
  <<"info", {"file"}>>,                 \* File Compression Utility Execution
  <<"low", {"email", "large"}>>,        \* Large Email Attachment Sent
  <<"info", {"authorized", "cloud"}>>>> \* Cloud Storage Access - Authorized

\* Noise alert n has the attack's address sharing[n] if there is one, else its own.
NoiseAlerts(count, sharing) ==
  [n \in 1..count |->
     Alert(Under(NoiseTemplates, n)[1], Under(NoiseTemplates, n)[2], {},
           <<Of("ip", <<IF n \in DOMAIN sharing THEN sharing[n] ELSE Nth("fp_ip", n)>>)>>)]

-----------------------------------------------------------------------------
(* What the generator answers about them.                                  *)

Listed(alert) == FlattenSeq([n \in DOMAIN alert.indicators |-> alert.indicators[n].names])

\* The first alert in the queue that lists an indicator decides its verdict,
\* noise included: a shared address is clean when noise comes first.
EnrichmentDb(alerts, attacks, order) ==
  LET names == UNION {ToSet(Listed(alerts[a])) : a \in DOMAIN alerts}
      first(name) == CHOOSE n \in DOMAIN order :
                       /\ name \in ToSet(Listed(alerts[order[n]]))
                       /\ \A m \in 1..(n - 1) : name \notin ToSet(Listed(alerts[order[m]]))
      malicious == {name \in names : order[first(name)] <= attacks}
  IN  [malicious |-> malicious, clean |-> names \ malicious,
       private |-> names \cap ({"RT.base_src_ip", "RT.insider_ip"}
                                 \cup {Nth("dst_ip", n) : n \in DOMAIN alerts}
                                 \cup {Nth("fp_ip", n) : n \in DOMAIN alerts})]

AttackLogs == {Quiet("firewall"), Quiet("endpoint"), Alarming("ids")}
NoiseLogs  == {Quiet("firewall"), Quiet("endpoint")}

PatternTechniques ==
  [phishing |-> <<"T1566.001">>, lateral_movement |-> <<"T1021.002", "T1078">>,
   insider_threat |-> <<"T1078", "T1530">>]

AttackKey(pattern, alert) ==
  Key(PatternTechniques[pattern], <<"isolate_endpoint", "block_ip">>,
      <<"firewall", "endpoint", "ids">>, Listed(alert))
NoiseKey(alert) == Key(<<>>, <<"no_action">>, <<"firewall">>, Listed(alert))

-----------------------------------------------------------------------------
(* RedTeamGenerator.generate.                                              *)

Patterns == {"phishing", "lateral_movement", "insider_threat"}

\* The pattern that goes with a level of difficulty, if it was asked for at all,
\* and the sizes an attack of that level may have.
PatternsFor(level, asked) ==
  LET preferred == [low |-> "phishing", medium |-> "lateral_movement",
                    high |-> "insider_threat"][level]
  IN  IF preferred \in asked THEN {preferred} ELSE IF asked = {} THEN Patterns ELSE asked
AttackSizes == [low |-> 1..2, medium |-> 3..5, high |-> 6..10]

\* The number of noise alerts that makes `percent' of the queue noise, rounded
\* (halves either way), with percent capped at 95.
NoiseSize(tp, percent) ==
  LET noise == IF percent > 95 THEN 95 ELSE percent
      signal == 100 - noise
  IN  CHOOSE n \in 0..(19 * tp) : \A over \in {2 * (n * signal - tp * noise)} :
        -signal <= over /\ over <= signal

\* An attack of tp alerts among fp noise alerts, shown in the given order.  Every
\* high alert must be escalated, and obfuscated ones be flagged by the Manager.
RedTeam(pattern, tp, fp, sharing, obfuscated, order) ==
  LET attack == AttackAlerts(pattern, tp)
      noise  == NoiseAlerts(fp, sharing)
      intel  == EnrichmentDb(attack \o noise, tp, order)
      nothing == [malicious |-> {}, clean |-> {}, private |-> {}]
      batch  == Merge(<<
        Batch("true_positive", attack, intel, [n \in 1..tp |-> AttackLogs],
              [n \in 1..tp |-> AttackKey(pattern, attack[n])], <<>>),
        Batch("false_positive", noise, nothing, [n \in 1..fp |-> NoiseLogs],
              [n \in 1..fp |-> NoiseKey(noise[n])], <<>>)>>)
  IN  Shuffled(Task("red_team_generated", batch, <<>>,
                    {n \in 1..tp : attack[n].severity \in {"high", "critical"}},
                    IF obfuscated THEN 1..tp ELSE {}, 30),
               order)
=============================================================================
