------------------------- MODULE SOCCasework_proofs --------------------------
(***************************************************************************)
(* What a team does to its case, handler by handler: links, marks,         *)
(* verdicts, the escalation list and the trail of tickets, for every set   *)
(* of scenarios and inputs.                                                *)
(***************************************************************************)
EXTENDS SOCEnvironment_proofs

-----------------------------------------------------------------------------
(* The shape of a step.                                                    *)

Alerts == AlertsOf(config)

\* No call goes back to an earlier phase, step or scenario.
Onward == /\ UNCHANGED <<config, mode>>
          /\ step' \in Nat /\ step <= step'
          /\ mode = "team" => PhaseRank <= PhaseRank'

LinkedBy(a, b, x) ==
  investigations'[x].correlated =
    IF x \in {a, b} THEN investigations[x].correlated \cup {{a, b}}
    ELSE investigations[x].correlated

SameLink(x) == investigations'[x].correlated = investigations[x].correlated

Links == \/ \A x \in Alerts : SameLink(x)
         \/ \E a, b \in Alerts : \A x \in Alerts : LinkedBy(a, b, x)

Marks == \A x \in Alerts : investigations[x].escalated => investigations'[x].escalated

\* The ticket is a new one of this step, and every earlier one stays.
Issued(kind, a, to) ==
  /\ step' = step + 1
  /\ \E t \in TicketType : /\ t.kind = kind /\ t.alert = a /\ t.to = to
                           /\ t.created = step + 1
                           /\ tickets' = Append(tickets, t)

SameTicket(n) == /\ tickets'[n].kind = tickets[n].kind /\ tickets'[n].alert = tickets[n].alert
                 /\ tickets'[n].to = tickets[n].to /\ tickets'[n].created = tickets[n].created

TrailKept == Len(tickets') = Len(tickets) /\ \A n \in 1..Len(tickets) : SameTicket(n)

\* A verdict is kept, shown in the queue, or overridden with a ticket.
SameVerdict(x) == /\ investigations'[x].classification = investigations[x].classification
                  /\ alert_class'[x] = alert_class[x]
ShownVerdict(x) == investigations'[x].classification = alert_class'[x]
Judged == \A x \in Alerts : \/ SameVerdict(x) \/ ShownVerdict(x)
                            \/ Issued("override", x, "tier1")

\* A ticket belongs to the phase it is issued in.
OfPhase(kind) == mode = "team" => Rank(kind) = PhaseRank

HandedOver(a) == /\ a \in Alerts /\ Issued("escalation", a, "tier2") /\ OfPhase("escalation")
                 /\ investigations'[a].escalated
                 /\ escalated_alert_ids' = IF IsEscalated(a) THEN escalated_alert_ids
                                           ELSE Append(escalated_alert_ids, a)

Trail == \/ UNCHANGED escalated_alert_ids /\ TrailKept
         \/ /\ UNCHANGED escalated_alert_ids
            /\ \E kind \in TicketKinds \ {"escalation"}, a \in AlertIds, to \in Roles \cup {None} :
                 Issued(kind, a, to) /\ OfPhase(kind)
         \/ \E a \in Alerts : HandedOver(a)

CaseStep == Running /\ Onward /\ Links /\ Marks /\ Judged /\ Trail

-----------------------------------------------------------------------------
(* The tail of a step, and the handlers that leave the case alone.         *)

\* A step that does work is a later one, in the same phase or the next.
LEMMA CommitOnward ==
  ASSUME TypeOK, PhaseInv, Running, NEW sig, NEW r, Commit(sig, r)
  PROVE  Onward /\ step' = step + 1
<1>1. step \in Nat /\ step' = step + 1 /\ UNCHANGED <<config, mode>>
  BY DEF Commit, TypeOK
<1>2. ASSUME mode = "team" PROVE PhaseRank <= PhaseRank'
  <2>1. phase' = phase \/ \E pay : AdvancePhase(pay, phase_step + 1)
    BY <1>2 DEF Commit, TeamTail
  <2>2. ASSUME NEW pay, AdvancePhase(pay, phase_step + 1) PROVE PhaseRank <= PhaseRank'
    BY <2>2 DEF AdvancePhase, Enter, Finalize, PhaseRank
  <2> QED
    BY <2>1, <2>2 DEF PhaseRank
<1> QED
  BY <1>1, <1>2 DEF Onward

\* A step that leaves the case alone.
LEMMA IdleCase ==
  ASSUME TypeOK, Running, Onward, UNCHANGED <<casework, handoff>>
  PROVE  CaseStep
<1>1. UNCHANGED <<investigations, alert_class, escalated_alert_ids, tickets>>
  BY DEF casework, handoff
<1> QED
  BY <1>1 DEF CaseStep, Links, SameLink, Marks, Judged, SameVerdict, Trail, TrailKept, SameTicket

\* A handler that edits one investigation but neither its links nor its marks.
LEMMA EditCase ==
  ASSUME TypeOK, Running, Onward, NEW a \in Alerts, NEW inv,
         investigations' = [investigations EXCEPT ![a] = inv],
         inv.correlated = investigations[a].correlated,
         investigations[a].escalated => inv.escalated,
         \/ /\ inv.classification = investigations[a].classification
            /\ UNCHANGED alert_class
         \/ alert_class' = [alert_class EXCEPT ![a] = inv.classification],
         Trail
  PROVE  CaseStep
<1>1. /\ DOMAIN investigations = Alerts /\ DOMAIN alert_class = Alerts
  BY CaseIsTyped DEF Alerts
<1>2. \A x \in Alerts : investigations'[x] = IF x = a THEN inv ELSE investigations[x]
  BY <1>1
<1>3. Links
  BY <1>2 DEF Links, SameLink
<1>4. Marks
  BY <1>2 DEF Marks
<1>5. Judged
  BY <1>1, <1>2 DEF Judged, SameVerdict, ShownVerdict
<1> QED
  BY <1>3, <1>4, <1>5 DEF CaseStep

\* The trail is kept by handlers that leave the hand-off alone.
LEMMA TrailUntouched ==
  ASSUME UNCHANGED handoff
  PROVE  Trail
BY DEF handoff, Trail, TrailKept, SameTicket

\* One more entry in an evidence list changes nothing else.
LEMMA NotedEvidence ==
  ASSUME NEW inv \in Investigation, NEW x,
         NEW field \in {"enriched", "queried", "looked_up", "mapped", "recommended"}
  PROVE  /\ Noted(inv, field, x).correlated = inv.correlated
         /\ Noted(inv, field, x).escalated = inv.escalated
         /\ Noted(inv, field, x).classification = inv.classification
BY DEF Noted, Investigation

\* A lookup, which records a field of one alert, is a case step.
LEMMA RecordCase ==
  ASSUME TypeOK, PhaseInv, Running, NEW a \in Alerts, NEW x,
         NEW field \in {"enriched", "queried", "looked_up", "mapped", "recommended"},
         Record(a, field, x), UNCHANGED <<alert_class, handoff>>,
         NEW sig, NEW r, Commit(sig, r)
  PROVE  CaseStep
<1> DEFINE inv == Noted(investigations[a], field, x)
<1>1. investigations' = [investigations EXCEPT ![a] = inv]
  BY Zenon DEF Record
<1>2. investigations[a] \in Investigation
  BY InvestigationOf DEF Alerts
<1>3. /\ inv.correlated = investigations[a].correlated
      /\ inv.escalated = investigations[a].escalated
      /\ inv.classification = investigations[a].classification
  BY <1>2, NotedEvidence
<1>4. Onward /\ Trail /\ UNCHANGED alert_class
  BY CommitOnward, TrailUntouched
<1> HIDE DEF inv
<1> QED
  BY <1>1, <1>3, <1>4, EditCase

\* enrich_indicator, query_logs, the directory look-ups, map_technique and
\* recommend_action leave evidence only.
LEMMA EvidenceCase ==
  ASSUME TypeOK, PhaseInv,
         \/ \E i \in Indicators, q \in NamedAlerts : Enrich(i, q)
         \/ \E s \in LogSources, q \in NamedAlerts : QueryLogs(s, q)
         \/ \E a \in NamedAlerts, t \in Techniques : MapTechnique(a, t)
         \/ \E a \in NamedAlerts, x \in ResponseActions : RecommendAction(a, x)
  PROVE  CaseStep
<1>1. ASSUME NEW i, NEW q, Enrich(i, q) PROVE CaseStep
  <2> DEFINE a == Owner(IF q = None THEN AlertOf(i) ELSE q)
  <2>1. /\ Running /\ Record(a, "enriched", i) /\ UNCHANGED <<alert_class, handoff>>
        /\ Commit(<<"enrich_indicator", i, q>>, EnrichReward(a, i))
    BY <1>1, Zenon DEF Enrich, Permitted
  <2>2. a \in Alerts
    BY <2>1, KnownIsAlert DEF Alerts
  <2> HIDE DEF a
  <2> QED
    BY <2>1, <2>2, RecordCase
<1>2. ASSUME NEW q, Running, Known(OrFirst(q)) PROVE OrFirst(q) \in Alerts
  BY <1>2, KnownIsAlert DEF Alerts
<1>3. ASSUME NEW s, NEW q, QueryLogs(s, q) PROVE CaseStep
  <2>1. /\ Running /\ Known(OrFirst(q)) /\ Record(OrFirst(q), "queried", s)
        /\ UNCHANGED <<alert_class, handoff>> /\ \E r : Commit(<<"query_logs", s, q>>, r)
    BY ZenonT(30), <1>3 DEF QueryLogs, Permitted
  <2> QED
    BY <1>2, <2>1, RecordCase
<1>4. ASSUME NEW a, NEW t, MapTechnique(a, t) PROVE CaseStep
  <2>1. /\ Running /\ Known(OrFirst(a)) /\ Record(OrFirst(a), "mapped", t)
        /\ UNCHANGED <<alert_class, handoff>> /\ \E r : Commit(<<"map_technique", a, t>>, r)
    BY <1>4, Zenon DEF MapTechnique, Permitted
  <2> QED
    BY <1>2, <2>1, RecordCase
<1>5. ASSUME NEW a, NEW x, RecommendAction(a, x) PROVE CaseStep
  <2> DEFINE r == IF x = "no_action"
                    THEN IF config.truth[OrFirst(a)] = "false_positive" THEN 500 ELSE -1000
                    ELSE IF x \in config.responses[OrFirst(a)] THEN 800 ELSE 200
  <2>1. /\ Running /\ Known(OrFirst(a)) /\ Record(OrFirst(a), "recommended", x)
        /\ UNCHANGED <<alert_class, handoff>> /\ Commit(<<"recommend_action", a, x>>, r)
    BY <1>5, Zenon DEF RecommendAction, Permitted
  <2> HIDE DEF r
  <2> QED
    BY <1>2, <2>1, RecordCase
<1> QED
  BY <1>1, <1>3, <1>4, <1>5

\* check_asset and check_user leave evidence when they find the observable.
LEMMA DirectoryCase ==
  ASSUME TypeOK, PhaseInv, NEW kind, NEW x, CheckDirectory(kind, x)
  PROVE  CaseStep
<1> DEFINE a == AlertOf(x)
<1>1. /\ Running /\ UNCHANGED <<alert_class, handoff>>
      /\ \E r : Commit(<<kind, x>>, r)
      /\ Record(a, "looked_up", x) \/ UNCHANGED investigations
  BY Zenon DEF CheckDirectory, Permitted
<1>2. a \in Alerts
  BY <1>1, AlertOfKnown DEF Alerts
<1> HIDE DEF a
<1>3. CASE Record(a, "looked_up", x)
  BY <1>1, <1>2, <1>3, RecordCase
<1>4. CASE UNCHANGED investigations
  BY <1>1, <1>4, CommitOnward, IdleCase DEF casework
<1> QED
  BY <1>1, <1>3, <1>4

\* classify_alert writes the verdict to the investigation and to the queue, and
\* escalate marks an investigation.
LEMMA VerdictCase ==
  ASSUME TypeOK, PhaseInv,
         \/ \E a \in NamedAlerts \ {None}, c \in Verdicts : Classify(a, c)
         \/ \E a \in NamedAlerts : Escalate(a)
  PROVE  CaseStep
<1>1. ASSUME NEW a, NEW c, Classify(a, c) PROVE CaseStep
  <2> DEFINE inv == [investigations[a] EXCEPT !.classification = c]
  <2>1. /\ Running /\ Known(a) /\ UNCHANGED handoff
        /\ investigations' = [investigations EXCEPT ![a] = inv]
        /\ alert_class' = [alert_class EXCEPT ![a] = c]
        /\ \E r : Commit(<<"classify_alert", a, c>>, r)
    BY <1>1 DEF Classify, Permitted
  <2>2. a \in Alerts /\ investigations[a] \in Investigation
    BY <2>1, KnownIsAlert, InvestigationOf DEF Alerts
  <2>3. /\ inv.correlated = investigations[a].correlated
        /\ inv.escalated = investigations[a].escalated /\ inv.classification = c
    BY <2>2 DEF Investigation
  <2>4. Onward /\ Trail
    BY <2>1, CommitOnward, TrailUntouched
  <2> HIDE DEF inv
  <2> QED
    BY <2>1, <2>2, <2>3, <2>4, EditCase
<1>2. ASSUME NEW b, Escalate(b) PROVE CaseStep
  <2> DEFINE a == OrFirst(b)
             inv == [investigations[a] EXCEPT !.escalated = TRUE]
  <2>1. /\ Running /\ Known(a) /\ UNCHANGED <<alert_class, handoff>>
        /\ investigations' = [investigations EXCEPT ![a] = inv]
        /\ \E r : Commit(<<"escalate", b>>, r)
    BY <1>2 DEF Escalate, Permitted
  <2>2. a \in Alerts /\ investigations[a] \in Investigation
    BY <2>1, KnownIsAlert, InvestigationOf DEF Alerts
  <2> HIDE DEF a
  <2>3. /\ inv.correlated = investigations[a].correlated /\ inv.escalated
        /\ inv.classification = investigations[a].classification
    BY <2>2 DEF Investigation
  <2>4. Onward /\ Trail
    BY <2>1, CommitOnward, TrailUntouched
  <2> HIDE DEF inv
  <2> QED
    BY <2>1, <2>2, <2>3, <2>4, EditCase
<1> QED
  BY <1>1, <1>2

-----------------------------------------------------------------------------
(* Links and tickets.                                                      *)

\* correlate_alerts writes one link with both investigations, or none.
LEMMA CorrelateCase ==
  ASSUME TypeOK, PhaseInv, NEW a, NEW b, Correlate(a, b)
  PROVE  CaseStep
<1> DEFINE pair == {a, b}
           linked == pair \in investigations[a].correlated \/ pair \in config.linked
           inv(x) == [investigations[x] EXCEPT !.correlated = @ \cup {pair}]
<1>1. /\ Running /\ Known(a) /\ Known(b) /\ UNCHANGED <<alert_class, handoff>>
      /\ \E r : Commit(<<"correlate_alerts", a, b>>, r)
      /\ investigations' = [x \in DOMAIN investigations |->
                              IF x \in pair /\ linked THEN inv(x) ELSE investigations[x]]
  BY DEF Correlate, Permitted
<1>2. a \in Alerts /\ b \in Alerts /\ DOMAIN investigations = Alerts
  BY <1>1, KnownIsAlert, CaseIsTyped DEF Alerts
<1>3. \A x \in Alerts :
        /\ inv(x).correlated = investigations[x].correlated \cup {pair}
        /\ inv(x).escalated = investigations[x].escalated
        /\ inv(x).classification = investigations[x].classification
  <2> SUFFICES ASSUME NEW x \in Alerts
               PROVE  /\ inv(x).correlated = investigations[x].correlated \cup {pair}
                      /\ inv(x).escalated = investigations[x].escalated
                      /\ inv(x).classification = investigations[x].classification
    OBVIOUS
  <2>1. investigations[x] \in Investigation
    BY <1>1, InvestigationOf DEF Alerts
  <2> QED
    BY <2>1 DEF Investigation
<1> HIDE DEF inv, linked
<1>4. \A x \in Alerts : investigations'[x] = IF x \in pair /\ linked THEN inv(x)
                                             ELSE investigations[x]
  BY <1>1, <1>2
<1>5. Links
  <2>1. CASE linked
    <3>1. \A x \in Alerts : LinkedBy(a, b, x)
      BY <1>3, <1>4, <2>1 DEF LinkedBy
    <3> QED
      BY <1>2, <3>1 DEF Links
  <2>2. CASE ~linked
    BY <1>4, <2>2 DEF Links, SameLink
  <2> QED
    BY <2>1, <2>2
<1>6. Marks /\ Judged
  BY <1>1, <1>3, <1>4 DEF Marks, Judged, SameVerdict
<1>7. Onward /\ Trail
  BY <1>1, CommitOnward, TrailUntouched
<1> QED
  BY <1>1, <1>5, <1>6, <1>7 DEF CaseStep

\* A ticket that is issued is the new last one.
LEMMA NewTicket ==
  ASSUME NEW kind \in TicketKinds, NEW a \in AlertIds, NEW from \in Roles,
         NEW to \in Roles \cup {None}, NEW valid \in BOOLEAN, step \in Nat,
         IssueTicket(kind, a, from, to, valid), step' = step + 1
  PROVE  Issued(kind, a, to)
<1> DEFINE t == Ticket(kind, a, from, to, valid)
<1>1. t \in TicketType /\ t.kind = kind /\ t.alert = a /\ t.to = to /\ t.created = step + 1
  BY DEF Ticket, TicketType
<1>2. tickets' = Append(tickets, t)
  BY DEF IssueTicket
<1> HIDE DEF t
<1> QED
  BY <1>1, <1>2 DEF Issued

\* A ticket's kind tells the only phase in which a team may issue it.
LEMMA TicketsOfPhase ==
  ASSUME PhaseInv, NEW kind, Permitted(kind)
  PROVE  /\ kind = "escalate_to_tier2" => OfPhase("escalation")
         /\ kind = "close_case" => OfPhase("closure")
         /\ kind = "override_classification" => OfPhase("override")
         /\ kind = "flag_inconsistency" => OfPhase("flag")
<1> SUFFICES ASSUME mode = "team",
                    kind \in {"escalate_to_tier2", "close_case", "override_classification",
                              "flag_inconsistency"}
             PROVE  /\ kind = "escalate_to_tier2" => phase = "triage"
                    /\ kind = "close_case" => phase = "response"
                    /\ kind \in {"override_classification", "flag_inconsistency"}
                         => phase = "oversight"
  BY DEF OfPhase, Rank, PhaseRank
<1>1. phase \in WorkPhases /\ kind \in Allowed[RoleOf[phase]]
  BY RunningTeamWorks DEF Permitted
<1>2. CASE phase = "triage"
  BY <1>1, <1>2 DEF WorkPhases, RoleOf, Allowed, Roles, Tier1Actions
<1>3. CASE phase = "response"
  BY <1>1, <1>3 DEF WorkPhases, RoleOf, Allowed, Roles, Tier2Actions
<1>4. CASE phase = "oversight"
  BY <1>1, <1>4 DEF WorkPhases, RoleOf, Allowed, Roles, ManagerActions
<1> QED
  BY <1>1, <1>2, <1>3, <1>4 DEF WorkPhases

\* escalate_to_tier2 marks the investigation, lists the alert and issues the ticket.
LEMMA HandoverCase ==
  ASSUME TypeOK, PhaseInv, NEW b, EscalateToTier2(b)
  PROVE  CaseStep
<1> DEFINE a == OrFirst(b)
           inv == [investigations[a] EXCEPT !.escalated = TRUE]
           bonus == CASE a \in config.required -> 1200
                      [] a \notin config.required
                         /\ config.truth[a] = "true_positive"  -> 600
                      [] a \notin config.required
                         /\ config.truth[a] = "false_positive" -> -1000
                      [] OTHER -> 300
           r == OverEscalation(a) + bonus
<1>1. /\ Running /\ Known(a) /\ Permitted("escalate_to_tier2") /\ UNCHANGED alert_class
      /\ investigations' = [investigations EXCEPT ![a] = inv]
      /\ escalated_alert_ids' = IF IsEscalated(a) THEN escalated_alert_ids
                                ELSE Append(escalated_alert_ids, a)
      /\ IssueTicket("escalation", a, "tier1", "tier2", FALSE)
  BY DEF EscalateToTier2, Permitted
<1>2. Commit(<<"escalate_to_tier2", b>>, r)
  BY Zenon DEF EscalateToTier2
<1> HIDE DEF bonus, r
<1>3. /\ a \in Alerts /\ a \in AlertIds /\ investigations[a] \in Investigation /\ step \in Nat
      /\ DOMAIN investigations = Alerts
  BY <1>1, KnownIsAlert, InvestigationOf, CaseIsTyped DEF Alerts
<1> HIDE DEF a
<1>4. /\ inv.correlated = investigations[a].correlated /\ inv.escalated = TRUE
      /\ inv.classification = investigations[a].classification
  BY <1>3 DEF Investigation
<1>5. Onward /\ step' = step + 1
  BY <1>1, <1>2, CommitOnward
<1> HIDE DEF inv
<1>6. investigations'[a] = inv
  BY <1>1, <1>3
<1>7. Issued("escalation", a, "tier2")
  <2>1. /\ "escalation" \in TicketKinds /\ "tier1" \in Roles /\ "tier2" \in Roles
    BY DEF TicketKinds, Roles
  <2> QED
    BY <1>1, <1>3, <1>5, <2>1, NewTicket
<1>8. HandedOver(a)
  BY <1>1, <1>3, <1>4, <1>6, <1>7, TicketsOfPhase DEF HandedOver
<1>9. Trail
  BY <1>3, <1>8 DEF Trail
<1> QED
  BY <1>1, <1>3, <1>4, <1>5, <1>9, EditCase

\* close_case closes one investigation and issues a ticket.
LEMMA ClosureCase ==
  ASSUME TypeOK, PhaseInv, NEW b \in NamedAlerts, CloseCase(b)
  PROVE  CaseStep
<1> DEFINE named == IF b # None THEN b
                    ELSE IF escalated_alert_ids # <<>> THEN escalated_alert_ids[1]
                    ELSE config.alerts[1]
           a   == Owner(named)
           inv == [investigations[a] EXCEPT !.closed = TRUE]
<1>1. /\ Running /\ Permitted("close_case") /\ UNCHANGED <<alert_class, escalated_alert_ids>>
      /\ investigations' = [investigations EXCEPT ![a] = inv]
      /\ IssueTicket("closure", named, "tier2", "manager", FALSE)
      /\ \E r : Commit(<<"close_case", b>>, r)
  BY DEF CloseCase, Permitted
<1>2. named \in AlertIds
  <2>1. CASE b # None
    BY <2>1, InputAssumption
  <2>2. CASE b = None /\ escalated_alert_ids # <<>>
    <3>1. escalated_alert_ids[1] \in AlertsOf(config)
      BY <1>1, <2>2, CaseIsTyped
    <3> QED
      BY <1>1, <2>2, <3>1, CaseIsTyped
  <2>3. CASE b = None /\ escalated_alert_ids = <<>>
    BY <1>1, <2>3, FirstAlert, CaseIsTyped
  <2> QED
    BY <2>1, <2>2, <2>3
<1>3. a \in Alerts /\ investigations[a] \in Investigation /\ step \in Nat
  BY <1>1, KnownIsAlert, InvestigationOf, CaseIsTyped DEF Alerts
<1> HIDE DEF a, named
<1>4. /\ inv.correlated = investigations[a].correlated
      /\ inv.escalated = investigations[a].escalated
      /\ inv.classification = investigations[a].classification
  BY <1>3 DEF Investigation
<1>5. Onward /\ step' = step + 1
  BY <1>1, CommitOnward
<1> HIDE DEF inv
<1>6. Trail
  <2>1. /\ "closure" \in TicketKinds \ {"escalation"} /\ "tier2" \in Roles
        /\ "manager" \in Roles \cup {None}
    BY DEF TicketKinds, Roles
  <2>2. Issued("closure", named, "manager")
    BY <1>1, <1>2, <1>3, <1>5, <2>1, NewTicket
  <2> QED
    BY <1>1, <1>2, <2>1, <2>2, TicketsOfPhase DEF Trail
<1> QED
  BY <1>1, <1>3, <1>4, <1>5, <1>6, EditCase

\* review_decision resolves a ticket and leaves what it is about.
LEMMA ReviewCase ==
  ASSUME TypeOK, PhaseInv, NEW t, NEW a, ReviewDecision(t, a)
  PROVE  CaseStep
<1> DEFINE n == ReviewedTicket(t, a)
           resolved == [tickets[n] EXCEPT !.resolved = TRUE]
<1>1. /\ Running /\ n # 0 /\ tickets' = [tickets EXCEPT ![n] = resolved]
      /\ UNCHANGED <<investigations, alert_class, escalated_alert_ids>>
      /\ \E r : Commit(<<"review_decision", t, a>>, r)
  BY DEF ReviewDecision, Permitted, casework
<1>2. n \in 1..Len(tickets) /\ tickets \in Seq(TicketType)
  BY <1>1, ReviewedTicketExists, CaseIsTyped
<1> HIDE DEF n
<1>3. tickets[n] \in TicketType /\ DOMAIN tickets = 1..Len(tickets)
  BY <1>2
<1>4. /\ resolved.kind = tickets[n].kind /\ resolved.alert = tickets[n].alert
      /\ resolved.to = tickets[n].to /\ resolved.created = tickets[n].created
  BY <1>3 DEF TicketType
<1> HIDE DEF resolved
<1>5. TrailKept
  <2>1. Len(tickets') = Len(tickets)
    BY <1>1, <1>2
  <2>2. ASSUME NEW m \in 1..Len(tickets) PROVE SameTicket(m)
    <3>1. tickets'[m] = IF m = n THEN resolved ELSE tickets[m]
      BY <1>1, <1>3
    <3> QED
      BY <1>4, <3>1 DEF SameTicket
  <2> QED
    BY <2>1, <2>2 DEF TrailKept
<1>6. Links /\ Marks /\ Judged /\ Trail
  BY <1>1, <1>5 DEF Links, SameLink, Marks, Judged, SameVerdict, Trail
<1> QED
  BY <1>1, <1>6, CommitOnward DEF CaseStep

\* override_classification leaves a ticket that names the alert, also where the
\* verdict was right and stays.
LEMMA OverrideCase ==
  ASSUME TypeOK, PhaseInv, NEW a \in NamedAlerts \ {None}, NEW c,
         OverrideClassification(a, c)
  PROVE  CaseStep
<1> DEFINE inv == [investigations[a] EXCEPT !.classification = c]
           correct == investigations[a].classification = config.truth[a]
           r == IF correct THEN -500 ELSE IF c = config.truth[a] THEN 2500 ELSE -2000
<1>1. /\ Running /\ Permitted("override_classification") /\ Known(a)
      /\ UNCHANGED <<alert_class, escalated_alert_ids>>
      /\ investigations' \in {investigations, [investigations EXCEPT ![a] = inv]}
      /\ IssueTicket("override", a, "manager", "tier1", FALSE)
  BY DEF OverrideClassification, Permitted
<1>2. Commit(<<"override_classification", a, c>>, r)
  BY Zenon DEF OverrideClassification
<1> HIDE DEF correct, r
<1>3. /\ a \in Alerts /\ a \in AlertIds /\ investigations[a] \in Investigation /\ step \in Nat
      /\ DOMAIN investigations = Alerts
  BY <1>1, KnownIsAlert, InvestigationOf, CaseIsTyped DEF Alerts
<1>4. /\ inv.correlated = investigations[a].correlated
      /\ inv.escalated = investigations[a].escalated
  BY <1>3 DEF Investigation
<1>5. Onward /\ step' = step + 1
  BY <1>1, <1>2, CommitOnward
<1> HIDE DEF inv
<1>6. /\ "override" \in TicketKinds \ {"escalation"} /\ "manager" \in Roles
      /\ "tier1" \in Roles \cup {None}
  BY DEF TicketKinds, Roles
<1>7. Issued("override", a, "tier1")
  BY <1>1, <1>3, <1>5, <1>6, NewTicket
<1>8. Trail
  BY <1>1, <1>3, <1>6, <1>7, TicketsOfPhase DEF Trail
<1>9. \A x \in Alerts : \/ investigations'[x] = investigations[x]
                        \/ x = a /\ investigations'[x] = inv
  BY <1>1, <1>3
<1>10. Links /\ Marks
  BY <1>4, <1>9 DEF Links, SameLink, Marks
<1>11. Judged
  BY <1>1, <1>7, <1>9 DEF Judged, SameVerdict
<1> QED
  BY <1>1, <1>5, <1>8, <1>10, <1>11 DEF CaseStep

\* flag_inconsistency leaves a ticket only.
LEMMA FlagCase ==
  ASSUME TypeOK, PhaseInv, NEW a \in NamedAlerts \ {None}, FlagInconsistency(a)
  PROVE  CaseStep
<1> DEFINE valid == a \in config.flags
<1>1. /\ Running /\ Permitted("flag_inconsistency")
      /\ UNCHANGED <<investigations, alert_class, escalated_alert_ids>>
      /\ IssueTicket("flag", a, "manager", None, valid)
      /\ \E r : Commit(<<"flag_inconsistency", a>>, r)
  BY DEF FlagInconsistency, Permitted, casework
<1>2. a \in AlertIds /\ step \in Nat /\ valid \in BOOLEAN
  BY InputAssumption DEF TypeOK
<1> HIDE DEF valid
<1>3. Onward /\ step' = step + 1
  BY <1>1, CommitOnward
<1>4. /\ "flag" \in TicketKinds \ {"escalation"} /\ "manager" \in Roles
      /\ None \in Roles \cup {None}
  BY DEF TicketKinds, Roles
<1>5. Issued("flag", a, None)
  BY <1>1, <1>2, <1>3, <1>4, NewTicket
<1>6. Trail
  BY <1>1, <1>2, <1>4, <1>5, TicketsOfPhase DEF Trail
<1>7. Links /\ Marks /\ Judged
  BY <1>1 DEF Links, SameLink, Marks, Judged, SameVerdict
<1> QED
  BY <1>1, <1>3, <1>6, <1>7 DEF CaseStep

\* The six containment tools leave a result, which is no part of the case.
LEMMA ContainCase ==
  ASSUME TypeOK, PhaseInv, NEW kind, NEW x, Contain(kind, x)
  PROVE  CaseStep
<1>1. /\ Running /\ UNCHANGED <<investigations, alert_class, escalated_alert_ids, tickets>>
      /\ \E r : Commit(<<kind, x>>, r)
  BY Zenon DEF Contain, Permitted, casework
<1>2. Links /\ Marks /\ Judged /\ Trail
  BY <1>1 DEF Links, SameLink, Marks, Judged, SameVerdict, Trail, TrailKept, SameTicket
<1> QED
  BY <1>1, <1>2, CommitOnward DEF CaseStep

-----------------------------------------------------------------------------
(* Every step.                                                             *)

\* No turn does more to the case than the shape allows.
LEMMA TurnCase ==
  ASSUME TypeOK, PhaseInv, Turn
  PROVE  CaseStep
<1>1. CASE TeamPhaseComplete \/ ManagerSubmit
  <2>1. /\ Running /\ UNCHANGED <<config, mode, casework, handoff>>
        /\ step \in Nat /\ step' = step + 1 /\ AdvancePhase(0, phase_step)
    BY <1>1 DEF TeamPhaseComplete, ManagerSubmit, AdvancePhase, TypeOK
  <2>2. Onward
    BY <2>1 DEF Onward, AdvancePhase, Enter, Finalize, PhaseRank
  <2> QED
    BY <2>1, <2>2, IdleCase
<1>2. CASE SoloSubmit
  <2>1. /\ Running /\ UNCHANGED <<config, mode, phase, casework, handoff>>
        /\ step \in Nat /\ step' = step + 1
    BY <1>2 DEF SoloSubmit, SoloSubmitScored, TypeOK
  <2>2. Onward
    BY <2>1 DEF Onward, PhaseRank
  <2> QED
    BY <2>1, <2>2, IdleCase
<1>3. CASE Noop \/ ExplainTeamBehavior \/ \E kind \in UsedActions : Forbidden(kind)
  <2>1. Running /\ UNCHANGED <<casework, handoff>> /\ \E sig, r : Commit(sig, r)
    BY <1>3 DEF Noop, ExplainTeamBehavior, Forbidden, Permitted
  <2> QED
    BY <2>1, CommitOnward, IdleCase
<1>4. CASE \E kind \in UsedActions : Incomplete(kind)
  <2>1. PICK kind \in UsedActions : Incomplete(kind)
    BY <1>4
  <2> DEFINE r == IF kind \in {"enrich_indicator", "query_logs", "correlate_alerts",
                               "check_asset", "check_user", "classify_alert"}
                    THEN -300 ELSE -200
  <2>2. Running /\ UNCHANGED <<casework, handoff>> /\ Commit(<<kind>>, r)
    BY <2>1 DEF Incomplete, Permitted
  <2> HIDE DEF r
  <2> QED
    BY <2>2, CommitOnward, IdleCase
<1>5. CASE \/ \E i \in Indicators, q \in NamedAlerts : Enrich(i, q)
           \/ \E s \in LogSources, q \in NamedAlerts : QueryLogs(s, q)
           \/ \E a \in NamedAlerts, t \in Techniques : MapTechnique(a, t)
           \/ \E a \in NamedAlerts, x \in ResponseActions : RecommendAction(a, x)
  BY <1>5, EvidenceCase
<1>6. CASE \/ \E h \in Hosts : CheckDirectory("check_asset", h)
           \/ \E u \in Users : CheckDirectory("check_user", u)
  BY <1>6, DirectoryCase
<1>7. CASE \/ \E a \in NamedAlerts \ {None}, c \in Verdicts : Classify(a, c)
           \/ \E a \in NamedAlerts : Escalate(a)
  BY <1>7, VerdictCase
<1>8. CASE \E a, b \in NamedAlerts \ {None} : Correlate(a, b)
  BY <1>8, CorrelateCase
<1>9. CASE \E a \in NamedAlerts : EscalateToTier2(a)
  BY <1>9, HandoverCase
<1>10. CASE \E kind \in {"forensic_timeline", "memory_analysis", "isolate_host",
                         "disable_user", "sandbox_detonate", "block_ioc"} :
              \E x \in TargetsOf(kind) : Contain(kind, x)
  BY <1>10, ContainCase
<1>11. CASE \E a \in NamedAlerts : CloseCase(a)
  BY <1>11, ClosureCase
<1>12. CASE \E t \in 0..Len(tickets), a \in NamedAlerts : ReviewDecision(t, a)
  BY <1>12, ReviewCase
<1>13. CASE \E a \in NamedAlerts \ {None}, c \in Verdicts : OverrideClassification(a, c)
  BY <1>13, OverrideCase
<1>14. CASE \E a \in NamedAlerts \ {None} : FlagInconsistency(a)
  BY <1>14, FlagCase
<1> QED
  BY <1>1, <1>2, <1>3, <1>4, <1>5, <1>6, <1>7, <1>8, <1>9, <1>10, <1>11, <1>12, <1>13, <1>14
     DEF Turn

\* Steps that take no turn leave the case alone, or begin a new one.
CaseAlone ==
  /\ UNCHANGED <<config, mode, phase, casework, handoff>>
  /\ step' \in Nat /\ step <= step'

\* Every step works on the case, leaves it alone or begins another.
LEMMA CaseShape ==
  ASSUME IInv, [Next]_vars
  PROVE  CaseStep \/ CaseAlone
         \/ \E c \in Registry \cup GeneratedScenarios, m \in Modes : Begin(c, m)
<1>1. TypeOK /\ PhaseInv /\ step \in Nat
  BY DEF IInv, TypeOK
<1>2. CASE \/ UNCHANGED vars \/ RejectedReset \/ SetGeneratedScenario
           \/ StepBeforeReset \/ StepAfterDone \/ WrongRole \/ SoloPhaseComplete
  BY <1>1, <1>2 DEF CaseAlone, RejectedReset, SetGeneratedScenario, StepBeforeReset,
     StepAfterDone, WrongRole, SoloPhaseComplete, vars
<1>3. CASE Turn
  BY <1>1, <1>3, TurnCase
<1>4. CASE Reset
  BY <1>4 DEF Reset
<1>5. CASE ResetGenerated
  <2>1. generated \in GeneratedScenarios
    BY <1>1, <1>5 DEF ResetGenerated, TypeOK
  <2> QED
    BY <1>5, <2>1 DEF ResetGenerated
<1> QED
  BY <1>2, <1>3, <1>4, <1>5 DEF Next, Outside

-----------------------------------------------------------------------------
(* Links are kept by both investigations.                                  *)

\* A link is of alerts of the scenario, and both its investigations keep it.
LinkInv ==
  config # None =>
    \A a \in Alerts : \A pair \in investigations[a].correlated :
      a \in pair /\ pair \subseteq Alerts /\ \A b \in pair : pair \in investigations[b].correlated

\* Every step keeps links symmetric.
LEMMA LinksStep ==
  ASSUME IInv, LinkInv, [Next]_vars
  PROVE  LinkInv'
<1>1. CASE CaseAlone
  BY <1>1 DEF CaseAlone, casework, LinkInv, Alerts
<1>2. CASE \E c \in Registry \cup GeneratedScenarios, m \in Modes : Begin(c, m)
  <2>1. PICK c \in Registry \cup GeneratedScenarios, m \in Modes : Begin(c, m)
    BY <1>2
  <2>2. config' = c /\ \A a \in AlertsOf(c) : investigations'[a].correlated = {}
    BY <2>1 DEF Begin, Untouched
  <2> QED
    BY <2>2 DEF LinkInv, Alerts
<1>3. CASE CaseStep
  <2>1. Running /\ Alerts' = Alerts /\ Links
    BY <1>3 DEF CaseStep, Onward, Alerts
  <2>2. \A a \in Alerts : \A pair \in investigations[a].correlated :
          /\ a \in pair /\ pair \subseteq Alerts
          /\ \A b \in pair : pair \in investigations[b].correlated
    BY <2>1 DEF LinkInv, Running
  <2> SUFFICES ASSUME NEW a \in Alerts, NEW pair \in investigations'[a].correlated
               PROVE  /\ a \in pair /\ pair \subseteq Alerts
                      /\ \A b \in pair : pair \in investigations'[b].correlated
    BY <2>1 DEF LinkInv
  <2>3. CASE \A x \in Alerts : SameLink(x)
    BY <2>2, <2>3 DEF SameLink
  <2>4. CASE \E d, e \in Alerts : \A x \in Alerts : LinkedBy(d, e, x)
    <3>1. PICK d, e \in Alerts : \A x \in Alerts : LinkedBy(d, e, x)
      BY <2>4
    <3>2. CASE pair \in investigations[a].correlated
      <4>1. /\ a \in pair /\ pair \subseteq Alerts
            /\ \A b \in pair : pair \in investigations[b].correlated
        BY <2>2, <3>2
      <4> QED
        BY <3>1, <4>1 DEF LinkedBy
    <3>3. CASE pair \notin investigations[a].correlated
      <4>1. pair = {d, e} /\ a \in {d, e}
        BY <3>1, <3>3 DEF LinkedBy
      <4> QED
        BY <3>1, <4>1 DEF LinkedBy
    <3> QED
      BY <3>2, <3>3
  <2> QED
    BY <2>1, <2>3, <2>4 DEF Links
<1> QED
  BY <1>1, <1>2, <1>3, CaseShape

\* Both investigations know a link, whatever else is done to the case
\* (correlate_alerts).
THEOREM LinksAreSymmetric == Spec => []CorrelationsSymmetric
<1>1. Init => LinkInv
  BY DEF Init, LinkInv
<1>2. IInv /\ LinkInv /\ [Next]_vars => LinkInv'
  BY LinksStep
<1>3. LinkInv => CorrelationsSymmetric
  BY DEF LinkInv, CorrelationsSymmetric, Alerts
<1> QED
  BY <1>1, <1>2, <1>3, Invariance, PTL DEF Spec

-----------------------------------------------------------------------------
(* Tickets.                                                                *)

\* Tickets are typed, and none is ever withdrawn or rewritten.
LEMMA TrailGrows ==
  ASSUME TypeOK, Trail
  PROVE  /\ Len(tickets) \in Nat /\ Len(tickets') \in Nat /\ Len(tickets) <= Len(tickets')
         /\ \A n \in 1..Len(tickets) : SameTicket(n)
<1>1. tickets \in Seq(TicketType)
  BY DEF TypeOK
<1>2. CASE TrailKept
  BY <1>1, <1>2 DEF TrailKept
<1>3. ASSUME NEW kind, NEW a, NEW to, Issued(kind, a, to)
      PROVE  /\ Len(tickets') = Len(tickets) + 1
             /\ \A n \in 1..Len(tickets) : SameTicket(n)
  <2>1. PICK t \in TicketType : tickets' = Append(tickets, t)
    BY <1>3 DEF Issued
  <2> QED
    BY <1>1, <2>1 DEF SameTicket
<1> QED
  BY <1>1, <1>2, <1>3 DEF Trail, HandedOver

\* A new ticket is the last one.
LEMMA IssuedLast ==
  ASSUME TypeOK, NEW kind, NEW a, NEW to, Issued(kind, a, to)
  PROVE  LET n == Len(tickets) + 1
         IN  /\ Len(tickets') = n /\ tickets'[n].kind = kind /\ tickets'[n].alert = a
             /\ tickets'[n].to = to /\ tickets'[n].created = step + 1
<1>1. tickets \in Seq(TicketType)
  BY DEF TypeOK
<1>2. PICK t \in TicketType : /\ t.kind = kind /\ t.alert = a /\ t.to = to
                              /\ t.created = step + 1
                              /\ tickets' = Append(tickets, t)
  BY DEF Issued
<1> QED
  BY <1>1, <1>2

\* The verdict an alert's queue entry does not show has an override's ticket.
LEMMA VerdictsStep ==
  ASSUME IInv, QueueDiffersOnlyByOverride, [Next]_vars
  PROVE  QueueDiffersOnlyByOverride'
<1>1. CASE CaseAlone
  BY <1>1 DEF CaseAlone, casework, handoff, QueueDiffersOnlyByOverride
<1>2. CASE \E c \in Registry \cup GeneratedScenarios, m \in Modes : Begin(c, m)
  <2>1. PICK c \in Registry \cup GeneratedScenarios, m \in Modes : Begin(c, m)
    BY <1>2
  <2>2. config' = c /\ \A a \in AlertsOf(c) : investigations'[a].classification = None
    BY <2>1 DEF Begin, Untouched
  <2> QED
    BY <2>2 DEF QueueDiffersOnlyByOverride
<1>3. CASE CaseStep
  <2>1. TypeOK /\ config # None /\ config' = config /\ Judged /\ Trail
    BY <1>3 DEF CaseStep, Onward, Running, IInv
  <2>2. SUFFICES ASSUME NEW a \in Alerts,
                        investigations'[a].classification \notin {None, alert_class'[a]}
                 PROVE  \E n \in 1..Len(tickets') : /\ tickets'[n].kind = "override"
                                                    /\ tickets'[n].alert = a
    BY <2>1 DEF QueueDiffersOnlyByOverride, Alerts
  <2>3. CASE SameVerdict(a)
    <3>1. PICK n \in 1..Len(tickets) : tickets[n].kind = "override" /\ tickets[n].alert = a
      BY <2>1, <2>2, <2>3 DEF SameVerdict, QueueDiffersOnlyByOverride, Alerts
    <3>2. n \in 1..Len(tickets') /\ SameTicket(n)
      BY <2>1, <3>1, TrailGrows
    <3> QED
      BY <3>1, <3>2 DEF SameTicket
  <2>4. CASE Issued("override", a, "tier1")
    <3>1. Len(tickets) \in Nat
      BY <2>1, TrailGrows
    <3> QED
      BY <2>1, <2>4, <3>1, IssuedLast
  <2> QED
    BY <2>1, <2>2, <2>3, <2>4 DEF Judged, ShownVerdict
<1> QED
  BY <1>1, <1>2, <1>3, CaseShape

\* What the queue shows and what the metric counts part only where the Manager
\* has left an override's ticket (override_classification).
THEOREM QueueIsHonest == Spec => []QueueDiffersOnlyByOverride
<1>1. Init => QueueDiffersOnlyByOverride
  BY DEF Init, QueueDiffersOnlyByOverride
<1>2. IInv /\ QueueDiffersOnlyByOverride /\ [Next]_vars => QueueDiffersOnlyByOverride'
  BY VerdictsStep
<1> QED
  BY <1>1, <1>2, Invariance, PTL DEF Spec

\* A new ticket ranks with its phase, and is younger than all others.
LEMMA TrailStep ==
  ASSUME IInv, TicketTrailFollowsPhases, [Next]_vars
  PROVE  TicketTrailFollowsPhases'
<1>0. TypeOK /\ step \in Nat /\ tickets \in Seq(TicketType) /\ Len(tickets) \in Nat
  BY DEF IInv, TypeOK
<1>1. ASSUME NEW n \in 1..Len(tickets)
      PROVE  Rank(tickets[n].kind) \in Nat /\ tickets[n].created \in Nat
  <2>1. tickets[n] \in TicketType
    BY <1>0
  <2> QED
    BY <2>1 DEF TicketType, TicketKinds, Rank
<1>2. CASE CaseAlone
  <2>1. /\ UNCHANGED <<config, mode, phase, tickets>> /\ step' \in Nat /\ step <= step'
    BY <1>2 DEF CaseAlone, handoff
  <2> QED
    BY <1>0, <1>1, <2>1 DEF TicketTrailFollowsPhases, InTeam, PhaseRank
<1>3. CASE \E c \in Registry \cup GeneratedScenarios, m \in Modes : Begin(c, m)
  BY <1>3 DEF Begin, TicketTrailFollowsPhases
<1>4. CASE CaseStep
  <2>1. Running /\ Onward /\ Trail
    BY <1>4 DEF CaseStep
  <2>2. SUFFICES ASSUME mode = "team" PROVE TicketTrailFollowsPhases'
    BY <2>1 DEF TicketTrailFollowsPhases, InTeam, Onward
  <2> DEFINE k  == [n \in 1..Len(tickets) |-> Rank(tickets[n].kind)]
             t  == [n \in 1..Len(tickets) |-> tickets[n].created]
             kk == [n \in 1..Len(tickets') |-> Rank(tickets'[n].kind)]
             tt == [n \in 1..Len(tickets') |-> tickets'[n].created]
  <2>3. /\ PhaseRank <= PhaseRank' /\ PhaseRank \in Nat /\ PhaseRank' \in Nat
        /\ step' \in Nat /\ step <= step'
    BY <2>1, <2>2 DEF Onward, PhaseRank
  <2>4. /\ \A n \in 1..Len(tickets) : Rank(tickets[n].kind) <= PhaseRank /\ tickets[n].created <= step
        /\ \A m, n \in 1..Len(tickets) :
             m < n => Rank(tickets[m].kind) <= Rank(tickets[n].kind) /\ tickets[m].created < tickets[n].created
    BY <2>1, <2>2 DEF TicketTrailFollowsPhases, InTeam, Running
  <2>5. \A n \in 1..Len(tickets) : /\ n \in 1..Len(tickets')
                                   /\ tickets'[n].kind = tickets[n].kind
                                   /\ tickets'[n].created = tickets[n].created
    BY <1>0, <2>1, TrailGrows DEF SameTicket
  <2>6. \A n \in 1..Len(tickets) : /\ k[n] \in Nat /\ t[n] \in Nat
                                   /\ k[n] <= PhaseRank /\ t[n] <= step
                                   /\ kk[n] = k[n] /\ tt[n] = t[n]
    BY <1>1, <2>4, <2>5
  <2>7. \A m, n \in 1..Len(tickets) : m < n => k[m] <= k[n] /\ t[m] < t[n]
    BY <2>4
  <2>8. /\ \A n \in 1..Len(tickets') : kk[n] <= PhaseRank' /\ tt[n] <= step'
        /\ \A m, n \in 1..Len(tickets') : m < n => kk[m] <= kk[n] /\ tt[m] < tt[n]
    <3> HIDE DEF k, t, kk, tt
    <3>1. CASE TrailKept
      <4>1. Len(tickets') = Len(tickets)
        BY <3>1 DEF TrailKept
      <4> HIDE DEF PhaseRank
      <4>2. \A n \in 1..Len(tickets) : kk[n] <= PhaseRank' /\ tt[n] <= step'
        BY <1>0, <2>3, <2>6
      <4>3. \A m, n \in 1..Len(tickets) : m < n => kk[m] <= kk[n] /\ tt[m] < tt[n]
        BY <2>6, <2>7
      <4> QED
        BY <4>1, <4>2, <4>3
    <3>2. CASE \E kind \in TicketKinds, a \in AlertIds, to \in Roles \cup {None} :
                 Issued(kind, a, to) /\ OfPhase(kind)
      <4>1. PICK kind \in TicketKinds, a \in AlertIds, to \in Roles \cup {None} :
                   Issued(kind, a, to) /\ OfPhase(kind)
        BY <3>2
      <4>2. /\ Len(tickets') = Len(tickets) + 1 /\ step' = step + 1
            /\ tickets'[Len(tickets) + 1].kind = kind
            /\ tickets'[Len(tickets) + 1].created = step + 1
        BY <1>0, <4>1, IssuedLast DEF Issued
      <4>3. Rank(kind) = PhaseRank
        BY <2>2, <4>1 DEF OfPhase
      <4>4. Len(tickets) + 1 \in 1..Len(tickets')
        BY <1>0, <4>2
      <4>5. kk[Len(tickets) + 1] = PhaseRank /\ tt[Len(tickets) + 1] = step + 1
        BY <4>2, <4>3, <4>4 DEF kk, tt
      <4> HIDE DEF PhaseRank
      <4>6. ASSUME NEW n \in 1..Len(tickets') PROVE kk[n] <= PhaseRank' /\ tt[n] <= step'
        <5>1. CASE n = Len(tickets) + 1
          <6>1. kk[n] = PhaseRank /\ tt[n] = step'
            BY <4>2, <4>5, <5>1
          <6> QED
            BY <2>3, <6>1
        <5>2. CASE n \in 1..Len(tickets)
          BY SMTT(30), <1>0, <2>3, <2>6, <5>2
        <5> QED
          BY <1>0, <4>2, <5>1, <5>2
      <4>7. ASSUME NEW m \in 1..Len(tickets'), NEW n \in 1..Len(tickets'), m < n
            PROVE  kk[m] <= kk[n] /\ tt[m] < tt[n]
        <5>1. m \in 1..Len(tickets)
          BY <1>0, <4>2, <4>7
        <5>2. CASE n = Len(tickets) + 1
          <6>1. /\ kk[m] \in Nat /\ tt[m] \in Nat /\ kk[m] <= PhaseRank /\ tt[m] <= step
            BY <2>6, <5>1
          <6> QED
            BY <1>0, <4>5, <5>2, <6>1
        <5>3. CASE n \in 1..Len(tickets)
          BY <2>6, <2>7, <4>7, <5>1, <5>3
        <5> QED
          BY <1>0, <4>2, <5>2, <5>3
      <4> QED
        BY <4>6, <4>7
    <3>3. CASE \E a \in Alerts : HandedOver(a)
      <4>1. PICK a \in Alerts : Issued("escalation", a, "tier2") /\ OfPhase("escalation")
        BY <3>3 DEF HandedOver
      <4>2. a \in AlertIds
        BY <1>0, <2>1, CaseIsTyped DEF Alerts
      <4> QED
        BY <3>2, <4>1, <4>2 DEF TicketKinds, Roles
    <3> QED
      BY <2>1, <3>1, <3>2, <3>3 DEF Trail
  <2> QED
    BY <2>8 DEF TicketTrailFollowsPhases
<1> QED
  BY <1>2, <1>3, <1>4, CaseShape

\* For every budget and every order of calls, the trail follows the phases.
THEOREM TrailFollows == Spec => []TicketTrailFollowsPhases
<1>1. Init => TicketTrailFollowsPhases
  BY DEF Init, TicketTrailFollowsPhases, InTeam
<1>2. IInv /\ TicketTrailFollowsPhases /\ [Next]_vars => TicketTrailFollowsPhases'
  BY TrailStep
<1> QED
  BY <1>1, <1>2, Invariance, PTL DEF Spec

-----------------------------------------------------------------------------
(* What Tier-2 is shown.                                                   *)

\* The escalation list, the marks and the escalation tickets name the same alerts.
HandoffInv ==
  config # None =>
    /\ \A a \in Alerts : IsEscalated(a) => investigations[a].escalated
    /\ \A a \in Alerts : IsEscalated(a) =>
         \E n \in 1..Len(tickets) : /\ tickets[n].kind = "escalation" /\ tickets[n].to = "tier2"
                                    /\ tickets[n].alert = a
    /\ \A n \in 1..Len(tickets) : tickets[n].kind = "escalation" =>
         /\ tickets[n].to = "tier2" /\ tickets[n].alert \in Alerts
         /\ IsEscalated(tickets[n].alert)
    /\ \A m, n \in 1..Len(escalated_alert_ids) :
         escalated_alert_ids[m] = escalated_alert_ids[n] => m = n

\* An alert is put on the list once, at its end.
LEMMA ListExtends ==
  ASSUME TypeOK, Running, NEW a \in Alerts,
         escalated_alert_ids' = IF IsEscalated(a) THEN escalated_alert_ids
                                ELSE Append(escalated_alert_ids, a),
         \A m, n \in 1..Len(escalated_alert_ids) :
           escalated_alert_ids[m] = escalated_alert_ids[n] => m = n
  PROVE  /\ \A x : IsEscalated(x)' <=> IsEscalated(x) \/ x = a
         /\ \A m, n \in 1..Len(escalated_alert_ids') :
              escalated_alert_ids'[m] = escalated_alert_ids'[n] => m = n
<1>1. escalated_alert_ids \in Seq(Alerts) /\ Len(escalated_alert_ids) \in Nat
  BY CaseIsTyped DEF Alerts
<1>2. CASE IsEscalated(a)
  BY <1>2 DEF IsEscalated
<1>3. CASE ~IsEscalated(a)
  <2>1. escalated_alert_ids' = Append(escalated_alert_ids, a)
    BY <1>3
  <2>2. /\ Len(escalated_alert_ids') = Len(escalated_alert_ids) + 1
        /\ escalated_alert_ids'[Len(escalated_alert_ids) + 1] = a
        /\ \A n \in 1..Len(escalated_alert_ids) : escalated_alert_ids'[n] = escalated_alert_ids[n]
    BY <1>1, <2>1
  <2>3. \A n : n \in 1..Len(escalated_alert_ids') <=>
                 n \in 1..Len(escalated_alert_ids) \/ n = Len(escalated_alert_ids) + 1
    BY <1>1, <2>2
  <2>4. \A n \in 1..Len(escalated_alert_ids) : escalated_alert_ids[n] # a
    BY <1>3 DEF IsEscalated
  <2>5. ASSUME NEW x PROVE IsEscalated(x)' <=> IsEscalated(x) \/ x = a
    BY <2>2, <2>3 DEF IsEscalated
  <2> QED
    BY <2>2, <2>3, <2>4, <2>5
<1> QED
  BY <1>2, <1>3

\* Every step keeps list, marks and escalation tickets in agreement.
LEMMA HandoffStep ==
  ASSUME IInv, HandoffInv, [Next]_vars
  PROVE  HandoffInv'
<1>1. CASE CaseAlone
  BY <1>1 DEF CaseAlone, casework, handoff, HandoffInv, Alerts, IsEscalated
<1>2. CASE \E c \in Registry \cup GeneratedScenarios, m \in Modes : Begin(c, m)
  BY <1>2 DEF Begin, HandoffInv, Alerts, IsEscalated
<1>3. CASE CaseStep
  <2>1. TypeOK /\ Running /\ config' = config /\ Alerts' = Alerts /\ Marks /\ Trail
    BY <1>3 DEF CaseStep, Onward, IInv, Alerts
  <2>2. /\ \A a \in Alerts : IsEscalated(a) => investigations[a].escalated
        /\ \A a \in Alerts : IsEscalated(a) =>
             \E n \in 1..Len(tickets) : /\ tickets[n].kind = "escalation" /\ tickets[n].to = "tier2"
                                        /\ tickets[n].alert = a
        /\ \A n \in 1..Len(tickets) : tickets[n].kind = "escalation" =>
             /\ tickets[n].to = "tier2" /\ tickets[n].alert \in Alerts
             /\ IsEscalated(tickets[n].alert)
        /\ \A m, n \in 1..Len(escalated_alert_ids) :
             escalated_alert_ids[m] = escalated_alert_ids[n] => m = n
    BY <2>1 DEF HandoffInv, Running
  <2>3. \A n \in 1..Len(tickets) : n \in 1..Len(tickets') /\ SameTicket(n)
    BY <2>1, TrailGrows
  <2>4. Len(tickets) \in Nat
    BY <2>1, TrailGrows
  <2>5. CASE UNCHANGED escalated_alert_ids /\ TrailKept
    <3>1. Len(tickets') = Len(tickets) /\ \A x : IsEscalated(x)' <=> IsEscalated(x)
      BY <2>5 DEF TrailKept, IsEscalated
    <3> QED
      BY <2>1, <2>2, <2>3, <2>5, <3>1 DEF HandoffInv, SameTicket, Marks
  <2>6. ASSUME NEW kind \in TicketKinds \ {"escalation"}, NEW b, NEW to,
               Issued(kind, b, to), UNCHANGED escalated_alert_ids
        PROVE  HandoffInv'
    <3>1. \A x : IsEscalated(x)' <=> IsEscalated(x)
      BY <2>6 DEF IsEscalated
    <3>2. \A n \in 1..Len(tickets') :
            n \in 1..Len(tickets) \/ tickets'[n].kind # "escalation"
      BY <2>1, <2>4, <2>6, IssuedLast
    <3> QED
      BY <2>1, <2>2, <2>3, <2>6, <3>1, <3>2 DEF HandoffInv, SameTicket, Marks
  <2>7. ASSUME NEW b \in Alerts, HandedOver(b)
        PROVE  HandoffInv'
    <3>1. /\ \A x : IsEscalated(x)' <=> IsEscalated(x) \/ x = b
          /\ \A m, n \in 1..Len(escalated_alert_ids') :
               escalated_alert_ids'[m] = escalated_alert_ids'[n] => m = n
      BY <2>1, <2>2, <2>7, ListExtends DEF HandedOver
    <3>2. /\ Len(tickets') = Len(tickets) + 1
          /\ tickets'[Len(tickets) + 1].kind = "escalation"
          /\ tickets'[Len(tickets) + 1].to = "tier2"
          /\ tickets'[Len(tickets) + 1].alert = b
      BY <2>1, <2>7, IssuedLast DEF HandedOver
    <3>3. \A n : n \in 1..Len(tickets') <=> n \in 1..Len(tickets) \/ n = Len(tickets) + 1
      BY <2>4, <3>2
    <3>4. \A a \in Alerts : IsEscalated(a)' => investigations'[a].escalated
      BY <2>1, <2>2, <2>7, <3>1 DEF HandedOver, Marks
    <3>5. ASSUME NEW a \in Alerts, IsEscalated(a)'
          PROVE  \E n \in 1..Len(tickets') : /\ tickets'[n].kind = "escalation"
                                             /\ tickets'[n].to = "tier2" /\ tickets'[n].alert = a
      <4>1. CASE a = b
        BY <3>2, <3>3, <4>1
      <4>2. CASE IsEscalated(a)
        BY <2>2, <2>3, <4>2 DEF SameTicket
      <4> QED
        BY <3>1, <3>5, <4>1, <4>2
    <3>6. ASSUME NEW n \in 1..Len(tickets'), tickets'[n].kind = "escalation"
          PROVE  /\ tickets'[n].to = "tier2" /\ tickets'[n].alert \in Alerts
                 /\ IsEscalated(tickets[n].alert)'
      <4>1. CASE n = Len(tickets) + 1
        BY <3>1, <3>2, <4>1 DEF IsEscalated
      <4>2. CASE n \in 1..Len(tickets)
        <5>1. /\ tickets'[n].to = "tier2" /\ tickets'[n].alert \in Alerts
              /\ IsEscalated(tickets[n].alert) /\ tickets'[n].alert = tickets[n].alert
          BY <2>2, <2>3, <3>6, <4>2 DEF SameTicket
        <5> QED
          BY <3>1, <5>1 DEF IsEscalated
      <4> QED
        BY <3>3, <4>1, <4>2
    <3> QED
      BY <2>1, <3>1, <3>4, <3>5, <3>6 DEF HandoffInv
  <2> QED
    BY <2>1, <2>5, <2>6, <2>7 DEF Trail
<1> QED
  BY <1>1, <1>2, <1>3, CaseShape

\* What agrees in the hand-over agrees in what Tier-2 is shown.
LEMMA HandoffIsConsistent ==
  ASSUME HandoffInv
  PROVE  Tier2ViewConsistent
<1> SUFFICES ASSUME config # None
             PROVE  /\ VisibleAlerts("tier2") = {tickets[n].alert : n \in VisibleTickets("tier2")}
                    /\ \A a \in VisibleAlerts("tier2") : investigations[a].escalated
                    /\ \A m, n \in 1..Len(escalated_alert_ids) :
                         escalated_alert_ids[m] = escalated_alert_ids[n] => m = n
  BY DEF Tier2ViewConsistent
<1>1. VisibleAlerts("tier2") = {a \in Alerts : IsEscalated(a)}
  BY DEF VisibleAlerts, Alerts
<1>2. VisibleTickets("tier2") =
        {n \in 1..Len(tickets) : tickets[n].kind = "escalation" /\ tickets[n].to \in {"tier2", None}}
  BY DEF VisibleTickets
<1>3. ASSUME NEW a \in VisibleAlerts("tier2")
      PROVE  \E n \in VisibleTickets("tier2") : tickets[n].alert = a
  BY <1>1, <1>2 DEF HandoffInv
<1>4. ASSUME NEW n \in VisibleTickets("tier2")
      PROVE  tickets[n].alert \in VisibleAlerts("tier2")
  BY <1>1, <1>2 DEF HandoffInv
<1> QED
  BY <1>1, <1>3, <1>4 DEF HandoffInv

\* However often an alert is escalated, Tier-2 is shown it once, with its ticket
\* and its mark (escalate_to_tier2, the tier2 branch of _build_observation).
THEOREM Tier2SeesItsCases == Spec => []Tier2ViewConsistent
<1>1. Init => HandoffInv
  BY DEF Init, HandoffInv
<1>2. IInv /\ HandoffInv /\ [Next]_vars => HandoffInv'
  BY HandoffStep
<1>3. HandoffInv => Tier2ViewConsistent
  BY HandoffIsConsistent
<1> QED
  BY <1>1, <1>2, <1>3, Invariance, PTL DEF Spec

=============================================================================
