---------------------------- MODULE SessionThemes ----------------------------
(***************************************************************************)
(* What a session carries beside its episode engine (SessionState of       *)
(* server/sessions.py): the simulated actors and their outbox, the policy  *)
(* that drifts while the episode runs, the enterprise tickets with their   *)
(* SLA clocks, the expert of the round; and the judge of the Manager's     *)
(* explanations (graders/manager_judge.py), one for all sessions.          *)
(*                                                                         *)
(* A request holds the session's lock from its first effect to its last.   *)
(* All requests but one are therefore single actions; a step that explains *)
(* the team's behaviour waits for the judge's model, and is split there.   *)
(***************************************************************************)
EXTENDS Integers, Sequences, FiniteSets, Functions

CONSTANTS
  Slots,          \* request threads of the server
  EpisodeLengths, \* max_steps of the scenarios a reset may load
  DriftCount,     \* drifts planned per episode (the code passes 2)
  DriftKinds,     \* the kinds of drift drawn
  Cadence,        \* actor -> [from, every, offset]: the steps it writes at
  Priorities, SlaBudget,   \* ticket priorities and their budgets in steps
  Alerts, Explanations,
  LlmScores,      \* scores the judge's model may give
  Heuristic,      \* explanation -> keyword score, the fallback
  RotationSize,   \* experts on the panel
  None,
  RoundIndexes,   \* the curriculum rounds the model visits, a bound of the model
  EpisodeBound, ClockBound, TicketBound, TrajectoryBound \* bounds of the model

Actors == {"threat_intel", "compliance", "end_user"}
Urgent == {"P1", "P2"}

ASSUME ThemeAssumption ==
  /\ EpisodeLengths \subseteq Nat \ {0} /\ DriftCount \in Nat
  /\ DriftKinds \subseteq {"field_rename", "severity_threshold", "admin_escalate", "tc_update"}
  /\ Cadence \in [Actors -> [from : Nat, every : Nat \ {0}, offset : Nat]]
  /\ SlaBudget \in [Priorities -> Nat \ {0}]
  /\ Heuristic \in [Explanations -> Nat] /\ LlmScores \subseteq Nat
  /\ RotationSize \in Nat \ {0} /\ RoundIndexes \subseteq Int
  /\ None \notin Slots /\ None \notin Nat

VARIABLES
  episode,      \* the engine's _episode_id: resets so far, 0 before the first
  trajectory,   \* what the judge's trajectory_hash tells apart
  actor_step,
  schedule, versions,  \* PolicyDriftEngine
  outbox,       \* ActorRegistry._outbox
  tickets,      \* TicketingSystem
  round, current_expert,
  lock,         \* the slot that holds the session's lock
  call,         \* slot -> the explanation it is having judged
  cache,        \* ManagerJudge._cache
  verdicts      \* history: <<key, explanation, score>> of every judgement returned

drift == <<schedule, versions>>
themes == <<actor_step, drift, outbox, tickets>>
judging == <<lock, call, cache, verdicts>>
vars == <<episode, trajectory, themes, round, current_expert, judging>>

AtMost(a, b) == IF a < b THEN a ELSE b
AtLeast(a, b) == IF a < b THEN b ELSE a

-----------------------------------------------------------------------------
(* Policy drift.                                                           *)

FirstPolicy == [activated |-> 0, rules |-> {}]

\* The steps at which a drift may be planned in an episode of n steps.
DriftWindow(n) ==
  LET start == AtLeast(3, n \div 4)
      end   == AtLeast(start + 1, (85 * n) \div 100)
  IN  IF DriftCount = 0 \/ n < 10 THEN {} ELSE start .. (end - 1)

Plans(n) ==
  {S \in SUBSET DriftWindow(n) :
     Cardinality(S) = AtMost(DriftCount, Cardinality(DriftWindow(n)))}

\* A drift adds a rule to those in force; tc_update is an announcement only.
Drifted(vs, step, kind) ==
  Append(vs, [activated |-> step,
              rules |-> vs[Len(vs)].rules \cup ({kind} \ {"tc_update"})])

\* Mutant: drifts that are already planned are applied again on every later step.
MaybeDriftRepeating(step) ==
  /\ UNCHANGED schedule
  /\ \/ (\A s \in schedule : step < s) /\ UNCHANGED versions
     \/ (\E s \in schedule : step >= s)
          /\ \E kind \in DriftKinds : versions' = Drifted(versions, step, kind)

MaybeDrift(step) ==
  /\ UNCHANGED schedule
  /\ \/ step \notin schedule /\ UNCHANGED versions
     \/ step \in schedule /\ \E kind \in DriftKinds : versions' = Drifted(versions, step, kind)

\* active_at: the number of the latest version activated at or before step
\* (the loop stops at the first later one).
ActiveAt(vs, step) ==
  LET later == {n \in 1..Len(vs) : vs[n].activated > step}
  IN  IF later = {} THEN Len(vs)
      ELSE (CHOOSE n \in later : \A m \in later : n <= m) - 1

-----------------------------------------------------------------------------
(* Actors.                                                                 *)

Writes(actor, step) ==
  step >= Cadence[actor].from /\ step % Cadence[actor].every = Cadence[actor].offset

Addressee == [a \in Actors |-> IF a = "compliance" THEN "manager" ELSE "tier1"]

Message(actor, step, version) ==
  [actor |-> actor, to |-> Addressee[actor], step |-> step,
   version |-> IF actor = "compliance" THEN version ELSE 0]

MessagesAt(step, version) ==
  LET from(actor) == IF Writes(actor, step) THEN <<Message(actor, step, version)>> ELSE <<>>
  IN  from("threat_intel") \o from("compliance") \o from("end_user")

\* inbox_for a role; GET /actors/messages without a role returns them all.
InboxFor(role) == SelectSeq(outbox, LAMBDA m : m.to = role)

-----------------------------------------------------------------------------
(* Enterprise tickets.                                                     *)

IsOpen(t) == t.status = "open"

\* Mutant: the last step of a clock is never counted.
TickedToOne(t) == IF IsOpen(t) /\ t.left > 1 THEN [t EXCEPT !.left = @ - 1] ELSE t

\* Mutant: the clock of a resolved ticket runs on.
TickedAll(t) == [t EXCEPT !.left = AtLeast(0, @ - 1)]

Ticked(t) == IF IsOpen(t) /\ t.left > 0 THEN [t EXCEPT !.left = @ - 1] ELSE t

Tick(ts) == [n \in 1..Len(ts) |-> Ticked(ts[n])]

Breached(t) == t.left <= 0 /\ t.status # "resolved"

\* can_disable_user: the IAM rule of GET /tickets/can_disable_user.
CanDisableUser(alert) ==
  \E n \in 1..Len(tickets) : /\ tickets[n].alert = alert
                             /\ IsOpen(tickets[n]) /\ tickets[n].priority \in Urgent

-----------------------------------------------------------------------------
(* The two hooks the handlers call under the lock.                         *)

\* Mutant: the actors' clock is not rewound.
OnResetKeepingClock(n) ==
  /\ outbox' = <<>> /\ versions' = <<FirstPolicy>> /\ schedule' \in Plans(n) /\ tickets' = <<>>
  /\ current_expert' = round % RotationSize /\ UNCHANGED actor_step

\* on_reset.  The blend and the round are kept; the expert is the round's.
OnReset(n) ==
  /\ outbox' = <<>>
  /\ versions' = <<FirstPolicy>> /\ schedule' \in Plans(n)
  /\ tickets' = <<>>
  /\ current_expert' = round % RotationSize
  /\ actor_step' = 0

\* Mutant: the actors are not told the policy, and assume the first.
OnStepWithoutContext ==
  /\ actor_step < ClockBound
  /\ actor_step' = actor_step + 1
  /\ outbox' = outbox \o MessagesAt(actor_step', 1)
  /\ MaybeDrift(actor_step')
  /\ tickets' = Tick(tickets)

\* on_step: the actors see the policy of before this step's drift.
OnStep ==
  /\ actor_step < ClockBound
  /\ actor_step' = actor_step + 1
  /\ outbox' = outbox \o MessagesAt(actor_step', Len(versions))
  /\ MaybeDrift(actor_step')
  /\ tickets' = Tick(tickets)

Free == lock = None

\* A new episode of the engine: _do_reset, or ensure_episode's auto-start.
Begin ==
  /\ episode < EpisodeBound
  /\ episode' = episode + 1 /\ trajectory' = 0
  /\ \E n \in EpisodeLengths : OnReset(n)
  /\ UNCHANGED <<round, judging>>

Reset == Free /\ Begin

\* Reading requests (/grader, /inbox, /api/alerts, /threat-intel, /logs) start
\* an episode in a session that has none, and change nothing otherwise.
Read ==
  /\ Free
  /\ \/ episode = 0 /\ Begin
     \/ episode # 0 /\ UNCHANGED vars

-----------------------------------------------------------------------------
(* Handlers.                                                               *)

\* POST /step with any action but an explanation.  Its handler may change the
\* tickets or investigations the trajectory hash covers.  A step without an
\* episode, or after its end, advances the themes all the same.
Step ==
  /\ Free
  /\ trajectory' \in IF episode = 0 THEN {trajectory}
                     ELSE trajectory .. AtMost(trajectory + 1, TrajectoryBound)
  /\ OnStep
  /\ UNCHANGED <<episode, round, current_expert, judging>>

OpenTicket(alert, priority) ==
  /\ Free /\ Len(tickets) < TicketBound
  /\ tickets' = Append(tickets, [alert |-> alert, priority |-> priority, status |-> "open",
                                 left |-> SlaBudget[priority], opened |-> actor_step])
  /\ UNCHANGED <<episode, trajectory, actor_step, drift, outbox, round, current_expert, judging>>

\* Resolving twice, or a ticket of an earlier episode (404), changes nothing.
ResolveTicket(n) ==
  /\ Free
  /\ tickets' = [m \in 1..Len(tickets) |->
                   IF m = n THEN [tickets[m] EXCEPT !.status = "resolved"] ELSE tickets[m]]
  /\ UNCHANGED <<episode, trajectory, actor_step, drift, outbox, round, current_expert, judging>>

\* POST /experts/rotate, to a round of the caller's (negative ones too) or to
\* the next one: any round, here one of RoundIndexes.
Rotate ==
  /\ Free
  /\ round' \in RoundIndexes
  /\ current_expert' = round' % RotationSize
  /\ UNCHANGED <<episode, trajectory, themes, judging>>

-----------------------------------------------------------------------------
(* Explanations.                                                           *)

Key == <<episode, trajectory>>

\* Mutant: the judge is asked outside the session's lock.
StartExplainUnlocked(s, text) ==
  /\ call[s] = None /\ episode # 0 /\ actor_step < ClockBound
  /\ UNCHANGED lock
  /\ call' = [call EXCEPT ![s] = [key |-> Key, text |-> text,
                                  known |-> IF Key \in DOMAIN cache THEN cache[Key] ELSE None]]
  /\ UNCHANGED <<episode, trajectory, themes, round, current_expert, cache, verdicts>>

\* The step is under the lock while the judge looks in its cache ...
StartExplain(s, text) ==
  /\ Free /\ call[s] = None
  /\ episode # 0 /\ actor_step < ClockBound
  /\ lock' = s
  /\ call' = [call EXCEPT ![s] = [key |-> Key, text |-> text,
                                  known |-> IF Key \in DOMAIN cache THEN cache[Key] ELSE None]]
  /\ UNCHANGED <<episode, trajectory, themes, round, current_expert, cache, verdicts>>

\* What judge() may answer to a miss: the model's score, 0 when the model's
\* answer is not JSON, the keyword score when the call fails otherwise.
Answers(text) == LlmScores \cup {0} \cup {Heuristic[text]}

\* ... and until the answer is cached, paid and the themes have advanced.
FinishExplain(s) ==
  /\ call[s] # None
  /\ \E score \in IF call[s].known # None THEN {call[s].known} ELSE Answers(call[s].text) :
       /\ cache' = [k \in DOMAIN cache \cup {call[s].key} |->
                      IF k = call[s].key THEN score ELSE cache[k]]
       /\ verdicts' = verdicts \cup {<<call[s].key, call[s].text, score>>}
  /\ call' = [call EXCEPT ![s] = None]
  /\ lock' = None
  /\ OnStep
  /\ UNCHANGED <<episode, trajectory, round, current_expert>>

-----------------------------------------------------------------------------
Init ==
  /\ episode = 0 /\ trajectory = 0
  /\ actor_step = 0 /\ schedule = {} /\ versions = <<FirstPolicy>>
  /\ outbox = <<>> /\ tickets = <<>>
  /\ round = 0 /\ current_expert = 0
  /\ lock = None /\ call = [s \in Slots |-> None]
  /\ cache = <<>> /\ verdicts = {}

Next ==
  \/ Reset
  \/ Read
  \/ Step
  \/ \E a \in Alerts, p \in Priorities : OpenTicket(a, p)
  \/ \E n \in 1..TicketBound : ResolveTicket(n)
  \/ Rotate
  \/ \E s \in Slots, text \in Explanations : StartExplain(s, text)
  \/ \E s \in Slots : FinishExplain(s)

Spec == Init /\ [][Next]_vars

-----------------------------------------------------------------------------
(* Properties.                                                             *)

Ticket == [alert : Alerts, priority : Priorities, status : {"open", "resolved"},
           left : Nat, opened : Nat]

\* The types of SessionState's theme fields and of the judge's cache.
TypeOK ==
  /\ episode \in Nat /\ trajectory \in Nat /\ actor_step \in Nat
  /\ schedule \subseteq Nat
  /\ versions \in Seq([activated : Nat, rules : SUBSET DriftKinds])
  /\ \A n \in 1..Len(outbox) : outbox[n].actor \in Actors /\ outbox[n].step \in Nat
  /\ tickets \in Seq(Ticket)
  /\ round \in Int /\ current_expert \in 0..(RotationSize - 1)
  /\ lock \in Slots \cup {None}

\* The policy history is what the plan and the clock say: one version for each
\* planned drift that is due and none else, in the order of activation, so that
\* current() and active_at(now) are the same policy (PolicyDriftEngine).  None is
\* planned before the third step, nor in the last tenth of an episode of any length
\* ("Avoid drifting in the last 10%": no time to react).
DriftFollowsPlan ==
  /\ \A s \in schedule : 3 <= s /\ \E n \in EpisodeLengths : 10 * s < 9 * n
  /\ {versions[n].activated : n \in 2..Len(versions)} = {s \in schedule : s <= actor_step}
  /\ \A m, n \in 1..Len(versions) : m < n => versions[m].activated < versions[n].activated
  /\ ActiveAt(versions, actor_step) = Len(versions)

\* An audit question is about a policy that has been announced, and about none that
\* was superseded before its step: every drift of an earlier step has reached the
\* auditor, and none of a later one (on_step's ctx, ComplianceOfficerActor).
AuditsMissNoEarlierDrift ==
  \A n \in 1..Len(outbox) :
    LET m == outbox[n]
    IN  m.actor = "compliance" =>
          /\ versions[m.version].activated <= m.step
          /\ \A v \in 1..Len(versions) : versions[v].activated < m.step => v <= m.version

\* What the documentation says: "when policy_version changes, this actor's question
\* references the new policy" (compliance.py), the one active_at calls in effect at
\* the question's step.
AuditsQuoteNewPolicy ==
  \A n \in 1..Len(outbox) :
    outbox[n].actor = "compliance" => outbox[n].version = ActiveAt(versions, outbox[n].step)

\* The outbox belongs to the present episode and is complete: the actors'
\* messages of the steps 1..actor_step, each once, in order.
OutboxMatchesClock ==
  /\ \A n \in 1..Len(outbox) : outbox[n].step \in 1..actor_step
  /\ \A m, n \in 1..Len(outbox) : m < n => outbox[m].step <= outbox[n].step
  /\ \A a \in Actors, s \in 1..actor_step :
       Writes(a, s) <=> Cardinality({n \in 1..Len(outbox) : /\ outbox[n].actor = a
                                                            /\ outbox[n].step = s}) = 1

\* An SLA clock shows the steps its ticket has been open: it starts with the
\* priority's budget, loses one per step, stops at zero, and a resolved ticket
\* keeps what was left.  No ticket is older than the clock of its episode.
ClocksMeasureAge ==
  \A n \in 1..Len(tickets) :
    LET t   == tickets[n]
        due == AtLeast(0, SlaBudget[t.priority] - (actor_step - t.opened))
    IN  /\ t.opened <= actor_step
        /\ t.left \in due..SlaBudget[t.priority]
        /\ IsOpen(t) => t.left = due

\* A breach ends by resolving the ticket or with the episode, never by itself,
\* and nothing that was resolved in time becomes a breach later.
BreachesEndByResolution ==
  [][episode' = episode =>
       \A n \in 1..Len(tickets) :
         /\ Breached(tickets[n]) /\ ~Breached(tickets'[n]) => tickets'[n].status = "resolved"
         /\ tickets[n].status = "resolved" => tickets'[n] = tickets[n]]_vars

\* An explanation that is judged again has its verdict again, as long as nothing has
\* happened in the episode, by however many threads, and whether or not the model was
\* available each time (judge's cache; its check and its store are apart, and only the
\* session's lock keeps two judgements from meeting in between).
RepeatedVerdictStands ==
  \A v, w \in verdicts : v[1] = w[1] /\ v[2] = w[2] => v[3] = w[3]

\* What the documentation says: the cache is "keyed on (episode_id, first 200 chars of
\* explanation)" (manager_judge.py), so a verdict is always on the explanation it is
\* given for, by the model or by the keyword score.
VerdictIsOfItsExplanation == \A v \in verdicts : v[3] \in Answers(v[2])

=============================================================================
