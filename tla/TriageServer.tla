----------------------------- MODULE TriageServer -----------------------------
(***************************************************************************)
(* The HTTP server around the episode engine: the session pool of          *)
(* server/sessions.py, the handlers of server/app.py, the audit trail of   *)
(* server/audit.py and the counters of server/metrics.py.                  *)
(*                                                                         *)
(* A request first resolves its session under the pool's lock, and only    *)
(* later takes that session's own lock; in between the session may be      *)
(* evicted, expire or be deleted, and the request goes on with an object   *)
(* the pool no longer knows.  Inside the session's lock a request calls    *)
(* the engine, the counters and the audit trail one after the other; these *)
(* have locks of their own, so requests of other sessions come in between. *)
(*                                                                         *)
(* The engine is reduced to what the server looks at: which episode it     *)
(* plays, whether it is over, and how many steps it was sent.              *)
(***************************************************************************)
EXTENDS Integers, Sequences, FiniteSets

CONSTANTS
  Ids, Default,      \* session ids, and the one of requests that name none
  MaxSessions, Ttl,  \* SOC_GYM_MAX_SESSIONS, SOC_GYM_SESSION_TTL
  MaxEpisodes,       \* SOC_GYM_AUDIT_MAX_EPISODES
  Slots,             \* threads that serve requests
  UsedOperations,    \* the operations clients ask for
  BaselineSteps,     \* max_steps of the episode /baseline plays
  Links,             \* pairs of alerts that episode lets the agent correlate
  RequestBound,      \* bound of the model on requests
  ClockBound,        \* bound of the model on time
  None               \* Python's None

ASSUME PoolAssumption == /\ Default \in Ids /\ MaxSessions \in Int /\ Ttl \in Int
                         /\ MaxEpisodes \in Nat \ {0}
ASSUME SlotAssumption == BaselineSteps \in Nat /\ None \notin Nat

VARIABLES
  sessions,   \* SessionManager._sessions: live id -> its SessionState
  objects,    \* every SessionState made so far, registered or not
  slots,      \* what each thread is doing
  audit,      \* AuditTrail._traces, oldest first
  metrics,    \* episodes_started, steps, episodes_completed
  attempted,  \* _baseline_agent._attempted_correlations: one agent for all
  begun,      \* episodes begun so far; an episode is known by its number
  arrived,    \* requests so far
  now         \* time.time()

books == <<audit, metrics, attempted>>
pool  == <<sessions, arrived, now>>
vars  == <<pool, objects, slots, books, begun>>

\* A new SessionState, and a thread with nothing to do.
Fresh(i) == [id |-> i, last_used |-> now, episode |-> None, over |-> FALSE, actor_step |-> 0]
Idle     == [at |-> "idle", op |-> None, obj |-> None, left |-> 0, tried |-> {}]

\* The endpoints, by what they do to their session: start an episode, start
\* one in the session named in the body, send a step, play an episode with
\* the baseline agent, look at an episode (which starts one if there is none),
\* or only read.
Operations == {"reset", "reset_body", "step", "baseline", "view", "read"}
ASSUME OperationAssumption == UsedOperations \subseteq Operations

\* The places inside the lock of a session.
Inside == {"count_start", "audit_start", "agent_reset", "loop", "count_step",
           "audit_step", "complete"}

Init ==
  /\ now = 0
  /\ objects = <<Fresh(Default)>>
  /\ sessions = [i \in {Default} |-> 1]
  /\ slots = [r \in Slots |-> Idle]
  /\ audit = <<>>
  /\ metrics = [started |-> 0, steps |-> 0, completed |-> 0]
  /\ attempted = {}
  /\ begun = 0 /\ arrived = 0

-----------------------------------------------------------------------------
(* The session pool: each call holds the pool's lock.                      *)

Without(s, ids) == [i \in DOMAIN s \ ids |-> s[i]]

Expired ==
  IF Ttl <= 0 THEN {}
  ELSE {i \in DOMAIN sessions \ {Default} : now - objects[sessions[i]].last_used > Ttl}

Live == Without(sessions, Expired)

\* Mutant: the default session may be the victim.
OldestOfAll(s) ==
  {i \in DOMAIN s : \A j \in DOMAIN s : objects[s[i]].last_used <= objects[s[j]].last_used}

\* The least recently used sessions; the code breaks a tie by the id.
Oldest(s) ==
  {i \in DOMAIN s \ {Default} :
     \A j \in DOMAIN s \ {Default} : objects[s[i]].last_used <= objects[s[j]].last_used}

\* Mutant: room is made one session too late.
RoomTooLate(s) ==
  IF Cardinality(DOMAIN s) <= MaxSessions \/ Oldest(s) = {} THEN {s}
  ELSE {Without(s, {i}) : i \in Oldest(s)}

\* The pool with room for one more session, where one can be evicted.
RoomIn(s) ==
  IF Cardinality(DOMAIN s) < MaxSessions \/ Oldest(s) = {} THEN {s}
  ELSE {Without(s, {i}) : i \in Oldest(s)}

\* Mutant: the object of a session the pool has forgotten is used again.
GetOrCreateAgain(i, o) ==
  \/ /\ i \in DOMAIN Live
     /\ o = Live[i]
     /\ sessions' = Live
     /\ objects' = [objects EXCEPT ![o].last_used = now]
  \/ /\ i \notin DOMAIN Live
     /\ o \in {Len(objects) + 1} \cup {p \in 1..Len(objects) : objects[p].id = i}
     /\ \E s \in RoomIn(Live) :
          sessions' = [j \in DOMAIN s \cup {i} |-> IF j = i THEN o ELSE s[j]]
     /\ objects' = IF o = Len(objects) + 1 THEN Append(objects, Fresh(i))
                   ELSE [objects EXCEPT ![o] = Fresh(i)]

\* get_or_create(i), which returns object o.
GetOrCreate(i, o) ==
  \/ /\ i \in DOMAIN Live
     /\ o = Live[i]
     /\ sessions' = Live
     /\ objects' = [objects EXCEPT ![o].last_used = now]
  \/ /\ i \notin DOMAIN Live
     /\ o = Len(objects) + 1
     /\ \E s \in RoomIn(Live) :
          sessions' = [j \in DOMAIN s \cup {i} |-> IF j = i THEN o ELSE s[j]]
     /\ objects' = Append(objects, Fresh(i))

\* Mutant: the deleted session keeps an entry without an object.
DropEmptied(i) ==
  /\ i \in DOMAIN sessions
  /\ sessions' = [sessions EXCEPT ![i] = None]
  /\ arrived < RequestBound /\ arrived' = arrived + 1
  /\ UNCHANGED <<now, objects, slots, books, begun>>

\* DELETE /sessions/{i}: whoever uses the session keeps its object.
Drop(i) ==
  /\ i \in DOMAIN sessions
  /\ sessions' = Without(sessions, {i})
  /\ arrived < RequestBound /\ arrived' = arrived + 1
  /\ UNCHANGED <<now, objects, slots, books, begun>>

\* GET /sessions.
ListSummaries == sessions' = Live /\ UNCHANGED <<arrived, now, objects, slots, books, begun>>

Tick == now < ClockBound /\ now' = now + 1
        /\ UNCHANGED <<sessions, arrived, objects, slots, books, begun>>

-----------------------------------------------------------------------------
(* Requests.                                                               *)

Goto(r, place) == slots' = [slots EXCEPT ![r].at = place]
Reply(r) == slots' = [slots EXCEPT ![r] = Idle]

\* The get_session dependency resolves the session of the header.
Arrive(r, i, op) ==
  /\ slots[r].at = "idle"
  /\ arrived < RequestBound /\ arrived' = arrived + 1
  /\ \E o \in 1..Len(objects) + 1 :
       /\ GetOrCreate(i, o)
       /\ slots' = [slots EXCEPT ![r] =
            [at |-> IF op = "reset_body" THEN "body" ELSE "lock",
             op |-> op, obj |-> o, left |-> BaselineSteps, tried |-> {}]]
  /\ UNCHANGED <<now, books, begun>>

\* POST /reset with a session_id in its body resolves a second session.
BodySession(r, i) ==
  /\ slots[r].at = "body"
  /\ \E o \in 1..Len(objects) + 1 :
       /\ GetOrCreate(i, o)
       /\ slots' = [slots EXCEPT ![r].at = "lock", ![r].obj = o]
  /\ UNCHANGED <<arrived, now, books, begun>>

\* Mutant: a handler takes no lock.
AlwaysFree(o) == o \in 1..Len(objects)

Free(o) == \A r \in Slots : slots[r].at \in Inside => slots[r].obj # o

\* The handler of an operation in `ops' gets its session's lock.
Locks(r, ops) == /\ slots[r].at = "lock" /\ slots[r].op \in ops
                 /\ Free(slots[r].obj)

\* Mutant: on_reset keeps the step count of the previous episode.
NewEpisodeOldClock(o) ==
  /\ begun' = begun + 1
  /\ objects' = [objects EXCEPT ![o] = [@ EXCEPT !.episode = begun + 1, !.over = FALSE]]

\* env.reset and SessionState.on_reset.
NewEpisode(o) ==
  /\ begun' = begun + 1
  /\ objects' = [objects EXCEPT ![o] =
       [@ EXCEPT !.episode = begun + 1, !.over = FALSE, !.actor_step = 0]]

\* SessionState.on_step.
Stepped(sess, over) == [sess EXCEPT !.over = over, !.actor_step = sess.actor_step + 1]

\* env.step: an episode that is over stays so.
EpisodeStep(o) ==
  /\ \E over \in {TRUE, objects[o].over} :
       objects' = [objects EXCEPT ![o] = Stepped(objects[o], over)]
  /\ UNCHANGED begun

StartEpisode(r) ==
  /\ Locks(r, {"reset", "reset_body", "baseline"})
  /\ NewEpisode(slots[r].obj)
  /\ Goto(r, "count_start")
  /\ UNCHANGED <<pool, books>>

\* An unknown task or mode: 400, and the session keeps its episode.
RejectReset(r) ==
  /\ Locks(r, {"reset", "reset_body", "baseline"})
  /\ Reply(r)
  /\ UNCHANGED <<pool, objects, books, begun>>

CountStart(r) ==
  /\ slots[r].at = "count_start"
  /\ metrics' = [metrics EXCEPT !.started = @ + 1]
  /\ Goto(r, "audit_start")
  /\ UNCHANGED <<pool, objects, audit, attempted, begun>>

Window(traces) == IF Len(traces) > MaxEpisodes THEN Tail(traces) ELSE traces

\* What the caller of _do_reset or _do_step does next.
AfterReset(r) == IF slots[r].op = "baseline" THEN Goto(r, "agent_reset") ELSE Reply(r)
AfterStep(r)  == IF slots[r].op = "baseline" THEN Goto(r, "loop") ELSE Reply(r)

\* A trace lists the calls of its episode by their number, 0 for the reset.  (The
\* step field of an entry is the engine's counter, which stands still after the end.)
AuditStart(r) ==
  /\ slots[r].at = "audit_start"
  /\ LET sess == objects[slots[r].obj]
     IN  audit' = Window(Append(audit, [episode |-> sess.episode, session |-> sess.id,
                                        events |-> <<0>>, finished |-> FALSE]))
  /\ AfterReset(r)
  /\ UNCHANGED <<pool, objects, metrics, attempted, begun>>

Step(r) ==
  /\ Locks(r, {"step"})
  /\ objects[slots[r].obj].episode # None
  /\ EpisodeStep(slots[r].obj)
  /\ Goto(r, "count_step")
  /\ UNCHANGED <<pool, books>>

StepWithoutEpisode(r) ==
  /\ Locks(r, {"step"})
  /\ objects[slots[r].obj].episode = None
  /\ Reply(r)
  /\ UNCHANGED <<pool, objects, books, begun>>

\* /baseline keeps its session's lock while the agent plays, but the agent is
\* the same one for every session.
AgentReset(r) ==
  /\ slots[r].at = "agent_reset"
  /\ attempted' = {}
  /\ Goto(r, "loop")
  /\ UNCHANGED <<pool, objects, audit, metrics, begun>>

\* next_action either asks for a correlation it has no memory of having asked
\* for, or for something else.
BaselineStep(r) ==
  /\ slots[r].at = "loop"
  /\ ~objects[slots[r].obj].over /\ slots[r].left > 0
  /\ \E links \in {{}} \cup {{l} : l \in Links \ attempted} :
       /\ attempted' = attempted \cup links
       /\ LET slot == slots[r]
          IN  slots' = [slots EXCEPT ![r] =
                [slot EXCEPT !.at = "count_step", !.left = slot.left - 1,
                             !.tried = slot.tried \cup links]]
  /\ EpisodeStep(slots[r].obj)
  /\ UNCHANGED <<pool, audit, metrics>>

\* Mutant: only the end of the episode ends the play.
BaselineUnending(r) ==
  /\ slots[r].at = "loop"
  /\ objects[slots[r].obj].over
  /\ Reply(r)
  /\ UNCHANGED <<pool, objects, books, begun>>

BaselineGraded(r) ==
  /\ slots[r].at = "loop"
  /\ objects[slots[r].obj].over \/ slots[r].left = 0
  /\ Reply(r)
  /\ UNCHANGED <<pool, objects, books, begun>>

CountStep(r) ==
  /\ slots[r].at = "count_step"
  /\ metrics' = [metrics EXCEPT !.steps = @ + 1]
  /\ Goto(r, "audit_step")
  /\ UNCHANGED <<pool, objects, audit, attempted, begun>>

\* What the trail writes into the trace of a session's episode.
Recorded(trace, sess) ==
  [trace EXCEPT !.events = Append(trace.events, sess.actor_step),
                !.finished = IF sess.over THEN TRUE ELSE trace.finished]

\* A step of an episode that has left the window goes unrecorded.
AuditStep(r) ==
  /\ slots[r].at = "audit_step"
  /\ LET sess == objects[slots[r].obj]
     IN  /\ audit' = [n \in 1..Len(audit) |->
              IF audit[n].episode = sess.episode THEN Recorded(audit[n], sess) ELSE audit[n]]
         /\ IF sess.over THEN Goto(r, "complete") ELSE AfterStep(r)
  /\ UNCHANGED <<pool, objects, metrics, attempted, begun>>

\* A step that leaves the episode over counts it as completed.
Complete(r) ==
  /\ slots[r].at = "complete"
  /\ metrics' = [metrics EXCEPT !.completed = @ + 1]
  /\ AfterStep(r)
  /\ UNCHANGED <<pool, objects, audit, attempted, begun>>

\* ensure_episode: the handlers that show an episode start one if there is none,
\* past the counters and the audit trail.
View(r) ==
  /\ Locks(r, {"view"})
  /\ \/ objects[slots[r].obj].episode = None /\ NewEpisode(slots[r].obj)
     \/ objects[slots[r].obj].episode # None /\ UNCHANGED <<objects, begun>>
  /\ Reply(r)
  /\ UNCHANGED <<pool, books>>

Read(r) ==
  /\ Locks(r, {"read"})
  /\ Reply(r)
  /\ UNCHANGED <<pool, objects, books, begun>>

-----------------------------------------------------------------------------
\* What a request does once it has its session's lock.
Serve(r) ==
  \/ CountStart(r) \/ AuditStart(r) \/ AgentReset(r) \/ BaselineStep(r) \/ BaselineGraded(r)
  \/ CountStep(r) \/ AuditStep(r) \/ Complete(r)

Handle(r) ==
  \/ StartEpisode(r) \/ RejectReset(r) \/ Step(r) \/ StepWithoutEpisode(r)
  \/ View(r) \/ Read(r)

Next ==
  \/ \E i \in Ids : Drop(i)
  \/ ListSummaries
  \/ Tick
  \/ \E r \in Slots, i \in Ids, op \in UsedOperations : Arrive(r, i, op)
  \/ \E r \in Slots, i \in Ids : BodySession(r, i)
  \/ \E r \in Slots : Handle(r)
  \/ \E r \in Slots : Serve(r)

Spec == Init /\ [][Next]_vars

-----------------------------------------------------------------------------
(* Properties.                                                             *)

SessionState == [id : Ids, last_used : Nat, episode : Nat \cup {None},
                 over : BOOLEAN, actor_step : Nat]
Trace == [episode : Nat, session : Ids, events : Seq(Nat), finished : BOOLEAN]
Slot == [at : Inside \cup {"idle", "body", "lock"}, op : Operations \cup {None},
         obj : 1..Len(objects) \cup {None}, left : Nat, tried : SUBSET Links]

\* The type of the server's state.  A live session is the object made for its id.
TypeOK ==
  /\ objects \in Seq(SessionState)
  /\ DOMAIN sessions \subseteq Ids
  /\ \A i \in DOMAIN sessions : /\ sessions[i] \in 1..Len(objects)
                                /\ objects[sessions[i]].id = i
  /\ slots \in [Slots -> Slot]
  /\ \A r \in Slots : slots[r].at # "idle" => slots[r].obj # None
  /\ audit \in Seq(Trace)
  /\ metrics \in [started : Nat, steps : Nat, completed : Nat]
  /\ attempted \subseteq Links
  /\ begun \in Nat /\ arrived \in Nat /\ now \in Nat

\* The pool never outgrows its cap, whatever expires, is evicted, deleted or
\* made again (sessions.py, "capped at SOC_GYM_MAX_SESSIONS").  A cap below 2
\* leaves no room beside the default session, which is never the victim.
PoolWithinCap ==
  Cardinality(DOMAIN sessions) <= IF MaxSessions < 2 THEN 2 ELSE MaxSessions

\* The default session goes only when it is deleted: neither expiry nor eviction
\* takes it, however old it is (sessions.py, "the default session is never evicted").
DefaultStays ==
  [][~Drop(Default) /\ Default \in DOMAIN sessions
       => Default \in DOMAIN sessions' /\ sessions'[Default] = sessions[Default]]_vars

\* Two requests inside the same session at once never happens, and no episode is
\* played in two sessions, evicted or deleted ones included (sessions.py, "never
\* contend or corrupt each other's state").
SessionsAreIsolated ==
  /\ \A r, q \in Slots :
       r # q /\ slots[r].at \in Inside /\ slots[q].at \in Inside => slots[r].obj # slots[q].obj
  /\ \A o, p \in 1..Len(objects) :
       o # p /\ objects[o].episode # None => objects[o].episode # objects[p].episode

\* A step is with the engine and not yet with the audit trail.
InFlight(o) == \E r \in Slots : slots[r].at \in {"count_step", "audit_step"}
                                /\ slots[r].obj = o

\* A trace in the window is the whole story of its episode so far: its reset and
\* every step, once and in order, under the session that plays it, though the
\* trail is written after the engine has moved and between other sessions' calls.
TracesAreComplete ==
  \A n \in 1..Len(audit) :
    /\ audit[n].events = [k \in 1..Len(audit[n].events) |-> k - 1]
    /\ \A m \in 1..Len(audit) : audit[m].episode = audit[n].episode => m = n
    /\ \A o \in 1..Len(objects) :
         objects[o].episode = audit[n].episode =>
           /\ audit[n].session = objects[o].id
           /\ Len(audit[n].events) = IF InFlight(o) THEN objects[o].actor_step
                                     ELSE objects[o].actor_step + 1
           /\ audit[n].finished => objects[o].over

\* A trace, with the step that is on its way to it.
Heard(n) ==
  LET late == {o \in 1..Len(objects) : InFlight(o) /\ objects[o].episode = audit[n].episode}
  IN  IF late = {} THEN audit[n] ELSE Recorded(audit[n], objects[CHOOSE o \in late : TRUE])

Playing == [o \in 1..Len(objects) |->
              [id |-> objects[o].id, episode |-> objects[o].episode,
               over |-> objects[o].over, steps |-> objects[o].actor_step]]
Trail == [n \in 1..Len(audit) |-> Heard(n)]

Audited == INSTANCE AuditedSessions WITH plays <- Playing, trail <- Trail

\* Whatever the interleaving of requests, evictions and the late writing of the
\* trail, the server is one whose sessions play apart, each call told as it is
\* played (sessions.py, "each session owns an isolated SOCEnvironment").
ImplementsAuditedSessions == Audited!Spec

\* Every episode is recorded as long as the window has room (docs/PRODUCTION.md,
\* "Every reset and step is recorded per episode").
EveryEpisodeIsRecorded ==
  begun <= MaxEpisodes =>
    \A o \in 1..Len(objects) :
      objects[o].episode # None /\ Free(o) =>
        \E n \in 1..Len(audit) : audit[n].episode = objects[o].episode

\* No more episodes are completed than were started (metrics.py,
\* socgym_episodes_completed_total, "episodes finished").
CompletedWereStarted == metrics.completed <= metrics.started

\* What the baseline agent remembers while it plays an episode is what it tried in
\* that episode, so that no client's play is changed by another's (app.py,
\* "concurrent clients never share or corrupt each other's episodes").
AgentRemembersThisPlay ==
  \A r \in Slots : slots[r].at = "loop" => attempted \subseteq slots[r].tried

\* Threads are scheduled: a request that has its session's lock goes on.
LiveSpec == Spec /\ \A r \in Slots : WF_vars(Serve(r))

\* The lock of a session is always given back.
LocksAreReleased == \A r \in Slots : slots[r].at \in Inside ~> slots[r].at \notin Inside

=============================================================================
