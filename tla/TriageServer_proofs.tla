------------------------ MODULE TriageServer_proofs -------------------------
(***************************************************************************)
(* Proofs about TriageServer, for every set of ids, threads and operations *)
(* and every cap, lifetime and window, with no bound on the number of      *)
(* sessions made or episodes begun.                                        *)
(***************************************************************************)
EXTENDS TriageServer, FiniteSetTheorems, SequenceTheorems, WellFoundedInduction, TLAPS

-----------------------------------------------------------------------------
(* What each kind of step does to sessions, objects and threads.           *)

\* The objects keep their ids and episodes, apart from what an engine call does.
SameObjects == /\ objects' \in Seq(SessionState) /\ Len(objects') = Len(objects)
               /\ \A o \in 1..Len(objects) : objects'[o].id = objects[o].id

\* Editing one SessionState, but not its id, leaves all of them typed.
LEMMA EditObject ==
  ASSUME TypeOK, NEW o \in 1..Len(objects), NEW sess \in SessionState,
         sess.id = objects[o].id, objects' = [objects EXCEPT ![o] = sess]
  PROVE  /\ SameObjects
         /\ objects'[o] = sess
         /\ \A p \in 1..Len(objects) : p # o => objects'[p] = objects[p]
<1>1. objects \in Seq(SessionState)
  BY DEF TypeOK
<1>2. /\ objects' \in Seq(SessionState) /\ Len(objects') = Len(objects)
      /\ \A p \in 1..Len(objects) : objects'[p] = IF p = o THEN sess ELSE objects[p]
  BY <1>1, ExceptSeq
<1> QED
  BY <1>2 DEF SameObjects

\* A SessionState in the list has its fields.
LEMMA ObjectFields ==
  ASSUME TypeOK, NEW o \in 1..Len(objects)
  PROVE  /\ objects[o] \in SessionState
         /\ objects[o].id \in Ids /\ objects[o].last_used \in Nat
         /\ objects[o].episode \in Nat \cup {None}
         /\ objects[o].over \in BOOLEAN /\ objects[o].actor_step \in Nat
<1>1. objects[o] \in SessionState
  BY ElementOfSeq DEF TypeOK
<1> QED
  BY <1>1 DEF SessionState

\* A SessionState that is used, reset or stepped is a SessionState still.
LEMMA TouchTyped ==
  ASSUME NEW sess \in SessionState, NEW t \in Nat
  PROVE  LET new == [sess EXCEPT !.last_used = t]
         IN  /\ new \in SessionState
             /\ new.id = sess.id /\ new.episode = sess.episode
             /\ new.over = sess.over /\ new.actor_step = sess.actor_step
BY DEF SessionState

\* The reset one plays the new episode from its start.
LEMMA ResetTyped ==
  ASSUME NEW sess \in SessionState, NEW n \in Nat
  PROVE  LET new == [sess EXCEPT !.episode = n, !.over = FALSE, !.actor_step = 0]
         IN  /\ new \in SessionState
             /\ new.id = sess.id /\ new.episode = n /\ new.actor_step = 0
             /\ new.over = FALSE
BY DEF SessionState

\* The stepped one plays its episode on.
LEMMA SteppedTyped ==
  ASSUME NEW sess \in SessionState, NEW ends \in BOOLEAN
  PROVE  /\ Stepped(sess, ends) \in SessionState
         /\ Stepped(sess, ends).id = sess.id
         /\ Stepped(sess, ends).episode = sess.episode
         /\ Stepped(sess, ends).over = ends
         /\ Stepped(sess, ends).actor_step = sess.actor_step + 1
<1> DEFINE m == sess.actor_step + 1
<1>1. m \in Nat
  BY DEF SessionState
<1>2. Stepped(sess, ends) = [sess EXCEPT !.over = ends, !.actor_step = m]
  BY DEF Stepped
<1> HIDE DEF m
<1>3. /\ Stepped(sess, ends) \in SessionState
      /\ Stepped(sess, ends).id = sess.id
      /\ Stepped(sess, ends).episode = sess.episode
      /\ Stepped(sess, ends).over = ends
      /\ Stepped(sess, ends).actor_step = m
  BY <1>1, <1>2 DEF SessionState
<1> QED
  BY <1>3, Zenon DEF m

\* env.reset begins the next episode in one session.
LEMMA NewEpisodeEffect ==
  ASSUME TypeOK, NEW o \in 1..Len(objects), NewEpisode(o)
  PROVE  /\ SameObjects /\ begun' = begun + 1
         /\ objects'[o].episode = begun + 1 /\ objects'[o].actor_step = 0
         /\ objects'[o].over = FALSE
         /\ \A p \in 1..Len(objects) : p # o => objects'[p] = objects[p]
<1> DEFINE sess == [objects[o] EXCEPT !.episode = begun + 1, !.over = FALSE, !.actor_step = 0]
<1>1. begun \in Nat
  BY DEF TypeOK
<1>2. /\ sess \in SessionState /\ sess.id = objects[o].id
      /\ sess.episode = begun + 1 /\ sess.actor_step = 0 /\ sess.over = FALSE
  <2>1. objects[o] \in SessionState /\ begun + 1 \in Nat
    BY <1>1, ObjectFields
  <2> QED
    BY <2>1, ResetTyped
<1>3. begun' = begun + 1 /\ objects' = [objects EXCEPT ![o] = sess]
  BY DEF NewEpisode
<1> HIDE DEF sess
<1> QED
  BY <1>2, <1>3, EditObject

\* env.step counts one more step of the episode and may end it.
LEMMA EpisodeStepEffect ==
  ASSUME TypeOK, NEW o \in 1..Len(objects), EpisodeStep(o)
  PROVE  /\ SameObjects /\ begun' = begun
         /\ objects'[o].episode = objects[o].episode
         /\ objects'[o].actor_step = objects[o].actor_step + 1
         /\ objects[o].over => objects'[o].over
         /\ \A p \in 1..Len(objects) : p # o => objects'[p] = objects[p]
<1>1. PICK over \in {TRUE, objects[o].over} :
        objects' = [objects EXCEPT ![o] = Stepped(objects[o], over)]
  BY DEF EpisodeStep
<1> DEFINE sess == Stepped(objects[o], over)
<1>2. objects' = [objects EXCEPT ![o] = sess]
  BY <1>1
<1>3. /\ sess \in SessionState
      /\ sess.id = objects[o].id /\ sess.episode = objects[o].episode
      /\ sess.actor_step = objects[o].actor_step + 1 /\ sess.over = over
  <2>1. objects[o] \in SessionState /\ objects[o].over \in BOOLEAN
    BY ObjectFields
  <2>2. over \in BOOLEAN
    BY <2>1, Zenon
  <2> QED
    BY <2>1, <2>2, SteppedTyped, Zenon
<1>4. objects[o].over => sess.over
  BY <1>3, Zenon
<1> HIDE DEF sess
<1>5. /\ SameObjects /\ objects'[o] = sess
      /\ \A p \in 1..Len(objects) : p # o => objects'[p] = objects[p]
  BY <1>2, <1>3, EditObject
<1>6. objects[o].over => objects'[o].over
  BY <1>4, <1>5, Zenon
<1> QED
  BY <1>3, <1>5, <1>6 DEF EpisodeStep

\* The sessions that have not expired.
LEMMA LiveSessions ==
  ASSUME TypeOK
  PROVE  /\ DOMAIN Live \subseteq DOMAIN sessions
         /\ \A i \in DOMAIN Live : Live[i] = sessions[i]
         /\ Default \in DOMAIN sessions => Default \in DOMAIN Live
BY DEF Live, Without, Expired

\* Making room only takes sessions away, and never the default one.
LEMMA RoomKeepsRest ==
  ASSUME NEW s, NEW t \in RoomIn(s)
  PROVE  /\ DOMAIN t \subseteq DOMAIN s
         /\ \A i \in DOMAIN t : t[i] = s[i]
         /\ Default \in DOMAIN s => Default \in DOMAIN t
<1>1. CASE t = s
  BY <1>1
<1>2. CASE t # s
  <2>1. PICK i \in Oldest(s) : t = Without(s, {i})
    BY <1>2 DEF RoomIn
  <2>2. i # Default
    BY <2>1 DEF Oldest
  <2> QED
    BY <2>1, <2>2 DEF Without
<1> QED
  BY <1>1, <1>2

\* A session nobody has played in.
New(p) == /\ p = Len(objects) + 1 /\ objects'[p].id \in Ids /\ objects'[p].episode = None
          /\ objects'[p].over = FALSE /\ objects'[p].actor_step = 0

\* get_or_create returns a session registered under the id, and apart from the
\* time of use it changes no session: a new one comes after all others and has
\* no episode.
LEMMA ResolveEffect ==
  ASSUME TypeOK, NEW i \in Ids, NEW o, GetOrCreate(i, o)
  PROVE  /\ objects' \in Seq(SessionState) /\ Len(objects') \in Nat
         /\ Len(objects) <= Len(objects') /\ o \in 1..Len(objects')
         /\ \A p \in 1..Len(objects) :
              /\ objects'[p].id = objects[p].id
              /\ objects'[p].episode = objects[p].episode
              /\ objects'[p].over = objects[p].over
              /\ objects'[p].actor_step = objects[p].actor_step
         /\ \A p \in 1..Len(objects') : p \notin 1..Len(objects) => New(p)
         /\ DOMAIN sessions' \subseteq Ids
         /\ \A j \in DOMAIN sessions' : /\ sessions'[j] \in 1..Len(objects')
                                        /\ objects'[sessions'[j]].id = j
         /\ Default \in DOMAIN sessions =>
              Default \in DOMAIN sessions' /\ sessions'[Default] = sessions[Default]
<1>0. /\ objects \in Seq(SessionState) /\ Len(objects) \in Nat /\ now \in Nat
      /\ DOMAIN sessions \subseteq Ids
      /\ \A j \in DOMAIN sessions : /\ sessions[j] \in 1..Len(objects)
                                    /\ objects[sessions[j]].id = j
  BY LenProperties DEF TypeOK
<1>1. CASE /\ i \in DOMAIN Live /\ o = Live[i] /\ sessions' = Live
           /\ objects' = [objects EXCEPT ![o].last_used = now]
  <2> DEFINE sess == [objects[o] EXCEPT !.last_used = now]
  <2>1. o \in 1..Len(objects)
    BY <1>0, <1>1, LiveSessions
  <2>2. objects[o] \in SessionState
    BY <2>1, ObjectFields
  <2>3. /\ sess \in SessionState
        /\ sess.id = objects[o].id /\ sess.episode = objects[o].episode
        /\ sess.over = objects[o].over /\ sess.actor_step = objects[o].actor_step
    BY <1>0, <2>2, TouchTyped
  <2>4. objects' = [objects EXCEPT ![o] = sess]
    BY <1>1
  <2> HIDE DEF sess
  <2>5. /\ SameObjects /\ objects'[o] = sess
        /\ \A p \in 1..Len(objects) : p # o => objects'[p] = objects[p]
    BY <2>1, <2>3, <2>4, EditObject
  <2>6. \A j \in DOMAIN sessions' : j \in DOMAIN sessions /\ sessions'[j] = sessions[j]
    BY <1>1, LiveSessions
  <2>7. Default \in DOMAIN sessions =>
          Default \in DOMAIN sessions' /\ sessions'[Default] = sessions[Default]
    BY <1>1, LiveSessions
  <2> QED
    BY <1>0, <2>1, <2>3, <2>5, <2>6, <2>7 DEF SameObjects
<1>2. CASE /\ i \notin DOMAIN Live /\ o = Len(objects) + 1
           /\ \E s \in RoomIn(Live) :
                sessions' = [j \in DOMAIN s \cup {i} |-> IF j = i THEN o ELSE s[j]]
           /\ objects' = Append(objects, Fresh(i))
  <2>1. /\ Fresh(i) \in SessionState /\ Fresh(i).episode = None /\ Fresh(i).id = i
        /\ Fresh(i).over = FALSE /\ Fresh(i).actor_step = 0
    BY <1>0 DEF Fresh, SessionState
  <2>2. /\ objects' \in Seq(SessionState) /\ Len(objects') = Len(objects) + 1
        /\ \A p \in 1..Len(objects) : objects'[p] = objects[p]
        /\ objects'[o] = Fresh(i)
    BY <1>0, <1>2, <2>1, AppendProperties
  <2>3. PICK s \in RoomIn(Live) :
          sessions' = [j \in DOMAIN s \cup {i} |-> IF j = i THEN o ELSE s[j]]
    BY <1>2
  <2>4. /\ DOMAIN s \subseteq DOMAIN sessions
        /\ \A j \in DOMAIN s : s[j] = sessions[j]
        /\ Default \in DOMAIN sessions => Default \in DOMAIN s
    BY LiveSessions, RoomKeepsRest
  <2>5. i # Default \/ Default \notin DOMAIN sessions
    BY <1>2, LiveSessions
  <2>6. Default \in DOMAIN sessions =>
          Default \in DOMAIN sessions' /\ sessions'[Default] = sessions[Default]
    BY <2>3, <2>4, <2>5
  <2>7. DOMAIN sessions' \subseteq Ids
    BY <1>0, <2>3, <2>4
  <2>8. \A j \in DOMAIN sessions' : /\ sessions'[j] \in 1..Len(objects')
                                    /\ objects'[sessions'[j]].id = j
    <3>1. o \in 1..Len(objects') /\ 1..Len(objects) \subseteq 1..Len(objects')
      BY <1>0, <1>2, <2>2
    <3>2. CASE i \in DOMAIN sessions'
      BY <1>0, <2>1, <2>2, <2>3, <2>4, <3>1
    <3> QED
      BY <2>3, <3>2
  <2>9. /\ o \in 1..Len(objects') /\ Len(objects) <= Len(objects') /\ Len(objects') \in Nat
        /\ \A p \in 1..Len(objects') : p \notin 1..Len(objects) => p = o
    BY <1>0, <1>2, <2>2
  <2>10. Fresh(i).id \in Ids
    BY <2>1
  <2>11. New(o)
    BY <1>2, <2>1, <2>2, <2>10 DEF New
  <2>12. \A p \in 1..Len(objects') : p \notin 1..Len(objects) => New(p)
    BY <2>9, <2>11
  <2>13. \A p \in 1..Len(objects) : /\ objects'[p].id = objects[p].id
                                   /\ objects'[p].episode = objects[p].episode
                                   /\ objects'[p].over = objects[p].over
                                   /\ objects'[p].actor_step = objects[p].actor_step
    BY <2>2
  <2> QED
    BY <2>2, <2>6, <2>7, <2>8, <2>9, <2>12, <2>13
<1> QED
  BY <1>1, <1>2 DEF GetOrCreate

-----------------------------------------------------------------------------
(* What each kind of step does to the threads.                             *)

\* One thread moves and stays a thread; if it is in a session it stays in it.
Moves(r) == slots' \in [Slots -> Slot] /\ \A q \in Slots : q # r => slots'[q] = slots[q]
Leaves(r) == Moves(r) /\ slots'[r].at = "idle"
MovesTo(r, place) ==
  Moves(r) /\ slots'[r].at = place /\ slots'[r].obj = slots[r].obj /\ slots'[r].op = slots[r].op

\* A busy thread has resolved its session.
LEMMA SlotFields ==
  ASSUME TypeOK, NEW r \in Slots
  PROVE  /\ slots[r] \in Slot
         /\ slots[r].at # "idle" => slots[r].obj \in 1..Len(objects)
         /\ slots[r].at \in Inside => slots[r].at # "idle"
<1>1. slots[r] \in Slot
  BY DEF TypeOK
<1>2. slots[r].obj \in 1..Len(objects) \cup {None}
  BY <1>1 DEF Slot
<1>3. slots[r].at # "idle" => slots[r].obj # None
  BY DEF TypeOK
<1> QED
  BY <1>1, <1>2, <1>3 DEF Inside

\* Going from one place to the next.
LEMMA GotoMoves ==
  ASSUME TypeOK, NEW r \in Slots, NEW place \in Inside, Goto(r, place)
  PROVE  MovesTo(r, place)
<1> DEFINE slot == [slots[r] EXCEPT !.at = place]
<1>1. slots \in [Slots -> Slot] /\ slots[r] \in Slot
  BY DEF TypeOK
<1>2. slots' = [slots EXCEPT ![r] = slot]
  BY DEF Goto
<1>3. slot \in Slot /\ slot.at = place /\ slot.obj = slots[r].obj /\ slot.op = slots[r].op
  BY <1>1 DEF Slot
<1> HIDE DEF slot
<1> QED
  BY <1>1, <1>2, <1>3 DEF MovesTo, Moves

\* Giving the lock back.
LEMMA ReplyMoves ==
  ASSUME TypeOK, NEW r \in Slots, Reply(r)
  PROVE  Leaves(r)
<1>1. slots \in [Slots -> Slot]
  BY DEF TypeOK
<1>2. Idle \in Slot /\ Idle.at = "idle"
  BY DEF Idle, Slot
<1> QED
  BY <1>1, <1>2 DEF Reply, Leaves, Moves

\* The places to go on to after a reset.
LEMMA AfterResetMoves ==
  ASSUME TypeOK, NEW r \in Slots, AfterReset(r)
  PROVE  Leaves(r) \/ MovesTo(r, "agent_reset")
BY ReplyMoves, GotoMoves DEF AfterReset, Inside

\* The places to go on to after a step.
LEMMA AfterStepMoves ==
  ASSUME TypeOK, NEW r \in Slots, AfterStep(r)
  PROVE  Leaves(r) \/ MovesTo(r, "loop")
BY ReplyMoves, GotoMoves DEF AfterStep, Inside

-----------------------------------------------------------------------------
(* What each step does.                                                    *)

\* A request that gets the lock of its session either leaves the episodes alone,
\* or sends the engine a step, or begins the next episode there.
SameEpisodes == /\ SameObjects /\ begun' = begun
                /\ \A o \in 1..Len(objects) : objects'[o].episode = objects[o].episode
Begins(o) == /\ SameObjects /\ begun' = begun + 1
             /\ objects'[o].episode = begun + 1 /\ objects'[o].actor_step = 0
             /\ objects'[o].over = FALSE
             /\ \A p \in 1..Len(objects) : p # o => objects'[p] = objects[p]
Plays(o) == /\ SameEpisodes
            /\ objects'[o].actor_step = objects[o].actor_step + 1
            /\ objects[o].over => objects'[o].over
            /\ \A p \in 1..Len(objects) : p # o => objects'[p] = objects[p]

\* An engine step plays the episode on.
LEMMA EpisodeStepPlays ==
  ASSUME TypeOK, NEW o \in 1..Len(objects), EpisodeStep(o)
  PROVE  Plays(o)
<1>1. /\ SameObjects /\ begun' = begun
      /\ objects'[o].episode = objects[o].episode
      /\ objects'[o].actor_step = objects[o].actor_step + 1
      /\ objects[o].over => objects'[o].over
      /\ \A p \in 1..Len(objects) : p # o => objects'[p] = objects[p]
  BY EpisodeStepEffect
<1>2. \A p \in 1..Len(objects) : objects'[p].episode = objects[p].episode
  BY <1>1
<1>3. SameEpisodes
  BY <1>1, <1>2 DEF SameEpisodes
<1> QED
  BY <1>1, <1>3, Zenon DEF Plays

\* Nothing happens to the sessions.
LEMMA NothingPlayed ==
  ASSUME TypeOK, UNCHANGED <<objects, begun>>
  PROVE  SameEpisodes
BY DEF SameEpisodes, SameObjects, TypeOK

\* What a handler does when it gets the lock: answer at once, begin an episode,
\* or send a step.
LEMMA HandleEffect ==
  ASSUME TypeOK, NEW r \in Slots, Handle(r)
  PROVE  LET o == slots[r].obj
         IN  /\ slots[r].at = "lock" /\ o \in 1..Len(objects) /\ Free(o)
             /\ UNCHANGED <<pool, books>>
             /\ \/ Leaves(r) /\ UNCHANGED <<objects, begun>>
                \/ Leaves(r) /\ Begins(o)
                \/ MovesTo(r, "count_start") /\ Begins(o)
                \/ MovesTo(r, "count_step") /\ Plays(o) /\ objects[o].episode # None
<1> DEFINE o == slots[r].obj
<1>0. slots[r].at = "lock" /\ Free(o)
  BY DEF Handle, StartEpisode, RejectReset, Step, StepWithoutEpisode, View, Read, Locks
<1>1. o \in 1..Len(objects)
  BY <1>0, SlotFields
<1>2. CASE StartEpisode(r)
  BY <1>0, <1>1, <1>2, NewEpisodeEffect, GotoMoves DEF StartEpisode, Begins, Inside
<1>3. CASE RejectReset(r)
  BY <1>0, <1>1, <1>3, ReplyMoves DEF RejectReset
<1>4. CASE Step(r)
  BY <1>0, <1>1, <1>4, EpisodeStepPlays, GotoMoves DEF Step, Inside
<1>5. CASE StepWithoutEpisode(r)
  BY <1>0, <1>1, <1>5, ReplyMoves DEF StepWithoutEpisode
<1>6. CASE View(r)
  BY <1>0, <1>1, <1>6, NewEpisodeEffect, ReplyMoves DEF View, Begins
<1>7. CASE Read(r)
  BY <1>0, <1>1, <1>7, ReplyMoves DEF Read
<1> QED
  BY <1>2, <1>3, <1>4, <1>5, <1>6, <1>7 DEF Handle

\* A thread that has its session's lock works on an episode.
Busy == \A r \in Slots : slots[r].at \in Inside => objects[slots[r].obj].episode # None

NewTrace(sess) == [episode |-> sess.episode, session |-> sess.id,
                   events |-> <<0>>, finished |-> FALSE]

AuditedWith(sess) ==
  [n \in 1..Len(audit) |->
     IF audit[n].episode = sess.episode THEN Recorded(audit[n], sess) ELSE audit[n]]

\* The threads' part of a step of the baseline play.
LEMMA LoopMoves ==
  ASSUME TypeOK, NEW r \in Slots, NEW links \in SUBSET Links, slots[r].left > 0,
         slots' = [slots EXCEPT ![r] =
           [slots[r] EXCEPT !.at = "count_step", !.left = slots[r].left - 1,
                            !.tried = slots[r].tried \cup links]]
  PROVE  MovesTo(r, "count_step")
<1> DEFINE m == slots[r].left - 1
           t == slots[r].tried \cup links
           slot == [slots[r] EXCEPT !.at = "count_step", !.left = m, !.tried = t]
<1>1. slots \in [Slots -> Slot] /\ slots[r] \in Slot
  BY DEF TypeOK
<1>2. m \in Nat /\ t \in SUBSET Links
  BY <1>1 DEF Slot
<1>3. slots' = [slots EXCEPT ![r] = slot]
  OBVIOUS
<1> HIDE DEF m, t
<1>4. slot \in Slot /\ slot.at = "count_step"
      /\ slot.obj = slots[r].obj /\ slot.op = slots[r].op
  BY <1>1, <1>2 DEF Slot, Inside
<1> HIDE DEF slot
<1> QED
  BY <1>1, <1>3, <1>4 DEF MovesTo, Moves

\* A trace that is written into is a trace, of the same episode.
LEMMA RecordedTyped ==
  ASSUME NEW trace \in Trace, NEW sess \in SessionState
  PROVE  /\ Recorded(trace, sess) \in Trace
         /\ Recorded(trace, sess).episode = trace.episode
         /\ Recorded(trace, sess).session = trace.session
         /\ Recorded(trace, sess).events = Append(trace.events, sess.actor_step)
         /\ Recorded(trace, sess).finished => sess.over \/ trace.finished
<1> DEFINE es == Append(trace.events, sess.actor_step)
           f == IF sess.over THEN TRUE ELSE trace.finished
           new == [trace EXCEPT !.events = es, !.finished = f]
<1>1. trace.events \in Seq(Nat) /\ sess.actor_step \in Nat
  BY DEF Trace, SessionState
<1>2. es \in Seq(Nat)
  BY <1>1, AppendProperties
<1>3. f \in BOOLEAN
  BY DEF Trace
<1>4. f => sess.over \/ trace.finished
  BY Zenon
<1>5. Recorded(trace, sess) = new
  BY DEF Recorded
<1> HIDE DEF es, f
<1>6. /\ new \in Trace /\ new.episode = trace.episode /\ new.session = trace.session
      /\ new.events = es
  BY <1>2, <1>3 DEF Trace
<1>7. new.finished = f
  BY <1>3 DEF Trace
<1> HIDE DEF new
<1>8. Recorded(trace, sess).finished => sess.over \/ trace.finished
  BY <1>4, <1>5, <1>7, Zenon
<1> QED
  BY <1>5, <1>6, <1>8, Zenon DEF es

\* Writing a step into the trail leaves it a sequence of traces.
LEMMA AuditedTyped ==
  ASSUME TypeOK, NEW o \in 1..Len(objects)
  PROVE  /\ AuditedWith(objects[o]) \in Seq(Trace)
         /\ Len(AuditedWith(objects[o])) = Len(audit)
<1> DEFINE new == AuditedWith(objects[o])
<1>1. audit \in Seq(Trace) /\ Len(audit) \in Nat
  BY LenProperties DEF TypeOK
<1>2. \A n \in 1..Len(audit) : new[n] \in Trace
  BY <1>1, ElementOfSeq, ObjectFields, RecordedTyped DEF AuditedWith
<1>3. new \in [1..Len(audit) -> Trace]
  BY <1>2 DEF AuditedWith
<1>4. new \in Seq(Trace)
  BY <1>1, <1>3, SeqDef
<1>5. DOMAIN new = 1..Len(audit)
  BY DEF AuditedWith
<1> HIDE DEF new
<1>6. Len(new) = Len(audit)
  BY <1>1, <1>4, <1>5, LenProperties
<1> QED
  BY <1>4, <1>6 DEF new

\* The window keeps the latest traces, in order.
LEMMA WindowKeeps ==
  ASSUME NEW traces \in Seq(Trace)
  PROVE  /\ Window(traces) \in Seq(Trace)
         /\ \E d \in Nat :
              \A n \in 1..Len(Window(traces)) :
                n + d \in 1..Len(traces) /\ Window(traces)[n] = traces[n + d]
<1>1. Len(traces) \in Nat
  OBVIOUS
<1>2. CASE Len(traces) > MaxEpisodes
  <2>1. traces # <<>>
    BY <1>1, <1>2, PoolAssumption
  <2>2. /\ Tail(traces) \in Seq(Trace) /\ Len(Tail(traces)) = Len(traces) - 1
        /\ \A n \in 1..Len(Tail(traces)) : Tail(traces)[n] = traces[n + 1]
    BY <2>1, HeadTailProperties
  <2>3. Window(traces) = Tail(traces)
    BY <1>2 DEF Window
  <2>4. \A n \in 1..Len(Window(traces)) :
          n + 1 \in 1..Len(traces) /\ Window(traces)[n] = traces[n + 1]
    BY <1>1, <2>2, <2>3
  <2> QED
    BY <2>2, <2>3, <2>4
<1>3. CASE ~(Len(traces) > MaxEpisodes)
  <2>1. Window(traces) = traces
    BY <1>3 DEF Window
  <2>2. \A n \in 1..Len(Window(traces)) :
          n + 0 \in 1..Len(traces) /\ Window(traces)[n] = traces[n + 0]
    BY <1>1, <2>1
  <2> QED
    BY <2>1, <2>2
<1> QED
  BY <1>2, <1>3

\* What a request does while it has its session's lock.
LEMMA ServeEffect ==
  ASSUME TypeOK, NEW r \in Slots, Serve(r)
  PROVE  LET o == slots[r].obj
         IN  /\ slots[r].at \in Inside /\ o \in 1..Len(objects)
             /\ UNCHANGED pool
             /\ metrics' \in [started : Nat, steps : Nat, completed : Nat]
             /\ attempted' \subseteq Links
             /\ \/ /\ UNCHANGED <<objects, begun, audit>>
                   /\ \/ slots[r].at = "count_start" /\ MovesTo(r, "audit_start")
                      \/ slots[r].at = "count_step" /\ MovesTo(r, "audit_step")
                      \/ /\ slots[r].at \in {"agent_reset", "loop", "complete"}
                         /\ Leaves(r) \/ MovesTo(r, "loop")
                \/ /\ slots[r].at = "loop" /\ MovesTo(r, "count_step")
                   /\ Plays(o) /\ UNCHANGED audit
                \/ /\ slots[r].at = "audit_start" /\ UNCHANGED <<objects, begun>>
                   /\ Leaves(r) \/ MovesTo(r, "agent_reset")
                   /\ audit' = Window(Append(audit, NewTrace(objects[o])))
                \/ /\ slots[r].at = "audit_step" /\ UNCHANGED <<objects, begun>>
                   /\ Leaves(r) \/ MovesTo(r, "loop") \/ MovesTo(r, "complete")
                   /\ audit' = AuditedWith(objects[o])
<1> DEFINE o == slots[r].obj
<1>0. slots[r].at \in Inside
  BY DEF Serve, CountStart, AuditStart, AgentReset, BaselineStep, BaselineGraded,
         CountStep, AuditStep, Complete, Inside
<1>1. o \in 1..Len(objects)
  BY <1>0, SlotFields
<1>2. /\ metrics \in [started : Nat, steps : Nat, completed : Nat]
      /\ attempted \subseteq Links
  BY DEF TypeOK
<1>3. CASE CountStart(r)
  BY <1>0, <1>1, <1>2, <1>3, GotoMoves DEF CountStart, Inside
<1>4. CASE AuditStart(r)
  BY <1>0, <1>1, <1>2, <1>4, AfterResetMoves DEF AuditStart, NewTrace
<1>5. CASE AgentReset(r)
  BY <1>0, <1>1, <1>2, <1>5, GotoMoves DEF AgentReset, Inside
<1>6. CASE BaselineStep(r)
  <2>1. PICK links \in {{}} \cup {{l} : l \in Links \ attempted} :
          /\ attempted' = attempted \cup links
          /\ slots' = [slots EXCEPT ![r] =
               [slots[r] EXCEPT !.at = "count_step", !.left = slots[r].left - 1,
                                !.tried = slots[r].tried \cup links]]
    BY <1>6 DEF BaselineStep
  <2>2. links \in SUBSET Links
    BY <2>1
  <2>3. slots[r].at = "loop" /\ slots[r].left > 0 /\ EpisodeStep(o)
        /\ UNCHANGED <<pool, audit, metrics>>
    BY <1>6 DEF BaselineStep
  <2>4. MovesTo(r, "count_step")
    BY <2>1, <2>2, <2>3, LoopMoves
  <2>5. Plays(o)
    BY <1>1, <2>3, EpisodeStepPlays
  <2>6. attempted' \subseteq Links
    BY <1>2, <2>1, <2>2
  <2> QED
    BY <1>0, <1>1, <1>2, <2>3, <2>4, <2>5, <2>6
<1>7. CASE BaselineGraded(r)
  BY <1>0, <1>1, <1>2, <1>7, ReplyMoves DEF BaselineGraded, books
<1>8. CASE CountStep(r)
  BY <1>0, <1>1, <1>2, <1>8, GotoMoves DEF CountStep, Inside
<1>9. CASE AuditStep(r)
  <2>1. Leaves(r) \/ MovesTo(r, "loop") \/ MovesTo(r, "complete")
    BY <1>9, AfterStepMoves, GotoMoves DEF AuditStep, Inside
  <2> QED
    BY <1>0, <1>1, <1>2, <1>9, <2>1 DEF AuditStep, AuditedWith
<1>10. CASE Complete(r)
  BY <1>0, <1>1, <1>2, <1>10, AfterStepMoves DEF Complete
<1> QED
  BY <1>3, <1>4, <1>5, <1>6, <1>7, <1>8, <1>9, <1>10 DEF Serve

\* Resolving a session adds at most sessions without an episode.
Resolves ==
  /\ objects' \in Seq(SessionState) /\ Len(objects') \in Nat /\ Len(objects) <= Len(objects')
  /\ \A p \in 1..Len(objects) :
       /\ objects'[p].id = objects[p].id /\ objects'[p].episode = objects[p].episode
       /\ objects'[p].over = objects[p].over /\ objects'[p].actor_step = objects[p].actor_step
  /\ \A p \in 1..Len(objects') : p \notin 1..Len(objects) => New(p)

\* The sessions stay those registered under their ids.
Registered == /\ DOMAIN sessions \subseteq Ids
              /\ \A i \in DOMAIN sessions : /\ sessions[i] \in 1..Len(objects)
                                            /\ objects[sessions[i]].id = i

\* A request that arrives, or that names a second session, gets a session and
\* is inside none.
LEMMA ArriveEffect ==
  ASSUME TypeOK, NEW r \in Slots, NEW i \in Ids, NEW op \in UsedOperations, Arrive(r, i, op)
  PROVE  /\ Resolves /\ Registered' /\ (slots \in [Slots -> Slot])'
         /\ \A q \in Slots : q # r => slots'[q] = slots[q]
         /\ slots[r].at \notin Inside
         /\ slots'[r].at \in {"body", "lock"} /\ slots'[r].obj \in 1..Len(objects')
         /\ UNCHANGED <<now, books, begun>> /\ arrived' \in Nat
<1>1. PICK o \in 1..Len(objects) + 1 :
        /\ GetOrCreate(i, o)
        /\ slots' = [slots EXCEPT ![r] =
             [at |-> IF op = "reset_body" THEN "body" ELSE "lock",
              op |-> op, obj |-> o, left |-> BaselineSteps, tried |-> {}]]
  BY DEF Arrive
<1> DEFINE slot == [at |-> IF op = "reset_body" THEN "body" ELSE "lock",
                    op |-> op, obj |-> o, left |-> BaselineSteps, tried |-> {}]
<1>2. Resolves /\ Registered' /\ o \in 1..Len(objects')
  BY <1>1, ResolveEffect DEF Resolves, Registered
<1>3. slots \in [Slots -> Slot] /\ arrived \in Nat
  BY DEF TypeOK
<1>4. \A q \in Slots : slots[q] \in Slot'
  <2>1. 1..Len(objects) \subseteq 1..Len(objects')
    BY <1>2 DEF Resolves
  <2> QED
    BY <1>3, <2>1 DEF Slot
<1>5. slot \in Slot' /\ slot.at \in {"body", "lock"} /\ slot.obj = o
  BY <1>2, OperationAssumption, SlotAssumption DEF Slot
<1>6. slots' = [slots EXCEPT ![r] = slot]
  BY <1>1
<1> HIDE DEF slot
<1>7. /\ slots' \in [Slots -> Slot'] /\ slots'[r] = slot
      /\ \A q \in Slots : q # r => slots'[q] = slots[q]
  BY <1>3, <1>4, <1>5, <1>6
<1>8. slots[r].at \notin Inside /\ UNCHANGED <<now, books, begun>> /\ arrived' \in Nat
  BY <1>3 DEF Arrive, Inside
<1> QED
  BY <1>2, <1>5, <1>7, <1>8

\* So does a reset that names its session in the body.
LEMMA BodyEffect ==
  ASSUME TypeOK, NEW r \in Slots, NEW i \in Ids, BodySession(r, i)
  PROVE  /\ Resolves /\ Registered' /\ (slots \in [Slots -> Slot])'
         /\ \A q \in Slots : q # r => slots'[q] = slots[q]
         /\ slots[r].at \notin Inside
         /\ slots'[r].at \in {"body", "lock"} /\ slots'[r].obj \in 1..Len(objects')
         /\ UNCHANGED <<now, books, begun>> /\ arrived' \in Nat
<1>1. PICK o \in 1..Len(objects) + 1 :
        /\ GetOrCreate(i, o)
        /\ slots' = [slots EXCEPT ![r].at = "lock", ![r].obj = o]
  BY DEF BodySession
<1> DEFINE slot == [slots[r] EXCEPT !.at = "lock", !.obj = o]
<1>2. Resolves /\ Registered' /\ o \in 1..Len(objects')
  BY <1>1, ResolveEffect DEF Resolves, Registered
<1>3. slots \in [Slots -> Slot] /\ arrived \in Nat
  BY DEF TypeOK
<1>4. \A q \in Slots : slots[q] \in Slot'
  <2>1. 1..Len(objects) \subseteq 1..Len(objects')
    BY <1>2 DEF Resolves
  <2> QED
    BY <1>3, <2>1 DEF Slot
<1>5. slot \in Slot' /\ slot.at = "lock" /\ slot.obj = o
  BY <1>2, <1>4 DEF Slot
<1>6. slots' = [slots EXCEPT ![r] = slot]
  BY <1>1, <1>3
<1> HIDE DEF slot
<1>7. /\ slots' \in [Slots -> Slot'] /\ slots'[r] = slot
      /\ \A q \in Slots : q # r => slots'[q] = slots[q]
  BY <1>3, <1>4, <1>5, <1>6
<1>8. slots[r].at \notin Inside /\ UNCHANGED <<now, books, begun>> /\ arrived' \in Nat
  BY <1>3 DEF BodySession, Inside
<1> QED
  BY <1>2, <1>5, <1>7, <1>8

-----------------------------------------------------------------------------
(* The kinds of steps of the server.                                       *)

\* Time passes, or sessions leave the pool: no thread or object notices.
Apart == /\ UNCHANGED <<objects, slots, books, begun>>
         /\ Registered' /\ arrived' \in Nat /\ now' \in Nat

\* A thread gets a session for its request.
Asks(r) == /\ Resolves /\ Registered' /\ (slots \in [Slots -> Slot])'
           /\ \A q \in Slots : q # r => slots'[q] = slots[q]
           /\ slots[r].at \notin Inside
           /\ slots'[r].at \in {"body", "lock"} /\ slots'[r].obj \in 1..Len(objects')
           /\ UNCHANGED <<now, books, begun>> /\ arrived' \in Nat

\* Every step is of one of four kinds.
LEMMA StepKinds ==
  ASSUME TypeOK, [Next]_vars
  PROVE  \/ Apart
         \/ \E r \in Slots : Asks(r)
         \/ \E r \in Slots : Handle(r)
         \/ \E r \in Slots : Serve(r)
<1>0. arrived \in Nat /\ now \in Nat /\ Registered
  BY DEF TypeOK, Registered
<1>1. CASE \E i \in Ids : Drop(i)
  <2>1. PICK i \in Ids : Drop(i)
    BY <1>1
  <2>2. Registered'
    BY <1>0, <2>1 DEF Drop, Without, Registered
  <2> QED
    BY <1>0, <2>1, <2>2 DEF Drop, Apart
<1>2. CASE ListSummaries
  <2>1. Registered'
    BY <1>0, <1>2, LiveSessions DEF ListSummaries, Registered
  <2> QED
    BY <1>0, <1>2, <2>1 DEF ListSummaries, Apart
<1>3. CASE Tick
  BY <1>0, <1>3 DEF Tick, Apart, Registered
<1>4. CASE \E r \in Slots, i \in Ids, op \in UsedOperations : Arrive(r, i, op)
  BY <1>4, ArriveEffect DEF Asks
<1>5. CASE \E r \in Slots, i \in Ids : BodySession(r, i)
  BY <1>5, BodyEffect DEF Asks
<1>6. CASE \E r \in Slots : Handle(r)
  BY <1>6
<1>7. CASE \E r \in Slots : Serve(r)
  BY <1>7
<1>8. CASE UNCHANGED vars
  BY <1>0, <1>8 DEF vars, pool, books, Apart, Registered
<1> QED
  BY <1>1, <1>2, <1>3, <1>4, <1>5, <1>6, <1>7, <1>8 DEF Next

-----------------------------------------------------------------------------
(* The inductive invariant.                                                *)

\* Episodes are numbered in the order they begin.
Numbered == \A o \in 1..Len(objects) : objects[o].episode # None => objects[o].episode <= begun

\* An episode that has not been recorded yet has taken no step.
Starting ==
  \A r \in Slots : slots[r].at \in {"count_start", "audit_start"} =>
    /\ objects[slots[r].obj].actor_step = 0
    /\ \A n \in 1..Len(audit) : audit[n].episode # objects[slots[r].obj].episode

\* The trail knows no episode that has not begun.
NoEarlyTrace == \A n \in 1..Len(audit) : audit[n].episode <= begun

IInv == /\ TypeOK /\ Busy /\ Numbered /\ SessionsAreIsolated
        /\ TracesAreComplete /\ Starting /\ NoEarlyTrace

\* With no new objects the threads' type is the same.
LEMMA SameSlots ==
  ASSUME SameObjects, slots' \in [Slots -> Slot]
  PROVE  (slots \in [Slots -> Slot])'
BY DEF SameObjects, Slot

\* The pool's part of the type, when only an engine call touched the objects.
LEMMA SameRegistered ==
  ASSUME TypeOK, SameObjects, UNCHANGED sessions
  PROVE  Registered'
BY DEF SameObjects, Registered, TypeOK

\* Threads that move within their session have still resolved it.
LEMMA StillResolved ==
  ASSUME TypeOK, NEW r \in Slots,
         \/ Leaves(r)
         \/ slots[r].at # "idle" /\ \E place \in Inside : MovesTo(r, place)
  PROVE  /\ slots' \in [Slots -> Slot]
         /\ \A q \in Slots : slots'[q].at # "idle" => slots'[q].obj # None
BY DEF TypeOK, Leaves, MovesTo, Moves

\* The type of the server's state is kept by every step.
LEMMA TypeStep ==
  ASSUME TypeOK, Busy, [Next]_vars
  PROVE  TypeOK'
<1>0. /\ objects \in Seq(SessionState) /\ slots \in [Slots -> Slot]
      /\ \A q \in Slots : slots[q].at # "idle" => slots[q].obj # None
      /\ audit \in Seq(Trace) /\ metrics \in [started : Nat, steps : Nat, completed : Nat]
      /\ attempted \subseteq Links
      /\ begun \in Nat /\ arrived \in Nat /\ now \in Nat /\ Registered
  BY DEF TypeOK, Registered
<1>1. CASE Apart
  BY <1>0, <1>1 DEF Apart, books, Registered, TypeOK, Slot
<1>2. ASSUME NEW r \in Slots, Asks(r)
      PROVE  TypeOK'
  <2>1. \A q \in Slots : slots'[q].obj # None \/ slots'[q].at = "idle"
    <3>1. Len(objects') \in Nat /\ slots'[r].obj # None
      BY <1>2, SlotAssumption DEF Asks, Resolves, New
    <3> QED
      BY <1>0, <1>2, <3>1 DEF Asks
  <2> QED
    BY <1>0, <1>2, <2>1 DEF Asks, Resolves, New, books, Registered, TypeOK
<1>3. ASSUME NEW r \in Slots, Handle(r)
      PROVE  TypeOK'
  <2> DEFINE o == slots[r].obj
  <2>1. /\ slots[r].at = "lock" /\ UNCHANGED <<pool, books>>
        /\ \/ Leaves(r) /\ UNCHANGED <<objects, begun>>
           \/ Leaves(r) /\ Begins(o)
           \/ MovesTo(r, "count_start") /\ Begins(o)
           \/ MovesTo(r, "count_step") /\ Plays(o)
    BY <1>3, HandleEffect
  <2>2. SameObjects /\ begun' \in Nat
    BY <1>0, <2>1, NothingPlayed DEF SameEpisodes, Begins, Plays
  <2>3. /\ slots' \in [Slots -> Slot]
        /\ \A q \in Slots : slots'[q].at # "idle" => slots'[q].obj # None
    BY <2>1, StillResolved DEF Inside
  <2>4. (slots \in [Slots -> Slot])' /\ Registered'
    BY <2>1, <2>2, <2>3, SameSlots, SameRegistered DEF pool
  <2> QED
    BY <1>0, <2>1, <2>2, <2>3, <2>4 DEF pool, books, Registered, SameObjects, TypeOK
<1>4. ASSUME NEW r \in Slots, Serve(r)
      PROVE  TypeOK'
  <2> DEFINE o == slots[r].obj
  <2>1. /\ slots[r].at \in Inside /\ o \in 1..Len(objects) /\ UNCHANGED pool
        /\ metrics' \in [started : Nat, steps : Nat, completed : Nat]
        /\ attempted' \subseteq Links
        /\ Leaves(r) \/ \E place \in Inside : MovesTo(r, place)
        /\ UNCHANGED <<objects, begun>> \/ Plays(o)
        /\ \/ UNCHANGED audit
           \/ audit' = Window(Append(audit, NewTrace(objects[o])))
           \/ audit' = AuditedWith(objects[o])
    BY <1>4, ServeEffect DEF Inside
  <2>2. SameObjects /\ begun' \in Nat
    BY <1>0, <2>1, NothingPlayed DEF SameEpisodes, Plays
  <2>3. /\ slots' \in [Slots -> Slot]
        /\ \A q \in Slots : slots'[q].at # "idle" => slots'[q].obj # None
    BY <2>1, SlotFields, StillResolved
  <2>4. (slots \in [Slots -> Slot])' /\ Registered'
    BY <2>1, <2>2, <2>3, SameSlots, SameRegistered DEF pool
  <2>5. NewTrace(objects[o]) \in Trace
    BY <2>1, ObjectFields DEF Busy, NewTrace, Trace
  <2>6. Append(audit, NewTrace(objects[o])) \in Seq(Trace)
    BY <1>0, <2>5, AppendProperties
  <2>7. audit' \in Seq(Trace)
    BY <1>0, <2>1, <2>6, WindowKeeps, AuditedTyped
  <2> QED
    BY <1>0, <2>1, <2>2, <2>3, <2>4, <2>7 DEF pool, Registered, SameObjects, TypeOK
<1> QED
  BY <1>1, <1>2, <1>3, <1>4, StepKinds

\* A thread in a session that answers or moves on leaves no other thread there.
LEMMA Exclusive ==
  ASSUME TypeOK, SessionsAreIsolated, NEW r \in Slots,
         slots[r].at \in Inside \/ Free(slots[r].obj),
         NEW q \in Slots, q # r, slots[q].at \in Inside
  PROVE  slots[q].obj # slots[r].obj
BY DEF SessionsAreIsolated, Free

\* What the episodes may do in one step: stay, or one session begins the next.
Episodes ==
  /\ Len(objects) <= Len(objects') /\ Len(objects') \in Nat
  /\ \/ /\ begun' = begun
        /\ \A o \in 1..Len(objects) : objects'[o].episode = objects[o].episode
        /\ \A o \in 1..Len(objects') : o \notin 1..Len(objects) => objects'[o].episode = None
     \/ /\ begun' = begun + 1 /\ Len(objects') = Len(objects)
        /\ \E p \in 1..Len(objects) :
             /\ objects'[p].episode = begun + 1
             /\ \A o \in 1..Len(objects) : o # p => objects'[o].episode = objects[o].episode

\* Every step is of this kind.
LEMMA EpisodesStep ==
  ASSUME TypeOK, [Next]_vars
  PROVE  Episodes
<1>0. Len(objects) \in Nat
  BY LenProperties DEF TypeOK
<1>1. CASE Apart
  BY <1>0, <1>1 DEF Apart, Episodes
<1>2. ASSUME NEW r \in Slots, Asks(r)
      PROVE  Episodes
  BY <1>2 DEF Asks, Resolves, New, Episodes
<1>3. ASSUME SameEpisodes
      PROVE  Episodes
  BY <1>0, <1>3 DEF SameEpisodes, SameObjects, Episodes
<1>4. ASSUME NEW o \in 1..Len(objects), Begins(o)
      PROVE  Episodes
  BY <1>0, <1>4 DEF Begins, SameObjects, Episodes
<1>5. ASSUME NEW r \in Slots, Handle(r)
      PROVE  Episodes
  BY <1>3, <1>4, <1>5, HandleEffect, NothingPlayed DEF Plays
<1>6. ASSUME NEW r \in Slots, Serve(r)
      PROVE  Episodes
  BY <1>3, <1>6, ServeEffect, NothingPlayed DEF Plays
<1> QED
  BY <1>1, <1>2, <1>5, <1>6, StepKinds

\* Episodes stay numbered, and every number is played in one session.
LEMMA NumberedStep ==
  ASSUME TypeOK, Numbered, SessionsAreIsolated, Episodes
  PROVE  /\ Numbered'
         /\ (\A o, p \in 1..Len(objects) :
               o # p /\ objects[o].episode # None => objects[o].episode # objects[p].episode)'
<1>0. begun \in Nat /\ Len(objects) \in Nat /\ None \notin Nat
  BY LenProperties, SlotAssumption DEF TypeOK
<1>1. \A o \in 1..Len(objects) : objects[o].episode \in Nat \cup {None}
  BY ObjectFields
<1>2. \A o, p \in 1..Len(objects) :
        o # p /\ objects[o].episode # None => objects[o].episode # objects[p].episode
  BY DEF SessionsAreIsolated
<1>3. CASE /\ begun' = begun
           /\ \A o \in 1..Len(objects) : objects'[o].episode = objects[o].episode
           /\ \A o \in 1..Len(objects') :
                o \notin 1..Len(objects) => objects'[o].episode = None
  BY <1>0, <1>1, <1>2, <1>3 DEF Numbered
<1>4. CASE /\ begun' = begun + 1 /\ Len(objects') = Len(objects)
           /\ \E p \in 1..Len(objects) :
                /\ objects'[p].episode = begun + 1
                /\ \A o \in 1..Len(objects) :
                     o # p => objects'[o].episode = objects[o].episode
  <2>1. PICK p \in 1..Len(objects) :
          /\ objects'[p].episode = begun + 1
          /\ \A o \in 1..Len(objects) : o # p => objects'[o].episode = objects[o].episode
    BY <1>4
  <2>2. \A o \in 1..Len(objects) : o # p => objects'[o].episode # begun + 1
    BY <1>0, <1>1, <2>1 DEF Numbered
  <2>3. Numbered'
    BY <1>0, <1>1, <1>4, <2>1 DEF Numbered
  <2> QED
    BY <1>2, <1>4, <2>1, <2>2, <2>3
<1> QED
  BY <1>3, <1>4 DEF Episodes

\* A thread only enters the lock of a session nobody is in, and a session in use
\* plays an episode.
LEMMA ThreadsStep ==
  ASSUME TypeOK, Busy, SessionsAreIsolated, [Next]_vars
  PROVE  /\ Busy'
         /\ (\A r, q \in Slots :
               r # q /\ slots[r].at \in Inside /\ slots[q].at \in Inside
                 => slots[r].obj # slots[q].obj)'
<1>0. /\ begun \in Nat /\ Len(objects) \in Nat /\ None \notin Nat
      /\ {"count_start", "count_step"} \subseteq Inside
      /\ "idle" \notin Inside /\ "body" \notin Inside /\ "lock" \notin Inside
  BY LenProperties, SlotAssumption DEF TypeOK, Inside
<1>1. \A r, q \in Slots : r # q /\ slots[r].at \in Inside /\ slots[q].at \in Inside
                            => slots[r].obj # slots[q].obj
  BY DEF SessionsAreIsolated
<1>2. \A r \in Slots : slots[r].at \in Inside => slots[r].obj \in 1..Len(objects)
  BY SlotFields
<1>3. CASE Apart
  BY <1>1, <1>3 DEF Apart, Busy
<1>4. ASSUME NEW r \in Slots, Asks(r)
      PROVE  /\ Busy'
             /\ \A p, q \in Slots :
                  p # q /\ slots'[p].at \in Inside /\ slots'[q].at \in Inside
                    => slots'[p].obj # slots'[q].obj
  BY <1>0, <1>1, <1>2, <1>4 DEF Asks, Resolves, New, Busy
<1>5. ASSUME NEW r \in Slots, Moves(r),
             slots[r].at \in Inside \/ Free(slots[r].obj),
             slots'[r].at \in Inside => slots'[r].obj = slots[r].obj
      PROVE  \A p, q \in Slots :
               p # q /\ slots'[p].at \in Inside /\ slots'[q].at \in Inside
                 => slots'[p].obj # slots'[q].obj
  BY <1>1, <1>5, Exclusive DEF Moves
<1>6. ASSUME NEW r \in Slots, Moves(r), SameObjects,
             \A o \in 1..Len(objects) :
               objects[o].episode # None => objects'[o].episode # None,
             slots'[r].at \in Inside =>
               slots'[r].obj = slots[r].obj /\ objects'[slots[r].obj].episode # None
      PROVE  Busy'
  BY <1>2, <1>6 DEF Moves, Busy
<1>7. ASSUME NEW r \in Slots, Handle(r)
      PROVE  /\ Busy'
             /\ \A p, q \in Slots :
                  p # q /\ slots'[p].at \in Inside /\ slots'[q].at \in Inside
                    => slots'[p].obj # slots'[q].obj
  <2> DEFINE o == slots[r].obj
  <2>1. /\ o \in 1..Len(objects) /\ Free(o)
        /\ \/ Leaves(r) /\ UNCHANGED <<objects, begun>>
           \/ Leaves(r) /\ Begins(o)
           \/ MovesTo(r, "count_start") /\ Begins(o)
           \/ MovesTo(r, "count_step") /\ Plays(o) /\ objects[o].episode # None
    BY <1>7, HandleEffect
  <2>2. Moves(r) /\ (slots'[r].at \in Inside => slots'[r].obj = o)
    BY <1>0, <2>1 DEF Leaves, MovesTo
  <2>3. SameObjects
    BY <2>1, NothingPlayed DEF SameEpisodes, Begins, Plays
  <2>4. begun + 1 # None
    BY <1>0
  <2>5. \A p \in 1..Len(objects) : objects[p].episode # None => objects'[p].episode # None
    BY <2>1, <2>4 DEF SameEpisodes, Begins, Plays
  <2>6. slots'[r].at \in Inside => objects'[o].episode # None
    BY <1>0, <2>1, <2>4, <2>5 DEF Leaves, Begins
  <2> QED
    BY <1>5, <1>6, <2>1, <2>2, <2>3, <2>5, <2>6
<1>8. ASSUME NEW r \in Slots, Serve(r)
      PROVE  /\ Busy'
             /\ \A p, q \in Slots :
                  p # q /\ slots'[p].at \in Inside /\ slots'[q].at \in Inside
                    => slots'[p].obj # slots'[q].obj
  <2> DEFINE o == slots[r].obj
  <2>1. /\ slots[r].at \in Inside /\ o \in 1..Len(objects)
        /\ Leaves(r) \/ \E place \in Inside : MovesTo(r, place)
        /\ UNCHANGED <<objects, begun>> \/ Plays(o)
    BY <1>8, ServeEffect DEF Inside
  <2>2. Moves(r) /\ (slots'[r].at \in Inside => slots'[r].obj = o)
    BY <1>0, <2>1 DEF Leaves, MovesTo
  <2>3. SameEpisodes
    BY <2>1, NothingPlayed DEF Plays
  <2>4. \A p \in 1..Len(objects) : objects[p].episode # None => objects'[p].episode # None
    BY <2>3 DEF SameEpisodes
  <2>5. objects'[o].episode # None
    BY <2>1, <2>4 DEF Busy
  <2> QED
    BY <1>5, <1>6, <2>1, <2>2, <2>3, <2>4, <2>5 DEF SameEpisodes
<1> QED
  BY <1>3, <1>4, <1>7, <1>8, StepKinds

-----------------------------------------------------------------------------
(* The audit trail.                                                        *)

InFlightPlaces == {"count_step", "audit_step"}

\* The calls of an episode are numbered without a gap.
Counted(es) == es = [k \in 1..Len(es) |-> k - 1]

\* The calls of a session's episode that its trace has heard of.
Told(o) == IF InFlight(o) THEN objects[o].actor_step ELSE objects[o].actor_step + 1

\* A trace tells the story of the session that plays its episode.
Fits(t, sess, told) == /\ t.session = sess.id /\ Len(t.events) = told
                       /\ t.finished => sess.over

Sound(traces) ==
  \A n \in 1..Len(traces) :
    /\ Counted(traces[n].events)
    /\ \A m \in 1..Len(traces) : traces[m].episode = traces[n].episode => m = n
    /\ \A o \in 1..Len(objects) :
         objects[o].episode = traces[n].episode => Fits(traces[n], objects[o], Told(o))

\* Complete traces, put part by part.
LEMMA CompleteIsSound == TracesAreComplete <=> Sound(audit)
BY DEF TracesAreComplete, Sound, Counted, Fits, Told

\* The same after a step.
LEMMA SoundIsComplete ==
  ASSUME \A n \in 1..Len(audit') :
           /\ Counted(audit'[n].events)
           /\ \A m \in 1..Len(audit') : audit'[m].episode = audit'[n].episode => m = n
           /\ \A o \in 1..Len(objects') :
                objects'[o].episode = audit'[n].episode =>
                  Fits(audit'[n], objects'[o], Told(o)')
  PROVE  TracesAreComplete'
BY DEF TracesAreComplete, Counted, Fits, Told

\* A recorded episode has a number, and the trail's entries are traces.
LEMMA TraceFields ==
  ASSUME TypeOK, NEW n \in 1..Len(audit)
  PROVE  /\ audit[n] \in Trace /\ audit[n].episode \in Nat
         /\ audit[n].events \in Seq(Nat)
<1>1. audit[n] \in Trace
  BY ElementOfSeq DEF TypeOK
<1> QED
  BY <1>1 DEF Trace

\* One more call, with the next number.
LEMMA CountedAppend ==
  ASSUME NEW es \in Seq(Nat), Counted(es), NEW m \in Nat, m = Len(es)
  PROVE  Counted(Append(es, m)) /\ Len(Append(es, m)) = m + 1
<1> DEFINE fs == Append(es, m)
<1>1. /\ fs \in Seq(Nat) /\ Len(fs) = m + 1
      /\ \A k \in 1..m : fs[k] = es[k]
      /\ fs[m + 1] = m
  BY AppendProperties
<1> HIDE DEF fs
<1>2. \A k \in 1..m : es[k] = k - 1
  BY DEF Counted
<1>3. \A k \in 1..Len(fs) : fs[k] = k - 1
  BY <1>1, <1>2
<1>4. DOMAIN fs = 1..Len(fs) /\ fs = [k \in 1..Len(fs) |-> fs[k]]
  BY <1>1, LenProperties
<1>5. Counted(fs)
  BY <1>3, <1>4 DEF Counted
<1> QED
  BY <1>1, <1>5 DEF fs

\* The reset alone.
LEMMA CountedReset == Counted(<<0>>) /\ Len(<<0>>) = 1
<1>1. <<0>> = [k \in 1..1 |-> k - 1]
  OBVIOUS
<1> QED
  BY <1>1 DEF Counted

\* Which steps are on their way to the trail after one thread has moved.
LEMMA FlightAfter ==
  ASSUME TypeOK, SessionsAreIsolated, NEW r \in Slots, Moves(r),
         slots[r].at \in Inside \/ Free(slots[r].obj),
         NEW o \in 1..Len(objects), o = slots[r].obj,
         slots'[r].at = "idle" \/ slots'[r].obj = o
  PROVE  /\ InFlight(o) <=> slots[r].at \in InFlightPlaces
         /\ InFlight(o)' <=> slots'[r].at \in InFlightPlaces
         /\ \A p : p # o => (InFlight(p)' <=> InFlight(p))
<1>1. InFlightPlaces \subseteq Inside /\ "idle" \notin InFlightPlaces
  BY DEF InFlightPlaces, Inside
<1>2. \A q \in Slots : q # r /\ slots[q].at \in InFlightPlaces => slots[q].obj # o
  BY <1>1, Exclusive
<1>3. \A q \in Slots : q # r => slots'[q] = slots[q]
  BY DEF Moves
<1>4. \A p : InFlight(p) <=> \E q \in Slots : slots[q].at \in InFlightPlaces /\ slots[q].obj = p
  BY DEF InFlight, InFlightPlaces
<1>5. \A p : InFlight(p)' <=>
        \E q \in Slots : slots'[q].at \in InFlightPlaces /\ slots'[q].obj = p
  BY DEF InFlight, InFlightPlaces
<1>6. InFlight(o) <=> slots[r].at \in InFlightPlaces
  BY <1>2, <1>4
<1>7. InFlight(o)' <=> slots'[r].at \in InFlightPlaces
  BY <1>1, <1>2, <1>3, <1>5
<1>8. \A p : p # o => (InFlight(p)' <=> InFlight(p))
  BY <1>1, <1>3, <1>4, <1>5
<1> QED
  BY <1>6, <1>7, <1>8

\* What the trail has heard of after one thread has moved.
LEMMA ToldAfter ==
  ASSUME TypeOK, SessionsAreIsolated, NEW r \in Slots, Moves(r),
         slots[r].at \in Inside \/ Free(slots[r].obj),
         NEW o \in 1..Len(objects), o = slots[r].obj,
         slots'[r].at = "idle" \/ slots'[r].obj = o
  PROVE  /\ Told(o) = IF slots[r].at \in InFlightPlaces THEN objects[o].actor_step
                      ELSE objects[o].actor_step + 1
         /\ Told(o)' = IF slots'[r].at \in InFlightPlaces THEN objects'[o].actor_step
                       ELSE objects'[o].actor_step + 1
         /\ \A p \in 1..Len(objects) :
              p # o /\ objects'[p] = objects[p] => Told(p)' = Told(p)
BY FlightAfter DEF Told

\* A step that leaves the trail alone keeps it complete, if every session plays
\* on what the trail has heard of, or plays an episode it has not heard of.
LEMMA TrailUnmoved ==
  ASSUME TypeOK, TracesAreComplete, NoEarlyTrace, UNCHANGED audit,
         \A p \in 1..Len(objects') :
           \/ /\ p \in 1..Len(objects)
              /\ objects'[p].id = objects[p].id /\ objects'[p].episode = objects[p].episode
              /\ objects[p].over => objects'[p].over
              /\ Told(p)' = Told(p)
           \/ objects'[p].episode \in {None, begun + 1}
  PROVE  TracesAreComplete'
<1>0. begun \in Nat /\ None \notin Nat
  BY SlotAssumption DEF TypeOK
<1>1. Sound(audit)
  BY CompleteIsSound
<1>2. \A n \in 1..Len(audit) : audit[n].episode \in Nat /\ audit[n].episode <= begun
  BY TraceFields DEF NoEarlyTrace
<1>3. ASSUME NEW n \in 1..Len(audit), NEW p \in 1..Len(objects'),
             objects'[p].episode = audit[n].episode
      PROVE  Fits(audit[n], objects'[p], Told(p)')
  <2>1. /\ p \in 1..Len(objects)
        /\ objects'[p].id = objects[p].id /\ objects'[p].episode = objects[p].episode
        /\ objects[p].over => objects'[p].over
        /\ Told(p)' = Told(p)
    BY <1>0, <1>2, <1>3
  <2>2. Fits(audit[n], objects[p], Told(p))
    BY <1>1, <1>3, <2>1 DEF Sound
  <2> QED
    BY <2>1, <2>2, Zenon DEF Fits
<1> QED
  BY <1>1, <1>3, SoundIsComplete DEF Sound

\* The reset of a new episode is the first entry of its trace.
LEMMA TrailBegins ==
  ASSUME TypeOK, TracesAreComplete, SessionsAreIsolated, UNCHANGED objects,
         NEW o \in 1..Len(objects), objects[o].episode # None, Told(o) = 1,
         \A n \in 1..Len(audit) : audit[n].episode # objects[o].episode,
         \A p \in 1..Len(objects) : Told(p)' = Told(p),
         audit' = Window(Append(audit, NewTrace(objects[o])))
  PROVE  TracesAreComplete'
<1> DEFINE new == NewTrace(objects[o])
           full == Append(audit, new)
<1>1. /\ new \in Trace /\ new.episode = objects[o].episode /\ new.session = objects[o].id
      /\ new.events = <<0>> /\ new.finished = FALSE
  BY ObjectFields DEF NewTrace, Trace
<1>2. audit \in Seq(Trace) /\ Len(audit) \in Nat
  BY LenProperties DEF TypeOK
<1> HIDE DEF new
<1>3. /\ full \in Seq(Trace) /\ Len(full) = Len(audit) + 1
      /\ \A n \in 1..Len(audit) : full[n] = audit[n]
      /\ full[Len(audit) + 1] = new
  BY <1>1, <1>2, AppendProperties
<1> HIDE DEF full
<1>4. Sound(audit)
  BY CompleteIsSound
<1>5. Counted(new.events) /\ Fits(new, objects[o], Told(o))
  BY <1>1, CountedReset DEF Fits
<1>6. \A p \in 1..Len(objects) : objects[p].episode = new.episode => p = o
  BY <1>1 DEF SessionsAreIsolated
<1>7. \A n \in 1..Len(audit) : audit[n].episode # new.episode
  BY <1>1
<1>8. \A n \in 1..Len(full) :
        \/ n \in 1..Len(audit) /\ full[n] = audit[n]
        \/ n = Len(audit) + 1 /\ full[n] = new
  BY <1>2, <1>3
<1>9. \A n \in 1..Len(full) : Counted(full[n].events)
  BY <1>4, <1>5, <1>8 DEF Sound
<1>10. \A n, m \in 1..Len(full) : full[m].episode = full[n].episode => m = n
  BY <1>4, <1>7, <1>8 DEF Sound
<1>11. \A n \in 1..Len(full), p \in 1..Len(objects) :
         objects[p].episode = full[n].episode => Fits(full[n], objects[p], Told(p))
  BY <1>4, <1>5, <1>6, <1>8 DEF Sound
<1>12. PICK d \in Nat : \A n \in 1..Len(audit') :
         n + d \in 1..Len(full) /\ audit'[n] = full[n + d]
  BY <1>3, WindowKeeps DEF full, new
<1>13. \A n \in 1..Len(audit') : Counted(audit'[n].events)
  BY <1>9, <1>12
<1>14. \A n, m \in 1..Len(audit') : audit'[m].episode = audit'[n].episode => m = n
  <2> SUFFICES ASSUME NEW n \in 1..Len(audit'), NEW m \in 1..Len(audit'),
                      audit'[m].episode = audit'[n].episode
               PROVE  m = n
    OBVIOUS
  <2>1. n + d = m + d
    BY <1>10, <1>12
  <2> QED
    BY <2>1
<1>15. \A n \in 1..Len(audit'), p \in 1..Len(objects') :
         objects'[p].episode = audit'[n].episode => Fits(audit'[n], objects'[p], Told(p)')
  BY <1>11, <1>12
<1> QED
  BY <1>13, <1>14, <1>15, SoundIsComplete

\* A step is written into the trace of its episode, after what is there.
LEMMA TrailContinues ==
  ASSUME TypeOK, TracesAreComplete, SessionsAreIsolated, UNCHANGED objects,
         NEW o \in 1..Len(objects), objects[o].episode # None,
         Told(o) = objects[o].actor_step, Told(o)' = objects[o].actor_step + 1,
         \A p \in 1..Len(objects) : p # o => Told(p)' = Told(p),
         audit' = AuditedWith(objects[o])
  PROVE  TracesAreComplete'
<1>1. Sound(audit)
  BY CompleteIsSound
<1>2. Len(audit') = Len(audit)
  BY AuditedTyped
<1>3. \A n \in 1..Len(audit) :
        audit'[n] = IF audit[n].episode = objects[o].episode
                      THEN Recorded(audit[n], objects[o]) ELSE audit[n]
  BY DEF AuditedWith
<1>4. objects[o] \in SessionState /\ objects[o].actor_step \in Nat
  BY ObjectFields
<1>5. \A n \in 1..Len(audit) : audit'[n].episode = audit[n].episode
  BY <1>3, <1>4, TraceFields, RecordedTyped
<1>6. ASSUME NEW n \in 1..Len(audit)
      PROVE  /\ Counted(audit'[n].events)
             /\ \A p \in 1..Len(objects) :
                  objects[p].episode = audit[n].episode =>
                    Fits(audit'[n], objects[p], Told(p)')
  <2>1. CASE audit[n].episode # objects[o].episode
    BY <1>1, <1>3, <2>1 DEF Sound
  <2>2. CASE audit[n].episode = objects[o].episode
    <3>1. /\ Counted(audit[n].events) /\ audit[n].events \in Seq(Nat)
          /\ Fits(audit[n], objects[o], Told(o))
      BY <1>1, <2>2, TraceFields DEF Sound
    <3>2. /\ audit'[n].events = Append(audit[n].events, objects[o].actor_step)
          /\ audit'[n].session = audit[n].session
          /\ audit'[n].finished => objects[o].over \/ audit[n].finished
      <4>1. audit'[n] = Recorded(audit[n], objects[o]) /\ audit[n] \in Trace
        BY <1>3, <2>2, TraceFields
      <4> DEFINE t == Recorded(audit[n], objects[o])
      <4>2. /\ t.events = Append(audit[n].events, objects[o].actor_step)
            /\ t.session = audit[n].session
            /\ t.finished => objects[o].over \/ audit[n].finished
        BY <1>4, <4>1, RecordedTyped
      <4> HIDE DEF t
      <4>3. audit'[n] = t
        BY <4>1 DEF t
      <4> QED
        BY <4>2, <4>3, Zenon
    <3>3. Len(audit[n].events) = objects[o].actor_step
      BY <3>1 DEF Fits
    <3>4. /\ Counted(audit'[n].events)
          /\ Len(audit'[n].events) = objects[o].actor_step + 1
      BY <1>4, <3>1, <3>2, <3>3, CountedAppend
    <3>5. audit[n].session = objects[o].id /\ (audit[n].finished => objects[o].over)
      BY <3>1, Zenon DEF Fits
    <3>6. Fits(audit'[n], objects[o], Told(o)')
      BY <3>2, <3>4, <3>5, Zenon DEF Fits
    <3>7. \A p \in 1..Len(objects) : objects[p].episode = audit[n].episode => p = o
      BY <2>2 DEF SessionsAreIsolated
    <3> QED
      BY <3>4, <3>6, <3>7
  <2> QED
    BY <2>1, <2>2
<1>7. \A n, m \in 1..Len(audit) : audit'[m].episode = audit'[n].episode => m = n
  BY <1>1, <1>5 DEF Sound
<1> QED
  BY <1>2, <1>5, <1>6, <1>7, SoundIsComplete

\* The episodes on the trail are old ones and at most that of the session whose
\* reset is being recorded.
LEMMA TrailEpisodes ==
  ASSUME TypeOK, Busy, NEW r \in Slots, Serve(r)
  PROVE  \A n \in 1..Len(audit') :
           \/ \E m \in 1..Len(audit) : audit'[n].episode = audit[m].episode
           \/ /\ slots[r].at = "audit_start"
              /\ audit'[n].episode = objects[slots[r].obj].episode
<1>0. audit \in Seq(Trace) /\ Len(audit) \in Nat
  BY LenProperties DEF TypeOK
<1> DEFINE o == slots[r].obj
<1>1. o \in 1..Len(objects) /\ objects[o].episode # None
  BY ServeEffect DEF Busy
<1>2. CASE UNCHANGED audit
  BY <1>2
<1>3. CASE audit' = AuditedWith(objects[o])
  <2>1. Len(audit') = Len(audit)
    BY <1>1, <1>3, AuditedTyped
  <2>2. \A n \in 1..Len(audit) :
          audit'[n] = IF audit[n].episode = objects[o].episode
                        THEN Recorded(audit[n], objects[o]) ELSE audit[n]
    BY <1>3 DEF AuditedWith
  <2>3. objects[o] \in SessionState
    BY <1>1, ObjectFields
  <2>4. \A n \in 1..Len(audit) : audit'[n].episode = audit[n].episode
    BY <2>2, <2>3, TraceFields, RecordedTyped
  <2> QED
    BY <2>1, <2>4
<1>4. CASE slots[r].at = "audit_start" /\ audit' = Window(Append(audit, NewTrace(objects[o])))
  <2> DEFINE new == NewTrace(objects[o])
             full == Append(audit, new)
  <2>1. new \in Trace /\ new.episode = objects[o].episode
    BY <1>1, ObjectFields DEF NewTrace, Trace
  <2> HIDE DEF new
  <2>2. /\ full \in Seq(Trace) /\ Len(full) = Len(audit) + 1
        /\ \A n \in 1..Len(audit) : full[n] = audit[n]
        /\ full[Len(audit) + 1] = new
    BY <1>0, <2>1, AppendProperties
  <2> HIDE DEF full
  <2>3. PICK d \in Nat : \A n \in 1..Len(audit') :
          n + d \in 1..Len(full) /\ audit'[n] = full[n + d]
    BY <1>4, <2>2, WindowKeeps DEF full, new
  <2>4. \A n \in 1..Len(full) : n \in 1..Len(audit) \/ n = Len(audit) + 1
    BY <1>0, <2>2
  <2> QED
    BY <1>4, <2>1, <2>2, <2>3, <2>4
<1> QED
  BY <1>2, <1>3, <1>4, ServeEffect

\* No step puts an episode on the trail that has not begun.
LEMMA NoEarlyTraceStep ==
  ASSUME TypeOK, Busy, Numbered, NoEarlyTrace, [Next]_vars
  PROVE  NoEarlyTrace'
<1>1. begun \in Nat /\ begun' \in Nat /\ begun <= begun'
  BY EpisodesStep DEF TypeOK, Episodes
<1>2. \A n \in 1..Len(audit) : audit[n].episode \in Nat /\ audit[n].episode <= begun
  BY TraceFields DEF NoEarlyTrace
<1>3. CASE UNCHANGED audit
  BY <1>1, <1>2, <1>3 DEF NoEarlyTrace
<1>4. ASSUME NEW r \in Slots, Serve(r)
      PROVE  NoEarlyTrace'
  <2>1. /\ objects[slots[r].obj].episode \in Nat
        /\ objects[slots[r].obj].episode <= begun
    BY <1>4, ServeEffect, ObjectFields DEF Busy, Numbered
  <2>2. \A n \in 1..Len(audit') : audit'[n].episode \in Nat /\ audit'[n].episode <= begun
    BY <1>2, <1>4, <2>1, TrailEpisodes
  <2> QED
    BY <1>1, <2>2 DEF NoEarlyTrace
<1> QED
  BY <1>3, <1>4, StepKinds, HandleEffect DEF Apart, Asks, books

\* An episode waits for its trace without a step, and nobody else writes one.
LEMMA StartingStep ==
  ASSUME TypeOK, Busy, SessionsAreIsolated, Starting, NoEarlyTrace, [Next]_vars
  PROVE  Starting'
<1> DEFINE start == {"count_start", "audit_start"}
           Waits(q) == /\ objects'[slots'[q].obj].actor_step = 0
                       /\ \A n \in 1..Len(audit') :
                            audit'[n].episode # objects'[slots'[q].obj].episode
<1>0. /\ begun \in Nat /\ start \subseteq Inside
      /\ {"count_step", "agent_reset", "loop", "complete", "audit_step",
          "idle", "body", "lock"} \cap start = {}
  BY DEF TypeOK, Inside
<1>1. \A q \in Slots : slots[q].at \in start =>
        /\ slots[q].obj \in 1..Len(objects)
        /\ objects[slots[q].obj].actor_step = 0
        /\ \A n \in 1..Len(audit) : audit[n].episode # objects[slots[q].obj].episode
  BY <1>0, SlotFields DEF Starting
<1>2. SUFFICES \A q \in Slots : slots'[q].at \in start => Waits(q)
  BY DEF Starting
<1>3. CASE Apart
  BY <1>1, <1>3 DEF Apart, books
<1>4. ASSUME NEW r \in Slots, Asks(r), NEW q \in Slots, slots'[q].at \in start
      PROVE  Waits(q)
  <2>1. q # r /\ slots'[q] = slots[q]
    BY <1>0, <1>4 DEF Asks
  <2> QED
    BY SMTT(30), <1>1, <1>4, <2>1 DEF Asks, Resolves, New, books
<1>5. ASSUME NEW r \in Slots, Handle(r), NEW q \in Slots, slots'[q].at \in start
      PROVE  Waits(q)
  <2> DEFINE o == slots[r].obj
  <2>1. /\ slots[r].at = "lock" /\ o \in 1..Len(objects) /\ Free(o) /\ audit' = audit
        /\ \/ Leaves(r) /\ UNCHANGED <<objects, begun>>
           \/ Leaves(r) /\ Begins(o)
           \/ MovesTo(r, "count_start") /\ Begins(o)
           \/ MovesTo(r, "count_step") /\ Plays(o)
    BY <1>5, HandleEffect DEF books
  <2>2. CASE q # r
    <3>1. slots'[q] = slots[q]
      BY <2>1, <2>2 DEF Leaves, MovesTo, Moves
    <3>2. slots[q].obj # o
      BY <1>0, <1>5, <2>1, <2>2, <3>1, Exclusive
    <3>3. objects'[slots[q].obj] = objects[slots[q].obj]
      BY <1>1, <1>5, <2>1, <3>1, <3>2 DEF Begins, Plays
    <3> QED
      BY <1>1, <1>5, <2>1, <3>1, <3>3
  <2>3. CASE q = r
    <3>1. MovesTo(r, "count_start") /\ Begins(o)
      BY <1>0, <1>5, <2>1, <2>3 DEF Leaves, MovesTo
    <3>2. /\ slots'[r].obj = o /\ objects'[o].actor_step = 0
          /\ objects'[o].episode = begun + 1
      BY <3>1 DEF MovesTo, Begins
    <3>3. \A n \in 1..Len(audit) : audit[n].episode \in Nat /\ audit[n].episode <= begun
      BY TraceFields DEF NoEarlyTrace
    <3> QED
      BY <1>0, <2>1, <2>3, <3>2, <3>3
  <2> QED
    BY <2>2, <2>3
<1>6. ASSUME NEW r \in Slots, Serve(r), NEW q \in Slots, slots'[q].at \in start
      PROVE  Waits(q)
  <2> DEFINE o == slots[r].obj
  <2>1. slots[r].at \in Inside /\ o \in 1..Len(objects) /\ objects[o].episode # None
    BY <1>6, ServeEffect DEF Busy
  <2>2. CASE q # r
    <3>1. slots'[q] = slots[q]
      BY <1>6, <2>2, ServeEffect DEF Leaves, MovesTo, Moves
    <3>2. slots[q].obj # o /\ slots[q].obj \in 1..Len(objects)
      BY <1>0, <1>1, <1>6, <2>1, <2>2, <3>1, Exclusive
    <3>3. objects'[slots[q].obj] = objects[slots[q].obj]
      BY <1>6, <3>2, ServeEffect DEF Plays
    <3>4. objects[o].episode # objects[slots[q].obj].episode
      BY <2>1, <3>2 DEF SessionsAreIsolated
    <3>5. \A n \in 1..Len(audit') : audit'[n].episode # objects[slots[q].obj].episode
      BY <1>1, <1>6, <3>1, <3>4, TrailEpisodes
    <3> QED
      BY <1>1, <1>6, <3>1, <3>3, <3>5
  <2>3. CASE q = r
    <3>1. /\ slots[r].at = "count_start" /\ MovesTo(r, "audit_start")
          /\ UNCHANGED <<objects, audit>>
      BY <1>0, <1>6, <2>3, ServeEffect DEF Leaves, MovesTo
    <3> QED
      BY <1>1, <2>3, <3>1 DEF MovesTo
  <2> QED
    BY <2>2, <2>3
<1> QED
  BY <1>3, <1>4, <1>5, <1>6, StepKinds

\* The trail has heard the same of the sessions when no step is sent or written.
LEMMA ToldApart ==
  ASSUME NEW p,
         objects'[p].actor_step = objects[p].actor_step,
         \A q \in Slots : \/ slots'[q] = slots[q]
                          \/ /\ slots[q].at \notin InFlightPlaces
                             /\ slots'[q].at \notin InFlightPlaces
  PROVE  Told(p)' = Told(p)
<1>1. InFlight(p) <=> \E q \in Slots : slots[q].at \in InFlightPlaces /\ slots[q].obj = p
  BY DEF InFlight, InFlightPlaces
<1>2. InFlight(p)' <=> \E q \in Slots : slots'[q].at \in InFlightPlaces /\ slots'[q].obj = p
  BY DEF InFlight, InFlightPlaces
<1>3. InFlight(p)' <=> InFlight(p)
  BY <1>1, <1>2
<1> QED
  BY <1>3 DEF Told

\* A handler that gets the lock of its session leaves the traces complete.
LEMMA HandleTraces ==
  ASSUME TypeOK, SessionsAreIsolated, TracesAreComplete, NoEarlyTrace,
         NEW r \in Slots, Handle(r)
  PROVE  TracesAreComplete'
<1>1. PICK o : o = slots[r].obj
  OBVIOUS
<1>2. /\ slots[r].at = "lock" /\ o \in 1..Len(objects) /\ Free(o) /\ audit' = audit
      /\ \/ Leaves(r) /\ UNCHANGED <<objects, begun>>
         \/ Leaves(r) /\ Begins(o)
         \/ MovesTo(r, "count_start") /\ Begins(o)
         \/ MovesTo(r, "count_step") /\ Plays(o)
  BY <1>1, HandleEffect DEF books
<1>3. Moves(r) /\ (slots'[r].at = "idle" \/ slots'[r].obj = o)
  BY <1>1, <1>2 DEF Leaves, MovesTo
<1>4. /\ Told(o) = objects[o].actor_step + 1
      /\ Told(o)' = IF slots'[r].at \in InFlightPlaces THEN objects'[o].actor_step
                    ELSE objects'[o].actor_step + 1
      /\ \A p \in 1..Len(objects) : p # o /\ objects'[p] = objects[p] => Told(p)' = Told(p)
  BY <1>1, <1>2, <1>3, ToldAfter DEF InFlightPlaces
<1>5. CASE Leaves(r) /\ UNCHANGED <<objects, begun>>
  <2>1. Told(o)' = Told(o)
    BY <1>4, <1>5 DEF Leaves, InFlightPlaces
  <2>2. \A p \in 1..Len(objects) : Told(p)' = Told(p)
    BY <1>4, <1>5, <2>1
  <2> QED
    BY <1>2, <1>5, <2>2, TrailUnmoved
<1>6. CASE Begins(o)
  BY <1>2, <1>4, <1>6, TrailUnmoved DEF Begins, SameObjects
<1>7. CASE MovesTo(r, "count_step") /\ Plays(o)
  <2>1. Told(o)' = Told(o)
    BY <1>4, <1>7 DEF MovesTo, Plays, InFlightPlaces
  <2>2. \A p \in 1..Len(objects) : Told(p)' = Told(p)
    BY <1>4, <1>7, <2>1 DEF Plays
  <2>3. \A p \in 1..Len(objects) :
          /\ objects'[p].id = objects[p].id /\ objects'[p].episode = objects[p].episode
          /\ objects[p].over => objects'[p].over
    BY <1>7 DEF Plays, SameEpisodes, SameObjects
  <2> QED
    BY <1>2, <1>7, <2>2, <2>3, TrailUnmoved DEF Plays, SameEpisodes, SameObjects
<1> QED
  BY <1>2, <1>5, <1>6, <1>7

\* So does whatever a request does while it has the lock.
LEMMA ServeTraces ==
  ASSUME TypeOK, Busy, SessionsAreIsolated, TracesAreComplete, NoEarlyTrace, Starting,
         NEW r \in Slots, Serve(r)
  PROVE  TracesAreComplete'
<1>1. PICK o : o = slots[r].obj
  OBVIOUS
<1>2. slots[r].at \in Inside /\ o \in 1..Len(objects) /\ objects[o].episode # None
  BY <1>1, ServeEffect DEF Busy
<1>3. Moves(r) /\ (slots'[r].at = "idle" \/ slots'[r].obj = o)
  BY <1>1, ServeEffect DEF Leaves, MovesTo
<1>4. /\ Told(o) = IF slots[r].at \in InFlightPlaces THEN objects[o].actor_step
                   ELSE objects[o].actor_step + 1
      /\ Told(o)' = IF slots'[r].at \in InFlightPlaces THEN objects'[o].actor_step
                    ELSE objects'[o].actor_step + 1
      /\ \A p \in 1..Len(objects) : p # o /\ objects'[p] = objects[p] => Told(p)' = Told(p)
  BY <1>1, <1>2, <1>3, ToldAfter
<1>5. CASE /\ UNCHANGED <<objects, begun, audit>>
           /\ \/ slots[r].at = "count_start" /\ MovesTo(r, "audit_start")
              \/ slots[r].at = "count_step" /\ MovesTo(r, "audit_step")
              \/ /\ slots[r].at \in {"agent_reset", "loop", "complete"}
                 /\ Leaves(r) \/ MovesTo(r, "loop")
  <2>1. Told(o)' = Told(o)
    BY <1>4, <1>5 DEF Leaves, MovesTo, InFlightPlaces
  <2>2. \A p \in 1..Len(objects) : Told(p)' = Told(p)
    BY <1>4, <1>5, <2>1
  <2> QED
    BY <1>5, <2>2, TrailUnmoved
<1>6. CASE /\ slots[r].at = "loop" /\ MovesTo(r, "count_step")
           /\ Plays(o) /\ UNCHANGED audit
  <2>1. Told(o)' = Told(o)
    BY <1>4, <1>6 DEF MovesTo, Plays, InFlightPlaces
  <2>2. \A p \in 1..Len(objects) : Told(p)' = Told(p)
    BY <1>4, <1>6, <2>1 DEF Plays
  <2>3. \A p \in 1..Len(objects) :
          /\ objects'[p].id = objects[p].id /\ objects'[p].episode = objects[p].episode
          /\ objects[p].over => objects'[p].over
    BY <1>6 DEF Plays, SameEpisodes, SameObjects
  <2> QED
    BY <1>6, <2>2, <2>3, TrailUnmoved DEF Plays, SameEpisodes, SameObjects
<1>7. CASE /\ slots[r].at = "audit_start" /\ UNCHANGED <<objects, begun>>
           /\ Leaves(r) \/ MovesTo(r, "agent_reset")
           /\ audit' = Window(Append(audit, NewTrace(objects[o])))
  <2>1. /\ objects[o].actor_step = 0
        /\ \A n \in 1..Len(audit) : audit[n].episode # objects[o].episode
    BY <1>1, <1>7 DEF Starting
  <2>2. Told(o) = 1 /\ Told(o)' = Told(o)
    BY <1>4, <1>7, <2>1 DEF Leaves, MovesTo, InFlightPlaces
  <2>3. \A p \in 1..Len(objects) : Told(p)' = Told(p)
    BY <1>4, <1>7, <2>2
  <2> QED
    BY <1>2, <1>7, <2>1, <2>2, <2>3, TrailBegins
<1>8. CASE /\ slots[r].at = "audit_step" /\ UNCHANGED <<objects, begun>>
           /\ Leaves(r) \/ MovesTo(r, "loop") \/ MovesTo(r, "complete")
           /\ audit' = AuditedWith(objects[o])
  <2>1. Told(o) = objects[o].actor_step /\ Told(o)' = objects[o].actor_step + 1
    BY <1>4, <1>8 DEF Leaves, MovesTo, InFlightPlaces
  <2>2. \A p \in 1..Len(objects) : p # o => Told(p)' = Told(p)
    BY <1>4, <1>8
  <2> QED
    BY <1>2, <1>8, <2>1, <2>2, TrailContinues
<1> QED
  BY <1>1, <1>5, <1>6, <1>7, <1>8, ServeEffect

\* And so does every other step.
LEMMA TracesStep ==
  ASSUME TypeOK, Busy, SessionsAreIsolated, TracesAreComplete, NoEarlyTrace, Starting,
         [Next]_vars
  PROVE  TracesAreComplete'
<1>1. CASE Apart
  <2>1. \A p \in 1..Len(objects) : Told(p)' = Told(p)
    BY <1>1, ToldApart DEF Apart
  <2> QED
    BY <1>1, <2>1, TrailUnmoved DEF Apart, books
<1>2. ASSUME NEW r \in Slots, Asks(r)
      PROVE  TracesAreComplete'
  <2>1. \A q \in Slots : \/ slots'[q] = slots[q]
                         \/ /\ slots[q].at \notin InFlightPlaces
                            /\ slots'[q].at \notin InFlightPlaces
    BY <1>2 DEF Asks, InFlightPlaces, Inside
  <2>2. \A p \in 1..Len(objects) : Told(p)' = Told(p)
    BY <1>2, <2>1, ToldApart DEF Asks, Resolves, New
  <2>3. \A p \in 1..Len(objects) : objects[p].over => objects'[p].over
    BY <1>2, Zenon DEF Asks, Resolves, New
  <2> QED
    BY <1>2, <2>2, <2>3, TrailUnmoved DEF Asks, Resolves, New, books
<1> QED
  BY <1>1, <1>2, StepKinds, HandleTraces, ServeTraces

-----------------------------------------------------------------------------
(* The theorems.                                                           *)

\* The server starts in the invariant.
LEMMA IInvInit == Init => IInv
<1> SUFFICES ASSUME Init
             PROVE  IInv
  OBVIOUS
<1>1. /\ Fresh(Default) \in SessionState /\ Fresh(Default).episode = None
      /\ Fresh(Default).id = Default
  BY PoolAssumption DEF Init, Fresh, SessionState
<1>2. /\ objects \in Seq(SessionState) /\ Len(objects) = 1
      /\ objects[1] = Fresh(Default)
  BY <1>1 DEF Init
<1>3. Idle \in Slot /\ Idle.at = "idle" /\ "idle" \notin Inside
  BY DEF Idle, Slot, Inside
<1>4. /\ DOMAIN sessions = {Default} /\ sessions[Default] = 1
  BY DEF Init
<1>5. audit \in Seq(Trace) /\ Len(audit) = 0
  BY DEF Init
<1>6. slots \in [Slots -> Slot] /\ \A r \in Slots : slots[r].at = "idle"
  BY <1>3 DEF Init
<1>7. TypeOK
  BY <1>1, <1>2, <1>4, <1>5, <1>6, PoolAssumption DEF Init, TypeOK
<1>8. Busy /\ Starting
  BY <1>3, <1>6 DEF Busy, Starting
<1>9. Numbered /\ NoEarlyTrace
  BY <1>1, <1>2, <1>5 DEF Numbered, NoEarlyTrace
<1>10. SessionsAreIsolated
  BY <1>2, <1>3, <1>6 DEF SessionsAreIsolated
<1>11. TracesAreComplete
  BY <1>5 DEF TracesAreComplete
<1> QED
  BY <1>7, <1>8, <1>9, <1>10, <1>11 DEF IInv

\* Every step keeps it.
LEMMA IInvStep == IInv /\ [Next]_vars => IInv'
<1> SUFFICES ASSUME IInv, [Next]_vars
             PROVE  IInv'
  OBVIOUS
<1>1. /\ TypeOK /\ Busy /\ Numbered /\ SessionsAreIsolated
      /\ TracesAreComplete /\ Starting /\ NoEarlyTrace
  BY DEF IInv
<1>2. TypeOK'
  BY <1>1, TypeStep
<1>3. SessionsAreIsolated' /\ Numbered' /\ Busy'
  BY <1>1, EpisodesStep, NumberedStep, ThreadsStep DEF SessionsAreIsolated
<1>4. TracesAreComplete' /\ Starting' /\ NoEarlyTrace'
  BY <1>1, TracesStep, StartingStep, NoEarlyTraceStep
<1> QED
  BY <1>2, <1>3, <1>4 DEF IInv

\* So every state of the server is in the invariant.
LEMMA AlwaysIInv == Spec => []IInv
BY IInvInit, IInvStep, PTL DEF Spec

\* The server's state has its type (sessions.py, audit.py, metrics.py, app.py).
THEOREM ServerTyped == Spec => []TypeOK
<1>1. IInv => TypeOK
  BY DEF IInv
<1> QED
  BY <1>1, AlwaysIInv, PTL

\* No two requests are inside one session, and no episode is played in two, for
\* any number of threads and with any evictions between their steps (app.py,
\* get_session and the handlers' use of sess.lock).
THEOREM SessionsIsolated == Spec => []SessionsAreIsolated
<1>1. IInv => SessionsAreIsolated
  BY DEF IInv
<1> QED
  BY <1>1, AlwaysIInv, PTL

\* Every trace in the window tells its episode without a gap (app.py, _do_reset
\* and _do_step; audit.py, start_episode and record_step).
THEOREM TracesComplete == Spec => []TracesAreComplete
<1>1. IInv => TracesAreComplete
  BY DEF IInv
<1> QED
  BY <1>1, AlwaysIInv, PTL

\* Only its own deletion removes the default session (sessions.py,
\* _evict_expired_locked and _evict_lru_locked).
THEOREM DefaultKept == Spec => DefaultStays
<1>1. IInv /\ [Next]_vars =>
        [~Drop(Default) /\ Default \in DOMAIN sessions
           => Default \in DOMAIN sessions' /\ sessions'[Default] = sessions[Default]]_vars
  <2> SUFFICES ASSUME IInv, Next, ~Drop(Default), Default \in DOMAIN sessions
               PROVE  Default \in DOMAIN sessions' /\ sessions'[Default] = sessions[Default]
    OBVIOUS
  <2>1. TypeOK
    BY DEF IInv
  <2>2. ASSUME NEW i \in Ids, Drop(i)
        PROVE  Default \in DOMAIN sessions' /\ sessions'[Default] = sessions[Default]
    <3>1. i # Default
      BY <2>2
    <3> QED
      BY <2>2, <3>1 DEF Drop, Without
  <2>3. CASE ListSummaries
    BY <2>1, <2>3, LiveSessions DEF ListSummaries
  <2>4. CASE Tick
    BY <2>4 DEF Tick
  <2>5. ASSUME NEW r \in Slots, NEW i \in Ids, NEW op \in UsedOperations, Arrive(r, i, op)
        PROVE  Default \in DOMAIN sessions' /\ sessions'[Default] = sessions[Default]
    BY <2>1, <2>5, ResolveEffect DEF Arrive
  <2>6. ASSUME NEW r \in Slots, NEW i \in Ids, BodySession(r, i)
        PROVE  Default \in DOMAIN sessions' /\ sessions'[Default] = sessions[Default]
    BY <2>1, <2>6, ResolveEffect DEF BodySession
  <2>7. ASSUME NEW r \in Slots, Handle(r) \/ Serve(r)
        PROVE  sessions' = sessions
    BY <2>1, <2>7, HandleEffect, ServeEffect DEF pool
  <2> QED
    BY <2>2, <2>3, <2>4, <2>5, <2>6, <2>7 DEF Next
<1> QED
  BY <1>1, AlwaysIInv, PTL DEF Spec, DefaultStays

-----------------------------------------------------------------------------
(* The size of the pool.                                                   *)

Cap == IF MaxSessions < 2 THEN 2 ELSE MaxSessions

\* The pool is finite and within its cap.
PoolFits == IsFiniteSet(DOMAIN sessions) /\ Cardinality(DOMAIN sessions) <= Cap

\* Some time of use is the earliest.
LEMMA EarliestExists ==
  ASSUME NEW T \in SUBSET Nat, T # {}
  PROVE  \E n \in T : \A m \in T : n <= m
<1> DEFINE Less == {pair \in Nat \X Nat : pair[1] < pair[2]}
<1>1. IsWellFoundedOn(Less, Nat)
  BY NatLessThanWellFounded DEF OpToRel
<1> HIDE DEF Less
<1>2. PICK n \in T : \A m \in T : ~ (<<m, n>> \in Less)
  BY <1>1, WFMin, Zenon
<1>3. \A m \in T : ~(m < n)
  BY <1>2 DEF Less
<1> QED
  BY <1>3

\* Unless the default session is alone there is a session to evict.
LEMMA VictimExists ==
  ASSUME TypeOK, Oldest(Live) = {}
  PROVE  DOMAIN Live \subseteq {Default}
<1> SUFFICES ASSUME NEW i \in DOMAIN Live, i # Default
             PROVE  FALSE
  OBVIOUS
<1> DEFINE used(j) == objects[Live[j]].last_used
           T == {used(j) : j \in DOMAIN Live \ {Default}}
<1>1. \A j \in DOMAIN Live : Live[j] \in 1..Len(objects)
  BY LiveSessions DEF TypeOK
<1>2. \A j \in DOMAIN Live : used(j) \in Nat
  BY <1>1, ObjectFields
<1>3. T \in SUBSET Nat /\ T # {}
  BY <1>2
<1>4. PICK t \in T : \A u \in T : t <= u
  BY <1>3, EarliestExists
<1>5. PICK j \in DOMAIN Live \ {Default} : t = used(j)
  BY <1>4
<1>6. j \in Oldest(Live)
  BY <1>4, <1>5 DEF Oldest
<1> QED
  BY <1>6

\* Room is made before a session is added (get_or_create).
LEMMA AddFits ==
  ASSUME TypeOK, PoolFits, NEW s \in RoomIn(Live), NEW i
  PROVE  /\ IsFiniteSet(DOMAIN s \cup {i})
         /\ Cardinality(DOMAIN s \cup {i}) <= Cap
<1> DEFINE L == DOMAIN Live
<1>0. MaxSessions \in Int /\ Cap \in Int /\ 2 <= Cap /\ MaxSessions <= Cap
  BY PoolAssumption DEF Cap
<1>1. /\ IsFiniteSet(L) /\ Cardinality(L) <= Cardinality(DOMAIN sessions)
      /\ Cardinality(L) \in Nat /\ Cardinality(DOMAIN sessions) \in Nat
  BY LiveSessions, FS_Subset, FS_CardinalityType DEF PoolFits
<1>2. Cardinality(L) <= Cap
  BY <1>0, <1>1 DEF PoolFits
<1>3. \A S : IsFiniteSet(S) =>
        /\ IsFiniteSet(S \cup {i}) /\ Cardinality(S) \in Nat
        /\ Cardinality(S \cup {i}) \in Nat
        /\ Cardinality(S \cup {i}) <= Cardinality(S) + 1
  <2> SUFFICES ASSUME NEW S, IsFiniteSet(S)
               PROVE  /\ IsFiniteSet(S \cup {i}) /\ Cardinality(S) \in Nat
                      /\ Cardinality(S \cup {i}) \in Nat
                      /\ Cardinality(S \cup {i}) <= Cardinality(S) + 1
    OBVIOUS
  <2>1. Cardinality(S) \in Nat
    BY FS_CardinalityType
  <2>2. /\ IsFiniteSet(S \cup {i})
        /\ Cardinality(S \cup {i}) = IF i \in S THEN Cardinality(S) ELSE Cardinality(S) + 1
    BY FS_AddElement
  <2> QED
    BY <2>1, <2>2
<1>4. CASE Cardinality(L) < MaxSessions
  <2>1. s = Live
    BY <1>4 DEF RoomIn
  <2> QED
    BY <1>0, <1>1, <1>3, <1>4, <2>1
<1>5. CASE Oldest(Live) = {}
  <2>1. s = Live
    BY <1>5 DEF RoomIn
  <2>2. IsFiniteSet({Default}) /\ Cardinality({Default}) = 1
    BY FS_Singleton
  <2>3. Cardinality(L) <= 1
    BY <1>5, <2>2, VictimExists, FS_Subset
  <2> QED
    BY <1>0, <1>1, <1>3, <2>1, <2>3
<1>6. CASE ~(Cardinality(L) < MaxSessions) /\ Oldest(Live) # {}
  <2>1. PICK v \in Oldest(Live) : s = Without(Live, {v})
    BY <1>6 DEF RoomIn
  <2>2. v \in L /\ DOMAIN s = L \ {v}
    BY <2>1 DEF Oldest, Without
  <2>3. IsFiniteSet(L \ {v}) /\ Cardinality(L \ {v}) = Cardinality(L) - 1
    BY <1>1, <2>2, FS_RemoveElement
  <2> QED
    BY <1>0, <1>1, <1>2, <1>3, <2>2, <2>3
<1> QED
  BY <1>4, <1>5, <1>6

\* get_or_create keeps the pool within its cap.
LEMMA ResolveFits ==
  ASSUME TypeOK, PoolFits, NEW i, NEW o, GetOrCreate(i, o)
  PROVE  PoolFits'
<1>1. CASE sessions' = Live
  <2>1. DOMAIN sessions' \subseteq DOMAIN sessions
    BY <1>1, LiveSessions
  <2>2. IsFiniteSet(DOMAIN sessions')
        /\ Cardinality(DOMAIN sessions') <= Cardinality(DOMAIN sessions)
        /\ Cardinality(DOMAIN sessions) \in Nat /\ Cardinality(DOMAIN sessions') \in Nat
    BY <2>1, FS_Subset, FS_CardinalityType DEF PoolFits
  <2> QED
    BY <2>2, PoolAssumption DEF PoolFits, Cap
<1>2. ASSUME NEW s \in RoomIn(Live),
             sessions' = [j \in DOMAIN s \cup {i} |-> IF j = i THEN o ELSE s[j]]
      PROVE  PoolFits'
  <2>1. DOMAIN sessions' = DOMAIN s \cup {i}
    BY <1>2
  <2> QED
    BY <2>1, AddFits DEF PoolFits, Cap
<1> QED
  BY <1>1, <1>2 DEF GetOrCreate

\* The pool never outgrows its cap, whatever MAX_SESSIONS is (sessions.py,
\* get_or_create).
THEOREM PoolCapped == Spec => []PoolWithinCap
<1>1. Init => PoolFits
  <2> SUFFICES ASSUME Init
               PROVE  PoolFits
    OBVIOUS
  <2>1. DOMAIN sessions = {Default}
    BY DEF Init
  <2>2. IsFiniteSet({Default}) /\ Cardinality({Default}) = 1
    BY FS_Singleton
  <2> QED
    BY <2>1, <2>2, PoolAssumption DEF PoolFits, Cap
<1>2. TypeOK /\ PoolFits /\ [Next]_vars => PoolFits'
  <2> SUFFICES ASSUME TypeOK, PoolFits, [Next]_vars
               PROVE  PoolFits'
    OBVIOUS
  <2>1. ASSUME DOMAIN sessions' \subseteq DOMAIN sessions
        PROVE  PoolFits'
    <3>1. IsFiniteSet(DOMAIN sessions')
          /\ Cardinality(DOMAIN sessions') <= Cardinality(DOMAIN sessions)
          /\ Cardinality(DOMAIN sessions) \in Nat /\ Cardinality(DOMAIN sessions') \in Nat
      BY <2>1, FS_Subset, FS_CardinalityType DEF PoolFits
    <3> QED
      BY <3>1, PoolAssumption DEF PoolFits, Cap
  <2>2. ASSUME NEW i \in Ids, Drop(i)
        PROVE  PoolFits'
    BY <2>1, <2>2 DEF Drop, Without
  <2>3. CASE ListSummaries
    BY <2>1, <2>3, LiveSessions DEF ListSummaries
  <2>4. CASE Tick
    BY <2>1, <2>4 DEF Tick
  <2>5. ASSUME NEW r \in Slots, NEW i \in Ids, NEW op \in UsedOperations, Arrive(r, i, op)
        PROVE  PoolFits'
    BY <2>5, ResolveFits DEF Arrive
  <2>6. ASSUME NEW r \in Slots, NEW i \in Ids, BodySession(r, i)
        PROVE  PoolFits'
    BY <2>6, ResolveFits DEF BodySession
  <2>7. ASSUME NEW r \in Slots, Handle(r) \/ Serve(r)
        PROVE  PoolFits'
    BY <2>1, <2>7, HandleEffect, ServeEffect DEF pool
  <2>8. CASE UNCHANGED vars
    BY <2>1, <2>8 DEF vars, pool
  <2> QED
    BY <2>2, <2>3, <2>4, <2>5, <2>6, <2>7, <2>8 DEF Next
<1>3. PoolFits => PoolWithinCap
  BY DEF PoolFits, PoolWithinCap, Cap
<1> QED
  BY <1>1, <1>2, <1>3, ServerTyped, PTL DEF Spec

-----------------------------------------------------------------------------
(* The server implements AuditedSessions.  The mapping shows a step that    *)
(* is on its way to the trail as already told, so that an engine call is    *)
(* where the abstract session plays, and writing the trail is a stutter;    *)
(* the recording of a reset is a step of its own.                           *)

PlayRecord == [id : Ids, episode : Nat \cup {None}, over : BOOLEAN, steps : Nat]

PlayOf(sess) == [id |-> sess.id, episode |-> sess.episode,
                 over |-> sess.over, steps |-> sess.actor_step]

\* What a trace shows is settled by the one session that plays its episode.
Late(o, n) == InFlight(o) /\ objects[o].episode = audit[n].episode

HeardRight ==
  \A n \in 1..Len(audit) :
    /\ \A o \in 1..Len(objects) : Late(o, n) => Heard(n) = Recorded(audit[n], objects[o])
    /\ (\A o \in 1..Len(objects) : ~Late(o, n)) => Heard(n) = audit[n]
    /\ Heard(n) \in Trace /\ Heard(n).episode = audit[n].episode

\* The abstract sessions have their type.
PlayingRight ==
  /\ Playing \in Seq(PlayRecord) /\ Len(Playing) = Len(objects)
  /\ \A o \in 1..Len(objects) : Playing[o] = PlayOf(objects[o])

TrailRight ==
  /\ Trail \in Seq(Trace) /\ Len(Trail) = Len(audit)
  /\ \A n \in 1..Len(audit) : Trail[n] = Heard(n)

Seen == HeardRight /\ PlayingRight /\ TrailRight

\* As no other session plays the episode, there is one step to be told at most.
LEMMA OneIsLate ==
  ASSUME TypeOK, SessionsAreIsolated
  PROVE  HeardRight
<1> SUFFICES ASSUME NEW n \in 1..Len(audit)
             PROVE  /\ \A o \in 1..Len(objects) :
                         Late(o, n) => Heard(n) = Recorded(audit[n], objects[o])
                    /\ (\A o \in 1..Len(objects) : ~Late(o, n)) => Heard(n) = audit[n]
                    /\ Heard(n) \in Trace /\ Heard(n).episode = audit[n].episode
  BY DEF HeardRight
<1> DEFINE late == {o \in 1..Len(objects) : InFlight(o) /\ objects[o].episode = audit[n].episode}
<1>1. Heard(n) = IF late = {} THEN audit[n]
                 ELSE Recorded(audit[n], objects[CHOOSE o \in late : TRUE])
  BY DEF Heard
<1>2. audit[n] \in Trace /\ audit[n].episode \in Nat /\ None \notin Nat
  BY TraceFields, SlotAssumption
<1>3. \A o, p \in 1..Len(objects) : Late(o, n) /\ Late(p, n) => o = p
  BY <1>2 DEF SessionsAreIsolated, Late
<1>4. \A o \in 1..Len(objects) : o \in late <=> Late(o, n)
  BY DEF Late
<1>5. late \subseteq 1..Len(objects)
  OBVIOUS
<1> HIDE DEF late
<1>6. CASE late = {}
  BY <1>1, <1>2, <1>4, <1>6
<1>7. CASE late # {}
  <2>1. PICK o \in 1..Len(objects) : o \in late
    BY <1>5, <1>7
  <2>2. late = {o}
    BY <1>3, <1>4, <1>5, <2>1
  <2>3. (CHOOSE p \in late : TRUE) = o
    BY <2>2
  <2>4. Heard(n) = Recorded(audit[n], objects[o])
    BY <1>1, <1>7, <2>3
  <2>5. objects[o] \in SessionState
    BY ObjectFields
  <2>6. Heard(n) \in Trace /\ Heard(n).episode = audit[n].episode
    BY <1>2, <2>4, <2>5, RecordedTyped
  <2> QED
    BY <1>3, <1>4, <2>1, <2>4, <2>6
<1> QED
  BY <1>6, <1>7

\* A function over 1..n is a sequence of that length.
LEMMA ListOf ==
  ASSUME NEW S, NEW n \in Nat, NEW s \in [1..n -> S]
  PROVE  s \in Seq(S) /\ Len(s) = n
<1>1. s \in Seq(S)
  BY SeqDef
<1>2. DOMAIN s = 1..n /\ DOMAIN s = 1..Len(s) /\ Len(s) \in Nat
  BY <1>1, LenProperties
<1> QED
  BY <1>1, <1>2

\* The mapping is well typed in every state of the server.
LEMMA MappingTyped == IInv => Seen
<1> SUFFICES ASSUME IInv
             PROVE  Seen
  OBVIOUS
<1>1. TypeOK /\ SessionsAreIsolated
  BY DEF IInv
<1>2. HeardRight
  BY <1>1, OneIsLate
<1>3. Len(objects) \in Nat /\ Len(audit) \in Nat
  BY <1>1, LenProperties DEF TypeOK
<1>4. \A o \in 1..Len(objects) : PlayOf(objects[o]) \in PlayRecord
  <2> SUFFICES ASSUME NEW o \in 1..Len(objects)
               PROVE  PlayOf(objects[o]) \in PlayRecord
    OBVIOUS
  <2>1. /\ objects[o].id \in Ids /\ objects[o].episode \in Nat \cup {None}
        /\ objects[o].over \in BOOLEAN /\ objects[o].actor_step \in Nat
    BY <1>1, ObjectFields
  <2> QED
    BY <2>1 DEF PlayOf, PlayRecord
<1>5. Playing = [o \in 1..Len(objects) |-> PlayOf(objects[o])]
  BY DEF Playing, PlayOf
<1>6. Playing \in [1..Len(objects) -> PlayRecord]
  BY <1>4, <1>5
<1>7. PlayingRight
  BY <1>3, <1>5, <1>6, ListOf DEF PlayingRight
<1>8. Trail \in [1..Len(audit) -> Trace]
  BY <1>2 DEF Trail, HeardRight
<1>9. TrailRight
  <2>1. Trail \in Seq(Trace) /\ Len(Trail) = Len(audit)
    BY <1>3, <1>8, ListOf
  <2> QED
    BY <2>1 DEF TrailRight, Trail
<1> QED
  BY <1>2, <1>7, <1>9 DEF Seen

\* A session that plays on as before looks the same.
Same(p) == PlayOf(objects'[p]) = PlayOf(objects[p])

\* A trace shows what it showed, if every session whose step is late plays on as
\* before and no other step becomes late.
LEMMA HeardAgain ==
  ASSUME HeardRight, HeardRight', Len(objects) \in Nat, Len(objects') \in Nat,
         Len(objects) <= Len(objects'),
         NEW m \in 1..Len(audit), NEW n \in 1..Len(audit'), audit'[n] = audit[m],
         \A p \in 1..Len(objects') :
           \/ p \in 1..Len(objects) /\ Same(p) /\ (InFlight(p)' <=> InFlight(p))
           \/ ~Late(p, n)' /\ ~Late(p, m)
  PROVE  Heard(n)' = Heard(m)
<1>1. ASSUME NEW p, Same(p)
      PROVE  /\ Recorded(audit[m], objects'[p]) = Recorded(audit[m], objects[p])
             /\ objects'[p].episode = objects[p].episode
  <2>1. PlayOf(objects'[p]) = PlayOf(objects[p])
    BY <1>1 DEF Same
  <2>2. /\ objects'[p].episode = objects[p].episode
        /\ objects'[p].over = objects[p].over /\ objects'[p].actor_step = objects[p].actor_step
    BY <2>1 DEF PlayOf
  <2> QED
    BY <2>2 DEF Recorded
<1>2. \A p \in 1..Len(objects') : Late(p, n)' =>
        /\ p \in 1..Len(objects) /\ Late(p, m)
        /\ Recorded(audit[m], objects'[p]) = Recorded(audit[m], objects[p])
  BY <1>1 DEF Late
<1>3. \A p \in 1..Len(objects) : p \in 1..Len(objects') /\ (Late(p, m) => Late(p, n)')
  BY <1>1 DEF Late
<1>4. CASE \E p \in 1..Len(objects') : Late(p, n)'
  <2>1. PICK p \in 1..Len(objects') : Late(p, n)'
    BY <1>4
  <2>2. Heard(n)' = Recorded(audit'[n], objects'[p])
    BY <2>1 DEF HeardRight
  <2>3. Heard(m) = Recorded(audit[m], objects[p])
    BY <1>2, <2>1 DEF HeardRight
  <2> QED
    BY <1>2, <2>1, <2>2, <2>3
<1>5. CASE \A p \in 1..Len(objects') : ~Late(p, n)'
  <2>1. Heard(n)' = audit'[n]
    BY <1>5 DEF HeardRight
  <2>2. \A p \in 1..Len(objects) : ~Late(p, m)
    BY <1>3, <1>5
  <2>3. Heard(m) = audit[m]
    BY <2>2 DEF HeardRight
  <2> QED
    BY <2>1, <2>3
<1> QED
  BY <1>4, <1>5

\* The trail shows the same if every trace does.
LEMMA TrailStill ==
  ASSUME Len(audit') = Len(audit), \A n \in 1..Len(audit) : Heard(n)' = Heard(n)
  PROVE  Trail' = Trail
BY DEF Trail

\* The sessions show the same if every one does and there is no new one.
LEMMA PlayingStill ==
  ASSUME Len(objects') = Len(objects), \A p \in 1..Len(objects) : Same(p)
  PROVE  Playing' = Playing
BY DEF Playing, Same, PlayOf

\* A step that neither makes, resets nor steps a session, nor writes the trail.
LEMMA QuietStep ==
  ASSUME TypeOK, Seen, Seen', UNCHANGED <<audit, begun>>, Len(objects') = Len(objects),
         \A p \in 1..Len(objects) : Same(p) /\ (InFlight(p)' <=> InFlight(p))
  PROVE  UNCHANGED Audited!vars
<1>1. Len(objects) \in Nat
  BY LenProperties DEF TypeOK
<1>2. Playing' = Playing
  BY PlayingStill
<1>3. ASSUME NEW n \in 1..Len(audit)
      PROVE  Heard(n)' = Heard(n)
  BY <1>1, HeardAgain DEF Seen
<1>4. Trail' = Trail
  BY <1>3, TrailStill
<1> QED
  BY <1>2, <1>4 DEF Audited!vars

\* A request that gets a session uses one of those made, or opens one.
LEMMA AsksImplements ==
  ASSUME TypeOK, Seen, Seen', NEW r \in Slots, Asks(r)
  PROVE  [Audited!Next]_Audited!vars
<1>1. /\ Len(objects) \in Nat /\ Len(objects') \in Nat /\ Len(objects) <= Len(objects')
      /\ \A p \in 1..Len(objects) : Same(p)
      /\ \A p \in 1..Len(objects') : p \notin 1..Len(objects) => New(p)
      /\ UNCHANGED <<audit, begun>>
  BY LenProperties DEF Asks, Resolves, Same, PlayOf, books, TypeOK
<1>2. \A p : InFlight(p)' <=> InFlight(p)
  <2>1. \A q \in Slots : \/ slots'[q] = slots[q]
                         \/ /\ slots[q].at \notin InFlightPlaces
                            /\ slots'[q].at \notin InFlightPlaces
    BY DEF Asks, InFlightPlaces, Inside
  <2> QED
    BY <2>1 DEF InFlight, InFlightPlaces
<1>3. CASE Len(objects') = Len(objects)
  BY <1>1, <1>2, <1>3, QuietStep
<1>4. CASE Len(objects') # Len(objects)
  <2>1. PICK m : m = Len(objects) + 1
    OBVIOUS
  <2>2. Len(objects') = m /\ New(m)
    <3>1. Len(objects') \in 1..Len(objects') /\ Len(objects') \notin 1..Len(objects)
      BY <1>1, <1>4
    <3> QED
      BY <1>1, <2>1, <3>1 DEF New
  <2>3. \A p \in 1..Len(objects') : p \notin 1..Len(objects) => ~InFlight(p)
    <3>1. \A q \in Slots : slots[q].at \in InFlightPlaces => slots[q].obj \in 1..Len(objects)
      BY SlotFields DEF InFlightPlaces
    <3> QED
      BY <3>1 DEF InFlight, InFlightPlaces
  <2>4. ASSUME NEW n \in 1..Len(audit)
        PROVE  Heard(n)' = Heard(n)
    <3>1. \A p \in 1..Len(objects') : p \notin 1..Len(objects) => ~Late(p, n)' /\ ~Late(p, n)
      BY <1>2, <2>3 DEF Late
    <3> QED
      BY <1>1, <1>2, <3>1, HeardAgain DEF Seen
  <2>5. Trail' = Trail
    BY <1>1, <2>4, TrailStill
  <2>6. PICK i \in Ids : PlayOf(objects'[m]) = Audited!Unplayed(i)
    BY <2>2 DEF New, PlayOf, Audited!Unplayed
  <2>7. Playing' = Append(Playing, Audited!Unplayed(i))
    <3> DEFINE u == Audited!Unplayed(i)
    <3>1. /\ Playing \in Seq(PlayRecord) /\ Len(Playing) = Len(objects)
          /\ \A o \in 1..Len(objects) : Playing[o] = PlayOf(objects[o])
          /\ Playing' \in Seq(PlayRecord) /\ Len(Playing') = m
          /\ \A o \in 1..m : Playing'[o] = PlayOf(objects'[o])
      BY <2>2 DEF Seen, PlayingRight
    <3>2. u \in PlayRecord
      BY DEF PlayRecord, Audited!Unplayed
    <3> HIDE DEF u
    <3>3. /\ Append(Playing, u) \in Seq(PlayRecord) /\ Len(Append(Playing, u)) = m
          /\ \A o \in 1..Len(objects) : Append(Playing, u)[o] = Playing[o]
          /\ Append(Playing, u)[m] = u
      BY <2>1, <3>1, <3>2, AppendProperties
    <3>4. \A o \in 1..m : Playing'[o] = Append(Playing, u)[o]
      <4> SUFFICES ASSUME NEW o \in 1..m
                   PROVE  Playing'[o] = Append(Playing, u)[o]
        OBVIOUS
      <4>1. CASE o = m
        BY <2>6, <3>1, <3>3, <4>1 DEF u
      <4>2. CASE o # m
        <5>1. o \in 1..Len(objects)
          BY <1>1, <2>1, <4>2
        <5> QED
          BY <1>1, <3>1, <3>3, <5>1 DEF Same
      <4> QED
        BY <4>1, <4>2
    <3> QED
      BY <3>1, <3>3, <3>4, SeqEqual DEF u
  <2> QED
    BY <1>1, <2>5, <2>7 DEF Audited!Next, Audited!Open
<1> QED
  BY <1>3, <1>4

\* An engine that is reset begins an abstract episode.
LEMMA BeginsImplements ==
  ASSUME TypeOK, Seen, Seen', NEW o \in 1..Len(objects), Begins(o), UNCHANGED audit,
         ~InFlight(o), ~InFlight(o)', \A p : p # o => (InFlight(p)' <=> InFlight(p))
  PROVE  Audited!Next
<1>1. /\ Len(objects) \in Nat /\ Len(objects') = Len(objects)
      /\ objects'[o].id = objects[o].id /\ begun' = begun + 1
      /\ objects'[o].episode = begun + 1 /\ objects'[o].actor_step = 0
      /\ objects'[o].over = FALSE
      /\ \A p \in 1..Len(objects) : p # o => Same(p)
  BY LenProperties DEF Begins, SameObjects, Same, TypeOK
<1>2. ASSUME NEW n \in 1..Len(audit)
      PROVE  Heard(n)' = Heard(n)
  <2>1. ~Late(o, n) /\ ~Late(o, n)'
    BY DEF Late
  <2> QED
    BY <1>1, <2>1, HeardAgain DEF Seen
<1>3. Trail' = Trail
  BY <1>2, TrailStill
<1>4. /\ DOMAIN Playing = 1..Len(objects) /\ Len(Playing) = Len(objects)
      /\ Playing[o].id = objects[o].id
  BY DEF Seen, PlayingRight, Playing
<1>5. Playing' = [Playing EXCEPT ![o] = [id |-> Playing[o].id, episode |-> begun + 1,
                                         over |-> FALSE, steps |-> 0]]
  BY <1>1, <1>4 DEF Playing, Same, PlayOf
<1>6. Audited!Begin(o)
  BY <1>1, <1>3, <1>5 DEF Audited!Begin
<1> QED
  BY <1>4, <1>6 DEF Audited!Next

\* An engine step plays the abstract step, and the trace it will be written into
\* shows it already.
LEMMA PlaysImplements ==
  ASSUME TypeOK, TypeOK', SessionsAreIsolated, Seen, Seen',
         NEW o \in 1..Len(objects), Plays(o), objects[o].episode # None, UNCHANGED audit,
         ~InFlight(o), InFlight(o)', \A p : p # o => (InFlight(p)' <=> InFlight(p))
  PROVE  Audited!Next
<1>1. /\ Len(objects) \in Nat /\ Len(objects') = Len(objects) /\ begun' = begun
      /\ objects'[o].id = objects[o].id /\ objects'[o].episode = objects[o].episode
      /\ objects'[o].actor_step = objects[o].actor_step + 1
      /\ \A p \in 1..Len(objects) : p # o => Same(p)
  BY LenProperties DEF Plays, SameEpisodes, SameObjects, Same, TypeOK
<1>2. PICK ends : ends = objects'[o].over
  OBVIOUS
<1>3. ends \in {TRUE, objects[o].over}
  <2>1. objects[o].over \in BOOLEAN
    BY ObjectFields
  <2>2. objects'[o] \in SessionState
    BY <1>1, ElementOfSeq DEF TypeOK
  <2>3. ends \in BOOLEAN
    BY <1>2, <2>2 DEF SessionState
  <2>4. objects[o].over => ends
    BY <1>2, Zenon DEF Plays
  <2> QED
    BY <2>1, <2>3, <2>4, Zenon
<1> DEFINE count == objects[o].actor_step + 1
           told(trace) == [trace EXCEPT !.events = Append(trace.events, count),
                                        !.finished = IF ends THEN TRUE ELSE trace.finished]
<1>4. \A p \in 1..Len(objects) : p # o => objects[p].episode # objects[o].episode
  BY DEF SessionsAreIsolated
<1>5. ASSUME NEW n \in 1..Len(audit)
      PROVE  /\ Heard(n).episode = audit[n].episode
             /\ Heard(n)' = IF audit[n].episode = objects[o].episode THEN told(Heard(n))
                            ELSE Heard(n)
  <2>0. Heard(n).episode = audit[n].episode
    BY DEF Seen, HeardRight
  <2>1. CASE audit[n].episode = objects[o].episode
    <3>1. \A p \in 1..Len(objects) : ~Late(p, n)
      BY <1>4, <2>1 DEF Late
    <3>2. Heard(n) = audit[n]
      BY <3>1 DEF Seen, HeardRight
    <3>3. Late(o, n)' /\ o \in 1..Len(objects')
      BY <1>1, <2>1 DEF Late
    <3>4. Heard(n)' = Recorded(audit[n], objects'[o])
      BY <3>3 DEF Seen, HeardRight
    <3>5. Recorded(audit[n], objects'[o]) = told(audit[n])
      BY <1>1, <1>2 DEF Recorded
    <3> QED
      BY <2>0, <2>1, <3>2, <3>4, <3>5
  <2>2. CASE audit[n].episode # objects[o].episode
    <3>1. ~Late(o, n) /\ ~Late(o, n)'
      BY <1>1, <2>2 DEF Late
    <3>2. Heard(n)' = Heard(n)
      BY <1>1, <3>1, HeardAgain DEF Seen
    <3> QED
      BY <2>0, <2>2, <3>2
  <2> QED
    BY <2>1, <2>2
<1>6. /\ DOMAIN Playing = 1..Len(objects) /\ Len(Playing) = Len(objects)
      /\ Playing[o] = PlayOf(objects[o]) /\ Len(Trail) = Len(audit)
      /\ \A n \in 1..Len(audit) : Trail[n] = Heard(n)
  BY DEF Seen, PlayingRight, TrailRight, Playing
<1>7. /\ Playing[o].id = objects[o].id /\ Playing[o].episode = objects[o].episode
      /\ Playing[o].steps = objects[o].actor_step /\ Playing[o].over = objects[o].over
  BY <1>6 DEF PlayOf
<1>8. Playing' = [Playing EXCEPT ![o] = [id |-> Playing[o].id, episode |-> Playing[o].episode,
                                         over |-> ends, steps |-> count]]
  BY <1>1, <1>2, <1>6, <1>7 DEF Playing, Same, PlayOf
<1>9. Trail' = [n \in 1..Len(Trail) |->
         IF Trail[n].episode = Playing[o].episode THEN told(Trail[n]) ELSE Trail[n]]
  <2> HIDE DEF told
  <2>1. Trail' = [n \in 1..Len(audit) |-> Heard(n)']
    BY DEF Trail
  <2> QED
    BY <1>5, <1>6, <1>7, <2>1
<1>10. Audited!Play(o)
  BY <1>1, <1>3, <1>7, <1>8, <1>9 DEF Audited!Play
<1> QED
  BY <1>6, <1>10 DEF Audited!Next

\* Two lists of one length lose as many traces to the window.
LEMMA WindowOfBoth ==
  ASSUME NEW s \in Seq(Trace), NEW t \in Seq(Trace), Len(s) = Len(t)
  PROVE  /\ Window(s) \in Seq(Trace) /\ Window(t) \in Seq(Trace)
         /\ Len(Window(s)) = Len(Window(t))
         /\ \E d \in Nat : \A n \in 1..Len(Window(s)) :
              n + d \in 1..Len(s) /\ Window(s)[n] = s[n + d] /\ Window(t)[n] = t[n + d]
<1>1. Len(s) \in Nat /\ MaxEpisodes \in Nat \ {0}
  BY LenProperties, PoolAssumption
<1>2. CASE Len(s) > MaxEpisodes
  <2>1. s # <<>> /\ t # <<>>
    BY <1>1, <1>2
  <2>2. /\ Tail(s) \in Seq(Trace) /\ Len(Tail(s)) = Len(s) - 1
        /\ \A n \in 1..Len(Tail(s)) : Tail(s)[n] = s[n + 1]
    BY <2>1, HeadTailProperties
  <2>3. /\ Tail(t) \in Seq(Trace) /\ Len(Tail(t)) = Len(t) - 1
        /\ \A n \in 1..Len(Tail(t)) : Tail(t)[n] = t[n + 1]
    BY <2>1, HeadTailProperties
  <2>4. Window(s) = Tail(s) /\ Window(t) = Tail(t)
    BY <1>2 DEF Window
  <2>5. \A n \in 1..Len(Window(s)) :
          n + 1 \in 1..Len(s) /\ Window(s)[n] = s[n + 1] /\ Window(t)[n] = t[n + 1]
    BY <1>1, <2>2, <2>3, <2>4
  <2> QED
    BY <2>2, <2>3, <2>4, <2>5
<1>3. CASE ~(Len(s) > MaxEpisodes)
  <2>1. Window(s) = s /\ Window(t) = t
    BY <1>3 DEF Window
  <2>2. \A n \in 1..Len(Window(s)) :
          n + 0 \in 1..Len(s) /\ Window(s)[n] = s[n + 0] /\ Window(t)[n] = t[n + 0]
    BY <1>1, <2>1
  <2> QED
    BY <2>1, <2>2
<1> QED
  BY <1>2, <1>3

\* The recording of a reset enters the abstract episode.
LEMMA EntersImplements ==
  ASSUME TypeOK, SessionsAreIsolated, Seen, Seen',
         NEW o \in 1..Len(objects), objects[o].episode # None, objects[o].actor_step = 0,
         \A n \in 1..Len(audit) : audit[n].episode # objects[o].episode,
         UNCHANGED <<objects, begun>>, ~InFlight(o), \A p : InFlight(p)' <=> InFlight(p),
         audit' = Window(Append(audit, NewTrace(objects[o])))
  PROVE  Audited!Next
<1> DEFINE new == NewTrace(objects[o])
           full == Append(audit, new)
           seen == Append(Trail, new)
<1>1. /\ new \in Trace /\ new.episode = objects[o].episode
      /\ new = [episode |-> objects[o].episode, session |-> objects[o].id,
                events |-> <<0>>, finished |-> FALSE]
  BY ObjectFields DEF NewTrace, Trace
<1>2. /\ audit \in Seq(Trace) /\ Len(audit) \in Nat /\ Len(objects) \in Nat
      /\ Trail \in Seq(Trace) /\ Len(Trail) = Len(audit)
      /\ \A n \in 1..Len(audit) : Trail[n] = Heard(n) /\ Heard(n).episode = audit[n].episode
  BY LenProperties DEF TypeOK, Seen, TrailRight, HeardRight
<1>3. /\ Trail' \in Seq(Trace) /\ Len(Trail') = Len(audit')
      /\ \A n \in 1..Len(audit') : Trail'[n] = Heard(n)'
  BY DEF Seen, TrailRight
<1> HIDE DEF new
<1>4. /\ full \in Seq(Trace) /\ Len(full) = Len(audit) + 1 /\ full[Len(audit) + 1] = new
      /\ \A n \in 1..Len(audit) : full[n] = audit[n]
  BY <1>1, <1>2, AppendProperties
<1>5. /\ seen \in Seq(Trace) /\ Len(seen) = Len(audit) + 1 /\ seen[Len(audit) + 1] = new
      /\ \A n \in 1..Len(audit) : seen[n] = Heard(n)
  BY <1>1, <1>2, AppendProperties
<1>6. audit' = Window(full)
  BY DEF new
<1> HIDE DEF full, seen
<1>7. /\ Window(full) \in Seq(Trace) /\ Window(seen) \in Seq(Trace)
      /\ Len(Window(full)) = Len(Window(seen))
      /\ \E d \in Nat : \A n \in 1..Len(Window(full)) :
           n + d \in 1..Len(full) /\ Window(full)[n] = full[n + d] /\ Window(seen)[n] = seen[n + d]
  <2>1. full \in Seq(Trace) /\ seen \in Seq(Trace) /\ Len(full) = Len(seen)
    BY <1>4, <1>5
  <2> QED
    BY <2>1, WindowOfBoth, Zenon
<1>8. PICK d \in Nat : \A n \in 1..Len(audit') :
        n + d \in 1..Len(full) /\ audit'[n] = full[n + d] /\ Window(seen)[n] = seen[n + d]
  BY <1>6, <1>7
<1>9. \A p \in 1..Len(objects) : p # o => objects[p].episode # objects[o].episode
  BY DEF SessionsAreIsolated
<1>10. ASSUME NEW n \in 1..Len(audit')
       PROVE  Heard(n)' = seen[n + d]
  <2>1. PICK m : m = n + d
    OBVIOUS
  <2>2. audit'[n] = full[m] /\ (m \in 1..Len(audit) \/ m = Len(audit) + 1)
    BY <1>2, <1>4, <1>8, <2>1
  <2>3. CASE m \in 1..Len(audit)
    <3>1. audit'[n] = audit[m]
      BY <1>4, <2>2, <2>3
    <3>2. \A p \in 1..Len(objects') : p \in 1..Len(objects) /\ Same(p)
      BY DEF Same
    <3>3. Heard(n)' = Heard(m)
      BY <1>2, <2>3, <3>1, <3>2, HeardAgain DEF Seen
    <3> QED
      BY <1>5, <2>1, <2>3, <3>3
  <2>4. CASE m = Len(audit) + 1
    <3>1. audit'[n] = new
      BY <1>4, <2>2, <2>4
    <3>2. \A p \in 1..Len(objects') : ~Late(p, n)'
      BY <1>1, <1>9, <3>1 DEF Late
    <3>3. Heard(n)' = new
      BY <3>1, <3>2 DEF Seen, HeardRight
    <3> QED
      BY <1>5, <2>1, <2>4, <3>3
  <2> QED
    BY <2>2, <2>3, <2>4
<1>11. Trail' = Window(seen)
  <2>1. Len(Trail') = Len(Window(seen))
    BY <1>3, <1>6, <1>7
  <2>2. \A n \in 1..Len(Trail') : Trail'[n] = Window(seen)[n]
    BY SMTT(30), <1>3, <1>8, <1>10
  <2> QED
    BY <1>3, <1>7, <2>1, <2>2, SeqEqual
<1>12. /\ Len(Playing) = Len(objects)
       /\ Playing[o].id = objects[o].id /\ Playing[o].episode = objects[o].episode
       /\ Playing[o].steps = objects[o].actor_step
  <2>1. Len(Playing) = Len(objects) /\ Playing[o] = PlayOf(objects[o])
    BY DEF Seen, PlayingRight
  <2> QED
    BY <2>1 DEF PlayOf
<1>13. Playing' = Playing
  BY DEF Playing
<1>14. \A n \in 1..Len(Trail) : Trail[n].episode # Playing[o].episode
  BY <1>2, <1>12
<1>15. Trail' = Audited!Latest(Append(Trail, [episode |-> Playing[o].episode,
                   session |-> Playing[o].id, events |-> <<0>>, finished |-> FALSE]))
  BY <1>1, <1>11, <1>12 DEF seen, Window, Audited!Latest
<1>16. Audited!Enter(o)
  BY <1>12, <1>13, <1>14, <1>15 DEF Audited!Enter
<1> QED
  BY <1>12, <1>16 DEF Audited!Next

\* Writing a step into its trace changes nothing: it was told when it was played.
LEMMA TellsImplements ==
  ASSUME TypeOK, SessionsAreIsolated, Seen, Seen',
         NEW o \in 1..Len(objects), objects[o].episode # None, UNCHANGED <<objects, begun>>,
         InFlight(o), ~InFlight(o)', \A p : p # o => (InFlight(p)' <=> InFlight(p)),
         audit' = AuditedWith(objects[o])
  PROVE  UNCHANGED Audited!vars
<1>1. Len(audit') = Len(audit) /\ Len(objects) \in Nat
  BY AuditedTyped, LenProperties DEF TypeOK
<1>2. \A p \in 1..Len(objects) : Same(p) /\ p \in 1..Len(objects')
  BY DEF Same
<1>3. \A p \in 1..Len(objects) : p # o => objects[p].episode # objects[o].episode
  BY DEF SessionsAreIsolated
<1>4. ASSUME NEW n \in 1..Len(audit)
      PROVE  Heard(n)' = Heard(n)
  <2>1. audit'[n] = IF audit[n].episode = objects[o].episode
                      THEN Recorded(audit[n], objects[o]) ELSE audit[n]
    BY DEF AuditedWith
  <2>2. CASE audit[n].episode = objects[o].episode
    <3>1. Heard(n) = Recorded(audit[n], objects[o])
      BY <2>2 DEF Seen, HeardRight, Late
    <3>2. audit'[n].episode = objects[o].episode
      <4>1. audit[n] \in Trace /\ objects[o] \in SessionState
        BY TraceFields, ObjectFields
      <4> QED
        BY <2>1, <2>2, <4>1, RecordedTyped
    <3>3. \A p \in 1..Len(objects') : ~Late(p, n)'
      BY <1>3, <3>2 DEF Late
    <3>4. Heard(n)' = audit'[n]
      BY <1>1, <3>3 DEF Seen, HeardRight
    <3> QED
      BY <2>1, <2>2, <3>1, <3>4
  <2>3. CASE audit[n].episode # objects[o].episode
    <3>1. audit'[n] = audit[n] /\ ~Late(o, n) /\ ~Late(o, n)'
      BY <2>1, <2>3 DEF Late
    <3> QED
      BY <1>1, <1>2, <3>1, HeardAgain DEF Seen
  <2> QED
    BY <2>2, <2>3
<1>5. Trail' = Trail
  BY <1>1, <1>4, TrailStill
<1>6. Playing' = Playing
  BY DEF Playing
<1> QED
  BY <1>5, <1>6 DEF Audited!vars

\* A handler that gets the lock answers, begins or plays.
LEMMA HandleImplements ==
  ASSUME TypeOK, TypeOK', SessionsAreIsolated, Seen, Seen', NEW r \in Slots, Handle(r)
  PROVE  [Audited!Next]_Audited!vars
<1>1. PICK o : o = slots[r].obj
  OBVIOUS
<1>2. /\ slots[r].at = "lock" /\ o \in 1..Len(objects) /\ Free(o) /\ audit' = audit
      /\ \/ Leaves(r) /\ UNCHANGED <<objects, begun>>
         \/ Leaves(r) /\ Begins(o)
         \/ MovesTo(r, "count_start") /\ Begins(o)
         \/ MovesTo(r, "count_step") /\ Plays(o) /\ objects[o].episode # None
  BY <1>1, HandleEffect DEF books
<1>3. Moves(r) /\ (slots'[r].at = "idle" \/ slots'[r].obj = o)
  BY <1>1, <1>2 DEF Leaves, MovesTo
<1>4. /\ ~InFlight(o) /\ (InFlight(o)' <=> slots'[r].at \in InFlightPlaces)
      /\ \A p : p # o => (InFlight(p)' <=> InFlight(p))
  BY <1>1, <1>2, <1>3, FlightAfter DEF InFlightPlaces
<1>5. CASE Leaves(r) /\ UNCHANGED <<objects, begun>>
  <2>1. ~InFlight(o)'
    BY <1>4, <1>5 DEF Leaves, InFlightPlaces
  <2>2. \A p \in 1..Len(objects) : Same(p) /\ (InFlight(p)' <=> InFlight(p))
    BY <1>4, <1>5, <2>1 DEF Same
  <2> QED
    BY <1>2, <1>5, <2>2, QuietStep
<1>6. CASE Begins(o) /\ (Leaves(r) \/ MovesTo(r, "count_start"))
  <2>1. ~InFlight(o)'
    BY <1>4, <1>6 DEF Leaves, MovesTo, InFlightPlaces
  <2> QED
    BY <1>2, <1>4, <1>6, <2>1, BeginsImplements
<1>7. CASE MovesTo(r, "count_step") /\ Plays(o) /\ objects[o].episode # None
  <2>1. InFlight(o)'
    BY <1>4, <1>7 DEF MovesTo, InFlightPlaces
  <2> QED
    BY <1>2, <1>4, <1>7, <2>1, PlaysImplements
<1> QED
  BY <1>2, <1>5, <1>6, <1>7

\* A request with the lock plays, enters its reset, or is seen to do nothing.
LEMMA ServeImplements ==
  ASSUME TypeOK, TypeOK', Busy, Starting, SessionsAreIsolated, Seen, Seen',
         NEW r \in Slots, Serve(r)
  PROVE  [Audited!Next]_Audited!vars
<1>1. PICK o : o = slots[r].obj
  OBVIOUS
<1>2. slots[r].at \in Inside /\ o \in 1..Len(objects) /\ objects[o].episode # None
  BY <1>1, ServeEffect DEF Busy
<1>3. Moves(r) /\ (slots'[r].at = "idle" \/ slots'[r].obj = o)
  BY <1>1, ServeEffect DEF Leaves, MovesTo
<1>4. /\ InFlight(o) <=> slots[r].at \in InFlightPlaces
      /\ InFlight(o)' <=> slots'[r].at \in InFlightPlaces
      /\ \A p : p # o => (InFlight(p)' <=> InFlight(p))
  BY <1>1, <1>2, <1>3, FlightAfter
<1>5. CASE /\ UNCHANGED <<objects, begun, audit>>
           /\ \/ slots[r].at = "count_start" /\ MovesTo(r, "audit_start")
              \/ slots[r].at = "count_step" /\ MovesTo(r, "audit_step")
              \/ /\ slots[r].at \in {"agent_reset", "loop", "complete"}
                 /\ Leaves(r) \/ MovesTo(r, "loop")
  <2>1. InFlight(o)' <=> InFlight(o)
    BY <1>4, <1>5 DEF Leaves, MovesTo, InFlightPlaces
  <2>2. \A p \in 1..Len(objects) : Same(p) /\ (InFlight(p)' <=> InFlight(p))
    BY <1>4, <1>5, <2>1 DEF Same
  <2> QED
    BY <1>5, <2>2, QuietStep
<1>6. CASE /\ slots[r].at = "loop" /\ MovesTo(r, "count_step")
           /\ Plays(o) /\ UNCHANGED audit
  <2>1. ~InFlight(o) /\ InFlight(o)'
    BY <1>4, <1>6 DEF MovesTo, InFlightPlaces
  <2> QED
    BY <1>2, <1>4, <1>6, <2>1, PlaysImplements
<1>7. CASE /\ slots[r].at = "audit_start" /\ UNCHANGED <<objects, begun>>
           /\ Leaves(r) \/ MovesTo(r, "agent_reset")
           /\ audit' = Window(Append(audit, NewTrace(objects[o])))
  <2>1. /\ objects[o].actor_step = 0
        /\ \A n \in 1..Len(audit) : audit[n].episode # objects[o].episode
    BY <1>1, <1>7 DEF Starting
  <2>2. ~InFlight(o) /\ ~InFlight(o)'
    BY <1>4, <1>7 DEF Leaves, MovesTo, InFlightPlaces
  <2>3. \A p : InFlight(p)' <=> InFlight(p)
    BY <1>4, <2>2
  <2> QED
    BY <1>2, <1>7, <2>1, <2>2, <2>3, EntersImplements
<1>8. CASE /\ slots[r].at = "audit_step" /\ UNCHANGED <<objects, begun>>
           /\ Leaves(r) \/ MovesTo(r, "loop") \/ MovesTo(r, "complete")
           /\ audit' = AuditedWith(objects[o])
  <2>1. InFlight(o) /\ ~InFlight(o)'
    BY <1>4, <1>8 DEF Leaves, MovesTo, InFlightPlaces
  <2> QED
    BY <1>2, <1>4, <1>8, <2>1, TellsImplements
<1> QED
  BY <1>1, <1>5, <1>6, <1>7, <1>8, ServeEffect

\* The server starts with the default session unplayed and an empty trail.
LEMMA InitImplements == Init => Audited!Init
<1> SUFFICES ASSUME Init
             PROVE  Audited!Init
  OBVIOUS
<1>1. objects = <<Fresh(Default)>> /\ audit = <<>> /\ begun = 0
  BY DEF Init
<1>2. Playing = <<Audited!Unplayed(Default)>>
  <2>1. Len(objects) = 1 /\ objects[1] = Fresh(Default)
    BY <1>1
  <2>2. /\ objects[1].id = Default /\ objects[1].episode = None
        /\ objects[1].over = FALSE /\ objects[1].actor_step = 0
    BY <2>1 DEF Fresh
  <2>3. Playing = [o \in 1..1 |-> PlayOf(objects[o])]
    BY <2>1 DEF Playing, PlayOf
  <2>4. PlayOf(objects[1]) = Audited!Unplayed(Default)
    BY <2>2 DEF PlayOf, Audited!Unplayed
  <2> QED
    BY <2>3, <2>4
<1>3. Trail = <<>>
  BY <1>1 DEF Trail
<1> QED
  BY <1>1, <1>2, <1>3 DEF Audited!Init

\* Every step of the server is a step of its sessions, or none.
LEMMA StepImplements ==
  ASSUME IInv, IInv', Seen, Seen', [Next]_vars
  PROVE  [Audited!Next]_Audited!vars
<1>1. /\ TypeOK /\ TypeOK' /\ Busy /\ Starting /\ SessionsAreIsolated
  BY DEF IInv
<1>2. CASE Apart
  <2>1. UNCHANGED <<objects, slots, audit, begun>>
    BY <1>2 DEF Apart, books
  <2>2. \A p \in 1..Len(objects) : Same(p) /\ (InFlight(p)' <=> InFlight(p))
    BY <2>1 DEF Same, InFlight
  <2> QED
    BY <1>1, <2>1, <2>2, QuietStep
<1> QED
  BY <1>1, <1>2, StepKinds, AsksImplements, HandleImplements, ServeImplements

\* For any number of threads, sessions and episodes, any evictions and deletions
\* and any window, the server implements sessions that play apart and are told
\* call by call, although its trail is written after the engine has moved
\* (sessions.py, SessionState; app.py, _do_reset and _do_step; audit.py).
THEOREM SessionsImplemented == Spec => ImplementsAuditedSessions
<1>1. Spec => [](IInv /\ Seen)
  BY AlwaysIInv, MappingTyped, PTL
<1>2. IInv /\ Seen /\ (IInv /\ Seen)' /\ [Next]_vars => [Audited!Next]_Audited!vars
  BY StepImplements
<1> QED
  BY <1>1, <1>2, InitImplements, PTL DEF Spec, ImplementsAuditedSessions, Audited!Spec

=============================================================================
