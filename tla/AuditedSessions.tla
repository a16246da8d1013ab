-------------------------- MODULE AuditedSessions --------------------------
(***************************************************************************)
(* What the server promises of its sessions, without threads, locks, pool  *)
(* or counters: every session plays its own episodes, one call at a time;  *)
(* and the audit trail keeps the latest MaxEpisodes episodes put on it,    *)
(* with every call in the moment it is played.                             *)
(***************************************************************************)
EXTENDS Integers, Sequences

CONSTANTS Default, Ids, MaxEpisodes, None

VARIABLES plays,  \* what each session made so far plays
          trail,  \* the traces of the latest episodes, oldest first
          begun   \* episodes begun so far

vars == <<plays, trail, begun>>

Unplayed(i) == [id |-> i, episode |-> None, over |-> FALSE, steps |-> 0]

Init == plays = <<Unplayed(Default)>> /\ trail = <<>> /\ begun = 0

\* A session is made.
Open == /\ \E i \in Ids : plays' = Append(plays, Unplayed(i))
        /\ UNCHANGED <<trail, begun>>

\* A session begins an episode nobody has played.
Begin(o) ==
  /\ begun' = begun + 1
  /\ plays' = [plays EXCEPT ![o] = [id |-> plays[o].id, episode |-> begun + 1,
                                    over |-> FALSE, steps |-> 0]]
  /\ UNCHANGED trail

Latest(traces) == IF Len(traces) > MaxEpisodes THEN Tail(traces) ELSE traces

\* An episode without a step is put on the trail, where it is not yet.
Enter(o) ==
  /\ plays[o].episode # None /\ plays[o].steps = 0
  /\ \A n \in 1..Len(trail) : trail[n].episode # plays[o].episode
  /\ trail' = Latest(Append(trail, [episode |-> plays[o].episode, session |-> plays[o].id,
                                    events |-> <<0>>, finished |-> FALSE]))
  /\ UNCHANGED <<plays, begun>>

\* A step is played and, if its episode is on the trail, told.
Play(o) ==
  \E ends \in {TRUE, plays[o].over} :
    LET count == plays[o].steps + 1
        told(trace) == [trace EXCEPT !.events = Append(trace.events, count),
                                     !.finished = IF ends THEN TRUE ELSE trace.finished]
    IN  /\ plays[o].episode # None
        /\ plays' = [plays EXCEPT ![o] = [id |-> plays[o].id, episode |-> plays[o].episode,
                                          over |-> ends, steps |-> count]]
        /\ trail' = [n \in 1..Len(trail) |->
             IF trail[n].episode = plays[o].episode THEN told(trail[n]) ELSE trail[n]]
        /\ UNCHANGED begun

Next == Open \/ \E o \in 1..Len(plays) : Begin(o) \/ Enter(o) \/ Play(o)

Spec == Init /\ [][Next]_vars

=============================================================================
