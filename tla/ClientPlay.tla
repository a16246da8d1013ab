------------------------------ MODULE ClientPlay ------------------------------
(***************************************************************************)
(* One SDK client (client.py) driving an episode to its end over a network *)
(* that loses requests and answers or is slow.  The server's middleware    *)
(* (RateLimiter) may refuse any request: which, depends on every caller    *)
(* with the same client key, so a refusal is a free choice here.           *)
(*                                                                         *)
(* A request the client gives up on may still be served later: the server  *)
(* does not learn that the connection is gone, and handlers of one session *)
(* only wait for each other (the session's lock).                          *)
(*                                                                         *)
(* Episodes are in solo mode, which is run_episode's default.  The policy  *)
(* is anything that answers an observation with an action.                 *)
(***************************************************************************)
EXTENDS Integers, Sequences

CONSTANTS
  MaxRetries,  \* max_retries
  MaxSteps,    \* the scenario's step limit
  StepCaps,    \* what a caller of run_episode passes as max_steps; None is no cap
  IdleBound,   \* idle actions of a policy without a cap, a bound of the model
  None

ASSUME ClientAssumption ==
  /\ MaxRetries \in Nat /\ MaxSteps \in Nat \ {0} /\ IdleBound \in Nat
  /\ StepCaps \subseteq Nat \cup {None} /\ None \notin Nat

VARIABLES
  client,      \* [status, command, attempt]; command 0 is the reset
  play,        \* run_episode's: [max_steps, actions, idle], the actions its policy chose,
               \* by kind, and how many idle ones it has the observation of
  trajectory,  \* what run_episode has collected
  requests,    \* requests under way, <<command, attempt>>
  answers,     \* the answer under way to the present attempt, if any: {} or {[status, obs]}
  engine,      \* [episode, step, done] of the client's session
  executed,    \* history: the commands the engine has executed, and how often in all
  given_up     \* history: attempts the client stopped waiting for

client_vars == <<client, play, trajectory>>
network == <<requests, answers>>
server == <<engine, executed>>
vars == <<client_vars, network, server, given_up>>

-----------------------------------------------------------------------------
(* The server.                                                             *)

\* The kinds of action the engine's clock tells apart: a dispatched one, the
\* submission, and phase_complete, which returns before the budget is looked at.
Kinds == {"work", "submit", "idle"}

Ends(action, step) == action = "submit" \/ (action # "idle" /\ step >= MaxSteps)

Stepped(action) ==
  IF engine.done THEN engine
  ELSE [engine EXCEPT !.step = @ + 1, !.done = Ends(action, engine.step + 1)]

\* Mutant: a reset rewinds the episode instead of beginning another.
ExecutedRewinding(command) ==
  IF command = 0 THEN [episode |-> 1, step |-> 0, done |-> FALSE]
  ELSE Stepped(play.actions[command])

\* What the engine answers: a reset always begins anew, and a step after the
\* end changes nothing.
Executed(command) ==
  IF command = 0 THEN [episode |-> engine.episode + 1, step |-> 0, done |-> FALSE]
  ELSE Stepped(play.actions[command])

\* An answer reaches the client if it still waits for this attempt; otherwise
\* the connection is closed.
Reaches(m) == client.status = "waiting" /\ m = <<client.command, client.attempt>>

Answer(m, status, obs) ==
  answers' = answers \cup (IF Reaches(m) THEN {[status |-> status, obs |-> obs]} ELSE {})

Execute(m) ==
  /\ requests' = requests \ {m}
  /\ engine' = Executed(m[1])
  /\ executed' = [commands |-> executed.commands \cup {m[1]}, times |-> executed.times + 1]
  /\ Answer(m, 200, engine')

\* The middleware lets the request through ...
Serve(m) == m \in requests /\ Execute(m) /\ UNCHANGED <<client_vars, given_up>>

\* Mutant: the step is taken before the limiter is asked.
RefuseTooLate(m, status) ==
  /\ m \in requests /\ requests' = requests \ {m}
  /\ engine' = Executed(m[1])
  /\ executed' = [commands |-> executed.commands \cup {m[1]}, times |-> executed.times + 1]
  /\ Answer(m, status, engine)
  /\ UNCHANGED <<client_vars, given_up>>

\* ... or answers 429 (no token left) or 401 (no key), and the engine never
\* sees it.
Refuse(m, status) ==
  /\ m \in requests /\ requests' = requests \ {m}
  /\ Answer(m, status, engine)
  /\ UNCHANGED <<server, client_vars, given_up>>

-----------------------------------------------------------------------------
(* The client.                                                             *)

Begin ==
  /\ client.status = "idle"
  /\ client' = [status |-> "sending", command |-> 0, attempt |-> 0]
  /\ \E cap \in StepCaps : play' = [max_steps |-> cap, actions |-> <<>>, idle |-> 0]
  /\ UNCHANGED <<trajectory, network, server, given_up>>

Send ==
  /\ client.status = "sending"
  /\ client' = [client EXCEPT !.status = "waiting"]
  /\ requests' = requests \cup {<<client.command, client.attempt>>}
  /\ UNCHANGED <<play, trajectory, answers, server, given_up>>

\* Mutant: the attempts are not counted.
RetryForever == client' = [client EXCEPT !.status = "sending"]

\* The loop of _request: sleep and try again, or raise after the last attempt.
RetryOrRaise ==
  client' = IF client.attempt < MaxRetries
            THEN [client EXCEPT !.status = "sending", !.attempt = @ + 1]
            ELSE [client EXCEPT !.status = "raised"]

\* ConnectError: the request never left.
ConnectFails ==
  /\ client.status = "sending"
  /\ RetryOrRaise
  /\ UNCHANGED <<play, trajectory, network, server, given_up>>

\* ReadTimeout or RemoteProtocolError, or a gateway's 502 or 504: the client
\* does not know whether the request was, or will be, executed, or whether an
\* answer was on its way.
GiveUp ==
  /\ client.status = "waiting"
  /\ RetryOrRaise
  /\ given_up' = given_up + 1 /\ answers' = {}
  /\ UNCHANGED <<play, trajectory, requests, server>>

IdleNow == client.command # 0 /\ play.actions[client.command] = "idle"
IdleSeen == play.idle + (IF IdleNow THEN 1 ELSE 0)

\* The loop's conditions: the observation is not done, and the cap allows a step
\* more (so many were made as there were observations before this one).
GoesOn(obs) == ~obs.done /\ (play.max_steps # None => Len(trajectory) < play.max_steps)

\* The policy's answer to an observation.
Choose(action) ==
  /\ action = "idle" => play.max_steps # None \/ IdleSeen < IdleBound
  /\ play' = [play EXCEPT !.actions = Append(@, action), !.idle = IdleSeen]
  /\ client' = [status |-> "sending", command |-> client.command + 1, attempt |-> 0]

Return ==
  /\ play' = [play EXCEPT !.idle = IdleSeen]
  /\ client' = [client EXCEPT !.status = "finished"]

Receive(a) ==
  /\ client.status = "waiting" /\ a \in answers
  /\ \/ a.status = 429 /\ RetryOrRaise /\ UNCHANGED <<play, trajectory>>
     \/ /\ a.status = 401 /\ UNCHANGED <<play, trajectory>>
        /\ client' = [client EXCEPT !.status = "raised"]
     \/ /\ a.status = 200
        /\ trajectory' = Append(trajectory, a.obs)
        /\ \/ GoesOn(a.obs) /\ \E action \in Kinds : Choose(action)
           \/ ~GoesOn(a.obs) /\ Return
  /\ answers' = {}
  /\ UNCHANGED <<requests, server, given_up>>

-----------------------------------------------------------------------------
Init ==
  /\ client = [status |-> "idle", command |-> 0, attempt |-> 0]
  /\ play = [max_steps |-> None, actions |-> <<>>, idle |-> 0]
  /\ trajectory = <<>> /\ requests = {} /\ answers = {}
  /\ engine = [episode |-> 0, step |-> 0, done |-> FALSE]
  /\ executed = [commands |-> {}, times |-> 0] /\ given_up = 0

ServerNext ==
  \E m \in requests : Serve(m) \/ Refuse(m, 429) \/ Refuse(m, 401)

ClientNext ==
  \/ Begin \/ Send \/ ConnectFails \/ GiveUp
  \/ \E a \in answers : Receive(a)

Next == ClientNext \/ ServerNext

Spec == Init /\ [][Next]_vars

\* The client's thread runs, and a wait ends with an answer or its timeout.
\* Nothing is asked of the server or the network.
FairSpec == Spec /\ WF_vars(Begin \/ Send \/ ConnectFails)
                 /\ WF_vars(GiveUp \/ \E a \in answers : Receive(a))

-----------------------------------------------------------------------------
(* Properties.                                                             *)

Waits == IF client.status = "waiting" THEN 1 ELSE 0

\* _request's retries are safe but for its timeouts: beyond the commands the
\* client has an observation of, and the one it waits for, the engine has
\* executed at most one request for every attempt given up on.  In a play without
\* timeouts every command is executed exactly once, however often the limiter
\* refused it or the connection failed.
DuplicatesNeedTimeouts ==
  /\ executed.times <= Len(trajectory) + Waits + given_up
  /\ 0..(Len(trajectory) - 1) \subseteq executed.commands

Later(o, p) == o.episode > p.episode \/ (o.episode = p.episode /\ o.step > p.step)

\* Every observation run_episode collects is of a later moment than the one
\* before, although a retry may have moved the engine twice and a late reset
\* may have begun another episode under the client.  Each retry of the reset may so
\* undo all steps of an episode but its last, and nothing else may, while actions
\* that return before the budget is looked at make a play longer by one each: that
\* bounds the length of a play.
TrajectoryAdvances ==
  /\ \A n \in 1..(Len(trajectory) - 1) :
       Later(trajectory[n + 1], trajectory[n])
  /\ Len(trajectory) <= 1 + MaxSteps + MaxRetries * (MaxSteps - 1) + play.idle

\* run_episode comes to an end, it returns or raises: with a cap for every policy,
\* and without one for a policy that does not go on idling, which no budget would
\* stop.  Throttling, lost answers and retried resets use up attempts, of which
\* there are MaxRetries for each command.
PlayEnds == client.status = "sending" ~> client.status \in {"finished", "raised"}

=============================================================================
