-------------------------- MODULE ClientPlay_proofs ---------------------------
(***************************************************************************)
(* What the client collects moves forward, for any number of retries and   *)
(* any network: late, lost and repeated requests included.                 *)
(***************************************************************************)
EXTENDS ClientPlay, FiniteSetTheorems, TLAPS

Obs == [episode : Nat, step : Nat, done : BOOLEAN]

Statuses == {"idle", "sending", "waiting", "finished", "raised"}

\* run_episode's argument and what its policy has done.
Played == [max_steps : StepCaps \cup {None}, actions : Seq(Kinds), idle : Nat]

NotBefore(o, p) == o = p \/ Later(o, p)

\* An answer under way is news to the client, and from the engine's past or
\* present.
News(a) == a.status = 200 => /\ a.obs \in Obs /\ NotBefore(engine, a.obs)
                             /\ \A n \in 1..Len(trajectory) : Later(a.obs, trajectory[n])

InOrder == \A n \in 1..(Len(trajectory) - 1) : Later(trajectory[n + 1], trajectory[n])

\* The engine is never behind the client, and a client that saw the end asks
\* for nothing more.
PlayInv ==
  /\ client \in [status : Statuses, command : Nat, attempt : Nat]
  /\ play \in Played
  /\ engine \in Obs /\ trajectory \in Seq(Obs)
  /\ \A n \in 1..Len(trajectory) : NotBefore(engine, trajectory[n])
  /\ client.status # "finished" => \A n \in 1..Len(trajectory) : ~trajectory[n].done
  /\ \A a \in answers : News(a)
  /\ InOrder

\* A client that has not begun has seen nothing.
LEMMA PlayInit == Init => PlayInv
BY DEF Init, PlayInv, Played, Obs, Statuses, InOrder

\* A command moves the engine on, or finds the episode over.
LEMMA ExecutedForward ==
  ASSUME NEW command, engine \in Obs
  PROVE  /\ Executed(command) \in Obs
         /\ \/ Later(Executed(command), engine)
            \/ engine.done /\ Executed(command) = engine
<1>1. /\ engine.episode \in Nat /\ engine.step \in Nat /\ engine.done \in BOOLEAN
      /\ engine = [episode |-> engine.episode, step |-> engine.step, done |-> engine.done]
  BY DEF Obs
<1>2. CASE command = 0
  BY <1>1, <1>2 DEF Executed, Later, Obs
<1>3. CASE command # 0 /\ engine.done
  BY <1>3 DEF Executed, Stepped
<1>4. CASE command # 0 /\ ~engine.done
  <2> DEFINE ends == Ends(play.actions[command], engine.step + 1)
  <2>1. ends \in BOOLEAN
    BY DEF Ends
  <2>2. Executed(command) = [episode |-> engine.episode, step |-> engine.step + 1,
                             done |-> ends]
    BY <1>1, <1>4 DEF Executed, Stepped
  <2> HIDE DEF ends
  <2> QED
    BY <1>1, <2>1, <2>2 DEF Later, Obs
<1> QED
  BY <1>2, <1>3, <1>4

\* News about an observation is news about all before it.
LEMMA LaterTransitive ==
  ASSUME NEW o \in Obs, NEW p \in Obs, NEW q \in Obs, Later(o, p), NotBefore(p, q)
  PROVE  Later(o, q)
BY DEF Obs, Later, NotBefore

\* A request is served, for a client that waits for it or for nobody.
LEMMA ServeForward ==
  ASSUME PlayInv, NEW m, Serve(m)
  PROVE  PlayInv'
<1>1. /\ engine' = Executed(m[1]) /\ UNCHANGED client_vars
      /\ answers' = answers \cup (IF Reaches(m) THEN {[status |-> 200, obs |-> engine']} ELSE {})
  BY DEF Serve, Execute, Answer
<1>2. client' = client /\ trajectory' = trajectory /\ play' = play
  BY <1>1 DEF client_vars
<1>3. engine \in Obs /\ engine' \in Obs
  BY <1>1, ExecutedForward DEF PlayInv
<1>4. Later(engine', engine) \/ (engine.done /\ engine' = engine)
  BY <1>1, <1>3, ExecutedForward
<1>5. \A p \in Obs : NotBefore(engine, p) => NotBefore(engine', p)
  BY <1>3, <1>4, LaterTransitive DEF NotBefore
<1>6. \A n \in 1..Len(trajectory) : trajectory[n] \in Obs /\ NotBefore(engine, trajectory[n])
  BY DEF PlayInv
<1>7. ASSUME NEW a \in answers' PROVE News(a)'
  <2>1. CASE a \in answers
    BY <1>2, <1>5, <2>1 DEF PlayInv, News, NotBefore
  <2>2. CASE Reaches(m) /\ a = [status |-> 200, obs |-> engine']
    <3>1. \A n \in 1..Len(trajectory) : ~trajectory[n].done
      BY <2>2 DEF Reaches, PlayInv
    <3>2. ASSUME NEW n \in 1..Len(trajectory) PROVE Later(engine', trajectory[n])
      <4>1. CASE Later(engine', engine)
        BY <1>3, <1>6, <4>1, LaterTransitive
      <4>2. CASE engine.done /\ engine' = engine
        BY <1>6, <3>1, <4>2 DEF NotBefore
      <4> QED
        BY <1>4, <4>1, <4>2
    <3> QED
      BY <1>2, <1>3, <2>2, <3>2 DEF News, NotBefore
  <2> QED
    BY <1>1, <2>1, <2>2
<1> QED
  BY <1>2, <1>3, <1>5, <1>6, <1>7 DEF PlayInv, InOrder, NotBefore

\* A refusal is no news.
LEMMA RefuseForward ==
  ASSUME PlayInv, NEW m, NEW status \in {401, 429}, Refuse(m, status)
  PROVE  PlayInv'
<1>1. /\ UNCHANGED <<engine, client, play, trajectory>>
      /\ \A a \in answers' : a \in answers \/ a.status # 200
  BY DEF Refuse, Answer, server, client_vars
<1> QED
  BY <1>1 DEF PlayInv, News, InOrder, NotBefore

\* The client counts its attempts.
LEMMA RetryTyped ==
  ASSUME PlayInv, RetryOrRaise
  PROVE  /\ client' \in [status : Statuses, command : Nat, attempt : Nat]
         /\ client'.status \in {"sending", "raised"}
<1>1. client \in [status : Statuses, command : Nat, attempt : Nat]
  BY DEF PlayInv
<1>2. CASE client.attempt < MaxRetries
  <2>1. client' = [status |-> "sending", command |-> client.command,
                   attempt |-> client.attempt + 1]
    BY <1>1, <1>2 DEF RetryOrRaise
  <2>2. client.command \in Nat /\ client.attempt + 1 \in Nat
    BY <1>1
  <2> QED
    BY <2>1, <2>2 DEF Statuses
<1>3. CASE ~(client.attempt < MaxRetries)
  <2>1. client' = [client EXCEPT !.status = "raised"]
    BY <1>3 DEF RetryOrRaise
  <2> QED
    BY <1>1, <2>1 DEF Statuses
<1> QED
  BY <1>2, <1>3

\* A step that adds nothing to the trajectory and leaves the server alone.
LEMMA QuietForward ==
  ASSUME PlayInv, UNCHANGED <<trajectory, engine>>, answers' \subseteq answers,
         play' \in Played,
         client' \in [status : Statuses, command : Nat, attempt : Nat],
         client.status # "finished"
  PROVE  PlayInv'
<1>1. \A a \in answers' : News(a)'
  BY DEF PlayInv, News, NotBefore
<1> QED
  BY <1>1 DEF PlayInv, InOrder, NotBefore

\* run_episode takes an observation.
Takes(a) ==
  /\ a.status = 200
  /\ trajectory' = Append(trajectory, a.obs)
  /\ \/ GoesOn(a.obs) /\ \E action \in Kinds : Choose(action)
     \/ ~GoesOn(a.obs) /\ Return

\* It goes on with a new command or returns, and idle actions are counted.
LEMMA TakeEffect ==
  ASSUME PlayInv, NEW a, Takes(a)
  PROVE  /\ play' \in Played /\ play'.idle = IdleSeen
         /\ play.idle \in Nat /\ IdleSeen = play.idle + (IF IdleNow THEN 1 ELSE 0)
         /\ client' \in [status : Statuses, command : Nat, attempt : Nat]
         /\ \/ /\ ~a.obs.done /\ client'.status = "sending"
               /\ client'.command = client.command + 1 /\ client'.attempt = 0
            \/ /\ client'.status = "finished"
               /\ client'.command = client.command /\ client'.attempt = client.attempt
<1>1. /\ client \in [status : Statuses, command : Nat, attempt : Nat] /\ play \in Played
      /\ play.idle \in Nat /\ play.actions \in Seq(Kinds)
  BY DEF PlayInv, Played
<1>2. IdleSeen \in Nat /\ IdleSeen = play.idle + (IF IdleNow THEN 1 ELSE 0)
  BY <1>1 DEF IdleSeen
<1>3. CASE GoesOn(a.obs) /\ \E action \in Kinds : Choose(action)
  <2>1. PICK action \in Kinds : Choose(action)
    BY <1>3
  <2>2. play' = [play EXCEPT !.actions = Append(play.actions, action), !.idle = IdleSeen]
    BY <2>1 DEF Choose
  <2>3. Append(play.actions, action) \in Seq(Kinds)
    BY <1>1
  <2>4. play' \in Played /\ play'.idle = IdleSeen
    BY <1>1, <1>2, <2>2, <2>3 DEF Played
  <2>5. client' = [status |-> "sending", command |-> client.command + 1, attempt |-> 0]
    BY <2>1 DEF Choose
  <2>6. ~a.obs.done
    BY <1>3 DEF GoesOn
  <2> QED
    BY <1>1, <1>2, <2>4, <2>5, <2>6 DEF Statuses
<1>4. CASE Return
  <2>1. play' \in Played /\ play'.idle = IdleSeen
    BY <1>1, <1>2, <1>4 DEF Return, Played
  <2>2. client' = [client EXCEPT !.status = "finished"]
    BY <1>4 DEF Return
  <2> QED
    BY <1>1, <1>2, <2>1, <2>2 DEF Statuses
<1> QED
  BY <1>3, <1>4 DEF Takes

\* The client takes an answer.
LEMMA ReceiveForward ==
  ASSUME PlayInv, NEW a \in answers, Receive(a)
  PROVE  PlayInv'
<1>1. client.status = "waiting" /\ engine' = engine /\ answers' = {}
  BY DEF Receive, server
<1> play \in Played
  BY DEF PlayInv
<1>2. CASE a.status = 429 /\ RetryOrRaise /\ UNCHANGED <<play, trajectory>>
  BY <1>1, <1>2, RetryTyped, QuietForward
<1>3. CASE /\ a.status = 401 /\ UNCHANGED <<play, trajectory>>
           /\ client' = [client EXCEPT !.status = "raised"]
  <2>1. client' \in [status : Statuses, command : Nat, attempt : Nat]
    BY <1>3 DEF PlayInv, Statuses
  <2> QED
    BY <1>1, <1>3, <2>1, QuietForward
<1>4. CASE Takes(a)
  <2>1. /\ a.obs \in Obs /\ NotBefore(engine, a.obs)
        /\ \A n \in 1..Len(trajectory) : Later(a.obs, trajectory[n])
    BY <1>4 DEF PlayInv, News, Takes
  <2>2. /\ trajectory \in Seq(Obs) /\ Len(trajectory) \in Nat
        /\ \A n \in 1..Len(trajectory) : NotBefore(engine, trajectory[n]) /\ ~trajectory[n].done
    BY <1>1 DEF PlayInv
  <2>3. /\ trajectory' \in Seq(Obs) /\ Len(trajectory') = Len(trajectory) + 1
        /\ trajectory'[Len(trajectory) + 1] = a.obs
        /\ \A n \in 1..Len(trajectory) : trajectory'[n] = trajectory[n]
    BY <1>4, <2>1, <2>2 DEF Takes
  <2>4. \A n \in 1..Len(trajectory') : n \in 1..Len(trajectory) \/ n = Len(trajectory) + 1
    BY <2>2, <2>3
  <2>5. /\ client' \in [status : Statuses, command : Nat, attempt : Nat]
        /\ client'.status # "finished" => ~a.obs.done
        /\ play' \in Played
    BY <1>4, TakeEffect
  <2>6. \A n \in 1..Len(trajectory') : NotBefore(engine, trajectory'[n])
    BY <2>1, <2>2, <2>3, <2>4
  <2>7. client'.status # "finished" => \A n \in 1..Len(trajectory') : ~trajectory'[n].done
    BY <2>2, <2>3, <2>4, <2>5
  <2>8. ASSUME NEW n \in 1..(Len(trajectory') - 1)
        PROVE  Later(trajectory'[n + 1], trajectory'[n])
    <3>1. n \in 1..Len(trajectory)
      BY <2>2, <2>3
    <3>2. CASE n = Len(trajectory)
      BY <2>1, <2>3, <3>1, <3>2
    <3>3. CASE n \in 1..(Len(trajectory) - 1)
      <4>1. n + 1 \in 1..Len(trajectory) /\ Later(trajectory[n + 1], trajectory[n])
        BY <2>2, <3>3 DEF PlayInv, InOrder
      <4> QED
        BY <2>3, <3>1, <4>1
    <3> QED
      BY <2>2, <3>1, <3>2, <3>3
  <2>9. engine' \in Obs
    BY <1>1 DEF PlayInv
  <2> QED
    BY <1>1, <2>3, <2>5, <2>6, <2>7, <2>8, <2>9 DEF PlayInv, InOrder, NotBefore
<1> QED
  BY <1>2, <1>3, <1>4 DEF Receive, Takes

\* Every step keeps the client's view no further than the engine.
LEMMA PlayStep == PlayInv /\ [Next]_vars => PlayInv'
<1> SUFFICES ASSUME PlayInv, [Next]_vars PROVE PlayInv'
  OBVIOUS
<1>1. CASE UNCHANGED vars
  <2>1. UNCHANGED <<client, play, trajectory, engine, answers>>
    BY <1>1 DEF vars, client_vars, network, server
  <2> QED
    BY <2>1 DEF PlayInv, News, InOrder, NotBefore
<1>2. CASE Begin
  <2>1. /\ client.status = "idle" /\ UNCHANGED <<trajectory, engine, answers>>
        /\ client' \in [status : Statuses, command : Nat, attempt : Nat]
    BY <1>2 DEF Begin, network, server, Statuses
  <2>2. play' \in Played
    <3>1. PICK cap \in StepCaps : play' = [max_steps |-> cap, actions |-> <<>>, idle |-> 0]
      BY <1>2 DEF Begin
    <3> QED
      BY <3>1 DEF Played
  <2> QED
    BY <2>1, <2>2, QuietForward
<1>3. CASE Send
  <2>1. /\ client.status = "sending" /\ UNCHANGED <<play, trajectory, engine, answers>>
        /\ client' \in [status : Statuses, command : Nat, attempt : Nat]
    BY <1>3 DEF Send, PlayInv, server, Statuses
  <2>2. play' \in Played
    BY <2>1 DEF PlayInv
  <2> QED
    BY <2>1, <2>2, QuietForward
<1>4. CASE ConnectFails
  BY <1>4, RetryTyped, QuietForward DEF ConnectFails, PlayInv, network, server
<1>5. CASE GiveUp
  BY <1>5, RetryTyped, QuietForward DEF GiveUp, PlayInv, server
<1>6. ASSUME NEW a \in answers, Receive(a) PROVE PlayInv'
  BY <1>6, ReceiveForward
<1>7. ASSUME NEW m, Serve(m) PROVE PlayInv'
  BY <1>7, ServeForward
<1>8. ASSUME NEW m, Refuse(m, 429) \/ Refuse(m, 401) PROVE PlayInv'
  BY <1>8, RefuseForward
<1> QED
  BY <1>1, <1>2, <1>3, <1>4, <1>5, <1>6, <1>7, <1>8 DEF Next, ClientNext, ServerNext

-----------------------------------------------------------------------------
(* What retries may cost.  A request that was sent is on its way, executed *)
(* or refused, and the client has an answer to it, waits for it or gave it *)
(* up; a refusal gives back what its attempt was counted for.              *)

Refused == \E a \in answers : a.status # 200
Returned == IF Refused THEN 1 ELSE 0

CostInv ==
  /\ IsFiniteSet(requests)
  /\ executed.times \in Nat /\ given_up \in Nat
  /\ Cardinality(requests) + executed.times + Returned <= Len(trajectory) + Waits + given_up
  /\ answers # {} => client.status = "waiting"
  /\ \A a \in answers : a.status = 200 => client.command \in executed.commands
  /\ client.status # "finished" => client.command = Len(trajectory)
  /\ client.status = "idle" => client.command = 0
  /\ 0..(Len(trajectory) - 1) \subseteq executed.commands

\* At first nothing is executed and nothing awaits execution.
LEMMA CostInit == Init => CostInv
<1> SUFFICES ASSUME Init PROVE CostInv
  OBVIOUS
<1>1. IsFiniteSet(requests) /\ Cardinality(requests) = 0
  BY FS_EmptySet DEF Init
<1>2. /\ trajectory = <<>> /\ answers = {} /\ given_up = 0
      /\ executed.times = 0 /\ client.command = 0 /\ client.status = "idle"
  BY DEF Init
<1>3. Returned = 0 /\ Waits = 0
  BY <1>2 DEF Returned, Refused, Waits
<1> QED
  BY <1>1, <1>2, <1>3 DEF CostInv

\* The counts are numbers.
LEMMA CountsTyped ==
  ASSUME PlayInv, CostInv
  PROVE  /\ Len(trajectory) \in Nat /\ Cardinality(requests) \in Nat
         /\ executed.times \in Nat /\ given_up \in Nat
         /\ Waits \in {0, 1} /\ Returned \in {0, 1}
BY FS_CardinalityType DEF PlayInv, CostInv, Waits, Returned

\* A request that is no longer on its way.
LEMMA OneRequestLess ==
  ASSUME CostInv, NEW m \in requests, requests' = requests \ {m}
  PROVE  /\ IsFiniteSet(requests') /\ Cardinality(requests') = Cardinality(requests) - 1
         /\ Cardinality(requests') \in Nat
<1>1. IsFiniteSet(requests)
  BY DEF CostInv
<1>2. /\ IsFiniteSet(requests \ {m})
      /\ Cardinality(requests \ {m}) = Cardinality(requests) - 1
  BY <1>1, FS_RemoveElement
<1> QED
  BY <1>2, FS_CardinalityType

\* Executing a request spends what its sending allowed for.
LEMMA ServeCosts ==
  ASSUME PlayInv, CostInv, NEW m \in requests, Serve(m)
  PROVE  CostInv'
<1>1. /\ UNCHANGED <<client, trajectory, given_up>>
      /\ executed' = [commands |-> executed.commands \cup {m[1]}, times |-> executed.times + 1]
      /\ answers' = answers \cup (IF Reaches(m) THEN {[status |-> 200, obs |-> engine']} ELSE {})
      /\ requests' = requests \ {m}
  BY DEF Serve, Execute, Answer, client_vars
<1>2. /\ executed'.times = executed.times + 1
      /\ executed'.commands = executed.commands \cup {m[1]}
  BY <1>1
<1>3. Reaches(m) => client.status = "waiting" /\ m[1] = client.command
  BY DEF Reaches
<1>4. Returned' = Returned /\ Waits' = Waits
  BY <1>1 DEF Returned, Refused, Waits
<1>5. /\ answers' # {} => client.status = "waiting"
      /\ \A a \in answers' : a.status = 200 => client.command \in executed'.commands
  BY <1>1, <1>2, <1>3 DEF CostInv
<1>6. /\ IsFiniteSet(requests') /\ Cardinality(requests') = Cardinality(requests) - 1
      /\ Cardinality(requests') \in Nat
  BY <1>1, OneRequestLess
<1>7. /\ executed'.times \in Nat
      /\ Cardinality(requests') + executed'.times + Returned' <= Len(trajectory') + Waits' + given_up'
  BY <1>1, <1>2, <1>4, <1>6, CountsTyped DEF CostInv
<1> QED
  BY <1>1, <1>2, <1>5, <1>6, <1>7 DEF CostInv

\* A refusal executes nothing and leaves room for the retry.
LEMMA RefuseCosts ==
  ASSUME PlayInv, CostInv, NEW m \in requests, NEW status \in {401, 429}, Refuse(m, status)
  PROVE  CostInv'
<1>1. /\ UNCHANGED <<client, trajectory, given_up, executed>>
      /\ answers' = answers \cup (IF Reaches(m) THEN {[status |-> status, obs |-> engine]} ELSE {})
      /\ requests' = requests \ {m}
  BY DEF Refuse, Answer, client_vars, server
<1>2. Waits' = Waits /\ Returned' \in {0, 1}
  BY <1>1 DEF Waits, Returned
<1>3. /\ answers' # {} => client.status = "waiting"
      /\ \A a \in answers' : a.status = 200 => client.command \in executed.commands
  BY <1>1 DEF CostInv, Reaches
<1>4. /\ IsFiniteSet(requests') /\ Cardinality(requests') = Cardinality(requests) - 1
      /\ Cardinality(requests') \in Nat
  BY <1>1, OneRequestLess
<1>5. Cardinality(requests') + Returned' <= Cardinality(requests) + Returned
  <2>1. CASE Reaches(m)
    BY <1>2, <1>4, CountsTyped
  <2>2. CASE ~Reaches(m)
    <3>1. Returned' = Returned
      BY <1>1, <2>2 DEF Returned, Refused
    <3> QED
      BY <1>4, <3>1, CountsTyped
  <2> QED
    BY <2>1, <2>2
<1>6. Cardinality(requests') + executed'.times + Returned' <= Len(trajectory') + Waits' + given_up'
  BY <1>1, <1>2, <1>5, <1>4, CountsTyped DEF CostInv
<1> QED
  BY <1>1, <1>3, <1>4, <1>6 DEF CostInv

\* A wait that ends without an observation: the attempt was given up or refused.
LEMMA WaitEnds ==
  ASSUME PlayInv, CostInv, client.status = "waiting", answers' = {},
         UNCHANGED <<trajectory, requests, executed>>,
         client'.status \in {"sending", "raised"}, client'.command = client.command,
         \/ given_up' = given_up + 1
         \/ given_up' = given_up /\ Refused
  PROVE  CostInv'
<1>1. Waits = 1 /\ Waits' = 0 /\ Returned' = 0
  BY DEF Waits, Returned, Refused
<1>2. Refused => Returned = 1
  BY DEF Returned
<1>3. Cardinality(requests') + executed'.times + Returned' <= Len(trajectory') + Waits' + given_up'
  BY <1>1, <1>2, CountsTyped DEF CostInv
<1> QED
  BY <1>3, CountsTyped DEF CostInv

\* A retry repeats the command or gives up on the play.
LEMMA RetryKeepsCommand ==
  ASSUME PlayInv, RetryOrRaise
  PROVE  client'.command = client.command /\ client'.status \in {"sending", "raised"}
<1>1. client \in [status : Statuses, command : Nat, attempt : Nat]
  BY DEF PlayInv
<1> QED
  BY <1>1 DEF RetryOrRaise

\* An answer is for the command that has just been executed.
LEMMA ReceiveCosts ==
  ASSUME PlayInv, CostInv, NEW a \in answers, Receive(a)
  PROVE  CostInv'
<1>1. client.status = "waiting" /\ answers' = {} /\ UNCHANGED <<requests, executed, given_up>>
  BY DEF Receive, server
<1>2. CASE a.status = 429 /\ RetryOrRaise /\ UNCHANGED <<play, trajectory>>
  <2>1. Refused
    BY <1>2 DEF Refused
  <2> QED
    BY <1>1, <1>2, <2>1, RetryKeepsCommand, WaitEnds
<1>3. CASE /\ a.status = 401 /\ UNCHANGED <<play, trajectory>>
           /\ client' = [client EXCEPT !.status = "raised"]
  <2>1. Refused
    BY <1>3 DEF Refused
  <2>2. client'.status = "raised" /\ client'.command = client.command
    BY <1>3 DEF PlayInv
  <2> QED
    BY <1>1, <1>3, <2>1, <2>2, WaitEnds
<1>4. CASE Takes(a)
  <2>1. /\ client.command = Len(trajectory) /\ client.command \in executed.commands
        /\ Len(trajectory) \in Nat
    BY <1>1, <1>4, CountsTyped DEF CostInv, Takes
  <2>2. Len(trajectory') = Len(trajectory) + 1
    BY <1>4, <2>1 DEF PlayInv, News, Takes
  <2>3. /\ client'.status # "finished" => client'.command = client.command + 1
        /\ client'.status \in {"sending", "finished"}
    BY <1>1, <1>4, TakeEffect
  <2>4. Waits = 1 /\ Waits' = 0 /\ Returned' = 0
    BY <1>1, <2>3 DEF Waits, Returned, Refused
  <2>5. Cardinality(requests') + executed'.times + Returned' <= Len(trajectory') + Waits' + given_up'
    BY <1>1, <2>2, <2>4, CountsTyped DEF CostInv
  <2>6. ASSUME NEW c \in 0..(Len(trajectory') - 1) PROVE c \in executed'.commands
    <3>1. c \in 0..(Len(trajectory) - 1) \/ c = client.command
      BY <2>1, <2>2
    <3> QED
      BY <1>1, <2>1, <3>1 DEF CostInv
  <2> QED
    BY <1>1, <2>1, <2>2, <2>3, <2>5, <2>6 DEF CostInv
<1> QED
  BY <1>2, <1>3, <1>4 DEF Receive, Takes

\* Each sending adds one request and nothing else.
LEMMA SendCosts ==
  ASSUME PlayInv, CostInv, Send
  PROVE  CostInv'
<1>1. /\ UNCHANGED <<trajectory, answers, executed, given_up>>
      /\ client' = [client EXCEPT !.status = "waiting"]
      /\ requests' = requests \cup {<<client.command, client.attempt>>}
      /\ client.status = "sending"
  BY DEF Send, server
<1>2. client'.status = "waiting" /\ client'.command = client.command
  BY <1>1 DEF PlayInv
<1>3. Waits = 0 /\ Waits' = 1 /\ Returned' = Returned
  BY <1>1, <1>2 DEF Waits, Returned, Refused
<1>4. IsFiniteSet(requests') /\ Cardinality(requests') <= Cardinality(requests) + 1
      /\ Cardinality(requests') \in Nat
  <2> DEFINE m == <<client.command, client.attempt>>
  <2>1. IsFiniteSet(requests) /\ Cardinality(requests) \in Nat
    BY CountsTyped DEF CostInv
  <2> HIDE DEF m
  <2>2. /\ IsFiniteSet(requests \cup {m})
        /\ Cardinality(requests \cup {m}) = Cardinality(requests)
             \/ Cardinality(requests \cup {m}) = Cardinality(requests) + 1
    BY <2>1, FS_AddElement
  <2> QED
    BY <1>1, <2>1, <2>2 DEF m
<1>5. Cardinality(requests') + executed'.times + Returned' <= Len(trajectory') + Waits' + given_up'
  BY <1>1, <1>3, <1>4, CountsTyped DEF CostInv
<1> QED
  BY <1>1, <1>2, <1>4, <1>5 DEF CostInv

\* Every step keeps the account of requests and executions.
LEMMA CostStep == PlayInv /\ CostInv /\ [Next]_vars => CostInv'
<1> SUFFICES ASSUME PlayInv, CostInv, [Next]_vars PROVE CostInv'
  OBVIOUS
<1>1. CASE UNCHANGED vars
  <2>1. UNCHANGED <<client, trajectory, executed, answers, requests, given_up>>
    BY <1>1 DEF vars, client_vars, network, server
  <2> QED
    BY <2>1 DEF CostInv, Returned, Refused, Waits
<1>2. CASE Begin \/ ConnectFails
  <2>1. /\ client.status \in {"idle", "sending"} /\ client'.status \in {"sending", "raised"}
        /\ client.status = "sending" => client'.command = client.command
        /\ client.status = "idle" => client'.command = 0
        /\ UNCHANGED <<trajectory, executed, answers, requests, given_up>>
    BY <1>2, RetryKeepsCommand DEF Begin, ConnectFails, network, server
  <2>2. Waits' = Waits /\ Returned' = Returned /\ answers = {}
    BY <2>1 DEF Waits, Returned, Refused, CostInv
  <2>3. client.status = "idle" => client.command = 0
    BY DEF CostInv
  <2> QED
    BY <2>1, <2>2, <2>3 DEF CostInv
<1>3. CASE Send
  BY <1>3, SendCosts
<1>4. CASE GiveUp
  <2>1. /\ client.status = "waiting" /\ answers' = {} /\ given_up' = given_up + 1
        /\ UNCHANGED <<trajectory, requests, executed>> /\ RetryOrRaise
    BY <1>4 DEF GiveUp, server
  <2> QED
    BY <2>1, RetryKeepsCommand, WaitEnds
<1>5. ASSUME NEW a \in answers, Receive(a) PROVE CostInv'
  BY <1>5, ReceiveCosts
<1>6. ASSUME NEW m \in requests, Serve(m) PROVE CostInv'
  BY <1>6, ServeCosts
<1>7. ASSUME NEW m \in requests, Refuse(m, 429) \/ Refuse(m, 401) PROVE CostInv'
  BY <1>7, RefuseCosts
<1> QED
  BY <1>1, <1>2, <1>3, <1>4, <1>5, <1>6, <1>7 DEF Next, ClientNext, ServerNext

\* A command is executed more than once only for an attempt given up on, and
\* every command with an observation was executed, for every number of retries
\* and steps (SOCTriageClient._request).
THEOREM RetriesCostTimeouts == Spec => []DuplicatesNeedTimeouts
<1>1. PlayInv /\ CostInv => DuplicatesNeedTimeouts
  <2> SUFFICES ASSUME PlayInv, CostInv PROVE DuplicatesNeedTimeouts
    OBVIOUS
  <2>1. executed.times <= Len(trajectory) + Waits + given_up
    BY CountsTyped DEF CostInv
  <2> QED
    BY <2>1 DEF DuplicatesNeedTimeouts, CostInv
<1> QED
  BY <1>1, PlayInit, PlayStep, CostInit, CostStep, PTL DEF Spec

-----------------------------------------------------------------------------
(* How long a play can be.                                                 *)

Resets == {m \in requests : m[1] = 0}

\* The attempts at the reset whose request may have left.
Begun == IF client.command # 0 THEN MaxRetries + 1
         ELSE CASE client.status = "idle"    -> 0
                [] client.status = "sending" -> client.attempt
                [] OTHER                     -> client.attempt + 1

\* How far into its episode an observation is: an episode that goes on is before its
\* last step, however often its clock has moved without the budget being looked at.
Reach(o) == IF o.done THEN MaxSteps ELSE IF o.step < MaxSteps THEN o.step ELSE MaxSteps - 1

\* The place of an observation among all that can be told apart by a client that has
\* not seen an end: an episode is left one step before its last at most, and the next
\* is first seen after a step.
Place(o) == (o.episode - 1) * (MaxSteps - 1) + Reach(o)

\* An observation whose step was counted against the budget.
Counted(o) == o.done \/ o.step < MaxSteps

LengthInv ==
  /\ client.attempt <= MaxRetries
  /\ engine.episode + Cardinality(Resets) <= Begun
  /\ engine.done => engine.step >= 1
  /\ engine.episode = 0 => /\ client.command = 0
                           /\ \A m \in requests : m[1] = 0
                           /\ \A a \in answers : a.status # 200
  /\ \A a \in answers : a.status = 200 => /\ a.obs.episode >= 1
                                          /\ client.command # 0 => a.obs.step >= 1
                                          /\ IdleNow \/ Counted(a.obs)
  /\ trajectory # <<>> => LET last == trajectory[Len(trajectory)]
                          IN  /\ last.episode >= 1
                              /\ Len(trajectory) <= 1 + Place(last) + play.idle

\* The types the counting needs.
LEMMA LengthTypes ==
  ASSUME PlayInv, CostInv, LengthInv
  PROVE  /\ client.attempt \in Nat /\ client.command \in Nat /\ client.status \in Statuses
         /\ engine.episode \in Nat /\ engine.step \in Nat /\ engine.done \in BOOLEAN
         /\ IsFiniteSet(Resets) /\ Cardinality(Resets) \in Nat
         /\ Begun \in Nat /\ Begun <= MaxRetries + 1 /\ MaxRetries \in Nat /\ MaxSteps \in Nat \ {0}
<1>1. /\ client \in [status : Statuses, command : Nat, attempt : Nat] /\ engine \in Obs
      /\ IsFiniteSet(requests) /\ client.attempt <= MaxRetries
  BY DEF PlayInv, CostInv, LengthInv
<1>2. Resets \subseteq requests
  BY DEF Resets
<1>3. IsFiniteSet(Resets) /\ Cardinality(Resets) \in Nat
  BY <1>1, <1>2, FS_Subset, FS_CardinalityType
<1>4. MaxRetries \in Nat /\ MaxSteps \in Nat \ {0}
  BY ClientAssumption
<1> QED
  BY <1>1, <1>3, <1>4 DEF Begun, Obs, Statuses

\* Products keep the order.
LEMMA ProductGrows ==
  ASSUME NEW d \in Nat, NEW k \in Nat, NEW l \in Nat, k <= l
  PROVE  k * d <= l * d
<1>1. PICK j \in Nat : l = k + j
  <2>1. l - k \in Nat /\ l = k + (l - k)
    OBVIOUS
  <2> QED
    BY <2>1
<1>2. l * d = k * d + j * d
  BY <1>1
<1>3. j * d \in Nat /\ k * d \in Nat
  BY <1>1
<1> QED
  BY <1>2, <1>3

\* An episode that goes on has not reached its end.
LEMMA ReachBounded ==
  ASSUME NEW o \in Obs
  PROVE  /\ Reach(o) \in Nat /\ Reach(o) <= MaxSteps
         /\ ~o.done => Reach(o) <= MaxSteps - 1
         /\ Counted(o) /\ ~o.done => Reach(o) = o.step
BY ClientAssumption DEF Obs, Reach, Counted

\* News seen after a step, for a client that has not seen the end, is at no earlier
\* place, and at a later one if its step was counted.
LEMMA PlaceGrows ==
  ASSUME NEW o \in Obs, NEW p \in Obs, Later(o, p), p.episode >= 1, ~p.done, o.step >= 1
  PROVE  /\ Place(p) \in Int /\ Place(o) \in Int /\ Place(p) <= Place(o)
         /\ Counted(o) => Place(p) < Place(o)
<1>1. /\ o.episode \in Nat /\ o.step \in Nat /\ p.episode \in Nat /\ p.step \in Nat
      /\ p.episode >= 1 /\ MaxSteps \in Nat \ {0}
  BY ClientAssumption DEF Obs
<1> DEFINE d == MaxSteps - 1
           before == (p.episode - 1) * d
           after == (o.episode - 1) * d
<1>2. d \in Nat /\ Reach(p) <= d /\ o.episode >= p.episode /\ Reach(p) \in Nat /\ Reach(o) \in Nat
  BY <1>1, ReachBounded DEF Later
<1>3. before \in Int /\ after \in Int
  <2>1. p.episode - 1 \in Nat /\ o.episode - 1 \in Nat
    BY <1>1, <1>2
  <2> HIDE DEF d
  <2> QED
    BY <1>2, <2>1
<1>4. Place(p) = before + Reach(p) /\ Place(o) = after + Reach(o)
  BY DEF Place
<1>5. Counted(o) => Reach(o) >= 1
  BY <1>1, ReachBounded DEF Reach, Obs
<1>6. CASE o.episode = p.episode
  <2>1. before = after /\ p.step < o.step
    BY <1>1, <1>6 DEF Later
  <2>2. Reach(p) <= Reach(o) /\ (Counted(o) => Reach(p) < Reach(o))
    BY <1>1, <2>1 DEF Reach, Counted
  <2> HIDE DEF before, after
  <2> QED
    BY <1>2, <1>3, <1>4, <2>1, <2>2
<1>7. CASE o.episode # p.episode
  <2>1. p.episode \in Nat /\ o.episode - 1 \in Nat /\ p.episode <= o.episode - 1
    BY <1>1, <1>2, <1>7
  <2>2. p.episode * d <= after
    BY <1>2, <2>1, ProductGrows
  <2>3. p.episode * d = before + d
    <3>1. p.episode = (p.episode - 1) + 1
      BY <1>1
    <3> HIDE DEF d
    <3> QED
      BY <1>1, <1>2, <3>1
  <2> HIDE DEF d, before, after
  <2> QED
    BY <1>2, <1>3, <1>4, <1>5, <2>2, <2>3
<1> QED
  BY <1>6, <1>7

\* No place is before the first, and the last is given by the retries of the reset.
LEMMA PlaceBounded ==
  ASSUME NEW o \in Obs, o.episode >= 1
  PROVE  /\ Place(o) \in Nat
         /\ o.episode <= MaxRetries + 1 => Place(o) <= MaxSteps + MaxRetries * (MaxSteps - 1)
<1> DEFINE d == MaxSteps - 1
           k == o.episode - 1
<1>1. /\ d \in Nat /\ k \in Nat /\ Reach(o) \in Nat /\ Reach(o) <= MaxSteps
      /\ MaxRetries \in Nat /\ MaxSteps \in Nat
  BY ClientAssumption, ReachBounded DEF Obs
<1>2. k * d \in Nat /\ Place(o) = k * d + Reach(o)
  <2>1. Place(o) = k * d + Reach(o)
    BY DEF Place
  <2> HIDE DEF d, k
  <2> QED
    BY <1>1, <2>1
<1>3. ASSUME o.episode <= MaxRetries + 1 PROVE k * d <= MaxRetries * d
  <2>1. k <= MaxRetries
    BY <1>1, <1>3 DEF Obs
  <2> HIDE DEF d, k
  <2> QED
    BY <1>1, <2>1, ProductGrows
<1>4. MaxRetries * d \in Nat
  <2> HIDE DEF d
  <2> QED
    BY <1>1
<1> HIDE DEF k
<1>5. o.episode <= MaxRetries + 1 => Place(o) <= MaxSteps + MaxRetries * d
  <2> HIDE DEF d
  <2> QED
    BY <1>1, <1>2, <1>3, <1>4
<1> QED
  BY <1>1, <1>2, <1>5

\* Before the play there are no requests.
LEMMA LengthInit == Init => LengthInv
<1> SUFFICES ASSUME Init PROVE LengthInv
  OBVIOUS
<1>1. Resets = {}
  BY DEF Init, Resets
<1>2. Cardinality(Resets) = 0
  BY <1>1, FS_EmptySet
<1> QED
  BY <1>2, ClientAssumption DEF Init, LengthInv, Begun

\* A move of the client that takes no observation.
LEMMA QuietLength ==
  ASSUME PlayInv, CostInv, LengthInv, UNCHANGED <<trajectory, engine, requests>>,
         answers' \subseteq answers, client'.command = client.command, play' = play,
         client'.attempt <= MaxRetries, Begun' \in Nat, Begun <= Begun'
  PROVE  LengthInv'
<1>1. Resets' = Resets
  BY DEF Resets
<1>2. engine'.episode + Cardinality(Resets') <= Begun'
  BY <1>1, LengthTypes DEF LengthInv
<1> QED
  BY <1>2 DEF LengthInv, IdleNow

\* A retry counts the attempt, or was the last.
LEMMA RetryLength ==
  ASSUME PlayInv, CostInv, LengthInv, RetryOrRaise, client.status \in {"sending", "waiting"}
  PROVE  /\ client'.command = client.command /\ client'.attempt <= MaxRetries
         /\ Begun' \in Nat /\ Begun <= Begun'
<1>1. client \in [status : Statuses, command : Nat, attempt : Nat] /\ MaxRetries \in Nat
  BY ClientAssumption DEF PlayInv
<1>2. client.attempt <= MaxRetries
  BY DEF LengthInv
<1>3. CASE client.attempt < MaxRetries
  <2>1. client' = [client EXCEPT !.status = "sending", !.attempt = @ + 1]
    BY <1>3 DEF RetryOrRaise
  <2>2. /\ client'.status = "sending" /\ client'.attempt = client.attempt + 1
        /\ client'.command = client.command
    BY <1>1, <2>1
  <2> QED
    BY <1>1, <1>3, <2>2 DEF Begun
<1>4. CASE ~(client.attempt < MaxRetries)
  <2>1. client' = [client EXCEPT !.status = "raised"]
    BY <1>4 DEF RetryOrRaise
  <2>2. /\ client'.status = "raised" /\ client'.attempt = client.attempt
        /\ client'.command = client.command
    BY <1>1, <2>1
  <2> QED
    BY <1>1, <1>2, <2>2 DEF Begun
<1> QED
  BY <1>3, <1>4

\* An attempt at the reset is counted when its request leaves.
LEMMA SendLength ==
  ASSUME PlayInv, CostInv, LengthInv, Send
  PROVE  LengthInv'
<1> DEFINE m == <<client.command, client.attempt>>
<1>1. /\ UNCHANGED <<play, trajectory, answers, engine>> /\ requests' = requests \cup {m}
      /\ client' = [client EXCEPT !.status = "waiting"] /\ client.status = "sending"
  BY DEF Send, server
<1>2. /\ client'.status = "waiting" /\ client'.attempt = client.attempt
      /\ client'.command = client.command
  BY <1>1 DEF PlayInv
<1>3. m[1] = client.command
  OBVIOUS
<1> HIDE DEF m
<1>4. engine.episode + Cardinality(Resets') <= Begun'
  <2>1. CASE client.command = 0
    <3>1. Resets' = Resets \cup {m}
      BY <1>1, <1>3, <2>1 DEF Resets
    <3>2. \/ Cardinality(Resets \cup {m}) = Cardinality(Resets)
          \/ Cardinality(Resets \cup {m}) = Cardinality(Resets) + 1
      BY LengthTypes, FS_AddElement
    <3>3. Begun' = Begun + 1
      BY <1>1, <1>2, <2>1 DEF Begun
    <3> QED
      BY <3>1, <3>2, <3>3, LengthTypes DEF LengthInv
  <2>2. CASE client.command # 0
    <3>1. Resets' = Resets /\ Begun' = Begun
      BY <1>1, <1>2, <1>3, <2>2 DEF Resets, Begun
    <3> QED
      BY <3>1 DEF LengthInv
  <2> QED
    BY <2>1, <2>2
<1>5. engine.episode = 0 => \A x \in requests' : x[1] = 0
  BY <1>1, <1>3 DEF LengthInv
<1> QED
  BY <1>1, <1>2, <1>4, <1>5 DEF LengthInv, IdleNow

\* Only a reset begins an episode, and each of its requests does so once.
LEMMA ServeLength ==
  ASSUME PlayInv, CostInv, LengthInv, NEW m \in requests, Serve(m)
  PROVE  LengthInv'
<1>1. /\ UNCHANGED <<client, play, trajectory>>
      /\ engine' = Executed(m[1])
      /\ answers' = answers \cup (IF Reaches(m) THEN {[status |-> 200, obs |-> engine']} ELSE {})
      /\ requests' = requests \ {m}
  BY DEF Serve, Execute, Answer, client_vars
<1>2. Begun' = Begun
  BY <1>1 DEF Begun
<1>3. Reaches(m) => m[1] = client.command
  BY DEF Reaches
<1>4. /\ engine'.episode + Cardinality(Resets') <= Begun' /\ engine'.episode >= 1
      /\ m[1] # 0 => engine'.step >= 1
      /\ engine'.done => engine'.step >= 1
      /\ Counted(engine') \/ (m[1] # 0 /\ play.actions[m[1]] = "idle")
  <2>1. CASE m[1] = 0
    <3>1. engine'.episode = engine.episode + 1 /\ engine'.step = 0 /\ engine'.done = FALSE
      BY <1>1, <2>1 DEF Executed
    <3>2. Resets' = Resets \ {m} /\ m \in Resets
      BY <1>1, <2>1 DEF Resets
    <3>3. Cardinality(Resets') = Cardinality(Resets) - 1
      BY <3>2, LengthTypes, FS_RemoveElement
    <3>4. Counted(engine')
      BY <3>1, ClientAssumption DEF Counted
    <3> QED
      BY <1>2, <2>1, <3>1, <3>3, <3>4, LengthTypes DEF LengthInv
  <2>2. CASE m[1] # 0
    <3>1. engine.episode >= 1
      BY <2>2, LengthTypes DEF LengthInv
    <3>2. Resets' = Resets
      BY <1>1, <2>2 DEF Resets
    <3>3. CASE engine.done
      <4>1. engine' = engine
        BY <1>1, <2>2, <3>3 DEF Executed, Stepped
      <4> QED
        BY <1>2, <3>1, <3>2, <3>3, <4>1, LengthTypes DEF LengthInv, Counted
    <3>4. CASE ~engine.done
      <4> DEFINE action == play.actions[m[1]]
      <4>1. engine' = [engine EXCEPT !.step = @ + 1, !.done = Ends(action, engine.step + 1)]
        BY <1>1, <2>2, <3>4 DEF Executed, Stepped
      <4>2. /\ engine'.episode = engine.episode /\ engine'.step = engine.step + 1
            /\ engine'.done = Ends(action, engine.step + 1)
        BY <4>1 DEF PlayInv, Obs
      <4>3. engine'.episode + Cardinality(Resets') <= Begun' /\ engine'.episode >= 1
        BY <1>2, <3>1, <3>2, <4>2 DEF LengthInv
      <4>4. engine'.step >= 1
        BY <4>2, LengthTypes
      <4>5. Counted(engine') \/ action = "idle"
        <5>1. CASE engine.step + 1 >= MaxSteps
          <6>1. action # "idle" => engine'.done
            BY <4>2, <5>1 DEF Ends
          <6> QED
            BY <6>1 DEF Counted
        <5>2. CASE ~(engine.step + 1 >= MaxSteps)
          <6>1. engine'.step < MaxSteps
            BY <4>2, <5>2, LengthTypes
          <6> QED
            BY <6>1 DEF Counted
        <5> QED
          BY <5>1, <5>2
      <4> QED
        BY <2>2, <4>3, <4>4, <4>5
    <3> QED
      BY <3>3, <3>4
  <2> QED
    BY <2>1, <2>2
<1>5. ASSUME NEW a \in answers', a.status = 200
      PROVE  /\ a.obs.episode >= 1
             /\ client.command # 0 => a.obs.step >= 1
             /\ IdleNow \/ Counted(a.obs)
  <2>1. CASE a \in answers
    BY <1>5, <2>1 DEF LengthInv
  <2>2. CASE Reaches(m) /\ a = [status |-> 200, obs |-> engine']
    BY <1>3, <1>4, <2>2 DEF IdleNow
  <2> QED
    BY <1>1, <2>1, <2>2
<1>6. engine'.episode # 0
  BY <1>4
<1>7. trajectory # <<>> => LET last == trajectory[Len(trajectory)]
                          IN  /\ last.episode >= 1
                              /\ Len(trajectory) <= 1 + Place(last) + play.idle
  BY DEF LengthInv
<1> QED
  BY <1>1, <1>4, <1>5, <1>6, <1>7 DEF LengthInv, IdleNow

\* A refused request begins nothing.
LEMMA RefuseLength ==
  ASSUME PlayInv, CostInv, LengthInv, NEW m \in requests, NEW status \in {401, 429},
         Refuse(m, status)
  PROVE  LengthInv'
<1>1. /\ UNCHANGED <<client, play, trajectory, engine>>
      /\ answers' = answers \cup (IF Reaches(m) THEN {[status |-> status, obs |-> engine]} ELSE {})
      /\ requests' = requests \ {m}
  BY DEF Refuse, Answer, client_vars, server
<1>2. Begun' = Begun
  BY <1>1 DEF Begun
<1>3. Cardinality(Resets') \in Nat /\ Cardinality(Resets') <= Cardinality(Resets)
  <2>1. Resets' \subseteq Resets
    BY <1>1 DEF Resets
  <2> QED
    BY <2>1, LengthTypes, FS_Subset, FS_CardinalityType
<1>4. engine'.episode + Cardinality(Resets') <= Begun'
  BY <1>1, <1>2, <1>3, LengthTypes DEF LengthInv
<1>5. \A a \in answers' : a \in answers \/ a.status # 200
  BY <1>1
<1> QED
  BY <1>1, <1>4, <1>5 DEF LengthInv, IdleNow

\* An observation taken is at a later place than the last.
LEMMA ReceiveLength ==
  ASSUME PlayInv, CostInv, LengthInv, NEW a \in answers, Receive(a)
  PROVE  LengthInv'
<1>1. /\ client.status = "waiting" /\ answers' = {} /\ UNCHANGED <<requests, engine>>
  BY DEF Receive, server
<1>2. CASE a.status = 429 /\ RetryOrRaise /\ UNCHANGED <<play, trajectory>>
  BY <1>1, <1>2, RetryLength, QuietLength
<1>3. CASE /\ a.status = 401 /\ UNCHANGED <<play, trajectory>>
           /\ client' = [client EXCEPT !.status = "raised"]
  <2>1. /\ client'.status = "raised" /\ client'.command = client.command
        /\ client'.attempt = client.attempt
    BY <1>3 DEF PlayInv
  <2>2. Begun' = Begun /\ client'.attempt <= MaxRetries
    BY <1>1, <2>1 DEF Begun, LengthInv
  <2> QED
    BY <1>1, <1>3, <2>1, <2>2, LengthTypes, QuietLength
<1>4. CASE Takes(a)
  <2>1. /\ a.obs \in Obs /\ a.obs.episode >= 1 /\ engine.episode # 0
        /\ client.command # 0 => a.obs.step >= 1
        /\ IdleNow \/ Counted(a.obs)
        /\ \A n \in 1..Len(trajectory) : Later(a.obs, trajectory[n])
    BY <1>4 DEF PlayInv, News, LengthInv, Takes
  <2>2. /\ trajectory \in Seq(Obs) /\ Len(trajectory) \in Nat /\ client.command = Len(trajectory)
        /\ \A n \in 1..Len(trajectory) : ~trajectory[n].done
    BY <1>1 DEF PlayInv, CostInv
  <2>3. Len(trajectory') = Len(trajectory) + 1 /\ trajectory'[Len(trajectory')] = a.obs
    BY <1>4, <2>1, <2>2 DEF Takes
  <2>4. /\ play.idle \in Nat /\ play'.idle \in Nat /\ play.idle <= play'.idle
        /\ IdleNow => play'.idle = play.idle + 1
    BY <1>4, TakeEffect
  <2>5. Len(trajectory') <= 1 + Place(a.obs) + play'.idle
    <3>1. CASE trajectory = <<>>
      BY <2>1, <2>3, <2>4, <3>1, PlaceBounded
    <3>2. CASE trajectory # <<>>
      <4> DEFINE last == trajectory[Len(trajectory)]
      <4>1. Len(trajectory) \in 1..Len(trajectory) /\ Len(trajectory) # 0
        BY <2>2, <3>2
      <4>2. last \in Obs /\ ~last.done /\ Later(a.obs, last) /\ a.obs.step >= 1
        BY <2>1, <2>2, <4>1
      <4>3. last.episode >= 1 /\ Len(trajectory) <= 1 + Place(last) + play.idle
        BY <3>2 DEF LengthInv
      <4>4. /\ Place(last) \in Int /\ Place(a.obs) \in Int /\ Place(last) <= Place(a.obs)
            /\ Counted(a.obs) => Place(last) < Place(a.obs)
        BY <2>1, <4>2, <4>3, PlaceGrows
      <4> HIDE DEF last
      <4>5. CASE IdleNow
        BY <2>2, <2>3, <2>4, <4>3, <4>4, <4>5
      <4>6. CASE Counted(a.obs)
        BY <2>2, <2>3, <2>4, <4>3, <4>4, <4>6
      <4> QED
        BY <2>1, <4>5, <4>6
    <3> QED
      BY <3>1, <3>2
  <2>6. client'.attempt <= MaxRetries /\ Begun' \in Nat /\ Begun <= Begun'
    <3>1. CASE /\ client'.status = "finished" /\ client'.command = client.command
               /\ client'.attempt = client.attempt
      BY <1>1, <3>1, LengthTypes DEF Begun, LengthInv
    <3>2. CASE client'.command = client.command + 1 /\ client'.attempt = 0
      <4>1. client'.command # 0 /\ client'.attempt = 0
        BY <2>2, <3>2
      <4> QED
        BY <4>1, LengthTypes DEF Begun
    <3> QED
      BY <1>4, <3>1, <3>2, TakeEffect
  <2>7. engine'.episode + Cardinality(Resets') <= Begun'
    <3>1. Resets' = Resets
      BY <1>1 DEF Resets
    <3> QED
      BY <1>1, <2>6, <3>1, LengthTypes DEF LengthInv
  <2> QED
    BY <1>1, <2>1, <2>3, <2>5, <2>6, <2>7 DEF LengthInv, IdleNow
<1> QED
  BY <1>2, <1>3, <1>4 DEF Receive, Takes

\* Every step keeps the count of observations below their places.
LEMMA LengthStep == PlayInv /\ CostInv /\ LengthInv /\ [Next]_vars => LengthInv'
<1> SUFFICES ASSUME PlayInv, CostInv, LengthInv, [Next]_vars PROVE LengthInv'
  OBVIOUS
<1>1. CASE UNCHANGED vars
  <2>1. UNCHANGED <<client, play, trajectory, engine, answers, requests>>
    BY <1>1 DEF vars, client_vars, network, server
  <2>2. Begun' = Begun
    BY <2>1 DEF Begun
  <2> QED
    BY <2>1, <2>2, LengthTypes, QuietLength DEF LengthInv
<1>2. CASE Begin
  <2>1. /\ client.status = "idle" /\ UNCHANGED <<trajectory, engine, answers, requests>>
        /\ client'.status = "sending" /\ client'.command = 0 /\ client'.attempt = 0
    BY <1>2 DEF Begin, network, server
  <2>2. client.command = 0 /\ Begun = 0 /\ Begun' = 0
    BY <2>1 DEF CostInv, Begun
  <2>3. trajectory = <<>> /\ answers = {}
    BY <2>1, <2>2 DEF CostInv, PlayInv
  <2>4. Resets' = Resets
    BY <2>1 DEF Resets
  <2> QED
    BY <2>1, <2>2, <2>3, <2>4, ClientAssumption DEF LengthInv
<1>3. CASE Send
  BY <1>3, SendLength
<1>4. CASE ConnectFails \/ GiveUp
  <2>1. /\ client.status \in {"sending", "waiting"} /\ RetryOrRaise /\ answers' \subseteq answers
        /\ UNCHANGED <<play, trajectory, engine, requests>>
    BY <1>4 DEF ConnectFails, GiveUp, network, server
  <2> QED
    BY <2>1, RetryLength, QuietLength
<1>5. ASSUME NEW a \in answers, Receive(a) PROVE LengthInv'
  BY <1>5, ReceiveLength
<1>6. ASSUME NEW m \in requests, Serve(m) PROVE LengthInv'
  BY <1>6, ServeLength
<1>7. ASSUME NEW m \in requests, Refuse(m, 429) \/ Refuse(m, 401) PROVE LengthInv'
  BY <1>7, RefuseLength
<1> QED
  BY <1>1, <1>2, <1>3, <1>4, <1>5, <1>6, <1>7 DEF Next, ClientNext, ServerNext

\* For every number of retries and steps, run_episode's observations are each of a
\* later moment than the one before, and there are no more of them than the retries
\* of the reset and the idle actions account for (SOCTriageClient.run_episode).
THEOREM TrajectoryMovesForward == Spec => []TrajectoryAdvances
<1>1. PlayInv /\ CostInv /\ LengthInv => TrajectoryAdvances
  <2> SUFFICES ASSUME PlayInv, CostInv, LengthInv
               PROVE  Len(trajectory) <= 1 + MaxSteps + MaxRetries * (MaxSteps - 1) + play.idle
    BY DEF PlayInv, InOrder, TrajectoryAdvances
  <2> DEFINE more == MaxRetries * (MaxSteps - 1)
             bound == MaxSteps + more
  <2>1. trajectory \in Seq(Obs) /\ Len(trajectory) \in Nat /\ play.idle \in Nat
    BY DEF PlayInv, Played
  <2>2. more \in Nat /\ bound \in Nat /\ MaxSteps \in Nat
    <3> DEFINE d == MaxSteps - 1
    <3>1. d \in Nat /\ MaxRetries \in Nat /\ MaxSteps \in Nat
      BY ClientAssumption
    <3> HIDE DEF d
    <3>2. MaxRetries * d \in Nat
      BY <3>1
    <3> QED
      BY <3>1, <3>2 DEF d
  <2>3. ASSUME trajectory # <<>>
        PROVE  Len(trajectory) <= 1 + bound + play.idle
    <3> DEFINE last == trajectory[Len(trajectory)]
    <3>1. Len(trajectory) \in 1..Len(trajectory)
      BY <2>1, <2>3
    <3>2. last \in Obs /\ NotBefore(engine, last)
      BY <2>1, <3>1 DEF PlayInv
    <3>3. last.episode >= 1 /\ Len(trajectory) <= 1 + Place(last) + play.idle
      BY <2>3 DEF LengthInv
    <3>4. last.episode <= engine.episode
      BY <3>2, LengthTypes DEF NotBefore, Later, Obs
    <3>5. engine.episode <= MaxRetries + 1
      BY LengthTypes DEF LengthInv
    <3>6. last.episode <= MaxRetries + 1
      BY <3>2, <3>4, <3>5, LengthTypes DEF Obs
    <3>7. Place(last) \in Nat /\ Place(last) <= bound
      BY <3>2, <3>3, <3>6, PlaceBounded
    <3> HIDE DEF last, bound
    <3> QED
      BY <2>1, <2>2, <3>3, <3>7
  <2>4. trajectory = <<>> => Len(trajectory) = 0
    OBVIOUS
  <2>5. Len(trajectory) <= 1 + bound + play.idle
    <3> HIDE DEF bound
    <3> QED
      BY <2>1, <2>2, <2>3, <2>4
  <2>6. 1 + bound = 1 + MaxSteps + more
    <3> HIDE DEF more
    <3> QED
      BY <2>2
  <2> QED
    <3> HIDE DEF bound
    <3> QED
      BY <2>1, <2>5, <2>6
<1> QED
  BY <1>1, PlayInit, PlayStep, CostInit, CostStep, LengthInit, LengthStep, PTL DEF Spec

=============================================================================
