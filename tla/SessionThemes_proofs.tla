------------------------ MODULE SessionThemes_proofs -------------------------
(***************************************************************************)
(* Proofs about SessionThemes, for every set of threads, explanations and  *)
(* scores, every plan of drifts and every table of budgets.                *)
(***************************************************************************)
EXTENDS SessionThemes, FiniteSetTheorems, SequenceTheorems, TLAPS

-----------------------------------------------------------------------------
(* The judge.  A judgement in progress belongs to the holder of the lock   *)
(* and knows what the cache holds; a verdict that was given is cached.     *)

Known(key) == IF key \in DOMAIN cache THEN cache[key] ELSE None

OneCall ==
  \A s \in Slots : call[s] # None => lock = s /\ call[s].known = Known(call[s].key)

CallsTyped ==
  /\ DOMAIN call = Slots
  /\ \A s \in Slots : call[s] # None => call[s].text \in Explanations

Cached ==
  /\ \A k \in DOMAIN cache : cache[k] \in Nat
  /\ \A v \in verdicts : v[1] \in DOMAIN cache /\ v[3] = cache[v[1]]

JudgeInv == CallsTyped /\ OneCall /\ Cached

\* The model's answers and the fallback are numbers.
LEMMA AnswersAreScores ==
  ASSUME NEW text \in Explanations
  PROVE  Answers(text) \subseteq Nat
<1>1. Heuristic \in [Explanations -> Nat] /\ LlmScores \subseteq Nat
  BY ThemeAssumption, Zenon
<1>2. Heuristic[text] \in Nat
  BY <1>1
<1>3. ASSUME NEW x \in Answers(text) PROVE x \in Nat
  <2>1. x \in LlmScores \/ x = 0 \/ x = Heuristic[text]
    BY Zenon DEF Answers
  <2>2. CASE x \in LlmScores
    BY <1>1, <2>2
  <2>3. CASE x = 0
    BY <2>3
  <2>4. CASE x = Heuristic[text]
    BY <1>2, <2>4
  <2> QED
    BY <2>1, <2>2, <2>3, <2>4
<1> QED
  BY <1>3

\* At first nobody is judging.
LEMMA JudgeInit == Init => JudgeInv
<1> SUFFICES ASSUME Init PROVE JudgeInv
  OBVIOUS
<1>1. DOMAIN cache = {} /\ verdicts = {}
  BY DEF Init
<1>2. Cached
  BY <1>1 DEF Cached
<1>3. DOMAIN call = Slots /\ \A s \in Slots : call[s] = None
  BY DEF Init
<1> QED
  BY <1>2, <1>3 DEF JudgeInv, CallsTyped, OneCall

\* A judgement begins when no other is in progress.
LEMMA StartExplainJudge ==
  ASSUME JudgeInv, NEW s \in Slots, NEW text \in Explanations, StartExplain(s, text)
  PROVE  JudgeInv'
<1> USE DEF JudgeInv
<1>1. /\ lock' = s /\ UNCHANGED <<cache, verdicts>> /\ lock = None
      /\ call' = [call EXCEPT ![s] = [key |-> Key, text |-> text, known |-> Known(Key)]]
  BY DEF StartExplain, Free, Known
<1>2. \A x \in Slots : call[x] = None
  BY <1>1, ThemeAssumption DEF OneCall
<1>3. \A x \in Slots : call'[x] = IF x = s THEN [key |-> Key, text |-> text, known |-> Known(Key)]
                                  ELSE None
  BY <1>1, <1>2 DEF CallsTyped
<1>4. CallsTyped'
  BY <1>1, <1>3 DEF CallsTyped
<1>5. OneCall'
  BY <1>1, <1>3 DEF OneCall, Known
<1>6. Cached'
  BY <1>1 DEF Cached
<1> QED
  BY <1>4, <1>5, <1>6

\* A judgement ends with the score the cache holds, or holds from now on.
LEMMA FinishExplainJudge ==
  ASSUME JudgeInv, NEW s \in Slots, FinishExplain(s)
  PROVE  JudgeInv'
<1> USE DEF JudgeInv
<1>1. /\ call[s] # None /\ call[s].text \in Explanations
      /\ lock = s /\ call[s].known = Known(call[s].key)
      /\ call' = [call EXCEPT ![s] = None]
  BY DEF FinishExplain, CallsTyped, OneCall
<1>2. \A x \in Slots : call'[x] = None
  BY <1>1 DEF CallsTyped, OneCall
<1>3. PICK score \in IF call[s].known # None THEN {call[s].known} ELSE Answers(call[s].text) :
        /\ cache' = [k \in DOMAIN cache \cup {call[s].key} |->
                       IF k = call[s].key THEN score ELSE cache[k]]
        /\ verdicts' = verdicts \cup {<<call[s].key, call[s].text, score>>}
  BY DEF FinishExplain
<1>4. /\ score \in Nat
      /\ call[s].key \in DOMAIN cache => score = cache[call[s].key]
  <2>1. CASE call[s].key \in DOMAIN cache
    BY <1>1, <1>3, <2>1, ThemeAssumption DEF Known, Cached
  <2>2. CASE call[s].key \notin DOMAIN cache
    BY <1>1, <1>3, <2>2, AnswersAreScores DEF Known
  <2> QED
    BY <2>1, <2>2
<1>5. Cached'
  BY <1>3, <1>4 DEF Cached
<1>6. CallsTyped' /\ OneCall'
  BY <1>1, <1>2 DEF CallsTyped, OneCall
<1> QED
  BY <1>5, <1>6

\* No other step touches the judge.
LEMMA JudgeStep == JudgeInv /\ [Next]_vars => JudgeInv'
<1> SUFFICES ASSUME JudgeInv, [Next]_vars PROVE JudgeInv'
  OBVIOUS
<1>1. \/ UNCHANGED judging
      \/ \E s \in Slots, text \in Explanations : StartExplain(s, text)
      \/ \E s \in Slots : FinishExplain(s)
  BY DEF Next, Reset, Read, Begin, Step, OpenTicket, ResolveTicket, Rotate, vars, judging
<1>2. CASE UNCHANGED judging
  BY <1>2 DEF judging, JudgeInv, CallsTyped, OneCall, Cached, Known
<1> QED
  BY <1>1, <1>2, StartExplainJudge, FinishExplainJudge

\* An explanation judged again in the same state has the same verdict, for any number
\* of threads, explanations and scores, whenever the model is available
\* (ManagerJudge.judge under the session's lock).
THEOREM OneVerdict == Spec => []RepeatedVerdictStands
<1>1. JudgeInv => RepeatedVerdictStands
  BY DEF JudgeInv, Cached, RepeatedVerdictStands
<1> QED
  BY <1>1, JudgeInit, JudgeStep, PTL DEF Spec

-----------------------------------------------------------------------------
(* The tickets.                                                            *)

Due(t, step) == AtLeast(0, SlaBudget[t.priority] - (step - t.opened))

Measured(t, step) ==
  /\ t.opened <= step
  /\ t.left \in Due(t, step)..SlaBudget[t.priority]
  /\ IsOpen(t) => t.left = Due(t, step)

TicketInv ==
  /\ episode \in Nat /\ actor_step \in Nat
  /\ tickets \in Seq(Ticket)
  /\ ClocksMeasureAge

\* What a step may do to the tickets and their clock.
NewEpisode == episode' = episode + 1 /\ actor_step' = 0 /\ tickets' = <<>>
Passed == /\ episode' = episode /\ actor_step' = actor_step + 1 /\ tickets' = Tick(tickets)
Opened == /\ UNCHANGED <<episode, actor_step>>
          /\ \E a \in Alerts, p \in Priorities :
               tickets' = Append(tickets, [alert |-> a, priority |-> p, status |-> "open",
                                           left |-> SlaBudget[p], opened |-> actor_step])
Resolved == /\ UNCHANGED <<episode, actor_step>>
            /\ \E n \in 1..TicketBound :
                 tickets' = [m \in 1..Len(tickets) |->
                               IF m = n THEN [tickets[m] EXCEPT !.status = "resolved"]
                               ELSE tickets[m]]

\* Every step is one of these to the tickets, or none.
LEMMA TicketSteps ==
  ASSUME [Next]_vars
  PROVE  \/ NewEpisode \/ Passed \/ Opened \/ Resolved
         \/ UNCHANGED <<episode, actor_step, tickets>>
<1>1. CASE Reset \/ Read
  BY <1>1 DEF Reset, Read, Begin, OnReset, NewEpisode, vars, themes
<1>2. CASE Step \/ \E s \in Slots : FinishExplain(s)
  BY <1>2 DEF Step, FinishExplain, OnStep, Passed
<1>3. CASE \E a \in Alerts, p \in Priorities : OpenTicket(a, p)
  BY <1>3 DEF OpenTicket, Opened
<1>4. CASE \E n \in 1..TicketBound : ResolveTicket(n)
  BY <1>4 DEF ResolveTicket, Resolved
<1>5. CASE Rotate \/ \E s \in Slots, text \in Explanations : StartExplain(s, text)
  BY <1>5 DEF Rotate, StartExplain, themes
<1>6. CASE UNCHANGED vars
  BY <1>6 DEF vars, themes
<1> QED
  BY <1>1, <1>2, <1>3, <1>4, <1>5, <1>6 DEF Next

\* The budgets are numbers.
LEMMA Budget ==
  ASSUME NEW t \in Ticket
  PROVE  /\ SlaBudget[t.priority] \in Nat \ {0}
         /\ t.left \in Nat /\ t.opened \in Nat
<1>1. t.priority \in Priorities /\ t.left \in Nat /\ t.opened \in Nat
  BY DEF Ticket
<1>2. SlaBudget \in [Priorities -> Nat \ {0}]
  BY ThemeAssumption, Zenon
<1> QED
  BY <1>1, <1>2

\* A tick is a step of every open clock.
LEMMA TickedMeasured ==
  ASSUME NEW t \in Ticket, NEW step \in Nat, Measured(t, step)
  PROVE  Ticked(t) \in Ticket /\ Measured(Ticked(t), step + 1)
<1> DEFINE b == SlaBudget[t.priority]
<1>1. b \in Nat \ {0} /\ t.left \in Nat /\ t.opened \in Nat
  BY Budget
<1>2. t.opened <= step /\ t.left \in Due(t, step)..b /\ (IsOpen(t) => t.left = Due(t, step))
  BY DEF Measured
<1>3. /\ Due(t, step) = IF 0 < b - (step - t.opened) THEN b - (step - t.opened) ELSE 0
      /\ Due(t, step + 1) = IF 0 < b - (step + 1 - t.opened) THEN b - (step + 1 - t.opened) ELSE 0
  BY <1>1 DEF Due, AtLeast
<1>4. CASE IsOpen(t) /\ t.left > 0
  <2>1. Ticked(t) = [t EXCEPT !.left = t.left - 1]
    BY <1>4 DEF Ticked
  <2>2. t.left - 1 \in Nat
    BY <1>1, <1>4
  <2>3. /\ Ticked(t) \in Ticket /\ Ticked(t).left = t.left - 1
        /\ Ticked(t).opened = t.opened /\ Ticked(t).priority = t.priority
    BY <2>1, <2>2 DEF Ticket
  <2>4. Due(Ticked(t), step + 1) = Due(t, step + 1)
    BY <2>3 DEF Due
  <2> HIDE DEF b
  <2>5. t.left - 1 = Due(t, step + 1) /\ t.left - 1 <= b /\ t.opened <= step + 1
    BY <1>1, <1>2, <1>3, <1>4
  <2>6. Ticked(t).left \in Due(t, step + 1)..b
    BY <1>1, <2>3, <2>5
  <2> QED
    BY <2>3, <2>4, <2>5, <2>6 DEF Measured, b
<1>5. CASE ~(IsOpen(t) /\ t.left > 0)
  <2>1. Ticked(t) = t
    BY <1>5 DEF Ticked
  <2> HIDE DEF b
  <2>2. /\ t.opened <= step + 1 /\ t.left \in Due(t, step + 1)..b
        /\ IsOpen(t) => t.left = Due(t, step + 1)
    BY <1>1, <1>2, <1>3, <1>5
  <2> QED
    BY <2>1, <2>2 DEF Measured, b
<1> QED
  BY <1>4, <1>5

\* Clocks that measure the age of their tickets, ticket by ticket.
LEMMA ClocksByTicket ==
  ClocksMeasureAge <=> \A n \in 1..Len(tickets) : Measured(tickets[n], actor_step)
BY DEF ClocksMeasureAge, Measured, Due

\* Every step keeps tickets and clocks typed.
LEMMA TicketStep == TicketInv /\ [Next]_vars => TicketInv'
<1> SUFFICES ASSUME TicketInv, [Next]_vars PROVE TicketInv'
  OBVIOUS
<1> USE DEF TicketInv
<1>1. \A n \in 1..Len(tickets) : tickets[n] \in Ticket /\ Measured(tickets[n], actor_step)
  BY ClocksByTicket
<1>2. ASSUME episode' \in Nat, actor_step' \in Nat, tickets' \in Seq(Ticket),
             \A n \in 1..Len(tickets') : Measured(tickets'[n], actor_step')
      PROVE  TicketInv'
  BY <1>2 DEF ClocksMeasureAge, Measured, Due
<1>3. CASE NewEpisode
  BY <1>2, <1>3 DEF NewEpisode
<1>4. CASE Passed
  <2>1. /\ Len(tickets') = Len(tickets)
        /\ \A n \in 1..Len(tickets') : tickets'[n] = Ticked(tickets[n])
    BY <1>4 DEF Passed, Tick
  <2>2. \A n \in 1..Len(tickets') : /\ tickets'[n] \in Ticket
                                    /\ Measured(tickets'[n], actor_step')
    BY <1>1, <1>4, <2>1, TickedMeasured DEF Passed
  <2>3. tickets' \in Seq(Ticket)
    BY <1>4, <2>1, <2>2 DEF Passed, Tick
  <2> QED
    BY <1>2, <1>4, <2>2, <2>3 DEF Passed
<1>5. CASE Opened
  <2>1. PICK a \in Alerts, p \in Priorities :
               tickets' = Append(tickets, [alert |-> a, priority |-> p, status |-> "open",
                                           left |-> SlaBudget[p], opened |-> actor_step])
    BY <1>5 DEF Opened
  <2> DEFINE t == [alert |-> a, priority |-> p, status |-> "open",
                   left |-> SlaBudget[p], opened |-> actor_step]
  <2>2. SlaBudget[p] \in Nat \ {0}
    <3>1. SlaBudget \in [Priorities -> Nat \ {0}]
      BY ThemeAssumption, Zenon
    <3> QED
      BY <3>1
  <2>3. t \in Ticket /\ Measured(t, actor_step)
    BY <2>2 DEF Ticket, Measured, Due, AtLeast, IsOpen
  <2> HIDE DEF t
  <2>4. tickets' = Append(tickets, t) /\ actor_step' = actor_step /\ episode' = episode
    BY <1>5, <2>1 DEF Opened, t
  <2>5. tickets' \in Seq(Ticket)
    BY <2>3, <2>4
  <2>6. \A n \in 1..Len(tickets') : Measured(tickets'[n], actor_step)
    BY <1>1, <2>3, <2>4
  <2> QED
    BY <1>2, <2>4, <2>5, <2>6
<1>6. CASE Resolved
  <2>1. /\ Len(tickets') = Len(tickets) /\ actor_step' = actor_step /\ episode' = episode
        /\ \A n \in 1..Len(tickets) :
             tickets'[n] \in {tickets[n], [tickets[n] EXCEPT !.status = "resolved"]}
    BY <1>6 DEF Resolved
  <2>2. ASSUME NEW t \in Ticket, Measured(t, actor_step)
        PROVE  /\ [t EXCEPT !.status = "resolved"] \in Ticket
               /\ Measured([t EXCEPT !.status = "resolved"], actor_step)
    BY <2>2 DEF Ticket, Measured, Due, IsOpen
  <2>3. \A n \in 1..Len(tickets') : /\ tickets'[n] \in Ticket
                                    /\ Measured(tickets'[n], actor_step')
    BY <1>1, <2>1, <2>2
  <2>4. tickets' \in Seq(Ticket)
    <3>1. DOMAIN tickets' = 1..Len(tickets) /\ tickets' = [m \in 1..Len(tickets) |-> tickets'[m]]
      BY <1>6 DEF Resolved
    <3>2. tickets' \in [1..Len(tickets) -> Ticket]
      BY <2>1, <2>3, <3>1
    <3> QED
      BY <3>2
  <2> QED
    BY <1>2, <2>1, <2>3, <2>4
<1>7. CASE UNCHANGED <<episode, actor_step, tickets>>
  BY <1>1, <1>2, <1>7
<1> QED
  BY <1>3, <1>4, <1>5, <1>6, <1>7, TicketSteps

\* Tickets and clocks are always typed.
LEMMA TicketInvariance == Spec => []TicketInv
<1>1. Init => TicketInv
  BY DEF Init, TicketInv, ClocksMeasureAge
<1> QED
  BY <1>1, TicketStep, PTL DEF Spec

\* An SLA clock shows the steps its ticket has been open, for every table of
\* budgets and however many tickets there are (TicketingSystem.tick).
THEOREM ClocksAreRight == Spec => []ClocksMeasureAge
<1>1. TicketInv => ClocksMeasureAge
  BY DEF TicketInv
<1> QED
  BY <1>1, TicketInvariance, PTL

\* Within an episode a breach ends by resolving the ticket only, and a ticket
\* resolved in time never becomes a breach (TicketingSystem.breached).
THEOREM BreachesEnd == Spec => BreachesEndByResolution
<1> DEFINE Kept(t, u) == /\ Breached(t) /\ ~Breached(u) => u.status = "resolved"
                         /\ t.status = "resolved" => u = t
<1>1. ASSUME TicketInv, [Next]_vars, episode' = episode, NEW n \in 1..Len(tickets)
      PROVE  Kept(tickets[n], tickets'[n])
  <2>1. tickets[n] \in Ticket /\ ~NewEpisode
    BY <1>1 DEF TicketInv, NewEpisode
  <2>2. CASE Passed
    <3>1. tickets'[n] = Ticked(tickets[n])
      BY <1>1, <2>2 DEF Passed, Tick
    <3> QED
      BY <2>1, <3>1 DEF Ticked, Breached, IsOpen, Ticket
  <2>3. CASE Opened
    <3>1. tickets'[n] = tickets[n]
      BY <1>1, <2>3 DEF Opened, TicketInv
    <3> QED
      BY <3>1
  <2>4. CASE Resolved
    <3>1. tickets'[n] \in {tickets[n], [tickets[n] EXCEPT !.status = "resolved"]}
      BY <1>1, <2>4 DEF Resolved
    <3> QED
      BY <2>1, <3>1 DEF Breached, Ticket
  <2> QED
    BY <1>1, <2>1, <2>2, <2>3, <2>4, TicketSteps
<1>2. TicketInv /\ [Next]_vars =>
        [episode' = episode =>
           \A n \in 1..Len(tickets) :
             /\ Breached(tickets[n]) /\ ~Breached(tickets'[n]) => tickets'[n].status = "resolved"
             /\ tickets[n].status = "resolved" => tickets'[n] = tickets[n]]_vars
  BY <1>1
<1> QED
  BY <1>2, TicketInvariance, PTL DEF Spec, BreachesEndByResolution

-----------------------------------------------------------------------------
(* The drifting policy: the history of its versions is what plan and clock *)
(* say, for episodes of every length.                                      *)

Version == [activated : Nat, rules : SUBSET DriftKinds]

\* What a step may do to the policy, the actors' clock and their messages.
Begun == /\ \E n \in EpisodeLengths : schedule' \in Plans(n)
         /\ versions' = <<FirstPolicy>> /\ outbox' = <<>> /\ actor_step' = 0
Advanced == /\ actor_step' = actor_step + 1
            /\ outbox' = outbox \o MessagesAt(actor_step', Len(versions))
            /\ MaybeDrift(actor_step')

\* A step begins an episode, advances it, or leaves drift and outbox alone.
LEMMA PolicySteps ==
  ASSUME [Next]_vars
  PROVE  \/ Begun \/ Advanced
         \/ UNCHANGED <<actor_step, schedule, versions, outbox>>
<1>1. CASE Reset \/ Read
  BY <1>1 DEF Reset, Read, Begin, OnReset, Begun, vars, themes, drift
<1>2. CASE Step \/ \E s \in Slots : FinishExplain(s)
  BY <1>2 DEF Step, FinishExplain, OnStep, Advanced
<1>3. CASE \E a \in Alerts, p \in Priorities : OpenTicket(a, p)
  BY <1>3 DEF OpenTicket, drift
<1>4. CASE \E n \in 1..TicketBound : ResolveTicket(n)
  BY <1>4 DEF ResolveTicket, drift
<1>5. CASE Rotate \/ \E s \in Slots, text \in Explanations : StartExplain(s, text)
  BY <1>5 DEF Rotate, StartExplain, themes, drift
<1>6. CASE UNCHANGED vars
  BY <1>6 DEF vars, themes, drift
<1> QED
  BY <1>1, <1>2, <1>3, <1>4, <1>5, <1>6 DEF Next

Planned(s) == s \in Nat /\ 3 <= s /\ \E n \in EpisodeLengths : 10 * s < 9 * n

\* DriftFollowsPlan, with the first policy in its place.
PolicyInv ==
  /\ actor_step \in Nat
  /\ \A s \in schedule : Planned(s)
  /\ versions \in Seq(Version) /\ Len(versions) >= 1 /\ versions[1].activated = 0
  /\ \A n \in 2..Len(versions) : /\ versions[n].activated \in schedule
                                 /\ versions[n].activated <= actor_step
  /\ \A s \in schedule : s <= actor_step =>
       \E n \in 2..Len(versions) : versions[n].activated = s
  /\ \A m, n \in 1..Len(versions) : m < n => versions[m].activated < versions[n].activated

\* No drift is planned outside the window, whatever the episode's length.
LEMMA PlansAreEarly ==
  ASSUME NEW n \in EpisodeLengths, NEW plan \in Plans(n), NEW s \in plan
  PROVE  Planned(s)
<1>1. n \in Nat \ {0}
  BY ThemeAssumption
<1>2. s \in DriftWindow(n)
  BY DEF Plans
<1> DEFINE start == IF 3 < n \div 4 THEN n \div 4 ELSE 3
           fit   == (85 * n) \div 100
           end   == IF start + 1 < fit THEN fit ELSE start + 1
<1>3. n >= 10 /\ s \in start .. (end - 1)
  BY <1>1, <1>2 DEF DriftWindow, AtLeast
<1>4. start \in Nat /\ start >= 3 /\ 4 * start <= n + 2
  BY <1>1, <1>3
<1>5. fit \in Nat /\ 100 * fit <= 85 * n /\ 100 * fit > 85 * n - 100
  BY <1>1
<1> HIDE DEF start, fit
<1>6. end \in Nat /\ (end = fit \/ end = start + 1)
  BY <1>4, <1>5
<1>7. s \in Nat /\ 3 <= s /\ s <= end - 1
  BY <1>3, <1>4, <1>6
<1>8. 10 * s < 9 * n
  BY <1>1, <1>3, <1>4, <1>5, <1>6, <1>7
<1> QED
  BY <1>7, <1>8 DEF Planned

\* Every step keeps the versions those the plan asks for.
LEMMA PolicyStep == PolicyInv /\ [Next]_vars => PolicyInv'
<1> SUFFICES ASSUME PolicyInv, [Next]_vars PROVE PolicyInv'
  OBVIOUS
<1> USE DEF PolicyInv
<1>1. CASE Begun
  <2>1. \A s \in schedule' : Planned(s)
    BY <1>1, PlansAreEarly DEF Begun
  <2>2. FirstPolicy \in Version /\ FirstPolicy.activated = 0
    BY DEF FirstPolicy, Version
  <2>3. /\ versions' \in Seq(Version) /\ Len(versions') = 1 /\ versions'[1].activated = 0
        /\ actor_step' = 0
    BY <1>1, <2>2 DEF Begun
  <2> QED
    BY <2>1, <2>3 DEF Planned
<1>2. CASE Advanced
  <2>1. actor_step' = actor_step + 1 /\ schedule' = schedule
    BY <1>2 DEF Advanced, MaybeDrift
  <2>2. CASE actor_step + 1 \notin schedule /\ UNCHANGED versions
    <3>1. \A s \in schedule : s <= actor_step + 1 => s <= actor_step
      BY <2>2 DEF Planned
    <3>2. \A n \in 2..Len(versions) : versions[n].activated <= actor_step + 1
      <4> TAKE n \in 2..Len(versions)
      <4>1. versions[n].activated \in Nat /\ versions[n].activated <= actor_step
        BY DEF Planned
      <4> QED
        BY <4>1
    <3> QED
      BY <2>1, <2>2, <3>1, <3>2
  <2>3. CASE \E kind \in DriftKinds : /\ actor_step + 1 \in schedule
                                      /\ versions' = Drifted(versions, actor_step + 1, kind)
    <3>1. PICK kind \in DriftKinds : versions' = Drifted(versions, actor_step + 1, kind)
      BY <2>3
    <3> DEFINE v == [activated |-> actor_step + 1,
                     rules |-> versions[Len(versions)].rules \cup ({kind} \ {"tc_update"})]
    <3>2. v \in Version
      <4>1. versions[Len(versions)] \in Version
        OBVIOUS
      <4> QED
        BY <4>1 DEF Version
    <3>3. versions' = Append(versions, v) /\ v.activated = actor_step + 1
      BY <3>1 DEF Drifted
    <3> HIDE DEF v
    <3>4. /\ versions' \in Seq(Version) /\ Len(versions') = Len(versions) + 1
          /\ versions'[Len(versions) + 1].activated = actor_step + 1
          /\ \A n \in 1..Len(versions) : versions'[n] = versions[n]
      BY <3>2, <3>3
    <3>5. \A n \in 1..Len(versions') : n \in 1..Len(versions) \/ n = Len(versions) + 1
      BY <3>4
    <3>6. \A n \in 1..Len(versions) : versions[n].activated \in Nat /\ versions[n].activated <= actor_step
      <4> TAKE n \in 1..Len(versions)
      <4>1. versions[n] \in Version
        OBVIOUS
      <4>2. n = 1 \/ n \in 2..Len(versions)
        OBVIOUS
      <4> QED
        BY <4>1, <4>2 DEF Version
    <3>7. \A n \in 2..Len(versions') : /\ versions'[n].activated \in schedule
                                       /\ versions'[n].activated <= actor_step + 1
      BY <2>3, <3>4, <3>5, <3>6
    <3>8. ASSUME NEW s \in schedule, s <= actor_step + 1
          PROVE  \E n \in 2..Len(versions') : versions'[n].activated = s
      <4>1. CASE s = actor_step + 1
        BY <3>4, <4>1
      <4>2. CASE s <= actor_step
        BY <3>4, <4>2
      <4> QED
        BY <3>8, <4>1, <4>2 DEF Planned
    <3>9. ASSUME NEW m \in 1..Len(versions'), NEW n \in 1..Len(versions'), m < n
          PROVE  versions'[m].activated < versions'[n].activated
      <4>1. m \in 1..Len(versions)
        BY <3>4, <3>9
      <4>2. CASE n \in 1..Len(versions)
        BY <3>4, <3>9, <4>1, <4>2
      <4>3. CASE n = Len(versions) + 1
        BY <3>4, <3>6, <4>1, <4>3
      <4> QED
        BY <3>5, <4>2, <4>3
    <3>10. Len(versions') >= 1 /\ versions'[1].activated = 0
      BY <3>4
    <3>11. \A s \in schedule' : Planned(s)
      BY <2>1
    <3>12. actor_step' \in Nat /\ versions' \in Seq(Version)
      BY <2>1, <3>4
    <3> QED
      BY <2>1, <3>7, <3>8, <3>9, <3>10, <3>11, <3>12
  <2> QED
    BY <1>2, <2>1, <2>2, <2>3 DEF Advanced, MaybeDrift
<1>3. CASE UNCHANGED <<actor_step, schedule, versions, outbox>>
  BY <1>3
<1> QED
  BY <1>1, <1>2, <1>3, PolicySteps

\* The versions are always those the plan asks for.
LEMMA PolicyInvariance == Spec => []PolicyInv
<1>1. Init => PolicyInv
  <2> SUFFICES ASSUME Init PROVE PolicyInv
    OBVIOUS
  <2>1. FirstPolicy \in Version /\ FirstPolicy.activated = 0
    BY DEF FirstPolicy, Version
  <2>2. /\ versions \in Seq(Version) /\ Len(versions) = 1 /\ versions[1].activated = 0
        /\ actor_step = 0 /\ schedule = {}
    BY <2>1 DEF Init
  <2> QED
    BY <2>2 DEF PolicyInv
<1> QED
  BY <1>1, PolicyStep, PTL DEF Spec

\* The version a history has at a step is the last that is not later.
LEMMA ActiveVersion ==
  ASSUME NEW vs, Len(vs) \in Nat, NEW step, NEW v \in 1..Len(vs),
         \A n \in 1..Len(vs) : vs[n].activated > step <=> n > v
  PROVE  ActiveAt(vs, step) = v
<1> DEFINE later == {n \in 1..Len(vs) : vs[n].activated > step}
<1>1. later = (v + 1)..Len(vs)
  OBVIOUS
<1>2. ActiveAt(vs, step) = IF later = {} THEN Len(vs)
                           ELSE (CHOOSE n \in later : \A m \in later : n <= m) - 1
  BY DEF ActiveAt
<1> HIDE DEF later
<1>3. CASE v = Len(vs)
  BY <1>1, <1>2, <1>3
<1>4. CASE v < Len(vs)
  <2>1. v + 1 \in later /\ \A m \in later : v + 1 <= m
    BY <1>1, <1>4
  <2>2. \A n \in later : (\A m \in later : n <= m) => n = v + 1
    BY <1>1, <2>1
  <2>3. (CHOOSE n \in later : \A m \in later : n <= m) = v + 1
    BY <2>1, <2>2
  <2>4. ActiveAt(vs, step) = (CHOOSE n \in later : \A m \in later : n <= m) - 1
    BY <1>2, <2>1, Zenon
  <2>5. ActiveAt(vs, step) = (v + 1) - 1
    BY <2>3, <2>4, Zenon
  <2> QED
    BY <2>5
<1> QED
  BY <1>3, <1>4

\* The policy history is the plan's, for episodes of every length and any number
\* of drifts (PolicyDriftEngine.reset, maybe_drift, current and active_at).
THEOREM PolicyFollowsPlan == Spec => []DriftFollowsPlan
<1>1. PolicyInv => DriftFollowsPlan
  <2> SUFFICES ASSUME PolicyInv PROVE DriftFollowsPlan
    OBVIOUS
  <2> USE DEF PolicyInv
  <2>1. \A s \in schedule : 3 <= s /\ \E n \in EpisodeLengths : 10 * s < 9 * n
    BY DEF Planned
  <2>2. {versions[n].activated : n \in 2..Len(versions)} = {s \in schedule : s <= actor_step}
    OBVIOUS
  <2>3. \A n \in 1..Len(versions) : versions[n].activated > actor_step <=> n > Len(versions)
    <3> TAKE n \in 1..Len(versions)
    <3>1. n = 1 \/ n \in 2..Len(versions)
      OBVIOUS
    <3>2. versions[n] \in Version
      OBVIOUS
    <3> QED
      BY <3>1, <3>2 DEF Version
  <2>4. Len(versions) \in Nat /\ Len(versions) \in 1..Len(versions)
    OBVIOUS
  <2>5. ActiveAt(versions, actor_step) = Len(versions)
    BY <2>3, <2>4, ActiveVersion
  <2> QED
    BY <2>1, <2>2, <2>5 DEF DriftFollowsPlan
<1> QED
  BY <1>1, PolicyInvariance, PTL

-----------------------------------------------------------------------------
(* The actors' messages.                                                   *)

MessageType == [actor : Actors, to : {"manager", "tier1"}, step : Nat, version : Nat]

\* q holds the messages of a step by the actors of A: one of each that writes in
\* it, and none else.
WrittenBy(A, q, step, version) ==
  /\ q \in Seq(MessageType)
  /\ \A n \in 1..Len(q) : /\ q[n].actor \in A /\ q[n].step = step /\ Writes(q[n].actor, step)
                          /\ q[n].actor = "compliance" => q[n].version = version
  /\ \A a \in A : Writes(a, step) => \E n \in 1..Len(q) : q[n].actor = a
  /\ \A m, n \in 1..Len(q) : q[m].actor = q[n].actor => m = n

\* What two groups of actors write in turn, the two write together.
LEMMA MessagesOfMore ==
  ASSUME NEW step, NEW version, NEW A, NEW B, NEW p, NEW q, A \cap B = {},
         WrittenBy(A, p, step, version), WrittenBy(B, q, step, version)
  PROVE  WrittenBy(A \cup B, p \o q, step, version)
<1> DEFINE r == p \o q
<1>1. /\ p \in Seq(MessageType) /\ q \in Seq(MessageType)
      /\ Len(p) \in Nat /\ Len(q) \in Nat
  BY DEF WrittenBy
<1>2. /\ r \in Seq(MessageType) /\ Len(r) = Len(p) + Len(q)
      /\ \A n \in 1..Len(p) : n \in 1..Len(r) /\ r[n] = p[n]
      /\ \A n \in 1..Len(q) : Len(p) + n \in 1..Len(r) /\ r[Len(p) + n] = q[n]
  BY <1>1
<1> HIDE DEF r
<1>3. ASSUME NEW n \in 1..Len(r)
      PROVE  \/ n \in 1..Len(p) /\ r[n] = p[n] /\ r[n].actor \in A
             \/ \E i \in 1..Len(q) : n = Len(p) + i /\ r[n] = q[i] /\ r[n].actor \in B
  <2>1. n \in 1..Len(p) \/ (n - Len(p) \in 1..Len(q) /\ n = Len(p) + (n - Len(p)))
    BY <1>1, <1>2
  <2>2. CASE n \in 1..Len(p)
    BY <1>2, <2>2 DEF WrittenBy
  <2>3. CASE n - Len(p) \in 1..Len(q) /\ n = Len(p) + (n - Len(p))
    <3>1. PICK i \in 1..Len(q) : n = Len(p) + i
      BY <2>3
    <3>2. r[n] = q[i]
      BY <1>2, <3>1
    <3> QED
      BY <3>1, <3>2 DEF WrittenBy
  <2> QED
    BY <2>1, <2>2, <2>3
<1>4. \A n \in 1..Len(r) :
        /\ r[n].actor \in A \cup B /\ r[n].step = step /\ Writes(r[n].actor, step)
        /\ r[n].actor = "compliance" => r[n].version = version
  <2> SUFFICES ASSUME NEW n \in 1..Len(r)
               PROVE  /\ r[n].actor \in A \cup B /\ r[n].step = step
                      /\ Writes(r[n].actor, step)
                      /\ r[n].actor = "compliance" => r[n].version = version
    OBVIOUS
  <2>1. CASE n \in 1..Len(p) /\ r[n] = p[n]
    BY <2>1 DEF WrittenBy
  <2>2. ASSUME NEW i \in 1..Len(q), r[n] = q[i]
        PROVE  /\ r[n].actor \in A \cup B /\ r[n].step = step
               /\ Writes(r[n].actor, step)
               /\ r[n].actor = "compliance" => r[n].version = version
    BY <2>2 DEF WrittenBy
  <2> QED
    BY <1>3, <2>1, <2>2
<1>5. ASSUME NEW a \in A \cup B, Writes(a, step)
      PROVE  \E n \in 1..Len(r) : r[n].actor = a
  <2>1. CASE a \in A
    BY <1>2, <1>5, <2>1 DEF WrittenBy
  <2>2. CASE a \in B
    <3>1. PICK n \in 1..Len(q) : q[n].actor = a
      BY <1>5, <2>2 DEF WrittenBy
    <3> QED
      BY <1>2, <3>1
  <2> QED
    BY <2>1, <2>2
<1>6. ASSUME NEW m \in 1..Len(r), NEW n \in 1..Len(r), r[m].actor = r[n].actor
      PROVE  m = n
  <2>1. CASE r[m].actor \in A
    <3>1. /\ m \in 1..Len(p) /\ r[m] = p[m]
          /\ n \in 1..Len(p) /\ r[n] = p[n]
      BY <1>3, <1>6, <2>1
    <3> QED
      BY <1>6, <3>1 DEF WrittenBy
  <2>2. CASE r[m].actor \in B
    <3>1. PICK i \in 1..Len(q) : m = Len(p) + i /\ r[m] = q[i]
      BY <1>3, <2>2
    <3>2. PICK j \in 1..Len(q) : n = Len(p) + j /\ r[n] = q[j]
      BY <1>3, <1>6, <2>2
    <3>3. i = j
      BY <1>6, <3>1, <3>2 DEF WrittenBy
    <3> QED
      BY <3>1, <3>2, <3>3
  <2> QED
    BY <1>3, <2>1, <2>2
<1> QED
  BY <1>2, <1>4, <1>5, <1>6 DEF WrittenBy, r

\* The messages of a step: one of each actor that writes in it, none else.
LEMMA MessagesOfStep ==
  ASSUME NEW step \in Nat, NEW version \in Nat
  PROVE  LET ms == MessagesAt(step, version)
         IN  /\ ms \in Seq(MessageType)
             /\ \A n \in 1..Len(ms) : /\ ms[n].step = step /\ Writes(ms[n].actor, step)
                                      /\ ms[n].actor = "compliance" => ms[n].version = version
             /\ \A a \in Actors : Writes(a, step) => \E n \in 1..Len(ms) : ms[n].actor = a
             /\ \A m, n \in 1..Len(ms) : ms[m].actor = ms[n].actor => m = n
<1> DEFINE from(a) == IF Writes(a, step) THEN <<Message(a, step, version)>> ELSE <<>>
           ms == MessagesAt(step, version)
<1>1. ms = (from("threat_intel") \o from("compliance")) \o from("end_user")
  BY DEF MessagesAt
<1>2. Actors = {"threat_intel", "compliance", "end_user"}
  BY DEF Actors
<1> HIDE DEF ms
<1>3. ASSUME NEW a \in Actors
      PROVE  WrittenBy({a}, from(a), step, version)
  <2>1. /\ Message(a, step, version) \in MessageType
        /\ Message(a, step, version).actor = a
        /\ Message(a, step, version).step = step
        /\ a = "compliance" => Message(a, step, version).version = version
    BY DEF Message, MessageType, Actors, Addressee
  <2>2. CASE Writes(a, step)
    <3> DEFINE m == Message(a, step, version)
    <3>1. from(a) = <<m>>
      BY <2>2
    <3> HIDE DEF m, from
    <3>2. m \in MessageType /\ m.actor = a /\ m.step = step
          /\ (a = "compliance" => m.version = version)
      BY <2>1 DEF m
    <3> QED
      BY <2>2, <3>1, <3>2 DEF WrittenBy
  <2>3. CASE ~Writes(a, step)
    <3>1. from(a) = <<>>
      BY <2>3
    <3> HIDE DEF from
    <3> QED
      BY <2>3, <3>1 DEF WrittenBy
  <2> QED
    BY <2>2, <2>3
<1> HIDE DEF from
<1>4. WrittenBy({"threat_intel"} \cup {"compliance"},
                from("threat_intel") \o from("compliance"), step, version)
  <2>1. {"threat_intel"} \cap {"compliance"} = {}
    OBVIOUS
  <2> QED
    BY <1>2, <1>3, <2>1, MessagesOfMore
<1>5. WrittenBy(({"threat_intel"} \cup {"compliance"}) \cup {"end_user"}, ms, step, version)
  <2>1. ({"threat_intel"} \cup {"compliance"}) \cap {"end_user"} = {}
    OBVIOUS
  <2> QED
    BY <1>1, <1>2, <1>3, <1>4, <2>1, MessagesOfMore
<1> QED
  BY <1>2, <1>5 DEF WrittenBy, ms

\* Each message has its writer, its step and, when it is the auditor's, the policy
\* its step was played under; and none is missing or twice there.
OutboxInv ==
  /\ outbox \in Seq(MessageType)
  /\ \A n \in 1..Len(outbox) :
       /\ outbox[n].step \in 1..actor_step /\ Writes(outbox[n].actor, outbox[n].step)
       /\ outbox[n].actor = "compliance" =>
            /\ outbox[n].version \in 1..Len(versions)
            /\ \A v \in 1..Len(versions) :
                 versions[v].activated > outbox[n].step - 1 <=> v > outbox[n].version
  /\ \A m, n \in 1..Len(outbox) : m < n => outbox[m].step <= outbox[n].step
  /\ \A a \in Actors, s \in 1..actor_step :
       Writes(a, s) => \E n \in 1..Len(outbox) : outbox[n].actor = a /\ outbox[n].step = s
  /\ \A m, n \in 1..Len(outbox) :
       outbox[m].actor = outbox[n].actor /\ outbox[m].step = outbox[n].step => m = n

\* Versions that come later leave an audit's answer as it was.
LEMMA HistoryOnlyGrows ==
  ASSUME PolicyInv, Advanced
  PROVE  /\ Len(versions) <= Len(versions') /\ Len(versions') \in Nat
         /\ \A v \in 1..Len(versions) : /\ versions'[v] = versions[v]
                                        /\ versions[v].activated \in Nat
                                        /\ versions[v].activated <= actor_step
         /\ \A v \in 1..Len(versions') : v > Len(versions) => versions'[v].activated = actor_step + 1
<1> USE DEF PolicyInv
<1>1. \A v \in 1..Len(versions) : versions[v].activated \in Nat /\ versions[v].activated <= actor_step
  <2> TAKE v \in 1..Len(versions)
  <2>1. v = 1 \/ v \in 2..Len(versions)
    OBVIOUS
  <2>2. versions[v] \in Version
    OBVIOUS
  <2> QED
    BY <2>1, <2>2 DEF Version
<1>2. CASE UNCHANGED versions
  BY <1>1, <1>2
<1>3. CASE \E kind \in DriftKinds : versions' = Drifted(versions, actor_step + 1, kind)
  <2>1. PICK v : versions' = Append(versions, v) /\ v.activated = actor_step + 1
    BY <1>3 DEF Drifted
  <2> QED
    BY <1>1, <2>1
<1> QED
  BY <1>2, <1>3 DEF Advanced, MaybeDrift

\* Every step keeps the outbox complete up to the present step.
LEMMA OutboxStep == PolicyInv /\ OutboxInv /\ [Next]_vars => OutboxInv'
<1> SUFFICES ASSUME PolicyInv, OutboxInv, [Next]_vars PROVE OutboxInv'
  OBVIOUS
<1>1. CASE Begun
  BY <1>1 DEF Begun, OutboxInv
<1>2. CASE UNCHANGED <<actor_step, schedule, versions, outbox>>
  BY <1>2 DEF OutboxInv
<1>3. CASE Advanced
  <2> DEFINE t  == actor_step + 1
             ms == MessagesAt(t, Len(versions))
             old == 1..Len(outbox)
             new == (Len(outbox) + 1)..(Len(outbox) + Len(ms))
  <2>1. actor_step \in Nat /\ t \in Nat /\ Len(versions) \in Nat /\ Len(versions) >= 1
    BY DEF PolicyInv
  <2>2. /\ ms \in Seq(MessageType)
        /\ \A n \in 1..Len(ms) : /\ ms[n].step = t /\ Writes(ms[n].actor, t)
                                 /\ ms[n].actor = "compliance" => ms[n].version = Len(versions)
        /\ \A a \in Actors : Writes(a, t) => \E n \in 1..Len(ms) : ms[n].actor = a
        /\ \A m, n \in 1..Len(ms) : ms[m].actor = ms[n].actor => m = n
    BY <2>1, MessagesOfStep
  <2>3. actor_step' = t /\ outbox' = outbox \o ms
    BY <1>3 DEF Advanced
  <2> HIDE DEF t, ms
  <2>4. outbox \in Seq(MessageType) /\ Len(outbox) \in Nat /\ Len(ms) \in Nat
    BY <2>2 DEF OutboxInv
  <2>5. /\ outbox' \in Seq(MessageType) /\ Len(outbox') = Len(outbox) + Len(ms)
        /\ \A n \in old : n \in 1..Len(outbox') /\ outbox'[n] = outbox[n]
        /\ \A n \in 1..Len(ms) : /\ Len(outbox) + n \in new /\ Len(outbox) + n \in 1..Len(outbox')
                                 /\ outbox'[Len(outbox) + n] = ms[n]
    BY <2>2, <2>3, <2>4
  <2>6. \A n \in 1..Len(outbox') : n \in old \/ n \in new
    BY <2>4, <2>5
  <2>7. ASSUME NEW n \in new
        PROVE  /\ n - Len(outbox) \in 1..Len(ms) /\ outbox'[n] = ms[n - Len(outbox)]
               /\ outbox'[n].step = t /\ Writes(outbox'[n].actor, t)
               /\ outbox'[n].actor = "compliance" => outbox'[n].version = Len(versions)
    <3>1. n - Len(outbox) \in 1..Len(ms) /\ Len(outbox) + (n - Len(outbox)) = n
      BY <2>4
    <3>2. outbox'[n] = ms[n - Len(outbox)]
      BY <2>5, <3>1
    <3> QED
      BY <2>2, <3>1, <3>2
  <2>8. \A n \in old : /\ outbox[n].step \in 1..actor_step /\ outbox[n].step \in Nat
                       /\ outbox[n].step <= t /\ outbox[n].step # t
    BY <2>1 DEF OutboxInv, t
  <2>9. ASSUME NEW n \in 1..Len(outbox')
        PROVE  /\ outbox'[n].step \in 1..t /\ Writes(outbox'[n].actor, outbox'[n].step)
               /\ outbox'[n].actor = "compliance" =>
                    /\ outbox'[n].version \in 1..Len(versions')
                    /\ \A v \in 1..Len(versions') :
                         versions'[v].activated > outbox'[n].step - 1 <=> v > outbox'[n].version
    <3>1. /\ Len(versions) <= Len(versions') /\ Len(versions') \in Nat
          /\ \A v \in 1..Len(versions) : /\ versions'[v] = versions[v]
                                         /\ versions[v].activated \in Nat
                                         /\ versions[v].activated <= actor_step
          /\ \A v \in 1..Len(versions') : v > Len(versions) => versions'[v].activated = t
      BY <1>3, HistoryOnlyGrows DEF t
    <3>2. \A v \in 1..Len(versions') : v \in 1..Len(versions) \/ v > Len(versions)
      BY <2>1, <3>1
    <3>3. CASE n \in old
      <4>1. /\ outbox[n].step \in 1..actor_step /\ Writes(outbox[n].actor, outbox[n].step)
            /\ outbox[n].actor = "compliance" =>
                 /\ outbox[n].version \in 1..Len(versions)
                 /\ \A v \in 1..Len(versions) :
                      versions[v].activated > outbox[n].step - 1 <=> v > outbox[n].version
        BY <3>3 DEF OutboxInv
      <4>2. outbox[n].step \in 1..t /\ t > outbox[n].step - 1
        BY <2>1, <4>1 DEF t
      <4>3. ASSUME outbox[n].actor = "compliance", NEW v \in 1..Len(versions')
            PROVE  versions'[v].activated > outbox[n].step - 1 <=> v > outbox[n].version
        <5>1. CASE v \in 1..Len(versions)
          BY <3>1, <4>1, <4>3, <5>1
        <5>2. CASE v > Len(versions)
          <6>1. versions'[v].activated = t
            BY <3>1, <5>2
          <6>2. v > outbox[n].version
            BY <2>1, <3>1, <4>1, <4>3, <5>2
          <6> QED
            BY <4>2, <6>1, <6>2
        <5> QED
          BY <3>2, <5>1, <5>2
      <4>4. outbox[n].actor = "compliance" => outbox[n].version \in 1..Len(versions')
        BY <2>1, <3>1, <4>1
      <4>5. outbox'[n] = outbox[n]
        BY <2>5, <3>3
      <4> QED
        BY <4>1, <4>2, <4>3, <4>4, <4>5
    <3>4. CASE n \in new
      <4>1. t \in 1..t /\ t - 1 = actor_step /\ Len(versions) \in 1..Len(versions')
        BY <2>1, <3>1 DEF t
      <4>2. ASSUME NEW v \in 1..Len(versions')
            PROVE  versions'[v].activated > t - 1 <=> v > Len(versions)
        <5>1. CASE v \in 1..Len(versions)
          BY <2>1, <3>1, <4>1, <5>1
        <5>2. CASE v > Len(versions)
          BY <2>1, <3>1, <4>1, <5>2 DEF t
        <5> QED
          BY <3>2, <5>1, <5>2
      <4> QED
        BY <2>7, <3>4, <4>1, <4>2
    <3> QED
      BY <2>6, <3>3, <3>4
  <2>10. ASSUME NEW m \in 1..Len(outbox'), NEW n \in 1..Len(outbox'), m < n
         PROVE  outbox'[m].step <= outbox'[n].step
    <3>1. CASE m \in old /\ n \in old
      BY <2>5, <2>10, <3>1 DEF OutboxInv
    <3>2. CASE n \in new
      <4>1. outbox'[n].step = t
        BY <2>7, <3>2
      <4>2. outbox'[m].step <= t
        <5>1. CASE m \in old
          BY <2>5, <2>8, <5>1
        <5>2. CASE m \in new
          <6>1. outbox'[m].step = t
            BY <2>7, <5>2
          <6> QED
            BY <2>1, <6>1
        <5> QED
          BY <2>6, <5>1, <5>2
      <4> QED
        BY <4>1, <4>2
    <3>3. CASE m \in new /\ n \in old
      BY <2>4, <2>10, <3>3
    <3> QED
      BY <2>6, <3>1, <3>2, <3>3
  <2>11. ASSUME NEW a \in Actors, NEW s \in 1..t, Writes(a, s)
         PROVE  \E n \in 1..Len(outbox') : outbox'[n].actor = a /\ outbox'[n].step = s
    <3>1. CASE s = t
      <4>0. Writes(a, t)
        BY <2>11, <3>1
      <4>1. PICK n \in 1..Len(ms) : ms[n].actor = a
        BY <2>2, <4>0
      <4>2. Len(outbox) + n \in 1..Len(outbox') /\ outbox'[Len(outbox) + n] = ms[n]
        BY <2>5
      <4>3. ms[n].step = t
        BY <2>2
      <4> QED
        BY <3>1, <4>1, <4>2, <4>3, Zenon
    <3>2. CASE s \in 1..actor_step
      <4>1. PICK n \in old : outbox[n].actor = a /\ outbox[n].step = s
        BY <2>11, <3>2 DEF OutboxInv
      <4> QED
        BY <2>5, <4>1
    <3> QED
      BY <2>1, <3>1, <3>2 DEF t
  <2>12. ASSUME NEW m \in 1..Len(outbox'), NEW n \in 1..Len(outbox'),
                outbox'[m].actor = outbox'[n].actor, outbox'[m].step = outbox'[n].step
         PROVE  m = n
    <3>1. CASE m \in old /\ n \in old
      BY <2>5, <2>12, <3>1 DEF OutboxInv
    <3>2. CASE m \in new /\ n \in new
      <4> DEFINE i == m - Len(outbox)
                 j == n - Len(outbox)
      <4>1. i \in 1..Len(ms) /\ j \in 1..Len(ms) /\ outbox'[m] = ms[i] /\ outbox'[n] = ms[j]
        BY <2>7, <3>2
      <4>2. ms[i].actor = ms[j].actor
        BY <2>12, <4>1
      <4>3. i = j
        <5> HIDE DEF i, j
        <5> QED
          BY <2>2, <4>1, <4>2
      <4> QED
        BY <2>4, <3>2, <4>3
    <3>3. CASE (m \in old /\ n \in new) \/ (m \in new /\ n \in old)
      BY <2>5, <2>7, <2>8, <2>12, <3>3
    <3> QED
      BY <2>6, <3>1, <3>2, <3>3
  <2>13. outbox' \in Seq(MessageType)
    BY <2>5
  <2> QED
    BY <2>3, <2>9, <2>10, <2>11, <2>12, <2>13 DEF OutboxInv
<1> QED
  BY <1>1, <1>2, <1>3, PolicySteps

\* The outbox is always complete up to the present step.
LEMMA OutboxInvariance == Spec => [](PolicyInv /\ OutboxInv)
<1>1. Init => OutboxInv
  BY DEF Init, OutboxInv
<1> QED
  BY <1>1, OutboxStep, PolicyInvariance, PTL DEF Spec

\* The auditor knows of every drift before its step and of none after it, whatever
\* drifts are planned and however often the actors write (ActorRegistry.tick's ctx).
THEOREM AuditsQuoteRightly == Spec => []AuditsMissNoEarlierDrift
<1>1. PolicyInv /\ OutboxInv => AuditsMissNoEarlierDrift
  <2> SUFFICES ASSUME PolicyInv, OutboxInv, NEW n \in 1..Len(outbox),
                      outbox[n].actor = "compliance"
               PROVE  /\ versions[outbox[n].version].activated <= outbox[n].step
                      /\ \A v \in 1..Len(versions) :
                           versions[v].activated < outbox[n].step => v <= outbox[n].version
    BY DEF AuditsMissNoEarlierDrift
  <2>1. /\ Len(versions) \in Nat /\ outbox[n].version \in 1..Len(versions)
        /\ \A v \in 1..Len(versions) :
             versions[v].activated > outbox[n].step - 1 <=> v > outbox[n].version
        /\ outbox[n].step \in 1..actor_step /\ actor_step \in Nat
    BY DEF PolicyInv, OutboxInv
  <2>2. \A v \in 1..Len(versions) : versions[v].activated \in Nat
    <3>1. \A v \in 1..Len(versions) : versions[v] \in Version
      BY DEF PolicyInv
    <3> QED
      BY <3>1 DEF Version
  <2>3. versions[outbox[n].version].activated <= outbox[n].step
    <3>1. ~(versions[outbox[n].version].activated > outbox[n].step - 1)
      BY <2>1
    <3> QED
      BY <2>1, <2>2, <3>1
  <2>4. ASSUME NEW v \in 1..Len(versions), versions[v].activated < outbox[n].step
        PROVE  v <= outbox[n].version
    <3>1. ~(versions[v].activated > outbox[n].step - 1)
      BY <2>1, <2>2, <2>4
    <3> QED
      BY <2>1, <3>1
  <2> QED
    BY <2>3, <2>4
<1> QED
  BY <1>1, OutboxInvariance, PTL

\* The outbox is complete, in order and of this episode only, for every cadence
\* of the actors (on_reset, on_step).
THEOREM OutboxIsComplete == Spec => []OutboxMatchesClock
<1>1. OutboxInv => OutboxMatchesClock
  <2> SUFFICES ASSUME OutboxInv PROVE OutboxMatchesClock
    OBVIOUS
  <2>1. ASSUME NEW a \in Actors, NEW s \in 1..actor_step
        PROVE  Writes(a, s) <=> Cardinality({n \in 1..Len(outbox) : /\ outbox[n].actor = a
                                                                    /\ outbox[n].step = s}) = 1
    <3> DEFINE S == {n \in 1..Len(outbox) : outbox[n].actor = a /\ outbox[n].step = s}
    <3>1. CASE Writes(a, s)
      <4>1. PICK n \in 1..Len(outbox) : outbox[n].actor = a /\ outbox[n].step = s
        BY <2>1, <3>1 DEF OutboxInv
      <4>2. \A m \in S : m = n
        BY <4>1 DEF OutboxInv
      <4>3. S = {n}
        BY <4>1, <4>2
      <4> QED
        BY <3>1, <4>3, FS_Singleton
    <3>2. CASE ~Writes(a, s)
      <4>1. S = {}
        BY <3>2 DEF OutboxInv
      <4> QED
        BY <3>2, <4>1, FS_EmptySet
    <3> QED
      BY <3>1, <3>2
  <2> QED
    BY <2>1 DEF OutboxInv, OutboxMatchesClock
<1> QED
  BY <1>1, OutboxInvariance, PTL

-----------------------------------------------------------------------------
(* The types.  The tickets, the policy and the outbox have theirs from the *)
(* invariants above; what is left is the expert, the lock and the judge's  *)
(* trajectory.                                                             *)

SeatInv ==
  /\ trajectory \in Nat
  /\ round \in Int /\ current_expert \in 0..(RotationSize - 1)
  /\ lock \in Slots \cup {None}

\* A round names an expert of the panel, also when it is negative.
LEMMA RoundHasExpert ==
  ASSUME NEW r \in Int
  PROVE  r % RotationSize \in 0..(RotationSize - 1)
<1>1. RotationSize \in Nat /\ RotationSize > 0
  BY ThemeAssumption
<1> QED
  BY <1>1

\* Every step keeps the experts, rounds and remaining state typed.
LEMMA SeatStep == SeatInv /\ [Next]_vars => SeatInv'
<1> SUFFICES ASSUME SeatInv, [Next]_vars PROVE SeatInv'
  OBVIOUS
<1> USE DEF SeatInv
<1>1. CASE Begin
  <2>1. /\ trajectory' = 0 /\ UNCHANGED <<round, lock>>
        /\ current_expert' = round % RotationSize
    BY <1>1 DEF Begin, OnReset, judging
  <2>2. current_expert' \in 0..(RotationSize - 1)
    BY <2>1, RoundHasExpert
  <2> QED
    BY <2>1, <2>2
<1>2. CASE Step
  <2>1. /\ UNCHANGED <<round, current_expert, lock>>
        /\ trajectory' = trajectory \/ trajectory' \in trajectory .. AtMost(trajectory + 1, TrajectoryBound)
    BY <1>2 DEF Step, judging
  <2>2. trajectory' \in Nat
    BY <2>1
  <2> QED
    BY <2>1, <2>2
<1>3. CASE Rotate
  <2>1. /\ round' \in RoundIndexes /\ current_expert' = round' % RotationSize
        /\ UNCHANGED <<trajectory, lock>>
    BY <1>3 DEF Rotate, judging
  <2>2. round' \in Int
    BY <2>1, ThemeAssumption
  <2>3. current_expert' \in 0..(RotationSize - 1)
    BY <2>1, <2>2, RoundHasExpert
  <2> QED
    BY <2>1, <2>2, <2>3
<1>4. CASE \E s \in Slots, text \in Explanations : StartExplain(s, text)
  BY <1>4 DEF StartExplain
<1>5. CASE \E s \in Slots : FinishExplain(s)
  BY <1>5 DEF FinishExplain
<1>6. CASE (\E a \in Alerts, p \in Priorities : OpenTicket(a, p)) \/ \E n \in 1..TicketBound : ResolveTicket(n)
  BY <1>6 DEF OpenTicket, ResolveTicket, judging
<1>7. CASE UNCHANGED vars
  BY <1>7 DEF vars, judging
<1> QED
  BY <1>1, <1>2, <1>3, <1>4, <1>5, <1>6, <1>7 DEF Next, Reset, Read

\* The fields of a session's themes keep their types; the expert is always one
\* of the panel, whatever round is asked for (SessionState, rotate).
THEOREM ThemesTyped == Spec => []TypeOK
<1>1. Init => SeatInv
  BY ThemeAssumption DEF Init, SeatInv
<1>2. TicketInv /\ PolicyInv /\ OutboxInv /\ SeatInv => TypeOK
  <2> SUFFICES ASSUME TicketInv, PolicyInv, OutboxInv, SeatInv PROVE TypeOK
    OBVIOUS
  <2>1. episode \in Nat /\ actor_step \in Nat /\ tickets \in Seq(Ticket)
    BY DEF TicketInv
  <2>2. schedule \subseteq Nat /\ versions \in Seq([activated : Nat, rules : SUBSET DriftKinds])
    BY DEF PolicyInv, Planned, Version
  <2>3. ASSUME NEW n \in 1..Len(outbox)
        PROVE  outbox[n].actor \in Actors /\ outbox[n].step \in Nat
    <3>1. outbox[n] \in MessageType
      BY DEF OutboxInv
    <3> QED
      BY <3>1 DEF MessageType
  <2> QED
    BY <2>1, <2>2, <2>3 DEF SeatInv, TypeOK
<1> QED
  BY <1>1, <1>2, SeatStep, TicketInvariance, OutboxInvariance, PTL DEF Spec

=============================================================================
