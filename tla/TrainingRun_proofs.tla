------------------------- MODULE TrainingRun_proofs --------------------------
(***************************************************************************)
(* Proofs about TrainingRun, for every curriculum, every window, group and *)
(* patience and every engine that gives the rewards.                       *)
(***************************************************************************)
EXTENDS TrainingRun, SequenceTheorems, TLAPS

-----------------------------------------------------------------------------
(* The invariant.  Whatever waits, is scored or is in the gate's window is *)
(* of the stage that is trained.                                           *)

Samples(n) == [reward : Int, stage : {n}]

\* The rows that can be drawn now.
Drawn == Rows(stage_idx, Main \in generated)

\* The states an action can be taken in on behalf of a row.
Reached(row) == [task : {row.task}, step : Int]

Scores == [reward : Int, row : Drawn, state : {None} \cup UNION {Reached(r) : r \in Drawn},
           failed : BOOLEAN]

\* The scheduler has a stage to train and rounds left in it.
Training ==
  phase \in {"dataset", "round"} =>
    stage_idx <= Len(Stages) /\ round_in_stage + 1 <= current.max_rounds

\* The data set is the stage's own.
DataOfStage ==
  phase = "round" \/ (phase = "dataset" /\ stage_rows # None) => stage_rows \subseteq Drawn

\* A batch is there in a round only.
BatchInRound == phase # "round" => pending = <<>> /\ scored = <<>>

IInv ==
  /\ stage_idx \in Nat \ {0} /\ round_in_stage \in Nat
  /\ rewards \in Seq(Samples(stage_idx))
  /\ pending \in Seq(Drawn)
  /\ scored \in Seq(Scores)
  /\ Training
  /\ DataOfStage
  /\ BatchInRound

-----------------------------------------------------------------------------
(* Data.                                                                   *)

\* The deque's tail of samples of one stage is of that stage.
LEMMA RecordedOfStage ==
  ASSUME NEW n, rewards \in Seq(Samples(n)), NEW more \in Seq(Samples(n))
  PROVE  Recorded(more) \in Seq(Samples(n))
<1> DEFINE all == rewards \o more
<1>1. all \in Seq(Samples(n))
  OBVIOUS
<1>2. Window \in Nat \ {0} /\ Len(all) \in Nat
  BY <1>1, TrainingAssumption
<1>3. Recorded(more) = IF Len(all) > Window
                       THEN SubSeq(all, Len(all) - Window + 1, Len(all)) ELSE all
  BY DEF Recorded
<1> HIDE DEF all
<1>4. CASE Len(all) > Window
  <2>1. /\ Len(all) - Window + 1 \in Int /\ Len(all) \in Int
        /\ Len(all) - Window + 1 >= 1
    BY <1>2, <1>4
  <2>2. \A i \in (Len(all) - Window + 1)..Len(all) : i \in 1..Len(all)
    BY <1>2, <2>1
  <2>3. \A i \in (Len(all) - Window + 1)..Len(all) : all[i] \in Samples(n)
    BY <1>1, <2>2, ElementOfSeq
  <2> QED
    BY <1>3, <1>4, <2>1, <2>3, SubSeqProperties
<1>5. CASE ~(Len(all) > Window)
  BY <1>1, <1>3, <1>5
<1> QED
  BY <1>4, <1>5

\* A row that was drawn is of a step of the episode, and the session it was drawn in
\* can reset to it.
LEMMA RowsReachable ==
  ASSUME NEW row \in Drawn
  PROVE  /\ row.step \in RoleSteps /\ row.step \in Nat /\ EpisodeLength \in Nat
         /\ row.step < EpisodeLength /\ CanReset(Main, row.task)
<1>1. row.step \in RoleSteps /\ CanReset(Main, row.task)
  BY DEF Drawn, Rows, CanReset
<1>2. row.step \in 0..(EpisodeLength - 1) /\ EpisodeLength \in Nat
  BY <1>1, TrainingAssumption
<1> QED
  BY <1>1, <1>2

\* A replay in which every step is answered ends at the row's step, and one that
\* breaks off ends before it, or has reached it without having seen so.
LEMMA ReplaysBounded ==
  ASSUME NEW row, row.step \in Nat, NEW replay \in Replays(row)
  PROVE  /\ replay.seen \in Int /\ replay.at \in Int /\ replay.failed \in BOOLEAN
         /\ replay.at <= row.step
         /\ ~replay.failed => replay.seen = row.step /\ replay.at = row.step
<1>1. Replay(row).step = row.step
  BY DEF Replay
<1>2. CASE replay = [seen |-> row.step, at |-> row.step, failed |-> FALSE]
  BY <1>2
<1>3. CASE \E k \in 0..(row.step - 1), taken \in {0, 1} :
             replay = [seen |-> k, at |-> k + taken, failed |-> TRUE]
  <2>1. PICK k \in 0..(row.step - 1), taken \in {0, 1} :
               replay = [seen |-> k, at |-> k + taken, failed |-> TRUE]
    BY <1>3
  <2> QED
    BY <2>1
<1> QED
  BY <1>1, <1>2, <1>3 DEF Replays

\* What is wrong with a score tells how far its state may be from the row's.
InPlace(s) ==
  IF s.failed
  THEN s.state # None => s.state.task = s.row.task /\ s.state.step <= s.row.step
  ELSE s.state = [task |-> s.row.task, step |-> s.row.step]

\* The score after one replay is typed, and in place whenever the row is one of the
\* trained role's.
LEMMA PaidInPlace ==
  ASSUME NEW row, row.step \in Nat, NEW bonus \in Int, bonus - 2 \in Int, bonus - 5 \in Int,
         NEW replay \in Replays(row), NEW s \in Paid(row, replay, bonus)
  PROVE  /\ s \in [reward : Int, row : {row}, state : {None} \cup Reached(row), failed : BOOLEAN]
         /\ row.step \in RoleSteps /\ EpisodeLength \in Nat /\ row.step < EpisodeLength => InPlace(s)
<1>1. /\ replay.seen \in Int /\ replay.at \in Int /\ replay.failed \in BOOLEAN
      /\ replay.at <= row.step
      /\ ~replay.failed => replay.seen = row.step /\ replay.at = row.step
  BY ReplaysBounded
<1> DEFINE there == [task |-> row.task, step |-> replay.at]
<1>2. there \in Reached(row) /\ there.task = row.task /\ there.step = replay.at
  BY <1>1 DEF Reached
<1>3. \A x \in Int, state \in {None} \cup Reached(row), failed \in BOOLEAN :
        /\ Score(row, x, state, failed)
             \in [reward : Int, row : {row}, state : {None} \cup Reached(row), failed : BOOLEAN]
        /\ Score(row, x, state, failed).state = state
        /\ Score(row, x, state, failed).failed = failed
        /\ Score(row, x, state, failed).row = row
  BY DEF Score
<1>4. \/ /\ s = Score(row, bonus, None, replay.failed)
         /\ replay.seen >= EpisodeLength
      \/ /\ s = Score(row, bonus - 2, None, replay.failed)
         /\ replay.seen \notin RoleSteps
      \/ s = Score(row, bonus - 5, None, TRUE)
      \/ \E x \in StepRewards : s = Score(row, x + bonus, there, replay.failed)
  BY DEF Paid
<1> HIDE DEF there
<1>5. CASE s = Score(row, bonus, None, replay.failed) /\ replay.seen >= EpisodeLength
  BY <1>1, <1>3, <1>5 DEF InPlace
<1>6. CASE s = Score(row, bonus - 2, None, replay.failed) /\ replay.seen \notin RoleSteps
  BY <1>1, <1>3, <1>6 DEF InPlace
<1>7. CASE s = Score(row, bonus - 5, None, TRUE)
  BY <1>1, <1>3, <1>7 DEF InPlace
<1>8. CASE \E x \in StepRewards : s = Score(row, x + bonus, there, replay.failed)
  <2>1. PICK x \in StepRewards : s = Score(row, x + bonus, there, replay.failed)
    BY <1>8
  <2>2. x + bonus \in Int
    BY TrainingAssumption
  <2>3. /\ s \in [reward : Int, row : {row}, state : {None} \cup Reached(row), failed : BOOLEAN]
        /\ s.state = there /\ s.failed = replay.failed /\ s.row = row
    BY <1>1, <1>2, <1>3, <2>1, <2>2
  <2>4. ~replay.failed => there = [task |-> row.task, step |-> row.step]
    BY <1>1 DEF there
  <2> QED
    BY <1>1, <1>2, <2>3, <2>4 DEF InPlace
<1> QED
  BY <1>4, <1>5, <1>6, <1>7, <1>8

\* The bonuses are numbers.
LEMMA BonusTyped ==
  ASSUME NEW q \in Qualities
  PROVE  /\ PARSE_BONUS[q] \in Int /\ PARSE_BONUS[q] - 2 \in Int /\ PARSE_BONUS[q] - 5 \in Int
BY TrainingAssumption DEF PARSE_BONUS

\* Whichever client scores a completion, it does so with a number, and in none or one
\* of the row's states.
LEMMA ScoresTyped ==
  ASSUME NEW row, row.step \in Nat, NEW q \in Qualities, NEW client,
         NEW s \in ScoresOf(client, row, PARSE_BONUS[q])
  PROVE  s \in [reward : Int, row : {row}, state : {None} \cup Reached(row), failed : BOOLEAN]
<1> DEFINE bonus == PARSE_BONUS[q]
<1>1. bonus \in Int /\ bonus - 2 \in Int /\ bonus - 5 \in Int
  BY BonusTyped
<1>2. \/ s = Score(row, bonus, None, TRUE) \/ s = Score(row, bonus, None, FALSE)
      \/ \E replay \in Replays(row) : s \in Paid(row, replay, bonus)
  BY DEF ScoresOf
<1> HIDE DEF bonus
<1>3. CASE s = Score(row, bonus, None, TRUE) \/ s = Score(row, bonus, None, FALSE)
  <2>1. PICK failed \in BOOLEAN : s = Score(row, bonus, None, failed)
    BY <1>3
  <2> QED
    BY <1>1, <2>1 DEF Score
<1>4. CASE \E replay \in Replays(row) : s \in Paid(row, replay, bonus)
  BY <1>1, <1>4, PaidInPlace
<1> QED
  BY <1>2, <1>3, <1>4

\* One client alone, with a row it has drawn, scores it in place.
LEMMA OneClientScoresInPlace ==
  ASSUME NEW row \in Drawn, NEW q \in Qualities, NEW s \in ScoresOf(Main, row, PARSE_BONUS[q])
  PROVE  InPlace(s)
<1> DEFINE bonus == PARSE_BONUS[q]
<1>1. bonus \in Int /\ bonus - 2 \in Int /\ bonus - 5 \in Int
  BY BonusTyped
<1>2. /\ row.step \in RoleSteps /\ row.step \in Nat /\ EpisodeLength \in Nat
      /\ row.step < EpisodeLength /\ CanReset(Main, row.task)
  BY RowsReachable
<1>3. \/ s = Score(row, bonus, None, TRUE)
      \/ \E replay \in Replays(row) : s \in Paid(row, replay, bonus)
  BY <1>2 DEF ScoresOf
<1> HIDE DEF bonus
<1>4. CASE s = Score(row, bonus, None, TRUE)
  BY <1>4 DEF Score, InPlace
<1>5. CASE \E replay \in Replays(row) : s \in Paid(row, replay, bonus)
  BY <1>1, <1>2, <1>5, PaidInPlace
<1> QED
  BY <1>3, <1>4, <1>5

-----------------------------------------------------------------------------
(* Every step keeps the invariant.                                         *)

\* The stage that is trained.
LEMMA CurrentStage ==
  ASSUME NEW n \in 1..Len(Stages), stage_idx = n
  PROVE  current = Stages[n] /\ current.max_rounds \in Nat \ {0}
<1>1. ~finished
  BY TrainingAssumption DEF finished
<1> QED
  BY <1>1, TrainingAssumption DEF current

\* Training begins with the first stage and no sample.
LEMMA InitInv == Init => IInv
<1> SUFFICES ASSUME Init PROVE IInv
  OBVIOUS
<1> USE DEF Init
<1>1. 1 \in 1..Len(Stages)
  BY TrainingAssumption
<1>2. Training
  BY <1>1, CurrentStage DEF Training
<1> QED
  BY <1>2 DEF IInv, DataOfStage, BatchInRound

\* The data a round starts with is drawn for its stage, or kept since then.
LEMMA StartRoundInv == IInv /\ StartRound => IInv'
<1> SUFFICES ASSUME IInv, StartRound PROVE IInv'
  OBVIOUS
<1> USE DEF IInv
<1>1. /\ UNCHANGED <<stage_idx, round_in_stage, rewards, pending, scored>>
      /\ phase = "dataset" /\ phase' \in {"raised", "round"}
      /\ pending = <<>> /\ scored = <<>>
  BY DEF StartRound, scheduler, scoring, BatchInRound
<1>2. \/ stage_rows = None /\ stage_rows' \subseteq Rows(stage_idx, Main \in generated')
      \/ stage_rows # None /\ stage_rows' = stage_rows
  BY DEF StartRound
<1>3. Drawn \subseteq Drawn'
  <2>1. Main \in generated => Main \in generated'
    BY DEF StartRound
  <2> QED
    BY <1>1, <2>1 DEF Drawn, Rows
<1>4. stage_rows' \subseteq Drawn'
  BY <1>1, <1>2, <1>3 DEF DataOfStage, Drawn
<1>5. Training'
  BY <1>1 DEF Training, current, finished
<1> QED
  BY <1>1, <1>4, <1>5 DEF DataOfStage, BatchInRound

\* A batch is of one row of the data set.
LEMMA StartBatchInv == IInv /\ StartBatch => IInv'
<1> SUFFICES ASSUME IInv, StartBatch PROVE IInv'
  OBVIOUS
<1> USE DEF IInv
<1>1. /\ UNCHANGED <<stage_idx, round_in_stage, rewards, stage_rows, phase, scored>>
      /\ phase = "round" /\ scored = <<>>
  BY DEF StartBatch, BetweenBatches, scheduler
<1>2. Drawn' = Drawn
  <2>1. Main \in generated' <=> Main \in generated
    BY DEF StartBatch
  <2> QED
    BY <1>1, <2>1 DEF Drawn, Rows
<1>3. pending' \in Seq(Drawn)
  <2>1. PICK row \in stage_rows : pending' = [n \in 1..GroupSize |-> row]
    BY DEF StartBatch
  <2>2. row \in Drawn
    BY <1>1 DEF DataOfStage
  <2> QED
    BY <2>1, <2>2, TrainingAssumption
<1>4. Training'
  BY <1>1 DEF Training, current, finished
<1>5. scored' \in Seq(Scores')
  BY <1>1
<1> QED
  BY <1>1, <1>2, <1>3, <1>4, <1>5 DEF DataOfStage, BatchInRound

\* A score is about the row it was asked for.
LEMMA ScoreCompletionInv ==
  ASSUME IInv, NEW client, ScoreCompletion(client)
  PROVE  IInv'
<1> USE DEF IInv
<1>1. /\ UNCHANGED <<stage_idx, round_in_stage, rewards, stage_rows, phase, generated>>
      /\ phase = "round" /\ pending # <<>> /\ pending' = Tail(pending)
  BY DEF ScoreCompletion, scheduler
<1>2. Drawn' = Drawn /\ Scores' = Scores
  BY <1>1 DEF Drawn, Scores
<1>3. Head(pending) \in Drawn /\ pending' \in Seq(Drawn)
  BY <1>1, HeadTailProperties
<1>4. scored' \in Seq(Scores)
  <2>1. PICK q \in Qualities :
          \E s \in ScoresOf(client, Head(pending), PARSE_BONUS[q]) : scored' = Append(scored, s)
    BY DEF ScoreCompletion
  <2>2. PICK s \in ScoresOf(client, Head(pending), PARSE_BONUS[q]) : scored' = Append(scored, s)
    BY <2>1
  <2>3. s \in Scores
    <3>1. s \in [reward : Int, row : {Head(pending)}, state : {None} \cup Reached(Head(pending)),
                 failed : BOOLEAN]
      BY <1>3, RowsReachable, ScoresTyped
    <3>2. Reached(Head(pending)) \subseteq UNION {Reached(r) : r \in Drawn}
      BY <1>3
    <3> QED
      BY <1>3, <3>1, <3>2 DEF Scores
  <2> QED
    BY <2>2, <2>3
<1>5. Training'
  BY <1>1 DEF Training, current, finished
<1> QED
  BY <1>1, <1>2, <1>3, <1>4, <1>5 DEF DataOfStage, BatchInRound

\* The gate is fed the samples of the stage.
LEMMA FinishBatchInv == IInv /\ FinishBatch => IInv'
<1> SUFFICES ASSUME IInv, FinishBatch PROVE IInv'
  OBVIOUS
<1> USE DEF IInv
<1>1. /\ UNCHANGED <<stage_idx, round_in_stage, stage_rows, phase, generated, pending>>
      /\ phase = "round" /\ scored' = <<>>
  BY DEF FinishBatch
<1>2. Drawn' = Drawn
  BY <1>1 DEF Drawn
<1> DEFINE more == [n \in 1..Len(scored) |->
                      [reward |-> scored[n].reward, stage |-> scored[n].row.stage]]
<1>3. more \in Seq(Samples(stage_idx))
  <2>1. \A n \in 1..Len(scored) : scored[n] \in Scores
    OBVIOUS
  <2>2. \A n \in 1..Len(scored) : scored[n].reward \in Int /\ scored[n].row.stage = stage_idx
    BY <2>1 DEF Scores, Drawn, Rows
  <2> QED
    BY <2>2 DEF Samples
<1>4. rewards' \in Seq(Samples(stage_idx))
  <2>1. rewards' = Recorded(more)
    BY DEF FinishBatch
  <2> HIDE DEF more
  <2> QED
    BY <1>3, <2>1, RecordedOfStage
<1>5. Training'
  BY <1>1 DEF Training, current, finished
<1> QED
  BY <1>1, <1>2, <1>4, <1>5 DEF DataOfStage, BatchInRound

\* A stage that is left takes its samples and its data with it.
LEMMA EndRoundInv == IInv /\ EndRound => IInv'
<1> SUFFICES ASSUME IInv, EndRound PROVE IInv'
  OBVIOUS
<1> USE DEF IInv
<1>1. /\ phase = "round" /\ pending = <<>> /\ scored = <<>>
      /\ pending' = <<>> /\ scored' = <<>> /\ generated' = generated
      /\ phase' = IF stage_idx' > Len(Stages) THEN "evaluation" ELSE "dataset"
      /\ stage_rows' = IF stage_idx' # stage_idx THEN None ELSE stage_rows
  BY DEF EndRound, BetweenBatches, scoring
<1>2. /\ stage_idx \in 1..Len(Stages) /\ Len(Stages) \in Nat
      /\ current.max_rounds \in Nat \ {0} /\ current = Stages[stage_idx]
  BY <1>1, TrainingAssumption, CurrentStage DEF Training
<1>3. CASE Advance
  <2>1. stage_idx' = stage_idx + 1 /\ round_in_stage' = 0 /\ rewards' = <<>>
    BY <1>3 DEF Advance
  <2>2. Training'
    <3>1. SUFFICES ASSUME phase' = "dataset"
                   PROVE  stage_idx' <= Len(Stages) /\ 1 <= (current').max_rounds
      BY <1>1, <2>1 DEF Training
    <3>2. stage_idx' \in 1..Len(Stages) /\ ~finished'
      BY <1>1, <1>2, <2>1, <3>1 DEF finished
    <3>3. current' = Stages[stage_idx'] /\ Stages[stage_idx'].max_rounds \in Nat \ {0}
      BY <3>2, TrainingAssumption DEF current
    <3> QED
      BY <3>2, <3>3
  <2>3. DataOfStage'
    BY <1>1, <1>2, <2>1 DEF DataOfStage
  <2> QED
    BY <1>1, <2>1, <2>2, <2>3 DEF BatchInRound
<1>4. CASE ~Forced /\ Repeat
  <2>1. /\ stage_idx' = stage_idx /\ rewards' = rewards
        /\ round_in_stage' = round_in_stage + 1
    BY <1>4 DEF Repeat
  <2>2. Training'
    BY <1>2, <1>4, <2>1 DEF Training, Forced, current, finished
  <2>3. DataOfStage'
    BY <1>1, <2>1 DEF DataOfStage, Drawn
  <2> QED
    BY <1>1, <2>1, <2>2, <2>3 DEF BatchInRound
<1> QED
  BY <1>3, <1>4 DEF EndRound, end_round

\* Logging and the evaluation leave stage, data and samples alone.
LEMMA OtherStepsInv == IInv /\ (OnLog \/ Evaluate \/ UNCHANGED vars) => IInv'
<1> SUFFICES ASSUME IInv, OnLog \/ Evaluate \/ UNCHANGED vars PROVE IInv'
  OBVIOUS
<1> USE DEF IInv
<1>1. /\ UNCHANGED <<stage_idx, round_in_stage, rewards, stage_rows, generated, pending, scored>>
      /\ phase' = phase \/ (phase = "evaluation" /\ phase' \in {"finalized", "raised"})
  BY DEF OnLog, Evaluate, vars, scheduler, scoring
<1>2. Drawn' = Drawn /\ Scores' = Scores /\ current' = current
  BY <1>1 DEF Drawn, Scores, current, finished
<1> QED
  BY <1>1, <1>2 DEF Training, DataOfStage, BatchInRound

\* Every step keeps the invariant.
LEMMA StepInv == IInv /\ [Next]_vars => IInv'
BY StartRoundInv, StartBatchInv, ScoreCompletionInv, FinishBatchInv, EndRoundInv, OtherStepsInv
   DEF Next

\* The invariant holds of every run.
LEMMA Invariance == Spec => []IInv
BY InitInv, StepInv, PTL DEF Spec

-----------------------------------------------------------------------------
(* The theorems.                                                           *)

\* For every curriculum and every policy, a stage is left because the policy
\* earned it on that stage's own data, or because max_rounds of training on it
\* are over (curriculum.py, end_round).
THEOREM StagesEarned == Spec => StagesAreEarned
<1> DEFINE A == stage_idx' # stage_idx =>
                  \/ round_in_stage + 1 = current.max_rounds
                  \/ Passes(rewards) /\ Own(rewards)
<1>1. ASSUME IInv, [Next]_vars PROVE [A]_vars
  <2> USE DEF IInv
  <2> SUFFICES ASSUME stage_idx' # stage_idx
               PROVE  round_in_stage + 1 = current.max_rounds \/ (Passes(rewards) /\ Own(rewards))
    OBVIOUS
  <2>1. EndRound /\ phase = "round" /\ (Passes(rewards) \/ Forced)
    BY <1>1 DEF Next, vars, StartRound, StartBatch, ScoreCompletion, FinishBatch, OnLog,
       Evaluate, EndRound, BetweenBatches, end_round, Repeat, scheduler
  <2>2. Own(rewards)
    <3>1. \A n \in 1..Len(rewards) : rewards[n] \in Samples(stage_idx)
      BY <1>1
    <3> QED
      BY <3>1 DEF Own, Samples
  <2>3. ASSUME Forced PROVE round_in_stage + 1 = current.max_rounds
    <3>1. stage_idx \in 1..Len(Stages) /\ round_in_stage + 1 <= current.max_rounds
      BY <1>1, <2>1, TrainingAssumption DEF Training
    <3>2. current.max_rounds \in Nat
      BY <3>1, CurrentStage
    <3> QED
      BY <1>1, <2>3, <3>1, <3>2 DEF Forced
  <2> QED
    BY <2>1, <2>2, <2>3
<1> QED
  BY <1>1, Invariance, PTL DEF Spec, StagesAreEarned

\* With the training program's own client, whichever requests fail, a completion is
\* scored in the state its prompt was drawn from if none did, and never in a later
\* one (train_grpo.py, replay_to_step; rewards.py, score_completion): what was drawn
\* can be reset again, and a replay that breaks off falls short.
THEOREM ScoredInPlace ==
  ASSUME Clients = {Main}
  PROVE  Spec => []ScoredNoLaterThanSampled
<1> DEFINE Inv == \A n \in 1..Len(scored) : InPlace(scored[n])
<1>1. Init => Inv
  BY DEF Init
<1>2. ASSUME IInv, Inv, [Next]_vars PROVE Inv'
  <2>1. CASE scored' = scored \/ scored' = <<>>
    BY <1>2, <2>1
  <2>2. CASE ScoreCompletion(Main)
    <3>1. pending # <<>> /\ pending \in Seq(Drawn) /\ scored \in Seq(Scores)
      BY <1>2, <2>2 DEF ScoreCompletion, IInv
    <3>2. Head(pending) \in Drawn
      BY <3>1, HeadTailProperties
    <3>3. PICK q \in Qualities :
            \E s \in ScoresOf(Main, Head(pending), PARSE_BONUS[q]) : scored' = Append(scored, s)
      BY <2>2 DEF ScoreCompletion
    <3>4. PICK s \in ScoresOf(Main, Head(pending), PARSE_BONUS[q]) : scored' = Append(scored, s)
      BY <3>3
    <3>5. InPlace(s)
      BY <3>2, <3>4, OneClientScoresInPlace
    <3>6. \A n \in 1..Len(scored') :
            scored'[n] = IF n = Len(scored) + 1 THEN s ELSE scored[n]
      BY <3>1, <3>4
    <3>7. \A n \in 1..Len(scored') : n = Len(scored) + 1 \/ n \in 1..Len(scored)
      BY <3>1, <3>4
    <3> QED
      BY <1>2, <3>5, <3>6, <3>7
  <2> QED
    BY <1>2, <2>1, <2>2
       DEF Next, vars, StartRound, StartBatch, FinishBatch, OnLog, EndRound, Evaluate, scoring
<1>3. Inv => ScoredNoLaterThanSampled
  BY DEF InPlace, ScoredNoLaterThanSampled
<1> QED
  BY <1>1, <1>2, <1>3, Invariance, PTL DEF Spec

=============================================================================
