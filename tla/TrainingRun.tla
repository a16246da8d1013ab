----------------------------- MODULE TrainingRun -----------------------------
(***************************************************************************)
(* One curriculum training (train_grpo.py, train): the scheduler's stages  *)
(* and promotion gate, the data sets drawn from the server, the scoring of *)
(* completions by replay in one session or in one session for each worker, *)
(* early stopping, the evaluation at the end and the run manager's record. *)
(*                                                                         *)
(* The model being trained and the engine's rewards are free choices; an   *)
(* episode is the sequence of steps the oracle takes, which is the same    *)
(* whenever it is replayed, and the trained role acts at RoleSteps of it.  *)
(* Rewards and thresholds are in hundredths.                               *)
(***************************************************************************)
EXTENDS Integers, Sequences, FiniteSets, SequencesExt

CONSTANTS
  Stages,         \* [tasks, promotion_threshold, min_samples, max_rounds] of each stage
  Window,         \* the scheduler's window
  Clients,        \* train()'s own client, or those of the workers
  GroupSize,      \* completions scored in one batch
  Batches,        \* bound: batches in a round
  RoleSteps,      \* steps of an oracle episode at which the trained role acts
  EpisodeLength,  \* steps of an oracle episode
  StepRewards,    \* rewards the engine may give
  Qualities,      \* parse qualities of the completions
  Patience,       \* early_stop_patience, 0 when early stopping is off
  None

ASSUME TrainingAssumption ==
  /\ Len(Stages) \in Nat \ {0}
  /\ \A i \in 1..Len(Stages) : Stages[i].max_rounds \in Nat \ {0}
  /\ Window \in Nat \ {0} /\ EpisodeLength \in Nat
  /\ GroupSize \in Nat \ {0} /\ Batches \in Nat \ {0} /\ Patience \in Nat
  /\ RoleSteps \subseteq 0..(EpisodeLength - 1) /\ StepRewards \subseteq Int
  /\ Qualities \subseteq {"strict", "loose", "fallback"}

VARIABLES
  stage_idx,       \* CurriculumScheduler._stage_idx, counted from 1
  round_in_stage,  \* _round_in_stage
  rewards,         \* _rewards, each with the stage whose data it was scored for
  stage_rows,      \* the stage's data set, None until it is drawn
  phase,           \* where train() is
  generated,       \* clients whose session has a generated scenario loaded
  pending,         \* rows of the batch not yet scored
  scored,          \* scores of the batch, in the order of its rows
  batch,           \* batches of the round so far
  callback         \* SOCGymCallback and the trainer's control: [seen, stale, logged, stop]

scheduler == <<stage_idx, round_in_stage, rewards>>
scoring == <<pending, scored>>
vars == <<scheduler, stage_rows, phase, generated, scoring, batch, callback>>

-----------------------------------------------------------------------------
(* The server, by client.  Each client is alone in its session.            *)

\* train()'s own client names no session and gets the default one; it draws the
\* data sets and scores the completions too, unless workers do, each in a
\* session of its own.
Main == "default"

\* The generated task cannot be reset in a session that was given no scenario.
CanReset(client, task) == task = "red_team_generated" => client \in generated

\* Mutant: the replay takes the oracle's action at the prompt's own step as well.
ReplayOneTooFar(row) == [task |-> row.task, step |-> row.step + 1]

\* replay_to_step: the state after a reset and row.step actions of the oracle.
Replay(row) == [task |-> row.task, step |-> row.step]

\* How replay_to_step may come back: with the step of the observation it returns and
\* the step the engine is at.  A step that is not answered with 200 ends the loop, and
\* the observation before it is returned as if nothing had happened; an error of a
\* gateway in between leaves open whether the engine took the step.
Replays(row) ==
  LET last == Replay(row).step
  IN  {[seen |-> last, at |-> last, failed |-> FALSE]}
        \cup {[seen |-> k, at |-> k + taken, failed |-> TRUE] : k \in 0..(last - 1), taken \in {0, 1}}

\* build_step_dataset: a row for each turn of the trained role in an oracle
\* rollout of each task.  A task that cannot be reset is left out with a warning.
Rows(stage, loaded) ==
  {[stage |-> stage, task |-> t, step |-> s] :
     t \in {u \in Stages[stage].tasks : u = "red_team_generated" => loaded}, s \in RoleSteps}

-----------------------------------------------------------------------------
(* CurriculumScheduler.                                                    *)

finished == stage_idx > Len(Stages)
current == Stages[IF finished THEN Len(Stages) ELSE stage_idx]
Sum(samples) == FoldSeq(LAMBDA s, total : total + s.reward, 0, samples)

\* Enough samples, and their mean reaches the threshold.
Passes(samples) ==
  /\ samples # <<>> /\ Len(samples) >= current.min_samples
  /\ Sum(samples) >= current.promotion_threshold * Len(samples)

\* record_batch: the deque keeps the latest Window rewards.
Recorded(samples) ==
  LET all == rewards \o samples
  IN  IF Len(all) > Window THEN SubSeq(all, Len(all) - Window + 1, Len(all)) ELSE all

Forced == round_in_stage + 1 >= current.max_rounds

\* Mutant: the next stage starts with the samples of this one.
AdvanceKeepingSamples ==
  stage_idx' = stage_idx + 1 /\ round_in_stage' = 0 /\ UNCHANGED rewards

Advance == stage_idx' = stage_idx + 1 /\ round_in_stage' = 0 /\ rewards' = <<>>

\* Mutant: rounds that repeat a stage are not counted.
RepeatUncounted == UNCHANGED scheduler

Repeat == round_in_stage' = round_in_stage + 1 /\ UNCHANGED <<stage_idx, rewards>>

\* end_round: promote, advance by force after max_rounds, or repeat the stage.
end_round == IF Passes(rewards) \/ Forced THEN Advance ELSE Repeat

-----------------------------------------------------------------------------
(* Scoring (training/rewards.py).                                          *)

PARSE_BONUS == [strict |-> 5, loose |-> 1, fallback |-> -10]

\* A score, the state in which the engine gave its reward (None when it gave none),
\* and whether anything went wrong on the way.
Score(row, reward, state, failed) ==
  [reward |-> reward, row |-> row, state |-> state, failed |-> failed]

\* What is paid after a replay: the bonus alone at the end of an episode, less in
\* another role's turn, less still when the step is refused.
Paid(row, replay, bonus) ==
  IF replay.seen >= EpisodeLength THEN {Score(row, bonus, None, replay.failed)}
  ELSE IF replay.seen \notin RoleSteps THEN {Score(row, bonus - 2, None, replay.failed)}
  ELSE {Score(row, r + bonus, [task |-> row.task, step |-> replay.at], replay.failed) :
          r \in StepRewards}
       \cup {Score(row, bonus - 5, None, TRUE)}

\* score_completion: whatever raises, in the parser, a reset or a request that gets
\* no answer, is swallowed and earns the bonus alone, and so does a reset that is
\* refused for want of the scenario.
ScoresOf(client, row, bonus) ==
  {Score(row, bonus, None, TRUE)} \cup
  IF CanReset(client, row.task) THEN UNION {Paid(row, replay, bonus) : replay \in Replays(row)}
  ELSE {Score(row, bonus, None, FALSE)}

\* Some client takes the next completion of the batch.
ScoreCompletion(client) ==
  /\ phase = "round" /\ pending # <<>>
  /\ \E q \in Qualities : \E s \in ScoresOf(client, Head(pending), PARSE_BONUS[q]) :
       scored' = Append(scored, s)
  /\ pending' = Tail(pending)
  /\ UNCHANGED <<scheduler, stage_rows, phase, generated, batch, callback>>

BetweenBatches == phase = "round" /\ pending = <<>> /\ scored = <<>>

\* The trainer samples a group of completions for one row.  An evaluator's
\* threads are new for every batch, and so are their sessions.
StartBatch ==
  /\ BetweenBatches /\ batch < Batches /\ ~callback.stop
  /\ \E row \in stage_rows : pending' = [n \in 1..GroupSize |-> row]
  /\ generated' = generated \cap {Main}
  /\ UNCHANGED <<scheduler, stage_rows, phase, scored, batch, callback>>

\* reward_fn feeds the gate with the scores in the order of the completions.
FinishBatch ==
  /\ phase = "round" /\ pending = <<>> /\ scored # <<>>
  /\ rewards' = Recorded([n \in 1..Len(scored) |->
                            [reward |-> scored[n].reward, stage |-> scored[n].row.stage]])
  /\ scored' = <<>> /\ batch' = batch + 1
  /\ UNCHANGED <<stage_idx, round_in_stage, stage_rows, phase, generated, pending, callback>>

\* on_log, unless early stopping is off, at most once a batch: the mean reward improves on the best so far, as
\* the first one does, or is stale; after Patience stale logs the trainer stops.
OnLog ==
  /\ Patience > 0
  /\ BetweenBatches /\ callback.logged < batch /\ ~callback.stop
  /\ \E improved \in IF callback.seen THEN BOOLEAN ELSE {TRUE} :
       LET stale == IF improved THEN 0 ELSE callback.stale + 1
       IN  callback' = [seen |-> TRUE, stale |-> stale, logged |-> batch,
                        stop |-> stale >= Patience]
  /\ UNCHANGED <<scheduler, stage_rows, phase, generated, scoring, batch>>

-----------------------------------------------------------------------------
(* train().                                                                *)

\* A new stage's data set is drawn, after the generated scenario was loaded if
\* the stage wants one (a failed request is only warned of); a tenth of it is held
\* out at random, and a rollout that fails loses its rows.  A repeated stage keeps
\* its own.  The one callback serves every round's trainer.
StartRound ==
  /\ phase = "dataset"
  /\ \E primed \in BOOLEAN :
       /\ primed => stage_rows = None /\ "red_team_generated" \in current.tasks
       /\ generated' = generated \cup (IF primed THEN {Main} ELSE {})
       /\ stage_rows' \in IF stage_rows = None THEN SUBSET Rows(stage_idx, Main \in generated')
                          ELSE {stage_rows}
  /\ phase' = IF stage_rows' = {} THEN "raised" ELSE "round"
  /\ batch' = 0
  /\ callback' = [callback EXCEPT !.logged = 0, !.stop = FALSE]
  /\ UNCHANGED <<scheduler, scoring>>

\* trainer.train() returns, its data used up or told to stop; the gate decides,
\* and a stage that is left takes its data set with it.
EndRound ==
  /\ BetweenBatches /\ batch > 0
  /\ end_round
  /\ stage_rows' = IF stage_idx' # stage_idx THEN None ELSE stage_rows
  /\ phase' = IF stage_idx' > Len(Stages) THEN "evaluation" ELSE "dataset"
  /\ UNCHANGED <<generated, scoring, batch, callback>>

\* The held-out evaluation, and the run's manifest.  A reset that is refused or
\* a completion the parser chokes on ends train() without a manifest.
Evaluate ==
  /\ phase = "evaluation" /\ phase' \in {"finalized", "raised"}
  /\ UNCHANGED <<scheduler, stage_rows, generated, scoring, batch, callback>>

Init ==
  /\ stage_idx = 1 /\ round_in_stage = 0 /\ rewards = <<>>
  /\ stage_rows = None /\ phase = "dataset"
  /\ generated = {} /\ pending = <<>> /\ scored = <<>> /\ batch = 0
  /\ callback = [seen |-> FALSE, stale |-> 0, logged |-> 0, stop |-> FALSE]

Next ==
  \/ StartRound \/ StartBatch \/ FinishBatch \/ OnLog \/ EndRound \/ Evaluate
  \/ \E c \in Clients : ScoreCompletion(c)

Spec == Init /\ [][Next]_vars

\* One program whose requests have timeouts: it always goes on.
FairSpec == Spec /\ WF_vars(Next)

-----------------------------------------------------------------------------
(* Properties.                                                             *)

Own(samples) == \A n \in 1..Len(samples) : samples[n].stage = stage_idx

\* A stage is left because the policy earned it on that stage's own data, or
\* because max_rounds of training on it are over: no sample and no round of an
\* earlier stage counts (curriculum.py, "only promotes to the next stage once
\* the policy's rolling mean reward clears the stage's threshold").
StagesAreEarned ==
  [][stage_idx' # stage_idx =>
       \/ round_in_stage + 1 = current.max_rounds
       \/ Passes(rewards) /\ Own(rewards)]_vars

\* The curriculum never strands the run: however poor the rewards are and
\* however soon early stopping cuts the rounds, train() gets through all stages
\* and comes to its end (curriculum.py, max_rounds).
TrainingEnds == phase = "dataset" ~> phase \in {"finalized", "raised"}

\* A completion for which every request was answered is paid for the engine's step
\* in the state its prompt was drawn from; one whose replay broke off is paid for an
\* earlier state of the same episode at worst, never for a later one or another
\* task's (train_grpo.py, make_reward_fn, steps 3 and 4).
ScoredNoLaterThanSampled ==
  \A n \in 1..Len(scored) :
    LET s == scored[n]
    IN  IF s.failed
        THEN s.state # None => s.state.task = s.row.task /\ s.state.step <= s.row.step
        ELSE s.state = [task |-> s.row.task, step |-> s.row.step]

\* What the documentation says: the action is applied "reaching the same state the
\* prompt was drawn from" (train_grpo.py, make_reward_fn, step 3), so that no score
\* is a reward given in another state.
ScoredWhereSampled ==
  \A n \in 1..Len(scored) :
    scored[n].state \in {None, [task |-> scored[n].row.task, step |-> scored[n].row.step]}

=============================================================================
