# SOC-Triage-Gym in TLA+

SOC-Triage-Gym is an episode server for training security-operations agents. A
client resets an episode (a queue of alerts with a hidden answer key), sends
actions, and gets step rewards and at the end a score. An episode is played by
one analyst or by a team of three roles. Many clients share one HTTP server;
scripted agents and a training program drive it.

The modules are written from the Python source. Docs, comments and tests are used
only for the statements the properties and section 6 compare the code with.

| module | models |
|---|---|
| `TeamEpisode` | what a team episode promises, abstractly |
| `SOCEnvironment` | the episode engine with its tools and rewards |
| `SOCEnvironment_proofs` | theorems about it, for every value of the constants |
| `SOCCasework_proofs` | theorems about its case: links, verdicts, hand-offs, tickets |
| `TriageServer` | sessions, HTTP handlers, audit trail, metrics |
| `AuditedSessions` | what the server promises of its sessions and their trail, abstractly |
| `TriageServer_proofs` | theorems about the pool, its isolation, the trail, and that the server implements `AuditedSessions` |
| `SessionThemes` | what a session carries beside its engine: actors, drifting policy, tickets, expert rotation; and the judge |
| `RateLimiter` | the security middleware: API key and token buckets |
| `ClientPlay` | the SDK client's retries over an unreliable network |
| `AlertScenarios`, `QueueScenarios` | the tasks the scenario generators make |
| `RedTeamScenarios` | the tasks the red-team generator makes |
| `HeuristicAgent` | the rule-based analyst as a function |
| `Graders` | the task graders as functions |
| `AgentPlay` | agents playing tasks on SOCEnvironment, graded: EXTENDS the engine, `HeuristicAgent`, `Graders` and `AlertScenarios` |
| `TrainingRun` | one curriculum training: gate, replay scoring, workers, early stopping |
| `SessionThemes_proofs`, `RateLimiter_proofs`, `ClientPlay_proofs`, `TrainingRun_proofs`, `AgentPlay_proofs` | theorems about these five |
| `MC...` | the small instances TLC checks |

## 1. Inventory

| component | source | state | operations |
|---|---|---|---|
| episode engine | `server/environment.py`, `models.py` | scenario, mode, phase, step counters, per-alert investigations, escalation list, tickets, action history, reward books | `reset`, `set_generated_scenario`, `step`, `grade`, `state`, role-filtered observations |
| investigation tools | `tools/enrichment.py`, `log_query.py`, `correlation.py`, `asset_lookup.py`, `user_lookup.py` | none of their own; they write an investigation | one per Tier-1 action |
| containment and oversight tools | `tools/containment.py`, `tools/oversight.py` | none of their own | Tier-2 and Manager actions |
| team metric, graders | `graders/` | none | scores of investigations against the answer key |
| session pool | `server/sessions.py` | id -> session, last use; each session has a lock, an engine and the theme modules | `get_or_create`, expiry, LRU eviction, `drop`, `list_summaries` |
| HTTP handlers | `server/app.py` | the pool, one baseline agent | `/reset`, `/step`, `/baseline`, `/mcp`, viewing and reading handlers |
| audit trail, metrics | `server/audit.py`, `server/metrics.py` | bounded window of traces; counters | start, record, count |
| security middleware | `server/security.py` | token buckets | `allow`, limiter replacement |
| theme modules | `tools/ticketing.py`, `scenarios/policy_drift.py`, `actors/`, `graders/expert_panel.py` | SLA clocks, drift plan, outbox, rotation | `on_reset`, `on_step`, tickets, rotation |
| manager judge | `graders/manager_judge.py` | result cache | `judge` |
| scenarios | `scenarios/` | none after generation | seeded generators, validator, red-team generator |
| rule-based analyst | `baseline_agent.py` | pairs it has tried to correlate | `next_action`, `reset` |
| reference policies | `baselines.py` | the oracle's plan | `run_episode` |
| HTTP client | `client.py` | attempt counter, trajectory | `_request` with retries, `run_episode` |
| training | `training/`, `train_grpo.py` | stage, round, rewards window, data set, plateau counter | rounds, batches, gate, evaluation |

How they interact. A handler resolves its session through the pool (under the
pool's lock), then takes the session's lock, calls the engine, ticks the theme
modules, and updates counters and audit trail (each under a lock of its own). The
engine calls the tools, which read the scenario and write an investigation, the
team metric after every team step, and a grader at the end. The baseline agent is
called by `/baseline` and is a single object for all sessions. The training program
is a client: it loads scenarios, rolls out episodes and replays them for scoring,
in its own session or in one for each worker.

What is hard here: phases end in four ways and each must book rewards the same;
the team reward is a difference to a remembered value; one engine object plays
many episodes of two modes; two filters define what Tier-2 sees; a session may
disappear between being resolved and being locked; traces are written in steps
while other sessions move the window; the baseline agent remembers across
sessions; posts are retried; clocks, drifts and caches of a session must keep in
step with its episode; a playbook ends only because of what it remembers; a grader
must not pay for doing nothing; scoring replays must end in the sampled state; a
curriculum must not strand, nor promote on another stage's rewards.

What makes each component correct is stated by its properties, section 4.

## 2. Modules and the code

### SOCEnvironment

One action per call of `reset`, `set_generated_scenario` and `step`, and per
branch of `step`. An action is the whole call: handler, tool, loop penalty,
blending, the role's total, the running total, the phase change or the end. The
operators follow the code's order:

| TLA+ | code |
|---|---|
| `Reset`, `ResetGenerated`, `RejectedReset`, `Begin` | `reset` |
| `StepBeforeReset`, `StepAfterDone`, `WrongRole` | early returns of `step` |
| `TeamPhaseComplete`, `SoloPhaseComplete`, `ManagerSubmit` | `phase_complete` and Manager `submit` shortcuts |
| `Forbidden`, `Incomplete`, `Noop`, and one action per tool | `_dispatch` and `_handle_*` |
| `Commit`, `StepReward`, `LoopPenalty`, `TeamTail`, `SoloTail` | what `step` does after the dispatch |
| `AdvancePhase`, `Enter`, `Finalize` | `_advance_phase`, `_finalize_team_episode` |
| `TeamShared` | `compute_team_metrics` |
| `VisibleAlerts`, `VisibleTickets`, `InvestigationBudget` | `_build_observation` |

Abstractions. A scenario is a record of what the handlers read (`Scenario`):
alerts in order, their classes, observables, relevant evidence, intelligence,
linked pairs, required escalations, expected flags. Texts, timestamps and
confidences are left out, and `alert_classifications` and `false_positive_ids` of
the answer key are taken to agree, as the scenario validator demands. Several values
of one field become sets where the code uses lists or dictionaries only for
membership. The individual score is an input
(`GraderScores`): `SoloSubmitScored(g)` is the handler with a given grade, which AgentPlay
computes. So is the judge's reward (`JudgeRewards`; the judge is in SessionThemes).

Rewards are exact integers: a handler's reward is in ten-thousandths, the books are
in units of 1/(100000 * Scale), where `Scale` is the product of the numbers of true
and false alerts, so that the blend 0.6 / 0.4 and the metric are whole numbers. The
code computes them in floating point; rounding is not modelled.

`StepBound` bounds the two kinds of step that use up no phase budget (a wrong role,
and `phase_complete` in solo mode): it is a bound of the model, not of the code.

### TeamEpisode

The protocol without alerts or rewards: phase, turns spent, whether anything was
escalated. `ImplementsTeamEpisode` in SOCEnvironment gives the refinement mapping:
a solo engine is `"none"`, a completed phase is `"over"`.

### TriageServer

Each request is a thread in a slot that goes through the places of its handler:
resolve the session (`Arrive`, for a session named in the body `BodySession`), get
its lock, call the engine, count, record, and for `/baseline` loop. The actions of
the pool (`GetOrCreate` with `Live` and `RoomIn`, `Drop`, `ListSummaries`) are
atomic, as they hold the pool's lock; every other step of a request is an action of
its own, because the counters and the trail have separate locks and a handler is
scheduled anywhere in between. `objects` keeps every SessionState ever made: a request
holds its object, not its id, and goes on with it when the pool has forgotten it.

The engine is reduced to what the server looks at. An episode is known by its number
instead of a random id. `actor_step`, which `on_reset` zeroes and `on_step` raises,
names the call in a trace. LRU ties, which the code breaks by comparing ids, are
broken arbitrarily. `attempted` is the one state of the baseline agent: the correlations
it has asked for. `RequestBound` and `ClockBound` are bounds of the model.

### AuditedSessions

The server without threads, locks, pool and counters: a session is opened (`Open`), begins
an episode nobody has played (`Begin`), has it put on the trail (`Enter`), and plays a step
which is told in the same moment (`Play`); the trail keeps the latest `MaxEpisodes`.
`ImplementsAuditedSessions` in TriageServer gives the refinement mapping: `Playing` is what
the session objects play, and `Trail` is the trail with every step that is on its way to
it (`Heard`). So calling the engine is `Begin` or `Play`, recording a reset is `Enter`, and recording
a step, like everything the pool and the counters do, is a stutter.

### SessionThemes

`Reset` and `Step` contain `OnReset` and `OnStep`, which are `on_reset` and `on_step` with all
their parts in the code's order (actors before drift); opening and resolving tickets and
rotating the expert are actions of their own. A request holds the session's lock, so
each is one action, except a step that explains the team's behaviour: it waits for the
judge's model and is split into `StartExplain` and `FinishExplain`. The judge's key is the episode and
its trajectory, as in the code (its docstring says otherwise, section 6); `Heuristic` is the keyword score of
an explanation, and `verdicts` the history of what was judged: key, explanation, score. Texts of messages are
left out; the cadences and SLA budgets are constants, scaled down by the instance.

### RateLimiter

`dispatch` awaits nothing before it lets a request through, so a passage is one action.
Tokens are counted in 1/`Minute` of a request, which makes the floating-point refill
exact. A new bucket may read the clock later than `now` was read (by `MaxLag` ticks at most).

### ClientPlay

The client sends, waits, and after a refusal, a connection error or a timeout tries
again. A request it has given up on stays under way: the server may execute it later,
since a handler does not learn that its caller has gone. What the engine has executed is
kept as the set of the commands and the number of times. The limiter's refusals are a free choice.

The episode is in solo mode, which is `run_episode`'s default. Its policy is any choice of an action after
each observation, of three kinds (`Kinds`), which are those the engine's clock tells apart: `work` is dispatched and
ends the episode when the budget is spent, `submit` ends it, and `idle` is `phase_complete`, which
counts a step and returns before the budget is looked at (`Ends`, `Stepped`). `Begin` chooses the caller's
`max_steps`, a number or None. Without a cap, `IdleBound` bounds the idle actions: a bound of the model, as a policy
that only idles plays for ever.

### AlertScenarios, QueueScenarios, RedTeamScenarios

One definition per part of a generator: alerts, intelligence, logs, answer key. A title
is the set of the analyst's keywords that occur in it, with the title itself in a comment;
a log entry is what its details say (quiet, alarming, sanctioned); a random address, user
or hash is named after the variable that holds it, and two draws never collide. The
true-positive and the false-positive variant of a task are two tasks. `ValidScenario` is
`validate_scenario`; AgentPlay assumes it of every task and TLC evaluates it. The red-team
generator's `randint` and `choice` are the sets `AttackSizes` and `PatternsFor`; where
`round` has a tie, `NoiseSize` has both results. Its internal domain is drawn from three
names; the model draws the same one for all hops.

### HeuristicAgent, Graders

Functions of the task record and the investigations. `NextAction` lists the work the
playbook still sees, in its order, and takes the head: this is what the code's loops with
early returns do. Graders are in thousandths, components in hundred-thousandths, truncated.

### AgentPlay

`Act` is one turn of `run_episode`'s loop: the agent's move, which is an action of
SOCEnvironment, and the agent's memory. Each behaviour plays one task with the submit, oracle
and heuristic policies, then with the server's agent, whose memory another session's
`/baseline` may replace between two steps (`Interfere`). Episodes are in solo mode.
The tasks are a constant, with assumptions: they are the registry, valid, and of the types the
graders read. TLC evaluates these on every generated task.
Generated tasks are played by the server's agent only, as they exist only in sessions.

### TrainingRun

`StartRound`, `StartBatch`, `ScoreCompletion`, `FinishBatch`, `OnLog`, `EndRound` and
`Evaluate` are the stations of `train()`. The model being trained and the engine's rewards
are free choices; an oracle episode is a sequence of steps, and a replayed state is a task
and a step. Completions of a batch are handed to the clients in order; each worker's session
is its own and new for each batch. The scheduler's rewards carry the stage they were earned in,
which the code does not keep.

Any request may fail, and what follows depends on which (`ScoresOf`). A reset that fails, or any request without an answer,
raises, and the exception is swallowed: the bonus alone. A replayed step that is not answered with 200 raises nothing: the
replay ends, with the observation before it, and the completion is paid there (`Replays`, `Paid`); a gateway's error leaves
open whether the engine took that step. A final step that is refused is paid less. When a data set is drawn, a rollout that fails
loses its rows, so that a stage has any part of them.

## 3. Runs

| run | shows | bounds |
|---|---|---|
| EnvTeam | driven episodes, all handovers and endings; refinement of TeamEpisode; episodes end, escalations reach the Manager | 2 alerts (one that must be escalated), ids known, unknown and omitted; budgets 2, 2, 2; solo budget 4 |
| EnvTools | every tool, both modes after each other, resets at any time, refused turns and steps without budget, generated scenarios; phase and end, the books | budgets 2, 1, 1; solo budget 3; 1 step without budget |
| SrvPool | pool, isolation, audit traces | 3 ids, cap 2, lifetime 1, window of 2 traces, 2 threads, 3 requests, 3 instants |
| SrvLive | locks are released; the server implements AuditedSessions | 3 ids, cap 2, no expiry, window of 1 trace, 2 threads, 3 requests, baseline of 1 step |
| Themes | clocks, plans, outbox in step with the episode; verdicts | 2 threads, episodes of 9 and 10 steps, 2 of them, 6 clock ticks, 1 ticket, 2 explanations, 1 trajectory for each episode |
| Limiter | token buckets | 2 clients, limits 0, 1, 2 switched at any time, a minute of 3 ticks, 5 instants |
| Client | retries | budget of 2 steps, 1 retry, a cap of 3 steps or none, 2 idle actions without one |
| Play | agents on all tasks | every registered task, each shuffled queue in 3 orders; generated tasks of every size, 0% and 60% noise, plain and obfuscated; 1 interference |
| Train | curriculum with one client | 3 stages with the default tasks and thresholds, 2 rounds each; samples of 2 and 3, 2 batches of 2 |
| SrvAgent, TrainParallel, JudgeKey | the disagreements of section 6 | as small as shows them |

Why the bounds are enough. The engine's real budgets are 40, 20 and 8, but the code compares
counters with budgets only, so 1, 2 and 3 cover "first", "last" and "in between".
Two alerts are the least with a true and a false one, a link, a repeated escalation
and a trail of tickets of one alert among another's; one alert (the generated
scenario) is the case where nothing need be escalated and one class is empty. Three ids with a
cap of two force an eviction, two instants beyond a lifetime of one force an expiry,
and both may hit a session whose request waits for its lock. Three requests are a
reset or view, a step, and a third that evicts, deletes or follows. A window of two
is overrun by three episodes. Implementing AuditedSessions
needs two sessions in flight at once and a trace pushed out while a step of its episode is still to be
told, which a window of one gives with three requests; a session lost by eviction and one lost by expiry
look the same to the trail. Ten steps are the shortest episode in which both drifts
fall, nine one where the plan is cut short; a second reset and a second thread show what the first
leaves behind. Two limits and a minute of three ticks give full, partly refilled and empty buckets and
a switch between each. A reset and a step, each sent twice, reach every order of executing, answering and giving up;
a cap of three is one more than the budget, so that a play may end by either, and two idle actions fall before and at
the end of the budget.
Play has the real tasks and the real budgets, so nothing is scaled. A window of three samples
overflows, a second round forces an advance, a patience of two stops a round. Threads and named
sessions are interchangeable (symmetry); the liveness runs use none.

Deadlock is checked where resets, requests or listings are always possible (Env and Srv runs,
Limiter), and in Play, where a task all agents have played stays as it is (`TaskPlayed`): a playbook
that sends a call the engine has no action for would stop the play. `CHECK_DEADLOCK FALSE` is said of a
client and a training, which come to their end, and of Themes, whose clock is bounded.

Fairness. `EnvTeam` uses `LiveSpec`: a driver that resets only between episodes and
keeps taking turns (weak fairness of `Turn`), which is what the loops `while not
obs.done` of `baselines.py` and `inference.py` do; no fairness is asked of any
particular action. Its driver does not send the calls that use up no budget: with those an
episode need not end (section 6); EnvTools, which checks safety only, sends them, and resets in the middle of an
episode too. `SrvLive` assumes weak fairness of each
thread once it has its lock, which the operating system's scheduler gives it; nothing
is assumed of lock acquisition, of clients or of the engine's episodes ending. `Client` assumes
that the client's own thread goes on: it sends, and a wait ends with an answer or its timeout;
nothing is assumed of the network, nor that the server executes anything. What it does execute is the engine's step, whose
`phase_complete` never ends an episode: so a play ends with a cap for every policy, and without one for a policy
that does not go on idling. `Train` assumes weak
fairness of the one program, all of whose requests have timeouts.

## 4. Properties

Of the engine:

* `PhaseAndDoneAgree`: an episode is over exactly when its phase is complete, and no
  phase in progress has its whole budget spent, whichever way it was entered.
* `ImplementsTeamEpisode`: the team protocol. That a ticket must be handed to Tier-2 before its turn begins
  (`NoHandoverWithoutEscalation`) is a part of it, and of the inductive invariant of section 5.
* `Tier2ViewConsistent`: the alerts shown to Tier-2 are those its tickets name.
* `TicketTrailFollowsPhases`: no ticket of a phase not reached, or after its phase.
* `SharedMetricPaidOnce`: what has been paid is the metric of the present state, so
  going up and down again earns nothing.
* `LedgerBalances`, `EveryTurnIsBooked`: role totals, running total and reported
  rewards agree on every path through `step`.
* `SoloLeavesTeamStateAlone`: nothing of a team episode survives a reset to solo (a theorem, and a part of
  the same invariant; no run checks it by itself).
* `DispatchedStepsWithinBudget`, `QueueDiffersOnlyByOverride`, `CorrelationsSymmetric`: a running
  solo episode has run fewer handlers than its budget allows, and a team has a turn left and has run no
  more handlers than the turns it has used or given up; the two copies of a verdict differ by an override only,
  and a link is with both alerts, so it is paid for once.
* `EpisodesEnd`, `EscalationsReachOversight`: liveness of driven episodes.

Of the server:

* `PoolWithinCap`: with a cap below two the pool still holds two sessions, because the
  default session is never the victim; otherwise never more than the cap.
* `DefaultStays`: neither expiry nor eviction takes the default session.
* `SessionsAreIsolated`: one request in a session at a time, no episode in two sessions,
  for sessions the pool has forgotten as well.
* `TracesAreComplete`: a trace in the window holds the reset and every step, once and in
  order, of one episode, under its session.
* `ImplementsAuditedSessions`: however requests interleave, sessions play apart, and the trail is one
  told call by call.
* `LocksAreReleased`: a handler always leaves its session.

Of the themes, the limiter and the client:

* `DriftFollowsPlan`, `AuditsMissNoEarlierDrift`, `OutboxMatchesClock`: versions are those of
  the plan, never in the first steps or the last tenth; a compliance question quotes a policy that has been
  announced and misses no drift of an earlier step (that it misses one of its own step is `AuditsQuoteNewPolicy`,
  section 6); every message of the episode is in the outbox once.
* `ClocksMeasureAge`, `BreachesEndByResolution`: an SLA clock is its ticket's age, and no
  breach disappears by itself or appears on a resolved ticket.
* `RepeatedVerdictStands`: an explanation judged again in the same trajectory has its verdict again, whoever asks and
  whether or not the model answered. (Another explanation has it too, `VerdictIsOfItsExplanation`, section 6.)
* `EveryWindowWithinRate`, `NoNeedlessRefusal`: the bucket's bound over every window of time, and
  the converse.
* `DuplicatesNeedTimeouts`, `TrajectoryAdvances`, `PlayEnds`: beyond what the client has seen and the one
  request it waits for, the engine executes at most one request for every attempt given up on;
  observations only move forward, and a play has at most as many as its budget, the retries of its reset (a late reset
  undoes at most all steps of an episode but the last) and its idle actions account for; and a play ends.

Of agents, tasks and graders:

* `InactionEarnsTheFloor`: every score lies strictly between 0 and 1, and an empty submission earns the
  least one on every task whose answer key asks for something in every part its grader scores (`Demanding`:
  a part with nothing to do counts as done, so a key that left one empty would pay for nothing).
  `TasksAreDemanding` says that every task of the generators does.
* `LeaderboardHolds`: for the tasks whose score does not depend on the seed, the model gives the
  published leaderboard to the third digit, whatever the order of the queue; the oracle is an upper bound
  although its plan is cut off by the budget; a disturbed play is never better than an undisturbed one.
* `EveryStepIsNewWork`: the analyst chooses its next call from what the record shows, so a call that left no
  trace would be made again. None is: undisturbed, it has made exactly as many steps as there are pieces of
  work done (`Pieces`), no call twice, no pair the other way round.
* `SubmitsFinishedWork`: disturbed or not, it submits nothing unfinished: each alert has a verdict, and each
  alert called real a response. (A response `no_action` to false alarms is not owed on every playbook.)
* `PlaysFinishTheirWork`: undisturbed, it submits before its budget runs out, on every registered task, and on
  every generated one whose budget is ample (`Ample`: room for all the work the task offers the playbook, and the
  submission). `BudgetsAreAmple` says that only `team_lateral_team` is registered without such a budget.
* `RightVerdictNeverCosts`: at every state an agent reaches, one more right verdict never lowers the grade.

Of training:

* `ScoredNoLaterThanSampled`: a completion whose requests were all answered is paid for a step in the state its prompt was
  drawn from; if one was refused or failed, for an earlier state of that episode at worst. That it is never paid for
  another state is `ScoredWhereSampled`, which the code breaks (section 6).
* `StagesAreEarned`: a stage is left by its own samples or its last round; `TrainingEnds`.

## 5. Proofs

`SOCEnvironment_proofs` proves, for every registry of finite scenarios, every budget,
every set of inputs and without the model's bounds on data, that the specification
keeps

    IInv == TypeOK /\ PhaseInv /\ NoHandoverWithoutEscalation
              /\ SharedMetricPaidOnce /\ LedgerBalances /\ SoloLeavesTeamStateAlone

None of these is inductive alone: that the books balance needs the type of the metric
and the phase to be one whose role exists; that the metric is paid once needs the
scenario to be unchanged and finite; that a handover is justified needs that only
triage can escalate. `PhaseInv` adds to `PhaseAndDoneAgree` that a team episode has a
phase and that an engine without a scenario is solo. The assumptions are the named
ASSUMEs of SOCEnvironment: scenarios have their type and at least one alert, budgets
are positive, inputs have their types, None is no other value.

The argument: each of the twenty handlers is shown to have the same effect
(`HandlerEffect`: the case stays typed, the escalation list grows in triage only, and
`Commit` is applied to an integer reward); `TurnShape` reduces a turn to three cases, a
requested phase change, a solo submit and a dispatched step; `CommitEffect` and
`AdvanceEffect` say what the tail of `step` may do; each case then preserves the
invariant. The properties of section 4 that are theorems follow: `TypeCorrect`,
`PhasesAreConsistent`, `HandoversAreJustified`, `MetricIsPaidOnce`, `LedgerIsBalanced`,
`TurnsAreBooked`, `ModesAreSeparate`, and `Implementation`, that every behaviour of the
engine implements TeamEpisode.

`TriageServer_proofs` proves, for any number of threads, ids, sessions made and episodes
begun, and for every cap, lifetime and window, that the server keeps

    IInv == TypeOK /\ Busy /\ Numbered /\ SessionsAreIsolated
              /\ TracesAreComplete /\ Starting /\ NoEarlyTrace

That traces are complete is not inductive: a trace must not exist before its reset is
recorded, so episodes are numbered as they begin (`Numbered`) and the trail knows no
number that has not been given out (`NoEarlyTrace`); between env.reset and the trail an
episode has taken no step (`Starting`); and the session a thread is in plays an episode
(`Busy`), so its trace has an id. `StepKinds` sorts every step into four kinds, time and
the pool alone, a request that resolves its session, a handler that gets the lock, and a
request inside the lock, and each conjunct is kept by each kind; isolation is what lets a
step of one session leave all the others' traces alone. The cap of the pool needs an
invariant of its own (`PoolFits`) and the fact that a pool with a named session always has
a least recently used one (`VictimExists`). The theorems are `ServerTyped`,
`SessionsIsolated`, `TracesComplete`, `DefaultKept` and `PoolCapped`; the assumptions are
that the default id is an id, the window holds an episode at least, None is no number.

That the server implements AuditedSessions (`SessionsImplemented`) is proved on top of this
invariant. `Heard` chooses a session whose step is late for a trace; isolation makes it the only
one (`OneIsLate`), so `Heard` depends on that session alone and stays as it is when any other session moves
(`HeardAgain`). Then each step of a handler is mapped: resolving a session opens one or stutters
(`AsksImplements`), the engine's calls are `Begin` (`BeginsImplements`, with the freshness of the new number
from `Numbered` and `NoEarlyTrace`) and `Play` (`PlaysImplements`, which tells the step at once), a recorded reset
is `Enter` (`EntersImplements`: it needs `Starting`, as a trace is entered before the first step), and recording
a step changes the trail but not what is heard (`TellsImplements`). All else moves neither (`QuietStep`).

`SOCCasework_proofs` builds on the engine's invariant. `CaseShape` reduces every step to one that
leaves the case alone, one that begins an episode, and `CaseStep`, which says of any handler
what it may do to links, marks, verdicts, the escalation list and the trail of tickets; each of
the twenty handlers is shown to be one. From it follow `LinksAreSymmetric` (the invariant adds
that a link is a set of alerts of the scenario which contains its owner), `QueueIsHonest` (a
ticket is never lost, so an override keeps its witness), `TrailFollows` (ranks and times are those
of the phase and the step, and no step goes back to an earlier one) and `Tier2SeesItsCases`
(`HandoffInv`: list, marks and tickets name the same alerts, and every escalation ticket is
addressed to Tier-2, which is what makes the two filters agree).

`WorkWithinBudget`, in SOCEnvironment_proofs, counts sets: the copies in the action history, one for
each handler run, grow by at most one with a step (`BudgetInv`), the step counter by exactly one, and a
dispatched step that goes on has been compared with the budget. For a team, the copies and the turns left to
it never exceed the three budgets: a phase that ends leaves its unused turns behind (`EndedTurns`). So no
team episode runs more handlers than its budgets add up to, whatever its roles do: the part of `EpisodesEnd` that
is not about fairness.

`SessionThemes_proofs` proves `OneVerdict` (`RepeatedVerdictStands`) from `JudgeInv`: at most one judgement is under way,
by the holder of the session's lock, and what it read of the cache is still what the cache
says; that is the step a cache check and a later store need. All verdicts on a key are the cached one, which is
stronger than the property, as the key leaves the explanation out. `ClocksAreRight` and
`BreachesEnd` follow from `TicketInv`, which adds the types of tickets and clock.
`PolicyFollowsPlan` follows from `PolicyInv`: versions are activated in increasing order, each at a
planned step, and every planned step reached has its version, so the version in force is
the last one (`ActiveVersion`); that plans avoid the first steps and the last tenth of an episode
of any length is `PlansAreEarly`. `OutboxInv` says what the outbox holds: every message that was due, once, in
the order of its step, and an audit quotes the version that was in force before the drift of its
step. `OutboxIsComplete` is a part of it; `AuditsQuoteRightly` (`AuditsMissNoEarlierDrift`) needs both invariants, for later versions must
not change which drifts an earlier audit is owed. `ThemesTyped` joins these with `SeatInv` (the
rotation names an expert of the panel whatever round is asked for, a negative one too); no run checks it.

`RateLimiter_proofs` proves `RateIsKept` for every limit, lag and clock. The window bound is
not inductive: the invariant is that for every past admission of a client its bucket holds
no more than what the admissions since then left of a full bucket and of the time passed (`Holds`).
Refilling, capping, taking a token and replacing the limiter keep it. `RefusalsAreDue` is the converse,
from `TightInv`: a bucket is either still as good as new, or there is an admission since which it holds at
least what that bound leaves. Each refill moves the witness only when it fills the bucket, and what the lag of
a first clock reading may cost is `Lost`, the very amount the property grants.

`ClientPlay_proofs` proves `TrajectoryMovesForward`: the engine is never behind what the
client has seen (`PlayInv`), an answer under way is news, and a client that saw the end asks
for nothing more, so a late or repeated request can only bring later observations. The length of a play
is bounded by giving each observation a place (`Place`, in `LengthInv`): its episode, and in it how far its step has
come toward the budget, where all steps past the budget share the last place (`Reach`). An observation is at a later
place than the one before it, or the action before it was idle, and those are counted; the last place is given by
the number of resets that can have left, which counts those under way and the episodes begun. (In the run the
bound is reached, so it cannot be improved.) This is the part of `PlayEnds` that is not about fairness.
`RetriesCostTimeouts` balances an account (`CostInv`): requests under way, executions and a refusal still to be
read never exceed observations, the request waited for and attempts given up. An attempt enters both sides when
it is sent, moves from one place to another, and only a timeout adds to what may be executed in excess.

`TrainingRun_proofs` proves `StagesEarned` for every curriculum, and `ScoredInPlace` (`ScoredNoLaterThanSampled`) for one
client; with more the property is false, as TrainParallel shows. The rows of a data set have steps of the role's turns, within
the episode, and tasks the client can reset (`RowsReachable`); so a replay stops at the row's step or before (`ReplaysBounded`),
and whatever is then paid is paid there (`PaidInPlace`).

`AgentPlay_proofs` proves `RightVerdictsPay`: for every set of valid tasks, not only those the generators
make, and whatever the agent has done before, one more right verdict does not lower the grade. The
invariant is small (`PlayInv`: the engine holds the task and an investigation of each of its alerts). The
work is in the graders, each of which is shown to be monotone in the step from a wrong or missing verdict to
the right one, component by component: a hit gained or a false call taken back improves the F1 (`F1Grows`),
coverage, chains, efficiency and missed positives do not get worse, links and techniques are
untouched. Truncation needs that quotients, shares and bounds keep the order
(`QuotientGrows`, `ShareGrows`, `BoundedGrows`). A mean adds by folding; that the sum is the number of its units
(`SumCountsUnits`) is shown for finite sets by taking a smallest subset on which fold and count differ.

On top of `PlayInv` the module proves what the analyst does with its steps, again for every set of valid
tasks, every queue, budget and number of interferences: `NoStepIsWasted`, `NothingUnfinishedIsSubmitted`, and
`AmpleBudgetsAreEnough`, which is `PlaysFinishTheirWork` for the tasks with an ample budget. The invariant is

    WorkInv == PlayInv /\ disturbed \in Nat /\ (Analyst => the engine is in solo mode)
                 /\ (Analyst /\ Submitted => done /\ Finished(task, investigations))
                 /\ (Analyst /\ disturbed = 0 => Worked)

where `Worked` is `EveryStepIsNewWork` with three parts it needs: the work done is among the work the task
offers, so it is finite and bounded; a call in the history has left its piece of work behind, so a call whose
piece is missing is a call never made; and a play that is over without a submission has spent its budget. The
argument has two halves. The playbooks: whatever the record and the memory say, the call a playbook answers with
is `Sensible`, either `Fresh` (a piece of the task's work that the record does not show) or a submission of
finished work (`LateralSensible`, `QueueSensible`, `GenericSensible`, joined in `NextActionSensible`). This rests on
what the lists are made of, `FlattenMembers` and `PickMembers`, which are induction over a sequence and are proved
by looking at the least index where they would fail. The engine: each call adds its piece to the record and no other
(`CallEffect`, from `EnrichWork`, `QueryWork` and so on), so that one step more is one piece more (`OneMoreCall`,
`WorkStep`). Interference is what makes `Worked` conditional: a memory that is emptied lets a pair be tried again,
and one that is filled hides a pair; the middle part of the invariant survives both.

The third result is `NothingIsPaidForInaction`: `InactionEarnsTheFloor` for every set of valid tasks. Its
invariant `FloorInv` says that a submission ends the play and is paid between 0.001 and 0.999 of the ledger's
unit, that the player which only submits has touched nothing when it does, and what it is then paid. The graders
are bounded component by component (`AccuracyInRange`, `SingleInRange`, ... joined in `GradeInRange`): each is
a natural number, so that rounding and clamping make sense, and zero for untouched investigations if the key asks
for something there. A submission is the first of its kind in the history (`MoveOrSubmit`), so that no loop
penalty can push the pay below the floor; that is why the invariant must say that a submission ends the play.

Model-checked only: `LeaderboardHolds`, which is about what given policies score on
the given tasks, finite data with nothing to generalise; `PlaysFinishTheirWork` for `team_lateral_team`, whose
eight alerts offer 92 pieces of work for 68 steps, so that being in time depends on how the playbook
shortens its lists as time runs out; and `EpisodesEnd`, `EscalationsReachOversight`, `LocksAreReleased`, `PlayEnds` and
`TrainingEnds`, as liveness under fairness is beyond the prover.

## 6. Where code and documentation disagree

Three runs show a disagreement:

* SrvAgent: `server/app.py:70-72`, "concurrent clients never share or corrupt each other's
  episodes"; the baseline agent's memory is shared by all sessions. In Play an interference
  makes the analyst's verdicts on `team_lateral_team` change, and its plays end late.
* TrainParallel: `train_grpo.py:406-407`, "reaching the same state the prompt was drawn from";
  with parallel workers the generated scenario is loaded into the default session only, and every
  completion of the generated task (one of the last stage's two) earns its parse bonus without a step.
* JudgeKey: `graders/manager_judge.py:42-45`, "keyed on (episode_id, first 200 chars of explanation)"; it is keyed
  on the trajectory, and another explanation of it is paid the verdict on the first.

Seen while modelling, some of them stated in the modules but without a run (a property the code
breaks can only stand in a run of its own):

* The statement of `train_grpo.py:406-407` fails with one client too: a replayed step that is refused ends the replay unnoticed,
  and the completion is stepped and paid in an earlier state of the same role's turn (`ScoredWhereSampled`; Train checks
  what is left of it, `ScoredNoLaterThanSampled`).
* `actors/compliance.py:14-15`, "when policy_version changes, this actor's question references the new policy": on a drift's
  own step it quotes the old one, because the actors are ticked before the drift (`AuditsQuoteNewPolicy`; Themes checks that no
  drift of an earlier step is missed).
* `investigation_budget` is documented as "Remaining steps before forced termination"; solo
  `phase_complete` and wrong-role steps use it up without ending the episode
  (`BudgetForcesTermination`).
* `cumulative_reward` is documented as the total of the rewards; a solo submit is added twice. The
  last step of a solo episode books the overtime charge in the total but not in the reported
  reward, and a wrong-role step reports -0.03 that is booked nowhere (`TotalIsSumOfRewards`).
* The alert queue is documented as showing the current classification; an override does not
  reach it (`QueueShowsClassification`).
* "Every reset and step is recorded per episode"; episodes begun by a viewing handler are
  not (`EveryEpisodeIsRecorded`). Such a request also wipes the tickets opened before it.
* `socgym_episodes_completed_total` is "episodes finished"; a step after the end, also a retried last
  step, counts the episode again (`CompletedWereStarted`).
* `server/environment.py:768` speaks of escalating more than 30% of the queue; the code charges
  above 25%.
* `client.py:174-175`, "includes every observation from reset through the final step": a step retried
  after a timeout may have been executed, and its first observation is lost.
* "burst up to limit" (`security.py:74`): with a limit of 1 a new bucket whose clock reading lags
  refuses the first request (`FirstRequestPasses`).
* The judge is documented as scoring in (0.001, 0.999); an unparsable answer gives 0.
* The `disable_user` rule of a ticket is stored but enforced nowhere.
* The composite task is documented with "60+ alerts"; it has 36. Its narrative component is unreachable: no
  caller sets the grader's context.
* The analyst looks for "authorized" in titles, which "Unauthorized ..." contains too; on the generic playbook such a
  title would make an attack benign.
* `_build_enrichment_db` says indicators of false positives are not malicious; an address shared with the attack is, and
  whether it stays so depends on the shuffled order.
* A generated task has 30 steps whatever its size: the analyst never submits from seven attack alerts up, nor for a
  lateral attack of four without noise. This is why `PlaysFinishTheirWork`
  asks an ample budget of a generated task (22 of the 78 in Play have one).
* The curriculum's last stage is "adaptive"; training never adapts the difficulty and generates from the same
  seed. Early stopping "stops training"; it stops the round, and its best value and counter carry over into harder stages.
  A mean reward of exactly 0 is not counted by `on_log`.
* `parse_action_from_text` raises TypeError on a fenced JSON scalar; scoring swallows it, the held-out evaluation does not
  (`Evaluate` allows for it). Two training processes on one server share worker sessions.

## 7. Not modelled

* Pages, logging, reports and offline scripts: no state of the system. Files of the audit trail and of
  the run manager: written, never read back by the system.
* The language models: what a policy or a judge answers is a free choice. LLM clients and prompt texts are left out.
* Reward configuration handlers, the token bonus, the expert panel's weighted score, report breakdowns, the red-team grader
  and difficulty adaptation: pure functions no state of an episode depends on, or code only scripts call.
* The random policy, and policies in team mode: the engine's team episodes are checked with every action instead.
* `touch` and `audit` of the ticketing system, which no endpoint reaches.
* Floating point: rewards and scores are exact or truncated at a digit no property looks at.
* Torn reads of `list_summaries`: it reads fields of an engine without its lock and promises nothing about them together.

## 8. Plan

Done: the engine with its protocol, the server with its abstract sessions; themes, judge, limiter and
client; scenarios, agents, graders and their composition with the engine; training; and the proofs of
section 5. Left:

1. ClientPlay: an abstract play without attempts (commands executed in order, some again), implemented by
   the client with its retries.
2. TriageServer: the pool by itself as a cache of sessions with least-recently-used eviction, implemented by
   the server whatever its requests do meanwhile.
3. AgentPlay: a bound on the steps the generic playbook takes where the budget is not ample, from how it shortens
   its lists as time runs out.
