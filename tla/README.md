# A TLA+ model of ModelFuzz-NG

ModelFuzz-NG tests implementations of distributed protocols. It runs a system
under test (etcd raft, through an in-process adapter) inside a deterministic
runtime, feeds the events of each execution to a TLA+ model of the protocol,
and uses the model states that are reached as coverage to steer a fuzzing
experiment. This directory models the program itself: the runtime that must be
deterministic and replayable, the engine that drives it, the experiment loop that
must survive crashes and failed writes without losing or repeating a run, and the
chain that decides whether an execution of etcd raft is reported as wrong: adapter,
oracle, mapper, reference model.

Paths below are relative to `src/`.

## 1. Inventory

| component | state | operations | interacts with |
|---|---|---|---|
| Runtime and network (`internal/runtime`) | one queue per link, next identity, link sequences, clock, trace, counters, first failure, last observation | `Reset`, `Execute(action)`: deliver, drop, duplicate, advance_time, timeout, crash, restart, request | calls the Adapter; called by Engine and replay |
| Core types (`internal/core`) | none | validation of actions, messages, observations, step records; `Trace.Append` | used by everything |
| Adapter for etcd raft (`internal/adapters/etcdraft`) | per member: RawNode, MemoryStorage, epoch, applied index, prefix digests, votes counted by the seeded fault | `Reset`, `Deliver`, `Tick`, `Timeout`, `Crash`, `Restart`, `Request`, `Observe`; `drainReady` after each | called by Runtime; calls go.etcd.io/raft |
| Plan and Resolver (`internal/plan`) | none | `Resolve(plan action, observation)` to a batch of concrete actions | called by Engine |
| Engine (`internal/engine`) | `Result`, observation, no-op counter | `Run`, `RunSource`: the plan loop | Resolver, profile, Runtime, mapper, oracles, model executor |
| Raft mapper, profile, coverage (`internal/model/raft`) | bounds | `Map(transition)`, `ValidateAction`, projections | called by Engine and corpus |
| Model executor, TLC client (`internal/model`, `internal/model/tlc`) | retry state | `Execute(events)` | HTTP to the TLC server |
| Strict TLC server (`tools/tlc-server`) | caches of actions and validated states | `/execute` | TLC's own evaluator |
| Raft oracle (`internal/oracle/raft`) | leaders by term, committed digests | `Reset`, `Check(transition)` | called by Engine |
| Corpus (`internal/corpus`) | coverage, semantic coverage, entries | `Consider`, `RollbackLast`, `RestoreCheckpoint` | called by the feedback loop |
| Feedback runner (`internal/experiment`) | queue, in-flight tasks, pending mutations, counters, aggregation | `RunFeedback`: launch, receive, mutate, checkpoint, stop | worker goroutines, Corpus, Mutator, hooks |
| Experiment store (`cmd/modelfuzz-ng/experiment_store.go`, `main.go`) | four files of the experiment | hooks, resume | Persistence |
| Persistence (`internal/persistence`) | files | `Journal.Append`, `KeepJSONLines`, `WriteJSONAtomic` | the file system |
| Trace replay (`internal/trace`) | none | re-executes the concrete actions of a trace and compares | Runtime |
| Random policy, mutation, LLM planner, metrics, command line | see `PROJECT.json` | | |

Where the difficulty lies:

* **Half-applied steps.** `Execute` changes the network, the clock and the
  system under test before it knows that the step succeeds: a tick loop may fail
  at its third tick, the second message of a batch may find the identity space
  exhausted, observing may fail after everything else worked.
* **Everything checked against a stored observation.** Preconditions of an action,
  the expansion of a plan action, and the profile's bounds all read an
  observation taken earlier.
* **One loop, many goroutines.** Executions and mutations finish in any order;
  the context may be cancelled between any two of them.
* **Four files, no transaction.** A run is committed by up to four writes
  (`corpus.jsonl`, `runs.jsonl`, `progress.jsonl`, `checkpoint.json`); the process
  may be killed, or one of the writes may fail, between any two.
* **Resuming.** Whatever the checkpoint says was in flight is executed again,
  under the same run index, and may be interrupted again.

What makes each component correct is stated with the module that models it
(section 3).
The list of hazards, each with its line and the properties that cover it, is in
`PROJECT.json`.

## 2. Modules

| module | models | refines / extends |
|---|---|---|
| `Runtime.tla` | `Runtime.Reset` and `Runtime.Execute` with every stage and every failure; `network`, `Trace.Append` | implements `MessageLedger` |
| `MessageLedger.tla` | what the network promises about identities, without links, positions or time | |
| `RuntimeProofs.tla` | theorems about `Runtime` | extends `Induction` |
| `Resolver.tla` | `Resolve`: a plan action and an observation to concrete actions | extends `Runtime` for the types |
| `Engine.tla` | `Engine.Run` and `RunSource`, with every way a run may end | composes `Resolver` and `Runtime` |
| `EngineProofs.tla` | theorems about `Engine` | extends `RuntimeProofs` |
| `Corpus.tla` | `Consider`, `RollbackLast`, restoring | |
| `Feedback.tla` | `RunFeedback`, checkpoints, hooks, crash and resume | extends `Corpus` |
| `FeedbackProofs.tla` | theorems about `Feedback` | extends `Induction` |
| `RawNode.tla` | external: go.etcd.io/raft as the adapter uses it | |
| `EtcdAdapter.tla` | the adapter: Ready, storage, crash, restart, snapshots, the seeded vote fault, observations | extends `RawNode` |
| `RaftModel.tla` | `models/raft/raft.tla` as the strict TLC server executes it | |
| `RaftMapper.tla` | `ValidateAction` and `Map` | extends `EtcdAdapter` |
| `RaftOracle.tla` | `Checker.Reset` and `Check` | extends `EtcdAdapter` |
| `Cluster.tla` | one execution of the whole stack | composes `RaftMapper`, `RaftOracle` and an instance of `RaftModel` |
| `RawNodeProofs.tla` | what one operation of a `RawNode` does | extends `Induction` |
| `ClusterProofs.tla` | theorems about `Cluster` | extends `RawNodeProofs` |
| `Persistence.tla` | a journal and a checkpoint, call by call: `OpenJournal`, `Append`, `KeepJSONLines`, `WriteJSONAtomic` | implements `DurableJournal` |
| `DurableJournal.tla` | what a journal promises: an acknowledged record stays | |
| `PersistenceProofs.tla` | theorems about `Persistence` | |
| `RandomPlans.tla` | crashes and restarts in the plans of the random policy and the random mutator | |
| `RandomPlansProofs.tla` | theorems about `RandomPlans` | extends `RandomPlans` |
| `Induction.tla` | lemmas of the proofs: induction over the natural numbers, functions defined by recursion over them | |
| `MCRuntime.tla`, `MCEngine.tla`, `MCFeedback.tla`, `MCCluster.tla`, `MCPersistence.tla`, `MCRandomPlans.tla` | instances for TLC | |

## 3. What is modelled, and how it corresponds to the code

### Runtime

A call of `Execute` is a sequence of steps, because it can stop between any two
of them. `call.phase` says which stage comes next:

| phase | code |
|---|---|
| `idle` | no call; guards are `validateBudget` and `validatePreconditions` |
| `tick` | the loop of `advanceTime`, once per tick |
| `register` | the registration loop of `processAdapterEffects`, once per message |
| `observe` | `collectObservation` and `Trace.Append` |

The rest of the frame (`action`, `before`, `sent`, `effects`, `outbox`, ...) is
the local state of the call. Actions and code: `Deliver`, `Drop`, `Duplicate`,
`AdvanceTime`, `Timeout`, `Crash`, `Restart`, `Request` are the cases of
`applyAction`; `Tick`, `RegisterOutbound`, `EffectsProcessed`, `RecordStep` are the
later stages; `DeliverFails`, `OnNodeFails`, `TickFails`, `ObserveFails`,
`CapabilitiesPanic`, `AppendRejected`, `ResetFails` and the failing disjuncts of the
others are the error paths, each at the point where the code has already changed
what it changes. A call rejected before `applyAction` changes nothing and is a
stuttering step.

The adapter is the environment. It returns any batch of up to `MaxBatch`
messages on any links, together with any set of timer events, or an error, or it
panics; after an error a crash or restart may or may not have happened. Payloads
are left out: the Runtime never looks at them. Effects other than messages and
timers only count towards `MaxEffects`.

Properties (all in `Runtime.tla`):

* `IdentitiesUnique`, `LinkOrder` – identities and queues under any mix of
  deliveries from any position, drops, duplicates and exhaustion of the identity
  space;
* `ObservationFresh` – the observation the next action is checked against is the
  present state of members, queues and clock, though failed steps never refresh it;
* `TraceAccountsForNetwork`, `IdentitiesReplayable`, `TraceContiguous` – what trace
  replay and the mapper need: the recorded steps alone determine the identities,
  the contents of the network and the clock;
* `LimitsHold` – the hard limits, also in the middle of a step;
* `TerminatedIsFinal` – a failed step is not in the trace, and nothing but `Reset`
  follows it;
* `LedgerSpec` – the network implements `MessageLedger`: identities issued once and
  in order, each message leaving at most once;

A failure keeps, besides the operation and the action, the class of its error
(`Errors`), because the Engine reacts differently to an exceeded budget and to a
cancelled context. That every call ends is part of `RunReturns` of the Engine.

### Resolver and Engine

`Resolve` is an operator: the resolution of a plan action against an observation.
A concrete action is a Runtime action together with the place of its message,
because the place, not the identity, is what can become wrong: a batch takes
messages out of the queue it selects from, and the system under test queues new
ones. Positions count from 1.

The Engine is the only caller of the Runtime, so `Engine.tla` composes the two
directly: each of its actions either is a step of the Runtime or leaves the Runtime
unchanged. `stage` is the place in `run`:

| stage | code | actions |
|---|---|---|
| `ready` | before and after a run; `result` is what the last run returned | `Begin`, `BeginFails`, `RunCanceled` |
| `plan` | the head of the plan loop | `PlanCanceled`, `PolicyEnds`, `PolicyFails`, `Plan`, `PlanEnds` |
| `batch` | the loop over the concrete actions of a resolution | `ActionInapplicable`, `ModelBoundReached`, `ActionUnsupported`, `Execute`, `ExecuteRefused`, `BatchEnds` |
| `call` | inside `Runtime.Execute` and right after it | `Executing`, `ExecuteFailed`, `ExecuteSucceeded` |
| `finish` | after the plan loop | `Finish` |

`view` is the local variable `observation`, `before` the `BeforeObservation` of the
step, `loop` the counters, `batch` the rest of the resolution and what was executed
of it. `Break` leaves the plan loop, `Stop` returns an error; both take over what the
code captures from the Runtime. `MarkStopped` and `MarkInapplicable` rewrite the last
resolution. A model event is the transition it is mapped from.

External: the source asks for any member of `PlanActions`; the mapper, the oracles and
the model backend may fail whenever they are asked; the context may be cancelled at any
time. `Verdicts` is the Raft profile (`model/raft/profile.go`) with terms, logs and
message types left open: for each kind of action the set of answers the code can
give.

Properties (in `Engine.tla`):

* `ResolvedActionsAccepted` – the Engine never hands the Runtime an action it refuses,
  whatever happened since the action was resolved: a run fails as `runtime_failed`
  only when an operation of the system under test failed;
* `HistoryUnbroken` – actions, trace and model events of every
  result, partial ones included, tell the same unbroken history;
* `ResolutionsCoverActions` – the rewritten resolutions are valid and are exactly what
  was executed. Two ends are outside it: a budget of the Runtime leaves the last
  resolution as it was resolved, and an action the profile does not support empties
  it although its prefix has been executed;
* `TerminationExplained` – the no-op limit and the reason of the
  termination are those of the history;
* `RunReturns` – every run returns.

### Corpus and Feedback

`pc` names the next thing the loop of `RunFeedback` does. Everything between two
writes to disk is one step, so that `Crash` may fall between any two writes.
Executions and mutations report through buffered channels that never block their
senders, so a report is modelled at the moment the loop receives it. The order is
free between executions; mutation requests go through one goroutine and are
answered in order.

| variable | code |
|---|---|
| `ready`, `rerun`, `inFlight`, `pending`, the counters | locals of `RunFeedback` |
| `corpus` | `*corpus.Corpus` |
| `recorded`, `report` | the accumulator of `aggregation.go` |
| `current` | the run between `Consider` and the run event |
| `checkpointFile`, `runsFile`, `corpusFile`, `lastEvent` | `checkpoint.json`, `runs.jsonl`, `corpus.jsonl`, the last sequence in `progress.jsonl` |

`LaunchRerun` and `LaunchNew` are the launch loop, `Reseed` the refill when nothing
is left to do, `ReceiveExecution`, `WriteCorpusEntry`, `RecordRun`, `EmitRun`,
`SaveRun` the handling of one result, `ReceiveMutation` and `EmitMutation` that of
one mutation, `StopOnCancel`, `EmitStopped`, `SaveStopped` are `stopWithError`,
`Finish`, `EmitFinished`, `SaveFinished` the end, and `ResumeRuns`, `ResumeLoop` are
`openExperimentStore` and the restoring half of `RunFeedback`. `Valid` is
`Checkpoint.Validate` with the parts of `AggregationSnapshot.Validate` that
constrain the schedule.

A hook that fails has written nothing, or fails after its line is in the file
(`FailingHooks`): `OnRunComplete` and `OnEvent` write more files after the journal
line. A line cut short by a crash is removed by the next `OpenJournal`
(`persistence/files.go`), so the model writes whole lines; `Persistence` below is about
how they get whole.

Properties: `CheckpointRestorable` (whenever the process dies the checkpoint on disk can be
resumed from), `JournalsUnique`, `CoverageAttributedOnce`, `CandidatesConserved`,
`PeriodicSeedsConserved`, `DurableProgress` (a new checkpoint never undoes an older
one), `EventsContiguous`, `EventuallyCompletes`.

Assumptions taken over from the code's callers: a mutator returns at most as many
plans as it was asked for (both mutators do), and an initializer that returns
fewer plans than asked for is an experiment with a smaller `InitialPopulation`.
`progress.jsonl` is written through a buffered writer whose error is sticky; the
model lets a later write succeed, which allows more behaviours than the code.

### The Raft stack: RawNode, EtcdAdapter, RaftMapper, RaftOracle, RaftModel, Cluster

A step of `Cluster` is one concrete action: `ValidateAction` admits it, the adapter
performs it and drains `Ready`, the oracle compares the observations before and
after, and `Map` turns the step into events that the reference model takes. All of
this happens in one call of the Engine (`engine.go:241-294`), so it is one step.
The calls of the adapter are operators whose value is the cluster and the effects;
a reference-model action is an operator whose value is the set of successors, which
is what the server asks TLC for.

| operator | code |
|---|---|
| `Deliver`, `ForceTimeout`, `Tick`, `Crash`, `Restart`, `Request` | the methods of `Adapter` |
| `DrainReady` and its stages `ApplyReadySnapshot`, `PersistReady`, `RecordCommitted`, `MaybeSnapshot`, `Advance` | `drainReady`, `handleReady`, in the order of the code |
| `Outbound`, `PassesOn`, `Refused` | `outboundMessage`, with the epochs of forwarded proposals |
| `MaybeActivateVoteFault` | `fault.go` |
| `ValidateAction`, `Map` | `profile.go`, `mapper.go` |
| `Check` | `oracle/raft/checker.go` |
| `Simulate`, `Successors`, `InBounds`, `ValidState` | `StrictTLCServer.simulate`, `RaftEventMapper`, `ModelBounds`, `validateState` |
| `Timeout`, `BecomeLeader`, `HandleAppend...` of `RaftModel` | the actions of `raft.tla` with the same names |

Abstractions:

* `RawNode` is etcd raft as configured by the adapter: no PreVote, no CheckQuorum, no
  membership change; votes, appends with their flow control, rejections with the
  index hint, heartbeats, snapshots and forwarded proposals are there. Which entry
  wins and when comes from the library, so the module is external and no property is
  about it alone.
* A node whose `failed` is set has returned an error to the Runtime; nothing is
  claimed of the execution afterwards except that it does not happen.
* A digest of a prefix stands for the prefix: a chained hash is equal exactly where
  the entries are.
* Time is not counted. `Tick(fired)` is a tick in which the timers of `fired` run
  out; the ticks in which none does change nothing that is modelled.
* The network is the set of all messages ever sent. The Runtime may deliver any of
  them, in any order, again (`duplicate`) or never (`drop`); `Runtime.tla` has the
  queues.
* The server replays the trace of a whole execution at its end. `Cluster` feeds it
  each step as it is taken, which visits the same states.
* `reference` is what the server says; a `findings` that is not empty and a step
  `Map` refuses end the run (`RunGoesOn`), a verdict of the server does not, because
  the code learns it after the run.

Properties (all in `Cluster.tla`):

* `OracleSilent` - no false alarm: whatever the schedule, crashes and snapshots, a
  correct etcd raft gives no finding;
* `ReferenceAccepts`, `ReferenceMatches` - the mapping is sound: every step of etcd
  raft is a sequence of enabled steps of the reference model, which then has the terms,
  logs, leaders and votes of the cluster. Three things are allowed to differ. The model
  has no step with which a candidate that lost gives up, so it may still hold one; it
  grants votes that etcd refuses because it follows a leader already; and it sets
  the commit index of a follower to the one of the message, so an old message takes
  it back where etcd's does not move. In none of them does the model go beyond the
  cluster in what is committed;
* `AdapterCallsSucceed`, `PrefixesKept` - snapshots and
  compaction never leave a node that cannot be caught up, nor one the oracle passes over;
* `FailuresLoseNothing`, `AppliedStays`, `OneVotePerTerm` - storage: what a node
  answered for survives its crash, and what it applied stays;
* `TwoLeadersReported`, `WeakElectionsRefused` - the seeded fault is found, by the oracle
  when a term has two leaders and by the server in every election it decides.

### Persistence

`Persistence` is one journal and the checkpoint beside it, at the level of the calls to
the file system. A line is written in `Parts` and a newline, each part a step (the
buffered writer may flush anywhere); `survivors` and `checkpoints` are the contents
the two files may have after a loss of power: every write adds one, a sync leaves one.
`pc` is the call that comes next. `watermarked` tells `runs.jsonl` and
`corpus.jsonl`, which a recovery cuts to the number in the checkpoint, from
`progress.jsonl`, which it only repairs.

| actions | code |
|---|---|
| `OpenStore` | `openExperimentStore`, of a new directory or of one with a readable `checkpoint.json` |
| `KeepRepairs`, `KeepTruncates`, `KeepSyncs`, `OpenJournal` | `KeepJSONLines` and `OpenJournal` |
| `BeginAppend`, `WritePart`, `WriteFails`, `AppendSyncs`, `AppendSyncFails` | `Journal.Append` with the sticky error of its writer |
| `WriteTemporary`, `SyncTemporary`, `TemporaryFails`, `Rename`, `SyncDirectory` | `WriteJSONAtomic`, whose last step may fail unnoticed |
| `Killed`, `PowerLost` | the process or the machine stops between any two calls |

An I/O error while the store is opened ends the program, which `Killed` covers. Two
assumptions about the file system: what a loss of power leaves of a file is what
it contained at some moment since the last sync, and a sync that succeeds after one that
failed has written everything.

* `RecoverySucceeds` - wherever the program stops, the directory can be resumed from:
  the checkpoint decodes, no journal has fewer lines than it counts, no line is torn or
  shared by two records;
* `JournalSpec` - a journal implements `DurableJournal`: an acknowledged record survives
  every crash and every failed call, and a recovery cuts to no less than what the
  durable checkpoint counts.

### Random plans

Two programs make plans with crashes. The random policy (`policy/random.go`) chooses
each action online, against an observation; the random mutator (`mutation/random.go`)
edits recorded plans offline and accepts what its `validateLifecycle` accepts. Members
crashed at once, episodes per plan and the cooldown between lifecycle actions are
limited in both, but by different code over different state: counters of the policy,
a scan of the plan by the mutator. `RandomPlans` has both, in three modes: `online`, the
policy makes a plan (`StartPolicy`, `Draw`) while it is executed (`ExecuteAction`); `corpus`,
the run is over (`RunEnds`) and its plan may be mutated (`Mutate`, with every operator of
the mutator followed by `validateLifecycle`); `offline`, a mutant is executed. A plan is the
sequence of its lifecycle actions and of the others, whose kinds are told apart only where
the cooldowns do; weights are zero or positive.

* `PlansAcceptable` - every plan the policy makes, and every mutant the mutator returns,
  satisfies the mutator's rule: two implementations of one rule agree;
* `LifecycleNeverSkipped` - a plan that satisfies the rule is executed without a
  crash or a restart that is not applicable.

## 4. The runs

| run | instance | shows |
|---|---|---|
| `runtime` | 2 members, both links, 3 actions, queues of 2, 3 identities | every invariant, `TerminatedIsFinal` and the refinement of `MessageLedger` |
| `engine` | 2 members, 1 link, plans of 3, budgets and policies of 2 plan actions, batches of 2, 3 concrete actions, 2 ticks, queues of 3, no-op limit 2 | every invariant of the Engine, and every run returns |
| `engine_failure` | as `engine` | a completed run with a failure record (finding) |
| `feedback` | 4 runs, 2 in parallel, queue of 1, 2 interruptions; run summaries may fail after the write, checkpoints may fail | all safety properties of the experiment |
| `feedback_failures` | 3 runs, queue of 1, every hook may fail in every way, 2 interruptions, a checkpoint after each run | journals and event numbers hold under all failures, and every experiment completes |
| `corpus_failure`, `cancelled_runs` | 3 runs, 1 interruption | the findings below |
| `cluster` | 3 nodes, terms to 2, logs to 2; `MCBudgets` | the reference model follows every step |
| `cluster_snapshots` | as `cluster`, a snapshot at each index, nothing retained; `MCSnapshotBudgets`; without the reference model | no false alarm of the oracle; storage, snapshots and compaction |
| `cluster_weak_quorum` | 4 nodes, divisor 3, one term; `MCWeakQuorumBudgets` | the seeded fault is found |
| `persistence` | lines of 2 parts, 3 lines, 3 crashes, any call may fail | a resumable directory, and the refinement of `DurableJournal` |
| `random_plans` | 3 members, 2 crashed at once, 2 episodes, cooldowns of 1 and 2, plans of up to 7 actions | the two rules on crashes agree, and no lifecycle action of a valid plan is skipped |

Why these bounds are enough to be interesting. With `MaxUint64` = 3 the identity
space is exhausted within an execution, at the boundary and past it, and both by
sends and by duplicates; with batches of 2 a batch can fail at its second message;
queues of 2 against batches of 2 meet the queue limit from both sides; two ticks
and a limit of 2 ticks under `MaxTime` = 3 let a multi-tick advance fail at each tick
and be refused. Two links between two members are enough for one queue to change
while another must not; the two members are interchangeable, which is the symmetry
used in `runtime`. In `engine` one link is enough, because
a plan action concerns one queue; deliveries start at the first or the second of up
to three messages and ask for two, so that a batch selects from the middle, is cut
short or is clamped; a request for three exceeds `MaxMessageBatch` and an
advance by three exceeds `MaxAdvanceTicks`; 3 concrete actions against 3 plan
actions of up to two meet the action limit in the middle of a batch, the no-op
limit of 2 is met before, at and after the end of a plan. `ClampMessageStart`,
`FailOn`, `ModelExecutor` have one value each in the run, and no plan asks for a timeout:
what the Runtime and the profile may do with one they may also do with a request.
In `Feedback`, 4 runs with 2 in parallel are the smallest experiment where a rerun
is pending while new work is in flight, where two thresholds of random seeds are
passed, and where a queue of 1 overflows; `CheckpointEvery` = 2 leaves a
completed run uncovered by a checkpoint; two interruptions make a resume be
interrupted again. The three visit sets give executions without coverage, with
overlapping and with disjoint coverage. In `Persistence` two parts and a newline are enough for a line to be torn in its text and
before its newline; three crashes let a recovery be interrupted twice, and three lines let
a checkpoint count fewer lines than are acknowledged, and those fewer than are in the
file. In `RandomPlans` three members against `MaxCrashed` = 2 leave one that must not crash
and one that must restart before it may; `MaxPlanActions` is the bound of the code itself,
and seven actions fit two episodes with their cooldowns, in overlap or in sequence.
Bounds that belong to the model and not to
the code (those of `Cluster` below aside): `MaxLines`, `MaxCrashes`, `MaxBatch`, `MaxTime` (also as the guard of an advance in `Plan`), `MaxInterruptions`, and the small values of
`MaxUint64` and `Runs`.

In `Cluster` an execution may spend one of the `Budgets`: how often a timer fires,
elections start, clients ask, nodes crash and restart, and how many different messages
are sent; `MaxLogIndex` and `LargestTerm` are bounds of the code itself, enforced by
`ValidateAction`. The three kinds of hazard are separate budgets, because all of
them together is out of reach: a heartbeat, a crash and a restart around one election (12
messages); two elections against each other (16); a request to its commit at every node
(16, which is what it takes); and two elections with a request, in the snapshots run with
a crash for good as well (14). These reach elections with duplicated and stale votes, a
deposed leader, appends refused for a gap and sent again, conflicting suffixes truncated,
batches of two entries, proposals passed on after their requester crashed, a follower
caught up by a snapshot, and a restart from a compacted log. With a weakened quorum there
are two budgets: two elections and a crash for good (14 messages), and two elections with
a crash and a restart between them (8), in which a node votes, restarts and is asked again.
Four nodes are the fewest for which the weakened quorum, 4/3+1 = 2, is not a majority;
two leaders of one term take fourteen messages there. Nodes are interchangeable
(`Symmetry`); the only choices, of the synthetic voters and of the order of nodes within a
step, are between nodes nothing tells apart. The snapshots run is without
the reference model because that model has no snapshots: the mapper maps a `MsgSnap` to
nothing, as `models/raft/README.md:49-51` says, and the model falls behind.

Deadlock checking is off for `Feedback`, `Persistence` and `Cluster` only: an experiment that is
complete, or whose process is down without a checkpoint it can resume from, really
stops, and so does an execution that has spent its budget, as it does in the code.

Fairness. `Engine`: weak fairness of the steps of a run, the stages of `Execute`
included – a run is one goroutine, and the adapter, the source of actions and the
model backend return from every call (the backend by its timeout). `Feedback`: weak fairness of the
loop – executions are bounded by their budgets, mutators by their timeouts, so
something in flight always reports – and of resuming, which is the user running
the program again; interruptions are finite.

## 5. What is proved

The theorems hold for every value of the constants: every set of members and links, every
combination of limits, every identity range, every plan length, every set of nodes of a
cluster, every schedule and every snapshot policy.

`RuntimeProofs.tla`:

* `TypeCorrect` – `TypeOK`. It is not inductive alone: a tick may take the clock
  past its type unless the target of an unfinished `advance_time` is ahead
  (`TickAhead`), and the two together (`Types`) are preserved by each of the
  twenty-two kinds of step.
* `IdentitiesCorrect` – `IdentitiesUnique`, inductive relative to `Types`. Every step
  touches the network in one of four ways (`NetworkSteps`: unchanged, one message
  removed, one registered, everything cleared), so the argument has four cases. The
  removal case rests on `RemoveAtProperties`, the registration case on
  `FreshIdentity`, which is where the wrap of the identity counter to 0 matters.
* `ObservationCorrect` – `ObservationFresh`. The strengthening says that between
  calls, unless terminated, the observation is current; the stages of a call need
  no such fact, because `RecordStep` takes a new one.
* `TerminationCorrect` – `TerminatedIsFinal`: a terminated execution is idle
  (`StoppedIdle`), so no stage of a call can be enabled.

* `TraceCorrect` – `TraceContiguous`. A record is appended long after its start was
  taken, so the invariant relates the frame of the call in progress to the end of
  the trace (`CallTime`).
* `LimitsCorrect` – `LimitsHold`, in every intermediate state. The queue limit needs that
  the room for all messages of an adapter call is checked before the first is
  registered: queued messages plus those still in `outbox` stay within the limit.
* `LinkOrderCorrect` – `LinkOrder`. The invariant says that identities, link sequences and
  times increase along every queue (`Increasing`), that none exceeds what was handed out
  and a copy is younger than its original (`Placed`), and that a copy is on the link of its
  original and behind it (`CopiesBehind`). Removal at any position preserves all three;
  registration needs that the new identity is the largest.

* `LedgerCorrect` – `Spec => LedgerSpec`, the refinement of `MessageLedger`. Each of the four
  network effects is one step of the ledger or a stutter: removal is `Leave`,
  registration `Issue`, clearing `NewExecution`.
* `AccountsCorrect` – `TraceAccountsForNetwork`. The invariant speaks of every
  moment, not only of the moments between calls: queued identities are the assigned
  ones without those that are `Gone`, which is what the trace records as taken and what the
  call in progress has taken (`Accounts`).
* `ReplayCorrect` – `IdentitiesReplayable`. The identities a trace has used are a function
  defined by recursion over it; `UsedSums` and `UsedAppend` say what it computes for every
  trace and what one record adds. The invariant (`Replays`) continues the count into the call
  in progress: what it has sent so far follows on what the trace has used, and a duplicate
  takes one identity more.

`EngineProofs.tla`:

* `EngineRunsRuntime` – `EngineSpec => Spec`: a run of the Engine is a run of the Runtime.
  So each theorem above holds while the Engine drives the Runtime, and the other proofs
  use them. The argument is that what `Execute` is asked for is a call the Runtime offers
  (`StartIsNext`), which needs the types of the Engine.
* `EngineTypeCorrect` – `EngineTypeOK`, from `EngineFrame`: inside a batch there is a last
  resolution to rewrite and the no-op counter is behind the number of processed actions,
  inside a call there is an action left, and a call that has returned without error has
  left a record. That the Resolver builds resolutions (`ResolveType`) is proved for all
  queues, positions and batch sizes.
* `HistoryCorrect` – `HistoryUnbroken`. While a call is unfinished the trace is behind what
  has happened, and between the recorded step and its mapping the actions are behind the
  trace. `EngineHistory` says for each of these moments how far each account has come.
* `ResolvedCorrect` – `ResolvedActionsAccepted`. `BatchStands` says that what is left of a
  batch stands: it is a batch over one queue, or a single action (`OneBatch`), and each
  action finds its message in its place when those before it have been executed
  (`Stands`). Deliveries and drops take their own message out, copies and messages that are
  sent only append (`Grown`), and no member changes its state inside a batch.
* `ResolutionsCorrect` – `ResolutionsCoverActions`, and `ExplainedCorrect` –
  `TerminationExplained`, from one invariant, `EngineAccounts`, which says at each stage what
  the resolutions hold: at the head of the plan loop exactly the executed actions, with the
  no-op counter at the number of resolutions at the end that hold none (`Settled`); inside
  a batch the same of all but the last, which holds what has been executed and what is left
  unless the profile held some of it inapplicable (`Partway`); after the loop that and the
  reason for which it ended (`Over`), from which `Finish` makes the termination (`Told`).
  `OneResolutionMore` says what one resolution adds to the actions and to the count.

`PersistenceProofs.tla`, from one invariant, `PersistenceInv`:

* `RecoveryCorrect` – `RecoverySucceeds`. The invariant is about every content the two files
  may have after a loss of power, not only about the present one: each survivor of the
  journal holds the acknowledged lines (`PromisesKept`), each line is one record, no
  checkpoint that may be found counts more than is acknowledged (`CheckpointsCovered`), and the
  temporary file that is about to be renamed counts what is acknowledged
  (`TemporaryCurrent`). A recovery that is interrupted keeps all of it.
* `JournalCorrect` – `Spec => JournalSpec`, the refinement of `DurableJournal`. Its records are
  the acknowledged prefix of the file, its committed number the oldest checkpoint that may be
  found.

`FeedbackProofs.tla`. Every step is one of the kinds of `Steps` (a reseed, a launch, a result
received, an entry or a run written, a checkpoint, an end or crash, a resume, and the `Light`
steps that touch none of this), so
each invariant has one case for each:

* `EventsCorrect` – `EventsContiguous` (`Numbered`: the counter in memory, the one in the checkpoint
  and the last line of `progress.jsonl` agree up to the event being written).
* `FeedbackTypeCorrect` – `TypeOK`, with the limits of the queue and of the tasks (`Typed`).
* `JournalsCorrect` – `JournalsUnique`. `Journaled` says that the launched indices are those of
  the tasks and of the results, each of one of them, in memory and in the checkpoint
  (`RunsDone`), that `runs.jsonl` holds the results in its order (`RunsWritten`), and that the
  n-th entry of `corpus.jsonl` is the n-th of the corpus (`EntriesWritten`).
* `CandidatesCorrect` – `CandidatesConserved` (`CandidatesKept`: the balance, in memory and in the
  checkpoint).
* `CoverageCorrect` – `CoverageAttributedOnce`, from `CoverageAttributed`: the coverage is that of
  the results, each state is new in exactly one of them.
* `SeedsCorrect` – `PeriodicSeedsConserved`, from `SeedsKept`: seeds due and seeds made add up to
  what the thresholds passed require; a resume gets back the seeds of the tasks it
  restarts.
* `UnlessLostCorrect`, `RestorableCorrect` – `CheckpointRestorable`. Whatever hooks fail, a
  checkpoint with a summary for every completed execution and a line of `runs.jsonl` for each
  of them can be resumed from. That there always is one (`NothingLost`) has a hypothesis: no
  hook fails between the count of an execution and its line in `runs.jsonl` (`Losing`). The
  hypothesis cannot be dropped, as the findings in section 8 show; the run `feedback`
  satisfies it. It allows every failure of events and checkpoints, and of what follows
  the line of a run.
* `ProgressCorrect` – `DurableProgress`: a checkpoint never undoes the one it replaces, unless
  `corpus.jsonl` cannot be written. `Ahead` relates memory to the checkpoint on disk: what this
  records and covers memory has too, and a task in flight there is in flight or recorded in
  memory.

Several clauses about the checkpoint are conditional on as many results as completed
executions. A hook that fails may leave a checkpoint without a result it counts, but
`Valid` refuses it, so nothing is ever restored from it.

`RandomPlansProofs.tla`:

* `PlansCorrect` – `PlansAcceptable`. The invariant `PlanInv` says that the policy's
  counters are what a scan of the plan so far gives (`Counted`), and that the members that
  run are those the executed part of the plan leaves running (`Executed`).
* `LifecycleCorrect` – `LifecycleNeverSkipped`, from the same invariant.

`RawNodeProofs.tla` describes raft from outside. `Stepped` relates a `RawNode` before and after
one message, and what it sends: it may first yield to a later term (`Yields`); after that it
grants a vote, takes entries or a snapshot from a leader and acknowledges them, hears an answer as
leader, counts a vote, proposes, or sends what it has. For each of these it says which fields
stay, what the messages carry and how the commit index may move. `StepStepped` proves it of
`Step` for every state and message. Nothing else of the proofs about the cluster looks into the
handlers. Two places of `RawNode` changed because the proof did not go through: guards of
`Step` that overlapped, where a proposal met a later term, and a `sendAppend` to a peer whose
`next` lies behind the log, where raft sends a snapshot.

`ClusterProofs.tla`. A call of the adapter is one `Stepped` and the drain of what it made ready
(`DrainReadyDrains`: persisted, applied, recorded, compacted); deliveries with the vote fault,
forced timeouts, ticks, requests, crashes and restarts are each that for the nodes concerned and
nothing for the others (`Acts`), and the oracle looks at the result (`Executed`). The
invariant `Inv` has a part for what always holds and a part for as long as the oracle has reported
nothing:

* always: each node agrees with its store, its digests with its log, its snapshot with its
  digests (`NodesOK`); messages are well formed (`MessagesOK`); a vote that is told is on disk
  (`VotesOnDisk`) and given once (`VotesOnce`). `NodesVoteOnce` – `OneVotePerTerm` and
  `LeadersReported` – `TwoLeadersReported` come from there, the second with `Led`, which says
  that the oracle has seen whoever sent entries or a heartbeat of a term;
* while `findings` is empty: applied prefixes agree (`PrefixesAgree`), and there is a log for each
  term that has a leader, `L` (`LogsKept`): it is the leader's own log while it leads (`LedBy`);
  every log of a node agrees with the log of its last entry's term up to that entry (`Following`);
  every entry in the network comes from the log of the message's term (`Carried`); what a node has
  acknowledged in a term it still holds while it is in that term (`Acknowledged`). `L` is not a
  variable of the model: the invariant says that some `L` exists, and each step shows the next one
  (`LogsGrow`). A leader's match is backed by an acknowledgement (`MatchKnown`), so the
  commit index a heartbeat carries is within the receiver's log (`HeartbeatsAreSafe`), which is
  what raft panics about otherwise (`raftLog.commitTo`).

`CallsSucceed` – `AdapterCallsSucceed`, `PrefixesStayAvailable` – `PrefixesKept`, `FailuresLose` –
`FailuresLoseNothing` and `AppliedIsFinal` – `AppliedStays` follow. None of these needs quorums to
intersect: with the weakened quorum two leaders of a term may be elected, but the oracle sees both
before an entry of the second arrives anywhere, and an execution with a finding takes no further
step. So they hold for both values of `VoteQuorumDivisor`.

`OracleStaysSilent` – `OracleSilent` is the other half: with the true quorum there never is a
finding. It is the safety argument of raft, for the code as the adapter drives it. Its one
hypothesis, `VoteQuorumDivisor = 2`, says that quorums are majorities, and cannot be dropped: with
divisor 3 the run `cluster_weak_quorum` reaches states in which the oracle reports two leaders.
`SafeInv` adds two parts to `Inv`, with `findings = {}`:

* `Ballots`, about elections: a vote request describes the log of the candidate while it
  campaigns (`VotesAsked`), what a candidate counts are votes it was given (`BallotsCounted`), and
  whoever leads has won its term (`LeadersElected`). Quorums meet and no node votes
  twice in a term, so a term has one winner (`OneWinner`);
* `Quorate`, about what a quorum holds. A place is a term and an index at which the leader of that
  term wrote (`Slot`); a node has it when it is that leader or has acknowledged it (`Has`). Who
  has a place still has the entries up to it, unless the log of a later leader lost them
  (`HoldersKeep`). A candidate has what those who back it have (`CandidatesKnow`): this is where the
  check that the log is up to date comes in (`UpToDateKeeps`). So a leader has what a quorum had
  when it was elected (`LeadersKnow`), and a place a quorum has is in the log of every later
  leader (`ChosenStays`: the first leader without it would have been elected by a node that had
  it, after every leader before it had kept it). Whatever a node has applied, and every commit index a
  message carries, lies below such a place (`CommitsCertified`, `MessagesCertified`), so
  applied prefixes agree (`CertifiedAgree`).

The log of a term is, again, an `L` that exists: the `L` of a step grows into that of the next
(`Onward`).

Induction over data is done with sets in place of predicates: the induction theorems of the
library take an operator as a parameter, which the provers cannot instantiate, but
`Inductive` of `Induction.tla`, which follows from the least element of a set of natural numbers,
takes a set, and `Recursion` says that a function defined by recursion over the natural numbers
exists. `UsedSums`, `Flattened` (joining sequences) and `AdmittedOneByOne` (admitting the mutants of
an answer to the queue) rest on these two.

The assumptions are those named in the modules: for `Runtime`, links join members, limits are
natural numbers, the identity range is not empty, the absent member is no member; for
`Engine`, an online source has a budget, as `RunSource` has, and the limits are natural
numbers; for `Feedback`, limits are positive where the runner makes them so (`runner.go:238-268`), each
execution visits finitely many states, and `None`, which stands for no current run and no
checkpoint file, is neither a run nor a checkpoint; for `Persistence`, a line has a part and a
torn line is no record; for `RandomPlans`, members are finite and limits and cooldowns natural
numbers; for the cluster, nodes are finite, `None` is no node, no message is `NoMessage`, the
divisor is 2 or 3, and 3 only for four nodes or more, as `config.go:127` demands.

Only model-checked: of the cluster, `ReferenceAccepts`, `ReferenceMatches` and
`WeakElectionsRefused`, which compare it with the reference model event by event, and `ClusterTypeOK`, whose bounds are those of the mapper and of
the runs' budgets; and all liveness - `RunReturns` and `EventuallyCompletes` - because fairness and
ENABLED are beyond the proof system. The three runs that expect a violation show the findings;
there is nothing to prove.

## 6. Plan

Done: `Runtime`, `Engine` with the `Resolver`, `Feedback` with `Corpus`, `Persistence`,
`RandomPlans` and the Raft stack, each with the proofs of its safety properties.
What would add most next:

1. **Replay** on top of Runtime: a replay of a recorded trace reproduces it.
2. **LLM planner**: its `validateSequence` is weaker than the mutator's rule, so an initial
   plan of the planner may violate the cooldown; what the mutator makes of it.

## 7. Not modelled, and why

* `model/raft/coverage.go` projects model states to semantic keys. Which states share a key
  decides what counts as new, not how it is counted: `Corpus` has the keys as a constant
  function (`SemanticKey`).
* The caches of the strict TLC server only save repeated work: every bound action of
  `raft.tla` has at most one successor, and a state is valid or not whenever it is asked.
  The HTTP exchange, retries included, is one call that succeeds or fails
  in `Engine`.
* Prompting and decoding of LLM answers, metrics, reports and flags influence no
  decision of the components above beyond a value that is already nondeterministic here.
* What the random policy and the mutators choose besides crashes and restarts - messages,
  timeouts, requests, selectors, ticks - is what `Engine` and `Feedback` let the
  environment choose freely.
* Trace replay re-executes recorded actions on a fresh Runtime and compares; it keeps no
  state. What it needs of the Runtime is `IdentitiesReplayable`, `TraceAccountsForNetwork` and
  `TraceContiguous`; the rest is that the adapter is deterministic.
* `Runner.Run` without feedback has no state to resume.

## 8. Findings

* `corpus_failure`: when appending to `corpus.jsonl` fails, the checkpoint that
  `stopWithError` forces counts a run that is neither aggregated nor in flight
  (`internal/experiment/runner.go:595`); it replaces the last good checkpoint and is
  refused by `Checkpoint.Validate`. The comment of `RollbackLast`
  (`internal/corpus/corpus.go:243`) promises the contrary.
  The same happens when appending to `runs.jsonl` fails
  (`internal/experiment/runner.go:618`): the forced checkpoint counts
  one line more than the file has, and `KeepJSONLines` refuses to open the experiment.
  `FailingHooks = {"run"}` in `MCFeedbackCorpusFailure.cfg` shows it.
* `cancelled_runs`: an execution cut short by a cancelled context may be recorded
  as a completed, failed run (`internal/experiment/runner.go:501`, `548`) and is not
  rerun after a resume.
* `engine_failure`: an adapter that returns more effects or messages than the limits
  allow ends the step after the system under test has taken it; the Runtime records
  a failure, but the Engine takes the error for a normal budget termination
  (`internal/engine/engine.go:244`) and completes, so `failure.json` of a completed run
  is not `null` as `README.md:88` says.

Also observed, without a run of its own: `Execute` terminates an execution without a failure
record when `Trace.Append` refuses the record (`internal/runtime/action.go:72`), though
`Runtime.Failure` promises one (`internal/runtime/runtime.go:149`). It takes an adapter
that observes no member; the etcd adapter never does.
