--------------------------- MODULE FeedbackProofs ---------------------------
(***************************************************************************)
(* The bookkeeping of a feedback experiment, whatever is interrupted,      *)
(* whichever hooks fail, and however often it is resumed: types, event     *)
(* numbers, journals, candidates, coverage and periodic seeds.  A          *)
(* checkpoint restores, and never restores less than the one before it,    *)
(* as long as no hook fails that could lose a result.                      *)
(***************************************************************************)
EXTENDS Feedback, FiniteSetTheorems, SequenceTheorems, Induction

-----------------------------------------------------------------------------
(* What a step may do.                                                     *)

Idle == {"down", "resuming"}
Stopping == {"stop_event", "stop_checkpoint"}

\* No result is being recorded, and no hook has failed.
Clean == {"opened", "first_checkpoint", "loop", "run_event", "checkpoint", "mutation_event",
          "end_event", "end_checkpoint"}

\* Events, failed or omitted checkpoints and cancellation.
Light ==
    /\ UNCHANGED <<schedule, corpus, accumulator, current, checkpointFile, runsFile, corpusFile>>
    /\ \/ pc' = pc
       \/ pc \in Clean /\ pc' \in (Clean \ {"end_event"}) \cup Stopping
       \/ pc \in Stopping /\ pc' \in Stopping

\* A checkpoint while the experiment goes on.
Saved ==
    /\ pc \in Clean /\ pc' = "loop" /\ checkpointFile' = Checkpoint
    /\ UNCHANGED <<memory, runsFile, corpusFile>>

\* The process ends, with a last checkpoint or without.
Ends ==
    /\ Exit
    /\ pc # "down" /\ UNCHANGED <<runsFile, corpusFile>>
    /\ \/ UNCHANGED checkpointFile
       \/ pc \in Clean \cup Stopping /\ checkpointFile' = Checkpoint

Reseeded ==
    /\ pc = "loop" /\ pc' = "loop" /\ Starved /\ Full
    /\ ready' = <<Candidate("initial")>> /\ nextCandidateID' = nextCandidateID + 1
    /\ UNCHANGED <<rerun, inFlight, pending, nextRunIndex, completed, nextRandomSeedAt,
                   randomSeedsDue, corpus, accumulator, current, disk>>

Received ==
    \E task \in inFlight, outcome \in Outcomes, states \in Visits :
        ReceiveExecution(task, outcome, states)

Mutated == \E plans \in 0..MaxMutationsPerCorpus : ReceiveMutation(plans)

\* Every step is one of these.
LEMMA Steps ==
    ASSUME [Next]_vars
    PROVE  \/ Light \/ Saved \/ Ends \/ LaunchRerun \/ LaunchNew \/ Reseeded \/ Received
           \/ WriteCorpusEntry \/ RecordRun \/ Mutated \/ Finish \/ ResumeRuns \/ ResumeLoop
<1> USE DEF Idle, Stopping, Clean
<1>1. CASE EmitOpened \/ EmitRun \/ EmitMutation
  BY <1>1 DEF EmitOpened, EmitRun, EmitMutation, Emit, Light
<1>2. CASE SaveFirst \/ SaveRun
  BY <1>2 DEF SaveFirst, SaveRun, Save, Light, Saved, memory, schedule, accumulator
<1>3. CASE Reseed
  BY <1>3 DEF Reseed, Reseeded, Light, schedule, accumulator, disk
<1>4. CASE StopOnCancel
  BY <1>4 DEF StopOnCancel, Selecting, Light, memory, disk, schedule, accumulator
<1>5. CASE EmitStopped
  BY <1>5 DEF EmitStopped, Light
<1>6. CASE SaveStopped \/ SaveFinished
  BY <1>6 DEF SaveStopped, SaveFinished, Ends
<1>7. CASE EmitFinished
  BY <1>7 DEF EmitFinished, Ends, Light
<1>8. CASE CancelContext
  BY <1>8 DEF CancelContext, Light, disk, schedule, accumulator
<1>9. CASE Crash
  BY <1>9 DEF Crash, Running, Ends, disk
<1>10. CASE UNCHANGED vars
  BY <1>10 DEF vars, Light, memory, disk, schedule, accumulator
<1> QED
  BY <1>1, <1>2, <1>3, <1>4, <1>5, <1>6, <1>7, <1>8, <1>9, <1>10
     DEF Next, Loop, Resume, Receive, Received, Mutated

-----------------------------------------------------------------------------
(* The numbers of the events.                                              *)

\* The number in memory is that of the last line, or one less after a hook
\* failed with its line written; no checkpoint is ahead of the file.
Numbered ==
    /\ eventSequence \in Nat /\ lastEvent \in Nat
    /\ pc \in Stopping => lastEvent \in {eventSequence, eventSequence + 1}
    /\ pc \notin Idle \cup Stopping => lastEvent = eventSequence
    /\ checkpointFile # None =>
          checkpointFile.eventSequence \in Nat /\ checkpointFile.eventSequence <= lastEvent
    /\ pc = "resuming" => checkpointFile # None

\* Every step keeps the numbers in line and writes at most the next event.
LEMMA EventSteps ==
    ASSUME [Next]_vars, Numbered
    PROVE  Numbered' /\ [lastEvent' = lastEvent + 1]_lastEvent
<1> USE DEF Idle, Stopping, Numbered
<1>1. CASE EmitOpened \/ EmitRun \/ EmitMutation
  BY <1>1 DEF EmitOpened, EmitRun, EmitMutation, Emit, EventWritten, EventFails
<1>2. Checkpoint.eventSequence = eventSequence
  BY DEF Checkpoint
<1>3. CASE SaveFirst \/ SaveRun
  BY <1>2, <1>3 DEF SaveFirst, SaveRun, Save, memory
<1>4. CASE Reseed \/ LaunchRerun \/ LaunchNew \/ Received \/ Mutated \/ Finish
  <2>1. /\ UNCHANGED <<eventSequence, lastEvent, checkpointFile>> /\ pc = "loop"
        /\ pc' \in {"loop", "stop_event", "corpus", "record", "mutation_event", "end_event"}
    <3>1. CASE Reseed \/ LaunchRerun \/ LaunchNew \/ Finish
      BY <3>1 DEF Reseed, LaunchRerun, LaunchNew, FreeSlot, Finish, disk
    <3>2. CASE Received
      BY <3>2 DEF Received, ReceiveExecution, Selecting, disk
    <3>3. CASE Mutated
      BY <3>3 DEF Mutated, ReceiveMutation, Selecting, disk
    <3> QED
      BY <1>4, <3>1, <3>2, <3>3
  <2> QED
    BY <2>1
<1>5. CASE StopOnCancel \/ WriteCorpusEntry \/ RecordRun
  BY <1>5 DEF StopOnCancel, Selecting, memory, disk, WriteCorpusEntry, RecordRun
<1>6. CASE EmitStopped
  BY <1>6 DEF EmitStopped, EventWritten, EventFails
<1>7. CASE SaveStopped \/ SaveFinished
  BY <1>2, <1>7 DEF SaveStopped, SaveFinished, Exit
<1>8. CASE EmitFinished
  BY <1>8 DEF EmitFinished, Exit, EventWritten, Interrupt
<1>9. CASE CancelContext \/ Crash
  BY <1>9 DEF CancelContext, Crash, Exit, disk
<1>10. CASE ResumeRuns \/ ResumeLoop
  BY <1>10 DEF ResumeRuns, ResumeLoop, ResumedSequence, memory
<1>11. CASE UNCHANGED vars
  BY <1>11 DEF vars, memory, disk
<1> QED
  BY <1>1, <1>3, <1>4, <1>5, <1>6, <1>7, <1>8, <1>9, <1>10, <1>11
     DEF Next, Loop, Resume, Receive, Received, Mutated

\* The numbers of the events in progress.jsonl never go back and never skip one,
\* although a failed write may have written its line, and a resume may start
\* from a checkpoint far behind the file.
THEOREM EventsCorrect == Spec => EventsContiguous
<1>1. Init => Numbered
  BY DEF Init, Numbered, Idle, Stopping
<1> QED
  BY <1>1, EventSteps, PTL DEF Spec, EventsContiguous

-----------------------------------------------------------------------------
(* The tasks: which run indices are being executed.                        *)

\* Of the first next indices done are executed; each of the others belongs to
\* one of the tasks.
Scheduled(tasks, done, next) ==
    /\ tasks \subseteq Tasks /\ IsFiniteSet(tasks)
    /\ done \in Nat /\ next \in Nat /\ next <= Runs /\ done + Cardinality(tasks) = next
    /\ \A t \in tasks : t.index < next
    /\ \A t, u \in tasks : t.index = u.index => t = u

CheckpointScheduled ==
    checkpointFile # None =>
        Scheduled(checkpointFile.inFlight, checkpointFile.completed, checkpointFile.nextRunIndex)

TasksTyped ==
    /\ Scheduled(rerun \cup inFlight, completed, nextRunIndex)
    /\ rerun \cap inFlight = {} /\ Cardinality(inFlight) <= Parallelism
    /\ pc \in Idle => nextRunIndex = 0
    /\ pc = "resuming" => checkpointFile # None
    /\ CheckpointScheduled

\* What the assumption on the configuration says of each setting.
LEMMA Settings ==
    /\ Runs \in Nat /\ Runs > 0 /\ Parallelism \in Nat /\ Parallelism > 0
    /\ InitialPopulation \in Nat /\ InitialPopulation > 0
    /\ MaxReadyCandidates \in Nat /\ MaxReadyCandidates > 0
    /\ MutationsPerNewState \in Nat /\ MutationsPerNewState > 0
    /\ MaxMutationsPerCorpus \in Nat /\ MaxMutationsPerCorpus > 0
    /\ RandomSeedInterval \in Nat /\ RandomSeedsPerInterval \in Nat /\ MaxInterruptions \in Nat
  BY SettingsAssumption

\* No more is done than launched; with nothing launched there is nothing at all.
LEMMA ScheduledProperties ==
    ASSUME NEW tasks, NEW done, NEW next, Scheduled(tasks, done, next)
    PROVE  /\ Cardinality(tasks) \in Nat /\ done <= next
           /\ next = 0 => tasks = {} /\ done = 0
<1>1. Cardinality(tasks) \in Nat
  BY FS_CardinalityType DEF Scheduled
<1>2. Cardinality(tasks) = 0 => tasks = {}
  BY FS_EmptySet DEF Scheduled
<1> QED
  BY <1>1, <1>2 DEF Scheduled

\* A process that has not begun has no tasks.
LEMMA NothingScheduled == Scheduled({}, 0, 0)
<1> QED
  BY Settings, FS_EmptySet DEF Scheduled

\* The next run index is taken by a new task.
LEMMA LaunchScheduled ==
    ASSUME NEW tasks, NEW done, NEW next, Scheduled(tasks, done, next), next < Runs,
           NEW task \in Tasks, task.index = next
    PROVE  task \notin tasks /\ Scheduled(tasks \cup {task}, done, next + 1)
<1>1. task \notin tasks /\ next \in Nat /\ Runs \in Nat
  BY Settings DEF Scheduled
<1>2. IsFiniteSet(tasks \cup {task}) /\ Cardinality(tasks \cup {task}) = Cardinality(tasks) + 1
  BY <1>1, FS_AddElement DEF Scheduled
<1>3. Cardinality(tasks) \in Nat
  BY ScheduledProperties
<1>4. \A t \in tasks : t.index \in Nat /\ t.index < next
  BY DEF Scheduled, Tasks, Indices
<1>5. \A t \in tasks \cup {task} : t.index < next + 1
  BY <1>1, <1>4
<1>6. \A t, u \in tasks \cup {task} : t.index = u.index => t = u
  BY <1>1, <1>4 DEF Scheduled
<1> QED
  BY <1>1, <1>2, <1>3, <1>5, <1>6 DEF Scheduled

\* A task that is done leaves the others.
LEMMA DoneScheduled ==
    ASSUME NEW tasks, NEW done, NEW next, Scheduled(tasks, done, next), NEW task \in tasks
    PROVE  Scheduled(tasks \ {task}, done + 1, next)
<1>1. IsFiniteSet(tasks \ {task}) /\ Cardinality(tasks \ {task}) = Cardinality(tasks) - 1
  BY FS_RemoveElement DEF Scheduled
<1>2. Cardinality(tasks) \in Nat
  BY ScheduledProperties
<1> QED
  BY <1>1, <1>2 DEF Scheduled

\* What a checkpoint says of the tasks.
LEMMA CheckpointTasks ==
    /\ Checkpoint.inFlight = rerun \cup inFlight /\ Checkpoint.completed = completed
    /\ Checkpoint.nextRunIndex = nextRunIndex
  BY DEF Checkpoint

\* The tasks are finitely many.
LEMMA InFlightFinite ==
    ASSUME TasksTyped
    PROVE  IsFiniteSet(inFlight) /\ IsFiniteSet(rerun) /\ Cardinality(inFlight) \in Nat
  BY FS_Subset, FS_CardinalityType DEF TasksTyped, Scheduled

\* A queued candidate may become the candidate of a task.
LEMMA QueuedAreCandidates == Queued \subseteq Candidates
<1> SUFFICES ASSUME NEW q \in Queued PROVE q \in Candidates
  OBVIOUS
<1>1. q = [id |-> q.id, kind |-> q.kind] /\ q.id \in Nat /\ q.kind \in {"initial", "mutation"}
  BY DEF Queued
<1> QED
  BY <1>1 DEF Candidates

\* The oldest candidate of a nonempty queue.
LEMMA HeadQueued ==
    ASSUME ready \in Seq(Queued), ready # <<>>
    PROVE  Head(ready) \in Queued /\ Head(ready) \in Candidates
<1>1. Head(ready) \in Queued
  BY HeadTailProperties
<1> QED
  BY <1>1, QueuedAreCandidates

\* One more task executes in a free slot.
LEMMA SlotTaken ==
    ASSUME TasksTyped, Cardinality(inFlight) < Parallelism, NEW task
    PROVE  Cardinality(inFlight \cup {task}) <= Parallelism
<1>1. Cardinality(inFlight \cup {task}) \in {Cardinality(inFlight), Cardinality(inFlight) + 1}
  BY InFlightFinite, FS_AddElement
<1> QED
  BY <1>1, InFlightFinite, Settings

\* A task that is done frees its slot.
LEMMA SlotFreed ==
    ASSUME TasksTyped, NEW task
    PROVE  Cardinality(inFlight \ {task}) <= Parallelism
<1>1. Cardinality(inFlight \ {task}) \in {Cardinality(inFlight), Cardinality(inFlight) - 1}
  BY InFlightFinite, FS_RemoveElement
<1> QED
  BY <1>1, InFlightFinite, Settings DEF TasksTyped

\* Every step keeps the tasks consistent, in memory and in the checkpoint.
LEMMA TasksStep ==
    ASSUME TasksTyped, ready \in Seq(Queued), nextCandidateID \in Nat, [Next]_vars
    PROVE  TasksTyped'
<1> DEFINE tasks == rerun \cup inFlight
<1>1. CASE UNCHANGED <<rerun, inFlight, completed, nextRunIndex, checkpointFile>>
           /\ (pc' \in Idle => pc \in Idle) /\ (pc' = "resuming" => checkpointFile # None)
  BY <1>1 DEF TasksTyped, CheckpointScheduled
<1>2. CASE Light
  BY <1>1, <1>2 DEF Light, schedule, Idle, Stopping, Clean, TasksTyped
<1>3. CASE Saved
  <2>1. CheckpointScheduled'
    BY <1>3, CheckpointTasks DEF Saved, CheckpointScheduled, TasksTyped
  <2> QED
    BY <1>3, <2>1 DEF Saved, TasksTyped, memory, schedule, Idle
<1>4. CASE Ends
  <2>1. CheckpointScheduled'
    BY <1>4, CheckpointTasks DEF Ends, CheckpointScheduled, TasksTyped
  <2>2. rerun' = {} /\ inFlight' = {} /\ completed' = 0 /\ nextRunIndex' = 0 /\ pc' = "down"
    BY <1>4 DEF Ends, Exit
  <2>3. Cardinality({}) <= Parallelism /\ {} \cup {} = {} /\ {} \cap {} = {}
    BY FS_EmptySet, Settings
  <2> QED
    BY <2>1, <2>2, <2>3, NothingScheduled DEF TasksTyped
<1>5. CASE LaunchRerun
  <2>1. PICK task \in rerun : rerun' = rerun \ {task} /\ inFlight' = inFlight \cup {task}
    BY <1>5 DEF LaunchRerun
  <2>2. /\ UNCHANGED <<completed, nextRunIndex, pc, checkpointFile>>
        /\ Cardinality(inFlight) < Parallelism
    BY <1>5 DEF LaunchRerun, FreeSlot, disk
  <2>3. Cardinality(inFlight') <= Parallelism
    BY <2>1, <2>2, SlotTaken
  <2>4. rerun' \cup inFlight' = tasks /\ rerun' \cap inFlight' = {}
    BY <2>1 DEF TasksTyped
  <2> QED
    BY <2>2, <2>3, <2>4 DEF TasksTyped, CheckpointScheduled
<1>6. CASE LaunchNew
  <2>1. PICK task : inFlight' = inFlight \cup {task} /\ task.index = nextRunIndex
                    /\ task \in Tasks
    <3>1. nextRunIndex \in Indices
      BY <1>6, Settings DEF LaunchNew, Launchable, TasksTyped, Scheduled, Indices
    <3>2. [index |-> nextRunIndex, candidate |-> Candidate("periodic_random")] \in Tasks
      BY <3>1 DEF Tasks, Candidate, Candidates
    <3>3. ASSUME ready # <<>>
          PROVE  [index |-> nextRunIndex, candidate |-> Head(ready)] \in Tasks
      <4>1. Head(ready) \in Candidates
        BY <3>3, HeadQueued
      <4> QED
        BY <3>1, <4>1 DEF Tasks
    <3>4. CASE randomSeedsDue > 0
      BY <1>6, <3>2, <3>4 DEF LaunchNew
    <3>5. CASE randomSeedsDue = 0
      BY <1>6, <3>3, <3>5 DEF LaunchNew, Launchable
    <3> QED
      BY <1>6, <3>4, <3>5 DEF LaunchNew
  <2>2. /\ UNCHANGED <<rerun, completed, pc, checkpointFile>> /\ nextRunIndex' = nextRunIndex + 1
        /\ Cardinality(inFlight) < Parallelism /\ nextRunIndex < Runs /\ pc = "loop"
    BY <1>6 DEF LaunchNew, FreeSlot, Launchable, disk
  <2>3. Cardinality(inFlight') <= Parallelism
    BY <2>1, <2>2, SlotTaken
  <2>4. task \notin tasks /\ Scheduled(tasks \cup {task}, completed, nextRunIndex + 1)
    BY <2>1, <2>2, LaunchScheduled DEF TasksTyped
  <2>5. rerun' \cup inFlight' = tasks \cup {task} /\ rerun' \cap inFlight' = {}
    BY <2>1, <2>2, <2>4 DEF TasksTyped
  <2> QED
    BY <2>2, <2>3, <2>4, <2>5 DEF TasksTyped, CheckpointScheduled, Idle
<1>7. CASE Received
  <2>1. PICK task \in inFlight :
          /\ inFlight' = inFlight \ {task} /\ completed' = completed + 1
          /\ UNCHANGED <<rerun, nextRunIndex, checkpointFile>> /\ pc' \in {"corpus", "record"}
    BY <1>7 DEF Received, ReceiveExecution, CountExecution, disk
  <2>2. Cardinality(inFlight') <= Parallelism
    BY <2>1, SlotFreed
  <2>3. Scheduled(tasks \ {task}, completed + 1, nextRunIndex)
    BY <2>1, DoneScheduled DEF TasksTyped
  <2>4. rerun' \cup inFlight' = tasks \ {task} /\ rerun' \cap inFlight' = {}
    BY <2>1 DEF TasksTyped
  <2> QED
    BY <2>1, <2>2, <2>3, <2>4 DEF TasksTyped, CheckpointScheduled, Idle
<1>8. CASE Reseeded
  BY <1>1, <1>8 DEF Reseeded, disk, Idle
<1>9. CASE WriteCorpusEntry
  BY <1>1, <1>9 DEF WriteCorpusEntry, Idle
<1>10. CASE RecordRun
  BY <1>1, <1>10 DEF RecordRun, schedule, Idle
<1>11. CASE Mutated
  BY <1>1, <1>11 DEF Mutated, ReceiveMutation, disk, Idle
<1>12. CASE Finish
  BY <1>1, <1>12 DEF Finish, disk, Idle
<1>13. CASE ResumeRuns
  BY <1>1, <1>13 DEF ResumeRuns, memory, schedule, Idle
<1>14. CASE ResumeLoop
  <2>1. /\ rerun' = checkpointFile.inFlight /\ inFlight' = {}
        /\ completed' = checkpointFile.completed /\ nextRunIndex' = checkpointFile.nextRunIndex
        /\ pc' = "opened" /\ UNCHANGED checkpointFile /\ pc = "resuming"
    BY <1>14 DEF ResumeLoop
  <2>2. Cardinality({}) <= Parallelism
    BY FS_EmptySet, Settings
  <2>3. rerun' \cup inFlight' = checkpointFile.inFlight /\ rerun' \cap inFlight' = {}
    BY <2>1
  <2> QED
    BY <2>1, <2>2, <2>3 DEF TasksTyped, CheckpointScheduled, Idle
<1> QED
  BY Steps, <1>2, <1>3, <1>4, <1>5, <1>6, <1>7, <1>8, <1>9, <1>10, <1>11, <1>12, <1>13, <1>14

-----------------------------------------------------------------------------
(* The queue of candidates.                                                *)

\* How many candidates of a queue are mutated plans.
MutationIndices(s) == {i \in 1..Len(s) : s[i].kind = "mutation"}
MutationsIn(s) == Cardinality(MutationIndices(s))

\* The number of mutation candidates in a queue.
LEMMA MutationsCounted ==
    ASSUME NEW s \in Seq(Queued)
    PROVE  IsFiniteSet(MutationIndices(s)) /\ MutationsIn(s) \in Nat
<1>1. Len(s) \in Nat
  BY LenProperties
<1>2. IsFiniteSet(1..Len(s))
  BY <1>1, FS_Interval
<1>3. MutationIndices(s) \in SUBSET (1..Len(s))
  BY DEF MutationIndices
<1>4. IsFiniteSet(MutationIndices(s))
  BY <1>2, <1>3, FS_Subset
<1> QED
  BY <1>4, FS_CardinalityType DEF MutationsIn

\* A queue that grows by one candidate counts at most one mutation more.
LEMMA MutationsAppended ==
    ASSUME NEW s \in Seq(Queued), NEW q \in Queued
    PROVE  MutationsIn(Append(s, q)) <= MutationsIn(s) + 1
<1>1. Len(s) \in Nat /\ Len(Append(s, q)) = Len(s) + 1
      /\ \A i \in 1..Len(s) : Append(s, q)[i] = s[i]
  BY LenProperties
<1>2. MutationIndices(Append(s, q)) \in SUBSET (MutationIndices(s) \cup {Len(s) + 1})
  BY <1>1 DEF MutationIndices
<1>3. IsFiniteSet(MutationIndices(s) \cup {Len(s) + 1})
      /\ Cardinality(MutationIndices(s) \cup {Len(s) + 1})
            \in {MutationsIn(s), MutationsIn(s) + 1}
  BY MutationsCounted, FS_AddElement DEF MutationsIn
<1>4. MutationsIn(Append(s, q)) <= Cardinality(MutationIndices(s) \cup {Len(s) + 1})
  BY <1>2, <1>3, FS_Subset DEF MutationsIn
<1>5. Append(s, q) \in Seq(Queued)
  OBVIOUS
<1>6. MutationsIn(s) \in Nat /\ MutationsIn(Append(s, q)) \in Nat
  BY <1>5, MutationsCounted
<1> QED
  BY <1>3, <1>4, <1>6

\* The head is one of the mutations, or none.
LEMMA MutationsTaken ==
    ASSUME NEW s \in Seq(Queued), s # <<>>
    PROVE  MutationsIn(Tail(s)) + (IF Head(s).kind = "mutation" THEN 1 ELSE 0) <= MutationsIn(s)
<1>1. /\ Len(s) \in Nat /\ Tail(s) \in Seq(Queued) /\ Len(Tail(s)) = Len(s) - 1
      /\ Head(s) = s[1] /\ Len(s) > 0
      /\ \A i \in 1..Len(Tail(s)) : Tail(s)[i] = s[i + 1]
  BY LenProperties, HeadTailProperties, EmptySeq
<1> DEFINE rest == MutationIndices(s) \ {1}
           f == [i \in MutationIndices(Tail(s)) |-> i + 1]
<1>2. f \in [MutationIndices(Tail(s)) -> rest]
  <2> SUFFICES ASSUME NEW i \in MutationIndices(Tail(s)) PROVE i + 1 \in rest
    OBVIOUS
  <2> QED
    BY <1>1 DEF MutationIndices
<1>3. f \in Injection(MutationIndices(Tail(s)), rest)
  <2>1. \A a, b \in MutationIndices(Tail(s)) : f[a] = f[b] => a = b
    BY DEF MutationIndices
  <2> HIDE DEF f
  <2> QED
    BY <1>2, <2>1 DEF Injection, IsInjective
<1>4. /\ IsFiniteSet(rest)
      /\ Cardinality(rest) = IF 1 \in MutationIndices(s) THEN MutationsIn(s) - 1 ELSE MutationsIn(s)
  BY MutationsCounted, FS_RemoveElement DEF MutationsIn
<1>5. MutationsIn(Tail(s)) <= Cardinality(rest)
  <2> HIDE DEF f, rest
  <2> QED
    BY <1>3, <1>4, FS_Injection DEF MutationsIn
<1>6. 1 \in MutationIndices(s) <=> Head(s).kind = "mutation"
  BY <1>1 DEF MutationIndices
<1>7. MutationsIn(s) \in Nat /\ MutationsIn(Tail(s)) \in Nat
  BY <1>1, MutationsCounted
<1> HIDE DEF rest
<1> QED
  BY <1>4, <1>5, <1>6, <1>7

Queues ==
    [ready : {s \in Seq(Queued) : Len(s) <= MaxReadyCandidates}, nextID : Nat, admitted : Nat,
     discarded : Nat, peak : Nat]

\* The peak is the length of the queue at some time.
Peaked(q) == Len(q.ready) <= q.peak /\ q.peak <= MaxReadyCandidates /\ 1 <= q.peak

\* A plan admitted gets an identity and is queued, maybe in place of another,
\* or it gets none: each way one more of the counters goes up.
Uncounted(q) == q.nextID - Len(q.ready) - q.discarded - q.admitted

\* What admitting or refusing one plan does to the queue and its counters.
LEMMA AdmitProperties ==
    ASSUME NEW q \in Queues
    PROVE  LET r == Admit(q) IN
           /\ r \in Queues /\ (Peaked(q) => Peaked(r))
           /\ Uncounted(r) = Uncounted(q) - 1
           /\ MutationsIn(r.ready) + q.admitted <= MutationsIn(q.ready) + r.admitted
<1> DEFINE full == Len(q.ready) = MaxReadyCandidates
           kept == IF full THEN Tail(q.ready) ELSE q.ready
           plan == [id |-> q.nextID, kind |-> "mutation"]
           next == Append(kept, plan)
<1>1. /\ q.ready \in Seq(Queued) /\ Len(q.ready) \in Nat /\ Len(q.ready) <= MaxReadyCandidates
      /\ q.nextID \in Nat /\ q.admitted \in Nat /\ q.discarded \in Nat /\ q.peak \in Nat
  BY LenProperties DEF Queues
<1>2. full => q.ready # <<>>
  BY <1>1, Settings, EmptySeq
<1>3. /\ kept \in Seq(Queued)
      /\ Len(kept) = IF full THEN MaxReadyCandidates - 1 ELSE Len(q.ready)
  BY <1>1, <1>2, HeadTailProperties
<1>4. MutationsIn(kept) <= MutationsIn(q.ready)
  <2>1. CASE full
    <3>1. q.ready # <<>> /\ Tail(q.ready) \in Seq(Queued)
      BY <1>1, <1>2, <2>1, HeadTailProperties
    <3>2. MutationsIn(q.ready) \in Nat /\ MutationsIn(Tail(q.ready)) \in Nat
      BY <1>1, <3>1, MutationsCounted
    <3> QED
      BY <1>1, <2>1, <3>1, <3>2, MutationsTaken
  <2>2. CASE ~full
    BY <1>1, <2>2, MutationsCounted
  <2> QED
    BY <2>1, <2>2
<1>5. plan \in Queued
  BY <1>1 DEF Queued
<1>6. /\ next \in Seq(Queued) /\ Len(next) = Len(kept) + 1
      /\ MutationsIn(next) <= MutationsIn(kept) + 1
  <2> HIDE DEF kept, plan
  <2> QED
    BY <1>3, <1>5, MutationsAppended, AppendProperties
<1>7. MutationsIn(next) \in Nat /\ MutationsIn(kept) \in Nat /\ MutationsIn(q.ready) \in Nat
  BY <1>1, <1>3, <1>6, MutationsCounted
<1>8. Admit(q) = IF nextRunIndex + Len(q.ready) >= Runs
                 THEN [q EXCEPT !.discarded = @ + 1]
                 ELSE [q EXCEPT !.ready = next, !.nextID = @ + 1, !.admitted = @ + 1,
                                !.discarded = @ + IF full THEN 1 ELSE 0,
                                !.peak = IF Len(next) > @ THEN Len(next) ELSE @]
  BY DEF Admit
<1> HIDE DEF next, kept, full
<1>9. CASE nextRunIndex + Len(q.ready) >= Runs
  <2>1. /\ Admit(q) = [q EXCEPT !.discarded = @ + 1]
    BY <1>8, <1>9
  <2>2. Admit(q) \in Queues
    BY <2>1, <1>1 DEF Queues
  <2>3. /\ Admit(q).ready = q.ready /\ Admit(q).nextID = q.nextID /\ Admit(q).admitted = q.admitted
        /\ Admit(q).discarded = q.discarded + 1 /\ Admit(q).peak = q.peak
    BY <2>1 DEF Queues
  <2>4. Uncounted(Admit(q)) = Uncounted(q) - 1
    BY <1>1, <2>3, SMTT(30) DEF Uncounted
  <2>5. Peaked(q) => Peaked(Admit(q))
    BY <2>3 DEF Peaked
  <2>6. MutationsIn(Admit(q).ready) + q.admitted <= MutationsIn(q.ready) + Admit(q).admitted
    BY <1>1, <1>7, <2>3
  <2> QED
    BY <2>2, <2>4, <2>5, <2>6
<1>10. CASE ~(nextRunIndex + Len(q.ready) >= Runs)
  <2> DEFINE r == [q EXCEPT !.ready = next, !.nextID = @ + 1, !.admitted = @ + 1,
                            !.discarded = @ + IF full THEN 1 ELSE 0,
                            !.peak = IF Len(next) > @ THEN Len(next) ELSE @]
  <2>1. Admit(q) = r
    BY <1>8, <1>10
  <2>2. Len(next) \in Nat /\ Len(next) <= MaxReadyCandidates
    BY <1>1, <1>3, <1>6, Settings DEF full
  <2>3. r \in Queues
    <3>1. (IF Len(next) > q.peak THEN Len(next) ELSE q.peak) \in Nat
          /\ q.discarded + (IF full THEN 1 ELSE 0) \in Nat /\ q.nextID + 1 \in Nat
          /\ q.admitted + 1 \in Nat
      BY <1>1, <2>2
    <3>2. next \in {s \in Seq(Queued) : Len(s) <= MaxReadyCandidates}
      BY <1>6, <2>2
    <3> QED
      BY <3>1, <3>2 DEF Queues
  <2>4. /\ r.ready = next /\ r.nextID = q.nextID + 1 /\ r.admitted = q.admitted + 1
        /\ r.discarded = q.discarded + (IF full THEN 1 ELSE 0)
        /\ r.peak = IF Len(next) > q.peak THEN Len(next) ELSE q.peak
    BY DEF Queues
  <2> HIDE DEF r
  <2>5. Uncounted(r) = Uncounted(q) - 1
    <3>1. CASE full
      <4>1. Len(r.ready) = Len(q.ready) /\ r.discarded = q.discarded + 1
        BY <1>1, <1>3, <1>6, <2>4, <3>1, Settings DEF full
      <4>2. r.nextID = q.nextID + 1 /\ r.admitted = q.admitted + 1
        BY <2>4
      <4> DEFINE l == Len(q.ready)
      <4>3. /\ l \in Nat /\ Uncounted(q) = q.nextID - l - q.discarded - q.admitted
            /\ Uncounted(r) = r.nextID - l - r.discarded - r.admitted
        BY <1>1, <4>1 DEF Uncounted
      <4>4. /\ q.nextID \in Nat /\ q.admitted \in Nat /\ q.discarded \in Nat
            /\ r.discarded = q.discarded + 1
        BY <1>1, <4>1
      <4> HIDE DEF l
      <4> QED
        BY <4>2, <4>3, <4>4
    <3>2. CASE ~full
      <4>1. Len(r.ready) = Len(q.ready) + 1 /\ r.discarded = q.discarded
        BY <1>1, <1>3, <1>6, <2>4, <3>2, Settings DEF full
      <4>2. r.nextID = q.nextID + 1 /\ r.admitted = q.admitted + 1
        BY <2>4
      <4> DEFINE l == Len(q.ready)
      <4>3. /\ l \in Nat /\ Uncounted(q) = q.nextID - l - q.discarded - q.admitted
            /\ Uncounted(r) = r.nextID - (l + 1) - r.discarded - r.admitted
        BY <1>1, <4>1 DEF Uncounted
      <4>4. /\ q.nextID \in Nat /\ q.admitted \in Nat /\ q.discarded \in Nat
            /\ r.discarded = q.discarded
        BY <1>1, <4>1
      <4> HIDE DEF l
      <4> QED
        BY <4>2, <4>3, <4>4
    <3> QED
      BY <3>1, <3>2
  <2>6. Peaked(q) => Peaked(r)
    BY <1>1, <2>2, <2>4 DEF Peaked
  <2>7. MutationsIn(r.ready) + q.admitted <= MutationsIn(q.ready) + r.admitted
    BY <1>1, <1>4, <1>6, <1>7, <2>4
  <2> QED
    BY <2>1, <2>3, <2>5, <2>6, <2>7
<1> QED
  BY <1>9, <1>10

\* The queue after any number of plans is what admitting them one by one gives.
LEMMA AdmittedOneByOne ==
    ASSUME Queue \in Queues
    PROVE  /\ Admitted[0] = Queue
           /\ \A n \in Nat : Admitted[n] \in Queues /\ Admitted[n + 1] = Admit(Admitted[n])
<1> DEFINE step == [x \in Nat \X Queues |-> Admit(x[2])]
<1>1. step \in [Nat \X Queues -> Queues]
  BY AdmitProperties
<1>2. PICK f \in [Nat -> Queues] :
        f[0] = Queue /\ \A n \in Nat : f[n + 1] = step[<<n, f[n]>>]
  <2> HIDE DEF step
  <2>1. \E f \in [Nat -> Queues] : Recurs(f, Queue, step)
    BY <1>1, Recursion, Zenon
  <2> QED
    BY <2>1 DEF Recurs
<1>3. \A n \in Nat : f[n + 1] = Admit(f[n])
  BY <1>2
<1>4. f = [count \in Nat |-> IF count = 0 THEN Queue ELSE Admit(f[count - 1])]
  <2>1. ASSUME NEW n \in Nat
        PROVE  f[n] = IF n = 0 THEN Queue ELSE Admit(f[n - 1])
    <3>1. CASE n # 0
      <4>1. n - 1 \in Nat /\ (n - 1) + 1 = n
        BY <3>1
      <4>2. f[(n - 1) + 1] = Admit(f[n - 1])
        BY <1>3, <4>1
      <4> QED
        BY <3>1, <4>1, <4>2
    <3> QED
      BY <1>2, <3>1
  <2> QED
    BY <1>2, <2>1
<1>5. Admitted = [count \in Nat |-> IF count = 0 THEN Queue ELSE Admit(Admitted[count - 1])]
  BY <1>4 DEF Admitted
<1>6. Admitted[0] = Queue
  BY <1>5
<1>7. \A n \in Nat : Admitted[n + 1] = Admit(Admitted[n])
  <2> SUFFICES ASSUME NEW n \in Nat PROVE Admitted[n + 1] = Admit(Admitted[n])
    OBVIOUS
  <2>1. n + 1 \in Nat /\ n + 1 # 0 /\ (n + 1) - 1 = n
    OBVIOUS
  <2> QED
    BY <1>5, <2>1
<1> DEFINE S == {n \in Nat : Admitted[n] \in Queues}
<1>8. 0 \in S
  BY <1>6
<1>9. \A n \in Nat : n \in S => n + 1 \in S
  BY <1>7, AdmitProperties
<1>10. Nat \subseteq S
  <2> HIDE DEF S
  <2> QED
    BY <1>8, <1>9, Inductive
<1> QED
  BY <1>6, <1>7, <1>10

\* What a whole answer of the mutator does to them, however many plans it has.
LEMMA AdmittedProperties ==
    ASSUME Queue \in Queues, NEW plans \in Nat
    PROVE  LET q == Admitted[plans] IN
           /\ q \in Queues /\ (Peaked(Queue) => Peaked(q))
           /\ Uncounted(q) = Uncounted(Queue) - plans
           /\ MutationsIn(q.ready) + Queue.admitted <= MutationsIn(Queue.ready) + q.admitted
<1> DEFINE Stands(n) ==
              /\ Peaked(Queue) => Peaked(Admitted[n])
              /\ Uncounted(Admitted[n]) = Uncounted(Queue) - n
              /\ MutationsIn(Admitted[n].ready) + Queue.admitted
                    <= MutationsIn(Queue.ready) + Admitted[n].admitted
           S == {n \in Nat : Stands(n)}
<1>1. ASSUME NEW q \in Queues
      PROVE  Uncounted(q) \in Int /\ q.admitted \in Nat /\ MutationsIn(q.ready) \in Nat
  <2>1. /\ q.ready \in Seq(Queued) /\ q.admitted \in Nat /\ q.nextID \in Nat
        /\ q.discarded \in Nat
    BY DEF Queues
  <2> QED
    BY <2>1, LenProperties, MutationsCounted DEF Uncounted
<1>2. 0 \in S
  BY <1>1, AdmittedOneByOne
<1>3. ASSUME NEW n \in Nat, n \in S
      PROVE  n + 1 \in S
  <2> DEFINE q == Admitted[n]
             r == Admitted[n + 1]
  <2>1. q \in Queues /\ r = Admit(q) /\ r \in Queues
    BY AdmittedOneByOne
  <2>2. /\ Peaked(q) => Peaked(r)
        /\ Uncounted(r) = Uncounted(q) - 1
        /\ MutationsIn(r.ready) + q.admitted <= MutationsIn(q.ready) + r.admitted
    BY <2>1, AdmitProperties
  <2>3. /\ Peaked(Queue) => Peaked(q)
        /\ Uncounted(q) = Uncounted(Queue) - n
        /\ MutationsIn(q.ready) + Queue.admitted <= MutationsIn(Queue.ready) + q.admitted
    BY <1>3
  <2>4. /\ Uncounted(q) \in Int /\ q.admitted \in Nat /\ MutationsIn(q.ready) \in Nat
        /\ Uncounted(Queue) \in Int /\ Queue.admitted \in Nat /\ MutationsIn(Queue.ready) \in Nat
        /\ r.admitted \in Nat /\ MutationsIn(r.ready) \in Nat
    BY <1>1, <2>1
  <2> HIDE DEF q, r
  <2>5. /\ Peaked(Queue) => Peaked(r)
        /\ Uncounted(r) = Uncounted(Queue) - (n + 1)
        /\ MutationsIn(r.ready) + Queue.admitted <= MutationsIn(Queue.ready) + r.admitted
    BY <2>2, <2>3, <2>4
  <2> QED
    BY <2>5 DEF r
<1>4. plans \in S
  <2> HIDE DEF S
  <2> QED
    BY <1>2, <1>3, Inductive
<1> QED
  BY <1>4, AdmittedOneByOne

QueueTyped ==
    /\ ready \in Seq(Queued) /\ Len(ready) <= MaxReadyCandidates /\ pending \in Seq(Requests)
    /\ nextCandidateID \in Nat /\ nextRandomSeedAt \in Nat /\ randomSeedsDue \in Nat
    /\ IF pc \in Idle THEN report = None ELSE report \in Reports

\* The run being recorded is there while it is needed, and gone afterwards.
ResultTyped ==
    /\ corpus \in Corpora /\ recorded \subseteq Summaries /\ current \in Summaries \cup {None}
    /\ current # None => IsFiniteSet(current.newSemantic)
    /\ pc \in {"corpus", "record"} => current # None
    /\ pc \in Idle \cup Clean => current = None
    /\ pc = "corpus" => corpus.entries # <<>>

DiskTyped ==
    /\ checkpointFile \in Checkpoints \cup {None}
    /\ checkpointFile # None => Len(checkpointFile.ready) <= MaxReadyCandidates
    /\ runsFile \in Seq(Summaries) /\ corpusFile \in Seq(Entries)

Typed == TasksTyped /\ QueueTyped /\ ResultTyped /\ DiskTyped /\ pc \in Stages /\ Numbered

\* A checkpoint of a typed state is typed.
LEMMA CheckpointType ==
    ASSUME Typed, pc \notin Idle
    PROVE  Checkpoint \in Checkpoints /\ Checkpoint.ready = ready
<1>1. Len(corpus.entries) \in Nat /\ corpus.coverage \in SUBSET ModelStates
      /\ corpus.semantic \in SUBSET SemanticKeys
  <2>1. corpus.entries \in Seq(Entries)
    BY DEF Typed, ResultTyped, Corpora
  <2> QED
    BY <2>1, LenProperties DEF Typed, ResultTyped, Corpora
<1>2. /\ rerun \cup inFlight \in SUBSET Tasks /\ nextRunIndex \in Nat /\ completed \in Nat
  BY DEF Typed, TasksTyped, Scheduled
<1>3. /\ ready \in Seq(Queued) /\ pending \in Seq(Requests) /\ report \in Reports
      /\ nextCandidateID \in Nat /\ nextRandomSeedAt \in Nat /\ randomSeedsDue \in Nat
  BY DEF Typed, QueueTyped
<1>4. eventSequence \in Nat /\ recorded \in SUBSET Summaries
  BY DEF Typed, Numbered, ResultTyped
<1> QED
  BY <1>1, <1>2, <1>3, <1>4 DEF Checkpoint, Checkpoints

\* A mutation is asked for, and for no more than the limit.
LEMMA MutationCountBounds ==
    ASSUME Typed, current # None
    PROVE  MutationCount \in 1..MaxMutationsPerCorpus
<1> DEFINE novelty == IF current.newSemantic = {} THEN 1 ELSE Cardinality(current.newSemantic)
<1>1. novelty \in Nat /\ novelty > 0
  <2>1. IsFiniteSet(current.newSemantic)
    BY DEF Typed, ResultTyped
  <2> QED
    BY <2>1, FS_CardinalityType, FS_EmptySet
<1>2. \A a, b \in Nat : a > 0 /\ b > 0 => a * b \in Nat /\ a * b > 0
  OBVIOUS
<1>3. novelty * MutationsPerNewState \in Nat /\ novelty * MutationsPerNewState > 0
  <2> HIDE DEF novelty
  <2> QED
    BY <1>1, <1>2, Settings
<1>4. MutationCount = IF novelty * MutationsPerNewState < MaxMutationsPerCorpus
                      THEN novelty * MutationsPerNewState ELSE MaxMutationsPerCorpus
  BY DEF MutationCount
<1> QED
  <2> DEFINE wanted == novelty * MutationsPerNewState
  <2>1. wanted \in Nat /\ wanted > 0
    BY <1>3
  <2>2. MutationCount = IF wanted < MaxMutationsPerCorpus THEN wanted ELSE MaxMutationsPerCorpus
    BY <1>4
  <2> HIDE DEF wanted
  <2> QED
    BY <2>1, <2>2, Settings

\* The queue and its counters, as the mutations see them.
LEMMA QueueOfReports ==
    ASSUME Typed, pc \notin Idle
    PROVE  /\ Queue \in Queues
           /\ Queue.ready = ready /\ Queue.nextID = nextCandidateID
           /\ Queue.admitted = report.admitted /\ Queue.discarded = report.discarded
           /\ Queue.peak = report.peak
<1>1. report \in Reports
  BY DEF Typed, QueueTyped
<1>2. report.admitted \in Nat /\ report.discarded \in Nat /\ report.peak \in Nat
  BY <1>1 DEF Reports
<1> QED
  BY <1>2 DEF Typed, QueueTyped, Queue, Queues

\* The counters of the report stay numbers.
LEMMA ReportCounted ==
    ASSUME NEW r \in Reports, NEW kind
    PROVE  /\ [r EXCEPT !.initial = @ + IF kind = "initial" THEN 1 ELSE 0,
                         !.mutations = @ + IF kind = "mutation" THEN 1 ELSE 0] \in Reports
           /\ [r EXCEPT !.random = @ + IF kind = "periodic_random" THEN 1 ELSE 0] \in Reports
<1>1. /\ r.initial + (IF kind = "initial" THEN 1 ELSE 0) \in Nat
      /\ r.mutations + (IF kind = "mutation" THEN 1 ELSE 0) \in Nat
      /\ r.random + (IF kind = "periodic_random" THEN 1 ELSE 0) \in Nat
  BY DEF Reports
<1> QED
  BY <1>1 DEF Reports

\* The report is typed again once the counters of the queue are put back.
LEMMA ReportOfQueue ==
    ASSUME NEW r \in Reports, NEW plans \in Nat, NEW q,
           q.admitted \in Nat, q.discarded \in Nat, q.peak \in Nat
    PROVE  [r EXCEPT !.generated = @ + plans, !.admitted = q.admitted,
                     !.discarded = q.discarded, !.peak = q.peak] \in Reports
<1>1. r.generated + plans \in Nat
  BY DEF Reports
<1> QED
  BY <1>1 DEF Reports

\* Every step keeps the queue and the counters typed.
LEMMA QueueStep ==
    ASSUME Typed, [Next]_vars
    PROVE  QueueTyped'
<1> USE DEF Typed
<1>1. CASE UNCHANGED <<ready, pending, nextCandidateID, nextRandomSeedAt, randomSeedsDue, report>>
           /\ (pc' \in Idle <=> pc \in Idle)
  BY <1>1 DEF QueueTyped
<1>2. CASE Light
  BY <1>1, <1>2 DEF Light, schedule, accumulator, Idle, Stopping, Clean
<1>3. CASE Saved
  BY <1>1, <1>3 DEF Saved, memory, schedule, accumulator, Idle, Clean
<1>4. CASE Ends
  <2>1. Len(<<>>) <= MaxReadyCandidates
    BY Settings
  <2> QED
    BY <1>4, <2>1 DEF Ends, Exit, QueueTyped, Idle
<1>5. CASE LaunchRerun
  BY <1>1, <1>5 DEF LaunchRerun, accumulator
<1>6. CASE LaunchNew
  <2>1. ready # <<>> => Tail(ready) \in Seq(Queued) /\ Len(Tail(ready)) <= MaxReadyCandidates
    <3>1. Len(ready) \in Nat
      BY LenProperties DEF QueueTyped
    <3> QED
      BY <3>1, HeadTailProperties, Settings DEF QueueTyped
  <2>2. /\ ready' \in {ready, Tail(ready)} /\ (ready' = ready \/ ready # <<>>)
        /\ nextCandidateID' \in Nat /\ randomSeedsDue' \in Nat
        /\ UNCHANGED <<pending, nextRandomSeedAt, report, pc>>
    BY <1>6 DEF LaunchNew, Launchable, QueueTyped, accumulator
  <2> QED
    BY <2>1, <2>2 DEF QueueTyped
<1>7. CASE Received
  <2> SUFFICES ASSUME NEW task \in inFlight, NEW outcome \in Outcomes, NEW states \in Visits,
                      ReceiveExecution(task, outcome, states)
               PROVE  QueueTyped'
    BY <1>7 DEF Received
  <2>1. pc = "loop" /\ pc' \in {"corpus", "record"} /\ report \in Reports
    BY DEF ReceiveExecution, Selecting, QueueTyped, Idle
  <2>2. report' \in Reports
    <3>1. report' = [report EXCEPT
              !.initial = @ + IF task.candidate.kind = "initial" THEN 1 ELSE 0,
              !.mutations = @ + IF task.candidate.kind = "mutation" THEN 1 ELSE 0]
      BY DEF ReceiveExecution
    <3> QED
      BY <2>1, <3>1, ReportCounted
  <2>3. nextRandomSeedAt' \in Nat /\ randomSeedsDue' \in Nat
    BY Settings, SMTT(30) DEF ReceiveExecution, CountExecution, QueueTyped
  <2>4. UNCHANGED <<ready, pending, nextCandidateID>>
    BY DEF ReceiveExecution
  <2> QED
    BY <2>1, <2>2, <2>3, <2>4 DEF QueueTyped, Idle
<1>8. CASE Reseeded
  <2>1. <<Candidate("initial")>> \in Seq(Queued) /\ Len(<<Candidate("initial")>>) = 1
    BY DEF Candidate, Queued, QueueTyped
  <2> QED
    BY <1>8, <2>1, Settings DEF Reseeded, accumulator, QueueTyped
<1>9. CASE WriteCorpusEntry
  <2>1. /\ pc = "corpus" /\ pc' \in {"record", "stop_event"}
        /\ UNCHANGED <<ready, nextCandidateID, nextRandomSeedAt, randomSeedsDue, report>>
        /\ \/ UNCHANGED pending
           \/ pending' = Append(pending, [entry |-> Last(corpus.entries).id,
                                          run |-> current.index, count |-> MutationCount])
    BY <1>9 DEF WriteCorpusEntry, accumulator
  <2>2. current \in Summaries /\ corpus.entries \in Seq(Entries) /\ corpus.entries # <<>>
    BY <2>1 DEF ResultTyped, Corpora
  <2>3. Last(corpus.entries).id \in Nat /\ current.index \in Indices
    <3>1. Last(corpus.entries) \in Entries
      BY <2>2, EmptySeq, ElementOfSeq DEF Last
    <3> QED
      BY <2>2, <3>1 DEF Entries, Summaries
  <2>4. MutationCount \in 1..MaxMutationsPerCorpus
    BY <2>1, MutationCountBounds DEF ResultTyped
  <2> DEFINE request == [entry |-> Last(corpus.entries).id, run |-> current.index,
                         count |-> MutationCount]
  <2>5. pending' \in Seq(Requests)
    <3>1. request \in Requests
      BY <2>3, <2>4 DEF Requests
    <3>2. pending \in Seq(Requests) /\ (pending' = pending \/ pending' = Append(pending, request))
      BY <2>1 DEF QueueTyped
    <3> HIDE DEF request
    <3> QED
      BY <3>1, <3>2, AppendProperties
  <2> QED
    BY <2>1, <2>5 DEF QueueTyped, Idle
<1>10. CASE RecordRun
  <2>1. /\ pc = "record" /\ pc' \in {"run_event", "stop_event"} /\ report \in Reports
        /\ UNCHANGED <<ready, pending, nextCandidateID, nextRandomSeedAt, randomSeedsDue>>
    BY <1>10 DEF RecordRun, schedule, QueueTyped, Idle
  <2>2. report' \in Reports
    BY <1>10, <2>1 DEF RecordRun, Reports
  <2> QED
    BY <2>1, <2>2 DEF QueueTyped, Idle
<1>11. CASE Mutated
  <2> SUFFICES ASSUME NEW plans \in 0..MaxMutationsPerCorpus, ReceiveMutation(plans)
               PROVE  QueueTyped'
    BY <1>11 DEF Mutated
  <2> DEFINE q == Admitted[plans]
  <2>1. pc = "loop" /\ pc' = "mutation_event" /\ report \in Reports /\ pending # <<>>
    BY DEF ReceiveMutation, Selecting, QueueTyped, Idle
  <2>2. q \in Queues
    BY <2>1, QueueOfReports, AdmittedOneByOne DEF Idle
  <2>3. /\ ready' = q.ready /\ nextCandidateID' = q.nextID /\ pending' = Tail(pending)
        /\ report' = [report EXCEPT !.generated = @ + plans, !.admitted = q.admitted,
                                    !.discarded = q.discarded, !.peak = q.peak]
        /\ UNCHANGED <<nextRandomSeedAt, randomSeedsDue>>
    BY DEF ReceiveMutation
  <2> HIDE DEF q
  <2>4. /\ q.ready \in Seq(Queued) /\ Len(q.ready) <= MaxReadyCandidates /\ q.nextID \in Nat
        /\ q.admitted \in Nat /\ q.discarded \in Nat /\ q.peak \in Nat
    BY <2>2 DEF Queues
  <2>5. report' \in Reports
    <3>1. plans \in Nat
      OBVIOUS
    <3>2. [report EXCEPT !.generated = @ + plans, !.admitted = q.admitted,
                         !.discarded = q.discarded, !.peak = q.peak] \in Reports
      BY <2>1, <2>4, <3>1, ReportOfQueue, Zenon
    <3> QED
      BY <2>3, <3>2
  <2>6. Tail(pending) \in Seq(Requests)
    BY <2>1, HeadTailProperties DEF QueueTyped
  <2> QED
    BY <2>1, <2>3, <2>4, <2>5, <2>6 DEF QueueTyped, Idle
<1>12. CASE Finish
  <2>1. Len(<<>>) <= MaxReadyCandidates
    BY Settings
  <2> QED
    BY <1>12, <2>1 DEF Finish, accumulator, QueueTyped, Idle
<1>13. CASE ResumeRuns
  BY <1>1, <1>13 DEF ResumeRuns, memory, schedule, accumulator, Idle
<1>14. CASE ResumeLoop
  <2> DEFINE c == checkpointFile
  <2>1. pc = "resuming" /\ c \in Checkpoints /\ Len(c.ready) <= MaxReadyCandidates
    BY <1>14 DEF ResumeLoop, DiskTyped, TasksTyped
  <2>2. PICK order \in [DOMAIN c.pending -> DOMAIN c.pending] :
           pending' = [i \in DOMAIN c.pending |-> c.pending[order[i]]]
    BY <1>14 DEF ResumeLoop
  <2>3. /\ ready' = c.ready /\ nextCandidateID' = c.nextCandidateID /\ report' = c.report
        /\ nextRandomSeedAt' = c.nextRandomSeedAt /\ randomSeedsDue' = c.randomSeedsDue
        /\ pc' = "opened"
    BY <1>14 DEF ResumeLoop
  <2> HIDE DEF c
  <2>4. /\ c.ready \in Seq(Queued) /\ c.pending \in Seq(Requests) /\ c.report \in Reports
        /\ c.nextCandidateID \in Nat /\ c.nextRandomSeedAt \in Nat /\ c.randomSeedsDue \in Nat
    BY <2>1 DEF Checkpoints
  <2>5. pending' \in Seq(Requests)
    <3>1. /\ Len(c.pending) \in Nat /\ DOMAIN c.pending = 1..Len(c.pending)
          /\ \A i \in 1..Len(c.pending) : c.pending[i] \in Requests
      BY <2>4, LenProperties
    <3>2. \A i \in 1..Len(c.pending) : c.pending[order[i]] \in Requests
      BY <3>1
    <3> QED
      BY <2>2, <3>1, <3>2
  <2> QED
    BY <2>1, <2>3, <2>4, <2>5 DEF QueueTyped, Idle
<1> QED
  BY Steps, <1>2, <1>3, <1>4, <1>5, <1>6, <1>7, <1>8, <1>9, <1>10, <1>11, <1>12, <1>13, <1>14

\* The first n elements of a journal.
LEMMA FirstElements ==
    ASSUME NEW T, NEW s \in Seq(T), NEW n \in Nat, n <= Len(s)
    PROVE  /\ SubSeq(s, 1, n) \in Seq(T) /\ Len(SubSeq(s, 1, n)) = n
           /\ \A i \in 1..n : SubSeq(s, 1, n)[i] = s[i]
<1>1. Len(s) \in Nat /\ \A i \in 1..Len(s) : s[i] \in T
  BY LenProperties
<1>2. \A i \in 1..n : s[i] \in T
  BY <1>1
<1>3. /\ SubSeq(s, 1, n) \in Seq(T)
      /\ Len(SubSeq(s, 1, n)) = IF 1 <= n THEN n - 1 + 1 ELSE 0
      /\ \A i \in 1..(n - 1 + 1) : SubSeq(s, 1, n)[i] = s[1 + i - 1]
  BY <1>2, SubSeqProperties
<1>4. \A i \in 1..n : 1 + i - 1 = i /\ i \in 1..(n - 1 + 1)
  OBVIOUS
<1> QED
  BY <1>3, <1>4

\* The last element of a nonempty sequence, and what precedes it.
LEMMA LastElement ==
    ASSUME NEW T, NEW s \in Seq(T), s # <<>>
    PROVE  /\ Len(s) \in Nat /\ Len(s) > 0 /\ Last(s) = s[Len(s)] /\ Last(s) \in T
           /\ Front(s) \in Seq(T) /\ Len(Front(s)) = Len(s) - 1
           /\ \A i \in 1..(Len(s) - 1) : Front(s)[i] = s[i]
<1>1. Len(s) \in Nat /\ Len(s) > 0 /\ Len(s) - 1 \in Nat /\ Len(s) - 1 <= Len(s)
  BY EmptySeq
<1>2. Last(s) = s[Len(s)] /\ Last(s) \in T
  BY <1>1, ElementOfSeq DEF Last
<1> QED
  BY <1>1, <1>2, FirstElements DEF Front

\* What an execution covers, and what of it is new.
LEMMA NoveltyTyped ==
    ASSUME corpus \in Corpora, NEW states \in Visits
    PROVE  /\ states \subseteq ModelStates /\ IsFiniteSet(states)
           /\ Projected(states) \subseteq SemanticKeys
           /\ NewStates(corpus, states) \subseteq states
           /\ NewSemantic(corpus, states) \subseteq Projected(states)
           /\ IsFiniteSet(NewSemantic(corpus, states))
<1>1. states \subseteq ModelStates /\ IsFiniteSet(states)
  BY SettingsAssumption
<1>2. Projected(states) \subseteq SemanticKeys
  BY <1>1 DEF Projected, SemanticKeys
<1>3. IsFiniteSet(Projected(states))
  <2> DEFINE f == [s \in states |-> SemanticKey[s]]
  <2>1. f \in [states -> Projected(states)] /\ \A k \in Projected(states) : \E s \in states : f[s] = k
    BY DEF Projected
  <2> HIDE DEF f
  <2>2. f \in Surjection(states, Projected(states))
    BY <2>1 DEF Surjection
  <2> QED
    BY <1>1, <2>2, FS_Surjection
<1>4. NewSemantic(corpus, states) \in SUBSET Projected(states)
  BY DEF NewSemantic
<1> QED
  BY <1>1, <1>2, <1>3, <1>4, FS_Subset DEF NewStates

\* Consider keeps the corpus typed.
LEMMA ConsiderTyped ==
    ASSUME corpus \in Corpora, NEW states \in Visits, NEW run \in Indices
    PROVE  /\ Consider(corpus, states, run) \in Corpora
           /\ Retains(corpus, states) => Consider(corpus, states, run).entries # <<>>
<1>1. /\ corpus.coverage \subseteq ModelStates /\ corpus.semantic \subseteq SemanticKeys
      /\ corpus.entries \in Seq(Entries) /\ Len(corpus.entries) \in Nat
  BY LenProperties DEF Corpora
<1>2. EntryFor(corpus, states, run) \in Entries
  <2>1. run \in Nat
    BY Settings DEF Indices
  <2> QED
    BY <1>1, <2>1, NoveltyTyped DEF EntryFor, Entries
<1>3. /\ Append(corpus.entries, EntryFor(corpus, states, run)) \in Seq(Entries)
      /\ Append(corpus.entries, EntryFor(corpus, states, run)) # <<>>
  BY <1>1, <1>2, AppendProperties
<1> QED
  BY <1>1, <1>3, NoveltyTyped DEF Consider, Corpora

\* RollbackLast keeps the corpus typed.
LEMMA RollbackTyped ==
    ASSUME corpus \in Corpora, corpus.entries # <<>>
    PROVE  RollbackLast(corpus) \in Corpora
<1>1. /\ corpus.coverage \subseteq ModelStates /\ corpus.semantic \subseteq SemanticKeys
      /\ corpus.entries \in Seq(Entries)
  BY DEF Corpora
<1>2. Front(corpus.entries) \in Seq(Entries)
  BY <1>1, LastElement
<1> QED
  BY <1>1, <1>2 DEF RollbackLast, Corpora

\* The corpus of a fresh experiment is typed.
LEMMA EmptyCorpusTyped == EmptyCorpus \in Corpora
  BY EmptySeq DEF EmptyCorpus, Corpora

\* What is read back from corpus.jsonl.
LEMMA ResumedCorpus ==
    ASSUME Typed, ResumeLoop
    PROVE  /\ checkpointFile \in Checkpoints /\ checkpointFile # None
           /\ checkpointFile.entryCount \in Nat
           /\ corpusFile' = FirstEntries(checkpointFile) /\ corpus'.entries = corpusFile'
           /\ corpusFile' \in Seq(Entries) /\ Len(corpusFile') = checkpointFile.entryCount
           /\ corpus' \in Corpora
<1>1. checkpointFile \in Checkpoints /\ checkpointFile # None
  BY DEF Typed, TasksTyped, DiskTyped, ResumeLoop
<1>2. /\ checkpointFile.entryCount \in Nat /\ checkpointFile.coverage \subseteq ModelStates
      /\ checkpointFile.semantic \subseteq SemanticKeys
  BY <1>1 DEF Checkpoints
<1>3. corpusFile \in Seq(Entries) /\ checkpointFile.entryCount <= Len(corpusFile)
  <2>1. corpusFile \in Seq(Entries) /\ Len(corpusFile) >= checkpointFile.entryCount
    BY DEF Typed, DiskTyped, ResumeLoop
  <2>2. Len(corpusFile) \in Nat
    BY <2>1, LenProperties
  <2> QED
    BY <1>2, <2>1, <2>2
<1>4. /\ FirstEntries(checkpointFile) \in Seq(Entries)
      /\ Len(FirstEntries(checkpointFile)) = checkpointFile.entryCount
  BY <1>2, <1>3, FirstElements DEF FirstEntries
<1>5. /\ corpusFile' = FirstEntries(checkpointFile)
      /\ corpus' = [coverage |-> checkpointFile.coverage, semantic |-> checkpointFile.semantic,
                    entries |-> FirstEntries(checkpointFile)]
  BY DEF ResumeLoop, Truncated, FirstEntries
<1> QED
  BY <1>1, <1>2, <1>4, <1>5 DEF Corpora

\* Every step keeps the run being recorded, the corpus and the summaries typed.
LEMMA ResultStep ==
    ASSUME Typed, [Next]_vars
    PROVE  ResultTyped'
<1> USE DEF Typed
<1>1. CASE UNCHANGED <<corpus, recorded, current>> /\ pc' \notin {"corpus", "record"}
           /\ (current = None \/ pc' \in Stopping)
  BY <1>1 DEF ResultTyped, Idle, Stopping, Clean
<1>2. CASE Light
  <2>1. CASE pc' = pc
    BY <1>2, <2>1 DEF Light, accumulator, ResultTyped
  <2>2. CASE pc' # pc
    BY <1>1, <1>2, <2>2 DEF Light, accumulator, ResultTyped, Stopping, Clean
  <2> QED
    BY <2>1, <2>2
<1>3. CASE Saved
  BY <1>1, <1>3 DEF Saved, memory, accumulator, ResultTyped, Clean
<1>4. CASE Ends
  BY <1>4, EmptyCorpusTyped DEF Ends, Exit, ResultTyped
<1>5. CASE LaunchRerun \/ LaunchNew \/ Reseeded \/ Finish
  <2>1. pc = "loop" /\ pc' \in {"loop", "end_event"} /\ UNCHANGED <<corpus, recorded, current>>
    BY <1>5 DEF LaunchRerun, LaunchNew, FreeSlot, Reseeded, Finish, accumulator
  <2> QED
    BY <1>1, <2>1 DEF ResultTyped, Clean
<1>6. CASE Received
  <2> SUFFICES ASSUME NEW task \in inFlight, NEW outcome \in Outcomes, NEW states \in Visits,
                      ReceiveExecution(task, outcome, states)
               PROVE  ResultTyped'
    BY <1>6 DEF Received
  <2> DEFINE considered == outcome = "succeeded" /\ states # {}
             retained == considered /\ Retains(corpus, states)
  <2>1. task \in Tasks /\ task.index \in Indices /\ task.candidate \in Candidates
    BY DEF TasksTyped, Scheduled, Tasks
  <2>2. corpus \in Corpora /\ recorded \subseteq Summaries
    BY DEF ResultTyped
  <2>3. /\ recorded' = recorded /\ pc' = (IF retained THEN "corpus" ELSE "record")
        /\ corpus' = (IF considered THEN Consider(corpus, states, task.index) ELSE corpus)
        /\ current' = [index |-> task.index, candidate |-> task.candidate, outcome |-> outcome,
                states |-> states, retained |-> retained,
                newStates |-> IF considered THEN NewStates(corpus, states) ELSE {},
                newSemantic |-> IF considered THEN NewSemantic(corpus, states) ELSE {}]
    BY DEF ReceiveExecution
  <2>4. corpus' \in Corpora /\ (retained => corpus'.entries # <<>>)
    <3>1. CASE considered
      BY <2>1, <2>2, <2>3, <3>1, ConsiderTyped
    <3>2. CASE ~considered
      BY <2>2, <2>3, <3>2
    <3> QED
      BY <3>1, <3>2
  <2>5. current' \in Summaries
    <3>1. outcome \in {"succeeded", "failed", "cancelled"}
      BY DEF Outcomes
    <3>2. /\ states \in SUBSET ModelStates
          /\ NewStates(corpus, states) \in SUBSET ModelStates
          /\ NewSemantic(corpus, states) \in SUBSET SemanticKeys
      BY <2>2, NoveltyTyped
    <3>3. /\ (IF considered THEN NewStates(corpus, states) ELSE {}) \in SUBSET ModelStates
          /\ (IF considered THEN NewSemantic(corpus, states) ELSE {}) \in SUBSET SemanticKeys
      BY <3>2
    <3>4. retained \in BOOLEAN
      BY Zenon
    <3> HIDE DEF considered, retained
    <3> QED
      BY <2>1, <2>3, <3>1, <3>2, <3>3, <3>4 DEF Summaries
  <2>6. IsFiniteSet(current'.newSemantic)
    <3>1. current'.newSemantic = IF considered THEN NewSemantic(corpus, states) ELSE {}
      BY <2>3
    <3> QED
      BY <2>2, <3>1, NoveltyTyped, FS_EmptySet
  <2>7. current' # None
    BY <2>5, NoneAssumption
  <2> QED
    BY <2>2, <2>3, <2>4, <2>5, <2>6, <2>7 DEF ResultTyped, Idle, Clean
<1>7. CASE WriteCorpusEntry
  <2>1. /\ UNCHANGED <<recorded, current>> /\ pc = "corpus" /\ pc' \in {"record", "stop_event"}
        /\ corpus' \in {corpus, RollbackLast(corpus)}
    BY <1>7 DEF WriteCorpusEntry, accumulator
  <2>2. corpus' \in Corpora
    BY <2>1, RollbackTyped DEF ResultTyped
  <2> QED
    BY <2>1, <2>2 DEF ResultTyped, Idle, Clean
<1>8. CASE RecordRun
  <2>1. /\ corpus' = corpus /\ recorded' = recorded \cup {current} /\ current' = None
        /\ pc = "record" /\ pc' \in {"run_event", "stop_event"}
    BY <1>8 DEF RecordRun
  <2> QED
    BY <2>1 DEF ResultTyped
<1>9. CASE Mutated
  <2>1. pc = "loop" /\ pc' = "mutation_event" /\ UNCHANGED <<corpus, recorded, current>>
    BY <1>9 DEF Mutated, ReceiveMutation, Selecting
  <2> QED
    BY <1>1, <2>1 DEF ResultTyped, Clean
<1>10. CASE ResumeRuns
  <2>1. pc = "down" /\ pc' = "resuming" /\ UNCHANGED <<corpus, recorded, current>>
    BY <1>10 DEF ResumeRuns, memory, accumulator
  <2> QED
    BY <1>1, <2>1 DEF ResultTyped, Idle
<1>11. CASE ResumeLoop
  <2>1. /\ recorded' = checkpointFile.recorded /\ current' = current
        /\ pc = "resuming" /\ pc' = "opened"
    BY <1>11 DEF ResumeLoop
  <2>2. recorded' \subseteq Summaries /\ corpus' \in Corpora
    BY <1>11, <2>1, ResumedCorpus DEF Checkpoints
  <2> QED
    BY <2>1, <2>2 DEF ResultTyped, Idle
<1> QED
  BY Steps, <1>2, <1>3, <1>4, <1>5, <1>6, <1>7, <1>8, <1>9, <1>10, <1>11

\* Every step keeps the files typed.
LEMMA DiskStep ==
    ASSUME Typed, [Next]_vars
    PROVE  DiskTyped'
<1> USE DEF Typed
<1>1. CASE UNCHANGED <<checkpointFile, runsFile, corpusFile>>
  BY <1>1 DEF DiskTyped
<1>2. CASE Light
  BY <1>1, <1>2 DEF Light
<1>3. CASE Saved \/ Ends
  <2>1. /\ UNCHANGED <<runsFile, corpusFile>>
        /\ checkpointFile' = checkpointFile \/ (checkpointFile' = Checkpoint /\ pc \notin Idle)
    BY <1>3 DEF Saved, Ends, Idle, Stopping, Clean
  <2>2. CASE checkpointFile' = checkpointFile
    BY <1>1, <2>1, <2>2
  <2>3. CASE checkpointFile' = Checkpoint /\ pc \notin Idle
    BY <2>1, <2>3, CheckpointType DEF DiskTyped, QueueTyped
  <2> QED
    BY <2>1, <2>2, <2>3
<1>4. CASE LaunchRerun \/ LaunchNew \/ Reseeded \/ Finish
  BY <1>1, <1>4 DEF LaunchRerun, LaunchNew, Reseeded, Finish, disk
<1>5. CASE Received \/ Mutated
  BY <1>1, <1>5, ZenonT(30) DEF Received, ReceiveExecution, Mutated, ReceiveMutation, disk
<1>6. CASE WriteCorpusEntry
  <2>1. /\ UNCHANGED <<checkpointFile, runsFile>> /\ pc = "corpus"
        /\ corpusFile' = corpusFile \/ corpusFile' = Append(corpusFile, Last(corpus.entries))
    BY <1>6 DEF WriteCorpusEntry
  <2>2. Last(corpus.entries) \in Entries
    BY <2>1, LastElement DEF ResultTyped, Corpora
  <2> QED
    BY <2>1, <2>2, AppendProperties DEF DiskTyped
<1>7. CASE RecordRun
  <2>1. /\ UNCHANGED <<checkpointFile, corpusFile>> /\ pc = "record"
        /\ runsFile' = runsFile \/ runsFile' = Append(runsFile, current)
    BY <1>7 DEF RecordRun
  <2>2. current \in Summaries
    BY <2>1 DEF ResultTyped
  <2> QED
    BY <2>1, <2>2, AppendProperties DEF DiskTyped
<1>8. CASE ResumeRuns
  <2>1. /\ UNCHANGED <<checkpointFile, corpusFile>> /\ checkpointFile # None
        /\ Len(runsFile) >= checkpointFile.completed
        /\ runsFile' = SubSeq(runsFile, 1, checkpointFile.completed)
    BY <1>8 DEF ResumeRuns, Truncated
  <2>2. checkpointFile.completed \in Nat /\ runsFile \in Seq(Summaries) /\ Len(runsFile) \in Nat
    BY <2>1, LenProperties DEF DiskTyped, Checkpoints
  <2>3. runsFile' \in Seq(Summaries)
    BY <2>1, <2>2, FirstElements
  <2> QED
    BY <2>1, <2>3 DEF DiskTyped
<1>9. CASE ResumeLoop
  <2>1. UNCHANGED <<checkpointFile, runsFile>>
    BY <1>9 DEF ResumeLoop
  <2> QED
    BY <1>9, <2>1, ResumedCorpus DEF DiskTyped
<1> QED
  BY Steps, <1>2, <1>3, <1>4, <1>5, <1>6, <1>7, <1>8, <1>9

\* The initial population is a queue of at most MaxReadyCandidates.
LEMMA InitialQueue ==
    ASSUME Init
    PROVE  /\ ready \in Seq(Queued) /\ Len(ready) = InitialPopulation - InitiallyLost
           /\ Len(ready) \in Nat /\ Len(ready) <= MaxReadyCandidates
           /\ \A i \in 1..Len(ready) : ready[i].kind = "initial"
<1> DEFINE n == InitialPopulation - InitiallyLost
<1>1. n \in Nat /\ n <= MaxReadyCandidates /\ InitiallyLost \in Nat
  BY Settings DEF InitiallyLost
<1>2. ready = [i \in 1..n |-> [id |-> InitiallyLost + i - 1, kind |-> "initial"]]
  BY DEF Init
<1>3. \A i \in 1..n : [id |-> InitiallyLost + i - 1, kind |-> "initial"] \in Queued
  <2> HIDE DEF n
  <2>1. \A i \in 1..n : InitiallyLost + i - 1 \in Nat
    BY <1>1
  <2> QED
    BY <2>1 DEF Queued
<1> HIDE DEF n
<1>4. ready \in Seq(Queued) /\ Len(ready) = n
  <2>1. ready \in [1..n -> Queued]
    BY <1>2, <1>3
  <2> QED
    BY <1>1, <2>1, LenProperties, SeqDef
<1> QED
  BY <1>1, <1>2, <1>4 DEF n

\* The types hold of a fresh experiment.
LEMMA TypedInit == Init => Typed
<1> SUFFICES ASSUME Init PROVE Typed
  OBVIOUS
<1>1. TasksTyped
  <2>1. {} \cup {} = {} /\ {} \cap {} = {} /\ Cardinality({}) <= Parallelism
    BY FS_EmptySet, Settings
  <2> QED
    BY <2>1, NothingScheduled DEF Init, TasksTyped, CheckpointScheduled, Idle
<1>2. QueueTyped
  <2>1. pending \in Seq(Requests)
    BY DEF Init
  <2>2. report \in Reports
    BY InitialQueue DEF Init, Reports
  <2> QED
    BY <2>1, <2>2, InitialQueue, Settings DEF Init, QueueTyped, Idle
<1>3. ResultTyped
  BY EmptyCorpusTyped DEF Init, ResultTyped
<1>4. DiskTyped
  BY DEF Init, DiskTyped
<1>5. pc \in Stages
  BY DEF Init, Stages
<1>6. Numbered
  BY DEF Init, Numbered, Idle, Stopping
<1> QED
  BY <1>1, <1>2, <1>3, <1>4, <1>5, <1>6 DEF Typed

\* Every step ends in one of the stages.
LEMMA StagesStep ==
    ASSUME Typed, [Next]_vars
    PROVE  pc' \in Stages
<1> USE DEF Stages
<1>1. CASE Light \/ Saved \/ Ends
  BY <1>1 DEF Typed, Light, Saved, Ends, Exit, Stopping, Clean
<1>2. CASE LaunchRerun \/ LaunchNew \/ Reseeded \/ Finish
  BY <1>2 DEF LaunchRerun, LaunchNew, FreeSlot, Reseeded, Finish
<1>3. CASE Received \/ Mutated
  BY <1>3, ZenonT(30) DEF Received, ReceiveExecution, Mutated, ReceiveMutation
<1>4. CASE WriteCorpusEntry \/ RecordRun
  BY <1>4 DEF WriteCorpusEntry, RecordRun
<1>5. CASE ResumeRuns \/ ResumeLoop
  BY <1>5 DEF ResumeRuns, ResumeLoop
<1> QED
  BY Steps, <1>1, <1>2, <1>3, <1>4, <1>5

\* Every step keeps the types.
LEMMA TypedStep ==
    ASSUME Typed, [Next]_vars
    PROVE  Typed'
<1>1. TasksTyped'
  BY TasksStep DEF Typed, QueueTyped
<1> QED
  BY <1>1, QueueStep, ResultStep, DiskStep, StagesStep, EventSteps DEF Typed

\* How often the experiment was interrupted, and whether it is cancelled.
Bounded == interruptions \in 0..MaxInterruptions /\ cancelled \in BOOLEAN

\* Interruptions are counted up to their bound.
LEMMA BoundedStep ==
    ASSUME Bounded, Typed, [Next]_vars
    PROVE  Bounded'
<1> USE Settings DEF Bounded
<1>1. CASE UNCHANGED <<interruptions, cancelled>>
  BY <1>1
<1>2. CASE interruptions' \in {interruptions, interruptions + 1}
           /\ (interruptions' = interruptions \/ interruptions < MaxInterruptions)
           /\ cancelled' \in {cancelled, TRUE, FALSE}
  <2>1. interruptions' \in 0..MaxInterruptions
    BY <1>2
  <2>2. cancelled' \in BOOLEAN
    BY <1>2, Zenon
  <2> QED
    BY <2>1, <2>2
<1>3. CASE EmitOpened \/ EmitRun \/ EmitMutation
  BY <1>2, <1>3 DEF EmitOpened, EmitRun, EmitMutation, Emit, Interrupt
<1>4. CASE SaveFirst \/ SaveRun
  BY <1>2, <1>4 DEF SaveFirst, SaveRun, Save, memory, Interrupt
<1>5. CASE LaunchRerun \/ LaunchNew \/ Reseed \/ StopOnCancel \/ Finish
  <2>1. CASE LaunchRerun \/ LaunchNew \/ StopOnCancel \/ Finish
    BY <1>1, <2>1 DEF LaunchRerun, LaunchNew, StopOnCancel, Finish, memory
  <2>2. CASE Reseed
    BY <1>2, <2>2 DEF Reseed, Interrupt
  <2> QED
    BY <1>5, <2>1, <2>2
<1>6. CASE Received \/ Mutated
  BY <1>1, <1>6, ZenonT(30) DEF Received, ReceiveExecution, Mutated, ReceiveMutation
<1>7. CASE WriteCorpusEntry \/ RecordRun
  BY <1>2, <1>7 DEF WriteCorpusEntry, RecordRun, Interrupt
<1>8. CASE EmitStopped \/ SaveStopped
  BY <1>2, <1>8 DEF EmitStopped, SaveStopped, Exit
<1>9. CASE EmitFinished \/ SaveFinished
  BY <1>2, <1>9 DEF EmitFinished, SaveFinished, Exit, Interrupt
<1>10. CASE CancelContext \/ Crash
  BY <1>2, <1>10 DEF CancelContext, Crash, Exit, Interrupt
<1>11. CASE ResumeRuns
  BY <1>2, <1>11 DEF ResumeRuns, memory
<1>12. CASE ResumeLoop
  BY <1>1, <1>12 DEF ResumeLoop
<1>13. CASE UNCHANGED vars
  BY <1>1, <1>13 DEF vars, memory
<1> QED
  BY <1>3, <1>4, <1>5, <1>6, <1>7, <1>8, <1>9, <1>10, <1>11, <1>12, <1>13
     DEF Next, Loop, Resume, Receive, Received, Mutated

\* The invariant is stronger than TypeOK.
LEMMA TypedMeansTypeOK == Typed /\ Bounded => TypeOK
<1> SUFFICES ASSUME Typed, Bounded PROVE TypeOK
  OBVIOUS
<1>1. /\ rerun \subseteq Tasks /\ inFlight \subseteq Tasks /\ Cardinality(inFlight) <= Parallelism
  BY DEF Typed, TasksTyped, Scheduled
<1>2. {nextRunIndex, completed} \subseteq 0..Runs /\ completed <= nextRunIndex
  <2>1. completed <= nextRunIndex /\ completed \in Nat /\ nextRunIndex \in Nat /\ nextRunIndex <= Runs
    BY ScheduledProperties DEF Typed, TasksTyped, Scheduled
  <2> QED
    BY <2>1, Settings
<1>3. /\ ready \in Seq(Queued) /\ Len(ready) <= MaxReadyCandidates /\ pending \in Seq(Requests)
      /\ {nextCandidateID, nextRandomSeedAt, randomSeedsDue, eventSequence, lastEvent} \subseteq Nat
      /\ report \in Reports \cup {None}
  BY DEF Typed, QueueTyped, Numbered
<1> QED
  BY <1>1, <1>2, <1>3 DEF Typed, ResultTyped, DiskTyped, Bounded, TypeOK

\* Every variable keeps its type, the queue of candidates never exceeds its
\* limit, and no more executions run than there are slots, whatever fails.
THEOREM FeedbackTypeCorrect == Spec => []TypeOK
<1>1. Init => Typed /\ Bounded
  <2> SUFFICES ASSUME Init PROVE Typed /\ Bounded
    OBVIOUS
  <2>1. interruptions \in 0..MaxInterruptions
    BY Settings DEF Init
  <2>2. cancelled \in BOOLEAN
    BY DEF Init
  <2> QED
    BY <2>1, <2>2, TypedInit DEF Bounded
<1>2. Typed /\ Bounded /\ [Next]_vars => Typed' /\ Bounded'
  BY TypedStep, BoundedStep
<1> QED
  BY <1>1, <1>2, TypedMeansTypeOK, PTL DEF Spec

-----------------------------------------------------------------------------
(* The runs that are done, and the two journals.                           *)

\* The result being recorded counts as one that is done.
Results == recorded \cup ({current} \ {None})

\* No run index is done twice, done and in flight, or done before its launch.
Done(tasks, results, next) ==
    /\ IsFiniteSet(results)
    /\ \A r \in results : r.index < next
    /\ \A r, s \in results : r.index = s.index => r = s
    /\ \A r \in results, t \in tasks : r.index # t.index

\* As many results as completed executions: the one checkpoint that lacks a
\* result is left by a hook that failed before it was recorded.
RunsDone ==
    /\ Done(rerun \cup inFlight, Results, nextRunIndex) /\ Cardinality(Results) = completed
    /\ current \notin recorded
    /\ checkpointFile # None =>
          Done(checkpointFile.inFlight, checkpointFile.recorded, checkpointFile.nextRunIndex)
    /\ pc = "resuming" => Valid(checkpointFile)

\* The results are run summaries.
LEMMA ResultsTyped ==
    ASSUME Typed
    PROVE  Results \subseteq Summaries /\ (current # None => current \in Results)
  BY DEF Typed, ResultTyped, Results

\* What is done of fewer tasks, or by fewer results.
LEMMA DoneSubset ==
    ASSUME NEW tasks, NEW results, NEW next, Done(tasks, results, next), NEW some \in SUBSET results
    PROVE  Done(tasks, some, next) /\ Cardinality(some) <= Cardinality(results)
<1>1. IsFiniteSet(some) /\ Cardinality(some) <= Cardinality(results)
  BY FS_Subset DEF Done
<1> QED
  BY <1>1 DEF Done

\* A process that has not begun has no results.
LEMMA NothingDone ==
    ASSUME NEW tasks, NEW next
    PROVE  Done(tasks, {}, next)
  BY FS_EmptySet DEF Done

\* A checkpoint is resumed only if it has a result for each completed execution.
LEMMA ValidCounts ==
    ASSUME NEW c, Valid(c)
    PROVE  Cardinality(c.recorded) = c.completed
  BY DEF Valid, AggregationValid

\* Every step gives each launched index to one task or to one result.
LEMMA RunsDoneStep ==
    ASSUME Typed, RunsDone, [Next]_vars
    PROVE  RunsDone'
<1> DEFINE tasks == rerun \cup inFlight
<1>0. /\ tasks \subseteq Tasks /\ nextRunIndex \in Nat /\ completed \in Nat
      /\ \A t, u \in tasks : t.index = u.index => t = u
  BY DEF Typed, TasksTyped, Scheduled
<1>14. None \notin recorded'
  BY ResultStep, NoneAssumption DEF ResultTyped
<1>1. CASE UNCHANGED <<rerun, inFlight, nextRunIndex, completed, checkpointFile>>
           /\ Results' = Results /\ (pc' = "resuming" => pc = "resuming")
           /\ (current' = None \/ UNCHANGED <<current, recorded>>)
  <2>1. Valid(checkpointFile)' <=> Valid(checkpointFile)
    BY <1>1 DEF Valid, AggregationValid, RecordedIndices
  <2> QED
    BY <1>14, <1>1, <2>1 DEF RunsDone
<1>2. CASE Light
  <2>1. Results' = Results
    BY <1>2 DEF Light, accumulator, Results
  <2> QED
    BY <1>1, <1>2, <2>1 DEF Light, schedule, accumulator, Stopping, Clean
<1>3. CASE Saved \/ Ends
  <2>1. \/ checkpointFile' = checkpointFile
        \/ checkpointFile' = Checkpoint /\ Checkpoint.recorded = recorded
    BY <1>3 DEF Saved, Ends, Checkpoint
  <2>2. recorded \in SUBSET Results
    BY DEF Results
  <2>3. Done(tasks, recorded, nextRunIndex)
    BY <2>2, DoneSubset DEF RunsDone
  <2>4. checkpointFile' # None =>
          Done(checkpointFile.inFlight, checkpointFile.recorded, checkpointFile.nextRunIndex)'
    BY <2>1, <2>3, CheckpointTasks DEF RunsDone, Done
  <2>5. Done(tasks', Results', nextRunIndex') /\ Cardinality(Results') = completed'
    <3>1. CASE Saved
      BY <3>1 DEF RunsDone, Saved, memory, schedule, accumulator, Results
    <3>2. CASE Ends
      <4>1. Results' = {} /\ completed' = 0
        BY <3>2 DEF Ends, Exit, Results
      <4> QED
        BY <4>1, NothingDone, FS_EmptySet
    <3> QED
      BY <1>3, <3>1, <3>2
  <2>6. pc' # "resuming"
    BY <1>3 DEF Saved, Ends, Exit
  <2>7. current' = None \/ UNCHANGED <<current, recorded>>
    BY <1>3 DEF Saved, Ends, Exit, memory, accumulator
  <2> QED
    BY <1>14, <2>4, <2>5, <2>6, <2>7 DEF RunsDone
<1>4. CASE LaunchRerun
  <2>1. tasks' = tasks
    BY <1>4 DEF LaunchRerun
  <2>2. /\ UNCHANGED <<nextRunIndex, completed, checkpointFile, pc, current, recorded>>
        /\ Results' = Results
        /\ pc = "loop"
    BY <1>4 DEF LaunchRerun, FreeSlot, accumulator, disk, Results
  <2> QED
    BY <2>1, <2>2 DEF RunsDone
<1>5. CASE LaunchNew
  <2>1. PICK task : inFlight' = inFlight \cup {task} /\ task.index = nextRunIndex
    <3> DEFINE seed == [index |-> nextRunIndex, candidate |-> Candidate("periodic_random")]
               oldest == [index |-> nextRunIndex, candidate |-> Head(ready)]
    <3>1. inFlight' = inFlight \cup {seed} \/ inFlight' = inFlight \cup {oldest}
      BY <1>5 DEF LaunchNew
    <3>2. seed.index = nextRunIndex /\ oldest.index = nextRunIndex
      OBVIOUS
    <3> HIDE DEF seed, oldest
    <3> QED
      BY <3>1, <3>2
  <2>2. /\ UNCHANGED <<rerun, completed, checkpointFile, pc, current, recorded>> /\ Results' = Results
        /\ nextRunIndex' = nextRunIndex + 1 /\ pc = "loop"
    BY <1>5 DEF LaunchNew, FreeSlot, accumulator, disk, Results
  <2>3. \A r \in Results : r.index \in Nat /\ r.index < nextRunIndex
    BY ResultsTyped, Settings DEF RunsDone, Done, Summaries, Indices
  <2>4. \A r \in Results : r.index < nextRunIndex + 1 /\ r.index # nextRunIndex
    BY <1>0, <2>3
  <2>5. Done(tasks', Results', nextRunIndex')
    BY <2>1, <2>2, <2>4 DEF RunsDone, Done
  <2> QED
    BY <2>2, <2>5 DEF RunsDone
<1>6. CASE Received
  <2>1. PICK task \in inFlight :
          /\ inFlight' = inFlight \ {task} /\ completed' = completed + 1
          /\ current'.index = task.index
          /\ UNCHANGED <<rerun, nextRunIndex, checkpointFile, recorded>> /\ pc = "loop"
          /\ pc' \in {"corpus", "record"}
    BY <1>6 DEF Received, ReceiveExecution, CountExecution, Selecting, disk
  <2>2. current = None /\ current' # None
    BY <2>1, <1>6, ResultStep DEF Typed, ResultTyped, Clean
  <2>3. Results' = Results \cup {current'}
    BY <2>1, <2>2 DEF Results
  <2>4. task \in tasks /\ tasks' = tasks \ {task}
    BY <2>1 DEF Typed, TasksTyped
  <2>5. current' \notin Results /\ \A r \in Results : r.index # task.index
    BY <2>1, <2>4 DEF RunsDone, Done
  <2>6. task.index < nextRunIndex /\ \A t \in tasks' : t.index # task.index
    BY <1>0, <2>4 DEF Typed, TasksTyped, Scheduled
  <2>7. IsFiniteSet(Results') /\ Cardinality(Results') = Cardinality(Results) + 1
    BY <2>3, <2>5, FS_AddElement DEF RunsDone, Done
  <2>8. Done(tasks', Results', nextRunIndex')
    <3>1. \A r \in Results' : r.index < nextRunIndex
      BY <2>1, <2>3, <2>6 DEF RunsDone, Done
    <3>2. \A r, s \in Results' : r.index = s.index => r = s
      BY <2>1, <2>3, <2>5 DEF RunsDone, Done
    <3>3. \A r \in Results', t \in tasks' : r.index # t.index
      BY <2>1, <2>3, <2>4, <2>6 DEF RunsDone, Done
    <3> QED
      BY <2>1, <2>7, <3>1, <3>2, <3>3 DEF Done
  <2>9. Cardinality(Results') = completed'
    BY <2>1, <2>7 DEF RunsDone
  <2>10. current' \notin recorded'
    BY <2>1, <2>5 DEF Results
  <2> QED
    BY <2>1, <2>8, <2>9, <2>10 DEF RunsDone
<1>7. CASE Reseeded \/ WriteCorpusEntry \/ Mutated \/ Finish
  <2>1. /\ UNCHANGED <<rerun, inFlight, nextRunIndex, completed, checkpointFile, recorded, current>>
        /\ pc' # "resuming"
    <3>1. CASE Reseeded \/ Finish
      BY <3>1 DEF Reseeded, Finish, accumulator, disk
    <3>2. CASE WriteCorpusEntry
      BY <3>2 DEF WriteCorpusEntry, accumulator
    <3>3. CASE Mutated
      BY <3>3 DEF Mutated, ReceiveMutation, disk
    <3> QED
      BY <1>7, <3>1, <3>2, <3>3
  <2> QED
    BY <1>1, <2>1 DEF Results
<1>8. CASE RecordRun
  <2>1. /\ UNCHANGED <<rerun, inFlight, nextRunIndex, completed, checkpointFile>>
        /\ recorded' = recorded \cup {current} /\ current' = None /\ pc = "record"
        /\ pc' # "resuming"
    BY <1>8 DEF RecordRun, schedule
  <2>2. current # None
    BY <2>1 DEF Typed, ResultTyped
  <2>3. Results' = Results
    <3>1. None \notin recorded
      BY NoneAssumption DEF Typed, ResultTyped
    <3> QED
      BY <2>1, <2>2, <3>1 DEF Results
  <2> QED
    BY <1>1, <2>1, <2>3
<1>9. CASE ResumeRuns
  <2>1. /\ UNCHANGED <<rerun, inFlight, nextRunIndex, completed, checkpointFile, recorded, current>>
        /\ Valid(checkpointFile)
    BY <1>9 DEF ResumeRuns, memory, schedule, accumulator
  <2>2. Valid(checkpointFile)'
    BY <2>1 DEF Valid, AggregationValid, RecordedIndices
  <2> QED
    BY <2>1, <2>2 DEF RunsDone, Results
<1>10. CASE ResumeLoop
  <2>1. /\ tasks' = checkpointFile.inFlight /\ recorded' = checkpointFile.recorded
        /\ nextRunIndex' = checkpointFile.nextRunIndex /\ completed' = checkpointFile.completed
        /\ UNCHANGED <<checkpointFile, current>> /\ pc = "resuming" /\ pc' = "opened"
    BY <1>10 DEF ResumeLoop
  <2>2. current = None /\ checkpointFile # None
    BY <2>1 DEF Typed, ResultTyped, TasksTyped, Idle
  <2>3. Results' = checkpointFile.recorded
    <3>1. None \notin checkpointFile.recorded
      BY <2>2, NoneAssumption DEF Typed, DiskTyped, Checkpoints
    <3> QED
      BY <2>1, <2>2 DEF Results
  <2>4. Cardinality(checkpointFile.recorded) = checkpointFile.completed
    BY <2>1, ValidCounts DEF RunsDone
  <2> QED
    BY <1>14, <2>1, <2>2, <2>3, <2>4 DEF RunsDone
<1> QED
  BY Steps, <1>2, <1>3, <1>4, <1>5, <1>6, <1>7, <1>8, <1>9, <1>10

\* The elements of a sequence that grew by one.
LEMMA Appended ==
    ASSUME NEW T, NEW s \in Seq(T), NEW x \in T
    PROVE  /\ Append(s, x) \in Seq(T) /\ Len(Append(s, x)) = Len(s) + 1 /\ Len(s) \in Nat
           /\ Append(s, x)[Len(s) + 1] = x /\ \A i \in 1..Len(s) : Append(s, x)[i] = s[i]
           /\ ToSet(Append(s, x)) = ToSet(s) \cup {x}
           /\ \A n \in Nat : n <= Len(s) => SubSeq(Append(s, x), 1, n) = SubSeq(s, 1, n)
           /\ Front(Append(s, x)) = s
<1> DEFINE t == Append(s, x)
<1>1. /\ t \in Seq(T) /\ Len(t) = Len(s) + 1 /\ Len(s) \in Nat /\ t[Len(s) + 1] = x
      /\ \A i \in 1..Len(s) : t[i] = s[i]
  BY AppendProperties, LenProperties
<1>2. DOMAIN t = 1..(Len(s) + 1) /\ DOMAIN s = 1..Len(s)
  BY <1>1, LenProperties
<1> HIDE DEF t
<1>3. ToSet(t) = ToSet(s) \cup {x}
  <2>1. \A i \in 1..(Len(s) + 1) : i \in 1..Len(s) \/ i = Len(s) + 1
    BY <1>1
  <2>2. \A i \in 1..Len(s) : i \in 1..(Len(s) + 1)
    BY <1>1
  <2>3. Len(s) + 1 \in 1..(Len(s) + 1)
    BY <1>1
  <2> QED
    BY <1>1, <1>2, <2>1, <2>2, <2>3 DEF ToSet
<1>4. ASSUME NEW n \in Nat, n <= Len(s)
      PROVE  SubSeq(t, 1, n) = SubSeq(s, 1, n)
  <2>1. n <= Len(t) /\ \A i \in 1..n : i \in 1..Len(s)
    BY <1>1, <1>4
  <2>2. /\ SubSeq(t, 1, n) \in Seq(T) /\ Len(SubSeq(t, 1, n)) = n
        /\ \A i \in 1..n : SubSeq(t, 1, n)[i] = t[i]
    BY <1>1, <1>4, <2>1, FirstElements
  <2>3. /\ SubSeq(s, 1, n) \in Seq(T) /\ Len(SubSeq(s, 1, n)) = n
        /\ \A i \in 1..n : SubSeq(s, 1, n)[i] = s[i]
    BY <1>4, FirstElements
  <2>4. \A i \in 1..n : SubSeq(t, 1, n)[i] = SubSeq(s, 1, n)[i]
    BY <1>1, <2>1, <2>2, <2>3
  <2> QED
    BY <2>2, <2>3, <2>4, SeqEqual
<1>5. Front(t) = s
  <2>1. Len(t) - 1 = Len(s) /\ Len(s) <= Len(s)
    BY <1>1
  <2>2. SubSeq(s, 1, Len(s)) = s
    BY SubSeqFull
  <2> QED
    BY <1>1, <1>4, <2>1, <2>2 DEF Front
<1> QED
  BY <1>1, <1>3, <1>4, <1>5 DEF t

\* The last element put back.
LEMMA FrontAndLast ==
    ASSUME NEW T, NEW s \in Seq(T), s # <<>>
    PROVE  s = Append(Front(s), Last(s))
<1>1. /\ Len(s) \in Nat /\ Len(s) > 0 /\ Last(s) = s[Len(s)] /\ Last(s) \in T
      /\ Front(s) \in Seq(T) /\ Len(Front(s)) = Len(s) - 1
      /\ \A i \in 1..(Len(s) - 1) : Front(s)[i] = s[i]
  BY LastElement
<1> DEFINE t == Append(Front(s), Last(s))
<1>2. /\ t \in Seq(T) /\ Len(t) = Len(Front(s)) + 1 /\ t[Len(Front(s)) + 1] = Last(s)
      /\ \A i \in 1..Len(Front(s)) : t[i] = Front(s)[i]
  BY <1>1, Appended
<1>3. Len(t) = Len(s) /\ \A i \in 1..Len(s) : t[i] = s[i]
  <2> HIDE DEF t
  <2>1. \A i \in 1..Len(s) : i \in 1..(Len(s) - 1) \/ i = Len(s)
    BY <1>1
  <2>2. Len(Front(s)) + 1 = Len(s)
    BY <1>1
  <2> QED
    BY <1>1, <1>2, <2>1, <2>2
<1> HIDE DEF t
<1>4. s = t
  BY <1>2, <1>3, SeqEqual
<1> QED
  BY <1>4 DEF t

\* runs.jsonl is the summaries recorded, or all but the one whose hook failed;
\* a checkpoint it is long enough for counts its first lines.
RunsWritten ==
    /\ \A i, j \in 1..Len(runsFile) : runsFile[i].index = runsFile[j].index => i = j
    /\ pc \notin Idle =>
          /\ ToSet(runsFile) \subseteq recorded
          /\ pc \in Clean => Len(runsFile) = completed
          /\ pc \in {"corpus", "record"} => Len(runsFile) + 1 = completed
          /\ pc \in Stopping => Len(runsFile) = completed \/ Len(runsFile) + 1 = completed
          /\ Len(runsFile) = completed \/ pc \in {"corpus", "record"} => ToSet(runsFile) = recorded
    /\ checkpointFile # None =>
          /\ pc \notin {"down"} => Len(runsFile) >= checkpointFile.completed
          /\ pc = "resuming" => Len(runsFile) = checkpointFile.completed
          /\ Len(runsFile) >= checkpointFile.completed =>
                FirstRuns(checkpointFile) = checkpointFile.recorded
    /\ pc = "end_event" => completed = Runs

\* Every step keeps runs.jsonl in line with the results.
LEMMA RunsStep ==
    ASSUME Typed, RunsDone, RunsWritten, [Next]_vars
    PROVE  RunsWritten'
<1>0. runsFile \in Seq(Summaries) /\ Len(runsFile) \in Nat /\ completed \in Nat
  BY LenProperties DEF Typed, DiskTyped, TasksTyped, Scheduled
<1>1. CASE UNCHANGED <<recorded, completed, checkpointFile, runsFile>>
           /\ \/ pc' = pc
              \/ pc \in Clean /\ pc' \in (Clean \ {"end_event"}) \cup Stopping
              \/ pc \in Stopping /\ pc' \in Stopping
              \/ pc = "corpus" /\ pc' \in {"record", "stop_event"}
              \/ pc = "loop" /\ completed = Runs /\ pc' = "end_event"
  <2>1. UNCHANGED ToSet(runsFile) /\ UNCHANGED Len(runsFile)
        /\ (checkpointFile # None => UNCHANGED FirstRuns(checkpointFile))
    BY <1>1 DEF ToSet, FirstRuns
  <2> QED
    BY <1>0, <1>1, <2>1 DEF RunsWritten, Idle, Stopping, Clean
<1>2. CASE Light
  BY <1>1, <1>2 DEF Light, schedule, accumulator
<1>3. CASE LaunchRerun \/ LaunchNew \/ Reseeded
  BY <1>1, <1>3 DEF LaunchRerun, LaunchNew, Reseeded, accumulator, disk
<1>4. CASE Mutated \/ Finish
  BY <1>1, <1>4 DEF Mutated, ReceiveMutation, Selecting, Finish, accumulator, disk, Clean
<1>5. CASE WriteCorpusEntry
  BY <1>1, <1>5 DEF WriteCorpusEntry, accumulator
<1>6. CASE Saved \/ Ends
  <2>1. runsFile' = runsFile /\ UNCHANGED ToSet(runsFile) /\ UNCHANGED Len(runsFile)
    BY <1>6 DEF Saved, Ends, ToSet
  <2>2. CASE checkpointFile' = checkpointFile /\ pc' = "down"
    <3>1. checkpointFile # None => UNCHANGED FirstRuns(checkpointFile)
      BY <2>1, <2>2 DEF FirstRuns
    <3> QED
      BY <2>1, <2>2, <3>1 DEF RunsWritten, Idle
  <2>3. CASE checkpointFile' = Checkpoint /\ pc \notin Idle
    <3>1. /\ checkpointFile'.completed = completed /\ checkpointFile'.recorded = recorded
          /\ FirstRuns(checkpointFile)' = ToSet(SubSeq(runsFile, 1, completed))
      BY <2>1, <2>3 DEF Checkpoint, FirstRuns, ToSet
    <3>2. Len(runsFile) <= completed
      BY <1>0, <2>3 DEF RunsWritten, Typed, Stages, Idle, Stopping, Clean
    <3>3. Len(runsFile) >= completed =>
            FirstRuns(checkpointFile)' = ToSet(runsFile) /\ ToSet(runsFile) = recorded
      <4>1. ASSUME Len(runsFile) >= completed
            PROVE  Len(runsFile) = completed
        BY <1>0, <3>2, <4>1
      <4>2. SubSeq(runsFile, 1, Len(runsFile)) = runsFile
        BY <1>0, SubSeqFull
      <4> QED
        BY <2>3, <3>1, <4>1, <4>2 DEF RunsWritten
    <3>4. \/ pc' = "down"
          \/ pc \in Clean /\ pc' = "loop" /\ UNCHANGED <<recorded, completed>>
      BY <1>6 DEF Saved, Ends, Exit, memory, schedule, accumulator
    <3>5. pc \in Clean => Len(runsFile) = completed /\ ToSet(runsFile) = recorded
      BY <2>3 DEF RunsWritten
    <3>6. CASE pc' = "down"
      BY <2>1, <3>1, <3>3, <3>6 DEF RunsWritten, Idle
    <3>7. CASE pc \in Clean /\ pc' = "loop" /\ UNCHANGED <<recorded, completed>>
      BY <1>0, <2>1, <3>1, <3>3, <3>5, <3>7 DEF RunsWritten, Idle, Clean, Stopping
    <3> QED
      BY <3>4, <3>6, <3>7
  <2> QED
    BY <1>6, <2>2, <2>3 DEF Saved, Ends, Exit, Idle, Stopping, Clean
<1>7. CASE Received
  <2>1. /\ completed' = completed + 1 /\ UNCHANGED <<recorded, checkpointFile, runsFile>>
        /\ pc = "loop" /\ pc' \in {"corpus", "record"}
    BY <1>7 DEF Received, ReceiveExecution, CountExecution, Selecting, disk
  <2>2. UNCHANGED ToSet(runsFile) /\ UNCHANGED Len(runsFile)
        /\ (checkpointFile # None => UNCHANGED FirstRuns(checkpointFile))
    BY <2>1 DEF ToSet, FirstRuns
  <2> QED
    BY <1>0, <2>1, <2>2 DEF RunsWritten, Idle, Clean, Stopping
<1>8. CASE RecordRun
  <2>1. /\ recorded' = recorded \cup {current} /\ UNCHANGED <<completed, checkpointFile>>
        /\ pc = "record"
        /\ \/ runsFile' = Append(runsFile, current) /\ pc' \in {"run_event", "stop_event"}
           \/ runsFile' = runsFile /\ pc' = "stop_event"
    BY <1>8 DEF RecordRun, schedule
  <2>2. current \in Summaries /\ current \in Results
    BY <2>1, ResultsTyped DEF Typed, ResultTyped
  <2>3. Len(runsFile) + 1 = completed /\ ToSet(runsFile) = recorded
    BY <2>1 DEF RunsWritten, Idle
  <2>4. CASE runsFile' = runsFile
    <3>1. UNCHANGED ToSet(runsFile) /\ UNCHANGED Len(runsFile)
          /\ (checkpointFile # None => UNCHANGED FirstRuns(checkpointFile))
      BY <2>1, <2>4 DEF ToSet, FirstRuns
    <3>2. pc' = "stop_event"
      <4>1. Append(runsFile, current) # runsFile
        <5>1. Len(Append(runsFile, current)) = Len(runsFile) + 1
          BY <1>0, <2>2, Appended
        <5> QED
          BY <1>0, <5>1
      <4> QED
        BY <2>1, <2>4, <4>1
    <3> QED
      BY <1>0, <2>1, <2>3, <3>1, <3>2, <2>4 DEF RunsWritten, Idle, Clean, Stopping
  <2>5. CASE runsFile' = Append(runsFile, current)
    <3>1. /\ Len(runsFile') = Len(runsFile) + 1 /\ runsFile'[Len(runsFile) + 1] = current
          /\ \A i \in 1..Len(runsFile) : runsFile'[i] = runsFile[i]
          /\ ToSet(runsFile') = ToSet(runsFile) \cup {current}
          /\ \A n \in Nat : n <= Len(runsFile) => SubSeq(runsFile', 1, n) = SubSeq(runsFile, 1, n)
      BY <1>0, <2>2, <2>5, Appended
    <3>2. ASSUME NEW i \in 1..Len(runsFile)
          PROVE  runsFile[i].index # current.index
      <4>1. runsFile[i] \in recorded
        <5>1. DOMAIN runsFile = 1..Len(runsFile)
          BY <1>0, LenProperties
        <5> QED
          BY <2>3, <5>1 DEF ToSet
      <4>2. current \notin recorded
        BY DEF RunsDone
      <4>3. recorded \subseteq Results
        BY DEF Results
      <4> QED
        BY <2>2, <4>1, <4>2, <4>3 DEF RunsDone, Done
    <3>3. \A i, j \in 1..Len(runsFile') : runsFile'[i].index = runsFile'[j].index => i = j
      <4>1. \A i \in 1..Len(runsFile') : i \in 1..Len(runsFile) \/ i = Len(runsFile) + 1
        BY <1>0, <3>1
      <4> QED
        BY <3>1, <3>2, <4>1 DEF RunsWritten
    <3>4. ASSUME checkpointFile # None
          PROVE  /\ Len(runsFile) >= checkpointFile.completed /\ checkpointFile.completed \in Nat
                 /\ FirstRuns(checkpointFile)' = FirstRuns(checkpointFile)
                 /\ FirstRuns(checkpointFile) = checkpointFile.recorded
      <4>1. /\ Len(runsFile) >= checkpointFile.completed /\ checkpointFile.completed \in Nat
            /\ FirstRuns(checkpointFile) = checkpointFile.recorded
        BY <2>1, <3>4 DEF RunsWritten, Typed, DiskTyped, Checkpoints
      <4>2. SubSeq(runsFile', 1, checkpointFile.completed)
              = SubSeq(runsFile, 1, checkpointFile.completed)
        BY <1>0, <3>1, <4>1
      <4> QED
        BY <2>1, <4>1, <4>2 DEF FirstRuns, ToSet
    <3>5. Len(runsFile') = completed' /\ ToSet(runsFile') = recorded'
      BY <2>1, <2>3, <3>1
    <3>6. ToSet(runsFile)' = ToSet(runsFile')
      BY DEF ToSet
    <3> QED
      BY <1>0, <2>1, <3>1, <3>3, <3>4, <3>5, <3>6 DEF RunsWritten, Idle, Clean, Stopping
  <2> QED
    BY <2>1, <2>4, <2>5
<1>9. CASE ResumeRuns
  <2> DEFINE n == checkpointFile.completed
  <2>1. /\ checkpointFile' = checkpointFile /\ checkpointFile # None /\ n \in Nat
        /\ Len(runsFile) >= n /\ runsFile' = SubSeq(runsFile, 1, n) /\ pc' = "resuming"
    BY <1>9 DEF ResumeRuns, Truncated, Typed, DiskTyped, Checkpoints
  <2>2. /\ runsFile' \in Seq(Summaries) /\ Len(runsFile') = n
        /\ \A i \in 1..n : runsFile'[i] = runsFile[i]
    BY <1>0, <2>1, FirstElements
  <2>3. \A i \in 1..n : i \in 1..Len(runsFile)
    BY <1>0, <2>1
  <2>4. FirstRuns(checkpointFile)' = ToSet(SubSeq(runsFile', 1, n)) /\ SubSeq(runsFile', 1, n) = runsFile'
    BY <2>1, <2>2, SubSeqFull DEF FirstRuns, ToSet
  <2>5. ToSet(runsFile') = FirstRuns(checkpointFile)
    BY <2>1 DEF FirstRuns
  <2>6. \A i, j \in 1..Len(runsFile') : runsFile'[i].index = runsFile'[j].index => i = j
    BY <2>2, <2>3 DEF RunsWritten
  <2>7. FirstRuns(checkpointFile) = checkpointFile.recorded
    BY <2>1 DEF RunsWritten
  <2>8. FirstRuns(checkpointFile)' = checkpointFile'.recorded
    BY <2>1, <2>4, <2>5, <2>7
  <2> HIDE DEF n
  <2>9. Len(runsFile') >= n
    BY <2>1, <2>2
  <2> QED
    BY <2>1, <2>2, <2>6, <2>8, <2>9 DEF RunsWritten, Idle, n
<1>10. CASE ResumeLoop
  <2>1. /\ completed' = checkpointFile.completed /\ recorded' = checkpointFile.recorded
        /\ UNCHANGED <<checkpointFile, runsFile>> /\ pc = "resuming" /\ pc' = "opened"
        /\ checkpointFile # None
    BY <1>10, ResumedCorpus DEF ResumeLoop
  <2>2. UNCHANGED ToSet(runsFile) /\ UNCHANGED Len(runsFile) /\ UNCHANGED FirstRuns(checkpointFile)
    BY <2>1 DEF ToSet, FirstRuns
  <2>3. /\ Len(runsFile) = checkpointFile.completed
        /\ FirstRuns(checkpointFile) = checkpointFile.recorded
    BY <1>0, <2>1 DEF RunsWritten
  <2>4. FirstRuns(checkpointFile) = ToSet(runsFile)
    <3>1. SubSeq(runsFile, 1, Len(runsFile)) = runsFile
      BY <1>0, SubSeqFull
    <3> QED
      BY <2>3, <3>1 DEF FirstRuns
  <2> QED
    BY <1>0, <2>1, <2>2, <2>3, <2>4 DEF RunsWritten, Idle, Clean, Stopping
<1> QED
  BY Steps, <1>2, <1>3, <1>4, <1>5, <1>6, <1>7, <1>8, <1>9, <1>10

\* The entries of a corpus are numbered, covered by it, and disjoint.
LEMMA ConsiderRestores ==
    ASSUME corpus \in Corpora, Restores(corpus.coverage, corpus.semantic, corpus.entries),
           NEW states \in Visits, NEW run \in Indices
    PROVE  LET next == Consider(corpus, states, run) IN
           /\ Restores(next.coverage, next.semantic, next.entries)
           /\ IF Retains(corpus, states)
              THEN /\ next.entries = Append(corpus.entries, EntryFor(corpus, states, run))
                   /\ Front(next.entries) = corpus.entries
              ELSE next.entries = corpus.entries
<1> DEFINE e == EntryFor(corpus, states, run)
           s == corpus.entries
           n == Len(s)
           next == Consider(corpus, states, run)
<1>1. /\ s \in Seq(Entries) /\ n \in Nat /\ DOMAIN s = 1..n /\ s \in [1..n -> Entries]
  BY LenProperties DEF Corpora
<1>2. /\ e.id = n /\ e.newStates = states \ corpus.coverage
      /\ e.newSemantic = Projected(states) \ corpus.semantic
  BY DEF EntryFor, NewStates, NewSemantic
<1>3. /\ next.coverage = corpus.coverage \cup states
      /\ next.semantic = corpus.semantic \cup Projected(states)
      /\ next.entries = IF Retains(corpus, states) THEN Append(s, e) ELSE s
  BY DEF Consider
<1>4. e \in Entries
  <2>1. run \in Nat
    BY Settings DEF Indices
  <2>2. /\ NewStates(corpus, states) \in SUBSET ModelStates
        /\ NewSemantic(corpus, states) \in SUBSET SemanticKeys
    BY NoveltyTyped
  <2> QED
    BY <1>1, <2>1, <2>2 DEF EntryFor, Entries
<1> HIDE DEF e, next
<1>5. CASE ~Retains(corpus, states)
  BY <1>3, <1>5 DEF Restores, next
<1>6. CASE Retains(corpus, states)
  <2> DEFINE t == Append(s, e)
  <2>1. /\ t \in Seq(Entries) /\ Len(t) = n + 1 /\ t[n + 1] = e /\ \A i \in 1..n : t[i] = s[i]
        /\ Front(t) = s
    BY <1>1, <1>4, Appended
  <2>2. DOMAIN t = 1..(n + 1)
    BY <2>1, LenProperties
  <2>3. next.entries = t
    BY <1>3, <1>6
  <2>4. \A i \in 1..(n + 1) : i \in 1..n \/ i = n + 1
    BY <1>1
  <2>5. \A i \in 1..n : /\ s[i].id = i - 1 /\ s[i].newStates \subseteq corpus.coverage
                        /\ s[i].newSemantic \subseteq corpus.semantic
    BY <1>1 DEF Restores
  <2>6. \A i, j \in 1..n : i # j =>
          /\ s[i].newStates \cap s[j].newStates = {}
          /\ s[i].newSemantic \cap s[j].newSemantic = {}
    BY <1>1 DEF Restores
  <2> HIDE DEF s, t, n
  <2>7. \A i \in 1..(n + 1) : /\ t[i].id = i - 1 /\ t[i].newStates \subseteq next.coverage
                              /\ t[i].newSemantic \subseteq next.semantic
    <3> SUFFICES ASSUME NEW i \in 1..(n + 1)
                 PROVE  /\ t[i].id = i - 1 /\ t[i].newStates \subseteq next.coverage
                        /\ t[i].newSemantic \subseteq next.semantic
      OBVIOUS
    <3>1. CASE i \in 1..n
      BY <1>3, <2>1, <2>5, <3>1
    <3>2. CASE i = n + 1
      <4>1. (n + 1) - 1 = n
        BY <1>1
      <4> QED
        BY <1>2, <1>3, <2>1, <3>2, <4>1
    <3> QED
      BY <2>4, <3>1, <3>2
  <2>8. \A i, j \in 1..(n + 1) : i # j =>
          /\ t[i].newStates \cap t[j].newStates = {}
          /\ t[i].newSemantic \cap t[j].newSemantic = {}
    <3>1. \A i \in 1..n : /\ t[i].newStates \cap e.newStates = {}
                          /\ t[i].newSemantic \cap e.newSemantic = {}
      BY <1>2, <2>1, <2>5
    <3> QED
      BY <2>1, <2>4, <2>6, <3>1
  <2> QED
    BY <1>6, <2>1, <2>2, <2>3, <2>7, <2>8 DEF Restores, s, t, next, e
<1> QED
  BY <1>5, <1>6

\* Withdrawing the entry just considered leaves the entries before it restorable.
LEMMA RollbackRestores ==
    ASSUME corpus \in Corpora, corpus.entries # <<>>,
           Restores(corpus.coverage, corpus.semantic, corpus.entries)
    PROVE  LET next == RollbackLast(corpus) IN
           Restores(next.coverage, next.semantic, next.entries)
<1> DEFINE s == corpus.entries
           n == Len(s)
           next == RollbackLast(corpus)
<1>1. /\ s \in Seq(Entries) /\ n \in Nat /\ n > 0 /\ Last(s) = s[n] /\ DOMAIN s = 1..n
      /\ Front(s) \in Seq(Entries) /\ Len(Front(s)) = n - 1
      /\ \A i \in 1..(n - 1) : Front(s)[i] = s[i]
  BY LenProperties, LastElement DEF Corpora
<1>2. DOMAIN Front(s) = 1..(n - 1)
  BY <1>1, LenProperties
<1>3. /\ next.coverage = corpus.coverage \ Last(s).newStates
      /\ next.semantic = corpus.semantic \ Last(s).newSemantic
      /\ next.entries = Front(s)
  BY DEF RollbackLast
<1>4. \A i \in 1..(n - 1) : i \in 1..n /\ i # n
  BY <1>1
<1>5. n \in 1..n
  BY <1>1
<1>6. \A i \in 1..n : /\ s[i].id = i - 1 /\ s[i].newStates \subseteq corpus.coverage
                      /\ s[i].newSemantic \subseteq corpus.semantic
  BY <1>1 DEF Restores
<1>7. \A i, j \in 1..n : i # j =>
        /\ s[i].newStates \cap s[j].newStates = {}
        /\ s[i].newSemantic \cap s[j].newSemantic = {}
  BY <1>1 DEF Restores
<1> HIDE DEF s, n, next
<1>8. \A i \in 1..(n - 1) : /\ Front(s)[i].id = i - 1 /\ Front(s)[i].newStates \subseteq next.coverage
                            /\ Front(s)[i].newSemantic \subseteq next.semantic
  BY <1>1, <1>3, <1>4, <1>5, <1>6, <1>7
<1>9. \A i, j \in 1..(n - 1) : i # j =>
        /\ Front(s)[i].newStates \cap Front(s)[j].newStates = {}
        /\ Front(s)[i].newSemantic \cap Front(s)[j].newSemantic = {}
  BY <1>1, <1>4, <1>7
<1> QED
  BY <1>2, <1>3, <1>8, <1>9 DEF Restores, next

\* corpus.jsonl holds the entries of the corpus, before the last is written
\* without it; after a hook that failed it may hold the one withdrawn.
EntriesWritten ==
    /\ \A i \in 1..Len(corpusFile) : corpusFile[i].id = i - 1
    /\ Restores(corpus.coverage, corpus.semantic, corpus.entries)
    /\ pc = "corpus" => corpusFile = Front(corpus.entries)
    /\ pc \notin Idle \cup Stopping \cup {"corpus"} => corpusFile = corpus.entries
    /\ pc \in Stopping => \/ corpusFile = corpus.entries
                          \/ corpusFile # <<>> /\ Front(corpusFile) = corpus.entries
    /\ checkpointFile # None =>
          /\ checkpointFile.entryCount <= Len(corpusFile)
          /\ Restores(checkpointFile.coverage, checkpointFile.semantic,
                      FirstEntries(checkpointFile))

\* Every step keeps corpus.jsonl in line with the corpus.
LEMMA EntriesStep ==
    ASSUME Typed, EntriesWritten, [Next]_vars
    PROVE  EntriesWritten'
<1>0. /\ corpusFile \in Seq(Entries) /\ Len(corpusFile) \in Nat /\ corpus \in Corpora
      /\ corpus.entries \in Seq(Entries) /\ Len(corpus.entries) \in Nat
  BY LenProperties DEF Typed, DiskTyped, ResultTyped, Corpora
<1>1. CASE UNCHANGED <<corpus, checkpointFile, corpusFile>>
           /\ \/ pc' = pc \/ pc' = "down" \/ pc' = "resuming"
              \/ pc \in Clean \cup {"record"} /\ pc' \in Clean \cup {"record"} \cup Stopping
              \/ pc \in Stopping /\ pc' \in Stopping
  <2>1. /\ UNCHANGED Front(corpus.entries) /\ UNCHANGED Front(corpusFile)
        /\ UNCHANGED Len(corpusFile)
        /\ UNCHANGED Restores(corpus.coverage, corpus.semantic, corpus.entries)
        /\ (checkpointFile # None =>
              UNCHANGED Restores(checkpointFile.coverage, checkpointFile.semantic,
                                 FirstEntries(checkpointFile)))
    BY <1>1 DEF Restores, FirstEntries, Front
  <2> QED
    BY <1>1, <2>1 DEF EntriesWritten, Idle, Stopping, Clean
<1>2. CASE Light
  BY <1>1, <1>2 DEF Light
<1>3. CASE LaunchRerun \/ LaunchNew \/ Reseeded
  BY <1>1, <1>3 DEF LaunchRerun, LaunchNew, Reseeded, disk
<1>4. CASE Mutated \/ Finish
  BY <1>1, <1>4 DEF Mutated, ReceiveMutation, Selecting, Finish, disk, Clean
<1>5. CASE RecordRun
  BY <1>1, <1>5 DEF RecordRun, Clean, Stopping
<1>6. CASE ResumeRuns
  BY <1>1, <1>6 DEF ResumeRuns, memory
<1>7. CASE Saved \/ Ends
  <2>1. UNCHANGED corpusFile /\ (Saved => UNCHANGED corpus /\ pc \in Clean /\ pc' = "loop")
        /\ (Ends => corpus' = EmptyCorpus /\ pc' = "down")
    BY <1>7 DEF Saved, Ends, Exit, memory
  <2>2. Restores(corpus.coverage, corpus.semantic, corpus.entries)'
    <3>1. Restores({}, {}, <<>>)
      BY DEF Restores
    <3> QED
      BY <1>7, <2>1, <3>1 DEF EntriesWritten, EmptyCorpus, Restores
  <2>3. checkpointFile' # None =>
          /\ checkpointFile'.entryCount <= Len(corpusFile')
          /\ Restores(checkpointFile'.coverage, checkpointFile'.semantic,
                      FirstEntries(checkpointFile)')
    <3>1. CASE checkpointFile' = checkpointFile
      <4>1. FirstEntries(checkpointFile)' = FirstEntries(checkpointFile)
        BY <2>1, <3>1 DEF FirstEntries
      <4> QED
        BY <2>1, <3>1, <4>1 DEF EntriesWritten
    <3>2. CASE checkpointFile' = Checkpoint /\ pc \in Clean \cup Stopping
      <4>1. /\ checkpointFile'.coverage = corpus.coverage
            /\ checkpointFile'.semantic = corpus.semantic
            /\ checkpointFile'.entryCount = Len(corpus.entries)
            /\ FirstEntries(checkpointFile)' = SubSeq(corpusFile, 1, Len(corpus.entries))
        BY <2>1, <3>2 DEF Checkpoint, FirstEntries
      <4>2. \/ corpusFile = corpus.entries
            \/ corpusFile # <<>> /\ Front(corpusFile) = corpus.entries
        BY <3>2 DEF EntriesWritten, Idle, Stopping, Clean
      <4>3. Len(corpus.entries) <= Len(corpusFile)
            /\ SubSeq(corpusFile, 1, Len(corpus.entries)) = corpus.entries
        <5>1. CASE corpusFile = corpus.entries
          BY <1>0, <5>1, SubSeqFull
        <5>2. CASE corpusFile # <<>> /\ Front(corpusFile) = corpus.entries
          <6>1. Len(corpus.entries) = Len(corpusFile) - 1
            BY <1>0, <5>2, LastElement
          <6>2. SubSeq(corpusFile, 1, Len(corpusFile) - 1) = corpus.entries
            BY <5>2 DEF Front
          <6> QED
            BY <1>0, <6>1, <6>2
        <5> QED
          BY <4>2, <5>1, <5>2
      <4> QED
        BY <2>1, <4>1, <4>3 DEF EntriesWritten
    <3> QED
      BY <1>7, <3>1, <3>2 DEF Saved, Ends
  <2>4. pc' = "loop" => corpusFile' = corpus'.entries
    BY <1>7, <2>1 DEF EntriesWritten, Idle, Stopping, Clean
  <2>5. pc' \in {"loop", "down"}
    BY <1>7, <2>1
  <2> QED
    BY <2>1, <2>2, <2>3, <2>4, <2>5 DEF EntriesWritten, Idle, Stopping, Clean
<1>8. CASE Received
  <2> SUFFICES ASSUME NEW task \in inFlight, NEW outcome \in Outcomes, NEW states \in Visits,
                      ReceiveExecution(task, outcome, states)
               PROVE  EntriesWritten'
    BY <1>8 DEF Received
  <2> DEFINE considered == outcome = "succeeded" /\ states # {}
  <2>1. task.index \in Indices
    BY DEF Typed, TasksTyped, Scheduled, Tasks
  <2>2. /\ pc = "loop"
        /\ pc' = (IF considered /\ Retains(corpus, states) THEN "corpus" ELSE "record")
        /\ corpus' = (IF considered THEN Consider(corpus, states, task.index) ELSE corpus)
        /\ UNCHANGED <<checkpointFile, corpusFile>>
    BY DEF ReceiveExecution, Selecting, disk
  <2>3. corpusFile = corpus.entries
    BY <2>2 DEF EntriesWritten, Idle, Stopping, Clean
  <2>4. /\ Restores(corpus.coverage, corpus.semantic, corpus.entries)'
        /\ IF considered /\ Retains(corpus, states)
           THEN Front(corpus'.entries) = corpus.entries ELSE corpus'.entries = corpus.entries
    <3>1. CASE considered
      BY <1>0, <2>1, <2>2, <3>1, ConsiderRestores DEF EntriesWritten
    <3>2. CASE ~considered
      BY <2>2, <3>2 DEF EntriesWritten
    <3> QED
      BY <3>1, <3>2
  <2>5. checkpointFile # None =>
          UNCHANGED Restores(checkpointFile.coverage, checkpointFile.semantic,
                             FirstEntries(checkpointFile))
    BY <2>2 DEF FirstEntries, Restores
  <2> HIDE DEF considered
  <2> QED
    BY <2>2, <2>3, <2>4, <2>5 DEF EntriesWritten, Idle, Stopping, Clean, Front
<1>9. CASE WriteCorpusEntry
  <2> DEFINE last == Last(corpus.entries)
  <2>1. /\ pc = "corpus" /\ UNCHANGED checkpointFile
        /\ \/ /\ corpusFile' = Append(corpusFile, last) /\ corpus' = corpus /\ pc' = "record"
           \/ /\ corpusFile' = corpusFile \/ corpusFile' = Append(corpusFile, last)
              /\ corpus' = RollbackLast(corpus) /\ pc' = "stop_event"
    BY <1>9 DEF WriteCorpusEntry
  <2>2. corpus.entries # <<>> /\ corpusFile = Front(corpus.entries)
    BY <2>1 DEF EntriesWritten, Typed, ResultTyped
  <2>3. /\ last = corpus.entries[Len(corpus.entries)] /\ last \in Entries
        /\ Len(corpusFile) = Len(corpus.entries) - 1 /\ Len(corpus.entries) > 0
    BY <1>0, <2>2, LastElement
  <2>4. /\ Append(corpusFile, last) = corpus.entries
        /\ Append(corpusFile, last) \in Seq(Entries)
        /\ Len(Append(corpusFile, last)) = Len(corpusFile) + 1
        /\ Append(corpusFile, last)[Len(corpusFile) + 1] = last
        /\ \A i \in 1..Len(corpusFile) : Append(corpusFile, last)[i] = corpusFile[i]
        /\ \A n \in Nat : n <= Len(corpusFile) =>
              SubSeq(Append(corpusFile, last), 1, n) = SubSeq(corpusFile, 1, n)
    BY <1>0, <2>2, <2>3, FrontAndLast, Appended
  <2>5. last.id = Len(corpusFile)
    <3>1. Len(corpus.entries) \in DOMAIN corpus.entries
      BY <1>0, <2>3, LenProperties
    <3>2. last.id = Len(corpus.entries) - 1
      BY <2>3, <3>1 DEF EntriesWritten, Restores
    <3> QED
      BY <2>3, <3>2
  <2>6. /\ \A i \in 1..Len(corpusFile') : corpusFile'[i].id = i - 1
        /\ Len(corpusFile') \in Nat /\ Len(corpusFile) <= Len(corpusFile')
    <3>1. CASE corpusFile' = corpusFile
      BY <1>0, <3>1 DEF EntriesWritten
    <3>2. CASE corpusFile' = Append(corpusFile, last)
      <4> DEFINE t == Append(corpusFile, last)
                 n == Len(corpusFile)
      <4>1. \A i \in 1..(n + 1) : i \in 1..n \/ i = n + 1
        BY <1>0
      <4>2. (n + 1) - 1 = n /\ n + 1 \in Nat /\ n <= n + 1
        BY <1>0
      <4>3. Len(t) = n + 1 /\ t[n + 1].id = n /\ \A i \in 1..n : t[i].id = i - 1
        BY <2>4, <2>5 DEF EntriesWritten
      <4> HIDE DEF n, t
      <4>4. \A i \in 1..(n + 1) : t[i].id = i - 1
        BY <4>1, <4>2, <4>3
      <4> QED
        BY <3>2, <4>2, <4>3, <4>4 DEF n, t
    <3> QED
      BY <2>1, <3>1, <3>2
  <2>7. Restores(corpus.coverage, corpus.semantic, corpus.entries)'
    BY <1>0, <2>1, <2>2, RollbackRestores DEF EntriesWritten
  <2>8. checkpointFile # None =>
          /\ checkpointFile.entryCount <= Len(corpusFile')
          /\ FirstEntries(checkpointFile)' = FirstEntries(checkpointFile)
    <3> SUFFICES ASSUME checkpointFile # None
                 PROVE  /\ checkpointFile.entryCount <= Len(corpusFile')
                        /\ FirstEntries(checkpointFile)' = FirstEntries(checkpointFile)
      OBVIOUS
    <3>1. checkpointFile.entryCount \in Nat /\ checkpointFile.entryCount <= Len(corpusFile)
      BY DEF EntriesWritten, Typed, DiskTyped, Checkpoints
    <3>2. SubSeq(corpusFile', 1, checkpointFile.entryCount)
            = SubSeq(corpusFile, 1, checkpointFile.entryCount)
      BY <2>1, <2>4, <3>1
    <3> QED
      BY <1>0, <2>1, <2>6, <3>1, <3>2 DEF FirstEntries
  <2>9. checkpointFile # None =>
          Restores(checkpointFile.coverage, checkpointFile.semantic, FirstEntries(checkpointFile))'
    BY <2>1, <2>8 DEF EntriesWritten
  <2>10. CASE pc' = "record" /\ corpusFile' = Append(corpusFile, last) /\ corpus' = corpus
    BY <2>1, <2>4, <2>6, <2>7, <2>8, <2>9, <2>10 DEF EntriesWritten, Stopping
  <2>11. CASE pc' = "stop_event" /\ corpus' = RollbackLast(corpus)
    <3>1. corpus'.entries = Front(corpus.entries)
      BY <2>11 DEF RollbackLast
    <3>2. \/ corpusFile' = corpus'.entries
          \/ corpusFile' # <<>> /\ Front(corpusFile') = corpus'.entries
      BY <2>1, <2>2, <2>4, <2>11, <3>1
    <3> QED
      BY <2>1, <2>6, <2>7, <2>8, <2>9, <2>11, <3>2 DEF EntriesWritten, Idle, Stopping, Front
  <2> QED
    BY <2>1, <2>10, <2>11
<1>10. CASE ResumeLoop
  <2>1. /\ checkpointFile \in Checkpoints /\ checkpointFile # None
        /\ checkpointFile.entryCount \in Nat
        /\ corpusFile' = FirstEntries(checkpointFile) /\ corpus'.entries = corpusFile'
        /\ corpusFile' \in Seq(Entries) /\ Len(corpusFile') = checkpointFile.entryCount
    BY <1>10, ResumedCorpus
  <2>2. /\ corpus'.coverage = checkpointFile.coverage /\ corpus'.semantic = checkpointFile.semantic
        /\ checkpointFile' = checkpointFile /\ pc' = "opened"
    BY <1>10 DEF ResumeLoop
  <2>3. FirstEntries(checkpointFile)' = corpusFile'
    <3>1. SubSeq(corpusFile', 1, Len(corpusFile')) = corpusFile'
      BY <2>1, SubSeqFull
    <3> QED
      BY <2>1, <2>2, <3>1 DEF FirstEntries
  <2>4. \A i \in 1..Len(corpusFile') : corpusFile'[i].id = i - 1
    <3>1. DOMAIN FirstEntries(checkpointFile) = 1..Len(corpusFile')
      BY <2>1, LenProperties
    <3> QED
      BY <2>1, <3>1 DEF EntriesWritten, Restores
  <2>5. Restores(checkpointFile.coverage, checkpointFile.semantic, corpusFile')
    BY <2>1 DEF EntriesWritten
  <2>6. Restores(corpus.coverage, corpus.semantic, corpus.entries)'
    BY <2>1, <2>2, <2>5 DEF Restores
  <2> QED
    BY <2>1, <2>2, <2>3, <2>4, <2>5, <2>6 DEF EntriesWritten, Idle, Stopping
<1> QED
  BY Steps, <1>2, <1>3, <1>4, <1>5, <1>6, <1>7, <1>8, <1>9, <1>10

Journaled == Typed /\ RunsDone /\ RunsWritten /\ EntriesWritten

\* A fresh experiment has empty journals.
LEMMA JournaledInit == Init => Journaled
<1> SUFFICES ASSUME Init PROVE Journaled
  OBVIOUS
<1>1. Results = {}
  BY DEF Init, Results
<1>2. RunsDone
  BY <1>1, NothingDone, FS_EmptySet DEF Init, RunsDone
<1>3. RunsWritten
  <2>1. ToSet(<<>>) = {} /\ Len(<<>>) = 0
    BY DEF ToSet
  <2> QED
    BY <2>1 DEF Init, RunsWritten, Idle, Stopping
<1>4. EntriesWritten
  <2>1. Restores({}, {}, <<>>)
    BY DEF Restores
  <2> QED
    BY <2>1 DEF Init, EntriesWritten, EmptyCorpus, Idle, Stopping
<1> QED
  BY <1>2, <1>3, <1>4, TypedInit DEF Journaled

\* Every step keeps the journals in line.
LEMMA JournaledStep ==
    ASSUME Journaled, [Next]_vars
    PROVE  Journaled'
  BY TypedStep, RunsDoneStep, RunsStep, EntriesStep DEF Journaled

\* Journals in line with the results have no index and no ID twice.
LEMMA JournaledUnique == Journaled => JournalsUnique
<1> SUFFICES ASSUME Journaled PROVE JournalsUnique
  OBVIOUS
<1>1. /\ runsFile \in Seq(Summaries) /\ Len(runsFile) \in Nat /\ DOMAIN runsFile = 1..Len(runsFile)
      /\ corpusFile \in Seq(Entries) /\ Len(corpusFile) \in Nat
      /\ DOMAIN corpusFile = 1..Len(corpusFile)
  BY LenProperties DEF Journaled, Typed, DiskTyped
<1> DEFINE f == [i \in DOMAIN runsFile |-> runsFile[i].index]
<1>2. IsInjective(f)
  BY <1>1 DEF Journaled, RunsWritten, IsInjective
<1>3. IsInjective([i \in DOMAIN corpusFile |-> corpusFile[i].id])
  <2>1. \A i, j \in 1..Len(corpusFile) : i - 1 = j - 1 => i = j
    BY <1>1
  <2> QED
    BY <1>1, <2>1 DEF Journaled, EntriesWritten, IsInjective
<1>4. ASSUME pc = "end_event"
      PROVE  {runsFile[i].index : i \in DOMAIN runsFile} = Indices
  <2>1. Len(runsFile) = Runs
    BY <1>4 DEF Journaled, RunsWritten, Idle, Clean
  <2>2. f \in [1..Runs -> Indices]
    <3>1. \A i \in 1..Len(runsFile) : runsFile[i] \in Summaries
      BY <1>1, LenProperties
    <3> QED
      BY <1>1, <2>1, <3>1 DEF Summaries
  <2>3. f \in Injection(1..Runs, Indices)
    <3> HIDE DEF f
    <3> QED
      BY <1>2, <2>2 DEF Injection
  <2>4. IsFiniteSet(Indices) /\ Cardinality(Indices) = Runs /\ Cardinality(1..Runs) = Runs
    <3>1. Runs - 1 \in Int /\ 0 \in Int /\ 1 \in Int /\ ~ (0 > Runs - 1) /\ ~ (1 > Runs)
          /\ (Runs - 1) - 0 + 1 = Runs /\ Runs - 1 + 1 = Runs
      BY Settings
    <3> QED
      BY <3>1, Settings, FS_Interval DEF Indices
  <2>5. f \in Surjection(1..Runs, Indices)
    <3> HIDE DEF f
    <3> QED
      BY <2>3, <2>4, FS_Injection
  <2>6. DOMAIN runsFile = 1..Runs /\ \A i \in 1..Runs : f[i] = runsFile[i].index
    BY <1>1, <2>1
  <2> HIDE DEF f
  <2> QED
    BY <2>2, <2>5, <2>6 DEF Surjection
<1> QED
  BY <1>2, <1>3, <1>4 DEF JournalsUnique

\* Crashes, retries and resumes put no run index twice into runs.jsonl and no ID
\* twice into corpus.jsonl, and an experiment that says it is complete has the
\* summary of every run.
THEOREM JournalsCorrect == Spec => []JournalsUnique
  BY JournaledInit, JournaledStep, JournaledUnique, PTL DEF Spec

-----------------------------------------------------------------------------
(* The candidates.                                                         *)

\* What each field of a checkpoint is.
LEMMA CheckpointFields ==
    /\ Checkpoint.ready = ready /\ Checkpoint.inFlight = rerun \cup inFlight
    /\ Checkpoint.pending = pending /\ Checkpoint.nextCandidateID = nextCandidateID
    /\ Checkpoint.nextRunIndex = nextRunIndex /\ Checkpoint.completed = completed
    /\ Checkpoint.nextRandomSeedAt = nextRandomSeedAt
    /\ Checkpoint.randomSeedsDue = randomSeedsDue /\ Checkpoint.coverage = corpus.coverage
    /\ Checkpoint.semantic = corpus.semantic /\ Checkpoint.entryCount = Len(corpus.entries)
    /\ Checkpoint.recorded = recorded /\ Checkpoint.report = report
  BY DEF Checkpoint

\* Every identity given out is queued, in flight, executed or counted as dropped.
Balanced(waiting, executing, done, next, r) ==
    done < Runs =>
        next - InitiallyLost = waiting + executing + done + r.discarded + r.admitted - r.generated

BalancedCheckpoint(c) ==
    Balanced(Len(c.ready), Cardinality(c.inFlight), c.completed, c.nextCandidateID, c.report)

CandidatesKept ==
    /\ pc \notin Idle => Balanced(Len(ready), Cardinality(rerun \cup inFlight), completed,
                                  nextCandidateID, report)
    /\ checkpointFile # None => BalancedCheckpoint(checkpointFile)

\* The numbers that are counted.
LEMMA CountsTyped ==
    ASSUME Typed
    PROVE  /\ Len(ready) \in Nat /\ Cardinality(rerun \cup inFlight) \in Nat
           /\ IsFiniteSet(rerun \cup inFlight)
           /\ completed \in Nat /\ nextRunIndex \in Nat /\ nextCandidateID \in Nat
           /\ InitiallyLost \in Nat
           /\ pc \notin Idle =>
                /\ report \in Reports /\ report.initial \in Nat /\ report.mutations \in Nat
                /\ report.random \in Nat /\ report.generated \in Nat /\ report.admitted \in Nat
                /\ report.discarded \in Nat /\ report.peak \in Nat
<1>1. Len(ready) \in Nat
  BY LenProperties DEF Typed, QueueTyped
<1>2. Cardinality(rerun \cup inFlight) \in Nat /\ IsFiniteSet(rerun \cup inFlight)
  BY FS_CardinalityType DEF Typed, TasksTyped, Scheduled
<1>3. InitiallyLost \in Nat
  BY Settings DEF InitiallyLost
<1> QED
  BY <1>1, <1>2, <1>3 DEF Typed, QueueTyped, TasksTyped, Scheduled, Reports

\* The new task of a launch, and what it leaves of the queue.
LEMMA Launched ==
    ASSUME Typed, LaunchNew
    PROVE  \E task \in Tasks :
              /\ task.index = nextRunIndex /\ task \notin rerun \cup inFlight
              /\ inFlight' = inFlight \cup {task} /\ rerun' = rerun
              /\ rerun' \cup inFlight' = (rerun \cup inFlight) \cup {task}
              /\ Cardinality(rerun' \cup inFlight') = Cardinality(rerun \cup inFlight) + 1
              /\ \/ /\ task.candidate.kind = "periodic_random" /\ ready' = ready
                    /\ nextCandidateID' = nextCandidateID + 1
                    /\ randomSeedsDue > 0 /\ randomSeedsDue' = randomSeedsDue - 1
                 \/ /\ ready # <<>> /\ ready' = Tail(ready) /\ task.candidate = Head(ready)
                    /\ Head(ready) \in Queued
                    /\ UNCHANGED <<nextCandidateID, randomSeedsDue>>
<1>1. nextRunIndex \in Indices
  BY Settings DEF LaunchNew, Launchable, Typed, TasksTyped, Scheduled, Indices
<1>2. ASSUME NEW task \in Tasks, task.index = nextRunIndex, inFlight' = inFlight \cup {task}
      PROVE  /\ task \notin rerun \cup inFlight /\ rerun' = rerun
             /\ rerun' \cup inFlight' = (rerun \cup inFlight) \cup {task}
             /\ Cardinality(rerun' \cup inFlight') = Cardinality(rerun \cup inFlight) + 1
  <2>1. nextRunIndex < Runs /\ rerun' = rerun
    BY DEF LaunchNew, Launchable
  <2>2. task \notin rerun \cup inFlight
    BY <1>2, <2>1, LaunchScheduled DEF Typed, TasksTyped
  <2>3. rerun' \cup inFlight' = (rerun \cup inFlight) \cup {task}
    BY <1>2, <2>1
  <2>4. Cardinality((rerun \cup inFlight) \cup {task}) = Cardinality(rerun \cup inFlight) + 1
    BY <2>2, CountsTyped, FS_AddElement
  <2> QED
    BY <2>1, <2>2, <2>3, <2>4
<1>3. CASE randomSeedsDue > 0
  <2> DEFINE seed == [index |-> nextRunIndex, candidate |-> Candidate("periodic_random")]
  <2>1. seed \in Tasks /\ seed.index = nextRunIndex /\ seed.candidate.kind = "periodic_random"
    BY <1>1 DEF Tasks, Candidate, Candidates, Typed, QueueTyped
  <2>2. /\ inFlight' = inFlight \cup {seed} /\ nextCandidateID' = nextCandidateID + 1
        /\ randomSeedsDue' = randomSeedsDue - 1 /\ ready' = ready
    BY <1>3 DEF LaunchNew, Typed, QueueTyped
  <2> HIDE DEF seed
  <2> QED
    BY <1>2, <1>3, <2>1, <2>2
<1>4. CASE ~(randomSeedsDue > 0)
  <2> DEFINE oldest == [index |-> nextRunIndex, candidate |-> Head(ready)]
  <2>1. /\ inFlight' = inFlight \cup {oldest} /\ ready' = Tail(ready) /\ ready # <<>>
        /\ UNCHANGED <<nextCandidateID, randomSeedsDue>>
    BY <1>4 DEF LaunchNew, Launchable
  <2>2. Head(ready) \in Queued /\ Head(ready) \in Candidates
    BY <2>1, HeadQueued DEF Typed, QueueTyped
  <2>3. oldest \in Tasks /\ oldest.index = nextRunIndex /\ oldest.candidate = Head(ready)
    BY <1>1, <2>2 DEF Tasks
  <2> HIDE DEF oldest
  <2> QED
    BY <1>2, <2>1, <2>2, <2>3
<1> QED
  BY <1>3, <1>4

\* The task that is done.
LEMMA ReceivedTask ==
    ASSUME Typed, NEW task, NEW outcome, NEW states, ReceiveExecution(task, outcome, states)
    PROVE  /\ task \in rerun \cup inFlight /\ task \in Tasks /\ rerun' = rerun
           /\ rerun' \cup inFlight' = (rerun \cup inFlight) \ {task}
           /\ Cardinality(rerun' \cup inFlight') = Cardinality(rerun \cup inFlight) - 1
           /\ completed' = completed + 1 /\ pc = "loop" /\ pc' \in {"corpus", "record"}
           /\ completed < Runs /\ UNCHANGED checkpointFile
<1>1. /\ task \in inFlight /\ inFlight' = inFlight \ {task} /\ rerun' = rerun
      /\ completed' = completed + 1 /\ pc = "loop" /\ pc' \in {"corpus", "record"}
      /\ completed < Runs /\ UNCHANGED checkpointFile
  BY DEF ReceiveExecution, CountExecution, Selecting, disk
<1>2. rerun' \cup inFlight' = (rerun \cup inFlight) \ {task}
  BY <1>1 DEF Typed, TasksTyped
<1>3. Cardinality((rerun \cup inFlight) \ {task}) = Cardinality(rerun \cup inFlight) - 1
  BY <1>1, CountsTyped, FS_RemoveElement
<1>4. task \in Tasks
  BY <1>1 DEF Typed, TasksTyped, Scheduled
<1> QED
  BY <1>1, <1>2, <1>3, <1>4

\* What a mutation result changes.
LEMMA MutationReceived ==
    ASSUME Typed, NEW plans \in 0..MaxMutationsPerCorpus, ReceiveMutation(plans)
    PROVE  /\ pc = "loop" /\ pc' = "mutation_event" /\ pending # <<>> /\ pending' = Tail(pending)
           /\ ready' \in Seq(Queued) /\ nextCandidateID' \in Nat /\ report' \in Reports
           /\ report'.generated = report.generated + plans
           /\ UNCHANGED <<report.initial, report.mutations, report.random>>
           /\ Peaked(Queue) => Peaked(Queue')
           /\ Uncounted(Queue') = Uncounted(Queue) - plans
           /\ MutationsIn(ready') + report.admitted <= MutationsIn(ready) + report'.admitted
           /\ UNCHANGED <<rerun, inFlight, nextRunIndex, completed, nextRandomSeedAt,
                          randomSeedsDue, corpus, recorded, current, disk>>
<1> DEFINE q == Admitted[plans]
<1>1. /\ pc = "loop" /\ pc' = "mutation_event" /\ pending # <<>> /\ pending' = Tail(pending)
      /\ ready' = q.ready /\ nextCandidateID' = q.nextID
      /\ report' = [report EXCEPT !.generated = @ + plans, !.admitted = q.admitted,
                                  !.discarded = q.discarded, !.peak = q.peak]
      /\ UNCHANGED <<rerun, inFlight, nextRunIndex, completed, nextRandomSeedAt,
                     randomSeedsDue, corpus, recorded, current, disk>>
  BY DEF ReceiveMutation, Selecting
<1>2. pc \notin Idle /\ report \in Reports /\ plans \in Nat
  BY <1>1, CountsTyped DEF Idle
<1>3. Queue \in Queues /\ Queue.ready = ready /\ Queue.admitted = report.admitted
  BY <1>2, QueueOfReports
<1>4. /\ q \in Queues /\ (Peaked(Queue) => Peaked(q))
      /\ Uncounted(q) = Uncounted(Queue) - plans
      /\ MutationsIn(q.ready) + Queue.admitted <= MutationsIn(Queue.ready) + q.admitted
  BY <1>2, <1>3, AdmittedProperties
<1> HIDE DEF q
<1>5. /\ q.ready \in Seq(Queued) /\ q.nextID \in Nat /\ q.admitted \in Nat /\ q.discarded \in Nat
      /\ q.peak \in Nat
      /\ q = [ready |-> q.ready, nextID |-> q.nextID, admitted |-> q.admitted,
              discarded |-> q.discarded, peak |-> q.peak]
  BY <1>4 DEF Queues
<1>6. [report EXCEPT !.generated = @ + plans, !.admitted = q.admitted,
                     !.discarded = q.discarded, !.peak = q.peak] \in Reports
  BY <1>2, <1>5, ReportOfQueue, Zenon
<1>7. /\ report'.generated = report.generated + plans /\ report'.admitted = q.admitted
      /\ report'.discarded = q.discarded /\ report'.peak = q.peak
      /\ UNCHANGED <<report.initial, report.mutations, report.random>>
  BY <1>1, <1>2 DEF Reports
<1>8. Queue' = q
  BY <1>1, <1>5, <1>7 DEF Queue
<1>9. ready' \in Seq(Queued) /\ nextCandidateID' \in Nat /\ report' \in Reports
  BY <1>1, <1>5, <1>6
<1>10. MutationsIn(ready') + report.admitted <= MutationsIn(ready) + report'.admitted
  BY <1>1, <1>3, <1>4, <1>7
<1> QED
  BY <1>1, <1>4, <1>7, <1>8, <1>9, <1>10

\* Every step accounts for each candidate.
LEMMA CandidatesStep ==
    ASSUME Typed, CandidatesKept, [Next]_vars
    PROVE  CandidatesKept'
<1>1. CASE UNCHANGED <<ready, rerun, inFlight, completed, nextCandidateID, report, checkpointFile>>
           /\ (pc' \in Idle \/ pc \notin Idle)
  BY <1>1 DEF CandidatesKept, Balanced, BalancedCheckpoint, InitiallyLost
<1>2. CASE Light
  BY <1>1, <1>2 DEF Light, schedule, accumulator, Idle, Stopping, Clean
<1>3. CASE WriteCorpusEntry
  BY <1>1, <1>3 DEF WriteCorpusEntry, accumulator, Idle
<1>4. CASE ResumeRuns
  BY <1>1, <1>4 DEF ResumeRuns, memory, schedule, accumulator, Idle
<1>5. CASE UNCHANGED <<ready, completed, nextCandidateID, report, checkpointFile>>
           /\ rerun' \cup inFlight' = rerun \cup inFlight /\ pc \notin Idle
  BY <1>5 DEF CandidatesKept, Balanced, BalancedCheckpoint, InitiallyLost
<1>6. CASE LaunchRerun
  BY <1>5, <1>6 DEF LaunchRerun, FreeSlot, accumulator, disk, Idle
<1>7. CASE Saved \/ Ends
  <2>1. checkpointFile' = checkpointFile \/ (checkpointFile' = Checkpoint /\ pc \notin Idle)
    BY <1>7 DEF Saved, Ends, Idle, Stopping, Clean
  <2>2. checkpointFile' # None => BalancedCheckpoint(checkpointFile')
    BY <2>1, CheckpointFields DEF CandidatesKept, BalancedCheckpoint
  <2>3. CASE Saved
    <3>1. UNCHANGED <<ready, rerun, inFlight, completed, nextCandidateID, report>> /\ pc \notin Idle
      BY <2>3 DEF Saved, memory, schedule, accumulator, Idle, Clean
    <3> QED
      BY <2>2, <3>1 DEF CandidatesKept, Balanced, BalancedCheckpoint, InitiallyLost
  <2>4. CASE Ends
    <3>1. pc' \in Idle
      BY <2>4 DEF Ends, Exit, Idle
    <3> QED
      BY <2>2, <3>1 DEF CandidatesKept, BalancedCheckpoint, Balanced, InitiallyLost
  <2> QED
    BY <1>7, <2>3, <2>4
<1>8. ASSUME UNCHANGED checkpointFile, pc \notin Idle,
             Balanced(Len(ready), Cardinality(rerun \cup inFlight), completed,
                      nextCandidateID, report)
                => Balanced(Len(ready'), Cardinality(rerun' \cup inFlight'), completed',
                            nextCandidateID', report')
      PROVE  CandidatesKept'
  BY <1>8 DEF CandidatesKept, Balanced, BalancedCheckpoint, InitiallyLost
<1> DEFINE waiting == Len(ready)
           executing == Cardinality(rerun \cup inFlight)
<1>9. CASE LaunchNew
  <2>1. pc \notin Idle /\ UNCHANGED <<completed, report, checkpointFile>>
    BY <1>9 DEF LaunchNew, FreeSlot, accumulator, disk, Idle
  <2>2. /\ executing' = executing + 1
        /\ \/ waiting' = waiting /\ nextCandidateID' = nextCandidateID + 1
           \/ waiting' = waiting - 1 /\ nextCandidateID' = nextCandidateID
    <3>1. ready # <<>> => Len(Tail(ready)) = Len(ready) - 1
      BY HeadTailProperties DEF Typed, QueueTyped
    <3> QED
      BY <1>9, <3>1, Launched
  <2>3. /\ waiting \in Nat /\ executing \in Nat /\ completed \in Nat /\ nextCandidateID \in Nat
        /\ InitiallyLost \in Nat /\ report.generated \in Nat /\ report.admitted \in Nat
        /\ report.discarded \in Nat
    BY <2>1, CountsTyped
  <2> HIDE DEF waiting, executing
  <2>4. Balanced(waiting, executing, completed, nextCandidateID, report)
          => Balanced(waiting', executing', completed', nextCandidateID', report')
    BY <2>1, <2>2, <2>3 DEF Balanced
  <2> QED
    BY <1>8, <2>1, <2>4 DEF waiting, executing
<1>10. CASE Received
  <2> SUFFICES ASSUME NEW task \in inFlight, NEW outcome \in Outcomes, NEW states \in Visits,
                      ReceiveExecution(task, outcome, states)
               PROVE  CandidatesKept'
    BY <1>10 DEF Received
  <2>1. /\ executing' = executing - 1 /\ completed' = completed + 1 /\ pc \notin Idle
        /\ UNCHANGED checkpointFile /\ completed < Runs
    BY ReceivedTask DEF Idle
  <2>2. UNCHANGED <<waiting, nextCandidateID>>
    BY DEF ReceiveExecution
  <2>3. UNCHANGED <<report.generated, report.admitted, report.discarded>>
    BY <2>1, CountsTyped DEF ReceiveExecution, Reports
  <2>4. /\ waiting \in Nat /\ executing \in Nat /\ completed \in Nat /\ nextCandidateID \in Nat
        /\ InitiallyLost \in Nat /\ report.generated \in Nat /\ report.admitted \in Nat
        /\ report.discarded \in Nat
    BY <2>1, CountsTyped
  <2> HIDE DEF waiting, executing
  <2>5. Balanced(waiting, executing, completed, nextCandidateID, report)
          => Balanced(waiting', executing', completed', nextCandidateID', report')
    BY <2>1, <2>2, <2>3, <2>4 DEF Balanced
  <2> QED
    BY <1>8, <2>1, <2>5 DEF waiting, executing
<1>11. CASE Reseeded
  <2>1. /\ nextCandidateID' = nextCandidateID + 1 /\ pc \notin Idle
        /\ ready = <<>> /\ ready' = <<Candidate("initial")>>
        /\ UNCHANGED <<rerun, inFlight, completed, report, checkpointFile>>
    BY <1>11 DEF Reseeded, Starved, accumulator, disk, Idle
  <2>2. waiting = 0 /\ waiting' = 1
    BY <2>1
  <2>3. /\ executing \in Nat /\ completed \in Nat /\ nextCandidateID \in Nat
        /\ InitiallyLost \in Nat /\ report.generated \in Nat /\ report.admitted \in Nat
        /\ report.discarded \in Nat
    BY <2>1, CountsTyped
  <2>4. executing' = executing
    BY <2>1
  <2> HIDE DEF waiting, executing
  <2>5. Balanced(waiting, executing, completed, nextCandidateID, report)
          => Balanced(waiting', executing', completed', nextCandidateID', report')
    BY <2>1, <2>2, <2>3, <2>4 DEF Balanced
  <2> QED
    BY <1>8, <2>1, <2>5 DEF waiting, executing
<1>12. CASE RecordRun
  <2>1. /\ pc \notin Idle /\ UNCHANGED <<ready, rerun, inFlight, completed, nextCandidateID,
                                        checkpointFile>>
    BY <1>12 DEF RecordRun, schedule, Idle
  <2>2. UNCHANGED <<report.generated, report.admitted, report.discarded>>
    BY <1>12, <2>1, CountsTyped DEF RecordRun, Reports
  <2>3. Balanced(Len(ready), Cardinality(rerun \cup inFlight), completed, nextCandidateID, report)
          => Balanced(Len(ready'), Cardinality(rerun' \cup inFlight'), completed',
                      nextCandidateID', report')
    BY <2>1, <2>2 DEF Balanced
  <2> QED
    BY <1>8, <2>1, <2>3
<1>13. CASE Mutated
  <2> SUFFICES ASSUME NEW plans \in 0..MaxMutationsPerCorpus, ReceiveMutation(plans)
               PROVE  CandidatesKept'
    BY <1>13 DEF Mutated
  <2>1. /\ pc \notin Idle /\ ready' \in Seq(Queued) /\ nextCandidateID' \in Nat
        /\ report' \in Reports /\ report'.generated = report.generated + plans
        /\ Uncounted(Queue') = Uncounted(Queue) - plans
        /\ UNCHANGED <<rerun, inFlight, completed, checkpointFile>>
    BY MutationReceived DEF disk, Idle
  <2>2. /\ waiting' \in Nat /\ report'.admitted \in Nat /\ report'.discarded \in Nat
    BY <2>1, LenProperties DEF Reports
  <2>3. /\ Uncounted(Queue) = nextCandidateID - waiting - report.discarded - report.admitted
        /\ Uncounted(Queue') = nextCandidateID' - waiting' - report'.discarded - report'.admitted
    BY DEF Uncounted, Queue
  <2>4. /\ waiting \in Nat /\ executing \in Nat /\ completed \in Nat /\ nextCandidateID \in Nat
        /\ InitiallyLost \in Nat /\ report.generated \in Nat /\ report.admitted \in Nat
        /\ report.discarded \in Nat /\ plans \in Nat
    BY <2>1, CountsTyped
  <2>5. executing' = executing
    BY <2>1
  <2> HIDE DEF waiting, executing
  <2>6. Balanced(waiting, executing, completed, nextCandidateID, report)
          => Balanced(waiting', executing', completed', nextCandidateID', report')
    <3>1. nextCandidateID' - waiting' - report'.discarded - report'.admitted
            = nextCandidateID - waiting - report.discarded - report.admitted - plans
      BY <2>1, <2>3
    <3>2. UNCHANGED InitiallyLost /\ completed' = completed
      BY <2>1 DEF InitiallyLost
    <3>3. executing' = executing /\ report'.generated = report.generated + plans
          /\ nextCandidateID' \in Nat
      BY <2>1, <2>5
    <3> SUFFICES ASSUME completed' < Runs,
                        Balanced(waiting, executing, completed, nextCandidateID, report)
                 PROVE  nextCandidateID' - InitiallyLost' =
                          waiting' + executing' + completed' + report'.discarded
                            + report'.admitted - report'.generated
      BY Zenon DEF Balanced
    <3>4. nextCandidateID - InitiallyLost =
            waiting + executing + completed + report.discarded + report.admitted
              - report.generated
      BY <3>2 DEF Balanced
    <3> QED
      BY <2>2, <2>4, <3>1, <3>2, <3>3, <3>4
  <2> QED
    BY <1>8, <2>1, <2>6 DEF waiting, executing
<1>14. CASE Finish
  <2>1. pc \notin Idle /\ completed' = Runs /\ UNCHANGED checkpointFile
    BY <1>14 DEF Finish, disk, Idle
  <2> QED
    BY <1>8, <2>1, Settings DEF Balanced
<1>15. CASE ResumeLoop
  <2>1. /\ UNCHANGED checkpointFile /\ checkpointFile # None
        /\ ready' = checkpointFile.ready /\ rerun' = checkpointFile.inFlight /\ inFlight' = {}
        /\ completed' = checkpointFile.completed
        /\ nextCandidateID' = checkpointFile.nextCandidateID /\ report' = checkpointFile.report
    BY <1>15, ResumedCorpus DEF ResumeLoop
  <2>2. rerun' \cup inFlight' = checkpointFile.inFlight
    BY <2>1
  <2>3. Balanced(Len(ready'), Cardinality(rerun' \cup inFlight'), completed', nextCandidateID',
                 report')
    BY <2>1, <2>2 DEF CandidatesKept, BalancedCheckpoint
  <2> QED
    BY <2>1, <2>3 DEF CandidatesKept, BalancedCheckpoint, Balanced, InitiallyLost
<1> QED
  BY Steps, <1>2, <1>3, <1>4, <1>6, <1>7, <1>9, <1>10, <1>11, <1>12, <1>13, <1>14, <1>15

\* The initial population is accounted for.
LEMMA CandidatesInit == Init => CandidatesKept
<1> SUFFICES ASSUME Init PROVE CandidatesKept
  OBVIOUS
<1>1. Cardinality(rerun \cup inFlight) = 0
  BY FS_EmptySet DEF Init
<1>2. Len(ready) = InitialPopulation - InitiallyLost /\ InitiallyLost \in Nat
  BY InitialQueue, Settings DEF InitiallyLost
<1>3. /\ report.generated = 0 /\ report.admitted = 0 /\ report.discarded = 0 /\ completed = 0
      /\ nextCandidateID = InitialPopulation /\ checkpointFile = None
  BY DEF Init
<1> QED
  BY <1>1, <1>2, <1>3, Settings DEF CandidatesKept, Balanced

\* No candidate is lost or duplicated: every ID given out is waiting, in flight,
\* executed, or counted as dropped from the queue.
THEOREM CandidatesCorrect == Spec => []CandidatesConserved
<1>1. Init => Typed /\ CandidatesKept
  BY TypedInit, CandidatesInit
<1>2. Typed /\ CandidatesKept /\ [Next]_vars => Typed' /\ CandidatesKept'
  BY TypedStep, CandidatesStep
<1>3. Typed /\ CandidatesKept => CandidatesConserved
  <2> SUFFICES ASSUME Typed, CandidatesKept, report # None, completed < Runs
               PROVE  nextCandidateID - InitiallyLost =
                         Len(ready) + Cardinality(rerun \cup inFlight) + completed
                           + (report.discarded - (report.generated - report.admitted))
    BY DEF CandidatesConserved
  <2>1. pc \notin Idle
    BY DEF Typed, QueueTyped
  <2> QED
    BY <2>1, CountsTyped, SMTT(30) DEF CandidatesKept, Balanced
<1> QED
  BY <1>1, <1>2, <1>3, PTL DEF Spec

-----------------------------------------------------------------------------
(* What each run covered first.                                            *)

\* Every key covered is new in one of the results, and in one only.
Attributed(coverage, semantic, results) ==
    /\ coverage = UNION {run.newStates : run \in results}
    /\ semantic = UNION {run.newSemantic : run \in results}
    /\ \A a, b \in results : a # b =>
          a.newStates \cap b.newStates = {} /\ a.newSemantic \cap b.newSemantic = {}

\* After a failed write the entry is withdrawn and its run not recorded: the
\* checkpoint that is left lacks a result, and no resume takes it.
CoverageAttributed ==
    /\ pc \notin Idle /\ (pc \in Stopping => current = None) =>
          Attributed(corpus.coverage, corpus.semantic, Results)
    /\ checkpointFile # None /\ Cardinality(checkpointFile.recorded) = checkpointFile.completed =>
          Attributed(checkpointFile.coverage, checkpointFile.semantic, checkpointFile.recorded)

\* The results of a checkpoint that has as many as completed executions.
LEMMA NoneMissing ==
    ASSUME Typed, RunsDone, Cardinality(recorded) = completed
    PROVE  current = None
<1> SUFFICES ASSUME current # None PROVE FALSE
  OBVIOUS
<1>1. recorded \in SUBSET Results /\ current \in Results
  BY DEF Results
<1>2. IsFiniteSet(Results) /\ Cardinality(Results) = Cardinality(recorded)
  BY DEF RunsDone, Done
<1>3. recorded = Results
  BY <1>1, <1>2, FS_Subset
<1> QED
  BY <1>1, <1>3 DEF RunsDone

\* With as many results recorded as done, none is being recorded.
LEMMA NoneRecorded ==
    ASSUME Typed, current = None
    PROVE  Results = recorded
  BY DEF Results

\* The result of an execution takes what is new and nothing else.
LEMMA NewlyAttributed ==
    ASSUME NEW coverage, NEW semantic, NEW results, Attributed(coverage, semantic, results),
           NEW run, NEW states, NEW keys,
           run.newStates = states \ coverage, run.newSemantic = keys \ semantic
    PROVE  Attributed(coverage \cup states, semantic \cup keys, results \cup {run})
<1>1. /\ UNION {r.newStates : r \in results \cup {run}}
            = (UNION {r.newStates : r \in results}) \cup run.newStates
      /\ UNION {r.newSemantic : r \in results \cup {run}}
            = (UNION {r.newSemantic : r \in results}) \cup run.newSemantic
  OBVIOUS
<1>2. \A r \in results : r.newStates \subseteq coverage /\ r.newSemantic \subseteq semantic
  BY DEF Attributed
<1>3. \A a, b \in results \cup {run} : a # b =>
          a.newStates \cap b.newStates = {} /\ a.newSemantic \cap b.newSemantic = {}
  BY <1>2 DEF Attributed
<1> QED
  BY <1>1, <1>3 DEF Attributed

\* Nothing covered is attributed to nothing.
LEMMA NothingAttributed ==
    ASSUME NEW coverage, NEW semantic, NEW results, Attributed(coverage, semantic, results),
           NEW run, run.newStates = {}, run.newSemantic = {}
    PROVE  Attributed(coverage, semantic, results \cup {run})
<1>1. /\ run.newStates = {} \ coverage /\ run.newSemantic = {} \ semantic
      /\ coverage \cup {} = coverage /\ semantic \cup {} = semantic
  OBVIOUS
<1>2. Attributed(coverage \cup {}, semantic \cup {}, results \cup {run})
  BY <1>1, NewlyAttributed
<1> QED
  BY <1>1, <1>2

\* Every step attributes what it covers to one result.
LEMMA CoverageStep ==
    ASSUME Typed, RunsDone, CoverageAttributed, [Next]_vars
    PROVE  CoverageAttributed'
<1>1. CASE UNCHANGED <<corpus, checkpointFile>> /\ Results' = Results
           /\ (pc' \notin Idle /\ (pc' \in Stopping => current' = None)
                 => pc \notin Idle /\ (pc \in Stopping => current = None))
  BY <1>1 DEF CoverageAttributed
<1>2. CASE Light
  <2>1. Results' = Results /\ UNCHANGED current
    BY <1>2 DEF Light, accumulator, Results
  <2>2. pc \in Clean => current = None
    BY DEF Typed, ResultTyped
  <2> QED
    BY <1>1, <1>2, <2>1, <2>2 DEF Light, Idle, Stopping, Clean
<1>3. CASE LaunchRerun \/ LaunchNew \/ Reseeded
  BY <1>1, <1>3 DEF LaunchRerun, LaunchNew, FreeSlot, Reseeded, accumulator, disk, Results, Idle,
                    Stopping
<1>4. CASE Mutated \/ Finish
  BY <1>1, <1>4 DEF Mutated, ReceiveMutation, Selecting, Finish, accumulator, disk, Results, Idle,
                    Stopping
<1>5. CASE ResumeRuns
  BY <1>1, <1>5 DEF ResumeRuns, memory, accumulator, Results, Idle
<1>6. CASE RecordRun
  <2>1. /\ UNCHANGED <<corpus, checkpointFile>> /\ pc = "record"
        /\ recorded' = recorded \cup {current} /\ current' = None
    BY <1>6 DEF RecordRun
  <2>2. Results' = Results
    <3>1. current # None /\ None \notin recorded
      BY <2>1, NoneAssumption DEF Typed, ResultTyped
    <3> QED
      BY <2>1, <3>1 DEF Results
  <2> QED
    BY <1>1, <2>1, <2>2 DEF Idle, Stopping
<1>7. CASE Saved \/ Ends
  <2>1. \/ checkpointFile' = checkpointFile
        \/ checkpointFile' = Checkpoint /\ pc \notin Idle
    BY <1>7 DEF Saved, Ends, Idle, Stopping, Clean
  <2>2. checkpointFile' # None /\ Cardinality(checkpointFile'.recorded) = checkpointFile'.completed
          => Attributed(checkpointFile'.coverage, checkpointFile'.semantic,
                        checkpointFile'.recorded)
    <3>1. CASE checkpointFile' = checkpointFile
      BY <3>1 DEF CoverageAttributed
    <3>2. CASE checkpointFile' = Checkpoint /\ pc \notin Idle
      BY <3>2, CheckpointFields, NoneMissing, NoneRecorded DEF CoverageAttributed
    <3> QED
      BY <2>1, <3>1, <3>2
  <2>3. \/ pc' \in Idle
        \/ UNCHANGED <<corpus, recorded, current>> /\ pc \in Clean
    BY <1>7 DEF Saved, Ends, Exit, memory, accumulator, Idle
  <2> QED
    BY <2>2, <2>3 DEF CoverageAttributed, Results, Idle, Stopping, Clean
<1>8. CASE Received
  <2> SUFFICES ASSUME NEW task \in inFlight, NEW outcome \in Outcomes, NEW states \in Visits,
                      ReceiveExecution(task, outcome, states)
               PROVE  CoverageAttributed'
    BY <1>8 DEF Received
  <2> DEFINE considered == outcome = "succeeded" /\ states # {}
  <2>1. /\ pc = "loop" /\ pc' \in {"corpus", "record"} /\ UNCHANGED <<recorded, checkpointFile>>
        /\ corpus' = (IF considered THEN Consider(corpus, states, task.index) ELSE corpus)
        /\ current'.newStates = (IF considered THEN NewStates(corpus, states) ELSE {})
        /\ current'.newSemantic = (IF considered THEN NewSemantic(corpus, states) ELSE {})
    BY DEF ReceiveExecution, Selecting, disk
  <2>2. current = None /\ current' # None
    BY <1>8, <2>1, ResultStep DEF Typed, ResultTyped, Clean
  <2>3. Results' = Results \cup {current'}
    BY <2>1, <2>2 DEF Results
  <2>4. Attributed(corpus.coverage, corpus.semantic, Results)
    BY <2>1 DEF CoverageAttributed, Idle, Stopping
  <2>5. Attributed(corpus'.coverage, corpus'.semantic, Results')
    <3>1. CASE considered
      <4>1. /\ corpus'.coverage = corpus.coverage \cup states
            /\ corpus'.semantic = corpus.semantic \cup Projected(states)
        BY <2>1, <3>1 DEF Consider
      <4>2. /\ current'.newStates = states \ corpus.coverage
            /\ current'.newSemantic = Projected(states) \ corpus.semantic
        BY <2>1, <3>1 DEF NewStates, NewSemantic
      <4>3. Attributed(corpus.coverage \cup states, corpus.semantic \cup Projected(states),
                       Results \cup {current'})
        BY <2>4, <4>2, NewlyAttributed
      <4> QED
        BY <2>3, <4>1, <4>3
    <3>2. CASE ~considered
      BY <2>1, <2>3, <2>4, <3>2, NothingAttributed
    <3> QED
      BY <3>1, <3>2
  <2> QED
    BY <2>1, <2>5 DEF CoverageAttributed
<1>9. CASE WriteCorpusEntry
  <2>1. /\ pc = "corpus" /\ UNCHANGED <<checkpointFile, recorded, current>>
        /\ \/ corpus' = corpus /\ pc' = "record"
           \/ pc' = "stop_event"
    BY <1>9 DEF WriteCorpusEntry, accumulator
  <2>2. current # None
    BY <2>1 DEF Typed, ResultTyped
  <2> QED
    BY <2>1, <2>2 DEF CoverageAttributed, Results, Idle, Stopping
<1>10. CASE ResumeLoop
  <2>1. /\ UNCHANGED <<checkpointFile, current>> /\ checkpointFile # None
        /\ recorded' = checkpointFile.recorded /\ pc = "resuming"
        /\ corpus'.coverage = checkpointFile.coverage
        /\ corpus'.semantic = checkpointFile.semantic
    BY <1>10, ResumedCorpus DEF ResumeLoop
  <2>2. current' = None
    BY <2>1 DEF Typed, ResultTyped, Idle
  <2>3. Results' = checkpointFile.recorded
    <3>1. None \notin checkpointFile.recorded
      BY <2>1, NoneAssumption DEF Typed, DiskTyped, Checkpoints
    <3> QED
      BY <2>1, <2>2, <3>1 DEF Results
  <2>4. Cardinality(checkpointFile.recorded) = checkpointFile.completed
    BY <2>1, ValidCounts DEF RunsDone
  <2> QED
    BY <2>1, <2>3, <2>4 DEF CoverageAttributed
<1> QED
  BY Steps, <1>2, <1>3, <1>4, <1>5, <1>6, <1>7, <1>8, <1>9, <1>10

\* Nothing is covered at first.
LEMMA CoverageInit == Init => CoverageAttributed
<1> SUFFICES ASSUME Init PROVE CoverageAttributed
  OBVIOUS
<1>1. Results = {} /\ corpus.coverage = {} /\ corpus.semantic = {} /\ checkpointFile = None
  BY DEF Init, Results, EmptyCorpus
<1>2. Attributed({}, {}, {})
  BY DEF Attributed
<1> QED
  BY <1>1, <1>2 DEF CoverageAttributed

\* A model state or semantic key is new in one recorded run only, and every key
\* covered is new in one of them, whatever the order in which executions complete
\* and however often the experiment is interrupted.
THEOREM CoverageCorrect == Spec => []CoverageAttributedOnce
<1>1. Init => Journaled /\ CoverageAttributed
  BY JournaledInit, CoverageInit
<1>2. Journaled /\ CoverageAttributed /\ [Next]_vars => Journaled' /\ CoverageAttributed'
  BY JournaledStep, CoverageStep DEF Journaled
<1>3. Journaled /\ CoverageAttributed => CoverageAttributedOnce
  BY NoneRecorded
     DEF Journaled, Typed, ResultTyped, CoverageAttributed, CoverageAttributedOnce, Attributed,
         Idle, Stopping, Clean
<1> QED
  BY <1>1, <1>2, <1>3, PTL DEF Spec

-----------------------------------------------------------------------------
(* The periodic seeds.                                                     *)

\* One more completed execution passes the threshold or stays below it.
LEMMA ThresholdPassed ==
    ASSUME NEW n \in Nat, NEW interval \in Nat, interval > 0
    PROVE  /\ n \div interval \in Nat /\ n < interval * (n \div interval + 1)
           /\ IF n + 1 >= interval * (n \div interval + 1)
              THEN (n + 1) \div interval = n \div interval + 1
              ELSE (n + 1) \div interval = n \div interval
<1> DEFINE q == n \div interval
<1>1. q \in Nat /\ interval * q <= n /\ n < interval * q + interval
  OBVIOUS
<1>2. interval * (q + 1) = interval * q + interval /\ interval * q \in Nat
  BY <1>1
<1>3. \A m, p \in Nat : interval * p <= m /\ m < interval * p + interval => m \div interval = p
  OBVIOUS
<1> HIDE DEF q
<1>4. CASE n + 1 >= interval * (q + 1)
  <2>1. interval * (q + 1) <= n + 1 /\ n + 1 < interval * (q + 1) + interval
    BY <1>1, <1>2, <1>4
  <2>2. (n + 1) \div interval = q + 1
    BY <1>1, <1>3, <2>1
  <2> QED
    BY <1>1, <1>2, <1>4, <2>2 DEF q
<1>5. CASE ~(n + 1 >= interval * (q + 1))
  <2>1. interval * q <= n + 1 /\ n + 1 < interval * q + interval
    BY <1>1, <1>2, <1>5
  <2>2. (n + 1) \div interval = q
    BY <1>1, <1>3, <2>1
  <2> QED
    BY <1>1, <1>2, <1>5, <2>2 DEF q
<1> QED
  BY <1>4, <1>5

IsSeed(x) == x.candidate.kind = "periodic_random"

\* The number of periodic seeds in a set that grows or shrinks by one.
LEMMA SeedsCounted ==
    ASSUME NEW set, IsFiniteSet(set), NEW x
    PROVE  /\ SeedsOf(set) \in Nat
           /\ x \notin set => SeedsOf(set \cup {x}) = SeedsOf(set) + IF IsSeed(x) THEN 1 ELSE 0
           /\ x \in set => SeedsOf(set \ {x}) = SeedsOf(set) - (IF IsSeed(x) THEN 1 ELSE 0)
<1> DEFINE S(T) == {y \in T : y.candidate.kind = "periodic_random"}
<1>1. \A T : SeedsOf(T) = Cardinality(S(T))
  BY DEF SeedsOf
<1>2. IsFiniteSet(S(set))
  <2>1. S(set) \in SUBSET set
    OBVIOUS
  <2> HIDE DEF S
  <2> QED
    BY <2>1, FS_Subset
<1>3. Cardinality(S(set)) \in Nat
  BY <1>2, FS_CardinalityType
<1>4. ASSUME x \notin set
      PROVE  Cardinality(S(set \cup {x})) = Cardinality(S(set)) + IF IsSeed(x) THEN 1 ELSE 0
  <2>1. x \notin S(set)
    BY <1>4
  <2>2. S(set \cup {x}) = IF IsSeed(x) THEN S(set) \cup {x} ELSE S(set)
    BY DEF IsSeed
  <2> HIDE DEF S
  <2> QED
    BY <1>2, <1>3, <2>1, <2>2, FS_AddElement
<1>5. ASSUME x \in set
      PROVE  Cardinality(S(set \ {x})) = Cardinality(S(set)) - (IF IsSeed(x) THEN 1 ELSE 0)
  <2>1. x \in S(set) <=> IsSeed(x)
    BY <1>5 DEF IsSeed
  <2>2. S(set \ {x}) = IF IsSeed(x) THEN S(set) \ {x} ELSE S(set)
    BY DEF IsSeed
  <2> HIDE DEF S
  <2>3. IsSeed(x) => Cardinality(S(set) \ {x}) = Cardinality(S(set)) - 1
    BY <1>2, <2>1, FS_RemoveElement
  <2>4. CASE IsSeed(x)
    BY <2>2, <2>3, <2>4
  <2>5. CASE ~IsSeed(x)
    BY <1>3, <2>2, <2>5
  <2> QED
    BY <2>4, <2>5
<1> QED
  BY <1>1, <1>3, <1>4, <1>5

\* The next threshold, and what is due below it.
Threshold(at, done) ==
    IF RandomSeedInterval = 0 THEN at = 0 ELSE at = RandomSeedInterval * (done \div RandomSeedInterval + 1)

Injected(due, seeds, done) ==
    /\ RandomSeedInterval = 0 => due = 0
    /\ RandomSeedInterval > 0 /\ done < Runs =>
          due + seeds = RandomSeedsPerInterval * (done \div RandomSeedInterval)

SeedsKept ==
    /\ pc \notin Idle =>
          /\ Threshold(nextRandomSeedAt, completed)
          /\ Injected(randomSeedsDue, SeedsOf(rerun \cup inFlight \cup Results), completed)
    /\ checkpointFile # None =>
          /\ Threshold(checkpointFile.nextRandomSeedAt, checkpointFile.completed)
          /\ RandomSeedInterval = 0 => checkpointFile.randomSeedsDue = 0
          /\ Cardinality(checkpointFile.recorded) = checkpointFile.completed =>
                Injected(checkpointFile.randomSeedsDue,
                         SeedsOf(checkpointFile.inFlight \cup checkpointFile.recorded),
                         checkpointFile.completed)

\* Every step accounts for each periodic seed.
LEMMA SeedsStep ==
    ASSUME Typed, RunsDone, SeedsKept, [Next]_vars
    PROVE  SeedsKept'
<1> DEFINE all == rerun \cup inFlight \cup Results
<1>0. /\ IsFiniteSet(all) /\ SeedsOf(all) \in Nat /\ completed \in Nat /\ randomSeedsDue \in Nat
      /\ nextRandomSeedAt \in Nat
  <2>1. IsFiniteSet(all)
    BY CountsTyped, FS_Union DEF RunsDone, Done
  <2> HIDE DEF all
  <2> QED
    BY <2>1, SeedsCounted, CountsTyped DEF Typed, QueueTyped
<1>1. CASE UNCHANGED <<completed, nextRandomSeedAt, randomSeedsDue, checkpointFile>>
           /\ all' = all /\ (pc' \in Idle \/ pc \notin Idle)
  BY <1>1 DEF SeedsKept, Threshold, Injected
<1>2. CASE Light
  BY <1>1, <1>2 DEF Light, schedule, accumulator, Results, Idle, Stopping, Clean
<1>3. CASE LaunchRerun \/ Reseeded
  BY <1>1, <1>3 DEF LaunchRerun, FreeSlot, Reseeded, accumulator, disk, Results, Idle
<1>4. CASE Mutated
  BY <1>1, <1>4 DEF Mutated, ReceiveMutation, Selecting, accumulator, disk, Results, Idle
<1>5. CASE WriteCorpusEntry
  BY <1>1, <1>5 DEF WriteCorpusEntry, accumulator, Results, Idle
<1>6. CASE ResumeRuns
  BY <1>1, <1>6 DEF ResumeRuns, memory, schedule, accumulator, Results, Idle
<1>7. CASE RecordRun
  <2>1. /\ UNCHANGED <<rerun, inFlight, completed, nextRandomSeedAt, randomSeedsDue, checkpointFile>>
        /\ recorded' = recorded \cup {current} /\ current' = None /\ pc = "record"
    BY <1>7 DEF RecordRun, schedule
  <2>2. current # None /\ None \notin recorded
    BY <2>1, NoneAssumption DEF Typed, ResultTyped
  <2>3. Results' = Results
    BY <2>1, <2>2 DEF Results
  <2> QED
    BY <1>1, <2>1, <2>3 DEF Idle
<1>8. CASE Saved \/ Ends
  <2>1. \/ checkpointFile' = checkpointFile
        \/ checkpointFile' = Checkpoint /\ pc \notin Idle
    BY <1>8 DEF Saved, Ends, Idle, Stopping, Clean
  <2> DEFINE Kept(c) ==
          /\ Threshold(c.nextRandomSeedAt, c.completed)
          /\ RandomSeedInterval = 0 => c.randomSeedsDue = 0
          /\ Cardinality(c.recorded) = c.completed =>
                Injected(c.randomSeedsDue, SeedsOf(c.inFlight \cup c.recorded), c.completed)
  <2>2. pc \notin Idle => Kept(Checkpoint)
    <3> SUFFICES ASSUME pc \notin Idle PROVE Kept(Checkpoint)
      OBVIOUS
    <3>1. Threshold(nextRandomSeedAt, completed) /\ Injected(randomSeedsDue, SeedsOf(all), completed)
      BY DEF SeedsKept
    <3>2. RandomSeedInterval = 0 => randomSeedsDue = 0
      BY <3>1 DEF Injected
    <3>3. Cardinality(recorded) = completed => rerun \cup inFlight \cup recorded = all
      BY NoneMissing, NoneRecorded
    <3> HIDE DEF all
    <3> QED
      BY <3>1, <3>2, <3>3, CheckpointFields
  <2>3. checkpointFile' # None => Kept(checkpointFile')
    <3>1. checkpointFile # None => Kept(checkpointFile)
      BY DEF SeedsKept
    <3> HIDE DEF Kept
    <3> QED
      BY <2>1, <2>2, <3>1
  <2>4. \/ pc' \in Idle
        \/ /\ UNCHANGED <<rerun, inFlight, recorded, current, completed, nextRandomSeedAt,
                          randomSeedsDue>>
           /\ pc \in Clean
    BY <1>8 DEF Saved, Ends, Exit, memory, schedule, accumulator, Idle
  <2>5. pc' \notin Idle =>
          /\ Threshold(nextRandomSeedAt', completed')
          /\ Injected(randomSeedsDue', SeedsOf(all'), completed')
    <3>1. pc \in Clean => pc \notin Idle
      BY DEF Clean, Idle
    <3> QED
      BY <2>4, <3>1 DEF SeedsKept, Results
  <2> QED
    BY <2>3, <2>5 DEF SeedsKept, Threshold, Injected
<1>9. CASE LaunchNew
  <2>1. /\ UNCHANGED <<recorded, current, completed, nextRandomSeedAt, checkpointFile, pc>>
        /\ pc \notin Idle
    BY <1>9 DEF LaunchNew, FreeSlot, accumulator, disk, Idle
  <2>2. PICK task \in Tasks :
          /\ task.index = nextRunIndex /\ task \notin rerun \cup inFlight
          /\ rerun' \cup inFlight' = (rerun \cup inFlight) \cup {task}
          /\ \/ /\ IsSeed(task) /\ randomSeedsDue' = randomSeedsDue - 1 /\ randomSeedsDue > 0
             \/ ~IsSeed(task) /\ randomSeedsDue' = randomSeedsDue
    <3>1. \A q \in Queued : q.kind # "periodic_random"
      BY DEF Queued
    <3> QED
      BY <1>9, <3>1, Launched DEF IsSeed
  <2>3. task \notin all
    <3>1. task.index \in Nat
      BY Settings DEF Tasks, Indices
    <3> QED
      BY <2>2, <3>1 DEF RunsDone, Done
  <2>4. all' = all \cup {task}
    BY <2>1, <2>2 DEF Results
  <2> HIDE DEF all
  <2>5. SeedsOf(all') = SeedsOf(all) + IF IsSeed(task) THEN 1 ELSE 0
    BY <1>0, <2>3, <2>4, SeedsCounted
  <2> DEFINE seeds == SeedsOf(all)
             more == SeedsOf(all')
  <2>6. randomSeedsDue' + more = randomSeedsDue + seeds
        /\ (RandomSeedInterval = 0 => randomSeedsDue' = 0)
    <3>1. Injected(randomSeedsDue, seeds, completed)
      BY <2>1 DEF SeedsKept, all
    <3>2. RandomSeedInterval = 0 => randomSeedsDue = 0
      BY <3>1 DEF Injected
    <3>3. seeds \in Nat /\ more = seeds + IF IsSeed(task) THEN 1 ELSE 0
      BY <1>0, <2>5
    <3> HIDE DEF seeds, more
    <3> QED
      BY <1>0, <2>2, <3>2, <3>3
  <2>7. Injected(randomSeedsDue', SeedsOf(all'), completed')
    BY <2>1, <2>6 DEF SeedsKept, Injected, all
  <2> QED
    BY <2>1, <2>7 DEF SeedsKept, Threshold, Injected, all
<1>10. CASE Received
  <2> SUFFICES ASSUME NEW task \in inFlight, NEW outcome \in Outcomes, NEW states \in Visits,
                      ReceiveExecution(task, outcome, states)
               PROVE  SeedsKept'
    BY <1>10 DEF Received
  <2>1. /\ task \in rerun \cup inFlight /\ rerun' \cup inFlight' = (rerun \cup inFlight) \ {task}
        /\ completed' = completed + 1 /\ completed < Runs /\ pc \notin Idle
        /\ UNCHANGED checkpointFile
    BY ReceivedTask DEF Idle
  <2>2. current = None /\ current' # None
    BY <1>10, ReceivedTask, ResultStep DEF Typed, ResultTyped, Clean
  <2>3. /\ current'.index = task.index /\ current'.candidate = task.candidate
        /\ recorded' = recorded
    BY DEF ReceiveExecution
  <2>4. Results' = Results \cup {current'}
    BY <2>2, <2>3 DEF Results
  <2>5. /\ \A r \in Results : r.index # task.index
        /\ \A t \in (rerun \cup inFlight) \ {task} : t.index # task.index
    BY <2>1 DEF RunsDone, Done, Typed, TasksTyped, Scheduled
  <2>6. all' = (all \ {task}) \cup {current'} /\ task \in all /\ current' \notin all \ {task}
    BY <2>1, <2>3, <2>4, <2>5
  <2> HIDE DEF all
  <2>7. SeedsOf(all') = SeedsOf(all)
    <3>1. /\ SeedsOf(all \ {task}) = SeedsOf(all) - (IF IsSeed(task) THEN 1 ELSE 0)
          /\ IsFiniteSet(all \ {task})
      BY <1>0, <2>6, SeedsCounted, FS_RemoveElement
    <3>2. SeedsOf(all') = SeedsOf(all \ {task}) + IF IsSeed(current') THEN 1 ELSE 0
      BY <2>6, <3>1, SeedsCounted
    <3>3. IsSeed(current') <=> IsSeed(task)
      BY <2>3 DEF IsSeed
    <3> QED
      BY <1>0, <3>1, <3>2, <3>3
  <2>8. /\ Threshold(nextRandomSeedAt, completed)
        /\ Injected(randomSeedsDue, SeedsOf(all), completed)
    BY <2>1 DEF SeedsKept, all
  <2>9. /\ nextRandomSeedAt' = nextRandomSeedAt + IF RandomSeedReached THEN RandomSeedInterval ELSE 0
        /\ randomSeedsDue' = randomSeedsDue + IF RandomSeedReached THEN RandomSeedsPerInterval ELSE 0
    BY DEF ReceiveExecution, CountExecution
  <2>10. CASE RandomSeedInterval = 0
    <3>1. nextRandomSeedAt' = 0 /\ randomSeedsDue' = 0
      BY <2>8, <2>9, <2>10 DEF RandomSeedReached, Threshold, Injected
    <3> QED
      BY <2>1, <2>10, <3>1 DEF SeedsKept, Threshold, Injected, all
  <2>11. CASE RandomSeedInterval > 0
    <3> DEFINE q == completed \div RandomSeedInterval
               r == completed' \div RandomSeedInterval
               seeds == SeedsOf(all)
    <3>1. nextRandomSeedAt = RandomSeedInterval * (q + 1)
          /\ randomSeedsDue + seeds = RandomSeedsPerInterval * q
      BY <2>1, <2>8, <2>11 DEF Threshold, Injected
    <3>2. RandomSeedReached <=> completed + 1 >= RandomSeedInterval * (q + 1)
      BY <2>11, <3>1 DEF RandomSeedReached
    <3>3. q \in Nat /\ r = IF RandomSeedReached THEN q + 1 ELSE q
      BY <1>0, <2>1, <2>11, <3>2, ThresholdPassed, Settings
    <3>4. seeds \in Nat /\ seeds = SeedsOf(all')
      BY <1>0, <2>7
    <3> HIDE DEF q, r, seeds
    <3>5. \A n \in Nat : n * (q + 1) = n * q + n /\ n * q \in Nat /\ n * ((q + 1) + 1) = n * (q + 1) + n
      BY <3>3
    <3>6. /\ nextRandomSeedAt' = RandomSeedInterval * (r + 1)
          /\ randomSeedsDue' + seeds = RandomSeedsPerInterval * r
      <4>1. CASE RandomSeedReached
        <5>1. /\ nextRandomSeedAt' = RandomSeedInterval * (q + 1) + RandomSeedInterval
              /\ RandomSeedInterval * (q + 1) + RandomSeedInterval
                   = RandomSeedInterval * ((q + 1) + 1)
          BY <2>9, <3>1, <3>5, <4>1, Settings
        <5>2. /\ randomSeedsDue' + seeds = RandomSeedsPerInterval * q + RandomSeedsPerInterval
              /\ RandomSeedsPerInterval * q + RandomSeedsPerInterval
                   = RandomSeedsPerInterval * (q + 1)
          <6>1. randomSeedsDue' = randomSeedsDue + RandomSeedsPerInterval
            BY <2>9, <4>1
          <6>2. RandomSeedsPerInterval * (q + 1)
                   = RandomSeedsPerInterval * q + RandomSeedsPerInterval
            BY <3>5, Settings
          <6>3. RandomSeedsPerInterval \in Nat /\ RandomSeedsPerInterval * q \in Nat
            BY <3>5, Settings
          <6> QED
            BY <1>0, <3>1, <3>4, <6>1, <6>2, <6>3
        <5> QED
          BY <3>3, <4>1, <5>1, <5>2
      <4>2. CASE ~RandomSeedReached
        <5>1. nextRandomSeedAt' = nextRandomSeedAt /\ randomSeedsDue' = randomSeedsDue
          BY <1>0, <2>9, <4>2
        <5> QED
          BY <3>1, <3>3, <4>2, <5>1
      <4> QED
        BY <4>1, <4>2
    <3>7. Threshold(nextRandomSeedAt', completed')
      BY <2>11, <3>6 DEF Threshold, r
    <3>8. Injected(randomSeedsDue', SeedsOf(all'), completed')
      BY <2>11, <3>4, <3>6 DEF Injected, r
    <3> QED
      BY <2>1, <3>7, <3>8 DEF SeedsKept, Threshold, Injected, all
  <2> QED
    BY <2>10, <2>11, Settings
<1>11. CASE Finish
  <2>1. /\ pc \notin Idle /\ randomSeedsDue' = 0 /\ completed = Runs
        /\ UNCHANGED <<completed, nextRandomSeedAt, checkpointFile>>
    BY <1>11 DEF Finish, disk, Idle
  <2> QED
    BY <2>1, Settings DEF SeedsKept, Threshold, Injected
<1>12. CASE ResumeLoop
  <2>1. /\ UNCHANGED <<checkpointFile, current>> /\ checkpointFile # None
        /\ rerun' = checkpointFile.inFlight /\ inFlight' = {}
        /\ recorded' = checkpointFile.recorded /\ completed' = checkpointFile.completed
        /\ nextRandomSeedAt' = checkpointFile.nextRandomSeedAt
        /\ randomSeedsDue' = checkpointFile.randomSeedsDue /\ pc = "resuming"
    BY <1>12, ResumedCorpus DEF ResumeLoop
  <2>2. current' = None
    BY <2>1 DEF Typed, ResultTyped, Idle
  <2>3. all' = checkpointFile.inFlight \cup checkpointFile.recorded
    <3>1. None \notin checkpointFile.recorded
      BY <2>1, NoneAssumption DEF Typed, DiskTyped, Checkpoints
    <3> QED
      BY <2>1, <2>2, <3>1 DEF Results
  <2>4. Cardinality(checkpointFile.recorded) = checkpointFile.completed
    BY <2>1, ValidCounts DEF RunsDone
  <2> HIDE DEF all
  <2>5. /\ Threshold(nextRandomSeedAt', completed')
        /\ Injected(randomSeedsDue', SeedsOf(all'), completed')
    BY <2>1, <2>3, <2>4 DEF SeedsKept
  <2> QED
    BY <2>1, <2>5 DEF SeedsKept, Threshold, Injected, all
<1> QED
  BY Steps, <1>2, <1>3, <1>4, <1>5, <1>6, <1>7, <1>8, <1>9, <1>10, <1>11, <1>12

\* No seed is due at first.
LEMMA SeedsInit == Init => SeedsKept
<1> SUFFICES ASSUME Init PROVE SeedsKept
  OBVIOUS
<1>1. rerun \cup inFlight \cup Results = {}
  BY DEF Init, Results
<1>2. SeedsOf({}) = 0
  <2>1. {x \in {} : x.candidate.kind = "periodic_random"} = {}
    OBVIOUS
  <2> QED
    BY <2>1, FS_EmptySet DEF SeedsOf
<1>3. /\ completed = 0 /\ nextRandomSeedAt = RandomSeedInterval /\ randomSeedsDue = 0
      /\ checkpointFile = None
  BY DEF Init
<1>4. RandomSeedInterval > 0 => 0 \div RandomSeedInterval = 0
  BY Settings
<1>5. Threshold(nextRandomSeedAt, completed)
  BY <1>3, <1>4, Settings DEF Threshold
<1>6. Injected(randomSeedsDue, SeedsOf({}), completed)
  BY <1>2, <1>3, <1>4, Settings DEF Injected
<1> QED
  BY <1>1, <1>3, <1>5, <1>6 DEF SeedsKept

\* Seeds are injected once for every RandomSeedInterval completed executions,
\* neither repeated nor skipped by a resume.
THEOREM SeedsCorrect == Spec => []PeriodicSeedsConserved
<1>1. Init => Journaled /\ SeedsKept
  BY JournaledInit, SeedsInit
<1>2. Journaled /\ SeedsKept /\ [Next]_vars => Journaled' /\ SeedsKept'
  BY JournaledStep, SeedsStep DEF Journaled
<1>3. Journaled /\ SeedsKept => PeriodicSeedsConserved
  <2> SUFFICES ASSUME Journaled, SeedsKept, RandomSeedInterval > 0, report # None, completed < Runs
               PROVE  /\ nextRandomSeedAt = RandomSeedInterval * (completed \div RandomSeedInterval + 1)
                      /\ randomSeedsDue
                           + SeedsOf(rerun \cup inFlight \cup recorded \cup ({current} \ {None}))
                         = RandomSeedsPerInterval * (completed \div RandomSeedInterval)
    BY DEF PeriodicSeedsConserved
  <2>1. pc \notin Idle
    BY DEF Journaled, Typed, QueueTyped
  <2>2. rerun \cup inFlight \cup recorded \cup ({current} \ {None}) = rerun \cup inFlight \cup Results
    BY DEF Results
  <2>3. RandomSeedInterval # 0
    BY Settings
  <2>4. nextRandomSeedAt = RandomSeedInterval * (completed \div RandomSeedInterval + 1)
    BY <2>1, <2>3 DEF SeedsKept, Threshold
  <2>5. randomSeedsDue + SeedsOf(rerun \cup inFlight \cup Results)
          = RandomSeedsPerInterval * (completed \div RandomSeedInterval)
    BY <2>1 DEF SeedsKept, Injected
  <2> QED
    BY <2>2, <2>4, <2>5
<1> QED
  BY <1>1, <1>2, <1>3, PTL DEF Spec

-----------------------------------------------------------------------------
(* What a checkpoint needs for Checkpoint.Validate to accept it.           *)

\* The process runs, and no hook has failed between the end of an execution
\* and its summary: those leave a checkpoint that is refused.
Intact == pc \notin Idle /\ (pc \in Stopping => current = None)

MutationTasks == {t \in Tasks : t.candidate.kind = "mutation"}
RetainedRuns == {r \in Summaries : r.retained}

\* The result being recorded counts as a random seed only once it is recorded.
RandomRuns == IF current # None /\ current.candidate.kind = "periodic_random"
              THEN report.random + 1 ELSE report.random

\* The counters of the report agree with the queue, the tasks and the results.
Agree(waiting, tasks, done, results, r, random, entries) ==
    /\ Len(waiting) <= r.peak /\ 1 <= r.peak /\ r.peak <= MaxReadyCandidates
    /\ r.initial + r.mutations + random = done
    /\ r.mutations + Cardinality(tasks \cap MutationTasks) + MutationsIn(waiting) <= r.admitted
    /\ Cardinality(results \cap RetainedRuns) = entries
    /\ \A run \in results : run.newStates \subseteq run.states /\ IsFiniteSet(run.newSemantic)

\* Requests are for different entries, all of them written.
Requested(requests, entries) ==
    /\ \A i, j \in 1..Len(requests) : requests[i].entry = requests[j].entry => i = j
    /\ \A i \in 1..Len(requests) : requests[i].entry < entries

AgreedCheckpoint(c) ==
    /\ Agree(c.ready, c.inFlight, c.completed, c.recorded, c.report, c.report.random, c.entryCount)
    /\ Requested(c.pending, c.entryCount)

Agreed ==
    /\ Intact =>
          /\ Agree(ready, rerun \cup inFlight, completed, Results, report, RandomRuns,
                   Len(corpus.entries))
          /\ Requested(pending, IF pc = "corpus" THEN Len(corpus.entries) - 1
                                                 ELSE Len(corpus.entries))
    /\ checkpointFile # None /\ Cardinality(checkpointFile.recorded) = checkpointFile.completed =>
          AgreedCheckpoint(checkpointFile)

\* What is counted of a set that grows or shrinks by one.
LEMMA CommonCounted ==
    ASSUME NEW set, IsFiniteSet(set), NEW kind, NEW x
    PROVE  /\ Cardinality(set \cap kind) \in Nat
           /\ x \notin set => Cardinality((set \cup {x}) \cap kind)
                                = Cardinality(set \cap kind) + (IF x \in kind THEN 1 ELSE 0)
           /\ x \in set => Cardinality((set \ {x}) \cap kind)
                                = Cardinality(set \cap kind) - (IF x \in kind THEN 1 ELSE 0)
<1> DEFINE common == set \cap kind
<1>1. IsFiniteSet(common)
  BY FS_Intersection
<1>2. Cardinality(common) \in Nat
  BY <1>1, FS_CardinalityType
<1>3. /\ (set \cup {x}) \cap kind = IF x \in kind THEN common \cup {x} ELSE common
      /\ (set \ {x}) \cap kind = IF x \in kind THEN common \ {x} ELSE common
      /\ x \in common <=> x \in set /\ x \in kind
  OBVIOUS
<1> HIDE DEF common
<1>4. /\ x \notin common => Cardinality(common \cup {x}) = Cardinality(common) + 1
      /\ x \in common => Cardinality(common \ {x}) = Cardinality(common) - 1
  BY <1>1, FS_AddElement, FS_RemoveElement
<1>5. CASE x \in kind
  <2>1. (set \cup {x}) \cap kind = common \cup {x} /\ (set \ {x}) \cap kind = common \ {x}
    BY <1>3, <1>5
  <2> QED
    BY <1>2, <1>3, <1>4, <1>5, <2>1 DEF common
<1>6. CASE x \notin kind
  <2>1. (set \cup {x}) \cap kind = common /\ (set \ {x}) \cap kind = common
    BY <1>3, <1>6
  <2>2. \A n \in Nat : n + (IF x \in kind THEN 1 ELSE 0) = n /\ n - (IF x \in kind THEN 1 ELSE 0) = n
    BY <1>6
  <2> QED
    BY <1>2, <2>1, <2>2 DEF common
<1> QED
  BY <1>5, <1>6

\* No mutation waits in an empty queue, nor among new initial candidates.
LEMMA NoMutations ==
    ASSUME NEW s, \A i \in 1..Len(s) : s[i].kind # "mutation"
    PROVE  MutationsIn(s) = 0
<1>1. MutationIndices(s) = {}
  BY DEF MutationIndices
<1> QED
  BY <1>1, FS_EmptySet DEF MutationsIn

\* The tasks and the results are finitely many, and a run being recorded is one of them.
LEMMA FiniteWork ==
    ASSUME Typed, RunsDone
    PROVE  /\ IsFiniteSet(rerun \cup inFlight) /\ IsFiniteSet(Results)
           /\ Cardinality((rerun \cup inFlight) \cap MutationTasks) \in Nat
           /\ Cardinality(Results \cap RetainedRuns) \in Nat
           /\ MutationsIn(ready) \in Nat /\ Len(corpus.entries) \in Nat
<1>1. IsFiniteSet(rerun \cup inFlight) /\ IsFiniteSet(Results)
  BY CountsTyped DEF RunsDone, Done
<1>2. ready \in Seq(Queued) /\ corpus.entries \in Seq(Entries)
  BY DEF Typed, QueueTyped, ResultTyped, Corpora
<1> QED
  BY <1>1, <1>2, CommonCounted, MutationsCounted, LenProperties

\* Every step keeps the counters, the queues and the results in agreement.
LEMMA AgreedStep ==
    ASSUME Typed, RunsDone, EntriesWritten, Agreed, [Next]_vars
    PROVE  Agreed'
<1> DEFINE tasks == rerun \cup inFlight
           written == IF pc = "corpus" THEN Len(corpus.entries) - 1 ELSE Len(corpus.entries)
           Memory == /\ Agree(ready, tasks, completed, Results, report, RandomRuns,
                              Len(corpus.entries))
                     /\ Requested(pending, written)
<1>1. Intact => Memory
  BY DEF Agreed
<1>2. ASSUME UNCHANGED checkpointFile, Intact' => Memory'
      PROVE  Agreed'
  BY <1>2 DEF Agreed, AgreedCheckpoint
<1>3. CASE /\ UNCHANGED <<ready, completed, report, RandomRuns, corpus, pending, checkpointFile>>
           /\ tasks' = tasks /\ Results' = Results /\ (Intact' => Intact)
           /\ pc' = "corpus" <=> pc = "corpus"
  BY <1>1, <1>2, <1>3
<1>4. CASE Light
  <2>1. pc \in Clean => current = None
    BY DEF Typed, ResultTyped
  <2>2. (Intact' => Intact) /\ (pc' = "corpus" <=> pc = "corpus")
    BY <1>4, <2>1 DEF Light, Intact, Idle, Stopping, Clean
  <2> QED
    BY <1>3, <1>4, <2>2 DEF Light, schedule, accumulator, Results, RandomRuns
<1>5. CASE LaunchRerun
  <2>1. (Intact' => Intact) /\ (pc' = "corpus" <=> pc = "corpus")
    BY <1>5 DEF LaunchRerun, Intact
  <2> QED
    BY <1>3, <1>5, <2>1 DEF LaunchRerun, accumulator, disk, Results, RandomRuns
<1>6. CASE ResumeRuns
  BY <1>2, <1>6 DEF ResumeRuns, Intact, Idle
<1>7. CASE RecordRun
  <2>1. /\ UNCHANGED <<schedule, corpus, checkpointFile>> /\ pc = "record"
        /\ recorded' = recorded \cup {current} /\ current' = None /\ pc' # "corpus"
        /\ UNCHANGED <<ready, rerun, inFlight, completed, pending>>
        /\ report' = [report EXCEPT
                        !.random = @ + IF current.candidate.kind = "periodic_random" THEN 1 ELSE 0]
    BY <1>7 DEF RecordRun, schedule
  <2>2. current # None /\ None \notin recorded
    BY <2>1, NoneAssumption DEF Typed, ResultTyped
  <2>3. Results' = Results
    BY <2>1, <2>2 DEF Results
  <2>4. Intact /\ report \in Reports
    BY <2>1 DEF Intact, Typed, QueueTyped, Idle, Stopping
  <2>5. /\ UNCHANGED <<report.initial, report.mutations, report.admitted, report.peak>>
        /\ RandomRuns' = RandomRuns
    BY <2>1, <2>2, <2>4 DEF RandomRuns, Reports
  <2>6. Memory'
    BY <1>1, <2>1, <2>3, <2>4, <2>5 DEF Agree
  <2> QED
    BY <1>2, <2>1, <2>6
<1>8. CASE Saved \/ Ends
  <2>1. \/ checkpointFile' = checkpointFile
        \/ checkpointFile' = Checkpoint /\ pc \notin Idle /\ pc # "corpus"
    BY <1>8 DEF Saved, Ends, Idle, Stopping, Clean
  <2>2. checkpointFile' # None /\ Cardinality(checkpointFile'.recorded) = checkpointFile'.completed
          => AgreedCheckpoint(checkpointFile')
    <3>1. CASE checkpointFile' = checkpointFile
      BY <3>1 DEF Agreed
    <3>2. CASE checkpointFile' = Checkpoint /\ pc \notin Idle /\ pc # "corpus"
      <4> SUFFICES ASSUME Cardinality(recorded) = completed
                   PROVE  AgreedCheckpoint(Checkpoint)
        BY <3>2, CheckpointFields
      <4>1. current = None /\ Results = recorded /\ Intact /\ RandomRuns = report.random
        BY <3>2, NoneMissing, NoneRecorded DEF Intact, RandomRuns
      <4>2. /\ Agree(ready, tasks, completed, recorded, report, report.random, Len(corpus.entries))
            /\ Requested(pending, Len(corpus.entries))
        BY <1>1, <3>2, <4>1
      <4> QED
        BY <4>2, CheckpointFields DEF AgreedCheckpoint
    <3> QED
      BY <2>1, <3>1, <3>2
  <2>3. \/ pc' \in Idle
        \/ UNCHANGED <<ready, rerun, inFlight, completed, pending, corpus, recorded, report, current>>
           /\ pc \in Clean /\ pc' \in Clean
    BY <1>8 DEF Saved, Ends, Exit, memory, schedule, accumulator, Idle, Clean
  <2>4. Intact' => Memory'
    <3> SUFFICES ASSUME Intact' PROVE Memory'
      OBVIOUS
    <3>1. Intact /\ pc # "corpus" /\ pc' # "corpus"
      BY <2>3 DEF Typed, ResultTyped, Intact, Idle, Stopping, Clean
    <3> QED
      BY <1>1, <2>3, <3>1 DEF Intact, Results, RandomRuns
  <2> QED
    BY <2>2, <2>4 DEF Agreed
<1>9. CASE WriteCorpusEntry
  <2>1. /\ pc = "corpus" /\ UNCHANGED <<checkpointFile, recorded, report, current, ready, rerun,
                                        inFlight, completed>>
        /\ \/ /\ corpus' = corpus /\ pc' = "record"
              /\ \/ pending' = pending
                 \/ \E count \in 1..MaxMutationsPerCorpus :
                       pending' = Append(pending, [entry |-> Last(corpus.entries).id,
                                                   run |-> current.index, count |-> count])
           \/ pc' = "stop_event"
    <3>1. pc = "corpus" => MutationCount \in 1..MaxMutationsPerCorpus
      BY MutationCountBounds DEF Typed, ResultTyped
    <3> QED
      BY <1>9, <3>1 DEF WriteCorpusEntry, accumulator
  <2>2. current # None
    BY <2>1 DEF Typed, ResultTyped
  <2>3. CASE pc' = "stop_event"
    BY <1>2, <2>1, <2>2, <2>3 DEF Intact, Stopping
  <2>4. CASE pc' # "stop_event"
    <3>1. corpus' = corpus /\ pc' = "record" /\ Intact
      BY <2>1, <2>4 DEF Intact, Idle, Stopping
    <3>2. Agree(ready', tasks', completed', Results', report', RandomRuns', Len(corpus.entries)')
      BY <1>1, <2>1, <3>1 DEF Results, RandomRuns
    <3>3. /\ corpus.entries \in Seq(Entries) /\ corpus.entries # <<>>
          /\ Len(corpus.entries) \in Nat /\ Last(corpus.entries).id = Len(corpus.entries) - 1
      <4>1. corpus.entries \in Seq(Entries) /\ corpus.entries # <<>>
        BY <2>1 DEF Typed, ResultTyped, Corpora
      <4>2. /\ Len(corpus.entries) \in Nat /\ Len(corpus.entries) > 0
            /\ Last(corpus.entries) = corpus.entries[Len(corpus.entries)]
        BY <4>1, LastElement
      <4> QED
        BY <4>1, <4>2 DEF EntriesWritten, Restores
    <3>4. pending \in Seq(Requests) /\ Len(pending) \in Nat
      BY LenProperties DEF Typed, QueueTyped
    <3>5. Requested(pending, Len(corpus.entries) - 1)
      <4>1. written = Len(corpus.entries) - 1
        BY <2>1
      <4>2. Requested(pending, written)
        BY <1>1, <3>1
      <4> HIDE DEF written
      <4> QED
        BY <4>1, <4>2
    <3>6. \A i \in 1..Len(pending) : pending[i].entry \in Nat
      <4>1. \A i \in 1..Len(pending) : pending[i] \in Requests
        BY <3>4, ElementOfSeq
      <4> QED
        BY <4>1 DEF Requests
    <3>7. Requested(pending', Len(corpus.entries))
      <4>1. CASE pending' = pending
        BY <3>3, <3>5, <3>6, <4>1 DEF Requested
      <4>2. CASE \E count \in 1..MaxMutationsPerCorpus :
                    pending' = Append(pending, [entry |-> Last(corpus.entries).id,
                                                run |-> current.index, count |-> count])
        <5>1. PICK request : /\ pending' = Append(pending, request)
                             /\ request.entry = Len(corpus.entries) - 1
          BY <3>3, <4>2
        <5>2. /\ Len(pending') = Len(pending) + 1 /\ pending'[Len(pending) + 1] = request
              /\ \A i \in 1..Len(pending) : pending'[i] = pending[i]
          BY <3>4, <5>1
        <5>3. \A i \in 1..Len(pending) : pending[i].entry < Len(corpus.entries) - 1
          BY <3>5 DEF Requested
        <5>4. \A i \in 1..Len(pending') : i = Len(pending) + 1 \/ i \in 1..Len(pending)
          BY <3>4, <5>2
        <5> QED
          BY <3>3, <3>5, <3>6, <5>1, <5>2, <5>3, <5>4 DEF Requested
      <4> QED
        BY <2>1, <2>4, <4>1, <4>2
    <3> QED
      BY <1>2, <2>1, <3>1, <3>2, <3>7
  <2> QED
    BY <2>3, <2>4
<1>10. CASE Mutated
  <2>1. PICK plans \in 0..MaxMutationsPerCorpus : ReceiveMutation(plans)
    BY <1>10 DEF Mutated
  <2>2. /\ pc = "loop" /\ pc' = "mutation_event" /\ pending # <<>> /\ pending' = Tail(pending)
        /\ ready' \in Seq(Queued) /\ report' \in Reports
        /\ UNCHANGED <<report.initial, report.mutations, report.random>>
        /\ Peaked(Queue) => Peaked(Queue')
        /\ MutationsIn(ready') + report.admitted <= MutationsIn(ready) + report'.admitted
        /\ UNCHANGED <<rerun, inFlight, completed, corpus, recorded, current, checkpointFile>>
    BY <2>1, MutationReceived DEF disk
  <2>3. Intact /\ Memory
    BY <1>1, <2>2 DEF Typed, ResultTyped, Intact, Idle, Stopping, Clean
  <2>4. Len(ready') <= report'.peak /\ report'.peak <= MaxReadyCandidates /\ 1 <= report'.peak
    <3>1. /\ Len(ready) <= report.peak /\ report.peak <= MaxReadyCandidates /\ 1 <= report.peak
      BY <2>3 DEF Agree
    <3> QED
      BY <2>2, <3>1 DEF Peaked, Queue
  <2>5. report'.mutations + Cardinality((rerun \cup inFlight) \cap MutationTasks)
          + MutationsIn(ready') <= report'.admitted
    <3>1. report.mutations + Cardinality((rerun \cup inFlight) \cap MutationTasks)
            + MutationsIn(ready) <= report.admitted
      BY <2>3 DEF Agree
    <3>2. /\ report.mutations \in Nat /\ report.admitted \in Nat /\ report'.admitted \in Nat
          /\ Cardinality((rerun \cup inFlight) \cap MutationTasks) \in Nat
          /\ MutationsIn(ready) \in Nat /\ MutationsIn(ready') \in Nat
      BY <2>2, CountsTyped, FiniteWork, MutationsCounted DEF Reports, Idle
    <3> QED
      BY <2>2, <3>1, <3>2, SMTT(30)
  <2>6. Results' = Results /\ RandomRuns' = RandomRuns
    BY <2>2 DEF Results, RandomRuns
  <2>7. Agree(ready', tasks', completed', Results', report', RandomRuns', Len(corpus.entries)')
    BY <2>2, <2>3, <2>4, <2>5, <2>6 DEF Agree
  <2>8. Requested(pending', Len(corpus.entries))
    <3>1. Requested(pending, Len(corpus.entries)) /\ pending \in Seq(Requests)
      BY <2>2, <2>3 DEF Typed, QueueTyped
    <3>2. /\ Len(pending) \in Nat /\ Len(pending') = Len(pending) - 1
          /\ \A i \in 1..Len(pending') : pending'[i] = pending[i + 1]
      BY <2>2, <3>1, LenProperties, HeadTailProperties, EmptySeq
    <3> QED
      BY <3>1, <3>2, SMTT(30) DEF Requested
  <2> QED
    BY <1>2, <2>2, <2>7, <2>8
<1>11. CASE Finish
  <2>1. /\ pc = "loop" /\ pc' = "end_event" /\ ready' = <<>> /\ pending' = <<>>
        /\ UNCHANGED <<rerun, inFlight, completed, corpus, recorded, report, current, checkpointFile>>
    BY <1>11 DEF Finish, accumulator, disk
  <2>2. Intact /\ report \in Reports
    BY <2>1 DEF Typed, ResultTyped, QueueTyped, Intact, Idle, Stopping, Clean
  <2>3. Len(ready') = 0 /\ MutationsIn(ready') = 0
    BY <2>1, NoMutations
  <2>4. Agree(ready', tasks', completed', Results', report', RandomRuns', Len(corpus.entries)')
    <3>1. Agree(ready, tasks, completed, Results, report, RandomRuns, Len(corpus.entries))
      BY <1>1, <2>2
    <3>2. Results' = Results /\ RandomRuns' = RandomRuns
      BY <2>1 DEF Results, RandomRuns
    <3>3. report.mutations + Cardinality(tasks \cap MutationTasks) <= report.admitted
      <4>1. /\ report.mutations \in Nat /\ report.admitted \in Nat
            /\ Cardinality(tasks \cap MutationTasks) \in Nat /\ MutationsIn(ready) \in Nat
        BY <2>2, FiniteWork DEF Reports
      <4> QED
        BY <3>1, <4>1 DEF Agree
    <3>4. report.mutations + Cardinality(tasks \cap MutationTasks) + MutationsIn(ready')
            <= report.admitted
      <4>1. report.mutations \in Nat /\ Cardinality(tasks \cap MutationTasks) \in Nat
        BY <2>2, FiniteWork DEF Reports
      <4> QED
        BY <2>3, <3>3, <4>1
    <3>5. 0 <= report.peak
      BY <2>2 DEF Reports
    <3> QED
      BY <2>1, <2>3, <3>1, <3>2, <3>4, <3>5 DEF Agree
  <2>5. Requested(pending', Len(corpus.entries))
    BY <2>1 DEF Requested
  <2> QED
    BY <1>2, <2>1, <2>4, <2>5
<1>12. CASE Reseeded
  <2>1. /\ pc = "loop" /\ pc' = "loop" /\ ready = <<>> /\ ready' = <<Candidate("initial")>>
        /\ UNCHANGED <<rerun, inFlight, completed, corpus, recorded, report, current, pending,
                       checkpointFile>>
    BY <1>12 DEF Reseeded, Starved, accumulator, disk
  <2>2. Intact /\ report \in Reports
    BY <2>1 DEF Typed, ResultTyped, QueueTyped, Intact, Idle, Stopping, Clean
  <2>3. Len(ready') = 1 /\ MutationsIn(ready') = 0 /\ MutationsIn(ready) = 0
    BY <2>1, NoMutations DEF Candidate
  <2>4. Results' = Results /\ RandomRuns' = RandomRuns
    BY <2>1 DEF Results, RandomRuns
  <2>5. Agree(ready', tasks', completed', Results', report', RandomRuns', Len(corpus.entries)')
    BY <1>1, <2>1, <2>2, <2>3, <2>4 DEF Agree
  <2> QED
    BY <1>1, <1>2, <2>1, <2>2, <2>5
<1>13. CASE LaunchNew
  <2>1. /\ pc = "loop" /\ pc' = "loop"
        /\ UNCHANGED <<completed, corpus, recorded, report, current, pending, checkpointFile>>
    BY <1>13 DEF LaunchNew, FreeSlot, accumulator, disk
  <2>2. Intact /\ report \in Reports
    BY <2>1 DEF Typed, ResultTyped, QueueTyped, Intact, Idle, Stopping, Clean
  <2>3. PICK task \in Tasks :
          /\ task \notin tasks /\ rerun' \cup inFlight' = tasks \cup {task}
          /\ \/ task.candidate.kind = "periodic_random" /\ ready' = ready
             \/ ready # <<>> /\ ready' = Tail(ready) /\ task.candidate = Head(ready)
    BY <1>13, Launched
  <2>4. ready \in Seq(Queued) /\ Len(ready) \in Nat
    BY LenProperties DEF Typed, QueueTyped
  <2>5. Len(ready') <= Len(ready) /\ Len(ready') \in Nat /\ MutationsIn(ready') \in Nat
    <3>1. ASSUME ready # <<>>
          PROVE  /\ Tail(ready) \in Seq(Queued) /\ Len(Tail(ready)) = Len(ready) - 1
                 /\ Len(Tail(ready)) \in Nat
      BY <2>4, <3>1, HeadTailProperties, LenProperties
    <3> QED
      BY <2>3, <2>4, <3>1, MutationsCounted
  <2>6. MutationsIn(ready') + (IF task \in MutationTasks THEN 1 ELSE 0) <= MutationsIn(ready)
    <3>1. MutationsIn(ready) \in Nat
      BY FiniteWork
    <3>2. CASE task.candidate.kind = "periodic_random" /\ ready' = ready
      BY <3>1, <3>2 DEF MutationTasks
    <3>3. CASE ready # <<>> /\ ready' = Tail(ready) /\ task.candidate = Head(ready)
      <4>1. task \in MutationTasks <=> Head(ready).kind = "mutation"
        BY <3>3 DEF MutationTasks
      <4> QED
        BY <2>4, <3>3, <4>1, MutationsTaken
    <3> QED
      BY <2>3, <3>2, <3>3
  <2>7. Cardinality((tasks \cup {task}) \cap MutationTasks)
          = Cardinality(tasks \cap MutationTasks) + (IF task \in MutationTasks THEN 1 ELSE 0)
    BY <2>3, FiniteWork, CommonCounted, SMTT(30)
  <2>8. Agree(ready, tasks, completed, Results, report, RandomRuns, Len(corpus.entries))
    BY <1>1, <2>2
  <2>9. report.mutations + Cardinality((tasks \cup {task}) \cap MutationTasks)
          + MutationsIn(ready') <= report.admitted
    <3>1. /\ report.mutations \in Nat /\ report.admitted \in Nat /\ MutationsIn(ready) \in Nat
          /\ Cardinality(tasks \cap MutationTasks) \in Nat
      BY <2>2, FiniteWork DEF Reports
    <3>2. report.mutations + Cardinality(tasks \cap MutationTasks) + MutationsIn(ready)
            <= report.admitted
      BY <2>8 DEF Agree
    <3> QED
      BY <2>5, <2>6, <2>7, <3>1, <3>2
  <2>10. Results' = Results /\ RandomRuns' = RandomRuns /\ Len(ready') <= report.peak
    <3>1. Len(ready) <= report.peak /\ report.peak \in Nat
      BY <2>2, <2>8 DEF Agree, Reports
    <3> QED
      BY <2>1, <2>4, <2>5, <3>1 DEF Results, RandomRuns
  <2>11. Agree(ready', tasks', completed', Results', report', RandomRuns', Len(corpus.entries)')
    BY <2>1, <2>3, <2>8, <2>9, <2>10 DEF Agree
  <2> QED
    BY <1>1, <1>2, <2>1, <2>2, <2>11
<1>14. CASE Received
  <2> SUFFICES ASSUME NEW task \in inFlight, NEW outcome \in Outcomes, NEW states \in Visits,
                      ReceiveExecution(task, outcome, states)
               PROVE  Agreed'
    BY <1>14 DEF Received
  <2> DEFINE considered == outcome = "succeeded" /\ states # {}
  <2>1. /\ task \in tasks /\ task \in Tasks /\ rerun' \cup inFlight' = tasks \ {task}
        /\ completed' = completed + 1 /\ pc = "loop" /\ pc' \in {"corpus", "record"}
        /\ UNCHANGED <<checkpointFile, ready, pending, recorded>>
    BY ReceivedTask DEF ReceiveExecution
  <2>2. Intact /\ report \in Reports /\ current = None
    BY <2>1 DEF Typed, ResultTyped, QueueTyped, Intact, Idle, Stopping, Clean
  <2>3. current' # None /\ current' \in Summaries /\ IsFiniteSet(current'.newSemantic)
    BY <1>14, <2>1, ResultStep DEF ResultTyped
  <2>4. /\ current'.index = task.index /\ current'.candidate = task.candidate
        /\ current'.states = states
        /\ current'.newStates = IF considered THEN NewStates(corpus, states) ELSE {}
        /\ current'.retained = (considered /\ Retains(corpus, states))
        /\ corpus' = IF considered THEN Consider(corpus, states, task.index) ELSE corpus
        /\ pc' = IF current'.retained THEN "corpus" ELSE "record"
    BY DEF ReceiveExecution
  <2>5. Results' = Results \cup {current'} /\ current' \notin Results
    <3>1. current' \notin recorded
      BY <1>14, <2>1, RunsDoneStep DEF RunsDone
    <3> QED
      BY <2>1, <2>2, <2>3, <3>1 DEF Results
  <2>6. Agree(ready, tasks, completed, Results, report, RandomRuns, Len(corpus.entries))
        /\ Requested(pending, Len(corpus.entries))
    BY <1>1, <2>1, <2>2
  <2>7. /\ report'.peak = report.peak /\ report'.admitted = report.admitted
        /\ report'.random = report.random
        /\ report'.initial = report.initial + (IF task.candidate.kind = "initial" THEN 1 ELSE 0)
        /\ report'.mutations = report.mutations + (IF task.candidate.kind = "mutation" THEN 1 ELSE 0)
    BY <2>2 DEF ReceiveExecution, Reports
  <2>8. /\ report.initial \in Nat /\ report.mutations \in Nat /\ report.random \in Nat
        /\ report.admitted \in Nat /\ completed \in Nat /\ MutationsIn(ready) \in Nat
        /\ Len(corpus.entries) \in Nat
        /\ Cardinality(tasks \cap MutationTasks) \in Nat
        /\ Cardinality(Results \cap RetainedRuns) \in Nat
    BY <2>2, FiniteWork, CountsTyped DEF Reports
  <2>9. report'.initial + report'.mutations + RandomRuns' = completed'
    <3>1. report.initial + report.mutations + report.random = completed
      BY <2>2, <2>6 DEF Agree, RandomRuns
    <3>2. RandomRuns' = report.random
                          + (IF task.candidate.kind = "periodic_random" THEN 1 ELSE 0)
      BY <2>3, <2>4, <2>7, <2>8 DEF RandomRuns
    <3>3. task.candidate.kind \in {"initial", "mutation", "periodic_random"}
      BY <2>1 DEF Tasks, Candidates
    <3> DEFINE i == IF task.candidate.kind = "initial" THEN 1 ELSE 0
               m == IF task.candidate.kind = "mutation" THEN 1 ELSE 0
               r == IF task.candidate.kind = "periodic_random" THEN 1 ELSE 0
    <3>4. i \in Nat /\ m \in Nat /\ r \in Nat /\ i + m + r = 1
      BY <3>3
    <3>5. /\ report'.initial = report.initial + i /\ report'.mutations = report.mutations + m
          /\ RandomRuns' = report.random + r
      BY <2>7, <3>2
    <3>6. /\ report.initial \in Nat /\ report.mutations \in Nat /\ report.random \in Nat
          /\ completed' = completed + 1
      BY <2>1, <2>8
    <3>7. \A a, b, d, x, y, z \in Nat :
            x + y + z = 1 => (a + x) + (b + y) + (d + z) = (a + b + d) + 1
      OBVIOUS
    <3> HIDE DEF i, m, r
    <3>8. (report.initial + i) + (report.mutations + m) + (report.random + r)
            = (report.initial + report.mutations + report.random) + 1
      BY <3>4, <3>6, <3>7
    <3>9. report'.initial + report'.mutations + RandomRuns'
            = (report.initial + i) + (report.mutations + m) + (report.random + r)
      BY <3>5, Zenon
    <3> QED
      BY <3>1, <3>6, <3>8, <3>9
  <2>10. report'.mutations + Cardinality((tasks \ {task}) \cap MutationTasks) + MutationsIn(ready)
           <= report.admitted
    <3>1. Cardinality((tasks \ {task}) \cap MutationTasks)
            = Cardinality(tasks \cap MutationTasks) - (IF task \in MutationTasks THEN 1 ELSE 0)
      <4>1. IsFiniteSet(tasks) /\ task \in tasks
        BY <2>1, FiniteWork
      <4> HIDE DEF tasks
      <4> QED
        BY <4>1, CommonCounted
    <3>2. task \in MutationTasks <=> task.candidate.kind = "mutation"
      BY <2>1 DEF MutationTasks
    <3>3. report.mutations + Cardinality(tasks \cap MutationTasks) + MutationsIn(ready)
            <= report.admitted
      BY <2>6 DEF Agree
    <3>4. CASE task.candidate.kind = "mutation"
      BY <2>7, <2>8, <3>1, <3>2, <3>3, <3>4
    <3>5. CASE task.candidate.kind # "mutation"
      BY <2>7, <2>8, <3>1, <3>2, <3>3, <3>5
    <3> QED
      BY <3>4, <3>5
  <2>11. Len(corpus'.entries) = Len(corpus.entries) + (IF current'.retained THEN 1 ELSE 0)
    <3>1. CASE current'.retained
      <4>1. corpus'.entries = Append(corpus.entries, EntryFor(corpus, states, task.index))
        BY <2>4, <3>1 DEF Consider
      <4>2. corpus.entries \in Seq(Entries)
        BY DEF Typed, ResultTyped, Corpora
      <4> QED
        BY <3>1, <4>1, <4>2
    <3>2. CASE ~current'.retained
      <4>1. corpus'.entries = corpus.entries
        BY <2>4, <3>2 DEF Consider
      <4> QED
        BY <2>8, <3>2, <4>1
    <3> QED
      BY <3>1, <3>2
  <2>12. Cardinality(Results' \cap RetainedRuns) = Len(corpus'.entries)
    <3>1. current' \in RetainedRuns <=> current'.retained
      BY <2>3 DEF RetainedRuns
    <3>2. Cardinality((Results \cup {current'}) \cap RetainedRuns)
            = Cardinality(Results \cap RetainedRuns)
                + (IF current' \in RetainedRuns THEN 1 ELSE 0)
      BY <2>5, FiniteWork, CommonCounted
    <3>3. Cardinality(Results \cap RetainedRuns) = Len(corpus.entries)
      BY <2>6 DEF Agree
    <3> QED
      BY <2>5, <2>11, <3>1, <3>2, <3>3
  <2>13. \A run \in Results' : run.newStates \subseteq run.states /\ IsFiniteSet(run.newSemantic)
    BY <2>3, <2>4, <2>5, <2>6 DEF Agree, NewStates
  <2>14. Agree(ready', tasks', completed', Results', report', RandomRuns', Len(corpus.entries)')
    BY <2>1, <2>6, <2>7, <2>9, <2>10, <2>12, <2>13 DEF Agree
  <2>15. Requested(pending', IF pc' = "corpus" THEN Len(corpus'.entries) - 1
                                               ELSE Len(corpus'.entries))
    <3>1. (IF pc' = "corpus" THEN Len(corpus'.entries) - 1 ELSE Len(corpus'.entries))
            = Len(corpus.entries)
      <4> DEFINE n == Len(corpus.entries)
                 m == Len(corpus'.entries)
      <4>1. pc' = (IF current'.retained THEN "corpus" ELSE "record")
        BY <2>4
      <4>2. n \in Nat /\ m = n + (IF current'.retained THEN 1 ELSE 0)
        BY <2>8, <2>11
      <4> HIDE DEF n, m
      <4>3. (IF pc' = "corpus" THEN m - 1 ELSE m) = n
        <5>1. CASE current'.retained
          BY <4>1, <4>2, <5>1
        <5>2. CASE ~current'.retained
          BY <4>1, <4>2, <5>2
        <5> QED
          BY <5>1, <5>2
      <4> QED
        BY <4>3 DEF n, m
    <3> QED
      BY <2>1, <2>6, <3>1
  <2> QED
    BY <1>2, <2>1, <2>14, <2>15
<1>15. CASE ResumeLoop
  <2> DEFINE c == checkpointFile
  <2>1. /\ UNCHANGED <<checkpointFile, current>> /\ c # None /\ pc = "resuming"
        /\ pc' = "opened" /\ ready' = c.ready /\ rerun' = c.inFlight /\ inFlight' = {}
        /\ recorded' = c.recorded /\ completed' = c.completed /\ report' = c.report
        /\ Len(corpus'.entries) = c.entryCount
        /\ \E order \in [DOMAIN c.pending -> DOMAIN c.pending] :
              /\ IsInjective(order)
              /\ pending' = [i \in DOMAIN c.pending |-> c.pending[order[i]]]
    BY <1>15, ResumedCorpus DEF ResumeLoop
  <2>2. current' = None
    BY <2>1 DEF Typed, ResultTyped, Idle
  <2>3. Results' = c.recorded /\ RandomRuns' = c.report.random
    <3>1. None \notin c.recorded
      BY <2>1, NoneAssumption DEF Typed, DiskTyped, Checkpoints
    <3> QED
      BY <2>1, <2>2, <3>1 DEF Results, RandomRuns
  <2>4. AgreedCheckpoint(c)
    BY <2>1, ValidCounts DEF RunsDone, Agreed
  <2>5. Agree(ready', tasks', completed', Results', report', RandomRuns', Len(corpus.entries)')
    <3>1. rerun' \cup inFlight' = c.inFlight
      BY <2>1
    <3> QED
      BY <2>1, <2>3, <2>4, <3>1 DEF AgreedCheckpoint
  <2>6. Requested(pending', c.entryCount)
    <3>1. c.pending \in Seq(Requests)
      BY <2>1 DEF Typed, DiskTyped, Checkpoints
    <3>2. DOMAIN c.pending = 1..Len(c.pending) /\ Len(c.pending) \in Nat
      BY <3>1, LenProperties
    <3>3. PICK order \in [1..Len(c.pending) -> 1..Len(c.pending)] :
            /\ IsInjective(order)
            /\ pending' = [i \in 1..Len(c.pending) |-> c.pending[order[i]]]
      BY <2>1, <3>2
    <3>4. pending' \in Seq(Requests) /\ Len(pending') = Len(c.pending)
      <4>1. pending' \in [1..Len(c.pending) -> Requests]
        BY <3>1, <3>3, ElementOfSeq
      <4> QED
        BY <3>2, <4>1, SeqDef, LenProperties
    <3>5. \A i, j \in 1..Len(c.pending) : order[i] = order[j] => i = j
      BY <3>3 DEF IsInjective
    <3>6. Requested(c.pending, c.entryCount)
      BY <2>4 DEF AgreedCheckpoint
    <3>7. \A i \in 1..Len(c.pending) : pending'[i] = c.pending[order[i]] /\ order[i] \in 1..Len(c.pending)
      BY <3>3
    <3>8. \A i, j \in 1..Len(c.pending) : pending'[i].entry = pending'[j].entry => i = j
      BY <3>5, <3>6, <3>7, SMTT(30) DEF Requested
    <3>9. \A i \in 1..Len(c.pending) : pending'[i].entry < c.entryCount
      BY <3>6, <3>7 DEF Requested
    <3> QED
      BY <3>4, <3>8, <3>9 DEF Requested
  <2> QED
    BY <1>2, <2>1, <2>5, <2>6
<1> QED
  BY Steps, <1>4, <1>5, <1>6, <1>7, <1>8, <1>9, <1>10, <1>11, <1>12, <1>13, <1>14, <1>15

\* The initial population is all there is at first.
LEMMA AgreedInit == Init => Agreed
<1> SUFFICES ASSUME Init PROVE Agreed
  OBVIOUS
<1>1. /\ rerun \cup inFlight = {} /\ pending = <<>> /\ completed = 0 /\ Results = {}
      /\ Len(corpus.entries) = 0 /\ checkpointFile = None /\ current = None /\ pc = "opened"
      /\ report.initial = 0 /\ report.mutations = 0 /\ report.random = 0 /\ report.admitted = 0
      /\ report.peak = Len(ready)
  BY DEF Init, Results, EmptyCorpus
<1>2. /\ Len(ready) \in Nat /\ 1 <= Len(ready) /\ Len(ready) <= MaxReadyCandidates
      /\ \A i \in 1..Len(ready) : ready[i].kind = "initial"
  <2>1. InitialPopulation - InitiallyLost >= 1
    BY Settings DEF InitiallyLost
  <2> QED
    BY <2>1, InitialQueue
<1>3. MutationsIn(ready) = 0
  BY <1>2, NoMutations
<1>4. Cardinality({} \cap MutationTasks) = 0 /\ Cardinality({} \cap RetainedRuns) = 0
  BY FS_EmptySet
<1>5. RandomRuns = 0
  BY <1>1 DEF RandomRuns
<1>6. Agree(ready, rerun \cup inFlight, completed, Results, report, RandomRuns, Len(corpus.entries))
  <2>1. report.initial + report.mutations + RandomRuns = completed
    BY <1>1, <1>5
  <2>2. report.mutations + Cardinality((rerun \cup inFlight) \cap MutationTasks) + MutationsIn(ready)
          <= report.admitted
    <3>1. (rerun \cup inFlight) \cap MutationTasks = {} \cap MutationTasks
      BY <1>1
    <3>2. Cardinality((rerun \cup inFlight) \cap MutationTasks) = 0
      BY <1>4, <3>1
    <3> QED
      BY <1>1, <1>3, <3>2
  <2>3. Cardinality(Results \cap RetainedRuns) = Len(corpus.entries)
    BY <1>1, <1>4
  <2>4. Len(ready) <= report.peak /\ 1 <= report.peak /\ report.peak <= MaxReadyCandidates
    BY <1>1, <1>2
  <2> QED
    BY <1>1, <2>1, <2>2, <2>3, <2>4 DEF Agree
<1>7. Requested(pending, Len(corpus.entries))
  BY <1>1 DEF Requested
<1> QED
  BY <1>1, <1>6, <1>7 DEF Agreed

IndicesOf(work) == {w.index : w \in work}

\* Tasks and results share out all the indices below next.
LEMMA IndicesShared ==
    ASSUME NEW tasks, NEW results, NEW done, NEW next, Scheduled(tasks, done, next),
           Done(tasks, results, next), Cardinality(results) = done,
           results \subseteq Summaries
    PROVE  /\ IndicesOf(results) \cap IndicesOf(tasks) = {}
           /\ IndicesOf(results) \cup IndicesOf(tasks) = 0..(next - 1)
<1> DEFINE work == results \cup tasks
           f == [w \in work |-> w.index]
<1>1. results \cap tasks = {}
  BY DEF Done
<1>2. /\ IsFiniteSet(work) /\ Cardinality(work) = next /\ next \in Nat
  <2>1. IsFiniteSet(results) /\ IsFiniteSet(tasks) /\ Cardinality(results \cap tasks) = 0
        /\ done + Cardinality(tasks) = next /\ next \in Nat
    BY <1>1, FS_EmptySet DEF Done, Scheduled
  <2>2. /\ Cardinality(results) \in Nat /\ Cardinality(tasks) \in Nat
        /\ IsFiniteSet(results \cup tasks)
        /\ Cardinality(results \cup tasks)
             = Cardinality(results) + Cardinality(tasks) - Cardinality(results \cap tasks)
    BY <2>1, FS_Union, FS_CardinalityType
  <2> QED
    BY <2>1, <2>2
<1>3. \A w \in work : w.index \in 0..(next - 1)
  BY <1>2, Settings DEF Scheduled, Done, Tasks, Summaries, Indices
<1>4. f \in Injection(work, 0..(next - 1))
  <2>1. \A v, w \in work : v.index = w.index => v = w
    BY DEF Scheduled, Done
  <2>2. f \in [work -> 0..(next - 1)]
    BY <1>3
  <2>3. \A v, w \in work : f[v] = f[w] => v = w
    BY <2>1
  <2> HIDE DEF f, work
  <2> QED
    BY <2>2, <2>3 DEF Injection, IsInjective
<1>5. IsFiniteSet(0..(next - 1)) /\ Cardinality(0..(next - 1)) = next
  BY <1>2, FS_Interval
<1>6. f \in Surjection(work, 0..(next - 1))
  <2> HIDE DEF f, work
  <2> QED
    BY <1>2, <1>4, <1>5, FS_Injection
<1>7. \A i \in 0..(next - 1) : \E w \in work : w.index = i
  BY <1>6 DEF Surjection
<1> QED
  BY <1>3, <1>7 DEF Done, IndicesOf

\* Each semantic key covered is new in one result, so they are as many.
LEMMA KeysShared ==
    ASSUME NEW coverage, NEW semantic, NEW tasks, NEW results, NEW next,
           Attributed(coverage, semantic, results), Done(tasks, results, next),
           \A run \in results : IsFiniteSet(run.newSemantic)
    PROVE  Cardinality(UNION {{run.index} \X run.newSemantic : run \in results})
             = Cardinality(semantic)
<1> DEFINE Of(run) == {run.index} \X run.newSemantic
           parts == {Of(run) : run \in results}
           pairs == UNION parts
           f == [p \in pairs |-> p[2]]
<1>1. IsFiniteSet(parts)
  <2> DEFINE g == [run \in results |-> Of(run)]
  <2>1. g \in Surjection(results, parts)
    BY DEF Surjection
  <2> HIDE DEF g, parts
  <2> QED
    BY <2>1, FS_Surjection DEF Done
<1>2. \A part \in parts : IsFiniteSet(part)
  <2> SUFFICES ASSUME NEW run \in results PROVE IsFiniteSet({run.index} \X run.newSemantic)
    OBVIOUS
  <2> QED
    BY FS_Singleton, FS_Product
<1>3. IsFiniteSet(pairs)
  <2> HIDE DEF parts
  <2> QED
    BY <1>1, <1>2, FS_UNION
<1>4. \A p : p \in pairs <=> \E run \in results : \E key \in run.newSemantic : p = <<run.index, key>>
  OBVIOUS
<1>5. f \in Surjection(pairs, semantic)
  <2>1. \A p \in pairs : p[2] \in semantic
    BY <1>4 DEF Attributed
  <2>2. \A key \in semantic : \E p \in pairs : p[2] = key
    <3> SUFFICES ASSUME NEW key \in semantic PROVE \E p \in pairs : p[2] = key
      OBVIOUS
    <3>1. PICK run \in results : key \in run.newSemantic
      BY DEF Attributed
    <3>2. <<run.index, key>> \in pairs
      BY <1>4, <3>1
    <3> QED
      BY <3>2
  <2> HIDE DEF pairs
  <2> QED
    BY <2>1, <2>2 DEF Surjection
<1>6. f \in Injection(pairs, semantic)
  <2>1. ASSUME NEW p \in pairs, NEW q \in pairs, p[2] = q[2]
        PROVE  p = q
    <3>1. PICK a \in results : \E key \in a.newSemantic : p = <<a.index, key>>
      BY <1>4
    <3>2. PICK b \in results : \E key \in b.newSemantic : q = <<b.index, key>>
      BY <1>4
    <3>3. p = <<a.index, p[2]>> /\ q = <<b.index, q[2]>>
          /\ p[2] \in a.newSemantic /\ q[2] \in b.newSemantic
      BY <3>1, <3>2
    <3>4. a = b
      BY <2>1, <3>3 DEF Attributed
    <3> QED
      BY <2>1, <3>3, <3>4
  <2>2. f \in [pairs -> semantic]
    BY <1>5 DEF Surjection
  <2> HIDE DEF pairs
  <2> QED
    BY <2>1, <2>2 DEF Injection, IsInjective
<1> HIDE DEF pairs, f
<1>7. Cardinality(semantic) = Cardinality(pairs)
  BY <1>3, <1>5, <1>6, FS_Surjection
<1> QED
  BY <1>7 DEF pairs

\* A checkpoint with a result for each completed execution.
Whole(c) == c # None /\ Cardinality(c.recorded) = c.completed

\* All that Checkpoint.Validate asks for holds of a checkpoint that lacks no result.
LEMMA WholeIsValid ==
    ASSUME Typed, RunsDone, CoverageAttributed, SeedsKept, Agreed, Whole(checkpointFile)
    PROVE  Valid(checkpointFile)
<1> DEFINE c == checkpointFile
<1>1. /\ c \in Checkpoints /\ Len(c.ready) <= MaxReadyCandidates
      /\ Scheduled(c.inFlight, c.completed, c.nextRunIndex)
      /\ Done(c.inFlight, c.recorded, c.nextRunIndex)
      /\ Attributed(c.coverage, c.semantic, c.recorded)
      /\ Threshold(c.nextRandomSeedAt, c.completed)
      /\ RandomSeedInterval = 0 => c.randomSeedsDue = 0
      /\ Cardinality(c.recorded) = c.completed
      /\ AgreedCheckpoint(c)
  BY DEF Whole, Typed, DiskTyped, TasksTyped, CheckpointScheduled, RunsDone, CoverageAttributed,
         SeedsKept, Agreed
<1> HIDE DEF c
<1>2. /\ c.ready \in Seq(Queued) /\ c.pending \in Seq(Requests) /\ c.recorded \subseteq Summaries
      /\ c.report \in Reports /\ c.completed \in Nat /\ c.nextRandomSeedAt \in Nat
  BY <1>1 DEF Checkpoints
<1>3. /\ Agree(c.ready, c.inFlight, c.completed, c.recorded, c.report, c.report.random, c.entryCount)
      /\ Requested(c.pending, c.entryCount)
  BY <1>1 DEF AgreedCheckpoint
<1>4. /\ c.completed <= c.nextRunIndex /\ c.nextRunIndex <= Runs
      /\ c.completed + Cardinality(c.inFlight) = c.nextRunIndex
  BY <1>1, ScheduledProperties DEF Scheduled
<1>5. IF RandomSeedInterval = 0 THEN c.nextRandomSeedAt = 0 /\ c.randomSeedsDue = 0
                                ELSE c.nextRandomSeedAt > c.completed
  <2>1. CASE RandomSeedInterval = 0
    BY <1>1, <2>1 DEF Threshold
  <2>2. CASE RandomSeedInterval # 0
    <3>1. c.nextRandomSeedAt = RandomSeedInterval * (c.completed \div RandomSeedInterval + 1)
      BY <1>1, <2>2 DEF Threshold
    <3>2. RandomSeedInterval \in Nat /\ RandomSeedInterval > 0
      BY <2>2, Settings
    <3>3. c.completed < RandomSeedInterval * (c.completed \div RandomSeedInterval + 1)
      BY <1>2, <3>2, ThresholdPassed
    <3> QED
      BY <1>2, <2>2, <3>1, <3>3
  <2> QED
    BY <2>1, <2>2
<1>6. Len(c.ready) <= c.report.peak
  BY <1>3 DEF Agree
<1>7. /\ IsInjective([i \in DOMAIN c.pending |-> c.pending[i].entry])
      /\ \A i \in DOMAIN c.pending : c.pending[i].entry < c.entryCount
  <2>1. DOMAIN c.pending = 1..Len(c.pending)
    BY <1>2, LenProperties
  <2> QED
    BY <1>3, <2>1 DEF Requested, IsInjective
<1>8. AggregationValid(c)
  <2>1. c.report.mutations <= c.report.admitted
    <3>1. IsFiniteSet(c.inFlight)
      BY <1>1 DEF Scheduled
    <3>2. /\ c.report.mutations \in Nat /\ c.report.admitted \in Nat
          /\ Cardinality(c.inFlight \cap MutationTasks) \in Nat /\ MutationsIn(c.ready) \in Nat
      BY <1>2, <3>1, CommonCounted, MutationsCounted DEF Reports
    <3>3. c.report.mutations + Cardinality(c.inFlight \cap MutationTasks) + MutationsIn(c.ready)
            <= c.report.admitted
      BY <1>3 DEF Agree
    <3> QED
      BY <3>2, <3>3
  <2>2. {run \in c.recorded : run.retained} = c.recorded \cap RetainedRuns
    BY <1>2 DEF RetainedRuns
  <2> QED
    BY <1>1, <1>3, <2>1, <2>2 DEF AggregationValid, Agree
<1>9. /\ RecordedIndices(c) \cap {task.index : task \in c.inFlight} = {}
      /\ RecordedIndices(c) \cup {task.index : task \in c.inFlight} = 0..(c.nextRunIndex - 1)
  <2>1. /\ IndicesOf(c.recorded) \cap IndicesOf(c.inFlight) = {}
        /\ IndicesOf(c.recorded) \cup IndicesOf(c.inFlight) = 0..(c.nextRunIndex - 1)
    <3>1. /\ Scheduled(c.inFlight, c.completed, c.nextRunIndex)
          /\ Done(c.inFlight, c.recorded, c.nextRunIndex)
          /\ Cardinality(c.recorded) = c.completed /\ c.recorded \subseteq Summaries
      BY <1>1, <1>2
    <3> QED
      BY <3>1, IndicesShared
  <2> QED
    BY <2>1 DEF RecordedIndices, IndicesOf
<1>10. Cardinality(UNION {{run.index} \X run.newSemantic : run \in c.recorded})
         = Cardinality(c.semantic)
  <2>1. \A run \in c.recorded : IsFiniteSet(run.newSemantic)
    BY <1>3 DEF Agree
  <2> QED
    BY <1>1, <2>1, KeysShared
<1>11. c.coverage \subseteq UNION {run.states : run \in c.recorded}
  <2> SUFFICES ASSUME NEW state \in c.coverage
               PROVE  \E run \in c.recorded : state \in run.states
    OBVIOUS
  <2>1. PICK run \in c.recorded : state \in run.newStates
    BY <1>1 DEF Attributed
  <2> QED
    BY <1>3, <2>1 DEF Agree
<1>12. Valid(c)
  BY <1>1, <1>4, <1>5, <1>6, <1>7, <1>8, <1>9, <1>10, <1>11 DEF Valid
<1> QED
  BY <1>12 DEF c

\* Everything that has to agree for a checkpoint to be taken.
Consistent == Journaled /\ CoverageAttributed /\ SeedsKept /\ Agreed

\* A fresh experiment is consistent.
LEMMA ConsistentInit == Init => Consistent
  BY JournaledInit, CoverageInit, SeedsInit, AgreedInit DEF Consistent

\* Every step keeps types, journals, candidates, coverage and seeds in agreement.
LEMMA ConsistentStep == Consistent /\ [Next]_vars => Consistent'
  BY JournaledStep, CoverageStep, SeedsStep, AgreedStep DEF Consistent, Journaled

\* Only a failed hook can leave a checkpoint that is not restorable: with a
\* result for each completed execution, and the lines of runs.jsonl to go with
\* them, every other condition of a resume is met.
RestorableUnlessLost ==
    Whole(checkpointFile) /\ Len(runsFile) >= checkpointFile.completed => CheckpointRestorable

\* What agrees with the journals restores, unless a run or an entry was lost.
LEMMA ConsistentRestores == Consistent => RestorableUnlessLost
<1> SUFFICES ASSUME Consistent, Whole(checkpointFile), Len(runsFile) >= checkpointFile.completed
             PROVE  CheckpointRestorable
  BY DEF RestorableUnlessLost
<1>1. Valid(checkpointFile)
  BY WholeIsValid DEF Consistent, Journaled
<1>2. FirstRuns(checkpointFile) = checkpointFile.recorded
  BY DEF Consistent, Journaled, RunsWritten, Whole
<1>3. /\ checkpointFile.entryCount <= Len(corpusFile)
      /\ Restores(checkpointFile.coverage, checkpointFile.semantic, FirstEntries(checkpointFile))
  BY DEF Consistent, Journaled, EntriesWritten, Whole
<1>4. checkpointFile.entryCount \in Nat /\ Len(corpusFile) \in Nat
  BY LenProperties DEF Consistent, Journaled, Typed, DiskTyped, Checkpoints, Whole
<1> QED
  BY <1>1, <1>2, <1>3, <1>4 DEF CheckpointRestorable

\* Whatever is killed, cancelled or resumed, whenever, and whichever hooks fail:
\* a checkpoint on disk that lacks neither a result nor a line of runs.jsonl is
\* accepted by Checkpoint.Validate and by the corpus.
THEOREM UnlessLostCorrect == Spec => []RestorableUnlessLost
  BY ConsistentInit, ConsistentStep, ConsistentRestores, PTL DEF Spec

\* A hook that fails after the execution was counted and before its summary is
\* in runs.jsonl (the findings on CheckpointRestorable).
Losing == {"run", "corpus", "corpus_written"}

\* Without such a hook the loop stops with every execution recorded.
NothingLost ==
    /\ pc \in Stopping => current = None /\ Len(runsFile) = completed
    /\ checkpointFile # None =>
          Whole(checkpointFile) /\ Len(runsFile) >= checkpointFile.completed

\* While no hook that could lose a result fails, no step loses one.
LEMMA NothingLostStep ==
    ASSUME FailingHooks \cap Losing = {}, Journaled, NothingLost, [Next]_vars
    PROVE  NothingLost'
<1>1. CASE UNCHANGED <<checkpointFile, runsFile>> /\ pc' \notin Stopping
  BY <1>1 DEF NothingLost
<1>2. CASE Light
  <2>1. pc \in Clean => current = None /\ Len(runsFile) = completed
    BY DEF Journaled, Typed, ResultTyped, RunsWritten, Clean, Idle
  <2>2. UNCHANGED <<completed, current, checkpointFile, runsFile>>
    BY <1>2 DEF Light, schedule
  <2>3. pc' \in Stopping => current' = None /\ Len(runsFile') = completed'
    BY <1>2, <2>1, <2>2 DEF Light, NothingLost, Stopping, Clean
  <2> QED
    BY <2>2, <2>3 DEF NothingLost
<1>3. CASE LaunchRerun \/ LaunchNew \/ Reseeded \/ Mutated \/ Finish
  <2>1. UNCHANGED <<checkpointFile, runsFile>> /\ pc' \notin Stopping
    BY <1>3 DEF LaunchRerun, LaunchNew, FreeSlot, Reseeded, Mutated, ReceiveMutation, Finish, disk,
                Stopping
  <2> QED
    BY <1>1, <2>1
<1>4. CASE Received
  <2>1. UNCHANGED <<checkpointFile, runsFile>> /\ pc' \notin Stopping
    BY <1>4 DEF Received, ReceiveExecution, disk, Stopping
  <2> QED
    BY <1>1, <2>1
<1>5. CASE WriteCorpusEntry
  <2>1. UNCHANGED <<checkpointFile, runsFile>> /\ pc' \notin Stopping
    BY <1>5 DEF WriteCorpusEntry, Losing, Stopping
  <2> QED
    BY <1>1, <2>1
<1>6. CASE RecordRun
  <2>1. /\ pc = "record" /\ current' = None /\ UNCHANGED <<checkpointFile, completed>>
        /\ runsFile' = Append(runsFile, current)
    BY <1>6 DEF RecordRun, schedule, Losing
  <2>2. /\ runsFile \in Seq(Summaries) /\ Len(runsFile) \in Nat /\ Len(runsFile) + 1 = completed
    BY <2>1, LenProperties DEF Journaled, Typed, DiskTyped, RunsWritten, Idle
  <2>3. Len(runsFile') = Len(runsFile) + 1
    BY <2>1, <2>2
  <2>4. checkpointFile # None => checkpointFile.completed \in Nat
    BY DEF Journaled, Typed, DiskTyped, Checkpoints
  <2> QED
    BY <2>1, <2>2, <2>3, <2>4 DEF NothingLost, Whole
<1>7. CASE Saved \/ Ends
  <2>1. /\ UNCHANGED runsFile /\ pc' \notin Stopping
        /\ \/ checkpointFile' = checkpointFile
           \/ checkpointFile' = Checkpoint /\ pc \in Clean \cup Stopping
    BY <1>7 DEF Saved, Ends, Exit, Stopping
  <2>2. ASSUME pc \in Clean \cup Stopping
        PROVE  Whole(Checkpoint) /\ Len(runsFile) >= Checkpoint.completed
    <3>1. current = None /\ Len(runsFile) = completed /\ completed \in Nat
      BY <2>2 DEF Journaled, Typed, TasksTyped, Scheduled, ResultTyped, RunsWritten, Clean, Idle,
                  NothingLost, Stopping
    <3>2. Cardinality(recorded) = completed
      BY <3>1, NoneRecorded DEF Journaled, RunsDone
    <3>3. Checkpoint # None
      BY <2>2, CheckpointType, NoneAssumption DEF Journaled, Clean, Stopping, Idle
    <3> QED
      BY <3>1, <3>2, <3>3, CheckpointFields DEF Whole
  <2> QED
    BY <2>1, <2>2 DEF NothingLost
<1>8. CASE ResumeRuns
  <2>1. /\ pc' = "resuming" /\ checkpointFile # None /\ UNCHANGED checkpointFile
        /\ Len(runsFile) >= checkpointFile.completed
        /\ runsFile' = SubSeq(runsFile, 1, checkpointFile.completed)
    BY <1>8 DEF ResumeRuns, Truncated
  <2>2. runsFile \in Seq(Summaries) /\ checkpointFile.completed \in Nat
    BY <2>1 DEF Journaled, Typed, DiskTyped, Checkpoints
  <2>3. Len(runsFile') = checkpointFile.completed
    BY <2>1, <2>2, LenProperties, FirstElements
  <2> QED
    BY <2>1, <2>2, <2>3 DEF NothingLost, Whole, Stopping
<1>9. CASE ResumeLoop
  <2>1. pc' = "opened" /\ UNCHANGED <<checkpointFile, runsFile>>
    BY <1>9 DEF ResumeLoop
  <2> QED
    BY <1>1, <2>1 DEF Stopping
<1> QED
  BY Steps, <1>2, <1>3, <1>4, <1>5, <1>6, <1>7, <1>8, <1>9

\* Unless the hooks lose a run, the checkpoint on disk can be resumed from
\* whenever the process dies: Checkpoint.Validate accepts it, the journals hold
\* what it counts, and the corpus is restored.
THEOREM RestorableCorrect ==
    ASSUME FailingHooks \cap Losing = {}
    PROVE  Spec => []CheckpointRestorable
<1>1. Init => Consistent /\ NothingLost
  BY ConsistentInit DEF Init, NothingLost, Stopping
<1>2. Consistent /\ NothingLost /\ [Next]_vars => Consistent' /\ NothingLost'
  BY ConsistentStep, NothingLostStep DEF Consistent
<1>3. Consistent /\ NothingLost => CheckpointRestorable
  BY ConsistentRestores DEF RestorableUnlessLost, NothingLost, CheckpointRestorable
<1> QED
  BY <1>1, <1>2, <1>3, PTL DEF Spec

-----------------------------------------------------------------------------
(* What a new checkpoint keeps of the one it replaces.                     *)

\* The task is not done, or its result has the index and the candidate it had.
Kept(task, tasks, results) ==
    \/ task \in tasks
    \/ \E run \in results : run.index = task.index /\ run.candidate = task.candidate

Extends(c, coverage, entries, tasks, results) ==
    /\ c.recorded \subseteq results /\ c.coverage \subseteq coverage /\ c.entryCount <= entries
    /\ \A task \in c.inFlight : Kept(task, tasks, results)

\* The loop is never behind the checkpoint on disk, nor beside it.
Ahead ==
    /\ pc \in Stopping => current = None
    /\ pc \notin Idle /\ checkpointFile # None =>
          Extends(checkpointFile, corpus.coverage, Len(corpus.entries), rerun \cup inFlight, Results)

\* Nothing of a checkpoint is lost when tasks become results and the corpus grows.
LEMMA ExtendsMore ==
    ASSUME NEW c, NEW coverage, NEW entries \in Nat, NEW tasks, NEW results,
           Extends(c, coverage, entries, tasks, results), c.entryCount \in Nat,
           NEW coverage2, NEW entries2 \in Nat, NEW tasks2, NEW results2,
           coverage \subseteq coverage2, entries <= entries2, results \subseteq results2,
           \A task \in tasks : Kept(task, tasks2, results2)
    PROVE  Extends(c, coverage2, entries2, tasks2, results2)
<1>1. c.recorded \subseteq results2 /\ c.coverage \subseteq coverage2
  BY DEF Extends
<1>2. c.entryCount <= entries2
  BY DEF Extends
<1>3. \A task \in c.inFlight : Kept(task, tasks2, results2)
  BY DEF Extends, Kept
<1> QED
  BY <1>1, <1>2, <1>3 DEF Extends

\* Every step keeps the loop ahead of the checkpoint.
LEMMA AheadStep ==
    ASSUME FailingHooks \cap {"corpus", "corpus_written"} = {},
           Typed, RunsDone, Ahead, [Next]_vars
    PROVE  Ahead'
<1> DEFINE tasks == rerun \cup inFlight
           Now == Extends(checkpointFile, corpus.coverage, Len(corpus.entries), tasks, Results)
<1>0. /\ Len(corpus.entries) \in Nat
      /\ checkpointFile # None => checkpointFile.entryCount \in Nat
  BY LenProperties DEF Typed, ResultTyped, Corpora, DiskTyped, Checkpoints
<1>1. pc \notin Idle /\ checkpointFile # None => Now
  BY DEF Ahead
<1>2. CASE UNCHANGED <<corpus, checkpointFile>> /\ tasks' = tasks /\ Results' = Results
           /\ (pc' \notin Idle => pc \notin Idle) /\ (pc' \in Stopping => current' = None)
  BY <1>1, <1>2 DEF Ahead
<1>3. CASE Light
  <2>1. pc \in Clean => current = None
    BY DEF Typed, ResultTyped
  <2>2. (pc' \notin Idle => pc \notin Idle) /\ (pc' \in Stopping => current' = None)
    BY <1>3, <2>1 DEF Light, Ahead, Idle, Stopping, Clean
  <2> QED
    BY <1>2, <1>3, <2>2 DEF Light, schedule, accumulator, Results
<1>4. CASE LaunchRerun \/ Reseeded
  BY <1>2, <1>4 DEF LaunchRerun, FreeSlot, Reseeded, accumulator, disk, Results, Idle, Stopping
<1>5. CASE Mutated \/ Finish
  BY <1>2, <1>5 DEF Mutated, ReceiveMutation, Selecting, Finish, accumulator, disk, Results, Idle,
                    Stopping
<1>6. CASE ResumeRuns
  BY <1>6 DEF ResumeRuns, Ahead, Idle, Stopping
<1>7. CASE WriteCorpusEntry
  BY <1>2, <1>7 DEF WriteCorpusEntry, accumulator, Results, Idle, Stopping
<1>8. CASE RecordRun
  <2>1. /\ UNCHANGED <<rerun, inFlight, corpus, checkpointFile>> /\ pc = "record"
        /\ recorded' = recorded \cup {current} /\ current' = None
    BY <1>8 DEF RecordRun, schedule
  <2>2. current # None /\ None \notin recorded
    BY <2>1, NoneAssumption DEF Typed, ResultTyped
  <2>3. Results' = Results
    BY <2>1, <2>2 DEF Results
  <2> QED
    BY <1>2, <2>1, <2>3 DEF Idle
<1>9. CASE Saved
  <2>1. /\ UNCHANGED <<rerun, inFlight, corpus, recorded, current>> /\ checkpointFile' = Checkpoint
        /\ pc' = "loop"
    BY <1>9 DEF Saved, memory, schedule, accumulator
  <2>2. Results' = Results /\ recorded \subseteq Results
    BY <2>1 DEF Results
  <2>3. Extends(Checkpoint, corpus.coverage, Len(corpus.entries), tasks, Results)
    BY <1>0, <2>2, CheckpointFields DEF Extends, Kept
  <2> QED
    BY <2>1, <2>2, <2>3 DEF Ahead, Stopping
<1>10. CASE Ends
  BY <1>10 DEF Ends, Exit, Ahead, Idle, Stopping
<1>11. CASE LaunchNew
  <2>1. /\ UNCHANGED <<recorded, current, corpus, checkpointFile, pc>> /\ pc = "loop"
        /\ tasks \subseteq tasks'
    BY <1>11 DEF LaunchNew, FreeSlot, accumulator, disk
  <2>2. Results' = Results
    BY <2>1 DEF Results
  <2>3. \A task \in tasks : Kept(task, tasks', Results)
    BY <2>1 DEF Kept
  <2>4. checkpointFile # None => Now
    BY <1>1, <2>1 DEF Idle
  <2>5. checkpointFile # None => Now'
    <3> HIDE DEF tasks
    <3> QED
      BY <1>0, <2>1, <2>2, <2>3, <2>4, ExtendsMore
  <2> QED
    BY <2>1, <2>5 DEF Ahead, Stopping
<1>12. CASE Received
  <2> SUFFICES ASSUME NEW task \in inFlight, NEW outcome \in Outcomes, NEW states \in Visits,
                      ReceiveExecution(task, outcome, states)
               PROVE  Ahead'
    BY <1>12 DEF Received
  <2>1. /\ tasks' = tasks \ {task} /\ pc = "loop" /\ pc' \in {"corpus", "record"}
        /\ UNCHANGED <<checkpointFile, recorded>>
        /\ current'.index = task.index /\ current'.candidate = task.candidate
    BY ReceivedTask DEF ReceiveExecution
  <2>2. current = None /\ current' # None
    BY <1>12, <2>1, ResultStep DEF Typed, ResultTyped, Clean
  <2>3. Results' = Results \cup {current'}
    BY <2>1, <2>2 DEF Results
  <2>4. \A t \in tasks : Kept(t, tasks', Results')
    BY <2>1, <2>3 DEF Kept
  <2>5. corpus.coverage \subseteq corpus'.coverage
        /\ Len(corpus.entries) <= Len(corpus'.entries) /\ Len(corpus'.entries) \in Nat
    <3>1. corpus' \in {corpus, Consider(corpus, states, task.index)}
      BY DEF ReceiveExecution
    <3>2. CASE corpus' = corpus
      BY <1>0, <3>2
    <3>3. CASE corpus' = Consider(corpus, states, task.index)
      <4>1. corpus.coverage \subseteq corpus'.coverage
            /\ corpus'.entries \in {corpus.entries,
                                    Append(corpus.entries, EntryFor(corpus, states, task.index))}
        BY <3>3 DEF Consider
      <4>2. corpus.entries \in Seq(Entries)
        BY DEF Typed, ResultTyped, Corpora
      <4>3. Len(Append(corpus.entries, EntryFor(corpus, states, task.index)))
              = Len(corpus.entries) + 1
        BY <4>2
      <4> QED
        BY <1>0, <4>1, <4>3
    <3> QED
      BY <3>1, <3>2, <3>3
  <2>6. checkpointFile # None => Now
    BY <1>1, <2>1 DEF Idle
  <2>7. checkpointFile # None => Now'
    <3>1. Results \subseteq Results'
      BY <2>3
    <3> HIDE DEF tasks
    <3> QED
      BY <1>0, <2>1, <2>4, <2>5, <2>6, <3>1, ExtendsMore, ZenonT(30)
  <2> QED
    BY <2>1, <2>7 DEF Ahead, Stopping
<1>13. CASE ResumeLoop
  <2> DEFINE c == checkpointFile
  <2>1. /\ UNCHANGED <<checkpointFile, current>> /\ c # None /\ pc = "resuming" /\ pc' = "opened"
        /\ rerun' = c.inFlight /\ inFlight' = {} /\ recorded' = c.recorded
        /\ corpus'.coverage = c.coverage /\ Len(corpus'.entries) = c.entryCount
    BY <1>13, ResumedCorpus DEF ResumeLoop
  <2>2. c.recorded \subseteq Results'
    <3>1. current' = None /\ None \notin c.recorded
      BY <2>1, NoneAssumption DEF Typed, ResultTyped, DiskTyped, Checkpoints, Idle
    <3> QED
      BY <2>1, <3>1 DEF Results
  <2>3. Now'
    <3>1. c.entryCount \in Nat /\ \A task \in c.inFlight : Kept(task, tasks', Results')
      BY <1>0, <2>1 DEF Kept
    <3> QED
      BY <2>1, <2>2, <3>1 DEF Extends
  <2> QED
    BY <2>1, <2>3 DEF Ahead, Stopping
<1> QED
  BY Steps, <1>3, <1>4, <1>5, <1>6, <1>7, <1>8, <1>9, <1>10, <1>11, <1>12, <1>13

\* What DurableProgress says of one step.
Progress ==
    checkpointFile # None =>
        /\ checkpointFile.recorded \subseteq checkpointFile'.recorded
        /\ checkpointFile.coverage \subseteq checkpointFile'.coverage
        /\ checkpointFile.entryCount <= checkpointFile'.entryCount
        /\ \A task \in checkpointFile.inFlight :
              \/ task \in checkpointFile'.inFlight
              \/ \E run \in checkpointFile'.recorded :
                    run.index = task.index /\ run.candidate = task.candidate

\* A checkpoint is replaced only by one that extends it.
LEMMA AheadProgresses ==
    ASSUME Typed, Ahead, [Next]_vars
    PROVE  [Progress]_checkpointFile
<1> SUFFICES ASSUME checkpointFile' # checkpointFile, checkpointFile # None PROVE Progress
  BY DEF Progress
<1>1. checkpointFile' = Checkpoint /\ pc \in Clean \cup Stopping
  <2>1. Saved \/ Ends
    BY Steps DEF Light, LaunchRerun, LaunchNew, Reseeded, Received, ReceiveExecution,
                 WriteCorpusEntry, RecordRun, Mutated, ReceiveMutation, Finish, ResumeRuns,
                 ResumeLoop, disk
  <2> QED
    BY <2>1 DEF Saved, Ends
<1>2. current = None /\ pc \notin Idle
  BY <1>1 DEF Ahead, Typed, ResultTyped, Clean, Stopping, Idle
<1>3. Extends(checkpointFile, corpus.coverage, Len(corpus.entries), rerun \cup inFlight, recorded)
  BY <1>2, NoneRecorded DEF Ahead
<1> QED
  BY <1>1, <1>3, CheckpointFields DEF Extends, Kept, Progress

\* Unless corpus.jsonl cannot be written, a checkpoint never undoes the one it
\* replaces: what is recorded and covered stays so, and a task in flight is
\* still in flight or recorded under its index, through any number of crashes
\* and resumes from older checkpoints.
THEOREM ProgressCorrect ==
    ASSUME FailingHooks \cap {"corpus", "corpus_written"} = {}
    PROVE  Spec => DurableProgress
<1>1. Init => Journaled /\ Ahead
  BY JournaledInit DEF Init, Ahead, Stopping
<1>2. Journaled /\ Ahead /\ [Next]_vars => Journaled' /\ Ahead'
  BY JournaledStep, AheadStep DEF Journaled
<1>3. Journaled /\ Ahead /\ [Next]_vars => [Progress]_checkpointFile
  BY AheadProgresses DEF Journaled
<1>4. Spec => [][Progress]_checkpointFile
  BY <1>1, <1>2, <1>3, PTL DEF Spec
<1> QED
  BY <1>4 DEF DurableProgress, Progress

=============================================================================
