------------------------------ MODULE Feedback ------------------------------
(***************************************************************************)
(* The feedback experiment: Runner.RunFeedback of internal/experiment, the *)
(* experiment store of cmd/modelfuzz-ng it writes through, and resuming    *)
(* from a checkpoint after the process ended or was killed.                *)
(*                                                                         *)
(* One goroutine, the loop, owns every variable in memory.  Executions and *)
(* mutations run beside it and report through buffered channels that never *)
(* block, so a report is modelled at the moment the loop receives it, with *)
(* any outcome, in any order between executions and in request order for   *)
(* mutations.  pc names the next thing the loop does.  Everything between  *)
(* two writes to disk is one step, so a crash may fall between any two     *)
(* writes.  An interruption (a crash, a cancelled context, a hook or an    *)
(* initializer that fails) is counted and bounded by MaxInterruptions.     *)
(***************************************************************************)
EXTENDS Corpus

CONSTANTS
    Runs, Parallelism, InitialPopulation, MaxReadyCandidates,
    MutationsPerNewState, MaxMutationsPerCorpus,
    RandomSeedInterval, RandomSeedsPerInterval,    \* interval 0 = disabled
    CheckpointEvery,
    Visits,             \* the sets of model states an execution may visit
    FailingHooks,       \* which hooks may fail, and how
    MaxInterruptions,   \* bound
    None                \* no checkpoint, no current run

ASSUME SettingsAssumption ==
    /\ {Runs, Parallelism, InitialPopulation, MaxReadyCandidates, MutationsPerNewState,
        MaxMutationsPerCorpus, CheckpointEvery} \subseteq Nat \ {0}
    /\ {RandomSeedInterval, RandomSeedsPerInterval, MaxInterruptions} \subseteq Nat
    /\ RandomSeedInterval > 0 => RandomSeedsPerInterval > 0
    /\ Parallelism <= Runs /\ InitialPopulation <= Runs
    /\ \A states \in Visits : states \subseteq ModelStates /\ IsFiniteSet(states)

\* A hook that fails writes nothing, or fails after its line is in the file.
ASSUME HooksAssumption ==
    FailingHooks \subseteq {"event", "event_written", "corpus", "corpus_written",
                           "run", "run_written", "checkpoint"}

VARIABLES
    \* the scheduler
    ready,              \* candidates waiting, oldest first
    rerun,              \* tasks in flight in the checkpoint resumed from
    inFlight,           \* tasks executing
    pending,            \* mutation requests, in the order they are answered
    nextCandidateID, nextRunIndex, completed, nextRandomSeedAt, randomSeedsDue, eventSequence,
    corpus,
    recorded, report,   \* the accumulator: run summaries and queue counters
    pc, current,        \* where the loop is, and the run it is recording
    cancelled,          \* the caller's context is cancelled
    \* the disk
    checkpointFile, runsFile, corpusFile,
    lastEvent,          \* sequence of the last line of progress.jsonl
    interruptions

schedule == <<ready, rerun, inFlight, pending, nextCandidateID, nextRunIndex, completed,
              nextRandomSeedAt, randomSeedsDue>>
accumulator == <<recorded, report>>
memory == <<schedule, eventSequence, corpus, accumulator, current, cancelled>>
disk == <<checkpointFile, runsFile, corpusFile, lastEvent>>
vars == <<memory, pc, disk, interruptions>>

Indices == 0..(Runs - 1)

Queued == [id : Nat, kind : {"initial", "mutation"}]
Candidates == [id : Nat, kind : {"initial", "mutation", "periodic_random"}]
Tasks == [index : Indices, candidate : Candidates]
Requests == [entry : Nat, run : Indices, count : 1..MaxMutationsPerCorpus]
Summaries ==
    [index : Indices, candidate : Candidates,
     outcome : {"succeeded", "failed", "cancelled"}, states : SUBSET ModelStates,
     retained : BOOLEAN, newStates : SUBSET ModelStates, newSemantic : SUBSET SemanticKeys]
Reports == [initial : Nat, mutations : Nat, random : Nat, generated : Nat, admitted : Nat,
            discarded : Nat, peak : Nat]

Candidate(kind) == [id |-> nextCandidateID, kind |-> kind]

----------------------------------------------------------------------------
(* The checkpoint.                                                         *)

\* Mutant of Checkpoint: tasks still to be rerun are not carried over.
CheckpointWithoutReruns ==
    [ready |-> ready, inFlight |-> inFlight, pending |-> pending,
     nextCandidateID |-> nextCandidateID, nextRunIndex |-> nextRunIndex, completed |-> completed,
     nextRandomSeedAt |-> nextRandomSeedAt, randomSeedsDue |-> randomSeedsDue,
     eventSequence |-> eventSequence, coverage |-> corpus.coverage,
     semantic |-> corpus.semantic, entryCount |-> Len(corpus.entries),
     recorded |-> recorded, report |-> report]

\* RunSummaryCount is always Completed; in-flight tasks are those executing
\* and those still to be rerun.
Checkpoint ==
    [ready |-> ready, inFlight |-> rerun \cup inFlight, pending |-> pending,
     nextCandidateID |-> nextCandidateID, nextRunIndex |-> nextRunIndex, completed |-> completed,
     nextRandomSeedAt |-> nextRandomSeedAt, randomSeedsDue |-> randomSeedsDue,
     eventSequence |-> eventSequence, coverage |-> corpus.coverage,
     semantic |-> corpus.semantic, entryCount |-> Len(corpus.entries),
     recorded |-> recorded, report |-> report]

Checkpoints ==
    [ready : Seq(Queued), inFlight : SUBSET Tasks, pending : Seq(Requests),
     nextCandidateID : Nat, nextRunIndex : Nat, completed : Nat, nextRandomSeedAt : Nat,
     randomSeedsDue : Nat, eventSequence : Nat, coverage : SUBSET ModelStates,
     semantic : SUBSET SemanticKeys, entryCount : Nat, recorded : SUBSET Summaries,
     report : Reports]

ASSUME NoneAssumption == None \notin Summaries \cup Checkpoints

RecordedIndices(c) == {run.index : run \in c.recorded}

\* AggregationSnapshot.Validate: the counters of the report agree.
AggregationValid(c) ==
    /\ Cardinality(c.recorded) = c.completed
    /\ c.report.initial + c.report.mutations + c.report.random = c.completed
    /\ c.report.mutations <= c.report.admitted
    /\ c.report.peak <= MaxReadyCandidates
    /\ Cardinality({run \in c.recorded : run.retained}) = c.entryCount

\* Checkpoint.Validate, for a checkpoint of this very configuration.
Valid(c) ==
    /\ c.completed <= c.nextRunIndex /\ c.nextRunIndex <= Runs
    /\ IF RandomSeedInterval = 0 THEN c.nextRandomSeedAt = 0 /\ c.randomSeedsDue = 0
                                 ELSE c.nextRandomSeedAt > c.completed
    /\ Len(c.ready) <= MaxReadyCandidates /\ Len(c.ready) <= c.report.peak
    /\ IsInjective([i \in DOMAIN c.pending |-> c.pending[i].entry])
    /\ \A i \in DOMAIN c.pending : c.pending[i].entry < c.entryCount
    /\ AggregationValid(c)
    /\ c.completed + Cardinality(c.inFlight) = c.nextRunIndex
    /\ RecordedIndices(c) \cap {task.index : task \in c.inFlight} = {}
    /\ RecordedIndices(c) \cup {task.index : task \in c.inFlight} = 0..(c.nextRunIndex - 1)
    /\ Cardinality(UNION {{run.index} \X run.newSemantic : run \in c.recorded})
         = Cardinality(c.semantic)
    /\ c.coverage \subseteq UNION {run.states : run \in c.recorded}

----------------------------------------------------------------------------
(* The hooks: what is written, and where the loop goes on or gives up.     *)

Interrupt == interruptions < MaxInterruptions /\ interruptions' = interruptions + 1

\* OnEvent appends one line to progress.jsonl; the sequence is kept if it succeeds.
EventWritten == lastEvent' = eventSequence + 1 /\ eventSequence' = eventSequence + 1

EventFails ==
    /\ \/ "event" \in FailingHooks /\ UNCHANGED lastEvent
       \/ "event_written" \in FailingHooks /\ lastEvent' = eventSequence + 1
    /\ UNCHANGED eventSequence

\* emit: the loop goes on, or gives up on an error of the hook.
Emit(then) ==
    \/ EventWritten /\ pc' = then /\ UNCHANGED interruptions
    \/ EventFails /\ Interrupt /\ pc' = "stop_event"

\* checkpoint(force) replaces checkpoint.json, atomically.
Save(force, then) ==
    \/ /\ checkpointFile' = IF force \/ completed % CheckpointEvery = 0
                            THEN Checkpoint ELSE checkpointFile
       /\ pc' = then
       /\ UNCHANGED interruptions
    \/ /\ "checkpoint" \in FailingHooks /\ Interrupt
       /\ force \/ completed % CheckpointEvery = 0
       /\ pc' = "stop_event"
       /\ UNCHANGED checkpointFile

EmitOpened ==
    /\ pc = "opened" /\ Emit("first_checkpoint")
    /\ UNCHANGED <<schedule, corpus, accumulator, current, cancelled,
                   checkpointFile, runsFile, corpusFile>>

SaveFirst ==
    /\ pc = "first_checkpoint" /\ Save(TRUE, "loop")
    /\ UNCHANGED <<memory, runsFile, corpusFile, lastEvent>>

----------------------------------------------------------------------------
(* The loop: launching.                                                    *)

FreeSlot == pc = "loop" /\ Cardinality(inFlight) < Parallelism

\* Unfinished tasks of the resumed checkpoint go first, lowest index first.
LaunchRerun ==
    /\ FreeSlot /\ rerun # {}
    /\ \E task \in rerun :
          /\ \A other \in rerun : task.index <= other.index
          /\ rerun' = rerun \ {task} /\ inFlight' = inFlight \cup {task}
    /\ UNCHANGED <<ready, pending, nextCandidateID, nextRunIndex, completed, nextRandomSeedAt,
                   randomSeedsDue, eventSequence, corpus, accumulator, pc, current, cancelled,
                   disk, interruptions>>

Launchable == nextRunIndex < Runs /\ (randomSeedsDue > 0 \/ ready # <<>>)

\* Random seeds that are due take the next run indices, then the oldest
\* candidate does.
LaunchNew ==
    /\ FreeSlot /\ rerun = {} /\ Launchable
    /\ \/ /\ randomSeedsDue > 0
          /\ inFlight' = inFlight \cup {[index |-> nextRunIndex,
                                         candidate |-> Candidate("periodic_random")]}
          /\ nextCandidateID' = nextCandidateID + 1
          /\ randomSeedsDue' = randomSeedsDue - 1
          /\ UNCHANGED ready
       \/ /\ randomSeedsDue = 0
          /\ inFlight' = inFlight \cup {[index |-> nextRunIndex, candidate |-> Head(ready)]}
          /\ ready' = Tail(ready)
          /\ UNCHANGED <<nextCandidateID, randomSeedsDue>>
    /\ nextRunIndex' = nextRunIndex + 1
    /\ UNCHANGED <<rerun, pending, completed, nextRandomSeedAt, eventSequence, corpus,
                   accumulator, pc, current, cancelled, disk, interruptions>>

Full == Cardinality(inFlight) = Parallelism \/ (rerun = {} /\ ~Launchable)

\* Mutant of Starved: a retained run is trusted to bring mutations.
StarvedUntilRetained ==
    /\ inFlight = {} /\ ready = <<>> /\ pending = <<>> /\ nextRunIndex < Runs
    /\ corpus.entries = <<>>

Starved == inFlight = {} /\ ready = <<>> /\ pending = <<>> /\ nextRunIndex < Runs

\* Nothing executes, waits or is being mutated: one new initial candidate.
Reseed ==
    /\ pc = "loop" /\ Full /\ completed < Runs /\ Starved
    /\ \/ /\ ready' = <<Candidate("initial")>>
          /\ nextCandidateID' = nextCandidateID + 1
          /\ UNCHANGED <<pc, interruptions>>
       \/ Interrupt /\ pc' = "stop_event" /\ UNCHANGED <<ready, nextCandidateID>>
    /\ UNCHANGED <<rerun, inFlight, pending, nextRunIndex, completed, nextRandomSeedAt,
                   randomSeedsDue, eventSequence, corpus, accumulator, current, cancelled, disk>>

----------------------------------------------------------------------------
(* The loop: an execution result.                                          *)

Selecting == pc = "loop" /\ Full /\ completed < Runs /\ ~Starved

\* An execution may be cut short, with an error, once the context is cancelled.
Outcomes == {"succeeded", "failed"} \cup (IF cancelled THEN {"cancelled"} ELSE {})

RandomSeedReached == RandomSeedInterval > 0 /\ completed + 1 >= nextRandomSeedAt

\* Mutant of CountExecution: the threshold advances but no seed becomes due.
CountExecutionWithoutSeeds ==
    /\ completed' = completed + 1
    /\ nextRandomSeedAt' = nextRandomSeedAt + IF RandomSeedReached THEN RandomSeedInterval ELSE 0
    /\ UNCHANGED randomSeedsDue

\* The threshold moves with completed executions, one at a time.
CountExecution ==
    /\ completed' = completed + 1
    /\ nextRandomSeedAt' = nextRandomSeedAt + IF RandomSeedReached THEN RandomSeedInterval ELSE 0
    /\ randomSeedsDue' = randomSeedsDue + IF RandomSeedReached THEN RandomSeedsPerInterval ELSE 0

ReceiveExecution(task, outcome, states) ==
    LET considered == outcome = "succeeded" /\ states # {}
        retained == considered /\ Retains(corpus, states)
    IN
    /\ Selecting /\ task \in inFlight
    /\ inFlight' = inFlight \ {task}
    /\ CountExecution
    /\ report' = [report EXCEPT !.initial = @ + IF task.candidate.kind = "initial" THEN 1 ELSE 0,
                                !.mutations = @ + IF task.candidate.kind = "mutation" THEN 1 ELSE 0]
    /\ corpus' = IF considered THEN Consider(corpus, states, task.index) ELSE corpus
    /\ current' = [index |-> task.index, candidate |-> task.candidate, outcome |-> outcome,
                   states |-> states, retained |-> retained,
                   newStates |-> IF considered THEN NewStates(corpus, states) ELSE {},
                   newSemantic |-> IF considered THEN NewSemantic(corpus, states) ELSE {}]
    /\ pc' = IF retained THEN "corpus" ELSE "record"
    /\ UNCHANGED <<ready, rerun, pending, nextCandidateID, nextRunIndex, eventSequence, recorded,
                   cancelled, disk, interruptions>>

\* Mutant of MutationCount: the cap is forgotten.
MutationCountUncapped ==
    LET novelty == IF current.newSemantic = {} THEN 1 ELSE Cardinality(current.newSemantic)
    IN  novelty * MutationsPerNewState

\* mutationCount of the semantic novelty of the retained run, one at least.
MutationCount ==
    LET novelty == IF current.newSemantic = {} THEN 1 ELSE Cardinality(current.newSemantic)
    IN  IF novelty * MutationsPerNewState < MaxMutationsPerCorpus
        THEN novelty * MutationsPerNewState ELSE MaxMutationsPerCorpus

\* OnCorpusEntry appends to corpus.jsonl; a mutation is requested if a run
\* index is left for it.  On failure the corpus is rolled back.
WriteCorpusEntry ==
    /\ pc = "corpus"
    /\ \/ /\ corpusFile' = Append(corpusFile, Last(corpus.entries))
          /\ pending' = IF nextRunIndex < Runs
                        THEN Append(pending, [entry |-> Last(corpus.entries).id,
                                              run |-> current.index, count |-> MutationCount])
                        ELSE pending
          /\ pc' = "record"
          /\ UNCHANGED <<corpus, interruptions>>
       \/ /\ Interrupt
          /\ \/ "corpus" \in FailingHooks /\ UNCHANGED corpusFile
             \/ /\ "corpus_written" \in FailingHooks
                /\ corpusFile' = Append(corpusFile, Last(corpus.entries))
          /\ corpus' = RollbackLast(corpus)
          /\ pc' = "stop_event"
          /\ UNCHANGED pending
    /\ UNCHANGED <<ready, rerun, inFlight, nextCandidateID, nextRunIndex, completed,
                   nextRandomSeedAt, randomSeedsDue, eventSequence, accumulator, current,
                   cancelled, checkpointFile, runsFile, lastEvent>>

\* addRun, then OnRunComplete appends to runs.jsonl and writes the artifacts.
RecordRun ==
    /\ pc = "record"
    /\ recorded' = recorded \cup {current}
    /\ report' = [report EXCEPT
                    !.random = @ + IF current.candidate.kind = "periodic_random" THEN 1 ELSE 0]
    /\ \/ /\ runsFile' = Append(runsFile, current)
          /\ pc' = "run_event"
          /\ UNCHANGED interruptions
       \/ /\ Interrupt
          /\ \/ "run" \in FailingHooks /\ UNCHANGED runsFile
             \/ "run_written" \in FailingHooks /\ runsFile' = Append(runsFile, current)
          /\ pc' = "stop_event"
    /\ current' = None
    /\ UNCHANGED <<schedule, eventSequence, corpus, cancelled, checkpointFile, corpusFile, lastEvent>>

EmitRun ==
    /\ pc = "run_event" /\ Emit("checkpoint")
    /\ UNCHANGED <<schedule, corpus, accumulator, current, cancelled,
                   checkpointFile, runsFile, corpusFile>>

SaveRun ==
    /\ pc = "checkpoint" /\ Save(FALSE, "loop")
    /\ UNCHANGED <<memory, runsFile, corpusFile, lastEvent>>

----------------------------------------------------------------------------
(* The loop: a mutation result.                                            *)

\* The part of the schedule that admitting a plan changes.
Queue == [ready |-> ready, nextID |-> nextCandidateID, admitted |-> report.admitted,
          discarded |-> report.discarded, peak |-> report.peak]

\* Mutant of Admit: what is refused or dropped is not counted.
AdmitUncounted(q) ==
    LET kept == IF Len(q.ready) = MaxReadyCandidates THEN Tail(q.ready) ELSE q.ready
        next == Append(kept, [id |-> q.nextID, kind |-> "mutation"])
    IN  IF nextRunIndex + Len(q.ready) >= Runs THEN q
        ELSE [q EXCEPT !.ready = next, !.nextID = @ + 1, !.admitted = @ + 1,
                       !.peak = IF Len(next) > @ THEN Len(next) ELSE @]

\* One mutated plan: refused when the queue already covers the remaining run
\* indices, otherwise queued, the oldest candidate making room if need be.
Admit(q) ==
    LET full == Len(q.ready) = MaxReadyCandidates
        next == Append(IF full THEN Tail(q.ready) ELSE q.ready, [id |-> q.nextID, kind |-> "mutation"])
    IN  IF nextRunIndex + Len(q.ready) >= Runs THEN [q EXCEPT !.discarded = @ + 1]
        ELSE [q EXCEPT !.ready = next, !.nextID = @ + 1, !.admitted = @ + 1,
                       !.discarded = @ + IF full THEN 1 ELSE 0,
                       !.peak = IF Len(next) > @ THEN Len(next) ELSE @]

\* The queue after each of count mutated plans.
Admitted[count \in Nat] == IF count = 0 THEN Queue ELSE Admit(Admitted[count - 1])

\* The mutator answers the oldest request with up to as many plans as asked,
\* or with an error; either way the request is no longer pending.
ReceiveMutation(plans) ==
    LET q == Admitted[plans] IN
    /\ Selecting /\ pending # <<>> /\ plans <= Head(pending).count
    /\ pending' = Tail(pending)
    /\ ready' = q.ready /\ nextCandidateID' = q.nextID
    /\ report' = [report EXCEPT !.generated = @ + plans, !.admitted = q.admitted,
                                !.discarded = q.discarded, !.peak = q.peak]
    /\ pc' = "mutation_event"
    /\ UNCHANGED <<rerun, inFlight, nextRunIndex, completed, nextRandomSeedAt, randomSeedsDue,
                   eventSequence, corpus, recorded, current, cancelled, disk, interruptions>>

\* There is no checkpoint after a mutation.
EmitMutation ==
    /\ pc = "mutation_event" /\ Emit("loop")
    /\ UNCHANGED <<schedule, corpus, accumulator, current, cancelled,
                   checkpointFile, runsFile, corpusFile>>

----------------------------------------------------------------------------
(* Stopping and finishing.                                                 *)

Running == pc # "down"

CancelContext ==
    /\ Running /\ ~cancelled /\ Interrupt
    /\ cancelled' = TRUE
    /\ UNCHANGED <<schedule, eventSequence, corpus, accumulator, pc, current, disk>>

\* The loop's select notices the cancelled context.
StopOnCancel ==
    /\ Selecting /\ cancelled
    /\ pc' = "stop_event"
    /\ UNCHANGED <<memory, disk, interruptions>>

\* stopWithError: whatever still executes is abandoned, errors of the hooks
\* are ignored, and the last checkpoint is forced.
EmitStopped ==
    /\ pc = "stop_event"
    /\ pc' = "stop_checkpoint"
    /\ EventWritten \/ EventFails
    /\ UNCHANGED <<schedule, corpus, accumulator, current, cancelled, checkpointFile,
                   runsFile, corpusFile, interruptions>>

\* The process ends: nothing is left in memory.
Exit ==
    /\ ready' = <<>> /\ rerun' = {} /\ inFlight' = {} /\ pending' = <<>>
    /\ nextCandidateID' = 0 /\ nextRunIndex' = 0 /\ completed' = 0
    /\ nextRandomSeedAt' = 0 /\ randomSeedsDue' = 0 /\ eventSequence' = 0
    /\ corpus' = EmptyCorpus /\ recorded' = {} /\ report' = None
    /\ current' = None /\ cancelled' = FALSE /\ pc' = "down"

SaveStopped ==
    /\ pc = "stop_checkpoint"
    /\ \/ checkpointFile' = Checkpoint
       \/ "checkpoint" \in FailingHooks /\ UNCHANGED checkpointFile
    /\ Exit
    /\ UNCHANGED <<runsFile, corpusFile, lastEvent, interruptions>>

\* Every run index is recorded: what is left in the queues is given up.
Finish ==
    /\ pc = "loop" /\ completed = Runs
    /\ ready' = <<>> /\ randomSeedsDue' = 0 /\ pending' = <<>>
    /\ pc' = "end_event"
    /\ UNCHANGED <<rerun, inFlight, nextCandidateID, nextRunIndex, completed, nextRandomSeedAt,
                   eventSequence, corpus, accumulator, current, cancelled, disk, interruptions>>

\* An error of these two hooks is returned as it is, with no other attempt.
EmitFinished ==
    /\ pc = "end_event"
    /\ \/ /\ EventWritten /\ pc' = "end_checkpoint"
          /\ UNCHANGED <<schedule, corpus, accumulator, current, cancelled, interruptions>>
       \/ /\ \/ "event" \in FailingHooks /\ UNCHANGED lastEvent
             \/ "event_written" \in FailingHooks /\ lastEvent' = eventSequence + 1
          /\ Interrupt /\ Exit
    /\ UNCHANGED <<checkpointFile, runsFile, corpusFile>>

SaveFinished ==
    /\ pc = "end_checkpoint"
    /\ \/ checkpointFile' = Checkpoint /\ UNCHANGED interruptions
       \/ "checkpoint" \in FailingHooks /\ Interrupt /\ UNCHANGED checkpointFile
    /\ Exit
    /\ UNCHANGED <<runsFile, corpusFile, lastEvent>>

----------------------------------------------------------------------------
(* A crash, and resuming.                                                  *)

\* The process is killed: what is not on disk is lost.  A line of a journal
\* that was cut short is removed when the journal is opened again.
Crash ==
    /\ Running /\ Interrupt
    /\ Exit
    /\ UNCHANGED disk

\* Mutant of Truncated: the lines after the watermark are kept.
KeptWhole(file, watermark) == file

\* KeepJSONLines drops the lines after the checkpoint's watermark.
Truncated(file, watermark) == SubSeq(file, 1, watermark)

\* The checkpoint is validated and the runs after its watermark are cut off.
ResumeRuns ==
    /\ pc = "down" /\ checkpointFile # None
    /\ checkpointFile.completed < Runs \/ interruptions < MaxInterruptions
    /\ Valid(checkpointFile)
    /\ Len(runsFile) >= checkpointFile.completed
    /\ runsFile' = Truncated(runsFile, checkpointFile.completed)
    /\ interruptions' = interruptions + IF checkpointFile.completed < Runs THEN 0 ELSE 1
    /\ pc' = "resuming"
    /\ UNCHANGED <<memory, checkpointFile, corpusFile, lastEvent>>

\* Mutant of ResumedSequence: progress.jsonl is not consulted.
CheckpointSequence == checkpointFile.eventSequence

\* Event numbers go on after the last line of progress.jsonl.
ResumedSequence == IF lastEvent > checkpointFile.eventSequence
                   THEN lastEvent ELSE checkpointFile.eventSequence

\* Then the corpus entries; the state of the loop is the checkpoint's, with
\* pending mutations requested again in the order of their runs.
ResumeLoop ==
    LET c == checkpointFile
        entries == Truncated(corpusFile, c.entryCount)
    IN
    /\ pc = "resuming"
    /\ Len(corpusFile) >= c.entryCount
    /\ corpusFile' = entries
    /\ Restores(c.coverage, c.semantic, entries)
    /\ corpus' = [coverage |-> c.coverage, semantic |-> c.semantic, entries |-> entries]
    /\ ready' = c.ready /\ rerun' = c.inFlight /\ inFlight' = {}
    /\ \E order \in [DOMAIN c.pending -> DOMAIN c.pending] :
          /\ IsInjective(order)
          /\ pending' = [i \in DOMAIN c.pending |-> c.pending[order[i]]]
          /\ \A i, j \in DOMAIN c.pending : i < j => pending'[i].run <= pending'[j].run
    /\ nextCandidateID' = c.nextCandidateID /\ nextRunIndex' = c.nextRunIndex
    /\ completed' = c.completed /\ nextRandomSeedAt' = c.nextRandomSeedAt
    /\ randomSeedsDue' = c.randomSeedsDue
    /\ eventSequence' = ResumedSequence
    /\ recorded' = c.recorded /\ report' = c.report
    /\ pc' = "opened"
    /\ UNCHANGED <<current, cancelled, checkpointFile, runsFile, lastEvent, interruptions>>

----------------------------------------------------------------------------

\* A fresh experiment, its directory empty and its initial population made;
\* the newest candidates are kept if they exceed the queue.
InitiallyLost == IF InitialPopulation > MaxReadyCandidates
                 THEN InitialPopulation - MaxReadyCandidates ELSE 0

Init ==
    /\ ready = [i \in 1..(InitialPopulation - InitiallyLost) |->
                    [id |-> InitiallyLost + i - 1, kind |-> "initial"]]
    /\ rerun = {} /\ inFlight = {} /\ pending = <<>>
    /\ nextCandidateID = InitialPopulation /\ nextRunIndex = 0 /\ completed = 0
    /\ nextRandomSeedAt = RandomSeedInterval /\ randomSeedsDue = 0 /\ eventSequence = 0
    /\ corpus = EmptyCorpus /\ recorded = {}
    /\ report = [initial |-> 0, mutations |-> 0, random |-> 0, generated |-> 0,
                 admitted |-> 0, discarded |-> 0, peak |-> Len(ready)]
    /\ pc = "opened" /\ current = None /\ cancelled = FALSE
    /\ checkpointFile = None /\ runsFile = <<>> /\ corpusFile = <<>> /\ lastEvent = 0
    /\ interruptions = 0

Receive ==
    \/ \E task \in inFlight, outcome \in Outcomes, states \in Visits :
          ReceiveExecution(task, outcome, states)
    \/ \E plans \in 0..MaxMutationsPerCorpus : ReceiveMutation(plans)
    \/ StopOnCancel

Loop ==
    \/ LaunchRerun \/ LaunchNew \/ Reseed \/ Receive \/ Finish
    \/ WriteCorpusEntry \/ RecordRun \/ SaveRun
    \/ EmitOpened \/ SaveFirst \/ EmitRun \/ EmitMutation
    \/ EmitStopped \/ SaveStopped \/ EmitFinished \/ SaveFinished

Resume == ResumeRuns \/ ResumeLoop

Next == Loop \/ Resume \/ CancelContext \/ Crash

Spec == Init /\ [][Next]_vars

\* The loop keeps going as long as executions and mutations report, which
\* they do, each being bounded; and an unfinished experiment is resumed.
FairSpec == Spec /\ WF_vars(Loop) /\ WF_vars(Resume)

----------------------------------------------------------------------------
(* Properties.                                                             *)

Stages == {"opened", "first_checkpoint", "loop", "corpus", "record", "run_event", "checkpoint",
           "mutation_event", "stop_event", "stop_checkpoint", "end_event", "end_checkpoint",
           "down", "resuming"}

\* Every variable has its type; the queue respects MaxReadyCandidates and at
\* most Parallelism executions run (the bounds of internal/experiment Config).
TypeOK ==
    /\ ready \in Seq(Queued) /\ Len(ready) <= MaxReadyCandidates
    /\ rerun \subseteq Tasks /\ inFlight \subseteq Tasks /\ Cardinality(inFlight) <= Parallelism
    /\ pending \in Seq(Requests)
    /\ {nextCandidateID, nextRandomSeedAt, randomSeedsDue, eventSequence, lastEvent} \subseteq Nat
    /\ {nextRunIndex, completed} \subseteq 0..Runs /\ completed <= nextRunIndex
    /\ corpus \in Corpora /\ recorded \subseteq Summaries /\ report \in Reports \cup {None}
    /\ pc \in Stages /\ current \in Summaries \cup {None} /\ cancelled \in BOOLEAN
    /\ checkpointFile \in Checkpoints \cup {None}
    /\ runsFile \in Seq(Summaries) /\ corpusFile \in Seq(Entries)
    /\ interruptions \in 0..MaxInterruptions

FirstRuns(c) == ToSet(SubSeq(runsFile, 1, c.completed))
FirstEntries(c) == SubSeq(corpusFile, 1, c.entryCount)

\* Whenever the process dies, the checkpoint on disk can be resumed from:
\* Checkpoint.Validate accepts it, both journals are at least as long as its
\* watermarks, the corpus is restored from the kept entries, and the kept run
\* summaries are the ones the aggregation counts (runner.go checkpoint,
\* experiment_store.go openExperimentStore, corpus.go RestoreCheckpoint).
CheckpointRestorable ==
    checkpointFile # None =>
        /\ Valid(checkpointFile)
        /\ Len(runsFile) >= checkpointFile.completed
        /\ FirstRuns(checkpointFile) = checkpointFile.recorded
        /\ Len(corpusFile) >= checkpointFile.entryCount
        /\ Restores(checkpointFile.coverage, checkpointFile.semantic, FirstEntries(checkpointFile))

\* Crashes, retries and resumes put no run index twice into runs.jsonl and no
\* ID twice into corpus.jsonl, and an experiment that says it is complete has
\* the summary of every run (KeepJSONLines before OpenJournal).
JournalsUnique ==
    /\ IsInjective([i \in DOMAIN runsFile |-> runsFile[i].index])
    /\ IsInjective([i \in DOMAIN corpusFile |-> corpusFile[i].id])
    /\ pc = "end_event" => {runsFile[i].index : i \in DOMAIN runsFile} = Indices

\* A model state or semantic key is new in one recorded run only, and every
\* key covered is new in one of them, whatever the order in which executions
\* complete and however often the experiment is interrupted (Consider).
CoverageAttributedOnce ==
    pc = "loop" =>
        /\ corpus.coverage = UNION {run.newStates : run \in recorded}
        /\ corpus.semantic = UNION {run.newSemantic : run \in recorded}
        /\ \A a, b \in recorded : a # b =>
              a.newStates \cap b.newStates = {} /\ a.newSemantic \cap b.newSemantic = {}

\* No candidate is lost or duplicated: every ID given out is waiting, in
\* flight, executed, or counted as dropped from the queue (discarded counts
\* plans refused as well, which got no ID).  Once every run is recorded the
\* rest is given up.
CandidatesConserved ==
    report # None /\ completed < Runs =>
        LET refused == report.generated - report.admitted
            dropped == report.discarded - refused
        IN  nextCandidateID - InitiallyLost =
                Len(ready) + Cardinality(rerun \cup inFlight) + completed + dropped

SeedsOf(set) == Cardinality({x \in set : x.candidate.kind = "periodic_random"})

\* Seeds are injected once for every RandomSeedInterval completed executions,
\* neither repeated nor skipped by a resume (README 255): those due, in flight
\* and executed are as many as the thresholds passed call for.
PeriodicSeedsConserved ==
    RandomSeedInterval > 0 /\ report # None /\ completed < Runs =>
        /\ nextRandomSeedAt = RandomSeedInterval * (completed \div RandomSeedInterval + 1)
        /\ randomSeedsDue + SeedsOf(rerun \cup inFlight \cup recorded \cup ({current} \ {None}))
              = RandomSeedsPerInterval * (completed \div RandomSeedInterval)

\* A new checkpoint never undoes an older one: what is recorded and covered
\* stays so, and a task in flight in the older one is recorded or still in
\* flight, with the run index and the candidate it had (lifecycle.go 42-43).
DurableProgress ==
    [][ checkpointFile # None =>
          /\ checkpointFile.recorded \subseteq checkpointFile'.recorded
          /\ checkpointFile.coverage \subseteq checkpointFile'.coverage
          /\ checkpointFile.entryCount <= checkpointFile'.entryCount
          /\ \A task \in checkpointFile.inFlight :
                \/ task \in checkpointFile'.inFlight
                \/ \E run \in checkpointFile'.recorded :
                      run.index = task.index /\ run.candidate = task.candidate
      ]_checkpointFile

\* The sequence in progress.jsonl never goes back and never skips a number,
\* across failed writes, crashes and resumes from an older checkpoint.
EventsContiguous == [][lastEvent' = lastEvent + 1]_lastEvent

\* Once a checkpoint is written the experiment gets done: interruptions and
\* failed hooks being finitely many, every run index is recorded and the
\* checkpoint says so, unless a failure left a checkpoint that no resume takes
\* (see the findings on CheckpointRestorable).
EventuallyCompletes ==
    checkpointFile # None ~> \/ checkpointFile # None /\ checkpointFile.completed = Runs
                             \/ ~CheckpointRestorable

\* A candidate that had not finished when the experiment was interrupted is
\* rerun as it is (lifecycle.go 42-43, README 301): no run is recorded whose
\* execution was cut short by the cancelled context.
InterruptedRunsRerun ==
    checkpointFile # None => \A run \in checkpointFile.recorded : run.outcome # "cancelled"
=============================================================================
