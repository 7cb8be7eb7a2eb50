---------------------------- MODULE Persistence ----------------------------
(* One JSONL journal and the checkpoint beside it, at the level of the calls*)
(* to the file system (internal/persistence/files.go).  A line reaches the  *)
(* file in parts, what is written is durable only after a sync, and the     *)
(* process or the machine may stop between any two calls, those of the      *)
(* recovery included.                                                       *)
EXTENDS Integers, SequencesExt, FiniteSets

CONSTANTS
    Record,      \* What is appended: run summaries, corpus entries or events.
    Parts,       \* The parts a line is written in, its newline not counted.
    MaxLines,    \* Bound: lines in the file.
    MaxCrashes   \* Bound: how often the process or the machine stops.

ASSUME PersistenceAssumption ==
    /\ Parts \in Nat \ {0}
    /\ MaxLines \in Nat /\ MaxCrashes \in Nat

Mixed == "mixed"    \* A line made of parts of several records.
Absent == -1        \* There is no checkpoint.json.
Torn == -2          \* A checkpoint.json that does not decode.

ASSUME MixedAssumption == Mixed \notin Record

VARIABLES
    pc,          \* The call to the file system that comes next.
    watermarked, \* runs.jsonl and corpus.jsonl, as opposed to progress.jsonl.
    file,        \* The journal: its lines, and the parts after the last newline.
    survivors,   \* The contents the journal may have after a loss of power.
    line,        \* Append: the record, and how many of its parts are written.
    broken,      \* The sticky error of the bufio.Writer.
    failed,      \* The calls that returned an error: the experiment is stopping.
    acked,       \* The lines whose Append has returned without error.
    checkpoint,  \* checkpoint.json: the number of lines it counts.
    checkpoints, \* What checkpoint.json may be after a loss of power.
    temporary,   \* WriteJSONAtomic: the temporary file.
    crashes      \* How often the process or the machine has stopped.

journalVars == <<file, survivors, acked>>
checkpointVars == <<checkpoint, checkpoints, temporary>>
processVars == <<line, broken, failed>>
vars == <<pc, watermarked, journalVars, processVars, checkpointVars, crashes>>

-----------------------------------------------------------------------------
(* The file.                                                                *)
PartsOf(r) == [k \in 1..Parts |-> <<r, k>>]

\* The file with part k of record r at its end; the last one is the newline.
Put(f, r, k) ==
    IF k <= Parts
    THEN [f EXCEPT !.tail = Append(@, <<r, k>>)]
    ELSE [lines |-> Append(f.lines, IF f.tail = PartsOf(r) THEN r ELSE Mixed), tail |-> <<>>]

Contents(f) == file' = f /\ survivors' = survivors \cup {f}

\* Mutant of RepairPartialLine: the file is opened as the crash has left it.
RepairNothing == UNCHANGED <<file, survivors>>

\* repairPartialLine: everything after the last newline is cut off.
RepairPartialLine == Contents([file EXCEPT !.tail = <<>>])

\* Mutant of Sync: what was flushed counts as written.
SyncNothing == UNCHANGED <<file, survivors>>

\* file.Sync
Sync == survivors' = {file} /\ UNCHANGED file

NoLine == [record |-> Mixed, written |-> 0]
NoTemporary == [lines |-> Absent, synced |-> FALSE]

Init ==
    /\ pc = "new" /\ watermarked \in BOOLEAN
    /\ file = [lines |-> <<>>, tail |-> <<>>] /\ survivors = {file}
    /\ line = NoLine /\ broken = FALSE /\ failed = {} /\ acked = 0
    /\ checkpoint = Absent /\ checkpoints = {Absent} /\ temporary = NoTemporary
    /\ crashes = 0

-----------------------------------------------------------------------------
(* openExperimentStore: KeepJSONLines, for a journal with a watermark, and  *)
(* OpenJournal.  An error of the file system ends the program, as Stops     *)
(* does.                                                                    *)
Keep == IF checkpoint = Absent THEN 0 ELSE checkpoint

OpenStore ==
    /\ \/ pc = "new"
       \/ pc = "down" /\ checkpoint \notin {Absent, Torn}
    /\ pc' = IF watermarked THEN "keep" ELSE "open"
    /\ UNCHANGED <<watermarked, journalVars, processVars, checkpointVars, crashes>>

KeepRepairs ==
    /\ pc = "keep" /\ pc' = "count"
    /\ RepairPartialLine
    /\ UNCHANGED <<watermarked, acked, processVars, checkpointVars, crashes>>

KeepTruncates ==
    /\ pc = "count"
    /\ IF Len(file.lines) > Keep
       THEN Contents([lines |-> SubSeq(file.lines, 1, Keep), tail |-> <<>>])
       ELSE UNCHANGED <<file, survivors>>
    /\ pc' = IF Len(file.lines) < Keep THEN "down"
             ELSE IF Len(file.lines) = Keep THEN "open" ELSE "sync cut"
    /\ acked' = IF Len(file.lines) < Keep THEN acked ELSE Keep
    /\ UNCHANGED <<watermarked, processVars, checkpointVars, crashes>>

KeepSyncs ==
    /\ pc = "sync cut" /\ pc' = "open"
    /\ Sync
    /\ UNCHANGED <<watermarked, acked, processVars, checkpointVars, crashes>>

OpenJournal ==
    /\ pc = "open" /\ pc' = "ready"
    /\ RepairPartialLine
    /\ UNCHANGED <<watermarked, acked, processVars, checkpointVars, crashes>>

-----------------------------------------------------------------------------
(* Append.  After a failed write the writer refuses every later one; after a*)
(* failed sync it does not, but of the journals only progress.jsonl, which  *)
(* is told that the experiment stops, is written again.                     *)
BeginAppend(r) ==
    /\ pc = "ready" /\ ~broken /\ (failed # {} => ~watermarked)
    /\ Len(file.lines) < MaxLines
    /\ pc' = "write" /\ line' = [record |-> r, written |-> 0]
    /\ UNCHANGED <<watermarked, journalVars, broken, failed, checkpointVars, crashes>>

WritePart ==
    /\ pc = "write"
    /\ Contents(Put(file, line.record, line.written + 1))
    /\ line' = [line EXCEPT !.written = @ + 1]
    /\ pc' = IF line'.written > Parts THEN "sync" ELSE "write"
    /\ UNCHANGED <<watermarked, acked, broken, failed, checkpointVars, crashes>>

WriteFails ==
    /\ pc = "write" /\ pc' = "ready"
    /\ broken' = TRUE /\ failed' = failed \cup {"append"} /\ line' = NoLine
    /\ UNCHANGED <<watermarked, journalVars, checkpointVars, crashes>>

AppendSyncs ==
    /\ pc = "sync" /\ pc' = "ready"
    /\ Sync
    /\ acked' = Len(file.lines) /\ line' = NoLine
    /\ UNCHANGED <<watermarked, broken, failed, checkpointVars, crashes>>

AppendSyncFails ==
    /\ pc = "sync" /\ pc' = "ready"
    /\ failed' = failed \cup {"append"} /\ line' = NoLine
    /\ UNCHANGED <<watermarked, journalVars, broken, checkpointVars, crashes>>

-----------------------------------------------------------------------------
(* WriteJSONAtomic, for the checkpoint: temporary file, sync, rename, sync  *)
(* of the directory.  Only the last may fail unnoticed.  (The checkpoint    *)
(* forced after a failed Append of this journal is not written here: the    *)
(* runner counts the record that failed, see CheckpointRestorable of        *)
(* Feedback.)                                                               *)
WriteTemporary ==
    /\ pc = "ready" /\ (watermarked => "append" \notin failed)
    /\ pc' = "sync temporary"
    /\ temporary' = [lines |-> IF watermarked THEN acked ELSE 0, synced |-> FALSE]
    /\ UNCHANGED <<watermarked, journalVars, processVars, checkpoint, checkpoints, crashes>>

SyncTemporary ==
    /\ pc = "sync temporary" /\ pc' = "rename"
    /\ temporary' = [temporary EXCEPT !.synced = TRUE]
    /\ UNCHANGED <<watermarked, journalVars, processVars, checkpoint, checkpoints, crashes>>

TemporaryFails ==
    /\ pc \in {"sync temporary", "rename"} /\ pc' = "ready"
    /\ failed' = failed \cup {"checkpoint"} /\ temporary' = NoTemporary
    /\ UNCHANGED <<watermarked, journalVars, line, broken, checkpoint, checkpoints, crashes>>

Rename ==
    /\ pc = "rename" /\ pc' = "sync directory"
    /\ checkpoint' = temporary.lines
    /\ checkpoints' = checkpoints \cup {temporary.lines}
                        \cup (IF temporary.synced THEN {} ELSE {Torn})
    /\ temporary' = NoTemporary
    /\ UNCHANGED <<watermarked, journalVars, processVars, crashes>>

SyncDirectory ==
    /\ pc = "sync directory" /\ pc' = "ready"
    /\ checkpoints' \in {{checkpoint}, checkpoints}
    /\ UNCHANGED <<watermarked, journalVars, processVars, checkpoint, temporary, crashes>>

-----------------------------------------------------------------------------
(* The process is killed, or the machine loses power: the files are then any*)
(* of those their writes since the last sync allow.                         *)
Stops ==
    /\ pc \notin {"new", "down"} /\ crashes < MaxCrashes
    /\ pc' = "down" /\ crashes' = crashes + 1
    /\ line' = NoLine /\ broken' = FALSE /\ failed' = {} /\ temporary' = NoTemporary
    /\ UNCHANGED <<watermarked, acked>>

Killed == Stops /\ UNCHANGED <<file, survivors, checkpoint, checkpoints>>

PowerLost ==
    /\ Stops
    /\ file' \in survivors /\ survivors' = {file'}
    /\ checkpoint' \in checkpoints /\ checkpoints' = {checkpoint'}

Next ==
    \/ OpenStore \/ KeepRepairs \/ KeepTruncates \/ KeepSyncs \/ OpenJournal
    \/ \E r \in Record : BeginAppend(r)
    \/ WritePart \/ WriteFails \/ AppendSyncs \/ AppendSyncFails
    \/ WriteTemporary \/ SyncTemporary \/ TemporaryFails \/ Rename \/ SyncDirectory
    \/ Killed \/ PowerLost

Spec == Init /\ [][Next]_vars

-----------------------------------------------------------------------------
(* Wherever the program stops, with or without power, its directory can be  *)
(* resumed from: checkpoint.json decodes, the journal has the lines it      *)
(* counts (or KeepJSONLines refuses), and every line is one whole record    *)
(* (or ReadJSONLines and ReadLastJSONLine do).                              *)
RecoverySucceeds ==
    \A f \in survivors \cup {file} :
        /\ Range(f.lines) \subseteq Record
        /\ \A c \in checkpoints \cup {checkpoint} : c # Torn /\ c <= Len(f.lines)

(* The journal keeps what Append has promised, across every crash and every *)
(* failed call, and a recovery cuts it to no less than the checkpoint.      *)
Acknowledged == SubSeq(file.lines, 1, Min({acked, Len(file.lines)}))
Committed == CHOOSE c \in 0..MaxLines :
                 \E m \in checkpoints : /\ \A n \in checkpoints : m <= n
                                        /\ c = IF m < 0 THEN 0 ELSE m

Journal == INSTANCE DurableJournal WITH records <- Acknowledged, committed <- Committed
JournalSpec == Journal!Spec
=============================================================================
