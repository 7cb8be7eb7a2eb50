------------------------- MODULE PersistenceProofs -------------------------
(***************************************************************************)
(* A journal and its checkpoint can be resumed from wherever the program   *)
(* or the machine stops, and the journal implements DurableJournal: for    *)
(* lines of any number of parts, files of any length and any number of     *)
(* crashes.                                                                *)
(***************************************************************************)
EXTENDS Persistence, SequenceTheorems, TLAPS

-----------------------------------------------------------------------------
(* The inductive invariant.                                                *)

File == [lines : Seq(Record), tail : Seq(Record \X (1..Parts))]

Recovery == {"keep", "count", "sync cut"}
Checkpointing == {"sync temporary", "rename", "sync directory"}

\* The first w parts of record r.
FirstParts(r, w) == [k \in 1..w |-> <<r, k>>]

\* Every line that is on disk, or may be, is one whole record.
FilesTyped ==
    /\ file \in File
    /\ survivors \subseteq File
    /\ file \in survivors

\* What Append has promised is in every content the file may have.
PromisesKept ==
    /\ acked \in Nat
    /\ \A f \in survivors :
         /\ acked <= Len(f.lines) /\ Len(f.lines) <= MaxLines
         /\ \A i \in 1..acked : f.lines[i] = file.lines[i]

\* The parts after the last newline are those of the line being written, and
\* there are none between two calls unless the writer refuses the next.
TailKnown ==
    /\ broken \in BOOLEAN
    /\ pc \in {"ready", "sync"} \cup Checkpointing /\ ~broken => file.tail = <<>>
    /\ pc \in {"write", "sync"} => ~broken
    /\ pc = "write" =>
         /\ Len(file.lines) < MaxLines
         /\ line.record \in Record
         /\ line.written \in 0..Parts
         /\ line = [record |-> line.record, written |-> line.written]
         /\ file.tail = FirstParts(line.record, line.written)

\* The checkpoint on disk is the newest of those that may be there, all of
\* them decode, one is the oldest, and none counts a line that is not promised.
CheckpointsCovered ==
    /\ checkpoint \in Nat \cup {Absent}
    /\ checkpoints \subseteq Nat \cup {Absent}
    /\ checkpoint \in checkpoints
    /\ checkpoint <= acked
    /\ \A c \in checkpoints : c <= checkpoint
    /\ \E m \in checkpoints : \A n \in checkpoints : m <= n

\* Only a watermarked journal is cut or counted.
CutsWatermarked ==
    /\ watermarked \in BOOLEAN
    /\ pc \in Recovery => watermarked
    /\ ~watermarked => checkpoint <= 0

\* The temporary file counts what is promised when it is renamed.
TemporaryCurrent ==
    /\ pc \in {"sync temporary", "rename"} =>
         /\ temporary.lines = IF watermarked THEN acked ELSE 0
         /\ temporary = [lines |-> temporary.lines, synced |-> temporary.synced]
    /\ pc = "rename" => temporary.synced = TRUE

PersistenceInv ==
    FilesTyped /\ PromisesKept /\ TailKnown /\ CheckpointsCovered /\ CutsWatermarked /\ TemporaryCurrent

-----------------------------------------------------------------------------
(* The operations on the file.                                             *)

\* The first n of a sequence.
LEMMA FirstOf ==
    ASSUME NEW S, NEW s \in Seq(S), NEW n \in Nat, n <= Len(s)
    PROVE  /\ SubSeq(s, 1, n) \in Seq(S)
           /\ Len(SubSeq(s, 1, n)) = n
           /\ \A i \in 1..n : SubSeq(s, 1, n)[i] = s[i]
<1> DEFINE t == SubSeq(s, 1, n)
<1>1. \A i \in 1..n : s[i] \in S
  <2>1. \A i \in 1..n : i \in 1..Len(s)
    BY LenProperties
  <2> QED
    BY <2>1, ElementOfSeq
<1>2. /\ t \in Seq(S)
      /\ Len(t) = IF 1 <= n THEN n - 1 + 1 ELSE 0
      /\ \A i \in 1..(n - 1 + 1) : t[i] = s[1 + i - 1]
  BY <1>1, SubSeqProperties
<1>3. Len(t) = n
  BY <1>2
<1>4. ASSUME NEW i \in 1..n
      PROVE  t[i] = s[i]
  <2>1. i \in 1..(n - 1 + 1) /\ 1 + i - 1 = i
    OBVIOUS
  <2> QED
    BY <1>2, <2>1
<1> QED
  BY <1>2, <1>3, <1>4

\* A sequence that agrees with the beginning of another is that beginning.
LEMMA FirstOfIs ==
    ASSUME NEW S, NEW s \in Seq(S), NEW t \in Seq(S), Len(t) <= Len(s),
           \A i \in 1..Len(t) : t[i] = s[i]
    PROVE  t = SubSeq(s, 1, Len(t))
<1>1. Len(t) \in Nat
  BY LenProperties
<1>2. /\ SubSeq(s, 1, Len(t)) \in Seq(S)
      /\ Len(SubSeq(s, 1, Len(t))) = Len(t)
      /\ \A i \in 1..Len(t) : SubSeq(s, 1, Len(t))[i] = s[i]
  BY <1>1, FirstOf
<1> QED
  BY <1>2, SeqEqual

\* One part more, or the newline that makes the parts a line.
LEMMA FirstPartsAppend ==
    ASSUME NEW r \in Record, NEW w \in 0..(Parts - 1)
    PROVE  /\ FirstParts(r, w) \in Seq(Record \X (1..Parts))
           /\ Append(FirstParts(r, w), <<r, w + 1>>) = FirstParts(r, w + 1)
           /\ FirstParts(r, w + 1) \in Seq(Record \X (1..Parts))
<1> DEFINE T == Record \X (1..Parts)
           s == FirstParts(r, w)
           t == FirstParts(r, w + 1)
<1>1. Parts \in Nat /\ w \in Nat /\ w + 1 <= Parts
  BY PersistenceAssumption
<1>2. s \in [1..w -> T] /\ t \in [1..(w + 1) -> T]
  BY <1>1 DEF FirstParts
<1>3. s \in Seq(T) /\ Len(s) = w
  <2>1. s \in Seq(T)
    BY <1>1, <1>2, SeqDef
  <2> QED
    BY <1>1, <1>2, <2>1, LenProperties DEF FirstParts
<1>4. t \in Seq(T) /\ Len(t) = w + 1
  <2>1. t \in Seq(T)
    BY <1>1, <1>2, SeqDef
  <2> QED
    BY <1>1, <1>2, <2>1, LenProperties DEF FirstParts
<1>5. <<r, w + 1>> \in T
  BY <1>1
<1> DEFINE a == Append(s, <<r, w + 1>>)
<1>6. /\ a \in Seq(T) /\ Len(a) = w + 1
      /\ \A i \in 1..w : a[i] = s[i]
      /\ a[w + 1] = <<r, w + 1>>
  BY <1>3, <1>5, AppendProperties
<1>7. \A i \in 1..(w + 1) : a[i] = t[i]
  <2> TAKE i \in 1..(w + 1)
  <2>1. t[i] = <<r, i>>
    BY DEF FirstParts
  <2>2. CASE i = w + 1
    BY <1>6, <2>1, <2>2
  <2>3. CASE i # w + 1
    <3>1. i \in 1..w
      BY <1>1, <2>3
    <3>2. s[i] = <<r, i>>
      BY <3>1 DEF FirstParts
    <3> QED
      BY <1>6, <2>1, <3>1, <3>2
  <2> QED
    BY <2>2, <2>3
<1> HIDE DEF a, s, t, T
<1>8. a = t
  BY <1>4, <1>6, <1>7, SeqEqual
<1> QED
  BY <1>3, <1>4, <1>8 DEF a, s, t, T

\* A write adds one part, or makes the parts before it one whole line.
LEMMA PutWhole ==
    ASSUME FilesTyped, TailKnown, pc = "write",
           NEW g, g = Put(file, line.record, line.written + 1)
    PROVE  /\ g \in File
           /\ line.written < Parts => /\ g.lines = file.lines
                                      /\ g.tail = FirstParts(line.record, line.written + 1)
           /\ line.written = Parts => /\ Len(g.lines) = Len(file.lines) + 1
                                      /\ \A i \in 1..Len(file.lines) : g.lines[i] = file.lines[i]
                                      /\ g.tail = <<>>
<1> DEFINE r == line.record  w == line.written
<1>1. r \in Record /\ w \in 0..Parts /\ file.tail = FirstParts(r, w) /\ Parts \in Nat
  BY PersistenceAssumption DEF TailKnown
<1>2. file.lines \in Seq(Record) /\ file \in File
  BY DEF FilesTyped, File
<1>3. CASE w < Parts
  <2>1. w \in 0..(Parts - 1) /\ w + 1 <= Parts /\ w # Parts
    BY <1>1, <1>3
  <2>2. g = [file EXCEPT !.tail = Append(@, <<r, w + 1>>)]
    BY <2>1 DEF Put
  <2>3. g = [lines |-> file.lines, tail |-> FirstParts(r, w + 1)]
    <3>1. Append(file.tail, <<r, w + 1>>) = FirstParts(r, w + 1)
      BY <1>1, <2>1, FirstPartsAppend
    <3> QED
      BY <1>2, <2>2, <3>1 DEF File
  <2>4. FirstParts(r, w + 1) \in Seq(Record \X (1..Parts))
    BY <1>1, <2>1, FirstPartsAppend
  <2> QED
    BY <1>2, <2>1, <2>3, <2>4 DEF File
<1>4. CASE w = Parts
  <2>1. file.tail = PartsOf(r)
    BY <1>1, <1>4 DEF FirstParts, PartsOf
  <2>2. g = [lines |-> Append(file.lines, r), tail |-> <<>>]
    <3>1. ~(w + 1 <= Parts)
      BY <1>1, <1>4
    <3> QED
      BY <2>1, <3>1 DEF Put
  <2>3. /\ Append(file.lines, r) \in Seq(Record)
        /\ Len(Append(file.lines, r)) = Len(file.lines) + 1
        /\ \A i \in 1..Len(file.lines) : Append(file.lines, r)[i] = file.lines[i]
    BY <1>1, <1>2, AppendProperties
  <2>4. g \in File
    <3>1. <<>> \in Seq(Record \X (1..Parts))
      BY EmptySeq
    <3>2. \A l \in Seq(Record), t \in Seq(Record \X (1..Parts)) : [lines |-> l, tail |-> t] \in File
      BY DEF File
    <3> HIDE DEF File
    <3> QED
      BY <2>2, <2>3, <3>1, <3>2
  <2> QED
    BY <1>1, <1>4, <2>2, <2>3, <2>4
<1> QED
  BY <1>1, <1>3, <1>4

\* A content that keeps what stays promised may be added to the others.
LEMMA ContentsStep ==
    ASSUME FilesTyped, PromisesKept, NEW f \in File, Contents(f),
           acked' \in Nat, acked' <= acked, acked' <= Len(f.lines), Len(f.lines) <= MaxLines,
           \A i \in 1..acked' : f.lines[i] = file.lines[i]
    PROVE  FilesTyped' /\ PromisesKept'
<1>1. file' = f /\ survivors' = survivors \cup {f}
  BY DEF Contents
<1>2. FilesTyped'
  BY <1>1 DEF FilesTyped
<1>3. ASSUME NEW h \in survivors'
      PROVE  /\ acked' <= Len(h.lines) /\ Len(h.lines) <= MaxLines
             /\ \A i \in 1..acked' : h.lines[i] = f.lines[i]
  <2>1. CASE h = f
    BY <2>1
  <2>2. CASE h \in survivors
    <3>1. acked \in Nat /\ acked <= Len(h.lines) /\ Len(h.lines) <= MaxLines
      BY <2>2 DEF PromisesKept
    <3>2. h.lines \in Seq(Record)
      BY <2>2 DEF FilesTyped, File
    <3>3. Len(h.lines) \in Nat
      BY <3>2, LenProperties
    <3>4. \A i \in 1..acked' : i \in 1..acked
      BY <3>1
    <3>5. \A i \in 1..acked : h.lines[i] = file.lines[i]
      BY <2>2 DEF PromisesKept
    <3> QED
      BY <3>1, <3>3, <3>4, <3>5
  <2> QED
    BY <1>1, <2>1, <2>2
<1>4. PromisesKept'
  BY <1>1, <1>3 DEF PromisesKept
<1> QED
  BY <1>2, <1>4

\* Cutting off what follows the last newline loses no line.
LEMMA RepairStep ==
    ASSUME FilesTyped, PromisesKept, RepairPartialLine, acked' = acked
    PROVE  FilesTyped' /\ PromisesKept'
<1> DEFINE f == [file EXCEPT !.tail = <<>>]
<1>1. f \in File /\ f.lines = file.lines
  BY EmptySeq DEF FilesTyped, File
<1>2. /\ acked \in Nat /\ acked <= Len(file.lines) /\ Len(file.lines) <= MaxLines
  BY DEF FilesTyped, PromisesKept
<1>3. Contents(f)
  BY DEF RepairPartialLine
<1> HIDE DEF f
<1> QED
  BY <1>1, <1>2, <1>3, ContentsStep

\* After a sync the file has only the content it has.
LEMMA SyncStep ==
    ASSUME FilesTyped, PromisesKept, Sync, acked' \in Nat, acked' <= Len(file.lines)
    PROVE  FilesTyped' /\ PromisesKept'
<1>1. survivors' = {file} /\ file' = file /\ file \in File /\ file \in survivors
  BY DEF Sync, FilesTyped
<1>2. Len(file.lines) <= MaxLines
  BY <1>1 DEF PromisesKept
<1> QED
  BY <1>1, <1>2 DEF FilesTyped, PromisesKept

-----------------------------------------------------------------------------
(* Every step preserves the invariant, one conjunct after the other.       *)

\* The actions by what they do to the file and to what is promised.
LEMMA NextCases ==
    ASSUME Next
    PROVE  \/ KeepRepairs \/ KeepTruncates \/ KeepSyncs \/ OpenJournal
           \/ WritePart \/ AppendSyncs \/ PowerLost
           \/ UNCHANGED journalVars
<1>1. OpenStore \/ (\E r \in Record : BeginAppend(r)) => UNCHANGED journalVars
  BY DEF OpenStore, BeginAppend
<1>2. WriteFails \/ AppendSyncFails => UNCHANGED journalVars
  BY DEF WriteFails, AppendSyncFails
<1>3. WriteTemporary \/ SyncTemporary \/ TemporaryFails => UNCHANGED journalVars
  BY DEF WriteTemporary, SyncTemporary, TemporaryFails
<1>4. Rename \/ SyncDirectory => UNCHANGED journalVars
  BY DEF Rename, SyncDirectory
<1>5. Killed => UNCHANGED journalVars
  BY DEF Killed, Stops, journalVars
<1> QED
  BY <1>1, <1>2, <1>3, <1>4, <1>5 DEF Next

\* How long the journal is, and how much of it is acknowledged.
LEMMA FileLengths ==
    ASSUME FilesTyped, PromisesKept
    PROVE  /\ acked \in Nat /\ Len(file.lines) \in Nat
           /\ acked <= Len(file.lines) /\ Len(file.lines) <= MaxLines
           /\ file.lines \in Seq(Record) /\ file \in File
<1>1. file.lines \in Seq(Record) /\ file \in File /\ file \in survivors
  BY DEF FilesTyped, File
<1> QED
  BY <1>1, LenProperties DEF PromisesKept

\* What the recovery keeps is promised.
LEMMA KeepCovered ==
    ASSUME FilesTyped, PromisesKept, CheckpointsCovered
    PROVE  Keep \in Nat /\ Keep <= acked /\ checkpoint <= Keep
  BY DEF PromisesKept, CheckpointsCovered, Keep, Absent

\* KeepJSONLines never finds fewer lines than the checkpoint counts, and what
\* it leaves are the first of the lines it found.
LEMMA CutIs ==
    ASSUME FilesTyped, PromisesKept, CheckpointsCovered, KeepTruncates
    PROVE  /\ Keep \in 0..Len(file.lines)
           /\ acked' = Keep
           /\ pc' \in {"open", "sync cut"}
           /\ Len(file.lines) > Keep =>
                Contents([lines |-> SubSeq(file.lines, 1, Keep), tail |-> <<>>])
           /\ ~(Len(file.lines) > Keep) => UNCHANGED <<file, survivors>>
<1>1. Keep \in Nat /\ Len(file.lines) \in Nat /\ Keep <= Len(file.lines)
  BY KeepCovered, FileLengths
<1>2. ~(Len(file.lines) < Keep) /\ Keep \in 0..Len(file.lines)
  BY <1>1
<1>3. acked' = Keep /\ pc' \in {"open", "sync cut"}
  BY <1>2 DEF KeepTruncates
<1>4. ASSUME Len(file.lines) > Keep
      PROVE  Contents([lines |-> SubSeq(file.lines, 1, Keep), tail |-> <<>>])
  BY <1>4 DEF KeepTruncates
<1>5. ASSUME ~(Len(file.lines) > Keep)
      PROVE  UNCHANGED <<file, survivors>>
  BY <1>5 DEF KeepTruncates
<1> QED
  BY <1>2, <1>3, <1>4, <1>5

\* No step loses what has been promised.
LEMMA FilesStep ==
    ASSUME PersistenceInv, [Next]_vars
    PROVE  FilesTyped' /\ PromisesKept'
<1> USE DEF PersistenceInv
<1>1. CASE KeepRepairs
  BY <1>1, RepairStep DEF KeepRepairs
<1>2. CASE KeepTruncates
  <2> DEFINE f == [lines |-> SubSeq(file.lines, 1, Keep), tail |-> <<>>]
  <2>1. /\ Keep \in Nat /\ Keep <= Len(file.lines) /\ Keep <= acked /\ acked' = Keep
        /\ Len(file.lines) <= MaxLines /\ acked \in Nat /\ Len(file.lines) \in Nat
    <3>1. acked' = Keep
      BY <1>2, CutIs
    <3>2. Keep \in Nat /\ Keep <= acked
      BY KeepCovered
    <3>3. /\ Len(file.lines) <= MaxLines /\ acked \in Nat /\ Len(file.lines) \in Nat
          /\ acked <= Len(file.lines)
      BY FileLengths
    <3> QED
      BY <3>1, <3>2, <3>3
  <2>2. CASE Len(file.lines) > Keep
    <3>1. file.lines \in Seq(Record)
      BY FileLengths
    <3>2. SubSeq(file.lines, 1, Keep) \in Seq(Record)
      BY <2>1, <3>1, FirstOf
    <3>3. Len(f.lines) = Keep /\ \A i \in 1..Keep : f.lines[i] = file.lines[i]
      BY <2>1, <3>1, FirstOf
    <3>4. f \in File
      <4>1. <<>> \in Seq(Record \X (1..Parts))
        BY EmptySeq
      <4>2. \A l \in Seq(Record), t \in Seq(Record \X (1..Parts)) : [lines |-> l, tail |-> t] \in File
        BY DEF File
      <4> HIDE DEF File
      <4> QED
        BY <3>2, <4>1, <4>2
    <3>5. Contents(f)
      BY <1>2, <2>2, CutIs
    <3>6. Len(f.lines) <= MaxLines
      <4>1. MaxLines \in Nat
        BY PersistenceAssumption
      <4> QED
        BY <2>1, <2>2, <3>3, <4>1
    <3> HIDE DEF f
    <3> QED
      BY <2>1, <3>3, <3>4, <3>5, <3>6, ContentsStep
  <2>3. CASE ~(Len(file.lines) > Keep)
    <3>1. UNCHANGED <<file, survivors>>
      BY <1>2, <2>3, CutIs
    <3>2. acked' = acked
      BY <2>1, <2>3, FileLengths
    <3> QED
      BY <3>1, <3>2 DEF FilesTyped, PromisesKept
  <2> QED
    BY <2>2, <2>3
<1>3. CASE KeepSyncs
  BY <1>3, SyncStep, FileLengths DEF KeepSyncs
<1>4. CASE OpenJournal
  BY <1>4, RepairStep DEF OpenJournal
<1>5. CASE WritePart
  <2> DEFINE g == Put(file, line.record, line.written + 1)
  <2>1. Contents(g) /\ acked' = acked /\ pc = "write"
    BY <1>5 DEF WritePart
  <2>2. /\ line.written \in 0..Parts /\ Len(file.lines) < MaxLines /\ Parts \in Nat /\ MaxLines \in Nat
    BY <2>1, PersistenceAssumption DEF TailKnown
  <2> HIDE DEF g
  <2>3. /\ g \in File
        /\ line.written < Parts => g.lines = file.lines
        /\ line.written = Parts => /\ Len(g.lines) = Len(file.lines) + 1
                                   /\ \A i \in 1..Len(file.lines) : g.lines[i] = file.lines[i]
    BY <2>1, PutWhole DEF g
  <2>4. /\ acked <= Len(g.lines) /\ Len(g.lines) <= MaxLines
        /\ \A i \in 1..acked : g.lines[i] = file.lines[i]
    <3>1. /\ acked \in Nat /\ Len(file.lines) \in Nat
          /\ acked <= Len(file.lines) /\ Len(file.lines) <= MaxLines
      BY FileLengths
    <3>2. CASE line.written < Parts
      BY <2>3, <3>1, <3>2
    <3>3. CASE line.written = Parts
      <4>1. \A i \in 1..acked : i \in 1..Len(file.lines)
        BY <3>1
      <4> QED
        BY <2>2, <2>3, <3>1, <3>3, <4>1
    <3> QED
      BY <2>2, <3>2, <3>3
  <2> QED
    BY <2>1, <2>3, <2>4, FileLengths, ContentsStep
<1>6. CASE AppendSyncs
  BY <1>6, SyncStep, FileLengths DEF AppendSyncs
<1>7. CASE PowerLost
  <2>1. file' \in survivors /\ survivors' = {file'} /\ acked' = acked
    BY <1>7 DEF PowerLost, Stops
  <2> QED
    BY <2>1 DEF FilesTyped, PromisesKept
<1>8. CASE UNCHANGED journalVars
  BY <1>8 DEF journalVars, FilesTyped, PromisesKept
<1> QED
  BY <1>1, <1>2, <1>3, <1>4, <1>5, <1>6, <1>7, <1>8, NextCases DEF vars, journalVars

\* No step changes what is known of the end of the file.
LEMMA TailStep ==
    ASSUME PersistenceInv, [Next]_vars
    PROVE  TailKnown'
<1> USE DEF PersistenceInv
<1>1. CASE OpenStore
  BY <1>1 DEF OpenStore, TailKnown, Checkpointing, processVars
<1>2. CASE KeepRepairs \/ KeepSyncs
  BY <1>2 DEF KeepRepairs, KeepSyncs, TailKnown, Checkpointing, processVars
<1>3. CASE KeepTruncates
  <2>1. pc' \in {"open", "sync cut"} /\ broken' = broken
    BY <1>3, CutIs DEF KeepTruncates, processVars
  <2> QED
    BY <2>1 DEF TailKnown, Checkpointing
<1>4. CASE OpenJournal
  <2>1. file' = [file EXCEPT !.tail = <<>>] /\ pc' = "ready" /\ broken' = broken
    BY <1>4 DEF OpenJournal, RepairPartialLine, Contents, processVars
  <2>2. file'.tail = <<>>
    BY <2>1 DEF FilesTyped, File
  <2> QED
    BY <2>1, <2>2 DEF TailKnown, Checkpointing
<1>5. ASSUME NEW r \in Record, BeginAppend(r)
      PROVE  TailKnown'
  <2>1. /\ pc = "ready" /\ ~broken /\ pc' = "write" /\ UNCHANGED <<file, broken>>
        /\ Len(file.lines) < MaxLines /\ line' = [record |-> r, written |-> 0]
    BY <1>5 DEF BeginAppend, journalVars
  <2>2. file'.tail = FirstParts(r, 0)
    BY <2>1 DEF TailKnown, FirstParts
  <2>3. Parts \in Nat
    BY PersistenceAssumption
  <2> QED
    BY <2>1, <2>2, <2>3 DEF TailKnown, Checkpointing
<1>6. CASE WritePart
  <2> DEFINE g == Put(file, line.record, line.written + 1)
             r == line.record
             w == line.written
  <2>1. /\ pc = "write" /\ file' = g /\ broken' = broken
        /\ line' = [line EXCEPT !.written = @ + 1]
        /\ pc' = IF line'.written > Parts THEN "sync" ELSE "write"
    BY <1>6 DEF WritePart, Contents
  <2>2. /\ ~broken /\ Len(file.lines) < MaxLines /\ r \in Record /\ w \in 0..Parts
        /\ line = [record |-> r, written |-> w] /\ broken \in BOOLEAN
    BY <2>1 DEF TailKnown
  <2>3. line' = [record |-> r, written |-> w + 1] /\ Parts \in Nat
    BY <2>1, <2>2, PersistenceAssumption
  <2> HIDE DEF g
  <2>4. CASE w < Parts
    <3>1. g.lines = file.lines /\ g.tail = FirstParts(r, w + 1)
      BY <2>1, <2>4, PutWhole DEF g
    <3>2. pc' = "write" /\ w + 1 \in 0..Parts
      BY <2>1, <2>2, <2>3, <2>4
    <3> QED
      BY <2>1, <2>2, <2>3, <3>1, <3>2 DEF TailKnown, Checkpointing
  <2>5. CASE w = Parts
    <3>1. g.tail = <<>>
      BY <2>1, <2>5, PutWhole DEF g
    <3>2. pc' = "sync"
      BY <2>1, <2>2, <2>3, <2>5
    <3> QED
      BY <2>1, <2>2, <3>1, <3>2 DEF TailKnown, Checkpointing
  <2> QED
    BY <2>2, <2>3, <2>4, <2>5
<1>7. CASE WriteFails
  BY <1>7 DEF WriteFails, TailKnown, Checkpointing
<1>8. CASE AppendSyncs \/ AppendSyncFails
  BY <1>8 DEF AppendSyncs, AppendSyncFails, Sync, journalVars, TailKnown, Checkpointing
<1>9. CASE WriteTemporary \/ SyncTemporary \/ TemporaryFails \/ Rename \/ SyncDirectory
  <2>1. UNCHANGED <<file, broken>> /\ pc \in {"ready"} \cup Checkpointing /\ pc' \in {"ready"} \cup Checkpointing
    BY <1>9 DEF WriteTemporary, SyncTemporary, TemporaryFails, Rename, SyncDirectory,
                journalVars, processVars, Checkpointing
  <2> QED
    BY <2>1 DEF TailKnown, Checkpointing
<1>10. CASE Killed \/ PowerLost
  BY <1>10 DEF Killed, PowerLost, Stops, TailKnown, Checkpointing
<1>11. CASE UNCHANGED vars
  BY <1>11 DEF vars, journalVars, processVars, TailKnown
<1> QED
  BY <1>1, <1>2, <1>3, <1>4, <1>5, <1>6, <1>7, <1>8, <1>9, <1>10, <1>11 DEF Next

\* One checkpoint has an oldest.
LEMMA OneCheckpoint ==
    ASSUME checkpoint' \in Nat \cup {Absent}, checkpoints' = {checkpoint'},
           checkpoint' <= acked'
    PROVE  CheckpointsCovered'
<1>1. checkpoint' <= checkpoint'
  BY DEF Absent
<1> QED
  BY <1>1 DEF CheckpointsCovered

\* No step leaves a checkpoint the journal does not cover.
LEMMA CheckpointStep ==
    ASSUME PersistenceInv, [Next]_vars
    PROVE  CheckpointsCovered'
<1> USE DEF PersistenceInv
<1>1. /\ acked \in Nat /\ Len(file.lines) \in Nat /\ acked <= Len(file.lines)
      /\ checkpoint \in Nat \cup {Absent} /\ checkpoint <= acked
  BY FileLengths DEF CheckpointsCovered
<1>2. ASSUME UNCHANGED <<checkpoint, checkpoints>>, checkpoint <= acked'
      PROVE  CheckpointsCovered'
  BY <1>2 DEF CheckpointsCovered
<1>3. CASE KeepTruncates
  BY <1>2, <1>3, CutIs, KeepCovered DEF KeepTruncates, checkpointVars
<1>4. CASE AppendSyncs
  <2>1. acked' = Len(file.lines) /\ UNCHANGED <<checkpoint, checkpoints>>
    BY <1>4 DEF AppendSyncs, checkpointVars
  <2> QED
    BY <1>1, <1>2, <2>1 DEF Absent
<1>5. CASE Rename
  <2> DEFINE t == temporary.lines
  <2>1. /\ t = IF watermarked THEN acked ELSE 0
        /\ checkpoint' = t /\ checkpoints' = checkpoints \cup {t} /\ acked' = acked
    BY <1>5 DEF Rename, TemporaryCurrent, journalVars
  <2>2. t \in Nat /\ t <= acked /\ checkpoint <= t
    BY <1>1, <2>1 DEF CutsWatermarked
  <2>3. \A c \in checkpoints : c \in Nat \cup {Absent} /\ c <= checkpoint
    BY DEF CheckpointsCovered
  <2> HIDE DEF t
  <2>4. \A c \in checkpoints' : c \in Nat \cup {Absent} /\ c <= t
    BY <1>1, <2>1, <2>2, <2>3 DEF Absent
  <2>5. \E m \in checkpoints' : \A n \in checkpoints' : m <= n
    <3>1. PICK m \in checkpoints : \A n \in checkpoints : m <= n
      BY DEF CheckpointsCovered
    <3>2. m <= t
      BY <1>1, <2>2, <2>3, <3>1 DEF Absent
    <3> QED
      BY <2>1, <3>1, <3>2
  <2> QED
    BY <2>1, <2>2, <2>4, <2>5 DEF CheckpointsCovered
<1>6. CASE SyncDirectory
  <2>1. /\ checkpoints' = {checkpoint} \/ checkpoints' = checkpoints
        /\ UNCHANGED <<checkpoint, acked>>
    BY <1>6 DEF SyncDirectory, journalVars
  <2> QED
    BY <1>1, <1>2, <2>1, OneCheckpoint
<1>7. CASE PowerLost
  <2>1. /\ checkpoint' \in checkpoints /\ checkpoints' = {checkpoint'} /\ acked' = acked
    BY <1>7 DEF PowerLost, Stops
  <2>2. checkpoint' \in Nat \cup {Absent} /\ checkpoint' <= checkpoint
    BY <2>1 DEF CheckpointsCovered
  <2>3. checkpoint' <= acked'
    BY <1>1, <2>1, <2>2 DEF Absent
  <2> QED
    BY <2>1, <2>2, <2>3, OneCheckpoint
<1>8. CASE \/ OpenStore \/ KeepRepairs \/ KeepSyncs \/ OpenJournal
           \/ (\E r \in Record : BeginAppend(r)) \/ WritePart \/ WriteFails
  <2>1. UNCHANGED <<checkpoint, checkpoints, acked>>
    BY <1>8 DEF OpenStore, KeepRepairs, KeepSyncs, OpenJournal, BeginAppend, WritePart, WriteFails,
                checkpointVars, journalVars
  <2> QED
    BY <1>1, <1>2, <2>1
<1>9. CASE \/ AppendSyncFails \/ WriteTemporary \/ SyncTemporary \/ TemporaryFails \/ Killed
           \/ UNCHANGED vars
  <2>1. UNCHANGED <<checkpoint, checkpoints, acked>>
    BY <1>9 DEF AppendSyncFails, WriteTemporary, SyncTemporary, TemporaryFails, Killed, Stops, vars,
                checkpointVars, journalVars
  <2> QED
    BY <1>1, <1>2, <2>1
<1> QED
  BY <1>3, <1>4, <1>5, <1>6, <1>7, <1>8, <1>9 DEF Next

\* Every cut ends where a watermark says.
LEMMA CutsStep ==
    ASSUME PersistenceInv, [Next]_vars
    PROVE  CutsWatermarked'
<1> USE DEF PersistenceInv
<1>1. CASE Rename
  <2>1. /\ checkpoint' = IF watermarked THEN acked ELSE 0
        /\ watermarked' = watermarked /\ pc' = "sync directory"
    BY <1>1 DEF Rename, TemporaryCurrent
  <2>2. ASSUME ~watermarked
        PROVE  checkpoint' <= 0
    <3>1. checkpoint' = 0
      BY <2>1, <2>2, Zenon
    <3> QED
      BY <3>1
  <2>3. pc' \notin Recovery
    BY <2>1 DEF Recovery
  <2> QED
    BY <2>1, <2>2, <2>3, Zenon DEF CutsWatermarked
<1>2. CASE PowerLost
  <2>1. checkpoint' \in checkpoints /\ watermarked' = watermarked /\ pc' = "down"
    BY <1>2 DEF PowerLost, Stops
  <2>2. /\ checkpoint \in Nat \cup {Absent} /\ checkpoint' \in Nat \cup {Absent}
        /\ checkpoint' <= checkpoint
    BY <2>1 DEF CheckpointsCovered
  <2>3. ~watermarked => checkpoint' <= 0
    BY <2>2 DEF CutsWatermarked, Absent
  <2>4. pc' \notin Recovery
    BY <2>1 DEF Recovery
  <2> QED
    BY <2>1, <2>3, <2>4, Zenon DEF CutsWatermarked
<1>3. CASE OpenStore \/ KeepRepairs \/ KeepTruncates \/ KeepSyncs \/ OpenJournal
  <2>1. UNCHANGED <<checkpoint, watermarked>> /\ (pc' \in Recovery => watermarked)
    BY <1>3 DEF OpenStore, KeepRepairs, KeepTruncates, KeepSyncs, OpenJournal,
                checkpointVars, Recovery, CutsWatermarked
  <2> QED
    BY <2>1 DEF CutsWatermarked
<1>4. CASE \/ (\E r \in Record : BeginAppend(r)) \/ WritePart \/ WriteFails
           \/ AppendSyncs \/ AppendSyncFails
  <2>1. UNCHANGED <<checkpoint, watermarked>> /\ pc' \notin Recovery
    BY <1>4 DEF BeginAppend, WritePart, WriteFails, AppendSyncs, AppendSyncFails,
                checkpointVars, Recovery
  <2> QED
    BY <2>1 DEF CutsWatermarked
<1>5. CASE \/ WriteTemporary \/ SyncTemporary \/ TemporaryFails \/ SyncDirectory \/ Killed
  <2>1. UNCHANGED <<checkpoint, watermarked>> /\ pc' \notin Recovery
    BY <1>5 DEF WriteTemporary, SyncTemporary, TemporaryFails, SyncDirectory, Killed, Stops,
                checkpointVars, Recovery
  <2> QED
    BY <2>1 DEF CutsWatermarked
<1>6. CASE UNCHANGED vars
  BY <1>6 DEF vars, checkpointVars, CutsWatermarked
<1> QED
  BY <1>1, <1>2, <1>3, <1>4, <1>5, <1>6 DEF Next

\* A temporary file that is renamed holds the present state.
LEMMA TemporaryStep ==
    ASSUME PersistenceInv, [Next]_vars
    PROVE  TemporaryCurrent'
<1> USE DEF PersistenceInv
<1>1. CASE WriteTemporary
  BY <1>1 DEF WriteTemporary, TemporaryCurrent, journalVars
<1>2. CASE SyncTemporary
  <2>1. /\ temporary = [lines |-> temporary.lines, synced |-> temporary.synced]
        /\ temporary.lines = IF watermarked THEN acked ELSE 0
        /\ temporary' = [temporary EXCEPT !.synced = TRUE] /\ UNCHANGED <<watermarked, acked>>
    BY <1>2 DEF SyncTemporary, TemporaryCurrent, journalVars
  <2>2. temporary' = [lines |-> temporary.lines, synced |-> TRUE]
    BY <2>1
  <2> QED
    BY <2>1, <2>2 DEF TemporaryCurrent
<1>3. CASE OpenStore \/ KeepRepairs \/ KeepTruncates \/ KeepSyncs \/ OpenJournal
  <2>1. pc' \notin {"sync temporary", "rename"}
    BY <1>3 DEF OpenStore, KeepRepairs, KeepTruncates, KeepSyncs, OpenJournal
  <2> QED
    BY <2>1 DEF TemporaryCurrent
<1>4. CASE \/ (\E r \in Record : BeginAppend(r)) \/ WritePart \/ WriteFails
           \/ AppendSyncs \/ AppendSyncFails
  <2>1. pc' \notin {"sync temporary", "rename"}
    BY <1>4 DEF BeginAppend, WritePart, WriteFails, AppendSyncs, AppendSyncFails
  <2> QED
    BY <2>1 DEF TemporaryCurrent
<1>5. CASE TemporaryFails \/ Rename \/ SyncDirectory \/ Killed \/ PowerLost
  <2>1. pc' \notin {"sync temporary", "rename"}
    BY <1>5 DEF TemporaryFails, Rename, SyncDirectory, Killed, PowerLost, Stops
  <2> QED
    BY <2>1 DEF TemporaryCurrent
<1>6. CASE UNCHANGED vars
  BY <1>6 DEF vars, journalVars, checkpointVars, TemporaryCurrent
<1> QED
  BY <1>1, <1>2, <1>3, <1>4, <1>5, <1>6 DEF Next

\* An empty directory satisfies the invariant.
LEMMA InitEstablishes == Init => PersistenceInv
<1> SUFFICES ASSUME Init PROVE PersistenceInv
  OBVIOUS
<1>1. /\ file = [lines |-> <<>>, tail |-> <<>>] /\ survivors = {file} /\ acked = 0 /\ MaxLines \in Nat
      /\ pc = "new" /\ watermarked \in BOOLEAN /\ broken = FALSE
      /\ checkpoint = Absent /\ checkpoints = {Absent}
  BY PersistenceAssumption DEF Init
<1>2. FilesTyped
  <2>1. <<>> \in Seq(Record \X (1..Parts)) /\ <<>> \in Seq(Record)
    BY EmptySeq
  <2>2. \A l \in Seq(Record), t \in Seq(Record \X (1..Parts)) : [lines |-> l, tail |-> t] \in File
    BY DEF File
  <2> HIDE DEF File
  <2>3. file \in File
    BY <1>1, <2>1, <2>2
  <2> QED
    BY <1>1, <2>3 DEF FilesTyped
<1>3. PromisesKept
  <2>1. Len(file.lines) = 0
    BY <1>1, EmptySeq
  <2> QED
    BY <1>1, <2>1 DEF PromisesKept
<1>4. TailKnown
  BY <1>1 DEF TailKnown, Checkpointing
<1>5. CheckpointsCovered
  BY <1>1 DEF CheckpointsCovered, Absent
<1>6. CutsWatermarked /\ TemporaryCurrent
  BY <1>1 DEF CutsWatermarked, TemporaryCurrent, Recovery, Absent
<1> QED
  BY <1>2, <1>3, <1>4, <1>5, <1>6 DEF PersistenceInv

\* So every reachable state satisfies it.
LEMMA PersistenceInvariant == Spec => []PersistenceInv
<1>1. PersistenceInv /\ [Next]_vars => PersistenceInv'
  BY FilesStep, TailStep, CheckpointStep, CutsStep, TemporaryStep DEF PersistenceInv
<1> QED
  BY <1>1, InitEstablishes, PTL DEF Spec

-----------------------------------------------------------------------------
(* Wherever the program stops, with or without power, checkpoint.json      *)
(* decodes, the journal has the lines it counts and every line is one whole*)
(* record: KeepJSONLines, ReadJSONLines and ReadLastJSONLine do not refuse.*)
THEOREM RecoveryCorrect == Spec => []RecoverySucceeds
<1>1. PersistenceInv => RecoverySucceeds
  <2> SUFFICES ASSUME PersistenceInv,
                      NEW f \in survivors \cup {file}
               PROVE  /\ Range(f.lines) \subseteq Record
                      /\ \A c \in checkpoints \cup {checkpoint} : c # Torn /\ c <= Len(f.lines)
    BY DEF RecoverySucceeds
  <2> USE DEF PersistenceInv
  <2>1. f \in survivors /\ f.lines \in Seq(Record)
    BY DEF FilesTyped, File
  <2>2. Range(f.lines) \subseteq Record
    <3>1. DOMAIN f.lines = 1..Len(f.lines)
      BY <2>1, LenProperties
    <3> QED
      BY <2>1, <3>1, ElementOfSeq DEF Range
  <2>3. acked \in Nat /\ acked <= Len(f.lines) /\ Len(f.lines) \in Nat
    BY <2>1, LenProperties DEF PromisesKept
  <2>4. ASSUME NEW c \in checkpoints \cup {checkpoint}
        PROVE  c # Torn /\ c <= Len(f.lines)
    <3>1. c \in Nat \cup {Absent} /\ c <= checkpoint /\ checkpoint <= acked /\ checkpoint \in Nat \cup {Absent}
      BY DEF CheckpointsCovered
    <3> QED
      BY <2>3, <3>1 DEF Absent, Torn
  <2> QED
    BY <2>2, <2>4
<1> QED
  BY <1>1, PersistenceInvariant, PTL

-----------------------------------------------------------------------------
(* The journal implements DurableJournal.                                  *)

\* The records whose Append has returned are the first lines of the file.
LEMMA FirstLines ==
    ASSUME NEW f \in File, NEW a \in Nat, a <= Len(f.lines),
           NEW s, s = SubSeq(f.lines, 1, Min({a, Len(f.lines)}))
    PROVE  s \in Seq(Record) /\ Len(s) = a /\ \A i \in 1..a : s[i] = f.lines[i]
<1>1. f.lines \in Seq(Record) /\ Len(f.lines) \in Nat
  <2>1. f.lines \in Seq(Record)
    BY DEF File
  <2> QED
    BY <2>1, LenProperties
<1>2. Min({a, Len(f.lines)}) = a
  BY <1>1 DEF Min
<1>3. s = SubSeq(f.lines, 1, a)
  BY <1>2, Zenon
<1> DEFINE t == SubSeq(f.lines, 1, a)
<1>4. t \in Seq(Record) /\ Len(t) = a /\ \A i \in 1..a : t[i] = f.lines[i]
  BY <1>1, FirstOf
<1> HIDE DEF t
<1> QED
  BY <1>3, <1>4 DEF t

\* The acknowledged records, before a step and after it.
LEMMA AcknowledgedIs ==
    ASSUME PersistenceInv, PersistenceInv'
    PROVE  /\ Acknowledged \in Seq(Record) /\ Len(Acknowledged) = acked
           /\ \A i \in 1..acked : Acknowledged[i] = file.lines[i]
           /\ Acknowledged' \in Seq(Record) /\ Len(Acknowledged') = acked'
           /\ \A i \in 1..acked' : Acknowledged'[i] = file'.lines[i]
<1>1. /\ file \in File /\ file \in survivors /\ file' \in File /\ file' \in survivors'
  BY DEF PersistenceInv, FilesTyped
<1>2. /\ acked \in Nat /\ acked <= Len(file.lines)
      /\ acked' \in Nat /\ acked' <= Len(file'.lines)
  BY <1>1 DEF PersistenceInv, PromisesKept
<1>3. /\ Acknowledged = SubSeq(file.lines, 1, Min({acked, Len(file.lines)}))
      /\ Acknowledged' = SubSeq(file'.lines, 1, Min({acked', Len(file'.lines)}))
  BY DEF Acknowledged
<1>4. /\ Acknowledged \in Seq(Record) /\ Len(Acknowledged) = acked
      /\ \A i \in 1..acked : Acknowledged[i] = file.lines[i]
  BY <1>1, <1>2, <1>3, FirstLines, ZenonT(30)
<1>5. /\ Acknowledged' \in Seq(Record) /\ Len(Acknowledged') = acked'
      /\ \A i \in 1..acked' : Acknowledged'[i] = file'.lines[i]
  BY <1>1, <1>2, <1>3, FirstLines, ZenonT(30)
<1> QED
  BY <1>4, <1>5

\* What the oldest checkpoint that may be on disk counts.
CountedBy(c) == IF c < 0 THEN 0 ELSE c

\* The choice in Committed is the oldest checkpoint that may survive.
LEMMA CommittedIs ==
    ASSUME NEW cs, cs \subseteq Nat \cup {Absent}, NEW m \in cs, m <= MaxLines,
           \A n \in cs : m <= n,
           NEW v, v = CHOOSE c \in 0..MaxLines :
                          \E k \in cs : /\ \A n \in cs : k <= n
                                        /\ c = IF k < 0 THEN 0 ELSE k
    PROVE  v = CountedBy(m)
<1> DEFINE P(c) == \E k \in cs : /\ \A n \in cs : k <= n
                                 /\ c = IF k < 0 THEN 0 ELSE k
<1>1. MaxLines \in Nat /\ m \in Nat \cup {Absent}
  BY PersistenceAssumption
<1>2. CountedBy(m) \in 0..MaxLines
  BY <1>1 DEF CountedBy, Absent
<1>3. P(CountedBy(m))
  BY DEF CountedBy
<1>4. ASSUME NEW c \in 0..MaxLines, P(c)
      PROVE  c = CountedBy(m)
  <2>1. PICK k \in cs : (\A n \in cs : k <= n) /\ c = IF k < 0 THEN 0 ELSE k
    BY <1>4
  <2>2. k <= m /\ m <= k /\ k \in Nat \cup {Absent}
    BY <2>1
  <2>3. k = m
    BY <1>1, <2>2 DEF Absent
  <2> QED
    BY <2>1, <2>3 DEF CountedBy
<1>5. v = CHOOSE c \in 0..MaxLines : P(c)
  OBVIOUS
<1> HIDE DEF P
<1>6. v \in 0..MaxLines /\ P(v)
  BY <1>2, <1>3, <1>5
<1> QED
  BY <1>4, <1>6

\* The number a step leaves committed, from the oldest checkpoint it leaves.
OldestCounts ==
    \E m \in checkpoints :
        /\ \A n \in checkpoints : m <= n
        /\ m \in Nat \cup {Absent} /\ m <= checkpoint
        /\ Committed = CountedBy(m)
        /\ Committed \in 0..acked

\* Committed is what the oldest such checkpoint counts.
LEMMA CommittedAre == PersistenceInv => OldestCounts
<1> SUFFICES ASSUME PersistenceInv PROVE OldestCounts
  OBVIOUS
<1> USE DEF PersistenceInv
<1>1. PICK m \in checkpoints : \A n \in checkpoints : m <= n
  BY DEF CheckpointsCovered
<1>2. /\ checkpoints \subseteq Nat \cup {Absent} /\ m \in Nat \cup {Absent}
      /\ m <= checkpoint /\ checkpoint <= acked /\ checkpoint \in Nat \cup {Absent}
  BY <1>1 DEF CheckpointsCovered
<1>3. acked \in Nat /\ acked <= MaxLines /\ m <= MaxLines
  <2>1. acked \in Nat /\ Len(file.lines) \in Nat /\ acked <= Len(file.lines) /\ Len(file.lines) <= MaxLines
    BY FileLengths
  <2> QED
    BY <1>2, <2>1, PersistenceAssumption DEF Absent
<1>4. Committed = CountedBy(m)
  BY <1>1, <1>2, <1>3, CommittedIs DEF Committed
<1>5. CountedBy(m) \in 0..acked
  BY <1>2, <1>3 DEF CountedBy, Absent
<1> QED
  BY <1>1, <1>2, <1>4, <1>5 DEF OldestCounts

\* The same of the next state.
LEMMA CommittedAreNext == PersistenceInv' => OldestCounts'
  BY CommittedAre, PTL

\* Contents that agree on what both promise have the same records there.
LEMMA AcknowledgedStep ==
    ASSUME PersistenceInv, PersistenceInv', acked' <= acked,
           file' \in survivors \/ file \in survivors'
    PROVE  Acknowledged' = SubSeq(Acknowledged, 1, acked')
<1>1. acked \in Nat /\ acked' \in Nat
  BY DEF PersistenceInv, PromisesKept
<1>2. \A i \in 1..acked' : i \in 1..acked /\ file'.lines[i] = file.lines[i]
  BY <1>1 DEF PersistenceInv, PromisesKept
<1>3. /\ Acknowledged \in Seq(Record) /\ Len(Acknowledged) = acked
      /\ \A i \in 1..acked : Acknowledged[i] = file.lines[i]
      /\ Acknowledged' \in Seq(Record) /\ Len(Acknowledged') = acked'
      /\ \A i \in 1..acked' : Acknowledged'[i] = file'.lines[i]
  BY AcknowledgedIs
<1>4. \A i \in 1..acked' : Acknowledged'[i] = Acknowledged[i]
  BY <1>2, <1>3
<1> QED
  BY <1>3, <1>4, FirstOfIs

\* While no less is promised, the records stay.
LEMMA AcknowledgedStays ==
    ASSUME PersistenceInv, PersistenceInv', acked' = acked,
           file' \in survivors \/ file \in survivors'
    PROVE  Acknowledged' = Acknowledged
<1>1. acked \in Nat
  BY DEF PersistenceInv, PromisesKept
<1>2. Acknowledged \in Seq(Record) /\ Len(Acknowledged) = acked
  BY AcknowledgedIs
<1>3. Acknowledged' = SubSeq(Acknowledged, 1, Len(Acknowledged))
  BY <1>1, <1>2, AcknowledgedStep
<1> QED
  BY <1>2, <1>3, SubSeqFull

\* A successful Append adds its record to those promised, and with it those
\* that failed calls have left.
LEMMA AppendAcknowledges ==
    ASSUME PersistenceInv, PersistenceInv', AppendSyncs
    PROVE  Journal!Acknowledge \/ UNCHANGED <<Acknowledged, Committed, watermarked>>
<1>1. /\ acked' = Len(file.lines) /\ file' = file /\ survivors' = {file}
      /\ UNCHANGED <<watermarked, checkpoints>>
  BY DEF AppendSyncs, Sync, checkpointVars
<1>2. Committed' = Committed
  BY <1>1 DEF Committed
<1>3. acked \in Nat /\ acked' \in Nat /\ acked <= acked'
  BY <1>1, FileLengths DEF PersistenceInv
<1>4. /\ Acknowledged \in Seq(Record) /\ Len(Acknowledged) = acked
      /\ \A i \in 1..acked : Acknowledged[i] = file.lines[i]
      /\ Acknowledged' \in Seq(Record) /\ Len(Acknowledged') = acked'
      /\ \A i \in 1..acked' : Acknowledged'[i] = file.lines[i]
  BY <1>1, AcknowledgedIs
<1>5. CASE acked' = acked
  <2>1. Acknowledged' = Acknowledged
    BY <1>1, <1>5, AcknowledgedStays
  <2> QED
    BY <1>1, <1>2, <2>1
<1>6. CASE acked' # acked
  <2>1. \A i \in 1..acked : Acknowledged[i] = Acknowledged'[i]
    BY <1>3, <1>4
  <2>2. Acknowledged = SubSeq(Acknowledged', 1, Len(Acknowledged))
    BY <1>3, <1>4, <2>1, FirstOfIs
  <2>3. Acknowledged = SubSeq(Acknowledged, 1, Len(Acknowledged))
    BY <1>4, SubSeqFull
  <2>4. Len(Acknowledged) <= Len(Acknowledged') /\ Acknowledged # Acknowledged'
    BY <1>3, <1>4, <1>6
  <2>5. Journal!IsStrictPrefix(Acknowledged, Acknowledged')
    BY <2>2, <2>3, <2>4 DEF Journal!IsStrictPrefix, Journal!IsPrefix
  <2> QED
    BY <1>1, <1>2, <1>4, <2>5 DEF Journal!Acknowledge
<1> QED
  BY <1>5, <1>6

\* A recovery takes back what the checkpoint does not count, and no more.
LEMMA CutRecovers ==
    ASSUME PersistenceInv, PersistenceInv', KeepTruncates
    PROVE  Journal!Recover
<1>1. /\ Keep \in Nat /\ Keep <= acked /\ checkpoint <= Keep /\ acked' = Keep
      /\ acked \in Nat
  BY KeepCovered, CutIs, FileLengths DEF PersistenceInv
<1>2. file \in survivors'
  BY CutIs, FileLengths DEF PersistenceInv, FilesTyped, Contents
<1>3. Acknowledged' = SubSeq(Acknowledged, 1, Keep)
  BY <1>1, <1>2, AcknowledgedStep
<1>4. UNCHANGED <<watermarked, checkpoints>> /\ watermarked
  BY DEF KeepTruncates, checkpointVars, PersistenceInv, CutsWatermarked, Recovery
<1>5. Committed' = Committed
  BY <1>4 DEF Committed
<1>6. Keep \in Committed..Len(Acknowledged)
  <2>1. PICK m \in checkpoints : /\ m \in Nat \cup {Absent} /\ m <= checkpoint
                                 /\ Committed = CountedBy(m)
    BY CommittedAre DEF OldestCounts
  <2>2. checkpoint \in Nat \cup {Absent} /\ Len(Acknowledged) = acked
    BY AcknowledgedIs DEF PersistenceInv, CheckpointsCovered
  <2> QED
    BY <1>1, <2>1, <2>2 DEF CountedBy, Absent
<1> QED
  BY <1>3, <1>4, <1>5, <1>6 DEF Journal!Recover

\* Every other step leaves the records alone, and what is committed stays so.
LEMMA CheckpointsCommit ==
    ASSUME PersistenceInv, PersistenceInv', acked' = acked, watermarked' = watermarked,
           file' \in survivors \/ file \in survivors',
           \A n \in checkpoints' : n \in checkpoints \/ checkpoint <= n
    PROVE  Journal!Commit \/ UNCHANGED <<Acknowledged, Committed, watermarked>>
<1>1. Acknowledged' = Acknowledged
  BY AcknowledgedStays
<1>2. PICK m \in checkpoints :
        /\ \A n \in checkpoints : m <= n
        /\ m \in Nat \cup {Absent} /\ m <= checkpoint
        /\ Committed = CountedBy(m) /\ Committed \in 0..acked
  BY CommittedAre DEF OldestCounts
<1>3. OldestCounts'
  BY CommittedAreNext
<1>4. PICK k \in checkpoints' :
        /\ k \in Nat \cup {Absent}
        /\ Committed' = CountedBy(k) /\ Committed' \in 0..acked
  BY <1>3 DEF OldestCounts
<1>5. m <= k
  <2>1. checkpoint \in Nat \cup {Absent}
    BY DEF PersistenceInv, CheckpointsCovered
  <2> QED
    BY <1>2, <1>4, <2>1 DEF Absent
<1>6. Committed <= Committed'
  BY <1>2, <1>4, <1>5 DEF CountedBy, Absent
<1>7. Len(Acknowledged) = acked /\ acked \in Nat
  BY AcknowledgedIs DEF PersistenceInv, PromisesKept
<1>8. CASE Committed' = Committed
  BY <1>1, <1>8
<1>9. CASE Committed' # Committed
  <2>1. Committed' \in (Committed + 1)..Len(Acknowledged)
    BY <1>2, <1>4, <1>6, <1>7, <1>9
  <2> QED
    BY <1>1, <2>1 DEF Journal!Commit
<1> QED
  BY <1>8, <1>9

\* Every step is one of the abstract journal, or changes nothing of it.
LEMMA JournalStep ==
    ASSUME PersistenceInv, PersistenceInv', [Next]_vars
    PROVE  Journal!Next \/ UNCHANGED <<Acknowledged, Committed, watermarked>>
<1>1. /\ file \in survivors /\ file \in File /\ file' \in survivors'
      /\ acked \in Nat /\ checkpoint \in Nat \cup {Absent}
  BY DEF PersistenceInv, FilesTyped, PromisesKept, CheckpointsCovered
<1>2. CASE AppendSyncs
  BY <1>2, AppendAcknowledges DEF Journal!Next
<1>3. CASE KeepTruncates
  BY <1>3, CutRecovers DEF Journal!Next
<1>4. CASE OpenStore \/ KeepRepairs \/ KeepSyncs \/ OpenJournal
  <2>1. /\ UNCHANGED <<acked, watermarked, checkpoints>>
        /\ file \in survivors'
    BY <1>1, <1>4 DEF OpenStore, KeepRepairs, KeepSyncs, OpenJournal, RepairPartialLine, Contents, Sync,
                      journalVars, checkpointVars
  <2> QED
    BY <2>1, CheckpointsCommit DEF Journal!Next
<1>5. CASE (\E r \in Record : BeginAppend(r)) \/ WritePart \/ WriteFails \/ AppendSyncFails
  <2>1. /\ UNCHANGED <<acked, watermarked, checkpoints>>
        /\ file \in survivors'
    BY <1>1, <1>5 DEF BeginAppend, WritePart, WriteFails, AppendSyncFails, Contents,
                      journalVars, checkpointVars
  <2> QED
    BY <2>1, CheckpointsCommit DEF Journal!Next
<1>6. CASE WriteTemporary \/ SyncTemporary \/ TemporaryFails \/ Killed
  <2>1. /\ UNCHANGED <<acked, watermarked, checkpoints>>
        /\ file \in survivors'
    BY <1>1, <1>6 DEF WriteTemporary, SyncTemporary, TemporaryFails, Killed, Stops, journalVars
  <2> QED
    BY <2>1, CheckpointsCommit DEF Journal!Next
<1>7. CASE Rename
  <2>1. UNCHANGED <<file, survivors, acked, watermarked>>
    BY <1>7 DEF Rename, journalVars
  <2>2. /\ temporary.lines = IF watermarked THEN acked ELSE 0
        /\ checkpoints' = checkpoints \cup {temporary.lines}
    BY <1>7 DEF Rename, PersistenceInv, TemporaryCurrent
  <2>3. checkpoint <= temporary.lines
    <3>1. checkpoint <= acked /\ (~watermarked => checkpoint <= 0)
      BY DEF PersistenceInv, CheckpointsCovered, CutsWatermarked
    <3> QED
      BY <2>2, <3>1
  <2>4. \A n \in checkpoints' : n \in checkpoints \/ checkpoint <= n
    BY <2>2, <2>3
  <2> QED
    BY <1>1, <2>1, <2>4, CheckpointsCommit DEF Journal!Next
<1>8. CASE SyncDirectory
  <2>1. /\ UNCHANGED <<file, survivors, acked, watermarked>>
        /\ checkpoints' = {checkpoint} \/ checkpoints' = checkpoints
    BY <1>8 DEF SyncDirectory, journalVars
  <2>2. checkpoint <= checkpoint
    BY <1>1 DEF Absent
  <2>3. \A n \in checkpoints' : n \in checkpoints \/ checkpoint <= n
    BY <2>1, <2>2
  <2> QED
    BY <1>1, <2>1, <2>3, CheckpointsCommit DEF Journal!Next
<1>9. CASE PowerLost
  <2>1. /\ file' \in survivors /\ UNCHANGED <<acked, watermarked>>
        /\ checkpoint' \in checkpoints /\ checkpoints' = {checkpoint'}
    BY <1>9 DEF PowerLost, Stops
  <2>2. \A n \in checkpoints' : n \in checkpoints \/ checkpoint <= n
    BY <2>1
  <2> QED
    BY <2>1, <2>2, CheckpointsCommit DEF Journal!Next
<1>10. CASE UNCHANGED vars
  BY <1>10 DEF vars, journalVars, checkpointVars, Acknowledged, Committed
<1> QED
  BY <1>2, <1>3, <1>4, <1>5, <1>6, <1>7, <1>8, <1>9, <1>10 DEF Next

(* Across every crash, every failed call and every recovery a journal keeps *)
(* the records whose Append has returned, down to the number the durable    *)
(* checkpoint counts: Persistence implements DurableJournal.                *)
THEOREM JournalCorrect == Spec => JournalSpec
<1>1. Init => Journal!Init
  <2> SUFFICES ASSUME Init PROVE Journal!Init
    OBVIOUS
  <2>1. file.lines = <<>> /\ acked = 0 /\ checkpoints = {Absent} /\ watermarked \in BOOLEAN
    BY DEF Init
  <2>2. Min({0, Len(<<>>)}) = 0
    BY DEF Min
  <2>3. Acknowledged = <<>>
    BY <2>1, <2>2, SubSeqEmpty DEF Acknowledged
  <2>4. Committed = 0
    <3>1. PersistenceInv
      BY InitEstablishes
    <3>2. Committed \in 0..acked
      BY <3>1, CommittedAre DEF OldestCounts
    <3> QED
      BY <2>1, <3>2
  <2> QED
    BY <2>1, <2>3, <2>4 DEF Journal!Init
<1>2. PersistenceInv /\ PersistenceInv' /\ [Next]_vars
        => [Journal!Next]_<<Acknowledged, Committed, watermarked>>
  BY JournalStep
<1> QED
  BY <1>1, <1>2, PersistenceInvariant, PTL DEF Spec, JournalSpec, Journal!Spec
=============================================================================
