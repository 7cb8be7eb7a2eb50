--------------------------- MODULE DurableJournal ---------------------------
(* What a journal of persistence/files.go promises its caller: a record     *)
(* whose Append has returned stays, whole and in its place, through every   *)
(* crash.  Only a recovery takes records back, and never below the number   *)
(* the last durable checkpoint counts; a journal that is not watermarked    *)
(* never loses any.                                                         *)
EXTENDS Naturals, SequencesExt

CONSTANTS
    Record       \* What is appended.

VARIABLES
    records,     \* The records whose Append has returned, oldest first.
    committed,   \* How many of them the checkpoint on disk counts, at least.
    watermarked  \* Is the journal cut to the checkpoint when it is reopened?

Init ==
    /\ records = <<>> /\ committed = 0
    /\ watermarked \in BOOLEAN

(* A failed Append may have left its record; the next one to succeed brings *)
(* it along.                                                                *)
Acknowledge ==
    /\ IsStrictPrefix(records, records')
    /\ records' \in Seq(Record)
    /\ UNCHANGED <<committed, watermarked>>

Commit ==
    /\ committed' \in (committed + 1)..Len(records)
    /\ UNCHANGED <<records, watermarked>>

Recover ==
    /\ watermarked
    /\ \E w \in committed..Len(records) : records' = SubSeq(records, 1, w)
    /\ UNCHANGED <<committed, watermarked>>

Next == Acknowledge \/ Commit \/ Recover

Spec == Init /\ [][Next]_<<records, committed, watermarked>>
=============================================================================
