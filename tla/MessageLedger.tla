--------------------------- MODULE MessageLedger ---------------------------
(***************************************************************************)
(* What the deterministic network promises about message identities,       *)
(* without links, positions, steps or time: an identity is issued once, in *)
(* order, its message waits, and it leaves the network at most once.  Only *)
(* the start of a new execution issues identities again.                   *)
(***************************************************************************)
EXTENDS Integers

CONSTANT MaxUint64

VARIABLES issued, waiting

Init == issued = 0 /\ waiting = {}

Issue ==
    /\ issued < MaxUint64
    /\ issued' = issued + 1
    /\ waiting' = waiting \cup {issued + 1}

Leave(id) ==
    /\ id \in waiting
    /\ waiting' = waiting \ {id}
    /\ UNCHANGED issued

NewExecution == issued' = 0 /\ waiting' = {}

Next == Issue \/ (\E id \in 1..MaxUint64 : Leave(id)) \/ NewExecution

Spec == Init /\ [][Next]_<<issued, waiting>>
=============================================================================
