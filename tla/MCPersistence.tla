--------------------------- MODULE MCPersistence ---------------------------
(* A journal of up to three lines in two parts each and its checkpoint,     *)
(* through three crashes.                                                   *)
EXTENDS Persistence, TLC

Symmetry == Permutations(Record)
=============================================================================
