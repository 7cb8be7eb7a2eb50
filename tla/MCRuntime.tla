----------------------------- MODULE MCRuntime -----------------------------
(***************************************************************************)
(* Small instances of Runtime for TLC: two members and the links between   *)
(* them, with the limits of the configuration given in the .cfg files.     *)
(***************************************************************************)
EXTENDS Runtime

CONSTANTS n1, n2

MCLinks == {<<n1, n2>>, <<n2, n1>>}
MCCapabilities == {"timeout", "crash_restart", "client_request"}

\* The two members are interchangeable.
MCSymmetry == Permutations({n1, n2})
=============================================================================
