------------------------------ MODULE MCEngine ------------------------------
(***************************************************************************)
(* Small instances of Engine for TLC: two members, one link, and the plan  *)
(* actions and sources of the configuration given in the .cfg files.       *)
(***************************************************************************)
EXTENDS Engine

CONSTANTS n1, n2

MCLinks == {<<n1, n2>>}
MCCapabilities == {"timeout", "crash_restart", "client_request"}

OnLink(kinds, starts, counts) ==
    [kind : kinds, link : MCLinks, start : starts, count : counts]
OnMembers(kinds, nodes) == [kind : kinds, node : nodes]
Ticks(ticks) == [kind : {"advance_ticks"}, ticks : ticks]

\* Batches over one queue between a crash, a restart and ticks.
MCPlanActions ==
    OnLink({"deliver"}, {1, 2}, {2}) \cup OnLink({"deliver"}, {1}, {3})
    \cup OnLink({"drop", "duplicate"}, {1}, {2})
    \cup OnMembers({"crash", "restart"}, {n2}) \cup OnMembers({"request"}, {n1})
    \cup Ticks({1, 3})

\* A plan, a plan cut off at its budget, and an online policy.
MCSources == {[maximum |-> 3, budgeted |-> FALSE, online |-> FALSE],
              [maximum |-> 2, budgeted |-> TRUE, online |-> FALSE],
              [maximum |-> 2, budgeted |-> TRUE, online |-> TRUE]}
=============================================================================
