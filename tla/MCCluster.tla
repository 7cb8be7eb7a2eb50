----------------------------- MODULE MCCluster -----------------------------
(* Instances of Cluster: the nodes are interchangeable.                    *)
EXTENDS Cluster

Symmetry == Permutations(Nodes)

MayUse(ticks, elections, requests, crashes, restarts, messages) ==
    [ticks |-> ticks, elections |-> elections, requests |-> requests,
     crashes |-> crashes, restarts |-> restarts, messages |-> messages]

(* A heartbeat and a crash; two elections; a request; two elections and a  *)
(* request.  A leader elected takes eight messages, a request eight more.  *)
MCBudgets ==
    {MayUse(1, 1, 0, 1, 1, 12), MayUse(0, 2, 0, 0, 0, 16), MayUse(0, 1, 1, 0, 0, 16),
     MayUse(0, 2, 1, 0, 0, 14)}

(* A proposal passed on by a deposed leader after its requester crashed    *)
(* takes fourteen messages.                                                *)
MCSnapshotBudgets ==
    {MayUse(1, 1, 0, 1, 1, 12), MayUse(0, 2, 0, 0, 0, 16), MayUse(0, 2, 1, 1, 0, 14)}

(* Two leaders of one term take fourteen messages between four nodes, a    *)
(* node that votes, restarts and is asked again eight.                     *)
MCWeakQuorumBudgets == {MayUse(0, 2, 0, 1, 0, 14), MayUse(0, 2, 0, 1, 1, 8)}
=============================================================================
