------------------------------ MODULE Cluster ------------------------------
(***************************************************************************)
(* One execution of the whole stack on etcd-raft: the adapter's cluster    *)
(* (EtcdAdapter), the network between its nodes, the Raft oracle, the Raft *)
(* mapper and the reference model the strict TLC server executes.          *)
(*                                                                         *)
(* A step is one action: ValidateAction admits it, the adapter performs it,*)
(* the oracle checks the observations around it, and the events Map makes  *)
(* of it are simulated on the reference model.  The server replays a whole *)
(* execution from its initial state at the end; replaying the events of    *)
(* each step as it is taken visits the same states.                        *)
(***************************************************************************)
EXTENDS RaftMapper, RaftOracle

CONSTANTS
    ModelEnabled,   \* whether the execution is simulated on the reference model
    Budgets         \* bound: what an execution may spend, one of these

(* Ticks that fire a timer, elections, client requests, crashes, restarts, *)
(* and the different messages sent.                                        *)
Budget == [ticks : Nat, elections : Nat, requests : Nat, crashes : Nat, restarts : Nat,
           messages : Nat]

ASSUME ExecutionAssumption == ModelEnabled \in BOOLEAN /\ Budgets \subseteq Budget

Reference == INSTANCE RaftModel WITH Server <- Nodes, Nil <- None

VARIABLES
    findings,   \* the codes of the oracle's findings
    reference,  \* [model, verdict]: the reference model and what the server says
    budget      \* what is left of the budget of this execution

clusterVars == <<nodes, network, leadersByTerm, findings, reference, budget>>

Init ==
    /\ AdapterInit /\ OracleInit
    /\ findings = {}
    /\ reference = [model |-> Reference!ModelInit, verdict |-> Reference!Accepted]
    /\ budget \in Budgets

(* What the server says of the events of a step.                           *)
Judge(mapped) ==
    IF ~mapped.supported THEN [reference EXCEPT !.verdict = "unsupported_semantics"]
    ELSE IF ModelEnabled THEN Reference!Simulate(reference, mapped.events) ELSE reference

(* A finding or a transition without events ends the run; the server speaks*)
(* only after it.                                                          *)
RunGoesOn == findings = {} /\ reference.verdict # "unsupported_semantics"

Execute(action, effects) ==
    \E before \in {Observation(nodes)}, after \in {Observation(effects.nodes)} :
        /\ RunGoesOn /\ ValidateAction(before, action)
        /\ nodes' = effects.nodes
        /\ network' = network \cup effects.sent /\ Cardinality(network') <= budget.messages
        /\ leadersByTerm' = KnownLeaders(after)
        /\ findings' = findings \cup Check(before, after, effects.nodes)
        /\ reference' = Judge(Map(action, effects, before, after))

On(kind, id) == [kind |-> kind, node |-> id]

Spend(item) == budget[item] > 0 /\ budget' = [budget EXCEPT ![item] = @ - 1]

AdvanceTime ==
    \E fired \in (SUBSET Running) \ {{}} :
        LET elections == Cardinality({id \in fired : nodes[id].raw.role # "leader"})
        IN  /\ budget.ticks > 0 /\ budget.elections >= elections
            /\ budget' = [budget EXCEPT !.ticks = @ - 1, !.elections = @ - elections]
            /\ Execute([kind |-> "advance_time", fired |-> fired], Tick(fired))

DeliverMessage ==
    /\ \E e \in network : /\ e.payload.to \in Running
                          /\ Execute([kind |-> "deliver", message |-> e], Deliver(e))
    /\ UNCHANGED budget

TimeoutNode ==
    /\ Spend("elections")
    /\ \E id \in Running : Execute(On("timeout", id), ForceTimeout(id))

CrashNode ==
    /\ Spend("crashes")
    /\ \E id \in Running : Execute(On("crash", id), Crash(id))

RestartNode ==
    /\ Spend("restarts")
    /\ \E id \in Nodes \ Running : Execute(On("restart", id), Restart(id))

ClientRequest ==
    /\ Spend("requests")
    /\ \E id \in Running, v \in 1..MaxValue :
           Execute([kind |-> "request", node |-> id, value |-> v], Request(id, v))

Next ==
    \/ AdvanceTime
    \/ DeliverMessage
    \/ TimeoutNode
    \/ CrashNode
    \/ RestartNode
    \/ ClientRequest

Spec == Init /\ [][Next]_clusterVars

------------------------------------------------------------------------------
(* What the variables hold.                                                *)
ClusterTypeOK ==
    /\ \A id \in Nodes :
           LET n == nodes[id]
           IN  /\ n.raw.role \in {"follower", "candidate", "leader"}
               /\ {n.raw.term, n.store.term} \subseteq 0..LargestTerm
               /\ {n.raw.vote, n.raw.lead, n.store.vote} \subseteq Nodes \cup {None}
               /\ Len(n.store.log) <= MaxLogIndex
               /\ n.applied \in 0..MaxLogIndex /\ n.lastSnapshotIndex \in 0..n.applied
    /\ \A e \in network : {e.payload.from, e.payload.to} \subseteq Nodes
    /\ DOMAIN leadersByTerm \subseteq 1..LargestTerm
    /\ budget \in Budget

(* No call of the adapter fails: raft never hands over a gap in the        *)
(* committed entries or a snapshot that contradicts them (recordCommitted, *)
(* applyReadySnapshot), a snapshot always finds the digest and the entry it*)
(* is taken at (maybeSnapshot), and the sender of every outgoing message   *)
(* runs or is the requester of a proposal passed on (outboundMessage).     *)
AdapterCallsSucceed == \A id \in Nodes : ~nodes[id].failed

(* Every execution of a correct etcd-raft is silent under the oracle, with *)
(* crashes, restarts and compacted logs: no false report of a second       *)
(* leader, of a commit or applied index that went back, or of a conflict.  *)
OracleSilent == findings = {}

(* The events Map makes of a step are accepted by the strict server: their *)
(* parameters are in bounds, each is enabled where the ones before it have *)
(* led, and every state they reach satisfies the invariants of raft.tla.   *)
ReferenceAccepts == reference.verdict = Reference!Accepted

(* ... and they lead the reference model where the cluster is: the same    *)
(* nodes up, with the same terms, logs and leaders, every candidate a      *)
(* candidate, every vote cast on both sides the same, and nothing committed*)
(* that the cluster has not.  (The model may hold a candidate that has lost*)
(* its election, grant a vote etcd refuses for the leader it follows, and  *)
(* lag behind in what is committed.)                                       *)
ReferenceMatches ==
    LET m == reference.model
    IN  /\ m.currentActive = Running
        /\ \A id \in Nodes :
               LET n == nodes[id]
               IN  /\ m.currentTerm[id] = n.store.term
                   /\ m.log[id] = n.store.log
                   /\ m.commitIndex[id] <= n.store.commit
                   /\ n.store.vote # None => m.votedFor[id] = n.store.vote
                   /\ n.running => /\ (m.state[id] = "leader") = (n.raw.role = "leader")
                                   /\ n.raw.role = "candidate" => m.state[id] = "candidate"

(* A node answers for one candidate per term, whatever crashes and restarts*)
(* lie between two requests: its vote is on disk before its answer is out. *)
OneVotePerTerm ==
    LET grants == {e.payload : e \in {f \in network : f.payload.type = "MsgVoteResp" /\ ~f.payload.reject}}
    IN  \A a, b \in grants : a.from = b.from /\ a.term = b.term => a.to = b.to

(* A crash or a restart takes nothing a node has answered for: term, vote, *)
(* log, commit and applied index, and the digests the oracle compares.     *)
Durable(n) ==
    LET r == n.raw
        memory == [term |-> r.term, vote |-> r.vote, log |-> r.log, commit |-> r.commit, applied |-> r.applied]
        disk == [term |-> n.store.term, vote |-> n.store.vote, log |-> n.store.log,
                 commit |-> n.store.commit, applied |-> n.applied]
    IN  IF n.running THEN memory ELSE disk

FailuresLoseNothing ==
    [][\A id \in Nodes :
           nodes[id].running # nodes'[id].running =>
               /\ Durable(nodes'[id]) = Durable(nodes[id])
               /\ nodes'[id].prefixDigests = nodes[id].prefixDigests]_nodes

(* What a node has applied stays what it is: neither entries, a snapshot   *)
(* from the leader, compaction nor a restart rewrites a committed prefix.  *)
AppliedStays ==
    [][\A id \in Nodes :
           /\ nodes[id].applied <= nodes'[id].applied
           /\ SubSeq(nodes'[id].prefixDigests, 1, nodes[id].applied)
                  = SubSeq(nodes[id].prefixDigests, 1, nodes[id].applied)]_nodes

(* The oracle passes over a node that shows no digests.  None does: what a *)
(* node has committed has its digest, so no comparison is ever left out.   *)
EveryPrefixCompared == \A id \in Nodes : PrefixAvailable(nodes, Observation(nodes), id)

(* A leader can bring any follower up to date: the entries it has compacted*)
(* away are covered by its snapshot, which is the committed prefix at the  *)
(* index it was taken at.                                                  *)
CompactedIsCovered ==
    \A id \in Nodes :
        LET n == nodes[id]
        IN  /\ n.store.snapshot = SubSeq(n.prefixDigests, 1, n.lastSnapshotIndex)
            /\ n.store.first <= Len(n.store.snapshot) + 1
            /\ SubSeq(n.store.log, 1, n.applied) = SubSeq(n.prefixDigests, 1, n.applied)

(* Snapshots and compaction leave neither a follower that cannot be caught  *)
(* up (maybeSnapshot, snapshot.go) nor a prefix the oracle cannot compare   *)
(* (PrefixAvailable, checker.go), however old the snapshot is that a node   *)
(* restarts from or applies.                                                *)
PrefixesKept == EveryPrefixCompared /\ CompactedIsCovered

(* With the weakened quorum, a term in which two nodes have led is reported*)
(* even if the first of them had crashed by then.  Leaders are known by    *)
(* the entries they sent.                                                  *)
TwoLeadersReported ==
    LET appends == {e.payload : e \in {f \in network : f.payload.type = "MsgApp"}}
    IN  (\E a, b \in appends : a.term = b.term /\ a.from # b.from)
            => "multiple_leaders_same_term" \in findings

(* No election won by the weakened quorum is accepted by the server: the   *)
(* mapper reports the leader all the same, and BecomeLeader is disabled.   *)
WeakElectionsRefused ==
    (\E e \in network : e.payload.type = "MsgApp") => reference.verdict = "disabled_action"
=============================================================================
