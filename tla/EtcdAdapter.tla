---------------------------- MODULE EtcdAdapter ----------------------------
(***************************************************************************)
(* internal/adapters/etcdraft: the system under test, a cluster of etcd    *)
(* RawNodes in memory.                                                     *)
(*                                                                         *)
(* A node keeps the RawNode, which a crash loses, apart from what survives:*)
(* the MemoryStorage, the applied index and the digests of its committed   *)
(* prefixes.  Every call drains Ready before it returns, so what it makes  *)
(* the node persist, apply and send belongs to that call.                  *)
(*                                                                         *)
(* The digest of prefix k is a hash chained over its entries, which two    *)
(* prefixes share exactly when their entries agree: the chain of digests is*)
(* modelled by the sequence of those entries, and so is the snapshot that  *)
(* carries the chain.                                                      *)
(*                                                                         *)
(* A call is an operator whose value is the cluster after it and the       *)
(* effects the adapter returns; the modules that extend this one apply it. *)
(* The network belongs to the Runtime: here it is the set of all messages  *)
(* sent so far, any of which may be delivered, in any order, again or      *)
(* never.                                                                  *)
(***************************************************************************)
EXTENDS RawNode

CONSTANTS
    SnapshotThreshold, RetainEntries,   \* SnapshotPolicy, threshold 0 = off
    VoteQuorumDivisor,                  \* FaultPolicy: 2, or 3 for the weakened quorum
    NoMessage                           \* no delivered message

(* A message with the epoch of its sender.                                 *)
Envelope == [epoch : Nat \ {0}, payload : Message]

ASSUME NoMessageAssumption == NoMessage \notin Envelope

ASSUME PolicyAssumption ==
    /\ SnapshotThreshold \in Nat /\ RetainEntries \in Nat
    /\ VoteQuorumDivisor \in {2, 3}
    /\ VoteQuorumDivisor = 3 => Cardinality(Nodes) >= 4

VARIABLES
    nodes,      \* Adapter.nodes
    network     \* external: every message sent, as an envelope

InitStore == [term |-> 0, vote |-> None, commit |-> 0, log |-> <<>>, first |-> 1, snapshot |-> <<>>]

NewNode == [epoch |-> 1, running |-> TRUE, raw |-> InitRaw, store |-> InitStore,
            applied |-> 0, prefixDigests |-> <<>>, lastSnapshotIndex |-> 0,
            voteTerm |-> 0, voteResponses |-> [p \in {} |-> TRUE], failed |-> FALSE]

AdapterInit == nodes = [id \in Nodes |-> NewNode] /\ network = {}

Running == {id \in Nodes : nodes[id].running}

------------------------------------------------------------------------------
(* Ready: what one node persists, applies and compacts, in this order.     *)

(* Mutant of ApplyReadySnapshot: the digests the snapshot carries are not  *)
(* restored.                                                               *)
ApplySnapshotWithoutDigests(n) ==
    LET index == Len(n.raw.snapshot)
    IN  IF ~n.raw.restored \/ index <= n.lastSnapshotIndex \/ index < n.applied THEN n
        ELSE [n EXCEPT !.applied = index, !.lastSnapshotIndex = index,
                       !.store = [@ EXCEPT !.snapshot = n.raw.snapshot, !.log = n.raw.snapshot,
                                           !.first = index + 1]]

(* A snapshot the storage or the application is past is left alone.        *)
ApplyReadySnapshot(n) ==
    LET snapshot == n.raw.snapshot
        index == Len(snapshot)
        conflict == /\ index <= Len(n.prefixDigests)
                    /\ SubSeq(n.prefixDigests, 1, index) # snapshot
    IN  IF ~n.raw.restored \/ index <= n.lastSnapshotIndex \/ index < n.applied THEN n
        ELSE IF conflict THEN [n EXCEPT !.failed = TRUE]
        ELSE [n EXCEPT !.prefixDigests = snapshot, !.applied = index, !.lastSnapshotIndex = index,
                       !.store = [@ EXCEPT !.snapshot = snapshot, !.log = snapshot,
                                           !.first = index + 1]]

(* Mutants of PersistReady: a HardState that only brings a vote, or only a *)
(* commit index, is taken for one that brings nothing.                     *)
PersistWithoutVote(n) ==
    [n EXCEPT !.store = [@ EXCEPT !.term = n.raw.term, !.commit = n.raw.commit, !.log = n.raw.log]]

PersistWithoutCommit(n) ==
    [n EXCEPT !.store = [@ EXCEPT !.term = n.raw.term, !.vote = n.raw.vote, !.log = n.raw.log]]

PersistReady(n) ==
    [n EXCEPT !.store = [@ EXCEPT !.term = n.raw.term, !.vote = n.raw.vote,
                                  !.commit = n.raw.commit, !.log = n.raw.log]]

(* The entries raft hands over once, after its own applied index: none in  *)
(* the round of a snapshot.                                                *)
Committed(r) == IF r.restored THEN {} ELSE (r.applied + 1)..r.commit

(* Mutant of RecordCommitted: it applies the entries that were persisted.  *)
RecordPersisted(n) == [n EXCEPT !.applied = LastIndex(n.raw), !.prefixDigests = n.raw.log]

(* recordCommitted over the committed entries: an index already applied is *)
(* skipped, a jump or a missing digest is an error.                        *)
RecordCommitted(n) ==
    LET fresh == {k \in Committed(n.raw) : k > n.applied}
        broken == \/ n.applied + 1 \notin fresh
                  \/ n.applied > Len(n.prefixDigests)
    IN  IF fresh = {} THEN n
        ELSE IF broken THEN [n EXCEPT !.failed = TRUE]
        ELSE [n EXCEPT !.applied = n.raw.commit,
                       !.prefixDigests = SubSeq(@, 1, n.applied) \o
                                         SubSeq(n.raw.log, n.applied + 1, n.raw.commit)]

SnapshotDue(n) ==
    /\ SnapshotThreshold > 0 /\ n.applied > n.lastSnapshotIndex
    /\ n.applied - n.lastSnapshotIndex >= SnapshotThreshold

(* Mutant of FirstRetained: one entry too many is compacted away.          *)
FirstRetainedLate(n) ==
    LET compactIndex == n.applied - RetainEntries
    IN  IF n.applied > RetainEntries /\ compactIndex >= n.store.first
        THEN compactIndex + 2 ELSE n.store.first

(* The log is compacted up to RetainEntries before the snapshot.           *)
FirstRetained(n) ==
    LET compactIndex == n.applied - RetainEntries
    IN  IF n.applied > RetainEntries /\ compactIndex >= n.store.first
        THEN compactIndex + 1 ELSE n.store.first

(* The snapshot is taken at the applied index.                             *)
MaybeSnapshot(n) ==
    IF ~SnapshotDue(n) THEN n
    ELSE IF n.applied > Len(n.prefixDigests) \/ n.applied > Len(n.store.log)
    THEN [n EXCEPT !.failed = TRUE]
    ELSE [n EXCEPT !.lastSnapshotIndex = n.applied,
                   !.store = [@ EXCEPT !.snapshot = SubSeq(n.prefixDigests, 1, n.applied),
                                       !.first = FirstRetained(n)]]

(* Advance: raft has applied what it handed over, and reads its storage.   *)
Advance(n) ==
    [n EXCEPT !.raw = [@ EXCEPT !.applied = n.raw.commit, !.restored = FALSE,
                                !.first = n.store.first, !.snapshot = n.store.snapshot]]

DrainReady(n) == Advance(MaybeSnapshot(RecordCommitted(PersistReady(ApplyReadySnapshot(n)))))

------------------------------------------------------------------------------
(* Outgoing messages get the epoch of their sender.  A proposal passed on  *)
(* keeps the name of its requester, which may have crashed or restarted    *)
(* since: it keeps the epoch of the envelope it arrived in.                *)

PassesOn(m, forwarded) ==
    /\ forwarded # NoMessage /\ m.type = "MsgProp"
    /\ forwarded.payload.type = "MsgProp" /\ forwarded.payload.from = m.from

Outbound(ns, m, forwarded) ==
    [epoch |-> IF PassesOn(m, forwarded) THEN forwarded.epoch ELSE ns[m.from].epoch, payload |-> m]

(* Mutant of Refused: the requester of a proposal passed on must run.      *)
RefusedIfDown(ns, m, forwarded) == ~ns[m.from].running

Refused(ns, m, forwarded) == ~PassesOn(m, forwarded) /\ ~ns[m.from].running

(* What a call returns: the cluster, and the effects the mapper reads.     *)
Unchanged == [nodes |-> nodes, sent |-> {}, timers |-> {}, delivered |-> NoMessage, committed |-> {}]

(* The end of a call on one node: n is the node with the RawNode after the *)
(* call, out the messages raft wants to send.                              *)
Complete(id, n, out, forwarded) ==
    LET drained == DrainReady(n)
        after == [nodes EXCEPT ![id] = drained]
        refused == \E m \in out : Refused(after, m, forwarded)
    IN  [Unchanged EXCEPT
            !.nodes = [after EXCEPT ![id].failed = @ \/ refused],
            !.sent = {Outbound(after, m, forwarded) : m \in out},
            !.committed = IF Committed(n.raw) # {} THEN {id} ELSE {}]

------------------------------------------------------------------------------
(* fault.go: with divisor 3 a candidate with n/3+1 real grants is given the*)
(* grants it lacks by voters that have not answered yet: the lowest ones in*)
(* the code, any of them here, since only their names enter the election.  *)

VoteFaultApplies(before, m) ==
    /\ VoteQuorumDivisor = 3 /\ before.role = "candidate"
    /\ m.type = "MsgVoteResp" /\ m.term = before.term

RecordVoteResponse(n, term, m) ==
    LET known == IF n.voteTerm = term THEN n.voteResponses ELSE [p \in {} |-> TRUE]
    IN  [n EXCEPT !.voteTerm = term,
                  !.voteResponses = IF m.from \in DOMAIN known THEN known
                                    ELSE [p \in DOMAIN known \cup {m.from} |->
                                             IF p = m.from THEN ~m.reject ELSE known[p]]]

ActualGrants(n) == 1 + Cardinality({p \in DOMAIN n.voteResponses : n.voteResponses[p]})
NormalQuorum == Cardinality(Nodes) \div 2 + 1
FaultyQuorum == Cardinality(Nodes) \div VoteQuorumDivisor + 1

SyntheticVoters(n, id) ==
    LET silent == (Nodes \ {id}) \ DOMAIN n.voteResponses
        needed == Max({0, NormalQuorum - ActualGrants(n)})
    IN  CHOOSE S \in SUBSET silent : Cardinality(S) = MinOf(needed, Cardinality(silent))

(* n has counted the real response; s is the RawNode after it, a candidate *)
(* of the same term.  Only the last grant of the loop can decide: those    *)
(* before it leave the candidate without a quorum and with a chance of one.*)
ActivateVoteFault(n, id, s) ==
    LET synthetic == SyntheticVoters(n, id)
        granted == Poll(s, id, synthetic, TRUE)
    IN  IF ActualGrants(n) < FaultyQuorum \/ s.raw.role # "candidate"
        THEN [node |-> [n EXCEPT !.raw = s.raw], out |-> s.out]
        ELSE [node |-> [n EXCEPT !.raw = granted.raw,
                                 !.failed = @ \/ granted.raw.role # "leader",
                                 !.voteResponses = [p \in DOMAIN @ \cup synthetic |->
                                                       p \in synthetic \/ n.voteResponses[p]]],
              out |-> granted.out]

MaybeActivateVoteFault(n, id, m, s) ==
    IF VoteFaultApplies(n.raw, m)
    THEN ActivateVoteFault(RecordVoteResponse(n, n.raw.term, m), id, s)
    ELSE [node |-> [n EXCEPT !.raw = s.raw], out |-> s.out]

------------------------------------------------------------------------------
(* The calls of the adapter.                                               *)

(* A proposal that raft drops is an effect, not an error.                  *)
Deliver(message) ==
    LET m == message.payload
        n == nodes[m.to]
        stepped == MaybeActivateVoteFault(n, m.to, m, Step(n.raw, m.to, m))
    IN  IF m.type = "MsgProp" /\ ProposalDropped(n.raw)
        THEN [Unchanged EXCEPT !.delivered = m]
        ELSE [Complete(m.to, stepped.node, stepped.out, message) EXCEPT !.delivered = m]

ElectionTimer(id, after) ==
    [node |-> id, before |-> nodes[id].raw.term, after |-> after[id].raw.term]

ForceTimeout(id) ==
    LET s == Campaign(nodes[id].raw, id)
        done == Complete(id, [nodes[id] EXCEPT !.raw = s.raw], s.out, NoMessage)
    IN  [done EXCEPT !.timers = {ElectionTimer(id, done.nodes)}]

(* One tick.  A node ticks on its own state only, so the calls of the tick *)
(* do not depend on their order; `fired` are the nodes whose election or   *)
(* heartbeat timer runs out in it.                                         *)
Tick(fired) ==
    LET call(id) ==
            LET r == nodes[id].raw
                s == IF r.role = "leader" THEN BroadcastHeartbeat([raw |-> r, out |-> {}], id)
                     ELSE Campaign(r, id)
            IN  Complete(id, [nodes[id] EXCEPT !.raw = s.raw], s.out, NoMessage)
        after == [id \in Nodes |-> IF id \in fired THEN call(id).nodes[id] ELSE nodes[id]]
    IN  [Unchanged EXCEPT
            !.nodes = after,
            !.sent = UNION {call(id).sent : id \in fired},
            !.timers = {ElectionTimer(id, after) : id \in {f \in fired : nodes[f].raw.role # "leader"}}]

Crash(id) ==
    [Unchanged EXCEPT !.nodes[id] = [@ EXCEPT !.running = FALSE, !.raw = InitRaw, !.voteTerm = 0,
                                              !.voteResponses = [p \in {} |-> TRUE]]]

(* restart: a RawNode of the next epoch, rebuilt from the storage.         *)
Restored(n) == [InitRaw EXCEPT !.term = n.store.term, !.vote = n.store.vote,
                               !.commit = n.store.commit, !.log = n.store.log,
                               !.first = n.store.first, !.snapshot = n.store.snapshot,
                               !.applied = n.applied]

Restart(id) ==
    Complete(id, [nodes[id] EXCEPT !.epoch = @ + 1, !.running = TRUE, !.raw = Restored(nodes[id]),
                                   !.voteTerm = 0, !.voteResponses = [p \in {} |-> TRUE]],
             {}, NoMessage)

Request(id, value) ==
    LET r == nodes[id].raw
        m == [Msg("MsgProp", id, id, 0) EXCEPT !.entries = <<[term |-> 0, value |-> value]>>]
        s == Step(r, id, m)
    IN  IF ProposalDropped(r) THEN Unchanged
        ELSE Complete(id, [nodes[id] EXCEPT !.raw = s.raw], s.out, NoMessage)

------------------------------------------------------------------------------
(* observation.go: what Observe reports of a node.                         *)
Observe(n) ==
    LET r == n.raw
        hard == n.store
    IN  [running |-> n.running,
         epoch |-> n.epoch,
         role |-> IF n.running THEN r.role ELSE "crashed",
         term |-> IF n.running THEN r.term ELSE hard.term,
         commit |-> IF n.running THEN r.commit ELSE hard.commit,
         applied |-> IF n.running THEN r.applied ELSE n.applied,
         lastIndex |-> Len(n.store.log)]

Observation(ns) == [id \in Nodes |-> Observe(ns[id])]

(* committedCheckpoints and committedPrefixDigests: the digests at the     *)
(* commit indices of the cluster, or none where the node lacks one.        *)
Checkpoints(observation) == {observation[id].commit : id \in Nodes} \ {0}

PrefixAvailable(ns, observation, id) ==
    \A k \in Checkpoints(observation) : k <= observation[id].commit => k <= Len(ns[id].prefixDigests)

CommittedPrefix(ns, id, k) == SubSeq(ns[id].prefixDigests, 1, k)
=============================================================================
