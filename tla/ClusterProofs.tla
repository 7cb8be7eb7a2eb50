--------------------------- MODULE ClusterProofs ---------------------------
(***************************************************************************)
(* The cluster the adapter runs (internal/adapter/etcdraft) with the       *)
(* oracle that inspects it: crashes, restarts, lost, repeated and          *)
(* reordered messages, vote faults and a clock that any policy advances.   *)
(*                                                                         *)
(* A call of the adapter is a step of a RawNode and the drain that         *)
(* persists, applies and compacts (Calls, Acts). On these stands Inv: the  *)
(* nodes agree with their stores, votes are on disk before they are told,  *)
(* the oracle has seen every leader, and some assignment of a log to each  *)
(* term (L) explains every log, message and acknowledgement. Nothing is    *)
(* assumed of quorums: it is the oracle, which ends the run at its first   *)
(* finding, that rules two leaders of a term out of every state that still *)
(* moves. With the true quorum (VoteQuorumDivisor = 2) SafeInv adds the    *)
(* ballots and what a quorum holds, and the oracle then never reports      *)
(* anything.                                                               *)
(***************************************************************************)
EXTENDS Cluster, RawNodeProofs

----------------------------------------------------------------------------
(* What the cluster holds.                                                 *)

StoreState ==
    [term : Nat, vote : Nodes \cup {None}, commit : Nat, log : Seq(Entry),
     first : Nat \ {0}, snapshot : Seq(Entry)]

NodeState ==
    [epoch : Nat \ {0}, running : BOOLEAN, raw : RawState, store : StoreState, applied : Nat,
     prefixDigests : Seq(Entry), lastSnapshotIndex : Nat, voteTerm : Nat,
     voteResponses : Answers, failed : BOOLEAN]

----------------------------------------------------------------------------
(* Records, field by field.                                                *)

\* A RawNode that remembers what its storage holds.
RawRemembersAs(x, a, b, c, d) == [x EXCEPT !.term = a, !.vote = b, !.commit = c, !.log = d]

\* A RawNode that remembers what its storage holds, as a record, field by field.
LEMMA RawRemembers ==
    ASSUME NEW x \in RawState,
           NEW a \in Nat,
           NEW b \in Nodes \cup {None},
           NEW c \in Nat,
           NEW d \in Seq(Entry)
    PROVE  RawRemembersAs(x, a, b, c, d) =
             [term |-> a, vote |-> b, role |-> x.role, lead |-> x.lead,
              commit |-> c, log |-> d, first |-> x.first,
              snapshot |-> x.snapshot, applied |-> x.applied,
              restored |-> x.restored, votes |-> x.votes,
              progress |-> x.progress]
<1>1. PICK x1 : x1 = [x EXCEPT !.term = a]
  OBVIOUS
<1>2. /\ x1 \in RawState /\ x1.term = a /\ x1.vote = x.vote /\ x1.role = x.role
      /\ x1.lead = x.lead /\ x1.commit = x.commit /\ x1.log = x.log
      /\ x1.first = x.first /\ x1.snapshot = x.snapshot /\ x1.applied = x.applied
      /\ x1.restored = x.restored /\ x1.votes = x.votes
      /\ x1.progress = x.progress
  BY <1>1 DEF RawState
<1>3. PICK x2 : x2 = [x1 EXCEPT !.vote = b]
  OBVIOUS
<1>4. /\ x2 \in RawState /\ x2.term = a /\ x2.vote = b /\ x2.role = x.role
      /\ x2.lead = x.lead /\ x2.commit = x.commit /\ x2.log = x.log
      /\ x2.first = x.first /\ x2.snapshot = x.snapshot /\ x2.applied = x.applied
      /\ x2.restored = x.restored /\ x2.votes = x.votes
      /\ x2.progress = x.progress
  BY <1>3, <1>2 DEF RawState
<1>5. PICK x3 : x3 = [x2 EXCEPT !.commit = c]
  OBVIOUS
<1>6. /\ x3 \in RawState /\ x3.term = a /\ x3.vote = b /\ x3.commit = c
      /\ x3.role = x.role /\ x3.lead = x.lead /\ x3.log = x.log
      /\ x3.first = x.first /\ x3.snapshot = x.snapshot /\ x3.applied = x.applied
      /\ x3.restored = x.restored /\ x3.votes = x.votes
      /\ x3.progress = x.progress
  BY <1>5, <1>4 DEF RawState
<1>7. PICK x4 : x4 = [x3 EXCEPT !.log = d]
  OBVIOUS
<1>8. /\ x4 \in RawState /\ x4.term = a /\ x4.vote = b /\ x4.commit = c
      /\ x4.log = d /\ x4.role = x.role /\ x4.lead = x.lead /\ x4.first = x.first
      /\ x4.snapshot = x.snapshot /\ x4.applied = x.applied
      /\ x4.restored = x.restored /\ x4.votes = x.votes
      /\ x4.progress = x.progress
  BY <1>7, <1>6 DEF RawState
<1>9. RawRemembersAs(x, a, b, c, d) = x4
  BY <1>1, <1>3, <1>5, <1>7, Zenon DEF RawRemembersAs
<1> QED
  BY <1>8, <1>9 DEF RawState

\* ... and where its log begins.
RawCompactedAs(x, a, b, c) == [x EXCEPT !.first = a, !.snapshot = b, !.applied = c]

\* A RawNode whose storage is compacted, as a record, field by field.
LEMMA RawCompacted ==
    ASSUME NEW x \in RawState,
           NEW a \in Nat \ {0},
           NEW b \in Seq(Entry),
           NEW c \in Nat
    PROVE  RawCompactedAs(x, a, b, c) =
             [term |-> x.term, vote |-> x.vote, role |-> x.role,
              lead |-> x.lead, commit |-> x.commit, log |-> x.log,
              first |-> a, snapshot |-> b, applied |-> c,
              restored |-> x.restored, votes |-> x.votes,
              progress |-> x.progress]
<1>1. PICK x1 : x1 = [x EXCEPT !.first = a]
  OBVIOUS
<1>2. /\ x1 \in RawState /\ x1.first = a /\ x1.term = x.term /\ x1.vote = x.vote
      /\ x1.role = x.role /\ x1.lead = x.lead /\ x1.commit = x.commit
      /\ x1.log = x.log /\ x1.snapshot = x.snapshot /\ x1.applied = x.applied
      /\ x1.restored = x.restored /\ x1.votes = x.votes
      /\ x1.progress = x.progress
  BY <1>1 DEF RawState
<1>3. PICK x2 : x2 = [x1 EXCEPT !.snapshot = b]
  OBVIOUS
<1>4. /\ x2 \in RawState /\ x2.first = a /\ x2.snapshot = b /\ x2.term = x.term
      /\ x2.vote = x.vote /\ x2.role = x.role /\ x2.lead = x.lead
      /\ x2.commit = x.commit /\ x2.log = x.log /\ x2.applied = x.applied
      /\ x2.restored = x.restored /\ x2.votes = x.votes
      /\ x2.progress = x.progress
  BY <1>3, <1>2 DEF RawState
<1>5. PICK x3 : x3 = [x2 EXCEPT !.applied = c]
  OBVIOUS
<1>6. /\ x3 \in RawState /\ x3.first = a /\ x3.snapshot = b /\ x3.applied = c
      /\ x3.term = x.term /\ x3.vote = x.vote /\ x3.role = x.role
      /\ x3.lead = x.lead /\ x3.commit = x.commit /\ x3.log = x.log
      /\ x3.restored = x.restored /\ x3.votes = x.votes
      /\ x3.progress = x.progress
  BY <1>5, <1>4 DEF RawState
<1>7. RawCompactedAs(x, a, b, c) = x3
  BY <1>1, <1>3, <1>5, Zenon DEF RawCompactedAs
<1> QED
  BY <1>6, <1>7 DEF RawState

\* A snapshot in the storage.
StoreSnapshottedAs(x, a, b, c) == [x EXCEPT !.snapshot = a, !.log = b, !.first = c]

\* A store that takes a snapshot, as a record, field by field.
LEMMA StoreSnapshotted ==
    ASSUME NEW x \in StoreState,
           NEW a \in Seq(Entry),
           NEW b \in Seq(Entry),
           NEW c \in Nat \ {0}
    PROVE  StoreSnapshottedAs(x, a, b, c) =
             [term |-> x.term, vote |-> x.vote, commit |-> x.commit,
              log |-> b, first |-> c, snapshot |-> a]
<1>1. PICK x1 : x1 = [x EXCEPT !.snapshot = a]
  OBVIOUS
<1>2. /\ x1 \in StoreState /\ x1.snapshot = a /\ x1.term = x.term
      /\ x1.vote = x.vote /\ x1.commit = x.commit /\ x1.log = x.log
      /\ x1.first = x.first
  BY <1>1 DEF StoreState
<1>3. PICK x2 : x2 = [x1 EXCEPT !.log = b]
  OBVIOUS
<1>4. /\ x2 \in StoreState /\ x2.snapshot = a /\ x2.log = b /\ x2.term = x.term
      /\ x2.vote = x.vote /\ x2.commit = x.commit /\ x2.first = x.first
  BY <1>3, <1>2 DEF StoreState
<1>5. PICK x3 : x3 = [x2 EXCEPT !.first = c]
  OBVIOUS
<1>6. /\ x3 \in StoreState /\ x3.snapshot = a /\ x3.log = b /\ x3.first = c
      /\ x3.term = x.term /\ x3.vote = x.vote /\ x3.commit = x.commit
  BY <1>5, <1>4 DEF StoreState
<1>7. StoreSnapshottedAs(x, a, b, c) = x3
  BY <1>1, <1>3, <1>5, Zenon DEF StoreSnapshottedAs
<1> QED
  BY <1>6, <1>7 DEF StoreState

\* The HardState and the entries in the storage.
StorePersistedAs(x, a, b, c, d) == [x EXCEPT !.term = a, !.vote = b, !.commit = c, !.log = d]

\* A store that takes a Ready's state and entries, as a record, field by field.
LEMMA StorePersisted ==
    ASSUME NEW x \in StoreState,
           NEW a \in Nat,
           NEW b \in Nodes \cup {None},
           NEW c \in Nat,
           NEW d \in Seq(Entry)
    PROVE  StorePersistedAs(x, a, b, c, d) =
             [term |-> a, vote |-> b, commit |-> c, log |-> d,
              first |-> x.first, snapshot |-> x.snapshot]
<1>1. PICK x1 : x1 = [x EXCEPT !.term = a]
  OBVIOUS
<1>2. /\ x1 \in StoreState /\ x1.term = a /\ x1.vote = x.vote
      /\ x1.commit = x.commit /\ x1.log = x.log /\ x1.first = x.first
      /\ x1.snapshot = x.snapshot
  BY <1>1 DEF StoreState
<1>3. PICK x2 : x2 = [x1 EXCEPT !.vote = b]
  OBVIOUS
<1>4. /\ x2 \in StoreState /\ x2.term = a /\ x2.vote = b /\ x2.commit = x.commit
      /\ x2.log = x.log /\ x2.first = x.first /\ x2.snapshot = x.snapshot
  BY <1>3, <1>2 DEF StoreState
<1>5. PICK x3 : x3 = [x2 EXCEPT !.commit = c]
  OBVIOUS
<1>6. /\ x3 \in StoreState /\ x3.term = a /\ x3.vote = b /\ x3.commit = c
      /\ x3.log = x.log /\ x3.first = x.first /\ x3.snapshot = x.snapshot
  BY <1>5, <1>4 DEF StoreState
<1>7. PICK x4 : x4 = [x3 EXCEPT !.log = d]
  OBVIOUS
<1>8. /\ x4 \in StoreState /\ x4.term = a /\ x4.vote = b /\ x4.commit = c
      /\ x4.log = d /\ x4.first = x.first /\ x4.snapshot = x.snapshot
  BY <1>7, <1>6 DEF StoreState
<1>9. StorePersistedAs(x, a, b, c, d) = x4
  BY <1>1, <1>3, <1>5, <1>7, Zenon DEF StorePersistedAs
<1> QED
  BY <1>8, <1>9 DEF StoreState

\* A snapshot taken, and the log compacted.
StoreCompactedAs(x, a, b) == [x EXCEPT !.snapshot = a, !.first = b]

\* A store that is compacted, as a record, field by field.
LEMMA StoreCompacted ==
    ASSUME NEW x \in StoreState,
           NEW a \in Seq(Entry),
           NEW b \in Nat \ {0}
    PROVE  StoreCompactedAs(x, a, b) =
             [term |-> x.term, vote |-> x.vote, commit |-> x.commit,
              log |-> x.log, first |-> b, snapshot |-> a]
<1>1. PICK x1 : x1 = [x EXCEPT !.snapshot = a]
  OBVIOUS
<1>2. /\ x1 \in StoreState /\ x1.snapshot = a /\ x1.term = x.term
      /\ x1.vote = x.vote /\ x1.commit = x.commit /\ x1.log = x.log
      /\ x1.first = x.first
  BY <1>1 DEF StoreState
<1>3. PICK x2 : x2 = [x1 EXCEPT !.first = b]
  OBVIOUS
<1>4. /\ x2 \in StoreState /\ x2.snapshot = a /\ x2.first = b /\ x2.term = x.term
      /\ x2.vote = x.vote /\ x2.commit = x.commit /\ x2.log = x.log
  BY <1>3, <1>2 DEF StoreState
<1>5. StoreCompactedAs(x, a, b) = x2
  BY <1>1, <1>3, Zenon DEF StoreCompactedAs
<1> QED
  BY <1>4, <1>5 DEF StoreState

\* A snapshot applied.
NodeSnapshottedAs(x, a, b, c, d) == [x EXCEPT !.prefixDigests = a, !.applied = b, !.lastSnapshotIndex = c, !.store = d]

\* A node that applies a snapshot, as a record, field by field.
LEMMA NodeSnapshotted ==
    ASSUME NEW x \in NodeState,
           NEW a \in Seq(Entry),
           NEW b \in Nat,
           NEW c \in Nat,
           NEW d \in StoreState
    PROVE  NodeSnapshottedAs(x, a, b, c, d) =
             [epoch |-> x.epoch, running |-> x.running, raw |-> x.raw,
              store |-> d, applied |-> b, prefixDigests |-> a,
              lastSnapshotIndex |-> c, voteTerm |-> x.voteTerm,
              voteResponses |-> x.voteResponses, failed |-> x.failed]
<1>1. PICK x1 : x1 = [x EXCEPT !.prefixDigests = a]
  OBVIOUS
<1>2. /\ x1 \in NodeState /\ x1.prefixDigests = a /\ x1.epoch = x.epoch
      /\ x1.running = x.running /\ x1.raw = x.raw /\ x1.store = x.store
      /\ x1.applied = x.applied /\ x1.lastSnapshotIndex = x.lastSnapshotIndex
      /\ x1.voteTerm = x.voteTerm /\ x1.voteResponses = x.voteResponses
      /\ x1.failed = x.failed
  BY <1>1 DEF NodeState
<1>3. PICK x2 : x2 = [x1 EXCEPT !.applied = b]
  OBVIOUS
<1>4. /\ x2 \in NodeState /\ x2.prefixDigests = a /\ x2.applied = b
      /\ x2.epoch = x.epoch /\ x2.running = x.running /\ x2.raw = x.raw
      /\ x2.store = x.store /\ x2.lastSnapshotIndex = x.lastSnapshotIndex
      /\ x2.voteTerm = x.voteTerm /\ x2.voteResponses = x.voteResponses
      /\ x2.failed = x.failed
  BY <1>3, <1>2 DEF NodeState
<1>5. PICK x3 : x3 = [x2 EXCEPT !.lastSnapshotIndex = c]
  OBVIOUS
<1>6. /\ x3 \in NodeState /\ x3.prefixDigests = a /\ x3.applied = b
      /\ x3.lastSnapshotIndex = c /\ x3.epoch = x.epoch /\ x3.running = x.running
      /\ x3.raw = x.raw /\ x3.store = x.store /\ x3.voteTerm = x.voteTerm
      /\ x3.voteResponses = x.voteResponses /\ x3.failed = x.failed
  BY <1>5, <1>4 DEF NodeState
<1>7. PICK x4 : x4 = [x3 EXCEPT !.store = d]
  OBVIOUS
<1>8. /\ x4 \in NodeState /\ x4.prefixDigests = a /\ x4.applied = b
      /\ x4.lastSnapshotIndex = c /\ x4.store = d /\ x4.epoch = x.epoch
      /\ x4.running = x.running /\ x4.raw = x.raw /\ x4.voteTerm = x.voteTerm
      /\ x4.voteResponses = x.voteResponses /\ x4.failed = x.failed
  BY <1>7, <1>6 DEF NodeState
<1>9. NodeSnapshottedAs(x, a, b, c, d) = x4
  BY <1>1, <1>3, <1>5, <1>7, Zenon DEF NodeSnapshottedAs
<1> QED
  BY <1>8, <1>9 DEF NodeState

\* Committed entries applied.
NodeRecordedAs(x, a, b) == [x EXCEPT !.applied = a, !.prefixDigests = b]

\* A node that records what it applied, as a record, field by field.
LEMMA NodeRecorded ==
    ASSUME NEW x \in NodeState,
           NEW a \in Nat,
           NEW b \in Seq(Entry)
    PROVE  NodeRecordedAs(x, a, b) =
             [epoch |-> x.epoch, running |-> x.running, raw |-> x.raw,
              store |-> x.store, applied |-> a, prefixDigests |-> b,
              lastSnapshotIndex |-> x.lastSnapshotIndex,
              voteTerm |-> x.voteTerm, voteResponses |-> x.voteResponses,
              failed |-> x.failed]
<1>1. PICK x1 : x1 = [x EXCEPT !.applied = a]
  OBVIOUS
<1>2. /\ x1 \in NodeState /\ x1.applied = a /\ x1.epoch = x.epoch
      /\ x1.running = x.running /\ x1.raw = x.raw /\ x1.store = x.store
      /\ x1.prefixDigests = x.prefixDigests
      /\ x1.lastSnapshotIndex = x.lastSnapshotIndex /\ x1.voteTerm = x.voteTerm
      /\ x1.voteResponses = x.voteResponses /\ x1.failed = x.failed
  BY <1>1 DEF NodeState
<1>3. PICK x2 : x2 = [x1 EXCEPT !.prefixDigests = b]
  OBVIOUS
<1>4. /\ x2 \in NodeState /\ x2.applied = a /\ x2.prefixDigests = b
      /\ x2.epoch = x.epoch /\ x2.running = x.running /\ x2.raw = x.raw
      /\ x2.store = x.store /\ x2.lastSnapshotIndex = x.lastSnapshotIndex
      /\ x2.voteTerm = x.voteTerm /\ x2.voteResponses = x.voteResponses
      /\ x2.failed = x.failed
  BY <1>3, <1>2 DEF NodeState
<1>5. NodeRecordedAs(x, a, b) = x2
  BY <1>1, <1>3, Zenon DEF NodeRecordedAs
<1> QED
  BY <1>4, <1>5 DEF NodeState

\* A snapshot taken.
NodeCompactedAs(x, a, b) == [x EXCEPT !.lastSnapshotIndex = a, !.store = b]

\* A node that compacts its store, as a record, field by field.
LEMMA NodeCompacted ==
    ASSUME NEW x \in NodeState,
           NEW a \in Nat,
           NEW b \in StoreState
    PROVE  NodeCompactedAs(x, a, b) =
             [epoch |-> x.epoch, running |-> x.running, raw |-> x.raw,
              store |-> b, applied |-> x.applied,
              prefixDigests |-> x.prefixDigests, lastSnapshotIndex |-> a,
              voteTerm |-> x.voteTerm, voteResponses |-> x.voteResponses,
              failed |-> x.failed]
<1>1. PICK x1 : x1 = [x EXCEPT !.lastSnapshotIndex = a]
  OBVIOUS
<1>2. /\ x1 \in NodeState /\ x1.lastSnapshotIndex = a /\ x1.epoch = x.epoch
      /\ x1.running = x.running /\ x1.raw = x.raw /\ x1.store = x.store
      /\ x1.applied = x.applied /\ x1.prefixDigests = x.prefixDigests
      /\ x1.voteTerm = x.voteTerm /\ x1.voteResponses = x.voteResponses
      /\ x1.failed = x.failed
  BY <1>1 DEF NodeState
<1>3. PICK x2 : x2 = [x1 EXCEPT !.store = b]
  OBVIOUS
<1>4. /\ x2 \in NodeState /\ x2.lastSnapshotIndex = a /\ x2.store = b
      /\ x2.epoch = x.epoch /\ x2.running = x.running /\ x2.raw = x.raw
      /\ x2.applied = x.applied /\ x2.prefixDigests = x.prefixDigests
      /\ x2.voteTerm = x.voteTerm /\ x2.voteResponses = x.voteResponses
      /\ x2.failed = x.failed
  BY <1>3, <1>2 DEF NodeState
<1>5. NodeCompactedAs(x, a, b) = x2
  BY <1>1, <1>3, Zenon DEF NodeCompactedAs
<1> QED
  BY <1>4, <1>5 DEF NodeState

\* A node that restarts.
NodeRestartedAs(x, a, b, c, d, e) == [x EXCEPT !.epoch = a, !.running = b, !.raw = c, !.voteTerm = d, !.voteResponses = e]

\* A node that restarts, as a record, field by field.
LEMMA NodeRestarted ==
    ASSUME NEW x \in NodeState,
           NEW a \in Nat \ {0},
           NEW b \in BOOLEAN,
           NEW c \in RawState,
           NEW d \in Nat,
           NEW e \in Answers
    PROVE  NodeRestartedAs(x, a, b, c, d, e) =
             [epoch |-> a, running |-> b, raw |-> c, store |-> x.store,
              applied |-> x.applied, prefixDigests |-> x.prefixDigests,
              lastSnapshotIndex |-> x.lastSnapshotIndex, voteTerm |-> d,
              voteResponses |-> e, failed |-> x.failed]
<1>1. PICK x1 : x1 = [x EXCEPT !.epoch = a]
  OBVIOUS
<1>2. /\ x1 \in NodeState /\ x1.epoch = a /\ x1.running = x.running
      /\ x1.raw = x.raw /\ x1.store = x.store /\ x1.applied = x.applied
      /\ x1.prefixDigests = x.prefixDigests
      /\ x1.lastSnapshotIndex = x.lastSnapshotIndex /\ x1.voteTerm = x.voteTerm
      /\ x1.voteResponses = x.voteResponses /\ x1.failed = x.failed
  BY <1>1 DEF NodeState
<1>3. PICK x2 : x2 = [x1 EXCEPT !.running = b]
  OBVIOUS
<1>4. /\ x2 \in NodeState /\ x2.epoch = a /\ x2.running = b /\ x2.raw = x.raw
      /\ x2.store = x.store /\ x2.applied = x.applied
      /\ x2.prefixDigests = x.prefixDigests
      /\ x2.lastSnapshotIndex = x.lastSnapshotIndex /\ x2.voteTerm = x.voteTerm
      /\ x2.voteResponses = x.voteResponses /\ x2.failed = x.failed
  BY <1>3, <1>2 DEF NodeState
<1>5. PICK x3 : x3 = [x2 EXCEPT !.raw = c]
  OBVIOUS
<1>6. /\ x3 \in NodeState /\ x3.epoch = a /\ x3.running = b /\ x3.raw = c
      /\ x3.store = x.store /\ x3.applied = x.applied
      /\ x3.prefixDigests = x.prefixDigests
      /\ x3.lastSnapshotIndex = x.lastSnapshotIndex /\ x3.voteTerm = x.voteTerm
      /\ x3.voteResponses = x.voteResponses /\ x3.failed = x.failed
  BY <1>5, <1>4 DEF NodeState
<1>7. PICK x4 : x4 = [x3 EXCEPT !.voteTerm = d]
  OBVIOUS
<1>8. /\ x4 \in NodeState /\ x4.epoch = a /\ x4.running = b /\ x4.raw = c
      /\ x4.voteTerm = d /\ x4.store = x.store /\ x4.applied = x.applied
      /\ x4.prefixDigests = x.prefixDigests
      /\ x4.lastSnapshotIndex = x.lastSnapshotIndex
      /\ x4.voteResponses = x.voteResponses /\ x4.failed = x.failed
  BY <1>7, <1>6 DEF NodeState
<1>9. PICK x5 : x5 = [x4 EXCEPT !.voteResponses = e]
  OBVIOUS
<1>10. /\ x5 \in NodeState /\ x5.epoch = a /\ x5.running = b /\ x5.raw = c
      /\ x5.voteTerm = d /\ x5.voteResponses = e /\ x5.store = x.store
      /\ x5.applied = x.applied /\ x5.prefixDigests = x.prefixDigests
      /\ x5.lastSnapshotIndex = x.lastSnapshotIndex /\ x5.failed = x.failed
  BY <1>9, <1>8 DEF NodeState
<1>11. NodeRestartedAs(x, a, b, c, d, e) = x5
  BY <1>1, <1>3, <1>5, <1>7, <1>9, Zenon DEF NodeRestartedAs
<1> QED
  BY <1>10, <1>11 DEF NodeState

\* A node that crashes.
NodeCrashedAs(x, a, b, c, d) == [x EXCEPT !.running = a, !.raw = b, !.voteTerm = c, !.voteResponses = d]

\* A node that crashes, as a record, field by field.
LEMMA NodeCrashed ==
    ASSUME NEW x \in NodeState,
           NEW a \in BOOLEAN,
           NEW b \in RawState,
           NEW c \in Nat,
           NEW d \in Answers
    PROVE  NodeCrashedAs(x, a, b, c, d) =
             [epoch |-> x.epoch, running |-> a, raw |-> b, store |-> x.store,
              applied |-> x.applied, prefixDigests |-> x.prefixDigests,
              lastSnapshotIndex |-> x.lastSnapshotIndex, voteTerm |-> c,
              voteResponses |-> d, failed |-> x.failed]
<1>1. PICK x1 : x1 = [x EXCEPT !.running = a]
  OBVIOUS
<1>2. /\ x1 \in NodeState /\ x1.running = a /\ x1.epoch = x.epoch
      /\ x1.raw = x.raw /\ x1.store = x.store /\ x1.applied = x.applied
      /\ x1.prefixDigests = x.prefixDigests
      /\ x1.lastSnapshotIndex = x.lastSnapshotIndex /\ x1.voteTerm = x.voteTerm
      /\ x1.voteResponses = x.voteResponses /\ x1.failed = x.failed
  BY <1>1 DEF NodeState
<1>3. PICK x2 : x2 = [x1 EXCEPT !.raw = b]
  OBVIOUS
<1>4. /\ x2 \in NodeState /\ x2.running = a /\ x2.raw = b /\ x2.epoch = x.epoch
      /\ x2.store = x.store /\ x2.applied = x.applied
      /\ x2.prefixDigests = x.prefixDigests
      /\ x2.lastSnapshotIndex = x.lastSnapshotIndex /\ x2.voteTerm = x.voteTerm
      /\ x2.voteResponses = x.voteResponses /\ x2.failed = x.failed
  BY <1>3, <1>2 DEF NodeState
<1>5. PICK x3 : x3 = [x2 EXCEPT !.voteTerm = c]
  OBVIOUS
<1>6. /\ x3 \in NodeState /\ x3.running = a /\ x3.raw = b /\ x3.voteTerm = c
      /\ x3.epoch = x.epoch /\ x3.store = x.store /\ x3.applied = x.applied
      /\ x3.prefixDigests = x.prefixDigests
      /\ x3.lastSnapshotIndex = x.lastSnapshotIndex
      /\ x3.voteResponses = x.voteResponses /\ x3.failed = x.failed
  BY <1>5, <1>4 DEF NodeState
<1>7. PICK x4 : x4 = [x3 EXCEPT !.voteResponses = d]
  OBVIOUS
<1>8. /\ x4 \in NodeState /\ x4.running = a /\ x4.raw = b /\ x4.voteTerm = c
      /\ x4.voteResponses = d /\ x4.epoch = x.epoch /\ x4.store = x.store
      /\ x4.applied = x.applied /\ x4.prefixDigests = x.prefixDigests
      /\ x4.lastSnapshotIndex = x.lastSnapshotIndex /\ x4.failed = x.failed
  BY <1>7, <1>6 DEF NodeState
<1>9. NodeCrashedAs(x, a, b, c, d) = x4
  BY <1>1, <1>3, <1>5, <1>7, Zenon DEF NodeCrashedAs
<1> QED
  BY <1>8, <1>9 DEF NodeState

\* A vote response counted.
NodeVotedAs(x, a, b) == [x EXCEPT !.voteTerm = a, !.voteResponses = b]

\* A node that notes a vote response, as a record, field by field.
LEMMA NodeVoted ==
    ASSUME NEW x \in NodeState,
           NEW a \in Nat,
           NEW b \in Answers
    PROVE  NodeVotedAs(x, a, b) =
             [epoch |-> x.epoch, running |-> x.running, raw |-> x.raw,
              store |-> x.store, applied |-> x.applied,
              prefixDigests |-> x.prefixDigests,
              lastSnapshotIndex |-> x.lastSnapshotIndex, voteTerm |-> a,
              voteResponses |-> b, failed |-> x.failed]
<1>1. PICK x1 : x1 = [x EXCEPT !.voteTerm = a]
  OBVIOUS
<1>2. /\ x1 \in NodeState /\ x1.voteTerm = a /\ x1.epoch = x.epoch
      /\ x1.running = x.running /\ x1.raw = x.raw /\ x1.store = x.store
      /\ x1.applied = x.applied /\ x1.prefixDigests = x.prefixDigests
      /\ x1.lastSnapshotIndex = x.lastSnapshotIndex
      /\ x1.voteResponses = x.voteResponses /\ x1.failed = x.failed
  BY <1>1 DEF NodeState
<1>3. PICK x2 : x2 = [x1 EXCEPT !.voteResponses = b]
  OBVIOUS
<1>4. /\ x2 \in NodeState /\ x2.voteTerm = a /\ x2.voteResponses = b
      /\ x2.epoch = x.epoch /\ x2.running = x.running /\ x2.raw = x.raw
      /\ x2.store = x.store /\ x2.applied = x.applied
      /\ x2.prefixDigests = x.prefixDigests
      /\ x2.lastSnapshotIndex = x.lastSnapshotIndex /\ x2.failed = x.failed
  BY <1>3, <1>2 DEF NodeState
<1>5. NodeVotedAs(x, a, b) = x2
  BY <1>1, <1>3, Zenon DEF NodeVotedAs
<1> QED
  BY <1>4, <1>5 DEF NodeState

\* An election decided by the vote fault.
NodeElectedAs(x, a, b, c) == [x EXCEPT !.raw = a, !.failed = b, !.voteResponses = c]

\* A node that a vote fault makes leader, as a record, field by field.
LEMMA NodeElected ==
    ASSUME NEW x \in NodeState,
           NEW a \in RawState,
           NEW b \in BOOLEAN,
           NEW c \in Answers
    PROVE  NodeElectedAs(x, a, b, c) =
             [epoch |-> x.epoch, running |-> x.running, raw |-> a,
              store |-> x.store, applied |-> x.applied,
              prefixDigests |-> x.prefixDigests,
              lastSnapshotIndex |-> x.lastSnapshotIndex,
              voteTerm |-> x.voteTerm, voteResponses |-> c, failed |-> b]
<1>1. PICK x1 : x1 = [x EXCEPT !.raw = a]
  OBVIOUS
<1>2. /\ x1 \in NodeState /\ x1.raw = a /\ x1.epoch = x.epoch
      /\ x1.running = x.running /\ x1.store = x.store /\ x1.applied = x.applied
      /\ x1.prefixDigests = x.prefixDigests
      /\ x1.lastSnapshotIndex = x.lastSnapshotIndex /\ x1.voteTerm = x.voteTerm
      /\ x1.voteResponses = x.voteResponses /\ x1.failed = x.failed
  BY <1>1 DEF NodeState
<1>3. PICK x2 : x2 = [x1 EXCEPT !.failed = b]
  OBVIOUS
<1>4. /\ x2 \in NodeState /\ x2.raw = a /\ x2.failed = b /\ x2.epoch = x.epoch
      /\ x2.running = x.running /\ x2.store = x.store /\ x2.applied = x.applied
      /\ x2.prefixDigests = x.prefixDigests
      /\ x2.lastSnapshotIndex = x.lastSnapshotIndex /\ x2.voteTerm = x.voteTerm
      /\ x2.voteResponses = x.voteResponses
  BY <1>3, <1>2 DEF NodeState
<1>5. PICK x3 : x3 = [x2 EXCEPT !.voteResponses = c]
  OBVIOUS
<1>6. /\ x3 \in NodeState /\ x3.raw = a /\ x3.failed = b /\ x3.voteResponses = c
      /\ x3.epoch = x.epoch /\ x3.running = x.running /\ x3.store = x.store
      /\ x3.applied = x.applied /\ x3.prefixDigests = x.prefixDigests
      /\ x3.lastSnapshotIndex = x.lastSnapshotIndex /\ x3.voteTerm = x.voteTerm
  BY <1>5, <1>4 DEF NodeState
<1>7. NodeElectedAs(x, a, b, c) = x3
  BY <1>1, <1>3, <1>5, Zenon DEF NodeElectedAs
<1> QED
  BY <1>6, <1>7 DEF NodeState

\* A node after an operation of its RawNode.
NodeSteppedAs(x, a) == [x EXCEPT !.raw = a]

\* A node whose RawNode takes a step, as a record, field by field.
LEMMA NodeStepped ==
    ASSUME NEW x \in NodeState,
           NEW a \in RawState
    PROVE  NodeSteppedAs(x, a) =
             [epoch |-> x.epoch, running |-> x.running, raw |-> a,
              store |-> x.store, applied |-> x.applied,
              prefixDigests |-> x.prefixDigests,
              lastSnapshotIndex |-> x.lastSnapshotIndex,
              voteTerm |-> x.voteTerm, voteResponses |-> x.voteResponses,
              failed |-> x.failed]
  BY DEF NodeState, NodeSteppedAs

----------------------------------------------------------------------------
(* Sequences.                                                              *)

\* A prefix is a sequence, of its length, with the elements of the sequence.
LEMMA PrefixIs ==
    ASSUME NEW T, NEW log \in Seq(T), NEW k \in 0..Len(log)
    PROVE  /\ SubSeq(log, 1, k) \in Seq(T) /\ Len(SubSeq(log, 1, k)) = k
           /\ \A j \in 1..k : SubSeq(log, 1, k)[j] = log[j]
<1>1. Len(log) \in Nat /\ k \in Nat /\ k <= Len(log)
  OBVIOUS
<1>2. 1 <= k + 1
  BY <1>1
<1>3. /\ SubSeq(log, 1, k) \in Seq(T) /\ Len(SubSeq(log, 1, k)) = k - 1 + 1
      /\ \A j \in 1..(k - 1 + 1) : SubSeq(log, 1, k)[j] = log[1 + j - 1]
  BY <1>1, <1>2, EntriesBetween
<1>4. k - 1 + 1 = k /\ \A j \in 1..k : 1 + j - 1 = j
  BY <1>1
<1> QED
  BY <1>3, <1>4

\* A sequence is its own prefix up to its length.
LEMMA PrefixWhole ==
    ASSUME NEW T, NEW log \in Seq(T)
    PROVE  SubSeq(log, 1, Len(log)) = log
  BY SubSeqFull

\* Two sequences have the same prefix where they agree.
LEMMA PrefixesEqual ==
    ASSUME NEW T, NEW a \in Seq(T), NEW b \in Seq(T), NEW k \in Nat, k <= Len(a), k <= Len(b),
           \A j \in 1..k : a[j] = b[j]
    PROVE  SubSeq(a, 1, k) = SubSeq(b, 1, k)
<1>1. Len(a) \in Nat /\ Len(b) \in Nat
  OBVIOUS
<1>2. k \in 0..Len(a) /\ k \in 0..Len(b)
  BY <1>1
<1>3. PICK c, d : c = SubSeq(a, 1, k) /\ d = SubSeq(b, 1, k)
  OBVIOUS
<1>4. c \in Seq(T) /\ Len(c) = k /\ \A j \in 1..k : c[j] = a[j]
  BY <1>2, <1>3, PrefixIs
<1>5. d \in Seq(T) /\ Len(d) = k /\ \A j \in 1..k : d[j] = b[j]
  BY <1>2, <1>3, PrefixIs
<1>6. c = d
  BY <1>4, <1>5, SeqEqual
<1> QED
  BY <1>3, <1>6

\* A prefix of a prefix is a prefix.
LEMMA PrefixOfPrefix ==
    ASSUME NEW T, NEW log \in Seq(T), NEW b \in 0..Len(log), NEW a \in 0..b
    PROVE  SubSeq(SubSeq(log, 1, b), 1, a) = SubSeq(log, 1, a)
<1>1. PICK c : c = SubSeq(log, 1, b)
  OBVIOUS
<1>2. c \in Seq(T) /\ Len(c) = b /\ \A j \in 1..b : c[j] = log[j]
  BY <1>1, PrefixIs
<1>3. a \in Nat /\ a <= Len(c) /\ a <= Len(log) /\ \A j \in 1..a : j \in 1..b
  BY <1>2
<1>4. SubSeq(c, 1, a) = SubSeq(log, 1, a)
  BY <1>2, <1>3, PrefixesEqual
<1> QED
  BY <1>1, <1>4

\* A prefix and what follows it make a longer prefix.
LEMMA PrefixExtended ==
    ASSUME NEW T, NEW log \in Seq(T), NEW a \in 0..Len(log), NEW b \in a..Len(log)
    PROVE  SubSeq(log, 1, a) \o SubSeq(log, a + 1, b) = SubSeq(log, 1, b)
<1>1. Len(log) \in Nat
  OBVIOUS
<1>2. 1 \in 1..Len(log) + 1 /\ a \in 1 - 1..Len(log)
  BY <1>1
<1> QED
  BY <1>2, ConcatAdjacentSubSeq

----------------------------------------------------------------------------
(* Ready.                                                                  *)

\* What a node has on disk fits together.
Stored(n) ==
    /\ n.store.commit = n.applied /\ n.applied <= Len(n.store.log)
    /\ n.prefixDigests = SubSeq(n.store.log, 1, n.applied)
    /\ n.lastSnapshotIndex <= n.applied
    /\ n.store.snapshot = SubSeq(n.prefixDigests, 1, n.lastSnapshotIndex)
    /\ n.store.first <= n.lastSnapshotIndex + 1
    /\ ~n.failed

\* Between two calls, the memory of a node that runs is what its disk holds.
OnDisk(n) ==
    LET r == n.raw
    IN  /\ r.term = n.store.term /\ r.vote = n.store.vote /\ r.commit = n.store.commit
        /\ r.log = n.store.log /\ r.first = n.store.first /\ r.snapshot = n.store.snapshot
        /\ r.applied = n.applied /\ ~r.restored

\* A node n in a drain, whose RawNode is r.
Draining(r, n) ==
    /\ n \in NodeState /\ n.raw = r /\ ~n.failed
    /\ n.applied <= r.commit /\ r.commit <= Len(r.log)
    /\ n.lastSnapshotIndex <= n.applied
    /\ n.prefixDigests = SubSeq(r.log, 1, n.applied)
    /\ n.store.snapshot = SubSeq(n.prefixDigests, 1, n.lastSnapshotIndex)
    /\ n.store.first <= n.lastSnapshotIndex + 1

\* What a drain leaves alone.
SameLife(o, n) ==
    n.epoch = o.epoch /\ n.running = o.running /\ n.voteTerm = o.voteTerm
    /\ n.voteResponses = o.voteResponses

\* What the drain begins with: entries that extend what is applied, or a
\* snapshot that does.
Drainable(r, n) ==
    /\ n \in NodeState /\ n.raw = r /\ ~n.failed
    /\ n.lastSnapshotIndex <= n.applied
    /\ Len(n.prefixDigests) = n.applied
    /\ IF r.restored THEN r.snapshot = r.log /\ r.commit = Len(r.log) /\ n.applied < r.commit
       ELSE Draining(r, n) /\ r.applied = n.applied

\* Applying a Ready's snapshot puts it in the store and nothing else.
LEMMA ApplyReadySnapshotDrains ==
    ASSUME NEW r \in RawState, NEW n, Drainable(r, n)
    PROVE  /\ Draining(r, ApplyReadySnapshot(n)) /\ SameLife(n, ApplyReadySnapshot(n))
           /\ IF r.restored THEN ApplyReadySnapshot(n).applied = r.commit
              ELSE ApplyReadySnapshot(n).applied = r.applied
<1>1. CASE ~r.restored
  <2>1. ApplyReadySnapshot(n) = n
    <3>1. ~n.raw.restored
      BY <1>1 DEF Drainable
    <3> QED
      BY <3>1, Zenon DEF ApplyReadySnapshot
  <2> QED
    BY <1>1, <2>1 DEF Drainable, SameLife
<1>2. CASE r.restored
  <2>1. /\ n \in NodeState /\ n.raw = r /\ ~n.failed /\ n.lastSnapshotIndex <= n.applied
        /\ Len(n.prefixDigests) = n.applied /\ r.snapshot = r.log /\ r.commit = Len(r.log)
        /\ n.applied < r.commit
    BY <1>2 DEF Drainable
  <2>2. PICK log, index, store, s :
            log = r.snapshot /\ index = Len(r.snapshot) /\ store = n.store
            /\ s = StoreSnapshottedAs(store, log, log, index + 1)
    OBVIOUS
  <2>3. /\ log \in Seq(Entry) /\ index \in Nat /\ store \in StoreState /\ index = r.commit
        /\ n.applied \in Nat /\ n.lastSnapshotIndex \in Nat
    BY <2>1, <2>2 DEF RawState, NodeState
  <2>4. PICK first : first = index + 1
    OBVIOUS
  <2>5. first \in Nat \ {0}
    BY <2>3, <2>4
  <2>6. StoreSnapshottedAs(store, log, log, first) =
          [term |-> store.term, vote |-> store.vote, commit |-> store.commit, log |-> log,
           first |-> first, snapshot |-> log]
    BY <2>3, <2>5, StoreSnapshotted
  <2>7. s \in StoreState /\ s.snapshot = log /\ s.first = first
    BY <2>2, <2>3, <2>4, <2>5, <2>6 DEF StoreState
  <2>8. PICK a : a = NodeSnapshottedAs(n, log, index, index, s)
    OBVIOUS
  <2>9. NodeSnapshottedAs(n, log, index, index, s) =
          [epoch |-> n.epoch, running |-> n.running, raw |-> n.raw, store |-> s,
           applied |-> index, prefixDigests |-> log, lastSnapshotIndex |-> index,
           voteTerm |-> n.voteTerm, voteResponses |-> n.voteResponses, failed |-> n.failed]
    BY <2>1, <2>3, <2>7, NodeSnapshotted
  <2>10. /\ a \in NodeState /\ a.raw = r /\ a.failed = n.failed /\ a.applied = index
         /\ a.prefixDigests = log /\ a.lastSnapshotIndex = index /\ a.store = s
         /\ SameLife(n, a)
    BY <2>1, <2>3, <2>7, <2>8, <2>9 DEF NodeState, SameLife
  <2>11. ApplyReadySnapshot(n) = a
    <3>1. ~(~n.raw.restored \/ Len(n.raw.snapshot) <= n.lastSnapshotIndex \/ Len(n.raw.snapshot) < n.applied)
      <4>1. ~(index <= n.lastSnapshotIndex) /\ ~(index < n.applied)
        BY <2>1, <2>3
      <4> QED
        BY <1>2, <2>1, <2>2, <4>1
    <3>2. ~(/\ Len(n.raw.snapshot) <= Len(n.prefixDigests)
            /\ SubSeq(n.prefixDigests, 1, Len(n.raw.snapshot)) # n.raw.snapshot)
      <4>1. ~(index <= n.applied)
        BY <2>1, <2>3
      <4> QED
        BY <2>1, <2>2, <4>1
    <3>3. ApplyReadySnapshot(n) =
            [n EXCEPT !.prefixDigests = n.raw.snapshot, !.applied = Len(n.raw.snapshot),
                      !.lastSnapshotIndex = Len(n.raw.snapshot),
                      !.store = [@ EXCEPT !.snapshot = n.raw.snapshot, !.log = n.raw.snapshot,
                                           !.first = Len(n.raw.snapshot) + 1]]
      BY <3>1, <3>2, Zenon DEF ApplyReadySnapshot
    <3>4. ApplyReadySnapshot(n) =
            NodeSnapshottedAs(n, n.raw.snapshot, Len(n.raw.snapshot), Len(n.raw.snapshot),
                StoreSnapshottedAs(n.store, n.raw.snapshot, n.raw.snapshot, Len(n.raw.snapshot) + 1))
      BY <3>3, Zenon DEF NodeSnapshottedAs, StoreSnapshottedAs
    <3> QED
      BY <2>1, <2>2, <2>8, <3>4
  <2>12. Draining(r, a)
    <3>1. log = SubSeq(log, 1, index)
      BY <2>2, <2>3, PrefixWhole
    <3>2. s.snapshot = SubSeq(log, 1, index)
      BY <2>7, <3>1
    <3>3. r.log = log
      BY <2>1, <2>2
    <3>4. index <= r.commit /\ r.commit <= Len(r.log) /\ index <= index /\ s.first <= index + 1
      BY <2>1, <2>3, <2>4, <2>7
    <3> QED
      BY <2>1, <2>10, <3>1, <3>2, <3>3, <3>4 DEF Draining
  <2> QED
    BY <1>2, <2>3, <2>10, <2>11, <2>12
<1> QED
  BY <1>1, <1>2

\* Both what is persisted and what raft has.
Persisted(r, n) ==
    n.store.term = r.term /\ n.store.vote = r.vote /\ n.store.commit = r.commit
    /\ n.store.log = r.log

\* After persisting, the store holds the RawNode's term, vote, commit index and log.
LEMMA PersistReadyDrains ==
    ASSUME NEW r \in RawState, NEW n, Draining(r, n)
    PROVE  /\ Draining(r, PersistReady(n)) /\ SameLife(n, PersistReady(n))
           /\ Persisted(r, PersistReady(n)) /\ PersistReady(n).applied = n.applied
<1>1. n \in NodeState /\ n.raw = r /\ n.store \in StoreState
  BY DEF Draining, NodeState
<1>2. PICK store, s : store = n.store /\ s = StorePersistedAs(store, r.term, r.vote, r.commit, r.log)
  OBVIOUS
<1>3. r.term \in Nat /\ r.vote \in Nodes \cup {None} /\ r.commit \in Nat /\ r.log \in Seq(Entry)
  BY DEF RawState
<1>4. StorePersistedAs(store, r.term, r.vote, r.commit, r.log) =
        [term |-> r.term, vote |-> r.vote, commit |-> r.commit, log |-> r.log,
         first |-> store.first, snapshot |-> store.snapshot]
  <2>1. PICK a, b, c, d : a = r.term /\ b = r.vote /\ c = r.commit /\ d = r.log
    OBVIOUS
  <2>2. a \in Nat /\ b \in Nodes \cup {None} /\ c \in Nat /\ d \in Seq(Entry)
    BY <1>3, <2>1
  <2>3. StorePersistedAs(store, a, b, c, d) =
          [term |-> a, vote |-> b, commit |-> c, log |-> d,
           first |-> store.first, snapshot |-> store.snapshot]
    BY <1>1, <1>2, <2>2, StorePersisted
  <2> QED
    BY <2>1, <2>3
<1>5. /\ s \in StoreState /\ s.term = r.term /\ s.vote = r.vote /\ s.commit = r.commit
      /\ s.log = r.log /\ s.first = store.first /\ s.snapshot = store.snapshot
  BY <1>1, <1>2, <1>3, <1>4 DEF StoreState
<1>6. PICK a : a = [n EXCEPT !.store = s]
  OBVIOUS
<1>7. PersistReady(n) = a
  BY <1>1, <1>2, <1>6, Zenon DEF PersistReady, StorePersistedAs
<1>8. /\ a \in NodeState /\ a.raw = n.raw /\ a.failed = n.failed /\ a.applied = n.applied
      /\ a.prefixDigests = n.prefixDigests /\ a.lastSnapshotIndex = n.lastSnapshotIndex
      /\ a.store = s /\ SameLife(n, a)
  BY <1>1, <1>5, <1>6 DEF NodeState, SameLife
<1>9. Draining(r, a)
  BY <1>2, <1>5, <1>8 DEF Draining
<1> QED
  BY <1>5, <1>7, <1>8, <1>9 DEF Persisted

\* After recording, the applied index is the commit index and the digests are the committed prefix.
LEMMA RecordCommittedDrains ==
    ASSUME NEW r \in RawState, NEW n, Draining(r, n), Persisted(r, n),
           IF r.restored THEN n.applied = r.commit ELSE n.applied = r.applied
    PROVE  /\ Draining(r, RecordCommitted(n)) /\ SameLife(n, RecordCommitted(n))
           /\ Persisted(r, RecordCommitted(n)) /\ RecordCommitted(n).applied = r.commit
<1>1. n \in NodeState /\ n.raw = r /\ n.applied <= r.commit /\ r.commit <= Len(r.log)
      /\ n.prefixDigests = SubSeq(r.log, 1, n.applied)
  BY DEF Draining
<1>2. n.applied \in Nat /\ r.commit \in Nat /\ r.log \in Seq(Entry) /\ r.applied \in Nat
  BY <1>1 DEF NodeState, RawState
<1>3. n.applied \in 0..Len(r.log) /\ r.commit \in n.applied..Len(r.log)
  BY <1>1, <1>2
<1>4. CASE n.applied = r.commit
  <2>1. {k \in Committed(n.raw) : k > n.applied} = {}
    BY <1>1, <1>2, <1>4 DEF Committed
  <2>2. RecordCommitted(n) = n
    BY <2>1, Zenon DEF RecordCommitted
  <2> QED
    BY <1>4, <2>2 DEF SameLife
<1>5. CASE n.applied # r.commit
  <2>1. ~r.restored /\ r.applied = n.applied /\ n.applied < r.commit
    BY <1>1, <1>2, <1>5
  <2>2. PICK fresh : fresh = {k \in Committed(n.raw) : k > n.applied}
    OBVIOUS
  <2>3. n.applied + 1 \in fresh
    BY <1>1, <1>2, <2>1, <2>2 DEF Committed
  <2>4. Len(n.prefixDigests) = n.applied
    BY <1>1, <1>2, <1>3, PrefixIs
  <2>5. PICK digests : digests = SubSeq(r.log, 1, r.commit)
    OBVIOUS
  <2>6. digests \in Seq(Entry)
    <3>1. r.commit \in 0..Len(r.log)
      BY <1>1, <1>2
    <3> QED
      BY <1>2, <2>5, <3>1, PrefixIs
  <2>7. SubSeq(n.prefixDigests, 1, n.applied) \o SubSeq(r.log, n.applied + 1, r.commit) = digests
    <3>1. n.applied \in 0..n.applied
      BY <1>2
    <3>2. SubSeq(n.prefixDigests, 1, n.applied) = SubSeq(r.log, 1, n.applied)
      BY <1>1, <1>2, <1>3, <3>1, PrefixOfPrefix
    <3> QED
      BY <1>2, <1>3, <2>5, <3>2, PrefixExtended
  <2>8. PICK commit, a : commit = r.commit /\ a = NodeRecordedAs(n, commit, digests)
    OBVIOUS
  <2>9. RecordCommitted(n) = a
    <3>1. fresh # {}
      BY <2>3
    <3>2. ~(n.applied + 1 \notin fresh \/ n.applied > Len(n.prefixDigests))
      BY <1>2, <2>3, <2>4
    <3>3. RecordCommitted(n) =
            [n EXCEPT !.applied = n.raw.commit,
                      !.prefixDigests = SubSeq(@, 1, n.applied) \o
                                         SubSeq(n.raw.log, n.applied + 1, n.raw.commit)]
      BY <2>2, <3>1, <3>2, Zenon DEF RecordCommitted
    <3>4. RecordCommitted(n) =
            NodeRecordedAs(n, n.raw.commit, SubSeq(n.prefixDigests, 1, n.applied) \o
                                         SubSeq(n.raw.log, n.applied + 1, n.raw.commit))
      BY <3>3, Zenon DEF NodeRecordedAs
    <3> QED
      BY <1>1, <2>7, <2>8, <3>4
  <2>10. NodeRecordedAs(n, commit, digests) =
          [epoch |-> n.epoch, running |-> n.running, raw |-> n.raw, store |-> n.store,
           applied |-> commit, prefixDigests |-> digests, lastSnapshotIndex |-> n.lastSnapshotIndex,
           voteTerm |-> n.voteTerm, voteResponses |-> n.voteResponses, failed |-> n.failed]
    <3>1. commit \in Nat
      BY <1>2, <2>8
    <3> QED
      BY <1>1, <2>6, <3>1, NodeRecorded
  <2>11. /\ a \in NodeState /\ a.raw = n.raw /\ a.failed = n.failed /\ a.applied = r.commit
         /\ a.prefixDigests = digests /\ a.lastSnapshotIndex = n.lastSnapshotIndex
         /\ a.store = n.store /\ SameLife(n, a)
    BY <1>1, <1>2, <2>6, <2>8, <2>10 DEF NodeState, SameLife
  <2>12. /\ n.lastSnapshotIndex <= n.applied /\ n.lastSnapshotIndex \in Nat /\ ~n.failed
         /\ n.store.snapshot = SubSeq(n.prefixDigests, 1, n.lastSnapshotIndex)
         /\ n.store.first <= n.lastSnapshotIndex + 1
    BY <1>1 DEF Draining, NodeState
  <2>13. SubSeq(n.prefixDigests, 1, n.lastSnapshotIndex) = SubSeq(digests, 1, n.lastSnapshotIndex)
    <3>1. /\ n.lastSnapshotIndex \in 0..n.applied /\ n.lastSnapshotIndex \in 0..r.commit
          /\ n.applied \in 0..Len(r.log) /\ r.commit \in 0..Len(r.log)
      BY <1>1, <1>2, <2>12
    <3>2. SubSeq(n.prefixDigests, 1, n.lastSnapshotIndex) = SubSeq(r.log, 1, n.lastSnapshotIndex)
      BY <1>1, <1>2, <3>1, PrefixOfPrefix
    <3>3. SubSeq(digests, 1, n.lastSnapshotIndex) = SubSeq(r.log, 1, n.lastSnapshotIndex)
      BY <1>2, <2>5, <3>1, PrefixOfPrefix
    <3> QED
      BY <3>2, <3>3
  <2>14. n.lastSnapshotIndex <= r.commit /\ r.commit <= r.commit
    BY <1>1, <1>2, <2>12
  <2>15. Draining(r, a)
    BY <1>1, <2>5, <2>11, <2>12, <2>13, <2>14 DEF Draining
  <2>16. Persisted(r, a)
    BY <2>11 DEF Persisted
  <2> QED
    BY <2>9, <2>11, <2>15, <2>16
<1> QED
  BY <1>4, <1>5

\* A snapshot of what is applied compacts the store and loses no entry.
LEMMA MaybeSnapshotDrains ==
    ASSUME NEW r \in RawState, NEW n, Draining(r, n), Persisted(r, n), n.applied = r.commit
    PROVE  /\ Draining(r, MaybeSnapshot(n)) /\ SameLife(n, MaybeSnapshot(n))
           /\ Persisted(r, MaybeSnapshot(n)) /\ MaybeSnapshot(n).applied = r.commit
<1>1. /\ n \in NodeState /\ n.raw = r /\ n.applied <= r.commit /\ r.commit <= Len(r.log)
      /\ n.prefixDigests = SubSeq(r.log, 1, n.applied) /\ ~n.failed
      /\ n.lastSnapshotIndex <= n.applied /\ n.store.first <= n.lastSnapshotIndex + 1
  BY DEF Draining
<1>2. /\ n.applied \in Nat /\ r.commit \in Nat /\ r.log \in Seq(Entry) /\ n.store \in StoreState
      /\ n.lastSnapshotIndex \in Nat
  BY <1>1 DEF NodeState, RawState
<1>3. n.store.first \in Nat \ {0}
  BY <1>2 DEF StoreState
<1>4. n.applied \in 0..Len(r.log) /\ n.applied <= Len(r.log)
  BY <1>1, <1>2
<1>5. n.prefixDigests \in Seq(Entry) /\ Len(n.prefixDigests) = n.applied
  BY <1>1, <1>2, <1>4, PrefixIs
<1>6. CASE ~SnapshotDue(n)
  <2>1. MaybeSnapshot(n) = n
    BY <1>6, Zenon DEF MaybeSnapshot
  <2> QED
    BY <2>1 DEF SameLife
<1>7. CASE SnapshotDue(n)
  <2>1. PICK first, snapshot, store, applied :
            /\ first = FirstRetained(n) /\ snapshot = SubSeq(n.prefixDigests, 1, n.applied)
            /\ store = n.store /\ applied = n.applied
    OBVIOUS
  <2>2. first \in Nat \ {0} /\ first <= applied + 1
    <3>1. RetainEntries \in Nat
      BY PolicyAssumption
    <3> QED
      BY <1>1, <1>2, <1>3, <2>1, <3>1 DEF FirstRetained
  <2>3. snapshot = n.prefixDigests /\ snapshot \in Seq(Entry)
    BY <1>5, <2>1, PrefixWhole
  <2>4. PICK s : s = StoreCompactedAs(store, snapshot, first)
    OBVIOUS
  <2>5. StoreCompactedAs(store, snapshot, first) =
          [term |-> store.term, vote |-> store.vote, commit |-> store.commit, log |-> store.log,
           first |-> first, snapshot |-> snapshot]
    BY <1>2, <2>1, <2>2, <2>3, StoreCompacted
  <2>6. /\ s \in StoreState /\ s.term = store.term /\ s.vote = store.vote /\ s.commit = store.commit
        /\ s.log = store.log /\ s.first = first /\ s.snapshot = snapshot
    <3>1. store \in StoreState
      BY <1>2, <2>1
    <3>2. s \in StoreState
      <4>1. /\ store.term \in Nat /\ store.vote \in Nodes \cup {None} /\ store.commit \in Nat
            /\ store.log \in Seq(Entry)
        BY <3>1 DEF StoreState
      <4> QED
        BY <2>2, <2>3, <2>4, <2>5, <4>1 DEF StoreState
    <3>3. /\ s.term = store.term /\ s.vote = store.vote /\ s.commit = store.commit
          /\ s.log = store.log /\ s.first = first /\ s.snapshot = snapshot
      BY <2>4, <2>5
    <3> QED
      BY <3>2, <3>3
  <2>7. PICK a : a = NodeCompactedAs(n, applied, s)
    OBVIOUS
  <2>8. NodeCompactedAs(n, applied, s) =
          [epoch |-> n.epoch, running |-> n.running, raw |-> n.raw, store |-> s,
           applied |-> n.applied, prefixDigests |-> n.prefixDigests, lastSnapshotIndex |-> applied,
           voteTerm |-> n.voteTerm, voteResponses |-> n.voteResponses, failed |-> n.failed]
    <3>1. applied \in Nat
      BY <1>2, <2>1
    <3> QED
      BY <1>1, <2>6, <3>1, NodeCompacted
  <2>9. /\ a \in NodeState /\ a.raw = n.raw /\ a.failed = n.failed /\ a.applied = n.applied
        /\ a.prefixDigests = n.prefixDigests /\ a.lastSnapshotIndex = n.applied
        /\ a.store = s /\ SameLife(n, a)
    BY <1>1, <1>2, <2>1, <2>6, <2>7, <2>8 DEF NodeState, SameLife
  <2>10. MaybeSnapshot(n) = a
    <3>1. ~(n.applied > Len(n.prefixDigests) \/ n.applied > Len(n.store.log))
      BY <1>1, <1>2, <1>4, <1>5 DEF Persisted
    <3>2. MaybeSnapshot(n) =
            [n EXCEPT !.lastSnapshotIndex = n.applied,
                      !.store = [@ EXCEPT !.snapshot = SubSeq(n.prefixDigests, 1, n.applied),
                                          !.first = FirstRetained(n)]]
      BY <1>7, <3>1, Zenon DEF MaybeSnapshot
    <3>3. MaybeSnapshot(n) =
            NodeCompactedAs(n, n.applied,
                StoreCompactedAs(n.store, SubSeq(n.prefixDigests, 1, n.applied), FirstRetained(n)))
      BY <3>2, Zenon DEF NodeCompactedAs, StoreCompactedAs
    <3> QED
      BY <2>1, <2>4, <2>7, <3>3
  <2>11. Draining(r, a)
    <3>1. a.store.snapshot = SubSeq(a.prefixDigests, 1, a.lastSnapshotIndex)
      BY <2>1, <2>6, <2>9
    <3>2. a.store.first <= a.lastSnapshotIndex + 1
      BY <2>1, <2>2, <2>6, <2>9
    <3>3. a.lastSnapshotIndex <= a.applied
      BY <1>2, <2>9
    <3> QED
      BY <1>1, <2>9, <3>1, <3>2, <3>3 DEF Draining
  <2>12. Persisted(r, a)
    BY <2>1, <2>6, <2>9 DEF Persisted
  <2> QED
    BY <2>9, <2>10, <2>11, <2>12
<1> QED
  BY <1>6, <1>7

\* What a call leaves of a node whose RawNode is p at the end of the operation.
Drained(p, n) ==
    /\ n \in NodeState /\ n.running /\ Stored(n) /\ OnDisk(n)
    /\ n.raw.term = p.term /\ n.raw.vote = p.vote /\ n.raw.role = p.role
    /\ n.raw.commit = p.commit /\ n.raw.log = p.log
    /\ n.raw.votes = p.votes /\ n.raw.progress = p.progress

\* After Advance, nothing of the Ready is left.
LEMMA AdvanceDrains ==
    ASSUME NEW r \in RawState, NEW n, Draining(r, n), Persisted(r, n), n.applied = r.commit,
           n.running
    PROVE  Drained(r, Advance(n)) /\ SameLife(n, Advance(n))
<1>1. /\ n \in NodeState /\ n.raw = r /\ r.commit <= Len(r.log)
      /\ n.prefixDigests = SubSeq(r.log, 1, n.applied) /\ ~n.failed
      /\ n.lastSnapshotIndex <= n.applied /\ n.store.first <= n.lastSnapshotIndex + 1
      /\ n.store.snapshot = SubSeq(n.prefixDigests, 1, n.lastSnapshotIndex)
  BY DEF Draining
<1>2. PICK commit, restored, first, snapshot, p :
          /\ commit = r.commit /\ restored = FALSE /\ first = n.store.first
          /\ snapshot = n.store.snapshot
          /\ p = RawAdvancedAs(r, commit, restored, first, snapshot)
  OBVIOUS
<1>3. commit \in Nat
  BY <1>2 DEF RawState
<1>4. restored \in BOOLEAN
  BY <1>2
<1>5. first \in Nat \ {0} /\ snapshot \in Seq(Entry)
  BY <1>1, <1>2 DEF NodeState, StoreState
<1>6. RawAdvancedAs(r, commit, restored, first, snapshot) =
        [term |-> r.term, vote |-> r.vote, role |-> r.role, lead |-> r.lead,
         commit |-> r.commit, log |-> r.log, first |-> first, snapshot |-> snapshot,
         applied |-> commit, restored |-> restored, votes |-> r.votes, progress |-> r.progress]
  BY <1>3, <1>4, <1>5, RawAdvanced
<1>7. p \in RawState
  BY <1>2, <1>3, <1>4, <1>5, <1>6 DEF RawState
<1>8. /\ p.term = r.term /\ p.vote = r.vote /\ p.role = r.role /\ p.commit = r.commit
      /\ p.log = r.log /\ p.first = first /\ p.snapshot = snapshot /\ p.applied = commit
      /\ p.votes = r.votes /\ p.progress = r.progress
  BY <1>2, <1>6
<1>9. ~p.restored
  <2>1. p.restored = restored
    BY <1>2, <1>6
  <2> QED
    BY <1>2, <2>1
<1>10. PICK a : a = NodeSteppedAs(n, p)
  OBVIOUS
<1>11. NodeSteppedAs(n, p) =
         [epoch |-> n.epoch, running |-> n.running, raw |-> p, store |-> n.store,
          applied |-> n.applied, prefixDigests |-> n.prefixDigests,
          lastSnapshotIndex |-> n.lastSnapshotIndex, voteTerm |-> n.voteTerm,
          voteResponses |-> n.voteResponses, failed |-> n.failed]
  BY <1>1, <1>7, NodeStepped
<1>12. a \in NodeState
  BY <1>1, <1>7, <1>10, <1>11 DEF NodeState
<1>13. /\ a.raw = p /\ a.failed = n.failed /\ a.applied = n.applied /\ a.running = n.running
       /\ a.prefixDigests = n.prefixDigests /\ a.lastSnapshotIndex = n.lastSnapshotIndex
       /\ a.store = n.store /\ SameLife(n, a)
  BY <1>10, <1>11 DEF SameLife
<1>14. Advance(n) = a
  <2>1. Advance(n) = NodeSteppedAs(n, RawAdvancedAs(n.raw, n.raw.commit, FALSE, n.store.first, n.store.snapshot))
    BY Zenon DEF Advance, NodeSteppedAs, RawAdvancedAs
  <2> QED
    BY <1>1, <1>2, <1>10, <2>1
<1>15. Stored(a)
  BY <1>1, <1>13 DEF Stored, Persisted
<1>16. OnDisk(a)
  BY <1>2, <1>8, <1>9, <1>13 DEF OnDisk, Persisted
<1> QED
  BY <1>8, <1>12, <1>13, <1>14, <1>15, <1>16 DEF Drained

\* One drain leaves the store, the RawNode and the applied prefix in agreement.
LEMMA DrainReadyDrains ==
    ASSUME NEW r \in RawState, NEW n, Drainable(r, n), n.running
    PROVE  Drained(r, DrainReady(n)) /\ SameLife(n, DrainReady(n))
<1>1. PICK a, b, c, d : /\ a = ApplyReadySnapshot(n) /\ b = PersistReady(a)
                        /\ c = RecordCommitted(b) /\ d = MaybeSnapshot(c)
  OBVIOUS
<1>2. /\ Draining(r, a) /\ SameLife(n, a)
      /\ IF r.restored THEN a.applied = r.commit ELSE a.applied = r.applied
  BY <1>1, ApplyReadySnapshotDrains
<1>3. Draining(r, b) /\ SameLife(a, b) /\ Persisted(r, b) /\ b.applied = a.applied
  BY <1>1, <1>2, PersistReadyDrains
<1>4. Draining(r, c) /\ SameLife(b, c) /\ Persisted(r, c) /\ c.applied = r.commit
  BY <1>1, <1>2, <1>3, RecordCommittedDrains
<1>5. Draining(r, d) /\ SameLife(c, d) /\ Persisted(r, d) /\ d.applied = r.commit
  BY <1>1, <1>4, MaybeSnapshotDrains
<1>6. SameLife(n, d)
  BY <1>2, <1>3, <1>4, <1>5 DEF SameLife
<1>7. d.running
  BY <1>6 DEF SameLife
<1>8. Drained(r, Advance(d)) /\ SameLife(d, Advance(d))
  BY <1>5, <1>7, AdvanceDrains
<1>9. DrainReady(n) = Advance(d)
  BY <1>1 DEF DrainReady
<1> QED
  BY <1>6, <1>8, <1>9 DEF SameLife

----------------------------------------------------------------------------
(* A call on one node: the RawNode steps, then Ready is drained.  With the *)
(* vote fault a candidate may be elected without the votes of a quorum.    *)

RoleGoes(id, r, m, p) ==
    /\ p.role = "leader" => p.term = r.term /\ r.role \in {"leader", "candidate"}
    /\ p.role = "candidate" => (r.role = "candidate" /\ p.term = r.term) \/ Campaigns(id, r, m, p)
    /\ r.role = "leader" /\ p.term = r.term => p.role = "leader"

Worked(id, r, m, q) ==
    /\ q \in Outcome
    /\ VoteKept(r, q.raw) /\ TermComes(r, m, q.raw) /\ RoleGoes(id, r, m, q.raw)
    /\ VotesShort(q.raw) /\ StorageComes(r, m, q.raw) /\ CommitComes(id, r, m, q.raw)
    /\ MatchComes(r, m, q.raw) /\ Sends(id, r, m, q)
    /\ VoteQuorumDivisor = 2 => RoleComes(id, r, m, q.raw)

\* What a step does is what a call may do.
LEMMA SteppedWorked ==
    ASSUME NEW id, NEW r, NEW m, NEW q, Stepped(id, r, m, q)
    PROVE  Worked(id, r, m, q)
<1>1. RoleComes(id, r, m, q.raw)
  BY DEF Stepped
<1>2. RoleGoes(id, r, m, q.raw)
  BY <1>1 DEF RoleComes, RoleGoes, Elected
<1> QED
  BY <1>1, <1>2 DEF Stepped, Worked

\* The answers the fault has recorded for the term the node is in, and the
\* votes they stand for.
Responses(n) == IF n.voteTerm = n.raw.term THEN n.voteResponses ELSE [p \in {} |-> TRUE]

VotesOf(id, answers) == [p \in DOMAIN answers \cup {id} |-> IF p = id THEN TRUE ELSE answers[p]]

\* The fault knows the votes of every candidate.
FaultVotes(id, n) ==
    VoteQuorumDivisor = 3 /\ n.raw.role = "candidate" =>
        id \notin DOMAIN Responses(n) /\ n.raw.votes = VotesOf(id, Responses(n))

\* A node between two calls.
NodeOK(id, n) ==
    /\ n \in NodeState /\ Stored(n) /\ n.voteTerm <= n.store.term
    /\ n.running => OnDisk(n) /\ VotesShort(n.raw)
    /\ FaultVotes(id, n)

\* The node k a call completes with, and the outcome q of its RawNode.
CallOn(id, n, m, k, q) ==
    /\ Worked(id, n.raw, m, q) /\ k \in NodeState /\ k.raw = q.raw
    /\ k.epoch = n.epoch /\ k.running = n.running /\ k.store = n.store /\ k.applied = n.applied
    /\ k.prefixDigests = n.prefixDigests /\ k.lastSnapshotIndex = n.lastSnapshotIndex
    /\ ~k.failed /\ k.voteTerm \in {n.voteTerm, n.raw.term} /\ FaultVotes(id, k)

\* A call without the vote fault.
LEMMA PlainCall ==
    ASSUME NEW id \in Nodes, NEW n, NodeOK(id, n), n.running, NEW m, NEW q,
           Stepped(id, n.raw, m, q), ~VoteFaultApplies(n.raw, m)
    PROVE  CallOn(id, n, m, [n EXCEPT !.raw = q.raw], q)
<1>1. n \in NodeState /\ n.store \in StoreState /\ n.raw \in RawState /\ n.voteTerm \in Nat
  BY DEF NodeOK, NodeState
<1>2. PICK r, p : r = n.raw /\ p = q.raw
  OBVIOUS
<1>3. q \in Outcome /\ p \in RawState /\ RoleComes(id, r, m, p)
  BY <1>2, OutcomeIs DEF Stepped
<1>4. PICK k : k = NodeSteppedAs(n, p)
  OBVIOUS
<1>5. NodeSteppedAs(n, p) =
         [epoch |-> n.epoch, running |-> n.running, raw |-> p, store |-> n.store,
          applied |-> n.applied, prefixDigests |-> n.prefixDigests,
          lastSnapshotIndex |-> n.lastSnapshotIndex, voteTerm |-> n.voteTerm,
          voteResponses |-> n.voteResponses, failed |-> n.failed]
  BY <1>1, <1>3, NodeStepped
<1>6. k \in NodeState
  BY <1>1, <1>3, <1>4, <1>5 DEF NodeState
<1>7. /\ k.raw = p /\ k.epoch = n.epoch /\ k.running = n.running /\ k.store = n.store
      /\ k.applied = n.applied /\ k.prefixDigests = n.prefixDigests
      /\ k.lastSnapshotIndex = n.lastSnapshotIndex /\ k.failed = n.failed
      /\ k.voteTerm = n.voteTerm /\ k.voteResponses = n.voteResponses
  BY <1>4, <1>5
<1>8. ~k.failed
  BY <1>7 DEF NodeOK, Stored
<1>9. ASSUME VoteQuorumDivisor = 3, p.role = "candidate"
      PROVE  id \notin DOMAIN Responses(k) /\ p.votes = VotesOf(id, Responses(k))
  <2>1. CASE r.role = "candidate" /\ p.term = r.term /\ VotesCome(r, m, p)
    <3>1. ~(m.type = "MsgVoteResp" /\ m.term = r.term)
      BY <1>2, <1>9, <2>1 DEF VoteFaultApplies
    <3>2. p.votes = r.votes
      BY <2>1, <3>1 DEF VotesCome
    <3>3. Responses(k) = Responses(n)
      BY <1>2, <1>7, <2>1 DEF Responses
    <3> QED
      BY <1>2, <1>9, <2>1, <3>2, <3>3 DEF NodeOK, FaultVotes
  <2>2. CASE Campaigns(id, r, m, p)
    <3>1. p.term = n.store.term + 1 /\ n.voteTerm <= n.store.term /\ n.store.term \in Nat
      BY <1>1, <1>2, <2>2 DEF Campaigns, NodeOK, OnDisk, StoreState
    <3>2. k.voteTerm # p.term
      BY <1>1, <1>7, <3>1
    <3>3. Responses(k) = [f \in {} |-> TRUE]
      BY <1>7, <3>2 DEF Responses
    <3>4. DOMAIN Responses(k) = {}
      BY <3>3
    <3>5. VotesOf(id, Responses(k)) = [f \in {id} |-> TRUE]
      BY <3>4 DEF VotesOf
    <3> QED
      BY <2>2, <3>4, <3>5 DEF Campaigns
  <2> QED
    BY <1>3, <1>9, <2>1, <2>2 DEF RoleComes
<1>10. FaultVotes(id, k)
  BY <1>7, <1>9 DEF FaultVotes
<1>11. [n EXCEPT !.raw = q.raw] = k
  BY <1>2, <1>4, Zenon DEF NodeSteppedAs
<1>12. Worked(id, n.raw, m, q)
  BY SteppedWorked
<1> QED
  BY <1>2, <1>6, <1>7, <1>8, <1>10, <1>11, <1>12 DEF CallOn

----------------------------------------------------------------------------
(* The vote fault.                                                         *)

\* A finite set has a subset of every size up to its own.
LEMMA SubsetOfSize ==
    ASSUME NEW S, IsFiniteSet(S), NEW k \in 0..Cardinality(S)
    PROVE  \E T \in SUBSET S : Cardinality(T) = k
<1>1. PICK n : n = Cardinality(S)
  OBVIOUS
<1>2. n \in Nat /\ k \in Nat /\ k <= n
  BY <1>1, FS_CardinalityType
<1> DEFINE J == {j \in Nat : j > n \/ \E T \in SUBSET S : Cardinality(T) = n - j}
<1>3. 0 \in J
  <2>1. S \in SUBSET S /\ Cardinality(S) = n - 0
    BY <1>1, <1>2
  <2> QED
    BY <2>1
<1>4. ASSUME NEW j \in Nat, j \in J
      PROVE  j + 1 \in J
  <2>1. CASE j + 1 > n
    BY <2>1
  <2>2. CASE ~(j + 1 > n)
    <3>1. ~(j > n)
      BY <1>2, <2>2
    <3>2. PICK T \in SUBSET S : Cardinality(T) = n - j
      BY <1>4, <3>1
    <3>3. IsFiniteSet(T)
      BY FS_Subset
    <3>4. T # {}
      BY <1>2, <2>2, <3>2, FS_EmptySet
    <3>5. PICK x : x \in T
      BY <3>4
    <3>6. Cardinality(T \ {x}) = Cardinality(T) - 1
      BY <3>3, <3>5, FS_RemoveElement
    <3>7. T \ {x} \in SUBSET S /\ Cardinality(T \ {x}) = n - (j + 1)
      BY <1>2, <3>2, <3>6
    <3> QED
      BY <3>7
  <2> QED
    BY <2>1, <2>2
<1>5. \A j \in Nat : j \in J => j + 1 \in J
  BY <1>4
<1> HIDE DEF J
<1>6. Nat \subseteq J
  BY <1>3, <1>5, Inductive
<1>7. n - k \in Nat /\ ~(n - k > n) /\ n - (n - k) = k
  BY <1>2
<1>8. n - k \in J
  BY <1>6, <1>7
<1> QED
  BY <1>7, <1>8 DEF J

\* The votes a candidate has by the answers: its own and one per grant.
LEMMA GrantsCounted ==
    ASSUME NEW id \in Nodes, NEW answers \in Answers, id \notin DOMAIN answers
    PROVE  /\ Yes(VotesOf(id, answers)) \subseteq Nodes
           /\ Cardinality(Yes(VotesOf(id, answers)))
                = 1 + Cardinality({p \in DOMAIN answers : answers[p]})
           /\ Cardinality({p \in DOMAIN answers : answers[p]}) \in Nat
<1>1. PICK grants : grants = {p \in DOMAIN answers : answers[p]}
  OBVIOUS
<1>2. DOMAIN answers \subseteq Nodes
  BY DEF Answers
<1>3. grants \subseteq Nodes /\ id \notin grants
  BY <1>1, <1>2
<1>4. IsFiniteSet(grants)
  BY <1>3, VotersAssumption, FS_Subset
<1>5. Yes(VotesOf(id, answers)) = grants \cup {id}
  BY <1>1 DEF Yes, VotesOf
<1>6. Cardinality(grants \cup {id}) = Cardinality(grants) + 1 /\ Cardinality(grants) \in Nat
  BY <1>3, <1>4, FS_AddElement, FS_CardinalityType
<1>7. 1 + Cardinality(grants) = Cardinality(grants) + 1
  BY <1>6
<1> QED
  BY <1>1, <1>3, <1>5, <1>6, <1>7

\* The answers recorded, with that of a message.
Noted(known, m) ==
    IF m.from \in DOMAIN known THEN known
    ELSE [p \in DOMAIN known \cup {m.from} |-> IF p = m.from THEN ~m.reject ELSE known[p]]

\* The vote responses a node has noted are the votes its RawNode has counted.
LEMMA NotedIs ==
    ASSUME NEW id \in Nodes, NEW known \in Answers, id \notin DOMAIN known,
           NEW m \in Message, m.from # id
    PROVE  /\ Noted(known, m) \in Answers /\ id \notin DOMAIN Noted(known, m)
           /\ DOMAIN Noted(known, m) = DOMAIN known \cup {m.from}
           /\ \A r : r.votes = VotesOf(id, known) => Counted(r, m) = VotesOf(id, Noted(known, m))
<1>1. m.from \in Nodes /\ m.reject \in BOOLEAN
  BY DEF Message
<1>2. PICK S \in SUBSET Nodes : known \in [S -> BOOLEAN]
  BY DEF Answers
<1>3. CASE m.from \in DOMAIN known
  <2>1. Noted(known, m) = known
    BY <1>3 DEF Noted
  <2>2. \A r : r.votes = VotesOf(id, known) => Counted(r, m) = VotesOf(id, known)
    BY <1>3 DEF Counted, VotesOf
  <2> QED
    BY <1>3, <2>1, <2>2
<1>4. CASE m.from \notin DOMAIN known
  <2>1. PICK noted : noted = Noted(known, m)
    OBVIOUS
  <2>2. noted = [p \in S \cup {m.from} |-> IF p = m.from THEN ~m.reject ELSE known[p]]
    BY <1>2, <1>4, <2>1 DEF Noted
  <2>3. noted \in [S \cup {m.from} -> BOOLEAN]
    BY <1>1, <1>2, <2>2
  <2>4. noted \in Answers
    BY <1>1, <2>3 DEF Answers
  <2>5. ASSUME NEW r, r.votes = VotesOf(id, known)
        PROVE  Counted(r, m) = VotesOf(id, noted)
    <3>1. DOMAIN r.votes = S \cup {id}
      BY <1>2, <2>5 DEF VotesOf
    <3>2. S \cup {id} \cup {m.from} = (S \cup {m.from}) \cup {id}
      OBVIOUS
    <3>3. DOMAIN noted = S \cup {m.from} /\ m.from \notin S
      BY <1>2, <1>4, <2>2
    <3>4. Counted(r, m) = [f \in (S \cup {m.from}) \cup {id} |->
                              IF f \in S \cup {id} THEN r.votes[f] ELSE ~m.reject]
      BY <3>1, <3>2 DEF Counted
    <3>5. VotesOf(id, noted) = [f \in (S \cup {m.from}) \cup {id} |->
                                  IF f = id THEN TRUE ELSE noted[f]]
      BY <3>3 DEF VotesOf
    <3>6. ASSUME NEW f \in (S \cup {m.from}) \cup {id}
          PROVE  (IF f \in S \cup {id} THEN r.votes[f] ELSE ~m.reject)
                    = (IF f = id THEN TRUE ELSE noted[f])
      <4>1. CASE f = id
        BY <1>2, <2>5, <4>1 DEF VotesOf
      <4>2. CASE f # id /\ f \in S
        BY <1>2, <2>2, <2>5, <3>3, <4>2 DEF VotesOf
      <4>3. CASE f # id /\ f \notin S
        BY <2>2, <3>6, <4>3
      <4> QED
        BY <4>1, <4>2, <4>3
    <3> QED
      BY <3>4, <3>5, <3>6
  <2>6. id \notin DOMAIN noted /\ DOMAIN noted = DOMAIN known \cup {m.from}
    BY <1>2, <2>2
  <2> QED
    BY <2>1, <2>4, <2>5, <2>6
<1> QED
  BY <1>3, <1>4

\* The voters the fault adds are enough.
LEMMA SyntheticVotersDecide ==
    ASSUME NEW id \in Nodes, NEW n, n.voteResponses \in Answers, id \notin DOMAIN n.voteResponses,
           NEW votes, votes = VotesOf(id, n.voteResponses),
           IsQuorum(Yes(votes) \cup (Nodes \ DOMAIN votes))
    PROVE  /\ SyntheticVoters(n, id) \in SUBSET Nodes
           /\ IsQuorum(Yes(votes) \cup SyntheticVoters(n, id))
           /\ SyntheticVoters(n, id) \cap DOMAIN votes = {}
<1>1. PICK silent, actual, needed :
          /\ silent = (Nodes \ {id}) \ DOMAIN n.voteResponses
          /\ actual = ActualGrants(n) /\ needed = Max({0, NormalQuorum - actual})
  OBVIOUS
<1>2. /\ Yes(votes) \subseteq Nodes /\ Cardinality(Yes(votes)) = actual
      /\ actual \in Nat
  BY <1>1, GrantsCounted DEF ActualGrants
<1>3. Cardinality(Nodes) \in Nat /\ IsFiniteSet(Nodes)
  BY VotersAssumption, FS_CardinalityType
<1>4. silent = Nodes \ DOMAIN votes
  BY <1>1 DEF VotesOf
<1>5. IsFiniteSet(silent) /\ silent \subseteq Nodes /\ Cardinality(silent) \in Nat
  <2>1. silent \subseteq Nodes
    BY <1>1
  <2> QED
    BY <1>3, <2>1, FS_Subset, FS_CardinalityType
<1>6. NormalQuorum \in Nat /\ 2 * NormalQuorum > Cardinality(Nodes)
  BY <1>3 DEF NormalQuorum
<1>7. needed \in Nat /\ actual + needed >= NormalQuorum
  <2>1. CASE NormalQuorum - actual \in Nat
    <3>1. PICK d \in Nat : d = NormalQuorum - actual
      BY <2>1
    <3>2. Max({0, d}) = IF 0 <= d THEN d ELSE 0
      BY <3>1, MaxOfTwo
    <3>3. needed = d
      BY <1>1, <3>1, <3>2
    <3> QED
      BY <1>2, <1>6, <3>1, <3>3
  <2>2. CASE NormalQuorum - actual \notin Nat
    <3>1. PICK d \in Int : d = NormalQuorum - actual
      BY <1>2, <1>6
    <3>2. d < 0 /\ \A y \in {0, d} : 0 >= y
      BY <2>2, <3>1
    <3>3. \E x \in {0, d} : \A y \in {0, d} : x >= y
      BY <3>2
    <3>4. Max({0, d}) \in {0, d} /\ \A y \in {0, d} : Max({0, d}) >= y
      BY <3>3 DEF Max
    <3>5. Max({0, d}) = 0
      BY <3>1, <3>2, <3>4
    <3>6. needed = 0
      BY <1>1, <3>1, <3>5
    <3> QED
      BY <1>2, <1>6, <3>1, <3>2, <3>6
  <2> QED
    BY <2>1, <2>2
<1>8. PICK size : size = MinOf(needed, Cardinality(silent))
  OBVIOUS
<1>9. size \in 0..Cardinality(silent) /\ (size = needed \/ size = Cardinality(silent))
  BY <1>5, <1>7, <1>8 DEF MinOf
<1>10. \E S \in SUBSET silent : Cardinality(S) = size
  BY <1>5, <1>9, SubsetOfSize
<1>11. PICK S : S = SyntheticVoters(n, id)
  OBVIOUS
<1>12. S = CHOOSE T \in SUBSET silent : Cardinality(T) = size
  BY <1>1, <1>8, <1>11, Zenon DEF SyntheticVoters
<1>13. S \in SUBSET silent /\ Cardinality(S) = size
  BY <1>10, <1>12
<1>14. S \in SUBSET Nodes /\ S \cap DOMAIN votes = {}
  BY <1>4, <1>13
<1>15. CASE size = Cardinality(silent)
  <2>1. S = silent
    BY <1>5, <1>13, <1>15, FS_Subset
  <2> QED
    BY <1>4, <1>11, <1>14, <2>1
<1>16. CASE size = needed
  <2>1. Yes(votes) \cap S = {}
    BY <1>14 DEF Yes
  <2>2. IsFiniteSet(S) /\ IsFiniteSet(Yes(votes))
    BY <1>2, <1>3, <1>14, FS_Subset
  <2>3. Cardinality(Yes(votes) \cup S) = actual + needed - 0
    BY <1>2, <1>13, <1>16, <2>1, <2>2, FS_Union, FS_EmptySet
  <2>4. 2 * (actual + needed) > Cardinality(Nodes)
    BY <1>2, <1>3, <1>6, <1>7
  <2>5. actual + needed - 0 = actual + needed
    BY <1>2, <1>7
  <2>6. IsQuorum(Yes(votes) \cup S)
    BY <2>3, <2>4, <2>5 DEF IsQuorum
  <2> QED
    BY <1>11, <1>14, <2>6
<1> QED
  BY <1>9, <1>15, <1>16

\* A vote response that a candidate is given is a poll of its sender.
LEMMA AnswerIsPolled ==
    ASSUME NEW id \in Nodes, NEW r \in RawState, NEW m \in Message,
           r.role = "candidate", m.type = "MsgVoteResp", m.term = r.term
    PROVE  Step(r, id, m) = Poll([raw |-> r, out |-> {}], id, {m.from}, ~m.reject)
<1>1. PICK s : s = [raw |-> r, out |-> {}]
  OBVIOUS
<1>2. r.term \in Nat /\ s.raw = r
  BY <1>1 DEF RawState
<1>3. CatchUp(r, m) = r
  BY <1>2 DEF CatchUp
<1>4. m.type # "MsgProp" /\ ~(m.term < r.term) /\ m.type # "MsgVote" /\ s.raw.role # "leader"
  BY <1>2
<1>5. Step(r, id, m) = StepFollower(s, id, m)
  BY <1>1, <1>3, <1>4, Zenon DEF Step
<1>6. /\ m.type # "MsgApp" /\ m.type # "MsgHeartbeat" /\ m.type # "MsgSnap"
      /\ m.type = "MsgVoteResp" /\ s.raw.role = "candidate"
  BY <1>2
<1>7. StepFollower(s, id, m) = Poll(s, id, {m.from}, ~m.reject)
  BY <1>6, Zenon DEF StepFollower
<1> QED
  BY <1>1, <1>5, <1>7

\* A candidate whose answer is counted, and the answers the fault has then.
LEMMA VoteResponseRecorded ==
    ASSUME NEW id \in Nodes, NEW n, NodeOK(id, n), NEW m \in Message, m.from # id,
           VoteFaultApplies(n.raw, m)
    PROVE  \E v \in NodeState :
              /\ v = RecordVoteResponse(n, n.raw.term, m)
              /\ v.raw = n.raw /\ v.epoch = n.epoch /\ v.running = n.running /\ v.store = n.store
              /\ v.applied = n.applied /\ v.prefixDigests = n.prefixDigests
              /\ v.lastSnapshotIndex = n.lastSnapshotIndex /\ v.failed = n.failed
              /\ v.voteTerm = n.raw.term /\ id \notin DOMAIN v.voteResponses
              /\ Counted(n.raw, m) = VotesOf(id, v.voteResponses)
<1>1. n \in NodeState /\ n.raw \in RawState
  BY DEF NodeOK, NodeState
<1>2. PICK known, term, noted :
          known = Responses(n) /\ term = n.raw.term /\ noted = Noted(known, m)
  OBVIOUS
<1>3. term \in Nat
  BY <1>1, <1>2 DEF RawState
<1>4. known \in Answers
  <2>1. [p \in {} |-> TRUE] \in Answers
    BY DEF Answers
  <2>2. n.voteResponses \in Answers
    BY <1>1 DEF NodeState
  <2> QED
    BY <1>2, <2>1, <2>2 DEF Responses
<1>5. id \notin DOMAIN known /\ n.raw.votes = VotesOf(id, known)
  BY <1>2 DEF NodeOK, FaultVotes, VoteFaultApplies
<1>6. noted \in Answers /\ id \notin DOMAIN noted /\ Counted(n.raw, m) = VotesOf(id, noted)
  <2>1. known \in Answers /\ id \notin DOMAIN known
    BY <1>4, <1>5
  <2>2. /\ Noted(known, m) \in Answers /\ id \notin DOMAIN Noted(known, m)
        /\ \A r : r.votes = VotesOf(id, known) => Counted(r, m) = VotesOf(id, Noted(known, m))
    BY <2>1, NotedIs
  <2>3. PICK r : r = n.raw
    OBVIOUS
  <2>4. Counted(r, m) = VotesOf(id, Noted(known, m))
    BY <1>5, <2>2, <2>3
  <2> QED
    BY <1>2, <2>2, <2>3, <2>4
<1>7. PICK v : v = NodeVotedAs(n, term, noted)
  OBVIOUS
<1>8. NodeVotedAs(n, term, noted) =
         [epoch |-> n.epoch, running |-> n.running, raw |-> n.raw, store |-> n.store,
          applied |-> n.applied, prefixDigests |-> n.prefixDigests,
          lastSnapshotIndex |-> n.lastSnapshotIndex, voteTerm |-> term,
          voteResponses |-> noted, failed |-> n.failed]
  BY <1>1, <1>3, <1>6, NodeVoted
<1>9. v \in NodeState
  BY <1>1, <1>3, <1>6, <1>7, <1>8 DEF NodeState
<1>10. /\ v.raw = n.raw /\ v.epoch = n.epoch /\ v.running = n.running /\ v.store = n.store
       /\ v.applied = n.applied /\ v.prefixDigests = n.prefixDigests
       /\ v.lastSnapshotIndex = n.lastSnapshotIndex /\ v.failed = n.failed
       /\ v.voteTerm = term /\ v.voteResponses = noted
  BY <1>7, <1>8
<1>11. RecordVoteResponse(n, n.raw.term, m) = v
  BY <1>2, <1>7, Zenon DEF RecordVoteResponse, NodeVotedAs, Responses, Noted
<1> QED
  BY <1>2, <1>6, <1>9, <1>10, <1>11

\* The node of a call whose outcome is q, with other answers recorded.
LEMMA ElectedNode ==
    ASSUME NEW v \in NodeState, NEW p \in RawState, NEW answers \in Answers, ~v.failed
    PROVE  \E k \in NodeState :
              /\ k = NodeElectedAs(v, p, FALSE, answers)
              /\ k.raw = p /\ k.epoch = v.epoch /\ k.running = v.running /\ k.store = v.store
              /\ k.applied = v.applied /\ k.prefixDigests = v.prefixDigests
              /\ k.lastSnapshotIndex = v.lastSnapshotIndex /\ ~k.failed
              /\ k.voteTerm = v.voteTerm /\ k.voteResponses = answers
<1>1. PICK failed : failed = FALSE
  OBVIOUS
<1>2. failed \in BOOLEAN
  BY <1>1
<1>3. PICK k : k = NodeElectedAs(v, p, failed, answers)
  OBVIOUS
<1>4. NodeElectedAs(v, p, failed, answers) =
         [epoch |-> v.epoch, running |-> v.running, raw |-> p, store |-> v.store,
          applied |-> v.applied, prefixDigests |-> v.prefixDigests,
          lastSnapshotIndex |-> v.lastSnapshotIndex, voteTerm |-> v.voteTerm,
          voteResponses |-> answers, failed |-> failed]
  BY <1>2, NodeElected
<1>5. k \in NodeState
  BY <1>2, <1>3, <1>4 DEF NodeState
<1>6. /\ k.raw = p /\ k.epoch = v.epoch /\ k.running = v.running /\ k.store = v.store
      /\ k.applied = v.applied /\ k.prefixDigests = v.prefixDigests
      /\ k.lastSnapshotIndex = v.lastSnapshotIndex /\ k.failed = failed
      /\ k.voteTerm = v.voteTerm /\ k.voteResponses = answers
  BY <1>3, <1>4
<1>7. ~k.failed
  BY <1>1, <1>6
<1>8. k = NodeElectedAs(v, p, FALSE, answers)
  BY <1>1, <1>3
<1> QED
  BY <1>5, <1>6, <1>7, <1>8

\* A call under the vote fault: the answer is counted, and a candidate that is
\* left with enough grants is elected by the voters the fault adds.
LEMMA FaultCall ==
    ASSUME NEW id \in Nodes, NEW n, NodeOK(id, n), n.running, NEW m \in Message, m.from # id,
           VoteFaultApplies(n.raw, m)
    PROVE  \E q : /\ q.out = MaybeActivateVoteFault(n, id, m, Step(n.raw, id, m)).out
                  /\ CallOn(id, n, m, MaybeActivateVoteFault(n, id, m, Step(n.raw, id, m)).node, q)
<1>1. n \in NodeState /\ n.raw \in RawState /\ ~n.failed
  BY DEF NodeOK, NodeState, Stored
<1>2. PICK r, s : r = n.raw /\ s = Step(r, id, m)
  OBVIOUS
<1>3. /\ r \in RawState /\ VotesShort(r) /\ ~r.restored /\ r.role = "candidate"
      /\ m.type = "MsgVoteResp" /\ m.term = r.term /\ VoteQuorumDivisor = 3
  BY <1>1, <1>2 DEF NodeOK, OnDisk, VoteFaultApplies
<1>4. PICK v \in NodeState :
              /\ v = RecordVoteResponse(n, n.raw.term, m)
              /\ v.raw = n.raw /\ v.epoch = n.epoch /\ v.running = n.running /\ v.store = n.store
              /\ v.applied = n.applied /\ v.prefixDigests = n.prefixDigests
              /\ v.lastSnapshotIndex = n.lastSnapshotIndex /\ v.failed = n.failed
              /\ v.voteTerm = n.raw.term /\ id \notin DOMAIN v.voteResponses
              /\ Counted(n.raw, m) = VotesOf(id, v.voteResponses)
  BY VoteResponseRecorded
<1>5. PICK a : a = MaybeActivateVoteFault(n, id, m, s)
  OBVIOUS
<1>6. a = ActivateVoteFault(v, id, s)
  BY <1>2, <1>4, <1>5, Zenon DEF MaybeActivateVoteFault
<1>7. s = Poll([raw |-> r, out |-> {}], id, {m.from}, ~m.reject)
  BY <1>2, <1>3, AnswerIsPolled
<1>8. Stepped(id, r, m, s)
  BY <1>2, <1>3, StepStepped
<1>9. PICK votes : votes = Counted(r, m)
  OBVIOUS
<1>10. PICK t : t = [raw |-> r, out |-> {}]
  OBVIOUS
<1>11. t \in Outcome /\ t.raw = r /\ t.out = {}
  BY <1>3, <1>10 DEF Outcome
<1>12. PolledTo(id, t, votes, s)
  <2>1. {m.from} \in SUBSET Nodes /\ (~m.reject) \in BOOLEAN
    BY DEF Message
  <2>2. PolledTo(id, t, Polled(t.raw, {m.from}, ~m.reject), Poll(t, id, {m.from}, ~m.reject))
    BY <1>11, <2>1, PollPolls
  <2>3. Polled(r, {m.from}, ~m.reject) = votes
    BY <1>9 DEF Polled, Counted
  <2> QED
    BY <1>7, <1>10, <1>11, <2>2, <2>3, Zenon
<1>13. CASE ActualGrants(v) < FaultyQuorum \/ s.raw.role # "candidate"
  <2>1. PICK k : k = NodeSteppedAs(v, s.raw)
    OBVIOUS
  <2>2. a = [node |-> k, out |-> s.out]
    BY <1>6, <1>13, <2>1, Zenon DEF ActivateVoteFault, NodeSteppedAs
  <2>3. a.node = k /\ a.out = s.out
    BY <2>2
  <2>4. s.raw \in RawState
    BY <1>8, OutcomeIs DEF Stepped
  <2>5. NodeSteppedAs(v, s.raw) =
         [epoch |-> v.epoch, running |-> v.running, raw |-> s.raw, store |-> v.store,
          applied |-> v.applied, prefixDigests |-> v.prefixDigests,
          lastSnapshotIndex |-> v.lastSnapshotIndex, voteTerm |-> v.voteTerm,
          voteResponses |-> v.voteResponses, failed |-> v.failed]
    BY <2>4, NodeStepped
  <2>6. k \in NodeState
    BY <2>1, <2>4, <2>5 DEF NodeState
  <2>7. /\ k.raw = s.raw /\ k.epoch = n.epoch /\ k.running = n.running /\ k.store = n.store
        /\ k.applied = n.applied /\ k.prefixDigests = n.prefixDigests
        /\ k.lastSnapshotIndex = n.lastSnapshotIndex /\ k.failed = n.failed
        /\ k.voteTerm = n.raw.term /\ k.voteResponses = v.voteResponses
    BY <1>4, <2>1, <2>5
  <2>8. ASSUME k.raw.role = "candidate"
        PROVE  id \notin DOMAIN Responses(k) /\ k.raw.votes = VotesOf(id, Responses(k))
    <3>1. s.raw.votes = votes /\ s.raw.term = r.term
      BY <1>11, <1>12, <2>7, <2>8 DEF PolledTo
    <3>2. Responses(k) = v.voteResponses
      BY <1>2, <2>7, <3>1 DEF Responses
    <3> QED
      BY <1>2, <1>4, <1>9, <2>7, <3>1, <3>2
  <2>9. FaultVotes(id, k)
    BY <2>8 DEF FaultVotes
  <2>10. Worked(id, n.raw, m, s)
    BY <1>2, <1>8, SteppedWorked
  <2>11. ~k.failed
    BY <1>1, <2>7
  <2>12. CallOn(id, n, m, k, s)
    BY <2>6, <2>7, <2>9, <2>10, <2>11 DEF CallOn
  <2> QED
    BY <1>2, <1>5, <2>3, <2>12
<1>14. CASE ~(ActualGrants(v) < FaultyQuorum) /\ s.raw.role = "candidate"
  <2>1. PICK synthetic : synthetic = SyntheticVoters(v, id)
    OBVIOUS
  <2>2. PICK q, p : q = Poll(s, id, synthetic, TRUE) /\ p = q.raw
    OBVIOUS
  <2>3. PICK answers : answers = [f \in DOMAIN v.voteResponses \cup synthetic |->
                                     f \in synthetic \/ v.voteResponses[f]]
    OBVIOUS
  <2>4. /\ s \in Outcome /\ s.raw.votes = votes /\ s.out = {}
        /\ IsQuorum(Yes(votes) \cup (Nodes \ DOMAIN votes))
        /\ s.raw.term = r.term /\ s.raw.vote = r.vote /\ s.raw.commit = r.commit
        /\ s.raw.first = r.first /\ s.raw.snapshot = r.snapshot /\ s.raw.applied = r.applied
        /\ s.raw.restored = r.restored /\ s.raw.log = r.log
    BY <1>11, <1>12, <1>14 DEF PolledTo
  <2>5. v.voteResponses \in Answers
    BY <1>4 DEF NodeState
  <2>6. votes = VotesOf(id, v.voteResponses)
    BY <1>2, <1>4, <1>9
  <2>7. /\ synthetic \in SUBSET Nodes /\ IsQuorum(Yes(votes) \cup synthetic)
        /\ synthetic \cap DOMAIN votes = {}
    BY <1>4, <2>1, <2>4, <2>5, <2>6, SyntheticVotersDecide
  <2>8. PICK all : all = Polled(s.raw, synthetic, TRUE)
    OBVIOUS
  <2>9. PolledTo(id, s, all, q)
    <3>1. PICK granted : granted = TRUE
      OBVIOUS
    <3>2. granted \in BOOLEAN
      BY <3>1
    <3>3. PolledTo(id, s, Polled(s.raw, synthetic, granted), Poll(s, id, synthetic, granted))
      BY <2>4, <2>7, <3>2, PollPolls
    <3> QED
      BY <2>2, <2>8, <3>1, <3>3
  <2>10. Yes(all) = Yes(votes) \cup synthetic
    <3>1. all = [f \in DOMAIN votes \cup synthetic |->
                    IF f \in DOMAIN votes THEN votes[f] ELSE TRUE]
      BY <2>4, <2>8 DEF Polled
    <3> QED
      BY <2>7, <3>1 DEF Yes
  <2>11. IsQuorum(Yes(all))
    BY <2>7, <2>10
  <2>12. /\ q \in Outcome /\ p.role = "leader" /\ p.term = r.term /\ p.vote = r.vote
         /\ p.commit = r.commit /\ p.first = r.first /\ p.snapshot = r.snapshot
         /\ p.applied = r.applied /\ ~p.restored
         /\ p.log = Append(r.log, [term |-> r.term, value |-> NoOp])
         /\ \A f \in Nodes : p.progress[f].match = 0
         /\ \A x \in q.out : Replicates(id, p, x)
    BY <1>3, <2>2, <2>4, <2>9, <2>11 DEF PolledTo
  <2>13. Worked(id, r, m, q)
    <3>1. r.term \in Nat
      BY <1>3 DEF RawState
    <3>2. VoteKept(r, p) /\ TermComes(r, m, p)
      BY <2>12, <3>1 DEF VoteKept, TermComes
    <3>3. RoleGoes(id, r, m, p) /\ VotesShort(p)
      BY <1>3, <2>12 DEF RoleGoes, VotesShort
    <3>4. \E value \in Nat \cup {NoOp} : p.log = Append(r.log, [term |-> p.term, value |-> value])
      BY <2>12
    <3>5. StorageComes(r, m, p)
      BY <1>3, <2>12, <3>4 DEF StorageComes, LogComes
    <3>6. CommitComes(id, r, m, p) /\ MatchComes(r, m, p)
      BY <2>12 DEF CommitComes, MatchComes
    <3>7. Sends(id, r, m, q)
      BY <2>2, <2>12 DEF Sends, Replicates
    <3>8. VoteQuorumDivisor # 2 /\ q \in Outcome
      BY <1>3, <2>12
    <3> QED
      BY <2>2, <3>2, <3>3, <3>5, <3>6, <3>7, <3>8, Zenon DEF Worked
  <2>14. answers \in Answers
    <3>1. PICK S \in SUBSET Nodes : v.voteResponses \in [S -> BOOLEAN]
      BY <2>5 DEF Answers
    <3>2. answers \in [S \cup synthetic -> BOOLEAN]
      BY <2>3, <3>1
    <3>3. S \cup synthetic \in SUBSET Nodes
      BY <2>7
    <3> QED
      BY <3>2, <3>3 DEF Answers
  <2>15. p \in RawState
    BY <2>2, <2>12, OutcomeIs
  <2>16. PICK k \in NodeState :
              /\ k = NodeElectedAs(v, p, FALSE, answers)
              /\ k.raw = p /\ k.epoch = v.epoch /\ k.running = v.running /\ k.store = v.store
              /\ k.applied = v.applied /\ k.prefixDigests = v.prefixDigests
              /\ k.lastSnapshotIndex = v.lastSnapshotIndex /\ ~k.failed
              /\ k.voteTerm = v.voteTerm /\ k.voteResponses = answers
    <3>1. v \in NodeState /\ ~v.failed
      BY <1>1, <1>4
    <3> QED
      BY <2>14, <2>15, <3>1, ElectedNode, ZenonT(30)
  <2>17. a = [node |-> k, out |-> q.out]
    <3>1. a = [node |-> [v EXCEPT !.raw = q.raw,
                                  !.failed = @ \/ q.raw.role # "leader",
                                  !.voteResponses = [f \in DOMAIN @ \cup synthetic |->
                                                        f \in synthetic \/ v.voteResponses[f]]],
               out |-> q.out]
      BY <1>6, <1>14, <2>1, <2>2, Zenon DEF ActivateVoteFault
    <3>2. v.failed \in BOOLEAN /\ v.failed = FALSE
      BY <1>1, <1>4 DEF NodeState
    <3>3. (v.failed \/ q.raw.role # "leader") = FALSE
      BY <2>2, <2>12, <3>2
    <3>4. [v EXCEPT !.raw = q.raw, !.failed = @ \/ q.raw.role # "leader",
                    !.voteResponses = [f \in DOMAIN @ \cup synthetic |->
                                          f \in synthetic \/ v.voteResponses[f]]]
           = [v EXCEPT !.raw = q.raw, !.failed = v.failed \/ q.raw.role # "leader",
                       !.voteResponses = [f \in DOMAIN v.voteResponses \cup synthetic |->
                                          f \in synthetic \/ v.voteResponses[f]]]
      BY DEF NodeState
    <3>5. [v EXCEPT !.raw = q.raw, !.failed = v.failed \/ q.raw.role # "leader",
                    !.voteResponses = [f \in DOMAIN v.voteResponses \cup synthetic |->
                                          f \in synthetic \/ v.voteResponses[f]]]
           = NodeElectedAs(v, p, FALSE, answers)
      BY <2>2, <2>3, <3>3, Zenon DEF NodeElectedAs
    <3> QED
      BY <2>16, <3>1, <3>4, <3>5, Zenon
  <2>18. a.node = k /\ a.out = q.out
    BY <2>17
  <2>19. FaultVotes(id, k)
    BY <2>12, <2>16 DEF FaultVotes
  <2>20. Worked(id, n.raw, m, q) /\ k.raw = q.raw
    BY <1>2, <2>2, <2>13, <2>16
  <2>21. /\ k.epoch = n.epoch /\ k.running = n.running /\ k.store = n.store
         /\ k.applied = n.applied /\ k.prefixDigests = n.prefixDigests
         /\ k.lastSnapshotIndex = n.lastSnapshotIndex
         /\ ~k.failed /\ k.voteTerm \in {n.voteTerm, n.raw.term}
    BY <1>4, <2>16
  <2>22. CallOn(id, n, m, k, q)
    BY <2>16, <2>19, <2>20, <2>21 DEF CallOn
  <2> QED
    BY <1>2, <1>5, <2>18, <2>22
<1> QED
  BY <1>13, <1>14

----------------------------------------------------------------------------
(* What a call can drain.                                                  *)

\* A prefix continued by other entries.
LEMMA OverwrittenIs ==
    ASSUME NEW r, r.log \in Seq(Entry), NEW m, m.index \in 0..Len(r.log), m.entries \in Seq(Entry)
    PROVE  /\ Overwritten(r, m) \in Seq(Entry)
           /\ Len(Overwritten(r, m)) = m.index + Len(m.entries)
           /\ \A j \in 1..m.index : Overwritten(r, m)[j] = r.log[j]
           /\ \A j \in 1..Len(m.entries) : Overwritten(r, m)[m.index + j] = m.entries[j]
<1>1. PICK a, b, i : a = SubSeq(r.log, 1, m.index) /\ b = m.entries /\ i = m.index
  OBVIOUS
<1>2. /\ a \in Seq(Entry) /\ Len(a) = i /\ \A j \in 1..i : a[j] = r.log[j]
  BY <1>1, PrefixIs
<1>3. b \in Seq(Entry) /\ i \in Nat /\ Len(b) \in Nat
  BY <1>1
<1>4. Overwritten(r, m) = a \o b
  BY <1>1 DEF Overwritten
<1>5. PICK c : c = a \o b
  OBVIOUS
<1>6. /\ c \in Seq(Entry) /\ Len(c) = i + Len(b)
      /\ \A j \in 1..(i + Len(b)) : c[j] = IF j <= i THEN a[j] ELSE b[j - i]
  BY <1>2, <1>3, <1>5, ConcatProperties
<1>7. \A j \in 1..i : c[j] = a[j]
  <2>1. \A j \in 1..i : j \in 1..(i + Len(b)) /\ j <= i
    BY <1>3
  <2> QED
    BY <1>6, <2>1
<1>8. ASSUME NEW j \in 1..Len(b)
      PROVE  c[i + j] = b[j]
  <2>1. PICK x : x = i + j
    OBVIOUS
  <2>2. x \in 1..(i + Len(b)) /\ ~(x <= i) /\ x - i = j
    BY <1>3, <2>1
  <2>3. c[x] = b[x - i]
    BY <1>6, <2>2
  <2> QED
    BY <2>1, <2>2, <2>3
<1> QED
  BY <1>1, <1>2, <1>4, <1>5, <1>6, <1>7, <1>8

\* A call keeps what is committed, unless it restores a snapshot.
LEMMA LogKept ==
    ASSUME NEW r \in RawState, NEW p \in RawState, NEW m, m = Hup \/ m \in Message,
           r.commit <= Len(r.log), LogComes(r, m, p)
    PROVE  r.commit <= Len(p.log) /\ \A j \in 1..r.commit : p.log[j] = r.log[j]
<1>1. r.commit \in Nat /\ r.log \in Seq(Entry) /\ Len(r.log) \in Nat /\ p.log \in Seq(Entry)
  BY DEF RawState
<1>2. CASE p.log = r.log
  BY <1>2
<1>3. CASE \E value \in Nat \cup {NoOp} : p.log = Append(r.log, [term |-> p.term, value |-> value])
  <2>1. PICK e : p.log = Append(r.log, e)
    BY <1>3
  <2>2. Len(p.log) = Len(r.log) + 1 /\ \A j \in 1..Len(r.log) : p.log[j] = r.log[j]
    BY <1>1, <2>1, AppendProperties
  <2> QED
    BY <1>1, <2>2
<1>4. CASE Accepts(r, m) /\ p.log = Overwritten(r, m)
  <2>1. m.index \in r.commit..Len(r.log) /\ m \in Message
    BY <1>4 DEF Accepts, Hup
  <2>2. m.index \in 0..Len(r.log) /\ r.commit <= m.index /\ m.entries \in Seq(Entry)
    BY <1>1, <2>1 DEF Message
  <2>3. /\ Len(p.log) = m.index + Len(m.entries) /\ Len(m.entries) \in Nat
        /\ \A j \in 1..m.index : p.log[j] = r.log[j]
    BY <1>1, <1>4, <2>2, OverwrittenIs
  <2> QED
    BY <1>1, <2>2, <2>3
<1> QED
  BY <1>2, <1>3, <1>4 DEF LogComes

\* ... and commits no more than it has.
LEMMA CommitWithin ==
    ASSUME NEW id, NEW r \in RawState, NEW p \in RawState, NEW m, m = Hup \/ m \in Message,
           r.commit <= Len(r.log), LogComes(r, m, p), CommitComes(id, r, m, p), ~p.restored,
           m.type = "MsgHeartbeat" /\ m.term = p.term => m.commit <= Len(r.log)
    PROVE  p.commit \in r.commit..Len(p.log)
<1>1. /\ r.commit \in Nat /\ r.log \in Seq(Entry) /\ Len(r.log) \in Nat /\ p.log \in Seq(Entry)
      /\ Len(p.log) \in Nat /\ p.commit \in Nat
  BY DEF RawState
<1>2. CASE p.commit = r.commit
  BY <1>1, <1>2, LogKept
<1>3. CASE p.commit > r.commit /\ p.log = r.log /\ CommitsOwn(id, p, p.commit)
  BY <1>1, <1>3 DEF CommitsOwn, LastIndex
<1>4. CASE /\ p.commit > r.commit /\ Accepts(r, m)
           /\ p.commit = MinOf(m.commit, m.index + Len(m.entries)) /\ Taken(r, m, p)
  <2>1. m.index \in r.commit..Len(r.log) /\ m \in Message
    BY <1>4 DEF Accepts, Hup
  <2>2. m.index \in 0..Len(r.log) /\ m.entries \in Seq(Entry) /\ m.commit \in Nat
    BY <1>1, <2>1 DEF Message
  <2>3. m.index + Len(m.entries) <= Len(p.log)
    <3>1. CASE p.log = r.log /\ Agrees(r, m)
      BY <3>1 DEF Agrees
    <3>2. CASE p.log = Overwritten(r, m)
      BY <1>1, <2>2, <3>2, OverwrittenIs
    <3> QED
      BY <1>4, <3>1, <3>2 DEF Taken
  <2>4. p.commit <= m.index + Len(m.entries) /\ Len(m.entries) \in Nat
    BY <1>4, <2>2 DEF MinOf
  <2> QED
    BY <1>1, <1>4, <2>2, <2>3, <2>4
<1>5. CASE /\ p.commit > r.commit /\ m.type = "MsgHeartbeat" /\ m.term = p.term
           /\ p.commit = m.commit /\ p.log = r.log
  BY <1>1, <1>5
<1>6. CASE /\ p.commit > r.commit /\ p.commit = Len(m.snapshot) /\ Known(r, m) /\ p.log = r.log
  BY <1>1, <1>6 DEF Known
<1> QED
  BY <1>2, <1>3, <1>4, <1>5, <1>6 DEF CommitComes

\* What a call completes with can be drained.
LEMMA CallDrainable ==
    ASSUME NEW id \in Nodes, NEW n, NodeOK(id, n), n.running, NEW m, m = Hup \/ m \in Message,
           NEW k, NEW q, CallOn(id, n, m, k, q),
           m.type = "MsgHeartbeat" /\ m.term = q.raw.term => m.commit <= Len(n.store.log)
    PROVE  Drainable(q.raw, k)
<1>1. PICK r, p : r = n.raw /\ p = q.raw
  OBVIOUS
<1>2. n \in NodeState /\ r \in RawState /\ n.store \in StoreState
  BY <1>1 DEF NodeOK, NodeState
<1>3. p \in RawState /\ StorageComes(r, m, p) /\ CommitComes(id, r, m, p)
  BY <1>1, OutcomeIs DEF CallOn, Worked
<1>4. /\ n.applied <= Len(r.log) /\ r.commit = n.applied /\ r.log = n.store.log
      /\ r.applied = n.applied /\ n.prefixDigests = SubSeq(r.log, 1, n.applied)
      /\ n.lastSnapshotIndex <= n.applied
      /\ n.store.snapshot = SubSeq(n.prefixDigests, 1, n.lastSnapshotIndex)
      /\ n.store.first <= n.lastSnapshotIndex + 1
  BY <1>1 DEF NodeOK, Stored, OnDisk
<1>5. /\ n.applied \in Nat /\ r.log \in Seq(Entry) /\ Len(r.log) \in Nat /\ p.log \in Seq(Entry)
      /\ p.commit \in Nat /\ Len(p.log) \in Nat
  <2>1. n.applied \in Nat
    BY <1>2 DEF NodeState
  <2>2. r.log \in Seq(Entry) /\ p.log \in Seq(Entry) /\ p.commit \in Nat
    BY <1>2, <1>3 DEF RawState
  <2>3. Len(r.log) \in Nat /\ Len(p.log) \in Nat
    BY <2>2
  <2> QED
    BY <2>1, <2>2, <2>3
<1>6. n.applied \in 0..Len(r.log)
  BY <1>4, <1>5
<1>7. Len(n.prefixDigests) = n.applied
  BY <1>4, <1>5, <1>6, PrefixIs
<1>8. /\ k \in NodeState /\ k.raw = p /\ ~k.failed /\ k.store = n.store /\ k.applied = n.applied
      /\ k.prefixDigests = n.prefixDigests /\ k.lastSnapshotIndex = n.lastSnapshotIndex
  BY <1>1 DEF CallOn
<1>9. CASE p.restored
  <2>1. Restores(r, m, p)
    BY <1>3, <1>9 DEF StorageComes
  <2>2. p.snapshot = p.log /\ p.commit = Len(p.log) /\ n.applied < p.commit
    BY <1>4, <1>5, <2>1 DEF Restores
  <2> QED
    BY <1>1, <1>4, <1>7, <1>8, <1>9, <2>2 DEF Drainable
<1>10. CASE ~p.restored
  <2>1. LogComes(r, m, p) /\ p.applied = r.applied
    BY <1>3, <1>10 DEF StorageComes
  <2>2. p.commit \in r.commit..Len(p.log)
    BY <1>1, <1>2, <1>3, <1>4, <1>10, <2>1, CommitWithin
  <2>3. n.applied <= Len(p.log) /\ \A j \in 1..n.applied : p.log[j] = r.log[j]
    BY <1>2, <1>3, <1>4, <2>1, LogKept
  <2>4. SubSeq(p.log, 1, n.applied) = SubSeq(r.log, 1, n.applied)
    BY <1>4, <1>5, <2>3, PrefixesEqual
  <2>5. n.applied <= p.commit /\ p.commit <= Len(p.log)
    BY <1>4, <1>5, <2>2
  <2>6. Draining(p, k)
    BY <1>4, <1>8, <2>4, <2>5 DEF Draining
  <2> QED
    BY <1>1, <1>4, <1>7, <1>8, <1>10, <2>1, <2>6 DEF Drainable
<1> QED
  BY <1>9, <1>10

\* What a node is after a call: d is the node drained, q the outcome of its
\* RawNode, which had the message m.
Calls(id, n, m, d, q) ==
    /\ n.running /\ Worked(id, n.raw, m, q) /\ Drained(q.raw, d) /\ NodeOK(id, d)
    /\ d.epoch = n.epoch

\* A call on a RawNode, drained, is what a call of the adapter does.
LEMMA CallDrains ==
    ASSUME NEW id \in Nodes, NEW n, NodeOK(id, n), n.running, NEW m, m = Hup \/ m \in Message,
           NEW k, NEW q, CallOn(id, n, m, k, q),
           m.type = "MsgHeartbeat" /\ m.term = q.raw.term => m.commit <= Len(n.store.log)
    PROVE  Calls(id, n, m, DrainReady(k), q)
<1>1. PICK p, d : p = q.raw /\ d = DrainReady(k)
  OBVIOUS
<1>2. /\ Worked(id, n.raw, m, q) /\ k.raw = p /\ k.epoch = n.epoch /\ k.running = n.running
      /\ k.voteTerm \in {n.voteTerm, n.raw.term} /\ FaultVotes(id, k)
  BY <1>1 DEF CallOn
<1>3. p \in RawState /\ VotesShort(p) /\ VoteKept(n.raw, p)
  BY <1>1, <1>2, OutcomeIs DEF Worked
<1>4. Drainable(p, k)
  BY <1>1, CallDrainable
<1>5. Drained(p, d) /\ SameLife(k, d)
  BY <1>1, <1>2, <1>3, <1>4, DrainReadyDrains
<1>6. /\ d \in NodeState /\ d.running /\ Stored(d) /\ OnDisk(d)
      /\ d.raw.term = p.term /\ d.raw.role = p.role /\ d.raw.votes = p.votes
      /\ d.store.term = p.term
  BY <1>5 DEF Drained, OnDisk
<1>7. /\ d.epoch = n.epoch /\ d.voteTerm = k.voteTerm /\ d.voteResponses = k.voteResponses
  BY <1>2, <1>5 DEF SameLife
<1>8. VotesShort(d.raw)
  BY <1>3, <1>6 DEF VotesShort, Granting
<1>9. d.voteTerm <= d.store.term
  <2>1. n.voteTerm <= n.store.term /\ n.raw.term = n.store.term
    BY DEF NodeOK, OnDisk
  <2>2. n.raw.term <= p.term
    BY <1>3 DEF VoteKept
  <2>3. n.voteTerm \in Nat /\ n.raw.term \in Nat /\ p.term \in Nat
    <3>1. n \in NodeState
      BY DEF NodeOK
    <3>2. n.raw \in RawState /\ n.voteTerm \in Nat
      BY <3>1 DEF NodeState
    <3> QED
      BY <1>3, <3>2 DEF RawState
  <2> QED
    BY <1>2, <1>6, <1>7, <2>1, <2>2, <2>3
<1>10. FaultVotes(id, d)
  <2>1. Responses(d) = Responses(k)
    BY <1>2, <1>6, <1>7 DEF Responses
  <2> QED
    BY <1>2, <1>6, <2>1 DEF FaultVotes
<1>11. NodeOK(id, d)
  BY <1>6, <1>8, <1>9, <1>10 DEF NodeOK
<1> QED
  BY <1>1, <1>2, <1>5, <1>7, <1>11 DEF Calls

----------------------------------------------------------------------------
(* What a call returns.                                                    *)

CompletedAs(a, b, c) == [Unchanged EXCEPT !.nodes = a, !.sent = b, !.committed = c]
DeliveredAs(effects, m) == [effects EXCEPT !.delivered = m]
TimedAs(effects, timers) == [effects EXCEPT !.timers = timers]

\* The effects whose cluster is ns and whose messages are sent.
Returns(effects, ns, sent) == effects.nodes = ns /\ effects.sent = sent

\* Completing a call changes the nodes and the messages as the call does.
LEMMA CompletedIs ==
    ASSUME NEW a, NEW b, NEW c, NEW m, NEW timers
    PROVE  /\ Returns(CompletedAs(a, b, c), a, b)
           /\ Returns(DeliveredAs(CompletedAs(a, b, c), m), a, b)
           /\ Returns(TimedAs(CompletedAs(a, b, c), timers), a, b)
<1>1. CompletedAs(a, b, c) =
        [nodes |-> a, sent |-> b, timers |-> {}, delivered |-> NoMessage, committed |-> c]
  <2>1. PICK u : u = [nodes |-> nodes, sent |-> {}, timers |-> {}, delivered |-> NoMessage, committed |-> {}]
    OBVIOUS
  <2>2. PICK u1 : u1 = [nodes |-> a, sent |-> {}, timers |-> {}, delivered |-> NoMessage, committed |-> {}]
    OBVIOUS
  <2>3. PICK u2 : u2 = [nodes |-> a, sent |-> b, timers |-> {}, delivered |-> NoMessage, committed |-> {}]
    OBVIOUS
  <2>4. [u EXCEPT !.nodes = a] = u1
    BY <2>1, <2>2
  <2>5. [u1 EXCEPT !.sent = b] = u2
    BY <2>2, <2>3
  <2>6. [u2 EXCEPT !.committed = c] =
          [nodes |-> a, sent |-> b, timers |-> {}, delivered |-> NoMessage, committed |-> c]
    BY <2>3
  <2>7. CompletedAs(a, b, c) = [[[u EXCEPT !.nodes = a] EXCEPT !.sent = b] EXCEPT !.committed = c]
    BY <2>1, Zenon DEF CompletedAs, Unchanged
  <2> QED
    BY <2>4, <2>5, <2>6, <2>7
<1>2. DeliveredAs(CompletedAs(a, b, c), m) =
        [nodes |-> a, sent |-> b, timers |-> {}, delivered |-> m, committed |-> c]
  BY <1>1 DEF DeliveredAs
<1>3. TimedAs(CompletedAs(a, b, c), timers) =
        [nodes |-> a, sent |-> b, timers |-> timers, delivered |-> NoMessage, committed |-> c]
  BY <1>1 DEF TimedAs
<1> QED
  BY <1>1, <1>2, <1>3 DEF Returns

\* A node whose failed flag is as it was is the node as it was.
LEMMA NodeAsIs ==
    ASSUME NEW d \in NodeState, NEW failed, failed = d.failed
    PROVE  [d EXCEPT !.failed = failed] = d
  BY DEF NodeState

\* The call on node id that completes with k leaves d of it and sends out.
Completes(id, k, out, forwarded, d) ==
    \E sent \in SUBSET Envelope : \E committed :
       /\ Complete(id, k, out, forwarded)
            = CompletedAs([nodes EXCEPT ![id] = d], sent, committed)
       /\ \A e \in sent : e.payload \in out

\* The messages of a call are sent, none is refused.
LEMMA CallCompletes ==
    ASSUME nodes \in [Nodes -> NodeState], NEW id \in Nodes, NEW k, NEW out \in SUBSET Message,
           NEW forwarded, NEW d, d = DrainReady(k), d \in NodeState, ~d.failed, d.running,
           forwarded = NoMessage \/ forwarded \in Envelope,
           \A x \in out : PassesOn(x, forwarded) \/ x.from = id
    PROVE  Completes(id, k, out, forwarded, d)
<1>1. PICK after : after = [nodes EXCEPT ![id] = d]
  OBVIOUS
<1>2. after \in [Nodes -> NodeState] /\ after[id] = d
  BY <1>1
<1>3. PICK refused : refused = (\E x \in out : Refused(after, x, forwarded))
  OBVIOUS
<1>4. refused = FALSE
  <2>1. ASSUME NEW x \in out
        PROVE  ~Refused(after, x, forwarded)
    BY <1>2 DEF Refused
  <2> QED
    BY <1>3, <2>1
<1>5. PICK sent, committed : /\ sent = {Outbound(after, x, forwarded) : x \in out}
                             /\ committed = IF Committed(k.raw) # {} THEN {id} ELSE {}
  OBVIOUS
<1>6. ASSUME NEW x \in out
      PROVE  Outbound(after, x, forwarded) \in Envelope /\ Outbound(after, x, forwarded).payload = x
  <2>1. CASE PassesOn(x, forwarded)
    <3>1. forwarded \in Envelope
      BY <2>1 DEF PassesOn
    <3> QED
      BY <2>1, <3>1 DEF Outbound, Envelope
  <2>2. CASE ~PassesOn(x, forwarded)
    <3>1. x.from = id /\ d.epoch \in Nat \ {0}
      BY <2>2 DEF NodeState
    <3> QED
      BY <1>2, <2>2, <3>1 DEF Outbound, Envelope
  <2> QED
    BY <2>1, <2>2
<1>7. sent \in SUBSET Envelope /\ \A e \in sent : e.payload \in out
  BY <1>5, <1>6
<1>8. [after EXCEPT ![id].failed = @ \/ refused] = after
  <2>1. PICK failed : failed = (d.failed \/ refused)
    OBVIOUS
  <2>2. failed = d.failed
    BY <1>4, <2>1 DEF NodeState
  <2>3. [d EXCEPT !.failed = failed] = d
    BY <2>2, NodeAsIs
  <2>4. [after EXCEPT ![id].failed = @ \/ refused] = [after EXCEPT ![id] = [after[id] EXCEPT !.failed = after[id].failed \/ refused]]
    BY <1>2
  <2>5. [after EXCEPT ![id] = d] = after
    BY <1>2
  <2> QED
    BY <1>2, <2>1, <2>3, <2>4, <2>5
<1>9. Complete(id, k, out, forwarded) = CompletedAs(after, sent, committed)
  <2>1. Complete(id, k, out, forwarded) =
          [Unchanged EXCEPT
            !.nodes = [after EXCEPT ![id].failed = @ \/ refused],
            !.sent = {Outbound(after, x, forwarded) : x \in out},
            !.committed = IF Committed(k.raw) # {} THEN {id} ELSE {}]
    BY <1>1, <1>3, Zenon DEF Complete
  <2> QED
    BY <1>5, <1>8, <2>1, Zenon DEF CompletedAs
<1> QED
  BY <1>1, <1>7, <1>9 DEF Completes

----------------------------------------------------------------------------
(* What holds between two steps, and what a step does to every node.       *)

Payloads == {e.payload : e \in network}

NodesOK == nodes \in [Nodes -> NodeState] /\ \A id \in Nodes : NodeOK(id, nodes[id])

MessagesOK ==
    /\ network \subseteq Envelope
    /\ \A m \in Payloads : /\ m.type = "MsgProp" => m.entries # <<>>
                           /\ m.type \in {"MsgVote", "MsgVoteResp"} => m.from # m.to

\* A heartbeat that a node would follow commits no more than the node has.
HeartbeatsSafe ==
    \A m \in Payloads :
        m.type = "MsgHeartbeat" /\ m.term >= nodes[m.to].store.term
            => m.commit <= Len(nodes[m.to].store.log)

Base == NodesOK /\ MessagesOK /\ HeartbeatsSafe

\* What a RawNode is called with: a timer, a message of the network or the
\* proposal of a client.
Input(id, m) ==
    \/ m = Hup
    \/ /\ m \in Message
       /\ m.type = "MsgProp" => m.entries # <<>>
       /\ m.type = "MsgProp" \/ (m \in Payloads /\ m.to = id)

\* One call of the adapter on a running node drains it and sends the messages it returned.
LEMMA OneCall ==
    ASSUME Base, NEW id \in Nodes, nodes[id].running, NEW m, Input(id, m), NEW k, NEW q,
           CallOn(id, nodes[id], m, k, q), NEW forwarded,
           forwarded = NoMessage \/ forwarded \in Envelope,
           m.type = "MsgProp" => m.from = id \/ (forwarded # NoMessage /\ forwarded.payload = m)
    PROVE  \E d : Calls(id, nodes[id], m, d, q) /\ Completes(id, k, q.out, forwarded, d)
<1>1. PICK n, d : n = nodes[id] /\ d = DrainReady(k)
  OBVIOUS
<1>2. nodes \in [Nodes -> NodeState] /\ NodeOK(id, n)
  BY <1>1 DEF Base, NodesOK
<1>3. m = Hup \/ m \in Message
  BY DEF Input
<1>4. Worked(id, n.raw, m, q)
  BY <1>1 DEF CallOn
<1>5. ASSUME m.type = "MsgHeartbeat", m.term = q.raw.term
      PROVE  m.commit <= Len(n.store.log)
  <2>1. m \in Payloads /\ m.to = id
    BY <1>5 DEF Input, Hup
  <2>2. q.raw.term >= n.raw.term /\ n.raw.term = n.store.term
    <3>1. n.raw.term <= q.raw.term
      BY <1>4 DEF Worked, VoteKept
    <3>2. n.raw.term = n.store.term
      BY <1>1, <1>2 DEF NodeOK, OnDisk
    <3>3. n.raw.term \in Nat /\ q.raw.term \in Nat
      <4>1. n.raw \in RawState /\ q.raw \in RawState
        BY <1>2, <1>4, OutcomeIs DEF NodeOK, NodeState, Worked
      <4> QED
        BY <4>1 DEF RawState
    <3> QED
      BY <3>1, <3>2, <3>3
  <2> QED
    BY <1>1, <1>5, <2>1, <2>2 DEF Base, HeartbeatsSafe
<1>6. Calls(id, n, m, d, q)
  BY <1>1, <1>2, <1>3, <1>5, CallDrains
<1>7. d \in NodeState /\ ~d.failed /\ d.running
  BY <1>6 DEF Calls, Drained, Stored
<1>8. q.out \in SUBSET Message
  BY <1>4, OutcomeIs DEF Worked, Outcome
<1>9. ASSUME NEW x \in q.out
      PROVE  PassesOn(x, forwarded) \/ x.from = id
  <2>1. Sends(id, n.raw, m, q)
    BY <1>4 DEF Worked
  <2>2. CASE x.type = "MsgProp" /\ m.type = "MsgProp" /\ x.from = m.from
    BY <2>2 DEF PassesOn
  <2>3. CASE x.from = id
    BY <2>3
  <2> QED
    BY <2>1, <2>2, <2>3 DEF Sends
<1>10. Completes(id, k, q.out, forwarded, d)
  <2>1. nodes \in [Nodes -> NodeState] /\ d = DrainReady(k)
    BY <1>1, <1>2
  <2>2. \A x \in q.out : PassesOn(x, forwarded) \/ x.from = id
    BY <1>9
  <2> QED
    BY <1>7, <1>8, <2>1, <2>2, CallCompletes
<1> QED
  BY <1>1, <1>6, <1>10

\* What becomes of a node.
Crashed(n, d) ==
    /\ n.running /\ ~d.running /\ d.epoch = n.epoch /\ d.store = n.store /\ d.applied = n.applied
    /\ d.prefixDigests = n.prefixDigests /\ d.raw.role = "follower"

Restarted(n, d) ==
    /\ ~n.running /\ d.running /\ d.epoch = n.epoch + 1 /\ d.raw.role = "follower"
    /\ d.store.term = n.store.term /\ d.store.vote = n.store.vote /\ d.store.log = n.store.log
    /\ d.store.commit = n.store.commit

\* What a step does to the cluster ns.
Moves(ns, id) ==
    \/ ns[id] = nodes[id]
    \/ NodeOK(id, ns[id]) /\ (Crashed(nodes[id], ns[id]) \/ Restarted(nodes[id], ns[id]))
    \/ \E m, q : Input(id, m) /\ Calls(id, nodes[id], m, ns[id], q)

Sent(ns, e) ==
    /\ e \in Envelope
    /\ \E id \in Nodes : \E m, q : /\ Input(id, m) /\ Calls(id, nodes[id], m, ns[id], q)
                                   /\ e.payload \in q.out

Acts(ns, sent) ==
    /\ ns \in [Nodes -> NodeState] /\ \A id \in Nodes : Moves(ns, id)
    /\ \A e \in sent : Sent(ns, e)

\* One call makes a step.
LEMMA CallActs ==
    ASSUME Base, NEW id \in Nodes, NEW m, Input(id, m), NEW q, NEW d,
           Calls(id, nodes[id], m, d, q), NEW sent \in SUBSET Envelope,
           \A e \in sent : e.payload \in q.out
    PROVE  Acts([nodes EXCEPT ![id] = d], sent)
<1>1. PICK ns : ns = [nodes EXCEPT ![id] = d]
  OBVIOUS
<1>2. nodes \in [Nodes -> NodeState] /\ d \in NodeState
  BY DEF Base, NodesOK, Calls, NodeOK
<1>3. /\ ns \in [Nodes -> NodeState] /\ ns[id] = d
      /\ \A p \in Nodes : p # id => ns[p] = nodes[p]
  BY <1>1, <1>2
<1>4. \A p \in Nodes : Moves(ns, p)
  BY <1>3 DEF Moves
<1>5. \A e \in sent : Sent(ns, e)
  BY <1>3 DEF Sent
<1> QED
  BY <1>1, <1>3, <1>4, <1>5 DEF Acts

----------------------------------------------------------------------------
(* The calls of the adapter, one by one.                                   *)

\* What a call returns is one of the things a step may do.
Happens(effects) == \E ns, sent : Returns(effects, ns, sent) /\ Acts(ns, sent)

\* The end of a call: what Complete returns, with the message delivered or the
\* timers noted, and what it does to the cluster.
LEMMA CompletesHappens ==
    ASSUME Base, NEW id \in Nodes, NEW m, Input(id, m), NEW k, NEW q, NEW forwarded, NEW d,
           Calls(id, nodes[id], m, d, q), Completes(id, k, q.out, forwarded, d), NEW x, NEW timers
    PROVE  /\ Happens(Complete(id, k, q.out, forwarded))
           /\ Happens(DeliveredAs(Complete(id, k, q.out, forwarded), x))
           /\ Happens(TimedAs(Complete(id, k, q.out, forwarded), timers))
<1>1. PICK ns : ns = [nodes EXCEPT ![id] = d]
  OBVIOUS
<1>3. \E s \in SUBSET Envelope : \E c :
         /\ Complete(id, k, q.out, forwarded) = CompletedAs(ns, s, c)
         /\ \A e \in s : e.payload \in q.out
  BY <1>1 DEF Completes
<1>4. PICK s \in SUBSET Envelope : \E c :
         /\ Complete(id, k, q.out, forwarded) = CompletedAs(ns, s, c)
         /\ \A e \in s : e.payload \in q.out
  BY <1>3
<1>5. PICK c :
         /\ Complete(id, k, q.out, forwarded) = CompletedAs(ns, s, c)
         /\ \A e \in s : e.payload \in q.out
  BY <1>4
<1>6. Acts(ns, s)
  BY <1>1, <1>4, <1>5, CallActs
<1>7. /\ Returns(CompletedAs(ns, s, c), ns, s)
      /\ Returns(DeliveredAs(CompletedAs(ns, s, c), x), ns, s)
      /\ Returns(TimedAs(CompletedAs(ns, s, c), timers), ns, s)
  BY CompletedIs
<1> QED
  BY <1>5, <1>6, <1>7 DEF Happens

\* A delivery that is refused or dropped changes no node.
LEMMA NothingHappens ==
    ASSUME Base, NEW m
    PROVE  Happens(Unchanged) /\ Happens([Unchanged EXCEPT !.delivered = m])
<1>1. PICK sent : sent = {}
  OBVIOUS
<1>2. Returns(Unchanged, nodes, sent) /\ Returns([Unchanged EXCEPT !.delivered = m], nodes, sent)
  BY <1>1 DEF Unchanged, Returns
<1>3. Acts(nodes, sent)
  BY <1>1 DEF Acts, Moves, Base, NodesOK
<1> QED
  BY <1>2, <1>3 DEF Happens

\* Delivering a message is a call on its receiver, with the vote fault it may activate.
LEMMA DeliverHappens ==
    ASSUME Base, NEW e \in network, e.payload.to \in Running
    PROVE  Happens(Deliver(e))
<1>1. PICK m, id, n, q, stepped :
         /\ m = e.payload /\ id = m.to /\ n = nodes[id] /\ q = Step(n.raw, id, m)
         /\ stepped = MaybeActivateVoteFault(n, id, m, q)
  OBVIOUS
<1>2. e \in Envelope /\ m \in Message /\ m \in Payloads /\ id \in Nodes
  BY <1>1 DEF Base, MessagesOK, Envelope, Payloads, Message
<1>3. n.running /\ NodeOK(id, n)
  BY <1>1, <1>2 DEF Running, Base, NodesOK
<1>4. /\ m.type = "MsgProp" => m.entries # <<>>
      /\ m.type \in {"MsgVote", "MsgVoteResp"} => m.from # id
  BY <1>1, <1>2 DEF Base, MessagesOK
<1>5. Input(id, m)
  BY <1>1, <1>2, <1>4 DEF Input
<1>6. Deliver(e) = IF m.type = "MsgProp" /\ ProposalDropped(n.raw)
                   THEN [Unchanged EXCEPT !.delivered = m]
                   ELSE DeliveredAs(Complete(id, stepped.node, stepped.out, e), m)
  BY <1>1, Zenon DEF Deliver, DeliveredAs
<1>7. CASE m.type = "MsgProp" /\ ProposalDropped(n.raw)
  BY <1>6, <1>7, NothingHappens
<1>8. CASE ~(m.type = "MsgProp" /\ ProposalDropped(n.raw))
  <2>1. \E o : o.out = stepped.out /\ CallOn(id, n, m, stepped.node, o)
    <3>1. CASE VoteFaultApplies(n.raw, m)
      <4>1. m.from # id
        BY <1>4, <3>1 DEF VoteFaultApplies
      <4> QED
        BY <1>1, <1>2, <1>3, <3>1, <4>1, FaultCall
    <3>2. CASE ~VoteFaultApplies(n.raw, m)
      <4>1. n.raw \in RawState /\ VotesShort(n.raw) /\ ~n.raw.restored
        BY <1>3 DEF NodeOK, NodeState, OnDisk
      <4>2. Stepped(id, n.raw, m, q)
        BY <1>1, <1>2, <1>4, <4>1, StepStepped
      <4>3. CallOn(id, n, m, [n EXCEPT !.raw = q.raw], q)
        BY <1>2, <1>3, <3>2, <4>2, PlainCall
      <4>4. stepped = [node |-> [n EXCEPT !.raw = q.raw], out |-> q.out]
        BY <1>1, <3>2, Zenon DEF MaybeActivateVoteFault
      <4>5. stepped.node = [n EXCEPT !.raw = q.raw] /\ stepped.out = q.out
        BY <4>4
      <4> QED
        BY <4>3, <4>5
    <3> QED
      BY <3>1, <3>2
  <2>2. PICK o : o.out = stepped.out /\ CallOn(id, n, m, stepped.node, o)
    BY <2>1
  <2>3. PICK k, out : k = stepped.node /\ out = stepped.out
    OBVIOUS
  <2>4. e # NoMessage
    BY <1>2, NoMessageAssumption
  <2>5. \E d : Calls(id, nodes[id], m, d, o) /\ Completes(id, k, o.out, e, d)
    <3>1. nodes[id].running /\ CallOn(id, nodes[id], m, k, o)
      BY <1>1, <1>3, <2>2, <2>3
    <3>2. e = NoMessage \/ e \in Envelope
      BY <1>2
    <3>3. m.type = "MsgProp" => m.from = id \/ (e # NoMessage /\ e.payload = m)
      BY <1>1, <2>4
    <3> QED
      BY <1>2, <1>5, <3>1, <3>2, <3>3, OneCall, ZenonT(30)
  <2>6. PICK d : Calls(id, nodes[id], m, d, o) /\ Completes(id, k, o.out, e, d)
    BY <2>5
  <2>7. Happens(DeliveredAs(Complete(id, k, o.out, e), m))
    BY <1>2, <1>5, <2>6, CompletesHappens
  <2>8. Deliver(e) = DeliveredAs(Complete(id, k, o.out, e), m)
    BY <1>6, <1>8, <2>2, <2>3
  <2> QED
    BY <2>7, <2>8
<1> QED
  BY <1>7, <1>8

\* A timer that fires: the node campaigns, or a leader sends its heartbeats.
Fire(id, r) ==
    IF r.role = "leader" THEN BroadcastHeartbeat([raw |-> r, out |-> {}], id) ELSE Campaign(r, id)

\* A timer that fires is a call on its node.
LEMMA TimerFires ==
    ASSUME Base, NEW id \in Nodes, nodes[id].running, NEW s,
           s = Campaign(nodes[id].raw, id) \/ s = Fire(id, nodes[id].raw), NEW k,
           k = [nodes[id] EXCEPT !.raw = s.raw]
    PROVE  /\ Input(id, Hup)
           /\ \E d : Calls(id, nodes[id], Hup, d, s) /\ Completes(id, k, s.out, NoMessage, d)
<1>1. PICK n, r : n = nodes[id] /\ r = n.raw
  OBVIOUS
<1>2. NodeOK(id, n) /\ n.running
  BY <1>1 DEF Base, NodesOK
<1>3. r \in RawState /\ VotesShort(r) /\ ~r.restored
  BY <1>1, <1>2 DEF NodeOK, NodeState, OnDisk
<1>4. Stepped(id, r, Hup, Campaign(r, id))
  BY <1>3, CampaignStepped
<1>5. r.role = "leader" => Stepped(id, r, Hup, BroadcastHeartbeat([raw |-> r, out |-> {}], id))
  BY <1>3, BroadcastHeartbeatStepped
<1>6. Stepped(id, r, Hup, s)
  BY <1>1, <1>4, <1>5 DEF Fire
<1>7. ~VoteFaultApplies(r, Hup)
  BY DEF VoteFaultApplies, Hup
<1>8. CallOn(id, nodes[id], Hup, k, s)
  BY <1>1, <1>2, <1>6, <1>7, PlainCall
<1>9. Input(id, Hup)
  BY DEF Input
<1>10. Hup.type # "MsgProp"
  BY DEF Hup
<1>11. \E d : Calls(id, nodes[id], Hup, d, s) /\ Completes(id, k, s.out, NoMessage, d)
  <2>1. PICK m, e : m = Hup /\ e = NoMessage
    OBVIOUS
  <2>2. e = NoMessage \/ e \in Envelope
    BY <2>1
  <2>3. m.type = "MsgProp" => m.from = id \/ (e # NoMessage /\ e.payload = m)
    BY <1>10, <2>1
  <2>4. Input(id, m) /\ CallOn(id, nodes[id], m, k, s)
    BY <1>8, <1>9, <2>1
  <2>5. \E d : Calls(id, nodes[id], m, d, s) /\ Completes(id, k, s.out, e, d)
    BY <2>2, <2>3, <2>4, OneCall, ZenonT(30)
  <2> QED
    BY <2>1, <2>5
<1> QED
  BY <1>9, <1>11

\* A forced timeout is a call on its node, or nothing.
LEMMA ForceTimeoutHappens ==
    ASSUME Base, NEW id \in Running
    PROVE  Happens(ForceTimeout(id))
<1>1. PICK s, k : s = Campaign(nodes[id].raw, id) /\ k = [nodes[id] EXCEPT !.raw = s.raw]
  OBVIOUS
<1>2. id \in Nodes /\ nodes[id].running
  BY DEF Running
<1>3. /\ Input(id, Hup)
      /\ \E d : Calls(id, nodes[id], Hup, d, s) /\ Completes(id, k, s.out, NoMessage, d)
  BY <1>1, <1>2, TimerFires
<1>4. PICK d : Calls(id, nodes[id], Hup, d, s) /\ Completes(id, k, s.out, NoMessage, d)
  BY <1>3
<1>5. \E timers : ForceTimeout(id) = TimedAs(Complete(id, k, s.out, NoMessage), timers)
  BY <1>1, Zenon DEF ForceTimeout, TimedAs
<1>6. PICK timers : ForceTimeout(id) = TimedAs(Complete(id, k, s.out, NoMessage), timers)
  BY <1>5
<1>7. \A x : Happens(TimedAs(Complete(id, k, s.out, NoMessage), x))
  BY <1>2, <1>3, <1>4, CompletesHappens
<1> QED
  BY <1>6, <1>7

\* The proposal of a client.
LEMMA RequestHappens ==
    ASSUME Base, NEW id \in Running, NEW value \in Nat
    PROVE  Happens(Request(id, value))
<1>1. PICK n, r, m, s, k :
         /\ n = nodes[id] /\ r = n.raw
         /\ m = [Msg("MsgProp", id, id, 0) EXCEPT !.entries = <<[term |-> 0, value |-> value]>>]
         /\ s = Step(r, id, m) /\ k = [n EXCEPT !.raw = s.raw]
  OBVIOUS
<1>2. id \in Nodes /\ n.running /\ NodeOK(id, n)
  BY <1>1 DEF Running, Base, NodesOK
<1>3. Request(id, value) = IF ProposalDropped(r) THEN Unchanged ELSE Complete(id, k, s.out, NoMessage)
  BY <1>1, Zenon DEF Request
<1>4. PICK e : e = [term |-> 0, value |-> value]
  OBVIOUS
<1>5. e \in Entry
  BY <1>4 DEF Entry
<1>6. Msg("MsgProp", id, id, 0) \in Message
  BY <1>2, MsgType DEF MessageTypes
<1>7. <<e>> \in Seq(Entry) /\ <<e>> # <<>>
  BY <1>5
<1>8. PICK es : es = <<e>>
  OBVIOUS
<1>9. m = [type |-> "MsgProp", from |-> id, to |-> id, term |-> 0, index |-> 0, logTerm |-> 0,
           commit |-> 0, reject |-> FALSE, hint |-> 0, entries |-> es, snapshot |-> <<>>]
  BY <1>1, <1>4, <1>8 DEF Msg
<1>10. m \in Message /\ m.type = "MsgProp" /\ m.from = id /\ m.entries # <<>>
  <2>1. m.type = "MsgProp" /\ m.from = id /\ m.entries = es
    BY <1>9
  <2>2. <<>> \in Seq(Entry) /\ es \in Seq(Entry)
    BY <1>7, <1>8
  <2>3. m \in Message
    BY <1>2, <1>9, <2>2 DEF Message
  <2> QED
    BY <1>7, <1>8, <2>1, <2>3
<1>11. CASE ProposalDropped(r)
  BY <1>3, <1>11, NothingHappens
<1>12. CASE ~ProposalDropped(r)
  <2>1. r \in RawState /\ VotesShort(r) /\ ~r.restored
    BY <1>1, <1>2 DEF NodeOK, NodeState, OnDisk
  <2>2. Stepped(id, r, m, s)
    BY <1>1, <1>2, <1>10, <2>1, StepStepped
  <2>3. ~VoteFaultApplies(r, m)
    BY <1>10 DEF VoteFaultApplies
  <2>4. CallOn(id, n, m, [n EXCEPT !.raw = s.raw], s)
    BY <1>1, <1>2, <2>2, <2>3, PlainCall
  <2>5. nodes[id].running /\ CallOn(id, nodes[id], m, k, s)
    BY <1>1, <1>2, <2>4
  <2>6. Input(id, m)
    BY <1>10 DEF Input
  <2>7. PICK none : none = NoMessage
    OBVIOUS
  <2>8. none = NoMessage \/ none \in Envelope
    BY <2>7
  <2>9. m.type = "MsgProp" => m.from = id \/ (none # NoMessage /\ none.payload = m)
    BY <1>10
  <2>10. \E d : Calls(id, nodes[id], m, d, s) /\ Completes(id, k, s.out, none, d)
    BY <1>2, <2>5, <2>6, <2>8, <2>9, OneCall, ZenonT(30)
  <2>11. PICK d : Calls(id, nodes[id], m, d, s) /\ Completes(id, k, s.out, none, d)
    BY <2>10
  <2>12. Happens(Complete(id, k, s.out, none))
    BY <1>2, <2>6, <2>11, CompletesHappens
  <2> QED
    BY <1>3, <1>12, <2>7, <2>12
<1> QED
  BY <1>11, <1>12

\* The call of one node in a tick.
FireCall(id) ==
    LET s == Fire(id, nodes[id].raw)
    IN  Complete(id, [nodes[id] EXCEPT !.raw = s.raw], s.out, NoMessage)

\* What a node's timer does when the clock advances is a call on it.
LEMMA FireCalled ==
    ASSUME Base, NEW id \in Running
    PROVE  /\ Input(id, Hup)
           /\ Calls(id, nodes[id], Hup, FireCall(id).nodes[id], Fire(id, nodes[id].raw))
           /\ \A e \in FireCall(id).sent :
                  e \in Envelope /\ e.payload \in Fire(id, nodes[id].raw).out
<1>1. PICK s, k : s = Fire(id, nodes[id].raw) /\ k = [nodes[id] EXCEPT !.raw = s.raw]
  OBVIOUS
<1>2. id \in Nodes /\ nodes[id].running /\ nodes \in [Nodes -> NodeState]
  BY DEF Running, Base, NodesOK
<1>3. /\ Input(id, Hup)
      /\ \E d : Calls(id, nodes[id], Hup, d, s) /\ Completes(id, k, s.out, NoMessage, d)
  BY <1>1, <1>2, TimerFires
<1>4. PICK d : Calls(id, nodes[id], Hup, d, s) /\ Completes(id, k, s.out, NoMessage, d)
  BY <1>3
<1>5. PICK ns : ns = [nodes EXCEPT ![id] = d]
  OBVIOUS
<1>6. \E sent \in SUBSET Envelope : \E c :
         /\ Complete(id, k, s.out, NoMessage) = CompletedAs(ns, sent, c)
         /\ \A e \in sent : e.payload \in s.out
  BY <1>4, <1>5 DEF Completes
<1>7. PICK sent \in SUBSET Envelope : \E c :
         /\ Complete(id, k, s.out, NoMessage) = CompletedAs(ns, sent, c)
         /\ \A e \in sent : e.payload \in s.out
  BY <1>6
<1>8. PICK c :
         /\ Complete(id, k, s.out, NoMessage) = CompletedAs(ns, sent, c)
         /\ \A e \in sent : e.payload \in s.out
  BY <1>7
<1>9. FireCall(id) = CompletedAs(ns, sent, c)
  BY <1>1, <1>8, Zenon DEF FireCall
<1>10. Returns(CompletedAs(ns, sent, c), ns, sent)
  BY CompletedIs
<1>11. FireCall(id).nodes = ns /\ FireCall(id).sent = sent
  BY <1>9, <1>10 DEF Returns
<1>12. ns[id] = d
  BY <1>2, <1>5
<1> QED
  BY <1>1, <1>3, <1>4, <1>7, <1>8, <1>11, <1>12

TickedAs(a, b, c) == [Unchanged EXCEPT !.nodes = a, !.sent = b, !.timers = c]

\* Advancing the clock changes the nodes and the messages as the timers do.
LEMMA TickedIs ==
    ASSUME NEW a, NEW b, NEW c
    PROVE  Returns(TickedAs(a, b, c), a, b)
<1>1. PICK u : u = [nodes |-> nodes, sent |-> {}, timers |-> {}, delivered |-> NoMessage, committed |-> {}]
  OBVIOUS
<1>2. PICK v : v = [u EXCEPT !.nodes = a]
  OBVIOUS
<1>3. v = [nodes |-> a, sent |-> {}, timers |-> {}, delivered |-> NoMessage, committed |-> {}]
  BY <1>1, <1>2
<1>4. PICK w : w = [v EXCEPT !.sent = b]
  OBVIOUS
<1>5. w = [nodes |-> a, sent |-> b, timers |-> {}, delivered |-> NoMessage, committed |-> {}]
  BY <1>3, <1>4
<1>6. PICK x : x = [w EXCEPT !.timers = c]
  OBVIOUS
<1>7. x = [nodes |-> a, sent |-> b, timers |-> c, delivered |-> NoMessage, committed |-> {}]
  BY <1>5, <1>6
<1>8. TickedAs(a, b, c) = x
  BY <1>1, <1>2, <1>4, <1>6, Zenon DEF TickedAs, Unchanged
<1> QED
  BY <1>7, <1>8 DEF Returns

\* The timers of a tick fire on every node by itself.
LEMMA TickHappens ==
    ASSUME Base, NEW fired \in SUBSET Running
    PROVE  Happens(Tick(fired))
<1>1. PICK ns, sent :
         /\ ns = [id \in Nodes |-> IF id \in fired THEN FireCall(id).nodes[id] ELSE nodes[id]]
         /\ sent = UNION {FireCall(id).sent : id \in fired}
  OBVIOUS
<1>2. \E timers : Tick(fired) = TickedAs(ns, sent, timers)
  BY <1>1, Zenon DEF Tick, FireCall, Fire, TickedAs
<1>3. PICK timers : Tick(fired) = TickedAs(ns, sent, timers)
  BY <1>2
<1>4. Returns(Tick(fired), ns, sent)
  BY <1>3, TickedIs
<1>5. ASSUME NEW id \in fired
      PROVE  /\ id \in Nodes /\ ns[id] \in NodeState /\ Input(id, Hup)
             /\ Calls(id, nodes[id], Hup, ns[id], Fire(id, nodes[id].raw))
             /\ \A e \in FireCall(id).sent : Sent(ns, e)
  <2>1. id \in Running /\ id \in Nodes
    BY <1>5 DEF Running
  <2>2. ns[id] = FireCall(id).nodes[id]
    BY <1>1, <2>1
  <2>3. /\ Input(id, Hup)
        /\ Calls(id, nodes[id], Hup, ns[id], Fire(id, nodes[id].raw))
        /\ \A e \in FireCall(id).sent :
               e \in Envelope /\ e.payload \in Fire(id, nodes[id].raw).out
    BY <2>1, <2>2, FireCalled
  <2>4. ns[id] \in NodeState
    BY <2>3 DEF Calls, NodeOK
  <2>5. \A e \in FireCall(id).sent : Sent(ns, e)
    BY <2>1, <2>3 DEF Sent
  <2> QED
    BY <2>1, <2>3, <2>4, <2>5
<1>6. ns \in [Nodes -> NodeState]
  <2>1. nodes \in [Nodes -> NodeState]
    BY DEF Base, NodesOK
  <2>2. ASSUME NEW id \in Nodes
        PROVE  ns[id] \in NodeState
    BY <1>1, <1>5, <2>1, <2>2
  <2>3. ns = [id \in Nodes |-> ns[id]]
    BY <1>1
  <2> QED
    BY <2>2, <2>3
<1>7. \A id \in Nodes : Moves(ns, id)
  BY <1>1, <1>5 DEF Moves
<1>8. \A e \in sent : Sent(ns, e)
  BY <1>1, <1>5
<1>9. Acts(ns, sent)
  BY <1>6, <1>7, <1>8 DEF Acts
<1> QED
  BY <1>4, <1>9 DEF Happens

----------------------------------------------------------------------------
(* Crashes and restarts.                                                   *)

\* A new RawNode is a follower that restores nothing.
LEMMA InitRawType == InitRaw \in RawState /\ InitRaw.role = "follower" /\ ~InitRaw.restored
<1>1. FreshProgress \in Progress
  BY DEF FreshProgress, Progress, Modes
<1>2. PICK pg : pg = [p \in Nodes |-> FreshProgress]
  OBVIOUS
<1>3. pg \in [Nodes -> Progress]
  BY <1>1, <1>2
<1>4. PICK votes : votes = [p \in {} |-> TRUE]
  OBVIOUS
<1>5. votes \in Answers
  <2>1. {} \in SUBSET Nodes /\ [p \in {} |-> TRUE] \in [{} -> BOOLEAN]
    OBVIOUS
  <2> QED
    BY <1>4, <2>1 DEF Answers
<1>6. InitRaw = [term |-> 0, vote |-> None, role |-> "follower", lead |-> None,
                 commit |-> 0, log |-> <<>>, first |-> 1, snapshot |-> <<>>,
                 applied |-> 0, restored |-> FALSE, votes |-> votes, progress |-> pg]
  BY <1>2, <1>4, Zenon DEF InitRaw
<1>7. <<>> \in Seq(Entry)
  OBVIOUS
<1>8. InitRaw.role = "follower" /\ ~InitRaw.restored
  BY <1>6
<1>9. InitRaw \in RawState
  BY <1>3, <1>5, <1>6, <1>7 DEF RawState, Roles
<1> QED
  BY <1>8, <1>9

\* Effects with another node.
WithNode(u, id, x) == [u EXCEPT !.nodes[id] = x]

\* A crash or a restart replaces one node and sends nothing.
LEMMA NodeReplaced ==
    ASSUME NEW id \in Nodes, NEW x
    PROVE  Returns(WithNode(Unchanged, id, x), [nodes EXCEPT ![id] = x], {})
<1>1. PICK u : u = [nodes |-> nodes, sent |-> {}, timers |-> {}, delivered |-> NoMessage, committed |-> {}]
  OBVIOUS
<1>2. [u EXCEPT !.nodes[id] = x]
        = [nodes |-> [nodes EXCEPT ![id] = x], sent |-> {}, timers |-> {}, delivered |-> NoMessage,
           committed |-> {}]
  BY <1>1
<1>3. PICK v, ns : v = [u EXCEPT !.nodes[id] = x] /\ ns = [nodes EXCEPT ![id] = x]
  OBVIOUS
<1>4. v = [nodes |-> ns, sent |-> {}, timers |-> {}, delivered |-> NoMessage, committed |-> {}]
  BY <1>2, <1>3, Zenon
<1>5. v.nodes = ns /\ v.sent = {}
  BY <1>4
<1>6. v = WithNode(Unchanged, id, x)
  BY <1>1, <1>3, Zenon DEF WithNode, Unchanged
<1> QED
  BY <1>3, <1>5, <1>6 DEF Returns

\* A node that moves by itself, without messages.
LEMMA NodeMoves ==
    ASSUME Base, NEW id \in Nodes, NEW d, NodeOK(id, d),
           Crashed(nodes[id], d) \/ Restarted(nodes[id], d)
    PROVE  Acts([nodes EXCEPT ![id] = d], {})
<1>1. PICK ns : ns = [nodes EXCEPT ![id] = d]
  OBVIOUS
<1>2. nodes \in [Nodes -> NodeState] /\ d \in NodeState
  BY DEF Base, NodesOK, NodeOK
<1>3. ns \in [Nodes -> NodeState] /\ ns[id] = d /\ \A p \in Nodes : p # id => ns[p] = nodes[p]
  BY <1>1, <1>2
<1>4. \A p \in Nodes : Moves(ns, p)
  BY <1>3 DEF Moves
<1> QED
  BY <1>1, <1>3, <1>4 DEF Acts

\* A crash keeps what is durable of the node and loses the rest.
LEMMA CrashHappens ==
    ASSUME Base, NEW id \in Running
    PROVE  Happens(Crash(id))
<1>1. PICK n, raw, answers, down, zero :
         n = nodes[id] /\ raw = InitRaw /\ answers = [p \in {} |-> TRUE] /\ down = FALSE /\ zero = 0
  OBVIOUS
<1>2. id \in Nodes /\ n.running /\ NodeOK(id, n) /\ n \in NodeState
  BY <1>1 DEF Running, Base, NodesOK, NodeOK
<1>3. raw \in RawState /\ raw.role = "follower"
  BY <1>1, InitRawType
<1>4. answers \in Answers /\ down \in BOOLEAN /\ ~down /\ zero \in Nat /\ zero = 0
  <2>1. {} \in SUBSET Nodes /\ answers \in [{} -> BOOLEAN]
    BY <1>1
  <2>2. answers \in Answers
    BY <2>1 DEF Answers
  <2> QED
    BY <1>1, <2>2
<1>5. PICK d : d = NodeCrashedAs(n, down, raw, zero, answers)
  OBVIOUS
<1>6. d = [epoch |-> n.epoch, running |-> down, raw |-> raw, store |-> n.store,
           applied |-> n.applied, prefixDigests |-> n.prefixDigests,
           lastSnapshotIndex |-> n.lastSnapshotIndex, voteTerm |-> zero,
           voteResponses |-> answers, failed |-> n.failed]
  BY <1>2, <1>3, <1>4, <1>5, NodeCrashed
<1>7. /\ d.epoch = n.epoch /\ ~d.running /\ d.raw = raw /\ d.store = n.store
      /\ d.applied = n.applied /\ d.prefixDigests = n.prefixDigests
      /\ d.lastSnapshotIndex = n.lastSnapshotIndex /\ d.voteTerm = 0 /\ d.failed = n.failed
  BY <1>4, <1>6
<1>8. d \in NodeState
  BY <1>2, <1>3, <1>4, <1>6 DEF NodeState
<1>9. d.voteTerm <= d.store.term
  <2>1. n.store.term \in Nat
    BY <1>2 DEF NodeState, StoreState
  <2> QED
    BY <1>7, <2>1
<1>10. NodeOK(id, d)
  BY <1>2, <1>3, <1>7, <1>8, <1>9 DEF NodeOK, Stored, FaultVotes
<1>11. Crashed(nodes[id], d)
  BY <1>1, <1>2, <1>3, <1>7 DEF Crashed
<1>12. PICK ns, sent : ns = [nodes EXCEPT ![id] = d] /\ sent = {}
  OBVIOUS
<1>13. Acts(ns, sent)
  BY <1>2, <1>10, <1>11, <1>12, NodeMoves
<1>14. Crash(id) = WithNode(Unchanged, id, d)
  <2>1. Unchanged.nodes[id] = nodes[id]
    BY DEF Unchanged
  <2>2. Crash(id) = WithNode(Unchanged, id, NodeCrashedAs(Unchanged.nodes[id], FALSE, InitRaw, 0,
                                                           [p \in {} |-> TRUE]))
    BY Zenon DEF Crash, WithNode, NodeCrashedAs
  <2> QED
    BY <1>1, <1>5, <2>1, <2>2
<1>15. Returns(Crash(id), ns, sent)
  BY <1>2, <1>12, <1>14, NodeReplaced
<1> QED
  BY <1>13, <1>15 DEF Happens

\* A node rebuilt from its storage.
LEMMA RestoredIs ==
    ASSUME NEW n \in NodeState
    PROVE  /\ Restored(n) \in RawState /\ Restored(n).role = "follower" /\ ~Restored(n).restored
           /\ Restored(n).term = n.store.term /\ Restored(n).vote = n.store.vote
           /\ Restored(n).commit = n.store.commit /\ Restored(n).log = n.store.log
           /\ Restored(n).applied = n.applied
<1>1. PICK x, y : x = InitRaw /\ y = n.store
  OBVIOUS
<1>2. x \in RawState /\ x.role = "follower" /\ ~x.restored
  BY <1>1, InitRawType
<1>3. y \in StoreState /\ n.applied \in Nat
  BY <1>1 DEF NodeState
<1>4. /\ y.term \in Nat /\ y.vote \in Nodes \cup {None} /\ y.commit \in Nat /\ y.log \in Seq(Entry)
      /\ y.first \in Nat \ {0} /\ y.snapshot \in Seq(Entry)
  BY <1>3 DEF StoreState
<1>5. PICK a, b, c, d, e, f, g :
         /\ a = y.term /\ b = y.vote /\ c = y.commit /\ d = y.log /\ e = y.first /\ f = y.snapshot
         /\ g = n.applied
  OBVIOUS
<1>6. PICK w, z : w = RawRemembersAs(x, a, b, c, d) /\ z = RawCompactedAs(w, e, f, g)
  OBVIOUS
<1>7. z = [term |-> a, vote |-> b, role |-> x.role, lead |-> x.lead, commit |-> c, log |-> d,
           first |-> e, snapshot |-> f, applied |-> g, restored |-> x.restored,
           votes |-> x.votes, progress |-> x.progress]
  <2>1. a \in Nat /\ b \in Nodes \cup {None} /\ c \in Nat /\ d \in Seq(Entry)
    BY <1>4, <1>5
  <2>2. e \in Nat \ {0} /\ f \in Seq(Entry) /\ g \in Nat
    BY <1>3, <1>4, <1>5
  <2>3. w = [term |-> a, vote |-> b, role |-> x.role, lead |-> x.lead, commit |-> c, log |-> d,
             first |-> x.first, snapshot |-> x.snapshot, applied |-> x.applied,
             restored |-> x.restored, votes |-> x.votes, progress |-> x.progress]
    BY <1>2, <1>6, <2>1, RawRemembers
  <2>4. w \in RawState
    BY <1>2, <2>1, <2>3 DEF RawState
  <2>5. z = [term |-> w.term, vote |-> w.vote, role |-> w.role, lead |-> w.lead,
             commit |-> w.commit, log |-> w.log, first |-> e, snapshot |-> f, applied |-> g,
             restored |-> w.restored, votes |-> w.votes, progress |-> w.progress]
    BY <1>6, <2>2, <2>4, RawCompacted
  <2> QED
    BY <2>3, <2>5
<1>8. Restored(n) = z
  BY <1>1, <1>5, <1>6, Zenon DEF Restored, RawRemembersAs, RawCompactedAs
<1>9. z \in RawState
  BY <1>2, <1>3, <1>4, <1>5, <1>7 DEF RawState
<1>10. /\ z.role = x.role /\ z.restored = x.restored /\ z.term = a /\ z.vote = b /\ z.commit = c
       /\ z.log = d /\ z.applied = g
  BY <1>7
<1> QED
  BY <1>1, <1>2, <1>5, <1>8, <1>9, <1>10

\* A restart makes a RawNode from what the store holds.
LEMMA RestartHappens ==
    ASSUME Base, NEW id \in Nodes \ Running
    PROVE  Happens(Restart(id))
<1>1. PICK n, raw, answers, up, zero, epoch :
         n = nodes[id] /\ raw = Restored(n) /\ answers = [p \in {} |-> TRUE] /\ up = TRUE /\ zero = 0
         /\ epoch = n.epoch + 1
  OBVIOUS
<1>2. id \in Nodes /\ ~n.running /\ NodeOK(id, n) /\ n \in NodeState
  BY <1>1 DEF Running, Base, NodesOK, NodeOK
<1>3. /\ raw \in RawState /\ raw.role = "follower" /\ ~raw.restored
      /\ raw.term = n.store.term /\ raw.vote = n.store.vote /\ raw.commit = n.store.commit
      /\ raw.log = n.store.log /\ raw.applied = n.applied
  BY <1>1, <1>2, RestoredIs
<1>4. answers \in Answers /\ up \in BOOLEAN /\ up /\ zero \in Nat /\ zero = 0 /\ epoch \in Nat \ {0}
  <2>1. {} \in SUBSET Nodes /\ answers \in [{} -> BOOLEAN]
    BY <1>1
  <2>2. answers \in Answers
    BY <2>1 DEF Answers
  <2>3. n.epoch \in Nat \ {0}
    BY <1>2 DEF NodeState
  <2>4. epoch \in Nat \ {0}
    BY <1>1, <2>3
  <2> QED
    BY <1>1, <2>2, <2>4
<1>5. PICK k : k = NodeRestartedAs(n, epoch, up, raw, zero, answers)
  OBVIOUS
<1>6. k = [epoch |-> epoch, running |-> up, raw |-> raw, store |-> n.store,
           applied |-> n.applied, prefixDigests |-> n.prefixDigests,
           lastSnapshotIndex |-> n.lastSnapshotIndex, voteTerm |-> zero,
           voteResponses |-> answers, failed |-> n.failed]
  BY <1>2, <1>3, <1>4, <1>5, NodeRestarted, ZenonT(30)
<1>7. /\ k.epoch = epoch /\ k.running /\ k.raw = raw /\ k.store = n.store
      /\ k.applied = n.applied /\ k.prefixDigests = n.prefixDigests
      /\ k.lastSnapshotIndex = n.lastSnapshotIndex /\ k.voteTerm = 0 /\ k.failed = n.failed
  BY <1>4, <1>6
<1>8. k \in NodeState
  BY <1>2, <1>3, <1>4, <1>6 DEF NodeState
<1>9. /\ n.store.commit = n.applied /\ n.applied <= Len(n.store.log)
      /\ n.prefixDigests = SubSeq(n.store.log, 1, n.applied)
      /\ n.lastSnapshotIndex <= n.applied
      /\ n.store.snapshot = SubSeq(n.prefixDigests, 1, n.lastSnapshotIndex)
      /\ n.store.first <= n.lastSnapshotIndex + 1 /\ ~n.failed
  BY <1>2 DEF NodeOK, Stored
<1>10. Len(n.prefixDigests) = n.applied
  <2>1. n.store \in StoreState /\ n.applied \in Nat
    BY <1>2 DEF NodeState
  <2>2. n.store.log \in Seq(Entry)
    BY <2>1 DEF StoreState
  <2>3. n.applied \in 0..Len(n.store.log)
    BY <1>9, <2>1, <2>2
  <2> QED
    BY <1>9, <2>2, <2>3, PrefixIs
<1>11. Drainable(raw, k)
  <2>1. n.applied \in Nat
    BY <1>2 DEF NodeState
  <2>2. Draining(raw, k)
    BY <1>3, <1>7, <1>8, <1>9, <2>1 DEF Draining
  <2> QED
    BY <1>3, <1>7, <1>8, <1>9, <1>10, <2>2 DEF Drainable
<1>12. PICK d : d = DrainReady(k)
  OBVIOUS
<1>13. Drained(raw, d) /\ SameLife(k, d)
  BY <1>3, <1>7, <1>11, <1>12, DrainReadyDrains
<1>14. /\ d \in NodeState /\ d.running /\ Stored(d) /\ OnDisk(d) /\ d.raw.role = "follower"
       /\ d.raw.term = n.store.term /\ d.raw.vote = n.store.vote /\ d.raw.commit = n.store.commit
       /\ d.raw.log = n.store.log /\ d.epoch = epoch /\ d.voteTerm = 0 /\ ~d.failed
  BY <1>3, <1>7, <1>13 DEF Drained, SameLife, Stored
<1>15. /\ d.store.term = n.store.term /\ d.store.vote = n.store.vote
       /\ d.store.commit = n.store.commit /\ d.store.log = n.store.log
  BY <1>14 DEF OnDisk
<1>16. NodeOK(id, d)
  <2>1. n.store.term \in Nat
    BY <1>2 DEF NodeState, StoreState
  <2>2. d.voteTerm <= d.store.term
    BY <1>14, <1>15, <2>1
  <2>3. VotesShort(d.raw) /\ FaultVotes(id, d)
    BY <1>14 DEF VotesShort, FaultVotes
  <2> QED
    BY <1>14, <2>2, <2>3 DEF NodeOK
<1>17. Restarted(nodes[id], d)
  BY <1>1, <1>2, <1>14, <1>15 DEF Restarted
<1>18. PICK none, out : none = NoMessage /\ out = {}
  OBVIOUS
<1>19. Restart(id) = Complete(id, k, out, none)
  BY <1>1, <1>5, <1>18, Zenon DEF Restart, NodeRestartedAs
<1>20. Completes(id, k, out, none, d)
  <2>1. nodes \in [Nodes -> NodeState]
    BY DEF Base, NodesOK
  <2>2. out \in SUBSET Message /\ \A x \in out : PassesOn(x, none) \/ x.from = id
    BY <1>18
  <2>3. none = NoMessage \/ none \in Envelope
    BY <1>18
  <2> QED
    BY <1>2, <1>12, <1>14, <2>1, <2>2, <2>3, CallCompletes
<1>21. PICK ns : ns = [nodes EXCEPT ![id] = d]
  OBVIOUS
<1>22. \E sent \in SUBSET Envelope : \E c :
          Complete(id, k, out, none) = CompletedAs(ns, sent, c) /\ \A e \in sent : e.payload \in out
  BY <1>20, <1>21 DEF Completes
<1>23. PICK sent \in SUBSET Envelope : \E c :
          Complete(id, k, out, none) = CompletedAs(ns, sent, c) /\ \A e \in sent : e.payload \in out
  BY <1>22
<1>24. PICK c :
          Complete(id, k, out, none) = CompletedAs(ns, sent, c) /\ \A e \in sent : e.payload \in out
  BY <1>23
<1>25. sent = {}
  BY <1>18, <1>24
<1>26. Acts(ns, sent)
  BY <1>2, <1>16, <1>17, <1>21, <1>25, NodeMoves
<1>27. Returns(CompletedAs(ns, sent, c), ns, sent)
  BY CompletedIs
<1>28. Returns(Restart(id), ns, sent)
  BY <1>19, <1>24, <1>27
<1> QED
  BY <1>26, <1>28 DEF Happens

----------------------------------------------------------------------------
(* A step of the execution.                                                *)

\* What Execute does with the effects of a call.
Executed(sent) ==
    /\ findings = {} /\ Acts(nodes', sent) /\ network' = network \cup sent
    /\ leadersByTerm' = KnownLeaders(Observation(nodes'))
    /\ findings' = Check(Observation(nodes), Observation(nodes'), nodes')

\* An action whose effects happen changes nodes, messages and oracle together.
LEMMA ExecuteActs ==
    ASSUME NEW action, NEW effects, Happens(effects), Execute(action, effects)
    PROVE  \E sent : Executed(sent)
<1>1. PICK ns, sent : Returns(effects, ns, sent) /\ Acts(ns, sent)
  BY DEF Happens
<1>2. effects.nodes = ns /\ effects.sent = sent
  BY <1>1 DEF Returns
<1>3. /\ findings = {} /\ nodes' = effects.nodes /\ network' = network \cup effects.sent
      /\ leadersByTerm' = KnownLeaders(Observation(effects.nodes))
      /\ findings' = findings \cup Check(Observation(nodes), Observation(effects.nodes), effects.nodes)
  BY DEF Execute, RunGoesOn
<1>4. findings' = Check(Observation(nodes), Observation(effects.nodes), effects.nodes)
  BY <1>3
<1>5. Executed(sent)
  BY <1>1, <1>2, <1>3, <1>4 DEF Executed
<1> QED
  BY <1>5

\* Whatever the step, it is one of calls, crashes and restarts.
LEMMA NextExecutes ==
    ASSUME Base, Next
    PROVE  \E sent : Executed(sent)
<1>1. CASE AdvanceTime
  <2>1. \E fired \in SUBSET Running : \E action : Execute(action, Tick(fired))
    BY <1>1 DEF AdvanceTime
  <2> QED
    BY <2>1, TickHappens, ExecuteActs
<1>2. CASE DeliverMessage
  <2>1. \E e \in network : e.payload.to \in Running /\ \E action : Execute(action, Deliver(e))
    BY <1>2 DEF DeliverMessage
  <2> QED
    BY <2>1, DeliverHappens, ExecuteActs
<1>3. CASE TimeoutNode
  <2>1. \E id \in Running : \E action : Execute(action, ForceTimeout(id))
    BY <1>3 DEF TimeoutNode
  <2> QED
    BY <2>1, ForceTimeoutHappens, ExecuteActs
<1>4. CASE CrashNode
  <2>1. \E id \in Running : \E action : Execute(action, Crash(id))
    BY <1>4 DEF CrashNode
  <2> QED
    BY <2>1, CrashHappens, ExecuteActs
<1>5. CASE RestartNode
  <2>1. \E id \in Nodes \ Running : \E action : Execute(action, Restart(id))
    BY <1>5 DEF RestartNode
  <2> QED
    BY <2>1, RestartHappens, ExecuteActs
<1>6. CASE ClientRequest
  <2>1. \E id \in Running, v \in 1..MaxValue : \E action : Execute(action, Request(id, v))
    BY <1>6 DEF ClientRequest
  <2>2. 1..MaxValue \subseteq Nat
    BY ModelBoundsAssumption
  <2> QED
    BY <2>1, <2>2, RequestHappens, ExecuteActs
<1> QED
  BY <1>1, <1>2, <1>3, <1>4, <1>5, <1>6 DEF Next

----------------------------------------------------------------------------
(* What every step keeps.                                                  *)

\* A call in terms of the RawNode before and after it.
LEMMA CallIs ==
    ASSUME NEW id, NEW n, NodeOK(id, n), NEW m, NEW d, NEW q, Calls(id, n, m, d, q),
           NEW r, r = n.raw, NEW p, p = q.raw
    PROVE  /\ r \in RawState /\ p \in RawState /\ Worked(id, r, m, q)
           /\ r.term = n.store.term /\ r.vote = n.store.vote /\ r.log = n.store.log
           /\ r.commit = n.applied /\ r.snapshot = n.store.snapshot
           /\ d.running /\ d.raw.role = p.role /\ d.raw.term = p.term /\ d.raw.log = p.log
           /\ d.raw.progress = p.progress /\ d.raw.votes = p.votes
           /\ d.store.term = p.term /\ d.store.vote = p.vote /\ d.store.log = p.log
           /\ d.applied = p.commit
<1>1. n.running /\ Worked(id, r, m, q) /\ Drained(p, d)
  BY DEF Calls
<1>2. r \in RawState
  BY DEF NodeOK, NodeState
<1>3. p \in RawState
  BY <1>1, OutcomeIs DEF Worked
<1>4. /\ r.term = n.store.term /\ r.vote = n.store.vote /\ r.log = n.store.log
      /\ r.commit = n.applied /\ r.snapshot = n.store.snapshot
  BY <1>1 DEF NodeOK, OnDisk, Stored
<1>5. /\ d.running /\ d.raw.role = p.role /\ d.raw.term = p.term /\ d.raw.log = p.log
      /\ d.raw.progress = p.progress /\ d.raw.votes = p.votes
      /\ d.store.term = p.term /\ d.store.vote = p.vote /\ d.store.log = p.log
      /\ d.applied = p.commit
  BY <1>1 DEF Drained, OnDisk, Stored
<1> QED
  BY <1>1, <1>2, <1>3, <1>4, <1>5

\* What a node may do in a step.
LEMMA NodeMovesSo ==
    ASSUME NodesOK, NEW ns, NEW sent, Acts(ns, sent), NEW id \in Nodes
    PROVE  /\ NodeOK(id, nodes[id]) /\ NodeOK(id, ns[id])
           /\ \/ ns[id] = nodes[id]
              \/ Crashed(nodes[id], ns[id])
              \/ Restarted(nodes[id], ns[id])
              \/ \E m, q : Input(id, m) /\ Calls(id, nodes[id], m, ns[id], q)
<1>1. NodeOK(id, nodes[id]) /\ Moves(ns, id)
  BY DEF NodesOK, Acts
<1>2. CASE ns[id] = nodes[id]
  BY <1>1, <1>2
<1>3. CASE NodeOK(id, ns[id]) /\ (Crashed(nodes[id], ns[id]) \/ Restarted(nodes[id], ns[id]))
  BY <1>1, <1>3
<1>4. CASE \E m, q : Input(id, m) /\ Calls(id, nodes[id], m, ns[id], q)
  BY <1>1, <1>4 DEF Calls
<1> QED
  BY <1>1, <1>2, <1>3, <1>4 DEF Moves

\* The nodes stay consistent in every call, crash and restart.
LEMMA NodesStayOK ==
    ASSUME NodesOK, NEW sent, Acts(nodes', sent)
    PROVE  NodesOK'
<1>1. nodes' \in [Nodes -> NodeState]
  BY DEF Acts
<1>2. \A id \in Nodes : NodeOK(id, nodes'[id])
  BY NodeMovesSo
<1> QED
  BY <1>1, <1>2 DEF NodesOK

\* A message of the network is an old one, or one a node has just sent.
LEMMA MessagesCome ==
    ASSUME NodesOK, NEW sent, Acts(nodes', sent), network' = network \cup sent, NEW x \in Payloads'
    PROVE  \/ x \in Payloads
           \/ \E id \in Nodes : \E m, q : /\ Input(id, m) /\ Calls(id, nodes[id], m, nodes'[id], q)
                                          /\ x \in q.out
<1>1. PICK e \in network' : x = e.payload
  BY DEF Payloads
<1>2. CASE e \in network
  BY <1>1, <1>2 DEF Payloads
<1>3. CASE e \in sent
  <2>1. Sent(nodes', e)
    BY <1>3 DEF Acts
  <2> QED
    BY <1>1, <2>1 DEF Sent
<1> QED
  BY <1>1, <1>2, <1>3

\* What a call has sent.
LEMMA CallSends ==
    ASSUME NEW id, NEW n, NEW m, NEW d, NEW q, Calls(id, n, m, d, q), NEW x \in q.out,
           NEW r, r = n.raw, NEW p, p = q.raw
    PROVE  \/ x.type = "MsgProp" /\ m.type = "MsgProp" /\ x.from = m.from /\ x.entries = m.entries
           \/ /\ x.from = id /\ x.term = p.term
              /\ \/ x.type = "MsgHeartbeatResp"
                 \/ /\ x.type = "MsgVote" /\ p.role = "candidate" /\ x.to # id
                    /\ x.index = LastIndex(p) /\ x.logTerm = LastTerm(p)
                 \/ /\ x.type = "MsgVoteResp" /\ m.type = "MsgVote" /\ x.to = m.from
                    /\ m.term = p.term
                    /\ (~x.reject => p.vote = x.to /\ p.log = r.log /\ UpToDate(p, m))
                 \/ p.role = "leader" /\ Replicates(id, p, x)
                 \/ /\ p.role = "leader" /\ r.role = "leader" /\ x.type = "MsgHeartbeat"
                    /\ x.commit = MinOf(p.progress[x.to].match, p.commit)
                 \/ /\ x.type = "MsgAppResp"
                    /\ (~x.reject => x.to = m.from /\ Acknowledges(r, m, p, x.index))
<1>1. Sends(id, r, m, q)
  BY DEF Calls, Worked
<1> QED
  BY <1>1 DEF Sends

\* The messages stay well formed.
LEMMA MessagesStayOK ==
    ASSUME NodesOK, MessagesOK, NEW sent, Acts(nodes', sent), network' = network \cup sent
    PROVE  MessagesOK'
<1>1. network' \subseteq Envelope
  BY DEF MessagesOK, Acts, Sent
<1>2. ASSUME NEW x \in Payloads'
      PROVE  /\ x.type = "MsgProp" => x.entries # <<>>
             /\ x.type \in {"MsgVote", "MsgVoteResp"} => x.from # x.to
  <2>1. CASE x \in Payloads
    BY <2>1 DEF MessagesOK
  <2>2. CASE \E id \in Nodes : \E m, q : /\ Input(id, m) /\ Calls(id, nodes[id], m, nodes'[id], q)
                                         /\ x \in q.out
    <3>1. PICK id \in Nodes : \E m, q : /\ Input(id, m) /\ Calls(id, nodes[id], m, nodes'[id], q)
                                        /\ x \in q.out
      BY <2>2
    <3>2. PICK m, q : Input(id, m) /\ Calls(id, nodes[id], m, nodes'[id], q) /\ x \in q.out
      BY <3>1
    <3>3. PICK r, p : r = nodes[id].raw /\ p = q.raw
      OBVIOUS
    <3>4. m.type = "MsgProp" => m.entries # <<>>
      BY <3>2 DEF Input, Hup
    <3>5. m.type = "MsgVote" => m.from # id
      BY <3>2 DEF Input, Hup, MessagesOK
    <3>6. \/ x.type = "MsgProp" /\ m.type = "MsgProp" /\ x.from = m.from /\ x.entries = m.entries
          \/ x.from = id /\ x.type \in {"MsgHeartbeatResp", "MsgApp", "MsgSnap", "MsgHeartbeat", "MsgAppResp"}
          \/ x.from = id /\ x.type = "MsgVote" /\ x.to # id
          \/ x.from = id /\ x.type = "MsgVoteResp" /\ m.type = "MsgVote" /\ x.to = m.from
      BY <3>2, <3>3, CallSends DEF Replicates
    <3> QED
      BY <3>4, <3>5, <3>6
  <2> QED
    BY <2>1, <2>2, MessagesCome
<1> QED
  BY <1>1, <1>2 DEF MessagesOK

\* The term of a node never goes back.
LEMMA TermsRise ==
    ASSUME NodesOK, NEW ns, NEW sent, Acts(ns, sent), NEW id \in Nodes
    PROVE  /\ nodes[id].store.term \in Nat /\ ns[id].store.term \in Nat
           /\ nodes[id].store.term <= ns[id].store.term
           /\ ns[id].store.term = nodes[id].store.term /\ nodes[id].store.vote # None
                => ns[id].store.vote = nodes[id].store.vote
<1>1. PICK n, d : n = nodes[id] /\ d = ns[id]
  OBVIOUS
<1>2. /\ NodeOK(id, n) /\ NodeOK(id, d)
      /\ \/ d = n
         \/ Crashed(n, d)
         \/ Restarted(n, d)
         \/ \E m, q : Input(id, m) /\ Calls(id, n, m, d, q)
  BY <1>1, NodeMovesSo
<1>3. n.store.term \in Nat /\ d.store.term \in Nat
  BY <1>2 DEF NodeOK, NodeState, StoreState
<1>4. CASE d = n \/ Crashed(n, d) \/ Restarted(n, d)
  <2>1. d.store.term = n.store.term /\ d.store.vote = n.store.vote
    BY <1>4 DEF Crashed, Restarted
  <2> QED
    BY <1>1, <1>3, <2>1
<1>5. CASE \E m, q : Input(id, m) /\ Calls(id, n, m, d, q)
  <2>1. PICK m, q : Input(id, m) /\ Calls(id, n, m, d, q)
    BY <1>5
  <2>2. PICK r, p : r = n.raw /\ p = q.raw
    OBVIOUS
  <2>3. /\ Worked(id, r, m, q) /\ r.term = n.store.term /\ r.vote = n.store.vote
        /\ d.store.term = p.term /\ d.store.vote = p.vote
    BY <1>2, <2>1, <2>2, CallIs
  <2>4. r.term <= p.term /\ (p.term = r.term /\ r.vote # None => p.vote = r.vote)
    BY <2>2, <2>3 DEF Worked, VoteKept
  <2> QED
    BY <1>1, <1>3, <2>3, <2>4
<1> QED
  BY <1>2, <1>4, <1>5

----------------------------------------------------------------------------
(* Votes.                                                                  *)

Granted(m) == m.type = "MsgVoteResp" /\ ~m.reject

\* A vote a node has answered for is the one it has on disk, until its term is
\* over.
VoteOnDisk(m) ==
    /\ m.term <= nodes[m.from].store.term
    /\ m.term = nodes[m.from].store.term => nodes[m.from].store.vote = m.to

VotesOnDisk == \A m \in Payloads : Granted(m) => VoteOnDisk(m)

\* A vote that comes in a step is on disk by the end of it.
LEMMA VoteComes ==
    ASSUME NodesOK, MessagesOK, NEW sent, Acts(nodes', sent), network' = network \cup sent,
           NEW x \in Payloads', x \notin Payloads, Granted(x)
    PROVE  /\ x.from \in Nodes /\ x.to \in Nodes
           /\ x.term = nodes'[x.from].store.term /\ nodes'[x.from].store.vote = x.to
<1>1. PICK id \in Nodes : \E m, q : /\ Input(id, m) /\ Calls(id, nodes[id], m, nodes'[id], q)
                                    /\ x \in q.out
  BY MessagesCome
<1>2. PICK m, q : Input(id, m) /\ Calls(id, nodes[id], m, nodes'[id], q) /\ x \in q.out
  BY <1>1
<1>3. PICK r, p : r = nodes[id].raw /\ p = q.raw
  OBVIOUS
<1>4. x.type = "MsgVoteResp" /\ ~x.reject
  BY DEF Granted
<1>5. x.from = id /\ x.term = p.term /\ p.vote = x.to
  BY <1>2, <1>3, <1>4, CallSends DEF Replicates
<1>6. NodeOK(id, nodes[id])
  BY DEF NodesOK
<1>7. nodes'[id].store.term = p.term /\ nodes'[id].store.vote = p.vote
  BY <1>2, <1>3, <1>6, CallIs
<1>8. MessagesOK'
  BY MessagesStayOK
<1>9. x.to \in Nodes
  BY <1>8 DEF MessagesOK, Payloads, Envelope, Message
<1> QED
  BY <1>5, <1>7, <1>9

\* A vote is on disk before the message that tells of it is in the network.
LEMMA VotesStayOnDisk ==
    ASSUME NodesOK, MessagesOK, VotesOnDisk, NEW sent, Acts(nodes', sent), network' = network \cup sent
    PROVE  VotesOnDisk'
<1> SUFFICES ASSUME NEW x \in Payloads', Granted(x)
             PROVE  VoteOnDisk(x)'
  BY DEF VotesOnDisk, Granted
<1>1. CASE x \in Payloads
  <2>1. /\ x.from \in Nodes /\ x.to \in Nodes /\ x.term \in Nat
    BY <1>1 DEF MessagesOK, Payloads, Envelope, Message
  <2>2. VoteOnDisk(x)
    BY <1>1 DEF VotesOnDisk
  <2>3. PICK id, n, d : id = x.from /\ n = nodes[id] /\ d = nodes'[id]
    OBVIOUS
  <2>4. /\ n.store.term \in Nat /\ d.store.term \in Nat /\ n.store.term <= d.store.term
        /\ d.store.term = n.store.term /\ n.store.vote # None => d.store.vote = n.store.vote
    BY <2>1, <2>3, TermsRise
  <2>5. x.term <= n.store.term /\ (x.term = n.store.term => n.store.vote = x.to)
    BY <2>2, <2>3 DEF VoteOnDisk
  <2>6. x.to # None
    BY <2>1, VotersAssumption
  <2>7. x.term <= d.store.term /\ (x.term = d.store.term => d.store.vote = x.to)
    BY <2>1, <2>4, <2>5, <2>6
  <2> QED
    BY <2>3, <2>7 DEF VoteOnDisk
<1>2. CASE x \notin Payloads
  <2>1. /\ x.from \in Nodes /\ x.term = nodes'[x.from].store.term /\ nodes'[x.from].store.vote = x.to
    BY <1>2, VoteComes
  <2>2. nodes'[x.from].store.term \in Nat
    BY <2>1, TermsRise
  <2> QED
    BY <2>1, <2>2 DEF VoteOnDisk
<1> QED
  BY <1>1, <1>2

VotesOnce ==
    \A a, b \in Payloads : Granted(a) /\ Granted(b) /\ a.from = b.from /\ a.term = b.term => a.to = b.to

\* One vote per term, told by the messages of the network.
LEMMA VotesOnceIs == VotesOnce => OneVotePerTerm
<1> SUFFICES ASSUME VotesOnce PROVE OneVotePerTerm
  OBVIOUS
<1>1. PICK grants : grants = {e.payload : e \in {f \in network : f.payload.type = "MsgVoteResp" /\ ~f.payload.reject}}
  OBVIOUS
<1>2. \A a \in grants : a \in Payloads /\ Granted(a)
  BY <1>1 DEF Payloads, Granted
<1>3. \A a, b \in grants : a.from = b.from /\ a.term = b.term => a.to = b.to
  BY <1>2 DEF VotesOnce
<1> QED
  BY <1>1, <1>3 DEF OneVotePerTerm

\* No call makes a node vote twice in a term, over crashes and restarts.
LEMMA VotesStayOnce ==
    ASSUME NodesOK, MessagesOK, VotesOnDisk, VotesOnce, NEW sent, Acts(nodes', sent),
           network' = network \cup sent
    PROVE  VotesOnce'
<1>1. VotesOnDisk'
  BY VotesStayOnDisk
<1> SUFFICES ASSUME NEW a \in Payloads', NEW b \in Payloads', Granted(a), Granted(b),
                    a.from = b.from, a.term = b.term
             PROVE  a.to = b.to
  BY DEF VotesOnce, Granted
<1>2. CASE a \in Payloads /\ b \in Payloads
  BY <1>2 DEF VotesOnce
<1>3. ASSUME NEW x \in Payloads', NEW y \in Payloads', Granted(x), Granted(y),
             x.from = y.from, x.term = y.term, x \notin Payloads
      PROVE  x.to = y.to
  <2>1. x.term = nodes'[x.from].store.term /\ nodes'[x.from].store.vote = x.to
    BY <1>3, VoteComes
  <2>2. y.term = nodes'[y.from].store.term => nodes'[y.from].store.vote = y.to
    BY <1>1, <1>3 DEF VotesOnDisk, VoteOnDisk, Granted
  <2> QED
    BY <1>3, <2>1, <2>2
<1> QED
  BY <1>2, <1>3

----------------------------------------------------------------------------
(* What is applied stays.                                                  *)

\* Two sequences agree up to an index both have.
Agree(a, b, k) == k <= Len(a) /\ k <= Len(b) /\ \A j \in 1..k : a[j] = b[j]

\* What a node has on disk, entry by entry.
LEMMA StoredIs ==
    ASSUME NEW id, NEW n, NodeOK(id, n)
    PROVE  /\ n.applied \in Nat /\ n.store.log \in Seq(Entry) /\ Len(n.store.log) \in Nat
           /\ n.applied <= Len(n.store.log) /\ n.prefixDigests \in Seq(Entry)
           /\ Len(n.prefixDigests) = n.applied
           /\ \A j \in 1..n.applied : n.prefixDigests[j] = n.store.log[j]
           /\ n.store.snapshot \in Seq(Entry) /\ n.lastSnapshotIndex \in Nat
           /\ Len(n.store.snapshot) = n.lastSnapshotIndex /\ n.lastSnapshotIndex <= n.applied
           /\ \A j \in 1..n.lastSnapshotIndex : n.store.snapshot[j] = n.prefixDigests[j]
<1>1. PICK log, applied, digests, last, snapshot :
         /\ log = n.store.log /\ applied = n.applied /\ digests = n.prefixDigests
         /\ last = n.lastSnapshotIndex /\ snapshot = n.store.snapshot
  OBVIOUS
<1>2. n \in NodeState /\ n.store \in StoreState
  BY DEF NodeOK, NodeState
<1>3. applied \in Nat /\ last \in Nat /\ log \in Seq(Entry)
  BY <1>1, <1>2 DEF NodeState, StoreState
<1>4. /\ applied <= Len(log) /\ digests = SubSeq(log, 1, applied) /\ last <= applied
      /\ snapshot = SubSeq(digests, 1, last)
  BY <1>1 DEF NodeOK, Stored
<1>5. Len(log) \in Nat /\ applied \in 0..Len(log)
  BY <1>3, <1>4
<1>6. digests \in Seq(Entry) /\ Len(digests) = applied /\ \A j \in 1..applied : digests[j] = log[j]
  BY <1>3, <1>4, <1>5, PrefixIs
<1>7. last \in 0..Len(digests)
  BY <1>3, <1>4, <1>6
<1>8. snapshot \in Seq(Entry) /\ Len(snapshot) = last /\ \A j \in 1..last : snapshot[j] = digests[j]
  BY <1>4, <1>6, <1>7, PrefixIs
<1> QED
  BY <1>1, <1>3, <1>4, <1>5, <1>6, <1>8

\* What one node has committed is what any other has, and a snapshot is what
\* its sender has committed.
PrefixesAgree ==
    \A a, b \in Nodes :
        nodes[a].applied <= nodes[b].applied
            => Agree(nodes[a].prefixDigests, nodes[b].prefixDigests, nodes[a].applied)

Snapped ==
    \A m \in Payloads :
        m.type = "MsgSnap" => Agree(m.snapshot, nodes[m.from].prefixDigests, Len(m.snapshot))

\* Node d has applied all that n has.
Extends(n, d) == n.applied <= d.applied /\ Agree(n.prefixDigests, d.prefixDigests, n.applied)

\* What a node has applied is a prefix of what it has applied after any call.
LEMMA AppliedExtends ==
    ASSUME NodesOK, MessagesOK, PrefixesAgree, Snapped, NEW ns, NEW sent, Acts(ns, sent), NEW id \in Nodes
    PROVE  Extends(nodes[id], ns[id])
<1>1. PICK n, d : n = nodes[id] /\ d = ns[id]
  OBVIOUS
<1>2. /\ NodeOK(id, n) /\ NodeOK(id, d)
      /\ \/ d = n
         \/ Crashed(n, d)
         \/ Restarted(n, d)
         \/ \E m, q : Input(id, m) /\ Calls(id, n, m, d, q)
  BY <1>1, NodeMovesSo
<1>3. /\ n.applied \in Nat /\ n.store.log \in Seq(Entry) /\ Len(n.store.log) \in Nat
      /\ n.applied <= Len(n.store.log) /\ Len(n.prefixDigests) = n.applied
      /\ \A j \in 1..n.applied : n.prefixDigests[j] = n.store.log[j]
  BY <1>2, StoredIs
<1>4. /\ d.applied \in Nat /\ d.store.log \in Seq(Entry) /\ Len(d.store.log) \in Nat
      /\ d.applied <= Len(d.store.log) /\ Len(d.prefixDigests) = d.applied
      /\ \A j \in 1..d.applied : d.prefixDigests[j] = d.store.log[j]
  BY <1>2, StoredIs
<1>5. SUFFICES n.applied <= d.applied /\ \A j \in 1..n.applied : d.store.log[j] = n.prefixDigests[j]
  BY <1>1, <1>3, <1>4 DEF Extends, Agree
<1>6. CASE d = n \/ Crashed(n, d) \/ Restarted(n, d)
  <2>1. d.store.log = n.store.log /\ d.store.commit = n.store.commit
    BY <1>6 DEF Crashed, Restarted
  <2>2. d.applied = n.applied
    BY <1>2, <2>1 DEF NodeOK, Stored
  <2> QED
    BY <1>3, <2>1, <2>2
<1>7. CASE \E m, q : Input(id, m) /\ Calls(id, n, m, d, q)
  <2>1. PICK m, q : Input(id, m) /\ Calls(id, n, m, d, q)
    BY <1>7
  <2>2. PICK r, p : r = n.raw /\ p = q.raw
    OBVIOUS
  <2>3. /\ r \in RawState /\ p \in RawState /\ Worked(id, r, m, q)
        /\ r.log = n.store.log /\ r.commit = n.applied /\ d.store.log = p.log
        /\ d.applied = p.commit
    BY <1>2, <2>1, <2>2, CallIs
  <2>4. StorageComes(r, m, p) /\ CommitComes(id, r, m, p)
    BY <2>2, <2>3 DEF Worked
  <2>5. r.commit <= p.commit
    <3>1. r.commit \in Nat /\ p.commit \in Nat
      BY <2>3 DEF RawState
    <3>2. p.commit = r.commit \/ p.commit > r.commit
      BY <2>4 DEF CommitComes
    <3> QED
      BY <3>1, <3>2
  <2>6. m = Hup \/ m \in Message
    BY <2>1 DEF Input
  <2>7. CASE ~p.restored
    <3>1. LogComes(r, m, p)
      BY <2>4, <2>7 DEF StorageComes
    <3>2. \A j \in 1..r.commit : p.log[j] = r.log[j]
      BY <1>3, <2>3, <2>6, <3>1, LogKept
    <3> QED
      BY <1>3, <2>3, <2>5, <3>2
  <2>8. CASE p.restored
    <3>1. m.type = "MsgSnap" /\ Len(m.snapshot) > r.commit /\ p.log = m.snapshot
      BY <2>4, <2>8 DEF StorageComes, Restores
    <3>2. m \in Payloads
      BY <2>1, <3>1 DEF Input, Hup
    <3>3. m.from \in Nodes
      BY <3>2 DEF MessagesOK, Payloads, Envelope, Message
    <3>4. PICK o : o = nodes[m.from]
      OBVIOUS
    <3>5. Agree(m.snapshot, o.prefixDigests, Len(m.snapshot))
      BY <3>1, <3>2, <3>4 DEF Snapped
    <3>6. NodeOK(m.from, o)
      BY <3>3, <3>4 DEF NodesOK
    <3>7. o.applied \in Nat /\ Len(o.prefixDigests) = o.applied
      BY <3>6, StoredIs
    <3>8. Len(m.snapshot) \in Nat
      BY <1>4, <2>3, <3>1
    <3>9. n.applied <= o.applied /\ n.applied <= Len(m.snapshot)
      BY <1>3, <2>3, <3>1, <3>5, <3>7, <3>8 DEF Agree
    <3>10. \A j \in 1..n.applied : n.prefixDigests[j] = o.prefixDigests[j]
      BY <1>1, <3>3, <3>4, <3>9 DEF PrefixesAgree, Agree
    <3>11. \A j \in 1..Len(m.snapshot) : m.snapshot[j] = o.prefixDigests[j]
      BY <3>5 DEF Agree
    <3>12. \A j \in 1..n.applied : j \in 1..Len(m.snapshot)
      BY <1>3, <3>8, <3>9
    <3> QED
      BY <2>3, <2>5, <3>1, <3>10, <3>11, <3>12
  <2> QED
    BY <2>7, <2>8
<1> QED
  BY <1>2, <1>6, <1>7

\* The oracle sees every committed prefix.
LEMMA PrefixesSeen ==
    ASSUME NodesOK
    PROVE  PrefixesKept
<1>1. ASSUME NEW id \in Nodes
      PROVE  PrefixAvailable(nodes, Observation(nodes), id)
  <2>1. PICK n, o : n = nodes[id] /\ o = Observation(nodes)[id]
    OBVIOUS
  <2>2. NodeOK(id, n)
    BY <2>1 DEF NodesOK
  <2>3. o.commit = n.applied
    <3>1. o = Observe(n)
      BY <2>1 DEF Observation
    <3>2. o.commit = IF n.running THEN n.raw.commit ELSE n.store.commit
      BY <3>1 DEF Observe
    <3> QED
      BY <2>2, <3>2 DEF NodeOK, OnDisk, Stored
  <2>4. Len(n.prefixDigests) = n.applied
    BY <2>2, StoredIs
  <2> QED
    BY <2>1, <2>3, <2>4 DEF PrefixAvailable
<1>2. EveryPrefixCompared
  BY <1>1 DEF EveryPrefixCompared
<1>3. ASSUME NEW id \in Nodes, NEW n, n = nodes[id]
      PROVE  /\ n.store.snapshot = SubSeq(n.prefixDigests, 1, n.lastSnapshotIndex)
             /\ n.store.first <= Len(n.store.snapshot) + 1
             /\ SubSeq(n.store.log, 1, n.applied) = SubSeq(n.prefixDigests, 1, n.applied)
  <2>1. NodeOK(id, n)
    BY <1>3 DEF NodesOK
  <2>2. /\ n.store.snapshot = SubSeq(n.prefixDigests, 1, n.lastSnapshotIndex)
        /\ n.store.first <= n.lastSnapshotIndex + 1
        /\ n.prefixDigests = SubSeq(n.store.log, 1, n.applied)
    BY <2>1 DEF NodeOK, Stored
  <2>3. /\ Len(n.store.snapshot) = n.lastSnapshotIndex /\ Len(n.prefixDigests) = n.applied
        /\ n.prefixDigests \in Seq(Entry)
    BY <2>1, StoredIs
  <2>4. SubSeq(n.prefixDigests, 1, n.applied) = n.prefixDigests
    BY <2>3, PrefixWhole
  <2> QED
    BY <2>2, <2>3, <2>4
<1>4. CompactedIsCovered
  BY <1>3 DEF CompactedIsCovered
<1> QED
  BY <1>2, <1>4 DEF PrefixesKept

\* What the oracle reports as no conflict is none.
LEMMA NoConflictFound ==
    ASSUME NodesOK, PrefixFindings(nodes, Observation(nodes)) = {}
    PROVE  PrefixesAgree
<1> SUFFICES ASSUME NEW a \in Nodes, NEW b \in Nodes, nodes[a].applied <= nodes[b].applied
             PROVE  Agree(nodes[a].prefixDigests, nodes[b].prefixDigests, nodes[a].applied)
  BY DEF PrefixesAgree
<1>1. ASSUME NEW id \in Nodes
      PROVE  /\ Observation(nodes)[id].commit = nodes[id].applied
             /\ PrefixAvailable(nodes, Observation(nodes), id)
             /\ nodes[id].applied \in Nat /\ nodes[id].prefixDigests \in Seq(Entry)
             /\ Len(nodes[id].prefixDigests) = nodes[id].applied
  <2>1. PICK n, o : n = nodes[id] /\ o = Observation(nodes)[id]
    OBVIOUS
  <2>2. NodeOK(id, n)
    BY <2>1 DEF NodesOK
  <2>3. o.commit = n.applied
    <3>1. o = Observe(n)
      BY <2>1 DEF Observation
    <3>2. o.commit = IF n.running THEN n.raw.commit ELSE n.store.commit
      BY <3>1 DEF Observe
    <3> QED
      BY <2>2, <3>2 DEF NodeOK, OnDisk, Stored
  <2>4. PrefixAvailable(nodes, Observation(nodes), id)
    BY PrefixesSeen DEF PrefixesKept, EveryPrefixCompared
  <2> QED
    BY <2>1, <2>2, <2>3, <2>4, StoredIs
<1>2. PICK k, x, y : k = nodes[a].applied /\ x = nodes[a].prefixDigests /\ y = nodes[b].prefixDigests
  OBVIOUS
<1>3. k \in Nat /\ x \in Seq(Entry) /\ y \in Seq(Entry) /\ k <= Len(x) /\ k <= Len(y)
  BY <1>1, <1>2
<1>4. CASE k = 0
  BY <1>2, <1>3, <1>4 DEF Agree
<1>5. CASE k # 0
  <2>1. PICK o : o = Observation(nodes)
    OBVIOUS
  <2>2. /\ 0 < o[a].commit /\ o[a].commit <= o[b].commit /\ o[a].commit = k
        /\ PrefixAvailable(nodes, o, a) /\ PrefixAvailable(nodes, o, b)
    BY <1>1, <1>2, <1>3, <1>5, <2>1
  <2>3. CommittedPrefix(nodes, a, o[a].commit) = CommittedPrefix(nodes, b, o[a].commit)
    <3>1. SUFFICES ASSUME CommittedPrefix(nodes, a, o[a].commit) # CommittedPrefix(nodes, b, o[a].commit)
                   PROVE  FALSE
      OBVIOUS
    <3>2. PICK exposed : exposed = {id \in Nodes : PrefixAvailable(nodes, o, id)}
      OBVIOUS
    <3>3. PICK pairs : pairs = {p \in exposed \X exposed : 0 < o[p[1]].commit /\ o[p[1]].commit <= o[p[2]].commit}
      OBVIOUS
    <3>4. <<a, b>> \in pairs
      BY <2>2, <3>2, <3>3
    <3>5. \E p \in pairs : CommittedPrefix(nodes, p[1], o[p[1]].commit)
                             # CommittedPrefix(nodes, p[2], o[p[1]].commit)
      BY <3>1, <3>4
    <3>6. PrefixFindings(nodes, o)
            = Found(\E p \in pairs : CommittedPrefix(nodes, p[1], o[p[1]].commit)
                                       # CommittedPrefix(nodes, p[2], o[p[1]].commit),
                    "committed_log_conflict")
      BY <3>2, <3>3, Zenon DEF PrefixFindings
    <3>7. PrefixFindings(nodes, o) # {}
      BY <3>5, <3>6 DEF Found
    <3> QED
      BY <2>1, <3>7
  <2>4. SubSeq(x, 1, k) = SubSeq(y, 1, k)
    BY <1>2, <2>2, <2>3 DEF CommittedPrefix
  <2>5. k \in 0..Len(x) /\ k \in 0..Len(y)
    BY <1>3
  <2>6. \A j \in 1..k : SubSeq(x, 1, k)[j] = x[j]
    BY <1>3, <2>5, PrefixIs
  <2>7. \A j \in 1..k : SubSeq(y, 1, k)[j] = y[j]
    BY <1>3, <2>5, PrefixIs
  <2> QED
    BY <1>2, <1>3, <2>4, <2>6, <2>7 DEF Agree
<1> QED
  BY <1>4, <1>5

----------------------------------------------------------------------------
(* Leaders.                                                                *)

Leads(n, t) == n.running /\ n.raw.role = "leader" /\ n.raw.term = t

\* What the oracle knows of the leaders before a step and after it.
LEMMA KnownLeadersAre ==
    ASSUME NEW o, NEW f, f = KnownLeaders(o)
    PROVE  /\ \A t \in DOMAIN leadersByTerm : t \in DOMAIN f /\ f[t] = leadersByTerm[t]
           /\ \A id \in Leading(o) : o[id].term \in DOMAIN f
           /\ \A t \in DOMAIN f : t \in DOMAIN leadersByTerm \/ (f[t] \in Leading(o) /\ o[f[t]].term = t)
<1>1. PICK terms : terms = DOMAIN leadersByTerm \cup {o[id].term : id \in Leading(o)}
  OBVIOUS
<1>2. f = [t \in terms |-> IF t \in DOMAIN leadersByTerm THEN leadersByTerm[t]
                           ELSE CHOOSE id \in Leading(o) : o[id].term = t]
  BY <1>1, Zenon DEF KnownLeaders
<1>3. DOMAIN f = terms
  BY <1>2
<1>4. ASSUME NEW t \in terms, t \notin DOMAIN leadersByTerm
      PROVE  f[t] \in Leading(o) /\ o[f[t]].term = t
  <2>1. \E id \in Leading(o) : o[id].term = t
    BY <1>1, <1>4
  <2>2. f[t] = CHOOSE id \in Leading(o) : o[id].term = t
    BY <1>2, <1>4
  <2> QED
    BY <2>1, <2>2
<1>5. \A t \in DOMAIN leadersByTerm : t \in terms /\ f[t] = leadersByTerm[t]
  BY <1>1, <1>2
<1> QED
  BY <1>1, <1>3, <1>4, <1>5

\* A node is observed to lead when it does.
LEMMA LeadingIs ==
    ASSUME NEW ns, NEW id \in Nodes
    PROVE  /\ id \in Leading(Observation(ns)) <=> ns[id].running /\ ns[id].raw.role = "leader"
           /\ ns[id].running => Observation(ns)[id].term = ns[id].raw.term
<1>1. PICK o, n : o = Observation(ns) /\ n = ns[id]
  OBVIOUS
<1>2. o[id] = Observe(n)
  BY <1>1 DEF Observation
<1>3. /\ Observe(n).role = IF n.running THEN n.raw.role ELSE "crashed"
      /\ Observe(n).term = IF n.running THEN n.raw.term ELSE n.store.term
  BY DEF Observe
<1>4. id \in Leading(o) <=> o[id].role = "leader"
  BY DEF Leading
<1> QED
  BY <1>1, <1>2, <1>3, <1>4

\* After a step that finds no second leader, every leader is the one known.
LEMMA LeaderIsKnown ==
    ASSUME NEW sent, Executed(sent), NEW id \in Nodes, NEW t, Leads(nodes'[id], t)
    PROVE  /\ t \in DOMAIN leadersByTerm'
           /\ leadersByTerm'[t] # id => "multiple_leaders_same_term" \in findings'
<1>1. PICK o, f : o = Observation(nodes') /\ f = KnownLeaders(o)
  OBVIOUS
<1>2. leadersByTerm' = f
  BY <1>1 DEF Executed
<1>3. id \in Leading(o) /\ o[id].term = t
  BY <1>1, LeadingIs DEF Leads
<1>4. t \in DOMAIN f
  BY <1>1, <1>3, KnownLeadersAre
<1>5. ASSUME f[t] # id
      PROVE  "multiple_leaders_same_term" \in findings'
  <2>1. LeaderFindings(o) = Found(\E p \in Leading(o) : f[o[p].term] # p, "multiple_leaders_same_term")
    BY <1>1, Zenon DEF LeaderFindings
  <2>2. \E p \in Leading(o) : f[o[p].term] # p
    BY <1>3, <1>5
  <2>3. "multiple_leaders_same_term" \in LeaderFindings(o)
    BY <2>1, <2>2 DEF Found
  <2>4. findings' = Check(Observation(nodes), o, nodes')
    BY <1>1 DEF Executed
  <2>5. PICK x : x = UNION {MonotonicFindings(Observation(nodes)[p], o[p]) \cup NodeFindings(o[p]) : p \in Nodes}
    OBVIOUS
  <2>6. findings' = x \cup LeaderFindings(o) \cup PrefixFindings(nodes', o)
    BY <2>4, <2>5, Zenon DEF Check
  <2> QED
    BY <2>3, <2>6
<1> QED
  BY <1>2, <1>4, <1>5

\* Terms have one leader, which the oracle knows, and only it sends what leaders
\* send.
Led ==
    /\ \A t \in DOMAIN leadersByTerm :
           /\ t \in Nat /\ leadersByTerm[t] \in Nodes
           /\ t <= nodes[leadersByTerm[t]].store.term
    /\ \A id \in Nodes : \A t \in Nat :
           Leads(nodes[id], t) => t \in DOMAIN leadersByTerm /\ leadersByTerm[t] = id
    /\ \A id \in Nodes :
           LET n == nodes[id]
           IN  n.running /\ n.raw.role = "candidate" /\ n.raw.term \in DOMAIN leadersByTerm
                   => leadersByTerm[n.raw.term] # id
    /\ \A m \in Payloads :
           m.type \in FromLeader => m.term \in DOMAIN leadersByTerm /\ leadersByTerm[m.term] = m.from

\* A message a leader sends in a step is one of the leader after it.
LEMMA LeaderSends ==
    ASSUME NodesOK, NEW sent, Acts(nodes', sent), network' = network \cup sent,
           NEW x \in Payloads', x \notin Payloads, x.type \in FromLeader
    PROVE  x.from \in Nodes /\ Leads(nodes'[x.from], x.term) /\ x.term \in Nat
<1>1. PICK id \in Nodes : \E m, q : /\ Input(id, m) /\ Calls(id, nodes[id], m, nodes'[id], q)
                                    /\ x \in q.out
  BY MessagesCome
<1>2. PICK m, q : Input(id, m) /\ Calls(id, nodes[id], m, nodes'[id], q) /\ x \in q.out
  BY <1>1
<1>3. PICK r, p : r = nodes[id].raw /\ p = q.raw
  OBVIOUS
<1>4. x.from = id /\ x.term = p.term /\ p.role = "leader"
  BY <1>2, <1>3, CallSends DEF FromLeader
<1>5. NodeOK(id, nodes[id])
  BY DEF NodesOK
<1>6. /\ nodes'[id].running /\ nodes'[id].raw.role = p.role /\ nodes'[id].raw.term = p.term
      /\ p \in RawState
  BY <1>2, <1>3, <1>5, CallIs
<1>7. p.term \in Nat
  BY <1>6 DEF RawState
<1> QED
  BY <1>4, <1>6, <1>7 DEF Leads

\* The role of a node after a step.
LEMMA RolesCome ==
    ASSUME NodesOK, NEW ns, NEW sent, Acts(ns, sent), NEW id \in Nodes, NEW n, n = nodes[id],
           NEW d, d = ns[id], d.running
    PROVE  /\ d.raw.role = "leader" => /\ n.running /\ n.raw.role \in {"leader", "candidate"}
                                       /\ n.raw.term = d.raw.term
           /\ d.raw.role = "candidate" => \/ /\ n.running /\ n.raw.role = "candidate"
                                             /\ n.raw.term = d.raw.term
                                          \/ d.raw.term = n.store.term + 1
           /\ n.running /\ n.raw.role = "leader" /\ d.raw.term = n.raw.term => d.raw.role = "leader" \/ d.epoch # n.epoch
           /\ d.raw.term = d.store.term /\ d.raw.term \in Nat
<1>1. /\ NodeOK(id, n) /\ NodeOK(id, d)
      /\ \/ d = n
         \/ Crashed(n, d)
         \/ Restarted(n, d)
         \/ \E m, q : Input(id, m) /\ Calls(id, n, m, d, q)
  BY NodeMovesSo
<1>2. d.raw.term = d.store.term
  BY <1>1 DEF NodeOK, OnDisk
<1>3. d.raw.term \in Nat
  BY <1>1, <1>2 DEF NodeOK, NodeState, StoreState
<1>4. CASE d = n
  BY <1>2, <1>3, <1>4
<1>5. CASE Crashed(n, d)
  BY <1>5 DEF Crashed
<1>6. CASE Restarted(n, d)
  BY <1>2, <1>3, <1>6 DEF Restarted
<1>7. CASE \E m, q : Input(id, m) /\ Calls(id, n, m, d, q)
  <2>1. PICK m, q : Input(id, m) /\ Calls(id, n, m, d, q)
    BY <1>7
  <2>2. PICK r, p : r = n.raw /\ p = q.raw
    OBVIOUS
  <2>3. /\ Worked(id, r, m, q) /\ r.term = n.store.term /\ d.raw.role = p.role /\ d.raw.term = p.term
    BY <1>1, <2>1, <2>2, CallIs
  <2>4. RoleGoes(id, r, m, p)
    BY <2>2, <2>3 DEF Worked
  <2>5. n.running
    BY <2>1 DEF Calls
  <2> QED
    BY <1>2, <1>3, <2>2, <2>3, <2>4, <2>5 DEF RoleGoes, Campaigns
<1> QED
  BY <1>1, <1>4, <1>5, <1>6, <1>7

\* An oracle that reports no two leaders has seen every leader of every term.
LEMMA LedStays ==
    ASSUME NodesOK, MessagesOK, Led, NEW sent, Executed(sent),
           "multiple_leaders_same_term" \notin findings'
    PROVE  Led'
<1>1. PICK o, f : o = Observation(nodes') /\ f = KnownLeaders(o)
  OBVIOUS
<1>2. f = leadersByTerm' /\ Acts(nodes', sent) /\ network' = network \cup sent
  BY <1>1 DEF Executed
<1>3. /\ \A t \in DOMAIN leadersByTerm : t \in DOMAIN f /\ f[t] = leadersByTerm[t]
      /\ \A t \in DOMAIN f : t \in DOMAIN leadersByTerm \/ (f[t] \in Leading(o) /\ o[f[t]].term = t)
  BY <1>1, KnownLeadersAre
<1>4. ASSUME NEW id \in Nodes, NEW t \in Nat, Leads(nodes'[id], t)
      PROVE  t \in DOMAIN f /\ f[t] = id
  BY <1>2, <1>4, LeaderIsKnown
<1>5. ASSUME NEW t \in DOMAIN f, t \notin DOMAIN leadersByTerm
      PROVE  f[t] \in Nodes /\ Leads(nodes'[f[t]], t)
  <2>1. PICK id : id = f[t]
    OBVIOUS
  <2>2. id \in Leading(o) /\ o[id].term = t
    BY <1>3, <1>5, <2>1
  <2>3. id \in Nodes
    BY <2>2 DEF Leading
  <2> QED
    BY <1>1, <2>1, <2>2, <2>3, LeadingIs DEF Leads
<1>6. ASSUME NEW t \in DOMAIN f
      PROVE  t \in Nat /\ f[t] \in Nodes /\ t <= nodes'[f[t]].store.term
  <2>1. CASE t \in DOMAIN leadersByTerm
    <3>1. PICK id : id = leadersByTerm[t]
      OBVIOUS
    <3>2. t \in Nat /\ id \in Nodes /\ t <= nodes[id].store.term
      BY <2>1, <3>1 DEF Led
    <3>3. /\ nodes[id].store.term \in Nat /\ nodes'[id].store.term \in Nat
          /\ nodes[id].store.term <= nodes'[id].store.term
      BY <1>2, <3>2, TermsRise
    <3>4. f[t] = id
      BY <1>3, <2>1, <3>1
    <3> QED
      BY <3>2, <3>3, <3>4
  <2>2. CASE t \notin DOMAIN leadersByTerm
    <3>1. PICK id : id = f[t]
      OBVIOUS
    <3>2. id \in Nodes /\ Leads(nodes'[id], t)
      BY <1>5, <2>2, <3>1
    <3>3. nodes'[id].raw.term = nodes'[id].store.term /\ nodes'[id].raw.term \in Nat
      BY <1>2, <3>2, RolesCome DEF Leads
    <3> QED
      BY <3>1, <3>2, <3>3 DEF Leads
  <2> QED
    BY <2>1, <2>2
<1>7. ASSUME NEW id \in Nodes, NEW d, d = nodes'[id], d.running, d.raw.role = "candidate",
             d.raw.term \in DOMAIN f
      PROVE  f[d.raw.term] # id
  <2>1. PICK t, n : t = d.raw.term /\ n = nodes[id]
    OBVIOUS
  <2>2. SUFFICES ASSUME f[t] = id PROVE FALSE
    BY <2>1
  <2>3. t \in DOMAIN leadersByTerm
    BY <1>5, <1>7, <2>1, <2>2 DEF Leads
  <2>4. leadersByTerm[t] = id
    BY <1>3, <2>2, <2>3
  <2>5. t <= n.store.term /\ t \in Nat
    BY <2>1, <2>3, <2>4 DEF Led
  <2>6. n.store.term \in Nat
    BY <1>2, <2>1, TermsRise
  <2>7. (n.running /\ n.raw.role = "candidate" /\ n.raw.term = t) \/ t = n.store.term + 1
    BY <1>2, <1>7, <2>1, RolesCome
  <2>8. n.running /\ n.raw.role = "candidate" /\ n.raw.term = t
    BY <2>5, <2>6, <2>7
  <2> QED
    BY <2>1, <2>3, <2>4, <2>8 DEF Led
<1>8. ASSUME NEW x \in Payloads', x.type \in FromLeader
      PROVE  x.term \in DOMAIN f /\ f[x.term] = x.from
  <2>1. CASE x \in Payloads
    BY <1>3, <1>8, <2>1 DEF Led
  <2>2. CASE x \notin Payloads
    BY <1>2, <1>4, <1>8, <2>2, LeaderSends
  <2> QED
    BY <2>1, <2>2
<1> QED
  BY <1>2, <1>4, <1>6, <1>7, <1>8 DEF Led

\* Two leaders of one term are found, by the messages they have sent.
LEMMA LeadersFound ==
    ASSUME NodesOK, MessagesOK, Led, NEW sent, Executed(sent),
           NEW a \in Payloads', NEW b \in Payloads', a.type = "MsgApp", b.type = "MsgApp",
           a.term = b.term, a.from # b.from
    PROVE  "multiple_leaders_same_term" \in findings'
<1>1. Acts(nodes', sent) /\ network' = network \cup sent
  BY DEF Executed
<1>2. SUFFICES ASSUME "multiple_leaders_same_term" \notin findings' PROVE FALSE
  OBVIOUS
<1>3. Led'
  BY <1>2, LedStays
<1>4. leadersByTerm'[a.term] = a.from /\ leadersByTerm'[b.term] = b.from
  BY <1>3 DEF Led, FromLeader
<1> QED
  BY <1>4

----------------------------------------------------------------------------
(* Logs that agree.                                                        *)

\* Agreement up to an index is transitive.
LEMMA AgreeBoth ==
    ASSUME NEW a, NEW b, NEW c, NEW k, Agree(a, b, k), Agree(b, c, k)
    PROVE  Agree(a, c, k)
  BY DEF Agree

\* Agreement up to an index is symmetric.
LEMMA AgreeBack ==
    ASSUME NEW a, NEW b, NEW k, Agree(a, b, k)
    PROVE  Agree(b, a, k)
  BY DEF Agree

\* Agreement up to an index is agreement up to every lower one.
LEMMA AgreeLess ==
    ASSUME NEW a, Len(a) \in Nat, NEW b, Len(b) \in Nat, NEW k \in Nat, Agree(a, b, k), NEW i \in Nat, i <= k
    PROVE  Agree(a, b, i)
<1>1. i <= Len(a) /\ i <= Len(b) /\ 1..i \subseteq 1..k
  BY DEF Agree
<1> QED
  BY <1>1 DEF Agree

\* A log agrees with itself.
LEMMA AgreeWhole ==
    ASSUME NEW a, Len(a) \in Nat
    PROVE  Agree(a, a, Len(a))
  BY DEF Agree

\* L has the log of every leader, to the end of its term.  A log follows it
\* when it is the log of the leader up to each entry of the leader's term.
Follows(l, L) == \A k \in 1..Len(l) : l[k].term \in DOMAIN L /\ Agree(l, L[l[k].term], k)

\* The logs of the leaders grow, and there are more of them.
Grown(L, M) == \A t \in DOMAIN L : t \in DOMAIN M /\ Agree(L[t], M[t], Len(L[t]))

Logs(L) == \A t \in DOMAIN L : L[t] \in Seq(Entry)

\* What agrees with a leader's log agrees with it once it has grown.
LEMMA AgreeGrown ==
    ASSUME NEW l, Len(l) \in Nat, NEW L, Logs(L), NEW M, Logs(M), Grown(L, M), NEW t \in DOMAIN L,
           NEW k \in Nat, Agree(l, L[t], k)
    PROVE  t \in DOMAIN M /\ Agree(l, M[t], k)
<1>1. PICK a, b : a = L[t] /\ b = M[t]
  OBVIOUS
<1>2. t \in DOMAIN M /\ Agree(a, b, Len(a))
  BY <1>1 DEF Grown
<1>3. Len(a) \in Nat /\ Len(b) \in Nat
  BY <1>1, <1>2 DEF Logs
<1>4. Agree(l, a, k) /\ k <= Len(a)
  BY <1>1 DEF Agree
<1>5. Agree(a, b, k)
  BY <1>2, <1>3, <1>4, AgreeLess
<1> QED
  BY <1>1, <1>2, <1>4, <1>5, AgreeBoth

\* A log that follows the leaders' logs follows them once they have grown.
LEMMA FollowsGrown ==
    ASSUME NEW l \in Seq(Entry), NEW L, Logs(L), NEW M, Logs(M), Grown(L, M), Follows(l, L)
    PROVE  Follows(l, M)
<1>1. ASSUME NEW k \in 1..Len(l)
      PROVE  l[k].term \in DOMAIN M /\ Agree(l, M[l[k].term], k)
  <2>1. PICK t : t = l[k].term
    OBVIOUS
  <2>2. t \in DOMAIN L /\ Agree(l, L[t], k) /\ k \in Nat /\ Len(l) \in Nat
    BY <2>1 DEF Follows
  <2> QED
    BY <2>1, <2>2, AgreeGrown
<1> QED
  BY <1>1 DEF Follows

\* What a log that follows begins with follows.
LEMMA FollowsPrefix ==
    ASSUME NEW l \in Seq(Entry), NEW g \in Seq(Entry), NEW L, Logs(L), Follows(g, L), Agree(l, g, Len(l))
    PROVE  Follows(l, L)
<1>1. ASSUME NEW k \in 1..Len(l)
      PROVE  l[k].term \in DOMAIN L /\ Agree(l, L[l[k].term], k)
  <2>1. PICK t : t = g[k].term
    OBVIOUS
  <2>2. k \in 1..Len(g) /\ l[k] = g[k] /\ Len(l) \in Nat /\ Len(g) \in Nat /\ k \in Nat /\ k <= Len(l)
    BY DEF Agree
  <2>3. t \in DOMAIN L /\ Agree(g, L[t], k)
    BY <2>1, <2>2 DEF Follows
  <2>4. Agree(l, g, k)
    BY <2>2, AgreeLess
  <2> QED
    BY <2>1, <2>2, <2>3, <2>4, AgreeBoth
<1> QED
  BY <1>1 DEF Follows

\* Log matching: logs that follow are the same up to an entry of the same term.
LEMMA LogsMatch ==
    ASSUME NEW a \in Seq(Entry), NEW b \in Seq(Entry), NEW L, Follows(a, L), Follows(b, L),
           NEW k \in Nat, k <= Len(a), k <= Len(b), k # 0 => a[k].term = b[k].term
    PROVE  Agree(a, b, k)
<1>1. CASE k = 0
  BY <1>1 DEF Agree
<1>2. CASE k # 0
  <2>1. PICK t : t = a[k].term
    OBVIOUS
  <2>2. k \in 1..Len(a) /\ k \in 1..Len(b)
    BY <1>2
  <2>3. Agree(a, L[t], k) /\ Agree(b, L[t], k)
    BY <1>2, <2>1, <2>2 DEF Follows
  <2> QED
    BY <2>3, AgreeBack, AgreeBoth
<1> QED
  BY <1>1, <1>2

\* An entry of the leader.
LEMMA FollowsAppended ==
    ASSUME NEW l \in Seq(Entry), NEW L, Logs(L), NEW M, Logs(M), Grown(L, M), Follows(l, L),
           NEW e \in Entry, NEW g, g = Append(l, e), e.term \in DOMAIN M, M[e.term] = g
    PROVE  Follows(g, M)
<1>1. /\ g \in Seq(Entry) /\ Len(g) = Len(l) + 1 /\ Len(l) \in Nat /\ g[Len(l) + 1] = e
      /\ \A j \in 1..Len(l) : g[j] = l[j]
  BY AppendProperties
<1>2. Follows(l, M)
  BY FollowsGrown
<1>3. ASSUME NEW k \in 1..Len(g)
      PROVE  g[k].term \in DOMAIN M /\ Agree(g, M[g[k].term], k)
  <2>1. CASE k = Len(l) + 1
    <3>1. g[k].term = e.term /\ Len(g) = k /\ Len(g) \in Nat
      BY <1>1, <2>1
    <3>2. Agree(g, g, k)
      BY <3>1, AgreeWhole
    <3> QED
      BY <3>1, <3>2
  <2>2. CASE k # Len(l) + 1
    <3>1. k \in 1..Len(l) /\ k \in Nat
      BY <1>1, <1>3, <2>2
    <3>2. PICK t : t = l[k].term
      OBVIOUS
    <3>3. t \in DOMAIN M /\ Agree(l, M[t], k)
      BY <1>2, <3>1, <3>2 DEF Follows
    <3>4. Agree(g, l, k)
      <4>1. k <= Len(g) /\ k <= Len(l)
        BY <1>1, <3>1
      <4>2. 1..k \subseteq 1..Len(l)
        BY <1>1, <3>1
      <4> QED
        BY <1>1, <4>1, <4>2 DEF Agree
    <3>5. g[k] = l[k]
      BY <1>1, <3>1
    <3> QED
      BY <3>2, <3>3, <3>4, <3>5, AgreeBoth
  <2> QED
    BY <2>1, <2>2
<1> QED
  BY <1>3 DEF Follows

\* The last term of a prefix.
TermIn(l, k) == IF k = 0 THEN 0 ELSE l[k].term

\* A log that takes the entries of an append is the log of the leader.
LEMMA OverwrittenFollows ==
    ASSUME NEW r \in RawState, NEW m \in Message, NEW g \in Seq(Entry), NEW L, Follows(r.log, L), Follows(g, L),
           Accepts(r, m), Segment(g, m.index, m.entries), m.logTerm = TermIn(g, m.index), NEW l,
           l = Overwritten(r, m)
    PROVE  /\ l \in Seq(Entry) /\ Agree(l, g, Len(l)) /\ Len(l) = m.index + Len(m.entries)
           /\ Agree(r.log, g, m.index)
<1>1. /\ m.index \in 0..Len(r.log) /\ m.index \in Nat /\ r.log \in Seq(Entry) /\ m.entries \in Seq(Entry)
      /\ Len(m.entries) \in Nat /\ Len(r.log) \in Nat /\ Len(g) \in Nat
  BY DEF Accepts, RawState, Message
<1>2. /\ l \in Seq(Entry) /\ Len(l) = m.index + Len(m.entries)
      /\ \A j \in 1..m.index : l[j] = r.log[j]
      /\ \A j \in 1..Len(m.entries) : l[m.index + j] = m.entries[j]
  BY <1>1, OverwrittenIs
<1>3. m.index + Len(m.entries) <= Len(g) /\ \A j \in 1..Len(m.entries) : m.entries[j] = g[m.index + j]
  BY DEF Segment
<1>4. m.index <= Len(g) /\ m.index <= Len(r.log)
  BY <1>1, <1>3
<1>5. m.index # 0 => r.log[m.index].term = g[m.index].term
  BY DEF Accepts, TermAt, TermIn
<1>6. Agree(r.log, g, m.index)
  BY <1>1, <1>4, <1>5, LogsMatch
<1>7. ASSUME NEW j \in 1..Len(l)
      PROVE  l[j] = g[j]
  <2>1. CASE j <= m.index
    <3>1. j \in 1..m.index
      BY <1>1, <2>1
    <3> QED
      BY <1>2, <1>6, <3>1 DEF Agree
  <2>2. CASE ~(j <= m.index)
    <3>1. PICK i : i = j - m.index
      OBVIOUS
    <3>2. i \in 1..Len(m.entries) /\ j = m.index + i
      BY <1>1, <1>2, <2>2, <3>1
    <3>3. l[m.index + i] = m.entries[i] /\ m.entries[i] = g[m.index + i]
      BY <1>2, <1>3, <3>2
    <3> QED
      BY <3>2, <3>3
  <2> QED
    BY <2>1, <2>2
<1>8. Len(l) <= Len(g)
  BY <1>1, <1>2, <1>3
<1> QED
  BY <1>1, <1>2, <1>6, <1>7, <1>8 DEF Agree

----------------------------------------------------------------------------
(* The logs of the leaders.                                                *)

\* Where the log of a node comes from in a step: it is left alone, the leader
\* appends to it, or a message of a leader brings it.
Brought(n, d) ==
    \E m \in Payloads :
        /\ m.term = d.store.term /\ n.raw.log = n.store.log /\ n.raw.commit = n.applied
        /\ n.raw \in RawState /\ d.raw.role = "follower"
        /\ \/ m.type = "MsgApp" /\ Accepts(n.raw, m) /\ ~Agrees(n.raw, m)
              /\ d.store.log = Overwritten(n.raw, m)
           \/ m.type = "MsgSnap" /\ ~Known(n.raw, m) /\ d.store.log = m.snapshot
              /\ Len(m.snapshot) > n.applied

Adds(n, d) == \E e \in Entry : d.store.log = Append(n.store.log, e) /\ Leads(d, e.term)

LEMMA LogGoes ==
    ASSUME NodesOK, NEW ns, NEW sent, Acts(ns, sent), NEW id \in Nodes, NEW n, n = nodes[id],
           NEW d, d = ns[id]
    PROVE  d.store.log = n.store.log \/ Adds(n, d) \/ Brought(n, d)
<1>1. /\ NodeOK(id, n) /\ NodeOK(id, d)
      /\ \/ d = n
         \/ Crashed(n, d)
         \/ Restarted(n, d)
         \/ \E m, q : Input(id, m) /\ Calls(id, n, m, d, q)
  BY NodeMovesSo
<1>2. CASE d = n \/ Crashed(n, d) \/ Restarted(n, d)
  BY <1>2 DEF Crashed, Restarted
<1>3. CASE \E m, q : Input(id, m) /\ Calls(id, n, m, d, q)
  <2>1. PICK m, q : Input(id, m) /\ Calls(id, n, m, d, q)
    BY <1>3
  <2>2. PICK r, p : r = n.raw /\ p = q.raw
    OBVIOUS
  <2>3. /\ r \in RawState /\ p \in RawState /\ Worked(id, r, m, q)
        /\ r.log = n.store.log /\ r.commit = n.applied
        /\ d.running /\ d.raw.role = p.role /\ d.raw.term = p.term
        /\ d.store.term = p.term /\ d.store.log = p.log
    BY <1>1, <2>1, <2>2, CallIs
  <2>4. StorageComes(r, m, p)
    BY <2>2, <2>3 DEF Worked
  <2>5. CASE p.restored
    <3>1. /\ m.type = "MsgSnap" /\ m.term = p.term /\ ~Known(r, m) /\ p.log = m.snapshot
          /\ Len(m.snapshot) > r.commit /\ p.role = "follower"
      BY <2>4, <2>5 DEF StorageComes, Restores
    <3>2. m \in Payloads
      BY <2>1, <3>1 DEF Input, Hup
    <3> QED
      BY <2>2, <2>3, <3>1, <3>2 DEF Brought
  <2>6. CASE ~p.restored
    <3>1. LogComes(r, m, p)
      BY <2>4, <2>6 DEF StorageComes
    <3>2. CASE p.log = r.log
      BY <2>3, <3>2
    <3>3. CASE /\ p.role = "leader"
               /\ \E value \in Nat \cup {NoOp} : p.log = Append(r.log, [term |-> p.term, value |-> value])
      <4>1. PICK value \in Nat \cup {NoOp} : p.log = Append(r.log, [term |-> p.term, value |-> value])
        BY <3>3
      <4>2. PICK e : e = [term |-> p.term, value |-> value]
        OBVIOUS
      <4>3. p.term \in Nat
        BY <2>3 DEF RawState
      <4>4. e \in Entry /\ e.term = p.term
        BY <4>1, <4>2, <4>3 DEF Entry
      <4>5. Leads(d, e.term)
        BY <2>3, <3>3, <4>4 DEF Leads
      <4> QED
        BY <2>3, <4>1, <4>2, <4>4, <4>5 DEF Adds
    <3>4. CASE /\ p.role = "follower" /\ m.term = p.term
               /\ Accepts(r, m) /\ ~Agrees(r, m) /\ p.log = Overwritten(r, m)
      <4>1. m.type = "MsgApp"
        BY <3>4 DEF Accepts
      <4>2. m \in Payloads
        BY <2>1, <4>1 DEF Input, Hup
      <4> QED
        BY <2>2, <2>3, <3>4, <4>1, <4>2 DEF Brought
    <3> QED
      BY <3>1, <3>2, <3>3, <3>4 DEF LogComes
  <2> QED
    BY <2>5, <2>6
<1> QED
  BY <1>1, <1>2, <1>3

\* The log of a leader is the log of its term.
LedBy(L) ==
    /\ DOMAIN L = DOMAIN leadersByTerm /\ Logs(L)
    /\ \A id \in Nodes : \A t \in DOMAIN L : Leads(nodes[id], t) => L[t] = nodes[id].store.log

\* A leader of a term known before had the log of the term.
LEMMA LeaderBefore ==
    ASSUME NodesOK, MessagesOK, Led, NEW sent, Executed(sent),
           NEW id \in Nodes, NEW t \in DOMAIN leadersByTerm, Leads(nodes'[id], t), leadersByTerm[t] = id
    PROVE  Leads(nodes[id], t)
<1>1. PICK n, d : n = nodes[id] /\ d = nodes'[id]
  OBVIOUS
<1>2. Acts(nodes', sent) /\ d.running /\ d.raw.role = "leader" /\ d.raw.term = t
  BY <1>1 DEF Executed, Leads
<1>3. n.running /\ n.raw.role \in {"leader", "candidate"} /\ n.raw.term = t
  BY <1>1, <1>2, RolesCome
<1>4. n.raw.role # "candidate"
  BY <1>1, <1>3 DEF Led
<1> QED
  BY <1>1, <1>3, <1>4 DEF Leads

\* What becomes of the logs of the leaders.
Continues(L, M) ==
    /\ LedBy(M)' /\ Grown(L, M)
    /\ \A t \in DOMAIN M : \/ t \in DOMAIN L /\ M[t] = L[t]
                           \/ \E id \in Nodes : Leads(nodes'[id], t) /\ M[t] = nodes'[id].store.log

\* Every call keeps the leaders' logs, each only growing, with a new one for a new leader.
LEMMA LogsGrow ==
    ASSUME NodesOK, MessagesOK, Led, NEW L, LedBy(L), NEW sent, Executed(sent),
           "multiple_leaders_same_term" \notin findings'
    PROVE  \E M : Continues(L, M)
<1>1. PICK f, ns : f = leadersByTerm' /\ ns = nodes'
  OBVIOUS
<1>2. Acts(ns, sent) /\ NodesOK' /\ Led'
  BY <1>1, LedStays, NodesStayOK DEF Executed
<1>3. PICK M : M = [t \in DOMAIN f |-> IF Leads(ns[f[t]], t) THEN ns[f[t]].store.log ELSE L[t]]
  OBVIOUS
<1>4. ASSUME NEW t \in DOMAIN f
      PROVE  t \in Nat /\ f[t] \in Nodes /\ ns[f[t]].store.log \in Seq(Entry)
  <2>1. t \in Nat /\ f[t] \in Nodes
    BY <1>1, <1>2, <1>4 DEF Led
  <2>2. NodeOK(f[t], ns[f[t]])
    BY <1>1, <1>2, <2>1 DEF NodesOK
  <2> QED
    BY <2>1, <2>2, StoredIs
<1>5. PICK o : o = Observation(nodes')
  OBVIOUS
<1>6. /\ \A t \in DOMAIN leadersByTerm : t \in DOMAIN f /\ f[t] = leadersByTerm[t]
      /\ \A t \in DOMAIN f : t \in DOMAIN leadersByTerm \/ (f[t] \in Leading(o) /\ o[f[t]].term = t)
  BY <1>1, <1>5, KnownLeadersAre DEF Executed
<1>7. ASSUME NEW t \in DOMAIN f
      PROVE  \/ t \in DOMAIN L /\ M[t] = L[t]
             \/ Leads(ns[f[t]], t) /\ M[t] = ns[f[t]].store.log
  <2>1. CASE Leads(ns[f[t]], t)
    BY <1>3, <2>1
  <2>2. CASE ~Leads(ns[f[t]], t)
    <3>1. t \in DOMAIN leadersByTerm
      <4>1. SUFFICES ASSUME t \notin DOMAIN leadersByTerm PROVE FALSE
        OBVIOUS
      <4>2. f[t] \in Leading(o) /\ o[f[t]].term = t
        BY <1>6, <4>1
      <4> QED
        BY <1>1, <1>4, <1>5, <2>2, <4>2, LeadingIs DEF Leads
    <3> QED
      BY <1>3, <2>2, <3>1 DEF LedBy
  <2> QED
    BY <2>1, <2>2
<1>8. ASSUME NEW t \in DOMAIN L
      PROVE  t \in DOMAIN M /\ Agree(L[t], M[t], Len(L[t]))
  <2>1. PICK id : id = leadersByTerm[t]
    OBVIOUS
  <2>2. t \in DOMAIN leadersByTerm /\ t \in DOMAIN f /\ f[t] = id /\ t \in DOMAIN M /\ id \in Nodes
    BY <1>3, <1>4, <1>6, <1>8, <2>1 DEF LedBy
  <2>3. L[t] \in Seq(Entry)
    BY <1>8 DEF LedBy, Logs
  <2>4. Len(L[t]) \in Nat
    BY <2>3
  <2>5. CASE M[t] = L[t]
    BY <2>2, <2>4, <2>5, AgreeWhole
  <2>6. CASE Leads(ns[id], t) /\ M[t] = ns[id].store.log
    <3>1. Leads(nodes[id], t)
      BY <1>1, <2>1, <2>2, <2>6, LeaderBefore
    <3>2. L[t] = nodes[id].store.log
      BY <1>8, <2>2, <3>1 DEF LedBy
    <3>3. PICK n, d : n = nodes[id] /\ d = ns[id]
      OBVIOUS
    <3>4. /\ NodeOK(id, n)
          /\ \/ d = n
             \/ Crashed(n, d)
             \/ Restarted(n, d)
             \/ \E m, q : Input(id, m) /\ Calls(id, n, m, d, q)
      BY <1>2, <2>2, <3>3, NodeMovesSo
    <3>5. d.running /\ d.raw.role = "leader"
      BY <2>6, <3>3 DEF Leads
    <3>6. d.store.log = n.store.log \/ \E e : d.store.log = Append(n.store.log, e)
      <4>1. CASE d = n \/ Crashed(n, d) \/ Restarted(n, d)
        BY <4>1 DEF Crashed, Restarted
      <4>2. CASE \E m, q : Input(id, m) /\ Calls(id, n, m, d, q)
        <5>1. PICK m, q : Input(id, m) /\ Calls(id, n, m, d, q)
          BY <4>2
        <5>2. PICK r, p : r = n.raw /\ p = q.raw
          OBVIOUS
        <5>3. /\ Worked(id, r, m, q) /\ r.log = n.store.log /\ d.raw.role = p.role
              /\ d.store.log = p.log
          BY <3>4, <5>1, <5>2, CallIs
        <5>4. StorageComes(r, m, p)
          BY <5>2, <5>3 DEF Worked
        <5>5. p.log = r.log \/ \E value : p.log = Append(r.log, [term |-> p.term, value |-> value])
          BY <3>5, <5>3, <5>4 DEF StorageComes, Restores, LogComes
        <5> QED
          BY <5>3, <5>5
      <4> QED
        BY <3>4, <4>1, <4>2
    <3>7. n.store.log \in Seq(Entry) /\ Len(n.store.log) \in Nat
      BY <2>3, <3>2, <3>3
    <3>8. Agree(n.store.log, d.store.log, Len(n.store.log))
      <4>1. CASE d.store.log = n.store.log
        BY <3>7, <4>1, AgreeWhole
      <4>2. CASE \E e : d.store.log = Append(n.store.log, e)
        <5>1. PICK e : d.store.log = Append(n.store.log, e)
          BY <4>2
        <5>2. /\ Len(d.store.log) = Len(n.store.log) + 1
              /\ \A j \in 1..Len(n.store.log) : d.store.log[j] = n.store.log[j]
          BY <3>7, <5>1, AppendProperties
        <5> QED
          BY <3>7, <5>2 DEF Agree
      <4> QED
        BY <3>6, <4>1, <4>2
    <3> QED
      BY <2>2, <2>6, <3>2, <3>3, <3>8
  <2> QED
    BY <1>7, <2>2, <2>5, <2>6
<1>9. Grown(L, M)
  BY <1>8 DEF Grown
<1>10. Logs(M)
  <2>1. ASSUME NEW t \in DOMAIN M
        PROVE  M[t] \in Seq(Entry)
    BY <1>3, <1>4, <1>7, <2>1 DEF LedBy, Logs
  <2> QED
    BY <2>1 DEF Logs
<1>11. ASSUME NEW id \in Nodes, NEW t \in DOMAIN M, Leads(ns[id], t)
       PROVE  M[t] = ns[id].store.log
  <2>1. t \in DOMAIN f /\ t \in Nat
    BY <1>3, <1>4, <1>11
  <2>2. f[t] = id
    BY <1>1, <1>2, <1>11, <2>1 DEF Led
  <2> QED
    BY <1>3, <1>11, <2>1, <2>2
<1>12. DOMAIN M = DOMAIN f
  BY <1>3
<1>13. LedBy(M)'
  BY <1>1, <1>10, <1>11, <1>12 DEF LedBy, Logs, Leads
<1>14. \A t \in DOMAIN M : \/ t \in DOMAIN L /\ M[t] = L[t]
                          \/ \E id \in Nodes : Leads(nodes'[id], t) /\ M[t] = nodes'[id].store.log
  BY <1>1, <1>4, <1>7, <1>12
<1> QED
  BY <1>9, <1>13, <1>14 DEF Continues

\* Every log follows the logs of the leaders, and so does what a leader sends.
Following(L) ==
    /\ \A t \in DOMAIN L : Follows(L[t], L)
    /\ \A id \in Nodes : Follows(nodes[id].store.log, L)

CarriedBy(m, L) ==
    /\ m.type = "MsgApp" => /\ Segment(L[m.term], m.index, m.entries)
                            /\ m.logTerm = TermIn(L[m.term], m.index)
    /\ m.type = "MsgSnap" => Agree(m.snapshot, L[m.term], Len(m.snapshot))

Carried(L) == \A m \in Payloads : CarriedBy(m, L)

\* What a message of a leader brings is the log of the leader.
LEMMA LogBrought ==
    ASSUME NodesOK, MessagesOK, Led, NEW L, LedBy(L), Following(L), Carried(L),
           NEW id \in Nodes, NEW n, n = nodes[id], n.raw.log = n.store.log, n.raw \in RawState,
           NEW m \in Payloads, NEW l, NEW g, g = L[m.term],
           \/ m.type = "MsgApp" /\ Accepts(n.raw, m) /\ l = Overwritten(n.raw, m)
           \/ m.type = "MsgSnap" /\ l = m.snapshot
    PROVE  /\ m.term \in DOMAIN L /\ g \in Seq(Entry) /\ l \in Seq(Entry) /\ Agree(l, g, Len(l))
           /\ Follows(l, L)
<1>1. m \in Message /\ m.type \in FromLeader
  BY DEF MessagesOK, Payloads, Envelope, FromLeader
<1>2. m.term \in DOMAIN L
  BY <1>1 DEF Led, LedBy
<1>3. g \in Seq(Entry) /\ Follows(g, L) /\ Logs(L)
  BY <1>2 DEF LedBy, Logs, Following
<1>4. CASE m.type = "MsgApp" /\ Accepts(n.raw, m) /\ l = Overwritten(n.raw, m)
  <2>1. Segment(g, m.index, m.entries) /\ m.logTerm = TermIn(g, m.index)
    BY <1>4 DEF Carried, CarriedBy
  <2>2. Follows(n.raw.log, L)
    BY DEF Following
  <2>3. l \in Seq(Entry) /\ Agree(l, g, Len(l))
    BY <1>1, <1>3, <1>4, <2>1, <2>2, OverwrittenFollows
  <2> QED
    BY <1>2, <1>3, <2>3, FollowsPrefix
<1>5. CASE m.type = "MsgSnap" /\ l = m.snapshot
  <2>1. l \in Seq(Entry) /\ Agree(l, g, Len(l))
    BY <1>1, <1>5 DEF Message, Carried, CarriedBy
  <2> QED
    BY <1>2, <1>3, <2>1, FollowsPrefix
<1> QED
  BY <1>4, <1>5

\* Every log, and every entry in the network, stays a piece of its leader's log.
LEMMA FollowingStays ==
    ASSUME NodesOK, MessagesOK, Led, NEW L, LedBy(L), Following(L), Carried(L),
           NEW sent, Executed(sent), NEW M, Continues(L, M)
    PROVE  Following(M)'
<1>1. Acts(nodes', sent) /\ Logs(L) /\ Grown(L, M) /\ Logs(M) /\ DOMAIN M = DOMAIN leadersByTerm'
  BY DEF Executed, Continues, LedBy
<1>2. ASSUME NEW id \in Nodes
      PROVE  Follows(nodes'[id].store.log, M)
  <2>1. PICK n, d : n = nodes[id] /\ d = nodes'[id]
    OBVIOUS
  <2>2. n.store.log \in Seq(Entry) /\ d.store.log \in Seq(Entry)
    <3>1. NodeOK(id, n) /\ NodeOK(id, d)
      BY <1>1, <2>1, NodeMovesSo
    <3> QED
      BY <3>1, StoredIs
  <2>3. Follows(n.store.log, L)
    BY <2>1 DEF Following
  <2>4. CASE d.store.log = n.store.log
    BY <1>1, <2>1, <2>2, <2>3, <2>4, FollowsGrown
  <2>5. CASE Adds(n, d)
    <3>1. PICK e \in Entry : d.store.log = Append(n.store.log, e) /\ Leads(d, e.term)
      BY <2>5 DEF Adds
    <3>2. e.term \in DOMAIN M
      BY <1>1, <2>1, <3>1, LeaderIsKnown
    <3>3. M[e.term] = d.store.log
      BY <2>1, <3>1, <3>2 DEF Continues, LedBy, Leads
    <3> QED
      BY <1>1, <2>1, <2>2, <2>3, <3>1, <3>2, <3>3, FollowsAppended
  <2>6. CASE Brought(n, d)
    <3>1. PICK m \in Payloads :
                /\ m.term = d.store.term /\ n.raw.log = n.store.log /\ n.raw.commit = n.applied
                /\ n.raw \in RawState
                /\ \/ m.type = "MsgApp" /\ Accepts(n.raw, m) /\ ~Agrees(n.raw, m)
                      /\ d.store.log = Overwritten(n.raw, m)
                   \/ m.type = "MsgSnap" /\ ~Known(n.raw, m) /\ d.store.log = m.snapshot
                      /\ Len(m.snapshot) > n.applied
      BY <2>6 DEF Brought
    <3>2. PICK l : l = d.store.log
      OBVIOUS
    <3>3. Follows(l, L)
      BY <2>1, <3>1, <3>2, LogBrought
    <3> QED
      BY <1>1, <2>1, <2>2, <3>2, <3>3, FollowsGrown
  <2>7. d.store.log = n.store.log \/ Adds(n, d) \/ Brought(n, d)
    BY <1>1, <2>1, LogGoes
  <2> QED
    BY <2>4, <2>5, <2>6, <2>7
<1>3. ASSUME NEW t \in DOMAIN M
      PROVE  Follows(M[t], M)
  <2>1. CASE t \in DOMAIN L /\ M[t] = L[t]
    <3>1. L[t] \in Seq(Entry) /\ Follows(L[t], L)
      BY <2>1 DEF LedBy, Logs, Following
    <3> QED
      BY <1>1, <2>1, <3>1, FollowsGrown
  <2>2. CASE \E id \in Nodes : Leads(nodes'[id], t) /\ M[t] = nodes'[id].store.log
    BY <1>2, <2>2
  <2> QED
    BY <2>1, <2>2 DEF Continues
<1> QED
  BY <1>2, <1>3 DEF Following

\* What a leader sends it has in its log.
LEMMA CarriedStays ==
    ASSUME NodesOK, MessagesOK, Led, NEW L, LedBy(L), Carried(L),
           NEW sent, Executed(sent), NEW M, Continues(L, M)
    PROVE  Carried(M)'
<1>1. /\ Acts(nodes', sent) /\ network' = network \cup sent /\ Logs(L) /\ Grown(L, M) /\ Logs(M)
      /\ DOMAIN M = DOMAIN leadersByTerm'
  BY DEF Executed, Continues, LedBy
<1>2. ASSUME NEW x \in Payloads', x \in Payloads
      PROVE  CarriedBy(x, M)
  <2>1. x \in Message
    BY <1>2 DEF MessagesOK, Payloads, Envelope
  <2>2. PICK t, a, b : t = x.term /\ a = L[t] /\ b = M[t]
    OBVIOUS
  <2>3. CASE x.type = "MsgApp"
    <3>1. t \in DOMAIN L
      BY <1>2, <2>2, <2>3 DEF Led, LedBy, FromLeader
    <3>2. a \in Seq(Entry) /\ b \in Seq(Entry) /\ Agree(a, b, Len(a))
      BY <1>1, <2>2, <3>1 DEF Logs, Grown
    <3>3. Segment(a, x.index, x.entries) /\ x.logTerm = TermIn(a, x.index)
      BY <1>2, <2>2, <2>3 DEF Carried, CarriedBy
    <3>4. x.index \in Nat /\ Len(x.entries) \in Nat /\ Len(a) \in Nat /\ Len(b) \in Nat
      BY <2>1, <3>2 DEF Message
    <3>5. Len(a) <= Len(b) /\ \A j \in 1..Len(a) : a[j] = b[j]
      BY <3>2 DEF Agree
    <3>6. x.index + Len(x.entries) <= Len(a) /\ \A j \in 1..Len(x.entries) : x.entries[j] = a[x.index + j]
      BY <3>3 DEF Segment
    <3>7. ASSUME NEW j \in 1..Len(x.entries)
          PROVE  x.entries[j] = b[x.index + j]
      <4>1. PICK i : i = x.index + j
        OBVIOUS
      <4>2. i \in 1..Len(a)
        BY <3>4, <3>6, <4>1
      <4> QED
        BY <3>5, <3>6, <4>1, <4>2
    <3>8. Segment(b, x.index, x.entries)
      BY <3>4, <3>5, <3>6, <3>7 DEF Segment
    <3>9. TermIn(b, x.index) = TermIn(a, x.index)
      <4>1. x.index # 0 => x.index \in 1..Len(a)
        BY <3>4, <3>6
      <4> QED
        BY <3>5, <4>1 DEF TermIn
    <3> QED
      BY <2>2, <2>3, <3>3, <3>8, <3>9 DEF CarriedBy
  <2>4. CASE x.type = "MsgSnap"
    <3>1. t \in DOMAIN L
      BY <1>2, <2>2, <2>4 DEF Led, LedBy, FromLeader
    <3>2. Agree(x.snapshot, a, Len(x.snapshot))
      BY <1>2, <2>2, <2>4 DEF Carried, CarriedBy
    <3>3. x.snapshot \in Seq(Entry) /\ Len(x.snapshot) \in Nat
      BY <2>1 DEF Message
    <3>4. Agree(x.snapshot, b, Len(x.snapshot))
      BY <1>1, <2>2, <3>1, <3>2, <3>3, AgreeGrown
    <3> QED
      BY <2>2, <2>4, <3>4 DEF CarriedBy
  <2> QED
    BY <2>3, <2>4 DEF CarriedBy
<1>3. ASSUME NEW x \in Payloads', x \notin Payloads, x.type \in {"MsgApp", "MsgSnap"}
      PROVE  CarriedBy(x, M)
  <2>1. PICK id \in Nodes : \E m, q : /\ Input(id, m) /\ Calls(id, nodes[id], m, nodes'[id], q)
                                      /\ x \in q.out
    BY <1>1, <1>3, MessagesCome
  <2>2. PICK m, q : Input(id, m) /\ Calls(id, nodes[id], m, nodes'[id], q) /\ x \in q.out
    BY <2>1
  <2>3. PICK n, d, r, p : n = nodes[id] /\ d = nodes'[id] /\ r = n.raw /\ p = q.raw
    OBVIOUS
  <2>4. x.term = p.term /\ p.role = "leader" /\ Replicates(id, p, x)
    BY <1>3, <2>2, <2>3, CallSends
  <2>5. NodeOK(id, n) /\ NodeOK(id, d)
    BY <1>1, <2>3, NodeMovesSo
  <2>6. /\ Worked(id, r, m, q) /\ r \in RawState /\ p \in RawState
        /\ r.log = n.store.log /\ r.snapshot = n.store.snapshot /\ r.commit = n.applied
        /\ d.running /\ d.raw.role = p.role /\ d.raw.term = p.term /\ d.store.log = p.log
    BY <2>2, <2>3, <2>5, CallIs
  <2>7. Leads(d, x.term)
    BY <2>4, <2>6 DEF Leads
  <2>8. x.term \in DOMAIN M
    BY <1>1, <2>3, <2>7, LeaderIsKnown
  <2>9. M[x.term] = p.log
    BY <2>3, <2>6, <2>7, <2>8 DEF Continues, LedBy, Leads
  <2>10. CASE x.type = "MsgApp"
    BY <2>4, <2>9, <2>10 DEF Replicates, CarriedBy, TermAt, TermIn
  <2>11. CASE x.type = "MsgSnap"
    <3>1. x.snapshot = p.snapshot
      BY <2>4, <2>11 DEF Replicates
    <3>2. StorageComes(r, m, p)
      BY <2>3, <2>6 DEF Worked
    <3>3. p.snapshot = r.snapshot /\ LogComes(r, m, p)
      BY <2>4, <3>2 DEF StorageComes, Restores
    <3>4. /\ n.applied \in Nat /\ n.applied <= Len(n.store.log) /\ Len(n.store.log) \in Nat
          /\ \A j \in 1..n.applied : n.prefixDigests[j] = n.store.log[j]
          /\ n.lastSnapshotIndex \in Nat
          /\ Len(n.store.snapshot) = n.lastSnapshotIndex /\ n.lastSnapshotIndex <= n.applied
          /\ \A j \in 1..n.lastSnapshotIndex : n.store.snapshot[j] = n.prefixDigests[j]
      BY <2>5, StoredIs
    <3>5. m = Hup \/ m \in Message
      BY <2>2 DEF Input
    <3>6. r.commit <= Len(p.log) /\ \A j \in 1..r.commit : p.log[j] = r.log[j]
      BY <2>6, <3>3, <3>4, <3>5, LogKept
    <3>7. 1..n.lastSnapshotIndex \subseteq 1..n.applied
      BY <3>4
    <3>8. Len(p.log) \in Nat
      BY <2>6 DEF RawState
    <3>9. n.lastSnapshotIndex <= Len(p.log)
      BY <2>6, <3>4, <3>6, <3>8
    <3>10. \A j \in 1..n.lastSnapshotIndex : n.store.snapshot[j] = p.log[j]
      BY <2>6, <3>4, <3>6, <3>7
    <3>11. x.snapshot = n.store.snapshot
      BY <2>6, <3>1, <3>3
    <3>12. Agree(x.snapshot, p.log, Len(x.snapshot))
      BY <3>4, <3>9, <3>10, <3>11 DEF Agree
    <3> QED
      BY <2>9, <2>11, <3>12 DEF CarriedBy
  <2> QED
    BY <1>3, <2>10, <2>11
<1>4. ASSUME NEW x \in Payloads'
      PROVE  CarriedBy(x, M)
  <2>1. CASE x \in Payloads
    BY <1>2, <2>1
  <2>2. CASE x \notin Payloads /\ x.type \in {"MsgApp", "MsgSnap"}
    BY <1>3, <2>2
  <2>3. CASE x.type \notin {"MsgApp", "MsgSnap"}
    BY <2>3 DEF CarriedBy
  <2> QED
    BY <2>1, <2>2, <2>3
<1> QED
  BY <1>4 DEF Carried, CarriedBy

\* A snapshot a leader sends is what it has applied.
LEMMA SnappedStays ==
    ASSUME NodesOK, MessagesOK, PrefixesAgree, Snapped, NEW sent, Executed(sent)
    PROVE  Snapped'
<1>1. Acts(nodes', sent) /\ network' = network \cup sent /\ MessagesOK'
  BY MessagesStayOK DEF Executed
<1>2. ASSUME NEW x \in Payloads', x.type = "MsgSnap"
      PROVE  /\ x.from \in Nodes /\ x.snapshot \in Seq(Entry)
             /\ Agree(x.snapshot, nodes[x.from].prefixDigests, Len(x.snapshot))
  <2>1. x \in Message
    BY <1>1, <1>2 DEF MessagesOK, Payloads, Envelope
  <2>2. x.from \in Nodes /\ x.snapshot \in Seq(Entry)
    BY <2>1 DEF Message
  <2>3. CASE x \in Payloads
    BY <1>2, <2>2, <2>3 DEF Snapped
  <2>4. CASE x \notin Payloads
    <3>1. PICK id \in Nodes : \E m, q : /\ Input(id, m) /\ Calls(id, nodes[id], m, nodes'[id], q)
                                        /\ x \in q.out
      BY <1>1, <2>4, MessagesCome
    <3>2. PICK m, q : Input(id, m) /\ Calls(id, nodes[id], m, nodes'[id], q) /\ x \in q.out
      BY <3>1
    <3>3. PICK n, r, p : n = nodes[id] /\ r = n.raw /\ p = q.raw
      OBVIOUS
    <3>4. p.role = "leader" /\ Replicates(id, p, x)
      BY <1>2, <3>2, <3>3, CallSends
    <3>5. x.from = id /\ x.snapshot = p.snapshot
      BY <1>2, <3>4 DEF Replicates
    <3>6. NodeOK(id, n)
      BY <3>3 DEF NodesOK
    <3>7. Worked(id, r, m, q) /\ r.snapshot = n.store.snapshot
      BY <3>2, <3>3, <3>6, CallIs
    <3>8. StorageComes(r, m, p)
      BY <3>3, <3>7 DEF Worked
    <3>9. p.snapshot = n.store.snapshot
      BY <3>4, <3>7, <3>8 DEF StorageComes, Restores
    <3>10. /\ n.applied \in Nat /\ Len(n.prefixDigests) = n.applied
           /\ n.lastSnapshotIndex \in Nat
           /\ Len(n.store.snapshot) = n.lastSnapshotIndex /\ n.lastSnapshotIndex <= n.applied
           /\ \A j \in 1..n.lastSnapshotIndex : n.store.snapshot[j] = n.prefixDigests[j]
      BY <3>6, StoredIs
    <3>11. Agree(x.snapshot, n.prefixDigests, Len(x.snapshot))
      BY <3>5, <3>9, <3>10 DEF Agree
    <3> QED
      BY <2>2, <3>3, <3>5, <3>11
  <2> QED
    BY <2>3, <2>4
<1>3. ASSUME NEW x \in Payloads', x.type = "MsgSnap"
      PROVE  Agree(x.snapshot, nodes'[x.from].prefixDigests, Len(x.snapshot))
  <2>1. PICK id, n, d, k : id = x.from /\ n = nodes[id] /\ d = nodes'[id] /\ k = Len(x.snapshot)
    OBVIOUS
  <2>2. id \in Nodes /\ k \in Nat /\ Agree(x.snapshot, n.prefixDigests, k)
    BY <1>2, <1>3, <2>1
  <2>3. Extends(n, d)
    BY <1>1, <2>1, <2>2, AppliedExtends
  <2>4. NodeOK(id, n) /\ NodeOK(id, d)
    BY <1>1, <2>1, <2>2, NodeMovesSo
  <2>5. n.applied \in Nat /\ Len(n.prefixDigests) = n.applied /\ Len(d.prefixDigests) \in Nat
    BY <2>4, StoredIs
  <2>6. Agree(n.prefixDigests, d.prefixDigests, n.applied) /\ k <= n.applied
    BY <2>2, <2>3, <2>5 DEF Extends, Agree
  <2>7. Agree(n.prefixDigests, d.prefixDigests, k)
    BY <2>2, <2>5, <2>6, AgreeLess
  <2>8. Agree(x.snapshot, d.prefixDigests, k)
    BY <2>2, <2>7, AgreeBoth
  <2> QED
    BY <2>1, <2>8
<1> QED
  BY <1>3 DEF Snapped

----------------------------------------------------------------------------
(* What is acknowledged.                                                   *)

Ack(m) == m.type = "MsgAppResp" /\ ~m.reject

\* A node holds what it has acknowledged to the leader of its term.
AckStands(m, L) ==
    LET n == nodes[m.from]
    IN  /\ m.term \in DOMAIN L /\ m.term <= n.store.term
        /\ m.term = n.store.term => m.index <= n.applied \/ Agree(n.store.log, L[m.term], m.index)

Acknowledged(L) == \A m \in Payloads : Ack(m) => AckStands(m, L)

AckedTo(p, t, k) == \E a \in Payloads : Ack(a) /\ a.from = p /\ a.term = t /\ a.index >= k

\* A leader counts what has been acknowledged to it, and tells its followers to
\* commit no more than that.
MatchKnown ==
    \A id, p \in Nodes :
        LET n == nodes[id]
        IN  n.running /\ n.raw.role = "leader" /\ n.raw.progress[p].match > 0
                => AckedTo(p, n.raw.term, n.raw.progress[p].match)

HeartbeatsKnown ==
    \A h \in Payloads : h.type = "MsgHeartbeat" /\ h.commit > 0 => AckedTo(h.to, h.term, h.commit)

\* What is brought to a log never takes away what it had of the leader's.
LEMMA BroughtKeeps ==
    ASSUME NEW r \in RawState, NEW m \in Message, NEW g \in Seq(Entry), NEW l \in Seq(Entry),
           Agree(l, g, Len(l)), NEW k \in Nat, Agree(r.log, g, k),
           \/ /\ m.type = "MsgApp" /\ Accepts(r, m) /\ ~Agrees(r, m) /\ l = Overwritten(r, m)
              /\ Segment(g, m.index, m.entries)
           \/ m.type = "MsgSnap" /\ ~Known(r, m) /\ l = m.snapshot /\ Len(m.snapshot) > 0
    PROVE  k <= Len(l)
<1> SUFFICES ASSUME k > Len(l) PROVE FALSE
  <2>1. Len(l) \in Nat
    OBVIOUS
  <2> QED
    BY <2>1
<1>1. /\ r.log \in Seq(Entry) /\ Len(r.log) \in Nat /\ Len(l) \in Nat /\ Len(g) \in Nat
      /\ k <= Len(r.log) /\ k <= Len(g) /\ \A j \in 1..k : r.log[j] = g[j]
  BY DEF RawState, Agree
<1>2. CASE /\ m.type = "MsgApp" /\ Accepts(r, m) /\ ~Agrees(r, m) /\ l = Overwritten(r, m)
           /\ Segment(g, m.index, m.entries)
  <2>1. m.index \in Nat /\ m.entries \in Seq(Entry) /\ Len(m.entries) \in Nat /\ r.commit \in Nat
    BY DEF Message, RawState
  <2>2. m.index \in 0..Len(r.log)
    BY <1>1, <1>2, <2>1 DEF Accepts
  <2>3. Len(l) = m.index + Len(m.entries)
    BY <1>1, <1>2, <2>1, <2>2, OverwrittenIs
  <2>4. ASSUME NEW j \in 1..Len(m.entries)
        PROVE  TermAt(r, m.index + j) = m.entries[j].term
    <3>1. PICK i : i = m.index + j
      OBVIOUS
    <3>2. i \in 1..k /\ i # 0
      BY <1>1, <2>1, <2>3, <3>1
    <3>3. m.entries[j] = g[i]
      BY <1>2, <3>1 DEF Segment
    <3>4. TermAt(r, i) = r.log[i].term
      BY <3>2 DEF TermAt
    <3> QED
      BY <1>1, <3>1, <3>2, <3>3, <3>4
  <2>5. m.index + Len(m.entries) <= Len(r.log)
    BY <1>1, <2>1, <2>3
  <2> QED
    BY <1>2, <2>4, <2>5 DEF Agrees
<1>3. CASE m.type = "MsgSnap" /\ ~Known(r, m) /\ l = m.snapshot /\ Len(m.snapshot) > 0
  <2>1. PICK i : i = Len(m.snapshot)
    OBVIOUS
  <2>2. i \in 1..k /\ i # 0 /\ i \in 1..Len(l) /\ i \in 1..Len(r.log)
    BY <1>1, <1>3, <2>1
  <2>3. l[i] = g[i] /\ r.log[i] = g[i]
    BY <1>1, <1>3, <2>1, <2>2 DEF Agree
  <2>4. TermAt(r, i) = m.snapshot[i].term
    BY <1>3, <2>2, <2>3 DEF TermAt
  <2> QED
    BY <1>3, <2>1, <2>2, <2>4 DEF Known
<1> QED
  BY <1>2, <1>3

\* An old acknowledgement still stands after a step.
LEMMA AckStillStands ==
    ASSUME NodesOK, MessagesOK, PrefixesAgree, Snapped, Led, NEW L, LedBy(L), Following(L), Carried(L), Acknowledged(L),
           NEW sent, Executed(sent), NEW M, Continues(L, M), NEW x \in Payloads, Ack(x)
    PROVE  AckStands(x, M)'
<1>1. Acts(nodes', sent) /\ Logs(L) /\ Grown(L, M) /\ Logs(M)
  BY DEF Executed, Continues, LedBy
<1>2. x \in Message /\ AckStands(x, L)
  BY DEF MessagesOK, Payloads, Envelope, Acknowledged
<1>3. PICK id, n, d, t, k : id = x.from /\ n = nodes[id] /\ d = nodes'[id] /\ t = x.term /\ k = x.index
  OBVIOUS
<1>4. id \in Nodes /\ t \in Nat /\ k \in Nat
  BY <1>2, <1>3 DEF Message
<1>5. /\ t \in DOMAIN L /\ t <= n.store.term
      /\ t = n.store.term => k <= n.applied \/ Agree(n.store.log, L[t], k)
  BY <1>2, <1>3 DEF AckStands
<1>6. /\ n.store.term \in Nat /\ d.store.term \in Nat /\ n.store.term <= d.store.term
  BY <1>1, <1>3, <1>4, TermsRise
<1>7. NodeOK(id, n) /\ NodeOK(id, d)
  BY <1>1, <1>3, <1>4, NodeMovesSo
<1>8. /\ n.store.log \in Seq(Entry) /\ d.store.log \in Seq(Entry) /\ n.applied \in Nat /\ d.applied \in Nat
  BY <1>7, StoredIs
<1>9. t \in DOMAIN M /\ L[t] \in Seq(Entry)
  BY <1>1, <1>5 DEF Grown, Logs
<1>10. ASSUME t = d.store.term
       PROVE  k <= d.applied \/ Agree(d.store.log, M[t], k)
  <2>1. CASE k <= n.applied
    <3>1. Extends(n, d)
      BY <1>1, <1>3, <1>4, AppliedExtends
    <3> QED
      BY <1>4, <1>8, <2>1, <3>1 DEF Extends
  <2>2. CASE Agree(n.store.log, L[t], k)
    <3>1. SUFFICES Agree(d.store.log, L[t], k)
      <4>1. Len(d.store.log) \in Nat
        BY <1>8
      <4> QED
        BY <1>1, <1>4, <1>5, <3>1, <4>1, AgreeGrown
    <3>2. CASE d.store.log = n.store.log
      BY <2>2, <3>2
    <3>3. CASE Adds(n, d)
      <4>1. PICK e \in Entry : d.store.log = Append(n.store.log, e)
        BY <3>3 DEF Adds
      <4>2. /\ Len(d.store.log) = Len(n.store.log) + 1 /\ Len(n.store.log) \in Nat
            /\ \A j \in 1..Len(n.store.log) : d.store.log[j] = n.store.log[j]
        BY <1>8, <4>1, AppendProperties
      <4>3. k <= Len(n.store.log) /\ k <= Len(L[t]) /\ \A j \in 1..k : n.store.log[j] = L[t][j]
        BY <2>2 DEF Agree
      <4>4. \A j \in 1..k : j \in 1..Len(n.store.log)
        BY <1>4, <4>2, <4>3
      <4>5. k <= Len(d.store.log)
        BY <1>4, <4>2, <4>3
      <4> QED
        BY <4>2, <4>3, <4>4, <4>5 DEF Agree
    <3>4. CASE Brought(n, d)
      <4>1. PICK m \in Payloads :
                /\ m.term = d.store.term /\ n.raw.log = n.store.log /\ n.raw.commit = n.applied
                /\ n.raw \in RawState
                /\ \/ m.type = "MsgApp" /\ Accepts(n.raw, m) /\ ~Agrees(n.raw, m)
                      /\ d.store.log = Overwritten(n.raw, m)
                   \/ m.type = "MsgSnap" /\ ~Known(n.raw, m) /\ d.store.log = m.snapshot
                      /\ Len(m.snapshot) > n.applied
        BY <3>4 DEF Brought
      <4>2. PICK r, l, g : r = n.raw /\ l = d.store.log /\ g = L[t]
        OBVIOUS
      <4>3. m \in Message /\ m.term = t
        BY <1>10, <4>1 DEF MessagesOK, Payloads, Envelope
      <4>4. g = L[m.term]
        BY <4>2, <4>3
      <4>5. /\ g \in Seq(Entry) /\ l \in Seq(Entry) /\ Agree(l, g, Len(l))
        <5>1. \/ m.type = "MsgApp" /\ Accepts(n.raw, m) /\ l = Overwritten(n.raw, m)
              \/ m.type = "MsgSnap" /\ l = m.snapshot
          BY <4>1, <4>2
        <5> QED
          BY <1>3, <1>4, <4>1, <4>4, <5>1, LogBrought
      <4>6. Agree(r.log, g, k)
        BY <2>2, <4>1, <4>2
      <4>7. \/ /\ m.type = "MsgApp" /\ Accepts(r, m) /\ ~Agrees(r, m) /\ l = Overwritten(r, m)
               /\ Segment(g, m.index, m.entries)
            \/ m.type = "MsgSnap" /\ ~Known(r, m) /\ l = m.snapshot /\ Len(m.snapshot) > 0
        <5>1. Carried(L) /\ m \in Payloads
          BY <4>1
        <5>2. m.type = "MsgApp" => Segment(g, m.index, m.entries)
          BY <4>4, <5>1 DEF Carried, CarriedBy
        <5>3. m.type = "MsgSnap" => Len(m.snapshot) \in Nat
          BY <4>3 DEF Message
        <5> QED
          BY <1>8, <4>1, <4>2, <5>2, <5>3
      <4>8. r \in RawState
        BY <4>1, <4>2
      <4>9. k <= Len(l)
        BY <1>4, <4>3, <4>5, <4>6, <4>7, <4>8, BroughtKeeps
      <4>10. Len(l) \in Nat /\ Len(g) \in Nat
        BY <4>5
      <4>11. Agree(l, g, k)
        BY <1>4, <4>5, <4>9, <4>10, AgreeLess
      <4> QED
        BY <4>2, <4>11
    <3>5. d.store.log = n.store.log \/ Adds(n, d) \/ Brought(n, d)
      BY <1>1, <1>3, <1>4, LogGoes
    <3> QED
      BY <3>2, <3>3, <3>4, <3>5
  <2>3. t = n.store.term
    BY <1>4, <1>5, <1>6, <1>10
  <2> QED
    BY <1>5, <2>1, <2>2, <2>3
<1>11. t <= d.store.term
  BY <1>4, <1>5, <1>6
<1> QED
  BY <1>3, <1>9, <1>10, <1>11 DEF AckStands

\* A log that takes the entries of an append is the log of the leader up to
\* their end.
LEMMA TakenFollows ==
    ASSUME NEW r \in RawState, NEW p \in RawState, NEW m \in Message, NEW g \in Seq(Entry), NEW L,
           Follows(r.log, L), Follows(g, L), Accepts(r, m), Taken(r, m, p),
           Segment(g, m.index, m.entries), m.logTerm = TermIn(g, m.index)
    PROVE  Agree(p.log, g, m.index + Len(m.entries))
<1>1. CASE p.log = Overwritten(r, m)
  BY <1>1, OverwrittenFollows
<1>2. CASE p.log = r.log /\ Agrees(r, m)
  <2>1. PICK e, i, k : e = m.entries /\ i = m.index /\ k = i + Len(e)
    OBVIOUS
  <2>2. /\ r.log \in Seq(Entry) /\ i \in Nat /\ e \in Seq(Entry) /\ Len(e) \in Nat
        /\ Len(r.log) \in Nat /\ Len(g) \in Nat /\ k \in Nat
    <3>1. m.entries \in Seq(Entry) /\ m.index \in Nat
      BY DEF Message
    <3>2. r.log \in Seq(Entry)
      BY DEF RawState
    <3>3. Len(e) \in Nat /\ Len(r.log) \in Nat /\ Len(g) \in Nat
      BY <2>1, <3>1, <3>2
    <3>4. k \in Nat
      BY <2>1, <3>1, <3>3
    <3> QED
      BY <2>1, <3>1, <3>2, <3>3, <3>4
  <2>3. /\ k <= Len(r.log) /\ \A j \in 1..Len(e) : TermAt(r, i + j) = e[j].term
    BY <1>2, <2>1 DEF Agrees
  <2>4. k <= Len(g) /\ \A j \in 1..Len(e) : e[j] = g[i + j]
    BY <2>1 DEF Segment
  <2>5. k # 0 => r.log[k].term = g[k].term
    <3>1. CASE Len(e) = 0
      <4>1. k = i
        BY <2>1, <2>2, <3>1
      <4> QED
        BY <2>1, <4>1 DEF Accepts, TermAt, TermIn
    <3>2. CASE Len(e) # 0
      <4>1. PICK j : j = Len(e)
        OBVIOUS
      <4>2. j \in 1..Len(e) /\ i + j = k /\ k # 0
        BY <2>1, <2>2, <3>2, <4>1
      <4>3. TermAt(r, k) = e[j].term /\ e[j] = g[k]
        BY <2>3, <2>4, <4>2
      <4> QED
        BY <4>2, <4>3 DEF TermAt
    <3> QED
      BY <3>1, <3>2
  <2>6. Agree(r.log, g, k)
    BY <2>2, <2>3, <2>4, <2>5, LogsMatch
  <2> QED
    BY <1>2, <2>1, <2>6
<1> QED
  BY <1>1, <1>2 DEF Taken

\* What a node acknowledges in a step, it holds by the end of it.
LEMMA AckComes ==
    ASSUME NodesOK, MessagesOK, Led, NEW L, LedBy(L), Following(L), Carried(L),
           NEW sent, Executed(sent), NEW M, Continues(L, M), NEW x \in Payloads', x \notin Payloads, Ack(x)
    PROVE  AckStands(x, M)'
<1>1. Acts(nodes', sent) /\ network' = network \cup sent /\ Logs(L) /\ Grown(L, M) /\ Logs(M)
  BY DEF Executed, Continues, LedBy
<1>2. PICK id \in Nodes : \E m, q : /\ Input(id, m) /\ Calls(id, nodes[id], m, nodes'[id], q)
                                    /\ x \in q.out
  BY <1>1, MessagesCome
<1>3. PICK m, q : Input(id, m) /\ Calls(id, nodes[id], m, nodes'[id], q) /\ x \in q.out
  BY <1>2
<1>4. PICK n, d, r, p : n = nodes[id] /\ d = nodes'[id] /\ r = n.raw /\ p = q.raw
  OBVIOUS
<1>5. x.from = id /\ x.term = p.term /\ Acknowledges(r, m, p, x.index)
  BY <1>3, <1>4, CallSends DEF Ack, Replicates
<1>6. m.type \in FromLeader /\ m.term = p.term
  BY <1>5 DEF Acknowledges
<1>7. m \in Payloads /\ m \in Message
  BY <1>3, <1>6 DEF Input, Hup, FromLeader
<1>8. NodeOK(id, n) /\ NodeOK(id, d)
  BY <1>1, <1>4, NodeMovesSo
<1>9. /\ r \in RawState /\ p \in RawState /\ r.log = n.store.log
      /\ d.store.term = p.term /\ d.store.log = p.log /\ d.applied = p.commit
  BY <1>3, <1>4, <1>8, CallIs
<1>10. PICK t, g : t = p.term /\ g = L[t]
  OBVIOUS
<1>11. t \in DOMAIN L /\ t \in Nat
  BY <1>6, <1>7, <1>9, <1>10 DEF Led, LedBy, RawState
<1>12. g \in Seq(Entry) /\ Follows(g, L) /\ Follows(r.log, L)
  BY <1>4, <1>9, <1>10, <1>11 DEF LedBy, Logs, Following
<1>13. ASSUME Accepts(r, m), x.index = m.index + Len(m.entries), Taken(r, m, p)
       PROVE  Agree(p.log, g, x.index)
  <2>1. m.type = "MsgApp" /\ g = L[m.term]
    BY <1>6, <1>10, <1>13 DEF Accepts
  <2>2. Segment(g, m.index, m.entries) /\ m.logTerm = TermIn(g, m.index)
    BY <1>7, <2>1 DEF Carried, CarriedBy
  <2> QED
    BY <1>7, <1>9, <1>12, <1>13, <2>2, TakenFollows
<1>14. x.index \in Nat /\ p.commit \in Nat
  <2>1. p.commit \in Nat
    BY <1>9 DEF RawState
  <2>2. x \in Message
    BY <1>1, MessagesStayOK DEF MessagesOK, Payloads, Envelope
  <2> QED
    BY <2>1, <2>2 DEF Message
<1>15. x.index <= d.applied \/ Agree(d.store.log, M[t], x.index)
  <2>1. CASE x.index = p.commit
    BY <1>9, <1>14, <2>1
  <2>2. CASE Accepts(r, m) /\ x.index = m.index + Len(m.entries) /\ Taken(r, m, p)
    <3>1. Agree(p.log, L[t], x.index)
      BY <1>10, <1>13, <2>2
    <3>2. Len(p.log) \in Nat
      BY <1>9 DEF RawState
    <3> QED
      BY <1>1, <1>9, <1>11, <1>14, <3>1, <3>2, AgreeGrown
  <2> QED
    BY <1>5, <2>1, <2>2 DEF Acknowledges
<1>16. t \in DOMAIN M
  BY <1>1, <1>11 DEF Grown
<1> QED
  BY <1>4, <1>5, <1>9, <1>10, <1>11, <1>15, <1>16 DEF AckStands

\* What a node has acknowledged in a term it still holds while that term stands.
LEMMA AcknowledgedStays ==
    ASSUME NodesOK, MessagesOK, PrefixesAgree, Snapped, Led, NEW L, LedBy(L), Following(L), Carried(L),
           Acknowledged(L), NEW sent, Executed(sent), NEW M, Continues(L, M)
    PROVE  Acknowledged(M)'
<1>1. ASSUME NEW x \in Payloads', Ack(x)
      PROVE  AckStands(x, M)'
  <2>1. CASE x \in Payloads
    BY <1>1, <2>1, AckStillStands
  <2>2. CASE x \notin Payloads
    BY <1>1, <2>2, AckComes
  <2> QED
    BY <2>1, <2>2
<1> QED
  BY <1>1 DEF Acknowledged, Ack

\* An acknowledgement in the network stays there.
LEMMA AckedStill ==
    ASSUME NEW sent, Executed(sent), NEW p, NEW t, NEW k, AckedTo(p, t, k)
    PROVE  AckedTo(p, t, k)'
<1>1. PICK a \in Payloads : Ack(a) /\ a.from = p /\ a.term = t /\ a.index >= k
  BY DEF AckedTo
<1>2. a \in Payloads'
  BY DEF Executed, Payloads
<1> QED
  BY <1>1, <1>2 DEF AckedTo, Ack

\* A leader counts an index for a follower only once it has the follower's
\* acknowledgement.
LEMMA MatchStays ==
    ASSUME NodesOK, MessagesOK, MatchKnown, NEW sent, Executed(sent)
    PROVE  MatchKnown'
<1>1. Acts(nodes', sent)
  BY DEF Executed
<1>2. ASSUME NEW id \in Nodes, NEW f \in Nodes, NEW d, d = nodes'[id], d.running, d.raw.role = "leader",
             d.raw.progress[f].match > 0
      PROVE  AckedTo(f, d.raw.term, d.raw.progress[f].match)'
  <2>1. PICK n : n = nodes[id]
    OBVIOUS
  <2>2. /\ NodeOK(id, n)
        /\ \/ d = n
           \/ Crashed(n, d)
           \/ Restarted(n, d)
           \/ \E m, q : Input(id, m) /\ Calls(id, n, m, d, q)
    BY <1>1, <1>2, <2>1, NodeMovesSo
  <2>3. CASE d = n
    <3>1. AckedTo(f, d.raw.term, d.raw.progress[f].match)
      BY <1>2, <2>1, <2>3 DEF MatchKnown
    <3> QED
      BY <3>1, AckedStill
  <2>4. CASE \E m, q : Input(id, m) /\ Calls(id, n, m, d, q)
    <3>1. PICK m, q : Input(id, m) /\ Calls(id, n, m, d, q)
      BY <2>4
    <3>2. PICK r, p : r = n.raw /\ p = q.raw
      OBVIOUS
    <3>3. /\ Worked(id, r, m, q) /\ d.raw.role = p.role /\ d.raw.term = p.term /\ n.running
          /\ d.raw.progress = p.progress /\ p.role = "leader"
      BY <1>2, <2>2, <3>1, <3>2, CallIs DEF Calls
    <3>4. MatchComes(r, m, p) /\ p.term = r.term
      BY <3>2, <3>3 DEF Worked, RoleGoes
    <3>5. \/ r.role = "leader" /\ p.progress[f].match = r.progress[f].match
          \/ /\ r.role = "leader" /\ m.type = "MsgAppResp" /\ ~m.reject /\ f = m.from
             /\ m.term = p.term /\ p.progress[f].match = m.index
      BY <1>2, <3>3, <3>4 DEF MatchComes
    <3>6. CASE r.role = "leader" /\ p.progress[f].match = r.progress[f].match
      <4>1. AckedTo(f, r.term, r.progress[f].match)
        BY <1>2, <2>1, <3>2, <3>3, <3>6 DEF MatchKnown
      <4>2. AckedTo(f, d.raw.term, d.raw.progress[f].match)
        BY <3>3, <3>4, <3>6, <4>1
      <4> QED
        BY <4>2, AckedStill
    <3>7. CASE /\ m.type = "MsgAppResp" /\ ~m.reject /\ f = m.from
               /\ m.term = p.term /\ p.progress[f].match = m.index
      <4>1. m \in Payloads /\ m \in Message
        BY <3>1, <3>7 DEF Input, Hup
      <4>2. m.index >= m.index
        BY <4>1 DEF Message
      <4>3. AckedTo(f, d.raw.term, d.raw.progress[f].match)
        BY <3>3, <3>7, <4>1, <4>2 DEF AckedTo, Ack
      <4> QED
        BY <4>3, AckedStill
    <3> QED
      BY <3>5, <3>6, <3>7
  <2> QED
    BY <1>2, <2>2, <2>3, <2>4 DEF Crashed, Restarted
<1> QED
  BY <1>2 DEF MatchKnown

\* The commit index of a heartbeat is within what its receiver acknowledged.
LEMMA HeartbeatsStayKnown ==
    ASSUME NodesOK, MessagesOK, MatchKnown, HeartbeatsKnown, NEW sent, Executed(sent)
    PROVE  HeartbeatsKnown'
<1>1. Acts(nodes', sent) /\ network' = network \cup sent /\ MessagesOK' /\ MatchKnown'
  BY MessagesStayOK, MatchStays DEF Executed
<1>2. ASSUME NEW x \in Payloads', x.type = "MsgHeartbeat", x.commit > 0
      PROVE  AckedTo(x.to, x.term, x.commit)'
  <2>1. x \in Message
    BY <1>1, <1>2 DEF MessagesOK, Payloads, Envelope
  <2>2. x.to \in Nodes /\ x.commit \in Nat
    BY <2>1 DEF Message
  <2>3. CASE x \in Payloads
    <3>1. AckedTo(x.to, x.term, x.commit)
      BY <1>2, <2>3 DEF HeartbeatsKnown
    <3> QED
      BY <3>1, AckedStill
  <2>4. CASE x \notin Payloads
    <3>1. PICK id \in Nodes : \E m, q : /\ Input(id, m) /\ Calls(id, nodes[id], m, nodes'[id], q)
                                        /\ x \in q.out
      BY <1>1, <2>4, MessagesCome
    <3>2. PICK m, q : Input(id, m) /\ Calls(id, nodes[id], m, nodes'[id], q) /\ x \in q.out
      BY <3>1
    <3>3. PICK n, d, r, p, to : n = nodes[id] /\ d = nodes'[id] /\ r = n.raw /\ p = q.raw /\ to = x.to
      OBVIOUS
    <3>4. x.term = p.term /\ p.role = "leader" /\ x.commit = MinOf(p.progress[to].match, p.commit)
      BY <1>2, <3>2, <3>3, CallSends DEF Replicates
    <3>5. NodeOK(id, n)
      BY <3>3 DEF NodesOK
    <3>6. p \in RawState /\ d.running /\ d.raw.role = p.role /\ d.raw.term = p.term /\ d.raw.progress = p.progress
      BY <3>2, <3>3, <3>5, CallIs
    <3>7. p.commit \in Nat /\ p.progress[to].match \in Nat
      BY <2>2, <3>3, <3>6 DEF RawState, Progress
    <3>8. p.progress[to].match >= x.commit
      BY <3>4, <3>7 DEF MinOf
    <3>9. p.progress[to].match > 0
      BY <1>2, <2>2, <3>7, <3>8
    <3>10. AckedTo(to, p.term, p.progress[to].match)'
      <4>1. to \in Nodes /\ d.running /\ d.raw.role = "leader" /\ d.raw.progress[to].match > 0
        BY <2>2, <3>3, <3>4, <3>6, <3>9
      <4>2. AckedTo(to, d.raw.term, d.raw.progress[to].match)'
        BY <1>1, <3>3, <4>1 DEF MatchKnown
      <4> QED
        BY <3>6, <4>2
    <3>11. PICK a \in Payloads' : Ack(a) /\ a.from = to /\ a.term = p.term /\ a.index >= p.progress[to].match
      BY <3>10 DEF AckedTo, Ack
    <3>12. a.index \in Nat
      BY <1>1, <3>11 DEF MessagesOK, Payloads, Envelope, Message
    <3>13. a.index >= x.commit
      BY <2>2, <3>7, <3>8, <3>11, <3>12
    <3> QED
      BY <3>3, <3>4, <3>11, <3>13 DEF AckedTo, Ack
  <2> QED
    BY <2>3, <2>4
<1> QED
  BY <1>2 DEF HeartbeatsKnown

\* The commit index of a heartbeat is within the receiver's log.
LEMMA HeartbeatsAreSafe ==
    ASSUME NodesOK, MessagesOK, NEW L, Acknowledged(L), HeartbeatsKnown
    PROVE  HeartbeatsSafe
<1>1. ASSUME NEW m \in Payloads, m.type = "MsgHeartbeat", m.term >= nodes[m.to].store.term
      PROVE  m.commit <= Len(nodes[m.to].store.log)
  <2>1. m \in Message
    BY <1>1 DEF MessagesOK, Payloads, Envelope
  <2>2. PICK id, n : id = m.to /\ n = nodes[id]
    OBVIOUS
  <2>3. id \in Nodes /\ m.term \in Nat /\ m.commit \in Nat
    BY <2>1, <2>2 DEF Message
  <2>4. NodeOK(id, n)
    BY <2>2, <2>3 DEF NodesOK
  <2>5. /\ n.applied \in Nat /\ Len(n.store.log) \in Nat /\ n.applied <= Len(n.store.log)
    BY <2>4, StoredIs
  <2>6. n.store.term \in Nat
    BY <2>4 DEF NodeOK, NodeState, StoreState
  <2>7. CASE m.commit = 0
    BY <2>2, <2>5, <2>7
  <2>8. CASE m.commit > 0
    <3>1. PICK a \in Payloads : Ack(a) /\ a.from = id /\ a.term = m.term /\ a.index >= m.commit
      BY <1>1, <2>2, <2>8 DEF HeartbeatsKnown, AckedTo
    <3>2. a \in Message /\ AckStands(a, L)
      BY <3>1 DEF MessagesOK, Payloads, Envelope, Acknowledged
    <3>3. /\ a.term <= n.store.term
          /\ a.term = n.store.term => a.index <= n.applied \/ Agree(n.store.log, L[a.term], a.index)
      BY <2>2, <3>1, <3>2 DEF AckStands
    <3>4. a.term = n.store.term
      BY <1>1, <2>2, <2>3, <2>6, <3>1, <3>3
    <3>5. a.index \in Nat
      BY <3>2 DEF Message
    <3>6. a.index <= Len(n.store.log)
      BY <2>5, <3>3, <3>4, <3>5 DEF Agree
    <3> QED
      BY <2>2, <2>3, <2>5, <3>1, <3>5, <3>6
  <2> QED
    BY <2>3, <2>7, <2>8
<1> QED
  BY <1>1 DEF HeartbeatsSafe

----------------------------------------------------------------------------
(* The invariant.                                                          *)

\* L has the logs of the leaders of the terms so far.
LogsKept(L) == LedBy(L) /\ Following(L) /\ Carried(L) /\ Acknowledged(L)

Silent ==
    /\ PrefixesAgree /\ Snapped /\ Led /\ MatchKnown /\ HeartbeatsKnown
    /\ \E L : LogsKept(L)

Inv ==
    /\ NodesOK /\ MessagesOK /\ VotesOnDisk /\ VotesOnce /\ TwoLeadersReported
    /\ findings = {} => Silent

\* What the nodes of a step that finds no conflict have applied agrees.
LEMMA NoConflictLeft == (NodesOK /\ PrefixFindings(nodes, Observation(nodes)) = {} => PrefixesAgree)'
<1>1. NodesOK /\ PrefixFindings(nodes, Observation(nodes)) = {} => PrefixesAgree
  BY NoConflictFound
<1> QED
  BY <1>1, PTL

\* A new node is consistent.
LEMMA NewNodeOK ==
    ASSUME NEW id \in Nodes
    PROVE  NewNode \in NodeState /\ NodeOK(id, NewNode)
<1>1. <<>> \in Seq(Entry) /\ Len(<<>>) = 0 /\ SubSeq(<<>>, 1, 0) = <<>>
  OBVIOUS
<1>2. InitStore = [term |-> 0, vote |-> None, commit |-> 0, log |-> <<>>, first |-> 1, snapshot |-> <<>>]
  BY DEF InitStore
<1>3. InitStore \in StoreState
  BY <1>1, <1>2 DEF StoreState
<1>4. PICK answers : answers = [p \in {} |-> TRUE]
  OBVIOUS
<1>5. answers \in Answers
  <2>1. {} \in SUBSET Nodes /\ [p \in {} |-> TRUE] \in [{} -> BOOLEAN]
    OBVIOUS
  <2> QED
    BY <1>4, <2>1 DEF Answers
<1>6. NewNode = [epoch |-> 1, running |-> TRUE, raw |-> InitRaw, store |-> InitStore,
                 applied |-> 0, prefixDigests |-> <<>>, lastSnapshotIndex |-> 0,
                 voteTerm |-> 0, voteResponses |-> answers, failed |-> FALSE]
  BY <1>4, Zenon DEF NewNode
<1>7. InitRaw \in RawState /\ InitRaw.role = "follower"
  BY InitRawType
<1>8. PICK n : n = NewNode
  OBVIOUS
<1>9. n \in NodeState
  BY <1>1, <1>3, <1>5, <1>6, <1>7, <1>8 DEF NodeState
<1>10. /\ n.store = InitStore /\ n.applied = 0 /\ n.prefixDigests = <<>> /\ n.lastSnapshotIndex = 0
       /\ ~n.failed /\ n.voteTerm = 0 /\ n.raw = InitRaw
  BY <1>6, <1>8
<1>11. Stored(n)
  BY <1>1, <1>2, <1>10 DEF Stored
<1>12. /\ InitRaw.term = 0 /\ InitRaw.vote = None /\ InitRaw.commit = 0 /\ InitRaw.log = <<>>
       /\ InitRaw.first = 1 /\ InitRaw.snapshot = <<>> /\ InitRaw.applied = 0 /\ ~InitRaw.restored
  BY DEF InitRaw
<1>13. OnDisk(n)
  BY <1>2, <1>10, <1>12 DEF OnDisk
<1>14. VotesShort(n.raw) /\ FaultVotes(id, n)
  BY <1>7, <1>10 DEF VotesShort, FaultVotes
<1>15. NodeOK(id, n)
  BY <1>2, <1>9, <1>10, <1>11, <1>13, <1>14 DEF NodeOK
<1> QED
  BY <1>8, <1>9, <1>15

\* The invariant holds initially.
LEMMA InvInit == Init => Inv
<1> SUFFICES ASSUME Init PROVE Inv
  OBVIOUS
<1>1. /\ nodes = [id \in Nodes |-> NewNode] /\ network = {}
      /\ leadersByTerm = [t \in {} |-> None] /\ findings = {}
  BY DEF Init, AdapterInit, OracleInit
<1>2. Payloads = {}
  BY <1>1 DEF Payloads
<1>3. NodesOK
  <2>1. nodes \in [Nodes -> NodeState]
    BY <1>1, NewNodeOK
  <2>2. \A id \in Nodes : NodeOK(id, nodes[id])
    BY <1>1, NewNodeOK
  <2> QED
    BY <2>1, <2>2 DEF NodesOK
<1>4. MessagesOK /\ VotesOnDisk /\ VotesOnce /\ TwoLeadersReported
  BY <1>1, <1>2 DEF MessagesOK, VotesOnDisk, VotesOnce, TwoLeadersReported
<1>5. ASSUME NEW id \in Nodes
      PROVE  /\ nodes[id].applied = 0 /\ nodes[id].prefixDigests = <<>> /\ nodes[id].store.log = <<>>
             /\ nodes[id].raw.role = "follower"
  <2>1. nodes[id] = NewNode
    BY <1>1
  <2>2. NewNode.applied = 0 /\ NewNode.prefixDigests = <<>> /\ NewNode.raw = InitRaw /\ NewNode.store = InitStore
    BY DEF NewNode
  <2>3. InitStore.log = <<>>
    BY DEF InitStore
  <2> QED
    BY <2>1, <2>2, <2>3, InitRawType
<1>6. DOMAIN leadersByTerm = {}
  BY <1>1
<1>7. Silent
  <2>1. PrefixesAgree
    <3>1. Len(<<>>) = 0 /\ Agree(<<>>, <<>>, 0)
      BY DEF Agree
    <3> QED
      BY <1>5, <3>1 DEF PrefixesAgree
  <2>2. Snapped /\ HeartbeatsKnown
    BY <1>2 DEF Snapped, HeartbeatsKnown
  <2>3. Led
    BY <1>2, <1>5, <1>6 DEF Led, Leads
  <2>4. MatchKnown
    BY <1>5 DEF MatchKnown
  <2>5. PICK L : L = [t \in {} |-> <<>>]
    OBVIOUS
  <2>6. DOMAIN L = {}
    BY <2>5
  <2>7. LedBy(L)
    BY <1>6, <2>6 DEF LedBy, Logs
  <2>8. \A id \in Nodes : Follows(nodes[id].store.log, L)
    <3>1. Follows(<<>>, L)
      BY DEF Follows
    <3> QED
      BY <1>5, <3>1
  <2>9. Following(L) /\ Carried(L) /\ Acknowledged(L)
    BY <1>2, <2>6, <2>8 DEF Following, Carried, Acknowledged
  <2>10. LogsKept(L)
    BY <2>7, <2>9 DEF LogsKept
  <2> QED
    BY <2>1, <2>2, <2>3, <2>4, <2>10 DEF Silent
<1> QED
  BY <1>3, <1>4, <1>7 DEF Inv

\* A step that changes nothing keeps the invariant.
LEMMA InvStutter == Inv /\ UNCHANGED clusterVars => Inv'
<1> SUFFICES ASSUME Inv, UNCHANGED clusterVars PROVE Inv'
  OBVIOUS
<1>1. nodes' = nodes /\ network' = network /\ leadersByTerm' = leadersByTerm /\ findings' = findings
  BY DEF clusterVars
<1>2. Payloads' = Payloads
  BY <1>1 DEF Payloads
<1>3. NodesOK' /\ MessagesOK'
  BY <1>1, <1>2 DEF Inv, NodesOK, MessagesOK
<1>4. VotesOnDisk' /\ VotesOnce' /\ TwoLeadersReported'
  BY <1>1, <1>2 DEF Inv, VotesOnDisk, VoteOnDisk, VotesOnce, TwoLeadersReported, Granted
<1>5. Silent => Silent'
  <2> SUFFICES ASSUME Silent PROVE Silent'
    OBVIOUS
  <2>1. PrefixesAgree' /\ Snapped'
    BY <1>1, <1>2 DEF Silent, PrefixesAgree, Snapped
  <2>2. Led'
    BY <1>1, <1>2 DEF Silent, Led
  <2>3. MatchKnown' /\ HeartbeatsKnown'
    BY <1>1, <1>2 DEF Silent, MatchKnown, HeartbeatsKnown, AckedTo
  <2>4. PICK L : LogsKept(L)
    BY DEF Silent
  <2>5. LedBy(L)' /\ Following(L)'
    BY <1>1, <2>4 DEF LogsKept, LedBy, Following
  <2>6. Carried(L)' /\ Acknowledged(L)'
    BY <1>1, <1>2, <2>4 DEF LogsKept, Carried, Acknowledged, AckStands, Ack
  <2> QED
    BY <2>1, <2>2, <2>3, <2>5, <2>6 DEF Silent, LogsKept
<1> QED
  BY <1>1, <1>3, <1>4, <1>5 DEF Inv

\* What a step begins with, in a run the oracle has not ended.
LEMMA SilentBase == Inv /\ findings = {} => Base
<1> SUFFICES ASSUME Inv, findings = {} PROVE Base
  OBVIOUS
<1>1. NodesOK /\ MessagesOK /\ HeartbeatsKnown
  BY DEF Inv, Silent
<1>2. PICK L : Acknowledged(L)
  BY DEF Inv, Silent, LogsKept
<1> QED
  BY <1>1, <1>2, HeartbeatsAreSafe DEF Base

\* A call with its check by the oracle keeps the invariant.
LEMMA InvExecuted ==
    ASSUME Inv, Base, NEW sent, Executed(sent)
    PROVE  Inv'
<1>1. /\ findings = {} /\ Acts(nodes', sent) /\ network' = network \cup sent
      /\ findings' = Check(Observation(nodes), Observation(nodes'), nodes')
  BY DEF Executed
<1>2. NodesOK /\ MessagesOK /\ VotesOnDisk /\ VotesOnce
  BY DEF Inv
<1>3. PrefixesAgree /\ Snapped /\ Led /\ MatchKnown /\ HeartbeatsKnown /\ \E L : LogsKept(L)
  BY <1>1 DEF Inv, Silent
<1>4. NodesOK'
  BY <1>1, <1>2, NodesStayOK
<1>5. MessagesOK' /\ VotesOnDisk' /\ VotesOnce'
  BY <1>1, <1>2, MessagesStayOK, VotesStayOnDisk, VotesStayOnce
<1>6. TwoLeadersReported'
  <2>1. PICK appends : appends = {e.payload : e \in {f \in network' : f.payload.type = "MsgApp"}}
    OBVIOUS
  <2>2. \A a \in appends : a \in Payloads' /\ a.type = "MsgApp"
    BY <2>1 DEF Payloads
  <2>3. \A a, b \in appends : a.term = b.term /\ a.from # b.from => "multiple_leaders_same_term" \in findings'
    BY <1>2, <1>3, <2>2, LeadersFound
  <2> QED
    BY <2>1, <2>3 DEF TwoLeadersReported
<1>7. ASSUME findings' = {}
      PROVE  Silent'
  <2>1. "multiple_leaders_same_term" \notin findings'
    BY <1>7
  <2>2. PICK o : o = Observation(nodes')
    OBVIOUS
  <2>3. PICK x : x = UNION {MonotonicFindings(Observation(nodes)[p], o[p]) \cup NodeFindings(o[p]) : p \in Nodes}
    OBVIOUS
  <2>4. findings' = x \cup LeaderFindings(o) \cup PrefixFindings(nodes', o)
    BY <1>1, <2>2, <2>3, Zenon DEF Check
  <2>5. PrefixFindings(nodes', Observation(nodes')) = {}
    BY <1>7, <2>2, <2>4
  <2>6. PrefixesAgree'
    BY <1>4, <2>5, NoConflictLeft
  <2>7. Snapped'
    BY <1>2, <1>3, SnappedStays
  <2>8. Led'
    BY <1>2, <1>3, <2>1, LedStays
  <2>9. MatchKnown' /\ HeartbeatsKnown'
    BY <1>2, <1>3, MatchStays, HeartbeatsStayKnown
  <2>10. PICK L : LogsKept(L)
    BY <1>3
  <2>11. LedBy(L) /\ Following(L) /\ Carried(L) /\ Acknowledged(L)
    BY <2>10 DEF LogsKept
  <2>12. PICK M : Continues(L, M)
    BY <1>2, <1>3, <2>1, <2>11, LogsGrow
  <2>13. LedBy(M)'
    BY <2>12 DEF Continues
  <2>14. Following(M)'
    BY <1>2, <1>3, <2>11, <2>12, FollowingStays
  <2>15. Carried(M)'
    BY <1>2, <1>3, <2>11, <2>12, CarriedStays
  <2>16. Acknowledged(M)'
    BY <1>2, <1>3, <2>11, <2>12, AcknowledgedStays
  <2>17. LogsKept(M)'
    BY <2>13, <2>14, <2>15, <2>16 DEF LogsKept
  <2> QED
    BY <2>6, <2>7, <2>8, <2>9, <2>17 DEF Silent
<1> QED
  BY <1>4, <1>5, <1>6, <1>7 DEF Inv

\* Every step keeps the invariant.
LEMMA InvNext == Inv /\ [Next]_clusterVars => Inv'
<1>1. CASE UNCHANGED clusterVars
  BY <1>1, InvStutter
<1>2. ASSUME Inv, Next
      PROVE  Inv'
  <2>1. findings = {}
    BY <1>2 DEF Next, AdvanceTime, DeliverMessage, TimeoutNode, CrashNode, RestartNode, ClientRequest,
                Execute, RunGoesOn
  <2>2. Base
    BY <1>2, <2>1, SilentBase
  <2>3. PICK sent : Executed(sent)
    BY <1>2, <2>2, NextExecutes
  <2> QED
    BY <1>2, <2>2, <2>3, InvExecuted
<1> QED
  BY <1>1, <1>2

\* Inv is an invariant of the cluster, for every set of nodes, every policy and both quorum divisors.
THEOREM Invariant == Spec => []Inv
<1> QED
  BY InvInit, InvNext, PTL DEF Spec

----------------------------------------------------------------------------
(* What the invariant shows.                                               *)

\* A node answers for one candidate per term.
THEOREM NodesVoteOnce == Spec => []OneVotePerTerm
<1>1. Inv => OneVotePerTerm
  BY VotesOnceIs DEF Inv
<1> QED
  BY <1>1, Invariant, PTL

\* Two leaders of a term whose entries reach the network are reported.
THEOREM LeadersReported == Spec => []TwoLeadersReported
<1>1. Inv => TwoLeadersReported
  BY DEF Inv
<1> QED
  BY <1>1, Invariant, PTL

\* Every node shows the digests the oracle compares, and its snapshot covers
\* what it has compacted.
THEOREM PrefixesStayAvailable == Spec => []PrefixesKept
<1>1. Inv => PrefixesKept
  BY PrefixesSeen DEF Inv
<1> QED
  BY <1>1, Invariant, PTL

\* No call of the adapter fails.
THEOREM CallsSucceed == Spec => []AdapterCallsSucceed
<1>1. Inv => AdapterCallsSucceed
  <2>1. ASSUME Inv, NEW id \in Nodes
        PROVE  ~nodes[id].failed
    <3>1. NodeOK(id, nodes[id])
      BY <2>1 DEF Inv, NodesOK
    <3> QED
      BY <3>1 DEF NodeOK, Stored
  <2> QED
    BY <2>1 DEF AdapterCallsSucceed
<1> QED
  BY <1>1, Invariant, PTL

\* What a step of the execution is.
LEMMA StepIs ==
    ASSUME Inv, Next
    PROVE  findings = {} /\ \E sent : Executed(sent)
<1>1. findings = {}
  BY DEF Next, AdvanceTime, DeliverMessage, TimeoutNode, CrashNode, RestartNode, ClientRequest,
         Execute, RunGoesOn
<1> QED
  BY <1>1, SilentBase, NextExecutes

\* What a node without memory answers for is on its disk.
LEMMA DurableIs ==
    ASSUME NEW id, NEW n, NodeOK(id, n)
    PROVE  Durable(n) = [term |-> n.store.term, vote |-> n.store.vote, log |-> n.store.log,
                         commit |-> n.applied, applied |-> n.applied]
<1>1. n.store.commit = n.applied
  BY DEF NodeOK, Stored
<1>2. CASE n.running
  <2>1. /\ n.raw.term = n.store.term /\ n.raw.vote = n.store.vote /\ n.raw.log = n.store.log
        /\ n.raw.commit = n.store.commit /\ n.raw.applied = n.applied
    BY <1>2 DEF NodeOK, OnDisk
  <2> QED
    BY <1>1, <1>2, <2>1 DEF Durable
<1>3. CASE ~n.running
  BY <1>1, <1>3 DEF Durable
<1> QED
  BY <1>2, <1>3

\* A crash or a restart keeps what is durable and what is applied.
LEMMA FailureLosesNothing ==
    ASSUME Inv, NEW sent, Executed(sent), NEW id \in Nodes, nodes[id].running # nodes'[id].running
    PROVE  /\ Durable(nodes'[id]) = Durable(nodes[id])
           /\ nodes'[id].prefixDigests = nodes[id].prefixDigests
<1>1. PICK n, d : n = nodes[id] /\ d = nodes'[id]
  OBVIOUS
<1>2. Acts(nodes', sent) /\ NodesOK
  BY DEF Executed, Inv
<1>3. /\ NodeOK(id, n) /\ NodeOK(id, d)
      /\ \/ d = n
         \/ Crashed(n, d)
         \/ Restarted(n, d)
         \/ \E m, q : Input(id, m) /\ Calls(id, n, m, d, q)
  BY <1>1, <1>2, NodeMovesSo
<1>4. /\ n.store.commit = n.applied /\ d.store.commit = d.applied
      /\ n.prefixDigests = SubSeq(n.store.log, 1, n.applied)
      /\ d.prefixDigests = SubSeq(d.store.log, 1, d.applied)
  BY <1>3 DEF NodeOK, Stored
<1>5. Crashed(n, d) \/ Restarted(n, d)
  <2>1. \A m, q : Calls(id, n, m, d, q) => n.running /\ d.running
    <3>1. ASSUME NEW m, NEW q, Calls(id, n, m, d, q)
          PROVE  n.running /\ d.running
      <4>1. n.running
        BY <3>1 DEF Calls
      <4>2. d.running
        BY <1>3, <3>1, CallIs
      <4> QED
        BY <4>1, <4>2
    <3> QED
      BY <3>1
  <2>2. n.running # d.running /\ n.running \in BOOLEAN /\ d.running \in BOOLEAN
    BY <1>1, <1>3 DEF NodeOK, NodeState
  <2>3. ~\E m, q : Input(id, m) /\ Calls(id, n, m, d, q)
    BY <2>1, <2>2
  <2>4. d # n
    BY <2>2
  <2> QED
    BY <1>3, <2>3, <2>4
<1>6. /\ d.store.term = n.store.term /\ d.store.vote = n.store.vote /\ d.store.log = n.store.log
      /\ d.applied = n.applied
  BY <1>4, <1>5 DEF Crashed, Restarted
<1>7. Durable(d) = Durable(n)
  BY <1>3, <1>6, DurableIs
<1> QED
  BY <1>1, <1>4, <1>6, <1>7

\* A crash or a restart takes nothing a node has answered for.
THEOREM FailuresLose == Spec => FailuresLoseNothing
<1>1. ASSUME Inv, [Next]_clusterVars
      PROVE  [\A id \in Nodes :
                  nodes[id].running # nodes'[id].running =>
                      /\ Durable(nodes'[id]) = Durable(nodes[id])
                      /\ nodes'[id].prefixDigests = nodes[id].prefixDigests]_nodes
  <2>1. CASE UNCHANGED clusterVars
    BY <2>1 DEF clusterVars
  <2>2. CASE Next
    <3>1. PICK sent : Executed(sent)
      BY <1>1, <2>2, StepIs
    <3> QED
      BY <1>1, <3>1, FailureLosesNothing
  <2> QED
    BY <1>1, <2>1, <2>2
<1> QED
  BY <1>1, Invariant, PTL DEF Spec, FailuresLoseNothing

\* What a node has applied stays applied, in place, while the oracle has reported nothing.
LEMMA AppliedIsKept ==
    ASSUME Inv, findings = {}, NEW sent, Executed(sent), NEW id \in Nodes
    PROVE  /\ nodes[id].applied <= nodes'[id].applied
           /\ SubSeq(nodes'[id].prefixDigests, 1, nodes[id].applied)
                  = SubSeq(nodes[id].prefixDigests, 1, nodes[id].applied)
<1>1. PICK n, d : n = nodes[id] /\ d = nodes'[id]
  OBVIOUS
<1>2. Acts(nodes', sent) /\ NodesOK /\ MessagesOK /\ PrefixesAgree /\ Snapped
  BY DEF Executed, Inv, Silent
<1>3. Extends(n, d)
  BY <1>1, <1>2, AppliedExtends
<1>4. NodeOK(id, n) /\ NodeOK(id, d)
  BY <1>1, <1>2, NodeMovesSo
<1>5. n.applied \in Nat /\ n.prefixDigests \in Seq(Entry) /\ d.prefixDigests \in Seq(Entry)
  BY <1>4, StoredIs
<1>6. /\ n.applied <= Len(n.prefixDigests) /\ n.applied <= Len(d.prefixDigests)
      /\ \A j \in 1..n.applied : d.prefixDigests[j] = n.prefixDigests[j]
  BY <1>3 DEF Extends, Agree
<1>7. SubSeq(d.prefixDigests, 1, n.applied) = SubSeq(n.prefixDigests, 1, n.applied)
  BY <1>5, <1>6, PrefixesEqual
<1> QED
  BY <1>1, <1>3, <1>7 DEF Extends

\* What a node has applied stays what it is.
THEOREM AppliedIsFinal == Spec => AppliedStays
<1>1. ASSUME Inv, [Next]_clusterVars
      PROVE  [\A id \in Nodes :
                  /\ nodes[id].applied <= nodes'[id].applied
                  /\ SubSeq(nodes'[id].prefixDigests, 1, nodes[id].applied)
                         = SubSeq(nodes[id].prefixDigests, 1, nodes[id].applied)]_nodes
  <2>1. CASE UNCHANGED clusterVars
    BY <2>1 DEF clusterVars
  <2>2. CASE Next
    <3>1. findings = {}
      BY <1>1, <2>2, StepIs
    <3>2. PICK sent : Executed(sent)
      BY <1>1, <2>2, StepIs
    <3> QED
      BY <1>1, <3>1, <3>2, AppliedIsKept
  <2> QED
    BY <1>1, <2>1, <2>2
<1> QED
  BY <1>1, Invariant, PTL DEF Spec, AppliedStays

----------------------------------------------------------------------------
(* Elections, with the quorum of raft.                                     *)

\* Node n is a candidate of term t.
Campaigning(n, t) == n.running /\ n.raw.role = "candidate" /\ n.raw.term = t

\* Node p backs candidate c of term t: it is the candidate, or has granted it
\* its vote.
Backs(p, c, t) == p = c \/ \E g \in Payloads : Granted(g) /\ g.from = p /\ g.to = c /\ g.term = t

\* Candidate c has won term t, and votes for no one else in it.
Wins(c, t) ==
    /\ \A g \in Payloads : Granted(g) /\ g.from = c /\ g.term = t => g.to = c
    /\ \E Q \in SUBSET Nodes : IsQuorum(Q) /\ \A p \in Q : Backs(p, c, t)

\* A candidate asks for votes with the end of its log; what it asked and was
\* granted in earlier terms is not of the term it campaigns in next.
VotesAsked ==
    \A m \in Payloads :
        LET n == nodes[m.from]
        IN  m.type = "MsgVote" =>
                /\ m.term <= n.store.term
                /\ Campaigning(n, m.term) => /\ m.index = Len(n.store.log)
                                             /\ m.logTerm = TermIn(n.store.log, Len(n.store.log))

VotesGranted == \A g \in Payloads : Granted(g) => g.term <= nodes[g.to].store.term

\* The votes a candidate counts have been granted to it, and its own is its own.
BallotsCounted ==
    \A id \in Nodes : \A t \in Nat :
        Campaigning(nodes[id], t) =>
            nodes[id].store.vote = id /\ \A p \in Granting(nodes[id].raw) : Backs(p, id, t)

LeadersElected ==
    \A t \in DOMAIN leadersByTerm :
        LET c == leadersByTerm[t]
        IN  Wins(c, t) /\ (nodes[c].store.term = t => nodes[c].store.vote = c)

Ballots == VotesAsked /\ VotesGranted /\ BallotsCounted /\ LeadersElected

\* Two quorums have a node in common.
LEMMA QuorumsMeet ==
    ASSUME NEW P \in SUBSET Nodes, NEW Q \in SUBSET Nodes, IsQuorum(P), IsQuorum(Q)
    PROVE  \E p \in Nodes : p \in P /\ p \in Q
<1> SUFFICES ASSUME P \cap Q = {} PROVE FALSE
  OBVIOUS
<1>1. IsFiniteSet(Nodes)
  BY VotersAssumption
<1>2. IsFiniteSet(P) /\ IsFiniteSet(Q) /\ IsFiniteSet(P \cup Q)
  BY <1>1, FS_Subset, FS_Union
<1>3. Cardinality(P \cup Q) = Cardinality(P) + Cardinality(Q) - Cardinality(P \cap Q)
  BY <1>2, FS_Union
<1>4. Cardinality(P \cap Q) = 0
  BY FS_EmptySet
<1>5. Cardinality(P \cup Q) <= Cardinality(Nodes)
  BY <1>1, FS_Subset
<1>6. /\ Cardinality(P) \in Nat /\ Cardinality(Q) \in Nat /\ Cardinality(Nodes) \in Nat
      /\ Cardinality(P \cup Q) \in Nat
  BY <1>1, <1>2, FS_CardinalityType
<1>7. 2 * Cardinality(P) > Cardinality(Nodes) /\ 2 * Cardinality(Q) > Cardinality(Nodes)
  BY DEF IsQuorum
<1>8. PICK a, b, c, u : a = Cardinality(P) /\ b = Cardinality(Q) /\ c = Cardinality(Nodes) /\ u = Cardinality(P \cup Q)
  OBVIOUS
<1>9. /\ a \in Nat /\ b \in Nat /\ c \in Nat /\ u \in Nat /\ u = a + b - 0 /\ u <= c
      /\ 2 * a > c /\ 2 * b > c
  BY <1>3, <1>4, <1>5, <1>6, <1>7, <1>8
<1> QED
  BY <1>9

\* A term has one winner.
LEMMA OneWinner ==
    ASSUME VotesOnce, NEW t, NEW a, NEW b, Wins(a, t), Wins(b, t)
    PROVE  a = b
<1>1. PICK P \in SUBSET Nodes : IsQuorum(P) /\ \A p \in P : Backs(p, a, t)
  BY DEF Wins
<1>2. PICK Q \in SUBSET Nodes : IsQuorum(Q) /\ \A p \in Q : Backs(p, b, t)
  BY DEF Wins
<1>3. PICK p \in Nodes : p \in P /\ p \in Q
  BY <1>1, <1>2, QuorumsMeet
<1>4. Backs(p, a, t) /\ Backs(p, b, t)
  BY <1>1, <1>2, <1>3
<1>5. CASE p = a
  BY <1>4, <1>5 DEF Backs, Wins
<1>6. CASE p = b
  BY <1>4, <1>6 DEF Backs, Wins
<1>7. CASE p # a /\ p # b
  <2>1. PICK g \in Payloads : Granted(g) /\ g.from = p /\ g.to = a /\ g.term = t
    BY <1>4, <1>7 DEF Backs
  <2>2. PICK h \in Payloads : Granted(h) /\ h.from = p /\ h.to = b /\ h.term = t
    BY <1>4, <1>7 DEF Backs
  <2> QED
    BY <2>1, <2>2 DEF VotesOnce
<1> QED
  BY <1>5, <1>6, <1>7

\* Two winners of one term are one node, in the next state too.
LEMMA OneWinnerNext == (\A t, a, b : VotesOnce /\ Wins(a, t) /\ Wins(b, t) => a = b)'
<1>1. \A t, a, b : VotesOnce /\ Wins(a, t) /\ Wins(b, t) => a = b
  BY OneWinner
<1> QED
  BY <1>1, PTL

\* Who backs a candidate in its term backs it after the step.
LEMMA BacksStill ==
    ASSUME NEW sent, Executed(sent), NEW p, NEW c, NEW t, Backs(p, c, t)
    PROVE  Backs(p, c, t)'
<1>1. Payloads \subseteq Payloads'
  BY DEF Executed, Payloads
<1> QED
  BY <1>1 DEF Backs, Granted

\* What makes a node a candidate leaves its log alone.
LEMMA CandidateBefore ==
    ASSUME NodesOK, NEW sent, Executed(sent), NEW id \in Nodes, NEW n, n = nodes[id],
           NEW d, d = nodes'[id], NEW t, Campaigning(d, t)
    PROVE  /\ d.store.log = n.store.log /\ d.store.term = t /\ t \in Nat
           /\ Campaigning(n, t) \/ t = n.store.term + 1
<1>1. Acts(nodes', sent) /\ d.running /\ d.raw.role = "candidate" /\ d.raw.term = t
  BY DEF Executed, Campaigning
<1>2. /\ d.raw.term = d.store.term /\ d.raw.term \in Nat
      /\ \/ n.running /\ n.raw.role = "candidate" /\ n.raw.term = d.raw.term
         \/ d.raw.term = n.store.term + 1
  BY <1>1, RolesCome
<1>3. d.store.log = n.store.log \/ Adds(n, d) \/ Brought(n, d)
  BY <1>1, LogGoes
<1>4. ~Adds(n, d) /\ ~Brought(n, d)
  BY <1>1 DEF Adds, Leads, Brought
<1> QED
  BY <1>1, <1>2, <1>3, <1>4 DEF Campaigning

\* A vote is granted to a request, by a node whose log the request is up to date
\* with.
LEMMA VoteAnswers ==
    ASSUME NodesOK, MessagesOK, NEW sent, Executed(sent),
           NEW x \in Payloads', x \notin Payloads, Granted(x), NEW d, d = nodes'[x.from],
           NEW l, l = nodes[x.from].store.log
    PROVE  /\ x.from \in Nodes /\ d.store.term = x.term /\ x.term \in Nat /\ d.store.log = l
           /\ \E m \in Payloads :
                 /\ m.type = "MsgVote" /\ m.from = x.to /\ m.term = x.term
                 /\ \/ m.logTerm > TermIn(l, Len(l))
                    \/ m.logTerm = TermIn(l, Len(l)) /\ m.index >= Len(l)
<1>1. Acts(nodes', sent) /\ network' = network \cup sent
  BY DEF Executed
<1>2. PICK id \in Nodes : \E m, q : /\ Input(id, m) /\ Calls(id, nodes[id], m, nodes'[id], q)
                                    /\ x \in q.out
  BY <1>1, MessagesCome
<1>3. PICK m, q : Input(id, m) /\ Calls(id, nodes[id], m, nodes'[id], q) /\ x \in q.out
  BY <1>2
<1>4. PICK r, p : r = nodes[id].raw /\ p = q.raw
  OBVIOUS
<1>5. x.type = "MsgVoteResp" /\ ~x.reject
  BY DEF Granted
<1>6. /\ x.from = id /\ x.term = p.term /\ m.type = "MsgVote" /\ x.to = m.from /\ m.term = p.term
      /\ p.log = r.log /\ UpToDate(p, m)
  BY <1>3, <1>4, <1>5, CallSends DEF Replicates
<1>7. NodeOK(id, nodes[id])
  BY DEF NodesOK
<1>8. /\ r.log = nodes[id].store.log /\ p \in RawState
      /\ nodes'[id].store.term = p.term /\ nodes'[id].store.log = p.log
  BY <1>3, <1>4, <1>7, CallIs
<1>9. m \in Payloads
  BY <1>3, <1>6 DEF Input, Hup
<1>10. p.term \in Nat
  BY <1>8 DEF RawState
<1>11. p.log = l
  BY <1>6, <1>8
<1>12. LastTerm(p) = TermIn(l, Len(l)) /\ LastIndex(p) = Len(l)
  BY <1>11 DEF LastTerm, LastIndex, TermAt, TermIn
<1>13. \/ m.logTerm > TermIn(l, Len(l))
       \/ m.logTerm = TermIn(l, Len(l)) /\ m.index >= Len(l)
  BY <1>6, <1>12 DEF UpToDate
<1> QED
  BY <1>6, <1>8, <1>9, <1>10, <1>11, <1>13

\* A vote request still is of a term its sender has reached, and describes the candidate's log.
LEMMA VotesStayAsked ==
    ASSUME NodesOK, MessagesOK, VotesAsked, NEW sent, Executed(sent)
    PROVE  VotesAsked'
<1>1. Acts(nodes', sent) /\ network' = network \cup sent /\ MessagesOK'
  BY MessagesStayOK DEF Executed
<1>2. ASSUME NEW x \in Payloads', x.type = "MsgVote", NEW n, n = nodes[x.from], NEW d, d = nodes'[x.from]
      PROVE  /\ x.term <= d.store.term
             /\ Campaigning(d, x.term) => /\ x.index = Len(d.store.log)
                                          /\ x.logTerm = TermIn(d.store.log, Len(d.store.log))
  <2>1. x.from \in Nodes /\ x.term \in Nat
    BY <1>1, <1>2 DEF MessagesOK, Payloads, Envelope, Message
  <2>2. CASE x \in Payloads
    <3>1. /\ x.term <= n.store.term
          /\ Campaigning(n, x.term) => /\ x.index = Len(n.store.log)
                                       /\ x.logTerm = TermIn(n.store.log, Len(n.store.log))
      BY <1>2, <2>2 DEF VotesAsked
    <3>2. n.store.term \in Nat /\ d.store.term \in Nat /\ n.store.term <= d.store.term
      BY <1>1, <1>2, <2>1, TermsRise
    <3>3. ASSUME Campaigning(d, x.term)
          PROVE  d.store.log = n.store.log /\ Campaigning(n, x.term)
      <4>1. /\ d.store.log = n.store.log
            /\ Campaigning(n, x.term) \/ x.term = n.store.term + 1
        BY <1>2, <2>1, <3>3, CandidateBefore
      <4> QED
        BY <2>1, <3>1, <3>2, <4>1
    <3>4. x.term <= d.store.term
      BY <2>1, <3>1, <3>2
    <3> QED
      BY <3>1, <3>3, <3>4
  <2>3. CASE x \notin Payloads
    <3>1. PICK id \in Nodes : \E m, q : /\ Input(id, m) /\ Calls(id, nodes[id], m, nodes'[id], q)
                                        /\ x \in q.out
      BY <1>1, <2>3, MessagesCome
    <3>2. PICK m, q : Input(id, m) /\ Calls(id, nodes[id], m, nodes'[id], q) /\ x \in q.out
      BY <3>1
    <3>3. PICK r, p : r = nodes[id].raw /\ p = q.raw
      OBVIOUS
    <3>4. x.from = id /\ x.term = p.term /\ x.index = LastIndex(p) /\ x.logTerm = LastTerm(p)
      BY <1>2, <3>2, <3>3, CallSends DEF Replicates
    <3>5. NodeOK(id, nodes[id])
      BY DEF NodesOK
    <3>6. d.store.term = p.term /\ d.store.log = p.log
      BY <1>2, <3>2, <3>3, <3>4, <3>5, CallIs
    <3>7. x.index = Len(d.store.log) /\ x.logTerm = TermIn(d.store.log, Len(d.store.log))
      BY <3>4, <3>6 DEF LastIndex, LastTerm, TermAt, TermIn
    <3> QED
      BY <2>1, <3>4, <3>6, <3>7
  <2> QED
    BY <2>2, <2>3
<1> QED
  BY <1>2 DEF VotesAsked, Campaigning

\* A candidate that was granted a vote still has reached the term of the grant.
LEMMA VotesStayGranted ==
    ASSUME NodesOK, MessagesOK, VotesAsked, VotesGranted, NEW sent, Executed(sent)
    PROVE  VotesGranted'
<1>1. Acts(nodes', sent) /\ network' = network \cup sent /\ MessagesOK'
  BY MessagesStayOK DEF Executed
<1>2. ASSUME NEW x \in Payloads', Granted(x)
      PROVE  x.term <= nodes'[x.to].store.term
  <2>1. x.to \in Nodes /\ x.term \in Nat
    BY <1>1 DEF MessagesOK, Payloads, Envelope, Message
  <2>2. /\ nodes[x.to].store.term \in Nat /\ nodes'[x.to].store.term \in Nat
        /\ nodes[x.to].store.term <= nodes'[x.to].store.term
    BY <1>1, <2>1, TermsRise
  <2>3. x.term <= nodes[x.to].store.term
    <3>1. CASE x \in Payloads
      BY <1>2, <3>1 DEF VotesGranted
    <3>2. CASE x \notin Payloads
      <4>1. PICK m \in Payloads : m.type = "MsgVote" /\ m.from = x.to /\ m.term = x.term
        BY <1>2, <3>2, VoteAnswers
      <4> QED
        BY <4>1 DEF VotesAsked
    <3> QED
      BY <3>1, <3>2
  <2> QED
    BY <2>1, <2>2, <2>3
<1> QED
  BY <1>2 DEF VotesGranted, Granted

\* A campaigning node still voted for itself, and what it counts are votes cast for it.
LEMMA BallotsStayCounted ==
    ASSUME VoteQuorumDivisor = 2, NodesOK, MessagesOK, BallotsCounted, NEW sent, Executed(sent)
    PROVE  BallotsCounted'
<1>1. Acts(nodes', sent)
  BY DEF Executed
<1>2. ASSUME NEW id \in Nodes, NEW t \in Nat, NEW d, d = nodes'[id], Campaigning(d, t)
      PROVE  d.store.vote = id /\ \A f \in Granting(d.raw) : Backs(f, id, t)'
  <2>1. PICK n : n = nodes[id]
    OBVIOUS
  <2>2. /\ NodeOK(id, n)
        /\ \/ d = n
           \/ Crashed(n, d)
           \/ Restarted(n, d)
           \/ \E m, q : Input(id, m) /\ Calls(id, n, m, d, q)
    BY <1>1, <1>2, <2>1, NodeMovesSo
  <2>3. CASE d = n
    <3>1. d.store.vote = id /\ \A f \in Granting(d.raw) : Backs(f, id, t)
      BY <1>2, <2>1, <2>3 DEF BallotsCounted
    <3> QED
      BY <3>1, BacksStill
  <2>4. CASE \E m, q : Input(id, m) /\ Calls(id, n, m, d, q)
    <3>1. PICK m, q : Input(id, m) /\ Calls(id, n, m, d, q)
      BY <2>4
    <3>2. PICK r, p : r = n.raw /\ p = q.raw
      OBVIOUS
    <3>3. /\ Worked(id, r, m, q) /\ d.raw.role = p.role /\ d.raw.term = p.term /\ n.running
          /\ d.raw.votes = p.votes /\ d.store.vote = p.vote /\ r.vote = n.store.vote
      BY <2>2, <3>1, <3>2, CallIs DEF Calls
    <3>4. p.role = "candidate" /\ p.term = t
      BY <1>2, <3>3 DEF Campaigning
    <3>5. RoleComes(id, r, m, p) /\ VoteKept(r, p)
      BY <3>2, <3>3 DEF Worked
    <3>6. Granting(d.raw) = Granting(p)
      BY <3>3 DEF Granting
    <3>7. CASE r.role = "candidate" /\ p.term = r.term /\ VotesCome(r, m, p)
      <4>1. Campaigning(n, t)
        BY <3>2, <3>3, <3>4, <3>7 DEF Campaigning
      <4>2. n.store.vote = id /\ \A f \in Granting(r) : Backs(f, id, t)
        BY <2>1, <3>2, <4>1 DEF BallotsCounted
      <4>3. id # None
        BY VotersAssumption
      <4>4. p.vote = id
        BY <3>3, <3>5, <3>7, <4>2, <4>3 DEF VoteKept
      <4>5. CASE p.votes = r.votes
        <5>1. Granting(p) = Granting(r)
          BY <4>5 DEF Granting
        <5> QED
          BY <3>3, <3>6, <4>2, <4>4, <5>1, BacksStill
      <4>6. CASE m.type = "MsgVoteResp" /\ m.term = r.term /\ p.votes = Counted(r, m)
        <5>1. m \in Payloads /\ m.to = id
          BY <3>1, <4>6 DEF Input, Hup
        <5>2. ASSUME NEW f \in Granting(p)
              PROVE  Backs(f, id, t)
          <6>1. f \in DOMAIN p.votes /\ p.votes[f]
            BY <5>2 DEF Granting
          <6>2. CASE f \in DOMAIN r.votes
            <7>1. p.votes[f] = r.votes[f]
              BY <4>6, <6>1, <6>2 DEF Counted
            <7> QED
              BY <4>2, <6>1, <6>2, <7>1 DEF Granting
          <6>3. CASE f \notin DOMAIN r.votes
            <7>1. p.votes[f] = ~m.reject /\ f = m.from
              BY <4>6, <6>1, <6>3 DEF Counted
            <7>2. Granted(m) /\ m.term = t
              BY <3>4, <3>7, <4>6, <6>1, <7>1 DEF Granted
            <7> QED
              BY <5>1, <7>1, <7>2 DEF Backs
          <6> QED
            BY <6>2, <6>3
        <5> QED
          BY <3>3, <3>6, <4>4, <5>2, BacksStill
      <4> QED
        BY <3>7, <4>5, <4>6 DEF VotesCome
    <3>8. CASE Campaigns(id, r, m, p)
      <4>1. p.vote = id /\ \A f \in Granting(p) : f = id
        BY <3>8 DEF Campaigns, Granting
      <4> QED
        BY <3>3, <3>6, <4>1 DEF Backs
    <3> QED
      BY <3>4, <3>5, <3>7, <3>8 DEF RoleComes
  <2> QED
    BY <1>2, <2>2, <2>3, <2>4 DEF Crashed, Restarted, Campaigning
<1> QED
  BY <1>2 DEF BallotsCounted, Campaigning

\* A node that leads has led before, or the votes of a quorum have just come in.
LEMMA LeaderElected ==
    ASSUME VoteQuorumDivisor = 2, NodesOK, MessagesOK, BallotsCounted, NEW sent, Executed(sent),
           NEW id \in Nodes, NEW n, n = nodes[id], NEW d, d = nodes'[id], NEW t, Leads(d, t)
    PROVE  \/ Leads(n, t)
           \/ /\ Campaigning(n, t) /\ t = n.store.term /\ t \in Nat
              /\ d.store.term = t /\ d.store.vote = id
              /\ \E Q \in SUBSET Nodes : IsQuorum(Q) /\ \A p \in Q : Backs(p, id, t)
<1>1. Acts(nodes', sent)
  BY DEF Executed
<1>2. /\ NodeOK(id, n)
      /\ \/ d = n
         \/ Crashed(n, d)
         \/ Restarted(n, d)
         \/ \E m, q : Input(id, m) /\ Calls(id, n, m, d, q)
  BY <1>1, NodeMovesSo
<1>3. CASE \E m, q : Input(id, m) /\ Calls(id, n, m, d, q)
  <2>1. PICK m, q : Input(id, m) /\ Calls(id, n, m, d, q)
    BY <1>3
  <2>2. PICK r, p : r = n.raw /\ p = q.raw
    OBVIOUS
  <2>3. /\ Worked(id, r, m, q) /\ d.raw.role = p.role /\ d.raw.term = p.term /\ n.running
        /\ r \in RawState /\ r.term = n.store.term
        /\ d.store.vote = p.vote /\ d.store.term = p.term /\ r.vote = n.store.vote
    BY <1>2, <2>1, <2>2, CallIs DEF Calls
  <2>4. p.role = "leader" /\ p.term = t
    BY <2>3 DEF Leads
  <2>5. RoleComes(id, r, m, p) /\ VoteKept(r, p)
    BY <2>2, <2>3 DEF Worked
  <2>6. CASE r.role = "leader" /\ p.term = r.term
    BY <2>2, <2>3, <2>4, <2>6 DEF Leads
  <2>7. CASE Elected(r, m, p)
    <3>1. r.term = t /\ t \in Nat /\ Campaigning(n, t)
      BY <2>2, <2>3, <2>4, <2>7 DEF Elected, Campaigning, RawState
    <3>2. n.store.vote = id /\ \A f \in Granting(r) : Backs(f, id, t)
      BY <2>2, <3>1 DEF BallotsCounted
    <3>3. p.vote = id
      <4>1. id # None
        BY VotersAssumption
      <4> QED
        BY <2>3, <2>4, <2>5, <3>1, <3>2, <4>1 DEF VoteKept
    <3>4. m.type = "MsgVoteResp" /\ m.term = r.term /\ ~m.reject
      BY <2>7 DEF Elected
    <3>5. m \in Payloads /\ m.to = id /\ m \in Message
      BY <2>1, <3>4 DEF Input, Hup
    <3>6. Granted(m)
      BY <3>4 DEF Granted
    <3>7. PICK Q : Q = {f \in DOMAIN Counted(r, m) : Counted(r, m)[f]}
      OBVIOUS
    <3>8. IsQuorum(Q)
      BY <2>7, <3>7 DEF Elected
    <3>9. DOMAIN r.votes \subseteq Nodes /\ m.from \in Nodes
      BY <2>3, <3>5 DEF RawState, Answers, Message
    <3>10. ASSUME NEW f \in Q
           PROVE  f \in Nodes /\ Backs(f, id, t)
      <4>1. f \in DOMAIN r.votes \cup {m.from} /\ Counted(r, m)[f]
        BY <3>7, <3>10 DEF Counted
      <4>2. CASE f \in DOMAIN r.votes
        <5>1. Counted(r, m)[f] = r.votes[f]
          BY <4>2 DEF Counted
        <5> QED
          BY <3>2, <3>9, <4>1, <4>2, <5>1 DEF Granting
      <4>3. CASE f \notin DOMAIN r.votes
        BY <3>1, <3>4, <3>5, <3>6, <3>9, <4>1, <4>3 DEF Backs
      <4> QED
        BY <4>2, <4>3
    <3> QED
      BY <2>3, <2>4, <3>1, <3>3, <3>8, <3>10
  <2> QED
    BY <2>4, <2>5, <2>6, <2>7 DEF RoleComes
<1> QED
  BY <1>2, <1>3 DEF Crashed, Restarted, Leads

\* The winner of a term stays its only winner.
LEMMA WinnersStay ==
    ASSUME NodesOK, MessagesOK, Led, LeadersElected, NEW sent, Executed(sent),
           NEW t \in DOMAIN leadersByTerm, NEW c, c = leadersByTerm[t]
    PROVE  Wins(c, t)' /\ (nodes'[c].store.term = t => nodes'[c].store.vote = c)
<1>1. Acts(nodes', sent) /\ network' = network \cup sent
  BY DEF Executed
<1>2. c \in Nodes /\ t \in Nat /\ t <= nodes[c].store.term
  BY DEF Led
<1>3. Wins(c, t) /\ (nodes[c].store.term = t => nodes[c].store.vote = c)
  BY DEF LeadersElected
<1>4. /\ nodes[c].store.term \in Nat /\ nodes'[c].store.term \in Nat
      /\ nodes[c].store.term <= nodes'[c].store.term
      /\ nodes'[c].store.term = nodes[c].store.term /\ nodes[c].store.vote # None
           => nodes'[c].store.vote = nodes[c].store.vote
  BY <1>1, <1>2, TermsRise
<1>5. c # None
  BY <1>2, VotersAssumption
<1>6. nodes'[c].store.term = t => nodes'[c].store.vote = c
  BY <1>2, <1>3, <1>4, <1>5
<1>7. ASSUME NEW g \in Payloads', Granted(g), g.from = c, g.term = t
      PROVE  g.to = c
  <2>1. CASE g \in Payloads
    BY <1>3, <1>7, <2>1 DEF Wins
  <2>2. CASE g \notin Payloads
    <3>1. g.term = nodes'[g.from].store.term /\ nodes'[g.from].store.vote = g.to
      BY <1>1, <1>7, <2>2, VoteComes
    <3> QED
      BY <1>6, <1>7, <3>1
  <2> QED
    BY <2>1, <2>2
<1>8. PICK Q \in SUBSET Nodes : IsQuorum(Q) /\ \A p \in Q : Backs(p, c, t)
  BY <1>3 DEF Wins
<1>9. \A p \in Q : Backs(p, c, t)'
  BY <1>8, BacksStill
<1> QED
  BY <1>6, <1>7, <1>8, <1>9 DEF Wins, Granted

\* A node that leads has won.
LEMMA LeaderWins ==
    ASSUME VoteQuorumDivisor = 2, NodesOK, MessagesOK, VotesOnDisk, Led, BallotsCounted, LeadersElected,
           NEW sent, Executed(sent), NEW id \in Nodes, NEW t, Leads(nodes'[id], t)
    PROVE  Wins(id, t)' /\ (nodes'[id].store.term = t => nodes'[id].store.vote = id)
<1>1. Acts(nodes', sent) /\ network' = network \cup sent
  BY DEF Executed
<1>2. PICK n, d : n = nodes[id] /\ d = nodes'[id]
  OBVIOUS
<1>3. CASE Leads(n, t)
  <2>1. NodeOK(id, n)
    BY <1>2 DEF NodesOK
  <2>2. t \in Nat
    BY <1>3, <2>1 DEF NodeOK, OnDisk, NodeState, StoreState, Leads
  <2>3. t \in DOMAIN leadersByTerm /\ leadersByTerm[t] = id
    BY <1>2, <1>3, <2>2 DEF Led
  <2> QED
    BY <2>3, WinnersStay
<1>4. CASE /\ d.store.term = t /\ d.store.vote = id
           /\ \E Q \in SUBSET Nodes : IsQuorum(Q) /\ \A p \in Q : Backs(p, id, t)
  <2>1. PICK Q \in SUBSET Nodes : IsQuorum(Q) /\ \A p \in Q : Backs(p, id, t)
    BY <1>4
  <2>2. \A p \in Q : Backs(p, id, t)'
    BY <2>1, BacksStill
  <2>3. VotesOnDisk'
    BY <1>1, VotesStayOnDisk
  <2>4. \A g \in Payloads' : Granted(g) /\ g.from = id /\ g.term = t => g.to = id
    BY <1>2, <1>4, <2>3 DEF VotesOnDisk, VoteOnDisk, Granted
  <2> QED
    BY <1>2, <1>4, <2>1, <2>2, <2>4 DEF Wins, Granted
<1> QED
  BY <1>2, <1>3, <1>4, LeaderElected

\* A leader still is a winner of its term, and the one the oracle knows.
LEMMA LeadersStayElected ==
    ASSUME VoteQuorumDivisor = 2, NodesOK, MessagesOK, VotesOnDisk, VotesOnce, Led, BallotsCounted,
           LeadersElected, NEW sent, Executed(sent)
    PROVE  /\ LeadersElected'
           /\ \A id \in Nodes : \A t : Leads(nodes'[id], t) => leadersByTerm'[t] = id
<1>1. Acts(nodes', sent) /\ network' = network \cup sent
  BY DEF Executed
<1>2. PICK o, f : o = Observation(nodes') /\ f = KnownLeaders(o)
  OBVIOUS
<1>3. f = leadersByTerm'
  BY <1>2 DEF Executed
<1>4. /\ \A t \in DOMAIN leadersByTerm : t \in DOMAIN f /\ f[t] = leadersByTerm[t]
      /\ \A t \in DOMAIN f : t \in DOMAIN leadersByTerm \/ (f[t] \in Leading(o) /\ o[f[t]].term = t)
  BY <1>2, KnownLeadersAre
<1>5. ASSUME NEW t \in DOMAIN f, NEW c, c = f[t]
      PROVE  Wins(c, t)' /\ (nodes'[c].store.term = t => nodes'[c].store.vote = c)
  <2>1. CASE t \in DOMAIN leadersByTerm
    BY <1>4, <1>5, <2>1, WinnersStay
  <2>2. CASE t \notin DOMAIN leadersByTerm
    <3>1. c \in Leading(o) /\ o[c].term = t
      BY <1>4, <1>5, <2>2
    <3>2. c \in Nodes
      BY <3>1 DEF Leading
    <3>3. Leads(nodes'[c], t)
      BY <1>2, <3>1, <3>2, LeadingIs DEF Leads
    <3> QED
      BY <3>2, <3>3, LeaderWins
  <2> QED
    BY <2>1, <2>2
<1>6. LeadersElected'
  BY <1>3, <1>5 DEF LeadersElected
<1>7. VotesOnce'
  BY <1>1, VotesStayOnce
<1>8. ASSUME NEW id \in Nodes, NEW t, Leads(nodes'[id], t)
      PROVE  f[t] = id
  <2>1. t \in DOMAIN f
    BY <1>3, <1>8, LeaderIsKnown
  <2>2. Wins(id, t)'
    BY <1>8, LeaderWins
  <2>3. PICK c : c = f[t]
    OBVIOUS
  <2>4. Wins(c, t)'
    BY <1>5, <2>1, <2>3
  <2>5. \A a, b : VotesOnce' /\ Wins(a, t)' /\ Wins(b, t)' => a = b
    BY OneWinnerNext
  <2> QED
    BY <1>7, <2>2, <2>3, <2>4, <2>5
<1> QED
  BY <1>3, <1>6, <1>8

\* No second leader is found.
LEMMA NoSecondLeader ==
    ASSUME VoteQuorumDivisor = 2, NodesOK, MessagesOK, VotesOnDisk, VotesOnce, Led, BallotsCounted,
           LeadersElected, NEW sent, Executed(sent)
    PROVE  LeaderFindings(Observation(nodes')) = {}
<1>1. PICK o, f : o = Observation(nodes') /\ f = KnownLeaders(o)
  OBVIOUS
<1>2. f = leadersByTerm'
  BY <1>1 DEF Executed
<1>3. ASSUME NEW id \in Leading(o)
      PROVE  f[o[id].term] = id
  <2>1. id \in Nodes
    BY <1>3 DEF Leading
  <2>2. PICK t : t = o[id].term
    OBVIOUS
  <2>3. Leads(nodes'[id], t)
    BY <1>1, <1>3, <2>1, <2>2, LeadingIs DEF Leads
  <2> QED
    BY <1>2, <2>1, <2>2, <2>3, LeadersStayElected
<1>4. LeaderFindings(o) = Found(\E p \in Leading(o) : f[o[p].term] # p, "multiple_leaders_same_term")
  BY <1>1, Zenon DEF LeaderFindings
<1> QED
  BY <1>1, <1>3, <1>4 DEF Found

----------------------------------------------------------------------------
(* What a quorum holds.  An entry of the term of the log it is in has a    *)
(* place (u, k): index k of the log of the leader of term u.               *)

Slot(L, u, k) == u \in DOMAIN L /\ k \in 1..Len(L[u]) /\ L[u][k].term = u

\* Node p has the place: it is the leader, or has acknowledged it.
Has(p, u, k) == p = leadersByTerm[u] \/ AckedTo(p, u, k)

\* A quorum has the place: it can be committed.
Chosen(u, k) == \E Q \in SUBSET Nodes : IsQuorum(Q) /\ \A p \in Q : Has(p, u, k)

\* A leader of a later term, up to t, does not have the place in its log.
Lost(L, u, k, t) == \E w \in DOMAIN L : u < w /\ w <= t /\ ~Agree(L[w], L[u], k)

\* Log l has the place, unless a leader up to term t has lost it.
Keeps(l, L, u, k, t) == Agree(l, L[u], k) \/ Lost(L, u, k, t)

\* Log l has the places of earlier terms than t that node p has.
Knows(l, L, p, t, b) == \A u, k : Slot(L, u, k) /\ u < t /\ Has(p, u, k) => Keeps(l, L, u, k, b)

\* What is committed is what a quorum has up to a place of a term up to t.
Certified(l, L, c, t) ==
    c = 0 \/ \E u, k : Slot(L, u, k) /\ u <= t /\ c <= k /\ Chosen(u, k) /\ Agree(l, L[u], c)

TermsBounded(L) ==
    /\ \A t \in DOMAIN L : \A k \in 1..Len(L[t]) : L[t][k].term <= t
    /\ \A id \in Nodes : \A k \in 1..Len(nodes[id].store.log) :
           nodes[id].store.log[k].term <= nodes[id].store.term

AcksBounded(L) == \A a \in Payloads : Ack(a) => a.index <= Len(L[a.term])

\* What a node has acknowledged it keeps, whatever leader it follows next.
HoldersKeep(L) ==
    \A p \in Nodes : \A u, k :
        Slot(L, u, k) /\ Has(p, u, k)
            => /\ u <= nodes[p].store.term
               /\ Keeps(nodes[p].store.log, L, u, k, nodes[p].store.term)

\* A candidate has the places of those that back it, and so has the leader of
\* a term those of the quorum that elected it.
CandidatesKnow(L) ==
    \A id \in Nodes : \A t \in Nat : \A p \in Nodes :
        Campaigning(nodes[id], t) /\ Backs(p, id, t) => Knows(nodes[id].store.log, L, p, t, t)

LeadersKnow(L) ==
    \A t \in DOMAIN L : \E Q \in SUBSET Nodes :
        IsQuorum(Q) /\ \A p \in Q : t <= nodes[p].store.term /\ Knows(L[t], L, p, t, t - 1)

CommitsCertified(L) ==
    \A id \in Nodes :
        Certified(nodes[id].store.log, L, nodes[id].applied, nodes[id].store.term)

MessagesCertified(L) ==
    \A m \in Payloads :
        /\ m.type \in {"MsgApp", "MsgHeartbeat"} => Certified(L[m.term], L, m.commit, m.term)
        /\ m.type = "MsgSnap" => Certified(m.snapshot, L, Len(m.snapshot), m.term)

Quorate(L) ==
    /\ TermsBounded(L) /\ AcksBounded(L) /\ HoldersKeep(L) /\ CandidatesKnow(L) /\ LeadersKnow(L)
    /\ CommitsCertified(L) /\ MessagesCertified(L)

\* The logs of the leaders grow by entries of their own terms.
GrowsTo(L, M) ==
    /\ Logs(L) /\ Logs(M) /\ DOMAIN M \subseteq Nat /\ Grown(L, M)
    /\ \A t \in DOMAIN L : \A k \in 1..Len(M[t]) : k <= Len(L[t]) \/ M[t][k].term = t

\* A place of a leader's log is a place of the grown log, with the same entries up to it.
LEMMA SlotGrown ==
    ASSUME NEW L, NEW M, GrowsTo(L, M), NEW u, NEW k, Slot(L, u, k)
    PROVE  Slot(M, u, k) /\ Agree(L[u], M[u], k) /\ k \in Nat /\ u \in Nat
<1>1. u \in DOMAIN L /\ k \in 1..Len(L[u]) /\ L[u][k].term = u
  BY DEF Slot
<1>2. PICK a, b : a = L[u] /\ b = M[u]
  OBVIOUS
<1>3. a \in Seq(Entry) /\ b \in Seq(Entry) /\ u \in DOMAIN M /\ u \in Nat /\ Agree(a, b, Len(a))
  BY <1>1, <1>2 DEF GrowsTo, Logs, Grown
<1>4. Len(a) \in Nat /\ Len(b) \in Nat /\ k \in Nat /\ k <= Len(a) /\ 1 <= k
  BY <1>1, <1>2, <1>3
<1>5. Agree(a, b, k)
  BY <1>3, <1>4, AgreeLess
<1>6. k \in 1..Len(b) /\ a[k] = b[k]
  BY <1>4, <1>5 DEF Agree
<1> QED
  BY <1>1, <1>2, <1>3, <1>4, <1>5, <1>6 DEF Slot

\* A place that is lost stays lost.
LEMMA LostGrown ==
    ASSUME NEW L, NEW M, GrowsTo(L, M), NEW u, NEW k, Slot(L, u, k), NEW t \in Int, Lost(L, u, k, t)
    PROVE  Lost(M, u, k, t)
<1>1. Slot(M, u, k) /\ Agree(L[u], M[u], k) /\ k \in Nat /\ u \in Nat /\ k >= 1
  BY SlotGrown DEF Slot
<1>2. PICK w \in DOMAIN L : u < w /\ w <= t /\ ~Agree(L[w], L[u], k)
  BY DEF Lost
<1>3. PICK a, b, c, e : a = L[w] /\ b = M[w] /\ c = L[u] /\ e = M[u]
  OBVIOUS
<1>4. w \in DOMAIN M /\ w \in Nat /\ a \in Seq(Entry) /\ b \in Seq(Entry) /\ Agree(a, b, Len(a))
  BY <1>2, <1>3 DEF GrowsTo, Logs, Grown
<1>5. Len(a) \in Nat /\ Len(b) \in Nat
  BY <1>4
<1>6. ASSUME Agree(b, e, k)
      PROVE  FALSE
  <2>1. Agree(b, c, k)
    BY <1>1, <1>3, <1>6, AgreeBack, AgreeBoth
  <2>2. CASE k <= Len(a)
    <3>1. Agree(a, b, k)
      BY <1>1, <1>4, <1>5, <2>2, AgreeLess
    <3> QED
      BY <1>2, <1>3, <2>1, <3>1, AgreeBoth
  <2>3. CASE k > Len(a)
    <3>1. k \in 1..Len(b) /\ b[k] = c[k]
      BY <1>1, <1>5, <2>1 DEF Agree
    <3>2. k <= Len(L[w]) \/ M[w][k].term = w
      BY <1>2, <1>3, <3>1 DEF GrowsTo
    <3>3. b[k].term = w
      BY <1>1, <1>3, <1>5, <2>3, <3>2
    <3>4. c[k].term = u
      BY <1>3 DEF Slot
    <3> QED
      BY <1>1, <1>2, <1>4, <3>1, <3>3, <3>4
  <2> QED
    BY <1>1, <1>5, <2>2, <2>3
<1> QED
  BY <1>2, <1>3, <1>4, <1>6 DEF Lost

\* A place that is kept stays kept, while the log only grows.
LEMMA KeepsGrown ==
    ASSUME NEW L, NEW M, GrowsTo(L, M), NEW u, NEW k, Slot(L, u, k), NEW t \in Int, NEW l, NEW g,
           Keeps(l, L, u, k, t), Agree(l, L[u], k) => Agree(g, L[u], k)
    PROVE  Keeps(g, M, u, k, t)
<1>1. CASE Agree(l, L[u], k)
  <2>1. Agree(L[u], M[u], k)
    BY SlotGrown
  <2> QED
    BY <1>1, <2>1, AgreeBoth DEF Keeps
<1>2. CASE Lost(L, u, k, t)
  BY <1>2, LostGrown DEF Keeps
<1> QED
  BY <1>1, <1>2 DEF Keeps

\* A log that keeps a place for the leaders up to a term does so up to a later one.
LEMMA KeepsLater ==
    ASSUME NEW l, NEW L, DOMAIN L \subseteq Nat, NEW u, NEW k, NEW t \in Nat, NEW b \in Nat, t <= b,
           Keeps(l, L, u, k, t)
    PROVE  Keeps(l, L, u, k, b)
<1>1. ASSUME NEW w \in DOMAIN L, w <= t
      PROVE  w <= b
  BY <1>1
<1> QED
  BY <1>1 DEF Keeps, Lost

\* A log that agrees with another where that one ends.
LEMMA AgreeLonger ==
    ASSUME NEW l, NEW g, NEW x, NEW k \in Nat, Len(l) \in Nat, Len(g) \in Nat, Agree(l, g, Len(l)), Agree(l, x, k)
    PROVE  Agree(g, x, k)
<1>1. k <= Len(l)
  BY DEF Agree
<1>2. Agree(l, g, k)
  BY <1>1, AgreeLess
<1> QED
  BY <1>2, AgreeBack, AgreeBoth

\* What a quorum has, every later leader has: the first to lose it would have
\* been elected by a node that has it.
ChosenStay(L) ==
    \A u, k : Slot(L, u, k) /\ Chosen(u, k) => \A t \in DOMAIN L : u <= t => Agree(L[t], L[u], k)

\* A place a quorum has is in the log of every later leader: the first leader that lacked it would have been elected by one of the quorum.
LEMMA ChosenStays ==
    ASSUME NEW L, Logs(L), DOMAIN L \subseteq Nat, LeadersKnow(L)
    PROVE  ChosenStay(L)
<1> SUFFICES ASSUME NEW u, NEW k, Slot(L, u, k), Chosen(u, k), NEW t \in DOMAIN L, u <= t, ~Agree(L[t], L[u], k)
             PROVE  FALSE
  BY DEF ChosenStay
<1>1. u \in DOMAIN L /\ u \in Nat /\ k \in 1..Len(L[u]) /\ L[u] \in Seq(Entry)
  BY DEF Slot, Logs
<1>2. Agree(L[u], L[u], k)
  <2>1. k \in Nat /\ Len(L[u]) \in Nat /\ k <= Len(L[u])
    BY <1>1
  <2>2. Agree(L[u], L[u], Len(L[u]))
    BY <2>1, AgreeWhole
  <2> QED
    BY <2>1, <2>2, AgreeLess
<1>3. PICK S : S = {w \in DOMAIN L : u < w /\ ~Agree(L[w], L[u], k)}
  OBVIOUS
<1>4. t \in S /\ S \subseteq Nat
  BY <1>1, <1>2, <1>3
<1>5. PICK w \in S : \A v \in S : w <= v
  BY <1>4, LeastElement
<1>6. w \in DOMAIN L /\ u < w /\ ~Agree(L[w], L[u], k) /\ w \in Nat
  BY <1>3, <1>5
<1>7. PICK Q \in SUBSET Nodes : IsQuorum(Q) /\ \A p \in Q : Knows(L[w], L, p, w, w - 1)
  BY <1>6 DEF LeadersKnow
<1>8. PICK P \in SUBSET Nodes : IsQuorum(P) /\ \A p \in P : Has(p, u, k)
  BY DEF Chosen
<1>9. PICK p \in Nodes : p \in P /\ p \in Q
  BY <1>7, <1>8, QuorumsMeet
<1>10. Keeps(L[w], L, u, k, w - 1)
  BY <1>6, <1>7, <1>8, <1>9 DEF Knows
<1>11. Lost(L, u, k, w - 1)
  BY <1>6, <1>10 DEF Keeps
<1>12. PICK v \in DOMAIN L : u < v /\ v <= w - 1 /\ ~Agree(L[v], L[u], k)
  BY <1>11 DEF Lost
<1>13. v \in S /\ v \in Nat
  BY <1>3, <1>12
<1> QED
  BY <1>5, <1>6, <1>12, <1>13

\* ... so what is committed is in the log of every leader from then on.
LEMMA CertifiedInLeader ==
    ASSUME NEW L, Logs(L), DOMAIN L \subseteq Nat, ChosenStay(L), NEW l, Len(l) \in Nat, NEW c \in Nat,
           NEW t \in Nat, Certified(l, L, c, t), NEW w \in DOMAIN L, t <= w
    PROVE  Agree(l, L[w], c)
<1>1. CASE c = 0
  <2>1. Len(L[w]) \in Nat
    BY DEF Logs
  <2> QED
    BY <1>1, <2>1 DEF Agree
<1>2. CASE c # 0
  <2>1. PICK u, k : Slot(L, u, k) /\ u <= t /\ c <= k /\ Chosen(u, k) /\ Agree(l, L[u], c)
    BY <1>2 DEF Certified
  <2>2. u \in DOMAIN L /\ u \in Nat /\ w \in Nat /\ k \in Nat /\ Len(L[u]) \in Nat /\ Len(L[w]) \in Nat
    BY <2>1 DEF Slot, Logs
  <2>3. u <= w
    BY <2>1, <2>2
  <2>4. Agree(L[w], L[u], k)
    BY <2>1, <2>3 DEF ChosenStay
  <2>5. Agree(L[w], L[u], c)
    BY <2>1, <2>2, <2>4, AgreeLess
  <2> QED
    BY <2>1, <2>5, AgreeBack, AgreeBoth
<1> QED
  BY <1>1, <1>2

\* ... and two nodes have committed the same.
LEMMA CertifiedAgree ==
    ASSUME NEW L, Logs(L), DOMAIN L \subseteq Nat, ChosenStay(L), NEW a, NEW b, Len(a) \in Nat, Len(b) \in Nat,
           NEW c \in Nat, NEW e \in Nat, c <= e, NEW t, NEW s, Certified(a, L, c, t), Certified(b, L, e, s)
    PROVE  Agree(a, b, c)
<1>1. CASE c = 0
  BY <1>1 DEF Agree
<1>2. CASE c # 0
  <2>1. PICK u, k : Slot(L, u, k) /\ c <= k /\ Chosen(u, k) /\ Agree(a, L[u], c)
    BY <1>2 DEF Certified
  <2>2. PICK v, i : Slot(L, v, i) /\ e <= i /\ Chosen(v, i) /\ Agree(b, L[v], e)
    BY <1>2 DEF Certified
  <2>3. /\ u \in DOMAIN L /\ u \in Nat /\ k \in Nat /\ Len(L[u]) \in Nat
        /\ v \in DOMAIN L /\ v \in Nat /\ i \in Nat /\ Len(L[v]) \in Nat
    BY <2>1, <2>2 DEF Slot, Logs
  <2>4. Agree(b, L[v], c)
    BY <2>2, <2>3, AgreeLess
  <2>5. Agree(L[u], L[v], c)
    <3>1. CASE u <= v
      <4>1. Agree(L[v], L[u], k)
        BY <2>1, <2>3, <3>1 DEF ChosenStay
      <4> QED
        BY <2>1, <2>3, <4>1, AgreeLess, AgreeBack
    <3>2. CASE v <= u
      <4>1. Agree(L[u], L[v], i)
        BY <2>2, <2>3, <3>2 DEF ChosenStay
      <4>2. c <= i
        BY <2>2, <2>3
      <4> QED
        BY <2>3, <4>1, <4>2, AgreeLess
    <3> QED
      BY <2>3, <3>1, <3>2
  <2>6. Agree(a, L[v], c)
    BY <2>1, <2>5, AgreeBoth
  <2> QED
    BY <2>4, <2>6, AgreeBack, AgreeBoth
<1> QED
  BY <1>1, <1>2

\* The same after a step.
Sound(L) == Logs(L) /\ DOMAIN L \subseteq Nat /\ LeadersKnow(L)

\* What is certified in a term is in the log of that term's leader and later ones, in the next state.
LEMMA CertifiedInLeaderNext ==
    (\A L, l, c, t, w :
        Sound(L) /\ Len(l) \in Nat /\ c \in Nat /\ t \in Nat /\ Certified(l, L, c, t) /\ w \in DOMAIN L /\ t <= w
            => Agree(l, L[w], c))'
<1>1. \A L, l, c, t, w :
        Sound(L) /\ Len(l) \in Nat /\ c \in Nat /\ t \in Nat /\ Certified(l, L, c, t) /\ w \in DOMAIN L /\ t <= w
            => Agree(l, L[w], c)
  BY ChosenStays, CertifiedInLeader DEF Sound
<1> QED
  BY <1>1, PTL

\* Two certified prefixes agree, in the next state.
LEMMA CertifiedAgreeNext ==
    (\A L, a, b, c, e, t, s :
        Sound(L) /\ Len(a) \in Nat /\ Len(b) \in Nat /\ c \in Nat /\ e \in Nat /\ c <= e
            /\ Certified(a, L, c, t) /\ Certified(b, L, e, s) => Agree(a, b, c))'
<1>1. \A L, a, b, c, e, t, s :
        Sound(L) /\ Len(a) \in Nat /\ Len(b) \in Nat /\ c \in Nat /\ e \in Nat /\ c <= e
            /\ Certified(a, L, c, t) /\ Certified(b, L, e, s) => Agree(a, b, c)
  BY ChosenStays, CertifiedAgree DEF Sound
<1> QED
  BY <1>1, PTL

\* A log that is as up to date as another keeps the places that one has.
LEMMA UpToDateKeeps ==
    ASSUME NEW L, Logs(L), DOMAIN L \subseteq Nat, \A w \in DOMAIN L : \A j \in 1..Len(L[w]) : L[w][j].term <= w,
           NEW a \in Seq(Entry), NEW b \in Seq(Entry), Follows(a, L), Follows(b, L),
           NEW u, NEW k, Slot(L, u, k), Agree(b, L[u], k),
           NEW t \in Nat, \A j \in 1..Len(a) : a[j].term <= t,
           \/ TermIn(a, Len(a)) > TermIn(b, Len(b))
           \/ TermIn(a, Len(a)) = TermIn(b, Len(b)) /\ Len(a) >= Len(b)
    PROVE  Keeps(a, L, u, k, t)
<1>1. /\ u \in DOMAIN L /\ u \in Nat /\ L[u] \in Seq(Entry) /\ k \in Nat /\ 1 <= k /\ k <= Len(L[u])
      /\ L[u][k].term = u
  BY DEF Slot, Logs
<1>2. PICK i, n, x, y : i = Len(a) /\ n = Len(b) /\ x = TermIn(a, Len(a)) /\ y = TermIn(b, Len(b))
  OBVIOUS
<1>3. i \in Nat /\ n \in Nat /\ Len(L[u]) \in Nat /\ k <= n /\ b[k].term = u
  BY <1>1, <1>2 DEF Agree
<1>4. n \in 1..Len(b) /\ n # 0 /\ k \in 1..n
  BY <1>1, <1>2, <1>3
<1>5. y = b[n].term /\ y \in DOMAIN L /\ y \in Nat /\ Agree(b, L[y], n)
  BY <1>2, <1>4 DEF TermIn, Follows
<1>6. u <= y
  <2>1. k \in 1..Len(L[y]) /\ L[y][k] = b[k]
    BY <1>4, <1>5 DEF Agree, Logs
  <2> QED
    BY <1>3, <1>5, <2>1
<1>7. x \in Nat
  <2>1. CASE i = 0
    BY <1>2, <2>1 DEF TermIn
  <2>2. CASE i # 0
    <3>1. i \in 1..Len(a)
      BY <1>2, <1>3, <2>2
    <3> QED
      BY <1>2, <2>2, <3>1 DEF TermIn, Follows
  <2> QED
    BY <2>1, <2>2
<1>8. x > y \/ (x = y /\ i >= n)
  BY <1>2
<1>9. i # 0
  <2>1. i = 0 => x = 0
    BY <1>2 DEF TermIn
  <2> QED
    BY <1>3, <1>4, <1>5, <1>7, <1>8, <2>1
<1>10. i \in 1..Len(a)
  BY <1>2, <1>3, <1>9
<1>11. x = a[i].term /\ x \in DOMAIN L /\ Agree(a, L[x], i) /\ x <= t
  BY <1>2, <1>9, <1>10 DEF TermIn, Follows
<1>12. CASE x = u
  <2>1. i >= n
    BY <1>5, <1>6, <1>7, <1>8, <1>12
  <2>2. k <= i
    BY <1>1, <1>3, <2>1
  <2>3. Agree(a, L[u], k)
    BY <1>1, <1>2, <1>3, <1>11, <1>12, <2>2, AgreeLess
  <2> QED
    BY <2>3 DEF Keeps
<1>13. CASE x > u
  <2>1. CASE ~Agree(L[x], L[u], k)
    <3>1. u < x
      BY <1>1, <1>7, <1>13
    <3> QED
      BY <1>11, <2>1, <3>1 DEF Keeps, Lost
  <2>2. CASE Agree(L[x], L[u], k)
    <3>1. L[x] \in Seq(Entry) /\ Len(L[x]) \in Nat
      BY <1>11 DEF Logs
    <3>2. k <= i
      <4>1. SUFFICES ASSUME i < k PROVE FALSE
        BY <1>1, <1>3
      <4>2. i \in 1..k /\ i \in 1..Len(L[u])
        BY <1>1, <1>3, <1>9, <4>1
      <4>3. a[i] = L[x][i] /\ L[x][i] = L[u][i]
        BY <1>10, <1>11, <2>2, <4>2 DEF Agree
      <4>4. L[u][i].term <= u
        BY <1>1, <4>2
      <4> QED
        BY <1>1, <1>7, <1>11, <1>13, <4>3, <4>4
    <3>3. Agree(a, L[x], k)
      BY <1>1, <1>2, <1>3, <1>11, <3>1, <3>2, AgreeLess
    <3>4. Agree(a, L[u], k)
      BY <2>2, <3>3, AgreeBoth
    <3> QED
      BY <3>4 DEF Keeps
  <2> QED
    BY <2>1, <2>2
<1> QED
  BY <1>1, <1>5, <1>6, <1>7, <1>8, <1>12, <1>13

\* The logs of the leaders grow in a step.
LEMMA LogsGrowTo ==
    ASSUME NodesOK, MessagesOK, Led, Led', NEW L, LedBy(L), NEW sent, Executed(sent), NEW M, Continues(L, M)
    PROVE  /\ GrowsTo(L, M)
           /\ \A t \in DOMAIN M : (t \in DOMAIN L /\ M[t] = L[t]) \/ Leads(nodes'[leadersByTerm'[t]], t)
           /\ \A t \in DOMAIN M : Leads(nodes'[leadersByTerm'[t]], t) => M[t] = nodes'[leadersByTerm'[t]].store.log
           /\ \A t \in DOMAIN L : t \in DOMAIN M /\ leadersByTerm'[t] = leadersByTerm[t]
           /\ \A t \in DOMAIN M : leadersByTerm'[t] \in Nodes /\ t \in Nat
<1>1. /\ Acts(nodes', sent) /\ DOMAIN L = DOMAIN leadersByTerm /\ DOMAIN M = DOMAIN leadersByTerm'
      /\ Logs(L) /\ Logs(M) /\ Grown(L, M)
  BY DEF Executed, Continues, LedBy
<1>2. PICK f : f = leadersByTerm'
  OBVIOUS
<1>3. \A t \in DOMAIN M : t \in Nat /\ f[t] \in Nodes
  BY <1>1, <1>2 DEF Led
<1>4. ASSUME NEW id \in Nodes, NEW t \in DOMAIN M, Leads(nodes'[id], t)
      PROVE  f[t] = id /\ M[t] = nodes'[id].store.log
  <2>1. f[t] = id
    BY <1>1, <1>2, <1>3, <1>4 DEF Led, Leads
  <2>2. M[t] = nodes'[id].store.log
    BY <1>4 DEF Continues, LedBy, Leads
  <2> QED
    BY <2>1, <2>2
<1>5. \A t \in DOMAIN M : (t \in DOMAIN L /\ M[t] = L[t]) \/ Leads(nodes'[f[t]], t)
  BY <1>4 DEF Continues
<1>6. \A t \in DOMAIN L : t \in DOMAIN M /\ f[t] = leadersByTerm[t]
  <2>1. PICK o : o = Observation(nodes')
    OBVIOUS
  <2>2. f = KnownLeaders(o)
    BY <1>2, <2>1 DEF Executed
  <2> QED
    BY <1>1, <1>2, <2>2, KnownLeadersAre
<1>7. ASSUME NEW t \in DOMAIN L, NEW k \in 1..Len(M[t])
      PROVE  k <= Len(L[t]) \/ M[t][k].term = t
  <2>1. t \in DOMAIN M /\ f[t] \in Nodes /\ L[t] \in Seq(Entry) /\ Len(L[t]) \in Nat /\ k \in Nat
    BY <1>1, <1>3, <1>6, <1>7 DEF Logs
  <2>2. CASE M[t] = L[t]
    BY <2>1, <2>2
  <2>3. CASE Leads(nodes'[f[t]], t)
    <3>1. PICK id, n, d : id = f[t] /\ n = nodes[id] /\ d = nodes'[id]
      OBVIOUS
    <3>2. id \in Nodes /\ t \in DOMAIN leadersByTerm /\ leadersByTerm[t] = id /\ Leads(d, t)
      BY <1>1, <1>6, <2>1, <2>3, <3>1
    <3>3. Leads(n, t)
      BY <3>1, <3>2, LeaderBefore
    <3>4. L[t] = n.store.log /\ M[t] = d.store.log
      BY <1>4, <2>1, <3>1, <3>2, <3>3 DEF LedBy
    <3>5. d.store.log = n.store.log \/ Adds(n, d) \/ Brought(n, d)
      BY <1>1, <3>1, <3>2, LogGoes
    <3>6. CASE Adds(n, d)
      <4>1. PICK e \in Entry : d.store.log = Append(n.store.log, e) /\ Leads(d, e.term)
        BY <3>6 DEF Adds
      <4>2. e.term = t
        BY <3>2, <4>1 DEF Leads
      <4>3. Len(M[t]) = Len(L[t]) + 1 /\ M[t][Len(L[t]) + 1] = e
        BY <2>1, <3>4, <4>1, AppendProperties
      <4>4. k <= Len(L[t]) \/ k = Len(L[t]) + 1
        BY <2>1, <4>3
      <4> QED
        BY <4>2, <4>3, <4>4
    <3>7. ~Brought(n, d)
      BY <3>2 DEF Brought, Leads
    <3> QED
      BY <2>1, <3>4, <3>5, <3>6, <3>7
  <2> QED
    BY <1>5, <2>1, <2>2, <2>3
<1>8. GrowsTo(L, M)
  BY <1>1, <1>3, <1>7 DEF GrowsTo
<1>9. \A t \in DOMAIN M : Leads(nodes'[f[t]], t) => M[t] = nodes'[f[t]].store.log
  BY <1>3, <1>4
<1> QED
  BY <1>2, <1>3, <1>5, <1>6, <1>8, <1>9

----------------------------------------------------------------------------
(* What a step makes of what a quorum holds.                               *)

\* A step from a state of the invariant, in which the logs L of the leaders
\* become M.
Grounds ==
    /\ NodesOK /\ MessagesOK /\ PrefixesAgree /\ Snapped /\ Led /\ VotesOnDisk /\ MatchKnown
    /\ HeartbeatsKnown /\ Ballots

Onward(L, M) ==
    /\ Grounds /\ LogsKept(L) /\ Quorate(L) /\ Continues(L, M) /\ GrowsTo(L, M)
    /\ NodesOK' /\ MessagesOK' /\ Led' /\ MatchKnown' /\ Snapped' /\ VotesOnDisk' /\ LogsKept(M)'

\* A step lets only the logs of leaders in office grow, and takes no leader away.
LEMMA OnwardIs ==
    ASSUME NEW sent, Executed(sent), NEW L, NEW M, Onward(L, M)
    PROVE  /\ \A t \in DOMAIN M : (t \in DOMAIN L /\ M[t] = L[t]) \/ Leads(nodes'[leadersByTerm'[t]], t)
           /\ \A t \in DOMAIN M : Leads(nodes'[leadersByTerm'[t]], t) => M[t] = nodes'[leadersByTerm'[t]].store.log
           /\ \A t \in DOMAIN L : t \in DOMAIN M /\ leadersByTerm'[t] = leadersByTerm[t]
           /\ \A t \in DOMAIN M : leadersByTerm'[t] \in Nodes /\ t \in Nat
  BY LogsGrowTo DEF Onward, Grounds, LogsKept

\* The storage of a node before and after a step.
LEMMA StoresAre ==
    ASSUME NEW sent, Executed(sent), NEW L, NEW M, Onward(L, M), NEW id \in Nodes,
           NEW n, n = nodes[id], NEW d, d = nodes'[id]
    PROVE  /\ NodeOK(id, n) /\ NodeOK(id, d)
           /\ n.store.term \in Nat /\ d.store.term \in Nat /\ n.store.term <= d.store.term
           /\ n.store.log \in Seq(Entry) /\ d.store.log \in Seq(Entry)
           /\ Len(n.store.log) \in Nat /\ Len(d.store.log) \in Nat
           /\ \A t : Leads(d, t) => d.store.term = t
<1>1. NodesOK /\ Acts(nodes', sent)
  BY DEF Onward, Grounds, Executed
<1>2. NodeOK(id, n) /\ NodeOK(id, d)
  BY <1>1, NodeMovesSo
<1>3. n.store.term \in Nat /\ d.store.term \in Nat /\ n.store.term <= d.store.term
  BY <1>1, TermsRise
<1>4. \A t : Leads(d, t) => d.store.term = t
  BY <1>2 DEF Leads, NodeOK, OnDisk
<1> QED
  BY <1>2, <1>3, <1>4, StoredIs

\* No entry is of a later term than its log's leader or its node has reached.
LEMMA TermsStayBounded ==
    ASSUME NEW sent, Executed(sent), NEW L, NEW M, Onward(L, M)
    PROVE  TermsBounded(M)'
<1>1. /\ NodesOK /\ MessagesOK /\ Led /\ LedBy(L) /\ Following(L) /\ Carried(L) /\ Acts(nodes', sent)
      /\ TermsBounded(L)
  BY DEF Onward, Grounds, LogsKept, Quorate, Executed
<1>2. ASSUME NEW id \in Nodes, NEW d, d = nodes'[id], NEW k \in 1..Len(d.store.log)
      PROVE  d.store.log[k].term <= d.store.term
  <2>1. PICK n : n = nodes[id]
    OBVIOUS
  <2>2. /\ n.store.term \in Nat /\ d.store.term \in Nat /\ n.store.term <= d.store.term
        /\ n.store.log \in Seq(Entry) /\ d.store.log \in Seq(Entry)
        /\ Len(n.store.log) \in Nat /\ Len(d.store.log) \in Nat
        /\ \A t : Leads(d, t) => d.store.term = t
    BY <1>2, <2>1, StoresAre
  <2>3. \A j \in 1..Len(n.store.log) : n.store.log[j].term <= n.store.term
    BY <1>1, <2>1 DEF TermsBounded
  <2>4. PICK l, i, s, y, e : /\ l = n.store.log /\ i = Len(l) /\ s = n.store.term
                             /\ y = d.store.term /\ e = d.store.log[k]
    OBVIOUS
  <2>5. /\ l \in Seq(Entry) /\ i = Len(l) /\ i \in Nat /\ s \in Nat /\ y \in Nat /\ s <= y
        /\ \A j \in 1..i : l[j].term <= s
    BY <2>2, <2>3, <2>4
  <2>6. e \in Entry
    BY <1>2, <2>2, <2>4
  <2>9. e.term \in Nat
    BY <2>6 DEF Entry
  <2>10. ASSUME k \in 1..i, e = l[k]
        PROVE  e.term <= y
    <3>1. e.term <= s
      BY <2>5, <2>10
    <3> QED
      BY <2>5, <2>9, <3>1
  <2>11. CASE d.store.log = n.store.log
    BY <1>2, <2>4, <2>10, <2>11
  <2>12. CASE Adds(n, d)
    <3>1. PICK x \in Entry : d.store.log = Append(n.store.log, x) /\ Leads(d, x.term)
      BY <2>12 DEF Adds
    <3>2. x.term = d.store.term
      BY <2>2, <3>1
    <3>3. /\ Len(d.store.log) = i + 1 /\ d.store.log[i + 1] = x
          /\ \A j \in 1..i : d.store.log[j] = l[j]
      BY <2>4, <2>5, <3>1, AppendProperties
    <3>4. k \in 1..i \/ k = i + 1
      BY <1>2, <2>5, <3>3
    <3>5. CASE k \in 1..i
      BY <2>4, <2>10, <3>3, <3>5
    <3>6. CASE k = i + 1
      BY <2>4, <2>5, <3>2, <3>3, <3>6
    <3> QED
      BY <3>4, <3>5, <3>6
  <2>7. CASE Brought(n, d)
    <3>1. PICK m \in Payloads :
                /\ m.term = d.store.term /\ n.raw.log = n.store.log /\ n.raw \in RawState
                /\ \/ m.type = "MsgApp" /\ Accepts(n.raw, m) /\ d.store.log = Overwritten(n.raw, m)
                   \/ m.type = "MsgSnap" /\ d.store.log = m.snapshot
      BY <2>7 DEF Brought
    <3>2. PICK x, g : x = d.store.log /\ g = L[m.term]
      OBVIOUS
    <3>3. m.term \in DOMAIN L /\ Agree(x, g, Len(x))
      BY <1>1, <2>1, <3>1, <3>2, LogBrought
    <3>4. k \in 1..Len(g) /\ x[k] = g[k]
      <4>1. Len(g) \in Nat /\ Len(x) \in Nat
        BY <1>1, <2>2, <3>2, <3>3 DEF LedBy, Logs
      <4> QED
        BY <1>2, <3>2, <3>3, <4>1 DEF Agree
    <3> QED
      BY <1>1, <3>1, <3>2, <3>3, <3>4 DEF TermsBounded
  <2>8. d.store.log = n.store.log \/ Adds(n, d) \/ Brought(n, d)
    BY <1>1, <1>2, <2>1, LogGoes
  <2> QED
    BY <2>4, <2>11, <2>12, <2>7, <2>8
<1>3. ASSUME NEW t \in DOMAIN M, NEW k \in 1..Len(M[t])
      PROVE  M[t][k].term <= t
  <2>1. PICK id, d : id = leadersByTerm'[t] /\ d = nodes'[id]
    OBVIOUS
  <2>2. CASE t \in DOMAIN L /\ M[t] = L[t]
    BY <1>1, <1>3, <2>2 DEF TermsBounded
  <2>3. CASE Leads(d, t)
    <3>1. id \in Nodes /\ M[t] = d.store.log
      BY <1>3, <2>1, <2>3, OnwardIs
    <3>2. d.store.term = t
      BY <2>1, <2>3, <3>1, StoresAre
    <3> QED
      BY <1>2, <1>3, <2>1, <3>1, <3>2
  <2> QED
    BY <1>3, <2>1, <2>2, <2>3, OnwardIs
<1> QED
  BY <1>2, <1>3 DEF TermsBounded

\* An acknowledgement is of the term of the node, when it is sent.
LEMMA AckTermIs ==
    ASSUME NodesOK, NEW sent, Executed(sent), NEW x \in Payloads', x \notin Payloads, Ack(x)
    PROVE  x.term = nodes'[x.from].store.term /\ x.from \in Nodes
<1>1. Acts(nodes', sent) /\ network' = network \cup sent
  BY DEF Executed
<1>2. PICK id \in Nodes : \E m, q : /\ Input(id, m) /\ Calls(id, nodes[id], m, nodes'[id], q)
                                    /\ x \in q.out
  BY <1>1, MessagesCome
<1>3. PICK m, q : Input(id, m) /\ Calls(id, nodes[id], m, nodes'[id], q) /\ x \in q.out
  BY <1>2
<1>4. PICK r, p : r = nodes[id].raw /\ p = q.raw
  OBVIOUS
<1>5. x.type = "MsgAppResp"
  BY DEF Ack
<1>6. x.from = id /\ x.term = p.term
  BY <1>3, <1>4, <1>5, CallSends
<1>7. NodeOK(id, nodes[id])
  BY DEF NodesOK
<1>8. nodes'[id].store.term = p.term
  BY <1>3, <1>4, <1>7, CallIs
<1> QED
  BY <1>6, <1>8

\* A place that a node has after a step it had before, or it has it in the term
\* it is in.
LEMMA HasComes ==
    ASSUME NEW sent, Executed(sent), NEW L, NEW M, Onward(L, M), NEW p \in Nodes, NEW u, NEW k,
           Slot(M, u, k), Has(p, u, k)', NEW d, d = nodes'[p]
    PROVE  \/ Slot(L, u, k) /\ Has(p, u, k)
           \/ d.store.term = u /\ Leads(d, u)
           \/ d.store.term = u /\ \E x \in Payloads' : Ack(x) /\ x.from = p /\ x.term = u /\ x.index >= k
<1>1. u \in DOMAIN M /\ k \in 1..Len(M[u]) /\ M[u][k].term = u /\ k \in Nat
  BY DEF Slot
<1>2. /\ (u \in DOMAIN L /\ M[u] = L[u]) \/ Leads(nodes'[leadersByTerm'[u]], u)
      /\ u \in DOMAIN L => leadersByTerm'[u] = leadersByTerm[u]
  BY <1>1, OnwardIs
<1>3. \A t : Leads(d, t) => d.store.term = t
  BY StoresAre
<1>4. ASSUME u \in DOMAIN L, k <= Len(L[u])
      PROVE  Slot(L, u, k)
  <2>1. L[u] \in Seq(Entry) /\ M[u] \in Seq(Entry) /\ Agree(L[u], M[u], Len(L[u]))
    BY <1>4 DEF Onward, GrowsTo, Grown, Logs
  <2>2. Len(L[u]) \in Nat /\ k \in 1..Len(L[u])
    BY <1>1, <1>4, <2>1
  <2>3. L[u][k] = M[u][k]
    BY <2>1, <2>2 DEF Agree
  <2> QED
    BY <1>1, <1>4, <2>2, <2>3 DEF Slot
<1>5. CASE p = leadersByTerm'[u]
  <2>1. CASE u \in DOMAIN L /\ M[u] = L[u]
    <3>1. Slot(L, u, k)
      BY <1>1, <2>1 DEF Slot
    <3> QED
      BY <1>2, <1>5, <2>1, <3>1 DEF Has
  <2>2. CASE Leads(nodes'[leadersByTerm'[u]], u)
    BY <1>3, <1>5, <2>2
  <2> QED
    BY <1>2, <2>1, <2>2
<1>6. CASE AckedTo(p, u, k)'
  <2>1. PICK x \in Payloads' : Ack(x) /\ x.from = p /\ x.term = u /\ x.index >= k
    BY <1>6 DEF AckedTo, Ack
  <2>2. CASE x \in Payloads
    <3>1. x.index <= Len(L[u]) /\ u \in DOMAIN L
      BY <2>1, <2>2 DEF Onward, Quorate, AcksBounded, LogsKept, Acknowledged, AckStands
    <3>2. x.index \in Nat /\ Len(L[u]) \in Nat
      BY <2>2, <3>1 DEF Onward, Grounds, GrowsTo, Logs, MessagesOK, Payloads, Envelope, Message
    <3>3. k <= Len(L[u])
      BY <1>1, <2>1, <3>1, <3>2
    <3>4. AckedTo(p, u, k)
      BY <2>1, <2>2 DEF AckedTo
    <3> QED
      BY <1>4, <3>1, <3>3, <3>4 DEF Has
  <2>3. CASE x \notin Payloads
    <3>1. NodesOK
      BY DEF Onward, Grounds
    <3>2. x.term = nodes'[x.from].store.term
      BY <2>1, <2>3, <3>1, AckTermIs
    <3> QED
      BY <2>1, <3>2
  <2> QED
    BY <2>2, <2>3
<1>7. Has(p, u, k)' <=> p = leadersByTerm'[u] \/ AckedTo(p, u, k)'
  BY DEF Has
<1> QED
  BY <1>5, <1>6, <1>7

----------------------------------------------------------------------------
(* The leader of a term knows what the quorum that elected it had.         *)

\* A log that only grows still has what a node had in earlier terms.
LEMMA KnowsStill ==
    ASSUME NEW sent, Executed(sent), NEW L, NEW M, Onward(L, M), NEW p \in Nodes, NEW t \in Nat, NEW b \in Int,
           t <= nodes'[p].store.term, NEW l, NEW g, Len(l) \in Nat, Len(g) \in Nat, Agree(l, g, Len(l)),
           Knows(l, L, p, t, b)
    PROVE  Knows(g, M, p, t, b)'
<1>1. ASSUME NEW u, NEW k, Slot(M, u, k), u < t, Has(p, u, k)'
      PROVE  Keeps(g, M, u, k, b)
  <2>1. PICK d : d = nodes'[p]
    OBVIOUS
  <2>2. d.store.term \in Nat /\ t <= d.store.term
    BY <2>1, StoresAre
  <2>3. u \in Nat
    BY <1>1, OnwardIs DEF Slot
  <2>4. Slot(L, u, k) /\ Has(p, u, k)
    BY <1>1, <2>1, <2>2, <2>3, HasComes
  <2>5. Keeps(l, L, u, k, b)
    BY <1>1, <2>4 DEF Knows
  <2>6. GrowsTo(L, M)
    BY DEF Onward
  <2>7. k \in Nat
    BY <2>4, <2>6, SlotGrown
  <2>8. Agree(l, L[u], k) => Agree(g, L[u], k)
    BY <2>7, AgreeLonger
  <2> QED
    BY <2>4, <2>5, <2>6, <2>8, KeepsGrown
<1> QED
  BY <1>1 DEF Knows, Slot, Keeps, Lost

\* The log of a leader after a step, and before it.
LEMMA LeaderLogGrows ==
    ASSUME NEW sent, Executed(sent), NEW L, NEW M, Onward(L, M), NEW id \in Nodes, NEW t, Leads(nodes'[id], t),
           NEW l, l = nodes[id].store.log, NEW g, g = nodes'[id].store.log
    PROVE  Len(l) \in Nat /\ Len(g) \in Nat /\ Agree(l, g, Len(l))
<1>1. PICK n, d : n = nodes[id] /\ d = nodes'[id]
  OBVIOUS
<1>2. l \in Seq(Entry) /\ g \in Seq(Entry) /\ Len(l) \in Nat /\ Len(g) \in Nat
  BY <1>1, StoresAre
<1>3. NodesOK /\ Acts(nodes', sent)
  BY DEF Onward, Grounds, Executed
<1>4. g = l \/ Adds(n, d) \/ Brought(n, d)
  BY <1>1, <1>3, LogGoes
<1>5. ~Brought(n, d)
  BY <1>1 DEF Brought, Leads
<1>6. CASE g = l
  BY <1>2, <1>6, AgreeWhole
<1>7. CASE Adds(n, d)
  <2>1. PICK e \in Entry : g = Append(l, e)
    BY <1>1, <1>7 DEF Adds
  <2>2. Len(g) = Len(l) + 1 /\ \A j \in 1..Len(l) : g[j] = l[j]
    BY <1>2, <2>1, AppendProperties
  <2> QED
    BY <1>2, <2>2 DEF Agree
<1> QED
  BY <1>2, <1>4, <1>5, <1>6, <1>7

\* The log of a leader still has every place its voters had when they elected it.
LEMMA LeadersStillKnow ==
    ASSUME VoteQuorumDivisor = 2, NEW sent, Executed(sent), NEW L, NEW M, Onward(L, M)
    PROVE  LeadersKnow(M)'
<1>1. /\ NodesOK /\ MessagesOK /\ Led /\ VotesOnDisk /\ BallotsCounted /\ LeadersKnow(L) /\ CandidatesKnow(L)
      /\ Acts(nodes', sent) /\ LedBy(L) /\ GrowsTo(L, M)
  BY DEF Onward, Grounds, Ballots, Quorate, Executed, LogsKept
<1>2. ASSUME NEW t \in DOMAIN M
      PROVE  \E Q \in SUBSET Nodes : IsQuorum(Q) /\ \A p \in Q : t <= nodes'[p].store.term /\ Knows(M[t], M, p, t, t - 1)'
  <2>1. t \in Nat /\ t - 1 \in Int
    BY <1>2, OnwardIs
  <2>2. CASE t \in DOMAIN L
    <3>1. PICK Q \in SUBSET Nodes : IsQuorum(Q) /\ \A p \in Q : t <= nodes[p].store.term /\ Knows(L[t], L, p, t, t - 1)
      BY <1>1, <2>2 DEF LeadersKnow
    <3>2. ASSUME NEW p \in Q
          PROVE  t <= nodes'[p].store.term /\ Knows(M[t], M, p, t, t - 1)'
      <4>1. p \in Nodes /\ t <= nodes[p].store.term /\ Knows(L[t], L, p, t, t - 1)
        BY <3>1, <3>2
      <4>2. nodes[p].store.term \in Nat /\ nodes'[p].store.term \in Nat /\ nodes[p].store.term <= nodes'[p].store.term
        BY <4>1, StoresAre
      <4>3. t <= nodes'[p].store.term
        BY <2>1, <4>1, <4>2
      <4>4. PICK l, g : l = L[t] /\ g = M[t]
        OBVIOUS
      <4>5. Agree(l, g, Len(l)) /\ l \in Seq(Entry) /\ g \in Seq(Entry)
        BY <1>1, <1>2, <2>2, <4>4 DEF GrowsTo, Grown, Logs
      <4>6. Len(l) \in Nat /\ Len(g) \in Nat
        BY <4>5
      <4>7. Knows(l, L, p, t, t - 1)
        BY <4>1, <4>4
      <4>8. Knows(g, M, p, t, t - 1)'
        BY <2>1, <4>1, <4>3, <4>5, <4>6, <4>7, KnowsStill
      <4> QED
        BY <4>3, <4>4, <4>8
    <3> QED
      BY <3>1, <3>2
  <2>3. CASE t \notin DOMAIN L
    <3>1. PICK id, n, d : id = leadersByTerm'[t] /\ n = nodes[id] /\ d = nodes'[id]
      OBVIOUS
    <3>2. id \in Nodes /\ Leads(d, t) /\ M[t] = d.store.log
      BY <1>2, <2>3, <3>1, OnwardIs
    <3>3. ~Leads(n, t)
      BY <1>1, <2>1, <2>3, <3>1, <3>2 DEF Led, LedBy
    <3>4. /\ Campaigning(n, t) /\ d.store.term = t
          /\ \E Q \in SUBSET Nodes : IsQuorum(Q) /\ \A p \in Q : Backs(p, id, t)
      BY <1>1, <3>1, <3>2, <3>3, LeaderElected
    <3>5. PICK Q \in SUBSET Nodes : IsQuorum(Q) /\ \A p \in Q : Backs(p, id, t)
      BY <3>4
    <3>6. PICK l, g : l = n.store.log /\ g = d.store.log
      OBVIOUS
    <3>7. Len(l) \in Nat /\ Len(g) \in Nat /\ Agree(l, g, Len(l))
      BY <3>1, <3>2, <3>6, LeaderLogGrows
    <3>8. ASSUME NEW p \in Q
          PROVE  t <= nodes'[p].store.term /\ Knows(M[t], M, p, t, t - 1)'
      <4>1. p \in Nodes /\ Backs(p, id, t)
        BY <3>5, <3>8
      <4>2. nodes[p].store.term \in Nat /\ nodes'[p].store.term \in Nat /\ nodes[p].store.term <= nodes'[p].store.term
        BY <4>1, StoresAre
      <4>3. t <= nodes'[p].store.term
        <5>1. CASE p = id
          BY <2>1, <3>1, <3>4, <5>1
        <5>2. CASE \E h \in Payloads : Granted(h) /\ h.from = p /\ h.to = id /\ h.term = t
          <6>1. t <= nodes[p].store.term
            BY <1>1, <5>2 DEF VotesOnDisk, VoteOnDisk
          <6> QED
            BY <2>1, <4>2, <6>1
        <5> QED
          BY <4>1, <5>1, <5>2 DEF Backs
      <4>4. Knows(l, L, p, t, t)
        BY <1>1, <2>1, <3>1, <3>2, <3>4, <3>6, <4>1 DEF CandidatesKnow
      <4>5. DOMAIN L \subseteq Nat
        BY <1>1, OnwardIs
      <4>6. \A w \in DOMAIN L : w <= t => w <= t - 1
        BY <2>1, <2>3, <4>5
      <4>7. ASSUME NEW u, NEW k, Keeps(l, L, u, k, t)
            PROVE  Keeps(l, L, u, k, t - 1)
        BY <4>6, <4>7 DEF Keeps, Lost
      <4>8. Knows(l, L, p, t, t - 1)
        BY <4>4, <4>7 DEF Knows
      <4>9. Knows(g, M, p, t, t - 1)'
        BY <2>1, <3>7, <4>1, <4>3, <4>8, KnowsStill
      <4> QED
        BY <3>2, <3>6, <4>3, <4>9
    <3> QED
      BY <3>5, <3>8
  <2> QED
    BY <2>2, <2>3
<1> QED
  BY <1>2 DEF LeadersKnow

\* What holds of the logs of the leaders after a step.
LEMMA SoundNext ==
    ASSUME VoteQuorumDivisor = 2, NEW sent, Executed(sent), NEW L, NEW M, Onward(L, M)
    PROVE  Sound(M)'
<1>1. Logs(M) /\ DOMAIN M \subseteq Nat
  BY DEF Onward, GrowsTo
<1>2. LeadersKnow(M)'
  BY LeadersStillKnow
<1>3. Sound(M)' <=> Logs(M) /\ DOMAIN M \subseteq Nat /\ LeadersKnow(M)'
  BY DEF Sound, Logs
<1> QED
  BY <1>1, <1>2, <1>3

----------------------------------------------------------------------------
(* What is committed, a quorum has.                                        *)

\* Who has a place has it after the step.
LEMMA HasStill ==
    ASSUME NEW sent, Executed(sent), NEW L, NEW M, Onward(L, M), NEW u, NEW k, Slot(L, u, k), NEW p, Has(p, u, k)
    PROVE  Has(p, u, k)'
<1>1. leadersByTerm'[u] = leadersByTerm[u]
  BY OnwardIs DEF Slot
<1>2. AckedTo(p, u, k) => AckedTo(p, u, k)'
  BY AckedStill
<1>3. Has(p, u, k)' <=> p = leadersByTerm'[u] \/ AckedTo(p, u, k)'
  BY DEF Has
<1> QED
  BY <1>1, <1>2, <1>3 DEF Has

\* What is certified of a log is certified of what the log begins with, ...
LEMMA CertifiedOf ==
    ASSUME NEW L, Logs(L), DOMAIN L \subseteq Nat, NEW l, NEW g, Len(l) \in Nat, Len(g) \in Nat,
           NEW c \in Nat, NEW b \in Nat, b <= c, Agree(l, g, b), NEW t \in Nat, NEW s \in Nat, t <= s,
           Certified(l, L, c, t)
    PROVE  Certified(g, L, b, s)
<1>1. CASE b = 0
  BY <1>1 DEF Certified
<1>2. CASE b # 0
  <2>1. PICK u, k : Slot(L, u, k) /\ u <= t /\ c <= k /\ Chosen(u, k) /\ Agree(l, L[u], c)
    BY <1>2 DEF Certified
  <2>2. u \in Nat /\ k \in Nat /\ Len(L[u]) \in Nat
    BY <2>1 DEF Slot, Logs
  <2>3. Agree(l, L[u], b)
    BY <2>1, <2>2, AgreeLess
  <2>4. Agree(g, L[u], b)
    BY <2>3, AgreeBack, AgreeBoth
  <2>5. u <= s /\ b <= k
    BY <2>1, <2>2
  <2> QED
    BY <2>1, <2>4, <2>5 DEF Certified
<1> QED
  BY <1>1, <1>2

\* What is certified stays certified in a log that agrees, for less and for later terms.
LEMMA CertifiedOfNext ==
    (\A L, l, g, c, b, t, s :
        Logs(L) /\ DOMAIN L \subseteq Nat /\ Len(l) \in Nat /\ Len(g) \in Nat /\ c \in Nat /\ b \in Nat /\ b <= c
            /\ Agree(l, g, b) /\ t \in Nat /\ s \in Nat /\ t <= s /\ Certified(l, L, c, t)
            => Certified(g, L, b, s))'
<1>1. \A L, l, g, c, b, t, s :
        Logs(L) /\ DOMAIN L \subseteq Nat /\ Len(l) \in Nat /\ Len(g) \in Nat /\ c \in Nat /\ b \in Nat /\ b <= c
            /\ Agree(l, g, b) /\ t \in Nat /\ s \in Nat /\ t <= s /\ Certified(l, L, c, t)
            => Certified(g, L, b, s)
  BY CertifiedOf
<1> QED
  BY <1>1, PTL

\* No more is certified than the log holds.
LEMMA CertifiedWithin ==
    ASSUME NEW l, Len(l) \in Nat, NEW L, NEW c, NEW t, Certified(l, L, c, t)
    PROVE  c <= Len(l)
BY DEF Certified, Agree

\* ... and stays certified.
LEMMA CertifiedStill ==
    ASSUME NEW sent, Executed(sent), NEW L, NEW M, Onward(L, M), NEW l, Len(l) \in Nat, NEW c \in Nat,
           NEW t \in Nat, Certified(l, L, c, t)
    PROVE  Certified(l, M, c, t)'
<1>1. CASE c = 0
  BY <1>1 DEF Certified
<1>2. CASE c # 0
  <2>1. PICK u, k : Slot(L, u, k) /\ u <= t /\ c <= k /\ Chosen(u, k) /\ Agree(l, L[u], c)
    BY <1>2 DEF Certified
  <2>2. Slot(M, u, k) /\ Agree(L[u], M[u], k) /\ k \in Nat
    BY <2>1, SlotGrown DEF Onward
  <2>3. L[u] \in Seq(Entry) /\ M[u] \in Seq(Entry)
    BY <2>1, <2>2 DEF Onward, GrowsTo, Logs, Slot
  <2>4. Len(L[u]) \in Nat /\ Len(M[u]) \in Nat
    BY <2>3
  <2>5. Agree(L[u], M[u], c)
    BY <2>1, <2>2, <2>4, AgreeLess
  <2>6. Agree(l, M[u], c)
    BY <2>1, <2>5, AgreeBoth
  <2>7. PICK Q \in SUBSET Nodes : IsQuorum(Q) /\ \A p \in Q : Has(p, u, k)
    BY <2>1 DEF Chosen
  <2>8. \A p \in Q : Has(p, u, k)'
    BY <2>1, <2>7, HasStill
  <2>9. Chosen(u, k)'
    BY <2>7, <2>8 DEF Chosen
  <2> QED
    BY <2>1, <2>2, <2>6, <2>9 DEF Certified, Slot, Agree
<1> QED
  BY <1>1, <1>2

\* The two together.
LEMMA CertifiedOnward ==
    ASSUME NEW sent, Executed(sent), NEW L, NEW M, Onward(L, M), NEW l, Len(l) \in Nat, NEW g, Len(g) \in Nat,
           NEW c \in Nat, NEW b \in Nat, b <= c, Agree(l, g, b), NEW t \in Nat, NEW s \in Nat, t <= s,
           Certified(l, L, c, t)
    PROVE  Certified(g, M, b, s)'
<1>1. Certified(l, M, c, t)'
  BY CertifiedStill
<1>2. Logs(M) /\ DOMAIN M \subseteq Nat
  BY DEF Onward, GrowsTo
<1>3. Logs(M)' /\ (DOMAIN M \subseteq Nat)'
  BY <1>2 DEF Logs
<1> QED
  BY <1>1, <1>3, CertifiedOfNext DEF Agree

\* What a leader commits, a quorum has acknowledged.
LEMMA LeaderCommits ==
    ASSUME NEW sent, Executed(sent), NEW L, NEW M, Onward(L, M), NEW id \in Nodes, NEW d, d = nodes'[id],
           NEW p \in RawState, Leads(d, p.term), p.log = d.store.log, p.progress = d.raw.progress,
           CommitsOwn(id, p, p.commit), NEW g, g = d.store.log
    PROVE  Certified(g, M, p.commit, p.term)'
<1>1. PICK t, c : t = p.term /\ c = p.commit
  OBVIOUS
<1>2. t \in Nat /\ c \in Nat /\ c > 0 /\ c \in 1..Len(g) /\ g[c].term = t /\ g \in Seq(Entry)
  BY <1>1 DEF CommitsOwn, LastIndex, TermAt, RawState
<1>3. t \in DOMAIN leadersByTerm' /\ leadersByTerm'[t] = id
  BY <1>1, <1>2 DEF Onward, Led
<1>4. t \in DOMAIN M /\ M[t] = g
  BY <1>1, <1>3 DEF Onward, Continues, LedBy
<1>5. Slot(M, t, c)
  BY <1>2, <1>4 DEF Slot
<1>6. PICK Q : Q = Held(id, p, c)
  OBVIOUS
<1>7. IsQuorum(Q) /\ Q \in SUBSET Nodes
  BY <1>1, <1>6 DEF CommitsOwn, Held
<1>8. ASSUME NEW f \in Q
      PROVE  Has(f, t, c)'
  <2>1. CASE f = id
    BY <1>3, <2>1 DEF Has
  <2>2. CASE f # id
    <3>1. PICK i : i = d.raw.progress[f].match
      OBVIOUS
    <3>2. f \in Nodes /\ i >= c
      BY <1>6, <1>8, <2>2, <3>1 DEF Held
    <3>3. p.progress[f] \in Progress
      BY <3>2 DEF RawState
    <3>4. i \in Nat
      BY <3>1, <3>3 DEF Progress
    <3>5. i > 0
      BY <1>2, <3>2, <3>4
    <3>6. d.running /\ d.raw.role = "leader" /\ d.raw.term = t
      BY <1>1 DEF Leads
    <3>7. AckedTo(f, t, i)'
      BY <3>1, <3>2, <3>5, <3>6 DEF Onward, MatchKnown
    <3>8. PICK x \in Payloads' : Ack(x) /\ x.from = f /\ x.term = t /\ x.index >= i
      BY <3>7 DEF AckedTo, Ack
    <3>9. x \in Message
      BY <3>8 DEF Onward, MessagesOK, Payloads, Envelope
    <3>10. x.index \in Nat
      BY <3>9 DEF Message
    <3>11. x.index >= c
      BY <1>2, <3>2, <3>4, <3>8, <3>10
    <3>12. AckedTo(f, t, c)'
      BY <3>8, <3>11 DEF AckedTo, Ack
    <3> QED
      BY <3>12 DEF Has
  <2> QED
    BY <2>1, <2>2
<1>9. Chosen(t, c)'
  BY <1>7, <1>8 DEF Chosen
<1>10. Agree(g, M[t], c)
  BY <1>2, <1>4 DEF Agree
<1>11. t <= t /\ c <= c
  BY <1>2
<1>12. Certified(g, M, c, t)'
  BY <1>5, <1>9, <1>10, <1>11 DEF Certified, Slot, Agree
<1> QED
  BY <1>1, <1>12

\* What a follower commits, its leader had committed.
LEMMA AppendCommits ==
    ASSUME NEW sent, Executed(sent), NEW L, NEW M, Onward(L, M), NEW id \in Nodes, NEW r \in RawState,
           r.log = nodes[id].store.log, NEW p \in RawState, NEW m \in Payloads, m.term = p.term,
           Accepts(r, m), Taken(r, m, p), p.commit = MinOf(m.commit, m.index + Len(m.entries)), NEW g, g = p.log
    PROVE  Certified(g, M, p.commit, p.term)'
<1>1. /\ LedBy(L) /\ Following(L) /\ Carried(L) /\ MessagesCertified(L) /\ Led
  BY DEF Onward, Grounds, LogsKept, Quorate
<1>2. m \in Message /\ m.type = "MsgApp"
  BY DEF Onward, Grounds, MessagesOK, Payloads, Envelope, Accepts
<1>3. PICK t, l, c, b, k : /\ t = m.term /\ l = L[t] /\ c = m.commit /\ b = p.commit
                           /\ k = m.index + Len(m.entries)
  OBVIOUS
<1>4. t \in DOMAIN L /\ t \in Nat
  BY <1>1, <1>2, <1>3 DEF Led, LedBy, FromLeader
<1>5. l \in Seq(Entry) /\ Follows(l, L) /\ Follows(r.log, L)
  BY <1>1, <1>3, <1>4 DEF LedBy, Logs, Following
<1>6. Segment(l, m.index, m.entries) /\ m.logTerm = TermIn(l, m.index)
  BY <1>1, <1>2, <1>3 DEF Carried, CarriedBy
<1>7. Agree(g, l, k)
  BY <1>2, <1>3, <1>5, <1>6, TakenFollows
<1>8. g \in Seq(Entry)
  BY DEF RawState
<1>9. Len(g) \in Nat /\ Len(l) \in Nat
  BY <1>5, <1>8
<1>10. c \in Nat /\ m.index \in Nat /\ m.entries \in Seq(Entry)
  BY <1>2, <1>3 DEF Message
<1>11. k \in Nat
  BY <1>3, <1>10
<1>12. b \in Nat /\ b <= c /\ b <= k
  BY <1>3, <1>10, <1>11 DEF MinOf
<1>13. Agree(l, g, b)
  BY <1>7, <1>9, <1>11, <1>12, AgreeLess, AgreeBack
<1>14. Certified(l, L, c, t)
  BY <1>1, <1>2, <1>3 DEF MessagesCertified
<1>15. Certified(g, M, b, t)'
  <2>1. t <= t
    BY <1>4
  <2> QED
    BY <1>4, <1>9, <1>10, <1>12, <1>13, <1>14, <2>1, CertifiedOnward
<1> QED
  BY <1>3, <1>15

\* The commit index a heartbeat carries is certified in the log of its receiver.
LEMMA HeartbeatCommits ==
    ASSUME NEW sent, Executed(sent), NEW L, NEW M, Onward(L, M), NEW id \in Nodes, NEW n, n = nodes[id],
           NEW d, d = nodes'[id], NEW m \in Payloads, m.type = "MsgHeartbeat", m.to = id,
           m.term = d.store.term, m.commit > n.applied, NEW g, g = n.store.log
    PROVE  Certified(g, M, m.commit, m.term)'
<1>1. LedBy(L) /\ MessagesCertified(L) /\ Led /\ HeartbeatsKnown /\ Acknowledged(L)
  BY DEF Onward, Grounds, LogsKept, Quorate
<1>2. m \in Message
  BY DEF Onward, Grounds, MessagesOK, Payloads, Envelope
<1>3. PICK t, l, c : t = m.term /\ l = L[t] /\ c = m.commit
  OBVIOUS
<1>4. t \in DOMAIN L /\ t \in Nat
  BY <1>1, <1>3 DEF Led, LedBy, FromLeader
<1>5. l \in Seq(Entry) /\ Len(l) \in Nat
  BY <1>1, <1>3, <1>4 DEF LedBy, Logs
<1>6. /\ NodeOK(id, n) /\ n.store.term \in Nat /\ d.store.term \in Nat /\ n.store.term <= d.store.term
      /\ Len(g) \in Nat
  BY StoresAre
<1>7. n.applied \in Nat
  BY <1>6, StoredIs
<1>8. c \in Nat /\ c > n.applied /\ c > 0
  BY <1>2, <1>3, <1>7 DEF Message
<1>9. PICK a \in Payloads : Ack(a) /\ a.from = id /\ a.term = t /\ a.index >= c
  BY <1>1, <1>3, <1>8 DEF HeartbeatsKnown, AckedTo
<1>10. a \in Message
  BY <1>9 DEF Onward, Grounds, MessagesOK, Payloads, Envelope
<1>11. a.index \in Nat
  BY <1>10 DEF Message
<1>12. a.term <= n.store.term /\ (a.term = n.store.term => a.index <= n.applied \/ Agree(g, L[a.term], a.index))
  BY <1>1, <1>9 DEF Acknowledged, AckStands
<1>13. a.term = n.store.term
  BY <1>3, <1>4, <1>6, <1>9, <1>12
<1>14. Agree(g, l, a.index)
  BY <1>3, <1>7, <1>8, <1>9, <1>11, <1>12, <1>13
<1>15. Agree(l, g, c)
  BY <1>5, <1>6, <1>8, <1>9, <1>11, <1>14, AgreeLess, AgreeBack
<1>16. Certified(l, L, c, t)
  BY <1>1, <1>3 DEF MessagesCertified
<1>17. Certified(g, M, c, t)'
  <2>1. t <= t /\ c <= c
    BY <1>4, <1>8
  <2> QED
    BY <1>4, <1>5, <1>6, <1>8, <1>15, <1>16, <2>1, CertifiedOnward
<1> QED
  BY <1>3, <1>17

\* What a snapshot holds is certified in the term of its message.
LEMMA SnapshotCommits ==
    ASSUME NEW sent, Executed(sent), NEW L, NEW M, Onward(L, M), NEW id \in Nodes, NEW r \in RawState,
           r.log = nodes[id].store.log, NEW m \in Payloads, m.type = "MsgSnap",
           NEW g, g = m.snapshot \/ (Known(r, m) /\ g = r.log)
    PROVE  Certified(g, M, Len(m.snapshot), m.term)'
<1>1. LedBy(L) /\ Following(L) /\ Carried(L) /\ MessagesCertified(L) /\ Led
  BY DEF Onward, Grounds, LogsKept, Quorate
<1>2. m \in Message
  BY DEF Onward, Grounds, MessagesOK, Payloads, Envelope
<1>3. PICK t, l, s, c : t = m.term /\ l = L[t] /\ s = m.snapshot /\ c = Len(s)
  OBVIOUS
<1>4. t \in DOMAIN L /\ t \in Nat
  BY <1>1, <1>3 DEF Led, LedBy, FromLeader
<1>5. s \in Seq(Entry) /\ r.log \in Seq(Entry)
  BY <1>2, <1>3 DEF Message, RawState
<1>6. c \in Nat /\ Len(s) \in Nat
  BY <1>3, <1>5
<1>7. Certified(s, L, c, t)
  BY <1>1, <1>3 DEF MessagesCertified
<1>8. Agree(s, g, c) /\ Len(g) \in Nat
  <2>1. CASE g = s
    BY <1>3, <1>6, <2>1, AgreeWhole
  <2>2. CASE Known(r, m) /\ g = r.log
    <3>1. l \in Seq(Entry) /\ Follows(l, L) /\ Follows(g, L) /\ Logs(L)
      BY <1>1, <1>3, <1>4, <2>2 DEF LedBy, Logs, Following
    <3>2. Agree(s, l, Len(s))
      BY <1>1, <1>3 DEF Carried, CarriedBy
    <3>3. Follows(s, L)
      BY <1>5, <3>1, <3>2, FollowsPrefix
    <3>4. c \in 1..Len(g) /\ g[c].term = s[c].term
      BY <1>3, <2>2 DEF Known, TermAt
    <3>5. Len(g) \in Nat /\ c <= Len(g)
      BY <1>5, <2>2, <3>4
    <3> QED
      BY <1>3, <1>5, <1>6, <2>2, <3>1, <3>3, <3>4, <3>5, LogsMatch
  <2> QED
    BY <1>3, <2>1, <2>2
<1>9. Certified(g, M, c, t)'
  <2>1. t <= t /\ c <= c
    BY <1>4, <1>6
  <2> QED
    BY <1>4, <1>6, <1>7, <1>8, <2>1, CertifiedOnward
<1> QED
  BY <1>3, <1>9

\* What a node has committed is certified.
LEMMA CommitsStayCertified ==
    ASSUME NEW sent, Executed(sent), NEW L, NEW M, Onward(L, M)
    PROVE  CommitsCertified(M)'
<1>1. /\ NodesOK /\ MessagesOK /\ PrefixesAgree /\ Snapped /\ CommitsCertified(L) /\ Acts(nodes', sent)
  BY DEF Onward, Grounds, Quorate, Executed
<1>2. ASSUME NEW id \in Nodes, NEW d, d = nodes'[id]
      PROVE  Certified(d.store.log, M, d.applied, d.store.term)'
  <2>1. PICK n : n = nodes[id]
    OBVIOUS
  <2>2. /\ NodeOK(id, n) /\ NodeOK(id, d)
        /\ n.store.term \in Nat /\ d.store.term \in Nat /\ n.store.term <= d.store.term
        /\ Len(n.store.log) \in Nat /\ Len(d.store.log) \in Nat
    BY <1>2, <2>1, StoresAre
  <2>3. PICK l, g, c, b, t, s : /\ l = n.store.log /\ g = d.store.log /\ c = n.applied /\ b = d.applied
                                /\ t = n.store.term /\ s = d.store.term
    OBVIOUS
  <2>4. CASE b = c
    <3>1. Extends(n, d)
      BY <1>1, <1>2, <2>1, AppliedExtends
    <3>2. /\ c \in Nat /\ c <= Len(l) /\ c <= Len(g)
          /\ \A j \in 1..c : n.prefixDigests[j] = l[j] /\ d.prefixDigests[j] = g[j]
      BY <2>2, <2>3, <2>4, StoredIs
    <3>3. Agree(l, g, c)
      BY <2>3, <3>1, <3>2 DEF Extends, Agree
    <3>4. Certified(l, L, c, t)
      BY <1>1, <2>1, <2>3 DEF CommitsCertified
    <3>5. c <= c
      BY <3>2
    <3>6. Certified(g, M, c, s)'
      BY <2>2, <2>3, <3>2, <3>3, <3>4, <3>5, CertifiedOnward
    <3> QED
      BY <2>3, <2>4, <3>6
  <2>5. CASE \E m, q : Input(id, m) /\ Calls(id, n, m, d, q) /\ b # c
    <3>1. PICK m, q : Input(id, m) /\ Calls(id, n, m, d, q)
      BY <2>5
    <3>2. PICK r, p : r = n.raw /\ p = q.raw
      OBVIOUS
    <3>3. /\ r \in RawState /\ p \in RawState /\ Worked(id, r, m, q) /\ r.log = l /\ r.commit = c
          /\ d.running /\ d.raw.role = p.role /\ d.raw.term = p.term /\ d.raw.progress = p.progress
          /\ s = p.term /\ g = p.log /\ b = p.commit
      BY <2>2, <2>3, <3>1, <3>2, CallIs
    <3>4. p.commit > r.commit /\ CommitComes(id, r, m, p) /\ StorageComes(r, m, p)
      BY <2>5, <3>2, <3>3 DEF Worked, CommitComes
    <3>5. m.type \in FromLeader => m \in Payloads /\ m.to = id
      BY <3>1 DEF Input, Hup, FromLeader
    <3>6. CASE p.role = "leader" /\ CommitsOwn(id, p, p.commit)
      <4>1. Leads(d, p.term)
        BY <3>3, <3>6 DEF Leads
      <4>2. Certified(g, M, p.commit, p.term)'
        BY <1>2, <2>3, <3>3, <3>6, <4>1, LeaderCommits
      <4> QED
        BY <2>3, <3>3, <4>2
    <3>7. CASE m.term = p.term /\ Accepts(r, m) /\ p.commit = MinOf(m.commit, m.index + Len(m.entries)) /\ Taken(r, m, p)
      <4>1. m \in Payloads
        BY <3>5, <3>7 DEF Accepts, FromLeader
      <4>2. Certified(g, M, p.commit, p.term)'
        BY <2>1, <2>3, <3>3, <3>7, <4>1, AppendCommits
      <4> QED
        BY <2>3, <3>3, <4>2
    <3>8. CASE m.term = p.term /\ m.type = "MsgHeartbeat" /\ p.commit = m.commit /\ p.log = r.log
      <4>1. m \in Payloads /\ m.to = id
        BY <3>5, <3>8 DEF FromLeader
      <4>2. m.commit > n.applied /\ m.term = d.store.term /\ g = n.store.log
        BY <2>3, <3>3, <3>4, <3>8
      <4>3. Certified(g, M, m.commit, m.term)'
        BY <1>2, <2>1, <3>8, <4>1, <4>2, HeartbeatCommits
      <4> QED
        BY <2>3, <3>3, <3>8, <4>3
    <3>9. CASE m.term = p.term /\ m.type = "MsgSnap" /\ p.commit = Len(m.snapshot) /\ (p.restored \/ (Known(r, m) /\ p.log = r.log))
      <4>1. m \in Payloads
        BY <3>5, <3>9 DEF FromLeader
      <4>2. g = m.snapshot \/ (Known(r, m) /\ g = r.log)
        BY <3>3, <3>4, <3>9 DEF StorageComes, Restores
      <4>3. r.log = nodes[id].store.log
        BY <2>1, <2>3, <3>3
      <4>4. Certified(g, M, Len(m.snapshot), m.term)'
        BY <3>3, <3>9, <4>1, <4>2, <4>3, SnapshotCommits
      <4> QED
        BY <2>3, <3>3, <3>9, <4>4
    <3>10. ~(p.commit = r.commit)
      BY <2>5, <3>3
    <3> QED
      BY <3>4, <3>6, <3>7, <3>8, <3>9, <3>10 DEF CommitComes
  <2>6. \/ b = c
        \/ \E m, q : Input(id, m) /\ Calls(id, n, m, d, q) /\ b # c
    <3>1. \/ d = n
          \/ Crashed(n, d)
          \/ Restarted(n, d)
          \/ \E m, q : Input(id, m) /\ Calls(id, n, m, d, q)
      BY <1>1, <1>2, <2>1, NodeMovesSo
    <3>2. d = n \/ Crashed(n, d) => b = c
      BY <2>3 DEF Crashed
    <3>3. Restarted(n, d) => b = c
      BY <2>2, <2>3 DEF Restarted, NodeOK, Stored
    <3> QED
      BY <3>1, <3>2, <3>3
  <2> QED
    BY <2>4, <2>5, <2>6
<1> QED
  BY <1>2 DEF CommitsCertified, Certified

\* What a leader sends of what it has committed is certified.
LEMMA MessagesStayCertified ==
    ASSUME NEW sent, Executed(sent), NEW L, NEW M, Onward(L, M)
    PROVE  MessagesCertified(M)'
<1>1. /\ NodesOK /\ MessagesOK /\ Led /\ LedBy(L) /\ MessagesCertified(L) /\ Acts(nodes', sent)
      /\ network' = network \cup sent /\ GrowsTo(L, M)
      /\ NodesOK' /\ MessagesOK' /\ Led' /\ LedBy(M)' /\ Snapped'
  BY DEF Onward, Grounds, Quorate, Executed, LogsKept, Continues
<1>2. CommitsCertified(M)'
  BY CommitsStayCertified
<1>3. ASSUME NEW x \in Payloads
      PROVE  /\ x.type \in {"MsgApp", "MsgHeartbeat"} => Certified(M[x.term], M, x.commit, x.term)'
             /\ x.type = "MsgSnap" => Certified(x.snapshot, M, Len(x.snapshot), x.term)'
  <2>1. x \in Message
    BY <1>1 DEF MessagesOK, Payloads, Envelope
  <2>2. x.commit \in Nat /\ x.term \in Nat /\ x.snapshot \in Seq(Entry) /\ Len(x.snapshot) \in Nat
    BY <2>1 DEF Message
  <2>3. x.term <= x.term /\ x.commit <= x.commit
    BY <2>2
  <2>4. CASE x.type \in {"MsgApp", "MsgHeartbeat"}
    <3>1. PICK t, l, g, c : t = x.term /\ l = L[t] /\ g = M[t] /\ c = x.commit
      OBVIOUS
    <3>2. t \in DOMAIN L
      BY <1>1, <2>4, <3>1 DEF Led, LedBy, FromLeader
    <3>3. l \in Seq(Entry) /\ g \in Seq(Entry) /\ Agree(l, g, Len(l))
      BY <1>1, <3>1, <3>2 DEF GrowsTo, Logs, Grown
    <3>4. Len(l) \in Nat /\ Len(g) \in Nat
      BY <3>3
    <3>5. Certified(l, L, c, t)
      BY <1>1, <2>4, <3>1 DEF MessagesCertified
    <3>6. c <= Len(l)
      BY <3>4, <3>5, CertifiedWithin
    <3>7. Agree(l, g, c)
      BY <2>2, <3>1, <3>3, <3>4, <3>6, AgreeLess
    <3>8. Certified(g, M, c, t)'
      BY <2>2, <2>3, <3>1, <3>4, <3>5, <3>7, CertifiedOnward
    <3> QED
      BY <2>4, <3>1, <3>8
  <2>5. CASE x.type = "MsgSnap"
    <3>1. Certified(x.snapshot, L, Len(x.snapshot), x.term)
      BY <1>1, <2>5 DEF MessagesCertified
    <3>2. Certified(x.snapshot, M, Len(x.snapshot), x.term)'
      BY <2>2, <3>1, CertifiedStill
    <3> QED
      BY <2>5, <3>2
  <2> QED
    BY <2>4, <2>5
<1>4. ASSUME NEW x \in Payloads', x \notin Payloads, x.type \in FromLeader
      PROVE  /\ x.type \in {"MsgApp", "MsgHeartbeat"} => Certified(M[x.term], M, x.commit, x.term)'
             /\ x.type = "MsgSnap" => Certified(x.snapshot, M, Len(x.snapshot), x.term)'
  <2>1. PICK id \in Nodes : \E m, q : /\ Input(id, m) /\ Calls(id, nodes[id], m, nodes'[id], q)
                                      /\ x \in q.out
    BY <1>1, <1>4, MessagesCome
  <2>2. PICK m, q : Input(id, m) /\ Calls(id, nodes[id], m, nodes'[id], q) /\ x \in q.out
    BY <2>1
  <2>3. PICK n, d, r, p : n = nodes[id] /\ d = nodes'[id] /\ r = n.raw /\ p = q.raw
    OBVIOUS
  <2>4. /\ x.from = id /\ x.term = p.term
        /\ \/ Replicates(id, p, x)
           \/ x.type = "MsgHeartbeat" /\ x.commit = MinOf(p.progress[x.to].match, p.commit)
    BY <1>4, <2>2, <2>3, CallSends DEF FromLeader
  <2>5. NodeOK(id, n) /\ NodeOK(id, d) /\ Len(d.store.log) \in Nat
    BY <2>3, StoresAre
  <2>6. p \in RawState /\ d.store.term = p.term /\ d.applied = p.commit
    BY <2>2, <2>3, <2>5, CallIs
  <2>7. PICK t, g, c : t = x.term /\ g = d.store.log /\ c = d.applied
    OBVIOUS
  <2>8. Leads(d, t) /\ t \in Nat
    BY <1>1, <1>4, <2>3, <2>4, <2>7, LeaderSends
  <2>9. t \in DOMAIN leadersByTerm'
    BY <1>1, <2>3, <2>8 DEF Led
  <2>10. M[t] = g
    BY <1>1, <2>3, <2>7, <2>8, <2>9 DEF LedBy
  <2>11. Certified(g, M, c, t)'
    BY <1>2, <2>3, <2>4, <2>6, <2>7 DEF CommitsCertified, Certified
  <2>12. /\ c \in Nat /\ Len(g) \in Nat /\ c <= Len(g) /\ Len(d.prefixDigests) = c
         /\ \A j \in 1..c : d.prefixDigests[j] = g[j]
    BY <2>5, <2>7, StoredIs
  <2>13. x \in Message
    BY <1>1, <1>4 DEF MessagesOK, Payloads, Envelope
  <2>14. /\ x.commit \in Nat /\ x.to \in Nodes /\ x.snapshot \in Seq(Entry) /\ Len(x.snapshot) \in Nat
    BY <2>13 DEF Message
  <2>15. Logs(M)' /\ (DOMAIN M \subseteq Nat)' /\ t <= t
    BY <1>1, <2>8 DEF GrowsTo, Logs
  <2>16. ASSUME NEW s, Len(s) \in Nat, NEW b \in Nat, b <= c, Agree(g, s, b)
         PROVE  Certified(s, M, b, t)'
    BY <2>8, <2>11, <2>12, <2>15, <2>16, CertifiedOfNext DEF Agree
  <2>17. CASE x.type = "MsgApp"
    <3>1. x.commit = c
      BY <2>4, <2>6, <2>7, <2>17 DEF Replicates
    <3> QED
      BY <2>7, <2>10, <2>11, <2>17, <3>1
  <2>18. CASE x.type = "MsgHeartbeat"
    <3>1. x.commit = MinOf(p.progress[x.to].match, c)
      BY <2>4, <2>6, <2>7, <2>18 DEF Replicates
    <3>2. p.progress[x.to] \in Progress
      BY <2>6, <2>14 DEF RawState
    <3>3. p.progress[x.to].match \in Nat
      BY <3>2 DEF Progress
    <3>4. x.commit <= c
      BY <2>12, <3>1, <3>3 DEF MinOf
    <3>5. Agree(g, g, x.commit)
      BY <2>12, <2>14, <3>4 DEF Agree
    <3>6. Certified(g, M, x.commit, t)'
      BY <2>12, <2>14, <2>16, <3>4, <3>5
    <3> QED
      BY <2>7, <2>10, <2>18, <3>6
  <2>19. CASE x.type = "MsgSnap"
    <3>1. Agree(x.snapshot, d.prefixDigests, Len(x.snapshot))
      BY <1>1, <1>4, <2>3, <2>4, <2>19 DEF Snapped
    <3>2. Len(x.snapshot) <= c
      BY <2>12, <3>1 DEF Agree
    <3>3. Agree(g, x.snapshot, Len(x.snapshot))
      BY <2>12, <2>14, <3>1, <3>2 DEF Agree
    <3>4. Certified(x.snapshot, M, Len(x.snapshot), t)'
      BY <2>14, <2>16, <3>2, <3>3
    <3> QED
      BY <2>7, <2>19, <3>4
  <2> QED
    BY <2>17, <2>18, <2>19
<1>5. ASSUME NEW x \in Payloads'
      PROVE  /\ x.type \in {"MsgApp", "MsgHeartbeat"} => Certified(M[x.term], M, x.commit, x.term)'
             /\ x.type = "MsgSnap" => Certified(x.snapshot, M, Len(x.snapshot), x.term)'
  BY <1>3, <1>4, <1>5 DEF FromLeader
<1> QED
  BY <1>5 DEF MessagesCertified, Certified

----------------------------------------------------------------------------
(* What a node has acknowledged, it and whoever it elects have.            *)

\* What a node has committed is in the log of the leader of its term.
LEMMA CommittedInLeader ==
    ASSUME VoteQuorumDivisor = 2, NEW sent, Executed(sent), NEW L, NEW M, Onward(L, M), NEW id \in Nodes,
           NEW d, d = nodes'[id], NEW w \in DOMAIN M, d.store.term <= w
    PROVE  Agree(d.store.log, M[w], d.applied)
<1>1. Sound(M)' /\ CommitsCertified(M)'
  BY SoundNext, CommitsStayCertified
<1>2. /\ NodeOK(id, d) /\ d.store.term \in Nat /\ Len(d.store.log) \in Nat
  BY StoresAre
<1>3. d.applied \in Nat
  BY <1>2, StoredIs
<1>4. Certified(d.store.log, M, d.applied, d.store.term)'
  BY <1>1 DEF CommitsCertified, Certified
<1>5. PICK l, c, t : l = d.store.log /\ c = d.applied /\ t = d.store.term
  OBVIOUS
<1>6. Certified(l, M, c, t)' /\ Len(l) \in Nat /\ c \in Nat /\ t \in Nat /\ t <= w
  BY <1>2, <1>3, <1>4, <1>5
<1>7. Agree(l, M[w], c)'
  BY <1>1, <1>6, CertifiedInLeaderNext
<1>8. Agree(l, M[w], c)
  BY <1>7 DEF Agree
<1> QED
  BY <1>5, <1>8

\* An acknowledgement a node has just sent is of what the leader has.
LEMMA AckInLeader ==
    ASSUME VoteQuorumDivisor = 2, NEW sent, Executed(sent), NEW L, NEW M, Onward(L, M),
           NEW x \in Payloads', Ack(x), NEW d, d = nodes'[x.from], x.term = d.store.term
    PROVE  x.term \in DOMAIN M /\ x.index \in Nat /\ Agree(d.store.log, M[x.term], x.index)
<1>1. MessagesOK' /\ Acknowledged(M)' /\ GrowsTo(L, M)
  BY DEF Onward, LogsKept
<1>2. x \in Message
  BY <1>1 DEF MessagesOK, Payloads, Envelope
<1>3. x.from \in Nodes /\ x.index \in Nat
  BY <1>2 DEF Message
<1>4. NodeOK(x.from, d) /\ d.store.term \in Nat /\ Len(d.store.log) \in Nat
  BY <1>3, StoresAre
<1>5. d.applied \in Nat
  BY <1>4, StoredIs
<1>6. x.term \in DOMAIN M /\ (x.index <= d.applied \/ Agree(d.store.log, M[x.term], x.index))
  BY <1>1 DEF Acknowledged, AckStands, Ack, Agree
<1>7. CASE x.index <= d.applied
  <2>1. d.store.term <= x.term
    BY <1>4
  <2>2. Agree(d.store.log, M[x.term], d.applied)
    BY <1>3, <1>6, <2>1, CommittedInLeader
  <2>3. M[x.term] \in Seq(Entry)
    BY <1>1, <1>6 DEF GrowsTo, Logs
  <2>4. Len(M[x.term]) \in Nat
    BY <2>3
  <2> QED
    BY <1>3, <1>4, <1>5, <1>6, <1>7, <2>2, <2>4, AgreeLess
<1> QED
  BY <1>3, <1>6, <1>7

\* What is acknowledged in a term is still within the log of its leader.
LEMMA AcksStayBounded ==
    ASSUME VoteQuorumDivisor = 2, NEW sent, Executed(sent), NEW L, NEW M, Onward(L, M)
    PROVE  AcksBounded(M)'
<1>1. ASSUME NEW x \in Payloads', Ack(x)
      PROVE  x.index <= Len(M[x.term])
  <2>1. CASE x \in Payloads
    <3>1. x.index <= Len(L[x.term]) /\ x.term \in DOMAIN L
      BY <1>1, <2>1 DEF Onward, Quorate, AcksBounded, LogsKept, Acknowledged, AckStands
    <3>2. PICK l, g : l = L[x.term] /\ g = M[x.term]
      OBVIOUS
    <3>3. l \in Seq(Entry) /\ g \in Seq(Entry) /\ Agree(l, g, Len(l))
      BY <3>1, <3>2 DEF Onward, GrowsTo, Grown, Logs
    <3>4. x \in Message
      BY <2>1 DEF Onward, Grounds, MessagesOK, Payloads, Envelope
    <3>5. x.index \in Nat /\ Len(l) \in Nat /\ Len(g) \in Nat /\ Len(l) <= Len(g)
      BY <3>3, <3>4 DEF Message, Agree
    <3> QED
      BY <3>1, <3>2, <3>5
  <2>2. CASE x \notin Payloads
    <3>1. NodesOK
      BY DEF Onward, Grounds
    <3>2. x.term = nodes'[x.from].store.term
      BY <1>1, <2>2, <3>1, AckTermIs
    <3> QED
      BY <1>1, <3>2, AckInLeader DEF Agree
  <2> QED
    BY <2>1, <2>2
<1> QED
  BY <1>1 DEF AcksBounded, Ack

\* A place that a node had before a step it keeps, or its new leader has lost it.
LEMMA HolderKeeps ==
    ASSUME NEW sent, Executed(sent), NEW L, NEW M, Onward(L, M), NEW p \in Nodes, NEW u, NEW k,
           Slot(L, u, k), Has(p, u, k), NEW d, d = nodes'[p]
    PROVE  u <= d.store.term /\ Keeps(d.store.log, M, u, k, d.store.term)
<1>1. /\ NodesOK /\ MessagesOK /\ Led /\ LedBy(L) /\ Following(L) /\ Carried(L) /\ HoldersKeep(L) /\ GrowsTo(L, M)
      /\ Acts(nodes', sent)
  BY DEF Onward, Grounds, LogsKept, Quorate, Executed
<1>2. PICK n : n = nodes[p]
  OBVIOUS
<1>3. /\ n.store.term \in Nat /\ d.store.term \in Nat /\ n.store.term <= d.store.term
      /\ n.store.log \in Seq(Entry) /\ d.store.log \in Seq(Entry)
      /\ Len(n.store.log) \in Nat /\ Len(d.store.log) \in Nat
  BY <1>2, StoresAre
<1>4. PICK l, g, t : l = n.store.log /\ g = d.store.log /\ t = d.store.term
  OBVIOUS
<1>5. u <= n.store.term /\ Keeps(l, L, u, k, n.store.term)
  BY <1>1, <1>2, <1>4 DEF HoldersKeep
<1>6. u \in Nat /\ k \in Nat /\ DOMAIN L \subseteq Nat /\ Logs(L)
  <2>1. u \in Nat /\ k \in Nat
    BY <1>1, SlotGrown
  <2> QED
    BY <1>1, <2>1, OnwardIs DEF LedBy
<1>7. u <= t /\ t \in Nat /\ t \in Int
  BY <1>3, <1>4, <1>5, <1>6
<1>8. Keeps(l, L, u, k, t)
  BY <1>3, <1>4, <1>5, <1>6, KeepsLater
<1>9. Keeps(g, L, u, k, t)
  <2>1. CASE g = l
    BY <1>8, <2>1
  <2>2. CASE Adds(n, d)
    <3>1. PICK e \in Entry : g = Append(l, e)
      BY <1>4, <2>2 DEF Adds
    <3>2. Len(g) = Len(l) + 1 /\ \A j \in 1..Len(l) : g[j] = l[j]
      BY <1>3, <1>4, <3>1, AppendProperties
    <3>3. Agree(l, g, Len(l))
      BY <1>3, <1>4, <3>2 DEF Agree
    <3>4. Agree(l, L[u], k) => Agree(g, L[u], k)
      BY <1>3, <1>4, <1>6, <3>3, AgreeLonger
    <3> QED
      BY <1>8, <3>4 DEF Keeps
  <2>3. CASE Brought(n, d)
    <3>1. PICK m \in Payloads :
                /\ m.term = d.store.term /\ n.raw.log = n.store.log /\ n.raw.commit = n.applied
                /\ n.raw \in RawState
                /\ \/ m.type = "MsgApp" /\ Accepts(n.raw, m) /\ ~Agrees(n.raw, m)
                      /\ d.store.log = Overwritten(n.raw, m)
                   \/ m.type = "MsgSnap" /\ ~Known(n.raw, m) /\ d.store.log = m.snapshot
                      /\ Len(m.snapshot) > n.applied
      BY <2>3 DEF Brought
    <3>2. PICK h : h = L[m.term]
      OBVIOUS
    <3>3. m.term \in DOMAIN L /\ h \in Seq(Entry) /\ g \in Seq(Entry) /\ Agree(g, h, Len(g))
      BY <1>1, <1>2, <1>4, <3>1, <3>2, LogBrought
    <3>4. m \in Message
      BY <1>1 DEF MessagesOK, Payloads, Envelope
    <3>5. n.applied \in Nat
      <4>1. NodeOK(p, n)
        BY <1>2, StoresAre
      <4> QED
        BY <4>1, StoredIs
    <3>6. m.type = "MsgSnap" => Len(m.snapshot) > 0
      <4>1. m.snapshot \in Seq(Entry)
        BY <3>4 DEF Message
      <4>2. Len(m.snapshot) \in Nat
        BY <4>1
      <4>3. CASE m.type = "MsgSnap"
        <5>1. Len(m.snapshot) > n.applied
          BY <3>1, <4>3
        <5> QED
          BY <3>5, <4>2, <5>1
      <4> QED
        BY <4>3
    <3>7. m.type = "MsgApp" => Segment(h, m.index, m.entries)
      BY <1>1, <3>2 DEF Carried, CarriedBy
    <3>8. ASSUME Agree(l, h, k)
          PROVE  Agree(g, h, k)
      <4>1. Agree(n.raw.log, h, k)
        BY <1>4, <3>1, <3>8
      <4>2. n.raw \in RawState
        BY <3>1
      <4>3. \/ /\ m.type = "MsgApp" /\ Accepts(n.raw, m) /\ ~Agrees(n.raw, m) /\ g = Overwritten(n.raw, m)
               /\ Segment(h, m.index, m.entries)
            \/ m.type = "MsgSnap" /\ ~Known(n.raw, m) /\ g = m.snapshot /\ Len(m.snapshot) > 0
        BY <1>4, <3>1, <3>6, <3>7
      <4>4. k <= Len(g)
        BY <1>6, <3>3, <3>4, <4>1, <4>2, <4>3, BroughtKeeps
      <4>5. Len(g) \in Nat /\ Len(h) \in Nat
        BY <3>3
      <4> QED
        BY <1>6, <3>3, <4>4, <4>5, AgreeLess
    <3>9. CASE Lost(L, u, k, t)
      BY <3>9 DEF Keeps
    <3>10. CASE ~Lost(L, u, k, t)
      <4>1. Agree(l, L[u], k)
        BY <1>8, <3>10 DEF Keeps
      <4>2. t \in DOMAIN L /\ h = L[t]
        BY <1>4, <3>1, <3>2, <3>3
      <4>3. Agree(h, L[u], k)
        <5>1. CASE u = t
          <6>1. Slot(L, u, k) /\ h = L[u]
            BY <4>2, <5>1
          <6>2. k <= Len(h)
            BY <6>1 DEF Slot
          <6> QED
            BY <6>1, <6>2 DEF Agree
        <5>2. CASE u # t
          <6>1. u < t /\ t <= t
            BY <1>6, <1>7, <5>2
          <6> QED
            BY <3>10, <4>2, <6>1 DEF Lost
        <5> QED
          BY <5>1, <5>2
      <4>4. Agree(l, h, k)
        BY <4>1, <4>3, AgreeBack, AgreeBoth
      <4>5. Agree(g, L[u], k)
        BY <3>8, <4>3, <4>4, AgreeBoth
      <4> QED
        BY <4>5 DEF Keeps
    <3> QED
      BY <3>9, <3>10
  <2> QED
    BY <1>1, <1>2, <1>4, <2>1, <2>2, <2>3, LogGoes
<1>10. Keeps(g, M, u, k, t)
  BY <1>1, <1>7, <1>9, KeepsGrown
<1> QED
  BY <1>4, <1>7, <1>10

\* Who has a place still keeps it, unless the log of a later leader lost it.
LEMMA HoldersStillKeep ==
    ASSUME VoteQuorumDivisor = 2, NEW sent, Executed(sent), NEW L, NEW M, Onward(L, M)
    PROVE  HoldersKeep(M)'
<1>1. ASSUME NEW p \in Nodes, NEW u, NEW k, Slot(M, u, k), Has(p, u, k)', NEW d, d = nodes'[p]
      PROVE  u <= d.store.term /\ Keeps(d.store.log, M, u, k, d.store.term)
  <2>1. CASE Slot(L, u, k) /\ Has(p, u, k)
    BY <1>1, <2>1, HolderKeeps
  <2>2. k \in 1..Len(M[u]) /\ k \in Nat /\ u \in DOMAIN M /\ u \in Nat /\ u <= u
    BY <1>1, OnwardIs DEF Slot
  <2>3. CASE d.store.term = u /\ Leads(d, u)
    <3>1. u \in DOMAIN leadersByTerm' /\ leadersByTerm'[u] = p
      BY <1>1, <2>2, <2>3 DEF Onward, Led
    <3>2. M[u] = d.store.log
      BY <1>1, <2>2, <2>3, <3>1 DEF Onward, Continues, LedBy
    <3>3. Agree(d.store.log, M[u], k)
      BY <2>2, <3>2 DEF Agree
    <3> QED
      BY <2>2, <2>3, <3>3 DEF Keeps
  <2>4. CASE d.store.term = u /\ \E x \in Payloads' : Ack(x) /\ x.from = p /\ x.term = u /\ x.index >= k
    <3>1. PICK x \in Payloads' : Ack(x) /\ x.from = p /\ x.term = u /\ x.index >= k
      BY <2>4
    <3>2. x.index \in Nat /\ Agree(d.store.log, M[u], x.index)
      BY <1>1, <2>4, <3>1, AckInLeader
    <3>3. Len(d.store.log) \in Nat
      BY <1>1, StoresAre
    <3>4. M[u] \in Seq(Entry)
      BY <2>2 DEF Onward, GrowsTo, Logs
    <3>5. Len(M[u]) \in Nat /\ k <= x.index
      BY <2>2, <3>1, <3>2, <3>4
    <3>6. Agree(d.store.log, M[u], k)
      BY <2>2, <3>2, <3>3, <3>5, AgreeLess
    <3> QED
      BY <2>2, <2>4, <3>6 DEF Keeps
  <2> QED
    BY <1>1, <2>1, <2>3, <2>4, HasComes
<1> QED
  BY <1>1 DEF HoldersKeep, Slot, Keeps, Lost

\* A candidate has what those that back it have.
LEMMA CandidatesStillKnow ==
    ASSUME NEW sent, Executed(sent), NEW L, NEW M, Onward(L, M)
    PROVE  CandidatesKnow(M)'
<1>1. /\ NodesOK /\ MessagesOK /\ Led /\ LedBy(L) /\ Following(L) /\ VotesOnDisk /\ VotesAsked /\ VotesGranted
      /\ TermsBounded(L) /\ HoldersKeep(L) /\ CandidatesKnow(L) /\ GrowsTo(L, M) /\ Acts(nodes', sent)
  BY DEF Onward, Grounds, LogsKept, Quorate, Ballots, Executed
<1>2. DOMAIN L \subseteq Nat /\ Logs(L)
  BY <1>1, OnwardIs DEF LedBy
<1>3. ASSUME NEW id \in Nodes, NEW t \in Nat, NEW p \in Nodes, NEW d, d = nodes'[id], Campaigning(d, t),
             Backs(p, id, t)'
      PROVE  Knows(d.store.log, M, p, t, t)'
  <2>1. PICK n, g : n = nodes[id] /\ g = n.store.log
    OBVIOUS
  <2>2. /\ d.store.log = g /\ d.store.term = t /\ (Campaigning(n, t) \/ t = n.store.term + 1)
    BY <1>1, <1>3, <2>1, CandidateBefore
  <2>3. /\ NodeOK(id, n) /\ n.store.term \in Nat /\ n.store.term <= t /\ g \in Seq(Entry) /\ Len(g) \in Nat
    BY <1>3, <2>1, <2>2, StoresAre
  <2>4. t \in Int /\ t <= t
    BY <1>3
  <2>5. CASE p = id
    <3>1. ASSUME NEW u, NEW k, Slot(M, u, k), u < t, Has(p, u, k)'
          PROVE  Keeps(g, M, u, k, t)
      <4>1. u \in Nat
        BY <3>1, OnwardIs DEF Slot
      <4>2. Slot(L, u, k) /\ Has(p, u, k)
        BY <1>3, <2>2, <2>5, <3>1, <4>1, HasComes
      <4>3. Keeps(g, L, u, k, n.store.term)
        BY <1>1, <2>1, <2>5, <4>2 DEF HoldersKeep
      <4>4. Keeps(g, L, u, k, t)
        BY <1>2, <1>3, <2>3, <4>3, KeepsLater
      <4> QED
        BY <1>1, <2>4, <4>2, <4>4, KeepsGrown
    <3> QED
      BY <2>2, <3>1 DEF Knows, Slot, Keeps, Lost
  <2>6. ASSUME NEW x \in Payloads, Granted(x), x.from = p, x.to = id, x.term = t
        PROVE  Knows(d.store.log, M, p, t, t)'
    <3>1. t <= n.store.term
      BY <1>1, <2>1, <2>6 DEF VotesGranted
    <3>2. Campaigning(n, t)
      BY <1>3, <2>2, <2>3, <3>1
    <3>3. Backs(p, id, t)
      BY <2>6 DEF Backs
    <3>4. Knows(g, L, p, t, t)
      BY <1>1, <1>3, <2>1, <3>2, <3>3 DEF CandidatesKnow
    <3>5. t <= nodes[p].store.term
      BY <1>1, <2>6 DEF VotesOnDisk, VoteOnDisk
    <3>6. nodes[p].store.term \in Nat /\ nodes'[p].store.term \in Nat /\ nodes[p].store.term <= nodes'[p].store.term
      BY <1>3, StoresAre
    <3>7. t <= nodes'[p].store.term
      BY <1>3, <3>5, <3>6
    <3>8. Agree(g, g, Len(g))
      BY <2>3, AgreeWhole
    <3>9. Knows(g, M, p, t, t)'
      BY <1>3, <2>3, <2>4, <3>4, <3>7, <3>8, KnowsStill
    <3> QED
      BY <2>2, <3>9
  <2>7. ASSUME NEW x \in Payloads', x \notin Payloads, Granted(x), x.from = p, x.to = id, x.term = t
        PROVE  Knows(d.store.log, M, p, t, t)'
    <3>1. PICK l, s : l = nodes[p].store.log /\ s = nodes[p].store.term
      OBVIOUS
    <3>2. /\ nodes'[p].store.term = t
          /\ \E m \in Payloads :
                 /\ m.type = "MsgVote" /\ m.from = id /\ m.term = t
                 /\ \/ m.logTerm > TermIn(l, Len(l))
                    \/ m.logTerm = TermIn(l, Len(l)) /\ m.index >= Len(l)
      BY <1>1, <2>7, <3>1, VoteAnswers
    <3>3. PICK m \in Payloads :
                 /\ m.type = "MsgVote" /\ m.from = id /\ m.term = t
                 /\ \/ m.logTerm > TermIn(l, Len(l))
                    \/ m.logTerm = TermIn(l, Len(l)) /\ m.index >= Len(l)
      BY <3>2
    <3>4. m.term <= n.store.term
      BY <1>1, <2>1, <3>3 DEF VotesAsked
    <3>5. Campaigning(n, t)
      BY <1>3, <2>2, <2>3, <3>3, <3>4
    <3>6. m.index = Len(g) /\ m.logTerm = TermIn(g, Len(g))
      BY <1>1, <2>1, <3>3, <3>5 DEF VotesAsked
    <3>7. \/ TermIn(g, Len(g)) > TermIn(l, Len(l))
          \/ TermIn(g, Len(g)) = TermIn(l, Len(l)) /\ Len(g) >= Len(l)
      BY <3>3, <3>6
    <3>8. n.store.term = t
      BY <1>3, <2>3, <3>3, <3>4
    <3>9. \A j \in 1..Len(g) : g[j].term <= t
      BY <1>1, <2>1, <3>8 DEF TermsBounded
    <3>10. \A w \in DOMAIN L : \A j \in 1..Len(L[w]) : L[w][j].term <= w
      BY <1>1 DEF TermsBounded
    <3>11. l \in Seq(Entry) /\ s \in Nat /\ s <= t
      <4>1. s <= nodes'[p].store.term /\ s \in Nat /\ l \in Seq(Entry)
        BY <1>3, <3>1, StoresAre
      <4> QED
        BY <3>2, <4>1
    <3>12. Follows(g, L) /\ Follows(l, L)
      BY <1>1, <1>3, <2>1, <3>1 DEF Following
    <3>13. ASSUME NEW u, NEW k, Slot(M, u, k), u < t, Has(p, u, k)'
           PROVE  Keeps(g, M, u, k, t)
      <4>1. u \in Nat
        BY <3>13, OnwardIs DEF Slot
      <4>2. Slot(L, u, k) /\ Has(p, u, k)
        BY <1>3, <3>2, <3>13, <4>1, HasComes
      <4>3. Keeps(l, L, u, k, s)
        BY <1>1, <3>1, <4>2 DEF HoldersKeep
      <4>4. Keeps(g, L, u, k, t)
        <5>1. CASE Agree(l, L[u], k)
          BY <1>2, <1>3, <2>3, <3>7, <3>9, <3>10, <3>11, <3>12, <4>2, <5>1, UpToDateKeeps
        <5>2. CASE Lost(L, u, k, s)
          <6>1. Keeps(g, L, u, k, s)
            BY <5>2 DEF Keeps
          <6> QED
            BY <1>2, <1>3, <3>11, <6>1, KeepsLater
        <5> QED
          BY <4>3, <5>1, <5>2 DEF Keeps
      <4> QED
        BY <1>1, <2>4, <4>2, <4>4, KeepsGrown
    <3> QED
      BY <2>2, <3>13 DEF Knows, Slot, Keeps, Lost
  <2>8. p = id \/ \E x \in Payloads' : Granted(x) /\ x.from = p /\ x.to = id /\ x.term = t
    BY <1>3 DEF Backs, Granted
  <2> QED
    BY <2>5, <2>6, <2>7, <2>8
<1> QED
  BY <1>3 DEF CandidatesKnow, Campaigning

\* The quorum's part of the invariant is kept by every call of the adapter.
LEMMA QuorateStays ==
    ASSUME VoteQuorumDivisor = 2, NEW sent, Executed(sent), NEW L, NEW M, Onward(L, M)
    PROVE  Quorate(M)'
<1>1. TermsBounded(M)' /\ AcksBounded(M)' /\ HoldersKeep(M)' /\ CandidatesKnow(M)' /\ LeadersKnow(M)'
  BY TermsStayBounded, AcksStayBounded, HoldersStillKeep, CandidatesStillKnow, LeadersStillKnow
<1>2. CommitsCertified(M)' /\ MessagesCertified(M)'
  BY CommitsStayCertified, MessagesStayCertified
<1> QED
  BY <1>1, <1>2 DEF Quorate

----------------------------------------------------------------------------
(* The oracle stays silent.                                                *)

\* What the oracle observes of a node.
LEMMA ObservedIs ==
    ASSUME NEW id, NEW n, NodeOK(id, n), NEW o, o = Observe(n)
    PROVE  /\ o.term = n.store.term /\ o.commit = n.applied /\ o.applied = n.applied
           /\ o.lastIndex = Len(n.store.log)
<1>1. /\ o.term = (IF n.running THEN n.raw.term ELSE n.store.term)
      /\ o.commit = (IF n.running THEN n.raw.commit ELSE n.store.commit)
      /\ o.applied = (IF n.running THEN n.raw.applied ELSE n.applied)
      /\ o.lastIndex = Len(n.store.log)
  BY DEF Observe
<1> QED
  BY <1>1 DEF NodeOK, OnDisk, Stored

\* Nothing the oracle observes of a node regresses, or exceeds what it may be.
LEMMA NothingRegresses ==
    ASSUME NodesOK, MessagesOK, PrefixesAgree, Snapped, NEW sent, Executed(sent), NEW id \in Nodes
    PROVE  /\ MonotonicFindings(Observation(nodes)[id], Observation(nodes')[id]) = {}
           /\ NodeFindings(Observation(nodes')[id]) = {}
<1>1. Acts(nodes', sent)
  BY DEF Executed
<1>2. PICK n, d, a, b : n = nodes[id] /\ d = nodes'[id] /\ a = Observation(nodes)[id] /\ b = Observation(nodes')[id]
  OBVIOUS
<1>3. NodeOK(id, n) /\ NodeOK(id, d)
  BY <1>1, <1>2, NodeMovesSo
<1>4. a = Observe(n) /\ b = Observe(d)
  BY <1>2 DEF Observation
<1>5. /\ a.term = n.store.term /\ a.commit = n.applied /\ a.applied = n.applied
      /\ b.term = d.store.term /\ b.commit = d.applied /\ b.applied = d.applied /\ b.lastIndex = Len(d.store.log)
  BY <1>3, <1>4, ObservedIs
<1>6. n.store.term \in Nat /\ d.store.term \in Nat /\ n.store.term <= d.store.term
  BY <1>1, <1>2, TermsRise
<1>7. Extends(n, d)
  BY <1>1, <1>2, AppliedExtends
<1>8. n.applied \in Nat /\ d.applied \in Nat /\ Len(d.store.log) \in Nat /\ d.applied <= Len(d.store.log)
  BY <1>3, StoredIs
<1>9. ~(b.term < a.term) /\ ~(b.commit < a.commit) /\ ~(b.applied < a.applied)
  BY <1>5, <1>6, <1>7, <1>8 DEF Extends
<1>10. ~(b.applied > b.commit) /\ ~(b.commit > b.lastIndex)
  BY <1>5, <1>8
<1>11. MonotonicFindings(a, b) = {}
  BY <1>9 DEF MonotonicFindings, Found
<1>12. NodeFindings(b) = {}
  BY <1>10 DEF NodeFindings, Found
<1> QED
  BY <1>2, <1>11, <1>12

\* Where what is committed agrees, the oracle finds no conflict.
LEMMA AgreementIsSilent ==
    ASSUME NodesOK, PrefixesAgree
    PROVE  PrefixFindings(nodes, Observation(nodes)) = {}
<1>1. PICK o : o = Observation(nodes)
  OBVIOUS
<1>2. PICK exposed : exposed = {id \in Nodes : PrefixAvailable(nodes, o, id)}
  OBVIOUS
<1>3. PICK pairs : pairs = {p \in exposed \X exposed : 0 < o[p[1]].commit /\ o[p[1]].commit <= o[p[2]].commit}
  OBVIOUS
<1>4. ASSUME NEW id \in Nodes
      PROVE  /\ o[id].commit = nodes[id].applied
             /\ nodes[id].applied \in Nat /\ nodes[id].prefixDigests \in Seq(Entry)
             /\ Len(nodes[id].prefixDigests) = nodes[id].applied
  <2>1. NodeOK(id, nodes[id]) /\ o[id] = Observe(nodes[id])
    BY <1>1, <1>4 DEF NodesOK, Observation
  <2> QED
    BY <2>1, ObservedIs, StoredIs
<1>5. ASSUME NEW p \in pairs
      PROVE  CommittedPrefix(nodes, p[1], o[p[1]].commit) = CommittedPrefix(nodes, p[2], o[p[1]].commit)
  <2>1. p \in exposed \X exposed /\ 0 < o[p[1]].commit /\ o[p[1]].commit <= o[p[2]].commit
    BY <1>3, <1>5
  <2>2. PICK a, b : a = p[1] /\ b = p[2]
    OBVIOUS
  <2>3. a \in Nodes /\ b \in Nodes
    BY <1>2, <2>1, <2>2
  <2>4. PICK k, x, y : k = nodes[a].applied /\ x = nodes[a].prefixDigests /\ y = nodes[b].prefixDigests
    OBVIOUS
  <2>5. nodes[a].applied <= nodes[b].applied /\ o[a].commit = k
    BY <1>4, <2>1, <2>2, <2>3, <2>4
  <2>6. Agree(x, y, k)
    BY <2>3, <2>4, <2>5 DEF PrefixesAgree
  <2>7. k \in Nat /\ x \in Seq(Entry) /\ y \in Seq(Entry)
    BY <1>4, <2>3, <2>4
  <2>8. SubSeq(x, 1, k) = SubSeq(y, 1, k)
    BY <2>6, <2>7, PrefixesEqual DEF Agree
  <2> QED
    BY <2>2, <2>4, <2>5, <2>8 DEF CommittedPrefix
<1>6. PrefixFindings(nodes, o)
        = Found(\E p \in pairs : CommittedPrefix(nodes, p[1], o[p[1]].commit)
                                   # CommittedPrefix(nodes, p[2], o[p[1]].commit),
                "committed_log_conflict")
  BY <1>2, <1>3, Zenon DEF PrefixFindings
<1> QED
  BY <1>1, <1>5, <1>6 DEF Found

\* When what nodes committed agrees, the oracle's prefix check finds nothing.
LEMMA AgreementStaysSilent ==
    (NodesOK /\ PrefixesAgree => PrefixFindings(nodes, Observation(nodes)) = {})'
<1>1. NodesOK /\ PrefixesAgree => PrefixFindings(nodes, Observation(nodes)) = {}
  BY AgreementIsSilent
<1> QED
  BY <1>1, PTL

\* What nodes have committed still agrees.
LEMMA PrefixesStillAgree ==
    ASSUME VoteQuorumDivisor = 2, NEW sent, Executed(sent), NEW L, NEW M, Onward(L, M)
    PROVE  PrefixesAgree'
<1>1. Sound(M)' /\ CommitsCertified(M)'
  BY SoundNext, CommitsStayCertified
<1>2. ASSUME NEW x \in Nodes, NEW y \in Nodes, nodes'[x].applied <= nodes'[y].applied
      PROVE  Agree(nodes'[x].prefixDigests, nodes'[y].prefixDigests, nodes'[x].applied)
  <2>1. PICK n, d : n = nodes'[x] /\ d = nodes'[y]
    OBVIOUS
  <2>2. PICK a, b, c, e, t, s : /\ a = n.store.log /\ b = d.store.log /\ c = n.applied /\ e = d.applied
                                /\ t = n.store.term /\ s = d.store.term
    OBVIOUS
  <2>3. NodeOK(x, n) /\ NodeOK(y, d)
    BY <2>1, StoresAre
  <2>4. /\ c \in Nat /\ e \in Nat /\ c <= e /\ Len(a) \in Nat /\ Len(b) \in Nat
        /\ Len(n.prefixDigests) = c /\ Len(d.prefixDigests) = e
        /\ \A j \in 1..c : n.prefixDigests[j] = a[j]
        /\ \A j \in 1..e : d.prefixDigests[j] = b[j]
    BY <1>2, <2>1, <2>2, <2>3, StoredIs
  <2>5. Certified(a, M, c, t)' /\ Certified(b, M, e, s)'
    BY <1>1, <2>1, <2>2 DEF CommitsCertified, Certified
  <2>6. Agree(a, b, c)'
    BY <1>1, <2>4, <2>5, CertifiedAgreeNext
  <2>7. Agree(a, b, c)
    BY <2>6 DEF Agree
  <2>8. \A j \in 1..c : j \in 1..e
    BY <2>4
  <2>9. Agree(n.prefixDigests, d.prefixDigests, c)
    BY <2>4, <2>7, <2>8 DEF Agree
  <2> QED
    BY <2>1, <2>2, <2>9
<1> QED
  BY <1>2 DEF PrefixesAgree, Agree

\* The oracle has reported nothing, and has no reason to.
SafeInv ==
    /\ Inv /\ findings = {} /\ Ballots
    /\ \E L : LogsKept(L) /\ Quorate(L)

\* A new cluster satisfies the safety invariant.
LEMMA SafeInit == Init => SafeInv
<1> SUFFICES ASSUME Init PROVE SafeInv
  OBVIOUS
<1>1. Inv
  BY InvInit
<1>2. /\ nodes = [id \in Nodes |-> NewNode] /\ network = {}
      /\ leadersByTerm = [t \in {} |-> None] /\ findings = {}
  BY DEF Init, AdapterInit, OracleInit
<1>3. Payloads = {} /\ DOMAIN leadersByTerm = {}
  BY <1>2 DEF Payloads
<1>4. ASSUME NEW id \in Nodes
      PROVE  /\ nodes[id].applied = 0 /\ nodes[id].store.log = <<>>
             /\ nodes[id].raw.role = "follower"
  <2>1. nodes[id] = NewNode
    BY <1>2
  <2>2. NewNode.applied = 0 /\ NewNode.raw = InitRaw /\ NewNode.store = InitStore
    BY DEF NewNode
  <2>3. InitStore.log = <<>>
    BY DEF InitStore
  <2> QED
    BY <2>1, <2>2, <2>3, InitRawType
<1>5. Ballots
  <2>1. VotesAsked /\ VotesGranted
    BY <1>3 DEF VotesAsked, VotesGranted
  <2>2. BallotsCounted
    BY <1>4 DEF BallotsCounted, Campaigning
  <2>3. LeadersElected
    BY <1>3 DEF LeadersElected
  <2> QED
    BY <2>1, <2>2, <2>3 DEF Ballots
<1>6. findings = {} => Silent
  BY <1>1 DEF Inv
<1>7. PICK L : LogsKept(L)
  BY <1>2, <1>6 DEF Silent
<1>8. DOMAIN L = {}
  BY <1>3, <1>7 DEF LogsKept, LedBy
<1>9. \A u, k : ~Slot(L, u, k)
  BY <1>8 DEF Slot
<1>10. TermsBounded(L)
  <2>1. Len(<<>>) = 0
    OBVIOUS
  <2> QED
    BY <1>4, <1>8, <2>1 DEF TermsBounded
<1>11. AcksBounded(L) /\ MessagesCertified(L)
  BY <1>3 DEF AcksBounded, MessagesCertified
<1>12. HoldersKeep(L) /\ CandidatesKnow(L)
  BY <1>9 DEF HoldersKeep, CandidatesKnow, Knows
<1>13. LeadersKnow(L)
  BY <1>8 DEF LeadersKnow
<1>14. CommitsCertified(L)
  BY <1>4 DEF CommitsCertified, Certified
<1> QED
  BY <1>1, <1>2, <1>5, <1>7, <1>10, <1>11, <1>12, <1>13, <1>14 DEF SafeInv, Quorate

\* A step that changes nothing keeps it.
LEMMA SafeStutter == SafeInv /\ UNCHANGED clusterVars => SafeInv'
<1> SUFFICES ASSUME SafeInv, UNCHANGED clusterVars PROVE SafeInv'
  OBVIOUS
<1>1. nodes' = nodes /\ network' = network /\ leadersByTerm' = leadersByTerm /\ findings' = findings
  BY DEF clusterVars
<1>2. Payloads' = Payloads
  BY <1>1 DEF Payloads
<1>3. Inv' /\ findings' = {}
  BY <1>1, InvStutter DEF SafeInv
<1>4. \A p, c, t : Backs(p, c, t)' <=> Backs(p, c, t)
  BY <1>2 DEF Backs, Granted
<1>5. \A p, u, k : Has(p, u, k)' <=> Has(p, u, k)
  BY <1>1, <1>2 DEF Has, AckedTo, Ack
<1>6. Ballots'
  <2>1. VotesAsked /\ VotesGranted /\ BallotsCounted /\ LeadersElected
    BY DEF SafeInv, Ballots
  <2>2. VotesAsked' /\ VotesGranted'
    BY <1>1, <1>2, <2>1 DEF VotesAsked, VotesGranted, Campaigning, Granted, TermIn
  <2>3. BallotsCounted'
    BY <1>1, <1>4, <2>1 DEF BallotsCounted, Campaigning, Granting
  <2>4. \A c, t : Wins(c, t)' <=> Wins(c, t)
    BY <1>2, <1>4 DEF Wins, Granted, IsQuorum
  <2>5. LeadersElected'
    BY <1>1, <2>1, <2>4 DEF LeadersElected
  <2> QED
    BY <2>2, <2>3, <2>5 DEF Ballots
<1>7. PICK L : LogsKept(L) /\ Quorate(L)
  BY DEF SafeInv
<1>8. LogsKept(L)'
  <2>1. LedBy(L)' /\ Following(L)'
    BY <1>1, <1>7 DEF LogsKept, LedBy, Following
  <2>2. Carried(L)' /\ Acknowledged(L)'
    BY <1>1, <1>2, <1>7 DEF LogsKept, Carried, Acknowledged, AckStands, Ack
  <2> QED
    BY <2>1, <2>2 DEF LogsKept
<1>9. TermsBounded(L)' /\ AcksBounded(L)'
  BY <1>1, <1>2, <1>7 DEF Quorate, TermsBounded, AcksBounded, Ack
<1>10. \A l, p, t, b : Knows(l, L, p, t, b)' <=> Knows(l, L, p, t, b)
  BY <1>5 DEF Knows, Slot, Keeps, Lost
<1>11. HoldersKeep(L)'
  BY <1>1, <1>5, <1>7 DEF Quorate, HoldersKeep, Slot, Keeps, Lost
<1>12. CandidatesKnow(L)' /\ LeadersKnow(L)'
  BY <1>1, <1>4, <1>7, <1>10 DEF Quorate, CandidatesKnow, LeadersKnow, Campaigning
<1>13. \A u, k : Chosen(u, k)' <=> Chosen(u, k)
  BY <1>5 DEF Chosen
<1>14. \A l, c, t : Certified(l, L, c, t)' <=> Certified(l, L, c, t)
  BY <1>13 DEF Certified, Slot, Agree
<1>15. CommitsCertified(L)' /\ MessagesCertified(L)'
  BY <1>1, <1>2, <1>7, <1>14 DEF Quorate, CommitsCertified, MessagesCertified
<1>16. Quorate(L)'
  BY <1>9, <1>11, <1>12, <1>15 DEF Quorate
<1> QED
  BY <1>3, <1>6, <1>8, <1>16 DEF SafeInv

\* A call of the adapter keeps it, and the oracle that inspects the result finds nothing.
LEMMA SafeExecuted ==
    ASSUME VoteQuorumDivisor = 2, SafeInv, Base, NEW sent, Executed(sent)
    PROVE  SafeInv'
<1>1. Inv /\ findings = {} /\ Ballots
  BY DEF SafeInv
<1>2. NodesOK /\ MessagesOK /\ VotesOnDisk /\ VotesOnce /\ Silent
  BY <1>1 DEF Inv
<1>3. PrefixesAgree /\ Snapped /\ Led /\ MatchKnown /\ HeartbeatsKnown
  BY <1>2 DEF Silent
<1>4. PICK L : LogsKept(L) /\ Quorate(L)
  BY DEF SafeInv
<1>5. LedBy(L) /\ Following(L) /\ Carried(L) /\ Acknowledged(L)
  BY <1>4 DEF LogsKept
<1>6. VotesAsked /\ VotesGranted /\ BallotsCounted /\ LeadersElected
  BY <1>1 DEF Ballots
<1>7. Acts(nodes', sent) /\ network' = network \cup sent
  BY DEF Executed
<1>8. Inv'
  BY <1>1, InvExecuted
<1>9. NodesOK' /\ MessagesOK' /\ VotesOnDisk'
  BY <1>8 DEF Inv
<1>10. Ballots'
  BY <1>2, <1>3, <1>6, VotesStayAsked, VotesStayGranted, BallotsStayCounted, LeadersStayElected DEF Ballots
<1>11. PICK o, x : /\ o = Observation(nodes')
                   /\ x = UNION {MonotonicFindings(Observation(nodes)[p], o[p]) \cup NodeFindings(o[p]) : p \in Nodes}
  OBVIOUS
<1>12. findings' = x \cup LeaderFindings(o) \cup PrefixFindings(nodes', o)
  <2>1. findings' = Check(Observation(nodes), o, nodes')
    BY <1>11 DEF Executed
  <2> QED
    BY <1>11, <2>1, Zenon DEF Check
<1>13. x = {}
  <2>1. \A p \in Nodes : MonotonicFindings(Observation(nodes)[p], o[p]) = {} /\ NodeFindings(o[p]) = {}
    BY <1>2, <1>3, <1>11, NothingRegresses
  <2> QED
    BY <1>11, <2>1
<1>14. LeaderFindings(o) = {}
  BY <1>2, <1>3, <1>6, <1>11, NoSecondLeader
<1>15. findings' = PrefixFindings(nodes', o)
  BY <1>12, <1>13, <1>14
<1>16. "multiple_leaders_same_term" \notin findings'
  <2>1. PrefixFindings(nodes', o) \subseteq {"committed_log_conflict"}
    BY DEF PrefixFindings, Found
  <2> QED
    BY <1>15, <2>1
<1>17. Led'
  BY <1>2, <1>3, <1>16, LedStays
<1>18. MatchKnown' /\ Snapped'
  BY <1>2, <1>3, MatchStays, SnappedStays
<1>19. PICK M : Continues(L, M)
  BY <1>2, <1>3, <1>5, <1>16, LogsGrow
<1>20. LogsKept(M)'
  <2>1. LedBy(M)'
    BY <1>19 DEF Continues
  <2>2. Following(M)' /\ Carried(M)'
    BY <1>2, <1>3, <1>5, <1>19, FollowingStays, CarriedStays
  <2>3. Acknowledged(M)'
    BY <1>2, <1>3, <1>5, <1>19, AcknowledgedStays
  <2> QED
    BY <2>1, <2>2, <2>3 DEF LogsKept
<1>21. GrowsTo(L, M)
  BY <1>2, <1>3, <1>5, <1>17, <1>19, LogsGrowTo
<1>22. Onward(L, M)
  BY <1>1, <1>2, <1>3, <1>4, <1>9, <1>17, <1>18, <1>19, <1>20, <1>21 DEF Onward, Grounds
<1>23. PrefixesAgree' /\ Quorate(M)'
  BY <1>22, PrefixesStillAgree, QuorateStays
<1>24. findings' = {}
  <2>1. PrefixFindings(nodes', Observation(nodes')) = {}
    BY <1>9, <1>23, AgreementStaysSilent
  <2> QED
    BY <1>11, <1>15, <2>1
<1> QED
  BY <1>8, <1>10, <1>20, <1>23, <1>24 DEF SafeInv

\* Every step keeps it.
LEMMA SafeNext ==
    ASSUME VoteQuorumDivisor = 2
    PROVE  SafeInv /\ [Next]_clusterVars => SafeInv'
<1>1. CASE UNCHANGED clusterVars
  BY <1>1, SafeStutter
<1>2. ASSUME SafeInv, Next
      PROVE  SafeInv'
  <2>1. Inv
    BY <1>2 DEF SafeInv
  <2>2. findings = {} /\ \E sent : Executed(sent)
    BY <1>2, <2>1, StepIs
  <2>3. Base
    BY <2>1, <2>2, SilentBase
  <2> QED
    BY <1>2, <2>2, <2>3, SafeExecuted
<1> QED
  BY <1>1, <1>2

\* With the quorum of raft, the oracle never reports anything.
THEOREM OracleStaysSilent ==
    ASSUME VoteQuorumDivisor = 2
    PROVE  Spec => []OracleSilent
<1>1. SafeInv /\ [Next]_clusterVars => SafeInv'
  BY SafeNext
<1>2. SafeInv => OracleSilent
  BY DEF SafeInv, OracleSilent
<1> QED
  BY <1>1, <1>2, SafeInit, PTL DEF Spec
=============================================================================
