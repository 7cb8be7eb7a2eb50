--------------------------- MODULE RawNodeProofs ---------------------------
(***************************************************************************)
(* What one operation of a RawNode does, for every set of nodes, every     *)
(* state of the node and every message: Stepped relates the RawNode before *)
(* and after, the message it was given and the messages it returns. It is  *)
(* what raft.Step and the handlers of the follower, the candidate and the  *)
(* leader do (etcd raft v3, as the adapter drives it): whose term it       *)
(* takes, whom it votes for, which entries it stores and from whom, what   *)
(* it acknowledges, what it commits and when it becomes leader. The proofs *)
(* about the cluster use Stepped and never the handlers.                   *)
(***************************************************************************)
EXTENDS RawNode, Induction, SequenceTheorems, FiniteSetTheorems

----------------------------------------------------------------------------
(* What a RawNode holds and what an operation returns.                     *)

Roles == {"follower", "candidate", "leader"}

Modes == {"probe", "replicate", "snapshot"}

MessageTypes == {"MsgProp", "MsgApp", "MsgAppResp", "MsgVote", "MsgVoteResp", "MsgHeartbeat",
                 "MsgHeartbeatResp", "MsgSnap"}

Progress == [match : Nat, next : Nat \ {0}, mode : Modes,
             paused : BOOLEAN, sentCommit : Nat, active : BOOLEAN]

Answers == UNION {[S -> BOOLEAN] : S \in SUBSET Nodes}

RawState ==
    [term : Nat, vote : Nodes \cup {None}, role : Roles, lead : Nodes \cup {None},
     commit : Nat, log : Seq(Entry), first : Nat \ {0}, snapshot : Seq(Entry),
     applied : Nat, restored : BOOLEAN, votes : Answers, progress : [Nodes -> Progress]]

Outcome == [raw : RawState, out : SUBSET Message]

----------------------------------------------------------------------------
(* Helpers.                                                                *)

\* A finite nonempty set of numbers up to a bound has a maximum.
LEMMA MaxBounded ==
    ASSUME NEW n \in Nat, NEW S, S \subseteq 0..n, S # {}
    PROVE  Max(S) \in S /\ \A y \in S : y <= Max(S)
<1> DEFINE T == {k \in 0..n : n - k \in S}
<1>1. T \subseteq Nat /\ T # {}
  <2>1. PICK x : x \in S
    OBVIOUS
  <2>2. n - x \in 0..n /\ n - (n - x) = x
    BY <2>1
  <2>3. n - x \in T
    BY <2>1, <2>2
  <2> QED
    BY <2>3
<1>2. PICK k \in T : \A j \in T : k <= j
  BY <1>1, LeastElement
<1>3. n - k \in S
  BY <1>2
<1>4. ASSUME NEW y \in S
      PROVE  n - k >= y
  <2>1. n - y \in 0..n /\ n - (n - y) = y
    OBVIOUS
  <2>2. n - y \in T
    BY <2>1
  <2> QED
    BY <1>2, <2>1, <2>2
<1>5. \E x \in S : \A y \in S : x >= y
  BY <1>3, <1>4
<1> HIDE DEF T
<1>6. Max(S) \in S /\ \A y \in S : Max(S) >= y
  BY <1>5 DEF Max
<1> QED
  BY <1>6

\* The maximum of two numbers.
LEMMA MaxOfTwo ==
    ASSUME NEW a \in Nat, NEW b \in Nat
    PROVE  Max({a, b}) = IF a <= b THEN b ELSE a
<1> DEFINE n == a + b
<1>1. {a, b} \subseteq 0..n /\ {a, b} # {} /\ n \in Nat
  OBVIOUS
<1> HIDE DEF n
<1>2. Max({a, b}) \in {a, b} /\ \A y \in {a, b} : y <= Max({a, b})
  BY <1>1, MaxBounded
<1> QED
  BY <1>2

\* findConflictByTerm finds an index of the log, possibly 0.
LEMMA FindConflictByTermType ==
    ASSUME NEW r, NEW k \in Nat, NEW t
    PROVE  FindConflictByTerm(r, k, t) \in 0..k
<1> DEFINE S == {c \in 0..k : ~Readable(r, c) \/ TermAt(r, c) <= t}
<1>1. S \subseteq 0..k
  OBVIOUS
<1>2. 0 \in S
  BY DEF Readable
<1> HIDE DEF S
<1>3. Max(S) \in S
  BY <1>1, <1>2, MaxBounded
<1>4. FindConflictByTerm(r, k, t) = Max(S)
  BY DEF FindConflictByTerm, S
<1> QED
  BY <1>1, <1>3, <1>4

----------------------------------------------------------------------------
(* Records, field by field.                                                *)

\* Sending, or a rejection, moves where the next message starts.
ProgressSentAs(x, a, b, c) == [x EXCEPT !.next = a, !.paused = b, !.sentCommit = c]

\* A Progress after entries are sent to the peer, as a record, field by field.
LEMMA ProgressSent ==
    ASSUME NEW x \in Progress,
           NEW a \in Nat \ {0},
           NEW b \in BOOLEAN,
           NEW c \in Nat
    PROVE  ProgressSentAs(x, a, b, c) =
             [match |-> x.match, next |-> a, mode |-> x.mode, paused |-> b,
              sentCommit |-> c, active |-> x.active]
<1>1. PICK x1 : x1 = [x EXCEPT !.next = a]
  OBVIOUS
<1>2. /\ x1 \in Progress /\ x1.next = a /\ x1.match = x.match /\ x1.mode = x.mode
      /\ x1.paused = x.paused /\ x1.sentCommit = x.sentCommit
      /\ x1.active = x.active
  BY <1>1 DEF Progress, Modes
<1>3. PICK x2 : x2 = [x1 EXCEPT !.paused = b]
  OBVIOUS
<1>4. /\ x2 \in Progress /\ x2.next = a /\ x2.paused = b /\ x2.match = x.match
      /\ x2.mode = x.mode /\ x2.sentCommit = x.sentCommit /\ x2.active = x.active
  BY <1>3, <1>2 DEF Progress, Modes
<1>5. PICK x3 : x3 = [x2 EXCEPT !.sentCommit = c]
  OBVIOUS
<1>6. /\ x3 \in Progress /\ x3.next = a /\ x3.paused = b /\ x3.sentCommit = c
      /\ x3.match = x.match /\ x3.mode = x.mode /\ x3.active = x.active
  BY <1>5, <1>4 DEF Progress, Modes
<1>7. ProgressSentAs(x, a, b, c) = x3
  BY <1>1, <1>3, <1>5, Zenon DEF ProgressSentAs
<1> QED
  BY <1>6, <1>7 DEF Progress, Modes

\* A follower is probed, or gets a snapshot.
ProgressProbeAs(x, a, b, c, d) == [x EXCEPT !.mode = a, !.paused = b, !.next = c, !.sentCommit = d]

\* A Progress that probes, as a record, field by field.
LEMMA ProgressProbe ==
    ASSUME NEW x \in Progress,
           NEW a \in Modes,
           NEW b \in BOOLEAN,
           NEW c \in Nat \ {0},
           NEW d \in Nat
    PROVE  ProgressProbeAs(x, a, b, c, d) =
             [match |-> x.match, next |-> c, mode |-> a, paused |-> b,
              sentCommit |-> d, active |-> x.active]
<1>1. PICK x1 : x1 = [x EXCEPT !.mode = a]
  OBVIOUS
<1>2. /\ x1 \in Progress /\ x1.mode = a /\ x1.match = x.match /\ x1.next = x.next
      /\ x1.paused = x.paused /\ x1.sentCommit = x.sentCommit
      /\ x1.active = x.active
  BY <1>1 DEF Progress, Modes
<1>3. PICK x2 : x2 = [x1 EXCEPT !.paused = b]
  OBVIOUS
<1>4. /\ x2 \in Progress /\ x2.mode = a /\ x2.paused = b /\ x2.match = x.match
      /\ x2.next = x.next /\ x2.sentCommit = x.sentCommit /\ x2.active = x.active
  BY <1>3, <1>2 DEF Progress, Modes
<1>5. PICK x3 : x3 = [x2 EXCEPT !.next = c]
  OBVIOUS
<1>6. /\ x3 \in Progress /\ x3.mode = a /\ x3.paused = b /\ x3.next = c
      /\ x3.match = x.match /\ x3.sentCommit = x.sentCommit
      /\ x3.active = x.active
  BY <1>5, <1>4 DEF Progress, Modes
<1>7. PICK x4 : x4 = [x3 EXCEPT !.sentCommit = d]
  OBVIOUS
<1>8. /\ x4 \in Progress /\ x4.mode = a /\ x4.paused = b /\ x4.next = c
      /\ x4.sentCommit = d /\ x4.match = x.match /\ x4.active = x.active
  BY <1>7, <1>6 DEF Progress, Modes
<1>9. ProgressProbeAs(x, a, b, c, d) = x4
  BY <1>1, <1>3, <1>5, <1>7, Zenon DEF ProgressProbeAs
<1> QED
  BY <1>8, <1>9 DEF Progress, Modes

\* A follower is replicated to.
ProgressReplicateAs(x, a, b, c) == [x EXCEPT !.mode = a, !.paused = b, !.next = c]

\* A Progress that replicates, as a record, field by field.
LEMMA ProgressReplicate ==
    ASSUME NEW x \in Progress,
           NEW a \in Modes,
           NEW b \in BOOLEAN,
           NEW c \in Nat \ {0}
    PROVE  ProgressReplicateAs(x, a, b, c) =
             [match |-> x.match, next |-> c, mode |-> a, paused |-> b,
              sentCommit |-> x.sentCommit, active |-> x.active]
<1>1. PICK x1 : x1 = [x EXCEPT !.mode = a]
  OBVIOUS
<1>2. /\ x1 \in Progress /\ x1.mode = a /\ x1.match = x.match /\ x1.next = x.next
      /\ x1.paused = x.paused /\ x1.sentCommit = x.sentCommit
      /\ x1.active = x.active
  BY <1>1 DEF Progress, Modes
<1>3. PICK x2 : x2 = [x1 EXCEPT !.paused = b]
  OBVIOUS
<1>4. /\ x2 \in Progress /\ x2.mode = a /\ x2.paused = b /\ x2.match = x.match
      /\ x2.next = x.next /\ x2.sentCommit = x.sentCommit /\ x2.active = x.active
  BY <1>3, <1>2 DEF Progress, Modes
<1>5. PICK x3 : x3 = [x2 EXCEPT !.next = c]
  OBVIOUS
<1>6. /\ x3 \in Progress /\ x3.mode = a /\ x3.paused = b /\ x3.next = c
      /\ x3.match = x.match /\ x3.sentCommit = x.sentCommit
      /\ x3.active = x.active
  BY <1>5, <1>4 DEF Progress, Modes
<1>7. ProgressReplicateAs(x, a, b, c) = x3
  BY <1>1, <1>3, <1>5, Zenon DEF ProgressReplicateAs
<1> QED
  BY <1>6, <1>7 DEF Progress, Modes

\* A follower has acknowledged an index.
ProgressMatchedAs(x, a, b, c) == [x EXCEPT !.match = a, !.paused = b, !.next = c]

\* A Progress that learns of a match, as a record, field by field.
LEMMA ProgressMatched ==
    ASSUME NEW x \in Progress,
           NEW a \in Nat,
           NEW b \in BOOLEAN,
           NEW c \in Nat \ {0}
    PROVE  ProgressMatchedAs(x, a, b, c) =
             [match |-> a, next |-> c, mode |-> x.mode, paused |-> b,
              sentCommit |-> x.sentCommit, active |-> x.active]
<1>1. PICK x1 : x1 = [x EXCEPT !.match = a]
  OBVIOUS
<1>2. /\ x1 \in Progress /\ x1.match = a /\ x1.next = x.next /\ x1.mode = x.mode
      /\ x1.paused = x.paused /\ x1.sentCommit = x.sentCommit
      /\ x1.active = x.active
  BY <1>1 DEF Progress, Modes
<1>3. PICK x2 : x2 = [x1 EXCEPT !.paused = b]
  OBVIOUS
<1>4. /\ x2 \in Progress /\ x2.match = a /\ x2.paused = b /\ x2.next = x.next
      /\ x2.mode = x.mode /\ x2.sentCommit = x.sentCommit /\ x2.active = x.active
  BY <1>3, <1>2 DEF Progress, Modes
<1>5. PICK x3 : x3 = [x2 EXCEPT !.next = c]
  OBVIOUS
<1>6. /\ x3 \in Progress /\ x3.match = a /\ x3.paused = b /\ x3.next = c
      /\ x3.mode = x.mode /\ x3.sentCommit = x.sentCommit /\ x3.active = x.active
  BY <1>5, <1>4 DEF Progress, Modes
<1>7. ProgressMatchedAs(x, a, b, c) = x3
  BY <1>1, <1>3, <1>5, Zenon DEF ProgressMatchedAs
<1> QED
  BY <1>6, <1>7 DEF Progress, Modes

\* A follower has answered.
ProgressHeardAs(x, a, b) == [x EXCEPT !.active = a, !.paused = b]

\* A Progress that hears from its peer, as a record, field by field.
LEMMA ProgressHeard ==
    ASSUME NEW x \in Progress,
           NEW a \in BOOLEAN,
           NEW b \in BOOLEAN
    PROVE  ProgressHeardAs(x, a, b) =
             [match |-> x.match, next |-> x.next, mode |-> x.mode,
              paused |-> b, sentCommit |-> x.sentCommit, active |-> a]
<1>1. PICK x1 : x1 = [x EXCEPT !.active = a]
  OBVIOUS
<1>2. /\ x1 \in Progress /\ x1.active = a /\ x1.match = x.match
      /\ x1.next = x.next /\ x1.mode = x.mode /\ x1.paused = x.paused
      /\ x1.sentCommit = x.sentCommit
  BY <1>1 DEF Progress, Modes
<1>3. PICK x2 : x2 = [x1 EXCEPT !.paused = b]
  OBVIOUS
<1>4. /\ x2 \in Progress /\ x2.active = a /\ x2.paused = b /\ x2.match = x.match
      /\ x2.next = x.next /\ x2.mode = x.mode /\ x2.sentCommit = x.sentCommit
  BY <1>3, <1>2 DEF Progress, Modes
<1>5. ProgressHeardAs(x, a, b) = x2
  BY <1>1, <1>3, Zenon DEF ProgressHeardAs
<1> QED
  BY <1>4, <1>5 DEF Progress, Modes

\* What raft.reset sets.
RawResetAs(x, a, b, c, d, e) == [x EXCEPT !.vote = a, !.term = b, !.lead = c, !.votes = d, !.progress = e]

\* A RawNode that is reset for a term, as a record, field by field.
LEMMA RawReset ==
    ASSUME NEW x \in RawState,
           NEW a \in Nodes \cup {None},
           NEW b \in Nat,
           NEW c \in Nodes \cup {None},
           NEW d \in Answers,
           NEW e \in [Nodes -> Progress]
    PROVE  RawResetAs(x, a, b, c, d, e) =
             [term |-> b, vote |-> a, role |-> x.role, lead |-> c,
              commit |-> x.commit, log |-> x.log, first |-> x.first,
              snapshot |-> x.snapshot, applied |-> x.applied,
              restored |-> x.restored, votes |-> d, progress |-> e]
<1>1. PICK x1 : x1 = [x EXCEPT !.vote = a]
  OBVIOUS
<1>2. /\ x1 \in RawState /\ x1.vote = a /\ x1.term = x.term /\ x1.role = x.role
      /\ x1.lead = x.lead /\ x1.commit = x.commit /\ x1.log = x.log
      /\ x1.first = x.first /\ x1.snapshot = x.snapshot /\ x1.applied = x.applied
      /\ x1.restored = x.restored /\ x1.votes = x.votes
      /\ x1.progress = x.progress
  BY <1>1 DEF RawState
<1>3. PICK x2 : x2 = [x1 EXCEPT !.term = b]
  OBVIOUS
<1>4. /\ x2 \in RawState /\ x2.vote = a /\ x2.term = b /\ x2.role = x.role
      /\ x2.lead = x.lead /\ x2.commit = x.commit /\ x2.log = x.log
      /\ x2.first = x.first /\ x2.snapshot = x.snapshot /\ x2.applied = x.applied
      /\ x2.restored = x.restored /\ x2.votes = x.votes
      /\ x2.progress = x.progress
  BY <1>3, <1>2 DEF RawState
<1>5. PICK x3 : x3 = [x2 EXCEPT !.lead = c]
  OBVIOUS
<1>6. /\ x3 \in RawState /\ x3.vote = a /\ x3.term = b /\ x3.lead = c
      /\ x3.role = x.role /\ x3.commit = x.commit /\ x3.log = x.log
      /\ x3.first = x.first /\ x3.snapshot = x.snapshot /\ x3.applied = x.applied
      /\ x3.restored = x.restored /\ x3.votes = x.votes
      /\ x3.progress = x.progress
  BY <1>5, <1>4 DEF RawState
<1>7. PICK x4 : x4 = [x3 EXCEPT !.votes = d]
  OBVIOUS
<1>8. /\ x4 \in RawState /\ x4.vote = a /\ x4.term = b /\ x4.lead = c
      /\ x4.votes = d /\ x4.role = x.role /\ x4.commit = x.commit
      /\ x4.log = x.log /\ x4.first = x.first /\ x4.snapshot = x.snapshot
      /\ x4.applied = x.applied /\ x4.restored = x.restored
      /\ x4.progress = x.progress
  BY <1>7, <1>6 DEF RawState
<1>9. PICK x5 : x5 = [x4 EXCEPT !.progress = e]
  OBVIOUS
<1>10. /\ x5 \in RawState /\ x5.vote = a /\ x5.term = b /\ x5.lead = c
      /\ x5.votes = d /\ x5.progress = e /\ x5.role = x.role
      /\ x5.commit = x.commit /\ x5.log = x.log /\ x5.first = x.first
      /\ x5.snapshot = x.snapshot /\ x5.applied = x.applied
      /\ x5.restored = x.restored
  BY <1>9, <1>8 DEF RawState
<1>11. RawResetAs(x, a, b, c, d, e) = x5
  BY <1>1, <1>3, <1>5, <1>7, <1>9, Zenon DEF RawResetAs
<1> QED
  BY <1>10, <1>11 DEF RawState

\* A follower has a leader.
RawRoleAs(x, a, b) == [x EXCEPT !.role = a, !.lead = b]

\* A RawNode with another role and leader, as a record, field by field.
LEMMA RawRole ==
    ASSUME NEW x \in RawState,
           NEW a \in Roles,
           NEW b \in Nodes \cup {None}
    PROVE  RawRoleAs(x, a, b) =
             [term |-> x.term, vote |-> x.vote, role |-> a, lead |-> b,
              commit |-> x.commit, log |-> x.log, first |-> x.first,
              snapshot |-> x.snapshot, applied |-> x.applied,
              restored |-> x.restored, votes |-> x.votes,
              progress |-> x.progress]
<1>1. PICK x1 : x1 = [x EXCEPT !.role = a]
  OBVIOUS
<1>2. /\ x1 \in RawState /\ x1.role = a /\ x1.term = x.term /\ x1.vote = x.vote
      /\ x1.lead = x.lead /\ x1.commit = x.commit /\ x1.log = x.log
      /\ x1.first = x.first /\ x1.snapshot = x.snapshot /\ x1.applied = x.applied
      /\ x1.restored = x.restored /\ x1.votes = x.votes
      /\ x1.progress = x.progress
  BY <1>1 DEF RawState
<1>3. PICK x2 : x2 = [x1 EXCEPT !.lead = b]
  OBVIOUS
<1>4. /\ x2 \in RawState /\ x2.role = a /\ x2.lead = b /\ x2.term = x.term
      /\ x2.vote = x.vote /\ x2.commit = x.commit /\ x2.log = x.log
      /\ x2.first = x.first /\ x2.snapshot = x.snapshot /\ x2.applied = x.applied
      /\ x2.restored = x.restored /\ x2.votes = x.votes
      /\ x2.progress = x.progress
  BY <1>3, <1>2 DEF RawState
<1>5. RawRoleAs(x, a, b) = x2
  BY <1>1, <1>3, Zenon DEF RawRoleAs
<1> QED
  BY <1>4, <1>5 DEF RawState

\* A candidate votes for itself.
RawCandidateAs(x, a, b) == [x EXCEPT !.role = a, !.vote = b]

\* A RawNode that becomes a candidate, as a record, field by field.
LEMMA RawCandidate ==
    ASSUME NEW x \in RawState,
           NEW a \in Roles,
           NEW b \in Nodes \cup {None}
    PROVE  RawCandidateAs(x, a, b) =
             [term |-> x.term, vote |-> b, role |-> a, lead |-> x.lead,
              commit |-> x.commit, log |-> x.log, first |-> x.first,
              snapshot |-> x.snapshot, applied |-> x.applied,
              restored |-> x.restored, votes |-> x.votes,
              progress |-> x.progress]
<1>1. PICK x1 : x1 = [x EXCEPT !.role = a]
  OBVIOUS
<1>2. /\ x1 \in RawState /\ x1.role = a /\ x1.term = x.term /\ x1.vote = x.vote
      /\ x1.lead = x.lead /\ x1.commit = x.commit /\ x1.log = x.log
      /\ x1.first = x.first /\ x1.snapshot = x.snapshot /\ x1.applied = x.applied
      /\ x1.restored = x.restored /\ x1.votes = x.votes
      /\ x1.progress = x.progress
  BY <1>1 DEF RawState
<1>3. PICK x2 : x2 = [x1 EXCEPT !.vote = b]
  OBVIOUS
<1>4. /\ x2 \in RawState /\ x2.role = a /\ x2.vote = b /\ x2.term = x.term
      /\ x2.lead = x.lead /\ x2.commit = x.commit /\ x2.log = x.log
      /\ x2.first = x.first /\ x2.snapshot = x.snapshot /\ x2.applied = x.applied
      /\ x2.restored = x.restored /\ x2.votes = x.votes
      /\ x2.progress = x.progress
  BY <1>3, <1>2 DEF RawState
<1>5. RawCandidateAs(x, a, b) = x2
  BY <1>1, <1>3, Zenon DEF RawCandidateAs
<1> QED
  BY <1>4, <1>5 DEF RawState

\* A leader knows its followers.
RawLeaderAs(x, a, b, c) == [x EXCEPT !.role = a, !.lead = b, !.progress = c]

\* A RawNode that becomes leader, as a record, field by field.
LEMMA RawLeader ==
    ASSUME NEW x \in RawState,
           NEW a \in Roles,
           NEW b \in Nodes \cup {None},
           NEW c \in [Nodes -> Progress]
    PROVE  RawLeaderAs(x, a, b, c) =
             [term |-> x.term, vote |-> x.vote, role |-> a, lead |-> b,
              commit |-> x.commit, log |-> x.log, first |-> x.first,
              snapshot |-> x.snapshot, applied |-> x.applied,
              restored |-> x.restored, votes |-> x.votes, progress |-> c]
<1>1. PICK x1 : x1 = [x EXCEPT !.role = a]
  OBVIOUS
<1>2. /\ x1 \in RawState /\ x1.role = a /\ x1.term = x.term /\ x1.vote = x.vote
      /\ x1.lead = x.lead /\ x1.commit = x.commit /\ x1.log = x.log
      /\ x1.first = x.first /\ x1.snapshot = x.snapshot /\ x1.applied = x.applied
      /\ x1.restored = x.restored /\ x1.votes = x.votes
      /\ x1.progress = x.progress
  BY <1>1 DEF RawState
<1>3. PICK x2 : x2 = [x1 EXCEPT !.lead = b]
  OBVIOUS
<1>4. /\ x2 \in RawState /\ x2.role = a /\ x2.lead = b /\ x2.term = x.term
      /\ x2.vote = x.vote /\ x2.commit = x.commit /\ x2.log = x.log
      /\ x2.first = x.first /\ x2.snapshot = x.snapshot /\ x2.applied = x.applied
      /\ x2.restored = x.restored /\ x2.votes = x.votes
      /\ x2.progress = x.progress
  BY <1>3, <1>2 DEF RawState
<1>5. PICK x3 : x3 = [x2 EXCEPT !.progress = c]
  OBVIOUS
<1>6. /\ x3 \in RawState /\ x3.role = a /\ x3.lead = b /\ x3.progress = c
      /\ x3.term = x.term /\ x3.vote = x.vote /\ x3.commit = x.commit
      /\ x3.log = x.log /\ x3.first = x.first /\ x3.snapshot = x.snapshot
      /\ x3.applied = x.applied /\ x3.restored = x.restored /\ x3.votes = x.votes
  BY <1>5, <1>4 DEF RawState
<1>7. RawLeaderAs(x, a, b, c) = x3
  BY <1>1, <1>3, <1>5, Zenon DEF RawLeaderAs
<1> QED
  BY <1>6, <1>7 DEF RawState

\* A snapshot replaces the log.
RawRestoredAs(x, a, b, c, d, e) == [x EXCEPT !.log = a, !.commit = b, !.first = c, !.snapshot = d, !.restored = e]

\* A RawNode that restores a snapshot, as a record, field by field.
LEMMA RawRestored ==
    ASSUME NEW x \in RawState,
           NEW a \in Seq(Entry),
           NEW b \in Nat,
           NEW c \in Nat \ {0},
           NEW d \in Seq(Entry),
           NEW e \in BOOLEAN
    PROVE  RawRestoredAs(x, a, b, c, d, e) =
             [term |-> x.term, vote |-> x.vote, role |-> x.role,
              lead |-> x.lead, commit |-> b, log |-> a, first |-> c,
              snapshot |-> d, applied |-> x.applied, restored |-> e,
              votes |-> x.votes, progress |-> x.progress]
<1>1. PICK x1 : x1 = [x EXCEPT !.log = a]
  OBVIOUS
<1>2. /\ x1 \in RawState /\ x1.log = a /\ x1.term = x.term /\ x1.vote = x.vote
      /\ x1.role = x.role /\ x1.lead = x.lead /\ x1.commit = x.commit
      /\ x1.first = x.first /\ x1.snapshot = x.snapshot /\ x1.applied = x.applied
      /\ x1.restored = x.restored /\ x1.votes = x.votes
      /\ x1.progress = x.progress
  BY <1>1 DEF RawState
<1>3. PICK x2 : x2 = [x1 EXCEPT !.commit = b]
  OBVIOUS
<1>4. /\ x2 \in RawState /\ x2.log = a /\ x2.commit = b /\ x2.term = x.term
      /\ x2.vote = x.vote /\ x2.role = x.role /\ x2.lead = x.lead
      /\ x2.first = x.first /\ x2.snapshot = x.snapshot /\ x2.applied = x.applied
      /\ x2.restored = x.restored /\ x2.votes = x.votes
      /\ x2.progress = x.progress
  BY <1>3, <1>2 DEF RawState
<1>5. PICK x3 : x3 = [x2 EXCEPT !.first = c]
  OBVIOUS
<1>6. /\ x3 \in RawState /\ x3.log = a /\ x3.commit = b /\ x3.first = c
      /\ x3.term = x.term /\ x3.vote = x.vote /\ x3.role = x.role
      /\ x3.lead = x.lead /\ x3.snapshot = x.snapshot /\ x3.applied = x.applied
      /\ x3.restored = x.restored /\ x3.votes = x.votes
      /\ x3.progress = x.progress
  BY <1>5, <1>4 DEF RawState
<1>7. PICK x4 : x4 = [x3 EXCEPT !.snapshot = d]
  OBVIOUS
<1>8. /\ x4 \in RawState /\ x4.log = a /\ x4.commit = b /\ x4.first = c
      /\ x4.snapshot = d /\ x4.term = x.term /\ x4.vote = x.vote
      /\ x4.role = x.role /\ x4.lead = x.lead /\ x4.applied = x.applied
      /\ x4.restored = x.restored /\ x4.votes = x.votes
      /\ x4.progress = x.progress
  BY <1>7, <1>6 DEF RawState
<1>9. PICK x5 : x5 = [x4 EXCEPT !.restored = e]
  OBVIOUS
<1>10. /\ x5 \in RawState /\ x5.log = a /\ x5.commit = b /\ x5.first = c
      /\ x5.snapshot = d /\ x5.restored = e /\ x5.term = x.term
      /\ x5.vote = x.vote /\ x5.role = x.role /\ x5.lead = x.lead
      /\ x5.applied = x.applied /\ x5.votes = x.votes /\ x5.progress = x.progress
  BY <1>9, <1>8 DEF RawState
<1>11. RawRestoredAs(x, a, b, c, d, e) = x5
  BY <1>1, <1>3, <1>5, <1>7, <1>9, Zenon DEF RawRestoredAs
<1> QED
  BY <1>10, <1>11 DEF RawState

\* Advance.
RawAdvancedAs(x, a, b, c, d) == [x EXCEPT !.applied = a, !.restored = b, !.first = c, !.snapshot = d]

\* A RawNode that advances past a Ready, as a record, field by field.
LEMMA RawAdvanced ==
    ASSUME NEW x \in RawState,
           NEW a \in Nat,
           NEW b \in BOOLEAN,
           NEW c \in Nat \ {0},
           NEW d \in Seq(Entry)
    PROVE  RawAdvancedAs(x, a, b, c, d) =
             [term |-> x.term, vote |-> x.vote, role |-> x.role,
              lead |-> x.lead, commit |-> x.commit, log |-> x.log,
              first |-> c, snapshot |-> d, applied |-> a, restored |-> b,
              votes |-> x.votes, progress |-> x.progress]
<1>1. PICK x1 : x1 = [x EXCEPT !.applied = a]
  OBVIOUS
<1>2. /\ x1 \in RawState /\ x1.applied = a /\ x1.term = x.term /\ x1.vote = x.vote
      /\ x1.role = x.role /\ x1.lead = x.lead /\ x1.commit = x.commit
      /\ x1.log = x.log /\ x1.first = x.first /\ x1.snapshot = x.snapshot
      /\ x1.restored = x.restored /\ x1.votes = x.votes
      /\ x1.progress = x.progress
  BY <1>1 DEF RawState
<1>3. PICK x2 : x2 = [x1 EXCEPT !.restored = b]
  OBVIOUS
<1>4. /\ x2 \in RawState /\ x2.applied = a /\ x2.restored = b /\ x2.term = x.term
      /\ x2.vote = x.vote /\ x2.role = x.role /\ x2.lead = x.lead
      /\ x2.commit = x.commit /\ x2.log = x.log /\ x2.first = x.first
      /\ x2.snapshot = x.snapshot /\ x2.votes = x.votes
      /\ x2.progress = x.progress
  BY <1>3, <1>2 DEF RawState
<1>5. PICK x3 : x3 = [x2 EXCEPT !.first = c]
  OBVIOUS
<1>6. /\ x3 \in RawState /\ x3.applied = a /\ x3.restored = b /\ x3.first = c
      /\ x3.term = x.term /\ x3.vote = x.vote /\ x3.role = x.role
      /\ x3.lead = x.lead /\ x3.commit = x.commit /\ x3.log = x.log
      /\ x3.snapshot = x.snapshot /\ x3.votes = x.votes
      /\ x3.progress = x.progress
  BY <1>5, <1>4 DEF RawState
<1>7. PICK x4 : x4 = [x3 EXCEPT !.snapshot = d]
  OBVIOUS
<1>8. /\ x4 \in RawState /\ x4.applied = a /\ x4.restored = b /\ x4.first = c
      /\ x4.snapshot = d /\ x4.term = x.term /\ x4.vote = x.vote
      /\ x4.role = x.role /\ x4.lead = x.lead /\ x4.commit = x.commit
      /\ x4.log = x.log /\ x4.votes = x.votes /\ x4.progress = x.progress
  BY <1>7, <1>6 DEF RawState
<1>9. RawAdvancedAs(x, a, b, c, d) = x4
  BY <1>1, <1>3, <1>5, <1>7, Zenon DEF RawAdvancedAs
<1> QED
  BY <1>8, <1>9 DEF RawState

\* The fields of an append.
MessageAppendAs(x, a, b, c, d) == [x EXCEPT !.index = a, !.logTerm = b, !.entries = c, !.commit = d]

\* An append message, as a record, field by field.
LEMMA MessageAppend ==
    ASSUME NEW x \in Message,
           NEW a \in Nat,
           NEW b \in Nat,
           NEW c \in Seq(Entry),
           NEW d \in Nat
    PROVE  MessageAppendAs(x, a, b, c, d) =
             [type |-> x.type, from |-> x.from, to |-> x.to, term |-> x.term,
              index |-> a, logTerm |-> b, commit |-> d, reject |-> x.reject,
              hint |-> x.hint, entries |-> c, snapshot |-> x.snapshot]
<1>1. PICK x1 : x1 = [x EXCEPT !.index = a]
  OBVIOUS
<1>2. /\ x1 \in Message /\ x1.index = a /\ x1.type = x.type /\ x1.from = x.from
      /\ x1.to = x.to /\ x1.term = x.term /\ x1.logTerm = x.logTerm
      /\ x1.commit = x.commit /\ x1.reject = x.reject /\ x1.hint = x.hint
      /\ x1.entries = x.entries /\ x1.snapshot = x.snapshot
  BY <1>1 DEF Message
<1>3. PICK x2 : x2 = [x1 EXCEPT !.logTerm = b]
  OBVIOUS
<1>4. /\ x2 \in Message /\ x2.index = a /\ x2.logTerm = b /\ x2.type = x.type
      /\ x2.from = x.from /\ x2.to = x.to /\ x2.term = x.term
      /\ x2.commit = x.commit /\ x2.reject = x.reject /\ x2.hint = x.hint
      /\ x2.entries = x.entries /\ x2.snapshot = x.snapshot
  BY <1>3, <1>2 DEF Message
<1>5. PICK x3 : x3 = [x2 EXCEPT !.entries = c]
  OBVIOUS
<1>6. /\ x3 \in Message /\ x3.index = a /\ x3.logTerm = b /\ x3.entries = c
      /\ x3.type = x.type /\ x3.from = x.from /\ x3.to = x.to /\ x3.term = x.term
      /\ x3.commit = x.commit /\ x3.reject = x.reject /\ x3.hint = x.hint
      /\ x3.snapshot = x.snapshot
  BY <1>5, <1>4 DEF Message
<1>7. PICK x4 : x4 = [x3 EXCEPT !.commit = d]
  OBVIOUS
<1>8. /\ x4 \in Message /\ x4.index = a /\ x4.logTerm = b /\ x4.entries = c
      /\ x4.commit = d /\ x4.type = x.type /\ x4.from = x.from /\ x4.to = x.to
      /\ x4.term = x.term /\ x4.reject = x.reject /\ x4.hint = x.hint
      /\ x4.snapshot = x.snapshot
  BY <1>7, <1>6 DEF Message
<1>9. MessageAppendAs(x, a, b, c, d) = x4
  BY <1>1, <1>3, <1>5, <1>7, Zenon DEF MessageAppendAs
<1> QED
  BY <1>8, <1>9 DEF Message

\* The fields of a rejected append.
MessageRejectionAs(x, a, b, c, d) == [x EXCEPT !.index = a, !.reject = b, !.hint = c, !.logTerm = d]

\* A rejection of an append message, as a record, field by field.
LEMMA MessageRejection ==
    ASSUME NEW x \in Message,
           NEW a \in Nat,
           NEW b \in BOOLEAN,
           NEW c \in Nat,
           NEW d \in Nat
    PROVE  MessageRejectionAs(x, a, b, c, d) =
             [type |-> x.type, from |-> x.from, to |-> x.to, term |-> x.term,
              index |-> a, logTerm |-> d, commit |-> x.commit, reject |-> b,
              hint |-> c, entries |-> x.entries, snapshot |-> x.snapshot]
<1>1. PICK x1 : x1 = [x EXCEPT !.index = a]
  OBVIOUS
<1>2. /\ x1 \in Message /\ x1.index = a /\ x1.type = x.type /\ x1.from = x.from
      /\ x1.to = x.to /\ x1.term = x.term /\ x1.logTerm = x.logTerm
      /\ x1.commit = x.commit /\ x1.reject = x.reject /\ x1.hint = x.hint
      /\ x1.entries = x.entries /\ x1.snapshot = x.snapshot
  BY <1>1 DEF Message
<1>3. PICK x2 : x2 = [x1 EXCEPT !.reject = b]
  OBVIOUS
<1>4. /\ x2 \in Message /\ x2.index = a /\ x2.reject = b /\ x2.type = x.type
      /\ x2.from = x.from /\ x2.to = x.to /\ x2.term = x.term
      /\ x2.logTerm = x.logTerm /\ x2.commit = x.commit /\ x2.hint = x.hint
      /\ x2.entries = x.entries /\ x2.snapshot = x.snapshot
  BY <1>3, <1>2 DEF Message
<1>5. PICK x3 : x3 = [x2 EXCEPT !.hint = c]
  OBVIOUS
<1>6. /\ x3 \in Message /\ x3.index = a /\ x3.reject = b /\ x3.hint = c
      /\ x3.type = x.type /\ x3.from = x.from /\ x3.to = x.to /\ x3.term = x.term
      /\ x3.logTerm = x.logTerm /\ x3.commit = x.commit /\ x3.entries = x.entries
      /\ x3.snapshot = x.snapshot
  BY <1>5, <1>4 DEF Message
<1>7. PICK x4 : x4 = [x3 EXCEPT !.logTerm = d]
  OBVIOUS
<1>8. /\ x4 \in Message /\ x4.index = a /\ x4.reject = b /\ x4.hint = c
      /\ x4.logTerm = d /\ x4.type = x.type /\ x4.from = x.from /\ x4.to = x.to
      /\ x4.term = x.term /\ x4.commit = x.commit /\ x4.entries = x.entries
      /\ x4.snapshot = x.snapshot
  BY <1>7, <1>6 DEF Message
<1>9. MessageRejectionAs(x, a, b, c, d) = x4
  BY <1>1, <1>3, <1>5, <1>7, Zenon DEF MessageRejectionAs
<1> QED
  BY <1>8, <1>9 DEF Message

\* The fields of a vote request.
MessageVoteAs(x, a, b) == [x EXCEPT !.index = a, !.logTerm = b]

\* A vote request, as a record, field by field.
LEMMA MessageVote ==
    ASSUME NEW x \in Message,
           NEW a \in Nat,
           NEW b \in Nat
    PROVE  MessageVoteAs(x, a, b) =
             [type |-> x.type, from |-> x.from, to |-> x.to, term |-> x.term,
              index |-> a, logTerm |-> b, commit |-> x.commit,
              reject |-> x.reject, hint |-> x.hint, entries |-> x.entries,
              snapshot |-> x.snapshot]
<1>1. PICK x1 : x1 = [x EXCEPT !.index = a]
  OBVIOUS
<1>2. /\ x1 \in Message /\ x1.index = a /\ x1.type = x.type /\ x1.from = x.from
      /\ x1.to = x.to /\ x1.term = x.term /\ x1.logTerm = x.logTerm
      /\ x1.commit = x.commit /\ x1.reject = x.reject /\ x1.hint = x.hint
      /\ x1.entries = x.entries /\ x1.snapshot = x.snapshot
  BY <1>1 DEF Message
<1>3. PICK x2 : x2 = [x1 EXCEPT !.logTerm = b]
  OBVIOUS
<1>4. /\ x2 \in Message /\ x2.index = a /\ x2.logTerm = b /\ x2.type = x.type
      /\ x2.from = x.from /\ x2.to = x.to /\ x2.term = x.term
      /\ x2.commit = x.commit /\ x2.reject = x.reject /\ x2.hint = x.hint
      /\ x2.entries = x.entries /\ x2.snapshot = x.snapshot
  BY <1>3, <1>2 DEF Message
<1>5. MessageVoteAs(x, a, b) = x2
  BY <1>1, <1>3, Zenon DEF MessageVoteAs
<1> QED
  BY <1>4, <1>5 DEF Message

----------------------------------------------------------------------------
(* The leader.                                                             *)

\* What sending changes of a leader: what it expects of its followers, not
\* what they have acknowledged.
ProgressOnly(r, q) ==
    /\ q.term = r.term /\ q.vote = r.vote /\ q.role = r.role /\ q.lead = r.lead
    /\ q.commit = r.commit /\ q.log = r.log /\ q.first = r.first /\ q.snapshot = r.snapshot
    /\ q.applied = r.applied /\ q.restored = r.restored /\ q.votes = r.votes
    /\ \A p \in Nodes : q.progress[p].match = r.progress[p].match

\* A part of a log, as an append carries it.
Segment(log, index, entries) ==
    /\ index + Len(entries) <= Len(log)
    /\ \A j \in 1..Len(entries) : entries[j] = log[index + j]

\* A message with which leader id in state r replicates its log.
Replicates(id, r, m) ==
    /\ m \in Message /\ m.from = id /\ m.term = r.term
    /\ \/ /\ m.type = "MsgApp" /\ m.commit = r.commit
          /\ Segment(r.log, m.index, m.entries) /\ m.logTerm = TermAt(r, m.index)
       \/ m.type = "MsgSnap" /\ m.snapshot = r.snapshot

\* A message of a type that uses none of the optional fields.
LEMMA MsgType ==
    ASSUME NEW type \in MessageTypes,
           NEW from \in Nodes, NEW to \in Nodes, NEW term \in Nat
    PROVE  Msg(type, from, to, term) \in Message
<1>1. <<>> \in Seq(Entry)
  BY EmptySeq
<1> QED
  BY <1>1 DEF Msg, Message, MessageTypes

\* The progress of one follower replaced.
WithProgress(r, to, pr) == [r EXCEPT !.progress[to] = pr]

\* Updating one peer's Progress keeps the type; when match stays, only progress changes.
LEMMA ProgressUpdated ==
    ASSUME NEW r \in RawState, NEW to \in Nodes, NEW pr \in Progress
    PROVE  /\ WithProgress(r, to, pr) \in RawState
           /\ WithProgress(r, to, pr).progress = [r.progress EXCEPT ![to] = pr]
           /\ pr.match = r.progress[to].match => ProgressOnly(r, WithProgress(r, to, pr))
<1> DEFINE q == WithProgress(r, to, pr)
<1>1. r.progress \in [Nodes -> Progress]
  BY DEF RawState
<1>2. [r.progress EXCEPT ![to] = pr] \in [Nodes -> Progress]
  BY <1>1
<1>3. q = [r EXCEPT !.progress = [r.progress EXCEPT ![to] = pr]]
  BY DEF WithProgress
<1> HIDE DEF q
<1>4. q \in RawState /\ q.progress = [r.progress EXCEPT ![to] = pr]
  BY <1>2, <1>3 DEF RawState
<1>5. /\ q.term = r.term /\ q.vote = r.vote /\ q.role = r.role /\ q.lead = r.lead
      /\ q.commit = r.commit /\ q.log = r.log /\ q.first = r.first /\ q.snapshot = r.snapshot
      /\ q.applied = r.applied /\ q.restored = r.restored /\ q.votes = r.votes
  BY <1>3 DEF RawState
<1>6. \A p \in Nodes : q.progress[p] = IF p = to THEN pr ELSE r.progress[p]
  BY <1>1, <1>4
<1>7. pr.match = r.progress[to].match => ProgressOnly(r, q)
  BY <1>5, <1>6 DEF ProgressOnly
<1> QED
  BY <1>4, <1>7 DEF q

\* An outcome is its RawNode and the messages it sends.
LEMMA OutcomeIs ==
    ASSUME NEW s \in Outcome
    PROVE  s.raw \in RawState /\ s.out \subseteq Message /\ s = [raw |-> s.raw, out |-> s.out]
  BY DEF Outcome

\* An outcome with another progress for one follower and one more message.
SentWith(s, to, pr, m) == Send([s EXCEPT !.raw.progress[to] = pr], m)

\* Sending one message after an update of the peer's Progress adds that message.
LEMMA OutcomeSent ==
    ASSUME NEW s \in Outcome, NEW to \in Nodes, NEW pr \in Progress, NEW m \in Message
    PROVE  /\ SentWith(s, to, pr, m) \in Outcome
           /\ SentWith(s, to, pr, m).raw = WithProgress(s.raw, to, pr)
           /\ SentWith(s, to, pr, m).out = s.out \cup {m}
<1>1. s = [raw |-> s.raw, out |-> s.out] /\ s.raw \in RawState
  BY OutcomeIs
<1>2. [s EXCEPT !.raw.progress[to] = pr]
        = [raw |-> [s.raw EXCEPT !.progress[to] = pr], out |-> s.out]
  BY <1>1
<1>3. SentWith(s, to, pr, m) = [raw |-> WithProgress(s.raw, to, pr), out |-> s.out \cup {m}]
  <2>1. PICK t : t = [s EXCEPT !.raw.progress[to] = pr]
    OBVIOUS
  <2>2. t = [raw |-> WithProgress(s.raw, to, pr), out |-> s.out]
    BY <1>2, <2>1, Zenon DEF WithProgress
  <2>3. SentWith(s, to, pr, m) = [t EXCEPT !.out = @ \cup {m}]
    BY <2>1, Zenon DEF SentWith, Send
  <2> QED
    BY <2>2, <2>3
<1>4. WithProgress(s.raw, to, pr) \in RawState
  BY <1>1, ProgressUpdated
<1> QED
  BY <1>3, <1>4 DEF Outcome

\* What a leader that replicates to some followers returns.
Replicated(id, s, q) ==
    /\ q \in Outcome /\ ProgressOnly(s.raw, q.raw)
    /\ \A m \in q.out : m \in s.out \/ Replicates(id, s.raw, m)

\* Doing nothing replicates nothing.
LEMMA ReplicatedNothing ==
    ASSUME NEW id, NEW s \in Outcome
    PROVE  Replicated(id, s, s)
  BY DEF Replicated, ProgressOnly

\* A snapshot is sent with the leader's term and what its storage holds.
LEMMA SendSnapshotReplicates ==
    ASSUME NEW s \in Outcome, NEW id \in Nodes, NEW to \in Nodes
    PROVE  Replicated(id, s, SendSnapshot(s, id, to))
<1>1. PICK r : r = s.raw
  OBVIOUS
<1>2. PICK pr, index, term : pr = r.progress[to] /\ index = Len(r.snapshot) /\ term = r.term
  OBVIOUS
<1>3. r \in RawState /\ pr \in Progress /\ index \in Nat /\ term \in Nat /\ r.snapshot \in Seq(Entry)
  BY <1>1, <1>2 DEF Outcome, RawState
<1>4. PICK mode, no, next, type : mode = "snapshot" /\ no = FALSE /\ next = index + 1 /\ type = "MsgSnap"
  OBVIOUS
<1>5. mode \in Modes /\ no \in BOOLEAN /\ next \in Nat \ {0} /\ type \in MessageTypes
  <2>1. index \in Nat
    BY <1>3
  <2>2. mode \in Modes /\ type \in MessageTypes
    BY <1>4 DEF Modes, MessageTypes
  <2>3. no \in BOOLEAN
    BY <1>4
  <2>4. next \in Nat \ {0}
    BY <1>4, <2>1
  <2> QED
    BY <2>2, <2>3, <2>4
<1>6. PICK pn : pn = ProgressProbeAs(pr, mode, no, next, index)
  OBVIOUS
<1>7. pn \in Progress /\ pn.match = pr.match
  BY <1>3, <1>5, <1>6, ProgressProbe DEF Progress
<1>8. PICK b : b = Msg(type, id, to, term)
  OBVIOUS
<1>9. b \in Message /\ b.type = type /\ b.from = id /\ b.term = term
  <2>1. b \in Message
    BY <1>3, <1>5, <1>8, MsgType, Zenon
  <2> QED
    BY <1>8, <2>1 DEF Msg
<1>10. PICK m : m = [b EXCEPT !.snapshot = r.snapshot]
  OBVIOUS
<1>11. m \in Message /\ Replicates(id, r, m)
  BY <1>2, <1>3, <1>4, <1>9, <1>10 DEF Message, Replicates
<1>12. PICK q : q = SentWith(s, to, pn, m)
  OBVIOUS
<1>13. SendSnapshot(s, id, to) = IF ~pr.active THEN s ELSE q
  BY <1>1, <1>2, <1>4, <1>6, <1>8, <1>10, <1>12, Zenon DEF SendSnapshot, ProgressProbeAs, SentWith
<1>14. q \in Outcome /\ q.raw = WithProgress(r, to, pn) /\ q.out = s.out \cup {m}
  BY <1>1, <1>7, <1>11, <1>12, OutcomeSent
<1>15. ProgressOnly(r, q.raw)
  <2>1. pn.match = r.progress[to].match
    BY <1>2, <1>7
  <2>2. ProgressOnly(r, WithProgress(r, to, pn))
    BY <1>3, <1>7, <2>1, ProgressUpdated, Zenon
  <2> QED
    BY <1>14, <2>2, Zenon
<1>16. Replicated(id, s, q)
  BY <1>1, <1>11, <1>14, <1>15 DEF Replicated
<1> QED
  BY <1>13, <1>16, ReplicatedNothing

\* The entries from an index on, or from an index to another.
LEMMA EntriesBetween ==
    ASSUME NEW T, NEW log \in Seq(T), NEW a \in Nat \ {0}, NEW b \in Nat, a <= b + 1, b <= Len(log)
    PROVE  /\ SubSeq(log, a, b) \in Seq(T) /\ Len(SubSeq(log, a, b)) = b - a + 1
           /\ \A j \in 1..(b - a + 1) : SubSeq(log, a, b)[j] = log[a + j - 1]
  BY SubSeqProperties

\* The entries from next on are a segment of the log after next - 1.
LEMMA EntriesFrom ==
    ASSUME NEW log \in Seq(Entry), NEW next \in Nat \ {0}, next <= Len(log) + 1
    PROVE  /\ SubSeq(log, next, Len(log)) \in Seq(Entry)
           /\ Segment(log, next - 1, SubSeq(log, next, Len(log)))
<1>1. Len(log) \in Nat
  OBVIOUS
<1>2. PICK entries : entries = SubSeq(log, next, Len(log))
  OBVIOUS
<1>3. /\ entries \in Seq(Entry) /\ Len(entries) = Len(log) - next + 1
      /\ \A j \in 1..(Len(log) - next + 1) : entries[j] = log[next + j - 1]
  BY <1>1, <1>2, EntriesBetween
<1>4. ASSUME NEW j \in 1..Len(entries)
      PROVE  entries[j] = log[next - 1 + j]
  <2>1. next + j - 1 = next - 1 + j
    BY <1>1, <1>3
  <2> QED
    BY <1>3, <2>1
<1> QED
  BY <1>1, <1>2, <1>3, <1>4 DEF Segment

\* Every term of a log is a number.
LEMMA TermAtType ==
    ASSUME NEW r \in RawState, NEW k \in 0..LastIndex(r)
    PROVE  TermAt(r, k) \in Nat
<1>1. r.log \in Seq(Entry)
  BY DEF RawState
<1>2. ASSUME k # 0
      PROVE  r.log[k] \in Entry
  BY <1>1, <1>2, ElementOfSeq DEF LastIndex
<1> QED
  BY <1>2 DEF TermAt, Entry

\* What sendAppend sends comes from the leader's log, or from its snapshot.
LEMMA SendAppendReplicates ==
    ASSUME NEW s \in Outcome, NEW id \in Nodes, NEW to \in Nodes, NEW sendIfEmpty \in BOOLEAN
    PROVE  Replicated(id, s, SendAppend(s, id, to, sendIfEmpty))
<1>1. PICK r : r = s.raw
  OBVIOUS
<1>2. PICK pr, commit, term : pr = r.progress[to] /\ commit = r.commit /\ term = r.term
  OBVIOUS
<1>3. r \in RawState /\ pr \in Progress /\ commit \in Nat /\ term \in Nat /\ r.log \in Seq(Entry)
  BY <1>1, <1>2 DEF Outcome, RawState
<1>4. pr.next \in Nat \ {0} /\ pr.paused \in BOOLEAN /\ LastIndex(r) \in Nat
  <2>1. LastIndex(r) \in Nat
    BY <1>3 DEF LastIndex
  <2>2. pr.next \in Nat \ {0} /\ pr.paused \in BOOLEAN
    BY <1>3 DEF Progress
  <2> QED
    BY <2>1, <2>2
<1>5. PICK entries : entries = SubSeq(r.log, pr.next, LastIndex(r))
  OBVIOUS
<1>6. CASE Paused(pr)
  <2>1. SendAppend(s, id, to, sendIfEmpty) = s
    BY <1>1, <1>2, <1>6 DEF SendAppend
  <2> QED
    BY <2>1, ReplicatedNothing
<1>7. CASE ~Paused(pr) /\ (pr.next < r.first \/ pr.next > LastIndex(r) + 1)
  <2>1. SendAppend(s, id, to, sendIfEmpty) = SendSnapshot(s, id, to)
    BY <1>1, <1>2, <1>7 DEF SendAppend
  <2> QED
    BY <2>1, SendSnapshotReplicates
<1>8. CASE /\ ~Paused(pr) /\ ~(pr.next < r.first \/ pr.next > LastIndex(r) + 1)
           /\ entries = <<>> /\ ~sendIfEmpty
  <2>1. SendAppend(s, id, to, sendIfEmpty) = s
    BY <1>1, <1>2, <1>5, <1>8 DEF SendAppend
  <2> QED
    BY <2>1, ReplicatedNothing
<1>9. CASE /\ ~Paused(pr) /\ ~(pr.next < r.first \/ pr.next > LastIndex(r) + 1)
           /\ ~(entries = <<>> /\ ~sendIfEmpty)
  <2>1. pr.next <= LastIndex(r) + 1
    BY <1>4, <1>9
  <2>2. entries \in Seq(Entry) /\ Segment(r.log, pr.next - 1, entries)
    BY <1>3, <1>4, <1>5, <2>1, EntriesFrom DEF LastIndex
  <2>3. PICK next, paused, index, logTerm, type :
            /\ next = IF pr.mode = "replicate" THEN pr.next + Len(entries) ELSE pr.next
            /\ paused = (pr.paused \/ (pr.mode = "probe" /\ entries # <<>>))
            /\ index = pr.next - 1 /\ logTerm = TermAt(r, pr.next - 1) /\ type = "MsgApp"
    OBVIOUS
  <2>4. next \in Nat \ {0}
    <3>1. Len(entries) \in Nat
      BY <2>2
    <3> QED
      BY <1>4, <2>3, <3>1
  <2>5. paused \in BOOLEAN
    BY <2>3
  <2>6. index \in Nat /\ index \in 0..LastIndex(r)
    BY <1>4, <2>1, <2>3
  <2>7. logTerm \in Nat /\ logTerm = TermAt(r, index)
    BY <1>3, <2>3, <2>6, TermAtType
  <2>8. type \in MessageTypes
    BY <2>3 DEF MessageTypes
  <2>9. PICK pn : pn = ProgressSentAs(pr, next, paused, commit)
    OBVIOUS
  <2>10. pn \in Progress /\ pn.match = pr.match
    BY <1>3, <2>4, <2>5, <2>9, ProgressSent DEF Progress
  <2>11. PICK b : b = Msg(type, id, to, term)
    OBVIOUS
  <2>12. b \in Message /\ b.type = type /\ b.from = id /\ b.term = term
    <3>1. b \in Message
      BY <1>3, <2>8, <2>11, MsgType, Zenon
    <3> QED
      BY <2>11, <3>1 DEF Msg
  <2>13. PICK m : m = MessageAppendAs(b, index, logTerm, entries, commit)
    OBVIOUS
  <2>14. /\ m \in Message /\ m.type = b.type /\ m.from = b.from /\ m.term = b.term
         /\ m.index = index /\ m.logTerm = logTerm /\ m.entries = entries /\ m.commit = commit
    <3>1. /\ b \in Message /\ index \in Nat /\ logTerm \in Nat /\ entries \in Seq(Entry)
          /\ commit \in Nat
      BY <1>3, <2>2, <2>6, <2>7, <2>12, Zenon
    <3>2. MessageAppendAs(b, index, logTerm, entries, commit)
            = [type |-> b.type, from |-> b.from, to |-> b.to, term |-> b.term,
               index |-> index, logTerm |-> logTerm, commit |-> commit, reject |-> b.reject,
               hint |-> b.hint, entries |-> entries, snapshot |-> b.snapshot]
      BY <3>1, MessageAppend
    <3> QED
      BY <2>13, <3>1, <3>2 DEF Message
  <2>15. Replicates(id, r, m)
    <3>1. Segment(r.log, m.index, m.entries)
      BY <2>2, <2>3, <2>14
    <3>2. m.logTerm = TermAt(r, m.index) /\ m.commit = r.commit
      BY <1>2, <2>7, <2>14
    <3> QED
      BY <1>2, <2>3, <2>12, <2>14, <3>1, <3>2, Zenon DEF Replicates
  <2>16. PICK q : q = SentWith(s, to, pn, m)
    OBVIOUS
  <2>17. SendAppend(s, id, to, sendIfEmpty) = q
    <3>1. SendAppend(s, id, to, sendIfEmpty)
            = Send([s EXCEPT !.raw.progress[to] =
                        [pr EXCEPT !.next = IF pr.mode = "replicate" THEN @ + Len(entries) ELSE @,
                                   !.paused = @ \/ (pr.mode = "probe" /\ entries # <<>>),
                                   !.sentCommit = r.commit]],
                   [Msg("MsgApp", id, to, r.term) EXCEPT
                        !.index = pr.next - 1, !.logTerm = TermAt(r, pr.next - 1),
                        !.entries = entries, !.commit = r.commit])
      BY <1>1, <1>2, <1>5, <1>9, Zenon DEF SendAppend
    <3> QED
      BY <1>2, <2>3, <2>9, <2>11, <2>13, <2>16, <3>1, Zenon
         DEF SentWith, ProgressSentAs, MessageAppendAs
  <2>18. q \in Outcome /\ q.raw = WithProgress(r, to, pn) /\ q.out = s.out \cup {m}
    BY <1>1, <2>10, <2>14, <2>16, OutcomeSent
  <2>19. ProgressOnly(r, q.raw)
    <3>1. pn.match = r.progress[to].match
      BY <1>2, <2>10
    <3>2. ProgressOnly(r, WithProgress(r, to, pn))
      BY <1>3, <2>10, <3>1, ProgressUpdated, Zenon
    <3> QED
      BY <2>18, <3>2, Zenon
  <2>20. Replicated(id, s, q)
    BY <1>1, <2>15, <2>18, <2>19 DEF Replicated
  <2> QED
    BY <2>17, <2>20
<1> QED
  BY <1>6, <1>7, <1>8, <1>9

\* The progress of all followers replaced.
WithAllProgress(r, progress) == [r EXCEPT !.progress = progress]

\* Updating every peer's Progress with each match as it was changes only progress.
LEMMA AllProgressUpdated ==
    ASSUME NEW r \in RawState, NEW progress \in [Nodes -> Progress],
           \A p \in Nodes : progress[p].match = r.progress[p].match
    PROVE  /\ WithAllProgress(r, progress) \in RawState
           /\ ProgressOnly(r, WithAllProgress(r, progress))
<1>1. PICK q : q = WithAllProgress(r, progress)
  OBVIOUS
<1>2. q \in RawState /\ q.progress = progress
  BY <1>1 DEF RawState, WithAllProgress
<1>3. /\ q.term = r.term /\ q.vote = r.vote /\ q.role = r.role /\ q.lead = r.lead
      /\ q.commit = r.commit /\ q.log = r.log /\ q.first = r.first /\ q.snapshot = r.snapshot
      /\ q.applied = r.applied /\ q.restored = r.restored /\ q.votes = r.votes
  BY <1>1 DEF RawState, WithAllProgress
<1> QED
  BY <1>1, <1>2, <1>3 DEF ProgressOnly

\* What bcastAppend sends comes from the leader's log, or from its snapshot.
LEMMA BroadcastAppendReplicates ==
    ASSUME NEW s \in Outcome, NEW id \in Nodes
    PROVE  Replicated(id, s, BroadcastAppend(s, id))
<1>1. PICK r : r = s.raw
  OBVIOUS
<1>2. r \in RawState /\ r.progress \in [Nodes -> Progress]
  BY <1>1 DEF Outcome, RawState
<1>3. ASSUME NEW p \in Nodes
      PROVE  Replicated(id, s, SendAppend(s, id, p, TRUE))
  <2>1. TRUE \in BOOLEAN
    OBVIOUS
  <2> QED
    BY <2>1, SendAppendReplicates
<1>4. ASSUME NEW p \in Nodes
      PROVE  /\ SendAppend(s, id, p, TRUE).raw.progress[p] \in Progress
             /\ SendAppend(s, id, p, TRUE).raw.progress[p].match = r.progress[p].match
             /\ \A m \in SendAppend(s, id, p, TRUE).out : m \in s.out \/ Replicates(id, r, m)
  <2>1. PICK q : q = SendAppend(s, id, p, TRUE)
    OBVIOUS
  <2>2. q \in Outcome /\ ProgressOnly(r, q.raw) /\ \A m \in q.out : m \in s.out \/ Replicates(id, r, m)
    BY <1>1, <1>3, <2>1 DEF Replicated
  <2>3. q.raw.progress \in [Nodes -> Progress]
    BY <2>2 DEF Outcome, RawState
  <2>4. q.raw.progress[p].match = r.progress[p].match
    BY <2>2 DEF ProgressOnly
  <2> QED
    BY <2>1, <2>2, <2>3, <2>4
<1>5. PICK progress : progress = [p \in Nodes |-> IF p = id THEN r.progress[p]
                                                  ELSE SendAppend(s, id, p, TRUE).raw.progress[p]]
  OBVIOUS
<1>6. /\ progress \in [Nodes -> Progress]
      /\ \A p \in Nodes : progress[p].match = r.progress[p].match
  BY <1>2, <1>4, <1>5
<1>7. PICK out : out = s.out \cup UNION {SendAppend(s, id, p, TRUE).out : p \in Nodes \ {id}}
  OBVIOUS
<1>8. \A m \in out : m \in s.out \/ Replicates(id, r, m)
  BY <1>4, <1>7
<1>9. out \subseteq Message
  BY <1>8, OutcomeIs DEF Replicates
<1>10. BroadcastAppend(s, id) = [raw |-> WithAllProgress(r, progress), out |-> out]
  BY <1>1, <1>5, <1>7, Zenon DEF BroadcastAppend, WithAllProgress
<1>11. WithAllProgress(r, progress) \in RawState /\ ProgressOnly(r, WithAllProgress(r, progress))
  BY <1>2, <1>6, AllProgressUpdated
<1> QED
  BY <1>1, <1>8, <1>9, <1>10, <1>11 DEF Replicated, Outcome

\* A state that differs in the expectations only replicates the same messages.
LEMMA ReplicatedTwice ==
    ASSUME NEW id, NEW s, NEW q, NEW u, Replicated(id, s, q), Replicated(id, q, u)
    PROVE  Replicated(id, s, u)
<1>1. ProgressOnly(s.raw, u.raw)
  BY DEF Replicated, ProgressOnly
<1>2. ASSUME NEW m, Replicates(id, q.raw, m)
      PROVE  Replicates(id, s.raw, m)
  <2>1. /\ q.raw.term = s.raw.term /\ q.raw.commit = s.raw.commit /\ q.raw.log = s.raw.log
        /\ q.raw.snapshot = s.raw.snapshot
    BY DEF Replicated, ProgressOnly
  <2> QED
    BY <1>2, <2>1 DEF Replicates, TermAt
<1> QED
  BY <1>1, <1>2, Zenon DEF Replicated

\* A log with one entry more.
WithLog(r, log) == [r EXCEPT !.log = log]

\* A RawNode with another log, as a record, field by field.
LEMMA LogReplaced ==
    ASSUME NEW r \in RawState, NEW log \in Seq(Entry)
    PROVE  WithLog(r, log) =
             [term |-> r.term, vote |-> r.vote, role |-> r.role, lead |-> r.lead,
              commit |-> r.commit, log |-> log, first |-> r.first, snapshot |-> r.snapshot,
              applied |-> r.applied, restored |-> r.restored, votes |-> r.votes,
              progress |-> r.progress]
<1>1. PICK q : q = WithLog(r, log)
  OBVIOUS
<1>2. /\ q \in RawState /\ q.log = log /\ q.term = r.term /\ q.vote = r.vote
      /\ q.role = r.role /\ q.lead = r.lead /\ q.commit = r.commit /\ q.first = r.first
      /\ q.snapshot = r.snapshot /\ q.applied = r.applied /\ q.restored = r.restored
      /\ q.votes = r.votes /\ q.progress = r.progress
  BY <1>1 DEF WithLog, RawState
<1> QED
  BY <1>1, <1>2 DEF RawState

\* What a leader that appends entry e and replicates returns.
Appended(id, s, e, q) ==
    /\ q \in Outcome
    /\ LET r == s.raw
           p == q.raw
       IN  /\ p.term = r.term /\ p.vote = r.vote /\ p.role = r.role /\ p.lead = r.lead
           /\ p.commit = r.commit /\ p.log = Append(r.log, e) /\ p.first = r.first
           /\ p.snapshot = r.snapshot /\ p.applied = r.applied /\ p.restored = r.restored
           /\ p.votes = r.votes
           /\ \A f \in Nodes : p.progress[f].match = r.progress[f].match
           /\ \A m \in q.out : m \in s.out \/ Replicates(id, p, m)

\* What is replicated does not depend on the expectations.
LEMMA ReplicatesStill ==
    ASSUME NEW id, NEW r, NEW p, ProgressOnly(r, p), NEW m, Replicates(id, r, m)
    PROVE  Replicates(id, p, m)
<1>1. p.term = r.term /\ p.commit = r.commit /\ p.log = r.log /\ p.snapshot = r.snapshot
  BY DEF ProgressOnly
<1> QED
  BY <1>1 DEF Replicates, TermAt

\* A leader's appendEntry adds one entry of its own term after the end of its log.
LEMMA AppendEntryAppends ==
    ASSUME NEW s \in Outcome, NEW id \in Nodes, NEW value \in Nat \cup {NoOp}, NEW e,
           e = [term |-> s.raw.term, value |-> value]
    PROVE  e \in Entry /\ Appended(id, s, e, AppendEntry(s, id, value))
<1>1. PICK r : r = s.raw
  OBVIOUS
<1>2. r \in RawState /\ r.log \in Seq(Entry) /\ r.term \in Nat
  BY <1>1 DEF Outcome, RawState
<1>3. e \in Entry
  <2>1. r.term \in Nat
    BY <1>2
  <2> QED
    BY <1>1, <2>1 DEF Entry
<1>4. PICK log : log = Append(r.log, e)
  OBVIOUS
<1>5. log \in Seq(Entry)
  BY <1>2, <1>3, <1>4, AppendProperties
<1>6. PICK l : l = WithLog(r, log)
  OBVIOUS
<1>7. l = [term |-> r.term, vote |-> r.vote, role |-> r.role, lead |-> r.lead,
           commit |-> r.commit, log |-> log, first |-> r.first, snapshot |-> r.snapshot,
           applied |-> r.applied, restored |-> r.restored, votes |-> r.votes,
           progress |-> r.progress]
  BY <1>2, <1>5, <1>6, LogReplaced
<1>8. l \in RawState
  BY <1>2, <1>5, <1>7 DEF RawState
<1>9. PICK t : t = [raw |-> l, out |-> s.out]
  OBVIOUS
<1>10. t \in Outcome
  BY <1>8, <1>9, OutcomeIs DEF Outcome
<1>11. [s EXCEPT !.raw.log = Append(@, [term |-> s.raw.term, value |-> value])] = t
  <2>1. s = [raw |-> s.raw, out |-> s.out]
    BY OutcomeIs
  <2>2. [s EXCEPT !.raw.log = log] = [raw |-> [s.raw EXCEPT !.log = log], out |-> s.out]
    BY <2>1
  <2> QED
    BY <1>1, <1>4, <1>6, <1>9, <2>2, Zenon DEF WithLog
<1>12. PICK q : q = AppendEntry(s, id, value)
  OBVIOUS
<1>13. q = BroadcastAppend(t, id)
  BY <1>11, <1>12, Zenon DEF AppendEntry
<1>14. Replicated(id, t, q)
  BY <1>10, <1>13, BroadcastAppendReplicates
<1>15. q \in Outcome /\ ProgressOnly(l, q.raw)
  BY <1>9, <1>14 DEF Replicated
<1>16. ASSUME NEW m \in q.out
       PROVE  m \in s.out \/ Replicates(id, q.raw, m)
  BY <1>9, <1>14, <1>15, ReplicatesStill DEF Replicated
<1>17. /\ l.term = r.term /\ l.vote = r.vote /\ l.role = r.role /\ l.lead = r.lead
       /\ l.commit = r.commit /\ l.log = log /\ l.first = r.first /\ l.snapshot = r.snapshot
       /\ l.applied = r.applied /\ l.restored = r.restored /\ l.votes = r.votes
       /\ l.progress = r.progress
  BY <1>7
<1>18. Appended(id, s, e, q)
  BY <1>1, <1>4, <1>15, <1>16, <1>17 DEF Appended, ProgressOnly
<1> QED
  BY <1>3, <1>12, <1>18

\* raft.reset.
LEMMA ResetIs ==
    ASSUME NEW r \in RawState, NEW term \in Nat
    PROVE  Reset(r, term) =
             [term |-> term, vote |-> IF term = r.term THEN r.vote ELSE None, role |-> r.role,
              lead |-> None, commit |-> r.commit, log |-> r.log, first |-> r.first,
              snapshot |-> r.snapshot, applied |-> r.applied, restored |-> r.restored,
              votes |-> [p \in {} |-> TRUE], progress |-> [p \in Nodes |-> FreshProgress]]
<1>1. PICK vote, lead, votes, progress :
          /\ vote = (IF term = r.term THEN r.vote ELSE None) /\ lead = None
          /\ votes = [p \in {} |-> TRUE] /\ progress = [p \in Nodes |-> FreshProgress]
  OBVIOUS
<1>2. vote \in Nodes \cup {None} /\ lead \in Nodes \cup {None}
  BY <1>1 DEF RawState
<1>3. votes \in Answers
  <2>1. [p \in {} |-> TRUE] \in Answers
    BY DEF Answers
  <2> QED
    BY <1>1, <2>1, Zenon
<1>4. FreshProgress \in Progress
  BY DEF FreshProgress, Progress, Modes
<1>5. progress \in [Nodes -> Progress]
  BY <1>1, <1>4
<1>6. Reset(r, term) = RawResetAs(r, vote, term, lead, votes, progress)
  BY <1>1, Zenon DEF Reset, RawResetAs
<1>7. RawResetAs(r, vote, term, lead, votes, progress) =
        [term |-> term, vote |-> vote, role |-> r.role,
              lead |-> lead, commit |-> r.commit, log |-> r.log, first |-> r.first,
              snapshot |-> r.snapshot, applied |-> r.applied, restored |-> r.restored,
              votes |-> votes, progress |-> progress]
  BY <1>2, <1>3, <1>5, RawReset
<1> QED
  BY <1>1, <1>6, <1>7, Zenon

\* A reset keeps the type.
LEMMA ResetType ==
    ASSUME NEW r \in RawState, NEW term \in Nat
    PROVE  Reset(r, term) \in RawState
<1>1. [p \in {} |-> TRUE] \in Answers
  BY DEF Answers
<1>2. FreshProgress \in Progress
  BY DEF FreshProgress, Progress, Modes
<1>3. [p \in Nodes |-> FreshProgress] \in [Nodes -> Progress]
  BY <1>2
<1> QED
  BY <1>1, <1>3, ResetIs DEF RawState

\* What a candidate that has won its election returns.
BecameLeader(id, s, q) ==
    /\ q \in Outcome
    /\ LET r == s.raw
           p == q.raw
       IN  /\ p.term = r.term /\ p.vote = r.vote /\ p.role = "leader"
           /\ p.commit = r.commit /\ p.log = Append(r.log, [term |-> r.term, value |-> NoOp])
           /\ p.first = r.first /\ p.snapshot = r.snapshot /\ p.applied = r.applied
           /\ p.restored = r.restored
           /\ \A f \in Nodes : p.progress[f].match = 0
           /\ \A m \in q.out : m \in s.out \/ Replicates(id, p, m)

\* A node that becomes leader keeps its log and adds the empty entry of its term.
LEMMA BecomeLeaderLeads ==
    ASSUME NEW s \in Outcome, NEW id \in Nodes
    PROVE  BecameLeader(id, s, BecomeLeader(s, id))
<1>1. PICK r, term : r = s.raw /\ term = s.raw.term
  OBVIOUS
<1>2. r \in RawState /\ term \in Nat
  BY <1>1 DEF Outcome, RawState
<1>3. PICK c : c = Reset(r, term)
  OBVIOUS
<1>4. c \in RawState
  BY <1>2, <1>3, ResetType
<1>5. /\ c.term = term /\ c.vote = r.vote /\ c.commit = r.commit /\ c.log = r.log
      /\ c.first = r.first /\ c.snapshot = r.snapshot /\ c.applied = r.applied
      /\ c.restored = r.restored
  BY <1>1, <1>2, <1>3, ResetIs
<1>6. PICK last : last = LastIndex(c) + 1
  OBVIOUS
<1>7. last \in Nat \ {0}
  <2>1. Len(c.log) \in Nat
    BY <1>4 DEF RawState
  <2> QED
    BY <1>6, <2>1 DEF LastIndex
<1>8. PICK next : next = [FreshProgress EXCEPT !.next = last]
  OBVIOUS
<1>9. next \in Progress /\ next.match = 0
  BY <1>7, <1>8 DEF FreshProgress, Progress, Modes
<1>10. PICK progress : progress = [p \in Nodes |-> next]
  OBVIOUS
<1>11. progress \in [Nodes -> Progress] /\ \A p \in Nodes : progress[p].match = 0
  BY <1>9, <1>10
<1>12. PICK role, lead : role = "leader" /\ lead = id
  OBVIOUS
<1>13. role \in Roles /\ lead \in Nodes \cup {None}
  BY <1>12 DEF Roles
<1>14. PICK l : l = RawLeaderAs(c, role, lead, progress)
  OBVIOUS
<1>15. RawLeaderAs(c, role, lead, progress) =
         [term |-> c.term, vote |-> c.vote, role |-> role, lead |-> lead, commit |-> c.commit,
          log |-> c.log, first |-> c.first, snapshot |-> c.snapshot, applied |-> c.applied,
          restored |-> c.restored, votes |-> c.votes, progress |-> progress]
  BY <1>4, <1>11, <1>13, RawLeader
<1>16. l \in RawState
  BY <1>4, <1>11, <1>13, <1>14, <1>15 DEF RawState
<1>17. /\ l.term = term /\ l.vote = r.vote /\ l.role = "leader" /\ l.commit = r.commit
       /\ l.log = r.log /\ l.first = r.first /\ l.snapshot = r.snapshot
       /\ l.applied = r.applied /\ l.restored = r.restored
       /\ l.progress = progress
  BY <1>5, <1>12, <1>14, <1>15
<1>18. PICK t : t = [raw |-> l, out |-> s.out]
  OBVIOUS
<1>19. t \in Outcome
  BY <1>16, <1>18, OutcomeIs DEF Outcome
<1>20. BecomeLeader(s, id) = AppendEntry(t, id, NoOp)
  <2>1. [s EXCEPT !.raw = l] = t
    BY <1>18, OutcomeIs
  <2>2. BecomeLeader(s, id) = AppendEntry([s EXCEPT !.raw = l], id, NoOp)
    BY <1>1, <1>3, <1>6, <1>8, <1>10, <1>12, <1>14, Zenon DEF BecomeLeader, RawLeaderAs
  <2> QED
    BY <2>1, <2>2
<1>21. PICK e, q : e = [term |-> term, value |-> NoOp] /\ q = BecomeLeader(s, id)
  OBVIOUS
<1>22. Appended(id, t, e, q)
  BY <1>17, <1>18, <1>19, <1>20, <1>21, AppendEntryAppends
<1> QED
  BY <1>1, <1>11, <1>17, <1>18, <1>21, <1>22 DEF Appended, BecameLeader

\* What the leader may expect of a follower after its answer.
LEMMA BecomeProbeType ==
    ASSUME NEW pr \in Progress
    PROVE  BecomeProbe(pr) \in Progress /\ BecomeProbe(pr).match = pr.match
<1>1. pr.match \in Nat /\ pr.sentCommit \in Nat
  BY DEF Progress
<1>2. PICK mode, no, next, sent : /\ mode = "probe" /\ no = FALSE /\ next = pr.match + 1
                                  /\ sent = MinOf(pr.sentCommit, pr.match)
  OBVIOUS
<1>3. mode \in Modes
  BY <1>2 DEF Modes
<1>4. no \in BOOLEAN
  BY <1>2
<1>5. next \in Nat \ {0} /\ sent \in Nat
  BY <1>1, <1>2 DEF MinOf
<1>6. BecomeProbe(pr) = ProgressProbeAs(pr, mode, no, next, sent)
  BY <1>2, Zenon DEF BecomeProbe, ProgressProbeAs
<1>7. ProgressProbeAs(pr, mode, no, next, sent) =
        [match |-> pr.match, next |-> next, mode |-> mode, paused |-> no,
         sentCommit |-> sent, active |-> pr.active]
  BY <1>3, <1>4, <1>5, ProgressProbe
<1> QED
  BY <1>3, <1>4, <1>5, <1>6, <1>7 DEF Progress

\* becomeReplicate keeps the type and the match.
LEMMA BecomeReplicateType ==
    ASSUME NEW pr \in Progress
    PROVE  BecomeReplicate(pr) \in Progress /\ BecomeReplicate(pr).match = pr.match
<1>1. pr.match \in Nat
  BY DEF Progress
<1>2. PICK mode, no, next : mode = "replicate" /\ no = FALSE /\ next = pr.match + 1
  OBVIOUS
<1>3. mode \in Modes
  BY <1>2 DEF Modes
<1>4. no \in BOOLEAN
  BY <1>2
<1>5. next \in Nat \ {0}
  BY <1>1, <1>2
<1>6. BecomeReplicate(pr) = ProgressReplicateAs(pr, mode, no, next)
  BY <1>2, Zenon DEF BecomeReplicate, ProgressReplicateAs
<1>7. ProgressReplicateAs(pr, mode, no, next) =
        [match |-> pr.match, next |-> next, mode |-> mode, paused |-> no,
         sentCommit |-> pr.sentCommit, active |-> pr.active]
  BY <1>3, <1>4, <1>5, ProgressReplicate
<1> QED
  BY <1>3, <1>4, <1>5, <1>6, <1>7 DEF Progress

\* A rejected append keeps the type and the match.
LEMMA MaybeDecrToType ==
    ASSUME NEW r \in RawState, NEW m \in Message
    PROVE  /\ MaybeDecrTo(r, m) \in Progress
           /\ MaybeDecrTo(r, m).match = r.progress[m.from].match
<1>1. PICK pr : pr = r.progress[m.from]
  OBVIOUS
<1>2. pr \in Progress /\ pr.match \in Nat /\ pr.sentCommit \in Nat
  BY <1>1 DEF RawState, Progress, Message
<1>3. /\ m.index \in Nat /\ m.hint \in Nat /\ m.logTerm \in Nat /\ LastIndex(r) \in Nat
  <2>1. Len(r.log) \in Nat
    BY DEF RawState
  <2> QED
    BY <2>1 DEF Message, LastIndex
<1>4. PICK probe : probe = IF m.logTerm > 0
                           THEN FindConflictByTerm(r, MinOf(m.hint, LastIndex(r)), m.logTerm)
                           ELSE m.hint
  OBVIOUS
<1>5. probe \in Nat
  <2>1. MinOf(m.hint, LastIndex(r)) \in Nat
    BY <1>3 DEF MinOf
  <2>2. FindConflictByTerm(r, MinOf(m.hint, LastIndex(r)), m.logTerm) \in Nat
    BY <2>1, FindConflictByTermType
  <2> QED
    BY <1>3, <1>4, <2>2
<1>6. PICK next : next = Max({MinOf(m.index, probe + 1), pr.match + 1})
  OBVIOUS
<1>7. next \in Nat \ {0}
  <2>1. MinOf(m.index, probe + 1) \in Nat /\ pr.match + 1 \in Nat
    BY <1>2, <1>3, <1>5 DEF MinOf
  <2>2. next = IF MinOf(m.index, probe + 1) <= pr.match + 1 THEN pr.match + 1
               ELSE MinOf(m.index, probe + 1)
    BY <1>6, <2>1, MaxOfTwo
  <2> QED
    BY <1>2, <2>1, <2>2
<1>8. PICK no, sent : no = FALSE /\ sent = MinOf(pr.sentCommit, next - 1)
  OBVIOUS
<1>9. no \in BOOLEAN
  BY <1>8
<1>10. sent \in Nat
  BY <1>2, <1>7, <1>8 DEF MinOf
<1>11. PICK moved : moved = ProgressSentAs(pr, next, no, sent)
  OBVIOUS
<1>12. moved \in Progress /\ moved.match = pr.match
  <2>1. ProgressSentAs(pr, next, no, sent) =
          [match |-> pr.match, next |-> next, mode |-> pr.mode, paused |-> no,
           sentCommit |-> sent, active |-> pr.active]
    BY <1>2, <1>7, <1>9, <1>10, ProgressSent
  <2> QED
    BY <1>2, <1>7, <1>9, <1>10, <1>11, <2>1 DEF Progress
<1>13. MaybeDecrTo(r, m) = IF pr.mode = "replicate"
                           THEN IF m.index <= pr.match THEN pr ELSE BecomeProbe(pr)
                           ELSE IF pr.next - 1 # m.index THEN pr ELSE moved
  BY <1>1, <1>4, <1>6, <1>8, <1>11, Zenon DEF MaybeDecrTo, ProgressSentAs
<1> QED
  BY <1>1, <1>2, <1>12, <1>13, BecomeProbeType

\* maybeCommit: the commit index moves to an index of this term a quorum holds.
Held(id, r, k) == {id} \cup {p \in Nodes \ {id} : r.progress[p].match >= k}

WithCommit(r, commit) == [r EXCEPT !.commit = commit]

CommitsOwn(id, r, commit) ==
    /\ commit \in 1..LastIndex(r) /\ TermAt(r, commit) = r.term
    /\ IsQuorum(Held(id, r, commit))

\* maybeCommit leaves the node alone, or commits an entry of its own term that a majority holds.
LEMMA MaybeCommitIs ==
    ASSUME NEW r \in RawState, NEW id
    PROVE  \/ MaybeCommit(r, id) = r
           \/ \E commit \in Nat : /\ MaybeCommit(r, id) = WithCommit(r, commit)
                                 /\ commit > r.commit /\ CommitsOwn(id, r, commit)
<1>1. r.commit \in Nat /\ LastIndex(r) \in Nat
  <2>1. Len(r.log) \in Nat
    BY DEF RawState
  <2> QED
    BY <2>1 DEF RawState, LastIndex
<1>2. PICK S : S = {k \in 1..LastIndex(r) : IsQuorum(Held(id, r, k))}
  OBVIOUS
<1>3. PICK index : index = Max({0} \cup S)
  OBVIOUS
<1>4. index \in {0} \cup S
  <2>1. {0} \cup S \subseteq 0..LastIndex(r) /\ {0} \cup S # {}
    BY <1>1, <1>2
  <2> QED
    BY <1>1, <1>3, <2>1, MaxBounded
<1>5. MaybeCommit(r, id) = IF index > r.commit /\ TermAt(r, index) = r.term
                           THEN WithCommit(r, index) ELSE r
  BY <1>2, <1>3 DEF MaybeCommit, Held, WithCommit
<1>6. ASSUME index > r.commit, TermAt(r, index) = r.term
      PROVE  index \in Nat /\ CommitsOwn(id, r, index)
  <2>1. index \in S
    BY <1>1, <1>4, <1>6
  <2> QED
    BY <1>1, <1>2, <1>6, <2>1 DEF CommitsOwn
<1> QED
  BY <1>5, <1>6

\* A RawNode with another commit index, as a record, field by field.
LEMMA CommitReplaced ==
    ASSUME NEW r \in RawState, NEW commit \in Nat
    PROVE  WithCommit(r, commit) =
             [term |-> r.term, vote |-> r.vote, role |-> r.role, lead |-> r.lead,
              commit |-> commit, log |-> r.log, first |-> r.first, snapshot |-> r.snapshot,
              applied |-> r.applied, restored |-> r.restored, votes |-> r.votes,
              progress |-> r.progress]
<1>1. PICK q : q = WithCommit(r, commit)
  OBVIOUS
<1>2. /\ q \in RawState /\ q.log = r.log /\ q.term = r.term /\ q.vote = r.vote
      /\ q.role = r.role /\ q.lead = r.lead /\ q.commit = commit /\ q.first = r.first
      /\ q.snapshot = r.snapshot /\ q.applied = r.applied /\ q.restored = r.restored
      /\ q.votes = r.votes /\ q.progress = r.progress
  BY <1>1 DEF WithCommit, RawState
<1> QED
  BY <1>1, <1>2 DEF RawState

\* Updating one peer's Progress in an outcome updates it in its RawNode.
LEMMA OutcomeProgress ==
    ASSUME NEW s \in Outcome, NEW to \in Nodes, NEW pr \in Progress
    PROVE  /\ [s EXCEPT !.raw.progress[to] = pr] = [raw |-> WithProgress(s.raw, to, pr), out |-> s.out]
           /\ [raw |-> WithProgress(s.raw, to, pr), out |-> s.out] \in Outcome
<1>1. s = [raw |-> s.raw, out |-> s.out] /\ s.raw \in RawState /\ s.out \subseteq Message
  BY OutcomeIs
<1>2. [s EXCEPT !.raw.progress[to] = pr]
        = [raw |-> [s.raw EXCEPT !.progress[to] = pr], out |-> s.out]
  BY <1>1
<1>3. WithProgress(s.raw, to, pr) \in RawState
  BY <1>1, ProgressUpdated
<1> QED
  BY <1>1, <1>2, <1>3, Zenon DEF WithProgress, Outcome

\* What the leader's handling of an answer m changes: the acknowledged index
\* of the follower it is from, and with it the commit index.
Hears(id, r, m, p) ==
    /\ p \in RawState
    /\ p.term = r.term /\ p.vote = r.vote /\ p.role = r.role /\ p.lead = r.lead
    /\ p.log = r.log /\ p.first = r.first /\ p.snapshot = r.snapshot
    /\ p.applied = r.applied /\ p.restored = r.restored /\ p.votes = r.votes
    /\ p.commit = r.commit \/ (p.commit > r.commit /\ CommitsOwn(id, p, p.commit))
    /\ \A f \in Nodes : \/ p.progress[f].match = r.progress[f].match
                        \/ /\ m.type = "MsgAppResp" /\ ~m.reject /\ f = m.from
                           /\ p.progress[f].match = m.index

\* What may be committed depends only on the term, the log and the matches.
LEMMA CommitsOwnStill ==
    ASSUME NEW id, NEW r, NEW p, NEW commit, CommitsOwn(id, r, commit),
           p.term = r.term, p.log = r.log,
           \A f \in Nodes : p.progress[f].match = r.progress[f].match
    PROVE  CommitsOwn(id, p, commit)
<1>1. Held(id, p, commit) = Held(id, r, commit)
  BY DEF Held
<1>2. LastIndex(p) = LastIndex(r) /\ TermAt(p, commit) = TermAt(r, commit)
  BY DEF LastIndex, TermAt
<1> QED
  BY <1>1, <1>2 DEF CommitsOwn

\* ... and what it sends replicates the log.
LeaderHears(id, s, m, q) ==
    /\ q \in Outcome /\ Hears(id, s.raw, m, q.raw)
    /\ \A x \in q.out : x \in s.out \/ Replicates(id, q.raw, x)

\* A leader that hears an answer and then replicates has heard it and replicated.
LEMMA HearsAndReplicates ==
    ASSUME NEW id, NEW s \in Outcome, NEW m, NEW t \in Outcome, NEW q,
           t.out = s.out, Hears(id, s.raw, m, t.raw), Replicated(id, t, q)
    PROVE  LeaderHears(id, s, m, q)
<1>1. PICK r, c, p : r = s.raw /\ c = t.raw /\ p = q.raw
  OBVIOUS
<1>2. Hears(id, r, m, c) /\ ProgressOnly(c, p) /\ q \in Outcome
  BY <1>1 DEF Replicated
<1>3. p \in RawState
  BY <1>1, <1>2 DEF Outcome
<1>4. /\ p.term = r.term /\ p.vote = r.vote /\ p.role = r.role /\ p.lead = r.lead
      /\ p.log = r.log /\ p.first = r.first /\ p.snapshot = r.snapshot
      /\ p.applied = r.applied /\ p.restored = r.restored /\ p.votes = r.votes
  BY <1>2 DEF Hears, ProgressOnly
<1>5. /\ p.term = c.term /\ p.log = c.log /\ p.commit = c.commit
      /\ \A f \in Nodes : p.progress[f].match = c.progress[f].match
  BY <1>2 DEF ProgressOnly
<1>6. p.commit = r.commit \/ (p.commit > r.commit /\ CommitsOwn(id, p, p.commit))
  <2>1. c.commit = r.commit \/ (c.commit > r.commit /\ CommitsOwn(id, c, c.commit))
    BY <1>2 DEF Hears
  <2> QED
    BY <1>5, <2>1, CommitsOwnStill
<1>7. \A f \in Nodes : \/ p.progress[f].match = r.progress[f].match
                       \/ /\ m.type = "MsgAppResp" /\ ~m.reject /\ f = m.from
                          /\ p.progress[f].match = m.index
  BY <1>2, <1>5 DEF Hears
<1>8. Hears(id, r, m, p)
  BY <1>3, <1>4, <1>6, <1>7 DEF Hears
<1>9. ASSUME NEW x \in q.out
      PROVE  x \in s.out \/ Replicates(id, p, x)
  BY <1>1, <1>2, ReplicatesStill DEF Replicated
<1> QED
  BY <1>1, <1>2, <1>8, <1>9 DEF LeaderHears

\* An update of progress that keeps each match learns nothing new.
LEMMA HearsProgress ==
    ASSUME NEW id, NEW r \in RawState, NEW m, NEW p \in RawState, ProgressOnly(r, p)
    PROVE  Hears(id, r, m, p)
  BY DEF Hears, ProgressOnly

\* A leader that hears a rejection lowers next and sends again.
LEMMA AppendRejectedHears ==
    ASSUME NEW s \in Outcome, NEW id \in Nodes, NEW m \in Message
    PROVE  LeaderHears(id, s, m, AppendRejected(s, id, m))
<1>1. PICK r, pn, to : r = s.raw /\ pn = MaybeDecrTo(s.raw, m) /\ to = m.from
  OBVIOUS
<1>2. r \in RawState /\ to \in Nodes
  BY <1>1, OutcomeIs DEF Message
<1>3. pn \in Progress /\ pn.match = r.progress[to].match
  BY <1>1, <1>2, MaybeDecrToType
<1>4. PICK t : t = [raw |-> WithProgress(r, to, pn), out |-> s.out]
  OBVIOUS
<1>5. t \in Outcome /\ [s EXCEPT !.raw.progress[m.from] = MaybeDecrTo(s.raw, m)] = t
  BY <1>1, <1>2, <1>3, <1>4, OutcomeProgress
<1>6. AppendRejected(s, id, m) = IF Decreased(r, m) THEN SendAppend(t, id, to, TRUE) ELSE s
  BY <1>1, <1>5, Zenon DEF AppendRejected
<1>7. ProgressOnly(r, t.raw) /\ t.out = s.out
  <2>1. ProgressOnly(r, WithProgress(r, to, pn))
    BY <1>2, <1>3, ProgressUpdated, Zenon
  <2> QED
    BY <1>4, <2>1
<1>8. Hears(id, r, m, t.raw)
  BY <1>2, <1>5, <1>7, OutcomeIs, HearsProgress
<1>9. Hears(id, r, m, r)
  BY <1>2, HearsProgress DEF ProgressOnly
<1>10. LeaderHears(id, s, m, s)
  BY <1>1, <1>9, ReplicatedNothing, HearsAndReplicates
<1>11. LeaderHears(id, s, m, SendAppend(t, id, to, TRUE))
  <2>1. TRUE \in BOOLEAN
    OBVIOUS
  <2>2. Replicated(id, t, SendAppend(t, id, to, TRUE))
    BY <1>2, <1>5, <2>1, SendAppendReplicates
  <2> QED
    BY <1>1, <1>5, <1>7, <1>8, <2>2, HearsAndReplicates
<1> QED
  BY <1>6, <1>10, <1>11

\* Hearing twice, the first time of no acknowledgement.
LEMMA HearsAfter ==
    ASSUME NEW id, NEW s \in Outcome, NEW h \in Outcome, NEW m, NEW q,
           ProgressOnly(s.raw, h.raw), h.out = s.out, LeaderHears(id, h, m, q)
    PROVE  LeaderHears(id, s, m, q)
<1>1. PICK r, c, p : r = s.raw /\ c = h.raw /\ p = q.raw
  OBVIOUS
<1>2. ProgressOnly(r, c) /\ Hears(id, c, m, p) /\ q \in Outcome
  BY <1>1 DEF LeaderHears
<1>3. Hears(id, r, m, p)
  BY <1>2 DEF Hears, ProgressOnly
<1> QED
  BY <1>1, <1>2, <1>3 DEF LeaderHears

\* The stages of AppendAccepted, each a function of what the ones before it
\* found.
AcceptedCommit(s, id, m, pr, moved, known, committed) ==
    LET answered == IF committed # known.raw
                    THEN BroadcastAppend([known EXCEPT !.raw = committed], id)
                    ELSE IF CanBumpCommit(moved, known.raw.commit)
                    THEN SendAppend(known, id, m.from, TRUE)
                    ELSE known
    IN  IF ~(m.index > pr.match) /\ ~(pr.match = m.index /\ pr.mode = "probe") THEN s
        ELSE SendAppend(answered, id, m.from, FALSE)

AcceptedKnown(s, id, m, pr, moved, known) ==
    AcceptedCommit(s, id, m, pr, moved, known, MaybeCommit(known.raw, id))

AcceptedMoved(s, id, m, pr, moved) ==
    AcceptedKnown(s, id, m, pr, moved, [s EXCEPT !.raw.progress[m.from] = moved])

AcceptedUpdated(s, id, m, pr, updated) ==
    AcceptedMoved(s, id, m, pr,
                  IF \/ updated.mode = "probe"
                     \/ updated.mode = "snapshot" /\ updated.match + 1 >= s.raw.first
                  THEN BecomeReplicate(updated)
                  ELSE updated)

AcceptedFrom(s, id, m, pr) ==
    AcceptedUpdated(s, id, m, pr,
                    IF m.index > pr.match THEN [pr EXCEPT !.match = m.index, !.paused = FALSE,
                                                          !.next = Max({@, m.index + 1})]
                    ELSE pr)

\* An accepted append updates the match, then the mode, then the commit index.
LEMMA AcceptedInStages ==
    ASSUME NEW s, NEW id, NEW m
    PROVE  AppendAccepted(s, id, m) = AcceptedFrom(s, id, m, s.raw.progress[m.from])
  BY Zenon DEF AppendAccepted, AcceptedFrom, AcceptedUpdated, AcceptedMoved, AcceptedKnown,
               AcceptedCommit

\* A leader that hears an acceptance learns the match and may commit.
LEMMA AppendAcceptedHears ==
    ASSUME NEW s \in Outcome, NEW id \in Nodes, NEW m \in Message,
           m.type = "MsgAppResp", ~m.reject
    PROVE  LeaderHears(id, s, m, AppendAccepted(s, id, m))
<1>1. PICK r, to, pr : r = s.raw /\ to = m.from /\ pr = s.raw.progress[m.from]
  OBVIOUS
<1>2. r \in RawState /\ to \in Nodes /\ m.index \in Nat
  BY <1>1, OutcomeIs DEF Message
<1>3. pr \in Progress /\ pr.next \in Nat \ {0} /\ pr = r.progress[to]
  BY <1>1, <1>2 DEF RawState, Progress
<1>5. PICK index, no, next : index = m.index /\ no = FALSE /\ next = Max({pr.next, m.index + 1})
  OBVIOUS
<1>6. next \in Nat \ {0} /\ index \in Nat
  <2>1. pr.next \in Nat /\ m.index + 1 \in Nat
    BY <1>2, <1>3
  <2>2. next = IF pr.next <= m.index + 1 THEN m.index + 1 ELSE pr.next
    BY <1>5, <2>1, MaxOfTwo
  <2>3. index \in Nat
    BY <1>2, <1>5
  <2> QED
    BY <1>3, <2>1, <2>2, <2>3
<1>7. no \in BOOLEAN
  BY <1>5
<1>8. PICK matched : matched = ProgressMatchedAs(pr, index, no, next)
  OBVIOUS
<1>9. matched \in Progress /\ matched.match = index
  <2>1. ProgressMatchedAs(pr, index, no, next) =
          [match |-> index, next |-> next, mode |-> pr.mode, paused |-> no,
           sentCommit |-> pr.sentCommit, active |-> pr.active]
    BY <1>3, <1>6, <1>7, ProgressMatched
  <2> QED
    BY <1>3, <1>6, <1>7, <1>8, <2>1 DEF Progress
<1>10. PICK updated : updated = IF m.index > pr.match THEN matched ELSE pr
  OBVIOUS
<1>11. updated \in Progress /\ (updated.match = index \/ updated.match = pr.match)
  BY <1>3, <1>9, <1>10
<1>12. PICK moved : moved = IF \/ updated.mode = "probe"
                               \/ updated.mode = "snapshot" /\ updated.match + 1 >= r.first
                            THEN BecomeReplicate(updated) ELSE updated
  OBVIOUS
<1>13. moved \in Progress /\ moved.match = updated.match
  BY <1>11, <1>12, BecomeReplicateType
<1>14. PICK known : known = [raw |-> WithProgress(r, to, moved), out |-> s.out]
  OBVIOUS
<1>15. known \in Outcome /\ [s EXCEPT !.raw.progress[m.from] = moved] = known
  BY <1>1, <1>2, <1>13, <1>14, OutcomeProgress
<1>16. PICK k : k = known.raw
  OBVIOUS
<1>17. k \in RawState /\ k.progress = [r.progress EXCEPT ![to] = moved]
  BY <1>2, <1>13, <1>14, <1>16, ProgressUpdated
<1>18. Hears(id, r, m, k)
  <2>1. /\ k.term = r.term /\ k.vote = r.vote /\ k.role = r.role /\ k.lead = r.lead
        /\ k.commit = r.commit /\ k.log = r.log /\ k.first = r.first /\ k.snapshot = r.snapshot
        /\ k.applied = r.applied /\ k.restored = r.restored /\ k.votes = r.votes
    <3>1. k = [r EXCEPT !.progress = [r.progress EXCEPT ![to] = moved]]
      BY <1>14, <1>16 DEF WithProgress
    <3> QED
      BY <1>2, <3>1 DEF RawState
  <2>2. ASSUME NEW f \in Nodes
        PROVE  \/ k.progress[f].match = r.progress[f].match
               \/ f = m.from /\ k.progress[f].match = m.index
    <3>1. r.progress \in [Nodes -> Progress]
      BY <1>2 DEF RawState
    <3>2. k.progress[f] = IF f = to THEN moved ELSE r.progress[f]
      BY <1>17, <3>1
    <3> QED
      BY <1>1, <1>3, <1>5, <1>11, <1>13, <3>2
  <2> QED
    BY <1>17, <2>1, <2>2 DEF Hears
<1>19. PICK committed : committed = MaybeCommit(k, id)
  OBVIOUS
<1>20. committed \in RawState /\ Hears(id, r, m, committed)
  <2>1. CASE committed = k
    BY <1>17, <1>18, <2>1
  <2>2. CASE \E commit \in Nat : /\ committed = WithCommit(k, commit)
                                 /\ commit > k.commit /\ CommitsOwn(id, k, commit)
    <3>1. PICK commit \in Nat : /\ committed = WithCommit(k, commit)
                                /\ commit > k.commit /\ CommitsOwn(id, k, commit)
      BY <2>2
    <3>2. committed =
             [term |-> k.term, vote |-> k.vote, role |-> k.role, lead |-> k.lead,
              commit |-> commit, log |-> k.log, first |-> k.first, snapshot |-> k.snapshot,
              applied |-> k.applied, restored |-> k.restored, votes |-> k.votes,
              progress |-> k.progress]
      BY <1>17, <3>1, CommitReplaced
    <3>3. committed \in RawState
      BY <1>17, <3>2 DEF RawState
    <3>4. /\ committed.term = k.term /\ committed.vote = k.vote /\ committed.role = k.role
          /\ committed.lead = k.lead /\ committed.commit = commit /\ committed.log = k.log
          /\ committed.first = k.first /\ committed.snapshot = k.snapshot
          /\ committed.applied = k.applied /\ committed.restored = k.restored
          /\ committed.votes = k.votes /\ committed.progress = k.progress
      BY <3>2
    <3>5. CommitsOwn(id, committed, commit)
      BY <3>1, <3>4, CommitsOwnStill
    <3>6. k.commit = r.commit
      <4>1. k = [r EXCEPT !.progress = [r.progress EXCEPT ![to] = moved]]
        BY <1>14, <1>16 DEF WithProgress
      <4> QED
        BY <1>2, <4>1 DEF RawState
    <3>7. commit > r.commit
      BY <3>1, <3>6
    <3> QED
      BY <1>18, <3>3, <3>4, <3>5, <3>7 DEF Hears
  <2> QED
    BY <1>17, <1>19, <2>1, <2>2, MaybeCommitIs
<1>21. PICK t : t = [raw |-> committed, out |-> s.out]
  OBVIOUS
<1>22. t \in Outcome
  BY <1>20, <1>21, OutcomeIs DEF Outcome
<1>23. PICK answered : answered = IF committed # k THEN BroadcastAppend(t, id)
                                  ELSE IF CanBumpCommit(moved, k.commit)
                                  THEN SendAppend(known, id, to, TRUE) ELSE known
  OBVIOUS
<1>24. \/ committed # k /\ Replicated(id, t, answered)
       \/ committed = k /\ Replicated(id, known, answered)
  <2>1. TRUE \in BOOLEAN
    OBVIOUS
  <2>2. Replicated(id, t, BroadcastAppend(t, id))
    BY <1>22, BroadcastAppendReplicates
  <2>3. Replicated(id, known, SendAppend(known, id, to, TRUE))
    BY <1>2, <1>15, <2>1, SendAppendReplicates
  <2>4. Replicated(id, known, known)
    BY <1>15, ReplicatedNothing
  <2> QED
    BY <1>23, <2>2, <2>3, <2>4
<1>25. committed = k => t = known
  BY <1>14, <1>16, <1>21
<1>26. Replicated(id, t, answered)
  BY <1>24, <1>25
<1>27. Replicated(id, t, SendAppend(answered, id, to, FALSE))
  <2>1. FALSE \in BOOLEAN /\ answered \in Outcome
    BY <1>26 DEF Replicated
  <2>2. Replicated(id, answered, SendAppend(answered, id, to, FALSE))
    BY <1>2, <2>1, SendAppendReplicates
  <2> QED
    BY <1>26, <2>2, ReplicatedTwice
<1>28. AppendAccepted(s, id, m)
         = IF ~(m.index > pr.match) /\ ~(pr.match = m.index /\ pr.mode = "probe") THEN s
           ELSE SendAppend(answered, id, to, FALSE)
  <2>1. t = [known EXCEPT !.raw = committed]
    BY <1>14, <1>15, <1>21
  <2>2. matched = [pr EXCEPT !.match = m.index, !.paused = FALSE, !.next = Max({@, m.index + 1})]
    BY <1>5, <1>8, Zenon DEF ProgressMatchedAs
  <2>3. AppendAccepted(s, id, m) = AcceptedFrom(s, id, m, pr)
    BY <1>1, AcceptedInStages, Zenon
  <2>4. AcceptedFrom(s, id, m, pr) = AcceptedUpdated(s, id, m, pr, updated)
    BY <1>10, <2>2, Zenon DEF AcceptedFrom
  <2>5. AcceptedUpdated(s, id, m, pr, updated) = AcceptedMoved(s, id, m, pr, moved)
    BY <1>1, <1>12, Zenon DEF AcceptedUpdated
  <2>6. AcceptedMoved(s, id, m, pr, moved) = AcceptedKnown(s, id, m, pr, moved, known)
    BY <1>15, Zenon DEF AcceptedMoved
  <2>7. AcceptedKnown(s, id, m, pr, moved, known) = AcceptedCommit(s, id, m, pr, moved, known, committed)
    BY <1>16, <1>19, Zenon DEF AcceptedKnown
  <2>8. AcceptedCommit(s, id, m, pr, moved, known, committed)
          = IF ~(m.index > pr.match) /\ ~(pr.match = m.index /\ pr.mode = "probe") THEN s
            ELSE SendAppend(answered, id, to, FALSE)
    BY <1>1, <1>16, <1>23, <2>1, Zenon DEF AcceptedCommit
  <2> QED
    BY <2>3, <2>4, <2>5, <2>6, <2>7, <2>8, Zenon
<1>29. LeaderHears(id, s, m, s)
  BY <1>1, <1>2, ReplicatedNothing, HearsAndReplicates, HearsProgress DEF ProgressOnly
<1>30. LeaderHears(id, s, m, SendAppend(answered, id, to, FALSE))
  BY <1>1, <1>20, <1>21, <1>22, <1>27, HearsAndReplicates
<1> QED
  BY <1>28, <1>29, <1>30

\* A leader takes an answer to an append as a rejection or as an acceptance.
LEMMA HandleAppendResponseHears ==
    ASSUME NEW s \in Outcome, NEW id \in Nodes, NEW m \in Message, m.type = "MsgAppResp"
    PROVE  LeaderHears(id, s, m, HandleAppendResponse(s, id, m))
<1>1. PICK r, to, pr : r = s.raw /\ to = m.from /\ pr = s.raw.progress[m.from]
  OBVIOUS
<1>2. r \in RawState /\ to \in Nodes
  BY <1>1, OutcomeIs DEF Message
<1>3. pr \in Progress /\ pr = r.progress[to]
  BY <1>1, <1>2 DEF RawState
<1>4. PICK pn : pn = [pr EXCEPT !.active = TRUE]
  OBVIOUS
<1>5. pn \in Progress /\ pn.match = pr.match
  BY <1>3, <1>4 DEF Progress
<1>6. PICK heard : heard = [raw |-> WithProgress(r, to, pn), out |-> s.out]
  OBVIOUS
<1>7. heard \in Outcome /\ [s EXCEPT !.raw.progress[to] = pn] = heard
  BY <1>1, <1>2, <1>5, <1>6, OutcomeProgress
<1>8. [s EXCEPT !.raw.progress[m.from].active = TRUE] = heard
  BY <1>1, <1>4, <1>7
<1>9. ProgressOnly(r, heard.raw) /\ heard.out = s.out
  <2>1. ProgressOnly(r, WithProgress(r, to, pn))
    BY <1>2, <1>3, <1>5, ProgressUpdated, Zenon
  <2> QED
    BY <1>6, <2>1
<1>10. LeaderHears(id, heard, m, HandleAppendResponse(s, id, m))
  <2>1. HandleAppendResponse(s, id, m) = IF m.reject THEN AppendRejected(heard, id, m)
                                         ELSE AppendAccepted(heard, id, m)
    BY <1>8, Zenon DEF HandleAppendResponse
  <2> QED
    BY <1>7, <2>1, AppendRejectedHears, AppendAcceptedHears
<1> QED
  BY <1>1, <1>7, <1>9, <1>10, HearsAfter

\* An answer to a heartbeat teaches a leader no match.
LEMMA HandleHeartbeatResponseHears ==
    ASSUME NEW s \in Outcome, NEW id \in Nodes, NEW m \in Message
    PROVE  LeaderHears(id, s, m, HandleHeartbeatResponse(s, id, m))
<1>1. PICK r, to, pr : r = s.raw /\ to = m.from /\ pr = s.raw.progress[m.from]
  OBVIOUS
<1>2. r \in RawState /\ to \in Nodes
  BY <1>1, OutcomeIs DEF Message
<1>3. pr \in Progress /\ pr = r.progress[to]
  BY <1>1, <1>2 DEF RawState
<1>4. PICK yes, no : yes = TRUE /\ no = FALSE
  OBVIOUS
<1>5. PICK pn : pn = ProgressHeardAs(pr, yes, no)
  OBVIOUS
<1>6. pn \in Progress /\ pn.match = pr.match
  <2>1. yes \in BOOLEAN /\ no \in BOOLEAN
    BY <1>4
  <2>2. ProgressHeardAs(pr, yes, no) =
          [match |-> pr.match, next |-> pr.next, mode |-> pr.mode, paused |-> no,
           sentCommit |-> pr.sentCommit, active |-> yes]
    BY <1>3, <2>1, ProgressHeard
  <2> QED
    BY <1>3, <1>5, <2>1, <2>2 DEF Progress
<1>7. PICK heard : heard = [raw |-> WithProgress(r, to, pn), out |-> s.out]
  OBVIOUS
<1>8. heard \in Outcome /\ [s EXCEPT !.raw.progress[to] = pn] = heard
  BY <1>1, <1>2, <1>6, <1>7, OutcomeProgress
<1>9. [s EXCEPT !.raw.progress[m.from] = [@ EXCEPT !.active = TRUE, !.paused = FALSE]] = heard
  BY <1>1, <1>4, <1>5, <1>8, Zenon DEF ProgressHeardAs
<1>10. ProgressOnly(r, heard.raw) /\ heard.out = s.out
  <2>1. ProgressOnly(r, WithProgress(r, to, pn))
    BY <1>2, <1>3, <1>6, ProgressUpdated, Zenon
  <2> QED
    BY <1>7, <2>1
<1>11. \/ HandleHeartbeatResponse(s, id, m) = heard
       \/ HandleHeartbeatResponse(s, id, m) = SendAppend(heard, id, to, TRUE)
  BY <1>1, <1>9, Zenon DEF HandleHeartbeatResponse
<1>12. Replicated(id, heard, HandleHeartbeatResponse(s, id, m))
  <2>1. TRUE \in BOOLEAN
    OBVIOUS
  <2> QED
    BY <1>2, <1>8, <1>11, <2>1, SendAppendReplicates, ReplicatedNothing
<1>13. Hears(id, r, m, heard.raw)
  BY <1>2, <1>8, <1>10, OutcomeIs, HearsProgress
<1> QED
  BY <1>1, <1>8, <1>10, <1>12, <1>13, HearsAndReplicates

----------------------------------------------------------------------------
(* What one operation does to a node, whatever it is: id is the node, r its*)
(* state before, m the message it handles, p its state after and q the     *)
(* outcome.  A timer is a message of type MsgHup.                          *)

Hup == [type |-> "MsgHup"]

Granting(p) == {f \in DOMAIN p.votes : p.votes[f]}

\* A candidate has not won yet.
VotesShort(p) == p.role = "candidate" => ~IsQuorum(Granting(p))

\* Terms never go back, and a vote stands for its term.
VoteKept(r, p) == r.term <= p.term /\ (p.term = r.term /\ r.vote # None => p.vote = r.vote)

TermComes(r, m, p) ==
    \/ p.term = r.term
    \/ m.type \notin {"MsgHup", "MsgProp"} /\ p.term = m.term
    \/ m.type = "MsgHup" /\ r.role # "leader" /\ p.term = r.term + 1

\* The votes of a candidate once it has counted an answer.
Counted(r, m) ==
    [f \in DOMAIN r.votes \cup {m.from} |-> IF f \in DOMAIN r.votes THEN r.votes[f] ELSE ~m.reject]

Elected(r, m, p) ==
    /\ r.role = "candidate" /\ p.term = r.term /\ m.type = "MsgVoteResp" /\ m.term = r.term
    /\ ~m.reject /\ IsQuorum({f \in DOMAIN Counted(r, m) : Counted(r, m)[f]})

VotesCome(r, m, p) ==
    \/ p.votes = r.votes /\ ~(m.type = "MsgVoteResp" /\ m.term = r.term)
    \/ m.type = "MsgVoteResp" /\ m.term = r.term /\ p.votes = Counted(r, m)

Campaigns(id, r, m, p) ==
    m.type = "MsgHup" /\ p.term = r.term + 1 /\ p.votes = [f \in {id} |-> TRUE] /\ p.vote = id

RoleComes(id, r, m, p) ==
    /\ p.role = "leader" => (r.role = "leader" /\ p.term = r.term) \/ Elected(r, m, p)
    /\ p.role = "candidate" => \/ r.role = "candidate" /\ p.term = r.term /\ VotesCome(r, m, p)
                               \/ Campaigns(id, r, m, p)
    /\ r.role = "leader" /\ p.term = r.term => p.role = "leader"

\* An append that finds its previous entry, and one that brings nothing new.
Accepts(r, m) == /\ m.type = "MsgApp" /\ m.index \in r.commit..Len(r.log)
                 /\ TermAt(r, m.index) = m.logTerm
Agrees(r, m) == /\ m.index + Len(m.entries) <= Len(r.log)
                /\ \A k \in 1..Len(m.entries) : TermAt(r, m.index + k) = m.entries[k].term
Overwritten(r, m) == SubSeq(r.log, 1, m.index) \o m.entries

\* What is left of the log once the append is handled.
Taken(r, m, p) == \/ p.log = r.log /\ Agrees(r, m)
                  \/ p.log = Overwritten(r, m)

\* A snapshot whose last entry is in the log.
Known(r, m) == /\ m.type = "MsgSnap" /\ Len(m.snapshot) \in 1..Len(r.log)
               /\ TermAt(r, Len(m.snapshot)) = m.snapshot[Len(m.snapshot)].term

LogComes(r, m, p) ==
    \/ p.log = r.log
    \/ /\ p.role = "leader" /\ (r.role = "leader" => m.type = "MsgProp")
       /\ p.commit = r.commit
       /\ \E value \in Nat \cup {NoOp} : p.log = Append(r.log, [term |-> p.term, value |-> value])
    \/ /\ p.role = "follower" /\ m.term = p.term
       /\ Accepts(r, m) /\ ~Agrees(r, m) /\ p.log = Overwritten(r, m)

Restores(r, m, p) ==
    /\ m.type = "MsgSnap" /\ m.term = p.term /\ p.role = "follower" /\ Len(m.snapshot) > r.commit
    /\ ~Known(r, m)
    /\ p.log = m.snapshot /\ p.snapshot = m.snapshot /\ p.commit = Len(m.snapshot)

StorageComes(r, m, p) ==
    /\ p.applied = r.applied
    /\ IF p.restored THEN Restores(r, m, p)
       ELSE p.snapshot = r.snapshot /\ p.first = r.first /\ LogComes(r, m, p)

CommitComes(id, r, m, p) ==
    \/ p.commit = r.commit
    \/ /\ p.commit > r.commit
       /\ \/ r.role = "leader" /\ p.role = "leader" /\ p.log = r.log /\ CommitsOwn(id, p, p.commit)
          \/ /\ p.role = "follower" /\ m.term = p.term
             /\ \/ Accepts(r, m) /\ p.commit = MinOf(m.commit, m.index + Len(m.entries))
                   /\ Taken(r, m, p)
                \/ m.type = "MsgHeartbeat" /\ p.commit = m.commit /\ p.log = r.log
                \/ m.type = "MsgSnap" /\ p.commit = Len(m.snapshot)
                   /\ (p.restored \/ (Known(r, m) /\ p.log = r.log))

MatchComes(r, m, p) ==
    p.role = "leader" =>
        \A f \in Nodes :
            \/ p.progress[f].match = 0
            \/ r.role = "leader" /\ p.progress[f].match = r.progress[f].match
            \/ /\ r.role = "leader" /\ m.type = "MsgAppResp" /\ ~m.reject /\ f = m.from
               /\ m.term = p.term /\ p.progress[f].match = m.index

\* What an acknowledgement of index k stands for.
Acknowledges(r, m, p, k) ==
    /\ p.role = "follower" /\ m.type \in FromLeader /\ m.term = p.term
    /\ \/ k = p.commit
       \/ /\ Accepts(r, m) /\ k = m.index + Len(m.entries)
          /\ Taken(r, m, p)

Sends(id, r, m, q) ==
    LET p == q.raw
    IN  \A x \in q.out :
            \/ x.type = "MsgProp" /\ m.type = "MsgProp" /\ x.from = m.from /\ x.entries = m.entries
            \/ /\ x.from = id /\ x.term = p.term
               /\ \/ x.type = "MsgHeartbeatResp"
                  \/ /\ x.type = "MsgVote" /\ p.role = "candidate" /\ x.to # id
                     /\ x.index = LastIndex(p) /\ x.logTerm = LastTerm(p)
                  \/ /\ x.type = "MsgVoteResp" /\ m.type = "MsgVote" /\ x.to = m.from
                     /\ m.term = p.term
                     /\ (~x.reject => p.vote = x.to /\ p.log = r.log /\ UpToDate(p, m))
                  \/ p.role = "leader" /\ Replicates(id, p, x)
                  \/ /\ p.role = "leader" /\ r.role = "leader" /\ x.type = "MsgHeartbeat"
                     /\ x.commit = MinOf(p.progress[x.to].match, p.commit)
                  \/ /\ x.type = "MsgAppResp"
                     /\ (~x.reject => x.to = m.from /\ Acknowledges(r, m, p, x.index))

Stepped(id, r, m, q) ==
    /\ q \in Outcome
    /\ VoteKept(r, q.raw) /\ TermComes(r, m, q.raw) /\ RoleComes(id, r, m, q.raw)
    /\ VotesShort(q.raw) /\ StorageComes(r, m, q.raw) /\ CommitComes(id, r, m, q.raw)
    /\ MatchComes(r, m, q.raw) /\ Sends(id, r, m, q)

----------------------------------------------------------------------------
(* The operations of a leader.                                             *)

\* A leader that hears an answer of its term does what a step may do.
LEMMA LeaderHearsStepped ==
    ASSUME NEW id \in Nodes, NEW s \in Outcome, NEW m \in Message, NEW q,
           s.out = {}, s.raw.role = "leader", ~s.raw.restored, m.term = s.raw.term,
           m.type \in {"MsgAppResp", "MsgHeartbeatResp"},
           LeaderHears(id, s, m, q)
    PROVE  Stepped(id, s.raw, m, q)
<1>1. PICK r, p : r = s.raw /\ p = q.raw
  OBVIOUS
<1>2. q \in Outcome /\ Hears(id, r, m, p) /\ \A x \in q.out : Replicates(id, p, x)
  BY <1>1 DEF LeaderHears
<1>3. r \in RawState /\ p \in RawState
  BY <1>1, <1>2, OutcomeIs
<1>4. /\ p.term = r.term /\ p.vote = r.vote /\ p.role = r.role
      /\ p.log = r.log /\ p.first = r.first /\ p.snapshot = r.snapshot
      /\ p.applied = r.applied /\ p.restored = r.restored
      /\ r.role = "leader" /\ ~r.restored /\ m.term = r.term
  BY <1>1, <1>2 DEF Hears
<1>5. VoteKept(r, p) /\ TermComes(r, m, p)
  <2>1. r.term \in Nat
    BY <1>3 DEF RawState
  <2> QED
    BY <1>4, <2>1 DEF VoteKept, TermComes
<1>6. RoleComes(id, r, m, p) /\ VotesShort(p)
  BY <1>4 DEF RoleComes, VotesShort
<1>7. StorageComes(r, m, p)
  BY <1>4 DEF StorageComes, LogComes
<1>8. CommitComes(id, r, m, p)
  BY <1>2, <1>4 DEF CommitComes, Hears
<1>9. MatchComes(r, m, p)
  BY <1>2, <1>4 DEF MatchComes, Hears
<1>10. Sends(id, r, m, q)
  BY <1>1, <1>2, <1>4 DEF Sends, Replicates
<1> QED
  BY <1>1, <1>2, <1>5, <1>6, <1>7, <1>8, <1>9, <1>10 DEF Stepped

\* A leader's heartbeats are what a step may do.
LEMMA BroadcastHeartbeatStepped ==
    ASSUME NEW id \in Nodes, NEW r \in RawState, r.role = "leader", ~r.restored
    PROVE  Stepped(id, r, Hup, BroadcastHeartbeat([raw |-> r, out |-> {}], id))
<1>1. PICK s : s = [raw |-> r, out |-> {}]
  OBVIOUS
<1>2. s.raw = r /\ s.out = {}
  BY <1>1
<1>3. PICK told : told = [p \in Nodes |-> MinOf(r.progress[p].match, r.commit)]
  OBVIOUS
<1>4. r.commit \in Nat /\ r.term \in Nat /\ r.progress \in [Nodes -> Progress]
  BY DEF RawState
<1>5. told \in [Nodes -> Nat]
  BY <1>3, <1>4 DEF MinOf, Progress
<1>6. PICK progress : progress = [p \in Nodes |-> IF p = id THEN r.progress[p]
                                      ELSE [r.progress[p] EXCEPT !.sentCommit = told[p]]]
  OBVIOUS
<1>7. /\ progress \in [Nodes -> Progress]
      /\ \A p \in Nodes : progress[p].match = r.progress[p].match
  <2>1. ASSUME NEW p \in Nodes
        PROVE  /\ [r.progress[p] EXCEPT !.sentCommit = told[p]] \in Progress
               /\ [r.progress[p] EXCEPT !.sentCommit = told[p]].match = r.progress[p].match
    <3>1. PICK x, y : x = r.progress[p] /\ y = told[p]
      OBVIOUS
    <3>2. x \in Progress /\ y \in Nat
      BY <1>4, <1>5, <3>1
    <3>3. [x EXCEPT !.sentCommit = y] \in Progress /\ [x EXCEPT !.sentCommit = y].match = x.match
      BY <3>2 DEF Progress
    <3> QED
      BY <3>1, <3>3
  <2> QED
    BY <1>4, <1>6, <2>1
<1>8. PICK p : p = WithAllProgress(r, progress)
  OBVIOUS
<1>9. p \in RawState /\ ProgressOnly(r, p) /\ p.progress = progress
  BY <1>7, <1>8, AllProgressUpdated DEF WithAllProgress, RawState
<1>10. PICK out : out = {[Msg("MsgHeartbeat", id, f, r.term) EXCEPT !.commit = told[f]] : f \in Nodes \ {id}}
  OBVIOUS
<1>11. ASSUME NEW x \in out
       PROVE  /\ x \in Message /\ x.from = id /\ x.term = r.term /\ x.type = "MsgHeartbeat"
              /\ x.commit = MinOf(r.progress[x.to].match, r.commit)
  <2>1. PICK f \in Nodes \ {id} : x = [Msg("MsgHeartbeat", id, f, r.term) EXCEPT !.commit = told[f]]
    BY <1>10
  <2>2. PICK b, type : type = "MsgHeartbeat" /\ b = Msg(type, id, f, r.term)
    OBVIOUS
  <2>3. b \in Message
    <3>1. type \in MessageTypes
      BY <2>2 DEF MessageTypes
    <3> QED
      BY <1>4, <2>2, <3>1, MsgType, Zenon
  <2>4. b.from = id /\ b.term = r.term /\ b.type = "MsgHeartbeat" /\ b.to = f
    BY <2>2 DEF Msg
  <2>5. PICK c : c = told[f]
    OBVIOUS
  <2>6. c \in Nat /\ x = [b EXCEPT !.commit = c]
    BY <1>5, <2>1, <2>2, <2>5
  <2>7. /\ x \in Message /\ x.from = id /\ x.term = r.term /\ x.type = "MsgHeartbeat"
        /\ x.to = f /\ x.commit = c
    BY <2>3, <2>4, <2>6 DEF Message
  <2> QED
    BY <1>3, <2>5, <2>7
<1>12. PICK q : q = BroadcastHeartbeat(s, id)
  OBVIOUS
<1>13. q = [raw |-> p, out |-> out]
  <2>1. q = [raw |-> [r EXCEPT !.progress = [f \in Nodes |-> IF f = id THEN @[f]
                          ELSE [@[f] EXCEPT !.sentCommit = MinOf(r.progress[f].match, r.commit)]]],
             out |-> s.out \cup
                       {[Msg("MsgHeartbeat", id, f, r.term) EXCEPT
                            !.commit = MinOf(r.progress[f].match, r.commit)] : f \in Nodes \ {id}}]
    BY <1>2, <1>12, Zenon DEF BroadcastHeartbeat
  <2>2. [f \in Nodes |-> IF f = id THEN r.progress[f]
                          ELSE [r.progress[f] EXCEPT !.sentCommit = MinOf(r.progress[f].match, r.commit)]]
          = progress
    BY <1>3, <1>6
  <2>3. {[Msg("MsgHeartbeat", id, f, r.term) EXCEPT
              !.commit = MinOf(r.progress[f].match, r.commit)] : f \in Nodes \ {id}} = out
    BY <1>3, <1>10
  <2> QED
    BY <1>2, <1>8, <2>1, <2>2, <2>3 DEF WithAllProgress
<1>14. q \in Outcome /\ q.raw = p /\ q.out = out
  BY <1>9, <1>11, <1>13 DEF Outcome
<1>15. /\ p.term = r.term /\ p.vote = r.vote /\ p.role = r.role /\ p.commit = r.commit
       /\ p.log = r.log /\ p.first = r.first /\ p.snapshot = r.snapshot
       /\ p.applied = r.applied /\ p.restored = r.restored
       /\ \A f \in Nodes : p.progress[f].match = r.progress[f].match
  BY <1>9 DEF ProgressOnly
<1>16. VoteKept(r, p) /\ TermComes(r, Hup, p)
  BY <1>4, <1>15 DEF VoteKept, TermComes
<1>17. RoleComes(id, r, Hup, p) /\ VotesShort(p)
  BY <1>15 DEF RoleComes, VotesShort
<1>18. StorageComes(r, Hup, p) /\ CommitComes(id, r, Hup, p) /\ MatchComes(r, Hup, p)
  BY <1>15 DEF StorageComes, LogComes, CommitComes, MatchComes
<1>19. Sends(id, r, Hup, q)
  <2>1. ASSUME NEW x \in out
        PROVE  x.commit = MinOf(p.progress[x.to].match, p.commit)
    <3>1. x.to \in Nodes
      BY <1>11 DEF Message
    <3> QED
      BY <1>11, <1>15, <3>1
  <2> QED
    BY <1>11, <1>14, <1>15, <2>1 DEF Sends
<1> QED
  BY <1>1, <1>12, <1>14, <1>16, <1>17, <1>18, <1>19 DEF Stepped

\* What a node that ignores a message returns.
LEMMA IgnoredStepped ==
    ASSUME NEW id \in Nodes, NEW r \in RawState, NEW m, VotesShort(r), ~r.restored,
           ~(r.role = "candidate" /\ m.type = "MsgVoteResp" /\ m.term = r.term)
    PROVE  Stepped(id, r, m, [raw |-> r, out |-> {}])
<1>1. PICK q : q = [raw |-> r, out |-> {}]
  OBVIOUS
<1>2. q \in Outcome /\ q.raw = r /\ q.out = {}
  BY <1>1 DEF Outcome
<1>3. VoteKept(r, r) /\ TermComes(r, m, r)
  <2>1. r.term \in Nat
    BY DEF RawState
  <2> QED
    BY <2>1 DEF VoteKept, TermComes
<1>4. RoleComes(id, r, m, r)
  BY DEF RoleComes, VotesCome
<1>5. StorageComes(r, m, r) /\ CommitComes(id, r, m, r) /\ MatchComes(r, m, r)
  BY DEF StorageComes, LogComes, CommitComes, MatchComes
<1>6. Sends(id, r, m, q)
  BY <1>2 DEF Sends
<1> QED
  BY <1>1, <1>2, <1>3, <1>4, <1>5, <1>6 DEF Stepped

\* A leader's proposal is what a step may do.
LEMMA ProposeStepped ==
    ASSUME NEW id \in Nodes, NEW r \in RawState, NEW m \in Message, VotesShort(r), ~r.restored,
           m.type = "MsgProp", m.entries # <<>>, ~ProposalDropped(r)
    PROVE  Stepped(id, r, m, Propose([raw |-> r, out |-> {}], id, m))
<1>1. PICK s, q : s = [raw |-> r, out |-> {}] /\ q = Propose(s, id, m)
  OBVIOUS
<1>2. s \in Outcome /\ s.raw = r /\ s.out = {}
  BY <1>1 DEF Outcome
<1>3. r.term \in Nat /\ r.role \in Roles /\ r.lead \in Nodes \cup {None}
  BY DEF RawState
<1>4. CASE r.role = "leader"
  <2>1. PICK value : value = m.entries[1].value
    OBVIOUS
  <2>2. value \in Nat \cup {NoOp}
    <3>1. m.entries \in Seq(Entry)
      BY DEF Message
    <3>2. 1 \in 1..Len(m.entries)
      BY <3>1, EmptySeq
    <3>3. m.entries[1] \in Entry
      BY <3>1, <3>2, ElementOfSeq
    <3> QED
      BY <2>1, <3>3 DEF Entry
  <2>3. q = AppendEntry(s, id, value)
    BY <1>1, <1>2, <1>4, <2>1, Zenon DEF Propose
  <2>4. PICK e : e = [term |-> r.term, value |-> value]
    OBVIOUS
  <2>5. Appended(id, s, e, q)
    BY <1>2, <2>2, <2>3, <2>4, AppendEntryAppends
  <2>6. PICK p : p = q.raw
    OBVIOUS
  <2>7. /\ q \in Outcome
        /\ p.term = r.term /\ p.vote = r.vote /\ p.role = r.role /\ p.commit = r.commit
        /\ p.log = Append(r.log, e) /\ p.first = r.first /\ p.snapshot = r.snapshot
        /\ p.applied = r.applied /\ p.restored = r.restored
        /\ \A f \in Nodes : p.progress[f].match = r.progress[f].match
        /\ \A x \in q.out : Replicates(id, p, x)
    BY <1>2, <2>5, <2>6 DEF Appended
  <2>8. VoteKept(r, p) /\ TermComes(r, m, p)
    BY <1>3, <2>7 DEF VoteKept, TermComes
  <2>9. RoleComes(id, r, m, p) /\ VotesShort(p)
    BY <1>4, <2>7 DEF RoleComes, VotesShort
  <2>10. StorageComes(r, m, p)
    <3>1. p.log = Append(r.log, [term |-> p.term, value |-> value])
      BY <2>4, <2>7
    <3> QED
      BY <1>4, <2>2, <2>7, <3>1 DEF StorageComes, LogComes
  <2>11. CommitComes(id, r, m, p) /\ MatchComes(r, m, p)
    BY <1>4, <2>7 DEF CommitComes, MatchComes
  <2>12. Sends(id, r, m, q)
    BY <1>4, <2>6, <2>7 DEF Sends, Replicates
  <2> QED
    BY <1>1, <2>6, <2>7, <2>8, <2>9, <2>10, <2>11, <2>12 DEF Stepped
<1>5. CASE r.role # "leader"
  <2>1. r.role = "follower" /\ r.lead \in Nodes
    BY <1>3, <1>5 DEF ProposalDropped, Roles
  <2>2. PICK lead, x : lead = r.lead /\ x = [m EXCEPT !.to = lead]
    OBVIOUS
  <2>3. x \in Message /\ x.type = m.type /\ x.from = m.from /\ x.entries = m.entries
    BY <2>1, <2>2 DEF Message
  <2>4. q = [raw |-> r, out |-> {x}]
    <3>1. q = Send(s, x)
      BY <1>1, <1>2, <1>5, <2>2, Zenon DEF Propose
    <3> QED
      BY <1>1, <3>1 DEF Send
  <2>5. q \in Outcome /\ q.raw = r /\ q.out = {x}
    BY <2>3, <2>4 DEF Outcome
  <2>6. VoteKept(r, r) /\ TermComes(r, m, r)
    BY <1>3 DEF VoteKept, TermComes
  <2>7. RoleComes(id, r, m, r)
    BY <2>1 DEF RoleComes
  <2>8. StorageComes(r, m, r) /\ CommitComes(id, r, m, r) /\ MatchComes(r, m, r)
    BY DEF StorageComes, LogComes, CommitComes, MatchComes
  <2>9. Sends(id, r, m, q)
    BY <2>3, <2>5 DEF Sends
  <2> QED
    BY <1>1, <2>5, <2>6, <2>7, <2>8, <2>9 DEF Stepped
<1> QED
  BY <1>4, <1>5

----------------------------------------------------------------------------
(* Elections.                                                              *)

\* A RawNode that becomes a follower, as a record, field by field.
LEMMA BecomeFollowerIs ==
    ASSUME NEW r \in RawState, NEW term \in Nat, NEW lead \in Nodes \cup {None}
    PROVE  BecomeFollower(r, term, lead) =
             [term |-> term, vote |-> IF term = r.term THEN r.vote ELSE None, role |-> "follower",
              lead |-> lead, commit |-> r.commit, log |-> r.log, first |-> r.first,
              snapshot |-> r.snapshot, applied |-> r.applied, restored |-> r.restored,
              votes |-> [p \in {} |-> TRUE], progress |-> [p \in Nodes |-> FreshProgress]]
<1>1. PICK c, role : c = Reset(r, term) /\ role = "follower"
  OBVIOUS
<1>2. c \in RawState
  BY <1>1, ResetType
<1>3. role \in Roles
  BY <1>1 DEF Roles
<1>4. BecomeFollower(r, term, lead) = RawRoleAs(c, role, lead)
  BY <1>1, Zenon DEF BecomeFollower, RawRoleAs
<1>5. RawRoleAs(c, role, lead) =
        [term |-> c.term, vote |-> c.vote, role |-> role,
              lead |-> lead, commit |-> c.commit, log |-> c.log, first |-> c.first,
              snapshot |-> c.snapshot, applied |-> c.applied, restored |-> c.restored,
              votes |-> c.votes, progress |-> c.progress]
  BY <1>2, <1>3, RawRole
<1>6. c = [term |-> term, vote |-> IF term = r.term THEN r.vote ELSE None, role |-> r.role,
              lead |-> None, commit |-> r.commit, log |-> r.log, first |-> r.first,
              snapshot |-> r.snapshot, applied |-> r.applied, restored |-> r.restored,
              votes |-> [p \in {} |-> TRUE], progress |-> [p \in Nodes |-> FreshProgress]]
  BY <1>1, ResetIs, Zenon
<1> QED
  BY <1>1, <1>4, <1>5, <1>6

\* Becoming a follower keeps the type.
LEMMA BecomeFollowerType ==
    ASSUME NEW r \in RawState, NEW term \in Nat, NEW lead \in Nodes \cup {None}
    PROVE  BecomeFollower(r, term, lead) \in RawState
<1>1. [p \in {} |-> TRUE] \in Answers
  BY DEF Answers
<1>2. FreshProgress \in Progress
  BY DEF FreshProgress, Progress, Modes
<1>3. [p \in Nodes |-> FreshProgress] \in [Nodes -> Progress]
  BY <1>2
<1>4. "follower" \in Roles
  BY DEF Roles
<1> QED
  BY <1>1, <1>3, <1>4, BecomeFollowerIs DEF RawState

\* The answers of voters to a candidate.
WithVotes(r, votes) == [r EXCEPT !.votes = votes]
Polled(r, voters, granted) ==
    [p \in DOMAIN r.votes \cup voters |-> IF p \in DOMAIN r.votes THEN r.votes[p] ELSE granted]
Yes(votes) == {p \in DOMAIN votes : votes[p]}

\* A RawNode with other votes, as a record, field by field.
LEMMA VotesReplaced ==
    ASSUME NEW r \in RawState, NEW votes \in Answers
    PROVE  WithVotes(r, votes) =
             [term |-> r.term, vote |-> r.vote, role |-> r.role, lead |-> r.lead,
              commit |-> r.commit, log |-> r.log, first |-> r.first, snapshot |-> r.snapshot,
              applied |-> r.applied, restored |-> r.restored, votes |-> votes,
              progress |-> r.progress]
<1>1. PICK q : q = WithVotes(r, votes)
  OBVIOUS
<1>2. /\ q \in RawState /\ q.log = r.log /\ q.term = r.term /\ q.vote = r.vote
      /\ q.role = r.role /\ q.lead = r.lead /\ q.commit = r.commit /\ q.first = r.first
      /\ q.snapshot = r.snapshot /\ q.applied = r.applied /\ q.restored = r.restored
      /\ q.votes = votes /\ q.progress = r.progress
  BY <1>1 DEF WithVotes, RawState
<1> QED
  BY <1>1, <1>2 DEF RawState

PolledTo(id, s, votes, q) ==
    /\ q \in Outcome
    /\ LET r == s.raw
           p == q.raw
       IN  /\ p.term = r.term /\ p.vote = r.vote /\ p.commit = r.commit /\ p.first = r.first
           /\ p.snapshot = r.snapshot /\ p.applied = r.applied /\ p.restored = r.restored
           /\ \/ /\ IsQuorum(Yes(votes)) /\ p.role = "leader"
                 /\ p.log = Append(r.log, [term |-> r.term, value |-> NoOp])
                 /\ \A f \in Nodes : p.progress[f].match = 0
                 /\ \A m \in q.out : m \in s.out \/ Replicates(id, p, m)
              \/ /\ ~IsQuorum(Yes(votes)) /\ ~IsQuorum(Yes(votes) \cup (Nodes \ DOMAIN votes))
                 /\ p.role = "follower" /\ p.log = r.log /\ q.out = s.out
              \/ /\ ~IsQuorum(Yes(votes)) /\ IsQuorum(Yes(votes) \cup (Nodes \ DOMAIN votes))
                 /\ p.role = r.role /\ p.votes = votes /\ p.log = r.log /\ q.out = s.out

\* What Poll returns once the answers are counted.
PollFrom(s, id, r) ==
    LET granting == {p \in DOMAIN r.votes : r.votes[p]}
    IN  IF IsQuorum(granting) THEN BecomeLeader([s EXCEPT !.raw = r], id)
        ELSE IF ~IsQuorum(granting \cup (Nodes \ DOMAIN r.votes))
        THEN [s EXCEPT !.raw = BecomeFollower(r, r.term, None)]
        ELSE [s EXCEPT !.raw = r]

\* A poll counts the answers, and makes a leader only of a candidate with a quorum.
LEMMA PollPolls ==
    ASSUME NEW s \in Outcome, NEW id \in Nodes, NEW voters \in SUBSET Nodes,
           NEW granted \in BOOLEAN
    PROVE  PolledTo(id, s, Polled(s.raw, voters, granted), Poll(s, id, voters, granted))
<1>1. PICK r, votes : r = s.raw /\ votes = Polled(s.raw, voters, granted)
  OBVIOUS
<1>2. r \in RawState
  BY <1>1, OutcomeIs
<1>3. votes \in Answers
  <2>1. r.votes \in Answers
    BY <1>2 DEF RawState
  <2>2. PICK S \in SUBSET Nodes : r.votes \in [S -> BOOLEAN]
    BY <2>1 DEF Answers
  <2>3. votes \in [S \cup voters -> BOOLEAN]
    BY <1>1, <2>2 DEF Polled
  <2> QED
    BY <2>2, <2>3 DEF Answers
<1>4. PICK c : c = WithVotes(r, votes)
  OBVIOUS
<1>5. c = [term |-> r.term, vote |-> r.vote, role |-> r.role, lead |-> r.lead,
           commit |-> r.commit, log |-> r.log, first |-> r.first, snapshot |-> r.snapshot,
           applied |-> r.applied, restored |-> r.restored, votes |-> votes,
           progress |-> r.progress]
  BY <1>2, <1>3, <1>4, VotesReplaced
<1>6. c \in RawState
  BY <1>2, <1>3, <1>5 DEF RawState
<1>7. /\ c.term = r.term /\ c.vote = r.vote /\ c.role = r.role /\ c.commit = r.commit
      /\ c.log = r.log /\ c.first = r.first /\ c.snapshot = r.snapshot
      /\ c.applied = r.applied /\ c.restored = r.restored /\ c.votes = votes
  BY <1>5
<1>8. PICK t : t = [raw |-> c, out |-> s.out]
  OBVIOUS
<1>9. t \in Outcome /\ t.raw = c /\ t.out = s.out /\ [s EXCEPT !.raw = c] = t
  BY <1>6, <1>8, OutcomeIs DEF Outcome
<1>10. c.term \in Nat
  BY <1>6 DEF RawState
<1>11. PICK follower : follower = BecomeFollower(c, c.term, None)
  OBVIOUS
<1>12. /\ follower.term = c.term /\ follower.vote = c.vote /\ follower.role = "follower"
       /\ follower.commit = c.commit /\ follower.log = c.log /\ follower.first = c.first
       /\ follower.snapshot = c.snapshot /\ follower.applied = c.applied
       /\ follower.restored = c.restored
  BY <1>6, <1>10, <1>11, BecomeFollowerIs
<1>13. follower \in RawState
  BY <1>6, <1>10, <1>11, BecomeFollowerType
<1>14. PICK q : q = Poll(s, id, voters, granted)
  OBVIOUS
<1>15. q = IF IsQuorum(Yes(votes)) THEN BecomeLeader(t, id)
           ELSE IF ~IsQuorum(Yes(votes) \cup (Nodes \ DOMAIN votes))
           THEN [raw |-> follower, out |-> s.out] ELSE t
  <2>1. [s EXCEPT !.raw = follower] = [raw |-> follower, out |-> s.out]
    BY OutcomeIs
  <2>2. c = [s.raw EXCEPT !.votes =
               [p \in DOMAIN s.raw.votes \cup voters |->
                   IF p \in DOMAIN s.raw.votes THEN s.raw.votes[p] ELSE granted]]
    BY <1>1, <1>4 DEF WithVotes, Polled
  <2>3. q = IF IsQuorum(Yes(c.votes)) THEN BecomeLeader([s EXCEPT !.raw = c], id)
            ELSE IF ~IsQuorum(Yes(c.votes) \cup (Nodes \ DOMAIN c.votes))
            THEN [s EXCEPT !.raw = BecomeFollower(c, c.term, None)] ELSE [s EXCEPT !.raw = c]
    <3>1. Poll(s, id, voters, granted) =
            PollFrom(s, id, [s.raw EXCEPT !.votes =
               [p \in DOMAIN @ \cup voters |->
                   IF p \in DOMAIN s.raw.votes THEN s.raw.votes[p] ELSE granted]])
      BY Zenon DEF Poll, PollFrom
    <3>2. q = PollFrom(s, id, c)
      BY <1>14, <2>2, <3>1
    <3>3. Yes(c.votes) = {p \in DOMAIN c.votes : c.votes[p]}
      BY DEF Yes
    <3> QED
      BY <3>2, <3>3, Zenon DEF PollFrom
  <2> QED
    BY <1>7, <1>9, <1>11, <2>1, <2>3, Zenon
<1>16. CASE IsQuorum(Yes(votes))
  <2>1. BecameLeader(id, t, q)
    BY <1>9, <1>15, <1>16, BecomeLeaderLeads
  <2>2. PolledTo(id, s, votes, q)
    BY <1>1, <1>7, <1>9, <1>16, <2>1 DEF BecameLeader, PolledTo
  <2> QED
    BY <1>1, <1>14, <2>2
<1>17. CASE ~IsQuorum(Yes(votes)) /\ ~IsQuorum(Yes(votes) \cup (Nodes \ DOMAIN votes))
  <2>1. q = [raw |-> follower, out |-> s.out]
    BY <1>15, <1>17
  <2>2. q \in Outcome
    BY <1>13, <2>1, OutcomeIs DEF Outcome
  <2>3. PolledTo(id, s, votes, q)
    BY <1>1, <1>7, <1>12, <1>17, <2>1, <2>2 DEF PolledTo
  <2> QED
    BY <1>1, <1>14, <2>3
<1>18. CASE ~IsQuorum(Yes(votes)) /\ IsQuorum(Yes(votes) \cup (Nodes \ DOMAIN votes))
  <2>1. q = t
    BY <1>15, <1>18
  <2>2. PolledTo(id, s, votes, q)
    BY <1>1, <1>7, <1>9, <1>18, <2>1 DEF PolledTo
  <2> QED
    BY <1>1, <1>14, <2>2
<1> QED
  BY <1>16, <1>17, <1>18

\* An answer to a candidate.
LEMMA PollStepped ==
    ASSUME NEW id \in Nodes, NEW r \in RawState, NEW m \in Message, VotesShort(r), ~r.restored,
           r.role = "candidate", m.type = "MsgVoteResp", m.term = r.term
    PROVE  Stepped(id, r, m, Poll([raw |-> r, out |-> {}], id, {m.from}, ~m.reject))
<1>1. PICK s : s = [raw |-> r, out |-> {}]
  OBVIOUS
<1>2. s \in Outcome /\ s.raw = r /\ s.out = {}
  BY <1>1 DEF Outcome
<1>3. m.from \in Nodes /\ m.reject \in BOOLEAN /\ r.term \in Nat
  BY DEF Message, RawState
<1>4. PICK votes : votes = Polled(r, {m.from}, ~m.reject)
  OBVIOUS
<1>5. votes = Counted(r, m)
  BY <1>4 DEF Polled, Counted
<1>6. PICK q, p : q = Poll(s, id, {m.from}, ~m.reject) /\ p = q.raw
  OBVIOUS
<1>7. PolledTo(id, s, votes, q)
  <2>1. {m.from} \in SUBSET Nodes /\ (~m.reject) \in BOOLEAN
    BY <1>3
  <2>2. PolledTo(id, s, Polled(s.raw, {m.from}, ~m.reject), Poll(s, id, {m.from}, ~m.reject))
    BY <1>2, <2>1, PollPolls
  <2> QED
    BY <1>2, <1>4, <1>6, <2>2, Zenon
<1>8. /\ q \in Outcome
      /\ p.term = r.term /\ p.vote = r.vote /\ p.commit = r.commit /\ p.first = r.first
      /\ p.snapshot = r.snapshot /\ p.applied = r.applied /\ p.restored = r.restored
      /\ \/ /\ IsQuorum(Yes(votes)) /\ p.role = "leader"
            /\ p.log = Append(r.log, [term |-> r.term, value |-> NoOp])
            /\ \A f \in Nodes : p.progress[f].match = 0
            /\ \A x \in q.out : Replicates(id, p, x)
         \/ p.role = "follower" /\ p.log = r.log /\ q.out = {}
         \/ /\ ~IsQuorum(Yes(votes))
            /\ p.role = "candidate" /\ p.votes = votes /\ p.log = r.log /\ q.out = {}
  BY <1>2, <1>6, <1>7 DEF PolledTo
<1>9. VoteKept(r, p) /\ TermComes(r, m, p)
  BY <1>3, <1>8 DEF VoteKept, TermComes
<1>10. p.role = "leader" => Elected(r, m, p)
  <2>1. IsQuorum(Yes(votes)) => ~m.reject
    <3>1. m.reject => Yes(votes) = Granting(r)
      BY <1>4 DEF Yes, Polled, Granting
    <3> QED
      BY <1>3, <3>1 DEF VotesShort
  <2>2. Yes(votes) = {f \in DOMAIN Counted(r, m) : Counted(r, m)[f]}
    BY <1>5 DEF Yes
  <2>3. p.role = "leader" => IsQuorum(Yes(votes))
    BY <1>8
  <2> QED
    BY <1>8, <2>1, <2>2, <2>3 DEF Elected
<1>11. RoleComes(id, r, m, p)
  BY <1>5, <1>8, <1>10 DEF RoleComes, VotesCome
<1>12. VotesShort(p)
  BY <1>8 DEF VotesShort, Granting, Yes
<1>13. StorageComes(r, m, p)
  <2>1. CASE p.role = "leader"
    <3>1. \E value \in Nat \cup {NoOp} : p.log = Append(r.log, [term |-> p.term, value |-> value])
      BY <1>8, <2>1
    <3> QED
      BY <1>8, <2>1, <3>1 DEF StorageComes, LogComes
  <2>2. CASE p.role # "leader"
    BY <1>8, <2>2 DEF StorageComes, LogComes
  <2> QED
    BY <2>1, <2>2
<1>14. CommitComes(id, r, m, p) /\ MatchComes(r, m, p)
  BY <1>8 DEF CommitComes, MatchComes
<1>15. Sends(id, r, m, q)
  BY <1>6, <1>8 DEF Sends, Replicates
<1> QED
  BY <1>1, <1>6, <1>8, <1>9, <1>11, <1>12, <1>13, <1>14, <1>15 DEF Stepped

\* A node alone is no quorum, all nodes are one.
LEMMA QuorumsOfAll ==
    ASSUME NEW id \in Nodes
    PROVE  ~IsQuorum({id}) /\ IsQuorum(Nodes)
<1>1. Cardinality({id}) = 1
  BY FS_Singleton
<1>2. Cardinality(Nodes) \in Nat
  BY VotersAssumption, FS_CardinalityType
<1>3. Cardinality(Nodes) >= 2
  BY VotersAssumption
<1> QED
  BY <1>1, <1>2, <1>3 DEF IsQuorum

\* A campaign, by the election timer or by request.
LEMMA CampaignStepped ==
    ASSUME NEW id \in Nodes, NEW r \in RawState, VotesShort(r), ~r.restored
    PROVE  Stepped(id, r, Hup, Campaign(r, id))
<1>1. CASE r.role = "leader"
  <2>1. Campaign(r, id) = [raw |-> r, out |-> {}]
    BY <1>1, Zenon DEF Campaign
  <2>2. Stepped(id, r, Hup, [raw |-> r, out |-> {}])
    BY <1>1, IgnoredStepped
  <2> QED
    BY <2>1, <2>2
<1>2. CASE r.role # "leader"
  <2>1. PICK term, role, d : /\ term = r.term + 1 /\ role = "candidate" /\ d = Reset(r, term)
    OBVIOUS
  <2>2. r.term \in Nat /\ term \in Nat /\ term # r.term
    BY <2>1 DEF RawState
  <2>3. role \in Roles
    BY <2>1 DEF Roles
  <2>4. d = [term |-> term, vote |-> IF term = r.term THEN r.vote ELSE None, role |-> r.role,
             lead |-> None, commit |-> r.commit, log |-> r.log, first |-> r.first,
             snapshot |-> r.snapshot, applied |-> r.applied, restored |-> r.restored,
             votes |-> [p \in {} |-> TRUE], progress |-> [p \in Nodes |-> FreshProgress]]
    BY <2>1, <2>2, ResetIs, Zenon
  <2>5. d \in RawState
    BY <2>1, <2>2, ResetType
  <2>6. PICK c : c = RawCandidateAs(d, role, id)
    OBVIOUS
  <2>7. RawCandidateAs(d, role, id) =
          [term |-> d.term, vote |-> id, role |-> role, lead |-> d.lead,
           commit |-> d.commit, log |-> d.log, first |-> d.first, snapshot |-> d.snapshot,
           applied |-> d.applied, restored |-> d.restored, votes |-> d.votes,
           progress |-> d.progress]
    BY <2>3, <2>5, RawCandidate
  <2>8. c \in RawState
    BY <2>3, <2>5, <2>6, <2>7 DEF RawState
  <2>9. /\ c.term = term /\ c.vote = id /\ c.role = "candidate" /\ c.commit = r.commit
        /\ c.log = r.log /\ c.first = r.first /\ c.snapshot = r.snapshot
        /\ c.applied = r.applied /\ c.restored = r.restored /\ c.votes = [p \in {} |-> TRUE]
    BY <2>1, <2>4, <2>6, <2>7
  <2>10. PICK asked : asked = {[Msg("MsgVote", id, p, c.term) EXCEPT
                       !.index = LastIndex(c), !.logTerm = LastTerm(c)] : p \in Nodes \ {id}}
    OBVIOUS
  <2>11. ASSUME NEW x \in asked
         PROVE  /\ x \in Message /\ x.type = "MsgVote" /\ x.from = id /\ x.term = term /\ x.to # id
                /\ x.index = LastIndex(c) /\ x.logTerm = LastTerm(c)
    <3>1. PICK p \in Nodes \ {id} : x = [Msg("MsgVote", id, p, c.term) EXCEPT
                       !.index = LastIndex(c), !.logTerm = LastTerm(c)]
      BY <2>10
    <3>2. PICK type, b, index, logTerm : /\ type = "MsgVote" /\ b = Msg(type, id, p, term)
                                         /\ index = LastIndex(c) /\ logTerm = LastTerm(c)
      OBVIOUS
    <3>3. type \in MessageTypes
      BY <3>2 DEF MessageTypes
    <3>4. b \in Message
      BY <2>2, <3>2, <3>3, MsgType, Zenon
    <3>5. b.type = "MsgVote" /\ b.from = id /\ b.term = term /\ b.to # id
      BY <3>2 DEF Msg
    <3>6. index \in Nat /\ logTerm \in Nat
      <4>1. c.log \in Seq(Entry)
        BY <2>8 DEF RawState
      <4>2. Len(c.log) \in Nat /\ LastIndex(c) \in 0..LastIndex(c)
        BY <4>1 DEF LastIndex
      <4>3. TermAt(c, LastIndex(c)) \in Nat
        BY <2>8, <4>2, TermAtType
      <4> QED
        BY <3>2, <4>2, <4>3 DEF LastIndex, LastTerm
    <3>7. x = MessageVoteAs(b, index, logTerm)
      BY <2>9, <3>1, <3>2, Zenon DEF MessageVoteAs
    <3>8. MessageVoteAs(b, index, logTerm) =
            [type |-> b.type, from |-> b.from, to |-> b.to, term |-> b.term, index |-> index,
             logTerm |-> logTerm, commit |-> b.commit, reject |-> b.reject, hint |-> b.hint,
             entries |-> b.entries, snapshot |-> b.snapshot]
      BY <3>4, <3>6, MessageVote
    <3>9. x \in Message
      BY <3>4, <3>6, <3>7, <3>8 DEF Message
    <3> QED
      BY <3>2, <3>5, <3>7, <3>8, <3>9
  <2>12. PICK s : s = [raw |-> c, out |-> asked]
    OBVIOUS
  <2>13. s \in Outcome /\ s.raw = c /\ s.out = asked
    BY <2>8, <2>11, <2>12 DEF Outcome
  <2>14. PICK q, p, votes : /\ q = Poll(s, id, {id}, TRUE) /\ p = q.raw
                            /\ votes = Polled(c, {id}, TRUE)
    OBVIOUS
  <2>15. q = Campaign(r, id)
    <3>1. c = [Reset(r, r.term + 1) EXCEPT !.role = "candidate", !.vote = id]
      BY <2>1, <2>6, Zenon DEF RawCandidateAs
    <3> QED
      BY <1>2, <2>10, <2>12, <2>14, <3>1, Zenon DEF Campaign
  <2>16. PolledTo(id, s, votes, q)
    <3>1. {id} \in SUBSET Nodes /\ TRUE \in BOOLEAN
      OBVIOUS
    <3>2. PolledTo(id, s, Polled(s.raw, {id}, TRUE), Poll(s, id, {id}, TRUE))
      BY <2>13, <3>1, PollPolls
    <3> QED
      BY <2>13, <2>14, <3>2, Zenon
  <2>17. votes = [f \in {id} |-> TRUE]
    BY <2>9, <2>14 DEF Polled
  <2>18. Yes(votes) = {id} /\ DOMAIN votes = {id}
    BY <2>17 DEF Yes
  <2>19. ~IsQuorum(Yes(votes)) /\ IsQuorum(Yes(votes) \cup (Nodes \ DOMAIN votes))
    <3>1. {id} \cup (Nodes \ {id}) = Nodes
      OBVIOUS
    <3> QED
      BY <2>18, <3>1, QuorumsOfAll
  <2>20. /\ q \in Outcome
         /\ p.term = c.term /\ p.vote = c.vote /\ p.commit = c.commit /\ p.first = c.first
         /\ p.snapshot = c.snapshot /\ p.applied = c.applied /\ p.restored = c.restored
         /\ p.role = c.role /\ p.votes = votes /\ p.log = c.log /\ q.out = asked
    BY <2>13, <2>14, <2>16, <2>19 DEF PolledTo
  <2>21. VoteKept(r, p)
    BY <2>1, <2>2, <2>9, <2>20 DEF VoteKept
  <2>22. TermComes(r, Hup, p)
    BY <1>2, <2>1, <2>9, <2>20 DEF TermComes, Hup
  <2>23. Campaigns(id, r, Hup, p)
    BY <2>1, <2>9, <2>17, <2>20 DEF Campaigns, Hup
  <2>24. RoleComes(id, r, Hup, p)
    BY <1>2, <2>9, <2>20, <2>23 DEF RoleComes
  <2>25. VotesShort(p)
    BY <2>18, <2>19, <2>20 DEF VotesShort, Granting, Yes
  <2>26. StorageComes(r, Hup, p) /\ CommitComes(id, r, Hup, p) /\ MatchComes(r, Hup, p)
    BY <2>9, <2>20 DEF StorageComes, LogComes, CommitComes, MatchComes
  <2>27. Sends(id, r, Hup, q)
    <3>1. ASSUME NEW x \in q.out
          PROVE  /\ x.from = id /\ x.term = p.term /\ x.type = "MsgVote" /\ p.role = "candidate"
                 /\ x.to # id
                 /\ x.index = LastIndex(p) /\ x.logTerm = LastTerm(p)
      BY <2>9, <2>11, <2>20, <3>1 DEF LastIndex, LastTerm, TermAt
    <3> QED
      BY <2>14, <3>1 DEF Sends
  <2> QED
    BY <2>14, <2>15, <2>20, <2>21, <2>22, <2>24, <2>25, <2>26, <2>27 DEF Stepped
<1> QED
  BY <1>1, <1>2

----------------------------------------------------------------------------
(* A follower.                                                             *)

\* l is node r once it follows the sender, or the term, of message m.
Yields(r, l, m) ==
    /\ l \in RawState /\ l.role = "follower" /\ VoteKept(r, l)
    /\ l.commit = r.commit /\ l.log = r.log /\ l.first = r.first /\ l.snapshot = r.snapshot
    /\ l.applied = r.applied /\ l.restored = r.restored
    /\ l.term \in {r.term, m.term} /\ (r.role = "leader" => l.term # r.term)
    /\ m.type \notin {"MsgHup", "MsgProp"}

\* A step from the node that has yielded to a message's term is one from the node before.
LEMMA YieldsStepped ==
    ASSUME NEW id \in Nodes, NEW r \in RawState, NEW m \in Message, NEW l \in RawState, NEW q,
           Yields(r, l, m), Stepped(id, l, m, q)
    PROVE  Stepped(id, r, m, q)
<1>1. PICK p : p = q.raw
  OBVIOUS
<1>2. /\ q \in Outcome
      /\ VoteKept(l, p) /\ TermComes(l, m, p) /\ RoleComes(id, l, m, p) /\ VotesShort(p)
      /\ StorageComes(l, m, p) /\ CommitComes(id, l, m, p) /\ MatchComes(l, m, p)
      /\ Sends(id, l, m, q)
  BY <1>1 DEF Stepped
<1>3. /\ l.role = "follower" /\ VoteKept(r, l)
      /\ l.commit = r.commit /\ l.log = r.log /\ l.first = r.first /\ l.snapshot = r.snapshot
      /\ l.applied = r.applied /\ l.restored = r.restored
      /\ l.term \in {r.term, m.term} /\ (r.role = "leader" => l.term # r.term)
      /\ m.type # "MsgHup" /\ m.type # "MsgProp"
  BY DEF Yields
<1>4. p \in RawState
  BY <1>1, <1>2, OutcomeIs
<1>5. r.term \in Nat /\ l.term \in Nat /\ p.term \in Nat
  BY <1>4 DEF RawState
<1>6. p.role = "follower"
  <2>1. p.role # "leader"
    BY <1>2, <1>3 DEF RoleComes, Elected
  <2>2. p.role # "candidate"
    BY <1>2, <1>3 DEF RoleComes, Campaigns
  <2> QED
    BY <1>4, <2>1, <2>2 DEF RawState, Roles
<1>7. VoteKept(r, p)
  BY <1>2, <1>3, <1>5 DEF VoteKept
<1>8. TermComes(r, m, p)
  BY <1>2, <1>3 DEF TermComes
<1>9. RoleComes(id, r, m, p)
  <2>1. r.role = "leader" => p.term # r.term
    BY <1>2, <1>3, <1>5 DEF VoteKept
  <2> QED
    BY <1>6, <2>1 DEF RoleComes
<1>10. /\ Accepts(l, m) = Accepts(r, m) /\ Agrees(l, m) = Agrees(r, m)
       /\ Overwritten(l, m) = Overwritten(r, m) /\ Known(l, m) = Known(r, m)
       /\ Taken(l, m, p) = Taken(r, m, p)
  BY <1>3 DEF Accepts, Agrees, Overwritten, Known, Taken, TermAt
<1>11. StorageComes(r, m, p)
  BY <1>2, <1>3, <1>6, <1>10 DEF StorageComes, LogComes, Restores
<1>12. CommitComes(id, r, m, p)
  BY <1>2, <1>3, <1>6, <1>10 DEF CommitComes
<1>13. MatchComes(r, m, p)
  BY <1>6 DEF MatchComes
<1>14. Sends(id, r, m, q)
  <2>1. \A k : Acknowledges(l, m, p, k) => Acknowledges(r, m, p, k)
    BY <1>3, <1>10 DEF Acknowledges
  <2> QED
    BY <1>1, <1>2, <1>3, <1>6, <2>1 DEF Sends
<1> QED
  BY <1>1, <1>2, <1>7, <1>8, <1>9, <1>11, <1>12, <1>13, <1>14 DEF Stepped

\* A vote request of the term the node is in.
LEMMA HandleVoteStepped ==
    ASSUME NEW id \in Nodes, NEW r \in RawState, NEW m \in Message, VotesShort(r), ~r.restored,
           m.type = "MsgVote", m.term = r.term
    PROVE  Stepped(id, r, m, HandleVote([raw |-> r, out |-> {}], id, m))
<1>1. PICK s, q : s = [raw |-> r, out |-> {}] /\ q = HandleVote(s, id, m)
  OBVIOUS
<1>2. s \in Outcome /\ s.raw = r /\ s.out = {}
  BY <1>1 DEF Outcome
<1>3. m.from \in Nodes /\ r.term \in Nat /\ None \notin Nodes
  BY VotersAssumption DEF Message, RawState
<1>4. PICK grant : grant = ((r.vote = m.from \/ (r.vote = None /\ r.lead = None)) /\ UpToDate(r, m))
  OBVIOUS
<1>5. grant \in BOOLEAN
  BY <1>4
<1>6. PICK vote : vote = IF grant THEN m.from ELSE r.vote
  OBVIOUS
<1>7. vote \in Nodes \cup {None}
  BY <1>3, <1>6 DEF RawState
<1>8. PICK p : p = [r EXCEPT !.vote = vote]
  OBVIOUS
<1>9. /\ p \in RawState /\ p.vote = vote /\ p.term = r.term /\ p.role = r.role /\ p.votes = r.votes
      /\ p.commit = r.commit /\ p.log = r.log /\ p.first = r.first /\ p.snapshot = r.snapshot
      /\ p.applied = r.applied /\ p.restored = r.restored /\ p.progress = r.progress
  BY <1>7, <1>8 DEF RawState
<1>10. PICK type, b, refused : /\ type = "MsgVoteResp" /\ b = Msg(type, id, m.from, m.term)
                               /\ refused = (~grant)
  OBVIOUS
<1>11. type \in MessageTypes
  BY <1>10 DEF MessageTypes
<1>12. m.term \in Nat
  BY DEF Message
<1>13. b \in Message
  BY <1>3, <1>10, <1>11, <1>12, MsgType, Zenon
<1>14. b.type = "MsgVoteResp" /\ b.from = id /\ b.to = m.from /\ b.term = m.term
  BY <1>10 DEF Msg
<1>15. PICK x : x = [b EXCEPT !.reject = refused]
  OBVIOUS
<1>16. refused \in BOOLEAN
  BY <1>5, <1>10
<1>17. /\ x \in Message /\ x.type = "MsgVoteResp" /\ x.from = id /\ x.to = m.from
       /\ x.term = m.term /\ x.reject = refused
  BY <1>13, <1>14, <1>15, <1>16 DEF Message
<1>18. q = [raw |-> p, out |-> {x}]
  <2>1. q = Send([s EXCEPT !.raw.vote = vote], x)
    <3>1. [s EXCEPT !.raw.vote = IF grant THEN m.from ELSE @] = [s EXCEPT !.raw.vote = vote]
      BY <1>2, <1>6
    <3>2. q = Send([s EXCEPT !.raw.vote = IF grant THEN m.from ELSE @], x)
      BY <1>1, <1>2, <1>4, <1>10, <1>15, Zenon DEF HandleVote
    <3> QED
      BY <3>1, <3>2
  <2>2. [s EXCEPT !.raw.vote = vote] = [raw |-> p, out |-> {}]
    BY <1>1, <1>8
  <2> QED
    BY <2>1, <2>2 DEF Send
<1>19. q \in Outcome /\ q.raw = p /\ q.out = {x}
  BY <1>9, <1>17, <1>18 DEF Outcome
<1>20. VoteKept(r, p)
  <2>1. grant => r.vote = m.from \/ r.vote = None
    BY <1>4
  <2>2. vote = m.from \/ vote = r.vote
    BY <1>6
  <2>3. r.vote # None => vote = r.vote
    <3>1. CASE grant
      BY <1>6, <2>1, <3>1
    <3>2. CASE ~grant
      BY <1>6, <3>2
    <3> QED
      BY <3>1, <3>2
  <2> QED
    BY <1>3, <1>9, <2>3 DEF VoteKept
<1>21. TermComes(r, m, p) /\ RoleComes(id, r, m, p)
  BY <1>9 DEF TermComes, RoleComes, VotesCome
<1>22. VotesShort(p)
  BY <1>9 DEF VotesShort, Granting
<1>23. StorageComes(r, m, p) /\ CommitComes(id, r, m, p) /\ MatchComes(r, m, p)
  BY <1>9 DEF StorageComes, LogComes, CommitComes, MatchComes
<1>24. ~x.reject => p.vote = x.to /\ p.log = r.log /\ UpToDate(p, m)
  <2>1. UpToDate(p, m) = UpToDate(r, m)
    BY <1>9 DEF UpToDate, LastTerm, LastIndex, TermAt
  <2> QED
    BY <1>4, <1>6, <1>9, <1>10, <1>17, <2>1
<1>25. Sends(id, r, m, q)
  BY <1>9, <1>17, <1>19, <1>24 DEF Sends
<1> QED
  BY <1>1, <1>19, <1>20, <1>21, <1>22, <1>23, <1>25 DEF Stepped

\* A heartbeat.
LEMMA HandleHeartbeatStepped ==
    ASSUME NEW id \in Nodes, NEW r \in RawState, NEW m \in Message, ~r.restored,
           r.role = "follower", m.type = "MsgHeartbeat", m.term = r.term
    PROVE  Stepped(id, r, m, HandleHeartbeat([raw |-> r, out |-> {}], id, m))
<1>1. PICK s, q : s = [raw |-> r, out |-> {}] /\ q = HandleHeartbeat(s, id, m)
  OBVIOUS
<1>2. s \in Outcome /\ s.raw = r /\ s.out = {}
  BY <1>1 DEF Outcome
<1>3. m.from \in Nodes /\ r.term \in Nat /\ r.commit \in Nat /\ m.commit \in Nat
  BY DEF Message, RawState
<1>4. PICK commit : commit = Max({r.commit, m.commit})
  OBVIOUS
<1>5. commit \in Nat /\ (commit = r.commit \/ (commit > r.commit /\ commit = m.commit))
  <2>1. commit = IF r.commit <= m.commit THEN m.commit ELSE r.commit
    BY <1>3, <1>4, MaxOfTwo
  <2> QED
    BY <1>3, <2>1
<1>6. PICK p : p = [r EXCEPT !.commit = commit]
  OBVIOUS
<1>7. /\ p \in RawState /\ p.vote = r.vote /\ p.term = r.term /\ p.role = r.role /\ p.votes = r.votes
      /\ p.commit = commit /\ p.log = r.log /\ p.first = r.first /\ p.snapshot = r.snapshot
      /\ p.applied = r.applied /\ p.restored = r.restored
  BY <1>5, <1>6 DEF RawState
<1>8. PICK type, x : type = "MsgHeartbeatResp" /\ x = Msg(type, id, m.from, r.term)
  OBVIOUS
<1>9. type \in MessageTypes
  BY <1>8 DEF MessageTypes
<1>10. x \in Message
  BY <1>3, <1>8, <1>9, MsgType, Zenon
<1>11. x.type = "MsgHeartbeatResp" /\ x.from = id /\ x.term = r.term
  BY <1>8 DEF Msg
<1>12. q = [raw |-> p, out |-> {x}]
  <2>1. q = Send([s EXCEPT !.raw.commit = Max({@, m.commit})], x)
    BY <1>1, <1>2, <1>8, Zenon DEF HandleHeartbeat
  <2>2. [s EXCEPT !.raw.commit = Max({@, m.commit})] = [raw |-> p, out |-> {}]
    BY <1>1, <1>4, <1>6
  <2> QED
    BY <2>1, <2>2 DEF Send
<1>13. q \in Outcome /\ q.raw = p /\ q.out = {x}
  BY <1>7, <1>10, <1>12 DEF Outcome
<1>14. VoteKept(r, p) /\ TermComes(r, m, p) /\ RoleComes(id, r, m, p) /\ VotesShort(p)
  BY <1>3, <1>7 DEF VoteKept, TermComes, RoleComes, VotesShort
<1>15. StorageComes(r, m, p) /\ MatchComes(r, m, p)
  BY <1>7 DEF StorageComes, LogComes, MatchComes
<1>16. CommitComes(id, r, m, p)
  BY <1>5, <1>7 DEF CommitComes
<1>17. Sends(id, r, m, q)
  BY <1>7, <1>11, <1>13 DEF Sends
<1> QED
  BY <1>1, <1>13, <1>14, <1>15, <1>16, <1>17 DEF Stepped

\* An answer to the leader that names an index.
LEMMA AnswerType ==
    ASSUME NEW id \in Nodes, NEW to \in Nodes, NEW term \in Nat, NEW index \in Nat
    PROVE  /\ [Msg("MsgAppResp", id, to, term) EXCEPT !.index = index] \in Message
           /\ [Msg("MsgAppResp", id, to, term) EXCEPT !.index = index].type = "MsgAppResp"
           /\ [Msg("MsgAppResp", id, to, term) EXCEPT !.index = index].from = id
           /\ [Msg("MsgAppResp", id, to, term) EXCEPT !.index = index].to = to
           /\ [Msg("MsgAppResp", id, to, term) EXCEPT !.index = index].term = term
           /\ [Msg("MsgAppResp", id, to, term) EXCEPT !.index = index].index = index
<1>1. PICK type, b : type = "MsgAppResp" /\ b = Msg(type, id, to, term)
  OBVIOUS
<1>2. type \in MessageTypes
  BY <1>1 DEF MessageTypes
<1>3. b \in Message
  BY <1>1, <1>2, MsgType, Zenon
<1>4. b.type = "MsgAppResp" /\ b.from = id /\ b.to = to /\ b.term = term
  BY <1>1 DEF Msg
<1>5. PICK x : x = [b EXCEPT !.index = index]
  OBVIOUS
<1>6. /\ x \in Message /\ x.type = "MsgAppResp" /\ x.from = id /\ x.to = to /\ x.term = term
      /\ x.index = index
  BY <1>3, <1>4, <1>5 DEF Message
<1> QED
  BY <1>1, <1>5, <1>6

\* A follower that answers without a change, or with one of its log and commit
\* index.
FollowerAfter(r, p) ==
    /\ p \in RawState /\ p.term = r.term /\ p.vote = r.vote /\ p.role = r.role
    /\ p.applied = r.applied

\* A follower that stores what its leader sent and answers does what a step may do.
LEMMA AnswerStepped ==
    ASSUME NEW id \in Nodes, NEW r \in RawState, NEW m \in Message, ~r.restored,
           r.role = "follower", m.type \in FromLeader, m.term = r.term,
           NEW p \in RawState, FollowerAfter(r, p), StorageComes(r, m, p), CommitComes(id, r, m, p),
           NEW index \in Nat, Acknowledges(r, m, p, index), NEW q,
           q = [raw |-> p, out |-> {[Msg("MsgAppResp", id, m.from, r.term) EXCEPT !.index = index]}]
    PROVE  Stepped(id, r, m, q)
<1>1. PICK x : x = [Msg("MsgAppResp", id, m.from, r.term) EXCEPT !.index = index]
  OBVIOUS
<1>2. m.from \in Nodes /\ r.term \in Nat
  BY DEF Message, RawState
<1>3. /\ x \in Message /\ x.type = "MsgAppResp" /\ x.from = id /\ x.to = m.from
      /\ x.term = r.term /\ x.index = index
  BY <1>1, <1>2, AnswerType
<1>4. q \in Outcome /\ q.raw = p /\ q.out = {x}
  BY <1>1, <1>3 DEF Outcome
<1>5. p.term = r.term /\ p.vote = r.vote /\ p.role = "follower"
  BY DEF FollowerAfter
<1>6. VoteKept(r, p) /\ TermComes(r, m, p) /\ RoleComes(id, r, m, p) /\ VotesShort(p)
      /\ MatchComes(r, m, p)
  BY <1>2, <1>5 DEF VoteKept, TermComes, RoleComes, VotesShort, MatchComes
<1>7. Sends(id, r, m, q)
  BY <1>3, <1>4, <1>5 DEF Sends
<1> QED
  BY <1>4, <1>6, <1>7 DEF Stepped

\* A log and a commit index, as a follower takes them from an append.
Extended(s, log, commit) == [s EXCEPT !.raw.log = log, !.raw.commit = Max({@, commit})]

OutcomeLog(s, log) == [s EXCEPT !.raw.log = log]
OutcomeCommit(s, commit) == [s EXCEPT !.raw.commit = Max({@, commit})]

\* Replacing the log of an outcome replaces it in its RawNode.
LEMMA OutcomeWithLog ==
    ASSUME NEW r, NEW out, NEW log
    PROVE  OutcomeLog([raw |-> r, out |-> out], log) = [raw |-> [r EXCEPT !.log = log], out |-> out]
  BY DEF OutcomeLog

\* Raising the commit index of an outcome raises it in its RawNode.
LEMMA OutcomeWithCommit ==
    ASSUME NEW r, NEW out, NEW commit
    PROVE  OutcomeCommit([raw |-> r, out |-> out], commit)
             = [raw |-> [r EXCEPT !.commit = Max({r.commit, commit})], out |-> out]
  BY DEF OutcomeCommit

\* An outcome with a longer log and a commit index, as a record, field by field.
LEMMA ExtendedIs ==
    ASSUME NEW r \in RawState, NEW log \in Seq(Entry), NEW commit \in Nat
    PROVE  Extended([raw |-> r, out |-> {}], log, commit) =
             [raw |-> [term |-> r.term, vote |-> r.vote, role |-> r.role, lead |-> r.lead,
                       commit |-> Max({r.commit, commit}), log |-> log, first |-> r.first,
                       snapshot |-> r.snapshot, applied |-> r.applied, restored |-> r.restored,
                       votes |-> r.votes, progress |-> r.progress],
              out |-> {}]
<1>1. PICK s : s = [raw |-> r, out |-> {}]
  OBVIOUS
<1>2. PICK l : l = [r EXCEPT !.log = log]
  OBVIOUS
<1>3. /\ l.log = log /\ l.term = r.term /\ l.vote = r.vote /\ l.role = r.role /\ l.lead = r.lead
      /\ l.commit = r.commit /\ l.first = r.first /\ l.snapshot = r.snapshot
      /\ l.applied = r.applied /\ l.restored = r.restored /\ l.votes = r.votes
      /\ l.progress = r.progress /\ l \in RawState
  BY <1>2 DEF RawState
<1>4. PICK max, p : max = Max({l.commit, commit}) /\ p = [l EXCEPT !.commit = max]
  OBVIOUS
<1>5. max \in Nat
  <2>1. l.commit \in Nat
    BY <1>3 DEF RawState
  <2> QED
    BY <1>4, <2>1, MaxOfTwo
<1>6. p = [term |-> r.term, vote |-> r.vote, role |-> r.role, lead |-> r.lead,
           commit |-> max, log |-> log, first |-> r.first,
           snapshot |-> r.snapshot, applied |-> r.applied, restored |-> r.restored,
           votes |-> r.votes, progress |-> r.progress]
  <2>1. /\ p \in RawState /\ p.log = l.log /\ p.term = l.term /\ p.vote = l.vote
        /\ p.role = l.role /\ p.lead = l.lead
        /\ p.commit = max /\ p.first = l.first /\ p.snapshot = l.snapshot
        /\ p.applied = l.applied /\ p.restored = l.restored /\ p.votes = l.votes
        /\ p.progress = l.progress
    BY <1>3, <1>4, <1>5 DEF RawState
  <2> QED
    BY <1>3, <2>1 DEF RawState
<1>7. OutcomeLog(s, log) = [raw |-> l, out |-> {}]
  BY <1>1, <1>2, OutcomeWithLog, Zenon
<1>8. PICK t : t = [raw |-> l, out |-> {}]
  OBVIOUS
<1>9. Extended(s, log, commit) = OutcomeCommit(OutcomeLog(s, log), commit)
  BY Zenon DEF Extended, OutcomeLog, OutcomeCommit
<1>10. Extended(s, log, commit) = OutcomeCommit(t, commit)
  BY <1>7, <1>8, <1>9
<1>11. OutcomeCommit(t, commit) = [raw |-> p, out |-> {}]
  BY <1>4, <1>8, OutcomeWithCommit, Zenon
<1> QED
  BY <1>1, <1>3, <1>4, <1>6, <1>10, <1>11

\* Entries of the leader.
LEMMA HandleAppendStepped ==
    ASSUME NEW id \in Nodes, NEW r \in RawState, NEW m \in Message, ~r.restored,
           r.role = "follower", m.type = "MsgApp", m.term = r.term
    PROVE  Stepped(id, r, m, HandleAppend([raw |-> r, out |-> {}], id, m))
<1>1. PICK s, q : s = [raw |-> r, out |-> {}] /\ q = HandleAppend(s, id, m)
  OBVIOUS
<1>2. s \in Outcome /\ s.raw = r /\ s.out = {}
  BY <1>1 DEF Outcome
<1>3. /\ m.from \in Nodes /\ r.term \in Nat /\ r.commit \in Nat /\ m.commit \in Nat
      /\ m.index \in Nat /\ m.logTerm \in Nat
  BY DEF Message, RawState
<1>4. m.entries \in Seq(Entry) /\ r.log \in Seq(Entry)
  BY DEF Message, RawState
<1>5. Len(m.entries) \in Nat /\ LastIndex(r) \in Nat /\ LastIndex(r) = Len(r.log)
  BY <1>4 DEF LastIndex
<1>6. PICK last : last = m.index + Len(m.entries)
  OBVIOUS
<1>7. last \in Nat
  BY <1>3, <1>5, <1>6
<1>8. m.type \in FromLeader
  BY DEF FromLeader
<1>9. CASE m.index < r.commit
  <2>1. q = Send(s, [Msg("MsgAppResp", id, m.from, r.term) EXCEPT !.index = r.commit])
    BY <1>1, <1>2, <1>9, Zenon DEF HandleAppend
  <2>2. q = [raw |-> r, out |-> {[Msg("MsgAppResp", id, m.from, r.term) EXCEPT !.index = r.commit]}]
    BY <1>1, <2>1 DEF Send
  <2>3. FollowerAfter(r, r) /\ StorageComes(r, m, r) /\ CommitComes(id, r, m, r)
    BY DEF FollowerAfter, StorageComes, LogComes, CommitComes
  <2>4. Acknowledges(r, m, r, r.commit)
    BY <1>8 DEF Acknowledges
  <2>5. Stepped(id, r, m, q)
    BY <1>3, <1>8, <2>2, <2>3, <2>4, AnswerStepped
  <2> QED
    BY <1>1, <2>5
<1>10. CASE ~(m.index < r.commit) /\ m.index <= LastIndex(r) /\ TermAt(r, m.index) = m.logTerm
  <2>1. PICK log, commit : log = (IF Agrees(r, m) THEN r.log ELSE Overwritten(r, m))
                           /\ commit = MinOf(m.commit, last)
    OBVIOUS
  <2>2. Accepts(r, m)
    BY <1>3, <1>5, <1>10 DEF Accepts
  <2>3. SubSeq(r.log, 1, m.index) \in Seq(Entry)
    BY <1>3, <1>4, <1>5, <1>10
  <2>4. Overwritten(r, m) \in Seq(Entry)
    BY <1>4, <2>3 DEF Overwritten
  <2>5. log \in Seq(Entry)
    BY <1>4, <2>1, <2>4
  <2>6. commit \in Nat
    BY <1>3, <1>7, <2>1 DEF MinOf
  <2>7. q = Send(Extended(s, log, commit), [Msg("MsgAppResp", id, m.from, r.term) EXCEPT !.index = last])
    <3>1. (IF m.index + Len(m.entries) <= LastIndex(r)
              /\ \A k \in 1..Len(m.entries) : TermAt(r, m.index + k) = m.entries[k].term
           THEN r.log ELSE SubSeq(r.log, 1, m.index) \o m.entries) = log
      BY <1>5, <2>1 DEF Agrees, Overwritten
    <3> QED
      BY <1>1, <1>2, <1>6, <1>10, <2>1, <3>1, Zenon DEF HandleAppend, Extended
  <2>8. PICK p : p = [term |-> r.term, vote |-> r.vote, role |-> r.role, lead |-> r.lead,
                       commit |-> Max({r.commit, commit}), log |-> log, first |-> r.first,
                       snapshot |-> r.snapshot, applied |-> r.applied, restored |-> r.restored,
                       votes |-> r.votes, progress |-> r.progress]
    OBVIOUS
  <2>9. Extended(s, log, commit) = [raw |-> p, out |-> {}]
    BY <1>1, <2>5, <2>6, <2>8, ExtendedIs
  <2>10. q = [raw |-> p, out |-> {[Msg("MsgAppResp", id, m.from, r.term) EXCEPT !.index = last]}]
    BY <2>7, <2>9 DEF Send
  <2>11. /\ p.commit \in Nat
         /\ p.commit = r.commit \/ (p.commit > r.commit /\ p.commit = MinOf(m.commit, m.index + Len(m.entries)))
    <3>1. p.commit = IF r.commit <= commit THEN commit ELSE r.commit
      BY <1>3, <2>6, <2>8, MaxOfTwo
    <3> QED
      BY <1>3, <1>6, <2>1, <2>6, <3>1
  <2>12. p \in RawState
    BY <2>5, <2>8, <2>11 DEF RawState
  <2>13. /\ p.term = r.term /\ p.vote = r.vote /\ p.role = r.role /\ p.log = log /\ p.first = r.first
         /\ p.snapshot = r.snapshot /\ p.applied = r.applied /\ p.restored = r.restored
    BY <2>8
  <2>14. FollowerAfter(r, p)
    BY <2>12, <2>13 DEF FollowerAfter
  <2>15. /\ Agrees(r, m) => p.log = r.log
         /\ ~Agrees(r, m) => p.log = Overwritten(r, m)
    BY <2>1, <2>13
  <2>20. Taken(r, m, p)
    BY <2>15 DEF Taken
  <2>16. StorageComes(r, m, p)
    BY <2>2, <2>13, <2>15 DEF StorageComes, LogComes
  <2>17. CommitComes(id, r, m, p)
    BY <2>2, <2>11, <2>13, <2>20 DEF CommitComes
  <2>18. Acknowledges(r, m, p, last)
    BY <1>6, <1>8, <2>2, <2>13, <2>20 DEF Acknowledges
  <2>19. Stepped(id, r, m, q)
    BY <1>7, <1>8, <2>10, <2>12, <2>14, <2>16, <2>17, <2>18, AnswerStepped
  <2> QED
    BY <1>1, <2>19
<1>11. CASE ~(m.index < r.commit) /\ ~(m.index <= LastIndex(r) /\ TermAt(r, m.index) = m.logTerm)
  <2>1. PICK index, hint, logTerm, no :
           /\ index = m.index
           /\ hint = FindConflictByTerm(r, MinOf(m.index, LastIndex(r)), m.logTerm)
           /\ logTerm = (IF Readable(r, hint) THEN TermAt(r, hint) ELSE 0)
           /\ no = TRUE
    OBVIOUS
  <2>2. MinOf(m.index, LastIndex(r)) \in Nat /\ MinOf(m.index, LastIndex(r)) <= LastIndex(r)
    BY <1>3, <1>5 DEF MinOf
  <2>3. hint \in 0..LastIndex(r)
    <3>1. hint \in 0..MinOf(m.index, LastIndex(r))
      BY <2>1, <2>2, FindConflictByTermType
    <3> QED
      BY <1>5, <2>2, <3>1
  <2>4. logTerm \in Nat
    BY <2>1, <2>3, TermAtType
  <2>5. PICK type, b, x : /\ type = "MsgAppResp" /\ b = Msg(type, id, m.from, r.term)
                          /\ x = MessageRejectionAs(b, index, no, hint, logTerm)
    OBVIOUS
  <2>6. type \in MessageTypes
    BY <2>5 DEF MessageTypes
  <2>7. b \in Message
    BY <1>3, <2>5, <2>6, MsgType, Zenon
  <2>8. b.type = "MsgAppResp" /\ b.from = id /\ b.term = r.term
    BY <2>5 DEF Msg
  <2>9. no \in BOOLEAN /\ hint \in Nat /\ index \in Nat
    BY <1>3, <1>5, <2>1, <2>3
  <2>10. MessageRejectionAs(b, index, no, hint, logTerm) =
            [type |-> b.type, from |-> b.from, to |-> b.to, term |-> b.term, index |-> index,
             logTerm |-> logTerm, commit |-> b.commit, reject |-> no, hint |-> hint,
             entries |-> b.entries, snapshot |-> b.snapshot]
    BY <2>4, <2>7, <2>9, MessageRejection
  <2>11. x \in Message
    BY <1>3, <2>4, <2>5, <2>7, <2>9, <2>10 DEF Message
  <2>12. x.type = "MsgAppResp" /\ x.from = id /\ x.term = r.term /\ x.reject
    <3>1. x.type = b.type /\ x.from = b.from /\ x.term = b.term /\ x.reject = no
      BY <2>5, <2>10
    <3> QED
      BY <2>1, <2>8, <3>1
  <2>13. q = Send(s, x)
    <3>1. x = [b EXCEPT !.index = index, !.reject = TRUE, !.hint = hint, !.logTerm = logTerm]
      BY <2>1, <2>5 DEF MessageRejectionAs
    <3>2. q = Send(s, [b EXCEPT !.index = index, !.reject = TRUE, !.hint = hint, !.logTerm = logTerm])
      BY <1>1, <1>2, <1>11, <2>1, <2>5, Zenon DEF HandleAppend
    <3> QED
      BY <3>1, <3>2
  <2>14. q = [raw |-> r, out |-> {x}]
    BY <1>1, <2>13 DEF Send
  <2>15. q \in Outcome /\ q.raw = r /\ q.out = {x}
    BY <2>11, <2>14 DEF Outcome
  <2>16. VoteKept(r, r) /\ TermComes(r, m, r) /\ RoleComes(id, r, m, r) /\ VotesShort(r)
         /\ StorageComes(r, m, r) /\ CommitComes(id, r, m, r) /\ MatchComes(r, m, r)
    BY <1>3 DEF VoteKept, TermComes, RoleComes, VotesShort, StorageComes, LogComes, CommitComes, MatchComes
  <2>17. Sends(id, r, m, q)
    BY <2>12, <2>15 DEF Sends
  <2>18. Stepped(id, r, m, q)
    BY <2>15, <2>16, <2>17 DEF Stepped
  <2> QED
    BY <1>1, <2>18
<1> QED
  BY <1>9, <1>10, <1>11

\* A snapshot of the leader.
LEMMA HandleSnapshotStepped ==
    ASSUME NEW id \in Nodes, NEW r \in RawState, NEW m \in Message, ~r.restored,
           r.role = "follower", m.type = "MsgSnap", m.term = r.term
    PROVE  Stepped(id, r, m, HandleSnapshot([raw |-> r, out |-> {}], id, m))
<1>1. PICK s, q : s = [raw |-> r, out |-> {}] /\ q = HandleSnapshot(s, id, m)
  OBVIOUS
<1>2. s \in Outcome /\ s.raw = r /\ s.out = {}
  BY <1>1 DEF Outcome
<1>3. m.from \in Nodes /\ r.term \in Nat /\ r.commit \in Nat
  BY DEF Message, RawState
<1>4. m.snapshot \in Seq(Entry) /\ r.log \in Seq(Entry)
  BY DEF Message, RawState
<1>5. PICK index : index = Len(m.snapshot)
  OBVIOUS
<1>6. index \in Nat /\ LastIndex(r) \in Nat /\ LastIndex(r) = Len(r.log)
  BY <1>4, <1>5 DEF LastIndex
<1>7. m.type \in FromLeader
  BY DEF FromLeader
<1>8. CASE index <= r.commit
  <2>1. q = Send(s, [Msg("MsgAppResp", id, m.from, r.term) EXCEPT !.index = r.commit])
    BY <1>1, <1>2, <1>5, <1>8, Zenon DEF HandleSnapshot
  <2>2. q = [raw |-> r, out |-> {[Msg("MsgAppResp", id, m.from, r.term) EXCEPT !.index = r.commit]}]
    BY <1>1, <2>1 DEF Send
  <2>3. FollowerAfter(r, r) /\ StorageComes(r, m, r) /\ CommitComes(id, r, m, r)
    BY DEF FollowerAfter, StorageComes, LogComes, CommitComes
  <2>4. Acknowledges(r, m, r, r.commit)
    BY <1>7 DEF Acknowledges
  <2>5. Stepped(id, r, m, q)
    BY <1>3, <1>7, <2>2, <2>3, <2>4, AnswerStepped
  <2> QED
    BY <1>1, <2>5
<1>9. CASE /\ ~(index <= r.commit)
           /\ index <= LastIndex(r) /\ TermAt(r, index) = m.snapshot[index].term
  <2>1. Known(r, m)
    <3>1. index \in 1..Len(r.log)
      BY <1>3, <1>6, <1>9
    <3> QED
      BY <1>5, <1>9, <3>1 DEF Known
  <2>2. PICK p : p = [r EXCEPT !.commit = index]
    OBVIOUS
  <2>3. /\ p \in RawState /\ p.term = r.term /\ p.vote = r.vote /\ p.role = r.role /\ p.log = r.log
        /\ p.first = r.first /\ p.snapshot = r.snapshot /\ p.applied = r.applied
        /\ p.restored = r.restored /\ p.commit = index
    BY <1>6, <2>2 DEF RawState
  <2>4. q = Send([s EXCEPT !.raw.commit = index],
                 [Msg("MsgAppResp", id, m.from, r.term) EXCEPT !.index = index])
    BY <1>1, <1>2, <1>5, <1>9, Zenon DEF HandleSnapshot
  <2>5. [s EXCEPT !.raw.commit = index] = [raw |-> p, out |-> {}]
    BY <1>1, <2>2
  <2>6. q = [raw |-> p, out |-> {[Msg("MsgAppResp", id, m.from, r.term) EXCEPT !.index = index]}]
    BY <2>4, <2>5 DEF Send
  <2>7. FollowerAfter(r, p) /\ StorageComes(r, m, p)
    BY <2>3 DEF FollowerAfter, StorageComes, LogComes
  <2>8. CommitComes(id, r, m, p)
    <3>1. p.commit > r.commit
      BY <1>3, <1>6, <1>9, <2>3
    <3> QED
      BY <1>5, <2>1, <2>3, <3>1 DEF CommitComes
  <2>9. Acknowledges(r, m, p, index)
    BY <1>7, <2>3 DEF Acknowledges
  <2>10. Stepped(id, r, m, q)
    BY <1>6, <1>7, <2>3, <2>6, <2>7, <2>8, <2>9, AnswerStepped
  <2> QED
    BY <1>1, <2>10
<1>10. CASE /\ ~(index <= r.commit)
            /\ ~(index <= LastIndex(r) /\ TermAt(r, index) = m.snapshot[index].term)
  <2>1. PICK log, first, restored : log = m.snapshot /\ first = index + 1 /\ restored = TRUE
    OBVIOUS
  <2>2. log \in Seq(Entry)
    BY <1>4, <2>1
  <2>3. first \in Nat \ {0}
    BY <1>6, <2>1
  <2>4. restored \in BOOLEAN
    BY <2>1
  <2>5. PICK p : p = RawRestoredAs(r, log, index, first, log, restored)
    OBVIOUS
  <2>6. RawRestoredAs(r, log, index, first, log, restored) =
          [term |-> r.term, vote |-> r.vote, role |-> r.role, lead |-> r.lead,
           commit |-> index, log |-> log, first |-> first, snapshot |-> log,
           applied |-> r.applied, restored |-> restored, votes |-> r.votes,
           progress |-> r.progress]
    BY <1>6, <2>2, <2>3, <2>4, RawRestored
  <2>7. p \in RawState
    BY <1>6, <2>2, <2>3, <2>4, <2>5, <2>6 DEF RawState
  <2>8. /\ p.term = r.term /\ p.vote = r.vote /\ p.role = r.role /\ p.log = log
        /\ p.snapshot = log /\ p.applied = r.applied /\ p.commit = index
    BY <2>5, <2>6
  <2>9. p.restored
    <3>1. p.restored = restored
      BY <2>5, <2>6
    <3> QED
      BY <2>1, <3>1
  <2>10. [s EXCEPT !.raw = p] = [raw |-> p, out |-> {}]
    BY <1>1
  <2>11. q = Send([s EXCEPT !.raw = p],
                  [Msg("MsgAppResp", id, m.from, r.term) EXCEPT !.index = index])
    <3>1. [s EXCEPT !.raw = [@ EXCEPT !.log = m.snapshot, !.commit = index, !.first = index + 1,
                                      !.snapshot = m.snapshot, !.restored = TRUE]]
            = [s EXCEPT !.raw = RawRestoredAs(s.raw, m.snapshot, index, index + 1, m.snapshot, TRUE)]
      BY Zenon DEF RawRestoredAs
    <3>2. RawRestoredAs(s.raw, m.snapshot, index, index + 1, m.snapshot, TRUE) = p
      BY <1>2, <2>1, <2>5, Zenon
    <3>3. q = Send([s EXCEPT !.raw = [@ EXCEPT !.log = m.snapshot, !.commit = index, !.first = index + 1,
                                      !.snapshot = m.snapshot, !.restored = TRUE]],
                   [Msg("MsgAppResp", id, m.from, r.term) EXCEPT !.index = index])
      BY <1>1, <1>2, <1>5, <1>10, Zenon DEF HandleSnapshot
    <3> QED
      BY <3>1, <3>2, <3>3, Zenon
  <2>12. q = [raw |-> p, out |-> {[Msg("MsgAppResp", id, m.from, r.term) EXCEPT !.index = index]}]
    BY <2>10, <2>11 DEF Send
  <2>13. p.commit > r.commit
    BY <1>3, <1>6, <1>10, <2>8
  <2>14. Restores(r, m, p)
    <3>1. ~Known(r, m)
      BY <1>5, <1>6, <1>10 DEF Known
    <3> QED
      BY <1>5, <2>1, <2>8, <2>13, <3>1 DEF Restores
  <2>15. FollowerAfter(r, p) /\ StorageComes(r, m, p)
    BY <2>7, <2>8, <2>9, <2>14 DEF FollowerAfter, StorageComes
  <2>16. CommitComes(id, r, m, p)
    BY <1>5, <2>8, <2>9, <2>13 DEF CommitComes
  <2>17. Acknowledges(r, m, p, index)
    BY <1>7, <2>8 DEF Acknowledges
  <2>18. Stepped(id, r, m, q)
    BY <1>6, <1>7, <2>7, <2>12, <2>15, <2>16, <2>17, AnswerStepped
  <2> QED
    BY <1>1, <2>18
<1> QED
  BY <1>8, <1>9, <1>10

----------------------------------------------------------------------------
(* Step.                                                                   *)

\* A leader's handling of a message of its term is what a step may do.
LEMMA StepLeaderStepped ==
    ASSUME NEW id \in Nodes, NEW r \in RawState, NEW m \in Message, ~r.restored,
           r.role = "leader", m.term = r.term
    PROVE  Stepped(id, r, m, StepLeader([raw |-> r, out |-> {}], id, m))
<1>1. PICK s, q : s = [raw |-> r, out |-> {}] /\ q = StepLeader(s, id, m)
  OBVIOUS
<1>2. s \in Outcome /\ s.raw = r /\ s.out = {}
  BY <1>1 DEF Outcome
<1>3. CASE m.type = "MsgAppResp"
  <2>1. q = HandleAppendResponse(s, id, m)
    BY <1>1, <1>3 DEF StepLeader
  <2>2. LeaderHears(id, s, m, q)
    BY <1>2, <1>3, <2>1, HandleAppendResponseHears
  <2>3. Stepped(id, s.raw, m, q)
    BY <1>2, <1>3, <2>2, LeaderHearsStepped
  <2> QED
    BY <1>1, <1>2, <2>3
<1>4. CASE m.type = "MsgHeartbeatResp"
  <2>1. q = HandleHeartbeatResponse(s, id, m)
    BY <1>1, <1>4 DEF StepLeader
  <2>2. LeaderHears(id, s, m, q)
    BY <1>2, <2>1, HandleHeartbeatResponseHears
  <2>3. Stepped(id, s.raw, m, q)
    BY <1>2, <1>4, <2>2, LeaderHearsStepped
  <2> QED
    BY <1>1, <1>2, <2>3
<1>5. CASE m.type # "MsgAppResp" /\ m.type # "MsgHeartbeatResp"
  <2>1. q = s
    BY <1>1, <1>5 DEF StepLeader
  <2>2. VotesShort(r)
    BY DEF VotesShort
  <2>3. Stepped(id, r, m, [raw |-> r, out |-> {}])
    BY <2>2, IgnoredStepped
  <2> QED
    BY <1>1, <2>1, <2>3
<1> QED
  BY <1>3, <1>4, <1>5

\* A node that becomes a follower, or learns who leads, for a message.
LEMMA BecomeFollowerYields ==
    ASSUME NEW r \in RawState, NEW m \in Message, m.term >= r.term,
           m.term = r.term => r.role # "leader", m.type # "MsgProp",
           NEW lead \in Nodes \cup {None}
    PROVE  Yields(r, BecomeFollower(r, m.term, lead), m)
<1>1. PICK term : term = m.term
  OBVIOUS
<1>2. term \in Nat /\ r.term \in Nat /\ m.type # "MsgHup"
  BY <1>1 DEF Message, RawState
<1>3. PICK l : l = BecomeFollower(r, term, lead)
  OBVIOUS
<1>4. l \in RawState
  BY <1>2, <1>3, BecomeFollowerType
<1>5. /\ l.term = term /\ l.vote = IF term = r.term THEN r.vote ELSE None
      /\ l.role = "follower"
      /\ l.commit = r.commit /\ l.log = r.log /\ l.first = r.first
      /\ l.snapshot = r.snapshot /\ l.applied = r.applied /\ l.restored = r.restored
  BY <1>2, <1>3, BecomeFollowerIs
<1>6. VoteKept(r, l)
  BY <1>1, <1>2, <1>5 DEF VoteKept
<1> QED
  BY <1>1, <1>2, <1>3, <1>4, <1>5, <1>6 DEF Yields

\* A follower that learns its leader has yielded to the message.
LEMMA LearnsYields ==
    ASSUME NEW r \in RawState, NEW m \in Message, r.role = "follower", m.type # "MsgProp"
    PROVE  Yields(r, [r EXCEPT !.lead = m.from], m)
<1>1. PICK lead, l : lead = m.from /\ l = [r EXCEPT !.lead = lead]
  OBVIOUS
<1>2. lead \in Nodes /\ m.type # "MsgHup"
  BY <1>1 DEF Message
<1>3. /\ l \in RawState /\ l.term = r.term /\ l.vote = r.vote /\ l.role = r.role
      /\ l.commit = r.commit /\ l.log = r.log /\ l.first = r.first
      /\ l.snapshot = r.snapshot /\ l.applied = r.applied /\ l.restored = r.restored
  BY <1>1, <1>2 DEF RawState
<1>4. VoteKept(r, l)
  <2>1. r.term \in Nat
    BY DEF RawState
  <2> QED
    BY <1>3, <2>1 DEF VoteKept
<1> QED
  BY <1>1, <1>2, <1>3, <1>4 DEF Yields

\* A follower's or candidate's handling of a message of its term is what a step may do.
LEMMA StepFollowerStepped ==
    ASSUME NEW id \in Nodes, NEW r \in RawState, NEW m \in Message, VotesShort(r), ~r.restored,
           r.role # "leader", m.term = r.term, m.type # "MsgProp"
    PROVE  Stepped(id, r, m, StepFollower([raw |-> r, out |-> {}], id, m))
<1>1. PICK s, q : s = [raw |-> r, out |-> {}] /\ q = StepFollower(s, id, m)
  OBVIOUS
<1>2. s \in Outcome /\ s.raw = r /\ s.out = {}
  BY <1>1 DEF Outcome
<1>3. m.from \in Nodes
  BY DEF Message
<1>4. PICK l : l = IF r.role = "candidate" THEN BecomeFollower(r, m.term, m.from)
                   ELSE [r EXCEPT !.lead = m.from]
  OBVIOUS
<1>5. Yields(r, l, m)
  <2>1. CASE r.role = "candidate"
    <3>1. m.term >= r.term
      BY DEF Message
    <3>2. Yields(r, BecomeFollower(r, m.term, m.from), m)
      BY <1>3, <2>1, <3>1, BecomeFollowerYields
    <3> QED
      BY <1>4, <2>1, <3>2
  <2>2. CASE r.role # "candidate"
    <3>1. r.role = "follower"
      BY <2>2 DEF RawState, Roles
    <3>2. Yields(r, [r EXCEPT !.lead = m.from], m)
      BY <3>1, LearnsYields
    <3> QED
      BY <1>4, <2>2, <3>2
  <2> QED
    BY <2>1, <2>2
<1>6. l \in RawState /\ l.role = "follower" /\ l.term = m.term /\ ~l.restored
  BY <1>5 DEF Yields
<1>7. PICK led : led = [raw |-> l, out |-> {}]
  OBVIOUS
<1>8. [s EXCEPT !.raw = IF @.role = "candidate" THEN BecomeFollower(@, m.term, m.from)
                        ELSE [@ EXCEPT !.lead = m.from]] = led
  BY <1>1, <1>4, <1>7
<1>9. CASE m.type = "MsgApp"
  <2>1. q = HandleAppend(led, id, m)
    BY <1>1, <1>8, <1>9, Zenon DEF StepFollower
  <2>2. Stepped(id, l, m, q)
    BY <1>6, <1>7, <1>9, <2>1, HandleAppendStepped
  <2> QED
    BY <1>1, <1>5, <1>6, <2>2, YieldsStepped
<1>10. CASE m.type = "MsgHeartbeat"
  <2>1. q = HandleHeartbeat(led, id, m)
    BY <1>1, <1>8, <1>10, Zenon DEF StepFollower
  <2>2. Stepped(id, l, m, q)
    BY <1>6, <1>7, <1>10, <2>1, HandleHeartbeatStepped
  <2> QED
    BY <1>1, <1>5, <1>6, <2>2, YieldsStepped
<1>11. CASE m.type = "MsgSnap"
  <2>1. q = HandleSnapshot(led, id, m)
    BY <1>1, <1>8, <1>11, Zenon DEF StepFollower
  <2>2. Stepped(id, l, m, q)
    BY <1>6, <1>7, <1>11, <2>1, HandleSnapshotStepped
  <2> QED
    BY <1>1, <1>5, <1>6, <2>2, YieldsStepped
<1>12. CASE m.type = "MsgVoteResp" /\ r.role = "candidate"
  <2>1. q = Poll(s, id, {m.from}, ~m.reject)
    BY <1>1, <1>2, <1>12, Zenon DEF StepFollower
  <2> QED
    BY <1>1, <1>12, <2>1, PollStepped
<1>13. CASE /\ m.type \notin {"MsgApp", "MsgHeartbeat", "MsgSnap"}
            /\ ~(m.type = "MsgVoteResp" /\ r.role = "candidate")
  <2>1. q = s
    BY <1>1, <1>2, <1>13 DEF StepFollower
  <2>2. Stepped(id, r, m, [raw |-> r, out |-> {}])
    BY <1>13, IgnoredStepped
  <2> QED
    BY <1>1, <2>1, <2>2
<1> QED
  BY <1>9, <1>10, <1>11, <1>12, <1>13

\* What a node does with a message of its term.
Handled(s, id, m) ==
    IF m.type = "MsgVote" THEN HandleVote(s, id, m)
    ELSE IF s.raw.role = "leader" THEN StepLeader(s, id, m) ELSE StepFollower(s, id, m)

\* The handling of a message of the node's term is what a step may do.
LEMMA HandledStepped ==
    ASSUME NEW id \in Nodes, NEW r \in RawState, NEW m \in Message, VotesShort(r), ~r.restored,
           m.term = r.term, m.type # "MsgProp"
    PROVE  Stepped(id, r, m, Handled([raw |-> r, out |-> {}], id, m))
<1>1. PICK s : s = [raw |-> r, out |-> {}]
  OBVIOUS
<1>2. s.raw = r
  BY <1>1
<1>3. CASE m.type = "MsgVote"
  BY <1>1, <1>3, HandleVoteStepped DEF Handled
<1>4. CASE m.type # "MsgVote" /\ r.role = "leader"
  BY <1>1, <1>2, <1>4, StepLeaderStepped DEF Handled
<1>5. CASE m.type # "MsgVote" /\ r.role # "leader"
  BY <1>1, <1>2, <1>5, StepFollowerStepped DEF Handled
<1> QED
  BY <1>3, <1>4, <1>5

\* Every message a RawNode is given does what Stepped says (raft.Step, with the handler of the role).
THEOREM StepStepped ==
    ASSUME NEW id \in Nodes, NEW r \in RawState, NEW m \in Message, VotesShort(r), ~r.restored,
           m.type = "MsgProp" => m.entries # <<>>
    PROVE  Stepped(id, r, m, Step(r, id, m))
<1>1. PICK l, s, q : l = CatchUp(r, m) /\ s = [raw |-> l, out |-> {}] /\ q = Step(r, id, m)
  OBVIOUS
<1>3. m.term \in Nat /\ r.term \in Nat /\ m.from \in Nodes
  BY DEF Message, RawState
<1>4. s.raw = l
  BY <1>1
<1>5. CASE m.type = "MsgProp" /\ ProposalDropped(r)
  <2>1. q = [raw |-> r, out |-> {}]
    BY <1>1, <1>5, Zenon DEF Step
  <2>2. Stepped(id, r, m, [raw |-> r, out |-> {}])
    BY <1>5, IgnoredStepped
  <2> QED
    BY <1>1, <2>1, <2>2
<1>6. CASE m.type = "MsgProp" /\ ~ProposalDropped(r)
  <2>1. q = Propose([raw |-> r, out |-> {}], id, m)
    BY <1>1, <1>6, Zenon DEF Step
  <2>2. Stepped(id, r, m, Propose([raw |-> r, out |-> {}], id, m))
    BY <1>6, ProposeStepped
  <2> QED
    BY <1>1, <2>1, <2>2
<1>7. CASE m.type # "MsgProp" /\ m.term < r.term
  <2>1. q = [raw |-> r, out |-> {}]
    BY <1>1, <1>7, Zenon DEF Step
  <2>2. m.term # r.term
    BY <1>3, <1>7
  <2>3. Stepped(id, r, m, [raw |-> r, out |-> {}])
    BY <2>2, IgnoredStepped
  <2> QED
    BY <1>1, <2>1, <2>3
<1>8. CASE m.type # "MsgProp" /\ ~(m.term < r.term)
  <2>1. q = Handled(s, id, m)
    BY <1>1, <1>8, Zenon DEF Step, Handled
  <2>2. CASE m.term = r.term
    <3>1. l = r
      BY <1>1, <1>3, <2>2 DEF CatchUp
    <3>2. Stepped(id, r, m, Handled([raw |-> r, out |-> {}], id, m))
      BY <1>8, <2>2, HandledStepped
    <3> QED
      BY <1>1, <2>1, <3>1, <3>2
  <2>3. CASE m.term # r.term
    <3>1. m.term > r.term /\ m.term >= r.term
      BY <1>3, <1>8, <2>3
    <3>2. PICK lead : lead = IF m.type \in FromLeader THEN m.from ELSE None
      OBVIOUS
    <3>3. lead \in Nodes \cup {None}
      BY <1>3, <3>2
    <3>4. l = BecomeFollower(r, m.term, lead)
      BY <1>1, <3>1, <3>2, Zenon DEF CatchUp
    <3>5. Yields(r, l, m)
      BY <1>8, <2>3, <3>1, <3>3, <3>4, BecomeFollowerYields
    <3>6. l \in RawState /\ l.role = "follower" /\ ~l.restored
      BY <3>5 DEF Yields
    <3>7. l.term = m.term
      BY <1>3, <3>3, <3>4, BecomeFollowerIs
    <3>8. VotesShort(l)
      BY <3>6 DEF VotesShort
    <3>9. Stepped(id, l, m, Handled([raw |-> l, out |-> {}], id, m))
      BY <1>8, <3>6, <3>7, <3>8, HandledStepped
    <3> QED
      BY <1>1, <2>1, <3>5, <3>6, <3>9, YieldsStepped
  <2> QED
    BY <2>2, <2>3
<1> QED
  BY <1>5, <1>6, <1>7, <1>8
=============================================================================
