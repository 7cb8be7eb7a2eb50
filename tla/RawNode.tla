------------------------------ MODULE RawNode ------------------------------
(***************************************************************************)
(* go.etcd.io/raft/v3 (external): the RawNode the etcd-raft adapter drives,*)
(* with the configuration of config.go: PreVote, CheckQuorum and asynchro- *)
(* nous storage off, messages of unlimited size, two members or more.      *)
(*                                                                         *)
(* An operation takes and returns a pair [raw, out]: the state of the node *)
(* and the messages it wants to send.  The messages of one operation go to *)
(* the network together, so `out` is a set.  A log is the sequence of all  *)
(* its entries: entries below `first` are compacted and cannot be read.    *)
(* A snapshot is the sequence of the entries it stands for.                *)
(***************************************************************************)
EXTENDS Integers, Sequences, FiniteSets, FiniteSetsExt

CONSTANTS
    Nodes,      \* Config.NodeIDs, the voters
    None,       \* raft.None, no node
    NoOp        \* the empty entry a new leader appends

ASSUME VotersAssumption == IsFiniteSet(Nodes) /\ Cardinality(Nodes) >= 2 /\ None \notin Nodes

MinOf(a, b) == IF a <= b THEN a ELSE b
IsQuorum(S) == 2 * Cardinality(S) > Cardinality(Nodes)

LastIndex(r) == Len(r.log)
TermAt(r, k) == IF k = 0 THEN 0 ELSE r.log[k].term
LastTerm(r) == TermAt(r, LastIndex(r))

(* raftLog.findConflictByTerm: the largest index up to k whose term is at  *)
(* most t, or the first unreadable one on the way down.                    *)
Readable(r, k) == k > 0 /\ k >= r.first - 1
FindConflictByTerm(r, k, t) ==
    Max({c \in 0..k : ~Readable(r, c) \/ TermAt(r, c) <= t})

FreshProgress == [match |-> 0, next |-> 1, mode |-> "probe", paused |-> FALSE,
                  sentCommit |-> 0, active |-> FALSE]

InitRaw == [term |-> 0, vote |-> None, role |-> "follower", lead |-> None,
            commit |-> 0, log |-> <<>>, first |-> 1, snapshot |-> <<>>,
            applied |-> 0, restored |-> FALSE,       \* restored: Ready holds a snapshot
            votes |-> [p \in {} |-> TRUE],           \* tracker.Votes
            progress |-> [p \in Nodes |-> FreshProgress]]

(* Entries and messages.  A message has every field, those its type does   *)
(* not use at zero.                                                        *)
Entry == [term : Nat, value : Nat \cup {NoOp}]

Message ==
    [type : {"MsgProp", "MsgApp", "MsgAppResp", "MsgVote", "MsgVoteResp", "MsgHeartbeat",
             "MsgHeartbeatResp", "MsgSnap"},
     from : Nodes, to : Nodes, term : Nat, index : Nat, logTerm : Nat, commit : Nat,
     reject : BOOLEAN, hint : Nat, entries : Seq(Entry), snapshot : Seq(Entry)]

Msg(type, from, to, term) ==
    [type |-> type, from |-> from, to |-> to, term |-> term, index |-> 0, logTerm |-> 0,
     commit |-> 0, reject |-> FALSE, hint |-> 0, entries |-> <<>>, snapshot |-> <<>>]

Send(s, m) == [s EXCEPT !.out = @ \cup {m}]

(* raft.reset, and becomeFollower.                                         *)
Reset(r, term) ==
    [r EXCEPT !.vote = IF term = r.term THEN @ ELSE None,
              !.term = term, !.lead = None,
              !.votes = [p \in {} |-> TRUE],
              !.progress = [p \in Nodes |-> FreshProgress]]

BecomeFollower(r, term, lead) == [Reset(r, term) EXCEPT !.role = "follower", !.lead = lead]

------------------------------------------------------------------------------
(* Leader: progress of the followers and replication.                      *)

Paused(pr) == pr.mode = "snapshot" \/ pr.paused

BecomeProbe(pr) ==
    [pr EXCEPT !.mode = "probe", !.paused = FALSE, !.next = pr.match + 1,
               !.sentCommit = MinOf(@, pr.match)]
BecomeReplicate(pr) == [pr EXCEPT !.mode = "replicate", !.paused = FALSE, !.next = pr.match + 1]

(* A snapshot goes only to a follower that has been heard of.              *)
SendSnapshot(s, id, to) ==
    LET r == s.raw
        index == Len(r.snapshot)
    IN  IF ~r.progress[to].active THEN s
        ELSE Send([s EXCEPT !.raw.progress[to] =
                       [@ EXCEPT !.mode = "snapshot", !.paused = FALSE,
                                 !.next = index + 1, !.sentCommit = index]],
                  [Msg("MsgSnap", id, to, r.term) EXCEPT !.snapshot = r.snapshot])

(* maybeSendAppend: everything from next on, in one message, or a snapshot *)
(* where the log does not know the term of the entry before it.            *)
SendAppend(s, id, to, sendIfEmpty) ==
    LET r == s.raw
        pr == r.progress[to]
        entries == SubSeq(r.log, pr.next, LastIndex(r))
        sent == [pr EXCEPT !.next = IF pr.mode = "replicate" THEN @ + Len(entries) ELSE @,
                           !.paused = @ \/ (pr.mode = "probe" /\ entries # <<>>),
                           !.sentCommit = r.commit]
    IN  IF Paused(pr) THEN s
        ELSE IF pr.next < r.first \/ pr.next > LastIndex(r) + 1 THEN SendSnapshot(s, id, to)
        ELSE IF entries = <<>> /\ ~sendIfEmpty THEN s
        ELSE Send([s EXCEPT !.raw.progress[to] = sent],
                  [Msg("MsgApp", id, to, r.term) EXCEPT
                       !.index = pr.next - 1, !.logTerm = TermAt(r, pr.next - 1),
                       !.entries = entries, !.commit = r.commit])

BroadcastAppend(s, id) ==
    [raw |-> [s.raw EXCEPT !.progress =
                  [p \in Nodes |-> IF p = id THEN @[p]
                                   ELSE SendAppend(s, id, p, TRUE).raw.progress[p]]],
     out |-> s.out \cup UNION {SendAppend(s, id, p, TRUE).out : p \in Nodes \ {id}}]

(* bcastHeartbeat: a follower is never told more than it has acknowledged. *)
BroadcastHeartbeat(s, id) ==
    LET r == s.raw
        told(p) == MinOf(r.progress[p].match, r.commit)
    IN  [raw |-> [r EXCEPT !.progress = [p \in Nodes |-> IF p = id THEN @[p]
                                            ELSE [@[p] EXCEPT !.sentCommit = told(p)]]],
         out |-> s.out \cup {[Msg("MsgHeartbeat", id, p, r.term) EXCEPT !.commit = told(p)] :
                                p \in Nodes \ {id}}]

(* maybeCommit: a quorum holds the index, and its entry is of this term.   *)
(* The leader's own acknowledgement is counted as soon as it has appended. *)
MaybeCommit(r, id) ==
    LET held(k) == {id} \cup {p \in Nodes \ {id} : r.progress[p].match >= k}
        index == Max({0} \cup {k \in 1..LastIndex(r) : IsQuorum(held(k))})
    IN  IF index > r.commit /\ TermAt(r, index) = r.term THEN [r EXCEPT !.commit = index] ELSE r

AppendEntry(s, id, value) ==
    BroadcastAppend([s EXCEPT !.raw.log = Append(@, [term |-> s.raw.term, value |-> value])], id)

BecomeLeader(s, id) ==
    LET r == Reset(s.raw, s.raw.term)
        next == [FreshProgress EXCEPT !.next = LastIndex(r) + 1]
    IN  AppendEntry([s EXCEPT !.raw = [r EXCEPT !.role = "leader", !.lead = id,
                                                !.progress = [p \in Nodes |-> next]]], id, NoOp)

(* MsgAppResp at the leader.                                               *)
MaybeDecrTo(r, m) ==
    LET pr == r.progress[m.from]
        probe == IF m.logTerm > 0 THEN FindConflictByTerm(r, MinOf(m.hint, LastIndex(r)), m.logTerm)
                 ELSE m.hint
        next == Max({MinOf(m.index, probe + 1), pr.match + 1})
    IN  IF pr.mode = "replicate"
        THEN IF m.index <= pr.match THEN pr ELSE BecomeProbe(pr)
        ELSE IF pr.next - 1 # m.index THEN pr
        ELSE [pr EXCEPT !.next = next, !.paused = FALSE, !.sentCommit = MinOf(@, next - 1)]

(* Whether the rejection is news: a stale one leaves the progress alone.   *)
Decreased(r, m) ==
    LET pr == r.progress[m.from]
    IN  IF pr.mode = "replicate" THEN m.index > pr.match ELSE pr.next - 1 = m.index

AppendRejected(s, id, m) ==
    IF Decreased(s.raw, m)
    THEN SendAppend([s EXCEPT !.raw.progress[m.from] = MaybeDecrTo(s.raw, m)], id, m.from, TRUE)
    ELSE s

CanBumpCommit(pr, commit) == commit > pr.sentCommit /\ pr.sentCommit < pr.next - 1

AppendAccepted(s, id, m) ==
    LET pr == s.raw.progress[m.from]
        news == m.index > pr.match
        updated == IF news THEN [pr EXCEPT !.match = m.index, !.paused = FALSE,
                                           !.next = Max({@, m.index + 1})]
                   ELSE pr
        moved == IF \/ updated.mode = "probe"
                    \/ updated.mode = "snapshot" /\ updated.match + 1 >= s.raw.first
                 THEN BecomeReplicate(updated)
                 ELSE updated
        known == [s EXCEPT !.raw.progress[m.from] = moved]
        committed == MaybeCommit(known.raw, id)
        answered == IF committed # known.raw
                    THEN BroadcastAppend([known EXCEPT !.raw = committed], id)
                    ELSE IF CanBumpCommit(moved, known.raw.commit)
                    THEN SendAppend(known, id, m.from, TRUE)
                    ELSE known
    IN  IF ~news /\ ~(pr.match = m.index /\ pr.mode = "probe") THEN s
        ELSE SendAppend(answered, id, m.from, FALSE)

HandleAppendResponse(s, id, m) ==
    LET heard == [s EXCEPT !.raw.progress[m.from].active = TRUE]
    IN  IF m.reject THEN AppendRejected(heard, id, m) ELSE AppendAccepted(heard, id, m)

HandleHeartbeatResponse(s, id, m) ==
    LET heard == [s EXCEPT !.raw.progress[m.from] = [@ EXCEPT !.active = TRUE, !.paused = FALSE]]
        pr == heard.raw.progress[m.from]
    IN  IF pr.match < LastIndex(s.raw) \/ pr.mode = "probe"
        THEN SendAppend(heard, id, m.from, TRUE)
        ELSE heard

------------------------------------------------------------------------------
(* Elections.                                                              *)

UpToDate(r, m) ==
    m.logTerm > LastTerm(r) \/ (m.logTerm = LastTerm(r) /\ m.index >= LastIndex(r))

HandleVote(s, id, m) ==
    LET r == s.raw
        grant == (r.vote = m.from \/ (r.vote = None /\ r.lead = None)) /\ UpToDate(r, m)
    IN  Send([s EXCEPT !.raw.vote = IF grant THEN m.from ELSE @],
             [Msg("MsgVoteResp", id, m.from, m.term) EXCEPT !.reject = ~grant])

(* poll, for voters with the same answer: the first of a voter counts.     *)
Poll(s, id, voters, granted) ==
    LET r == [s.raw EXCEPT !.votes = [p \in DOMAIN @ \cup voters |->
                                          IF p \in DOMAIN s.raw.votes THEN s.raw.votes[p] ELSE granted]]
        granting == {p \in DOMAIN r.votes : r.votes[p]}
    IN  IF IsQuorum(granting) THEN BecomeLeader([s EXCEPT !.raw = r], id)
        ELSE IF ~IsQuorum(granting \cup (Nodes \ DOMAIN r.votes))
        THEN [s EXCEPT !.raw = BecomeFollower(r, r.term, None)]
        ELSE [s EXCEPT !.raw = r]

(* MsgHup, by Campaign or by the election timer.  A leader ignores it.  The*)
(* vote for itself is answered within the operation.                       *)
Campaign(r, id) ==
    LET c == [Reset(r, r.term + 1) EXCEPT !.role = "candidate", !.vote = id]
        asked == {[Msg("MsgVote", id, p, c.term) EXCEPT
                       !.index = LastIndex(c), !.logTerm = LastTerm(c)] : p \in Nodes \ {id}}
    IN  IF r.role = "leader" THEN [raw |-> r, out |-> {}]
        ELSE Poll([raw |-> c, out |-> asked], id, {id}, TRUE)

------------------------------------------------------------------------------
(* Follower: log, heartbeats and snapshots of the leader.                  *)

(* maybeAppend: the log is cut at the first entry that disagrees, never    *)
(* where all of them agree.                                                *)
HandleAppend(s, id, m) ==
    LET r == s.raw
        last == m.index + Len(m.entries)
        matches == m.index <= LastIndex(r) /\ TermAt(r, m.index) = m.logTerm
        agrees == /\ last <= LastIndex(r)
                  /\ \A k \in 1..Len(m.entries) : TermAt(r, m.index + k) = m.entries[k].term
        appended == IF agrees THEN r.log ELSE SubSeq(r.log, 1, m.index) \o m.entries
        hint == FindConflictByTerm(r, MinOf(m.index, LastIndex(r)), m.logTerm)
        response == Msg("MsgAppResp", id, m.from, r.term)
    IN  IF m.index < r.commit
        THEN Send(s, [response EXCEPT !.index = r.commit])
        ELSE IF matches
        THEN Send([s EXCEPT !.raw.log = appended,
                            !.raw.commit = Max({@, MinOf(m.commit, last)})],
                  [response EXCEPT !.index = last])
        ELSE Send(s, [response EXCEPT
                          !.index = m.index, !.reject = TRUE, !.hint = hint,
                          !.logTerm = IF Readable(r, hint) THEN TermAt(r, hint) ELSE 0])

HandleHeartbeat(s, id, m) ==
    Send([s EXCEPT !.raw.commit = Max({@, m.commit})], Msg("MsgHeartbeatResp", id, m.from, s.raw.term))

HandleSnapshot(s, id, m) ==
    LET r == s.raw
        index == Len(m.snapshot)
        known == index <= LastIndex(r) /\ TermAt(r, index) = m.snapshot[index].term
        response == Msg("MsgAppResp", id, m.from, r.term)
    IN  IF index <= r.commit THEN Send(s, [response EXCEPT !.index = r.commit])
        ELSE IF known
        THEN Send([s EXCEPT !.raw.commit = index], [response EXCEPT !.index = index])
        ELSE Send([s EXCEPT !.raw = [@ EXCEPT !.log = m.snapshot, !.commit = index,
                                              !.first = index + 1, !.snapshot = m.snapshot,
                                              !.restored = TRUE]],
                  [response EXCEPT !.index = index])

------------------------------------------------------------------------------
(* Step.                                                                   *)

FromLeader == {"MsgApp", "MsgHeartbeat", "MsgSnap"}

(* A message of a later term makes the node a follower of that term first. *)
CatchUp(r, m) ==
    IF m.term > r.term
    THEN BecomeFollower(r, m.term, IF m.type \in FromLeader THEN m.from ELSE None)
    ELSE r

StepLeader(s, id, m) ==
    CASE m.type = "MsgAppResp" -> HandleAppendResponse(s, id, m)
      [] m.type = "MsgHeartbeatResp" -> HandleHeartbeatResponse(s, id, m)
      [] OTHER -> s

StepFollower(s, id, m) ==
    LET led == [s EXCEPT !.raw = IF @.role = "candidate" THEN BecomeFollower(@, m.term, m.from)
                                 ELSE [@ EXCEPT !.lead = m.from]]
    IN  CASE m.type = "MsgApp" -> HandleAppend(led, id, m)
          [] m.type = "MsgHeartbeat" -> HandleHeartbeat(led, id, m)
          [] m.type = "MsgSnap" -> HandleSnapshot(led, id, m)
          [] m.type = "MsgVoteResp" /\ s.raw.role = "candidate" -> Poll(s, id, {m.from}, ~m.reject)
          [] OTHER -> s

(* A proposal has no term: the leader appends it, a follower passes it on  *)
(* under the name of its first sender, and without a leader it is dropped. *)
ProposalDropped(r) == r.role = "candidate" \/ (r.role = "follower" /\ r.lead = None)

Propose(s, id, m) ==
    IF s.raw.role = "leader" THEN AppendEntry(s, id, m.entries[1].value)
    ELSE Send(s, [m EXCEPT !.to = s.raw.lead])

Step(r, id, m) ==
    LET s == [raw |-> CatchUp(r, m), out |-> {}]
        asItWas == [raw |-> r, out |-> {}]
    IN  IF m.type = "MsgProp"
        THEN IF ProposalDropped(r) THEN asItWas ELSE Propose(asItWas, id, m)
        ELSE IF m.term < r.term THEN asItWas
        ELSE IF m.type = "MsgVote" THEN HandleVote(s, id, m)
        ELSE IF s.raw.role = "leader" THEN StepLeader(s, id, m)
        ELSE StepFollower(s, id, m)
=============================================================================
