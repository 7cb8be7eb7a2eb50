----------------------------- MODULE RaftModel -----------------------------
(***************************************************************************)
(* models/raft/raft.tla and the strict TLC server that executes it.        *)
(*                                                                         *)
(* The server never explores the reference model.  It binds each event it  *)
(* is sent to one action, asks for the successors of the current state,    *)
(* and refuses the trace unless there is exactly one and it satisfies the  *)
(* invariants.  So an action is here an operator from a state of the       *)
(* reference model to the set of its successors: empty where the action is *)
(* disabled.  The names are those of raft.tla.                             *)
(*                                                                         *)
(* nextIndex and votesResponded are left out: no guard and no other        *)
(* variable of raft.tla reads them, and they cannot leave their types where*)
(* matchIndex and votesGranted do not.                                     *)
(***************************************************************************)
EXTENDS Integers, Sequences, SequencesExt, FiniteSets, FiniteSetsExt

CONSTANTS Server, Nil, MaxValue, MaxLogIndex, LargestTerm

(* Mutant of Quorum: half of an even number of servers is enough.          *)
Halves == {q \in SUBSET Server : 2 * Cardinality(q) >= Cardinality(Server)}

Quorum == {q \in SUBSET Server : 2 * Cardinality(q) > Cardinality(Server)}

Least(a, b) == IF a <= b THEN a ELSE b

ModelInit ==
    [currentTerm |-> [i \in Server |-> 0],
     state |-> [i \in Server |-> "follower"],
     votedFor |-> [i \in Server |-> Nil],
     log |-> [i \in Server |-> <<>>],
     commitIndex |-> [i \in Server |-> 0],
     votesGranted |-> [i \in Server |-> {}],
     matchIndex |-> [i \in Server |-> [j \in Server |-> 0]],
     currentActive |-> Server]

(* The successors of s by an action: t where its guard holds.              *)
If(guard, t) == IF guard THEN {t} ELSE {}

(* Crash and restart.                                                      *)
RemoveFromActive(s, i) ==
    If(i \in s.currentActive, [s EXCEPT !.currentActive = @ \ {i}])

AddToActive(s, i) ==
    If(i \notin s.currentActive,
       [s EXCEPT !.currentActive = @ \cup {i}, !.state[i] = "follower",
                 !.votesGranted[i] = {}, !.matchIndex[i] = [j \in Server |-> 0]])

Timeout(s, i) ==
    If(i \in s.currentActive /\ s.state[i] # "leader" /\ s.currentTerm[i] < LargestTerm,
       [s EXCEPT !.state[i] = "candidate", !.currentTerm[i] = @ + 1, !.votedFor[i] = i,
                 !.votesGranted[i] = {i}])

BecomeLeader(s, i) ==
    If(i \in s.currentActive /\ s.state[i] = "candidate" /\ s.votesGranted[i] \in Quorum,
       [s EXCEPT !.state[i] = "leader", !.matchIndex[i] = [j \in Server |-> 0]])

ClientRequest(s, i, v) ==
    If(i \in s.currentActive /\ s.state[i] = "leader" /\ Len(s.log[i]) < MaxLogIndex,
       [s EXCEPT !.log[i] = Append(@, [term |-> s.currentTerm[i], value |-> v])])

(* The commit index a leader derives from the acknowledged indices.        *)
Agreed(s, i) ==
    {k \in 1..Len(s.log[i]) : {i} \cup {j \in Server : s.matchIndex[i][j] >= k} \in Quorum}
DerivedCommit(s, i) ==
    IF Agreed(s, i) # {} /\ s.log[i][Max(Agreed(s, i))].term = s.currentTerm[i]
    THEN Max(Agreed(s, i)) ELSE s.commitIndex[i]

AdvanceCommitIndex(s, i) ==
    If(i \in s.currentActive /\ s.state[i] = "leader",
       [s EXCEPT !.commitIndex[i] = DerivedCommit(s, i)])

(* A message of a later term makes the receiver a follower without a vote. *)
Observed(s, i, term) ==
    IF term > s.currentTerm[i]
    THEN [s EXCEPT !.currentTerm[i] = term, !.state[i] = "follower", !.votedFor[i] = Nil]
    ELSE s

(* i receives, j sent.                                                     *)
Receives(s, i, j) == i \in s.currentActive /\ i # j

HandleRequestVoteRequest(s, i, j, lTerm, lIndex, term) ==
    LET t == Observed(s, i, term)
        lastTerm == IF s.log[i] = <<>> THEN 0 ELSE Last(s.log[i]).term
        logOK == lTerm > lastTerm \/ (lTerm = lastTerm /\ lIndex >= Len(s.log[i]))
        grant == term = t.currentTerm[i] /\ logOK /\ t.votedFor[i] \in {Nil, j}
    IN  If(Receives(s, i, j), [t EXCEPT !.votedFor[i] = IF grant THEN j ELSE @])

HandleRequestVoteResponse(s, i, j, term, grant) ==
    LET counts == term = s.currentTerm[i] /\ s.state[i] = "candidate"
    IN  If(Receives(s, i, j),
           [Observed(s, i, term) EXCEPT
               !.votesGranted[i] = IF counts /\ grant THEN @ \cup {j} ELSE @])

(* MsgApp with no entry or with one: the log after it, where acceptable.   *)
LogMatches(s, i, pLogIndex, pLogTerm) ==
    pLogIndex = 0 \/ (pLogIndex <= Len(s.log[i]) /\ s.log[i][pLogIndex].term = pLogTerm)

AppendTo(l, pLogIndex, entries) ==
    IF entries = <<>> \/ (Len(l) > pLogIndex /\ l[pLogIndex + 1] = entries[1]) THEN l
    ELSE SubSeq(l, 1, pLogIndex) \o entries

HandleAppend(s, i, j, pLogIndex, pLogTerm, term, entries, cIndex) ==
    LET acceptable == term >= s.currentTerm[i] /\ LogMatches(s, i, pLogIndex, pLogTerm)
        newLog == IF acceptable THEN AppendTo(s.log[i], pLogIndex, entries) ELSE s.log[i]
        t == [Observed(s, i, term) EXCEPT
                 !.state[i] = IF term >= s.currentTerm[i] THEN "follower" ELSE @]
    IN  If(Receives(s, i, j),
           [t EXCEPT !.log[i] = newLog,
                     !.commitIndex[i] = IF acceptable THEN Least(cIndex, Len(newLog)) ELSE @])

HandleNilAppendEntriesRequest(s, i, j, pLogIndex, pLogTerm, term, cIndex) ==
    HandleAppend(s, i, j, pLogIndex, pLogTerm, term, <<>>, cIndex)

HandleAppendEntriesRequest(s, i, j, pLogIndex, pLogTerm, term, entry, cIndex) ==
    IF pLogIndex < MaxLogIndex
    THEN HandleAppend(s, i, j, pLogIndex, pLogTerm, term, <<entry>>, cIndex) ELSE {}

HandleAppendEntriesResponse(s, i, j, term, success, mIndex) ==
    LET canUse == term = s.currentTerm[i] /\ s.state[i] = "leader"
        acknowledged == [s EXCEPT !.matchIndex[i][j] = IF success THEN mIndex ELSE @]
    IN  If(Receives(s, i, j),
           IF canUse THEN [acknowledged EXCEPT !.commitIndex[i] = DerivedCommit(acknowledged, i)]
           ELSE Observed(s, i, term))

------------------------------------------------------------------------------
(* The invariants the server checks in every state it computes.            *)
Terms == 0..LargestTerm
LogIndices == 0..MaxLogIndex
AllValues == 1..MaxValue \cup {Nil}
ValidEntries == [term : Terms, value : AllValues]

TypeOK(s) ==
    \A i \in Server :
        /\ s.currentTerm[i] \in Terms
        /\ s.state[i] \in {"follower", "candidate", "leader"}
        /\ s.votedFor[i] \in Server \cup {Nil}
        /\ \A k \in DOMAIN s.log[i] : s.log[i][k] \in ValidEntries
        /\ Len(s.log[i]) <= MaxLogIndex
        /\ s.commitIndex[i] \in 0..Len(s.log[i])
        /\ s.votesGranted[i] \subseteq Server
        /\ \A j \in Server : s.matchIndex[i][j] \in LogIndices

OnlyOneLeader(s) ==
    \A i, j \in s.currentActive :
        i # j /\ s.currentTerm[i] = s.currentTerm[j] => ~(s.state[i] = "leader" /\ s.state[j] = "leader")

CommittedPrefixAgreement(s) ==
    \A i, j \in Server : \A k \in 1..Least(s.commitIndex[i], s.commitIndex[j]) :
        s.log[i][k] = s.log[j][k]

LogMatching(s) ==
    \A i, j \in Server : \A k \in 1..Least(Len(s.log[i]), Len(s.log[j])) :
        s.log[i][k].term = s.log[j][k].term => SubSeq(s.log[i], 1, k) = SubSeq(s.log[j], 1, k)

ValidState(s) ==
    TypeOK(s) /\ OnlyOneLeader(s) /\ CommittedPrefixAgreement(s) /\ LogMatching(s)

------------------------------------------------------------------------------
(* RaftEventMapper: the action an event is bound to.  ModelBounds refuses  *)
(* parameters outside the configuration before any action is looked up.    *)

InBounds(e) ==
    /\ e.node \in Server
    /\ e.name = "ClientRequest" => e.value \in AllValues
    /\ e.name = "DeliverMessage" =>
           /\ e.message.from \in Server
           /\ {e.message.term, e.message.logTerm} \subseteq Terms
           /\ {e.message.index, e.message.commit} \subseteq LogIndices
           /\ \A k \in DOMAIN e.message.entries : e.message.entries[k] \in ValidEntries

DeliveredAction(s, i, m) ==
    CASE m.type = "MsgVote" ->
             HandleRequestVoteRequest(s, i, m.from, m.logTerm, m.index, m.term)
      [] m.type = "MsgVoteResp" ->
             HandleRequestVoteResponse(s, i, m.from, m.term, ~m.reject)
      [] m.type = "MsgApp" /\ m.entries = <<>> ->
             HandleNilAppendEntriesRequest(s, i, m.from, m.index, m.logTerm, m.term, m.commit)
      [] m.type = "MsgApp" /\ m.entries # <<>> ->
             HandleAppendEntriesRequest(s, i, m.from, m.index, m.logTerm, m.term, m.entries[1], m.commit)
      [] m.type = "MsgAppResp" ->
             HandleAppendEntriesResponse(s, i, m.from, m.term, ~m.reject, m.index)

Successors(s, e) ==
    CASE e.name = "Remove" -> RemoveFromActive(s, e.node)
      [] e.name = "Add" -> AddToActive(s, e.node)
      [] e.name = "Timeout" -> Timeout(s, e.node)
      [] e.name = "BecomeLeader" -> BecomeLeader(s, e.node)
      [] e.name = "ClientRequest" -> ClientRequest(s, e.node, e.value)
      [] e.name = "AdvanceCommitIndex" -> AdvanceCommitIndex(s, e.node)
      [] e.name = "DeliverMessage" -> DeliveredAction(s, e.node, e.message)

(* StrictTLCServer.simulate: one event, then all of them in order.  A      *)
(* refusal keeps its code and ends the trace; x is [model, verdict].       *)
Accepted == "ok"

Simulate1(x, e) ==
    IF x.verdict # Accepted THEN x
    ELSE IF ~InBounds(e) THEN [x EXCEPT !.verdict = "unmapped_action"]
    ELSE LET next == Successors(x.model, e)
         IN  IF next = {} THEN [x EXCEPT !.verdict = "disabled_action"]
             ELSE LET t == CHOOSE s \in next : TRUE
                  IN  [model |-> t, verdict |-> IF ValidState(t) THEN Accepted ELSE "invariant_violation"]

Simulate(x, events) == FoldLeft(Simulate1, x, events)
=============================================================================
