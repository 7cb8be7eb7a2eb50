----------------------------- MODULE RaftMapper -----------------------------
(***************************************************************************)
(* internal/model/raft: which actions may run (ValidateAction) and which   *)
(* events of the reference model a transition stands for (Map).            *)
(*                                                                         *)
(* The mapper reads an action, the observations before and after it and    *)
(* the effects of the adapter's call, which are the parameters of these    *)
(* operators.  Parameters of the wrong type, which the adapter never       *)
(* produces, are not modelled.                                             *)
(***************************************************************************)
EXTENDS EtcdAdapter, SequencesExt

CONSTANTS MaxValue, MaxLogIndex, LargestTerm    \* the bounds of Config

ASSUME ModelBoundsAssumption == MaxValue \in Nat \ {0} /\ MaxLogIndex \in Nat \ {0} /\ LargestTerm \in Nat \ {0}

IsValue(v) == v \in 1..MaxValue

------------------------------------------------------------------------------
(* ValidateAction.                                                         *)

(* validateMessageMetadataBounds.                                          *)
MetadataInBounds(m) ==
    /\ m.term <= LargestTerm
    /\ m.type \in {"MsgVote", "MsgApp"} => m.logTerm <= LargestTerm
    /\ m.type \in {"MsgVote", "MsgApp", "MsgAppResp"} => m.index <= MaxLogIndex
    /\ m.type \in {"MsgApp", "MsgHeartbeat"} => m.commit <= MaxLogIndex
    /\ m.type = "MsgSnap" => /\ Len(m.snapshot) <= MaxLogIndex
                             /\ m.snapshot # <<>> => Last(m.snapshot).term <= LargestTerm

(* Mutant of ElectionFits: off by one.                                     *)
ElectionFitsFull(before, m) ==
    m.type = "MsgVoteResp" /\ ~m.reject /\ before[m.to].role = "candidate"
        => before[m.to].lastIndex <= MaxLogIndex

(* A vote may make a candidate leader, who appends an entry.               *)
ElectionFits(before, m) ==
    m.type = "MsgVoteResp" /\ ~m.reject /\ before[m.to].role = "candidate"
        => before[m.to].lastIndex < MaxLogIndex

DeliveryInBounds(before, m) ==
    LET to == before[m.to]
    IN  /\ MetadataInBounds(m)
        /\ m.type = "MsgProp" /\ to.role = "leader" => to.lastIndex + Len(m.entries) <= MaxLogIndex
        /\ m.type = "MsgApp" => m.index + Len(m.entries) <= MaxLogIndex
        /\ ElectionFits(before, m)

(* An action of one of these kinds on the observation `before`.  For one   *)
(* tick maximumElectionFires is 1 for a node whose election timer runs out *)
(* in it, and 0 for the others.                                            *)
ValidateAction(before, action) ==
    CASE action.kind = "advance_time" ->
             \A id \in Nodes : before[id].role \in {"follower", "candidate"} =>
                 before[id].term + (IF id \in action.fired THEN 1 ELSE 0) <= LargestTerm
      [] action.kind = "crash" -> before[action.node].running
      [] action.kind = "restart" -> ~before[action.node].running
      [] action.kind = "request" -> /\ before[action.node].role = "leader" =>
                                           before[action.node].lastIndex < MaxLogIndex
                                    /\ IsValue(action.value)
      [] action.kind = "timeout" -> before[action.node].term < LargestTerm
      [] action.kind = "deliver" -> DeliveryInBounds(before, action.message.payload)

------------------------------------------------------------------------------
(* Map.  Its value is [events, supported]: supported is FALSE where Map    *)
(* returns ErrUnsupportedSemantics.                                        *)

Events(list) == [events |-> list, supported |-> TRUE]
Unsupported == [events |-> <<>>, supported |-> FALSE]
Provided(condition, list) == IF condition THEN Events(list) ELSE Unsupported

(* The concatenation of what two parts of a transition map to.             *)
Then(a, b) == [events |-> a.events \o b.events, supported |-> a.supported /\ b.supported]

Event(name, node) == [name |-> name, node |-> node, value |-> NoOp, message |-> NoMessage]
RequestEvent(node, value) == [Event("ClientRequest", node) EXCEPT !.value = value]
DeliverEvent(m) == [Event("DeliverMessage", m.to) EXCEPT !.message = m]

ValidObservation(o) ==
    \A id \in Nodes : /\ o[id].term <= LargestTerm
                      /\ o[id].lastIndex <= MaxLogIndex /\ o[id].commit <= MaxLogIndex

MapAction(action, before, after) ==
    CASE action.kind = "request" ->
             IF before[action.node].role # "leader" THEN Provided(IsValue(action.value), <<>>)
             ELSE Provided(IsValue(action.value) /\ before[action.node].lastIndex < MaxLogIndex,
                           <<RequestEvent(action.node, action.value)>>)
      [] action.kind = "crash" -> Provided(before[action.node].running /\ ~after[action.node].running,
                                           <<Event("Remove", action.node)>>)
      [] action.kind = "restart" -> Provided(~before[action.node].running /\ after[action.node].running,
                                             <<Event("Add", action.node)>>)
      [] OTHER -> Events(<<>>)

(* Mutant of MapTimer: every election timer stands for a timeout.          *)
MapEveryTimer(t) == Provided(t.before < LargestTerm, <<Event("Timeout", t.node)>>)

(* An election timer that left the term alone stands for nothing.          *)
MapTimer(t) ==
    IF t.after = t.before THEN Events(<<>>)
    ELSE Provided(t.before < LargestTerm /\ t.after = t.before + 1, <<Event("Timeout", t.node)>>)

EntriesInBounds(m) ==
    \A k \in DOMAIN m.entries : /\ m.entries[k].term <= LargestTerm
                                /\ m.entries[k].value = NoOp \/ IsValue(m.entries[k].value)

(* MsgHeartbeat is mapped to an append without entries at index 0.         *)
MapHeartbeat(m) ==
    Events(<<DeliverEvent([Msg("MsgApp", m.from, m.to, m.term) EXCEPT !.commit = m.commit])>>)

(* A proposal counts once it reaches the leader.                           *)
MapProposal(before, m) ==
    IF before[m.to].role # "leader" THEN Events(<<>>)
    ELSE Provided(/\ m.entries # <<>> /\ EntriesInBounds(m)
                  /\ before[m.to].lastIndex + Len(m.entries) <= MaxLogIndex
                  /\ \A k \in DOMAIN m.entries : IsValue(m.entries[k].value),
                  [k \in DOMAIN m.entries |-> RequestEvent(m.to, m.entries[k].value)])

(* appendResponse: the answers to the leader among the effects.            *)
AppendResponses(effects, m) ==
    {e.payload : e \in {f \in effects.sent : /\ f.payload.type = "MsgAppResp"
                                            /\ f.payload.from = m.to /\ f.payload.to = m.from}}

(* The k-th entry of a batch as a message of its own.                      *)
SingleEntry(m, k) ==
    [m EXCEPT !.index = @ + k - 1,
              !.logTerm = IF k = 1 THEN @ ELSE m.entries[k - 1].term,
              !.entries = <<m.entries[k]>>]

(* Mutant of BehindCommit: off by one.                                     *)
UpToCommit(before, m) == m.index <= before[m.to].commit

BehindCommit(before, m) == m.index < before[m.to].commit

(* Behind the commit index etcd neither checks nor appends the entries: the*)
(* message only stands for its term.  A batch that was accepted becomes one*)
(* event per entry; one that was refused, or that got no answer because its*)
(* term is over, only its first.                                           *)
MapAppend(before, effects, m) ==
    LET termOnly == [Msg("MsgApp", m.from, m.to, m.term) EXCEPT !.commit = before[m.to].commit]
        plain == [Msg("MsgApp", m.from, m.to, m.term) EXCEPT
                     !.index = m.index, !.logTerm = m.logTerm, !.commit = m.commit,
                     !.entries = m.entries]
        accepted == \E r \in AppendResponses(effects, m) : ~r.reject
        count == IF accepted THEN Len(m.entries) ELSE 1
    IN  IF ~MetadataInBounds(m) \/ ~EntriesInBounds(m) \/ m.index + Len(m.entries) > MaxLogIndex
        THEN Unsupported
        ELSE IF BehindCommit(before, m) THEN Events(<<DeliverEvent(termOnly)>>)
        ELSE IF m.entries = <<>> THEN Events(<<DeliverEvent(plain)>>)
        ELSE Events([k \in 1..count |-> DeliverEvent(SingleEntry(plain, k))])

(* mapDeliveredMessage.  Responses to heartbeats and snapshots change      *)
(* nothing the reference model has.                                        *)
MapDelivered(before, effects, m) ==
    CASE m.type \in {"MsgHeartbeatResp", "MsgSnap"} -> Events(<<>>)
      [] m.type = "MsgHeartbeat" -> Provided(MetadataInBounds(m), MapHeartbeat(m).events)
      [] m.type = "MsgProp" -> MapProposal(before, m)
      [] m.type = "MsgApp" -> MapAppend(before, effects, m)
      [] m.type = "MsgVote" ->
             Provided(MetadataInBounds(m), <<DeliverEvent([Msg(m.type, m.from, m.to, m.term) EXCEPT
                                                              !.logTerm = m.logTerm, !.index = m.index])>>)
      [] m.type \in {"MsgVoteResp", "MsgAppResp"} ->
             Provided(MetadataInBounds(m), <<DeliverEvent([Msg(m.type, m.from, m.to, m.term) EXCEPT
                                                              !.index = m.index, !.reject = m.reject])>>)

(* becameLeaders: a new leader takes office and appends its empty entry.   *)
MapNewLeader(before, id) ==
    Provided(before[id].lastIndex < MaxLogIndex, <<Event("BecomeLeader", id), RequestEvent(id, NoOp)>>)

NewLeaders(before, after) ==
    {id \in Nodes : after[id].running /\ after[id].role = "leader" /\ before[id].role # "leader"}

(* Map: the action, the effects, the new leaders and the leaders that      *)
(* committed, in this order.  Nodes of one step are taken in any order:    *)
(* their events touch nothing of each other.                               *)
Map(action, effects, before, after) ==
    LET joined(parts) == FoldLeft(Then, Events(<<>>), parts)
        timers == [k \in DOMAIN SetToSeq(effects.timers) |-> MapTimer(SetToSeq(effects.timers)[k])]
        delivered == IF effects.delivered = NoMessage THEN Events(<<>>)
                     ELSE MapDelivered(before, effects, effects.delivered)
        leaders == SetToSeq(NewLeaders(before, after))
        committed == SetToSeq({id \in effects.committed : after[id].role = "leader"})
        parts == <<MapAction(action, before, after)>> \o timers \o <<delivered>>
                 \o [k \in DOMAIN leaders |-> MapNewLeader(before, leaders[k])]
                 \o [k \in DOMAIN committed |-> Events(<<Event("AdvanceCommitIndex", committed[k])>>)]
    IN  IF ValidObservation(before) /\ ValidObservation(after) THEN joined(parts) ELSE Unsupported
=============================================================================
