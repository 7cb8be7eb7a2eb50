--------------------------- MODULE RuntimeProofs ---------------------------
(***************************************************************************)
(* What TLC finds for two members and a handful of identities, proved for  *)
(* every set of members and links, every limit and every identity range.   *)
(*                                                                         *)
(* Every step acts on the network in one of four ways (NetworkSteps), so   *)
(* the invariants about messages are proved over four cases, not twenty.   *)
(* StageSteps describes the stages of Execute by what they do to the clock,*)
(* the counters and the frame of the call.  From the two follow contiguous *)
(* step times, the hard limits and queues in order; that the network       *)
(* implements MessageLedger; and that the recorded steps alone say which   *)
(* messages are queued and which identities a replay of them hands out.    *)
(***************************************************************************)
EXTENDS Runtime, SequenceTheorems, FiniteSetTheorems, Induction, TLAPS

----------------------------------------------------------------------------
(* The helpers.                                                            *)

\* network.remove takes out exactly one message: the others keep their order,
\* those behind the removed one moving up by a position.
LEMMA RemoveAtProperties ==
    ASSUME NEW S, NEW s \in Seq(S), NEW p \in 1..Len(s)
    PROVE  /\ RemoveAt(s, p) \in Seq(S)
           /\ Len(RemoveAt(s, p)) = Len(s) - 1
           /\ \A i \in 1..(Len(s) - 1) :
                RemoveAt(s, p)[i] = s[IF i < p THEN i ELSE i + 1]
<1> DEFINE a == SubSeq(s, 1, p - 1)
           b == SubSeq(s, p + 1, Len(s))
<1>1. Len(s) \in Nat /\ \A i \in 1..Len(s) : s[i] \in S
  BY ElementOfSeq, LenProperties
<1>2. /\ a \in Seq(S) /\ Len(a) = p - 1
      /\ \A i \in 1..(p - 1) : a[i] = s[i]
  <2>1. \A i \in 1..(p - 1) : s[i] \in S
    BY <1>1
  <2>2. /\ SubSeq(s, 1, p - 1) \in Seq(S)
        /\ Len(SubSeq(s, 1, p - 1)) = IF 1 <= p - 1 THEN (p - 1) - 1 + 1 ELSE 0
        /\ \A i \in 1..((p - 1) - 1 + 1) : SubSeq(s, 1, p - 1)[i] = s[1 + i - 1]
    BY <1>1, <2>1, SubSeqProperties
  <2> QED
    BY <1>1, <2>2
<1>3. /\ b \in Seq(S) /\ Len(b) = Len(s) - p
      /\ \A i \in 1..(Len(s) - p) : b[i] = s[p + i]
  <2>1. \A i \in (p + 1)..Len(s) : s[i] \in S
    BY <1>1
  <2>2. /\ SubSeq(s, p + 1, Len(s)) \in Seq(S)
        /\ Len(SubSeq(s, p + 1, Len(s)))
             = IF p + 1 <= Len(s) THEN Len(s) - (p + 1) + 1 ELSE 0
        /\ \A i \in 1..(Len(s) - (p + 1) + 1) :
             SubSeq(s, p + 1, Len(s))[i] = s[(p + 1) + i - 1]
    BY <1>1, <2>1, SubSeqProperties
  <2> QED
    BY <1>1, <2>2
<1>4. /\ a \o b \in Seq(S)
      /\ Len(a \o b) = Len(a) + Len(b)
      /\ \A i \in 1..(Len(a) + Len(b)) :
           (a \o b)[i] = IF i <= Len(a) THEN a[i] ELSE b[i - Len(a)]
  <2> HIDE DEF a, b
  <2> QED BY <1>2, <1>3, ConcatProperties
<1>5. RemoveAt(s, p) = a \o b
  BY DEF RemoveAt
<1>6. ASSUME NEW i \in 1..(Len(s) - 1)
      PROVE  (a \o b)[i] = s[IF i < p THEN i ELSE i + 1]
  <2> HIDE DEF a, b
  <2>1. CASE i < p
    <3>1. (a \o b)[i] = a[i] /\ a[i] = s[i]
      BY <1>1, <1>2, <1>3, <1>4, <2>1
    <3> QED BY <3>1, <2>1
  <2>2. CASE i >= p
    <3>1. (a \o b)[i] = b[i - Len(a)] /\ i - Len(a) = i - p + 1
      BY <1>1, <1>2, <1>3, <1>4, <2>2, SMTT(30)
    <3>2. i - p + 1 \in 1..(Len(s) - p) /\ p + (i - p + 1) = i + 1
      BY <1>1, <2>2
    <3>3. b[i - p + 1] = s[i + 1]
      BY <1>3, <3>2
    <3> QED BY <1>1, <3>1, <3>3, <2>2, SMTT(30)
  <2>3. i < p \/ i >= p
    BY <1>1
  <2> QED BY <2>1, <2>2, <2>3
<1> HIDE DEF a, b
<1>7. Len(a \o b) = Len(s) - 1
  BY <1>1, <1>2, <1>3, <1>4
<1> QED
  BY <1>4, <1>5, <1>6, <1>7

\* The identity after one that exists is an identity or the exhausted mark 0.
LEMMA AfterIDType == ASSUME NEW id \in IDs PROVE AfterID(id) \in IDs
  BY BoundsAssumption DEF AfterID, IDs

\* What one adapter call sends is a finite sequence of links.
LEMMA BatchType ==
    ASSUME NEW batch \in Batches
    PROVE  /\ batch.sends \in Seq(Links)
           /\ batch.timers \in SUBSET {"natural", "forced", "foreign"}
           /\ BatchSize(batch) \in Nat
<1>1. /\ batch.sends \in UNION {[1..m -> Links] : m \in 0..MaxBatch}
      /\ batch.timers \in SUBSET {"natural", "forced", "foreign"}
  BY DEF Batches, SeqOf
<1>2. batch.sends \in Seq(Links) /\ Len(batch.sends) \in Nat
  <2>1. batch.sends \in UNION {[1..m -> Links] : m \in Nat}
    BY <1>1, BoundsAssumption
  <2> QED
    BY <2>1, SeqDef, LenProperties
<1>3. IsFiniteSet({"natural", "forced", "foreign"})
  <2>1. IsFiniteSet({"natural"})
    BY FS_Singleton
  <2>2. IsFiniteSet({"natural"} \cup {"forced"})
    BY <2>1, FS_AddElement
  <2>3. IsFiniteSet(({"natural"} \cup {"forced"}) \cup {"foreign"})
    BY <2>2, FS_AddElement
  <2>4. ({"natural"} \cup {"forced"}) \cup {"foreign"} = {"natural", "forced", "foreign"}
    OBVIOUS
  <2> QED
    BY <2>3, <2>4
<1>4. Cardinality(batch.timers) \in Nat
  BY <1>1, <1>3, FS_Subset, FS_CardinalityType
<1> QED
  BY <1>1, <1>2, <1>4 DEF BatchSize

----------------------------------------------------------------------------
(* The type invariant.  It is inductive once strengthened with the fact    *)
(* that a tick is only due while time is short of the target.              *)

TickAhead == call.phase = "tick" => time < call.action.target

\* The part of TypeOK about the result variables and the call frame.
ResultOK ==
    /\ trace \in Seq(StepRecord)
    /\ actionCount \in Nat
    /\ initialized \in BOOLEAN /\ terminated \in BOOLEAN
    /\ failure \in FailureRecord \cup {NoFailure}
    /\ observation \in Observation
    /\ call \in CallFrame

\* The part of TypeOK about the network.
NetworkOK ==
    /\ queues \in [Links -> Seq(Message)]
    /\ nextMessageID \in IDs
    /\ lastLinkSequence \in [Links -> IDs]

Types == TypeOK /\ TickAhead

\* The frame of no call, and of a call that has just started.
LEMMA FrameType ==
    /\ NoCall \in CallFrame /\ NoCall.phase = "idle"
    /\ \A act \in Action : time \in 0..MaxTime => Started(act) \in CallFrame
<1>1. /\ <<>> \in Seq(Links) /\ <<>> \in Seq(IDs)
      /\ 0 \in 0..MaxTime /\ 0 \in IDs /\ 0 \in Nat
  BY EmptySeq, BoundsAssumption DEF IDs
<1>2. NoAction \in Action
  BY <1>1 DEF NoAction, Action, ActionKinds
<1> QED
  BY <1>1, <1>2 DEF NoCall, Started, CallFrame

\* The actions that Execute builds are well formed.
LEMMA ActionType ==
    /\ \A kind \in MessageKinds, m \in Message : MessageAction(kind, m) \in Action
    /\ \A kind \in NodeKinds, n \in Nodes : NodeAction(kind, n) \in Action
    /\ \A target \in 0..MaxTime : AdvanceAction(target) \in Action
  BY BoundsAssumption
  DEF MessageAction, NodeAction, AdvanceAction, Action, ActionKinds, Message, IDs

\* A step that fails, for whatever reason.
Fails(operation, act) == \E error \in Errors : Fail(operation, act, error)

\* The ways in which an operation fails.
LEMMA FailsCases ==
    ASSUME NEW operation, NEW act
    PROVE  /\ AdapterFails(operation, act) => Fails(operation, act)
           /\ \A error \in Errors : Fail(operation, act, error) => Fails(operation, act)
           /\ "other" \in Errors /\ "budget_exceeded" \in Errors
  BY DEF AdapterFails, Fails, Errors

\* A step that fails leaves no call in progress.
LEMMA FailType ==
    ASSUME TypeOK, time' \in 0..MaxTime, NEW act \in Action,
           NEW operation \in {"reset", "capabilities", "execute", "observe"},
           Fails(operation, act)
    PROVE  ResultOK' /\ TickAhead' /\ terminated'
<1>1. call' \in CallFrame /\ call'.phase = "idle"
  BY FrameType DEF Fails, Fail
<1>2. failure' \in FailureRecord \cup {NoFailure}
  BY DEF Fails, Fail, TypeOK, FailureRecord
<1> QED
  BY <1>1, <1>2 DEF Fails, Fail, Terminate, TypeOK, ResultOK, TickAhead

\* The types after an adapter call, whatever it returned.
LEMMA ProcessType ==
    ASSUME TypeOK, time' \in 0..MaxTime, status' \in [Nodes -> {"running", "crashed"}],
           NEW frame \in CallFrame, NEW batch \in Batches,
           NEW q \in [Links -> Seq(Message)], ProcessAdapterEffects(frame, batch, q)
    PROVE  Types'
<1>1. NetworkOK' /\ effectCount' \in Nat
  BY DEF ProcessAdapterEffects, TypeOK, NetworkOK
<1>2. ResultOK' /\ TickAhead'
  <2>1. CASE /\ call' = [frame EXCEPT !.phase = "register", !.outbox = batch.sends,
                                      !.timers = batch.timers, !.batch = BatchSize(batch)]
             /\ UNCHANGED resultVars
    <3>1. call' \in CallFrame /\ call'.phase = "register"
      BY <2>1, BatchType DEF CallFrame
    <3> QED
      BY <2>1, <3>1 DEF resultVars, TypeOK, ResultOK, TickAhead
  <2>2. CASE Fails("execute", frame.action)
    <3>1. frame.action \in Action
      BY DEF CallFrame
    <3> QED
      BY <2>2, <3>1, FailType
  <2> QED
    BY <2>1, <2>2, FailsCases DEF ProcessAdapterEffects
<1> QED
  BY <1>1, <1>2 DEF Types, TypeOK, NetworkOK, ResultOK

\* Taking a message out of a queue, and registering one, keep the types.
LEMMA WithoutType ==
    ASSUME TypeOK, NEW l \in Links, NEW position \in 1..Len(queues[l])
    PROVE  Without(l, position) \in [Links -> Seq(Message)]
<1>1. RemoveAt(queues[l], position) \in Seq(Message)
  BY RemoveAtProperties DEF TypeOK
<1> QED
  BY <1>1 DEF Without, TypeOK

\* A registered message has a fresh, typed identity.
LEMMA RegisterType ==
    ASSUME TypeOK, NEW l \in Links, NEW parent \in IDs,
           ~IdentitiesExhausted(l), Register(l, parent)
    PROVE  NetworkOK'
<1>1. lastLinkSequence[l] + 1 \in IDs
  BY BoundsAssumption DEF IdentitiesExhausted, TypeOK, IDs
<1> DEFINE m == [id |-> nextMessageID, link |-> l, sequence |-> lastLinkSequence[l] + 1,
                 parent |-> parent, enqueuedAt |-> time]
<1>2. m \in Message
  BY <1>1 DEF TypeOK, Message
<1>3. Append(queues[l], m) \in Seq(Message)
  <2> HIDE DEF m
  <2> QED BY <1>2, AppendProperties DEF TypeOK
<1>4. queues' = [queues EXCEPT ![l] = Append(queues[l], m)]
  BY DEF Register, Enqueue, TypeOK
<1>5. queues' \in [Links -> Seq(Message)]
  <2> HIDE DEF m
  <2> QED BY <1>3, <1>4 DEF TypeOK
<1>6. nextMessageID' \in IDs /\ lastLinkSequence' \in [Links -> IDs]
  BY <1>1, AfterIDType DEF Register, TypeOK
<1> QED
  BY <1>5, <1>6 DEF NetworkOK

\* A position of a queue holds a message.
LEMMA QueuedType ==
    ASSUME TypeOK, NEW l \in Links, NEW position \in 1..Len(queues[l])
    PROVE  queues[l][position] \in Message /\ queues[l][position].id \in IDs
<1>1. queues[l][position] \in Message
  BY ElementOfSeq DEF TypeOK
<1> QED
  BY <1>1 DEF Message

\* What Execute may be asked for is an action.
LEMMA CallsType == TypeOK => Calls \subseteq Action
<1> SUFFICES ASSUME TypeOK, NEW act \in Calls
             PROVE  act \in Action
  OBVIOUS
<1>1. ASSUME NEW kind \in MessageKinds, NEW s \in Slots(queues)
      PROVE  MessageAction(kind, queues[s[1]][s[2]]) \in Action
  <2>1. s[1] \in Links /\ s[2] \in 1..Len(queues[s[1]])
    BY <1>1 DEF Slots
  <2> QED
    BY <1>1, <2>1, QueuedType, ActionType
<1>2. \A target \in 1..MaxTime : target \in 0..MaxTime
  BY BoundsAssumption
<1> QED
  BY <1>1, <1>2, ActionType DEF Calls

\* The initial state is well typed.
LEMMA TypesInit == Init => Types
<1> SUFFICES ASSUME Init PROVE Types
  OBVIOUS
<1>1. NetworkOK
  BY EmptySeq, BoundsAssumption DEF Init, NetworkOK, IDs
<1>2. observation \in Observation
  BY <1>1, BoundsAssumption DEF Init, Observation, NetworkOK
<1>3. trace \in Seq(StepRecord) /\ failure \in FailureRecord \cup {NoFailure}
  BY EmptySeq DEF Init
<1>4. call \in CallFrame /\ TickAhead
  BY FrameType DEF Init, TickAhead
<1>5. status \in [Nodes -> {"running", "crashed"}] /\ time \in 0..MaxTime
  BY BoundsAssumption DEF Init
<1> QED
  BY <1>1, <1>2, <1>3, <1>4, <1>5 DEF Init, Types, TypeOK, NetworkOK

\* Every step preserves the types.
LEMMA TypesStep == Types /\ [Next]_vars => Types'
<1> SUFFICES ASSUME Types, [Next]_vars PROVE Types'
  OBVIOUS
<1> USE DEF Types
<1>1. ASSUME NEW l \in Links, NEW position \in 1..Len(queues[l]),
             NEW batch \in Batches, Deliver(l, position, batch)
      PROVE  Types'
  <2>1. Started(MessageAction("deliver", queues[l][position])) \in CallFrame
    BY FrameType, ActionType, QueuedType DEF MessageKinds, TypeOK
  <2> QED
    BY <1>1, <2>1, WithoutType, ProcessType DEF Deliver, TypeOK
<1>2. ASSUME NEW l \in Links, NEW position \in 1..Len(queues[l]), Drop(l, position)
      PROVE  Types'
  <2>1. Started(MessageAction("drop", queues[l][position])) \in CallFrame
    BY FrameType, ActionType, QueuedType DEF MessageKinds, TypeOK
  <2>2. call' \in CallFrame /\ call'.phase = "observe"
    BY <1>2, <2>1 DEF Drop, CallFrame
  <2>3. queues' \in [Links -> Seq(Message)]
    BY <1>2, WithoutType DEF Drop
  <2> QED
    BY <1>2, <2>2, <2>3 DEF Drop, TypeOK, TickAhead, resultVars
<1>3. ASSUME NEW l \in Links, NEW position \in 1..Len(queues[l]), Duplicate(l, position)
      PROVE  Types'
  <2> DEFINE act == MessageAction("duplicate", queues[l][position])
  <2>1. act \in Action /\ Started(act) \in CallFrame
    BY FrameType, ActionType, QueuedType DEF MessageKinds, TypeOK
  <2>2. CASE /\ ~IdentitiesExhausted(l)
             /\ Register(l, queues[l][position].id)
             /\ call' = [Started(act) EXCEPT !.phase = "observe"]
             /\ UNCHANGED resultVars
    <3>1. NetworkOK'
      BY <2>2, QueuedType, RegisterType
    <3>2. call' \in CallFrame /\ call'.phase = "observe"
      BY <2>1, <2>2 DEF CallFrame
    <3> QED
      BY <1>3, <2>2, <3>1, <3>2 DEF Duplicate, NetworkOK, TypeOK, TickAhead, resultVars
  <2>3. CASE UNCHANGED networkVars /\ Fails("execute", act)
    <3>1. ResultOK' /\ TickAhead'
      <4> HIDE DEF act
      <4> QED BY <1>3, <2>1, <2>3, FailType, FailsCases DEF Duplicate, TypeOK
    <3> QED
      BY <1>3, <2>3, <3>1 DEF Duplicate, networkVars, TypeOK, ResultOK
  <2> QED
    BY <1>3, <2>2, <2>3, FailsCases DEF Duplicate
<1>4. ASSUME NEW l \in Links, NEW position \in 1..Len(queues[l]), DeliverFails(l, position)
      PROVE  Types'
  <2>1. MessageAction("deliver", queues[l][position]) \in Action
    BY ActionType, QueuedType DEF MessageKinds
  <2>2. ResultOK' /\ TickAhead'
    BY <1>4, <2>1, FailType, FailsCases DEF DeliverFails, TypeOK
  <2> QED
    BY <1>4, <2>2 DEF DeliverFails, networkVars, TypeOK, ResultOK
<1>5. ASSUME NEW n \in Nodes, NEW kind \in NodeKinds, NEW batch \in Batches, OnNode(kind, n, batch)
      PROVE  Types'
  <2>1. Started(NodeAction(kind, n)) \in CallFrame
    BY FrameType, ActionType DEF TypeOK
  <2>2. status' \in [Nodes -> {"running", "crashed"}]
    BY <1>5 DEF OnNode, StatusAfter, TypeOK
  <2> QED
    BY <1>5, <2>1, <2>2, ProcessType DEF OnNode, TypeOK
<1>6. ASSUME NEW n \in Nodes, NEW kind \in NodeKinds, OnNodeFails(kind, n)
      PROVE  Types'
  <2>1. status' \in [Nodes -> {"running", "crashed"}]
    BY <1>6 DEF OnNodeFails, StatusAfter, TypeOK
  <2>2. ResultOK' /\ TickAhead'
    BY <1>6, ActionType, FailType, FailsCases DEF OnNodeFails, TypeOK
  <2> QED
    BY <1>6, <2>1, <2>2 DEF OnNodeFails, networkVars, TypeOK, ResultOK
<1>7. ASSUME NEW act \in Calls, CapabilitiesPanic(act)
      PROVE  Types'
  <2>1. ResultOK' /\ TickAhead'
    BY <1>7, CallsType, FailType, FailsCases DEF CapabilitiesPanic, TypeOK
  <2> QED
    BY <1>7, <2>1 DEF CapabilitiesPanic, networkVars, TypeOK, ResultOK
<1>8. ASSUME NEW target \in 1..MaxTime, AdvanceTime(target)
      PROVE  Types'
  <2>1. target \in 0..MaxTime /\ AdvanceAction(target).target = target
    BY BoundsAssumption DEF AdvanceAction
  <2>2. Started(AdvanceAction(target)) \in CallFrame
    BY <2>1, FrameType, ActionType DEF TypeOK
  <2>3. call' \in CallFrame /\ call'.action.target = target
    BY <1>8, <2>1, <2>2 DEF AdvanceTime, CallFrame, Started, NoCall
  <2> QED
    BY <1>8, <2>3 DEF AdvanceTime, Admitted, TypeOK, TickAhead, networkVars, resultVars
<1>9. ASSUME call.phase = "tick"
      PROVE  time + 1 \in 0..MaxTime /\ call.action \in Action /\ call.action.target \in 0..MaxTime
  BY <1>9, BoundsAssumption DEF TypeOK, TickAhead, CallFrame, Action
<1>10. ASSUME NEW batch \in Batches, Tick(batch)
       PROVE  Types'
  <2>1. time' \in 0..MaxTime
    BY <1>9, <1>10 DEF Tick, TimeAfterTick
  <2> QED
    BY <1>10, <2>1, ProcessType DEF Tick, TypeOK
<1>11. CASE TickFails
  <2>1. time' \in 0..MaxTime
    BY <1>9, <1>11 DEF TickFails, TimeAfterTick, TypeOK
  <2>2. ResultOK' /\ TickAhead'
    BY <1>9, <1>11, <2>1, FailType, FailsCases DEF TickFails, TypeOK
  <2> QED
    BY <1>11, <2>1, <2>2 DEF TickFails, networkVars, TypeOK, ResultOK
<1>12. CASE RegisterOutbound
  <2> DEFINE l == Head(call.outbox)
  <2>1. call.outbox \in Seq(Links) /\ call.outbox # <<>> /\ call.action \in Action
    BY <1>12 DEF RegisterOutbound, TypeOK, CallFrame
  <2>2. l \in Links /\ Tail(call.outbox) \in Seq(Links)
    BY <2>1, HeadTailProperties
  <2>3. CASE /\ ~IdentitiesExhausted(l)
             /\ Register(l, 0)
             /\ call' = [call EXCEPT !.outbox = Tail(@), !.sent = Append(@, nextMessageID)]
             /\ UNCHANGED resultVars
    <3>1. 0 \in IDs
      BY BoundsAssumption DEF IDs
    <3>2. NetworkOK'
      <4> HIDE DEF l
      <4> QED BY <2>2, <2>3, <3>1, RegisterType
    <3>3. Append(call.sent, nextMessageID) \in Seq(IDs)
      BY AppendProperties DEF TypeOK, CallFrame
    <3>4. call' \in CallFrame /\ call'.phase = call.phase
      BY <2>2, <2>3, <3>3 DEF CallFrame, TypeOK
    <3> QED
      BY <1>12, <2>3, <3>2, <3>4 DEF RegisterOutbound, NetworkOK, TypeOK, TickAhead, resultVars
  <2>4. CASE UNCHANGED networkVars /\ Fails("execute", call.action)
    <3>1. ResultOK' /\ TickAhead'
      BY <1>12, <2>1, <2>4, FailType, FailsCases DEF RegisterOutbound, TypeOK
    <3> QED
      BY <1>12, <2>4, <3>1 DEF RegisterOutbound, networkVars, TypeOK, ResultOK
  <2> QED
    BY <1>12, <2>3, <2>4, FailsCases DEF RegisterOutbound
<1>13. CASE EffectsProcessed
  <2>1. call.action \in Action /\ call.batch \in Nat /\ call.effects \in Nat
    BY DEF TypeOK, CallFrame
  <2>2. CASE UNCHANGED resultVars
             /\ call' = [call EXCEPT !.effects = @ + call.batch, !.timers = {}, !.batch = 0,
                            !.phase = IF time < call.action.target THEN "tick" ELSE "observe"]
    <3>1. ASSUME NEW e \in Nat, NEW phase \in {"tick", "observe"}, NEW frame,
                 frame = [call EXCEPT !.effects = e, !.timers = {}, !.batch = 0, !.phase = phase]
          PROVE  frame \in CallFrame /\ frame.action = call.action /\ frame.phase = phase
      BY <3>1 DEF CallFrame, TypeOK
    <3>2. \E e \in Nat, phase \in {"tick", "observe"} :
             /\ phase = "tick" => time < call.action.target
             /\ call' = [call EXCEPT !.effects = e, !.timers = {}, !.batch = 0, !.phase = phase]
      <4> DEFINE phase == IF time < call.action.target THEN "tick" ELSE "observe"
      <4>1. call.effects + call.batch \in Nat /\ phase \in {"tick", "observe"}
        BY <2>1
      <4>2. call' = [call EXCEPT !.effects = call.effects + call.batch, !.timers = {},
                                 !.batch = 0, !.phase = phase]
        BY <2>2
      <4> QED
        BY <4>1, <4>2
    <3>3. PICK e \in Nat, phase \in {"tick", "observe"} :
             /\ phase = "tick" => time < call.action.target
             /\ call' = [call EXCEPT !.effects = e, !.timers = {}, !.batch = 0, !.phase = phase]
      BY <3>2, ZenonT(30)
    <3>4. call' \in CallFrame /\ call'.action = call.action /\ call'.phase = phase
      BY <3>1, <3>3
    <3>5. TickAhead'
      BY <1>13, <3>3, <3>4 DEF EffectsProcessed, TickAhead
    <3> QED
      BY <1>13, <2>1, <2>2, <3>4, <3>5 DEF EffectsProcessed, TypeOK, networkVars, resultVars
  <2>3. CASE Fails("execute", call.action)
    <3>1. ResultOK' /\ TickAhead'
      BY <1>13, <2>1, <2>3, FailType, FailsCases DEF EffectsProcessed, TypeOK
    <3> QED
      BY <1>13, <2>1, <3>1 DEF EffectsProcessed, networkVars, TypeOK, ResultOK
  <2> QED
    BY <1>13, <2>2, <2>3, FailsCases DEF EffectsProcessed
<1>14. CASE RecordStep
  <2> DEFINE record == [action |-> call.action, before |-> call.before, after |-> time,
                        sent |-> call.sent, effects |-> call.effects]
  <2>1. record \in StepRecord
    BY DEF TypeOK, CallFrame, StepRecord
  <2>2. Append(trace, record) \in Seq(StepRecord)
    <3> HIDE DEF record
    <3> QED BY <2>1, AppendProperties DEF TypeOK
  <2>3. trace' \in Seq(StepRecord)
    BY <1>14, <2>2 DEF RecordStep
  <2>4. observation' \in Observation
    BY <1>14 DEF RecordStep, Observed, Observation, TypeOK
  <2> QED
    BY <1>14, <2>3, <2>4, FrameType DEF RecordStep, TypeOK, TickAhead, networkVars
<1>15. CASE ObserveFails
  <2>1. call.action \in Action
    BY DEF TypeOK, CallFrame
  <2>2. ResultOK' /\ TickAhead'
    BY <1>15, <2>1, FailType, FailsCases DEF ObserveFails, TypeOK
  <2> QED
    BY <1>15, <2>2 DEF ObserveFails, networkVars, TypeOK, ResultOK
<1>16. CASE AppendRejected
  BY <1>16, FrameType DEF AppendRejected, Terminate, TypeOK, TickAhead, networkVars
<1>17. ASSUME ClearRuntime
       PROVE  /\ NetworkOK' /\ time' \in 0..MaxTime /\ trace' \in Seq(StepRecord)
              /\ actionCount' \in Nat /\ effectCount' \in Nat /\ initialized'
              /\ call' \in CallFrame /\ call'.phase = "idle" /\ queues' \in [Links -> Seq(Message)]
              /\ time' = 0 
  BY <1>17, EmptySeq, BoundsAssumption DEF ClearRuntime, NetworkOK, IDs, TypeOK
<1>18. CASE Reset
  <2>1. observation' \in Observation
    BY <1>17, <1>18, BoundsAssumption DEF Reset, Observation
  <2> QED
    BY <1>17, <1>18, <2>1 DEF Reset, ClearRuntime, TypeOK, NetworkOK, TickAhead
<1>19. CASE ResetFails
  <2>1. failure' \in FailureRecord
    BY <1>19, FrameType, BoundsAssumption
    DEF ResetFails, FailureRecord, Errors, NoAction, Action, ActionKinds, IDs
  <2> QED
    BY <1>17, <1>19, <2>1 DEF ResetFails, ClearRuntime, TypeOK, NetworkOK, TickAhead
<1>20. CASE UNCHANGED vars
  BY <1>20 DEF vars, networkVars, resultVars, TypeOK, TickAhead
<1>21. CASE OnMessage
  BY <1>1, <1>2, <1>3, <1>4, <1>21 DEF OnMessage
<1>22. CASE OnMember
  BY <1>5, <1>6, <1>22 DEF OnMember, Timeout, Crash, Restart, Request, NodeKinds
<1>23. CASE Continue
  BY <1>10, <1>11, <1>12, <1>13, <1>14, <1>15, <1>16, <1>23 DEF Continue
<1> QED
  BY <1>7, <1>8, <1>18, <1>19, <1>20, <1>21, <1>22, <1>23 DEF Next

\* Every field of the Runtime keeps its type, in a step that succeeds and in
\* one that fails half way through Execute or Reset.
THEOREM TypeCorrect == Spec => []TypeOK
<1>1. Types => TypeOK
  BY DEF Types
<1> QED
  BY <1>1, TypesInit, TypesStep, PTL DEF Spec

----------------------------------------------------------------------------
(* What a step does to the network: nothing, one removal, one registration *)
(* or a fresh start.                                                       *)

Standing == UNCHANGED networkVars /\ time' >= time

Removal ==
    \E l \in Links : \E p \in 1..Len(queues[l]) :
        /\ queues' = Without(l, p)
        /\ UNCHANGED <<nextMessageID, lastLinkSequence, time>>

Registration ==
    \E l \in Links, parent \in IDs :
        /\ ~IdentitiesExhausted(l) /\ Register(l, parent) /\ UNCHANGED time
        /\ parent = 0 \/ \E p \in 1..Len(queues[l]) : parent = queues[l][p].id

Clearing ==
    /\ queues' = [l \in Links |-> <<>>]
    /\ nextMessageID' = 1
    /\ lastLinkSequence' = [l \in Links |-> 0]
    /\ time' = 0

\* What a step may do to the queues.
LEMMA NetworkSteps ==
    TypeOK /\ [Next]_vars => Standing \/ Removal \/ Registration \/ Clearing
<1> SUFFICES ASSUME TypeOK, [Next]_vars
             PROVE  Standing \/ Removal \/ Registration \/ Clearing
  OBVIOUS
<1>1. time >= time /\ time + 1 >= time
  BY BoundsAssumption DEF TypeOK
<1>2. CASE OnMessage
  <2> SUFFICES ASSUME NEW l \in Links, NEW p \in 1..Len(queues[l]),
                      \/ \E batch \in Batches : Deliver(l, p, batch)
                      \/ Drop(l, p) \/ Duplicate(l, p) \/ DeliverFails(l, p)
               PROVE  Standing \/ Removal \/ Registration
    BY <1>2, SMTT(30) DEF OnMessage
  <2>2. CASE (\E batch \in Batches : Deliver(l, p, batch)) \/ Drop(l, p)
    BY <2>2 DEF Deliver, Drop, ProcessAdapterEffects, Removal
  <2>3. CASE Duplicate(l, p)
    <3>1. queues[l][p].id \in IDs
      BY QueuedType
    <3> QED
      BY <1>1, <2>3, <3>1 DEF Duplicate, Registration, Standing
  <2>4. CASE DeliverFails(l, p)
    BY <1>1, <2>4 DEF DeliverFails, Standing
  <2> QED
    BY <2>2, <2>3, <2>4
<1>3. CASE OnMember
  <2>1. ASSUME NEW n \in Nodes, NEW kind \in NodeKinds, NEW batch \in Batches,
               OnNode(kind, n, batch) \/ OnNodeFails(kind, n)
        PROVE  Standing
    BY <1>1, <2>1
    DEF OnNode, OnNodeFails, ProcessAdapterEffects, Standing, networkVars
  <2>2. ASSUME NEW n \in Nodes, NEW kind \in NodeKinds, OnNodeFails(kind, n)
        PROVE  Standing
    BY <1>1, <2>2 DEF OnNodeFails, Standing
  <2> QED
    BY <1>3, <2>1, <2>2 DEF OnMember, Timeout, Crash, Restart, Request, NodeKinds
<1>4. CASE Continue
  <2>1. CASE RegisterOutbound
    <3>1. Head(call.outbox) \in Links
      BY <2>1, HeadTailProperties DEF RegisterOutbound, TypeOK, CallFrame
    <3>2. 0 \in IDs
      BY BoundsAssumption DEF IDs
    <3> QED
      BY <1>1, <2>1, <3>1, <3>2 DEF RegisterOutbound, Registration, Standing
  <2>2. ASSUME NEW batch \in Batches, Tick(batch)
        PROVE  Standing
    BY <1>1, <2>2 DEF Tick, TimeAfterTick, ProcessAdapterEffects, Standing, networkVars
  <2>3. CASE TickFails \/ EffectsProcessed \/ RecordStep \/ ObserveFails \/ AppendRejected
    BY <1>1, <2>3 DEF TickFails, TimeAfterTick, EffectsProcessed, RecordStep, ObserveFails,
                      AppendRejected, Standing
  <2> QED
    BY <1>4, <2>1, <2>2, <2>3 DEF Continue
<1>5. ASSUME NEW target \in 1..MaxTime, AdvanceTime(target)
      PROVE  Standing
  BY <1>1, <1>5 DEF AdvanceTime, Standing
<1>6. CASE Reset \/ ResetFails
  BY <1>6 DEF Reset, ResetFails, ClearRuntime, Clearing
<1>7. CASE UNCHANGED vars
  BY <1>1, <1>7 DEF vars, Standing
<1>8. ASSUME NEW act \in Calls, CapabilitiesPanic(act)
      PROVE  Standing
  BY <1>1, <1>8 DEF CapabilitiesPanic, Standing
<1> QED
  BY <1>2, <1>3, <1>4, <1>5, <1>6, <1>7, <1>8 DEF Next

\* The messages after a removal are messages before it, at the same position
\* or one further back.
LEMMA RemovalShape ==
    ASSUME TypeOK, NEW l \in Links, NEW p \in 1..Len(queues[l]), queues' = Without(l, p)
    PROVE  \A k \in Links : \A i \in 1..Len(queues'[k]) :
             LET j == IF k = l /\ i >= p THEN i + 1 ELSE i
             IN  j \in 1..Len(queues[k]) /\ queues'[k][i] = queues[k][j]
<1>1. ASSUME NEW k \in Links, k # l
      PROVE  queues'[k] = queues[k]
  BY <1>1 DEF Without, TypeOK
<1>2. queues'[l] = RemoveAt(queues[l], p)
  BY DEF Without, TypeOK
<1>3. queues[l] \in Seq(Message) /\ Len(queues[l]) \in Nat
  BY LenProperties DEF TypeOK
<1>4. /\ Len(queues'[l]) = Len(queues[l]) - 1
      /\ \A i \in 1..(Len(queues[l]) - 1) :
           queues'[l][i] = queues[l][IF i < p THEN i ELSE i + 1]
  BY <1>2, <1>3, RemoveAtProperties, SMTT(30)
<1>5. ASSUME NEW i \in 1..Len(queues'[l])
      PROVE  LET j == IF i >= p THEN i + 1 ELSE i
             IN  j \in 1..Len(queues[l]) /\ queues'[l][i] = queues[l][j]
  <2>1. i \in 1..(Len(queues[l]) - 1) /\ queues'[l][i] = queues[l][IF i < p THEN i ELSE i + 1]
    BY <1>4
  <2>2. CASE i < p
    <3>1. ~(i >= p) /\ i \in 1..Len(queues[l]) /\ queues'[l][i] = queues[l][i]
      BY <1>3, <2>1, <2>2
    <3> QED BY <3>1
  <2>3. CASE i >= p
    <3>1. ~(i < p) /\ i + 1 \in 1..Len(queues[l]) /\ queues'[l][i] = queues[l][i + 1]
      BY <1>3, <2>1, <2>3
    <3> QED BY <3>1, <2>3
  <2>4. i < p \/ i >= p
    BY <1>3
  <2> QED
    BY <2>2, <2>3, <2>4
<1> QED
  BY <1>1, <1>5

\* The messages after a registration are the old ones in their old places and
\* the new one at the tail of its link.
LEMMA RegistrationShape ==
    ASSUME TypeOK, NEW l \in Links, NEW parent \in IDs,
           ~IdentitiesExhausted(l), Register(l, parent)
    PROVE  /\ \A k \in Links \ {l} : queues'[k] = queues[k]
           /\ Len(queues[l]) \in Nat /\ Len(queues'[l]) = Len(queues[l]) + 1
           /\ \A i \in 1..Len(queues[l]) : queues'[l][i] = queues[l][i]
           /\ queues'[l][Len(queues[l]) + 1] =
                [id |-> nextMessageID, link |-> l, sequence |-> lastLinkSequence[l] + 1,
                 parent |-> parent, enqueuedAt |-> time]
<1> DEFINE m == [id |-> nextMessageID, link |-> l, sequence |-> lastLinkSequence[l] + 1,
                 parent |-> parent, enqueuedAt |-> time]
<1>1. lastLinkSequence[l] + 1 \in IDs
  BY BoundsAssumption DEF IdentitiesExhausted, TypeOK, IDs
<1>2. m \in Message
  BY <1>1 DEF TypeOK, Message
<1>3. queues' = [queues EXCEPT ![l] = Append(queues[l], m)]
  BY DEF Register, Enqueue, TypeOK
<1> HIDE DEF m
<1>4. queues[l] \in Seq(Message) /\ queues'[l] = Append(queues[l], m)
  BY <1>3 DEF TypeOK
<1>5. \A k \in Links \ {l} : queues'[k] = queues[k]
  BY <1>3 DEF TypeOK
<1>6. Len(queues[l]) \in Nat
  BY <1>4, LenProperties
<1>7. /\ Len(queues'[l]) = Len(queues[l]) + 1
      /\ \A i \in 1..Len(queues[l]) : queues'[l][i] = queues[l][i]
      /\ queues'[l][Len(queues[l]) + 1] = m
  BY <1>2, <1>4, AppendProperties
<1> QED
  BY <1>5, <1>6, <1>7 DEF m

\* The identity a registration uses has never been handed out, and is now.
LEMMA FreshIdentity ==
    ASSUME TypeOK, nextMessageID # 0, nextMessageID' = AfterID(nextMessageID)
    PROVE  /\ nextMessageID \notin AssignedIDs
           /\ AssignedIDs' = AssignedIDs \cup {nextMessageID}
           /\ nextMessageID \in Nat \ {0}
           /\ \A id \in AssignedIDs : id \in Nat \ {0} /\ id < nextMessageID
  BY BoundsAssumption DEF TypeOK, IDs, AssignedIDs, AfterID

----------------------------------------------------------------------------
(* Identities.                                                             *)

\* Empty queues hold nothing twice.
LEMMA IdentitiesInit == Init => IdentitiesUnique
<1> SUFFICES ASSUME Init PROVE \A l \in Links : 1..Len(queues[l]) = {}
  BY DEF IdentitiesUnique
<1> QED
  BY EmptySeq DEF Init

\* No step queues an identity twice.
LEMMA IdentitiesStep == Types /\ IdentitiesUnique /\ [Next]_vars => IdentitiesUnique'
<1> SUFFICES ASSUME Types, IdentitiesUnique, [Next]_vars PROVE IdentitiesUnique'
  OBVIOUS
<1> USE DEF Types
<1>1. CASE Standing
  BY <1>1 DEF Standing, networkVars, IdentitiesUnique, AssignedIDs
<1>2. CASE Removal
  <2> SUFFICES ASSUME NEW l \in Links, NEW p \in 1..Len(queues[l]), queues' = Without(l, p),
                      nextMessageID' = nextMessageID
               PROVE  IdentitiesUnique'
    BY <1>2 DEF Removal
  <2> DEFINE old(k, i) == IF k = l /\ i >= p THEN i + 1 ELSE i
  <2>1. \A k \in Links : \A i \in 1..Len(queues'[k]) :
          old(k, i) \in 1..Len(queues[k]) /\ queues'[k][i] = queues[k][old(k, i)]
    BY RemovalShape
  <2>2. ASSUME NEW k \in Links, NEW i \in Nat, NEW j \in Nat, old(k, i) = old(k, j)
        PROVE  i = j
    <3>1. p \in Int
      OBVIOUS
    <3>2. CASE k = l
      BY <2>2, <3>1, <3>2
    <3>3. CASE k # l
      BY <2>2, <3>3
    <3> QED BY <3>2, <3>3
  <2>3. AssignedIDs' = AssignedIDs
    BY DEF AssignedIDs
  <2> HIDE DEF old
  <2>4. ASSUME NEW k1 \in Links, NEW k2 \in Links,
               NEW i \in 1..Len(queues'[k1]), NEW j \in 1..Len(queues'[k2])
        PROVE  /\ queues'[k1][i].id \in AssignedIDs
               /\ queues'[k1][i].id = queues'[k2][j].id => k1 = k2 /\ i = j
    <3>1. /\ old(k1, i) \in 1..Len(queues[k1]) /\ queues'[k1][i] = queues[k1][old(k1, i)]
          /\ old(k2, j) \in 1..Len(queues[k2]) /\ queues'[k2][j] = queues[k2][old(k2, j)]
      BY <2>1
    <3>2. /\ queues'[k1][i].id \in AssignedIDs
          /\ queues'[k1][i].id = queues'[k2][j].id => k1 = k2 /\ old(k1, i) = old(k2, j)
      BY <3>1, SMTT(30) DEF IdentitiesUnique
    <3>3. i \in Nat /\ j \in Nat
      OBVIOUS
    <3> QED
      BY <2>2, <3>2, <3>3
  <2> QED
    BY <2>3, <2>4 DEF IdentitiesUnique
<1>3. CASE Registration
  <2> SUFFICES ASSUME NEW l \in Links, NEW parent \in IDs,
                      ~IdentitiesExhausted(l), Register(l, parent)
               PROVE  IdentitiesUnique'
    BY <1>3 DEF Registration
  <2> DEFINE new(k, i) == k = l /\ i = Len(queues[l]) + 1
  <2>1. /\ nextMessageID \notin AssignedIDs
        /\ AssignedIDs' = AssignedIDs \cup {nextMessageID}
    BY FreshIdentity DEF IdentitiesExhausted, Register
  <2>2. /\ \A k \in Links \ {l} : queues'[k] = queues[k]
        /\ Len(queues[l]) \in Nat /\ Len(queues'[l]) = Len(queues[l]) + 1
        /\ \A i \in 1..Len(queues[l]) : queues'[l][i] = queues[l][i]
        /\ queues'[l][Len(queues[l]) + 1].id = nextMessageID
    <3>1. TypeOK
      OBVIOUS
    <3>2. queues'[l][Len(queues[l]) + 1] =
            [id |-> nextMessageID, link |-> l, sequence |-> lastLinkSequence[l] + 1,
             parent |-> parent, enqueuedAt |-> time]
      BY <3>1, RegistrationShape
    <3>3. queues'[l][Len(queues[l]) + 1].id = nextMessageID
      BY <3>2
    <3> QED
      BY <3>1, <3>3, RegistrationShape
  <2>3. ASSUME NEW k \in Links, NEW i \in 1..Len(queues'[k])
        PROVE  \/ new(k, i) /\ queues'[k][i].id = nextMessageID
               \/ ~new(k, i) /\ i \in 1..Len(queues[k]) /\ queues'[k][i] = queues[k][i]
    <3>1. CASE k # l
      BY <2>2, <3>1
    <3>2. CASE k = l /\ i # Len(queues[l]) + 1
      BY <2>2, <3>2
    <3>3. CASE k = l /\ i = Len(queues[l]) + 1
      BY <2>2, <3>3
    <3> QED BY <3>1, <3>2, <3>3
  <2>4. ASSUME NEW k1 \in Links, NEW k2 \in Links,
               NEW i \in 1..Len(queues'[k1]), NEW j \in 1..Len(queues'[k2])
        PROVE  /\ queues'[k1][i].id \in AssignedIDs'
               /\ queues'[k1][i].id = queues'[k2][j].id => k1 = k2 /\ i = j
    <3>1. new(k1, i) /\ new(k2, j) => k1 = k2 /\ i = j
      OBVIOUS
    <3> HIDE DEF new
    <3>2. ~new(k1, i) => queues'[k1][i].id \in AssignedIDs
      BY <2>3 DEF IdentitiesUnique
    <3>3. ~new(k2, j) => queues'[k2][j].id \in AssignedIDs
      BY <2>3 DEF IdentitiesUnique
    <3>4. ~new(k1, i) /\ ~new(k2, j) /\ queues'[k1][i].id = queues'[k2][j].id
            => k1 = k2 /\ i = j
      <4>1. ~new(k1, i) => i \in 1..Len(queues[k1]) /\ queues'[k1][i] = queues[k1][i]
        BY <2>3
      <4>2. ~new(k2, j) => j \in 1..Len(queues[k2]) /\ queues'[k2][j] = queues[k2][j]
        BY <2>3
      <4> QED
        BY <4>1, <4>2, SMTT(30) DEF IdentitiesUnique
    <3>5. new(k1, i) => queues'[k1][i].id = nextMessageID
      BY <2>3
    <3>6. new(k2, j) => queues'[k2][j].id = nextMessageID
      BY <2>3
    <3>7. queues'[k1][i].id \in AssignedIDs'
      BY <2>1, <3>2, <3>5
    <3>8. queues'[k1][i].id = queues'[k2][j].id => k1 = k2 /\ i = j
      BY <2>1, <3>1, <3>2, <3>3, <3>4, <3>5, <3>6
    <3> QED
      BY <3>7, <3>8
  <2> QED
    BY <2>4 DEF IdentitiesUnique
<1>4. CASE Clearing
  <2> SUFFICES \A l \in Links : 1..Len(queues'[l]) = {}
    BY DEF IdentitiesUnique
  <2> QED
    BY <1>4, EmptySeq DEF Clearing
<1> QED
  BY NetworkSteps, <1>1, <1>2, <1>3, <1>4

\* An identity is never shared by two messages in the network, and none is
\* found there that network.register did not hand out.
THEOREM IdentitiesCorrect == Spec => []IdentitiesUnique
  BY TypesInit, TypesStep, IdentitiesInit, IdentitiesStep, PTL DEF Spec

----------------------------------------------------------------------------
(* What a step does to the call in progress: every step outside Reset      *)
(* belongs to a call, and either keeps it going, ends the execution with   *)
(* it, or records it.                                                      *)

InCall == Ready \/ call.phase # "idle"

GoesOn == InCall /\ call'.phase # "idle" /\ UNCHANGED resultVars

BreaksOff == InCall /\ call'.phase = "idle" /\ terminated'

\* The three outcomes of a stage that is not the last.
LEMMA FailBreaksOff ==
    ASSUME NEW operation, NEW act, Fails(operation, act)
    PROVE  call'.phase = "idle" /\ terminated'
  BY FrameType DEF Fails, Fail, Terminate

\* A call goes on to register its effects, or the execution is over.
LEMMA ProcessGoesOn ==
    ASSUME NEW frame \in CallFrame, NEW batch, NEW q, ProcessAdapterEffects(frame, batch, q)
    PROVE  \/ call'.phase # "idle" /\ UNCHANGED resultVars
           \/ call'.phase = "idle" /\ terminated'
<1>1. CASE Fails("execute", frame.action)
  BY <1>1, FailBreaksOff
<1>2. CASE /\ call' = [frame EXCEPT !.phase = "register", !.outbox = batch.sends,
                                    !.timers = batch.timers, !.batch = BatchSize(batch)]
           /\ UNCHANGED resultVars
  <2>1. call'.phase = "register"
    BY <1>2 DEF CallFrame
  <2> QED
    BY <1>2, <2>1
<1> QED
  BY <1>1, <1>2, FailsCases DEF ProcessAdapterEffects

\* What a step may do to the call in progress.
LEMMA CallSteps ==
    Types /\ [Next]_vars =>
        GoesOn \/ BreaksOff \/ RecordStep \/ Reset \/ ResetFails \/ UNCHANGED vars
<1> SUFFICES ASSUME Types, [Next]_vars
             PROVE  GoesOn \/ BreaksOff \/ RecordStep \/ Reset \/ ResetFails \/ UNCHANGED vars
  OBVIOUS
<1> USE DEF Types
<1>1. \A act \in Action : Started(act) \in CallFrame
  BY FrameType DEF TypeOK
<1>2. CASE OnMessage
  <2> SUFFICES ASSUME NEW l \in Links, NEW p \in 1..Len(queues[l]),
                      \/ \E batch \in Batches : Deliver(l, p, batch)
                      \/ Drop(l, p) \/ Duplicate(l, p) \/ DeliverFails(l, p)
               PROVE  GoesOn \/ BreaksOff
    BY <1>2 DEF OnMessage
  <2>1. \A kind \in MessageKinds : Started(MessageAction(kind, queues[l][p])) \in CallFrame
    BY <1>1, ActionType, QueuedType
  <2>2. ASSUME NEW batch \in Batches, Deliver(l, p, batch)
        PROVE  GoesOn \/ BreaksOff
    <3>1. InCall /\ ProcessAdapterEffects(Started(MessageAction("deliver", queues[l][p])),
                                          batch, Without(l, p))
      BY <2>2 DEF Deliver, Deliverable, Admitted, InCall
    <3> QED
      BY <2>1, <3>1, ProcessGoesOn DEF MessageKinds, GoesOn, BreaksOff
  <2>3. CASE Drop(l, p)
    <3>1. call'.phase = "observe"
      BY <2>1, <2>3 DEF Drop, MessageKinds, CallFrame
    <3> QED
      BY <2>3, <3>1 DEF Drop, Admitted, GoesOn, InCall
  <2>4. CASE Duplicate(l, p)
    <3>1. CASE call' = [Started(MessageAction("duplicate", queues[l][p])) EXCEPT !.phase = "observe"]
               /\ UNCHANGED resultVars
      <4>1. call'.phase = "observe"
        BY <2>1, <3>1 DEF MessageKinds, CallFrame
      <4> QED
        BY <2>4, <3>1, <4>1 DEF Duplicate, Admitted, GoesOn, InCall
    <3>2. CASE Fails("execute", MessageAction("duplicate", queues[l][p]))
      BY <2>4, <3>2, FailBreaksOff, FailsCases DEF Duplicate, Admitted, BreaksOff, InCall
    <3> QED
      BY <2>4, <3>1, <3>2, FailsCases DEF Duplicate
  <2>5. CASE DeliverFails(l, p)
    BY <2>5, FailBreaksOff, FailsCases DEF DeliverFails, Deliverable, Admitted, BreaksOff, InCall
  <2> QED
    BY <2>2, <2>3, <2>4, <2>5
<1>3. CASE OnMember
  <2>1. ASSUME NEW n \in Nodes, NEW kind \in NodeKinds, NEW batch \in Batches,
               OnNode(kind, n, batch)
        PROVE  GoesOn \/ BreaksOff
    <3>1. Started(NodeAction(kind, n)) \in CallFrame
      BY <1>1, ActionType
    <3> QED
      BY <2>1, <3>1, ProcessGoesOn DEF OnNode, Applicable, Admitted, GoesOn, BreaksOff, InCall
  <2>2. ASSUME NEW n \in Nodes, NEW kind \in NodeKinds, OnNodeFails(kind, n)
        PROVE  BreaksOff
    BY <2>2, FailBreaksOff, FailsCases DEF OnNodeFails, Applicable, Admitted, BreaksOff, InCall
  <2> QED
    BY <1>3, <2>1, <2>2 DEF OnMember, Timeout, Crash, Restart, Request, NodeKinds
<1>4. ASSUME NEW target \in 1..MaxTime, AdvanceTime(target)
      PROVE  GoesOn
  <2>1. Started(AdvanceAction(target)) \in CallFrame
    BY <1>1, ActionType
  <2>2. call'.phase = "tick"
    BY <1>4, <2>1 DEF AdvanceTime, CallFrame
  <2> QED
    BY <1>4, <2>2 DEF AdvanceTime, Admitted, GoesOn, InCall
<1>5. CASE Continue
  <2>1. call \in CallFrame
    BY DEF TypeOK
  <2>2. ASSUME NEW batch \in Batches, Tick(batch)
        PROVE  GoesOn \/ BreaksOff
    BY <2>1, <2>2, ProcessGoesOn DEF Tick, GoesOn, BreaksOff, InCall
  <2>3. CASE TickFails \/ ObserveFails
    BY <2>3, FailBreaksOff, FailsCases DEF TickFails, ObserveFails, BreaksOff, InCall
  <2>4. CASE RegisterOutbound
    <3>1. CASE Fails("execute", call.action)
      BY <2>4, <3>1, FailBreaksOff, FailsCases DEF RegisterOutbound, BreaksOff, InCall
    <3>2. CASE call' = [call EXCEPT !.outbox = Tail(@), !.sent = Append(@, nextMessageID)]
               /\ UNCHANGED resultVars
      <4>1. call'.phase = call.phase
        BY <2>1, <3>2 DEF CallFrame
      <4> QED
        BY <2>4, <3>2, <4>1 DEF RegisterOutbound, GoesOn, InCall
    <3> QED
      BY <2>4, <3>1, <3>2, FailsCases DEF RegisterOutbound
  <2>5. CASE EffectsProcessed
    <3>1. CASE Fails("execute", call.action)
      BY <2>5, <3>1, FailBreaksOff, FailsCases DEF EffectsProcessed, BreaksOff, InCall
    <3>2. CASE UNCHANGED resultVars
               /\ call' = [call EXCEPT !.effects = @ + call.batch, !.timers = {}, !.batch = 0,
                              !.phase = IF time < call.action.target THEN "tick" ELSE "observe"]
      <4>1. \E phase \in {"tick", "observe"} : \E e :
              call' = [call EXCEPT !.effects = e, !.timers = {}, !.batch = 0, !.phase = phase]
        BY <3>2
      <4>2. call'.phase # "idle"
        BY <2>1, <4>1 DEF CallFrame
      <4> QED
        BY <2>5, <3>2, <4>2 DEF EffectsProcessed, GoesOn, InCall
    <3> QED
      BY <2>5, <3>1, <3>2, FailsCases DEF EffectsProcessed
  <2>6. CASE AppendRejected
    BY <2>6, FrameType DEF AppendRejected, Terminate, BreaksOff, InCall
  <2> QED
    BY <1>5, <2>2, <2>3, <2>4, <2>5, <2>6 DEF Continue
<1>6. ASSUME NEW act \in Calls, CapabilitiesPanic(act)
      PROVE  BreaksOff
  BY <1>6, FailBreaksOff, FailsCases DEF CapabilitiesPanic, BreaksOff, InCall
<1> QED
  BY <1>2, <1>3, <1>4, <1>5, <1>6 DEF Next

\* A terminated execution has no call in progress.
StoppedIdle == terminated => call.phase = "idle"

\* There is no call before the first Reset.
LEMMA CallInit == Init => StoppedIdle /\ ObservationFresh
  BY DEF Init, StoppedIdle, ObservationFresh, Ready

\* A call ends with a fresh observation or with the execution.
LEMMA CallStep ==
    Types /\ StoppedIdle /\ ObservationFresh /\ [Next]_vars => StoppedIdle' /\ ObservationFresh'
<1> SUFFICES ASSUME Types, StoppedIdle, ObservationFresh, [Next]_vars
             PROVE  StoppedIdle' /\ ObservationFresh'
  OBVIOUS
<1>1. CASE GoesOn
  BY <1>1 DEF GoesOn, InCall, Ready, resultVars, StoppedIdle, ObservationFresh
<1>2. CASE BreaksOff
  BY <1>2 DEF BreaksOff, Ready, StoppedIdle, ObservationFresh
<1>3. CASE RecordStep
  <2>1. UNCHANGED <<queues, time, status>>
    BY <1>3 DEF RecordStep, networkVars
  <2> QED
    BY <1>3, <2>1, FrameType DEF RecordStep, StoppedIdle, ObservationFresh, Observed
<1>4. CASE Reset
  BY <1>4 DEF Reset, ClearRuntime, StoppedIdle, ObservationFresh, Observed
<1>5. CASE ResetFails
  BY <1>5 DEF ResetFails, ClearRuntime, StoppedIdle, ObservationFresh, Ready
<1>6. CASE UNCHANGED vars
  BY <1>6 DEF vars, networkVars, resultVars, StoppedIdle, ObservationFresh, Ready, Observed
<1> QED
  BY CallSteps, <1>1, <1>2, <1>3, <1>4, <1>5, <1>6

\* Every call that Execute accepts decides on the present state of the members,
\* the queues and the clock, although it reads a stored observation.
THEOREM ObservationCorrect == Spec => []ObservationFresh
  BY TypesInit, TypesStep, CallInit, CallStep, PTL DEF Spec

\* Nothing but Reset follows a step that failed, at whatever stage it failed.
THEOREM TerminationCorrect == Spec => TerminatedIsFinal
<1>1. ASSUME Types, StoppedIdle, [Next]_vars, terminated
      PROVE  \/ UNCHANGED <<networkVars, resultVars, time, effectCount>>
             \/ Reset
             \/ ResetFails
  <2>1. ~InCall /\ call.phase = "idle"
    BY <1>1 DEF StoppedIdle, InCall, Ready
  <2>2. ~RecordStep
    BY <2>1 DEF RecordStep
  <2>3. CASE UNCHANGED vars
    BY <2>3 DEF vars
  <2> QED
    BY <1>1, <2>1, <2>2, <2>3, CallSteps DEF GoesOn, BreaksOff
<1>2. Types /\ StoppedIdle /\ [Next]_vars =>
        [terminated => \/ UNCHANGED <<networkVars, resultVars, time, effectCount>>
                       \/ Reset
                       \/ ResetFails]_vars
  BY <1>1
<1> QED
  BY <1>2, TypesInit, TypesStep, CallInit, CallStep, PTL DEF Spec, TerminatedIsFinal

----------------------------------------------------------------------------
(* The stages of a call.                                                   *)

\* The effects of the adapter call being processed still fit.
EffectsFit == MaxEffects # 0 => effectCount + call.batch <= MaxEffects

Begins ==
    /\ Admitted /\ UNCHANGED <<resultVars, time, effectCount>>
    /\ call'.before = time
    /\ \/ /\ call'.phase = "tick" /\ call'.action.kind = "advance_time"
          /\ time < call'.action.target
          /\ MaxTicks # 0 => call'.action.target <= MaxTicks
       \/ /\ call'.phase \in {"register", "observe"}
          /\ call'.action.kind # "advance_time" /\ call'.action.target = 0
    /\ call'.phase = "register" => EffectsFit'

Ticks ==
    /\ call.phase = "tick" /\ call'.phase = "register"
    /\ time' = time + 1 /\ UNCHANGED effectCount /\ EffectsFit'

Registers ==
    /\ call.phase = "register" /\ call'.phase = "register"
    /\ call'.batch = call.batch /\ UNCHANGED <<time, effectCount>>

Processes ==
    /\ call.phase = "register"
    /\ call'.phase = IF time < call.action.target THEN "tick" ELSE "observe"
    /\ effectCount' = effectCount + call.batch /\ UNCHANGED time

Proceeds ==
    /\ UNCHANGED resultVars /\ call'.action = call.action /\ call'.before = call.before
    /\ Ticks \/ Registers \/ Processes

\* A call that fails, perhaps after it moved time or counted its effects.
Breaks ==
    /\ call'.phase = "idle" /\ terminated' /\ UNCHANGED <<trace, actionCount>>
    /\ time' = time \/ (call.phase = "tick" /\ time' = time + 1)
    /\ effectCount' = effectCount
         \/ (call.phase = "register" /\ effectCount' = effectCount + call.batch)

\* A failure ends the call and records no step.
LEMMA FailBreaks ==
    ASSUME NEW operation, NEW act, Fails(operation, act)
    PROVE  call'.phase = "idle" /\ terminated' /\ UNCHANGED <<trace, actionCount>>
  BY FrameType DEF Fails, Fail, Terminate

\* What an adapter call leads to: its batch fits and is registered next, or
\* the execution ends.
LEMMA ProcessStage ==
    ASSUME TypeOK, NEW frame \in CallFrame, NEW batch \in Batches, NEW q,
           ProcessAdapterEffects(frame, batch, q)
    PROVE  /\ effectCount' = effectCount
           /\ \/ /\ call'.phase = "register" /\ call'.action = frame.action
                 /\ call'.before = frame.before /\ EffectsFit' /\ UNCHANGED resultVars
              \/ call'.phase = "idle" /\ terminated' /\ UNCHANGED <<trace, actionCount>>
<1>1. effectCount' = effectCount /\ effectCount \in Nat
  BY DEF ProcessAdapterEffects, TypeOK
<1>2. CASE Fails("execute", frame.action)
  BY <1>1, <1>2, FailBreaks
<1>3. CASE /\ WithinBudget(batch, q)
           /\ call' = [frame EXCEPT !.phase = "register", !.outbox = batch.sends,
                                    !.timers = batch.timers, !.batch = BatchSize(batch)]
           /\ UNCHANGED resultVars
  <2>1. /\ call'.phase = "register" /\ call'.action = frame.action
        /\ call'.before = frame.before /\ call'.batch = BatchSize(batch)
    BY <1>3 DEF CallFrame
  <2>2. MaxEffects # 0 => BatchSize(batch) <= MaxEffects - effectCount
    BY <1>3 DEF WithinBudget
  <2>3. EffectsFit'
    BY <1>1, <2>1, <2>2, BatchType, LimitsAssumption DEF EffectsFit
  <2> QED
    BY <1>1, <1>3, <2>1, <2>3
<1> QED
  BY <1>2, <1>3, FailsCases DEF ProcessAdapterEffects

\* The frames that the calls start from.
LEMMA StartedFrame ==
    ASSUME TypeOK, NEW act \in Action
    PROVE  /\ Started(act) \in CallFrame
           /\ Started(act).action = act /\ Started(act).before = time
           /\ [Started(act) EXCEPT !.phase = "observe"].action = act
           /\ [Started(act) EXCEPT !.phase = "observe"].before = time
           /\ [Started(act) EXCEPT !.phase = "observe"].phase = "observe"
           /\ [Started(act) EXCEPT !.phase = "tick"].action = act
           /\ [Started(act) EXCEPT !.phase = "tick"].before = time
           /\ [Started(act) EXCEPT !.phase = "tick"].phase = "tick"
<1>1. Started(act) \in CallFrame
  BY FrameType DEF TypeOK
<1>2. Started(act).action = act /\ Started(act).before = time
  BY DEF Started, NoCall
<1> QED
  BY <1>1, <1>2 DEF CallFrame

\* A call on a message begins, or ends the execution.
LEMMA MessageStages ==
    ASSUME TypeOK, NEW l \in Links, NEW p \in 1..Len(queues[l]),
           \/ \E batch \in Batches : Deliver(l, p, batch)
           \/ Drop(l, p) \/ Duplicate(l, p) \/ DeliverFails(l, p)
    PROVE  Begins \/ Breaks
<1>1. ASSUME NEW kind \in MessageKinds
      PROVE  /\ MessageAction(kind, queues[l][p]) \in Action
             /\ MessageAction(kind, queues[l][p]).kind # "advance_time"
             /\ MessageAction(kind, queues[l][p]).target = 0
  BY ActionType, QueuedType DEF MessageAction, MessageKinds
<1>2. ASSUME NEW batch \in Batches, Deliver(l, p, batch)
      PROVE  Begins \/ Breaks
  <2> DEFINE act == MessageAction("deliver", queues[l][p])
  <2>1. act \in Action /\ act.kind # "advance_time" /\ act.target = 0
    BY <1>1 DEF MessageKinds
  <2>2. Admitted /\ time' = time /\ ProcessAdapterEffects(Started(act), batch, Without(l, p))
    BY <1>2 DEF Deliver, Deliverable
  <2> HIDE DEF act
  <2>3. Started(act) \in CallFrame /\ Started(act).action = act /\ Started(act).before = time
    BY <2>1, StartedFrame
  <2> QED
    BY <2>1, <2>2, <2>3, ProcessStage DEF Begins, Breaks
<1>3. CASE Drop(l, p)
  <2> DEFINE act == MessageAction("drop", queues[l][p])
  <2>1. act \in Action /\ act.kind # "advance_time" /\ act.target = 0
    BY <1>1 DEF MessageKinds
  <2>2. /\ Admitted /\ UNCHANGED <<resultVars, time, effectCount>>
        /\ call' = [Started(act) EXCEPT !.phase = "observe"]
    BY <1>3 DEF Drop
  <2> HIDE DEF act
  <2>3. call'.action = act /\ call'.before = time /\ call'.phase = "observe"
    BY <2>1, <2>2, StartedFrame
  <2> QED
    BY <2>1, <2>2, <2>3 DEF Begins
<1>4. CASE Duplicate(l, p)
  <2> DEFINE act == MessageAction("duplicate", queues[l][p])
  <2>1. act \in Action /\ act.kind # "advance_time" /\ act.target = 0
    BY <1>1 DEF MessageKinds
  <2>2. /\ Admitted /\ UNCHANGED <<time, effectCount>>
        /\ \/ call' = [Started(act) EXCEPT !.phase = "observe"] /\ UNCHANGED resultVars
           \/ Fails("execute", act)
    BY <1>4, FailsCases DEF Duplicate
  <2> HIDE DEF act
  <2>3. CASE call' = [Started(act) EXCEPT !.phase = "observe"] /\ UNCHANGED resultVars
    <3>1. call'.action = act /\ call'.before = time /\ call'.phase = "observe"
      BY <2>1, <2>3, StartedFrame
    <3> QED
      BY <2>1, <2>2, <2>3, <3>1 DEF Begins
  <2>4. CASE Fails("execute", act)
    BY <2>2, <2>4, FailBreaks DEF Breaks
  <2> QED
    BY <2>2, <2>3, <2>4
<1>5. CASE DeliverFails(l, p)
  BY <1>5, FailBreaks, FailsCases DEF DeliverFails, Breaks
<1> QED
  BY <1>2, <1>3, <1>4, <1>5

\* The same of a call on a member.
LEMMA MemberStages ==
    ASSUME TypeOK, NEW n \in Nodes, NEW kind \in NodeKinds,
           (\E batch \in Batches : OnNode(kind, n, batch)) \/ OnNodeFails(kind, n)
    PROVE  Begins \/ Breaks
<1> DEFINE act == NodeAction(kind, n)
<1>1. act \in Action /\ act.kind # "advance_time" /\ act.target = 0
  BY ActionType DEF NodeAction, NodeKinds
<1>2. ASSUME NEW batch \in Batches, OnNode(kind, n, batch)
      PROVE  Begins \/ Breaks
  <2>1. Admitted /\ time' = time /\ ProcessAdapterEffects(Started(act), batch, queues)
    BY <1>2 DEF OnNode, Applicable
  <2> HIDE DEF act
  <2>2. Started(act) \in CallFrame /\ Started(act).action = act /\ Started(act).before = time
    BY <1>1, StartedFrame
  <2> QED
    BY <1>1, <2>1, <2>2, ProcessStage DEF Begins, Breaks
<1>3. CASE OnNodeFails(kind, n)
  BY <1>3, FailBreaks, FailsCases DEF OnNodeFails, Breaks
<1> QED
  BY <1>2, <1>3

\* A call in progress goes on, breaks off or is recorded.
LEMMA ContinueStages ==
    ASSUME TypeOK, Continue
    PROVE  Proceeds \/ Breaks \/ RecordStep
<1>1. call \in CallFrame
  BY DEF TypeOK
<1>2. ASSUME NEW batch \in Batches, Tick(batch)
      PROVE  Proceeds \/ Breaks
  <2>1. /\ call.phase = "tick" /\ time' = time + 1
        /\ ProcessAdapterEffects(call, batch, queues)
    BY <1>2 DEF Tick, TimeAfterTick
  <2> QED
    BY <1>1, <2>1, ProcessStage DEF Proceeds, Ticks, Breaks
<1>3. CASE TickFails
  <2>1. Fails("execute", call.action)
    BY <1>3, FailsCases DEF TickFails
  <2> QED
    BY <1>3, <2>1, FailBreaks DEF TickFails, TimeAfterTick, Breaks
<1>4. CASE RegisterOutbound
  <2>1. CASE Fails("execute", call.action)
    BY <1>4, <2>1, FailBreaks DEF RegisterOutbound, Breaks
  <2>2. CASE call' = [call EXCEPT !.outbox = Tail(@), !.sent = Append(@, nextMessageID)]
             /\ UNCHANGED resultVars
    <3>1. /\ call'.phase = call.phase /\ call'.action = call.action
          /\ call'.before = call.before /\ call'.batch = call.batch
      BY <1>1, <2>2 DEF CallFrame
    <3> QED
      BY <1>4, <2>2, <3>1 DEF RegisterOutbound, Proceeds, Registers
  <2> QED
    BY <1>4, <2>1, <2>2, FailsCases DEF RegisterOutbound
<1>5. CASE EffectsProcessed
  <2>1. CASE Fails("execute", call.action)
    BY <1>5, <2>1, FailBreaks DEF EffectsProcessed, Breaks
  <2>2. CASE UNCHANGED resultVars
             /\ call' = [call EXCEPT !.effects = @ + call.batch, !.timers = {}, !.batch = 0,
                            !.phase = IF time < call.action.target THEN "tick" ELSE "observe"]
    <3>1. ASSUME NEW e, NEW phase, call' = [call EXCEPT !.effects = e, !.timers = {},
                                                        !.batch = 0, !.phase = phase]
          PROVE  call'.phase = phase /\ call'.action = call.action /\ call'.before = call.before
      BY <1>1, <3>1 DEF CallFrame
    <3> DEFINE next == IF time < call.action.target THEN "tick" ELSE "observe"
    <3>2. call' = [call EXCEPT !.effects = call.effects + call.batch, !.timers = {},
                               !.batch = 0, !.phase = next]
      BY <2>2
    <3>3. call'.phase = next /\ call'.action = call.action /\ call'.before = call.before
      <4> HIDE DEF next
      <4> QED BY <3>1, <3>2
    <3> QED
      BY <1>5, <2>2, <3>3 DEF EffectsProcessed, Proceeds, Processes
  <2> QED
    BY <1>5, <2>1, <2>2, FailsCases DEF EffectsProcessed
<1>6. CASE ObserveFails
  BY <1>6, FailBreaks, FailsCases DEF ObserveFails, Breaks
<1>7. CASE AppendRejected
  BY <1>7, FrameType DEF AppendRejected, Terminate, Breaks
<1> QED
  BY <1>2, <1>3, <1>4, <1>5, <1>6, <1>7 DEF Continue

\* Every step of the Runtime is one of these.
LEMMA StageSteps ==
    TypeOK /\ [Next]_vars =>
        Begins \/ Proceeds \/ Breaks \/ RecordStep \/ ClearRuntime \/ UNCHANGED vars
<1> SUFFICES ASSUME TypeOK, [Next]_vars
             PROVE  Begins \/ Proceeds \/ Breaks \/ RecordStep \/ ClearRuntime \/ UNCHANGED vars
  OBVIOUS
<1>1. CASE OnMessage
  BY <1>1, MessageStages DEF OnMessage
<1>2. CASE OnMember
  BY <1>2, MemberStages DEF OnMember, Timeout, Crash, Restart, Request, NodeKinds
<1>3. ASSUME NEW target \in 1..MaxTime, AdvanceTime(target)
      PROVE  Begins
  <2> DEFINE act == AdvanceAction(target)
  <2>1. target \in 0..MaxTime
    BY BoundsAssumption
  <2>2. act \in Action /\ act.kind = "advance_time" /\ act.target = target
    BY <2>1, ActionType DEF AdvanceAction
  <2>3. /\ Admitted /\ UNCHANGED <<resultVars, time, effectCount>> /\ target > time
        /\ (MaxTicks # 0 => target <= MaxTicks)
        /\ call' = [Started(act) EXCEPT !.phase = "tick"]
    BY <1>3 DEF AdvanceTime
  <2> HIDE DEF act
  <2>4. call'.action = act /\ call'.before = time /\ call'.phase = "tick"
    BY <2>2, <2>3, StartedFrame
  <2>5. time < target
    BY <2>1, <2>3, BoundsAssumption DEF TypeOK
  <2> QED
    BY <2>2, <2>3, <2>4, <2>5 DEF Begins
<1>4. ASSUME NEW act \in Calls, CapabilitiesPanic(act)
      PROVE  Breaks
  BY <1>4, FailBreaks, FailsCases DEF CapabilitiesPanic, Breaks
<1>5. CASE Continue
  BY <1>5, ContinueStages
<1>6. CASE Reset \/ ResetFails
  BY <1>6 DEF Reset, ResetFails
<1> QED
  BY <1>1, <1>2, <1>3, <1>4, <1>5, <1>6 DEF Next

----------------------------------------------------------------------------
(* The trace.                                                              *)

\* When the last recorded step ended.
LastEnd == IF trace = <<>> THEN 0 ELSE trace[Len(trace)].after

History ==
    \A k \in DOMAIN trace :
        /\ trace[k].before = IF k = 1 THEN 0 ELSE trace[k - 1].after
        /\ trace[k].after = IF trace[k].action.kind = "advance_time"
                            THEN trace[k].action.target ELSE trace[k].before

\* A call starts where the last recorded step ended; only an advance_time has
\* moved time since, up to its target, which it has reached when it is observed.
CallTime ==
    call.phase # "idle" =>
        /\ call.before = LastEnd
        /\ IF call.action.kind = "advance_time"
           THEN /\ time <= call.action.target
                /\ call.phase = "observe" => time = call.action.target
           ELSE /\ call.phase # "tick" /\ call.action.target = 0
                /\ time = call.before

Contiguous == History /\ CallTime /\ (Ready => time = LastEnd)

\* A new execution has no step.
LEMMA ContiguousInit == Init => Contiguous
<1> SUFFICES ASSUME Init PROVE Contiguous
  OBVIOUS
<1>1. trace = <<>> /\ DOMAIN trace = {} /\ time = 0 /\ call.phase = "idle"
  BY EmptySeq, FrameType DEF Init
<1> QED
  BY <1>1 DEF Contiguous, History, CallTime, LastEnd

\* What recording a step does to the trace.
LEMMA RecordShape ==
    ASSUME TypeOK, RecordStep
    PROVE  /\ DOMAIN trace = 1..Len(trace) /\ Len(trace) \in Nat
           /\ DOMAIN trace' = 1..Len(trace') /\ Len(trace') = Len(trace) + 1
           /\ \A k \in 1..Len(trace) : trace'[k] = trace[k]
           /\ trace'[Len(trace')].action = call.action
           /\ trace'[Len(trace')].before = call.before
           /\ trace'[Len(trace')].after = time
           /\ trace' # <<>> /\ (trace = <<>> <=> Len(trace) = 0)
<1> DEFINE record == [action |-> call.action, before |-> call.before, after |-> time,
                      sent |-> call.sent, effects |-> call.effects]
<1>1. record \in StepRecord
  BY DEF TypeOK, CallFrame, StepRecord
<1>2. trace' = Append(trace, record) /\ trace \in Seq(StepRecord)
  BY DEF RecordStep, TypeOK
<1>3. record.action = call.action /\ record.before = call.before /\ record.after = time
  OBVIOUS
<1> HIDE DEF record
<1>4. /\ trace' \in Seq(StepRecord) /\ Len(trace') = Len(trace) + 1
      /\ \A k \in 1..Len(trace) : trace'[k] = trace[k]
      /\ trace'[Len(trace) + 1] = record
  BY <1>1, <1>2, AppendProperties
<1>5. /\ Len(trace) \in Nat /\ DOMAIN trace = 1..Len(trace)
      /\ DOMAIN trace' = 1..Len(trace') /\ Len(trace') \in Nat
  BY <1>2, <1>4, LenProperties
<1>6. trace' # <<>> /\ (trace = <<>> <=> Len(trace) = 0)
  BY <1>2, <1>4, <1>5, EmptySeq
<1> QED
  BY <1>3, <1>4, <1>5, <1>6

\* A recorded step begins where the one before it ended.
LEMMA ContiguousStep == Types /\ Contiguous /\ [Next]_vars => Contiguous'
<1> SUFFICES ASSUME Types, Contiguous, [Next]_vars PROVE Contiguous'
  OBVIOUS
<1> USE DEF Types
<1>1. time \in Nat /\ call.action.target \in Nat /\ time' \in Nat /\ call'.action.target \in Nat
  <2>1. TypeOK'
    BY TypesStep
  <2> QED
    BY <2>1, BoundsAssumption DEF TypeOK, CallFrame, Action
<1>2. ASSUME UNCHANGED trace
      PROVE  History' /\ LastEnd' = LastEnd
  BY <1>2 DEF Contiguous, History, LastEnd
<1>3. CASE Begins
  <2>1. UNCHANGED <<trace, time>> /\ time = LastEnd /\ call'.before = time /\ call'.phase # "idle"
    BY <1>3 DEF Begins, Admitted, Contiguous, resultVars
  <2>2. CallTime'
    BY <1>1, <1>2, <1>3, <2>1 DEF Begins, CallTime
  <2> QED
    BY <1>2, <2>1, <2>2 DEF Contiguous, Ready
<1>4. CASE Proceeds
  <2>1. /\ UNCHANGED trace /\ call.phase # "idle" /\ call'.phase # "idle"
        /\ call'.action = call.action /\ call'.before = call.before
    BY <1>4 DEF Proceeds, Ticks, Registers, Processes, resultVars
  <2>2. CallTime'
    BY <1>1, <1>2, <1>4, <2>1 DEF Proceeds, Ticks, Registers, Processes, Contiguous, CallTime, TickAhead
  <2> QED
    BY <1>2, <2>1, <2>2 DEF Contiguous, Ready
<1>5. CASE Breaks
  BY <1>2, <1>5 DEF Breaks, Contiguous, CallTime, Ready
<1>6. CASE RecordStep
  <2>1. call'.phase = "idle" /\ time' = time /\ call.phase = "observe"
    BY <1>6, FrameType DEF RecordStep
  <2>2. /\ call.before = LastEnd
        /\ time = IF call.action.kind = "advance_time" THEN call.action.target ELSE call.before
    BY <2>1 DEF Contiguous, CallTime
  <2>3. LastEnd' = time
    BY <1>6, RecordShape DEF LastEnd
  <2>4. ASSUME NEW k \in DOMAIN trace'
        PROVE  /\ trace'[k].before = IF k = 1 THEN 0 ELSE trace'[k - 1].after
               /\ trace'[k].after = IF trace'[k].action.kind = "advance_time"
                                    THEN trace'[k].action.target ELSE trace'[k].before
    <3>1. k \in 1..(Len(trace) + 1) /\ Len(trace) \in Nat /\ Len(trace') = Len(trace) + 1
      BY <1>6, RecordShape
    <3>2. CASE k \in 1..Len(trace)
      <4>1. k \in DOMAIN trace /\ trace'[k] = trace[k]
        BY <1>6, <3>2, RecordShape
      <4>2. CASE k = 1
        BY <4>1, <4>2 DEF Contiguous, History
      <4>3. CASE k # 1
        <5>1. k - 1 \in 1..Len(trace)
          BY <3>1, <3>2, <4>3
        <5>2. trace'[k - 1] = trace[k - 1]
          BY <1>6, <5>1, RecordShape
        <5> QED
          BY <4>1, <4>3, <5>2 DEF Contiguous, History
      <4> QED
        BY <4>2, <4>3
    <3>3. CASE k = Len(trace')
      <4>1. trace'[k].action = call.action /\ trace'[k].before = call.before /\ trace'[k].after = time
        BY <1>6, <3>3, RecordShape
      <4>2. call.before = IF k = 1 THEN 0 ELSE trace'[k - 1].after
        <5>1. CASE Len(trace) = 0
          BY <1>6, <2>2, <3>1, <3>3, <5>1, RecordShape DEF LastEnd
        <5>2. CASE Len(trace) # 0
          <6>1. k # 1 /\ k - 1 = Len(trace) /\ Len(trace) \in 1..Len(trace)
            BY <3>1, <3>3, <5>2
          <6>2. trace'[k - 1] = trace[Len(trace)] /\ LastEnd = trace[Len(trace)].after
            BY <1>6, <5>2, <6>1, RecordShape DEF LastEnd
          <6> QED
            BY <2>2, <6>1, <6>2
        <5> QED
          BY <5>1, <5>2
      <4> QED
        BY <2>2, <4>1, <4>2
    <3> QED
      BY <3>1, <3>2, <3>3, SMTT(30)
  <2> QED
    BY <2>1, <2>3, <2>4 DEF Contiguous, History, CallTime
<1>7. CASE ClearRuntime
  <2>1. trace' = <<>> /\ DOMAIN trace' = {} /\ time' = 0 /\ call'.phase = "idle"
    BY <1>7, EmptySeq DEF ClearRuntime
  <2> QED
    BY <2>1 DEF Contiguous, History, CallTime, LastEnd
<1>8. CASE UNCHANGED vars
  BY <1>8 DEF vars, resultVars, Contiguous, History, CallTime, LastEnd, Ready
<1> QED
  BY StageSteps, <1>3, <1>4, <1>5, <1>6, <1>7, <1>8

\* The records of a trace follow each other without a gap in time, whatever
\* calls failed or were cut short in between: Trace.Append never refuses one.
THEOREM TraceCorrect == Spec => []TraceContiguous
<1>1. Contiguous => TraceContiguous
  BY DEF Contiguous, History, LastEnd, TraceContiguous
<1> QED
  BY <1>1, TypesInit, TypesStep, ContiguousInit, ContiguousStep, PTL DEF Spec

----------------------------------------------------------------------------
(* The hard limits.  The number of queued messages needs more than the     *)
(* stages: what an adapter call returned and is not registered yet has its *)
(* room reserved.                                                          *)

Room == MaxQueuedMessages # 0 => NetworkLen(queues) <= MaxQueuedMessages

Reserved ==
    call.phase = "register" /\ MaxQueuedMessages # 0
        => NetworkLen(queues) + Len(call.outbox) <= MaxQueuedMessages

QueueLimits == IsFiniteSet(Slots(queues)) /\ Room /\ Reserved

\* A removal frees one slot, the last of its link.
LEMMA RemovalFrees ==
    ASSUME TypeOK, IsFiniteSet(Slots(queues)), NEW l \in Links, NEW p \in 1..Len(queues[l])
    PROVE  /\ IsFiniteSet(Slots(Without(l, p)))
           /\ NetworkLen(Without(l, p)) = NetworkLen(queues) - 1
           /\ NetworkLen(queues) \in Nat /\ NetworkLen(Without(l, p)) \in Nat
<1> DEFINE q == Without(l, p)
           n == Len(queues[l])
<1>1. n \in Nat \ {0} /\ Len(q[l]) = n - 1 /\ \A k \in Links \ {l} : q[k] = queues[k]
  <2>1. queues[l] \in Seq(Message) /\ n \in Nat
    BY LenProperties DEF TypeOK
  <2>2. q[l] = RemoveAt(queues[l], p) /\ \A k \in Links \ {l} : q[k] = queues[k]
    BY DEF Without, TypeOK
  <2> QED
    BY <2>1, <2>2, RemoveAtProperties
<1> HIDE DEF q, n
<1>2. 1..(n - 1) = 1..n \ {n} /\ n \in 1..n
  BY <1>1
<1>3. Slots(q) = Slots(queues) \ {<<l, n>>} /\ <<l, n>> \in Slots(queues)
  <2>1. ASSUME NEW s
        PROVE  s \in Slots(q) <=> s \in Slots(queues) /\ s # <<l, n>>
    <3>1. s \in Slots(q) <=> \E k \in Links : \E i \in 1..Len(q[k]) : s = <<k, i>>
      BY DEF Slots
    <3>2. s \in Slots(queues) <=> \E k \in Links : \E i \in 1..Len(queues[k]) : s = <<k, i>>
      BY DEF Slots
    <3>3. ASSUME NEW k \in Links, k # l
          PROVE  \A i : (i \in 1..Len(q[k]) <=> i \in 1..Len(queues[k])) /\ <<k, i>> # <<l, n>>
      BY <1>1, <3>3
    <3>4. \A i : i \in 1..Len(q[l]) <=> i \in 1..Len(queues[l]) /\ <<l, i>> # <<l, n>>
      BY <1>1, <1>2 DEF n
    <3> QED
      BY <3>1, <3>2, <3>3, <3>4
  <2>2. <<l, n>> \in Slots(queues)
    BY <1>2 DEF Slots, n
  <2> QED
    BY <2>1, <2>2
<1>4. /\ IsFiniteSet(Slots(q))
      /\ Cardinality(Slots(q)) = Cardinality(Slots(queues)) - 1
  BY <1>3, FS_RemoveElement
<1>5. Cardinality(Slots(q)) \in Nat /\ Cardinality(Slots(queues)) \in Nat
  BY <1>4, FS_CardinalityType
<1> QED
  BY <1>4, <1>5 DEF NetworkLen, q

\* A registration takes one slot more.
LEMMA RegistrationTakes ==
    ASSUME TypeOK, IsFiniteSet(Slots(queues)), NEW l \in Links, NEW parent \in IDs,
           ~IdentitiesExhausted(l), Register(l, parent)
    PROVE  /\ IsFiniteSet(Slots(queues'))
           /\ NetworkLen(queues') = NetworkLen(queues) + 1
           /\ NetworkLen(queues) \in Nat
<1> DEFINE n == Len(queues[l]) + 1
<1>1. /\ \A k \in Links \ {l} : queues'[k] = queues[k]
      /\ Len(queues[l]) \in Nat /\ Len(queues'[l]) = n
  BY RegistrationShape
<1>2. 1..n = 1..Len(queues[l]) \cup {n} /\ n \notin 1..Len(queues[l])
  BY <1>1
<1> HIDE DEF n
<1>3. Slots(queues') = Slots(queues) \cup {<<l, n>>} /\ <<l, n>> \notin Slots(queues)
  <2>1. ASSUME NEW s
        PROVE  s \in Slots(queues') <=> s \in Slots(queues) \/ s = <<l, n>>
    <3>1. s \in Slots(queues') <=> \E k \in Links : \E i \in 1..Len(queues'[k]) : s = <<k, i>>
      BY DEF Slots
    <3>2. s \in Slots(queues) <=> \E k \in Links : \E i \in 1..Len(queues[k]) : s = <<k, i>>
      BY DEF Slots
    <3>3. ASSUME NEW k \in Links, k # l
          PROVE  \A i : i \in 1..Len(queues'[k]) <=> i \in 1..Len(queues[k])
      BY <1>1, <3>3
    <3>4. \A i : i \in 1..Len(queues'[l]) <=> i \in 1..Len(queues[l]) \/ i = n
      BY <1>1, <1>2
    <3> QED
      BY <3>1, <3>2, <3>3, <3>4
  <2>2. <<l, n>> \notin Slots(queues)
    BY <1>2 DEF Slots
  <2> QED
    BY <2>1, <2>2
<1>4. /\ IsFiniteSet(Slots(queues'))
      /\ Cardinality(Slots(queues')) = Cardinality(Slots(queues)) + 1
  BY <1>3, FS_AddElement
<1>5. Cardinality(Slots(queues)) \in Nat
  BY FS_CardinalityType
<1> QED
  BY <1>4, <1>5 DEF NetworkLen

\* Nothing is queued at first.
LEMMA QueueInit == Init => QueueLimits
<1> SUFFICES ASSUME Init PROVE QueueLimits
  OBVIOUS
<1>1. \A l \in Links : 1..Len(queues[l]) = {}
  BY EmptySeq DEF Init
<1>2. Slots(queues) = {}
  BY <1>1 DEF Slots
<1>3. IsFiniteSet(Slots(queues)) /\ NetworkLen(queues) = 0
  BY <1>2, FS_EmptySet DEF NetworkLen
<1>4. call.phase = "idle"
  BY FrameType DEF Init
<1> QED
  BY <1>3, <1>4, LimitsAssumption DEF QueueLimits, Room, Reserved

\* After an adapter call there is room for its messages, or no call.
LEMMA ProcessQueues ==
    ASSUME NEW frame \in CallFrame, NEW batch \in Batches, NEW q,
           IsFiniteSet(Slots(q)), MaxQueuedMessages # 0 => NetworkLen(q) <= MaxQueuedMessages,
           ProcessAdapterEffects(frame, batch, q)
    PROVE  QueueLimits'
<1>1. queues' = q
  BY DEF ProcessAdapterEffects
<1>2. CASE Fails("execute", frame.action)
  BY <1>1, <1>2, FailBreaksOff DEF QueueLimits, Room, Reserved
<1>3. CASE /\ WithinBudget(batch, q)
           /\ call' = [frame EXCEPT !.phase = "register", !.outbox = batch.sends,
                                    !.timers = batch.timers, !.batch = BatchSize(batch)]
  <2>1. call'.outbox = batch.sends
    BY <1>3 DEF CallFrame
  <2> QED
    BY <1>1, <1>3, <2>1 DEF WithinBudget, QueueLimits, Room, Reserved
<1> QED
  BY <1>2, <1>3, FailsCases DEF ProcessAdapterEffects

\* A registration or a copy stays within the limit of its queue.
LEMMA QueueStep == Types /\ QueueLimits /\ [Next]_vars => QueueLimits'
<1> SUFFICES ASSUME Types, QueueLimits, [Next]_vars PROVE QueueLimits'
  OBVIOUS
<1> USE DEF Types
<1>1. ASSUME UNCHANGED queues, call'.phase # "register"
      PROVE  QueueLimits'
  BY <1>1 DEF QueueLimits, Room, Reserved
<1>2. \A operation, act : Fails(operation, act) => call'.phase = "idle"
  BY FailBreaksOff
<1>3. ASSUME NEW frame \in CallFrame, NEW batch \in Batches,
             ProcessAdapterEffects(frame, batch, queues)
      PROVE  QueueLimits'
  BY <1>3, ProcessQueues DEF QueueLimits, Room
<1>4. \A act \in Action : Started(act) \in CallFrame
  BY FrameType DEF TypeOK
<1>5. CASE OnMessage
  <2> SUFFICES ASSUME NEW l \in Links, NEW p \in 1..Len(queues[l]),
                      \/ \E batch \in Batches : Deliver(l, p, batch)
                      \/ Drop(l, p) \/ Duplicate(l, p) \/ DeliverFails(l, p)
               PROVE  QueueLimits'
    BY <1>5 DEF OnMessage
  <2>1. \A kind \in MessageKinds : MessageAction(kind, queues[l][p]) \in Action
    BY ActionType, QueuedType
  <2>2. /\ IsFiniteSet(Slots(Without(l, p)))
        /\ MaxQueuedMessages # 0 => NetworkLen(Without(l, p)) <= MaxQueuedMessages
    BY RemovalFrees, LimitsAssumption DEF QueueLimits, Room
  <2>3. ASSUME NEW batch \in Batches, Deliver(l, p, batch)
        PROVE  QueueLimits'
    <3>1. Started(MessageAction("deliver", queues[l][p])) \in CallFrame
      BY <1>4, <2>1 DEF MessageKinds
    <3> QED
      BY <2>2, <2>3, <3>1, ProcessQueues DEF Deliver
  <2>4. CASE Drop(l, p)
    <3>1. call'.phase = "observe" /\ queues' = Without(l, p)
      BY <2>1, <2>4, StartedFrame DEF Drop, MessageKinds
    <3> QED
      BY <2>2, <3>1 DEF QueueLimits, Room, Reserved
  <2>5. CASE Duplicate(l, p)
    <3> DEFINE act == MessageAction("duplicate", queues[l][p])
    <3>1. act \in Action /\ queues[l][p].id \in IDs
      BY <2>1, QueuedType DEF MessageKinds
    <3>2. CASE ~IdentitiesExhausted(l) /\ Register(l, queues[l][p].id)
               /\ call' = [Started(act) EXCEPT !.phase = "observe"]
      <4>1. call'.phase = "observe"
        <5> HIDE DEF act
        <5> QED BY <3>1, <3>2, StartedFrame
      <4>2. /\ IsFiniteSet(Slots(queues')) /\ NetworkLen(queues) \in Nat
            /\ NetworkLen(queues') = NetworkLen(queues) + 1
        BY <3>1, <3>2, RegistrationTakes DEF QueueLimits
      <4>3. MaxQueuedMessages # 0 => NetworkLen(queues) < MaxQueuedMessages
        BY <2>5 DEF Duplicate
      <4>4. MaxQueuedMessages # 0 => NetworkLen(queues') <= MaxQueuedMessages
        BY <4>2, <4>3, LimitsAssumption
      <4> QED
        BY <4>1, <4>2, <4>4 DEF QueueLimits, Room, Reserved
    <3>3. CASE UNCHANGED networkVars /\ Fails("execute", act)
      BY <1>1, <1>2, <3>3 DEF networkVars
    <3> QED
      BY <2>5, <3>2, <3>3, FailsCases DEF Duplicate
  <2>6. CASE DeliverFails(l, p)
    BY <1>1, <1>2, <2>6, FailsCases DEF DeliverFails, networkVars
  <2> QED
    BY <2>3, <2>4, <2>5, <2>6
<1>6. CASE OnMember
  <2>1. ASSUME NEW n \in Nodes, NEW kind \in NodeKinds, NEW batch \in Batches, OnNode(kind, n, batch)
        PROVE  QueueLimits'
    BY <1>3, <1>4, <2>1, ActionType DEF OnNode
  <2>2. ASSUME NEW n \in Nodes, NEW kind \in NodeKinds, OnNodeFails(kind, n)
        PROVE  QueueLimits'
    BY <1>1, <1>2, <2>2, FailsCases DEF OnNodeFails, networkVars
  <2> QED
    BY <1>6, <2>1, <2>2 DEF OnMember, Timeout, Crash, Restart, Request, NodeKinds
<1>7. ASSUME NEW target \in 1..MaxTime, AdvanceTime(target)
      PROVE  QueueLimits'
  <2>1. AdvanceAction(target) \in Action
    BY ActionType, BoundsAssumption
  <2>2. call'.phase = "tick"
    BY <1>7, <2>1, StartedFrame DEF AdvanceTime
  <2> QED
    BY <1>1, <1>7, <2>2 DEF AdvanceTime, networkVars
<1>8. ASSUME NEW act \in Calls, CapabilitiesPanic(act)
      PROVE  QueueLimits'
  BY <1>1, <1>2, <1>8, FailsCases DEF CapabilitiesPanic, networkVars
<1>9. CASE Continue
  <2>1. call \in CallFrame
    BY DEF TypeOK
  <2>2. ASSUME NEW batch \in Batches, Tick(batch)
        PROVE  QueueLimits'
    BY <1>3, <2>1, <2>2 DEF Tick
  <2>3. CASE TickFails \/ ObserveFails
    BY <1>1, <1>2, <2>3, FailsCases DEF TickFails, ObserveFails, networkVars
  <2>4. CASE RegisterOutbound
    <3> DEFINE l == Head(call.outbox)
    <3>1. CASE ~IdentitiesExhausted(l) /\ Register(l, 0)
               /\ call' = [call EXCEPT !.outbox = Tail(@), !.sent = Append(@, nextMessageID)]
      <4>1. call.phase = "register" /\ call.outbox # <<>> /\ call.outbox \in Seq(Links)
        BY <2>1, <2>4 DEF RegisterOutbound, CallFrame
      <4>2. /\ call'.outbox = Tail(call.outbox) /\ l \in Links
            /\ Len(call.outbox) \in Nat /\ Len(Tail(call.outbox)) = Len(call.outbox) - 1
            /\ Len(call.outbox) >= 1
        BY <2>1, <3>1, <4>1, HeadTailProperties, LenProperties, EmptySeq DEF CallFrame
      <4>3. 0 \in IDs
        BY BoundsAssumption DEF IDs
      <4>4. /\ IsFiniteSet(Slots(queues')) /\ NetworkLen(queues) \in Nat
            /\ NetworkLen(queues') = NetworkLen(queues) + 1
        <5> HIDE DEF l
        <5> QED BY <3>1, <4>2, <4>3, RegistrationTakes DEF QueueLimits
      <4>5. MaxQueuedMessages # 0 => NetworkLen(queues) + Len(call.outbox) <= MaxQueuedMessages
        BY <4>1 DEF QueueLimits, Reserved
      <4>6. MaxQueuedMessages # 0 =>
              /\ NetworkLen(queues') <= MaxQueuedMessages
              /\ NetworkLen(queues') + Len(call'.outbox) <= MaxQueuedMessages
        BY <4>2, <4>4, <4>5, LimitsAssumption
      <4> QED
        BY <4>4, <4>6 DEF QueueLimits, Room, Reserved
    <3>2. CASE UNCHANGED networkVars /\ Fails("execute", call.action)
      BY <1>1, <1>2, <3>2 DEF networkVars
    <3> QED
      BY <2>4, <3>1, <3>2, FailsCases DEF RegisterOutbound
  <2>5. CASE EffectsProcessed
    <3>2. call.phase = "register" /\ call.outbox = <<>> /\ UNCHANGED networkVars
      BY <2>5 DEF EffectsProcessed
    <3>3. Reserved'
      <4>1. CASE Fails("execute", call.action)
        BY <1>2, <4>1 DEF Reserved
      <4>2. CASE call' = [call EXCEPT !.effects = @ + call.batch, !.timers = {}, !.batch = 0,
                            !.phase = IF time < call.action.target THEN "tick" ELSE "observe"]
        <5>1. \E phase \in {"tick", "observe"} : \E e :
                call' = [call EXCEPT !.effects = e, !.timers = {}, !.batch = 0, !.phase = phase]
          BY <4>2
        <5> QED
          BY <2>1, <5>1 DEF CallFrame, Reserved
      <4> QED
        BY <2>5, <4>1, <4>2, FailsCases DEF EffectsProcessed
    <3> QED
      BY <3>2, <3>3 DEF networkVars, QueueLimits, Room
  <2>6. CASE RecordStep \/ AppendRejected
    BY <1>1, <2>6, FrameType DEF RecordStep, AppendRejected, networkVars
  <2> QED
    BY <1>9, <2>2, <2>3, <2>4, <2>5, <2>6 DEF Continue
<1>10. CASE Reset \/ ResetFails
  <2>1. call' = call /\ call.phase = "idle" /\ \A l \in Links : queues'[l] = <<>>
    BY <1>10 DEF Reset, ResetFails, ClearRuntime
  <2>2. Slots(queues') = {}
    BY <2>1, EmptySeq DEF Slots
  <2>3. IsFiniteSet(Slots(queues')) /\ NetworkLen(queues') = 0
    BY <2>2, FS_EmptySet DEF NetworkLen
  <2> QED
    BY <2>1, <2>3, LimitsAssumption DEF QueueLimits, Room, Reserved
<1>11. CASE UNCHANGED vars
  BY <1>11 DEF vars, networkVars, QueueLimits, Room, Reserved
<1> QED
  BY <1>5, <1>6, <1>7, <1>8, <1>9, <1>10, <1>11 DEF Next

\* What a call may still spend is known from the moment it is admitted: the
\* room for its record, the ticks up to its target, the effects of a batch.
Limits ==
    /\ actionCount = Len(trace)
    /\ MaxActions # 0 => actionCount <= MaxActions
    /\ MaxTicks # 0 => time <= MaxTicks
    /\ MaxEffects # 0 => effectCount <= MaxEffects
    /\ call.phase # "idle" =>
          /\ MaxActions # 0 => actionCount < MaxActions
          /\ MaxTicks # 0 /\ call.action.kind = "advance_time" => call.action.target <= MaxTicks
    /\ call.phase = "register" => EffectsFit

\* A new execution has used nothing of its budget.
LEMMA LimitsInit == Init => Limits
<1> SUFFICES ASSUME Init PROVE Limits
  OBVIOUS
<1>1. /\ Len(trace) = 0 /\ actionCount = 0 /\ effectCount = 0 /\ time = 0
      /\ call.phase = "idle"
  BY EmptySeq, FrameType DEF Init
<1> QED
  BY <1>1, LimitsAssumption DEF Limits

\* No step uses more than there is.
LEMMA LimitsStep == Types /\ CallTime /\ Limits /\ [Next]_vars => Limits'
<1> SUFFICES ASSUME Types, CallTime, Limits, [Next]_vars PROVE Limits'
  OBVIOUS
<1> USE DEF Types
<1>1. /\ time \in Nat /\ actionCount \in Nat /\ effectCount \in Nat
      /\ call.batch \in Nat /\ call.action.target \in Nat
  BY BoundsAssumption DEF TypeOK, CallFrame, Action
<1>2. call.phase = "tick" => (MaxTicks # 0 => time + 1 <= MaxTicks)
  BY <1>1, LimitsAssumption DEF TickAhead, CallTime, Limits
<1>3. call.phase = "register" => (MaxEffects # 0 => effectCount + call.batch <= MaxEffects)
  BY DEF Limits, EffectsFit
<1>4. CASE Begins
  BY <1>1, <1>4 DEF Begins, Admitted, resultVars, Limits
<1>5. CASE Proceeds
  <2>1. UNCHANGED <<trace, actionCount>> /\ call'.action = call.action /\ call.phase # "idle"
    BY <1>5 DEF Proceeds, resultVars, Ticks, Registers, Processes
  <2>2. CASE Ticks
    BY <1>2, <2>1, <2>2 DEF Ticks, Limits
  <2>3. CASE Registers
    BY <2>1, <2>3 DEF Registers, Limits, EffectsFit
  <2>4. CASE Processes
    BY <1>3, <2>1, <2>4 DEF Processes, Limits
  <2> QED
    BY <1>5, <2>2, <2>3, <2>4 DEF Proceeds
<1>6. CASE Breaks
  BY <1>2, <1>3, <1>6 DEF Breaks, Limits
<1>7. CASE RecordStep
  <2>1. /\ Len(trace') = Len(trace) + 1 /\ actionCount' = actionCount + 1
        /\ UNCHANGED <<time, effectCount>> /\ call.phase = "observe" /\ call'.phase = "idle"
    BY <1>7, RecordShape, FrameType DEF RecordStep
  <2> QED
    BY <1>1, <2>1, LimitsAssumption DEF Limits
<1>8. CASE ClearRuntime
  <2>1. /\ Len(trace') = 0 /\ actionCount' = 0 /\ effectCount' = 0 /\ time' = 0
        /\ call'.phase = "idle"
    BY <1>8, EmptySeq DEF ClearRuntime
  <2> QED
    BY <2>1, LimitsAssumption DEF Limits
<1>9. CASE UNCHANGED vars
  BY <1>9 DEF vars, resultVars, Limits, EffectsFit
<1> QED
  BY StageSteps, <1>4, <1>5, <1>6, <1>7, <1>8, <1>9

\* Whatever an adapter returns and wherever a call fails, no limit is ever
\* exceeded, not even inside a step, and the counter of actions is the length
\* of the trace.
THEOREM LimitsCorrect == Spec => []LimitsHold
<1>1. Limits /\ QueueLimits => LimitsHold
  BY DEF Limits, QueueLimits, Room, LimitsHold
<1>2. Contiguous => CallTime
  BY DEF Contiguous
<1> QED
  BY <1>1, <1>2, TypesInit, TypesStep, ContiguousInit, ContiguousStep, LimitsInit, LimitsStep,
     QueueInit, QueueStep, PTL DEF Spec

----------------------------------------------------------------------------
(* The order of a queue, part by part: each message by itself, each pair   *)
(* on a link, and each copy with every queued message.                     *)

Placed ==
    \A l \in Links : \A j \in 1..Len(queues[l]) :
        /\ queues[l][j].link = l /\ queues[l][j].sequence <= lastLinkSequence[l]
        /\ queues[l][j].enqueuedAt <= time
        /\ queues[l][j].parent < queues[l][j].id

Increasing ==
    \A l \in Links : \A j \in 1..Len(queues[l]) : \A i \in 1..(j - 1) :
        /\ queues[l][i].id < queues[l][j].id
        /\ queues[l][i].sequence < queues[l][j].sequence
        /\ queues[l][i].enqueuedAt <= queues[l][j].enqueuedAt

CopiesBehind ==
    \A l \in Links : \A j \in 1..Len(queues[l]) :
        \A k \in Links : \A i \in 1..Len(queues[k]) :
            queues[k][i].id = queues[l][j].parent => k = l /\ i < j

\* The three parts of the invariant give the order of a link.
LEMMA OrderParts == Placed /\ Increasing /\ CopiesBehind => LinkOrder
<1> SUFFICES ASSUME Placed, Increasing, CopiesBehind,
                    NEW l \in Links, NEW j \in 1..Len(queues[l]), NEW s \in Slots(queues),
                    queues[s[1]][s[2]].id = queues[l][j].parent
             PROVE  s[1] = l /\ s[2] < j
  BY DEF LinkOrder, Placed, Increasing
<1>1. PICK k \in Links : s \in {k} \X (1..Len(queues[k]))
  BY DEF Slots
<1> QED
  BY <1>1 DEF CopiesBehind

\* Empty queues are in order.
LEMMA OrderInit == Init => Placed /\ Increasing /\ CopiesBehind
<1> SUFFICES ASSUME Init PROVE Placed /\ Increasing /\ CopiesBehind
  OBVIOUS
<1>1. \A l \in Links : 1..Len(queues[l]) = {}
  BY EmptySeq DEF Init
<1> QED
  BY <1>1 DEF Placed, Increasing, CopiesBehind

\* A removal keeps the messages and their order.
LEMMA OrderRemoval ==
    ASSUME TypeOK, TypeOK', Placed, Increasing, CopiesBehind, Removal
    PROVE  Placed' /\ Increasing' /\ CopiesBehind'
<1>0. \A k \in Links : Len(queues'[k]) \in Nat
  BY LenProperties DEF TypeOK
<1> SUFFICES ASSUME NEW l \in Links, NEW p \in 1..Len(queues[l]), queues' = Without(l, p),
                    UNCHANGED <<nextMessageID, lastLinkSequence, time>>
             PROVE  Placed' /\ Increasing' /\ CopiesBehind'
  BY DEF Removal
<1> DEFINE old(k, i) == IF k = l /\ i >= p THEN i + 1 ELSE i
<1>1. \A k \in Links : \A i \in 1..Len(queues'[k]) :
        /\ old(k, i) \in 1..Len(queues[k])
        /\ queues'[k][i] = queues[k][old(k, i)]
  BY RemovalShape
<1>2. p \in Nat /\ \A k \in Links : Len(queues[k]) \in Nat
  BY LenProperties DEF TypeOK
<1>3. \A k \in Links : \A i, j \in Int : i < j <=> old(k, i) < old(k, j)
  BY <1>2
<1>5. \A k \in Links : \A j \in 1..Len(queues'[k]) : \A i \in 1..(j - 1) :
        old(k, i) \in 1..(old(k, j) - 1)
  BY <1>1, <1>2
<1> HIDE DEF old
<1>6. Placed'
  BY <1>1, SMTT(30) DEF Placed
<1>7. Increasing'
  <2> SUFFICES ASSUME NEW k \in Links, NEW j \in 1..Len(queues'[k]), NEW i \in 1..(j - 1)
               PROVE  /\ queues'[k][i].id < queues'[k][j].id
                      /\ queues'[k][i].sequence < queues'[k][j].sequence
                      /\ queues'[k][i].enqueuedAt <= queues'[k][j].enqueuedAt
    BY DEF Increasing
  <2>1. queues'[k][j] = queues[k][old(k, j)] /\ old(k, j) \in 1..Len(queues[k])
    BY <1>1
  <2>2. i \in 1..Len(queues'[k])
    BY <1>0
  <2>3. queues'[k][i] = queues[k][old(k, i)] /\ old(k, i) \in 1..(old(k, j) - 1)
    BY <1>1, <1>5, <2>2
  <2> QED
    BY <2>1, <2>3 DEF Increasing
<1>8. CopiesBehind'
  <2> SUFFICES ASSUME NEW k \in Links, NEW j \in 1..Len(queues'[k]),
                      NEW h \in Links, NEW i \in 1..Len(queues'[h]),
                      queues'[h][i].id = queues'[k][j].parent
               PROVE  h = k /\ i < j
    BY DEF CopiesBehind
  <2>1. queues[h][old(h, i)].id = queues[k][old(k, j)].parent
    BY <1>1
  <2>2. h = k /\ old(h, i) < old(k, j)
    BY <1>1, <2>1 DEF CopiesBehind
  <2>3. i \in Int /\ j \in Int
    OBVIOUS
  <2> QED
    BY <1>3, <2>2, <2>3
<1> QED
  BY <1>6, <1>7, <1>8

\* A registration appends a message that is younger than everything queued,
\* and a copy of a message of the same link or of none.
LEMMA OrderRegistration ==
    ASSUME TypeOK, TypeOK', IdentitiesUnique, Placed, Increasing, CopiesBehind, Registration
    PROVE  Placed' /\ Increasing' /\ CopiesBehind'
<1> SUFFICES ASSUME NEW l \in Links, NEW parent \in IDs, ~IdentitiesExhausted(l),
                    Register(l, parent), UNCHANGED time,
                    parent = 0 \/ \E p \in 1..Len(queues[l]) : parent = queues[l][p].id
             PROVE  Placed' /\ Increasing' /\ CopiesBehind'
  BY DEF Registration
<1> DEFINE n == Len(queues[l]) + 1
           m == [id |-> nextMessageID, link |-> l, sequence |-> lastLinkSequence[l] + 1,
                 parent |-> parent, enqueuedAt |-> time]
           queued(k, i) == k \in Links /\ i \in 1..Len(queues[k])
<1>1. /\ \A k \in Links \ {l} : queues'[k] = queues[k]
      /\ Len(queues[l]) \in Nat /\ Len(queues'[l]) = n
      /\ \A i \in 1..Len(queues[l]) : queues'[l][i] = queues[l][i]
      /\ queues'[l][n] = m
  BY RegistrationShape
<1>2. \A k \in Links : \A i \in 1..Len(queues'[k]) :
        \/ queued(k, i) /\ queues'[k][i] = queues[k][i]
        \/ k = l /\ i = n /\ queues'[k][i] = m
  BY <1>1
<1>3. \A k, i : queued(k, i) => queues[k][i] \in Message
  BY QueuedType
<1>4. /\ time \in Nat /\ lastLinkSequence[l] \in Nat
      /\ lastLinkSequence' = [lastLinkSequence EXCEPT ![l] = @ + 1]
      /\ \A k \in Links : lastLinkSequence'[k] = IF k = l THEN lastLinkSequence[l] + 1
                                                 ELSE lastLinkSequence[k]
  BY BoundsAssumption DEF TypeOK, IDs, Register
<1>5. /\ nextMessageID \in Nat \ {0}
      /\ \A id \in AssignedIDs : id \in Nat \ {0} /\ id < nextMessageID
  BY FreshIdentity DEF Register, IdentitiesExhausted
<1>6. \A k, i : queued(k, i) => queues[k][i].id \in AssignedIDs
  BY DEF IdentitiesUnique
<1>7. parent \in Nat /\ parent < nextMessageID
  BY <1>5, <1>6
<1>8. \A k, i : queued(k, i) =>
        /\ queues[k][i].id \in Nat \ {0} /\ queues[k][i].id < nextMessageID
        /\ queues[k][i].sequence \in Nat /\ queues[k][i].enqueuedAt \in Nat
        /\ queues[k][i].parent \in Nat /\ queues[k][i].parent < queues[k][i].id
        /\ queues[k][i].sequence <= lastLinkSequence[k] /\ queues[k][i].enqueuedAt <= time
        /\ queues[k][i].link = k
  BY <1>3, <1>5, <1>6, BoundsAssumption DEF Placed, Message, IDs
<1>9. /\ m.id = nextMessageID /\ m.link = l /\ m.sequence = lastLinkSequence[l] + 1
      /\ m.parent = parent /\ m.enqueuedAt = time
  OBVIOUS
<1>10. ASSUME NEW k, NEW i, queued(k, i), queues[k][i].id = parent
       PROVE  k = l /\ i < n
  <2>1. parent # 0
    BY <1>8, <1>10
  <2>2. PICK p \in 1..Len(queues[l]) : parent = queues[l][p].id
    BY <2>1
  <2>3. k = l /\ i = p
    BY <1>10, <2>2 DEF IdentitiesUnique
  <2> QED
    BY <1>1, <2>3
<1> HIDE DEF n, m
<1>11. Placed'
  <2> SUFFICES ASSUME NEW k \in Links, NEW i \in 1..Len(queues'[k])
               PROVE  /\ queues'[k][i].link = k
                      /\ queues'[k][i].sequence <= lastLinkSequence'[k]
                      /\ queues'[k][i].enqueuedAt <= time'
                      /\ queues'[k][i].parent < queues'[k][i].id
    BY DEF Placed
  <2>1. CASE queued(k, i) /\ queues'[k][i] = queues[k][i]
    <3>1. lastLinkSequence[k] \in Nat
      BY BoundsAssumption DEF TypeOK, IDs
    <3>2. lastLinkSequence[k] <= lastLinkSequence'[k] /\ lastLinkSequence'[k] \in Nat
      BY <1>4, <3>1
    <3> QED
      BY <1>8, <2>1, <3>1, <3>2
  <2>2. CASE k = l /\ queues'[k][i] = m
    BY <1>4, <1>7, <1>9, <2>2
  <2> QED
    BY <1>2, <2>1, <2>2
<1>12. Increasing'
  <2> SUFFICES ASSUME NEW k \in Links, NEW j \in 1..Len(queues'[k]), NEW i \in 1..(j - 1)
               PROVE  /\ queues'[k][i].id < queues'[k][j].id
                      /\ queues'[k][i].sequence < queues'[k][j].sequence
                      /\ queues'[k][i].enqueuedAt <= queues'[k][j].enqueuedAt
    BY DEF Increasing
  <2>1. Len(queues'[k]) \in Nat /\ Len(queues[k]) \in Nat
    BY LenProperties DEF TypeOK
  <2>2. i \in 1..Len(queues'[k]) /\ i < j
    BY <2>1
  <2>3. CASE queued(k, j) /\ queues'[k][j] = queues[k][j]
    <3>1. (queued(k, i) /\ i # n) \/ k # l
      BY <1>1, <2>1, <2>2, <2>3 DEF n
    <3>2. queues'[k][i] = queues[k][i]
      BY <1>1, <1>2, <2>2, <3>1
    <3> QED
      BY <2>3, <3>2 DEF Increasing
  <2>4. CASE k = l /\ j = n /\ queues'[k][j] = m
    <3>1. queued(k, i) /\ queues'[k][i] = queues[k][i]
      BY <1>1, <2>1, <2>2, <2>4 DEF n
    <3> QED
      BY <1>4, <1>8, <1>9, <2>4, <3>1, SMTT(30)
  <2> QED
    BY <1>2, <2>3, <2>4
<1>13. CopiesBehind'
  <2> SUFFICES ASSUME NEW j \in Links, NEW i \in 1..Len(queues'[j]),
                      NEW k \in Links, NEW h \in 1..Len(queues'[k]),
                      queues'[k][h].id = queues'[j][i].parent
               PROVE  k = j /\ h < i
    BY DEF CopiesBehind
  <2>1. queued(k, h) /\ queues'[k][h] = queues[k][h]
    <3>1. queues'[j][i].parent \in Nat /\ queues'[j][i].parent < nextMessageID
      <4>1. CASE queued(j, i) /\ queues'[j][i] = queues[j][i]
        <5>1. /\ queues[j][i].parent \in Nat /\ queues[j][i].id \in Nat
              /\ queues[j][i].parent < queues[j][i].id /\ queues[j][i].id < nextMessageID
          BY <1>8, <4>1
        <5> QED
          BY <1>5, <4>1, <5>1
      <4>2. CASE queues'[j][i] = m
        BY <1>7, <1>9, <4>2
      <4> QED
        BY <1>2, <4>1, <4>2
    <3> QED
      BY <1>2, <1>5, <1>9, <3>1
  <2>2. CASE queued(j, i) /\ queues'[j][i] = queues[j][i]
    BY <2>1, <2>2 DEF CopiesBehind
  <2>3. CASE j = l /\ i = n /\ queues'[j][i] = m
    BY <1>9, <1>10, <2>1, <2>3
  <2> QED
    BY <1>2, <2>2, <2>3
<1> QED
  BY <1>11, <1>12, <1>13

\* Removals, registrations and copies keep that order.
LEMMA OrderStep ==
    Types /\ IdentitiesUnique /\ Placed /\ Increasing /\ CopiesBehind /\ [Next]_vars
        => Placed' /\ Increasing' /\ CopiesBehind'
<1> SUFFICES ASSUME Types, IdentitiesUnique, Placed, Increasing, CopiesBehind, [Next]_vars
             PROVE  Placed' /\ Increasing' /\ CopiesBehind'
  OBVIOUS
<1>1. TypeOK /\ TypeOK'
  BY TypesStep DEF Types
<1>2. CASE Standing
  <2>1. \A l \in Links : \A j \in 1..Len(queues[l]) : queues[l][j].enqueuedAt <= time'
    <3> SUFFICES ASSUME NEW l \in Links, NEW j \in 1..Len(queues[l])
                 PROVE  queues[l][j].enqueuedAt <= time'
      OBVIOUS
    <3>1. queues[l][j].enqueuedAt \in Int
      BY <1>1, QueuedType DEF Message
    <3>2. time \in Int
      BY <1>1 DEF TypeOK
    <3>3. time' \in Int
      BY <1>1 DEF TypeOK
    <3> QED
      BY <1>2, <3>1, <3>2, <3>3 DEF Standing, Placed
  <2> QED
    BY <1>2, <2>1 DEF Standing, networkVars, Placed, Increasing, CopiesBehind
<1>3. CASE Clearing
  <2>1. \A l \in Links : 1..Len(queues'[l]) = {}
    BY <1>3, EmptySeq DEF Clearing
  <2> QED
    BY <2>1 DEF Placed, Increasing, CopiesBehind
<1> QED
  BY <1>1, <1>2, <1>3, NetworkSteps, OrderRemoval, OrderRegistration

\* Removal at any position and registration at the tail never put a younger
\* message before an older one of its link, nor a copy before its original.
THEOREM LinkOrderCorrect == Spec => []LinkOrder
  BY OrderParts, TypesInit, TypesStep, IdentitiesInit, IdentitiesStep, OrderInit, OrderStep, PTL
  DEF Spec

----------------------------------------------------------------------------
(* The ledger and the account of the trace.                                *)

Issued == IF nextMessageID = 0 THEN MaxUint64 ELSE nextMessageID - 1

IDsIn(q) == {q[s[1]][s[2]].id : s \in Slots(q)}

\* An identity is queued when some message of some queue carries it.
LEMMA IDsInQueues ==
    ASSUME NEW q, NEW id
    PROVE  id \in IDsIn(q) <=> \E l \in Links : \E i \in 1..Len(q[l]) : id = q[l][i].id
<1>1. \A s : s \in Slots(q) <=> \E l \in Links : \E i \in 1..Len(q[l]) : s = <<l, i>>
  BY DEF Slots
<1>2. ASSUME NEW l \in Links, NEW i \in 1..Len(q[l])
      PROVE  q[l][i].id \in IDsIn(q)
  <2>1. <<l, i>> \in Slots(q)
    BY <1>1
  <2>2. q[<<l, i>>[1]][<<l, i>>[2]].id \in IDsIn(q)
    BY <2>1 DEF IDsIn
  <2> QED
    BY <2>2
<1>3. ASSUME id \in IDsIn(q)
      PROVE  \E l \in Links : \E i \in 1..Len(q[l]) : id = q[l][i].id
  <2>1. PICK s \in Slots(q) : id = q[s[1]][s[2]].id
    BY <1>3 DEF IDsIn
  <2>2. PICK l \in Links, i \in 1..Len(q[s[1]]) : s = <<l, i>>
    <3>1. PICK l \in Links : \E i \in 1..Len(q[l]) : s = <<l, i>>
      BY <1>1
    <3>2. s[1] = l
      BY <3>1
    <3> QED
      BY <3>1, <3>2
  <2> QED
    BY <2>1, <2>2
<1> QED
  BY <1>2, <1>3

\* QueuedIDs, as a function of the queues.
LEMMA QueuedAre == QueuedIDs = IDsIn(queues) /\ QueuedIDs' = IDsIn(queues')
  BY DEF QueuedIDs, IDsIn

\* A removal takes one identity from those queued.
LEMMA QueuedRemoval ==
    ASSUME TypeOK, IdentitiesUnique, NEW l \in Links, NEW p \in 1..Len(queues[l]),
           queues' = Without(l, p)
    PROVE  /\ queues[l][p].id \in QueuedIDs
           /\ QueuedIDs' = QueuedIDs \ {queues[l][p].id}
<1> DEFINE old(k, i) == IF k = l /\ i >= p THEN i + 1 ELSE i
           back(k, i) == IF k = l /\ i >= p THEN i - 1 ELSE i
<1>1. \A k \in Links : \A i \in 1..Len(queues'[k]) :
        old(k, i) \in 1..Len(queues[k]) /\ queues'[k][i] = queues[k][old(k, i)]
  BY RemovalShape
<1>2. \A k \in Links \ {l} : queues'[k] = queues[k]
  BY DEF Without, TypeOK
<1>3. Len(queues[l]) \in Nat /\ Len(queues'[l]) = Len(queues[l]) - 1
  <2>1. queues[l] \in Seq(Message) /\ queues'[l] = RemoveAt(queues[l], p)
    BY DEF Without, TypeOK
  <2> QED
    BY <2>1, RemoveAtProperties, LenProperties
<1>4. ASSUME NEW k \in Links, NEW i \in 1..Len(queues[k]), <<k, i>> # <<l, p>>
      PROVE  back(k, i) \in 1..Len(queues'[k]) /\ old(k, back(k, i)) = i
  <2>1. CASE k # l
    BY <1>2, <2>1
  <2>2. CASE k = l
    BY <1>3, <1>4, <2>2
  <2> QED
    BY <2>1, <2>2
<1>5. ASSUME NEW k \in Links, NEW i \in 1..Len(queues'[k])
      PROVE  <<k, old(k, i)>> # <<l, p>>
  <2>1. i \in Int /\ p \in Int
    OBVIOUS
  <2> QED
    BY <2>1
<1> HIDE DEF old, back
<1>6. ASSUME NEW id
      PROVE  id \in IDsIn(queues') <=> id \in IDsIn(queues) /\ id # queues[l][p].id
  <2>1. ASSUME NEW k \in Links, NEW i \in 1..Len(queues'[k]), id = queues'[k][i].id
        PROVE  id \in IDsIn(queues) /\ id # queues[l][p].id
    <3>1. old(k, i) \in 1..Len(queues[k]) /\ id = queues[k][old(k, i)].id
      BY <1>1, <2>1
    <3>2. id # queues[l][p].id
      BY <1>5, <3>1 DEF IdentitiesUnique
    <3> QED
      BY <3>1, <3>2, IDsInQueues
  <2>2. ASSUME NEW k \in Links, NEW i \in 1..Len(queues[k]), id = queues[k][i].id,
               id # queues[l][p].id
        PROVE  id \in IDsIn(queues')
    <3>1. <<k, i>> # <<l, p>>
      BY <2>2
    <3>2. back(k, i) \in 1..Len(queues'[k]) /\ queues'[k][back(k, i)] = queues[k][i]
      BY <1>1, <1>4, <3>1
    <3> QED
      BY <2>2, <3>2, IDsInQueues
  <2> QED
    BY <2>1, <2>2, IDsInQueues
<1>7. queues[l][p].id \in IDsIn(queues)
  BY IDsInQueues
<1> QED
  BY <1>6, <1>7, QueuedAre

\* A registration adds the next identity to those queued.
LEMMA QueuedRegistration ==
    ASSUME TypeOK, NEW l \in Links, NEW parent \in IDs,
           ~IdentitiesExhausted(l), Register(l, parent)
    PROVE  QueuedIDs' = QueuedIDs \cup {nextMessageID}
<1> DEFINE n == Len(queues[l]) + 1
<1>1. /\ \A k \in Links \ {l} : queues'[k] = queues[k]
      /\ n \in Nat /\ 1..n = 1..Len(queues[l]) \cup {n} /\ Len(queues'[l]) = n
      /\ \A i \in 1..Len(queues[l]) : queues'[l][i] = queues[l][i]
  <2>1. /\ \A k \in Links \ {l} : queues'[k] = queues[k]
        /\ Len(queues[l]) \in Nat /\ Len(queues'[l]) = Len(queues[l]) + 1
        /\ \A i \in 1..Len(queues[l]) : queues'[l][i] = queues[l][i]
    BY RegistrationShape
  <2> QED
    BY <2>1
<1>2. queues'[l][n].id = nextMessageID
  <2>1. queues'[l][n] = [id |-> nextMessageID, link |-> l, sequence |-> lastLinkSequence[l] + 1,
                         parent |-> parent, enqueuedAt |-> time]
    BY RegistrationShape
  <2> QED
    BY <2>1
<1> HIDE DEF n
<1>3. ASSUME NEW id
      PROVE  id \in IDsIn(queues') <=> id \in IDsIn(queues) \/ id = nextMessageID
  <2>1. ASSUME NEW k \in Links, k # l
        PROVE  (\E i \in 1..Len(queues'[k]) : id = queues'[k][i].id)
                 <=> (\E i \in 1..Len(queues[k]) : id = queues[k][i].id)
    BY <1>1, <2>1
  <2>2. (\E i \in 1..Len(queues'[l]) : id = queues'[l][i].id)
          <=> (\E i \in 1..Len(queues[l]) : id = queues[l][i].id) \/ id = nextMessageID
    <3>1. \A i \in 1..Len(queues'[l]) : i \in 1..Len(queues[l]) \/ i = n
      BY <1>1
    <3>2. n \in 1..Len(queues'[l]) /\ \A i \in 1..Len(queues[l]) : i \in 1..Len(queues'[l])
      BY <1>1
    <3> QED
      BY <1>1, <1>2, <3>1, <3>2
  <2> QED
    BY <2>1, <2>2, IDsInQueues
<1> QED
  BY <1>3, QueuedAre

\* Empty queues hold no identity.
LEMMA QueuedNothing ==
    ASSUME NEW q, q = [l \in Links |-> <<>>]
    PROVE  IDsIn(q) = {}
<1>1. \A l \in Links : 1..Len(q[l]) = {}
  BY EmptySeq
<1> QED
  BY <1>1, IDsInQueues

----------------------------------------------------------------------------
(* The refinement.                                                         *)

\* A new Runtime has issued nothing.
LEMMA LedgerInit == Init => Ledger!Init
<1> SUFFICES ASSUME Init PROVE Ledger!Init
  OBVIOUS
<1>1. QueuedIDs = {}
  BY QueuedNothing, QueuedAre DEF Init
<1>2. nextMessageID = 1
  BY DEF Init
<1> QED
  BY <1>1, <1>2 DEF Ledger!Init

\* Every step is one of the ledger, or changes nothing of it.
LEMMA LedgerStep ==
    Types /\ IdentitiesUnique /\ [Next]_vars => [Ledger!Next]_<<Issued, QueuedIDs>>
<1> SUFFICES ASSUME Types, IdentitiesUnique, [Next]_vars
             PROVE  Ledger!Next \/ UNCHANGED <<Issued, QueuedIDs>>
  BY DEF Issued
<1> USE DEF Types
<1>1. CASE Standing
  <2>1. queues' = queues /\ nextMessageID' = nextMessageID
    BY <1>1 DEF Standing, networkVars
  <2> QED
    BY <2>1, QueuedAre DEF Issued
<1>2. CASE Removal
  <2> SUFFICES ASSUME NEW l \in Links, NEW p \in 1..Len(queues[l]),
                      queues' = Without(l, p), nextMessageID' = nextMessageID
               PROVE  Ledger!Next
    BY <1>2 DEF Removal
  <2>1. /\ queues[l][p].id \in QueuedIDs
        /\ QueuedIDs' = QueuedIDs \ {queues[l][p].id}
    BY QueuedRemoval
  <2>2. queues[l][p].id \in 1..MaxUint64
    <3>1. queues[l][p].id \in AssignedIDs
      BY DEF IdentitiesUnique
    <3>2. AssignedIDs \subseteq 1..MaxUint64
      BY BoundsAssumption DEF AssignedIDs, TypeOK, IDs
    <3> QED
      BY <3>1, <3>2
  <2>3. Ledger!Leave(queues[l][p].id)
    BY <2>1 DEF Ledger!Leave
  <2> QED
    BY <2>2, <2>3 DEF Ledger!Next
<1>3. CASE Registration
  <2> SUFFICES ASSUME NEW l \in Links, NEW parent \in IDs,
                      ~IdentitiesExhausted(l), Register(l, parent)
               PROVE  Ledger!Next
    BY <1>3 DEF Registration
  <2>1. QueuedIDs' = QueuedIDs \cup {nextMessageID}
    BY QueuedRegistration
  <2>2. nextMessageID \in 1..MaxUint64 /\ nextMessageID' = AfterID(nextMessageID)
    BY BoundsAssumption DEF IdentitiesExhausted, Register, TypeOK, IDs
  <2>3. Ledger!Issue
    BY <2>1, <2>2, BoundsAssumption DEF Ledger!Issue, AfterID
  <2> QED
    BY <2>3 DEF Ledger!Next
<1>4. CASE Clearing
  <2>1. QueuedIDs' = {}
    BY <1>4, QueuedNothing, QueuedAre DEF Clearing
  <2>2. Ledger!NewExecution
    BY <1>4, <2>1, BoundsAssumption DEF Clearing, Ledger!NewExecution
  <2> QED
    BY <2>2 DEF Ledger!Next
<1> QED
  BY NetworkSteps, <1>1, <1>2, <1>3, <1>4

\* Whatever is delivered, dropped, duplicated, refused or cut short, the
\* network issues identities in order and once, and lets a message leave once.
THEOREM LedgerCorrect == Spec => LedgerSpec
<1>1. Spec => [](Types /\ IdentitiesUnique)
  BY TypesInit, TypesStep, IdentitiesInit, IdentitiesStep, PTL DEF Spec
<1> QED
  BY <1>1, LedgerInit, LedgerStep, PTL DEF Spec, LedgerSpec, Ledger!Spec, Issued
----------------------------------------------------------------------------
(* What the recorded steps say about the network.                          *)

Takes(act) == IF act.kind \in {"deliver", "drop"} THEN {act.message} ELSE {}

Recorded == {trace[k].action.message :
                k \in {i \in DOMAIN trace : trace[i].action.kind \in {"deliver", "drop"}}}

\* The identities that left the network, the call in progress included.
Gone == IF call.phase = "idle" THEN Recorded ELSE Recorded \cup Takes(call.action)

Accounts == ~terminated => QueuedIDs = AssignedIDs \ Gone /\ Gone \subseteq AssignedIDs

\* A stage that takes no message out, or goes on with the call.
Quiet ==
    /\ UNCHANGED resultVars /\ call'.phase # "idle"
    /\ IF call.phase = "idle" THEN Takes(call'.action) = {} ELSE call'.action = call.action

\* A delivery or a drop takes the message its action names.
Taken ==
    /\ UNCHANGED resultVars /\ call.phase = "idle" /\ call'.phase # "idle"
    /\ UNCHANGED nextMessageID
    /\ \E l \in Links : \E p \in 1..Len(queues[l]) :
          queues' = Without(l, p) /\ Takes(call'.action) = {queues[l][p].id}

\* Taking in the effects of a call registers nothing yet.
LEMMA ProcessQuiet ==
    ASSUME TypeOK, NEW frame \in CallFrame, NEW batch \in Batches, NEW q,
           ProcessAdapterEffects(frame, batch, q)
    PROVE  /\ queues' = q /\ UNCHANGED <<nextMessageID, lastLinkSequence>>
           /\ \/ /\ UNCHANGED resultVars /\ call'.phase # "idle"
                 /\ call'.action = frame.action
              \/ terminated'
<1>1. queues' = q /\ UNCHANGED <<nextMessageID, lastLinkSequence>>
  BY DEF ProcessAdapterEffects
<1> QED
  BY <1>1, ProcessStage

\* What a step may do to the queues and to the records.
LEMMA AccountSteps ==
    TypeOK /\ [Next]_vars =>
        \/ terminated' \/ Taken \/ (Registration /\ Quiet)
        \/ UNCHANGED networkVars /\ (Quiet \/ RecordStep)
        \/ Reset \/ UNCHANGED vars
<1> SUFFICES ASSUME TypeOK, [Next]_vars, ~terminated', ~Reset, ~UNCHANGED vars
             PROVE  \/ Taken \/ (Registration /\ Quiet)
                    \/ UNCHANGED networkVars /\ (Quiet \/ RecordStep)
  OBVIOUS
<1>1. \A operation, act : ~Fails(operation, act)
  BY FailBreaks
<1>2. call \in CallFrame
  BY DEF TypeOK
<1>3. ASSUME NEW l \in Links, NEW p \in 1..Len(queues[l]), NEW batch \in Batches,
             Deliver(l, p, batch)
      PROVE  Taken
  <2> DEFINE act == MessageAction("deliver", queues[l][p])
  <2>1. act \in Action /\ Takes(act) = {queues[l][p].id}
    BY ActionType, QueuedType DEF MessageAction, MessageKinds, Takes
  <2>2. call.phase = "idle" /\ ProcessAdapterEffects(Started(act), batch, Without(l, p))
    BY <1>3 DEF Deliver, Deliverable, Admitted, Ready
  <2> HIDE DEF act
  <2>3. Started(act) \in CallFrame /\ Started(act).action = act
    BY <2>1, StartedFrame
  <2> QED
    BY <2>1, <2>2, <2>3, ProcessQuiet DEF Taken
<1>4. ASSUME NEW l \in Links, NEW p \in 1..Len(queues[l]), Drop(l, p)
      PROVE  Taken
  <2> DEFINE act == MessageAction("drop", queues[l][p])
  <2>1. act \in Action /\ Takes(act) = {queues[l][p].id}
    BY ActionType, QueuedType DEF MessageAction, MessageKinds, Takes
  <2>2. /\ call.phase = "idle" /\ queues' = Without(l, p) /\ UNCHANGED nextMessageID
        /\ UNCHANGED resultVars /\ call' = [Started(act) EXCEPT !.phase = "observe"]
    BY <1>4 DEF Drop, Admitted, Ready
  <2> HIDE DEF act
  <2>3. call'.action = act /\ call'.phase = "observe"
    BY <2>1, <2>2, StartedFrame
  <2> QED
    BY <2>1, <2>2, <2>3 DEF Taken
<1>5. ASSUME NEW l \in Links, NEW p \in 1..Len(queues[l]), Duplicate(l, p)
      PROVE  Registration /\ Quiet
  <2> DEFINE act == MessageAction("duplicate", queues[l][p])
  <2>1. act \in Action /\ Takes(act) = {} /\ queues[l][p].id \in IDs
    BY ActionType, QueuedType DEF MessageAction, MessageKinds, Takes
  <2>2. /\ call.phase = "idle" /\ ~IdentitiesExhausted(l) /\ Register(l, queues[l][p].id)
        /\ UNCHANGED time
        /\ UNCHANGED resultVars /\ call' = [Started(act) EXCEPT !.phase = "observe"]
    BY <1>1, <1>5, FailsCases DEF Duplicate, Admitted, Ready
  <2>3. Registration
    BY <2>1, <2>2 DEF Registration
  <2> HIDE DEF act
  <2>4. call'.action = act /\ call'.phase = "observe"
    BY <2>1, <2>2, StartedFrame
  <2> QED
    BY <2>1, <2>2, <2>3, <2>4 DEF Quiet
<1>6. CASE OnMessage
  BY <1>1, <1>3, <1>4, <1>5, <1>6, FailsCases DEF OnMessage, DeliverFails
<1>7. ASSUME NEW n \in Nodes, NEW kind \in NodeKinds, NEW batch \in Batches,
             OnNode(kind, n, batch)
      PROVE  UNCHANGED networkVars /\ Quiet
  <2> DEFINE act == NodeAction(kind, n)
  <2>1. act \in Action /\ Takes(act) = {}
    BY ActionType DEF NodeAction, NodeKinds, Takes
  <2>2. call.phase = "idle" /\ ProcessAdapterEffects(Started(act), batch, queues)
    BY <1>7 DEF OnNode, Applicable, Admitted, Ready
  <2> HIDE DEF act
  <2>3. Started(act) \in CallFrame /\ Started(act).action = act
    BY <2>1, StartedFrame
  <2> QED
    BY <2>1, <2>2, <2>3, ProcessQuiet DEF Quiet, networkVars
<1>8. CASE OnMember
  BY <1>1, <1>7, <1>8, FailsCases
  DEF OnMember, Timeout, Crash, Restart, Request, NodeKinds, OnNodeFails
<1>9. ASSUME NEW target \in 1..MaxTime, AdvanceTime(target)
      PROVE  UNCHANGED networkVars /\ Quiet
  <2> DEFINE act == AdvanceAction(target)
  <2>1. target \in 0..MaxTime
    BY BoundsAssumption
  <2>2. act \in Action /\ Takes(act) = {}
    BY <2>1, ActionType DEF AdvanceAction, Takes
  <2>3. /\ call.phase = "idle" /\ UNCHANGED <<networkVars, resultVars>>
        /\ call' = [Started(act) EXCEPT !.phase = "tick"]
    BY <1>9 DEF AdvanceTime, Admitted, Ready
  <2> HIDE DEF act
  <2>4. call'.action = act /\ call'.phase = "tick"
    BY <2>2, <2>3, StartedFrame
  <2> QED
    BY <2>2, <2>3, <2>4 DEF Quiet
<1>10. CASE \E act \in Calls : CapabilitiesPanic(act)
  BY <1>1, <1>10, FailsCases DEF CapabilitiesPanic
<1>11. ASSUME NEW batch \in Batches, Tick(batch)
       PROVE  UNCHANGED networkVars /\ Quiet
  BY <1>2, <1>11, ProcessQuiet DEF Tick, Quiet, networkVars
<1>12. CASE RegisterOutbound
  <2>1. Head(call.outbox) \in Links /\ 0 \in IDs
    BY <1>12, BoundsAssumption, HeadTailProperties DEF RegisterOutbound, TypeOK, CallFrame, IDs
  <2>2. /\ call.phase = "register" /\ UNCHANGED time
        /\ ~IdentitiesExhausted(Head(call.outbox)) /\ Register(Head(call.outbox), 0)
        /\ call' = [call EXCEPT !.outbox = Tail(@), !.sent = Append(@, nextMessageID)]
        /\ UNCHANGED resultVars
    BY <1>1, <1>12, FailsCases DEF RegisterOutbound
  <2>3. call'.phase = call.phase /\ call'.action = call.action
    BY <1>2, <2>2 DEF CallFrame
  <2>4. Registration
    BY <2>1, <2>2 DEF Registration
  <2> QED
    BY <2>2, <2>3, <2>4 DEF Quiet
<1>13. CASE EffectsProcessed
  <2> DEFINE next == IF time < call.action.target THEN "tick" ELSE "observe"
  <2>1. /\ call.phase = "register" /\ UNCHANGED networkVars /\ UNCHANGED resultVars
        /\ call' = [call EXCEPT !.effects = @ + call.batch, !.timers = {}, !.batch = 0,
                                !.phase = next]
    BY <1>1, <1>13, FailsCases DEF EffectsProcessed
  <2>2. next # "idle"
    OBVIOUS
  <2> HIDE DEF next
  <2>3. call'.phase = next /\ call'.action = call.action
    BY <1>2, <2>1 DEF CallFrame
  <2> QED
    BY <2>1, <2>2, <2>3 DEF Quiet
<1>14. CASE Continue
  BY <1>1, <1>11, <1>12, <1>13, <1>14, FailsCases
  DEF Continue, TickFails, ObserveFails, AppendRejected, Terminate, RecordStep
<1>15. ~ResetFails
  BY DEF ResetFails
<1> QED
  BY <1>6, <1>8, <1>9, <1>10, <1>14, <1>15 DEF Next

\* A new execution accounts for every message.
LEMMA AccountsInit == Init => Accounts
<1> SUFFICES ASSUME Init PROVE Accounts
  OBVIOUS
<1>1. QueuedIDs = {}
  BY QueuedNothing, QueuedAre DEF Init
<1>2. AssignedIDs = {} /\ Gone = {}
  BY FrameType DEF Init, AssignedIDs, Gone, Recorded
<1> QED
  BY <1>1, <1>2 DEF Accounts

\* Every step accounts for the messages it makes and takes.
LEMMA AccountsStep == Types /\ IdentitiesUnique /\ Accounts /\ [Next]_vars => Accounts'
<1> SUFFICES ASSUME Types, IdentitiesUnique, Accounts, [Next]_vars, ~terminated'
             PROVE  QueuedIDs' = AssignedIDs' \ Gone' /\ Gone' \subseteq AssignedIDs'
  BY DEF Accounts
<1> USE DEF Types
<1>1. CASE Taken
  <2> SUFFICES ASSUME NEW l \in Links, NEW p \in 1..Len(queues[l]),
                      queues' = Without(l, p), Takes(call'.action) = {queues[l][p].id}
               PROVE  QueuedIDs' = AssignedIDs' \ Gone' /\ Gone' \subseteq AssignedIDs'
    BY <1>1 DEF Taken
  <2>1. ~terminated /\ Gone = Recorded /\ AssignedIDs' = AssignedIDs
    BY <1>1 DEF Taken, resultVars, Gone, AssignedIDs
  <2>2. Gone' = Gone \cup {queues[l][p].id}
    BY <1>1, <2>1 DEF Taken, resultVars, Gone, Recorded
  <2> QED
    BY <2>1, <2>2, QueuedRemoval DEF Accounts
<1>2. ASSUME Quiet
      PROVE  ~terminated /\ Gone' = Gone
  BY <1>2 DEF Quiet, resultVars, Gone, Recorded
<1>3. CASE Registration /\ Quiet
  <2> SUFFICES ASSUME NEW l \in Links, NEW parent \in IDs,
                      ~IdentitiesExhausted(l), Register(l, parent)
               PROVE  QueuedIDs' = AssignedIDs' \ Gone' /\ Gone' \subseteq AssignedIDs'
    BY <1>3 DEF Registration
  <2>1. /\ nextMessageID \notin AssignedIDs
        /\ AssignedIDs' = AssignedIDs \cup {nextMessageID}
    BY FreshIdentity DEF IdentitiesExhausted, Register
  <2> QED
    BY <1>2, <1>3, <2>1, QueuedRegistration DEF Accounts
<1>4. ASSUME UNCHANGED networkVars
      PROVE  QueuedIDs' = QueuedIDs /\ AssignedIDs' = AssignedIDs
  BY <1>4, QueuedAre DEF networkVars, AssignedIDs
<1>5. CASE UNCHANGED networkVars /\ Quiet
  BY <1>2, <1>4, <1>5 DEF Accounts
<1>6. CASE UNCHANGED networkVars /\ RecordStep
  <2> DEFINE r == [action |-> call.action, before |-> call.before, after |-> time,
                   sent |-> call.sent, effects |-> call.effects]
  <2>1. /\ call.phase = "observe" /\ trace' = Append(trace, r) /\ call' = NoCall
        /\ ~terminated /\ r.action = call.action
    BY <1>6 DEF RecordStep
  <2>2. trace \in Seq(StepRecord) /\ Len(trace) \in Nat
    BY LenProperties DEF TypeOK
  <2> HIDE DEF r
  <2>3. /\ DOMAIN trace' = (1..Len(trace)) \cup {Len(trace) + 1} /\ DOMAIN trace = 1..Len(trace)
        /\ trace'[Len(trace) + 1] = r /\ \A k \in 1..Len(trace) : trace'[k] = trace[k]
    BY <2>1, <2>2
  <2>4. Recorded' = Recorded \cup Takes(call.action)
    BY <2>1, <2>2, <2>3 DEF Recorded, Takes
  <2>5. Gone' = Gone
    BY <2>1, <2>4, FrameType DEF Gone
  <2> QED
    BY <1>4, <1>6, <2>1, <2>5 DEF Accounts
<1>7. CASE Reset
  <2>1. QueuedIDs' = {}
    BY <1>7, QueuedNothing, QueuedAre DEF Reset, ClearRuntime
  <2>2. AssignedIDs' = {} /\ Gone' = {}
    BY <1>7 DEF Reset, ClearRuntime, AssignedIDs, Gone, Recorded
  <2> QED
    BY <2>1, <2>2
<1>8. CASE UNCHANGED vars
  <2>1. UNCHANGED networkVars /\ UNCHANGED <<trace, call, terminated>>
    BY <1>8 DEF vars, resultVars
  <2>2. Gone' = Gone
    BY <2>1 DEF Gone, Recorded
  <2> QED
    BY <1>4, <2>1, <2>2 DEF Accounts
<1> QED
  BY AccountSteps, <1>1, <1>3, <1>5, <1>6, <1>7, <1>8

\* Between calls the queued messages are those handed out and not yet named by
\* a recorded deliver or drop: a trace tells what the network holds, whatever
\* failed before it and however a duplicate or a batch was cut off.
THEOREM AccountsCorrect == Spec => []TraceAccountsForNetwork
<1>1. Accounts => TraceAccountsForNetwork
  BY DEF Accounts, TraceAccountsForNetwork, Ready, Gone, Recorded
<1> QED
  BY <1>1, TypesInit, TypesStep, IdentitiesInit, IdentitiesStep, AccountsInit, AccountsStep,
     PTL DEF Spec

-----------------------------------------------------------------------------
(* The identities of the recorded steps.                                   *)

\* What a replay of one record uses: an identity per send, and one for a copy.
Uses(record) == Len(record.sent) + (IF record.action.kind = "duplicate" THEN 1 ELSE 0)

\* UsedAfter, of any trace.
Used(t) ==
    CHOOSE f : f = [k \in 0..Len(t) |->
                       IF k = 0 THEN 0
                       ELSE f[k - 1] + Len(t[k].sent)
                            + (IF t[k].action.kind = "duplicate" THEN 1 ELSE 0)]

\* UsedAfter is Used of the trace, before and after a step.
LEMMA UsedAfterIs == UsedAfter = Used(trace) /\ UsedAfter' = Used(trace')
  BY DEF UsedAfter, Used

\* A record uses finitely many.
LEMMA UsesType ==
    ASSUME NEW r \in StepRecord
    PROVE  /\ Uses(r) \in Nat
           /\ \A n \in Nat : n + Len(r.sent) + (IF r.action.kind = "duplicate" THEN 1 ELSE 0)
                             = n + Uses(r)
<1>1. Len(r.sent) \in Nat
  <2>1. r.sent \in Seq(IDs)
    BY DEF StepRecord
  <2> QED
    BY <2>1, LenProperties
<1>2. PICK c : c = IF r.action.kind = "duplicate" THEN 1 ELSE 0
  OBVIOUS
<1>3. c \in Nat
  BY <1>2
<1>4. Uses(r) = Len(r.sent) + c
  BY <1>2 DEF Uses
<1>5. \A n \in Nat : n + Len(r.sent) + c = n + (Len(r.sent) + c)
  BY <1>1, <1>3
<1>6. Uses(r) \in Nat
  BY <1>1, <1>3, <1>4
<1> QED
  BY <1>2, <1>4, <1>5, <1>6, Zenon

\* The recursion has a solution, the sums of what the records use.
LEMMA UsedSums ==
    ASSUME NEW t \in Seq(StepRecord)
    PROVE  /\ Used(t) \in [0..Len(t) -> Nat] /\ Used(t)[0] = 0
           /\ \A k \in 1..Len(t) : Used(t)[k] = Used(t)[k - 1] + Uses(t[k])
<1>1. Len(t) \in Nat /\ \A k \in 1..Len(t) : t[k] \in StepRecord
  BY LenProperties, ElementOfSeq
<1>2. \A k \in 1..Len(t) : Uses(t[k]) \in Nat
  BY <1>1, UsesType
<1> DEFINE step == [x \in Nat \X Nat |->
                       IF x[1] + 1 \in 1..Len(t) THEN x[2] + Uses(t[x[1] + 1]) ELSE 0]
<1>3. step \in [Nat \X Nat -> Nat]
  BY <1>2
<1>4. PICK f \in [Nat -> Nat] : f[0] = 0 /\ \A n \in Nat : f[n + 1] = step[<<n, f[n]>>]
  <2> HIDE DEF step
  <2>1. \E f \in [Nat -> Nat] : Recurs(f, 0, step)
    BY <1>3, Recursion, Zenon
  <2> QED
    BY <2>1 DEF Recurs
<1>5. \A k \in 1..Len(t) : f[k] = f[k - 1] + Uses(t[k])
  <2> SUFFICES ASSUME NEW k \in 1..Len(t) PROVE f[k] = f[k - 1] + Uses(t[k])
    OBVIOUS
  <2>1. k - 1 \in Nat /\ (k - 1) + 1 = k
    BY <1>1
  <2>2. f[(k - 1) + 1] = step[<<k - 1, f[k - 1]>>]
    BY <1>4, <2>1
  <2>3. step[<<k - 1, f[k - 1]>>] = f[k - 1] + Uses(t[k])
    BY <1>4, <2>1
  <2> HIDE DEF step
  <2> QED
    BY <2>1, <2>2, <2>3
<1> DEFINE g == [k \in 0..Len(t) |-> f[k]]
           Body(h) == [k \in 0..Len(t) |->
                         IF k = 0 THEN 0
                         ELSE h[k - 1] + Len(t[k].sent)
                              + (IF t[k].action.kind = "duplicate" THEN 1 ELSE 0)]
<1>6. ASSUME NEW k \in 1..Len(t), NEW n \in Nat
      PROVE  n + Len(t[k].sent) + (IF t[k].action.kind = "duplicate" THEN 1 ELSE 0)
                = n + Uses(t[k])
  BY <1>1, UsesType
<1>7. g = Body(g)
  <2>1. ASSUME NEW k \in 1..Len(t)
        PROVE  g[k] = g[k - 1] + Len(t[k].sent)
                         + (IF t[k].action.kind = "duplicate" THEN 1 ELSE 0)
    <3>1. k - 1 \in 0..Len(t) /\ k \in 0..Len(t)
      BY <1>1
    <3>2. g[k] = f[k] /\ g[k - 1] = f[k - 1] /\ f[k - 1] \in Nat
      BY <1>4, <3>1, SMTT(30)
    <3> HIDE DEF g
    <3> QED
      BY <1>5, <1>6, <3>2
  <2>2. g[0] = 0
    BY <1>1, <1>4
  <2>3. \A k \in 0..Len(t) : k # 0 => k \in 1..Len(t)
    BY <1>1
  <2>4. g = [k \in 0..Len(t) |-> g[k]]
    OBVIOUS
  <2> HIDE DEF g
  <2>5. \A k \in 0..Len(t) : g[k] = Body(g)[k]
    BY <2>1, <2>2, <2>3
  <2> QED
    BY <2>4, <2>5
<1>8. Used(t) = Body(Used(t))
  <2> HIDE DEF g
  <2> QED
    BY <1>7 DEF Used
<1> DEFINE u == Used(t)
           S == {n \in Nat : n <= Len(t) => u[n] \in Nat}
<1> HIDE DEF u, g
<1>9. u[0] = 0
  BY <1>1, <1>8 DEF u
<1>10. \A k \in 1..Len(t) : u[k - 1] \in Nat => u[k] = u[k - 1] + Uses(t[k])
  <2> SUFFICES ASSUME NEW k \in 1..Len(t), u[k - 1] \in Nat
               PROVE  u[k] = u[k - 1] + Uses(t[k])
    OBVIOUS
  <2>1. k \in 0..Len(t) /\ k # 0
    BY <1>1
  <2>2. u[k] = u[k - 1] + Len(t[k].sent) + (IF t[k].action.kind = "duplicate" THEN 1 ELSE 0)
    BY <1>8, <2>1 DEF u
  <2> QED
    BY <1>6, <2>2
<1>11. 0 \in S
  BY <1>9
<1>12. ASSUME NEW n \in Nat, n \in S
       PROVE  n + 1 \in S
  <2> SUFFICES ASSUME n + 1 <= Len(t) PROVE u[n + 1] \in Nat
    OBVIOUS
  <2>1. n + 1 \in 1..Len(t) /\ (n + 1) - 1 = n /\ u[n] \in Nat
    BY <1>1, <1>12
  <2>2. u[n + 1] = u[n] + Uses(t[n + 1]) /\ Uses(t[n + 1]) \in Nat
    BY <1>2, <1>10, <2>1
  <2>3. \A a, b \in Nat : a + b \in Nat
    OBVIOUS
  <2>4. u[n] + Uses(t[n + 1]) \in Nat
    BY <2>1, <2>2, <2>3, Zenon
  <2> QED
    BY <2>2, <2>4, Zenon
<1>13. Nat \subseteq S
  <2> HIDE DEF S
  <2> QED
    BY <1>11, <1>12, Inductive
<1>14. \A n \in 0..Len(t) : u[n] \in Nat
  BY <1>1, <1>13
<1>15. \A k \in 1..Len(t) : u[k] = u[k - 1] + Uses(t[k])
  BY <1>1, <1>10, <1>14
<1>16. u \in [0..Len(t) -> Nat]
  <2>1. u = [k \in 0..Len(t) |-> u[k]]
    BY <1>8 DEF u
  <2> QED
    BY <1>14, <2>1
<1> QED
  BY <1>9, <1>15, <1>16 DEF u

\* A record more leaves what the others use as it was.
LEMMA UsedAppend ==
    ASSUME NEW t \in Seq(StepRecord), NEW r \in StepRecord
    PROVE  /\ \A k \in 0..Len(t) : Used(Append(t, r))[k] = Used(t)[k]
           /\ Used(Append(t, r))[Len(t) + 1] = Used(t)[Len(t)] + Uses(r)
<1> DEFINE s == Append(t, r)
           u == Used(t)
           v == Used(s)
<1>1. /\ s \in Seq(StepRecord) /\ Len(s) = Len(t) + 1 /\ Len(t) \in Nat
      /\ s[Len(t) + 1] = r /\ \A k \in 1..Len(t) : s[k] = t[k]
  BY LenProperties, AppendProperties
<1> HIDE DEF s
<1>2. u[0] = 0 /\ \A k \in 1..Len(t) : u[k] = u[k - 1] + Uses(t[k])
  BY UsedSums
<1>3. v[0] = 0 /\ \A k \in 1..(Len(t) + 1) : v[k] = v[k - 1] + Uses(s[k])
  BY <1>1, UsedSums
<1> HIDE DEF u, v
<1> DEFINE S == {n \in Nat : n <= Len(t) => v[n] = u[n]}
<1>4. 0 \in S
  BY <1>2, <1>3
<1>5. ASSUME NEW n \in Nat, n \in S
      PROVE  n + 1 \in S
  <2> SUFFICES ASSUME n + 1 <= Len(t) PROVE v[n + 1] = u[n + 1]
    OBVIOUS
  <2>1. /\ n + 1 \in 1..Len(t) /\ n + 1 \in 1..(Len(t) + 1) /\ (n + 1) - 1 = n
        /\ v[n] = u[n]
    BY <1>1, <1>5
  <2> QED
    BY <1>1, <1>2, <1>3, <2>1
<1>6. Nat \subseteq S
  <2> HIDE DEF S
  <2> QED
    BY <1>4, <1>5, Inductive
<1>7. \A k \in 0..Len(t) : v[k] = u[k]
  BY <1>1, <1>6
<1>8. v[Len(t) + 1] = u[Len(t)] + Uses(r)
  <2>1. Len(t) + 1 \in 1..(Len(t) + 1) /\ (Len(t) + 1) - 1 = Len(t) /\ Len(t) \in 0..Len(t)
    BY <1>1
  <2> QED
    BY <1>1, <1>3, <1>7, <2>1
<1> QED
  BY <1>7, <1>8 DEF u, v, s

\* A call that is accepted and is no copy has not used an identity yet.
Opens ==
    /\ UNCHANGED <<trace, terminated, nextMessageID>>
    /\ call.phase = "idle" /\ call'.phase # "idle"
    /\ call'.sent = <<>> /\ call'.action.kind # "duplicate"

\* A copy uses one at once.
Copies ==
    /\ UNCHANGED <<trace, terminated>> /\ nextMessageID # 0
    /\ nextMessageID' = AfterID(nextMessageID)
    /\ call.phase = "idle" /\ call'.phase = "observe"
    /\ call'.sent = <<>> /\ call'.action.kind = "duplicate"

\* A stage goes on, and may have one more message registered.
MaySend ==
    /\ UNCHANGED <<trace, terminated>>
    /\ call.phase \in {"tick", "register"} /\ call'.phase # "idle"
    /\ call'.action = call.action
    /\ \/ UNCHANGED nextMessageID /\ call'.sent = call.sent
       \/ /\ nextMessageID # 0 /\ nextMessageID' = AfterID(nextMessageID)
          /\ call'.sent = Append(call.sent, nextMessageID)

\* An adapter call that does not end the execution registers nothing yet.
LEMMA ProcessSends ==
    ASSUME TypeOK, NEW frame \in CallFrame, NEW batch \in Batches, NEW q,
           ProcessAdapterEffects(frame, batch, q), ~terminated'
    PROVE  /\ UNCHANGED <<trace, terminated, nextMessageID>>
           /\ call'.phase = "register" /\ call'.action = frame.action /\ call'.sent = frame.sent
<1>1. nextMessageID' = nextMessageID
  BY DEF ProcessAdapterEffects
<1>2. ~Fails("execute", frame.action)
  BY FailBreaks
<1>3. /\ call' = [frame EXCEPT !.phase = "register", !.outbox = batch.sends,
                               !.timers = batch.timers, !.batch = BatchSize(batch)]
      /\ UNCHANGED resultVars
  BY <1>2, FailsCases DEF ProcessAdapterEffects
<1>4. call'.phase = "register" /\ call'.action = frame.action /\ call'.sent = frame.sent
  BY <1>3 DEF CallFrame
<1> QED
  BY <1>1, <1>3, <1>4 DEF resultVars

\* The frame of a call that has just started, at either of its first stages.
LEMMA StartedSends ==
    ASSUME TypeOK, NEW act \in Action
    PROVE  /\ Started(act) \in CallFrame /\ Started(act).action = act /\ Started(act).sent = <<>>
           /\ \A phase \in {"observe", "tick"} :
                 LET frame == [Started(act) EXCEPT !.phase = phase] IN
                 frame.phase = phase /\ frame.action = act /\ frame.sent = <<>>
<1>1. Started(act) \in CallFrame
  BY StartedFrame
<1>2. Started(act).action = act /\ Started(act).sent = <<>>
  BY DEF Started, NoCall
<1> QED
  BY <1>1, <1>2 DEF CallFrame

\* What a step uses of the identities.
LEMMA ReplaySteps ==
    TypeOK /\ [Next]_vars =>
        \/ terminated' \/ Opens \/ Copies \/ MaySend
        \/ RecordStep \/ Reset \/ UNCHANGED vars
<1> SUFFICES ASSUME TypeOK, [Next]_vars, ~terminated', ~Reset, ~RecordStep, ~UNCHANGED vars
             PROVE  Opens \/ Copies \/ MaySend
  OBVIOUS
<1>1. \A operation, act : ~Fails(operation, act)
  BY FailBreaks
<1>2. call \in CallFrame
  BY DEF TypeOK
<1>3. ASSUME NEW act \in Action, act.kind # "duplicate", NEW batch \in Batches, NEW q,
             Admitted, ProcessAdapterEffects(Started(act), batch, q)
      PROVE  Opens
  <2>1. call.phase = "idle"
    BY <1>3 DEF Admitted, Ready
  <2>2. Started(act) \in CallFrame /\ Started(act).action = act /\ Started(act).sent = <<>>
    BY <1>3, StartedSends
  <2>3. /\ UNCHANGED <<trace, terminated, nextMessageID>>
        /\ call'.phase = "register" /\ call'.action = act /\ call'.sent = <<>>
    BY <1>3, <2>2, ProcessSends
  <2> QED
    BY <1>3, <2>1, <2>3 DEF Opens
<1>4. ASSUME NEW l \in Links, NEW p \in 1..Len(queues[l]), NEW kind \in MessageKinds
      PROVE  /\ MessageAction(kind, queues[l][p]) \in Action
             /\ MessageAction(kind, queues[l][p]).kind = kind
  BY ActionType, QueuedType DEF MessageAction
<1>5. ASSUME NEW l \in Links, NEW p \in 1..Len(queues[l]), NEW batch \in Batches,
             Deliver(l, p, batch)
      PROVE  Opens
  <2> DEFINE act == MessageAction("deliver", queues[l][p])
  <2>1. act \in Action /\ act.kind # "duplicate"
    BY <1>4 DEF MessageKinds
  <2>2. Admitted /\ ProcessAdapterEffects(Started(act), batch, Without(l, p))
    BY <1>5 DEF Deliver, Deliverable
  <2> HIDE DEF act
  <2> QED
    BY <1>3, <2>1, <2>2
<1>6. ASSUME NEW l \in Links, NEW p \in 1..Len(queues[l]), Drop(l, p)
      PROVE  Opens
  <2> DEFINE act == MessageAction("drop", queues[l][p])
  <2>1. act \in Action /\ act.kind # "duplicate"
    BY <1>4 DEF MessageKinds
  <2>2. /\ call.phase = "idle" /\ UNCHANGED <<nextMessageID, resultVars>>
        /\ call' = [Started(act) EXCEPT !.phase = "observe"]
    BY <1>6 DEF Drop, Admitted, Ready
  <2> HIDE DEF act
  <2>3. call'.phase = "observe" /\ call'.action = act /\ call'.sent = <<>>
    BY <2>1, <2>2, StartedSends
  <2> QED
    BY <2>1, <2>2, <2>3 DEF Opens, resultVars
<1>7. ASSUME NEW l \in Links, NEW p \in 1..Len(queues[l]), Duplicate(l, p)
      PROVE  Copies
  <2> DEFINE act == MessageAction("duplicate", queues[l][p])
  <2>1. act \in Action /\ act.kind = "duplicate"
    BY <1>4 DEF MessageKinds
  <2>2. /\ call.phase = "idle" /\ ~IdentitiesExhausted(l) /\ Register(l, queues[l][p].id)
        /\ UNCHANGED resultVars /\ call' = [Started(act) EXCEPT !.phase = "observe"]
    BY <1>1, <1>7, FailsCases DEF Duplicate, Admitted, Ready
  <2> HIDE DEF act
  <2>3. call'.phase = "observe" /\ call'.action = act /\ call'.sent = <<>>
    BY <2>1, <2>2, StartedSends
  <2> QED
    BY <2>1, <2>2, <2>3 DEF Copies, resultVars, Register, IdentitiesExhausted
<1>8. CASE OnMessage
  BY <1>1, <1>5, <1>6, <1>7, <1>8, FailsCases DEF OnMessage, DeliverFails
<1>9. ASSUME NEW n \in Nodes, NEW kind \in NodeKinds, NEW batch \in Batches,
             OnNode(kind, n, batch)
      PROVE  Opens
  <2> DEFINE act == NodeAction(kind, n)
  <2>1. act \in Action /\ act.kind # "duplicate"
    BY ActionType DEF NodeAction, NodeKinds
  <2>2. Admitted /\ ProcessAdapterEffects(Started(act), batch, queues)
    BY <1>9 DEF OnNode, Applicable
  <2> HIDE DEF act
  <2> QED
    BY <1>3, <2>1, <2>2
<1>10. CASE OnMember
  BY <1>1, <1>9, <1>10, FailsCases
  DEF OnMember, Timeout, Crash, Restart, Request, NodeKinds, OnNodeFails
<1>11. ASSUME NEW target \in 1..MaxTime, AdvanceTime(target)
       PROVE  Opens
  <2> DEFINE act == AdvanceAction(target)
  <2>1. target \in 0..MaxTime
    BY BoundsAssumption
  <2>2. act \in Action /\ act.kind # "duplicate"
    BY <2>1, ActionType DEF AdvanceAction
  <2>3. /\ call.phase = "idle" /\ UNCHANGED <<networkVars, resultVars>>
        /\ call' = [Started(act) EXCEPT !.phase = "tick"]
    BY <1>11 DEF AdvanceTime, Admitted, Ready
  <2> HIDE DEF act
  <2>4. call'.phase = "tick" /\ call'.action = act /\ call'.sent = <<>>
    BY <2>2, <2>3, StartedSends
  <2> QED
    BY <2>2, <2>3, <2>4 DEF Opens, resultVars, networkVars
<1>12. CASE \E act \in Calls : CapabilitiesPanic(act)
  BY <1>1, <1>12, FailsCases DEF CapabilitiesPanic
<1>13. ASSUME NEW batch \in Batches, Tick(batch)
       PROVE  MaySend
  BY <1>2, <1>13, ProcessSends DEF Tick, MaySend
<1>14. CASE RegisterOutbound
  <2>1. /\ call.phase = "register"
        /\ ~IdentitiesExhausted(Head(call.outbox)) /\ Register(Head(call.outbox), 0)
        /\ call' = [call EXCEPT !.outbox = Tail(@), !.sent = Append(@, nextMessageID)]
        /\ UNCHANGED resultVars
    BY <1>1, <1>14, FailsCases DEF RegisterOutbound
  <2>2. /\ call'.phase = call.phase /\ call'.action = call.action
        /\ call'.sent = Append(call.sent, nextMessageID)
    BY <1>2, <2>1 DEF CallFrame
  <2> QED
    BY <2>1, <2>2 DEF MaySend, resultVars, Register, IdentitiesExhausted
<1>15. CASE EffectsProcessed
  <2> DEFINE next == IF time < call.action.target THEN "tick" ELSE "observe"
  <2>1. /\ call.phase = "register" /\ UNCHANGED networkVars /\ UNCHANGED resultVars
        /\ call' = [call EXCEPT !.effects = @ + call.batch, !.timers = {}, !.batch = 0,
                                !.phase = next]
    BY <1>1, <1>15, FailsCases DEF EffectsProcessed
  <2>2. next # "idle"
    OBVIOUS
  <2> HIDE DEF next
  <2>3. call'.phase = next /\ call'.action = call.action /\ call'.sent = call.sent
    BY <1>2, <2>1 DEF CallFrame
  <2> QED
    BY <2>1, <2>2, <2>3 DEF MaySend, resultVars, networkVars
<1>16. CASE Continue
  BY <1>1, <1>13, <1>14, <1>15, <1>16, FailsCases
  DEF Continue, TickFails, ObserveFails, AppendRejected, Terminate
<1>17. ~ResetFails
  BY DEF ResetFails
<1> QED
  BY <1>8, <1>10, <1>11, <1>12, <1>16, <1>17 DEF Next

\* Between calls there is no frame of a call.
Framed == call.phase = "idle" => call.sent = <<>>

\* There is no call at first.
LEMMA FramedInit == Init => Framed
  BY DEF Init, NoCall, Framed

\* A step ends in a call, in none, or leaves the frame alone.
LEMMA FramedStep == TypeOK /\ Framed /\ [Next]_vars => Framed'
<1> SUFFICES ASSUME TypeOK, [Next]_vars
             PROVE  call'.phase # "idle" \/ call' = NoCall \/ call' = call
  BY DEF Framed, NoCall
<1>1. ASSUME NEW operation, NEW act, Fails(operation, act)
      PROVE  call' = NoCall
  BY <1>1 DEF Fails, Fail
<1>2. ASSUME NEW frame \in CallFrame, NEW batch, NEW q, ProcessAdapterEffects(frame, batch, q)
      PROVE  call'.phase # "idle" \/ call' = NoCall
  <2>1. CASE Fails("execute", frame.action)
    BY <1>1, <2>1
  <2>2. CASE call' = [frame EXCEPT !.phase = "register", !.outbox = batch.sends,
                                   !.timers = batch.timers, !.batch = BatchSize(batch)]
    BY <2>2 DEF CallFrame
  <2> QED
    BY <1>2, <2>1, <2>2, FailsCases DEF ProcessAdapterEffects
<1>3. call \in CallFrame
  BY DEF TypeOK
<1>4. \A act \in Action, phase \in {"observe", "tick"} :
         /\ Started(act) \in CallFrame
         /\ [Started(act) EXCEPT !.phase = phase].phase # "idle"
  BY StartedSends
<1>5. CASE OnMessage
  <2> SUFFICES ASSUME NEW l \in Links, NEW p \in 1..Len(queues[l]),
                      \/ \E batch \in Batches : Deliver(l, p, batch)
                      \/ Drop(l, p) \/ Duplicate(l, p) \/ DeliverFails(l, p)
               PROVE  call'.phase # "idle" \/ call' = NoCall
    BY <1>5 DEF OnMessage
  <2>1. \A kind \in MessageKinds : MessageAction(kind, queues[l][p]) \in Action
    BY ActionType, QueuedType
  <2>2. ASSUME NEW batch \in Batches, Deliver(l, p, batch)
        PROVE  call'.phase # "idle" \/ call' = NoCall
    BY <1>2, <1>4, <2>1, <2>2 DEF Deliver, MessageKinds
  <2>3. CASE Drop(l, p)
    BY <1>4, <2>1, <2>3 DEF Drop, MessageKinds
  <2>4. CASE Duplicate(l, p)
    BY <1>1, <1>4, <2>1, <2>4, FailsCases DEF Duplicate, MessageKinds
  <2>5. CASE DeliverFails(l, p)
    BY <1>1, <2>5, FailsCases DEF DeliverFails
  <2> QED
    BY <2>2, <2>3, <2>4, <2>5
<1>6. CASE OnMember
  <2>1. ASSUME NEW n \in Nodes, NEW kind \in NodeKinds, NEW batch \in Batches,
               OnNode(kind, n, batch)
        PROVE  call'.phase # "idle" \/ call' = NoCall
    <3>1. Started(NodeAction(kind, n)) \in CallFrame
      BY <1>4, ActionType
    <3> QED
      BY <1>2, <2>1, <3>1 DEF OnNode
  <2> QED
    BY <1>1, <1>6, <2>1, FailsCases
    DEF OnMember, Timeout, Crash, Restart, Request, NodeKinds, OnNodeFails
<1>7. CASE \E target \in 1..MaxTime : AdvanceTime(target)
  <2> SUFFICES ASSUME NEW target \in 1..MaxTime, AdvanceTime(target) PROVE call'.phase # "idle"
    BY <1>7
  <2>1. AdvanceAction(target) \in Action
    BY ActionType, BoundsAssumption
  <2> QED
    BY <1>4, <2>1 DEF AdvanceTime
<1>8. CASE \E act \in Calls : CapabilitiesPanic(act)
  BY <1>1, <1>8, FailsCases DEF CapabilitiesPanic
<1>9. CASE Continue
  <2>1. CASE \E batch \in Batches : Tick(batch)
    BY <1>2, <1>3, <2>1 DEF Tick
  <2>2. CASE RegisterOutbound
    <3>1. CASE call' = [call EXCEPT !.outbox = Tail(@), !.sent = Append(@, nextMessageID)]
      BY <1>3, <2>2, <3>1 DEF RegisterOutbound, CallFrame
    <3> QED
      BY <1>1, <2>2, <3>1, FailsCases DEF RegisterOutbound
  <2>3. CASE EffectsProcessed
    <3> DEFINE next == IF time < call.action.target THEN "tick" ELSE "observe"
    <3>1. CASE call' = [call EXCEPT !.effects = @ + call.batch, !.timers = {}, !.batch = 0,
                                    !.phase = next]
      <4>1. next # "idle"
        OBVIOUS
      <4> HIDE DEF next
      <4> QED
        BY <1>3, <3>1, <4>1 DEF CallFrame
    <3> QED
      BY <1>1, <2>3, <3>1, FailsCases DEF EffectsProcessed
  <2> QED
    BY <1>1, <1>9, <2>1, <2>2, <2>3, FailsCases
    DEF Continue, TickFails, RecordStep, ObserveFails, AppendRejected
<1>10. CASE Reset \/ ResetFails \/ UNCHANGED vars
  BY <1>10 DEF Reset, ResetFails, ClearRuntime, vars
<1> QED
  BY <1>5, <1>6, <1>7, <1>8, <1>9, <1>10 DEF Next

\* The recorded steps and the call in progress account for every identity.
Replays ==
    LET used == Used(trace)[Len(trace)] IN
    ~terminated =>
        /\ Issued = used + Len(call.sent)
                    + (IF call.phase # "idle" /\ call.action.kind = "duplicate" THEN 1 ELSE 0)
        /\ call.phase \in {"tick", "register"} => call.action.kind # "duplicate"
        /\ \A i \in DOMAIN call.sent : call.sent[i] = used + i
        /\ \A k \in DOMAIN trace : \A i \in DOMAIN trace[k].sent :
              trace[k].sent[i] = Used(trace)[k - 1] + i

\* The count of identities handed out grows with each.
LEMMA IssuedNext ==
    ASSUME TypeOK
    PROVE  /\ Issued \in Nat
           /\ nextMessageID # 0 /\ nextMessageID' = AfterID(nextMessageID) =>
                 Issued' = Issued + 1 /\ nextMessageID = Issued + 1
  BY BoundsAssumption DEF TypeOK, IDs, Issued, AfterID

\* A fresh Runtime has used none.
LEMMA ReplaysInit == Init => Replays
<1> SUFFICES ASSUME Init PROVE Replays
  OBVIOUS
<1>1. trace = <<>> /\ call.sent = <<>> /\ call.phase = "idle" /\ nextMessageID = 1
  BY DEF Init, NoCall
<1>2. Used(trace)[Len(trace)] = 0
  <2>1. <<>> \in Seq(StepRecord) /\ Len(<<>>) = 0
    OBVIOUS
  <2> QED
    BY <1>1, <2>1, UsedSums
<1>3. Issued = 0
  BY <1>1 DEF Issued
<1> QED
  BY <1>1, <1>2, <1>3 DEF Replays

\* Every step uses the next identities, and records them in their order.
LEMMA ReplaysStep == TypeOK /\ Framed /\ Replays /\ [Next]_vars => Replays'
<1> SUFFICES ASSUME TypeOK, Framed, Replays, [Next]_vars, ~terminated' PROVE Replays'
  BY DEF Replays
<1> DEFINE used == Used(trace)[Len(trace)]
<1>1. trace \in Seq(StepRecord) /\ Len(trace) \in Nat /\ call \in CallFrame
  BY LenProperties DEF TypeOK
<1>2. call.sent \in Seq(IDs) /\ Len(call.sent) \in Nat /\ DOMAIN call.sent = 1..Len(call.sent)
  BY <1>1, LenProperties DEF CallFrame
<1>3. used \in Nat
  BY <1>1, UsedSums
<1>4. ASSUME ~terminated
      PROVE  /\ Issued = used + Len(call.sent)
                    + (IF call.phase # "idle" /\ call.action.kind = "duplicate" THEN 1 ELSE 0)
             /\ call.phase \in {"tick", "register"} => call.action.kind # "duplicate"
             /\ \A i \in DOMAIN call.sent : call.sent[i] = used + i
             /\ \A k \in DOMAIN trace : \A i \in DOMAIN trace[k].sent :
                   trace[k].sent[i] = Used(trace)[k - 1] + i
  BY <1>4 DEF Replays
<1>5. ASSUME UNCHANGED <<trace, terminated>>
      PROVE  used' = used /\ ~terminated /\ DOMAIN trace' = DOMAIN trace
  BY <1>5
<1> HIDE DEF used
<1>6. CASE Opens
  <2>1. Issued = used + 0 + 0
    BY <1>4, <1>5, <1>6 DEF Opens, Framed
  <2>2. Issued' = Issued
    BY <1>6 DEF Opens, Issued
  <2>3. Issued' = used' + 0 + 0
    BY <1>5, <1>6, <2>1, <2>2 DEF Opens
  <2> QED
    BY <1>4, <1>5, <1>6, <2>3 DEF Opens, Replays, used
<1>7. CASE Copies
  <2>1. Issued = used + 0 + 0
    BY <1>4, <1>5, <1>7 DEF Copies, Framed
  <2>2. Issued' = Issued + 1
    BY <1>7, IssuedNext DEF Copies
  <2>3. Issued' = used' + 0 + 1
    BY <1>3, <1>5, <1>7, <2>1, <2>2 DEF Copies
  <2> QED
    BY <1>4, <1>5, <1>7, <2>3 DEF Copies, Replays, used
<1>8. CASE MaySend
  <2>1. call.action.kind # "duplicate" /\ call'.action.kind # "duplicate" /\ call'.phase # "idle"
    BY <1>4, <1>5, <1>8 DEF MaySend
  <2>2. Issued = used + Len(call.sent)
    BY <1>2, <1>3, <1>4, <1>5, <1>8, <2>1 DEF MaySend
  <2>3. Issued' = used' + Len(call'.sent) /\ \A i \in DOMAIN call'.sent : call'.sent[i] = used' + i
    <3>1. CASE UNCHANGED nextMessageID /\ call'.sent = call.sent
      <4>1. Issued' = Issued
        BY <3>1 DEF Issued
      <4> QED
        BY <1>4, <1>5, <1>8, <2>2, <3>1, <4>1 DEF MaySend
    <3>2. CASE /\ nextMessageID # 0 /\ nextMessageID' = AfterID(nextMessageID)
               /\ call'.sent = Append(call.sent, nextMessageID)
      <4>1. Issued' = Issued + 1 /\ nextMessageID = Issued + 1
        BY <3>2, IssuedNext
      <4>2. nextMessageID \in IDs
        BY DEF TypeOK
      <4>3. /\ Len(call'.sent) = Len(call.sent) + 1
            /\ DOMAIN call'.sent = (1..Len(call.sent)) \cup {Len(call.sent) + 1}
            /\ call'.sent[Len(call.sent) + 1] = nextMessageID
            /\ \A i \in 1..Len(call.sent) : call'.sent[i] = call.sent[i]
        BY <1>2, <3>2, <4>2
      <4>4. Issued' = used' + Len(call'.sent)
        BY <1>2, <1>3, <1>5, <1>8, <2>2, <4>1, <4>3 DEF MaySend
      <4>5. call'.sent[Len(call.sent) + 1] = used' + (Len(call.sent) + 1)
        BY <1>2, <1>3, <1>5, <1>8, <2>2, <4>1, <4>3 DEF MaySend
      <4>6. \A i \in 1..Len(call.sent) : call'.sent[i] = used' + i
        BY <1>2, <1>4, <1>5, <1>8, <4>3 DEF MaySend
      <4> QED
        BY <4>3, <4>4, <4>5, <4>6
    <3> QED
      BY <1>8, <3>1, <3>2 DEF MaySend
  <2>4. Len(call'.sent) \in Nat
    BY <1>2, <1>8, AppendProperties, LenProperties DEF MaySend, TypeOK
  <2>5. Issued' = used' + Len(call'.sent) + 0
    BY <1>3, <1>5, <1>8, <2>3, <2>4 DEF MaySend
  <2> QED
    BY <1>4, <1>5, <1>8, <2>1, <2>3, <2>5 DEF MaySend, Replays, used
<1>9. CASE RecordStep
  <2> DEFINE r == [action |-> call.action, before |-> call.before, after |-> time,
                   sent |-> call.sent, effects |-> call.effects]
  <2>1. /\ call.phase = "observe" /\ trace' = Append(trace, r) /\ call' = NoCall
        /\ UNCHANGED networkVars /\ ~terminated
        /\ r.action = call.action /\ r.sent = call.sent
    BY <1>9 DEF RecordStep
  <2>2. r \in StepRecord
    BY <1>1 DEF StepRecord, CallFrame, TypeOK
  <2> HIDE DEF r
  <2>3. /\ Len(trace') = Len(trace) + 1
        /\ DOMAIN trace' = (1..Len(trace)) \cup {Len(trace) + 1} /\ DOMAIN trace = 1..Len(trace)
        /\ trace'[Len(trace) + 1] = r /\ \A k \in 1..Len(trace) : trace'[k] = trace[k]
    BY <1>1, <2>1, <2>2
  <2>4. /\ \A k \in 0..Len(trace) : Used(trace')[k] = Used(trace)[k]
        /\ Used(trace')[Len(trace) + 1] = used + Uses(r)
    BY <1>1, <2>1, <2>2, UsedAppend DEF used
  <2>5. Issued' = Issued
    BY <2>1 DEF networkVars, Issued
  <2>6. Issued = used + Uses(r)
    BY <1>3, <1>4, <2>1, <2>2, UsesType
  <2>7. Uses(r) \in Nat
    BY <2>2, UsesType
  <2>8. call'.sent = <<>> /\ call'.phase = "idle"
    BY <2>1 DEF NoCall
  <2>9. Used(trace')[Len(trace')] = used + Uses(r)
    BY <2>3, <2>4
  <2>10. Issued' = Used(trace')[Len(trace')] + Len(call'.sent) + 0
    BY <1>3, <2>5, <2>6, <2>7, <2>8, <2>9
  <2>11. ASSUME NEW k \in DOMAIN trace', NEW i \in DOMAIN trace'[k].sent
         PROVE  trace'[k].sent[i] = Used(trace')[k - 1] + i
    <3>1. CASE k = Len(trace) + 1
      <4>1. k - 1 = Len(trace) /\ k - 1 \in 0..Len(trace)
        BY <1>1, <3>1
      <4>2. Used(trace')[k - 1] = used
        BY <2>4, <4>1 DEF used
      <4>3. trace'[k].sent = call.sent
        BY <2>1, <2>3, <3>1
      <4> QED
        BY <1>4, <2>1, <2>11, <4>2, <4>3
    <3>2. CASE k \in 1..Len(trace)
      <4>1. k - 1 \in 0..Len(trace)
        BY <1>1, <3>2
      <4>2. Used(trace')[k - 1] = Used(trace)[k - 1] /\ trace'[k] = trace[k]
        BY <2>3, <2>4, <3>2, <4>1
      <4> QED
        BY <1>4, <2>1, <2>3, <2>11, <3>2, <4>2
    <3> QED
      BY <2>3, <3>1, <3>2
  <2> QED
    BY <2>8, <2>10, <2>11 DEF Replays
<1>10. CASE Reset
  <2>1. trace' = <<>> /\ nextMessageID' = 1 /\ call' = call /\ call.phase = "idle"
    BY <1>10 DEF Reset, ClearRuntime
  <2>2. <<>> \in Seq(StepRecord) /\ Len(<<>>) = 0
    OBVIOUS
  <2>3. Used(trace')[Len(trace')] = 0
    BY <2>1, <2>2, UsedSums
  <2>4. Issued' = 0 /\ call'.sent = <<>>
    BY <2>1 DEF Issued, Framed
  <2> QED
    BY <2>1, <2>3, <2>4 DEF Replays
<1>11. CASE UNCHANGED vars
  BY <1>4, <1>11 DEF vars, networkVars, resultVars, Replays, Issued
<1> QED
  BY ReplaySteps, <1>6, <1>7, <1>8, <1>9, <1>10, <1>11

\* A replay of the recorded actions needs no other source of identities: the
\* sends of each step carry the identities after those used before it, and no
\* identity is used off the record, whatever failed and was reset before.
THEOREM ReplayCorrect == Spec => []IdentitiesReplayable
<1>1. TypeOK /\ Framed /\ Replays => IdentitiesReplayable
  <2> SUFFICES ASSUME TypeOK, Framed, Replays, Ready PROVE IdentitiesReplayable
    BY DEF IdentitiesReplayable
  <2>1. ~terminated /\ call.phase = "idle" /\ call.sent = <<>>
    BY DEF Ready, Framed
  <2>2. /\ Issued = UsedAfter[Len(trace)] + 0 + 0
        /\ \A k \in DOMAIN trace : \A i \in DOMAIN trace[k].sent :
              trace[k].sent[i] = UsedAfter[k - 1] + i
    BY <2>1, UsedAfterIs DEF Replays
  <2>3. UsedAfter[Len(trace)] \in Nat
    BY UsedAfterIs, UsedSums, LenProperties DEF TypeOK
  <2>4. AssignedIDs = 1..UsedAfter[Len(trace)]
    BY <2>2, <2>3 DEF AssignedIDs, Issued
  <2> QED
    BY <2>2, <2>4 DEF IdentitiesReplayable
<1>2. Types => TypeOK
  BY DEF Types
<1> QED
  BY <1>1, <1>2, TypesInit, TypesStep, FramedInit, FramedStep, ReplaysInit, ReplaysStep,
     PTL DEF Spec
=============================================================================
