---------------------------- MODULE EngineProofs ----------------------------
(***************************************************************************)
(* A run of the Engine is a behaviour of the Runtime, so what is proved of *)
(* the Runtime holds in every run; and what is proved here of the Engine   *)
(* holds for every set of plan actions and sources, every limit and every  *)
(* answer of the policy, the profile, the mapper and the oracles.          *)
(*                                                                         *)
(* Three arguments build on the types: what actions, trace and model events *)
(* say at every stage of a call (EngineHistory), what is left of a batch   *)
(* and still stands (BatchStands), and what the resolutions account for    *)
(* (EngineAccounts).                                                       *)
(***************************************************************************)
EXTENDS Engine, RuntimeProofs

----------------------------------------------------------------------------
(* Resolution.                                                             *)

\* The selected messages are those from start on, at most count of them.
LEMMA SelectedIs ==
    ASSUME NEW S, NEW queue \in Seq(S), NEW start \in Nat \ {0}, NEW count \in Nat \ {0},
           start <= Len(queue), NEW s, s = Selected(queue, start, count)
    PROVE  /\ s \in Seq(S) /\ Len(s) \in 1..count /\ start + Len(s) - 1 <= Len(queue)
           /\ \A i \in 1..Len(s) : s[i] = queue[start + i - 1]
<1> DEFINE e == IF start + count - 1 > Len(queue) THEN Len(queue) ELSE start + count - 1
<1>1. Len(queue) \in Nat
  BY LenProperties
<1>2. e \in Nat /\ start <= e /\ e <= Len(queue) /\ e - start + 1 \in 1..count
  BY <1>1
<1>3. s = SubSeq(queue, start, e)
  BY DEF Selected
<1> HIDE DEF e
<1>4. \A i \in start..e : queue[i] \in S
  <2>1. \A i \in start..e : i \in 1..Len(queue)
    BY <1>1, <1>2
  <2> QED
    BY <2>1, ElementOfSeq
<1> DEFINE t == SubSeq(queue, start, e)
<1>5. /\ t \in Seq(S)
      /\ Len(t) = IF start <= e THEN e - start + 1 ELSE 0
      /\ \A i \in 1..(e - start + 1) : t[i] = queue[start + i - 1]
  BY <1>2, <1>4, SubSeqProperties
<1> HIDE DEF t
<1>6. Len(t) = e - start + 1
  BY <1>2, <1>5
<1>7. s = t
  BY <1>3 DEF t
<1> QED
  BY <1>1, <1>2, <1>5, <1>6, <1>7

\* A function on 1..n is a sequence.
LEMMA FunctionIsSeq ==
    ASSUME NEW S, NEW n \in Nat, NEW f \in [1..n -> S]
    PROVE  f \in Seq(S) /\ Len(f) = n
<1>1. f \in Seq(S)
  BY SeqDef
<1> QED
  BY <1>1, LenProperties

\* One concrete action of a batch over a queue.
InBatch(p, start, selected, i) ==
    [action |-> MessageAction(p.kind, selected[i]), at |-> <<p.link, PlaceInBatch(p.kind, start, i)>>]

\* It is well typed.
LEMMA InBatchType ==
    ASSUME NEW p \in PlanAction, p.kind \in MessageKinds, NEW start \in Nat \ {0},
           NEW selected \in Seq(Message), NEW i \in 1..Len(selected)
    PROVE  InBatch(p, start, selected, i) \in ConcreteAction
<1>1. p.link \in Links
  BY DEF PlanAction, MessageKinds, NodeKinds
<1>2. selected[i] \in Message
  BY ElementOfSeq
<1>3. selected[i].id \in IDs
  BY <1>2 DEF Message
<1>4. Len(selected) \in Nat /\ PlaceInBatch(p.kind, start, i) \in Nat \ {0}
  BY LenProperties DEF PlaceInBatch
<1> QED
  BY <1>1, <1>3, <1>4 DEF InBatch, MessageAction, ConcreteAction

\* What a message batch resolves to when it selects something.
LEMMA MessagesResolved ==
    ASSUME NEW p \in PlanAction, p.kind \in MessageKinds, NEW obs \in Observation,
           Resolve(p, obs).actions # <<>>
    PROVE  LET queue == obs.messages[p.link]
               r == Resolve(p, obs)
           IN  /\ r \in Resolutions
               /\ p.kind = "deliver" => obs.status[p.link[2]] = "running"
               /\ \E start \in Nat \ {0} :
                    /\ start + Len(r.actions) - 1 <= Len(queue)
                    /\ \A i \in 1..Len(r.actions) :
                         /\ r.actions[i].action = MessageAction(p.kind, queue[start + i - 1])
                         /\ r.actions[i].at = <<p.link, PlaceInBatch(p.kind, start, i)>>
<1> DEFINE queue == obs.messages[p.link]
           r == Resolve(p, obs)
           start == IF p.start > Len(queue) /\ ClampMessageStart THEN Len(queue) ELSE p.start
           selected == Selected(queue, start, p.count)
           acts == [i \in DOMAIN selected |-> InBatch(p, start, selected, i)]
<1>1. p.link \in Links /\ p.start \in Nat \ {0} /\ p.count \in Nat \ {0}
  BY DEF PlanAction, MessageKinds, NodeKinds
<1>2. queue \in Seq(Message) /\ Len(queue) \in Nat
  <2>1. queue \in Seq(Message)
    BY <1>1 DEF Observation
  <2> QED
    BY <2>1, LenProperties
<1>3. r = ResolveMessages(p, obs)
  <2>1. p.kind # "advance_ticks"
    BY DEF MessageKinds
  <2> QED
    BY <2>1 DEF Resolve
<1>4. ~(queue = <<>> \/ start > Len(queue)) /\ (p.kind = "deliver" => obs.status[p.link[2]] = "running")
  BY <1>3 DEF ResolveMessages, NotResolved, Resolution
<1>5. start \in Nat \ {0} /\ start <= Len(queue)
  BY <1>1, <1>2, <1>4
<1>6. /\ selected \in Seq(Message) /\ Len(selected) \in 1..p.count
      /\ start + Len(selected) - 1 <= Len(queue)
      /\ \A i \in 1..Len(selected) : selected[i] = queue[start + i - 1]
  <2> HIDE DEF queue, start
  <2> QED
    BY <1>1, <1>2, <1>5, SelectedIs
<1>7. r = Resolution(IF Len(selected) < p.count THEN "partial" ELSE "resolved", p.count, acts)
  BY <1>3, <1>4 DEF ResolveMessages, NotResolved, Resolution, InBatch
<1>8. DOMAIN selected = 1..Len(selected) /\ Len(selected) \in Nat
  BY <1>6, LenProperties
<1> HIDE DEF queue, start, selected
<1>9. acts \in Seq(ConcreteAction) /\ Len(acts) = Len(selected)
  <2>1. \A i \in 1..Len(selected) : InBatch(p, start, selected, i) \in ConcreteAction
    BY <1>5, <1>6, InBatchType
  <2>2. acts \in [1..Len(selected) -> ConcreteAction]
    BY <1>8, <2>1
  <2> HIDE DEF acts
  <2> QED
    BY <1>8, <2>2, FunctionIsSeq
<1>10. \A i \in 1..Len(acts) : acts[i] = InBatch(p, start, selected, i)
  BY <1>8, <1>9
<1> HIDE DEF acts
<1>11. r.actions = acts
  BY <1>7 DEF Resolution
<1>12. r \in Resolutions
  <2> DEFINE outcome == IF Len(selected) < p.count THEN "partial" ELSE "resolved"
  <2>1. p.count \in Nat /\ outcome \in {"resolved", "partial"}
    BY <1>1
  <2>2. r = [status |-> outcome, requested |-> p.count, actions |-> acts]
    BY <1>7 DEF Resolution
  <2> HIDE DEF outcome, r
  <2> QED
    BY <1>9, <2>1, <2>2 DEF Resolutions
<1>13. \A i \in 1..Len(acts) : /\ acts[i].action = MessageAction(p.kind, queue[start + i - 1])
                               /\ acts[i].at = <<p.link, PlaceInBatch(p.kind, start, i)>>
  <2> TAKE i \in 1..Len(acts)
  <2>1. acts[i] = InBatch(p, start, selected, i) /\ selected[i] = queue[start + i - 1]
    BY <1>6, <1>9, <1>10
  <2> QED
    BY <2>1 DEF InBatch
<1> HIDE DEF r
<1>14. start + Len(acts) - 1 <= Len(queue)
  BY <1>6, <1>9
<1> QED
  BY <1>4, <1>5, <1>11, <1>12, <1>13, <1>14 DEF r, queue

\* A resolution to a single action.
LEMMA OneAction ==
    ASSUME NEW c \in ConcreteAction
    PROVE  /\ Resolution("resolved", 1, <<c>>) \in Resolutions
           /\ Resolution("resolved", 1, <<c>>).actions = <<c>>
  BY DEF Resolution, Resolutions

\* A resolution to nothing.
LEMMA NothingResolved ==
    ASSUME NEW outcome \in {"skipped", "empty_queue", "invalid"}, NEW n \in Nat
    PROVE  NotResolved(outcome, n) \in Resolutions
<1>1. <<>> \in Seq(ConcreteAction)
  BY EmptySeq
<1> QED
  BY <1>1 DEF NotResolved, Resolution, Resolutions

\* An advance of the time resolves to one action, or to none.
LEMMA TicksResolved ==
    ASSUME NEW p \in PlanAction, p.kind = "advance_ticks", NEW obs \in Observation,
           obs.time + p.ticks <= MaxTime
    PROVE  LET r == Resolve(p, obs)
           IN  /\ r \in Resolutions
               /\ r.actions # <<>> =>
                    r.actions = <<[action |-> AdvanceAction(obs.time + p.ticks), at |-> <<>>]>>
               /\ obs.time + p.ticks > obs.time
<1>1. p.ticks \in Nat \ {0} /\ obs.time \in 0..MaxTime
  BY DEF PlanAction, MessageKinds, NodeKinds, Observation
<1> DEFINE c == [action |-> AdvanceAction(obs.time + p.ticks), at |-> <<>>]
<1>2. obs.time + p.ticks \in 1..MaxTime /\ obs.time + p.ticks > obs.time
  BY <1>1, BoundsAssumption
<1>3. c \in ConcreteAction
  BY <1>2 DEF AdvanceAction, ConcreteAction
<1>4. Resolve(p, obs) = ResolveTime(p, obs)
  BY DEF Resolve, MessageKinds
<1> HIDE DEF c
<1>5. CASE p.ticks > MaxAdvanceTicks
  <2>1. Resolve(p, obs) = NotResolved("invalid", 1)
    BY <1>4, <1>5 DEF ResolveTime
  <2> QED
    BY <1>2, <2>1, NothingResolved DEF NotResolved, Resolution
<1>6. CASE ~(p.ticks > MaxAdvanceTicks)
  <2>1. Resolve(p, obs) = Resolution("resolved", 1, <<c>>)
    BY <1>4, <1>6 DEF ResolveTime, c
  <2> QED
    BY <1>2, <1>3, <2>1, OneAction DEF c
<1> QED
  BY <1>5, <1>6

\* So does an action on a member, if its state permits it.
LEMMA NodeResolved ==
    ASSUME NEW p \in PlanAction, p.kind \in NodeKinds, NEW obs \in Observation
    PROVE  LET r == Resolve(p, obs)
           IN  /\ r \in Resolutions
               /\ r.actions # <<>> =>
                    /\ r.actions = <<[action |-> NodeAction(p.kind, p.node), at |-> <<>>]>>
                    /\ p.node \in Nodes
                    /\ obs.status[p.node] = IF p.kind = "restart" THEN "crashed" ELSE "running"
<1>1. p.node \in Nodes /\ obs.status[p.node] \in {"running", "crashed"}
  BY DEF PlanAction, MessageKinds, NodeKinds, Observation
<1> DEFINE c == [action |-> NodeAction(p.kind, p.node), at |-> <<>>]
<1>2. c \in ConcreteAction
  BY <1>1 DEF NodeAction, ConcreteAction
<1>3. Resolve(p, obs) = ResolveNode(p, obs)
  BY DEF Resolve, MessageKinds, NodeKinds
<1> HIDE DEF c
<1>4. CASE (p.kind = "restart") = (obs.status[p.node] = "running")
  <2>1. Resolve(p, obs) = NotResolved("skipped", 1)
    BY <1>3, <1>4 DEF ResolveNode
  <2> QED
    BY <2>1, NothingResolved DEF NotResolved, Resolution
<1>5. CASE ~((p.kind = "restart") = (obs.status[p.node] = "running"))
  <2>1. Resolve(p, obs) = Resolution("resolved", 1, <<c>>)
    BY <1>3, <1>5 DEF ResolveNode, c
  <2>2. obs.status[p.node] = IF p.kind = "restart" THEN "crashed" ELSE "running"
    BY <1>1, <1>5
  <2> QED
    BY <1>1, <1>2, <2>1, <2>2, OneAction DEF c
<1> QED
  BY <1>4, <1>5

\* A message batch that selects nothing is well formed too.
LEMMA MessagesUnresolved ==
    ASSUME NEW p \in PlanAction, p.kind \in MessageKinds, NEW obs \in Observation,
           Resolve(p, obs).actions = <<>>
    PROVE  Resolve(p, obs) \in Resolutions
<1> DEFINE queue == obs.messages[p.link]
           start == IF p.start > Len(queue) /\ ClampMessageStart THEN Len(queue) ELSE p.start
           selected == Selected(queue, start, p.count)
           acts == [i \in DOMAIN selected |-> InBatch(p, start, selected, i)]
<1>1. p.link \in Links /\ p.start \in Nat \ {0} /\ p.count \in Nat \ {0}
  BY DEF PlanAction, MessageKinds, NodeKinds
<1>2. queue \in Seq(Message)
  BY <1>1 DEF Observation
<1>3. Resolve(p, obs) = ResolveMessages(p, obs)
  BY DEF Resolve, MessageKinds
<1>4. CASE p.count > MaxMessageBatch
  <2>1. Resolve(p, obs) = NotResolved("invalid", p.count)
    BY <1>3, <1>4 DEF ResolveMessages
  <2> HIDE DEF queue, start, selected, acts
  <2> QED
    BY <1>1, <2>1, NothingResolved, SMTT(30)
<1>5. CASE ~(p.count > MaxMessageBatch) /\ p.kind = "deliver" /\ obs.status[p.link[2]] # "running"
  <2>1. Resolve(p, obs) = NotResolved("skipped", p.count)
    BY <1>3, <1>5 DEF ResolveMessages
  <2> HIDE DEF queue, start, selected, acts
  <2> QED
    BY <1>1, <2>1, NothingResolved
<1>6. CASE /\ ~(p.count > MaxMessageBatch) /\ ~(p.kind = "deliver" /\ obs.status[p.link[2]] # "running")
           /\ queue = <<>> \/ start > Len(queue)
  <2>1. Resolve(p, obs) = NotResolved("empty_queue", p.count)
    BY <1>3, <1>6 DEF ResolveMessages
  <2> HIDE DEF queue, start, selected, acts
  <2> QED
    BY <1>1, <2>1, NothingResolved, SMTT(30)
<1>7. CASE /\ ~(p.count > MaxMessageBatch) /\ ~(p.kind = "deliver" /\ obs.status[p.link[2]] # "running")
           /\ ~(queue = <<>> \/ start > Len(queue))
  <2>1. Resolve(p, obs) = Resolution(IF Len(selected) < p.count THEN "partial" ELSE "resolved",
                                     p.count, acts)
    BY <1>3, <1>7 DEF ResolveMessages, InBatch
  <2>2. Len(queue) \in Nat
    BY <1>2, LenProperties
  <2>3. start \in Nat \ {0} /\ start <= Len(queue)
    BY <1>1, <1>2, <1>7, <2>2
  <2>4. selected \in Seq(Message) /\ Len(selected) \in 1..p.count
    <3> HIDE DEF queue, start
    <3> QED
      BY <1>1, <1>2, <2>3, SelectedIs
  <2>5. 1 \in DOMAIN selected
    <3> HIDE DEF selected
    <3> QED
      BY <2>4, LenProperties
  <2>6. acts # <<>>
    <3> HIDE DEF selected
    <3> QED
      BY <2>5
  <2>7. Resolve(p, obs).actions = acts
    BY <2>1 DEF Resolution
  <2> QED
    BY <2>6, <2>7, SMTT(30)
<1> QED
  BY <1>4, <1>5, <1>6, <1>7

\* The Resolver builds well formed resolutions.
LEMMA ResolveType ==
    ASSUME NEW p \in PlanAction, NEW obs \in Observation,
           p.kind = "advance_ticks" => obs.time + p.ticks <= MaxTime
    PROVE  Resolve(p, obs) \in Resolutions
<1>1. p.kind \in MessageKinds \/ p.kind = "advance_ticks" \/ p.kind \in NodeKinds
  BY DEF PlanAction
<1>2. CASE p.kind \in MessageKinds
  <2>1. CASE Resolve(p, obs).actions = <<>>
    BY <1>2, <2>1, MessagesUnresolved
  <2>2. CASE Resolve(p, obs).actions # <<>>
    BY <1>2, <2>2, MessagesResolved
  <2> QED
    BY <2>1, <2>2
<1> QED
  BY <1>1, <1>2, TicksResolved, NodeResolved

----------------------------------------------------------------------------
(* A step of the Engine is a step of the Runtime or leaves it alone.       *)

\* While concrete actions are looped over there is a resolution they belong
\* to, and the no-op counter has not counted the plan action in progress.
EngineFrame ==
    /\ EngineTypeOK
    /\ loop.noops <= loop.processed
    /\ stage \in {"batch", "call"} => loop.noops < loop.processed /\ result.resolutions # <<>>
    /\ stage = "call" => /\ batch.left # <<>>
                         /\ call.phase = "idle" /\ ~terminated => trace # <<>>

\* The action whose turn it is.
LEMMA CurrentType ==
    ASSUME EngineTypeOK, batch.left # <<>>
    PROVE  /\ Current \in ConcreteAction /\ Tail(batch.left) \in Seq(ConcreteAction)
           /\ Current.action \in Action
           /\ Current.action.kind \in MessageKinds => Current.at[1] \in Links
           /\ Current.action.kind \in NodeKinds => Current.action.node \in Nodes
           /\ Current.action.kind = "advance_time" => Current.action.target \in 1..MaxTime
           /\ Current.action.kind \in MessageKinds \cup NodeKinds \cup {"advance_time"}
<1>1. batch.left \in Seq(ConcreteAction)
  BY DEF EngineTypeOK, Batch
<1>2. Current \in ConcreteAction /\ Tail(batch.left) \in Seq(ConcreteAction)
  BY <1>1, HeadTailProperties DEF Current
<1>3. ASSUME NEW c \in ConcreteAction
      PROVE  /\ c.action \in Action
             /\ c.action.kind \in MessageKinds => c.at[1] \in Links
             /\ c.action.kind \in NodeKinds => c.action.node \in Nodes
             /\ c.action.kind = "advance_time" => c.action.target \in 1..MaxTime
             /\ c.action.kind \in MessageKinds \cup NodeKinds \cup {"advance_time"}
  BY BoundsAssumption DEF ConcreteAction, Action, ActionKinds, MessageKinds, NodeKinds, IDs
<1> QED
  BY <1>2, <1>3

\* A message that is in its place may be acted upon.
LEMMA PlacedCall ==
    ASSUME NEW kind \in MessageKinds, NEW l \in Links, NEW p \in DOMAIN queues[l], TypeOK
    PROVE  MessageAction(kind, queues[l][p]) \in Calls
<1>1. queues[l] \in Seq(Message)
  BY DEF TypeOK
<1>2. p \in 1..Len(queues[l])
  BY <1>1, LenProperties
<1>3. <<l, p>> \in Slots(queues)
  BY <1>2 DEF Slots
<1>4. MessageAction(kind, queues[<<l, p>>[1]][<<l, p>>[2]]) \in Calls
  BY <1>3 DEF Calls
<1> QED
  BY <1>4

\* What Execute is asked for in a run is a call of the Runtime.
LEMMA AdmissibleCalls ==
    ASSUME TypeOK, NEW c \in ConcreteAction, Admissible(c)
    PROVE  c.action \in Calls
<1>1. CASE c.action.kind \in MessageKinds
  <2>1. /\ c.at[1] \in Links /\ c.at[2] \in Nat \ {0}
        /\ c.action = [kind |-> c.action.kind, node |-> NoNode, message |-> c.action.message, target |-> 0]
    BY <1>1 DEF ConcreteAction, MessageKinds, NodeKinds
  <2> DEFINE l == c.at[1]
             p == c.at[2]
  <2>2. p \in DOMAIN queues[l] /\ queues[l][p].id = c.action.message
    BY <1>1 DEF Admissible, InPlace
  <2>3. c.action = MessageAction(c.action.kind, queues[l][p])
    BY <2>1, <2>2 DEF MessageAction
  <2> QED
    BY <1>1, <2>1, <2>2, <2>3, PlacedCall
<1>2. CASE c.action.kind \in NodeKinds
  <2>1. c.action.node \in Nodes /\ c.action = NodeAction(c.action.kind, c.action.node)
    BY <1>2 DEF ConcreteAction, MessageKinds, NodeKinds, NodeAction
  <2> QED
    BY <1>2, <2>1 DEF Calls
<1>3. CASE c.action.kind = "advance_time"
  <2>1. c.action.target \in 1..MaxTime /\ c.action = AdvanceAction(c.action.target)
    BY <1>3 DEF ConcreteAction, MessageKinds, NodeKinds, AdvanceAction
  <2> QED
    BY <2>1 DEF Calls
<1> QED
  BY <1>1, <1>2, <1>3 DEF ConcreteAction

\* What Execute starts is a step of the Runtime.
LEMMA StartIsNext ==
    ASSUME TypeOK, NEW c \in ConcreteAction, Admissible(c), Start(c)
    PROVE  Next
<1>1. /\ c.action.kind \in MessageKinds => c.at[1] \in Links
      /\ c.action.kind \in NodeKinds => c.action.node \in Nodes
      /\ c.action.kind = "advance_time" => c.action.target \in 1..MaxTime
  BY DEF ConcreteAction, MessageKinds, NodeKinds
<1>2. CASE c.action.kind = "deliver" /\ \/ \E effects \in Batches : Deliver(c.at[1], c.at[2], effects)
                                        \/ DeliverFails(c.at[1], c.at[2])
  <2>1. c.at[2] \in 1..Len(queues[c.at[1]])
    BY <1>2 DEF Deliver, DeliverFails, Deliverable
  <2> QED
    BY <1>1, <1>2, <2>1 DEF MessageKinds, OnMessage, Next
<1>3. CASE \/ c.action.kind = "drop" /\ Drop(c.at[1], c.at[2])
           \/ c.action.kind = "duplicate" /\ Duplicate(c.at[1], c.at[2])
  <2>1. c.at[2] \in 1..Len(queues[c.at[1]])
    BY <1>3 DEF Drop, Duplicate
  <2> QED
    BY <1>1, <1>3, <2>1, SMTT(30) DEF MessageKinds, OnMessage, Next
<1>4. CASE c.action.kind = "advance_time" /\ AdvanceTime(c.action.target)
  BY <1>1, <1>4 DEF Next
<1>5. CASE c.action.kind \in NodeKinds /\ \/ \E effects \in Batches : OnNode(c.action.kind, c.action.node, effects)
                                          \/ OnNodeFails(c.action.kind, c.action.node)
  BY <1>1, <1>5 DEF NodeKinds, Timeout, Crash, Restart, Request, OnMember, Next
<1>6. CASE CapabilitiesPanic(c.action)
  BY <1>6, AdmissibleCalls DEF Next
<1> QED
  BY <1>2, <1>3, <1>4, <1>5, <1>6 DEF Start

\* Every step of the Engine is a step of the Runtime, or leaves it alone.
LEMMA RuntimeStep ==
    ASSUME TypeOK, EngineFrame, [EngineNext]_allVars
    PROVE  [Next]_vars
<1>1. ASSUME NEW s \in Sources, Begin(s) \/ BeginFails(s)
      PROVE  Next
  BY <1>1 DEF Begin, BeginFails, Next
<1>2. CASE Execute
  <2>1. Admissible(Current) /\ Start(Current) /\ batch.left # <<>>
    BY <1>2 DEF Execute, Judged
  <2> QED
    BY <2>1, CurrentType, StartIsNext DEF EngineFrame
<1>3. CASE Executing
  BY <1>3 DEF Executing, Next
<1>4. CASE RunCanceled \/ PlanCanceled \/ PolicyEnds \/ PolicyFails \/ PlanEnds \/ Cancel
  BY <1>4 DEF RunCanceled, PlanCanceled, PolicyEnds, PolicyFails, PlanEnds, Cancel
<1>5. CASE (\E p \in PlanActions : Plan(p)) \/ ActionInapplicable \/ ModelBoundReached \/ ActionUnsupported
  BY <1>5 DEF Plan, ActionInapplicable, ModelBoundReached, ActionUnsupported
<1>6. CASE ExecuteRefused \/ ExecuteFailed \/ ExecuteSucceeded \/ BatchEnds \/ Finish
  BY <1>6 DEF ExecuteRefused, ExecuteFailed, ExecuteSucceeded, BatchEnds, Finish
<1>7. CASE UNCHANGED allVars
  BY <1>7 DEF allVars
<1> QED
  BY <1>1, <1>2, <1>3, <1>4, <1>5, <1>6, <1>7 DEF EngineNext, EngineStep

----------------------------------------------------------------------------
(* The types of the Engine's own state.                                    *)

\* The types of what the Engine builds its result from.
LEMMA NewResultType == NewResult \in Results
<1>1. /\ <<>> \in Seq(Resolutions) /\ <<>> \in Seq(ConcreteAction) /\ <<>> \in Seq(StepRecord)
      /\ <<>> \in Seq([before : Observation, action : Action, after : Observation])
  BY EmptySeq
<1> QED
  BY <1>1 DEF NewResult, Results, Outcomes, Terminations

\* Capture keeps the type.
LEMMA CaptureType ==
    ASSUME TypeOK, NEW r \in Results
    PROVE  Capture(r) \in Results
  BY DEF TypeOK, Capture, Results

\* So does a run that stops,
LEMMA StopType ==
    ASSUME TypeOK, NEW r \in Results, NEW outcome \in Outcomes, Stop(outcome, r)
    PROVE  stage' = "ready" /\ result' \in Results
<1>1. Capture(r) \in Results
  BY CaptureType
<1> QED
  BY <1>1 DEF Stop, Results

\* and a plan loop that is left early.
LEMMA BreakType ==
    ASSUME NEW r \in Results, NEW reason \in Terminations, Break(reason, r)
    PROVE  stage' = "finish" /\ result' \in Results
  BY DEF Break, Results

\* Rewriting the last resolution of a result.
LEMMA MarkedType ==
    ASSUME result \in Results, NEW r \in Resolutions
    PROVE  Marked(r) \in Results /\ Marked(r).resolutions # <<>>
<1> DEFINE front == SubSeq(result.resolutions, 1, Len(result.resolutions) - 1)
           marked == Append(front, r)
<1>1. result.resolutions \in Seq(Resolutions)
  BY DEF Results
<1>2. Len(result.resolutions) \in Nat
  BY <1>1, LenProperties
<1>3. \A i \in 1..(Len(result.resolutions) - 1) : result.resolutions[i] \in Resolutions
  BY <1>1, <1>2, ElementOfSeq
<1>4. front \in Seq(Resolutions)
  BY <1>2, <1>3, SubSeqProperties
<1> HIDE DEF front
<1>5. marked \in Seq(Resolutions) /\ marked # <<>>
  BY <1>4, AppendProperties
<1>6. Marked(r) = [result EXCEPT !.resolutions = marked]
  BY DEF Marked, Front, front
<1> HIDE DEF marked
<1> QED
  BY <1>5, <1>6 DEF Results

\* The last resolution is a resolution.
LEMMA LastResolutionType ==
    ASSUME result \in Results, result.resolutions # <<>>
    PROVE  LastResolution \in Resolutions
<1>1. result.resolutions \in Seq(Resolutions)
  BY DEF Results
<1>2. Len(result.resolutions) \in 1..Len(result.resolutions)
  BY <1>1, EmptySeq
<1> QED
  BY <1>1, <1>2, ElementOfSeq DEF LastResolution, Last

\* It is rewritten to a resolution.
LEMMA MarkType ==
    ASSUME NEW r \in Resolutions, NEW executed \in Seq(ConcreteAction)
    PROVE  /\ MarkInapplicable(r, executed) \in Resolutions
           /\ \A outcome \in {"model_bound", "unsupported_by_model"} :
                MarkStopped(r, outcome) \in Resolutions
<1>1. <<>> \in Seq(ConcreteAction)
  BY EmptySeq
<1> QED
  BY <1>1 DEF MarkInapplicable, MarkStopped, Resolutions

\* A step that ends the run or breaks off its plan loop keeps the frame.
LEMMA Leaves ==
    ASSUME TypeOK, TypeOK', EngineFrame, UNCHANGED <<frame, canceled>>,
           \/ \E outcome \in Outcomes, r \in Results : Stop(outcome, r)
           \/ \E reason \in Terminations, r \in Results : Break(reason, r)
    PROVE  EngineFrame'
<1>1. stage' \in {"ready", "finish"} /\ result' \in Results
  BY StopType, BreakType
<1> QED
  BY <1>1 DEF EngineFrame, EngineTypeOK, frame, Batch

\* A call in progress is a call of the action asked for.
LEMMA MessageCalls ==
    ASSUME TypeOK, NEW l \in Links, NEW p \in 1..Len(queues[l]), call'.phase # "idle"
    PROVE  /\ \A b \in Batches :
                Deliver(l, p, b) => call'.action = MessageAction("deliver", queues[l][p])
           /\ Drop(l, p) => call'.action = MessageAction("drop", queues[l][p])
           /\ Duplicate(l, p) => call'.action = MessageAction("duplicate", queues[l][p])
           /\ ~DeliverFails(l, p)
<1>1. ASSUME NEW kind \in MessageKinds
      PROVE  MessageAction(kind, queues[l][p]) \in Action
  BY ActionType, QueuedType
<1>2. ASSUME NEW b \in Batches, Deliver(l, p, b)
      PROVE  call'.action = MessageAction("deliver", queues[l][p])
  <2> DEFINE act == MessageAction("deliver", queues[l][p])
  <2>1. act \in Action
    BY <1>1 DEF MessageKinds
  <2>2. ProcessAdapterEffects(Started(act), b, Without(l, p))
    BY <1>2 DEF Deliver
  <2> HIDE DEF act
  <2>3. Started(act) \in CallFrame /\ Started(act).action = act
    BY <2>1, StartedFrame
  <2>4. call'.action = act
    BY <2>2, <2>3, ProcessStage
  <2> QED
    BY <2>4 DEF act
<1>3. ASSUME Drop(l, p)
      PROVE  call'.action = MessageAction("drop", queues[l][p])
  BY <1>1, <1>3, StartedFrame DEF Drop, MessageKinds
<1>4. ASSUME Duplicate(l, p)
      PROVE  call'.action = MessageAction("duplicate", queues[l][p])
  <2> DEFINE act == MessageAction("duplicate", queues[l][p])
  <2>1. act \in Action
    BY <1>1 DEF MessageKinds
  <2>2. call' = [Started(act) EXCEPT !.phase = "observe"] \/ Fails("execute", act)
    BY <1>4, FailsCases DEF Duplicate
  <2> HIDE DEF act
  <2>3. call'.action = act
    BY <2>1, <2>2, StartedFrame, FailBreaks
  <2> QED
    BY <2>3 DEF act
<1>5. ~DeliverFails(l, p)
  BY FailBreaks, FailsCases DEF DeliverFails
<1> QED
  BY <1>2, <1>3, <1>4, <1>5

\* A call on a member is about the action it was asked for.
LEMMA MemberCalls ==
    ASSUME TypeOK, NEW n \in Nodes, NEW kind \in NodeKinds, call'.phase # "idle"
    PROVE  /\ \A b \in Batches : OnNode(kind, n, b) => call'.action = NodeAction(kind, n)
           /\ ~OnNodeFails(kind, n)
<1> DEFINE act == NodeAction(kind, n)
<1>1. act \in Action
  BY ActionType
<1>2. ASSUME NEW b \in Batches, OnNode(kind, n, b)
      PROVE  call'.action = act
  <2>1. ProcessAdapterEffects(Started(act), b, queues)
    BY <1>2 DEF OnNode
  <2> HIDE DEF act
  <2>2. Started(act) \in CallFrame /\ Started(act).action = act
    BY <1>1, StartedFrame
  <2> QED
    BY <2>1, <2>2, ProcessStage
<1>3. ~OnNodeFails(kind, n)
  BY FailBreaks, FailsCases DEF OnNodeFails
<1> QED
  BY <1>2, <1>3

\* Execute begins a call of the action it is given, or breaks it off.
LEMMA StartStages ==
    ASSUME TypeOK, NEW c \in ConcreteAction, Admissible(c), Start(c)
    PROVE  /\ Begins \/ Breaks
           /\ call'.phase # "idle" => call'.action = c.action
<1> DEFINE act == c.action
<1>1. CASE act.kind \in MessageKinds
  <2> DEFINE l == c.at[1]
             p == c.at[2]
  <2>1. /\ l \in Links /\ p \in Nat \ {0}
        /\ act = [kind |-> act.kind, node |-> NoNode, message |-> act.message, target |-> 0]
    BY <1>1 DEF ConcreteAction, MessageKinds, NodeKinds
  <2>2. p \in DOMAIN queues[l] /\ queues[l][p].id = act.message
    BY <1>1 DEF Admissible, InPlace
  <2>3. act = MessageAction(act.kind, queues[l][p])
    BY <2>1, <2>2 DEF MessageAction
  <2>4. p \in 1..Len(queues[l])
    BY <2>1, <2>2, LenProperties DEF TypeOK
  <2>5. CASE CapabilitiesPanic(act)
    BY <2>5, FailBreaks, FailsCases DEF CapabilitiesPanic, Breaks
  <2>6. CASE ~CapabilitiesPanic(act)
    <3>1. \/ act.kind = "deliver" /\ \/ \E effects \in Batches : Deliver(l, p, effects)
                                     \/ DeliverFails(l, p)
          \/ act.kind = "drop" /\ Drop(l, p)
          \/ act.kind = "duplicate" /\ Duplicate(l, p)
      <4>1. act.kind \notin NodeKinds /\ act.kind # "advance_time"
        BY <1>1 DEF MessageKinds, NodeKinds
      <4> QED
        BY <2>6, <4>1, Zenon DEF Start
    <3> HIDE DEF l, p, act
    <3>2. Begins \/ Breaks
      BY <2>1, <2>4, <3>1, MessageStages
    <3>3. call'.phase # "idle" => call'.action = act
      BY <2>1, <2>3, <2>4, <3>1, MessageCalls
    <3> QED
      BY <3>2, <3>3 DEF act
  <2> QED
    BY <2>5, <2>6
<1>2. CASE act.kind \in NodeKinds
  <2>1. act.node \in Nodes /\ act = NodeAction(act.kind, act.node)
    BY <1>2 DEF ConcreteAction, MessageKinds, NodeKinds, NodeAction
  <2>2. CASE CapabilitiesPanic(act)
    BY <2>2, FailBreaks, FailsCases DEF CapabilitiesPanic, Breaks
  <2>3. CASE \/ \E effects \in Batches : OnNode(act.kind, act.node, effects)
             \/ OnNodeFails(act.kind, act.node)
    <3> HIDE DEF act
    <3>1. Begins \/ Breaks
      BY <1>2, <2>1, <2>3, MemberStages
    <3>2. call'.phase # "idle" => call'.action = act
      BY <1>2, <2>1, <2>3, MemberCalls
    <3> QED
      BY <3>1, <3>2 DEF act
  <2> QED
    BY <1>2, <2>2, <2>3 DEF Start, NodeKinds
<1>3. CASE act.kind = "advance_time"
  <2>1. act.target \in 1..MaxTime /\ act = AdvanceAction(act.target) /\ act \in Action
    BY <1>3, ActionType DEF ConcreteAction, MessageKinds, NodeKinds, AdvanceAction
  <2>2. CASE CapabilitiesPanic(act)
    BY <2>2, FailBreaks, FailsCases DEF CapabilitiesPanic, Breaks
  <2>3. CASE AdvanceTime(act.target)
    <3> HIDE DEF act
    <3>1. /\ Admitted /\ UNCHANGED <<resultVars, time, effectCount>> /\ act.target > time
          /\ MaxTicks # 0 => act.target <= MaxTicks
          /\ call' = [Started(act) EXCEPT !.phase = "tick"]
      BY <2>1, <2>3 DEF AdvanceTime
    <3>2. call'.action = act /\ call'.before = time /\ call'.phase = "tick"
      BY <2>1, <3>1, StartedFrame
    <3>3. time < act.target
      BY <2>1, <3>1 DEF TypeOK
    <3>4. Begins
      BY <1>3, <3>1, <3>2, <3>3 DEF Begins
    <3> QED
      BY <3>2, <3>4 DEF act
  <2> QED
    BY <1>3, <2>2, <2>3 DEF Start, NodeKinds
<1> QED
  BY <1>1, <1>2, <1>3 DEF ConcreteAction

----------------------------------------------------------------------------
(* The frame of the Engine, step by step.                                  *)

\* The Engine begins well typed.
LEMMA FrameInit == EngineInit => Types /\ EngineFrame
<1> SUFFICES ASSUME EngineInit PROVE Types /\ EngineFrame
  OBVIOUS
<1>1. Types
  BY TypesInit DEF EngineInit
<1>2. source \in Sources /\ source.maximum \in Nat
  BY EngineAssumption DEF EngineInit
<1>3. NoBatch \in Batch
  BY EmptySeq DEF NoBatch, Batch
<1>4. NewLoop \in [processed : 0..source.maximum, noops : 0..source.maximum, policyComplete : BOOLEAN]
  BY <1>2 DEF NewLoop
<1>5. view \in Observation /\ before \in Observation
  BY <1>1 DEF EngineInit, Types, TypeOK
<1>6. EngineTypeOK
  BY <1>2, <1>3, <1>4, <1>5, NewResultType DEF EngineInit, EngineTypeOK
<1> QED
  BY <1>1, <1>6 DEF EngineInit, EngineFrame, NewLoop

\* A run begins.
LEMMA FrameBegin ==
    ASSUME Types, Types', EngineFrame, NEW s \in Sources, Begin(s) \/ BeginFails(s)
    PROVE  EngineFrame'
<1>1. /\ source' = s /\ loop' = NewLoop /\ batch' = NoBatch
      /\ s.maximum \in Nat
  BY EngineAssumption DEF Begin, BeginFails, Fresh
<1>2. NoBatch \in Batch
  BY EmptySeq DEF NoBatch, Batch
<1>3. view' \in Observation /\ before' \in Observation /\ canceled' \in BOOLEAN
  BY DEF Begin, BeginFails, Types, TypeOK, EngineFrame, EngineTypeOK
<1>4. stage' \in {"plan", "ready"} /\ result' \in Results
  <2>1. CASE Begin(s)
    <3>1. \/ stage' = "plan" /\ result' = NewResult
          \/ stage' = "ready" /\ \E outcome \in Outcomes : result' = [NewResult EXCEPT !.status = outcome]
      BY <2>1 DEF Begin, Outcomes
    <3> QED
      BY <3>1, NewResultType DEF Results
  <2>2. CASE BeginFails(s)
    <3>1. failure' \in FailureRecord \cup {NoFailure}
      BY DEF Types, TypeOK
    <3>2. stage' = "ready"
      BY <2>2 DEF BeginFails
    <3>3. \E outcome \in Outcomes : result' = [NewResult EXCEPT !.failure = failure', !.status = outcome]
      BY <2>2 DEF BeginFails, Outcomes
    <3> QED
      BY <3>1, <3>2, <3>3, NewResultType DEF Results
  <2> QED
    BY <2>1, <2>2
<1> QED
  BY <1>1, <1>2, <1>3, <1>4 DEF EngineFrame, EngineTypeOK, NewLoop

\* A plan action is resolved.
LEMMA FramePlan ==
    ASSUME Types, Types', EngineFrame, NEW p \in PlanActions, Plan(p)
    PROVE  EngineFrame'
<1> DEFINE r == Resolve(p, view)
           noted == [result EXCEPT !.resolutions = Append(@, r)]
           counted == [loop EXCEPT !.processed = @ + 1]
<1>1. r \in Resolutions
  BY EngineAssumption, ResolveType DEF Plan, EngineFrame, EngineTypeOK
<1>2. /\ loop.processed \in Nat /\ loop.noops \in Nat /\ source.maximum \in Nat
      /\ loop.noops <= loop.processed /\ loop.processed < source.maximum
  BY EngineAssumption DEF Plan, Looping, EngineFrame, EngineTypeOK
<1>3. r.actions \in Seq(ConcreteAction)
  BY <1>1 DEF Resolutions
<1>4. \/ Stop("resolution_failed", noted) /\ loop' = counted /\ UNCHANGED batch
      \/ Noop(counted, noted) /\ UNCHANGED batch
      \/ /\ stage' = "batch" /\ result' = noted /\ loop' = counted
         /\ batch' = [left |-> r.actions, executed |-> <<>>, inapplicable |-> FALSE]
  BY DEF Plan
<1>5. UNCHANGED <<source, view, before, canceled>>
  BY DEF Plan
<1> HIDE DEF r
<1>6. noted \in Results /\ noted.resolutions # <<>>
  <2>1. result \in Results /\ result.resolutions \in Seq(Resolutions)
    BY DEF EngineFrame, EngineTypeOK, Results
  <2>2. Append(result.resolutions, r) \in Seq(Resolutions) /\ Append(result.resolutions, r) # <<>>
    BY <1>1, <2>1, AppendProperties
  <2> QED
    BY <2>1, <2>2 DEF Results
<1> HIDE DEF noted
<1>7. CASE Stop("resolution_failed", noted) /\ loop' = counted /\ UNCHANGED batch
  <2>1. stage' = "ready" /\ result' \in Results
    BY <1>6, <1>7, StopType DEF Types, Outcomes
  <2> QED
    BY <1>2, <1>5, <1>7, <2>1 DEF EngineFrame, EngineTypeOK
<1>8. CASE Noop(counted, noted) /\ UNCHANGED batch
  <2>1. stage' \in {"plan", "finish"} /\ result' \in Results
    BY <1>6, <1>8, BreakType DEF Noop, Terminations
  <2>2. /\ loop' = [counted EXCEPT !.noops = @ + 1] /\ UNCHANGED batch
        /\ loop \in [processed : 0..source.maximum, noops : 0..source.maximum,
                     policyComplete : BOOLEAN]
    BY <1>8 DEF Noop, EngineFrame, EngineTypeOK
  <2>3. /\ loop' \in [processed : 0..source.maximum, noops : 0..source.maximum,
                      policyComplete : BOOLEAN]
        /\ loop'.noops <= loop'.processed
    <3>1. /\ counted \in [processed : 0..source.maximum, noops : 0..source.maximum,
                         policyComplete : BOOLEAN]
          /\ counted.noops < counted.processed
      BY <1>2, <2>2
    <3> HIDE DEF counted
    <3> QED
      BY <1>2, <2>2, <3>1
  <2>4. EngineTypeOK
    BY DEF EngineFrame
  <2> HIDE DEF counted
  <2>5. EngineTypeOK'
    BY <1>5, <2>1, <2>2, <2>3, <2>4 DEF EngineTypeOK
  <2> QED
    BY <2>1, <2>3, <2>5 DEF EngineFrame
<1>9. CASE /\ stage' = "batch" /\ result' = noted /\ loop' = counted
           /\ batch' = [left |-> r.actions, executed |-> <<>>, inapplicable |-> FALSE]
  <2>1. batch' \in Batch
    BY <1>3, <1>9, EmptySeq DEF Batch
  <2> QED
    BY <1>2, <1>5, <1>6, <1>9, <2>1 DEF EngineFrame, EngineTypeOK
<1> QED
  BY <1>4, <1>7, <1>8, <1>9

\* The loop over the concrete actions, up to and without a call.
LEMMA FrameBatch ==
    ASSUME Types, Types', EngineFrame,
           ActionInapplicable \/ ModelBoundReached \/ ActionUnsupported \/ BatchEnds
    PROVE  EngineFrame'
<1>1. /\ result \in Results /\ batch \in Batch /\ loop.noops \in Nat
      /\ loop \in [processed : 0..source.maximum, noops : 0..source.maximum,
                   policyComplete : BOOLEAN]
      /\ source.maximum \in Nat
  BY EngineAssumption DEF EngineFrame, EngineTypeOK
<1>2. result.resolutions # <<>> /\ loop.noops < loop.processed
  BY DEF EngineFrame, ActionInapplicable, ModelBoundReached, ActionUnsupported, Judged, BatchEnds
<1>3. LastResolution \in Resolutions /\ batch.executed \in Seq(ConcreteAction)
  BY <1>1, <1>2, LastResolutionType DEF Batch
<1>4. CASE ActionInapplicable
  <2>1. batch.left # <<>>
    BY <1>4 DEF ActionInapplicable, Judged
  <2>2. Tail(batch.left) \in Seq(ConcreteAction)
    BY <2>1, CurrentType DEF EngineFrame
  <2>3. batch' \in Batch
    BY <1>1, <1>4, <2>2 DEF ActionInapplicable, Batch
  <2>4. stage = "batch" /\ UNCHANGED <<stage, source, loop, view, before, canceled, result>>
    BY <1>4 DEF ActionInapplicable, Judged
  <2> QED
    BY <2>3, <2>4 DEF EngineFrame, EngineTypeOK
<1>5. CASE ModelBoundReached
  <2> DEFINE r == IF batch.executed = <<>> THEN MarkStopped(LastResolution, "model_bound")
                  ELSE MarkInapplicable(LastResolution, batch.executed)
  <2>1. r \in Resolutions
    BY <1>3, MarkType
  <2>2. Break("model_bound_reached", Marked(r)) /\ UNCHANGED <<frame, canceled>>
    BY <1>5 DEF ModelBoundReached
  <2> HIDE DEF r
  <2>3. Marked(r) \in Results
    BY <1>1, <2>1, MarkedType
  <2> QED
    BY <2>2, <2>3, Leaves DEF Types, Terminations
<1>6. CASE ActionUnsupported
  <2> DEFINE r == MarkStopped(LastResolution, "unsupported_by_model")
  <2>1. r \in Resolutions
    BY <1>3, MarkType
  <2>2. Stop("unsupported_by_model", Marked(r)) /\ UNCHANGED <<frame, canceled>>
    BY <1>6 DEF ActionUnsupported
  <2> HIDE DEF r
  <2>3. Marked(r) \in Results
    BY <1>1, <2>1, MarkedType
  <2> QED
    BY <2>2, <2>3, Leaves DEF Types, Outcomes
<1>7. CASE BatchEnds
  <2> DEFINE noted == IF batch.inapplicable
                      THEN Marked(MarkInapplicable(LastResolution, batch.executed)) ELSE result
  <2>1. noted \in Results
    BY <1>1, <1>3, MarkType, MarkedType
  <2>2. /\ batch' = NoBatch /\ UNCHANGED <<source, view, before, canceled>>
        /\ \/ Noop(loop, noted)
           \/ loop' = [loop EXCEPT !.noops = 0] /\ stage' = "plan" /\ result' = noted
    BY <1>7 DEF BatchEnds
  <2> HIDE DEF noted
  <2>3. NoBatch \in Batch
    BY EmptySeq DEF NoBatch, Batch
  <2>4. /\ stage' \in {"plan", "finish"} /\ result' \in Results
        /\ loop' = [loop EXCEPT !.noops = @ + 1] \/ loop' = [loop EXCEPT !.noops = 0]
    BY <2>1, <2>2, BreakType DEF Noop, Terminations
  <2>5. /\ loop' \in [processed : 0..source.maximum, noops : 0..source.maximum,
                      policyComplete : BOOLEAN]
        /\ loop'.noops <= loop'.processed
    BY <1>1, <1>2, <2>4
  <2>6. EngineTypeOK
    BY DEF EngineFrame
  <2>7. EngineTypeOK'
    BY <2>2, <2>3, <2>4, <2>5, <2>6 DEF EngineTypeOK
  <2> QED
    BY <2>4, <2>5, <2>7 DEF EngineFrame
<1> QED
  BY <1>4, <1>5, <1>6, <1>7

\* A call: it starts, goes on stage by stage, and returns.
LEMMA FrameCall ==
    ASSUME Types, Types', EngineFrame, Execute \/ Executing
    PROVE  EngineFrame'
<1>1. CASE Execute
  <2>1. /\ stage = "batch" /\ batch.left # <<>> /\ Admissible(Current) /\ Start(Current)
        /\ stage' = "call" /\ before' = observation
        /\ UNCHANGED <<source, loop, batch, view, canceled, result>>
    BY <1>1 DEF Execute, Judged
  <2>2. Begins \/ Breaks
    BY <2>1, CurrentType, StartStages DEF EngineFrame, Types
  <2>3. call'.phase # "idle" \/ terminated'
    BY <2>2 DEF Begins, Breaks
  <2>4. observation \in Observation
    BY DEF Types, TypeOK
  <2> QED
    BY <2>1, <2>3, <2>4 DEF EngineFrame, EngineTypeOK
<1>2. CASE Executing
  <2>1. stage = "call" /\ Continue /\ UNCHANGED <<engineVars>>
    BY <1>2 DEF Executing
  <2>2. Proceeds \/ Breaks \/ RecordStep
    BY <2>1, ContinueStages DEF Types
  <2>3. call'.phase = "idle" /\ ~terminated' => trace' # <<>>
    <3>1. CASE Proceeds
      BY <3>1 DEF Proceeds, Ticks, Registers, Processes
    <3>2. CASE Breaks
      BY <3>2 DEF Breaks
    <3>3. CASE RecordStep
      BY <3>3, RecordShape DEF Types
    <3> QED
      BY <2>2, <3>1, <3>2, <3>3
  <2>4. UNCHANGED <<stage, source, loop, batch, view, before, canceled, result>>
    BY <2>1 DEF engineVars, frame
  <2> QED
    BY <2>1, <2>3, <2>4 DEF EngineFrame, EngineTypeOK
<1> QED
  BY <1>1, <1>2

\* The result once a step has been executed, and once it has been mapped.
LEMMA ExecutedType ==
    ASSUME Types, EngineFrame, stage = "call", Returned, ~terminated
    PROVE  /\ [result EXCEPT !.actions = Append(@, Current)] \in Results
           /\ [[result EXCEPT !.actions = Append(@, Current)]
                 EXCEPT !.modelEvents = Append(@, Transition)] \in Results
           /\ Append(batch.executed, Current) \in Seq(ConcreteAction)
<1> DEFINE Event == [before : Observation, action : Action, after : Observation]
<1>1. /\ result \in Results /\ result.actions \in Seq(ConcreteAction)
      /\ result.modelEvents \in Seq(Event) /\ batch.executed \in Seq(ConcreteAction)
  BY DEF EngineFrame, EngineTypeOK, Results, Batch
<1>2. Current \in ConcreteAction
  BY CurrentType DEF EngineFrame
<1>3. Transition \in Event
  <2>1. trace # <<>> /\ trace \in Seq(StepRecord)
    BY DEF EngineFrame, Returned, Types, TypeOK
  <2>2. Len(trace) \in 1..Len(trace)
    BY <2>1, EmptySeq
  <2>3. Last(trace) \in StepRecord
    BY <2>1, <2>2, ElementOfSeq DEF Last
  <2> QED
    BY <2>3 DEF Transition, StepRecord, EngineFrame, EngineTypeOK, Types, TypeOK
<1> HIDE DEF Event
<1>4. /\ Append(result.actions, Current) \in Seq(ConcreteAction)
      /\ Append(batch.executed, Current) \in Seq(ConcreteAction)
      /\ Append(result.modelEvents, Transition) \in Seq(Event)
  BY <1>1, <1>2, <1>3, AppendProperties
<1> QED
  BY <1>1, <1>4 DEF Results, Event

\* The return of Execute, or its refusal.
LEMMA FrameReturn ==
    ASSUME Types, Types', EngineFrame, ExecuteRefused \/ ExecuteFailed \/ ExecuteSucceeded
    PROVE  EngineFrame'
<1>1. result \in Results
  BY DEF EngineFrame, EngineTypeOK
<1>2. CASE ExecuteRefused \/ ExecuteFailed
  <2>1. Capture(result) \in Results
    BY <1>1, CaptureType DEF Types
  <2>2. /\ UNCHANGED <<frame, canceled>>
        /\ \/ Break("runtime_budget", Capture(result))
           \/ Stop("canceled", result) \/ Stop("runtime_failed", result)
    BY <1>2 DEF ExecuteRefused, ExecuteFailed
  <2> QED
    BY <1>1, <2>1, <2>2, Leaves DEF Types, Terminations, Outcomes
<1>3. CASE ExecuteSucceeded
  <2> DEFINE executed == [result EXCEPT !.actions = Append(@, Current)]
             mapped == [executed EXCEPT !.modelEvents = Append(@, Transition)]
  <2>1. /\ stage = "call" /\ Returned /\ ~terminated
        /\ view' = observation
        /\ batch' = [batch EXCEPT !.left = Tail(@), !.executed = Append(@, Current)]
        /\ \/ Stop("mapping_failed", executed) \/ Stop("mapping_failed", mapped)
           \/ Stop("oracle_failed", mapped)
           \/ stage' = "batch" /\ result' = mapped
        /\ UNCHANGED <<source, loop, before, canceled>>
    BY <1>3 DEF ExecuteSucceeded, Returned, ViewAfterStep
  <2>2. executed \in Results /\ mapped \in Results /\ mapped.resolutions = result.resolutions
    BY <2>1, ExecutedType DEF Results
  <2>3. batch' \in Batch /\ observation \in Observation
    <3>1. batch.left # <<>>
      BY <2>1 DEF EngineFrame
    <3> QED
      BY <2>1, <3>1, CurrentType, ExecutedType DEF EngineFrame, EngineTypeOK, Batch, Types, TypeOK
  <2> HIDE DEF executed, mapped
  <2>4. \/ stage' = "ready" /\ result' \in Results
        \/ stage' = "batch" /\ result' \in Results /\ result'.resolutions = result.resolutions
    BY <2>1, <2>2, StopType DEF Types, Outcomes
  <2> QED
    BY <2>1, <2>3, <2>4 DEF EngineFrame, EngineTypeOK
<1> QED
  BY <1>2, <1>3

\* The plan loop ends, the run ends, or its context is cancelled.
LEMMA FrameEnd ==
    ASSUME Types, Types', EngineFrame,
           \/ RunCanceled \/ PlanCanceled \/ PolicyEnds \/ PolicyFails \/ PlanEnds \/ Finish \/ Cancel
    PROVE  EngineFrame'
<1>1. result \in Results
  BY DEF EngineFrame, EngineTypeOK
<1>2. CASE RunCanceled
  <2>1. result' \in Results
    BY <1>2, NewResultType DEF RunCanceled, Results, Outcomes
  <2> QED
    BY <1>2, <2>1 DEF RunCanceled, EngineFrame, EngineTypeOK, frame
<1>3. CASE PlanCanceled \/ PolicyFails
  BY <1>1, <1>3, Leaves DEF PlanCanceled, PolicyFails, Types, Outcomes
<1>4. CASE PolicyEnds \/ PlanEnds
  <2>1. /\ stage' = "finish" /\ UNCHANGED <<source, batch, view, before, canceled, result>>
        /\ loop' = loop \/ loop' = [loop EXCEPT !.policyComplete = TRUE]
    BY <1>4 DEF PolicyEnds, PlanEnds, frame
  <2> QED
    BY <2>1 DEF EngineFrame, EngineTypeOK
<1>5. CASE Finish
  <2> DEFINE ended == [Capture(result) EXCEPT !.termination = Reason,
                         !.budgetExhausted = @ \/ (result.termination = "" /\ Reason = "plan_action_budget"),
                         !.modelExecuted = ModelExecutor]
  <2>1. Reason \in Terminations
    BY <1>1 DEF Reason, Results, Terminations
  <2>2. ended \in Results
    BY <1>1, <2>1, CaptureType, EngineAssumption, ZenonT(30) DEF Types, Results
  <2>3. /\ stage' = "ready" /\ UNCHANGED <<frame, canceled>>
        /\ \E outcome \in Outcomes : result' = [ended EXCEPT !.status = outcome]
    BY <1>5 DEF Finish, Outcomes
  <2> HIDE DEF ended
  <2>4. result' \in Results
    BY <2>2, <2>3 DEF Results
  <2> QED
    BY <2>3, <2>4 DEF EngineFrame, EngineTypeOK, frame
<1>6. CASE Cancel
  BY <1>6 DEF Cancel, EngineFrame, EngineTypeOK, frame, vars, resultVars
<1> QED
  BY <1>2, <1>3, <1>4, <1>5, <1>6

\* Every step of the Engine preserves its frame.
LEMMA FrameStep == Types /\ EngineFrame /\ [EngineNext]_allVars => Types' /\ EngineFrame'
<1> SUFFICES ASSUME Types, EngineFrame, [EngineNext]_allVars PROVE Types' /\ EngineFrame'
  OBVIOUS
<1>1. Types'
  BY RuntimeStep, TypesStep DEF Types
<1>2. ASSUME UNCHANGED allVars PROVE EngineFrame'
  BY <1>2 DEF allVars, engineVars, frame, vars, resultVars, EngineFrame, EngineTypeOK
<1> QED
  BY <1>1, <1>2, FrameBegin, FramePlan, FrameBatch, FrameCall, FrameReturn, FrameEnd
     DEF EngineNext, EngineStep

\* Every field of the Engine and of its results keeps its type, whatever the
\* policy, the profile, the mapper, the oracles and the adapter answer: no
\* counter passes the maximum of the source, no resolution or transition is
\* made of something that was not observed.
THEOREM EngineTypeCorrect == EngineSpec => []EngineTypeOK
<1>1. Types /\ EngineFrame => EngineTypeOK
  BY DEF EngineFrame
<1> QED
  BY <1>1, FrameInit, FrameStep, PTL DEF EngineSpec

\* A run of the Engine drives the Runtime as Runtime allows: Reset when a run
\* begins, Execute for what the profile allows, nothing in between.
THEOREM EngineRunsRuntime == EngineSpec => Spec
<1>1. EngineInit => Init
  BY DEF EngineInit
<1>2. Types /\ EngineFrame /\ [EngineNext]_allVars => [Next]_vars
  BY RuntimeStep DEF Types
<1> QED
  BY <1>1, <1>2, FrameInit, FrameStep, PTL DEF EngineSpec, Spec

----------------------------------------------------------------------------
(* The history a run tells.                                                *)

Event == [before : Observation, action : Action, after : Observation]

InitialState == [time |-> 0, status |-> [n \in Nodes |-> "running"],
                 messages |-> [l \in Links |-> <<>>]]

\* Where the last transition ended.
LastSeen(events) == IF events = <<>> THEN InitialState ELSE events[Len(events)].after

\* The k-th transition is that of the k-th recorded step.
Follows(events, t, k) ==
    /\ events[k].before = IF k > 1 THEN events[k - 1].after ELSE InitialState
    /\ events[k].action = t[k].action
    /\ events[k].before.time = t[k].before /\ events[k].after.time = t[k].after

\* Executed actions and model events are those of the first steps of a trace.
Tells(acts, events, t) ==
    /\ Len(events) <= Len(acts) /\ Len(acts) <= Len(t)
    /\ \A i \in 1..Len(acts) : acts[i].action = t[i].action
    /\ \A k \in 1..Len(events) : Follows(events, t, k)

\* The call in progress is that of the current action in the last state seen;
\* once it has returned its record is the one the result does not have yet.
CallTells ==
    /\ before = LastSeen(result.modelEvents)
    /\ call.phase # "idle" => call.action = Current.action /\ call.before = before.time
    /\ IF call.phase = "idle" /\ ~terminated
       THEN /\ Len(trace) = Len(result.actions) + 1
            /\ trace[Len(trace)].action = Current.action
            /\ trace[Len(trace)].before = before.time
            /\ trace[Len(trace)].after = observation.time
       ELSE Len(trace) = Len(result.actions)

\* The inductive form of HistoryUnbroken.
EngineHistory ==
    /\ Tells(result.actions, result.modelEvents, RunTrace)
    /\ Len(result.actions) - Len(result.modelEvents)
          \in IF result.status = "mapping_failed" THEN {0, 1} ELSE {0}
    /\ stage = "ready" => Len(result.trace) = Len(result.actions)
    /\ stage # "ready" => Len(result.modelEvents) = Len(result.actions)
    /\ stage \in {"plan", "batch", "finish"} => Len(trace) = Len(result.actions)
    /\ stage \in {"plan", "batch"} => observation = LastSeen(result.modelEvents)
    /\ stage = "call" => CallTells

\* The lengths of the three accounts.
LEMMA HistoryTypes ==
    ASSUME TypeOK, EngineFrame
    PROVE  /\ result.actions \in Seq(ConcreteAction) /\ Len(result.actions) \in Nat
           /\ result.modelEvents \in Seq(Event) /\ Len(result.modelEvents) \in Nat
           /\ result.trace \in Seq(StepRecord) /\ Len(result.trace) \in Nat
           /\ trace \in Seq(StepRecord) /\ Len(trace) \in Nat
           /\ RunTrace \in Seq(StepRecord) /\ Len(RunTrace) \in Nat
<1>1. /\ result.actions \in Seq(ConcreteAction) /\ result.modelEvents \in Seq(Event)
      /\ result.trace \in Seq(StepRecord) /\ trace \in Seq(StepRecord)
  BY DEF TypeOK, EngineFrame, EngineTypeOK, Results, Event
<1> QED
  BY <1>1, LenProperties DEF RunTrace

\* The invariant gives the property.
LEMMA HistoryHolds ==
    ASSUME TypeOK, EngineFrame, EngineHistory
    PROVE  HistoryUnbroken
<1>1. /\ DOMAIN result.actions = 1..Len(result.actions)
      /\ DOMAIN result.modelEvents = 1..Len(result.modelEvents)
      /\ DOMAIN RunTrace = 1..Len(RunTrace)
  BY HistoryTypes, LenProperties
<1>2. Tells(result.actions, result.modelEvents, RunTrace)
  BY DEF EngineHistory
<1>3. ActionsFollowTrace
  <2>1. SUFFICES ASSUME stage # "call"
                 PROVE  [i \in DOMAIN result.actions |-> result.actions[i].action]
                      = [i \in DOMAIN RunTrace |-> RunTrace[i].action]
    BY DEF ActionsFollowTrace
  <2>2. Len(result.actions) = Len(RunTrace)
    BY <2>1 DEF EngineHistory, RunTrace, EngineFrame, EngineTypeOK
  <2> QED
    BY <1>1, <1>2, <2>2 DEF Tells
<1>4. TransitionsChain
  <2>1. \A k \in 1..Len(result.modelEvents) : Follows(result.modelEvents, RunTrace, k)
    BY <1>2 DEF Tells
  <2>2. Len(result.actions) - Len(result.modelEvents)
          \in IF result.status = "mapping_failed" THEN {0, 1} ELSE {0}
    BY DEF EngineHistory
  <2> QED
    BY <1>1, <2>1, <2>2 DEF TransitionsChain, Follows, InitialState
<1> QED
  BY <1>3, <1>4 DEF HistoryUnbroken

\* A longer trace tells the same of its first steps.
LEMMA TraceExtends ==
    ASSUME NEW acts, NEW events, NEW t, NEW u, Len(acts) \in Nat, Len(events) \in Nat,
           Len(t) \in Nat, Len(u) \in Nat, Len(t) <= Len(u),
           \A i \in 1..Len(t) : u[i] = t[i], Tells(acts, events, t)
    PROVE  Tells(acts, events, u)
<1>1. /\ \A i \in 1..Len(acts) : i \in 1..Len(t)
      /\ \A i \in 1..Len(events) : i \in 1..Len(t)
  BY DEF Tells
<1>2. /\ \A i \in 1..Len(acts) : u[i] = t[i]
      /\ \A k \in 1..Len(events) : u[k] = t[k]
  BY <1>1
<1>3. \A i \in 1..Len(acts) : acts[i].action = u[i].action
  BY <1>2 DEF Tells
<1>4. \A k \in 1..Len(events) : Follows(events, u, k)
  BY <1>2 DEF Tells, Follows
<1>5. Len(acts) <= Len(u)
  BY DEF Tells
<1> QED
  BY <1>3, <1>4, <1>5 DEF Tells

\* The last step of t is the one c asked for and e describes, and the first
\* that neither the actions nor the transitions have.
NextStep(acts, events, t, c, e) ==
    /\ Tells(acts, events, t) /\ Len(events) = Len(acts) /\ Len(t) = Len(acts) + 1
    /\ c.action = t[Len(t)].action /\ e.action = t[Len(t)].action
    /\ e.before = LastSeen(events)
    /\ e.before.time = t[Len(t)].before /\ e.after.time = t[Len(t)].after

AllSteps(acts, events, t) ==
    /\ Tells(acts, events, t) /\ Len(acts) = Len(t)

\* It joins the actions, and then the transitions.
LEMMA StepTold ==
    ASSUME NEW acts \in Seq(ConcreteAction), NEW events \in Seq(Event), NEW t \in Seq(StepRecord),
           NEW c \in ConcreteAction, NEW e \in Event, NextStep(acts, events, t, c, e)
    PROVE  /\ AllSteps(Append(acts, c), events, t)
           /\ AllSteps(Append(acts, c), Append(events, e), t)
           /\ Len(Append(events, e)) = Len(t) /\ LastSeen(Append(events, e)) = e.after
<1> DEFINE n == Len(acts)
           acts1 == Append(acts, c)
           events1 == Append(events, e)
<1>1. n \in Nat /\ Len(events) = n /\ Len(t) = n + 1
  BY LenProperties DEF NextStep
<1>2. /\ Len(acts1) = n + 1 /\ acts1[n + 1] = c
      /\ \A i \in 1..n : acts1[i] = acts[i]
  BY AppendProperties
<1>3. /\ Len(events1) = n + 1 /\ events1[n + 1] = e /\ events1 # <<>>
      /\ \A i \in 1..n : events1[i] = events[i]
  BY <1>1, AppendProperties
<1>4. events = <<>> <=> n = 0
  BY <1>1, EmptySeq
<1>10. /\ Tells(acts, events, t)
       /\ c.action = t[n + 1].action /\ e.action = t[n + 1].action
       /\ e.before = LastSeen(events)
       /\ e.before.time = t[n + 1].before /\ e.after.time = t[n + 1].after
  BY <1>1 DEF NextStep
<1> HIDE DEF n, acts1, events1
<1>5. \A i \in 1..(n + 1) : acts1[i].action = t[i].action
  <2> TAKE i \in 1..(n + 1)
  <2>1. CASE i \in 1..n
    BY <1>2, <1>10, <2>1 DEF Tells, n
  <2>2. CASE i = n + 1
    BY <1>2, <1>10, <2>2
  <2> QED
    BY <1>1, <2>1, <2>2
<1>6. \A k \in 1..n : Follows(events, t, k)
  BY <1>1, <1>10 DEF Tells
<1>7. \A k \in 1..(n + 1) : Follows(events1, t, k)
  <2> TAKE k \in 1..(n + 1)
  <2>1. CASE k \in 1..n
    <3>1. k > 1 => k - 1 \in 1..n
      BY <1>1, <2>1
    <3> QED
      BY <1>3, <1>6, <2>1, <3>1 DEF Follows
  <2>2. CASE k = n + 1
    <3>1. CASE n = 0
      BY <1>3, <1>4, <1>10, <2>2, <3>1 DEF Follows, LastSeen
    <3>2. CASE n # 0
      <4>1. k > 1 /\ k - 1 = n /\ n \in 1..n
        BY <1>1, <2>2, <3>2
      <4>2. e.before = events[n].after
        BY <1>1, <1>4, <1>10, <3>2 DEF LastSeen
      <4> QED
        BY <1>1, <1>3, <1>10, <2>2, <4>1, <4>2 DEF Follows
    <3> QED
      BY <3>1, <3>2
  <2> QED
    BY <1>1, <2>1, <2>2
<1>8. Tells(acts1, events, t) /\ Tells(acts1, events1, t)
  BY <1>1, <1>2, <1>3, <1>5, <1>6, <1>7 DEF Tells
<1>9. LastSeen(events1) = e.after
  BY <1>3 DEF LastSeen
<1> QED
  BY <1>1, <1>2, <1>3, <1>8, <1>9 DEF n, acts1, events1, AllSteps

\* A run that has only begun tells nothing.
LEMMA HistoryBegins ==
    ASSUME TypeOK', EngineFrame', result'.actions = <<>>, result'.modelEvents = <<>>, result'.trace = <<>>,
           \/ stage' = "ready"
           \/ stage' = "plan" /\ trace' = <<>> /\ observation' = InitialState
    PROVE  EngineHistory'
<1>1. Len(<<>>) = 0
  BY EmptySeq
<1>2. RunTrace' = <<>>
  BY DEF RunTrace
<1> QED
  BY <1>1, <1>2 DEF EngineHistory, Tells, LastSeen

\* Nothing has happened yet.
LEMMA HistoryInit == EngineInit => EngineHistory
<1> SUFFICES ASSUME EngineInit PROVE EngineHistory
  OBVIOUS
<1>1. Len(<<>>) = 0
  BY EmptySeq
<1>2. stage = "ready" /\ result = NewResult
  BY DEF EngineInit
<1>3. /\ result.actions = <<>> /\ result.modelEvents = <<>> /\ result.trace = <<>>
      /\ result.status = "none"
  BY <1>2 DEF NewResult
<1> QED
  BY <1>1, <1>2, <1>3 DEF RunTrace, EngineHistory, Tells

\* Steps that leave the Runtime alone and execute nothing.
LEMMA HistoryCarried ==
    ASSUME TypeOK, EngineFrame, EngineHistory, stage # "ready",
           UNCHANGED <<trace, observation>>, Len(trace) = Len(result.actions),
           result'.actions = result.actions, result'.modelEvents = result.modelEvents,
           \/ stage' = "ready" /\ result'.trace = trace
           \/ stage' = "finish"
           \/ {stage, stage'} \subseteq {"plan", "batch"}
    PROVE  EngineHistory'
<1>1. RunTrace = trace /\ RunTrace' = trace
  BY DEF RunTrace
<1>2. Len(result.actions) \in Nat /\ Len(result.modelEvents) = Len(result.actions)
  BY HistoryTypes DEF EngineHistory
<1>3. Tells(result'.actions, result'.modelEvents, RunTrace')
  BY <1>1 DEF EngineHistory
<1>4. Len(result'.actions) - Len(result'.modelEvents) = 0
  BY <1>2
<1>5. stage' \in {"plan", "batch"} => observation' = LastSeen(result'.modelEvents)
  BY DEF EngineHistory
<1>6. stage' # "call"
  OBVIOUS
<1> QED
  BY <1>2, <1>3, <1>4, <1>5, <1>6 DEF EngineHistory

\* What the steps of the loops do to the history.
LEMMA Unexecuted ==
    ASSUME NEW r, r \in Results
    PROVE  /\ Capture(r).actions = r.actions /\ Capture(r).modelEvents = r.modelEvents
           /\ \A outcome : Stop(outcome, r) =>
                /\ stage' = "ready" /\ result'.trace = trace
                /\ result'.actions = r.actions /\ result'.modelEvents = r.modelEvents
           /\ \A reason : Break(reason, r) =>
                /\ stage' = "finish"
                /\ result'.actions = r.actions /\ result'.modelEvents = r.modelEvents
  BY DEF Capture, Stop, Break, Results

\* Rewriting a resolution changes nothing of the history.
LEMMA MarkedHistory ==
    ASSUME NEW r, result \in Results
    PROVE  Marked(r).actions = result.actions /\ Marked(r).modelEvents = result.modelEvents
  BY DEF Marked, Results

\* Nor do the plan loop,
LEMMA HistoryPlan ==
    ASSUME Types, EngineFrame, EngineHistory,
           \/ PlanCanceled \/ PolicyEnds \/ PolicyFails \/ PlanEnds \/ Finish
           \/ \E p \in PlanActions : Plan(p)
    PROVE  EngineHistory'
<1>1. result \in Results /\ TypeOK
  BY DEF EngineFrame, EngineTypeOK, Types
<1>2. stage \in {"plan", "finish"} /\ UNCHANGED <<trace, observation>>
  BY DEF PlanCanceled, PolicyEnds, PolicyFails, PlanEnds, Finish, Plan, Looping, vars, resultVars
<1>3. Len(trace) = Len(result.actions)
  BY <1>2 DEF EngineHistory
<1>4. CASE PlanCanceled \/ PolicyFails
  BY <1>1, <1>2, <1>3, <1>4, Unexecuted, HistoryCarried DEF PlanCanceled, PolicyFails
<1>5. CASE PolicyEnds \/ PlanEnds
  BY <1>1, <1>2, <1>3, <1>5, HistoryCarried DEF PolicyEnds, PlanEnds
<1>6. CASE Finish
  <2>1. /\ stage' = "ready" /\ result'.trace = trace
        /\ result'.actions = result.actions /\ result'.modelEvents = result.modelEvents
    BY <1>1, <1>6 DEF Finish, Capture, Results
  <2> QED
    BY <1>1, <1>2, <1>3, <2>1, HistoryCarried
<1>7. ASSUME NEW p \in PlanActions, Plan(p) PROVE EngineHistory'
  <2> DEFINE r == Resolve(p, view)
             noted == [result EXCEPT !.resolutions = Append(@, r)]
             counted == [loop EXCEPT !.processed = @ + 1]
  <2>1. stage = "plan" /\ \/ Stop("resolution_failed", noted)
                          \/ Noop(counted, noted)
                          \/ stage' = "batch" /\ result' = noted
    BY <1>7 DEF Plan, Looping
  <2>2. noted \in Results
    <3>1. r \in Resolutions
      BY <1>7, EngineAssumption, ResolveType DEF Plan, EngineFrame, EngineTypeOK
    <3> HIDE DEF r
    <3>2. result.resolutions \in Seq(Resolutions)
      BY <1>1 DEF Results
    <3>3. Append(result.resolutions, r) \in Seq(Resolutions)
      BY <3>1, <3>2, AppendProperties
    <3> QED
      BY <1>1, <3>3 DEF Results
  <2>3. noted.actions = result.actions /\ noted.modelEvents = result.modelEvents
    BY <1>1 DEF Results
  <2> HIDE DEF noted, counted
  <2>4. CASE Stop("resolution_failed", noted)
    BY <1>1, <1>2, <1>3, <2>2, <2>3, <2>4, Unexecuted, HistoryCarried
  <2>5. CASE Noop(counted, noted)
    BY <1>1, <1>2, <1>3, <2>1, <2>2, <2>3, <2>5, Unexecuted, HistoryCarried DEF Noop
  <2>6. CASE stage' = "batch" /\ result' = noted
    BY <1>1, <1>2, <1>3, <2>1, <2>3, <2>6, HistoryCarried
  <2> QED
    BY <2>1, <2>4, <2>5, <2>6
<1> QED
  BY <1>4, <1>5, <1>6, <1>7

\* the loop over a batch,
LEMMA HistoryBatch ==
    ASSUME Types, EngineFrame, EngineHistory,
           ActionInapplicable \/ ModelBoundReached \/ ActionUnsupported \/ BatchEnds \/ ExecuteRefused
    PROVE  EngineHistory'
<1>1. result \in Results /\ TypeOK
  BY DEF EngineFrame, EngineTypeOK, Types
<1>2. stage = "batch" /\ UNCHANGED <<trace, observation>>
  BY DEF ActionInapplicable, ModelBoundReached, ActionUnsupported, BatchEnds, ExecuteRefused, Judged,
         vars, resultVars
<1>3. Len(trace) = Len(result.actions) /\ result.resolutions # <<>>
  BY <1>2 DEF EngineHistory, EngineFrame
<1>4. LastResolution \in Resolutions /\ batch.executed \in Seq(ConcreteAction)
  BY <1>1, <1>3, LastResolutionType DEF EngineFrame, EngineTypeOK, Batch
<1>5. CASE ActionInapplicable
  BY <1>1, <1>2, <1>3, <1>5, HistoryCarried DEF ActionInapplicable
<1>6. CASE ModelBoundReached \/ ActionUnsupported
  <2>1. PICK r \in Resolutions :
          \/ Break("model_bound_reached", Marked(r))
          \/ Stop("unsupported_by_model", Marked(r))
    BY <1>4, <1>6, MarkType DEF ModelBoundReached, ActionUnsupported
  <2>2. /\ Marked(r) \in Results
        /\ Marked(r).actions = result.actions /\ Marked(r).modelEvents = result.modelEvents
    BY <1>1, <1>3, MarkedType, MarkedHistory
  <2> QED
    BY <1>1, <1>2, <1>3, <2>1, <2>2, Unexecuted, HistoryCarried
<1>7. CASE BatchEnds
  <2> DEFINE noted == IF batch.inapplicable
                      THEN Marked(MarkInapplicable(LastResolution, batch.executed)) ELSE result
  <2>1. noted \in Results
    BY <1>1, <1>3, <1>4, MarkType, MarkedType
  <2>2. noted.actions = result.actions /\ noted.modelEvents = result.modelEvents
    BY <1>1, MarkedHistory
  <2>3. Noop(loop, noted) \/ (stage' = "plan" /\ result' = noted)
    BY <1>7 DEF BatchEnds
  <2> HIDE DEF noted
  <2>4. CASE Noop(loop, noted)
    BY <1>1, <1>2, <1>3, <2>1, <2>2, <2>4, Unexecuted, HistoryCarried DEF Noop
  <2>5. CASE stage' = "plan" /\ result' = noted
    BY <1>1, <1>2, <1>3, <2>2, <2>5, HistoryCarried
  <2> QED
    BY <2>3, <2>4, <2>5
<1>8. CASE ExecuteRefused
  <2>1. Capture(result) \in Results
    BY <1>1, CaptureType
  <2>2. \/ Break("runtime_budget", Capture(result))
        \/ Stop("canceled", result) \/ Stop("runtime_failed", result)
    BY <1>8 DEF ExecuteRefused
  <2>3. /\ \/ stage' = "ready" /\ result'.trace = trace
           \/ stage' = "finish"
        /\ result'.actions = result.actions /\ result'.modelEvents = result.modelEvents
    BY <1>1, <2>1, <2>2, Unexecuted
  <2> QED
    BY <1>1, <1>2, <1>3, <2>3, HistoryCarried
<1> QED
  BY <1>5, <1>6, <1>7, <1>8

\* the stages of a call: each is told as far as it has come,
LEMMA HistoryCall ==
    ASSUME Types, EngineFrame, EngineHistory, ObservationFresh, StoppedIdle, Execute \/ Executing
    PROVE  EngineHistory'
<1>1. TypeOK /\ Len(trace) \in Nat /\ Len(result.actions) \in Nat
  BY HistoryTypes DEF Types
<1>2. CASE Execute
  <2>1. /\ stage = "batch" /\ batch.left # <<>> /\ Admissible(Current) /\ Start(Current)
        /\ stage' = "call" /\ before' = observation
        /\ UNCHANGED <<source, loop, batch, view, canceled, result>>
    BY <1>2 DEF Execute, Judged
  <2>2. (Begins \/ Breaks) /\ (call'.phase # "idle" => call'.action = Current.action)
    BY <1>1, <2>1, CurrentType, StartStages DEF EngineFrame
  <2>3. trace' = trace /\ (call'.phase = "idle" => terminated')
    BY <2>2 DEF Begins, Breaks, resultVars
  <2>4. call'.phase # "idle" => call'.before = observation.time
    <3>1. ASSUME call'.phase # "idle" PROVE call'.before = observation.time
      <4>1. Begins
        BY <2>2, <3>1 DEF Breaks
      <4>2. Ready /\ call'.before = time
        BY <4>1 DEF Begins, Admitted
      <4> QED
        BY <4>2 DEF ObservationFresh, Observed
    <3> QED
      BY <3>1
  <2>5. /\ RunTrace = trace /\ RunTrace' = trace /\ Current' = Current
        /\ Len(trace) = Len(result.actions) /\ observation = LastSeen(result.modelEvents)
    BY <2>1, <2>3 DEF RunTrace, Current, EngineHistory
  <2>6. CallTells'
    BY <2>1, <2>2, <2>3, <2>4, <2>5 DEF CallTells
  <2> QED
    BY <2>1, <2>5, <2>6 DEF EngineHistory
<1>3. CASE Executing
  <2>1. /\ stage = "call" /\ Continue
        /\ UNCHANGED <<stage, source, loop, batch, view, before, canceled, result>>
    BY <1>3 DEF Executing, engineVars, frame
  <2>2. call.phase # "idle"
    BY <2>1 DEF Continue, Tick, TickFails, RegisterOutbound, EffectsProcessed, RecordStep,
                ObserveFails, AppendRejected
  <2>3. /\ CallTells /\ call.action = Current.action /\ call.before = before.time
        /\ Len(trace) = Len(result.actions) /\ RunTrace = trace /\ RunTrace' = trace'
        /\ Current' = Current
    BY <2>1, <2>2 DEF EngineHistory, CallTells, RunTrace, Current
  <2>4. CASE Proceeds \/ Breaks
    <3>1. /\ trace' = trace /\ (call'.phase = "idle" => terminated')
          /\ call'.phase # "idle" => call'.action = call.action /\ call'.before = call.before
      BY <2>4 DEF Proceeds, Breaks, Ticks, Registers, Processes, resultVars
    <3>2. CallTells'
      BY <2>1, <2>3, <3>1 DEF CallTells
    <3> QED
      BY <2>1, <2>3, <3>1, <3>2 DEF EngineHistory
  <2>5. CASE RecordStep
    <3>1. /\ Len(trace') = Len(trace) + 1
          /\ \A k \in 1..Len(trace) : trace'[k] = trace[k]
          /\ trace'[Len(trace')].action = call.action
          /\ trace'[Len(trace')].before = call.before
          /\ trace'[Len(trace')].after = time
      BY <1>1, <2>5, RecordShape
    <3>2. call'.phase = "idle" /\ observation'.time = time
      BY <2>5, FrameType DEF RecordStep, Observed
    <3>3. Len(trace') = Len(result.actions) + 1
      BY <2>3, <3>1
    <3>4. Tells(result.actions, result.modelEvents, trace')
      BY <1>1, <2>3, <3>1, HistoryTypes, TraceExtends, SMTT(30) DEF EngineHistory
    <3>5. CallTells'
      <4>1. ~terminated'
        BY <2>2, <2>5 DEF StoppedIdle, RecordStep
      <4> QED
        BY <2>1, <2>3, <3>1, <3>2, <3>3, <4>1 DEF CallTells
    <3> QED
      BY <2>1, <2>3, <3>4, <3>5 DEF EngineHistory
  <2> QED
    BY <1>1, <2>1, <2>4, <2>5, ContinueStages
<1> QED
  BY <1>2, <1>3

\* and its return takes the recorded step over.
LEMMA HistoryReturn ==
    ASSUME Types, EngineFrame, EngineHistory, ExecuteFailed \/ ExecuteSucceeded
    PROVE  EngineHistory'
<1>1. result \in Results /\ TypeOK
  BY DEF EngineFrame, EngineTypeOK, Types
<1>2. stage = "call" /\ Returned /\ CallTells /\ UNCHANGED <<trace, observation>>
  BY DEF ExecuteFailed, ExecuteSucceeded, Returned, EngineHistory, vars, resultVars
<1>3. CASE ExecuteFailed
  <2>1. terminated /\ Len(trace) = Len(result.actions)
    BY <1>2, <1>3 DEF ExecuteFailed, CallTells
  <2>2. Capture(result) \in Results
    BY <1>1, CaptureType
  <2>3. \/ Break("runtime_budget", Capture(result))
        \/ Stop("canceled", result) \/ Stop("runtime_failed", result)
    BY <1>3 DEF ExecuteFailed
  <2>4. /\ \/ stage' = "ready" /\ result'.trace = trace
           \/ stage' = "finish"
        /\ result'.actions = result.actions /\ result'.modelEvents = result.modelEvents
    BY <1>1, <2>2, <2>3, Unexecuted
  <2> QED
    BY <1>1, <1>2, <2>1, <2>4, HistoryCarried
<1>4. CASE ExecuteSucceeded
  <2> DEFINE acts == result.actions
             events == result.modelEvents
             executed == [result EXCEPT !.actions = Append(@, Current)]
             mapped == [executed EXCEPT !.modelEvents = Append(@, Transition)]
  <2>1. /\ ~terminated
        /\ \/ Stop("mapping_failed", executed) \/ Stop("mapping_failed", mapped)
           \/ Stop("oracle_failed", mapped)
           \/ stage' = "batch" /\ result' = mapped
    BY <1>4 DEF ExecuteSucceeded
  <2>2. /\ acts \in Seq(ConcreteAction) /\ events \in Seq(Event) /\ trace \in Seq(StepRecord)
        /\ Len(acts) \in Nat /\ Len(events) \in Nat /\ Len(trace) \in Nat
    BY <1>1, HistoryTypes
  <2>3. /\ Len(trace) = Len(acts) + 1 /\ Len(events) = Len(acts)
        /\ trace[Len(trace)].action = Current.action
        /\ trace[Len(trace)].before = before.time /\ trace[Len(trace)].after = observation.time
        /\ before = LastSeen(events) /\ Tells(acts, events, trace)
    BY <1>2, <2>1 DEF CallTells, Returned, EngineHistory, RunTrace
  <2>4. Current \in ConcreteAction
    BY <1>2, CurrentType DEF EngineFrame
  <2>5. /\ Transition \in Event /\ Transition.before = before /\ Transition.after = observation
        /\ Transition.action = trace[Len(trace)].action
    <3>1. Len(trace) \in 1..Len(trace)
      BY <2>2, <2>3
    <3>2. trace[Len(trace)] \in StepRecord
      BY <2>2, <3>1, ElementOfSeq
    <3> QED
      BY <1>1, <3>2 DEF Transition, Last, Event, StepRecord, EngineFrame, EngineTypeOK, TypeOK
  <2>6. /\ Tells(Append(acts, Current), events, trace) /\ Len(Append(acts, Current)) = Len(trace)
        /\ Tells(Append(acts, Current), Append(events, Transition), trace)
        /\ Len(Append(events, Transition)) = Len(trace)
        /\ LastSeen(Append(events, Transition)) = observation
    <3> DEFINE c == Current
               e == Transition
    <3>1. /\ c \in ConcreteAction /\ e \in Event /\ e.after = observation
          /\ NextStep(acts, events, trace, c, e)
      BY <2>3, <2>4, <2>5 DEF NextStep
    <3> HIDE DEF acts, events, c, e
    <3>2. /\ AllSteps(Append(acts, c), events, trace)
          /\ AllSteps(Append(acts, c), Append(events, e), trace)
          /\ Len(Append(events, e)) = Len(trace) /\ LastSeen(Append(events, e)) = e.after
      BY <2>2, <3>1, StepTold
    <3> QED
      BY <3>1, <3>2 DEF c, e, AllSteps
  <2>7. /\ executed \in Results /\ mapped \in Results
        /\ executed.actions = Append(acts, Current) /\ executed.modelEvents = events
        /\ mapped.actions = Append(acts, Current) /\ mapped.modelEvents = Append(events, Transition)
    BY <1>1, <1>2, <2>1, ExecutedType DEF Results
  <2> HIDE DEF acts, events, executed, mapped
  <2>8. CASE Stop("mapping_failed", executed)
    <3>1. /\ stage' = "ready" /\ result'.trace = trace /\ RunTrace' = trace
          /\ result'.actions = executed.actions /\ result'.modelEvents = executed.modelEvents
      BY <2>7, <2>8, Unexecuted DEF RunTrace
    <3>2. result'.status = "mapping_failed"
      BY <2>7, <2>8, CaptureType, <1>1 DEF Stop, Results
    <3> QED
      BY <2>2, <2>3, <2>6, <2>7, <3>1, <3>2 DEF EngineHistory
  <2>9. CASE Stop("mapping_failed", mapped) \/ Stop("oracle_failed", mapped)
    <3>1. /\ stage' = "ready" /\ result'.trace = trace /\ RunTrace' = trace
          /\ result'.actions = mapped.actions /\ result'.modelEvents = mapped.modelEvents
      BY <2>7, <2>9, Unexecuted DEF RunTrace
    <3> QED
      BY <2>2, <2>3, <2>6, <2>7, <3>1 DEF EngineHistory
  <2>10. CASE stage' = "batch" /\ result' = mapped
    <3>1. RunTrace' = trace
      BY <1>2, <2>10 DEF RunTrace
    <3>2. /\ result'.actions = Append(acts, Current)
          /\ result'.modelEvents = Append(events, Transition)
          /\ trace' = trace /\ observation' = observation
      BY <1>2, <2>7, <2>10
    <3>3. /\ Tells(result'.actions, result'.modelEvents, RunTrace')
          /\ Len(result'.actions) = Len(trace') /\ Len(result'.modelEvents) = Len(trace')
          /\ observation' = LastSeen(result'.modelEvents)
      BY <2>6, <3>1, <3>2
    <3>4. Len(result'.actions) - Len(result'.modelEvents) = 0
      BY <2>2, <3>2, <3>3
    <3> QED
      BY <2>10, <3>3, <3>4 DEF EngineHistory
  <2> QED
    BY <2>1, <2>8, <2>9, <2>10
<1> QED
  BY <1>3, <1>4

\* Every step of the Engine keeps the history unbroken.
LEMMA HistoryStep ==
    Types /\ EngineFrame /\ EngineHistory /\ ObservationFresh /\ StoppedIdle /\ [EngineNext]_allVars
        => EngineHistory'
<1> SUFFICES ASSUME Types, EngineFrame, EngineHistory, ObservationFresh, StoppedIdle,
                    [EngineNext]_allVars
             PROVE  EngineHistory'
  OBVIOUS
<1>1. Types' /\ EngineFrame'
  BY FrameStep
<1>2. ASSUME NEW s \in Sources, Begin(s) \/ BeginFails(s) PROVE EngineHistory'
  <2>1. result'.actions = <<>> /\ result'.modelEvents = <<>> /\ result'.trace = <<>>
    <3>1. NewResult.actions = <<>> /\ NewResult.modelEvents = <<>> /\ NewResult.trace = <<>>
      BY DEF NewResult
    <3>2. CASE Begin(s)
      BY <3>1, <3>2, NewResultType DEF Begin, Results
    <3>3. CASE BeginFails(s)
      <4>1. \E outcome : result' = [NewResult EXCEPT !.failure = failure', !.status = outcome]
        BY <3>3 DEF BeginFails
      <4> QED
        BY <3>1, <4>1, NewResultType DEF Results
    <3> QED
      BY <1>2, <3>2, <3>3
  <2>2. \/ stage' = "ready"
        \/ stage' = "plan" /\ trace' = <<>> /\ observation' = InitialState
    BY <1>2 DEF Begin, BeginFails, Reset, ClearRuntime, InitialState
  <2> QED
    BY <1>1, <2>1, <2>2, HistoryBegins DEF Types
<1>3. CASE RunCanceled
  <2>1. result'.actions = <<>> /\ result'.modelEvents = <<>> /\ result'.trace = <<>> /\ stage' = "ready"
    BY <1>3 DEF RunCanceled, NewResult
  <2> QED
    BY <1>1, <2>1, HistoryBegins DEF Types
<1>4. CASE Cancel \/ UNCHANGED allVars
  <2>1. UNCHANGED <<stage, batch, before, result, trace, observation, call, terminated>>
    BY <1>4 DEF Cancel, allVars, engineVars, frame, vars, resultVars
  <2> QED
    BY <2>1 DEF EngineHistory, CallTells, RunTrace, Current
<1> QED
  BY <1>2, <1>3, <1>4, HistoryPlan, HistoryBatch, HistoryCall, HistoryReturn DEF EngineNext, EngineStep

\* Outside Execute, and in every result, executed actions, trace and model
\* events (Engine.executeConcrete) tell one unbroken history, but for a last
\* step whose mapping failed: whatever fails, and wherever it fails.
THEOREM HistoryCorrect == EngineSpec => []HistoryUnbroken
<1>1. EngineInit => Types /\ EngineFrame /\ StoppedIdle /\ ObservationFresh /\ EngineHistory
  BY FrameInit, CallInit, HistoryInit DEF EngineInit
<1>2. Types /\ EngineFrame /\ StoppedIdle /\ ObservationFresh /\ EngineHistory /\ [EngineNext]_allVars
        => Types' /\ EngineFrame' /\ StoppedIdle' /\ ObservationFresh' /\ EngineHistory'
  BY FrameStep, HistoryStep, RuntimeStep, CallStep DEF Types
<1>3. Types /\ EngineFrame /\ EngineHistory => HistoryUnbroken
  BY HistoryHolds DEF Types
<1> QED
  BY <1>1, <1>2, <1>3, PTL DEF EngineSpec

----------------------------------------------------------------------------
(* What is left of a batch can be executed.                                *)

\* Where the message of the i-th action left is: deliveries and drops still to
\* come before it will have moved it up to the place the Resolver computed.
PlaceNow(c, i) == IF c.action.kind = "duplicate" THEN c.at[2] ELSE c.at[2] + i - 1

\* In the queues q, the message of every action left is where its turn will
\* find it, and its member is in the state the action needs.
Stands(left, q, members) ==
    \A i \in 1..Len(left) :
        LET c == left[i] IN
        /\ c.action.kind \in MessageKinds =>
              /\ PlaceNow(c, i) \in 1..Len(q[c.at[1]])
              /\ q[c.at[1]][PlaceNow(c, i)].id = c.action.message
        /\ c.action.kind = "deliver" => members[c.at[1][2]] = "running"
        /\ c.action.kind \in NodeKinds =>
              members[c.action.node] = IF c.action.kind = "restart" THEN "crashed" ELSE "running"

\* Only messages come in batches, and a batch is of one kind, on one link;
\* what is delivered or dropped is always taken from the same place.
OneBatch(left) ==
    /\ \A i, j \in 1..Len(left) :
          /\ left[i].action.kind = left[j].action.kind
          /\ left[i].action.kind \in {"deliver", "drop"} => left[i].at = left[j].at
    /\ Len(left) > 1 => \A i \in 1..Len(left) : left[i].action.kind \in MessageKinds

AllCapabilities == \A kind \in NodeKinds : RequiredCapability[kind] \in Capabilities

\* The inductive form of ResolvedActionsAccepted.
BatchStands ==
    /\ stage \in {"plan", "batch"} => Ready /\ view = observation
    /\ stage = "batch" => OneBatch(batch.left) /\ Stands(batch.left, queues, status)
    /\ stage = "call" => /\ initialized /\ OneBatch(batch.left)
                         /\ ~terminated => Stands(Tail(batch.left), queues, status)
    /\ stage = "ready" /\ result.status = "runtime_failed" /\ AllCapabilities => terminated

\* Queues to which messages have been appended.
Grown(q, q1) ==
    \A l \in Links : Len(q[l]) <= Len(q1[l]) /\ \A i \in 1..Len(q[l]) : q1[l][i] = q[l][i]

\* An empty batch stands.
LEMMA NothingLeft ==
    ASSUME NEW q, NEW members
    PROVE  OneBatch(<<>>) /\ Stands(<<>>, q, members)
<1>1. Len(<<>>) = 0
  BY EmptySeq
<1> QED
  BY <1>1 DEF OneBatch, Stands

\* The rest of a batch is a batch.
LEMMA BatchTail ==
    ASSUME NEW left \in Seq(ConcreteAction), left # <<>>, OneBatch(left)
    PROVE  /\ OneBatch(Tail(left))
           /\ Len(left) \in Nat \ {0} /\ Head(left) = left[1]
           /\ Len(Tail(left)) = Len(left) - 1
           /\ \A i \in 1..Len(Tail(left)) : i + 1 \in 1..Len(left) /\ Tail(left)[i] = left[i + 1]
           /\ Head(left).action.kind \notin MessageKinds => Tail(left) = <<>>
<1>1. /\ Tail(left) \in Seq(ConcreteAction) /\ Len(Tail(left)) = Len(left) - 1
      /\ \A i \in 1..Len(Tail(left)) : Tail(left)[i] = left[i + 1]
  BY HeadTailProperties
<1>2. Len(left) \in Nat \ {0}
  BY EmptySeq
<1>3. \A i \in 1..Len(Tail(left)) : i + 1 \in 1..Len(left)
  BY <1>1, <1>2
<1>4. OneBatch(Tail(left))
  BY <1>1, <1>2, <1>3 DEF OneBatch
<1>5. Head(left) = left[1]
  OBVIOUS
<1>6. Head(left).action.kind \notin MessageKinds => Tail(left) = <<>>
  <2>1. ASSUME Tail(left) # <<>> PROVE Len(left) > 1
    <3>1. Len(Tail(left)) \in Nat \ {0}
      BY <1>1, <2>1, EmptySeq
    <3> QED
      BY <1>1, <1>2, <3>1
  <2> QED
    BY <1>2, <1>5, <2>1 DEF OneBatch
<1> QED
  BY <1>1, <1>2, <1>3, <1>4, <1>5, <1>6

\* Messages appended behind leave every place as it was.
LEMMA StandsGrown ==
    ASSUME NEW left \in Seq(ConcreteAction), NEW q \in [Links -> Seq(Message)],
           NEW q1 \in [Links -> Seq(Message)], NEW members, Grown(q, q1), Stands(left, q, members)
    PROVE  Stands(left, q1, members)
<1>1. SUFFICES ASSUME NEW i \in 1..Len(left), left[i].action.kind \in MessageKinds
               PROVE  /\ PlaceNow(left[i], i) \in 1..Len(q1[left[i].at[1]])
                      /\ q1[left[i].at[1]][PlaceNow(left[i], i)].id = left[i].action.message
  BY DEF Stands
<1> DEFINE l == left[i].at[1]
           p == PlaceNow(left[i], i)
<1>2. p \in 1..Len(q[l]) /\ q[l][p].id = left[i].action.message
  BY <1>1 DEF Stands
<1>3. left[i] \in ConcreteAction
  BY ElementOfSeq
<1>4. l \in Links
  BY <1>1, <1>3 DEF ConcreteAction, MessageKinds, NodeKinds
<1> HIDE DEF l, p
<1>5. Len(q[l]) \in Nat /\ Len(q1[l]) \in Nat
  BY <1>4, LenProperties
<1>6. p \in 1..Len(q1[l]) /\ q1[l][p] = q[l][p]
  <2>1. Len(q[l]) <= Len(q1[l]) /\ \A j \in 1..Len(q[l]) : q1[l][j] = q[l][j]
    BY <1>4 DEF Grown
  <2> QED
    BY <1>2, <1>5, <2>1
<1> QED
  BY <1>2, <1>6 DEF l, p

\* Delivering or dropping the first message of a batch moves up the others.
LEMMA StandsTaken ==
    ASSUME NEW left \in Seq(ConcreteAction), left # <<>>, OneBatch(left),
           NEW q \in [Links -> Seq(Message)], NEW members, Stands(left, q, members),
           Head(left).action.kind \in {"deliver", "drop"},
           NEW q1, q1 = [q EXCEPT ![Head(left).at[1]] = RemoveAt(@, Head(left).at[2])]
    PROVE  Stands(Tail(left), q1, members)
<1> DEFINE l == Head(left).at[1]
           p == Head(left).at[2]
<1>1. /\ Len(left) \in Nat \ {0} /\ Head(left) = left[1]
      /\ Len(Tail(left)) = Len(left) - 1
      /\ \A i \in 1..Len(Tail(left)) : i + 1 \in 1..Len(left) /\ Tail(left)[i] = left[i + 1]
  BY BatchTail
<1>2. Head(left) \in ConcreteAction
  BY HeadTailProperties
<1>3. l \in Links /\ p \in Nat \ {0}
  BY <1>2 DEF ConcreteAction, MessageKinds, NodeKinds
<1>4. q[l] \in Seq(Message) /\ Len(q[l]) \in Nat
  BY <1>3, LenProperties
<1>5. p \in 1..Len(q[l])
  <2>1. PlaceNow(left[1], 1) \in 1..Len(q[left[1].at[1]])
    BY <1>1 DEF Stands, MessageKinds
  <2> QED
    BY <1>1, <1>3, <1>4, <2>1 DEF PlaceNow
<1>6. /\ Len(q1[l]) = Len(q[l]) - 1
      /\ \A i \in 1..(Len(q[l]) - 1) : q1[l][i] = q[l][IF i < p THEN i ELSE i + 1]
  <2>1. q1[l] = RemoveAt(q[l], p)
    BY <1>3
  <2> HIDE DEF l, p
  <2> QED
    BY <1>4, <1>5, <2>1, RemoveAtProperties, SMTT(30)
<1>7. SUFFICES ASSUME NEW i \in 1..Len(Tail(left))
               PROVE  LET c == Tail(left)[i] IN
                      /\ c.action.kind \in MessageKinds =>
                            /\ PlaceNow(c, i) \in 1..Len(q1[c.at[1]])
                            /\ q1[c.at[1]][PlaceNow(c, i)].id = c.action.message
                      /\ c.action.kind = "deliver" => members[c.at[1][2]] = "running"
                      /\ c.action.kind \notin NodeKinds
  BY DEF Stands
<1> DEFINE c == left[i + 1]
<1>8. c = Tail(left)[i] /\ i \in Nat \ {0} /\ i + 1 \in 1..Len(left) /\ 1 \in 1..Len(left)
  BY <1>1
<1>9. c.action.kind = Head(left).action.kind /\ c.at[1] = l /\ c.at[2] = p
  BY <1>1, <1>8 DEF OneBatch
<1>10. /\ PlaceNow(c, i + 1) \in 1..Len(q[l]) /\ q[l][PlaceNow(c, i + 1)].id = c.action.message
       /\ c.action.kind = "deliver" => members[c.at[1][2]] = "running"
  BY <1>8, <1>9 DEF Stands, MessageKinds
<1> HIDE DEF c, l, p
<1>11. PlaceNow(c, i + 1) = p + i /\ PlaceNow(c, i) = p + i - 1
  <2>1. c.action.kind # "duplicate"
    BY <1>9
  <2>2. PlaceNow(c, i + 1) = c.at[2] + (i + 1) - 1 /\ PlaceNow(c, i) = c.at[2] + i - 1
    BY <2>1 DEF PlaceNow
  <2>3. p \in Nat /\ i \in Nat
    BY <1>3, <1>8
  <2> QED
    BY <1>9, <2>2, <2>3
<1>12. p + i - 1 \in 1..(Len(q[l]) - 1) /\ q1[l][p + i - 1] = q[l][p + i]
  BY <1>3, <1>4, <1>6, <1>8, <1>10, <1>11, SMTT(30)
<1> QED
  BY <1>6, <1>8, <1>9, <1>10, <1>11, <1>12, ZenonT(30) DEF NodeKinds

\* A duplicate leaves every message in its place.
LEMMA StandsCopied ==
    ASSUME NEW left \in Seq(ConcreteAction), left # <<>>, OneBatch(left),
           NEW q, NEW members, Stands(left, q, members), Head(left).action.kind = "duplicate"
    PROVE  Stands(Tail(left), q, members)
<1>1. /\ Len(left) \in Nat \ {0} /\ Head(left) = left[1]
      /\ \A i \in 1..Len(Tail(left)) : i + 1 \in 1..Len(left) /\ Tail(left)[i] = left[i + 1]
  BY BatchTail
<1>2. \A i \in 1..Len(left) : left[i].action.kind = "duplicate"
  BY <1>1 DEF OneBatch
<1> QED
  BY <1>1, <1>2 DEF Stands, PlaceNow, MessageKinds, NodeKinds

\* What a resolution asks for stands in the observation it is made from.
LEMMA ResolutionStands ==
    ASSUME NEW p \in PlanAction, NEW obs \in Observation, Resolve(p, obs).actions # <<>>,
           p.kind = "advance_ticks" => obs.time + p.ticks <= MaxTime
    PROVE  /\ OneBatch(Resolve(p, obs).actions)
           /\ Stands(Resolve(p, obs).actions, obs.messages, obs.status)
<1> DEFINE acts == Resolve(p, obs).actions
<1>1. CASE p.kind \in MessageKinds
  <2> DEFINE queue == obs.messages[p.link]
  <2>1. acts \in Seq(ConcreteAction)
    BY <1>1, MessagesResolved DEF Resolutions
  <2>2. p.kind = "deliver" => obs.status[p.link[2]] = "running"
    BY <1>1, MessagesResolved
  <2>3. PICK start \in Nat \ {0} :
          /\ start + Len(acts) - 1 <= Len(queue)
          /\ \A i \in 1..Len(acts) :
               /\ acts[i].action = MessageAction(p.kind, queue[start + i - 1])
               /\ acts[i].at = <<p.link, PlaceInBatch(p.kind, start, i)>>
    BY <1>1, MessagesResolved
  <2>4. Len(acts) \in Nat /\ Len(queue) \in Nat
    <3>1. p.link \in Links
      BY <1>1 DEF PlanAction, MessageKinds, NodeKinds
    <3>2. queue \in Seq(Message)
      BY <3>1 DEF Observation
    <3> QED
      BY <2>1, <3>2, LenProperties
  <2> HIDE DEF acts, queue
  <2>5. \A i \in 1..Len(acts) :
          /\ acts[i].action.kind = p.kind /\ acts[i].action.message = queue[start + i - 1].id
          /\ acts[i].at[1] = p.link /\ acts[i].at[2] = PlaceInBatch(p.kind, start, i)
    <3> TAKE i \in 1..Len(acts)
    <3>1. /\ acts[i].action = MessageAction(p.kind, queue[start + i - 1])
          /\ acts[i].at = <<p.link, PlaceInBatch(p.kind, start, i)>>
      BY <2>3
    <3> QED
      BY <3>1 DEF MessageAction
  <2>6. OneBatch(acts)
    BY <1>1, <2>3, <2>5 DEF OneBatch, PlaceInBatch
  <2>7. \A i \in 1..Len(acts) : PlaceNow(acts[i], i) = start + i - 1
    BY <2>4, <2>5 DEF PlaceNow, PlaceInBatch
  <2>8. \A i \in 1..Len(acts) : start + i - 1 \in 1..Len(queue)
    BY <2>3, <2>4
  <2>9. p.kind \notin NodeKinds
    BY <1>1 DEF MessageKinds, NodeKinds
  <2>10. Stands(acts, obs.messages, obs.status)
    BY <2>2, <2>5, <2>7, <2>8, <2>9 DEF Stands, queue
  <2> QED
    BY <2>6, <2>10 DEF acts
<1>2. CASE p.kind = "advance_ticks"
  <2> DEFINE c == [action |-> AdvanceAction(obs.time + p.ticks), at |-> <<>>]
  <2>1. acts = <<c>>
    BY <1>2, TicksResolved
  <2>2. c.action.kind = "advance_time"
    BY DEF AdvanceAction
  <2> HIDE DEF acts, c
  <2>3. Len(acts) = 1 /\ acts[1].action.kind = "advance_time"
    BY <2>1, <2>2, SMTT(30)
  <2> QED
    BY <2>3 DEF OneBatch, Stands, MessageKinds, NodeKinds, acts
<1>3. CASE p.kind \in NodeKinds
  <2>1. /\ acts = <<[action |-> NodeAction(p.kind, p.node), at |-> <<>>]>>
        /\ obs.status[p.node] = IF p.kind = "restart" THEN "crashed" ELSE "running"
    BY <1>3, NodeResolved
  <2> HIDE DEF acts
  <2>2. Len(acts) = 1 /\ acts[1].action.kind = p.kind /\ acts[1].action.node = p.node
    BY <2>1 DEF NodeAction
  <2> QED
    BY <1>3, <2>1, <2>2 DEF OneBatch, Stands, MessageKinds, NodeKinds, acts
<1> QED
  BY <1>1, <1>2, <1>3 DEF PlanAction

\* A call in progress only appends messages, and members keep their state.
LEMMA ContinueGrows ==
    ASSUME TypeOK, Continue
    PROVE  Grown(queues, queues') /\ status' = status
<1>1. \A l \in Links : Len(queues[l]) \in Nat
  BY LenProperties DEF TypeOK
<1>2. Grown(queues, queues)
  BY <1>1 DEF Grown
<1>3. ASSUME NEW b \in Batches, Tick(b) PROVE queues' = queues /\ status' = status
  BY <1>3 DEF Tick, ProcessAdapterEffects
<1>4. CASE RegisterOutbound
  <2>1. status' = status
    BY <1>4 DEF RegisterOutbound
  <2>2. PICK l \in Links : (Register(l, 0) /\ ~IdentitiesExhausted(l)) \/ queues' = queues
    <3>1. call.outbox \in Seq(Links) /\ call.outbox # <<>>
      BY <1>4 DEF RegisterOutbound, TypeOK, CallFrame
    <3>2. Head(call.outbox) \in Links
      BY <3>1, HeadTailProperties
    <3> QED
      BY <1>4, <3>2 DEF RegisterOutbound, networkVars
  <2>3. CASE Register(l, 0) /\ ~IdentitiesExhausted(l)
    <3>1. 0 \in IDs
      BY BoundsAssumption DEF IDs
    <3>2. /\ \A k \in Links \ {l} : queues'[k] = queues[k]
          /\ Len(queues[l]) \in Nat /\ Len(queues'[l]) = Len(queues[l]) + 1
          /\ \A i \in 1..Len(queues[l]) : queues'[l][i] = queues[l][i]
      BY <2>3, <3>1, RegistrationShape
    <3> QED
      BY <1>1, <2>1, <3>2 DEF Grown
  <2> QED
    BY <1>2, <2>1, <2>2, <2>3
<1>5. CASE TickFails \/ EffectsProcessed \/ RecordStep \/ ObserveFails \/ AppendRejected
  BY <1>2, <1>5 DEF TickFails, EffectsProcessed, RecordStep, ObserveFails, AppendRejected, networkVars
<1> QED
  BY <1>2, <1>3, <1>4, <1>5 DEF Continue

\* What the first stage of a call on a message does to the network.
LEMMA StartMoves ==
    ASSUME TypeOK, NEW c \in ConcreteAction, c.action.kind \in MessageKinds, Start(c), ~terminated'
    PROVE  /\ status' = status
           /\ c.action.kind \in {"deliver", "drop"} => queues' = Without(c.at[1], c.at[2])
           /\ c.action.kind = "duplicate" => Grown(queues, queues')
<1> DEFINE l == c.at[1]
           p == c.at[2]
           kind == c.action.kind
<1>1. l \in Links /\ kind \notin NodeKinds /\ kind # "advance_time"
  BY DEF ConcreteAction, MessageKinds, NodeKinds
<1>2. ~CapabilitiesPanic(c.action) /\ ~DeliverFails(l, p)
  BY DEF CapabilitiesPanic, DeliverFails, AdapterFails, Fail, Terminate
<1>3. \/ kind = "deliver" /\ \E effects \in Batches : Deliver(l, p, effects)
      \/ kind = "drop" /\ Drop(l, p)
      \/ kind = "duplicate" /\ Duplicate(l, p)
  BY <1>1, <1>2, Zenon DEF Start
<1> HIDE DEF l, p, kind
<1>4. ASSUME NEW b \in Batches, Deliver(l, p, b)
      PROVE  status' = status /\ queues' = Without(l, p)
  BY <1>4 DEF Deliver, ProcessAdapterEffects
<1>5. ASSUME Drop(l, p)
      PROVE  status' = status /\ queues' = Without(l, p)
  BY <1>5 DEF Drop
<1>6. ASSUME Duplicate(l, p)
      PROVE  status' = status /\ Grown(queues, queues')
  <2>1. /\ status' = status /\ p \in 1..Len(queues[l])
        /\ ~IdentitiesExhausted(l) /\ Register(l, queues[l][p].id)
    BY <1>6 DEF Duplicate, Fail, Terminate
  <2>2. queues[l][p].id \in IDs
    BY <1>1, <2>1, QueuedType
  <2>3. /\ \A k \in Links \ {l} : queues'[k] = queues[k]
        /\ Len(queues[l]) \in Nat /\ Len(queues'[l]) = Len(queues[l]) + 1
        /\ \A i \in 1..Len(queues[l]) : queues'[l][i] = queues[l][i]
    BY <1>1, <2>1, <2>2, RegistrationShape
  <2>4. \A k \in Links : Len(queues[k]) \in Nat
    BY LenProperties DEF TypeOK
  <2> QED
    BY <2>1, <2>3, <2>4 DEF Grown
<1> QED
  BY <1>3, <1>4, <1>5, <1>6 DEF l, p, kind

\* When the profile allows an action, and when it holds it inapplicable.
LEMMA VerdictsSay ==
    ASSUME NEW act
    PROVE  /\ act.kind = "advance_time" /\ "allowed" \in Verdicts(act) => ~(act.target <= view.time)
           /\ act.kind \in MessageKinds /\ "inapplicable" \in Verdicts(act) => Missing(act.message)
<1>1. CASE act.kind \in {"drop", "duplicate"}
  BY <1>1 DEF Verdicts
<1>2. CASE act.kind = "deliver"
  BY <1>2 DEF Verdicts
<1>3. CASE act.kind = "advance_time"
  BY <1>3 DEF Verdicts, MessageKinds
<1> QED
  BY <1>1, <1>2, <1>3 DEF MessageKinds

\* The next action of a batch that stands is one Execute accepts, and what the
\* profile says of it is in accord with the network.
LEMMA CurrentStands ==
    ASSUME TypeOK, EngineFrame, ObservationFresh, BatchStands, stage = "batch", batch.left # <<>>
    PROVE  /\ \A verdict : Judged(verdict) /\ verdict = "allowed" /\ AllCapabilities
                             => Admissible(Current)
           /\ Judged("inapplicable") => Current.action.kind \notin MessageKinds
<1> DEFINE c == Current
           act == Current.action
<1>1. /\ c \in ConcreteAction
      /\ act.kind \in MessageKinds => c.at[1] \in Links
      /\ act.kind \in MessageKinds \cup NodeKinds \cup {"advance_time"}
  BY CurrentType DEF EngineFrame
<1>2. view = observation /\ observation = [time |-> time, status |-> status, messages |-> queues]
  BY DEF BatchStands, ObservationFresh, Observed
<1>3. /\ act.kind \in MessageKinds =>
           /\ c.at[2] \in 1..Len(queues[c.at[1]])
           /\ queues[c.at[1]][c.at[2]].id = act.message
      /\ act.kind = "deliver" => status[c.at[1][2]] = "running"
      /\ act.kind \in NodeKinds =>
           status[act.node] = IF act.kind = "restart" THEN "crashed" ELSE "running"
  <2>1. batch.left \in Seq(ConcreteAction) /\ OneBatch(batch.left) /\ Stands(batch.left, queues, status)
    BY DEF EngineFrame, EngineTypeOK, Batch, BatchStands
  <2>2. Current = batch.left[1] /\ 1 \in 1..Len(batch.left)
    BY <2>1, BatchTail DEF Current
  <2>3. act.kind \in MessageKinds => PlaceNow(Current, 1) = c.at[2]
    <3>1. act.kind \in MessageKinds => c.at[2] \in Nat
      BY <1>1 DEF ConcreteAction, MessageKinds, NodeKinds
    <3> QED
      BY <3>1 DEF PlaceNow
  <2> QED
    BY <2>1, <2>2, <2>3 DEF Stands
<1>4. act.kind \in MessageKinds => c.at[2] \in DOMAIN queues[c.at[1]]
  BY <1>1, <1>3, LenProperties DEF TypeOK
<1>5. act.kind \in MessageKinds => ~Missing(act.message)
  BY <1>1, <1>2, <1>3, <1>4 DEF Missing
<1>6. ASSUME NEW verdict, Judged(verdict), verdict = "allowed", AllCapabilities
      PROVE  Admissible(Current)
  <2>1. act.kind \in MessageKinds => InPlace(c)
    BY <1>3, <1>4 DEF InPlace
  <2>2. act.kind = "deliver" => observation.status[c.at[1][2]] = "running"
    BY <1>2, <1>3
  <2>3. act.kind = "advance_time" => act.target > time
    <3>1. ASSUME act.kind = "advance_time" PROVE act.target > time
      <4>1. ~(act.target <= view.time)
        <5>1. "allowed" \in Verdicts(act)
          BY <1>6 DEF Judged
        <5> HIDE DEF act
        <5> QED
          BY <3>1, <5>1, VerdictsSay
      <4>2. view.time = time /\ act.target \in Nat /\ time \in Nat
        BY <1>2, <3>1, CurrentType DEF EngineFrame, TypeOK
      <4> QED
        BY <4>1, <4>2
    <3> QED
      BY <3>1
  <2>4. act.kind \in NodeKinds =>
          /\ RequiredCapability[act.kind] \in Capabilities
          /\ observation.status[act.node] = IF act.kind = "restart" THEN "crashed" ELSE "running"
    BY <1>2, <1>3, <1>6 DEF AllCapabilities
  <2> QED
    BY <2>1, <2>2, <2>3, <2>4 DEF Admissible
<1>7. Judged("inapplicable") => act.kind \notin MessageKinds
  <2>1. Judged("inapplicable") => "inapplicable" \in Verdicts(act)
    BY DEF Judged
  <2> HIDE DEF act
  <2> QED
    BY <1>5, <2>1, VerdictsSay
<1> QED
  BY <1>6, <1>7

\* No stage of a call makes the Runtime usable again, or anew.
LEMMA FailKeeps ==
    ASSUME NEW operation, NEW act, NEW error, Fail(operation, act, error)
    PROVE  initialized' = initialized /\ terminated'
  BY DEF Fail, Terminate

\* Once terminated, an execution stays so until the next Reset.
LEMMA ProcessKeeps ==
    ASSUME NEW callFrame, NEW b, NEW q, ProcessAdapterEffects(callFrame, b, q)
    PROVE  initialized' = initialized /\ (terminated => terminated')
  BY FailKeeps DEF ProcessAdapterEffects, resultVars

\* The same of every later stage of a call,
LEMMA ContinueKeeps ==
    ASSUME Continue
    PROVE  initialized' = initialized /\ (terminated => terminated')
<1>1. ASSUME NEW b \in Batches, Tick(b)
      PROVE  initialized' = initialized /\ (terminated => terminated')
  BY <1>1, ProcessKeeps DEF Tick
<1> QED
  BY <1>1, FailKeeps DEF Continue, TickFails, RegisterOutbound, EffectsProcessed, RecordStep,
     ObserveFails, AppendRejected, AdapterFails, Terminate, resultVars

\* and of its first.
LEMMA StartKeeps ==
    ASSUME NEW c, Start(c)
    PROVE  initialized' = initialized
<1>1. ASSUME NEW l, NEW p, NEW b, Deliver(l, p, b) PROVE initialized' = initialized
  BY <1>1, ProcessKeeps DEF Deliver
<1>2. ASSUME NEW kind, NEW n, NEW b, OnNode(kind, n, b) PROVE initialized' = initialized
  BY <1>2, ProcessKeeps DEF OnNode
<1>3. ASSUME NEW l, NEW p, DeliverFails(l, p) PROVE initialized' = initialized
  BY <1>3, FailKeeps DEF DeliverFails, AdapterFails
<1>4. ASSUME NEW kind, NEW n, OnNodeFails(kind, n) PROVE initialized' = initialized
  BY <1>4, FailKeeps DEF OnNodeFails, AdapterFails
<1>5. ASSUME NEW l, NEW p, Drop(l, p) \/ Duplicate(l, p) PROVE initialized' = initialized
  BY <1>5, FailKeeps DEF Drop, Duplicate, resultVars
<1>6. ASSUME NEW act, AdvanceTime(act.target) \/ CapabilitiesPanic(act)
      PROVE  initialized' = initialized
  BY <1>6, FailKeeps DEF AdvanceTime, CapabilitiesPanic, resultVars
<1> QED
  BY <1>1, <1>2, <1>3, <1>4, <1>5, <1>6 DEF Start

\* There is no batch before the first run,
LEMMA StandsInit == EngineInit => BatchStands
<1> SUFFICES ASSUME EngineInit PROVE BatchStands
  OBVIOUS
<1>1. stage = "ready" /\ result.status = "none"
  BY DEF EngineInit, NewResult
<1> QED
  BY <1>1 DEF BatchStands

\* and none when a run begins.
LEMMA StandsBegin ==
    ASSUME NEW s \in Sources, Begin(s) \/ BeginFails(s)
    PROVE  BatchStands'
<1>1. CASE Begin(s)
  <2>1. Ready' /\ view' = observation'
    BY <1>1 DEF Begin, Reset, ClearRuntime, Ready
  <2>2. CASE stage' = "plan"
    BY <2>1, <2>2 DEF BatchStands
  <2>3. ASSUME NEW outcome \in {"oracle_failed", "policy_failed"}, stage' = "ready",
               result' = [NewResult EXCEPT !.status = outcome]
        PROVE  BatchStands'
    <3>1. result'.status = outcome
      BY <2>3, NewResultType DEF Results
    <3> QED
      BY <2>3, <3>1 DEF BatchStands
  <2> QED
    BY <1>1, <2>2, <2>3 DEF Begin
<1>2. CASE BeginFails(s)
  BY <1>2 DEF BeginFails, ResetFails, BatchStands
<1> QED
  BY <1>1, <1>2

\* A run that stops for another reason than the Runtime needs no batch.
LEMMA StandsStopped ==
    ASSUME NEW outcome, outcome # "runtime_failed", NEW r \in Results, TypeOK,
           Stop(outcome, r) \/ (stage' = "ready" /\ result' = [r EXCEPT !.status = outcome])
    PROVE  BatchStands'
<1>1. stage' = "ready" /\ result'.status = outcome
  BY CaptureType DEF Stop, Results
<1> QED
  BY <1>1 DEF BatchStands

\* What the Resolver returns stands.
LEMMA StandsPlan ==
    ASSUME Types, EngineFrame, ObservationFresh, BatchStands, NEW p \in PlanActions, Plan(p)
    PROVE  BatchStands'
<1> DEFINE r == Resolve(p, view)
           noted == [result EXCEPT !.resolutions = Append(@, r)]
           counted == [loop EXCEPT !.processed = @ + 1]
<1>1. /\ stage = "plan" /\ UNCHANGED <<view, vars>>
      /\ p.kind = "advance_ticks" => view.time + p.ticks <= MaxTime
      /\ \/ Stop("resolution_failed", noted)
         \/ Noop(counted, noted)
         \/ stage' = "batch" /\ r.actions # <<>> /\ batch'.left = r.actions
  BY DEF Plan, Looping
<1>2. Ready /\ view = observation /\ view = [time |-> time, status |-> status, messages |-> queues]
  BY <1>1 DEF BatchStands, ObservationFresh, Observed
<1>3. UNCHANGED <<observation, queues, status, initialized, terminated, call>>
  BY <1>1 DEF vars, resultVars, networkVars
<1>4. Ready' /\ view' = observation'
  BY <1>1, <1>2, <1>3 DEF Ready
<1>5. noted \in Results
  <2>1. r \in Resolutions
    BY <1>1, EngineAssumption, ResolveType DEF EngineFrame, EngineTypeOK
  <2> HIDE DEF r
  <2>2. result \in Results /\ result.resolutions \in Seq(Resolutions)
    BY DEF EngineFrame, EngineTypeOK, Results
  <2>3. Append(result.resolutions, r) \in Seq(Resolutions)
    BY <2>1, <2>2, AppendProperties
  <2> QED
    BY <2>2, <2>3 DEF Results
<1>6. CASE Stop("resolution_failed", noted)
  <2> HIDE DEF noted
  <2> QED
    BY <1>5, <1>6, StandsStopped DEF Types
<1>7. CASE Noop(counted, noted)
  <2>1. stage' \in {"plan", "finish"}
    BY <1>7 DEF Noop, Break
  <2> QED
    BY <1>4, <2>1 DEF BatchStands
<1>8. CASE stage' = "batch" /\ r.actions # <<>> /\ batch'.left = r.actions
  <2>1. OneBatch(r.actions) /\ Stands(r.actions, view.messages, view.status)
    BY <1>1, <1>8, EngineAssumption, ResolutionStands DEF EngineFrame, EngineTypeOK
  <2>2. view.messages = queues' /\ view.status = status'
    BY <1>2, <1>3
  <2>3. OneBatch(batch'.left) /\ Stands(batch'.left, queues', status')
    BY <1>8, <2>1, <2>2
  <2> QED
    BY <1>4, <1>8, <2>3 DEF BatchStands
<1> QED
  BY <1>1, <1>6, <1>7, <1>8

\* An action that is skipped leaves nothing behind that relied on it.
LEMMA StandsBatch ==
    ASSUME Types, EngineFrame, ObservationFresh, BatchStands,
           ActionInapplicable \/ ModelBoundReached \/ ActionUnsupported \/ BatchEnds \/ ExecuteRefused
    PROVE  BatchStands'
<1>1. stage = "batch" /\ UNCHANGED <<view, vars>>
  BY DEF ActionInapplicable, ModelBoundReached, ActionUnsupported, BatchEnds, ExecuteRefused, Judged,
         frame
<1>2. UNCHANGED <<view, observation, queues, status, initialized, terminated, call>>
  BY <1>1 DEF vars, resultVars, networkVars
<1>3. /\ result \in Results /\ TypeOK /\ batch \in Batch /\ result.resolutions # <<>>
      /\ Ready' /\ view' = observation'
  BY <1>1, <1>2 DEF EngineFrame, EngineTypeOK, Types, BatchStands, Ready
<1>4. CASE ActionInapplicable
  <2>1. /\ batch.left # <<>> /\ Judged("inapplicable") /\ stage' = "batch"
        /\ batch'.left = Tail(batch.left)
    BY <1>3, <1>4 DEF ActionInapplicable, Judged, Batch
  <2>2. Current.action.kind \notin MessageKinds
    BY <1>1, <1>3, <2>1, CurrentStands
  <2>3. Tail(batch.left) = <<>>
    BY <1>1, <1>3, <2>1, <2>2, BatchTail DEF BatchStands, Batch, Current
  <2> QED
    BY <1>3, <2>1, <2>3, NothingLeft DEF BatchStands
<1>5. CASE ModelBoundReached
  BY <1>5 DEF ModelBoundReached, Break, BatchStands
<1>6. CASE ActionUnsupported
  <2>1. LastResolution \in Resolutions /\ batch.executed \in Seq(ConcreteAction)
    BY <1>3, LastResolutionType DEF Batch
  <2>2. PICK r \in Resolutions : Stop("unsupported_by_model", Marked(r))
    BY <1>6, <2>1, MarkType DEF ActionUnsupported
  <2>3. Marked(r) \in Results
    BY <1>3, MarkedType
  <2> QED
    BY <1>3, <2>2, <2>3, StandsStopped
<1>7. CASE BatchEnds
  <2>1. stage' \in {"plan", "finish"}
    BY <1>7 DEF BatchEnds, Noop, Break
  <2> QED
    BY <1>3, <2>1 DEF BatchStands
<1>8. CASE ExecuteRefused
  <2>1. \/ Stop("canceled", result)
        \/ Break("runtime_budget", Capture(result))
        \/ ~Admissible(Current) /\ Stop("runtime_failed", result)
    BY <1>8 DEF ExecuteRefused
  <2>2. CASE Stop("canceled", result)
    BY <1>3, <2>2, StandsStopped
  <2>3. CASE Break("runtime_budget", Capture(result))
    BY <2>3 DEF Break, BatchStands
  <2>4. CASE ~Admissible(Current) /\ Stop("runtime_failed", result)
    <3>1. batch.left # <<>> /\ Judged("allowed") /\ stage' = "ready"
      BY <1>8, <2>4 DEF ExecuteRefused, Judged, Stop
    <3>2. ~AllCapabilities
      BY <1>1, <1>3, <2>4, <3>1, CurrentStands
    <3> QED
      BY <3>1, <3>2 DEF BatchStands, AllCapabilities
  <2> QED
    BY <2>1, <2>2, <2>3, <2>4
<1> QED
  BY <1>4, <1>5, <1>6, <1>7, <1>8

\* What is left stands while the action is executed,
LEMMA StandsCall ==
    ASSUME Types, Types', EngineFrame, BatchStands, Execute \/ Executing
    PROVE  BatchStands'
<1>1. TypeOK /\ TypeOK' /\ batch.left \in Seq(ConcreteAction)
  BY DEF Types, EngineFrame, EngineTypeOK, Batch
<1>2. queues \in [Links -> Seq(Message)] /\ queues' \in [Links -> Seq(Message)]
  BY <1>1 DEF TypeOK
<1>3. CASE Execute
  <2>1. /\ stage = "batch" /\ batch.left # <<>> /\ Admissible(Current) /\ Start(Current)
        /\ stage' = "call" /\ batch' = batch
    BY <1>3 DEF Execute, Judged
  <2>2. /\ Current \in ConcreteAction /\ Tail(batch.left) \in Seq(ConcreteAction)
        /\ Current = Head(batch.left)
    BY <2>1, CurrentType DEF EngineFrame, Current
  <2>3. Ready /\ OneBatch(batch.left) /\ Stands(batch.left, queues, status)
    BY <2>1 DEF BatchStands
  <2>4. initialized'
    BY <2>1, <2>3, StartKeeps DEF Ready
  <2>5. ASSUME ~terminated' PROVE Stands(Tail(batch.left), queues', status')
    <3>1. CASE Current.action.kind \notin MessageKinds
      BY <1>1, <2>1, <2>2, <2>3, <3>1, BatchTail, NothingLeft, ZenonT(30)
    <3>2. CASE Current.action.kind \in {"deliver", "drop"}
      <4>1. status' = status /\ queues' = Without(Current.at[1], Current.at[2])
        BY <1>1, <2>1, <2>2, <2>5, <3>2, StartMoves DEF MessageKinds
      <4>2. queues' = [queues EXCEPT ![Head(batch.left).at[1]] = RemoveAt(@, Head(batch.left).at[2])]
        BY <2>2, <4>1 DEF Without
      <4>3. Stands(Tail(batch.left), queues', status)
        BY <1>1, <1>2, <2>1, <2>2, <2>3, <3>2, <4>2, StandsTaken
      <4> QED
        BY <4>1, <4>3
    <3>3. CASE Current.action.kind = "duplicate"
      <4>1. status' = status /\ Grown(queues, queues')
        BY <1>1, <2>1, <2>2, <2>5, <3>3, StartMoves DEF MessageKinds
      <4>2. Stands(Tail(batch.left), queues, status)
        BY <1>1, <2>1, <2>2, <2>3, <3>3, StandsCopied
      <4>3. Stands(Tail(batch.left), queues', status)
        BY <1>2, <2>2, <4>1, <4>2, StandsGrown
      <4> QED
        BY <4>1, <4>3
    <3> QED
      BY <3>1, <3>2, <3>3 DEF MessageKinds
  <2> QED
    BY <2>1, <2>3, <2>4, <2>5 DEF BatchStands
<1>4. CASE Executing
  <2>1. stage = "call" /\ stage' = "call" /\ batch' = batch /\ Continue
    BY <1>4 DEF Executing, engineVars, frame
  <2>2. Grown(queues, queues') /\ status' = status
    BY <1>1, <2>1, ContinueGrows
  <2>3. initialized /\ OneBatch(batch.left) /\ (~terminated => Stands(Tail(batch.left), queues, status))
    BY <2>1 DEF BatchStands
  <2>4. Tail(batch.left) \in Seq(ConcreteAction)
    BY <2>1, CurrentType DEF EngineFrame
  <2>5. initialized' /\ (terminated => terminated')
    BY <2>1, <2>3, ContinueKeeps
  <2>6. ~terminated' => Stands(Tail(batch.left), queues', status')
    BY <1>2, <2>2, <2>3, <2>4, <2>5, StandsGrown
  <2> QED
    BY <2>1, <2>3, <2>5, <2>6 DEF BatchStands
<1> QED
  BY <1>3, <1>4

\* and when it has been.
LEMMA StandsReturn ==
    ASSUME Types, EngineFrame, ObservationFresh, BatchStands, ExecuteFailed \/ ExecuteSucceeded
    PROVE  BatchStands'
<1>1. result \in Results /\ TypeOK /\ batch \in Batch
  BY DEF EngineFrame, EngineTypeOK, Types
<1>2. CASE ExecuteFailed
  <2>1. /\ terminated /\ terminated' = terminated
        /\ \/ Break("runtime_budget", Capture(result))
           \/ Stop("canceled", result) \/ Stop("runtime_failed", result)
    BY <1>2 DEF ExecuteFailed, vars, resultVars
  <2>2. stage' \in {"ready", "finish"}
    BY <2>1 DEF Break, Stop
  <2> QED
    BY <2>1, <2>2 DEF BatchStands
<1>3. CASE ExecuteSucceeded
  <2> DEFINE executed == [result EXCEPT !.actions = Append(@, Current)]
             mapped == [executed EXCEPT !.modelEvents = Append(@, Transition)]
  <2>1. /\ stage = "call" /\ Returned /\ ~terminated /\ view' = observation
        /\ UNCHANGED <<observation, queues, status, initialized, terminated, call>>
        /\ \/ Stop("mapping_failed", executed) \/ Stop("mapping_failed", mapped)
           \/ Stop("oracle_failed", mapped)
           \/ stage' = "batch"
    BY <1>3 DEF ExecuteSucceeded, Returned, ViewAfterStep, vars, resultVars, networkVars
  <2>2. batch'.left = Tail(batch.left)
    BY <1>1, <1>3 DEF ExecuteSucceeded, Batch
  <2>3. executed \in Results /\ mapped \in Results
    BY <2>1, ExecutedType
  <2> HIDE DEF executed, mapped
  <2>4. CASE stage' = "batch"
    <3>1. initialized /\ OneBatch(batch.left) /\ Stands(Tail(batch.left), queues, status)
      BY <2>1 DEF BatchStands
    <3>2. OneBatch(Tail(batch.left))
      BY <1>1, <2>1, <3>1, BatchTail DEF EngineFrame, Batch
    <3>3. Ready' /\ view' = observation'
      BY <2>1, <3>1 DEF Ready, Returned
    <3> QED
      BY <2>1, <2>2, <2>4, <3>1, <3>2, <3>3 DEF BatchStands
  <2> QED
    BY <1>1, <2>1, <2>3, <2>4, StandsStopped
<1> QED
  BY <1>2, <1>3

\* A run that ends leaves no batch.
LEMMA StandsEnd ==
    ASSUME Types, EngineFrame, BatchStands,
           RunCanceled \/ PlanCanceled \/ PolicyEnds \/ PolicyFails \/ PlanEnds \/ Finish
    PROVE  BatchStands'
<1>1. result \in Results /\ TypeOK
  BY DEF EngineFrame, EngineTypeOK, Types
<1>2. CASE RunCanceled
  <2>1. stage' = "ready" /\ result'.status = "canceled"
    BY <1>2, NewResultType DEF RunCanceled, Results
  <2> QED
    BY <2>1 DEF BatchStands
<1>3. CASE PlanCanceled \/ PolicyFails
  BY <1>1, <1>3, StandsStopped DEF PlanCanceled, PolicyFails
<1>4. CASE PolicyEnds \/ PlanEnds
  BY <1>4 DEF PolicyEnds, PlanEnds, BatchStands
<1>5. CASE Finish
  <2>1. stage' = "ready" /\ result'.status \in {"completed", "model_failed", "canceled"}
    <3> DEFINE ended == [Capture(result) EXCEPT !.termination = Reason,
                           !.budgetExhausted = @ \/ (result.termination = "" /\ Reason = "plan_action_budget"),
                           !.modelExecuted = ModelExecutor]
    <3>1. DOMAIN ended = DOMAIN Capture(result) /\ "status" \in DOMAIN Capture(result)
      BY <1>1, CaptureType DEF Results
    <3>2. /\ stage' = "ready"
          /\ \E outcome \in {"completed", "model_failed", "canceled"} :
                result' = [ended EXCEPT !.status = outcome]
      BY <1>5 DEF Finish
    <3> HIDE DEF ended
    <3> QED
      BY <3>1, <3>2
  <2> QED
    BY <2>1 DEF BatchStands
<1> QED
  BY <1>2, <1>3, <1>4, <1>5

\* Whatever the Engine does, what is left of the batch stands.
LEMMA StandsStep ==
    Types /\ EngineFrame /\ ObservationFresh /\ BatchStands /\ [EngineNext]_allVars => BatchStands'
<1> SUFFICES ASSUME Types, EngineFrame, ObservationFresh, BatchStands, [EngineNext]_allVars
             PROVE  BatchStands'
  OBVIOUS
<1>1. Types'
  BY FrameStep
<1>2. CASE Cancel \/ UNCHANGED allVars
  <2>1. UNCHANGED <<stage, batch, view, result, queues, status, observation, call, initialized, terminated>>
    BY <1>2 DEF Cancel, allVars, engineVars, frame, vars, resultVars, networkVars
  <2> QED
    BY <2>1 DEF BatchStands, Ready
<1> QED
  BY <1>1, <1>2, StandsBegin, StandsPlan, StandsBatch, StandsCall, StandsReturn, StandsEnd
     DEF EngineNext, EngineStep

\* What the Resolver computed is still so when its turn comes: each position
\* accounts for the messages delivered or dropped before it (resolver.go:126-135),
\* registration only appends, and no member changes its state inside a batch.
\* So Execute refuses no action it is given, and a run that reports a failure
\* of the Runtime has had an operation of the system under test fail.
THEOREM ResolvedCorrect == EngineSpec => []ResolvedActionsAccepted
<1>1. EngineInit => Types /\ EngineFrame /\ StoppedIdle /\ ObservationFresh /\ BatchStands
  BY FrameInit, CallInit, StandsInit DEF EngineInit
<1>2. Types /\ EngineFrame /\ StoppedIdle /\ ObservationFresh /\ BatchStands /\ [EngineNext]_allVars
        => Types' /\ EngineFrame' /\ StoppedIdle' /\ ObservationFresh' /\ BatchStands'
  BY FrameStep, StandsStep, RuntimeStep, CallStep DEF Types
<1>3. BatchStands => ResolvedActionsAccepted
  BY DEF BatchStands, ResolvedActionsAccepted, AllCapabilities
<1> QED
  BY <1>1, <1>2, <1>3, PTL DEF EngineSpec

-----------------------------------------------------------------------------
(* Joining sequences, as FlattenSeq does.                                  *)

\* FlattenSeq joins the sequences from the first to the last.
LEMMA Flattened ==
    ASSUME NEW X, NEW s \in Seq(Seq(X))
    PROVE  \E f \in [Nat -> Seq(X)] :
              /\ f[0] = <<>> /\ \A i \in 1..Len(s) : f[i] = f[i - 1] \o s[i]
              /\ FlattenSeq(s) = f[Len(s)]
<1>1. Len(s) \in Nat /\ \A i \in 1..Len(s) : s[i] \in Seq(X)
  BY LenProperties, ElementOfSeq
<1>2. <<>> \in Seq(X) /\ \A x, y \in Seq(X) : x \o y \in Seq(X)
  BY ConcatProperties, EmptySeq
<1> DEFINE step == [x \in Nat \X Seq(X) |->
                       IF x[1] + 1 \in 1..Len(s) THEN x[2] \o s[x[1] + 1] ELSE x[2]]
<1>3. step \in [Nat \X Seq(X) -> Seq(X)]
  BY <1>1, <1>2
<1>4. PICK f \in [Nat -> Seq(X)] : f[0] = <<>> /\ \A n \in Nat : f[n + 1] = step[<<n, f[n]>>]
  <2> HIDE DEF step
  <2>1. \E f \in [Nat -> Seq(X)] : Recurs(f, <<>>, step)
    BY <1>2, <1>3, Recursion, Zenon
  <2> QED
    BY <2>1 DEF Recurs
<1>5. \A i \in 1..Len(s) : f[i] = f[i - 1] \o s[i]
  <2> SUFFICES ASSUME NEW i \in 1..Len(s) PROVE f[i] = f[i - 1] \o s[i]
    OBVIOUS
  <2>1. i - 1 \in Nat /\ (i - 1) + 1 = i
    BY <1>1
  <2>2. f[(i - 1) + 1] = step[<<i - 1, f[i - 1]>>]
    BY <1>4, <2>1
  <2>3. step[<<i - 1, f[i - 1]>>] = f[i - 1] \o s[i]
    BY <1>4, <2>1
  <2> HIDE DEF step
  <2> QED
    BY <2>1, <2>2, <2>3
<1> HIDE DEF step
<1>6. FlattenSeq(s) = f[Len(s)]
  <2>1. CASE Len(s) = 0
    <3>1. s = <<>>
      BY <2>1, EmptySeq
    <3> QED
      BY <1>4, <2>1, <3>1 DEF FlattenSeq
  <2>2. CASE Len(s) # 0
    <3> DEFINE Body(h) == [i \in 1..Len(s) |-> IF i = 1 THEN s[i] ELSE h[i - 1] \o s[i]]
               g == [i \in 1..Len(s) |-> f[i]]
               h == CHOOSE h : h = Body(h)
    <3>0. f[1] = s[1] /\ s[1] \in Seq(X)
      <4>1. 1 \in 1..Len(s) /\ 1 - 1 = 0
        BY <1>1, <2>2
      <4>2. f[1] = f[1 - 1] \o s[1]
        BY <1>5, <4>1
      <4>3. f[1] = <<>> \o s[1]
        BY <1>4, <4>1, <4>2
      <4>4. s[1] \in Seq(X)
        BY <1>1, <4>1
      <4> QED
        BY <4>3, <4>4, ConcatProperties
    <3>1. g = Body(g)
      <4>1. ASSUME NEW i \in 1..Len(s)
            PROVE  f[i] = IF i = 1 THEN s[i] ELSE g[i - 1] \o s[i]
        <5>1. CASE i = 1
          BY <3>0, <5>1
        <5>2. CASE i # 1
          <6>1. i - 1 \in 1..Len(s)
            BY <1>1, <5>2
          <6> QED
            BY <1>5, <5>2, <6>1, Zenon
        <5> QED
          BY <5>1, <5>2
      <4> QED
        BY <4>1
    <3>2. h = Body(h)
      <4> HIDE DEF g
      <4> QED
        BY <3>1, Zenon
    <3>3. FlattenSeq(s) = h[Len(s)]
      BY <2>2 DEF FlattenSeq
    <3> HIDE DEF h
    <3>4. /\ h[1] = s[1]
          /\ \A i \in 1..Len(s) : i # 1 => h[i] = h[i - 1] \o s[i]
      <4>1. PICK w : w = Body(h)
        OBVIOUS
      <4>2. 1 \in 1..Len(s)
        BY <1>1, <2>2
      <4>3. w[1] = s[1] /\ \A i \in 1..Len(s) : i # 1 => w[i] = h[i - 1] \o s[i]
        BY <4>1, <4>2, ZenonT(30)
      <4> HIDE DEF Body
      <4> QED
        BY <3>2, <4>1, <4>3
    <3> HIDE DEF Body, g
    <3> DEFINE S == {n \in Nat : n # 0 /\ n <= Len(s) => h[n] = f[n]}
    <3>5. 0 \in S
      OBVIOUS
    <3>6. ASSUME NEW n \in Nat, n \in S
          PROVE  n + 1 \in S
      <4> SUFFICES ASSUME n + 1 <= Len(s) PROVE h[n + 1] = f[n + 1]
        OBVIOUS
      <4>1. CASE n = 0
        <5>1. n + 1 = 1
          BY <4>1
        <5> QED
          BY <3>0, <3>4, <5>1
      <4>2. CASE n # 0
        <5>1. n + 1 \in 1..Len(s) /\ (n + 1) - 1 = n /\ n <= Len(s) /\ n + 1 # 1
          BY <1>1, <4>2
        <5>2. h[n] = f[n]
          BY <3>6, <4>2, <5>1
        <5> HIDE DEF S
        <5> QED
          BY <1>5, <3>4, <5>1, <5>2
      <4> QED
        BY <4>1, <4>2
    <3>7. Nat \subseteq S
      <4> HIDE DEF S
      <4> QED
        BY <3>5, <3>6, Inductive
    <3>8. h[Len(s)] = f[Len(s)]
      BY <1>1, <2>2, <3>7
    <3> QED
      BY <3>3, <3>8
  <2> QED
    BY <2>1, <2>2
<1> QED
  BY <1>4, <1>5, <1>6

\* One sequence more is joined to the others.
LEMMA FlattenAppend ==
    ASSUME NEW X, NEW s \in Seq(Seq(X)), NEW t \in Seq(X)
    PROVE  FlattenSeq(Append(s, t)) = FlattenSeq(s) \o t /\ FlattenSeq(s) \in Seq(X)
<1>1. /\ Append(s, t) \in Seq(Seq(X)) /\ Len(Append(s, t)) = Len(s) + 1 /\ Len(s) \in Nat
      /\ Append(s, t)[Len(s) + 1] = t /\ \A i \in 1..Len(s) : Append(s, t)[i] = s[i]
  BY LenProperties, AppendProperties
<1>2. PICK f \in [Nat -> Seq(X)] :
        /\ f[0] = <<>> /\ \A i \in 1..Len(s) : f[i] = f[i - 1] \o s[i]
        /\ FlattenSeq(s) = f[Len(s)]
  BY Flattened
<1>3. PICK g \in [Nat -> Seq(X)] :
        /\ g[0] = <<>> /\ \A i \in 1..(Len(s) + 1) : g[i] = g[i - 1] \o Append(s, t)[i]
        /\ FlattenSeq(Append(s, t)) = g[Len(s) + 1]
  BY <1>1, Flattened
<1> DEFINE S == {n \in Nat : n <= Len(s) => g[n] = f[n]}
<1>4. 0 \in S
  BY <1>2, <1>3
<1>5. ASSUME NEW n \in Nat, n \in S
      PROVE  n + 1 \in S
  <2> SUFFICES ASSUME n + 1 <= Len(s) PROVE g[n + 1] = f[n + 1]
    OBVIOUS
  <2>1. n + 1 \in 1..Len(s) /\ n + 1 \in 1..(Len(s) + 1) /\ (n + 1) - 1 = n /\ n <= Len(s)
    BY <1>1
  <2>2. g[n] = f[n]
    BY <1>5, <2>1
  <2> HIDE DEF S
  <2> QED
    BY <1>1, <1>2, <1>3, <2>1, <2>2
<1>6. Nat \subseteq S
  <2> HIDE DEF S
  <2> QED
    BY <1>4, <1>5, Inductive
<1>7. g[Len(s)] = f[Len(s)]
  BY <1>1, <1>6
<1>8. Len(s) + 1 \in 1..(Len(s) + 1) /\ (Len(s) + 1) - 1 = Len(s)
  BY <1>1
<1>9. g[Len(s) + 1] = g[Len(s)] \o t
  BY <1>1, <1>3, <1>8
<1> QED
  BY <1>1, <1>2, <1>3, <1>7, <1>9

-----------------------------------------------------------------------------
(* What the resolutions say of the run.                                    *)

\* The actions they hold, how many of the last ones executed nothing, and
\* whether they are valid as the Engine has rewritten them.
ActionsOf(resolutions) == FlattenSeq([i \in DOMAIN resolutions |-> resolutions[i].actions])

Trailing(resolutions) ==
    LET executed == {i \in DOMAIN resolutions : resolutions[i].actions # <<>>}
    IN  Len(resolutions) - (IF executed = {} THEN 0 ELSE Max(executed))

AllValid(resolutions) == \A i \in DOMAIN resolutions : ResolutionValid(resolutions[i])

Covers(resolutions, actions) == AllValid(resolutions) /\ ActionsOf(resolutions) = actions

\* The plan loop goes on.
Going ==
    /\ result.termination = "" /\ ~result.budgetExhausted /\ ~loop.policyComplete
    /\ loop.processed = Len(result.resolutions)
    /\ MaxConsecutiveNoops > 0 => loop.noops < MaxConsecutiveNoops

Settled ==
    /\ Covers(result.resolutions, result.actions)
    /\ loop.noops = Trailing(result.resolutions)

\* The last resolution is being executed: it holds what has been executed of it
\* and what is left of it, less what the profile held inapplicable.
Partway ==
    LET resolutions == result.resolutions
        present == Last(resolutions).actions
    IN
    /\ AllValid(resolutions) /\ present # <<>>
    /\ result.actions = ActionsOf(Front(resolutions)) \o batch.executed
    /\ loop.noops = Trailing(Front(resolutions))
    /\ Len(batch.executed) + Len(batch.left) <= Len(present)
    /\ batch.inapplicable \/ batch.executed \o batch.left = present

\* The plan loop has ended.
Over ==
    LET resolutions == result.resolutions
        reason == result.termination
    IN
    /\ reason \in {"", "consecutive_noops", "runtime_budget", "model_bound_reached"}
    /\ result.budgetExhausted <=> reason \in {"consecutive_noops", "runtime_budget"}
    /\ reason # "runtime_budget" => Covers(resolutions, result.actions)
    /\ reason = "consecutive_noops" => Trailing(resolutions) = MaxConsecutiveNoops
    /\ reason = "" =>
          /\ MaxConsecutiveNoops > 0 => Trailing(resolutions) < MaxConsecutiveNoops
          /\ loop.processed = Len(resolutions)
          /\ IF loop.policyComplete
             THEN source.online /\ loop.processed < source.maximum
             ELSE loop.processed = source.maximum

\* The run has ended, and its result says truly why.
Told ==
    LET resolutions == result.resolutions
        reason == result.termination
        trailing == Trailing(resolutions)
    IN
    /\ reason # "runtime_budget" => Covers(resolutions, result.actions)
    /\ reason # ""
    /\ result.budgetExhausted <=> reason \in {"plan_action_budget", "runtime_budget", "consecutive_noops"}
    /\ reason = "consecutive_noops" => trailing = MaxConsecutiveNoops
    /\ reason \in {"plan_complete", "policy_complete", "plan_action_budget"} =>
          MaxConsecutiveNoops = 0 \/ trailing < MaxConsecutiveNoops
    /\ reason \in {"plan_complete", "plan_action_budget"} =>
          /\ Len(resolutions) = source.maximum
          /\ source.budgeted <=> reason = "plan_action_budget"
    /\ reason = "policy_complete" => source.online /\ Len(resolutions) < source.maximum

\* The inductive form of ResolutionsCoverActions and TerminationExplained.
EngineAccounts ==
    /\ stage = "plan" => Going /\ Settled
    /\ stage \in {"batch", "call"} => Going /\ Partway
    /\ stage = "finish" => Over
    /\ Completed => Told

\* A list of resolutions that is not empty ends in its last.
LEMMA LastOfAll ==
    ASSUME NEW resolutions \in Seq(Resolutions), resolutions # <<>>
    PROVE  /\ Front(resolutions) \in Seq(Resolutions) /\ Last(resolutions) \in Resolutions
           /\ resolutions = Append(Front(resolutions), Last(resolutions))
<1> DEFINE s == resolutions
           n == Len(s)
<1>1. n \in Nat \ {0} /\ \A i \in 1..n : s[i] \in Resolutions
  BY EmptySeq, LenProperties, ElementOfSeq
<1>2. Front(s) = SubSeq(s, 1, n - 1)
  BY DEF Front
<1>3. Front(s) \in Seq(Resolutions) /\ Len(Front(s)) = n - 1 /\ \A i \in 1..(n - 1) : Front(s)[i] = s[i]
  <2>1. \A i \in 1..(n - 1) : s[i] \in Resolutions
    BY <1>1
  <2>2. 1 \in Nat /\ n - 1 \in Nat /\ (n - 1) - 1 + 1 = n - 1
    BY <1>1
  <2> QED
    BY <1>1, <1>2, <2>1, <2>2, SubSeqProperties
<1>4. Last(s) = s[n] /\ Last(s) \in Resolutions
  BY <1>1 DEF Last
<1> DEFINE t == Append(Front(s), Last(s))
<1>5. t \in Seq(Resolutions) /\ Len(t) = n /\ t[n] = s[n] /\ \A i \in 1..(n - 1) : t[i] = s[i]
  <2>1. /\ t \in Seq(Resolutions) /\ Len(t) = Len(Front(s)) + 1 /\ t[Len(Front(s)) + 1] = Last(s)
        /\ \A i \in 1..Len(Front(s)) : t[i] = Front(s)[i]
    BY <1>3, <1>4, AppendProperties
  <2>2. Len(Front(s)) + 1 = n
    BY <1>1, <1>3
  <2> QED
    BY <1>3, <1>4, <2>1, <2>2
<1>6. \A i \in 1..n : t[i] = s[i]
  <2>1. \A i \in 1..n : i = n \/ i \in 1..(n - 1)
    BY <1>1
  <2> QED
    BY <1>5, <2>1
<1> HIDE DEF t
<1>7. t = s
  BY <1>1, <1>5, <1>6, SeqEqual
<1> QED
  BY <1>3, <1>4, <1>7 DEF t

\* What one resolution more, executed or not, adds to a list of them.
LEMMA OneResolutionMore ==
    ASSUME NEW resolutions \in Seq(Resolutions), NEW r \in Resolutions
    PROVE  LET more == Append(resolutions, r) IN
           /\ more \in Seq(Resolutions) /\ Len(more) = Len(resolutions) + 1 /\ Last(more) = r
           /\ Len(resolutions) \in Nat /\ more # <<>> /\ Front(more) = resolutions
           /\ ActionsOf(more) = ActionsOf(resolutions) \o r.actions
           /\ ActionsOf(resolutions) \in Seq(ConcreteAction)
           /\ Trailing(resolutions) \in Nat
           /\ Trailing(more) = IF r.actions = <<>> THEN Trailing(resolutions) + 1 ELSE 0
           /\ AllValid(more) <=> AllValid(resolutions) /\ ResolutionValid(r)
<1> DEFINE s == resolutions
           more == Append(s, r)
           n == Len(s)
<1>1. /\ more \in Seq(Resolutions) /\ Len(more) = n + 1 /\ n \in Nat /\ more # <<>>
      /\ more[n + 1] = r /\ \A i \in 1..n : more[i] = s[i]
  BY LenProperties, AppendProperties
<1>2. /\ DOMAIN s = 1..n /\ DOMAIN more = 1..(n + 1)
      /\ \A i \in 1..(n + 1) : i = n + 1 \/ i \in 1..n
  BY <1>1, LenProperties
<1>3. Last(more) = r
  BY <1>1 DEF Last
<1>4. Front(more) = s
  <2>1. /\ Front(more) \in Seq(Resolutions) /\ more = Append(Front(more), Last(more))
    BY <1>1, LastOfAll
  <2> QED
    BY <1>1, <1>3, <2>1, AppendInjective
<1>5. AllValid(more) <=> AllValid(s) /\ ResolutionValid(r)
  BY <1>1, <1>2 DEF AllValid
<1>6. ActionsOf(more) = ActionsOf(s) \o r.actions /\ ActionsOf(s) \in Seq(ConcreteAction)
  <2> DEFINE f == [i \in 1..n |-> s[i].actions]
             g == [i \in 1..(n + 1) |-> more[i].actions]
  <2>1. \A i \in 1..n : s[i] \in Resolutions
    BY <1>1, ElementOfSeq
  <2>2. r.actions \in Seq(ConcreteAction) /\ f \in [1..n -> Seq(ConcreteAction)]
    BY <2>1 DEF Resolutions
  <2>3. f \in Seq(Seq(ConcreteAction)) /\ Len(f) = n
    BY <1>1, <2>2, FunctionIsSeq
  <2>4. /\ Append(f, r.actions) \in Seq(Seq(ConcreteAction)) /\ Len(Append(f, r.actions)) = n + 1
        /\ Append(f, r.actions)[n + 1] = r.actions
        /\ \A i \in 1..n : Append(f, r.actions)[i] = f[i]
    BY <2>2, <2>3, AppendProperties
  <2>5. g \in [1..(n + 1) -> Seq(ConcreteAction)]
    BY <1>1, <1>2, <2>1, <2>2 DEF Resolutions
  <2>6. g \in Seq(Seq(ConcreteAction)) /\ Len(g) = n + 1
    BY <1>1, <2>5, FunctionIsSeq
  <2>7. \A i \in 1..(n + 1) : g[i] = Append(f, r.actions)[i]
    BY <1>1, <1>2, <2>4
  <2>8. ActionsOf(more) = FlattenSeq(g) /\ ActionsOf(s) = FlattenSeq(f)
    BY <1>2 DEF ActionsOf
  <2> HIDE DEF f, g
  <2>9. g = Append(f, r.actions)
    BY <2>4, <2>6, <2>7, SeqEqual
  <2> QED
    BY <2>2, <2>3, <2>8, <2>9, FlattenAppend
<1>7. Trailing(s) \in Nat /\ Trailing(more) = IF r.actions = <<>> THEN Trailing(s) + 1 ELSE 0
  <2> DEFINE E == {i \in 1..n : s[i].actions # <<>>}
             F == {i \in 1..(n + 1) : more[i].actions # <<>>}
  <2>1. /\ Trailing(s) = n - (IF E = {} THEN 0 ELSE Max(E))
        /\ Trailing(more) = (n + 1) - (IF F = {} THEN 0 ELSE Max(F))
    BY <1>1, <1>2 DEF Trailing
  <2>2. F = IF r.actions = <<>> THEN E ELSE E \cup {n + 1}
    BY <1>1, <1>2
  <2>3. E \subseteq 1..n
    OBVIOUS
  <2> HIDE DEF E, F
  <2>4. ASSUME E # {} PROVE Max(E) \in 1..n
    <3> DEFINE B == {b \in Nat : \A y \in E : b >= y}
    <3>1. n \in B
      BY <1>1, <2>3
    <3>2. PICK m \in B : \A b \in B : m <= b
      BY <3>1, LeastElement
    <3>3. m \in E
      <4> SUFFICES ASSUME m \notin E PROVE FALSE
        OBVIOUS
      <4>1. \A y \in E : y \in Nat /\ y # 0 /\ m >= y /\ m # y
        BY <1>1, <2>3, <3>2
      <4>2. m - 1 \in Nat /\ \A y \in E : m - 1 >= y
        BY <2>4, <3>2, <4>1
      <4> QED
        BY <3>2, <4>2
    <3>4. \E x \in E : \A y \in E : x >= y
      BY <3>2, <3>3
    <3>5. Max(E) \in E
      BY <3>4 DEF Max
    <3> QED
      BY <2>3, <3>5
  <2>5. CASE r.actions = <<>>
    <3>1. F = E
      BY <2>2, <2>5
    <3>2. PICK m \in 0..n : m = IF E = {} THEN 0 ELSE Max(E)
      BY <1>1, <2>4
    <3>3. Trailing(s) = n - m /\ Trailing(more) = (n + 1) - m
      BY <2>1, <3>1, <3>2
    <3> QED
      BY <1>1, <2>5, <3>2, <3>3
  <2>6. CASE r.actions # <<>>
    <3>1. F = E \cup {n + 1}
      BY <2>2, <2>6
    <3>2. Max(F) = n + 1
      <4>1. n + 1 \in F /\ \A y \in F : y \in 1..(n + 1)
        BY <1>1, <2>3, <3>1
      <4>2. PICK x \in F : x = n + 1 /\ \A y \in F : x >= y
        BY <1>1, <4>1
      <4>3. Max(F) \in F /\ \A y \in F : Max(F) >= y
        BY <4>2 DEF Max
      <4>4. Max(F) >= n + 1 /\ Max(F) \in 1..(n + 1)
        BY <4>1, <4>3
      <4> QED
        BY <1>1, <4>4
    <3>3. Trailing(more) = 0
      BY <1>1, <2>1, <3>1, <3>2
    <3>4. PICK m \in 0..n : m = IF E = {} THEN 0 ELSE Max(E)
      BY <1>1, <2>4
    <3>5. Trailing(s) = n - m
      BY <2>1, <3>4
    <3> QED
      BY <1>1, <2>6, <3>3, <3>4, <3>5
  <2> QED
    BY <2>5, <2>6
<1> QED
  BY <1>1, <1>3, <1>4, <1>5, <1>6, <1>7

\* Nothing is said of a run that has resolved nothing.
LEMMA NoResolutions == Covers(<<>>, <<>>) /\ Trailing(<<>>) = 0
<1>1. <<>> \in Seq(Seq(ConcreteAction)) /\ Len(<<>>) = 0 /\ DOMAIN <<>> = {}
  BY EmptySeq
<1>2. [i \in DOMAIN <<>> |-> <<>>[i].actions] = <<>>
  BY <1>1
<1>3. FlattenSeq(<<>>) = <<>>
  BY <1>1 DEF FlattenSeq
<1> QED
  BY <1>1, <1>2, <1>3 DEF Covers, ActionsOf, AllValid, Trailing

\* The invariant says what the properties say.
LEMMA AccountsExplain == EngineAccounts => ResolutionsCoverActions /\ TerminationExplained
<1> SUFFICES ASSUME EngineAccounts PROVE ResolutionsCoverActions /\ TerminationExplained
  OBVIOUS
<1>1. /\ Resolved = ActionsOf(result.resolutions)
      /\ TrailingNoops = Trailing(result.resolutions)
  BY DEF Resolved, ActionsOf, TrailingNoops, Trailing
<1>2. ResolutionsCoverActions
  BY <1>1 DEF EngineAccounts, Settled, Told, Covers, AllValid, ResolutionsCoverActions
<1>3. TerminationExplained
  BY <1>1 DEF EngineAccounts, Going, Settled, Told, TerminationExplained
<1> QED
  BY <1>2, <1>3

\* A run that ends otherwise than completed explains nothing.
LEMMA Stopped ==
    /\ stage' = "ready" /\ result'.status # "completed" => EngineAccounts'
    /\ \A outcome \in Outcomes \ {"completed"}, r \in Results :
          TypeOK /\ Stop(outcome, r) => EngineAccounts'
<1>1. stage' = "ready" /\ result'.status # "completed" => EngineAccounts'
  BY DEF EngineAccounts, Completed
<1>2. ASSUME NEW outcome \in Outcomes \ {"completed"}, NEW r \in Results, TypeOK,
             Stop(outcome, r)
      PROVE  EngineAccounts'
  <2>1. Capture(r) \in Results
    BY <1>2, CaptureType
  <2>2. stage' = "ready" /\ result'.status = outcome
    BY <1>2, <2>1 DEF Stop, Results
  <2> QED
    BY <1>1, <2>2
<1> QED
  BY <1>1, <1>2

\* What is left of a result when the plan loop is broken off.
LEMMA BrokenOff ==
    ASSUME NEW r \in Results, NEW reason, Break(reason, r)
    PROVE  /\ stage' = "finish" /\ result'.termination = reason
           /\ result'.budgetExhausted <=> reason # "model_bound_reached"
           /\ result'.resolutions = r.resolutions /\ result'.actions = r.actions
  BY DEF Break, Results

\* Capture takes over the trace and the failure, and nothing else.
LEMMA CapturedSame ==
    ASSUME NEW r \in Results
    PROVE  /\ Capture(r).resolutions = r.resolutions /\ Capture(r).actions = r.actions
           /\ Capture(r).termination = r.termination
           /\ Capture(r).budgetExhausted = r.budgetExhausted
  BY DEF Capture, Results

\* A counter below its limit reaches it with the next step, or stays below.
LEMMA Limit ==
    ASSUME NEW n \in Nat, NEW m \in Nat, m > 0 => n < m
    PROVE  /\ m > 0 /\ n + 1 >= m => n + 1 = m
           /\ ~(m > 0 /\ n + 1 >= m) => (m > 0 => n + 1 < m)
  OBVIOUS

\* After a plan action that executed nothing the loop goes on, or has just
\* reached its limit.
LEMMA AccountsNoop ==
    ASSUME NEW r \in Results, r.termination = "", ~r.budgetExhausted,
           NEW l \in [processed : Nat, noops : Nat, policyComplete : BOOLEAN],
           l.processed = Len(r.resolutions), ~l.policyComplete,
           MaxConsecutiveNoops > 0 => l.noops < MaxConsecutiveNoops,
           Covers(r.resolutions, r.actions), Trailing(r.resolutions) = l.noops + 1,
           Noop(l, r)
    PROVE  EngineAccounts'
<1>0. /\ MaxConsecutiveNoops > 0 /\ l.noops + 1 >= MaxConsecutiveNoops
            => l.noops + 1 = MaxConsecutiveNoops
      /\ ~(MaxConsecutiveNoops > 0 /\ l.noops + 1 >= MaxConsecutiveNoops)
            => (MaxConsecutiveNoops > 0 => l.noops + 1 < MaxConsecutiveNoops)
  <2>1. l.noops \in Nat
    OBVIOUS
  <2>2. MaxConsecutiveNoops \in Nat
    BY EngineAssumption
  <2> QED
    BY <2>1, <2>2, Limit, Zenon
<1>1. /\ loop'.noops = l.noops + 1 /\ loop'.processed = l.processed
      /\ loop'.policyComplete = l.policyComplete
  BY DEF Noop
<1>2. CASE MaxConsecutiveNoops > 0 /\ l.noops + 1 >= MaxConsecutiveNoops
  <2>1. Break("consecutive_noops", r)
    BY <1>2 DEF Noop
  <2>2. Trailing(r.resolutions) = MaxConsecutiveNoops
    BY <1>0, <1>2, Zenon
  <2>3. /\ stage' = "finish" /\ result'.termination = "consecutive_noops"
        /\ result'.budgetExhausted /\ result'.resolutions = r.resolutions
        /\ result'.actions = r.actions
    BY <2>1, BrokenOff, "consecutive_noops" # "model_bound_reached", Zenon
  <2>4. Over'
    BY <2>2, <2>3 DEF Over
  <2> QED
    BY <2>3, <2>4 DEF EngineAccounts, Completed
<1>3. CASE ~(MaxConsecutiveNoops > 0 /\ l.noops + 1 >= MaxConsecutiveNoops)
  <2>1. stage' = "plan" /\ result' = r
    BY <1>3 DEF Noop
  <2>2. MaxConsecutiveNoops > 0 => l.noops + 1 < MaxConsecutiveNoops
    BY <1>0, <1>3, Zenon
  <2> QED
    BY <1>1, <2>1, <2>2 DEF EngineAccounts, Going, Settled, Completed
<1> QED
  BY <1>2, <1>3

\* A plan action is resolved, or the loop ends.
LEMMA AccountsPlan ==
    ASSUME Types, EngineFrame, EngineAccounts,
           \/ PlanCanceled \/ PolicyEnds \/ PolicyFails \/ PlanEnds
           \/ \E p \in PlanActions : Plan(p)
    PROVE  EngineAccounts'
<1>1. /\ result \in Results /\ TypeOK /\ result.resolutions \in Seq(Resolutions)
      /\ loop \in [processed : Nat, noops : Nat, policyComplete : BOOLEAN]
      /\ source \in Sources /\ source.maximum \in Nat /\ loop.processed <= source.maximum
  BY EngineAssumption DEF EngineFrame, EngineTypeOK, Types, Results
<1>2. stage = "plan" /\ Going /\ Settled
  BY DEF EngineAccounts, PlanCanceled, PolicyEnds, PolicyFails, PlanEnds, Plan, Looping
<1>3. CASE PlanCanceled \/ PolicyFails
  BY <1>1, <1>3, Stopped DEF PlanCanceled, PolicyFails, Outcomes
<1>4. CASE PolicyEnds
  <2>1. /\ stage' = "finish" /\ UNCHANGED <<source, result>> /\ source.online
        /\ loop.processed < source.maximum
        /\ loop'.policyComplete /\ loop'.processed = loop.processed
    BY <1>1, <1>4 DEF PolicyEnds, Looping
  <2> QED
    BY <1>2, <2>1 DEF EngineAccounts, Going, Settled, Over, Completed
<1>5. CASE PlanEnds
  <2>1. /\ stage' = "finish" /\ UNCHANGED <<source, loop, result>>
        /\ loop.processed = source.maximum
    BY <1>1, <1>5 DEF PlanEnds, frame
  <2> QED
    BY <1>2, <2>1 DEF EngineAccounts, Going, Settled, Over, Completed
<1>6. ASSUME NEW p \in PlanActions, Plan(p) PROVE EngineAccounts'
  <2> DEFINE r == Resolve(p, view)
             more == Append(result.resolutions, r)
             noted == [result EXCEPT !.resolutions = more]
             counted == [loop EXCEPT !.processed = @ + 1]
  <2>1. /\ \/ Stop("resolution_failed", noted)
           \/ ResolutionValid(r) /\ r.actions = <<>> /\ Noop(counted, noted)
           \/ /\ ResolutionValid(r) /\ r.actions # <<>> /\ stage' = "batch" /\ result' = noted
              /\ loop' = counted
              /\ batch' = [left |-> r.actions, executed |-> <<>>, inapplicable |-> FALSE]
    BY <1>6 DEF Plan, Rejected
  <2>2. r \in Resolutions /\ r.actions \in Seq(ConcreteAction)
    <3>1. r \in Resolutions
      BY <1>6, EngineAssumption, ResolveType DEF Plan, EngineFrame, EngineTypeOK
    <3> HIDE DEF r
    <3> QED
      BY <3>1 DEF Resolutions
  <2> HIDE DEF r
  <2>3. /\ more \in Seq(Resolutions) /\ Len(more) = Len(result.resolutions) + 1
        /\ Last(more) = r /\ Front(more) = result.resolutions
        /\ ActionsOf(more) = ActionsOf(result.resolutions) \o r.actions
        /\ ActionsOf(result.resolutions) \in Seq(ConcreteAction)
        /\ Trailing(more) = IF r.actions = <<>> THEN Trailing(result.resolutions) + 1 ELSE 0
        /\ AllValid(more) <=> AllValid(result.resolutions) /\ ResolutionValid(r)
    BY <1>1, <2>2, OneResolutionMore
  <2> HIDE DEF more
  <2>4. /\ noted \in Results /\ noted.resolutions = more /\ noted.actions = result.actions
        /\ noted.termination = "" /\ ~noted.budgetExhausted
    BY <1>1, <1>2, <2>3 DEF Results, Going
  <2>5. /\ counted \in [processed : Nat, noops : Nat, policyComplete : BOOLEAN]
        /\ counted.noops = loop.noops /\ counted.processed = Len(more) /\ ~counted.policyComplete
    <3>1. /\ loop.processed \in Nat /\ counted.processed = loop.processed + 1
          /\ counted.noops = loop.noops /\ counted.policyComplete = loop.policyComplete
      BY <1>1
    <3>2. counted \in [processed : Nat, noops : Nat, policyComplete : BOOLEAN]
      BY <1>1
    <3> HIDE DEF counted
    <3> QED
      BY <1>2, <2>3, <3>1, <3>2 DEF Going
  <2> HIDE DEF noted, counted
  <2>6. CASE Stop("resolution_failed", noted)
    BY <1>1, <2>4, <2>6, Stopped DEF Outcomes
  <2>7. CASE ResolutionValid(r) /\ r.actions = <<>> /\ Noop(counted, noted)
    <3>1. ActionsOf(more) = ActionsOf(result.resolutions)
      BY <2>3, <2>7, ConcatProperties
    <3>2. Covers(noted.resolutions, noted.actions) /\ Trailing(noted.resolutions) = counted.noops + 1
      BY <1>2, <2>3, <2>4, <2>5, <2>7, <3>1 DEF Settled, Covers
    <3>3. MaxConsecutiveNoops > 0 => counted.noops < MaxConsecutiveNoops
      BY <1>2, <2>5 DEF Going
    <3> QED
      BY <2>4, <2>5, <2>7, <3>2, <3>3, AccountsNoop
  <2>8. CASE /\ ResolutionValid(r) /\ r.actions # <<>> /\ stage' = "batch" /\ result' = noted
             /\ loop' = counted
             /\ batch' = [left |-> r.actions, executed |-> <<>>, inapplicable |-> FALSE]
    <3>1. Going'
      BY <1>2, <2>4, <2>5, <2>8 DEF Going
    <3>2. /\ result.actions = ActionsOf(result.resolutions) \o <<>>
          /\ <<>> \o r.actions = r.actions
          /\ Len(<<>>) + Len(r.actions) <= Len(r.actions)
      BY <1>2, <2>2, <2>3, ConcatProperties, LenProperties DEF Settled, Covers
    <3>3. AllValid(more)
      BY <1>2, <2>3, <2>8 DEF Settled, Covers
    <3>4. Partway'
      BY <1>2, <2>3, <2>4, <2>5, <2>8, <3>2, <3>3 DEF Partway, Settled
    <3> QED
      BY <2>8, <3>1, <3>4 DEF EngineAccounts, Completed
  <2> QED
    BY <2>1, <2>6, <2>7, <2>8
<1> QED
  BY <1>3, <1>4, <1>5, <1>6

\* The last resolution, rewritten to what has been executed of it.
LEMMA LastMarked ==
    ASSUME result \in Results, result.resolutions # <<>>, NEW q \in Resolutions,
           AllValid(result.resolutions), ResolutionValid(q),
           result.actions = ActionsOf(Front(result.resolutions)) \o q.actions
    PROVE  /\ Marked(q) \in Results /\ Marked(q).actions = result.actions
           /\ Marked(q).termination = result.termination
           /\ Marked(q).budgetExhausted = result.budgetExhausted
           /\ Covers(Marked(q).resolutions, result.actions)
           /\ Len(Marked(q).resolutions) = Len(result.resolutions)
           /\ Trailing(Marked(q).resolutions)
                 = IF q.actions = <<>> THEN Trailing(Front(result.resolutions)) + 1 ELSE 0
<1> DEFINE front == Front(result.resolutions)
           last == Last(result.resolutions)
           more == Append(front, q)
<1>1. /\ front \in Seq(Resolutions) /\ last \in Resolutions
      /\ result.resolutions = Append(front, last)
  BY LastOfAll DEF Results
<1>2. AllValid(front) /\ Len(result.resolutions) = Len(front) + 1
  <2> HIDE DEF front, last
  <2> QED
    BY <1>1, OneResolutionMore
<1>3. /\ more \in Seq(Resolutions) /\ Len(more) = Len(front) + 1
      /\ ActionsOf(more) = ActionsOf(front) \o q.actions
      /\ Trailing(more) = IF q.actions = <<>> THEN Trailing(front) + 1 ELSE 0
      /\ AllValid(more)
  <2> HIDE DEF front
  <2> QED
    BY <1>1, <1>2, OneResolutionMore
<1>4. Marked(q) = [result EXCEPT !.resolutions = more]
  BY DEF Marked
<1> HIDE DEF more
<1>5. /\ Marked(q) \in Results /\ Marked(q).resolutions = more /\ Marked(q).actions = result.actions
      /\ Marked(q).termination = result.termination
      /\ Marked(q).budgetExhausted = result.budgetExhausted
  BY <1>3, <1>4 DEF Results
<1> QED
  BY <1>2, <1>3, <1>5 DEF Covers

\* However little of it was executed, the resolution so rewritten is valid.
LEMMA MarksValid ==
    ASSUME NEW r \in Resolutions, ResolutionValid(r), r.actions # <<>>,
           NEW executed \in Seq(ConcreteAction), Len(executed) <= Len(r.actions)
    PROVE  /\ LET q == MarkInapplicable(r, executed) IN
              q \in Resolutions /\ ResolutionValid(q) /\ q.actions = executed
           /\ LET q == MarkStopped(r, "model_bound") IN
              q \in Resolutions /\ ResolutionValid(q) /\ q.actions = <<>>
<1>1. /\ r.requested \in Nat /\ r.requested > 0 /\ r.actions \in Seq(ConcreteAction)
      /\ Len(r.actions) \in Nat \ {0} /\ Len(executed) \in Nat
      /\ executed = <<>> <=> Len(executed) = 0
  BY EmptySeq, LenProperties DEF Resolutions, ResolutionValid
<1>2. /\ r.status \in {"resolved", "partial"} /\ Len(r.actions) <= r.requested
      /\ r.status = "partial" => Len(r.actions) < r.requested
  BY <1>1 DEF ResolutionValid
<1> DEFINE q == MarkInapplicable(r, executed)
<1>3. q \in Resolutions /\ MarkStopped(r, "model_bound") \in Resolutions
  BY MarkType
<1>4. /\ q.actions = executed /\ q.requested = r.requested
      /\ q.status = IF executed = <<>> THEN "inapplicable"
                    ELSE IF Len(executed) < r.requested THEN "partial" ELSE r.status
  BY DEF MarkInapplicable, Resolutions
<1>5. ResolutionValid(q)
  <2> HIDE DEF q
  <2>1. CASE executed = <<>>
    <3>1. Len(q.actions) = 0 /\ q.status = "inapplicable" /\ q.actions = <<>>
      BY <1>1, <1>4, <2>1
    <3> QED
      BY <1>1, <1>4, <3>1 DEF ResolutionValid
  <2>2. CASE executed # <<>> /\ Len(executed) < r.requested
    <3>1. q.status = "partial" /\ Len(q.actions) \in 1..(q.requested - 1)
      BY <1>1, <1>4, <2>2
    <3> QED
      BY <1>1, <1>4, <3>1 DEF ResolutionValid
  <2>3. CASE executed # <<>> /\ ~(Len(executed) < r.requested)
    <3>1. q.status = "resolved" /\ Len(q.actions) = q.requested
      BY <1>1, <1>2, <1>4, <2>3
    <3> QED
      BY <1>1, <1>4, <3>1 DEF ResolutionValid
  <2> QED
    BY <2>1, <2>2, <2>3
<1>6. LET p == MarkStopped(r, "model_bound") IN ResolutionValid(p) /\ p.actions = <<>>
  <2> DEFINE p == MarkStopped(r, "model_bound")
  <2>1. p.actions = <<>> /\ p.status = "model_bound" /\ p.requested = r.requested
    BY DEF MarkStopped, Resolutions
  <2> HIDE DEF p
  <2>2. Len(p.actions) = 0
    BY <2>1, EmptySeq
  <2>3. ResolutionValid(p)
    BY <1>1, <2>1, <2>2 DEF ResolutionValid
  <2> QED
    BY <2>1, <2>3 DEF p
<1> QED
  BY <1>3, <1>4, <1>5, <1>6

\* Both parts of a batch fit where the whole does, and one action less as well.
LEMMA Fits ==
    ASSUME NEW done \in Nat, NEW left \in Nat, NEW all \in Nat, done + left <= all
    PROVE  done <= all /\ (left # 0 => done + (left - 1) <= all /\ (done + 1) + (left - 1) <= all)
  OBVIOUS

\* The actions of a batch are skipped, refused or used up.
LEMMA AccountsBatch ==
    ASSUME Types, EngineFrame, EngineAccounts,
           ActionInapplicable \/ ModelBoundReached \/ ActionUnsupported \/ BatchEnds \/ ExecuteRefused
    PROVE  EngineAccounts'
<1> DEFINE last == Last(result.resolutions)
           front == Front(result.resolutions)
<1>1. /\ result \in Results /\ TypeOK /\ result.resolutions \in Seq(Resolutions)
      /\ loop \in [processed : Nat, noops : Nat, policyComplete : BOOLEAN]
      /\ batch \in Batch /\ batch.left \in Seq(ConcreteAction)
      /\ batch.executed \in Seq(ConcreteAction)
  BY EngineAssumption DEF EngineFrame, EngineTypeOK, Types, Results, Batch
<1>2. /\ stage = "batch" /\ Going /\ Partway /\ result.resolutions # <<>>
  BY DEF EngineAccounts, EngineFrame, ActionInapplicable, ModelBoundReached, ActionUnsupported,
         BatchEnds, ExecuteRefused, Judged
<1>3. /\ front \in Seq(Resolutions) /\ last \in Resolutions
      /\ result.resolutions = Append(front, last) /\ LastResolution = last
  BY <1>1, <1>2, LastOfAll DEF LastResolution
<1>4. /\ ResolutionValid(last) /\ last.actions # <<>>
      /\ Len(batch.executed) + Len(batch.left) <= Len(last.actions)
  <2>1. AllValid(Append(front, last))
    BY <1>2, <1>3 DEF Partway
  <2> HIDE DEF front, last
  <2>2. ResolutionValid(last)
    BY <1>3, <2>1, OneResolutionMore
  <2> QED
    BY <1>2, <2>2 DEF Partway, last
<1>5. /\ Len(batch.executed) \in Nat /\ Len(batch.left) \in Nat /\ Len(last.actions) \in Nat
      /\ Len(batch.executed) <= Len(last.actions)
  <2>1. last.actions \in Seq(ConcreteAction)
    BY <1>3 DEF Resolutions
  <2>2. /\ Len(batch.executed) \in Nat /\ Len(batch.left) \in Nat /\ Len(last.actions) \in Nat
    BY <1>1, <2>1, LenProperties
  <2> HIDE DEF last
  <2>3. Len(batch.executed) + Len(batch.left) <= Len(last.actions)
    BY <1>4, Zenon
  <2>4. Len(batch.executed) <= Len(last.actions)
    BY <2>2, <2>3, Fits, Zenon
  <2> QED
    BY <2>2, <2>4, Zenon
<1> DEFINE q == MarkInapplicable(last, batch.executed)
           stopped == MarkStopped(last, "model_bound")
<1>6. /\ q \in Resolutions /\ ResolutionValid(q) /\ q.actions = batch.executed
      /\ stopped \in Resolutions /\ ResolutionValid(stopped) /\ stopped.actions = <<>>
  BY <1>1, <1>3, <1>4, <1>5, MarksValid
<1>7. result.actions = ActionsOf(front) \o batch.executed /\ AllValid(result.resolutions)
  BY <1>2 DEF Partway
<1> HIDE DEF last, front, q, stopped
<1>8. CASE ActionInapplicable
  <2>1. /\ stage' = "batch" /\ UNCHANGED <<loop, result>> /\ batch.left # <<>>
        /\ batch'.left = Tail(batch.left) /\ batch'.executed = batch.executed
        /\ batch'.inapplicable
    BY <1>1, <1>2, <1>8 DEF ActionInapplicable, Judged, Batch
  <2>2. Len(batch'.left) = Len(batch.left) - 1
    BY <1>1, <2>1, HeadTailProperties
  <2>3. Len(batch.executed) + (Len(batch.left) - 1) <= Len(last.actions)
    <3>1. Len(batch.left) # 0
      BY <1>1, <2>1, EmptySeq, LenProperties
    <3> QED
      BY <1>4, <1>5, <3>1, Fits, Zenon
  <2>4. Going' /\ Partway'
    BY <1>2, <2>1, <2>2, <2>3 DEF Going, Partway, last
  <2> QED
    BY <2>1, <2>4 DEF EngineAccounts, Completed
<1>9. CASE ActionUnsupported
  <2>1. PICK r \in Resolutions : Stop("unsupported_by_model", Marked(r))
    BY <1>3, <1>9, MarkType, EmptySeq, <1>1 DEF ActionUnsupported
  <2>2. Marked(r) \in Results
    BY <1>1, MarkedType
  <2> QED
    BY <1>1, <2>1, <2>2, Stopped DEF Outcomes
<1>10. CASE ModelBoundReached
  <2>1. PICK r \in Resolutions :
          /\ Break("model_bound_reached", Marked(r))
          /\ ResolutionValid(r) /\ r.actions = batch.executed
    BY <1>3, <1>6, <1>10 DEF ModelBoundReached, q, stopped
  <2>2. /\ Marked(r) \in Results /\ Marked(r).actions = result.actions
        /\ Covers(Marked(r).resolutions, result.actions)
    BY <1>1, <1>2, <1>7, <2>1, LastMarked DEF front
  <2>3. /\ stage' = "finish" /\ result'.termination = "model_bound_reached"
        /\ ~result'.budgetExhausted
        /\ Covers(result'.resolutions, result'.actions)
    BY <2>1, <2>2, BrokenOff
  <2>4. Over'
    BY <2>3 DEF Over
  <2> QED
    BY <2>3, <2>4 DEF EngineAccounts, Completed
<1>11. CASE BatchEnds
  <2> DEFINE noted == IF batch.inapplicable THEN Marked(q) ELSE result
  <2>1. /\ batch.left = <<>>
        /\ \/ batch.executed = <<>> /\ Noop(loop, noted)
           \/ /\ batch.executed # <<>> /\ loop' = [loop EXCEPT !.noops = 0]
              /\ stage' = "plan" /\ result' = noted
    BY <1>3, <1>11 DEF BatchEnds, q
  <2>2. /\ noted \in Results /\ noted.actions = result.actions
        /\ noted.termination = "" /\ ~noted.budgetExhausted
        /\ Covers(noted.resolutions, noted.actions)
        /\ Len(noted.resolutions) = Len(result.resolutions)
        /\ Trailing(noted.resolutions) = IF batch.executed = <<>> THEN loop.noops + 1 ELSE 0
    <3>1. CASE batch.inapplicable
      <4>1. /\ Marked(q) \in Results /\ Marked(q).actions = result.actions
            /\ Marked(q).termination = result.termination
            /\ Marked(q).budgetExhausted = result.budgetExhausted
            /\ Covers(Marked(q).resolutions, result.actions)
            /\ Len(Marked(q).resolutions) = Len(result.resolutions)
            /\ Trailing(Marked(q).resolutions)
                  = IF q.actions = <<>> THEN Trailing(front) + 1 ELSE 0
        BY <1>1, <1>2, <1>6, <1>7, LastMarked DEF front
      <4>2. loop.noops = Trailing(front) /\ result.termination = "" /\ ~result.budgetExhausted
        BY <1>2 DEF Partway, Going, front
      <4> QED
        BY <1>6, <3>1, <4>1, <4>2
    <3>2. CASE ~batch.inapplicable
      <4>1. batch.executed \o <<>> = last.actions
        BY <1>2, <2>1, <3>2 DEF Partway, last
      <4>2. batch.executed = last.actions
        BY <1>1, <4>1, ConcatProperties
      <4>3. /\ ActionsOf(result.resolutions) = ActionsOf(front) \o last.actions
            /\ Trailing(result.resolutions) = 0
        BY <1>3, <1>4, OneResolutionMore
      <4>4. result.termination = "" /\ ~result.budgetExhausted
        BY <1>2 DEF Going
      <4> QED
        BY <1>1, <1>4, <1>7, <3>2, <4>2, <4>3, <4>4 DEF Covers
    <3> QED
      BY <3>1, <3>2
  <2> HIDE DEF noted
  <2>3. loop.processed = Len(noted.resolutions) /\ ~loop.policyComplete
    BY <1>2, <2>2 DEF Going
  <2>4. MaxConsecutiveNoops > 0 => loop.noops < MaxConsecutiveNoops
    BY <1>2 DEF Going
  <2>5. CASE batch.executed = <<>> /\ Noop(loop, noted)
    <3>1. Trailing(noted.resolutions) = loop.noops + 1
      BY <2>2, <2>5
    <3> QED
      BY <1>1, <2>2, <2>3, <2>4, <2>5, <3>1, AccountsNoop
  <2>6. CASE /\ batch.executed # <<>> /\ loop' = [loop EXCEPT !.noops = 0]
             /\ stage' = "plan" /\ result' = noted
    <3>1. /\ loop'.noops = 0 /\ loop'.processed = loop.processed
          /\ loop'.policyComplete = loop.policyComplete
      BY <1>1, <2>6
    <3>2. Going' /\ Settled'
      BY <2>2, <2>3, <2>6, <3>1 DEF Going, Settled
    <3> QED
      BY <2>6, <3>2 DEF EngineAccounts, Completed
  <2> QED
    BY <2>1, <2>5, <2>6
<1>12. CASE ExecuteRefused
  <2>1. CASE Break("runtime_budget", Capture(result))
    <3>1. Capture(result) \in Results
      BY <1>1, CaptureType
    <3>2. /\ stage' = "finish" /\ result'.termination = "runtime_budget"
          /\ result'.budgetExhausted
      BY <2>1, <3>1, BrokenOff, "runtime_budget" # "model_bound_reached", Zenon
    <3>3. Over'
      BY <3>2 DEF Over
    <3> QED
      BY <3>2, <3>3 DEF EngineAccounts, Completed
  <2>2. CASE Stop("canceled", result) \/ Stop("runtime_failed", result)
    BY <1>1, <2>2, Stopped DEF Outcomes
  <2> QED
    BY <1>12, <2>1, <2>2 DEF ExecuteRefused
<1> QED
  BY <1>8, <1>9, <1>10, <1>11, <1>12

\* Inside Execute nothing of this changes.
LEMMA AccountsCall ==
    ASSUME EngineAccounts, Execute \/ Executing
    PROVE  EngineAccounts'
<1>1. /\ stage \in {"batch", "call"} /\ stage' = "call"
      /\ UNCHANGED <<loop, batch, result>>
  BY DEF Execute, Executing, Judged, engineVars, frame
<1> QED
  BY <1>1 DEF EngineAccounts, Going, Partway, Completed

\* The executed action moves from what is left of the resolution to what has
\* been executed of it.
LEMMA Moved ==
    ASSUME NEW S, NEW left \in Seq(S), left # <<>>
    PROVE  /\ Len(Tail(left)) = Len(left) - 1 /\ Len(left) \in Nat \ {0}
           /\ \A done \in Seq(S) :
                /\ Append(done, Head(left)) \o Tail(left) = done \o left
                /\ Len(Append(done, Head(left))) = Len(done) + 1 /\ Len(done) \in Nat
                /\ \A s \in Seq(S) : Append(s \o done, Head(left)) = s \o Append(done, Head(left))
<1> DEFINE c == Head(left)
<1>1. /\ c \in S /\ Tail(left) \in Seq(S) /\ left = <<c>> \o Tail(left) /\ <<c>> \in Seq(S)
      /\ Len(Tail(left)) = Len(left) - 1 /\ Len(left) \in Nat \ {0}
  BY HeadTailProperties, ConcatProperties, LenProperties, EmptySeq
<1> HIDE DEF c
<1>2. ASSUME NEW done \in Seq(S), NEW s \in Seq(S)
      PROVE  Append(s \o done, c) = s \o Append(done, c)
  <2>1. Append(s \o done, c) = (s \o done) \o <<c>> /\ Append(done, c) = done \o <<c>>
    BY <1>1, AppendIsConcat, ConcatProperties
  <2>2. (s \o done) \o <<c>> = s \o (done \o <<c>>)
    BY <1>1, ConcatAssociative
  <2> QED
    BY <2>1, <2>2
<1>3. ASSUME NEW done \in Seq(S)
      PROVE  /\ Append(done, c) \o Tail(left) = done \o left
             /\ Len(Append(done, c)) = Len(done) + 1 /\ Len(done) \in Nat
  <2>1. Append(done, c) = done \o <<c>>
    BY <1>1, AppendIsConcat
  <2>2. (done \o <<c>>) \o Tail(left) = done \o (<<c>> \o Tail(left))
    BY <1>1, ConcatAssociative
  <2>3. Len(Append(done, c)) = Len(done) + 1 /\ Len(done) \in Nat
    BY <1>1, AppendProperties, LenProperties
  <2> QED
    BY <1>1, <2>1, <2>2, <2>3
<1> QED
  BY <1>1, <1>2, <1>3 DEF c

\* The call returns: its action is accounted for, or the run ends with it.
LEMMA AccountsReturn ==
    ASSUME Types, EngineFrame, EngineAccounts, ExecuteFailed \/ ExecuteSucceeded
    PROVE  EngineAccounts'
<1>1. /\ result \in Results /\ TypeOK /\ result.resolutions \in Seq(Resolutions)
      /\ batch \in Batch /\ batch.left \in Seq(ConcreteAction)
      /\ batch.executed \in Seq(ConcreteAction) /\ result.actions \in Seq(ConcreteAction)
  BY EngineAssumption DEF EngineFrame, EngineTypeOK, Types, Results, Batch
<1>2. stage = "call" /\ Going /\ Partway /\ result.resolutions # <<>> /\ batch.left # <<>>
  BY DEF EngineAccounts, EngineFrame, ExecuteFailed, ExecuteSucceeded, Returned
<1>3. CASE ExecuteFailed
  <2>1. CASE Break("runtime_budget", Capture(result))
    <3>1. Capture(result) \in Results
      BY <1>1, CaptureType
    <3>2. /\ stage' = "finish" /\ result'.termination = "runtime_budget"
          /\ result'.budgetExhausted
      BY <2>1, <3>1, BrokenOff, "runtime_budget" # "model_bound_reached", Zenon
    <3>3. Over'
      BY <3>2 DEF Over
    <3> QED
      BY <3>2, <3>3 DEF EngineAccounts, Completed
  <2>2. CASE Stop("canceled", result) \/ Stop("runtime_failed", result)
    BY <1>1, <2>2, Stopped DEF Outcomes
  <2> QED
    BY <1>3, <2>1, <2>2 DEF ExecuteFailed
<1>4. CASE ExecuteSucceeded
  <2> DEFINE executed == [result EXCEPT !.actions = Append(@, Current)]
             mapped == [executed EXCEPT !.modelEvents = Append(@, Transition)]
             present == Last(result.resolutions).actions
             front == Front(result.resolutions)
  <2>1. /\ Returned /\ ~terminated /\ loop' = loop
        /\ \/ Stop("mapping_failed", executed) \/ Stop("mapping_failed", mapped)
           \/ Stop("oracle_failed", mapped)
           \/ stage' = "batch" /\ result' = mapped
    BY <1>4 DEF ExecuteSucceeded
  <2>2. /\ batch'.left = Tail(batch.left) /\ batch'.executed = Append(batch.executed, Current)
        /\ batch'.inapplicable = batch.inapplicable
    BY <1>1, <1>4 DEF ExecuteSucceeded, Batch
  <2>3. executed \in Results /\ mapped \in Results
    BY <1>2, <2>1, ExecutedType
  <2>4. /\ mapped.resolutions = result.resolutions /\ mapped.termination = result.termination
        /\ mapped.budgetExhausted = result.budgetExhausted
        /\ mapped.actions = Append(result.actions, Current)
    BY <1>1 DEF Results
  <2> HIDE DEF executed, mapped
  <2>5. CASE stage' = "batch" /\ result' = mapped
    <3>1. /\ front \in Seq(Resolutions) /\ Last(result.resolutions) \in Resolutions
          /\ present \in Seq(ConcreteAction)
      BY <1>1, <1>2, LastOfAll DEF Resolutions
    <3>2. ActionsOf(front) \in Seq(ConcreteAction)
      <4>1. PICK r \in Resolutions : TRUE
        BY <3>1
      <4> HIDE DEF front
      <4> QED
        BY <3>1, <4>1, OneResolutionMore
    <3>3. /\ result.actions = ActionsOf(front) \o batch.executed
          /\ Len(batch.executed) + Len(batch.left) <= Len(present)
          /\ batch.inapplicable \/ batch.executed \o batch.left = present
      BY <1>2 DEF Partway
    <3> HIDE DEF present, front
    <3>4. /\ Append(ActionsOf(front) \o batch.executed, Current)
                = ActionsOf(front) \o Append(batch.executed, Current)
          /\ Append(batch.executed, Current) \o Tail(batch.left) = batch.executed \o batch.left
          /\ Len(Append(batch.executed, Current)) = Len(batch.executed) + 1
          /\ Len(Tail(batch.left)) = Len(batch.left) - 1
          /\ Len(batch.executed) \in Nat /\ Len(batch.left) \in Nat \ {0}
      <4>1. /\ Len(Tail(batch.left)) = Len(batch.left) - 1 /\ Len(batch.left) \in Nat \ {0}
            /\ \A done \in Seq(ConcreteAction) :
                 /\ Append(done, Head(batch.left)) \o Tail(batch.left) = done \o batch.left
                 /\ Len(Append(done, Head(batch.left))) = Len(done) + 1 /\ Len(done) \in Nat
                 /\ \A s \in Seq(ConcreteAction) :
                       Append(s \o done, Head(batch.left)) = s \o Append(done, Head(batch.left))
        BY <1>1, <1>2, Moved, ZenonT(60)
      <4>2. Current = Head(batch.left)
        BY DEF Current
      <4>3. /\ Append(batch.executed, Head(batch.left)) \o Tail(batch.left)
                  = batch.executed \o batch.left
            /\ Len(Append(batch.executed, Head(batch.left))) = Len(batch.executed) + 1
            /\ Len(Tail(batch.left)) = Len(batch.left) - 1
            /\ Len(batch.executed) \in Nat /\ Len(batch.left) \in Nat \ {0}
            /\ \A t \in Seq(ConcreteAction) :
                  Append(t \o batch.executed, Head(batch.left))
                     = t \o Append(batch.executed, Head(batch.left))
        BY <1>1, <4>1, Zenon
      <4>4. Append(ActionsOf(front) \o batch.executed, Head(batch.left))
                  = ActionsOf(front) \o Append(batch.executed, Head(batch.left))
        BY <3>2, <4>3, Zenon
      <4> QED
        BY <4>2, <4>3, <4>4, Zenon
    <3>5. mapped.actions = ActionsOf(front) \o batch'.executed
      BY <2>2, <2>4, <3>3, <3>4, Zenon
    <3>6. Len(batch'.executed) + Len(batch'.left) <= Len(present)
      <4>1. Len(present) \in Nat /\ Len(batch.left) \in Nat /\ Len(batch.left) # 0
        BY <3>1, <3>4, LenProperties
      <4>2. (Len(batch.executed) + 1) + (Len(batch.left) - 1) <= Len(present)
        BY <3>3, <3>4, <4>1, Fits, Zenon
      <4> QED
        BY <2>2, <3>4, <4>2, Zenon
    <3>7. batch'.inapplicable \/ batch'.executed \o batch'.left = present
      BY <2>2, <3>3, <3>4, Zenon
    <3>8. Going'
      BY <1>2, <2>1, <2>4, <2>5 DEF Going
    <3>9. Partway'
      BY <1>2, <2>1, <2>4, <2>5, <3>5, <3>6, <3>7 DEF Partway, front, present
    <3> QED
      BY <2>5, <3>8, <3>9 DEF EngineAccounts, Completed
  <2> QED
    BY <1>1, <2>1, <2>3, <2>5, Stopped DEF Outcomes
<1> QED
  BY <1>3, <1>4

\* What the run says of its end is what the plan loop has ended with.
LEMMA AccountsFinish ==
    ASSUME EngineFrame, EngineAccounts, Finish
    PROVE  EngineAccounts'
<1>1. result \in Results /\ source \in Sources /\ loop.processed \in Nat
  BY EngineAssumption DEF EngineFrame, EngineTypeOK
<1>2. stage = "finish" /\ stage' = "ready" /\ UNCHANGED source /\ Over
  BY DEF Finish, EngineAccounts, frame
<1>3. /\ result'.termination = Reason
      /\ result'.budgetExhausted
            <=> result.budgetExhausted \/ (result.termination = "" /\ Reason = "plan_action_budget")
      /\ result'.resolutions = result.resolutions /\ result'.actions = result.actions
  <2> DEFINE ended == [Capture(result) EXCEPT !.termination = Reason,
                         !.budgetExhausted = @ \/ (result.termination = "" /\ Reason = "plan_action_budget"),
                         !.modelExecuted = ModelExecutor]
  <2>1. \E outcome : result' = [ended EXCEPT !.status = outcome]
    BY DEF Finish
  <2>2. /\ ended.termination = Reason
        /\ ended.budgetExhausted
              = (result.budgetExhausted \/ (result.termination = "" /\ Reason = "plan_action_budget"))
        /\ ended.resolutions = result.resolutions /\ ended.actions = result.actions
        /\ {"termination", "budgetExhausted", "resolutions", "actions"} \subseteq DOMAIN ended
    BY <1>1, CapturedSame DEF Capture, Results
  <2> HIDE DEF ended
  <2> QED
    BY <2>1, <2>2
<1>4. CASE result.termination # ""
  <2>1. Reason = result.termination
    BY <1>4 DEF Reason
  <2> QED
    BY <1>2, <1>3, <1>4, <2>1 DEF Over, Told, EngineAccounts
<1>5. CASE result.termination = ""
  <2>1. /\ loop.processed = Len(result.resolutions)
        /\ Covers(result.resolutions, result.actions) /\ ~result.budgetExhausted
        /\ MaxConsecutiveNoops > 0 => Trailing(result.resolutions) < MaxConsecutiveNoops
        /\ IF loop.policyComplete THEN source.online /\ loop.processed < source.maximum
           ELSE loop.processed = source.maximum
    BY <1>2, <1>5 DEF Over
  <2>2. MaxConsecutiveNoops = 0 \/ Trailing(result.resolutions) < MaxConsecutiveNoops
    BY <2>1, EngineAssumption
  <2>3. /\ source.maximum \in Nat
        /\ source.online => source.budgeted
        /\ source.online \in BOOLEAN /\ source.budgeted \in BOOLEAN
    BY <1>1, EngineAssumption
  <2>4. Reason = IF source.budgeted /\ loop.processed = source.maximum THEN "plan_action_budget"
                 ELSE IF loop.policyComplete THEN "policy_complete"
                 ELSE IF ~source.online THEN "plan_complete" ELSE ""
    BY <1>5 DEF Reason
  <2>5. CASE loop.policyComplete
    <3>1. Reason = "policy_complete" /\ loop.processed < source.maximum
      BY <1>1, <2>1, <2>3, <2>4, <2>5
    <3> QED
      BY <1>2, <1>3, <1>5, <2>1, <2>2, <2>5, <3>1 DEF Told, EngineAccounts
  <2>6. CASE ~loop.policyComplete
    <3>1. Reason = IF source.budgeted THEN "plan_action_budget" ELSE "plan_complete"
      <4>1. loop.processed = source.maximum
        BY <2>1, <2>6
      <4>2. CASE source.budgeted
        BY <2>4, <4>1, <4>2
      <4>3. CASE ~source.budgeted
        <5>1. ~source.online
          BY <2>3, <4>3
        <5> QED
          BY <2>4, <2>6, <4>3, <5>1
      <4> QED
        BY <4>2, <4>3
    <3> QED
      BY <1>2, <1>3, <1>5, <2>1, <2>2, <2>3, <2>6, <3>1 DEF Told, EngineAccounts
  <2> QED
    BY <2>5, <2>6
<1> QED
  BY <1>4, <1>5

\* A new run has nothing to account for.
LEMMA AccountsBegin ==
    ASSUME NEW s \in Sources, Begin(s) \/ BeginFails(s)
    PROVE  EngineAccounts'
<1>1. /\ NewResult.resolutions = <<>> /\ NewResult.actions = <<>> /\ NewResult.termination = ""
      /\ ~NewResult.budgetExhausted
  BY DEF NewResult
<1>2. CASE Begin(s)
  <2>1. loop' = NewLoop
    BY <1>2 DEF Begin, Fresh
  <2>2. CASE stage' = "plan" /\ result' = NewResult
    <3>1. loop'.processed = 0 /\ loop'.noops = 0 /\ ~loop'.policyComplete
      BY <2>1 DEF NewLoop
    <3>2. Len(<<>>) = 0 /\ (MaxConsecutiveNoops > 0 => 0 < MaxConsecutiveNoops)
      BY EmptySeq
    <3>3. Going'
      BY <1>1, <2>2, <3>1, <3>2 DEF Going
    <3>4. Settled'
      BY <1>1, <2>2, <3>1, NoResolutions DEF Settled
    <3> QED
      BY <2>2, <3>3, <3>4 DEF EngineAccounts, Completed
  <2>3. ASSUME NEW outcome \in {"oracle_failed", "policy_failed"}, stage' = "ready",
               result' = [NewResult EXCEPT !.status = outcome]
        PROVE  EngineAccounts'
    <3>1. result'.status = outcome
      BY <2>3, NewResultType DEF Results
    <3> QED
      BY <2>3, <3>1, Stopped
  <2> QED
    BY <1>2, <2>2, <2>3 DEF Begin
<1>3. CASE BeginFails(s)
  <2>1. stage' = "ready" /\ result'.status = (IF canceled' THEN "canceled" ELSE "runtime_failed")
    BY <1>3, NewResultType DEF BeginFails, Results
  <2> QED
    BY <2>1, Stopped
<1> QED
  BY <1>2, <1>3

\* No run has ended yet.
LEMMA EngineAccountsInit == EngineInit => EngineAccounts
<1> SUFFICES ASSUME EngineInit PROVE EngineAccounts
  OBVIOUS
<1>1. stage = "ready" /\ result.status = "none"
  BY DEF EngineInit, NewResult
<1> QED
  BY <1>1 DEF EngineAccounts, Completed

\* Whatever the Engine does, the account stays true.
LEMMA EngineAccountsStep ==
    Types /\ EngineFrame /\ EngineAccounts /\ [EngineNext]_allVars => EngineAccounts'
<1> SUFFICES ASSUME Types, EngineFrame, EngineAccounts, [EngineNext]_allVars
             PROVE  EngineAccounts'
  OBVIOUS
<1>1. CASE RunCanceled
  <2>1. stage' = "ready" /\ result'.status = "canceled"
    BY <1>1, NewResultType DEF RunCanceled, Results
  <2> QED
    BY <2>1, Stopped
<1>2. CASE Cancel \/ UNCHANGED allVars
  <2>1. UNCHANGED <<stage, source, loop, batch, result>>
    BY <1>2 DEF Cancel, allVars, engineVars, frame
  <2> QED
    BY <2>1 DEF EngineAccounts, Going, Settled, Partway, Over, Told, Completed
<1> QED
  BY <1>1, <1>2, AccountsBegin, AccountsPlan, AccountsBatch, AccountsCall, AccountsReturn,
     AccountsFinish DEF EngineNext, EngineStep

\* Between plan actions and at the end of a run, unless the Runtime's budget cut
\* it off, the resolutions as markInapplicable has rewritten them are valid and
\* hold exactly the actions executed, in their order.
THEOREM ResolutionsCorrect == EngineSpec => []ResolutionsCoverActions
<1>1. EngineInit => Types /\ EngineFrame /\ EngineAccounts
  BY FrameInit, EngineAccountsInit
<1>2. Types /\ EngineFrame /\ EngineAccounts /\ [EngineNext]_allVars
        => Types' /\ EngineFrame' /\ EngineAccounts'
  BY FrameStep, EngineAccountsStep
<1>3. EngineAccounts => ResolutionsCoverActions
  BY AccountsExplain
<1> QED
  BY <1>1, <1>2, <1>3, PTL DEF EngineSpec

\* The no-op counter is what the resolutions say it is, and a completed run
\* names the one reason for which its plan loop ended.
THEOREM ExplainedCorrect == EngineSpec => []TerminationExplained
<1>1. EngineInit => Types /\ EngineFrame /\ EngineAccounts
  BY FrameInit, EngineAccountsInit
<1>2. Types /\ EngineFrame /\ EngineAccounts /\ [EngineNext]_allVars
        => Types' /\ EngineFrame' /\ EngineAccounts'
  BY FrameStep, EngineAccountsStep
<1>3. EngineAccounts => TerminationExplained
  BY AccountsExplain
<1> QED
  BY <1>1, <1>2, <1>3, PTL DEF EngineSpec
=============================================================================
