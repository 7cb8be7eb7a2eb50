------------------------------ MODULE Resolver ------------------------------
(***************************************************************************)
(* internal/plan: how one plan action is expanded, against one observation,*)
(* into the concrete actions the Engine executes one after the other.      *)
(*                                                                         *)
(* A plan action names a range of positions of a link, a member, or a      *)
(* number of ticks.  A concrete action is an Action of the Runtime with    *)
(* the place <<link, position>> of its message, or <<>>.  Positions count  *)
(* from 1 here and from 0 in the code.                                     *)
(***************************************************************************)
EXTENDS Runtime

CONSTANTS
    MaxAdvanceTicks, MaxMessageBatch,   \* ResolverConfig
    ClampMessageStart

ASSUME ResolverAssumption ==
    /\ MaxAdvanceTicks \in Nat \ {0} /\ MaxMessageBatch \in Nat \ {0}
    /\ ClampMessageStart \in BOOLEAN

\* What PlanAction.Validate lets through.
PlanAction ==
    [kind : MessageKinds, link : Links, start : Nat \ {0}, count : Nat \ {0}]
    \cup [kind : {"advance_ticks"}, ticks : Nat \ {0}]
    \cup [kind : NodeKinds, node : Nodes]

\* A concrete action as the Resolver builds it.
ConcreteAction ==
    [action : [kind : MessageKinds, node : {NoNode}, message : IDs, target : {0}],
     at : Links \X (Nat \ {0})]
    \cup [action : [kind : NodeKinds, node : Nodes, message : {0}, target : {0}], at : {<<>>}]
    \cup [action : [kind : {"advance_time"}, node : {NoNode}, message : {0}, target : 1..MaxTime],
          at : {<<>>}]

Resolutions ==
    [status : {"resolved", "partial", "skipped", "empty_queue", "invalid",
               "inapplicable", "model_bound", "unsupported_by_model"},
     requested : Nat, actions : Seq(ConcreteAction)]

Resolution(outcome, requested, actions) ==
    [status |-> outcome, requested |-> requested, actions |-> actions]

NotResolved(outcome, requested) == Resolution(outcome, requested, <<>>)

\* Mutant of PlaceInBatch: positions are not corrected for what left the queue.
PlaceOfMessage(kind, start, i) == start + i - 1

\* Where the i-th message of a batch is when its turn comes: deliveries and
\* drops take out those before it, so each of them finds its own at start.
PlaceInBatch(kind, start, i) == IF kind = "duplicate" THEN start + i - 1 ELSE start

\* The messages at positions start to start + count - 1, as far as there are.
Selected(queue, start, count) ==
    SubSeq(queue, start, IF start + count - 1 > Len(queue) THEN Len(queue) ELSE start + count - 1)

ResolveMessages(p, obs) ==
    LET queue == obs.messages[p.link]
        start == IF p.start > Len(queue) /\ ClampMessageStart THEN Len(queue) ELSE p.start
        selected == Selected(queue, start, p.count)
    IN  IF p.count > MaxMessageBatch THEN NotResolved("invalid", p.count)
        ELSE IF p.kind = "deliver" /\ obs.status[p.link[2]] # "running"
             THEN NotResolved("skipped", p.count)
        ELSE IF queue = <<>> \/ start > Len(queue) THEN NotResolved("empty_queue", p.count)
        ELSE Resolution(IF Len(selected) < p.count THEN "partial" ELSE "resolved", p.count,
                        [i \in DOMAIN selected |->
                            [action |-> MessageAction(p.kind, selected[i]),
                             at |-> <<p.link, PlaceInBatch(p.kind, start, i)>>]])

ResolveTime(p, obs) ==
    IF p.ticks > MaxAdvanceTicks THEN NotResolved("invalid", 1)
    ELSE Resolution("resolved", 1, <<[action |-> AdvanceAction(obs.time + p.ticks), at |-> <<>>]>>)

\* A crash, a timeout or a request needs a running member, a restart a crashed one.
ResolveNode(p, obs) ==
    IF (p.kind = "restart") = (obs.status[p.node] = "running") THEN NotResolved("skipped", 1)
    ELSE Resolution("resolved", 1, <<[action |-> NodeAction(p.kind, p.node), at |-> <<>>]>>)

Resolve(p, obs) ==
    CASE p.kind \in MessageKinds -> ResolveMessages(p, obs)
      [] p.kind = "advance_ticks" -> ResolveTime(p, obs)
      [] OTHER -> ResolveNode(p, obs)

\* Resolution.Validate.
ResolutionValid(r) ==
    /\ r.requested > 0 /\ Len(r.actions) <= r.requested
    /\ CASE r.status = "resolved" -> Len(r.actions) = r.requested
         [] r.status = "partial" -> Len(r.actions) \in 1..(r.requested - 1)
         [] OTHER -> r.actions = <<>>
=============================================================================
