------------------------------ MODULE Runtime ------------------------------
(***************************************************************************)
(* internal/runtime: one deterministic execution of a system under test.   *)
(*                                                                         *)
(* The Runtime owns logical time, the message queues (one queue per        *)
(* directed link, from which the caller picks any position) and the        *)
(* concrete trace.  Reset and Execute are the only calls that change state.*)
(* Execute runs in stages, and the stages are the steps of this module:    *)
(*                                                                         *)
(*   "idle"      no call in progress; the guards are Execute's checks      *)
(*   "tick"      inside advanceTime, between two ticks                     *)
(*   "register"  inside processAdapterEffects, giving identities to the    *)
(*               messages the adapter sent, one at a time                  *)
(*   "observe"   the action is applied; collectObservation and Append left *)
(*                                                                         *)
(* A stage may fail, which terminates the execution half way through a     *)
(* step.  A call that Execute rejects before it applies the action changes *)
(* nothing, so it is a stuttering step.  The adapter is external: it may   *)
(* return any small batch of effects, an error, or panic.                  *)
(***************************************************************************)
EXTENDS Integers, Sequences, FiniteSets, SequencesExt

CONSTANTS
    Nodes,              \* the members the adapter observes
    Links,              \* directed links <<from, to>> messages travel on
    Capabilities,       \* the optional operations the adapter supports
    NoNode, NoFailure,  \* absent values
    MaxActions, MaxTicks, MaxEffects, MaxQueuedMessages,  \* Limits, 0 = none
    MaxUint64,          \* the largest uint64 (identities wrap to 0 after it)
    MaxBatch,           \* bound: messages returned by one adapter call
    MaxTime             \* bound: logical time reached by one execution

ASSUME LinksAssumption == Links \subseteq Nodes \X Nodes
ASSUME LimitsAssumption ==
    /\ MaxActions \in Nat /\ MaxTicks \in Nat
    /\ MaxEffects \in Nat /\ MaxQueuedMessages \in Nat
ASSUME BoundsAssumption == MaxUint64 \in Nat \ {0} /\ MaxBatch \in Nat /\ MaxTime \in Nat
ASSUME AbsentAssumption == NoNode \notin Nodes

VARIABLES
    queues,             \* network.queues: link -> sequence of messages
    nextMessageID,      \* network.nextMessageID, 0 once exhausted
    lastLinkSequence,   \* network.lastLinkSequence
    time, trace, actionCount, effectCount,
    initialized, terminated, failure,
    observation,        \* the last complete observation
    call,               \* the frame of the Execute call in progress
    status              \* external: which members of the SUT are running

networkVars == <<queues, nextMessageID, lastLinkSequence>>
resultVars == <<trace, actionCount, observation, initialized, terminated, failure>>
vars == <<networkVars, resultVars, time, effectCount, call, status>>

MessageKinds == {"deliver", "drop", "duplicate"}
NodeKinds == {"timeout", "crash", "restart", "request"}
ActionKinds == MessageKinds \cup NodeKinds \cup {"advance_time"}

IDs == 0..MaxUint64
Message == [id : IDs, link : Links, sequence : IDs, parent : IDs, enqueuedAt : 0..MaxTime]
Action == [kind : ActionKinds, node : Nodes \cup {NoNode}, message : IDs, target : 0..MaxTime]
StepRecord == [action : Action, before : 0..MaxTime, after : 0..MaxTime,
               sent : Seq(IDs), effects : Nat]

NoAction == [kind |-> "advance_time", node |-> NoNode, message |-> 0, target |-> 0]
MessageAction(kind, m) == [kind |-> kind, node |-> NoNode, message |-> m.id, target |-> 0]
NodeAction(kind, n) == [kind |-> kind, node |-> n, message |-> 0, target |-> 0]
AdvanceAction(target) == [kind |-> "advance_time", node |-> NoNode, message |-> 0, target |-> target]

----------------------------------------------------------------------------
(* The network.                                                            *)

Slots(q) == UNION {{l} \X (1..Len(q[l])) : l \in Links}

NetworkLen(q) == Cardinality(Slots(q))

IdentitiesExhausted(l) == nextMessageID = 0 \/ lastLinkSequence[l] = MaxUint64

\* Mutants of AfterID: the wrap to the invalid identity 0 is missing or wrong.
AfterIDUnbounded(id) == id + 1
AfterIDWrapsToOne(id) == IF id = MaxUint64 THEN 1 ELSE id + 1

\* The identity after id; 0 is no identity and makes every later one fail.
AfterID(id) == IF id = MaxUint64 THEN 0 ELSE id + 1

\* Mutant of Enqueue: a registered message overtakes what is queued.
EnqueueAtHead(queue, m) == <<m>> \o queue

Enqueue(queue, m) == Append(queue, m)

\* network.register puts a message with a fresh identity on its link.
Register(l, parent) ==
    /\ queues' = [queues EXCEPT ![l] = Enqueue(@,
                    [id |-> nextMessageID, link |-> l, sequence |-> lastLinkSequence[l] + 1,
                     parent |-> parent, enqueuedAt |-> time])]
    /\ nextMessageID' = AfterID(nextMessageID)
    /\ lastLinkSequence' = [lastLinkSequence EXCEPT ![l] = @ + 1]

\* Mutant of Without: the selected position is ignored.
WithoutHead(l, position) == [queues EXCEPT ![l] = Tail(@)]

\* network.remove takes the message at one position out of its queue.
Without(l, position) == [queues EXCEPT ![l] = RemoveAt(@, position)]

----------------------------------------------------------------------------
(* The frame of a call, failing, and what an adapter call returned.        *)

\* sent are the identities registered so far in this step and effects the
\* effects processed so far; outbox, timers and batch describe what is left
\* of the adapter call being processed.
NoCall == [phase |-> "idle", action |-> NoAction, before |-> 0, outbox |-> <<>>,
           timers |-> {}, batch |-> 0, sent |-> <<>>, effects |-> 0]

\* Mutant of Started: the time before the step is not remembered.
StartedAtZero(act) == [NoCall EXCEPT !.action = act]

Started(act) == [NoCall EXCEPT !.action = act, !.before = time]

\* Mutant of Terminate: an advance_time cut short leaves the Runtime usable.
TerminateUnlessTicking == terminated' = (call.phase # "tick")

Terminate == terminated' = TRUE

Errors == {"budget_exceeded", "canceled", "other"}

\* Execute returns an error: terminated, and the first failure is kept.
Fail(operation, act, error) ==
    /\ Terminate
    /\ failure' = IF failure = NoFailure
                  THEN [operation |-> operation, action |-> act, error |-> error,
                        time |-> time', before |-> observation]
                  ELSE failure
    /\ call' = NoCall
    /\ UNCHANGED <<trace, actionCount, observation, initialized>>

\* The adapter returns an error, that of a cancelled context included, or panics.
AdapterFails(operation, act) == \E error \in {"canceled", "other"} : Fail(operation, act, error)

\* What one adapter call may return: sends in order, and timer fires that are
\* "natural", "forced" (on the node of the action) or "foreign" (forced on
\* another node).
Batches == [sends : SeqOf(Links, MaxBatch), timers : SUBSET {"natural", "forced", "foreign"}]

BatchSize(batch) == Len(batch.sends) + Cardinality(batch.timers)

\* Mutant of WithinBudget: the messages about to be queued are not counted.
WithinBudgetBefore(batch, q) ==
    /\ MaxEffects # 0 => BatchSize(batch) <= MaxEffects - effectCount
    /\ MaxQueuedMessages # 0 => NetworkLen(q) <= MaxQueuedMessages

WithinBudget(batch, q) ==
    /\ MaxEffects # 0 => BatchSize(batch) <= MaxEffects - effectCount
    /\ MaxQueuedMessages # 0 => NetworkLen(q) + Len(batch.sends) <= MaxQueuedMessages

\* processAdapterEffects up to its registration loop: both budgets and every
\* effect are checked before any message is registered, but after the SUT has
\* changed and, for a delivery, after the message has left its queue.
ProcessAdapterEffects(frame, batch, q) ==
    /\ queues' = q
    /\ UNCHANGED <<nextMessageID, lastLinkSequence, effectCount>>
    /\ \/ /\ WithinBudget(batch, q)
          /\ call' = [frame EXCEPT !.phase = "register", !.outbox = batch.sends,
                                   !.timers = batch.timers, !.batch = BatchSize(batch)]
          /\ UNCHANGED resultVars
       \/ ~WithinBudget(batch, q) /\ Fail("execute", frame.action, "budget_exceeded")
       \/ WithinBudget(batch, q) /\ Fail("execute", frame.action, "other") \* malformed effect

----------------------------------------------------------------------------
(* Execute: the checks before the action is applied, and its first stage.  *)

\* Mutant of Ready: Execute forgets that the execution is terminated.
ReadyOnceReset == initialized /\ call.phase = "idle"

Ready == initialized /\ ~terminated /\ call.phase = "idle"

Admitted == Ready /\ (MaxActions # 0 => actionCount < MaxActions)

Deliverable(l, position) ==
    /\ Admitted /\ position \in 1..Len(queues[l])
    /\ observation.status[l[2]] = "running"

Deliver(l, position, batch) ==
    /\ Deliverable(l, position)
    /\ UNCHANGED <<time, status>>
    /\ ProcessAdapterEffects(Started(MessageAction("deliver", queues[l][position])),
                             batch, Without(l, position))

\* Drop and Duplicate never enter the adapter.
Drop(l, position) ==
    /\ Admitted /\ position \in 1..Len(queues[l])
    /\ queues' = Without(l, position)
    /\ call' = [Started(MessageAction("drop", queues[l][position])) EXCEPT !.phase = "observe"]
    /\ UNCHANGED <<nextMessageID, lastLinkSequence, resultVars, time, effectCount, status>>

Duplicate(l, position) ==
    LET act == MessageAction("duplicate", queues[l][position]) IN
    /\ Admitted /\ position \in 1..Len(queues[l])
    /\ MaxQueuedMessages # 0 => NetworkLen(queues) < MaxQueuedMessages
    /\ UNCHANGED <<time, effectCount, status>>
    /\ \/ /\ ~IdentitiesExhausted(l)
          /\ Register(l, queues[l][position].id)
          /\ call' = [Started(act) EXCEPT !.phase = "observe"]
          /\ UNCHANGED resultVars
       \/ /\ IdentitiesExhausted(l)
          /\ UNCHANGED networkVars
          /\ Fail("execute", act, "other")

AdvanceTime(target) ==
    /\ Admitted /\ target > time
    /\ MaxTicks # 0 => target <= MaxTicks
    /\ call' = [Started(AdvanceAction(target)) EXCEPT !.phase = "tick"]
    /\ UNCHANGED <<networkVars, resultVars, time, effectCount, status>>

RequiredCapability == [timeout |-> "timeout", crash |-> "crash_restart",
                       restart |-> "crash_restart", request |-> "client_request"]

\* The status of the members once the SUT has carried out an action on n.
StatusAfter(kind, n) ==
    CASE kind = "crash" -> [status EXCEPT ![n] = "crashed"]
      [] kind = "restart" -> [status EXCEPT ![n] = "running"]
      [] OTHER -> status

Applicable(kind, n) ==
    /\ Admitted /\ RequiredCapability[kind] \in Capabilities
    /\ observation.status[n] = IF kind = "restart" THEN "crashed" ELSE "running"

OnNode(kind, n, batch) ==
    /\ Applicable(kind, n)
    /\ status' = StatusAfter(kind, n)
    /\ UNCHANGED time
    /\ ProcessAdapterEffects(Started(NodeAction(kind, n)), batch, queues)

Timeout(n, batch) == OnNode("timeout", n, batch)
Crash(n, batch) == OnNode("crash", n, batch)
Restart(n, batch) == OnNode("restart", n, batch)
Request(n, batch) == OnNode("request", n, batch)

\* The adapter call returns an error or panics: its effects are lost, but a
\* crash or a restart may already have happened inside the SUT.
DeliverFails(l, position) ==
    /\ Deliverable(l, position)
    /\ UNCHANGED <<networkVars, time, effectCount, status>>
    /\ AdapterFails("execute", MessageAction("deliver", queues[l][position]))

OnNodeFails(kind, n) ==
    /\ Applicable(kind, n)
    /\ status' \in {status, StatusAfter(kind, n)}
    /\ UNCHANGED <<networkVars, time, effectCount>>
    /\ AdapterFails("execute", NodeAction(kind, n))

\* What Execute may be asked for, and what its budget lets through.
Calls ==
    {MessageAction(kind, queues[s[1]][s[2]]) : kind \in MessageKinds, s \in Slots(queues)}
    \cup {NodeAction(kind, n) : kind \in NodeKinds, n \in Nodes}
    \cup {AdvanceAction(target) : target \in 1..MaxTime}

WithinLimits(act) ==
    /\ MaxActions # 0 => actionCount < MaxActions
    /\ act.kind = "advance_time" /\ MaxTicks # 0 => act.target <= MaxTicks
    /\ act.kind = "duplicate" /\ MaxQueuedMessages # 0 => NetworkLen(queues) < MaxQueuedMessages

\* Adapter.Capabilities panics while the preconditions are checked.
CapabilitiesPanic(act) ==
    /\ Ready /\ WithinLimits(act)
    /\ UNCHANGED <<networkVars, time, effectCount, status>>
    /\ Fail("capabilities", act, "other")

----------------------------------------------------------------------------
(* Execute: the remaining stages of an action being applied.               *)

\* Mutant of TimeAfterTick: advanceTime ticks the adapter but not the clock.
TimeStalled == time

TimeAfterTick == time + 1

\* Mutant of Tick: the effects of a tick replace those of the ticks before it.
TickForgetsSends(batch) ==
    /\ call.phase = "tick"
    /\ time' = TimeAfterTick
    /\ ProcessAdapterEffects([call EXCEPT !.sent = <<>>], batch, queues)
    /\ UNCHANGED status

\* One round of advanceTime: time moves, then the adapter ticks.
Tick(batch) ==
    /\ call.phase = "tick"
    /\ time' = TimeAfterTick
    /\ ProcessAdapterEffects(call, batch, queues)
    /\ UNCHANGED status

\* The context is cancelled between two ticks, or the tick itself fails.
TickFails ==
    /\ call.phase = "tick"
    /\ time' \in {time, TimeAfterTick}
    /\ UNCHANGED <<networkVars, effectCount, status>>
    /\ AdapterFails("execute", call.action)

RegisterOutbound ==
    /\ call.phase = "register" /\ call.outbox # <<>>
    /\ UNCHANGED <<time, effectCount, status>>
    /\ LET l == Head(call.outbox) IN
       \/ /\ ~IdentitiesExhausted(l)
          /\ Register(l, 0)
          /\ call' = [call EXCEPT !.outbox = Tail(@), !.sent = Append(@, nextMessageID)]
          /\ UNCHANGED resultVars
       \/ /\ IdentitiesExhausted(l)
          /\ UNCHANGED networkVars
          /\ Fail("execute", call.action, "other")

\* validateNaturalTimeoutEffects after a tick, validateForcedTimeoutEffects
\* after a forced timeout: the messages are already registered by then.
TimersAccepted ==
    /\ call.action.kind = "advance_time" => call.timers \subseteq {"natural"}
    /\ call.action.kind = "timeout" => call.timers = {"forced"}

EffectsProcessed ==
    /\ call.phase = "register" /\ call.outbox = <<>>
    /\ effectCount' = effectCount + call.batch
    /\ UNCHANGED <<networkVars, time, status>>
    /\ \/ /\ TimersAccepted
          /\ call' = [call EXCEPT !.effects = @ + call.batch, !.timers = {}, !.batch = 0,
                                  !.phase = IF time < call.action.target THEN "tick" ELSE "observe"]
          /\ UNCHANGED resultVars
       \/ ~TimersAccepted /\ Fail("execute", call.action, "other")

\* collectObservation: what the adapter sees of the members, and the queues.
Observed == [time |-> time, status |-> status, messages |-> queues]

RecordStep ==
    /\ call.phase = "observe"
    /\ observation' = Observed
    /\ trace' = Append(trace, [action |-> call.action, before |-> call.before, after |-> time,
                               sent |-> call.sent, effects |-> call.effects])
    /\ actionCount' = actionCount + 1
    /\ call' = NoCall
    /\ UNCHANGED <<networkVars, initialized, terminated, failure, time, effectCount, status>>

ObserveFails ==
    /\ call.phase = "observe"
    /\ UNCHANGED <<networkVars, time, effectCount, status>>
    /\ AdapterFails("observe", call.action)

\* The adapter observes no node at all: Trace.Append refuses the record, and
\* Execute terminates the execution without recording a failure.
AppendRejected ==
    /\ call.phase = "observe"
    /\ Terminate
    /\ call' = NoCall
    /\ UNCHANGED <<networkVars, trace, actionCount, observation, initialized, failure,
                   time, effectCount, status>>

----------------------------------------------------------------------------
(* Reset starts a fresh execution; the Runtime state is cleared first.     *)

ClearRuntime ==
    /\ call.phase = "idle"
    /\ queues' = [l \in Links |-> <<>>]
    /\ nextMessageID' = 1
    /\ lastLinkSequence' = [l \in Links |-> 0]
    /\ time' = 0 /\ trace' = <<>>
    /\ actionCount' = 0 /\ effectCount' = 0
    /\ initialized' = TRUE
    /\ UNCHANGED call

Reset ==
    /\ ClearRuntime
    /\ terminated' = FALSE
    /\ failure' = NoFailure
    /\ status' = [n \in Nodes |-> "running"]
    /\ observation' = [time |-> 0, status |-> status', messages |-> queues']

\* The adapter fails to reset, or to be observed afterwards.
ResetFails ==
    /\ ClearRuntime
    /\ terminated' = TRUE
    /\ \E operation \in {"reset", "observe"}, error \in {"canceled", "other"} :
          failure' = [operation |-> operation, action |-> NoAction, error |-> error,
                      time |-> 0, before |-> NoFailure]
    /\ status' \in {status, [n \in Nodes |-> "running"]}
    /\ UNCHANGED observation

----------------------------------------------------------------------------

Init ==
    /\ queues = [l \in Links |-> <<>>]
    /\ nextMessageID = 1
    /\ lastLinkSequence = [l \in Links |-> 0]
    /\ time = 0 /\ trace = <<>>
    /\ actionCount = 0 /\ effectCount = 0
    /\ initialized = FALSE /\ terminated = FALSE /\ failure = NoFailure
    /\ status = [n \in Nodes |-> "running"]
    /\ observation = [time |-> 0, status |-> status, messages |-> queues]
    /\ call = NoCall

OnMessage ==
    \E l \in Links : \E position \in 1..Len(queues[l]) :
        \/ \E batch \in Batches : Deliver(l, position, batch)
        \/ Drop(l, position)
        \/ Duplicate(l, position)
        \/ DeliverFails(l, position)

OnMember ==
    \E n \in Nodes :
        \/ \E batch \in Batches :
             Timeout(n, batch) \/ Crash(n, batch) \/ Restart(n, batch) \/ Request(n, batch)
        \/ \E kind \in NodeKinds : OnNodeFails(kind, n)

Continue ==
    \/ \E batch \in Batches : Tick(batch)
    \/ TickFails
    \/ RegisterOutbound
    \/ EffectsProcessed
    \/ RecordStep
    \/ ObserveFails
    \/ AppendRejected

Next ==
    \/ OnMessage
    \/ OnMember
    \/ \E target \in 1..MaxTime : AdvanceTime(target)
    \/ \E act \in Calls : CapabilitiesPanic(act)
    \/ Continue
    \/ Reset
    \/ ResetFails

Spec == Init /\ [][Next]_vars

----------------------------------------------------------------------------
(* Properties.                                                             *)

CallFrame == [phase : {"idle", "tick", "register", "observe"}, action : Action,
              before : 0..MaxTime, outbox : Seq(Links),
              timers : SUBSET {"natural", "forced", "foreign"}, batch : Nat,
              sent : Seq(IDs), effects : Nat]

Observation == [time : 0..MaxTime, status : [Nodes -> {"running", "crashed"}],
                messages : [Links -> Seq(Message)]]

FailureRecord == [operation : {"reset", "capabilities", "execute", "observe"}, action : Action,
                  error : Errors, time : 0..MaxTime, before : Observation \cup {NoFailure}]

\* Every variable has the type of the field it stands for.
TypeOK ==
    /\ queues \in [Links -> Seq(Message)]
    /\ nextMessageID \in IDs
    /\ lastLinkSequence \in [Links -> IDs]
    /\ time \in 0..MaxTime
    /\ trace \in Seq(StepRecord)
    /\ actionCount \in Nat /\ effectCount \in Nat
    /\ initialized \in BOOLEAN /\ terminated \in BOOLEAN
    /\ failure \in FailureRecord \cup {NoFailure}
    /\ observation \in Observation
    /\ call \in CallFrame
    /\ status \in [Nodes -> {"running", "crashed"}]

\* Every identity handed out since Reset.
AssignedIDs == IF nextMessageID = 0 THEN 1..MaxUint64 ELSE 1..(nextMessageID - 1)

QueuedIDs == {queues[s[1]][s[2]].id : s \in Slots(queues)}

\* "An ID is never reused within one execution" (core/id.go): whatever is
\* delivered, dropped or duplicated, two queued messages never share an
\* identity and none carries one that was not handed out.
IdentitiesUnique ==
    \A l1, l2 \in Links : \A i \in 1..Len(queues[l1]), j \in 1..Len(queues[l2]) :
        /\ queues[l1][i].id \in AssignedIDs
        /\ queues[l1][i].id = queues[l2][j].id => l1 = l2 /\ i = j

\* Removal at any position and duplication at the tail keep every queue in
\* registration order: identity and link sequence strictly increase from head
\* to tail, enqueue times never decrease, the sequence counter of the link is
\* ahead of everything queued, and a copy stays behind its queued original.
LinkOrder ==
    \A l \in Links : \A j \in 1..Len(queues[l]) :
        LET m == queues[l][j] IN
        /\ m.link = l /\ m.sequence <= lastLinkSequence[l] /\ m.enqueuedAt <= time
        /\ m.parent < m.id
        /\ \A i \in 1..(j - 1) : /\ queues[l][i].id < m.id
                                 /\ queues[l][i].sequence < m.sequence
                                 /\ queues[l][i].enqueuedAt <= m.enqueuedAt
        /\ \A s \in Slots(queues) :
              queues[s[1]][s[2]].id = m.parent => s[1] = l /\ s[2] < j

\* Execute checks its preconditions against the stored observation, not the
\* adapter: whenever a new call is accepted that observation is exactly the
\* present state of the members, the queues and the clock.
ObservationFresh == Ready => observation = Observed

\* The trace alone explains the network: between calls the queued messages are
\* those ever registered less those the recorded steps delivered or dropped.
TraceAccountsForNetwork ==
    Ready => QueuedIDs = AssignedIDs \ {trace[k].action.message :
                            k \in {i \in DOMAIN trace : trace[i].action.kind \in {"deliver", "drop"}}}

\* Identities a replay of the recorded actions hands out: after k steps it has
\* used one per recorded send and one per duplicate.
UsedAfter[k \in 0..Len(trace)] ==
    IF k = 0 THEN 0
    ELSE UsedAfter[k - 1] + Len(trace[k].sent)
         + (IF trace[k].action.kind = "duplicate" THEN 1 ELSE 0)

\* A replay needs no other source of identities: each step's sends carry the
\* identities following those used before it, and none is used off the record.
IdentitiesReplayable ==
    Ready =>
        /\ AssignedIDs = 1..UsedAfter[Len(trace)]
        /\ \A k \in DOMAIN trace : \A i \in DOMAIN trace[k].sent :
              trace[k].sent[i] = UsedAfter[k - 1] + i

\* Trace.Append never refuses a step for its time: steps are contiguous, only
\* advance_time moves time, exactly to its target, and the last step ends now.
TraceContiguous ==
    /\ \A k \in DOMAIN trace :
          /\ trace[k].before = IF k = 1 THEN 0 ELSE trace[k - 1].after
          /\ trace[k].after = IF trace[k].action.kind = "advance_time"
                              THEN trace[k].action.target ELSE trace[k].before
    /\ Ready => time = IF trace = <<>> THEN 0 ELSE trace[Len(trace)].after

\* The hard limits hold in every state, also in the middle of a step and after
\* a failed one, and the counters agree with the recorded steps.
LimitsHold ==
    /\ MaxActions # 0 => Len(trace) <= MaxActions
    /\ MaxTicks # 0 => time <= MaxTicks
    /\ MaxEffects # 0 => effectCount <= MaxEffects
    /\ MaxQueuedMessages # 0 => NetworkLen(queues) <= MaxQueuedMessages
    /\ initialized => actionCount = Len(trace)

\* A failed step leaves no trace record, and after it nothing but Reset may
\* change the Runtime: no later call can build on a half applied action.
TerminatedIsFinal ==
    [][terminated => \/ UNCHANGED <<networkVars, resultVars, time, effectCount>>
                     \/ Reset
                     \/ ResetFails]_vars

Ledger == INSTANCE MessageLedger WITH
    issued <- IF nextMessageID = 0 THEN MaxUint64 ELSE nextMessageID - 1,
    waiting <- QueuedIDs

\* The network keeps what a message ledger promises: identities are issued once
\* and in order, and an issued message leaves the network at most once.
LedgerSpec == Ledger!Spec
=============================================================================
