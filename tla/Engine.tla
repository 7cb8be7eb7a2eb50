------------------------------- MODULE Engine -------------------------------
(***************************************************************************)
(* internal/engine: the loop that turns plan actions into an execution.    *)
(*                                                                         *)
(* The Engine composes the Resolver and the Runtime: it resolves a plan    *)
(* action against the observation it holds, asks the model's profile about *)
(* each concrete action, executes it in the Runtime, maps the step to      *)
(* model events and lets the oracles check it.  Reset and Execute of the   *)
(* Runtime are its only steps on the Runtime's state, stage by stage.      *)
(*                                                                         *)
(* stage is where the Engine is: "ready" (the last run returned result),   *)
(* "plan" (the head of the plan loop), "batch" (the loop over the concrete *)
(* actions), "call" (inside Execute) or "finish" (after the plan loop).    *)
(* External: the source of plan actions, the mapper, the oracles, the      *)
(* model executor, and the caller who may cancel the context.              *)
(***************************************************************************)
EXTENDS Resolver

CONSTANTS
    PlanActions,            \* the plan actions a source may ask for
    Sources,                \* [maximum, budgeted, online]: Run or RunSource
    FailOn,                 \* resolution statuses that end the execution
    MaxConsecutiveNoops,    \* 0 = unlimited
    ModelExecutor           \* is the Engine connected to a model backend?

ASSUME EngineAssumption ==
    /\ PlanActions \subseteq PlanAction
    /\ \A source \in Sources : /\ source.maximum \in Nat
                               /\ {source.budgeted, source.online} \subseteq BOOLEAN
                               /\ source.online => source.budgeted
    /\ FailOn \subseteq {"partial", "skipped", "empty_queue"}
    /\ MaxConsecutiveNoops \in Nat /\ ModelExecutor \in BOOLEAN

VARIABLES
    stage, source,
    loop,               \* processed, consecutive no-ops, policyComplete
    batch,              \* concrete actions left, executed, and any inapplicable
    view,               \* the observation the Engine holds (Result.Final)
    before,             \* BeforeObservation of the call in progress
    canceled,           \* the context of this run
    result

frame == <<source, loop, batch, view, before>>
engineVars == <<stage, frame, canceled, result>>
allVars == <<vars, engineVars>>

NewResult == [status |-> "none", termination |-> "", budgetExhausted |-> FALSE,
              resolutions |-> <<>>, actions |-> <<>>, modelEvents |-> <<>>,
              modelExecuted |-> FALSE, trace |-> <<>>, failure |-> NoFailure]

\* Mutant of Capture: the trace of a run that failed is lost.
CaptureFailure(r) == [r EXCEPT !.failure = failure]

\* Engine.capture takes over what the Runtime has.
Capture(r) == [r EXCEPT !.trace = trace, !.failure = failure]

\* The run returns an error.
Stop(outcome, r) ==
    /\ stage' = "ready"
    /\ result' = [Capture(r) EXCEPT !.status = outcome]

\* The plan loop is left early, and the run goes on to its end.
Break(reason, r) ==
    /\ stage' = "finish"
    /\ result' = [r EXCEPT !.termination = reason,
                           !.budgetExhausted = reason # "model_bound_reached"]

----------------------------------------------------------------------------
(* Starting a run.                                                         *)

NewLoop == [processed |-> 0, noops |-> 0, policyComplete |-> FALSE]
NoBatch == [left |-> <<>>, executed |-> <<>>, inapplicable |-> FALSE]

Fresh(s) ==
    /\ stage = "ready"
    /\ source' = s /\ loop' = NewLoop /\ batch' = NoBatch

\* The oracles may refuse the initial state, an online policy its reset.
Begin(s) ==
    /\ Fresh(s) /\ Reset
    /\ view' = observation' /\ before' = observation' /\ canceled' = FALSE
    /\ \/ stage' = "plan" /\ result' = NewResult
       \/ \E outcome \in {"oracle_failed"} \cup (IF s.online THEN {"policy_failed"} ELSE {}) :
             stage' = "ready" /\ result' = [NewResult EXCEPT !.status = outcome]

BeginFails(s) ==
    /\ Fresh(s) /\ ResetFails
    /\ stage' = "ready" /\ canceled' = (failure'.error = "canceled")
    /\ result' = [NewResult EXCEPT !.failure = failure',
                    !.status = IF canceled' THEN "canceled" ELSE "runtime_failed"]
    /\ UNCHANGED <<view, before>>

\* The context was cancelled before the call.
RunCanceled ==
    /\ stage = "ready"
    /\ canceled' = TRUE /\ result' = [NewResult EXCEPT !.status = "canceled"]
    /\ UNCHANGED <<stage, frame, vars>>

----------------------------------------------------------------------------
(* The plan loop.                                                          *)

\* Mutant of Looping: the loop goes one action beyond the maximum.
LoopingToMaximum == stage = "plan" /\ loop.processed <= source.maximum

Looping == stage = "plan" /\ loop.processed < source.maximum

PlanCanceled ==
    /\ Looping /\ canceled
    /\ Stop("canceled", result)
    /\ UNCHANGED <<frame, canceled, vars>>

\* An online policy ends the execution, fails, or returns a malformed action.
PolicyEnds ==
    /\ Looping /\ ~canceled /\ source.online
    /\ stage' = "finish" /\ loop' = [loop EXCEPT !.policyComplete = TRUE]
    /\ UNCHANGED <<source, batch, view, before, canceled, result, vars>>

PolicyFails ==
    /\ Looping /\ ~canceled /\ source.online
    /\ Stop("policy_failed", result) \/ Stop("invalid_plan", result)
    /\ UNCHANGED <<frame, canceled, vars>>

\* Mutant of Noop: a limit that is overrun by one.
NoopLate(l, r) ==
    /\ loop' = [l EXCEPT !.noops = @ + 1]
    /\ IF MaxConsecutiveNoops > 0 /\ l.noops + 1 > MaxConsecutiveNoops
       THEN Break("consecutive_noops", r)
       ELSE stage' = "plan" /\ result' = r

\* A plan action that executed nothing.
Noop(l, r) ==
    /\ loop' = [l EXCEPT !.noops = @ + 1]
    /\ IF MaxConsecutiveNoops > 0 /\ l.noops + 1 >= MaxConsecutiveNoops
       THEN Break("consecutive_noops", r)
       ELSE stage' = "plan" /\ result' = r

Rejected(r) == ~ResolutionValid(r) \/ r.status \in {"invalid"} \cup FailOn

Plan(p) ==
    LET r == Resolve(p, view)
        noted == [result EXCEPT !.resolutions = Append(@, r)]
        counted == [loop EXCEPT !.processed = @ + 1]
    IN
    /\ Looping /\ ~canceled
    /\ p.kind = "advance_ticks" => view.time + p.ticks <= MaxTime \* bound
    /\ IF Rejected(r)
       THEN Stop("resolution_failed", noted) /\ loop' = counted /\ UNCHANGED batch
       ELSE IF r.actions = <<>> THEN Noop(counted, noted) /\ UNCHANGED batch
       ELSE /\ stage' = "batch" /\ result' = noted /\ loop' = counted
            /\ batch' = [left |-> r.actions, executed |-> <<>>, inapplicable |-> FALSE]
    /\ UNCHANGED <<source, view, before, canceled, vars>>

----------------------------------------------------------------------------
(* The loop over the concrete actions of a resolution.                     *)

Current == Head(batch.left)

Missing(m) == \A l \in Links : \A i \in DOMAIN view.messages[l] : view.messages[l][i].id # m

\* What the Raft profile may say of an action, terms and logs left open.
Verdicts(act) ==
    CASE act.kind \in {"drop", "duplicate"} -> {"allowed"}
      [] act.kind = "deliver" -> IF Missing(act.message) THEN {"inapplicable"}
                                 ELSE {"allowed", "model_bound", "unsupported_by_model"}
      [] act.kind = "advance_time" -> IF act.target <= view.time THEN {"inapplicable"}
                                      ELSE {"allowed", "inapplicable", "model_bound"}
      [] act.kind = "crash" -> IF view.status[act.node] = "running" THEN {"allowed"}
                               ELSE {"inapplicable"}
      [] act.kind = "restart" -> IF view.status[act.node] = "crashed" THEN {"allowed"}
                                 ELSE {"inapplicable"}
      [] act.kind = "request" -> {"allowed", "model_bound", "unsupported_by_model"}
      [] act.kind = "timeout" -> {"allowed", "model_bound"}

MarkStopped(r, outcome) == [r EXCEPT !.status = outcome, !.actions = <<>>]

\* Mutant of MarkInapplicable: the status of the resolution is kept.
MarkActionsOnly(r, executed) == [r EXCEPT !.actions = executed]

MarkInapplicable(r, executed) ==
    [r EXCEPT !.actions = executed,
              !.status = IF executed = <<>> THEN "inapplicable"
                         ELSE IF Len(executed) < r.requested THEN "partial" ELSE @]

\* The result with its last resolution rewritten.
Marked(r) == [result EXCEPT !.resolutions = Append(Front(@), r)]

LastResolution == Last(result.resolutions)

Judged(verdict) ==
    stage = "batch" /\ batch.left # <<>> /\ verdict \in Verdicts(Current.action)

ActionInapplicable ==
    /\ Judged("inapplicable")
    /\ batch' = [batch EXCEPT !.left = Tail(@), !.inapplicable = TRUE]
    /\ UNCHANGED <<stage, source, loop, view, before, canceled, result, vars>>

\* The model cannot hold the next state: the prefix executed so far counts.
ModelBoundReached ==
    /\ Judged("model_bound")
    /\ Break("model_bound_reached",
             Marked(IF batch.executed = <<>> THEN MarkStopped(LastResolution, "model_bound")
                    ELSE MarkInapplicable(LastResolution, batch.executed)))
    /\ UNCHANGED <<frame, canceled, vars>>

ActionUnsupported ==
    /\ Judged("unsupported_by_model")
    /\ Stop("unsupported_by_model", Marked(MarkStopped(LastResolution, "unsupported_by_model")))
    /\ UNCHANGED <<frame, canceled, vars>>

\* What else Runtime.Execute checks before it applies an action: the message
\* is at the selected place, the adapter supports the action, its member is up.
InPlace(c) ==
    LET queue == queues[c.at[1]] IN
    c.at[2] \in DOMAIN queue /\ queue[c.at[2]].id = c.action.message

Admissible(c) ==
    LET act == c.action IN
    /\ act.kind \in MessageKinds => InPlace(c)
    /\ act.kind = "deliver" => observation.status[c.at[1][2]] = "running"
    /\ act.kind = "advance_time" => act.target > time
    /\ act.kind \in NodeKinds =>
          /\ RequiredCapability[act.kind] \in Capabilities
          /\ observation.status[act.node] = IF act.kind = "restart" THEN "crashed" ELSE "running"

\* The first stage of the call that executes c.
Start(c) ==
    LET act == c.action IN
    \/ act.kind = "deliver" /\ \/ \E effects \in Batches : Deliver(c.at[1], c.at[2], effects)
                               \/ DeliverFails(c.at[1], c.at[2])
    \/ act.kind = "drop" /\ Drop(c.at[1], c.at[2])
    \/ act.kind = "duplicate" /\ Duplicate(c.at[1], c.at[2])
    \/ act.kind = "advance_time" /\ AdvanceTime(act.target)
    \/ act.kind \in NodeKinds /\ \/ \E effects \in Batches : OnNode(act.kind, act.node, effects)
                                 \/ OnNodeFails(act.kind, act.node)
    \/ CapabilitiesPanic(act)

\* A call fails with the error of a cancelled context only if it is cancelled.
CanceledOnly == failure' # NoFailure /\ failure'.error = "canceled" => canceled

Execute ==
    /\ Judged("allowed") /\ ~canceled
    /\ WithinLimits(Current.action) /\ Admissible(Current)
    /\ Start(Current) /\ CanceledOnly
    /\ stage' = "call" /\ before' = observation
    /\ UNCHANGED <<source, loop, batch, view, canceled, result>>

\* Execute returns before it applies the action.
ExecuteRefused ==
    /\ Judged("allowed")
    /\ IF canceled THEN Stop("canceled", result)
       ELSE IF ~WithinLimits(Current.action) THEN Break("runtime_budget", Capture(result))
       ELSE ~Admissible(Current) /\ Stop("runtime_failed", result)
    /\ UNCHANGED <<frame, canceled, vars>>

----------------------------------------------------------------------------
(* Inside Execute, and its return.                                         *)

Executing ==
    /\ stage = "call" /\ Continue /\ CanceledOnly
    /\ UNCHANGED engineVars

Returned == stage = "call" /\ call.phase = "idle"

Error == IF failure = NoFailure THEN "other" ELSE failure.error

ExecuteFailed ==
    /\ Returned /\ terminated
    /\ IF Error = "budget_exceeded" THEN Break("runtime_budget", Capture(result))
       ELSE Stop(IF Error = "canceled" THEN "canceled" ELSE "runtime_failed", result)
    /\ UNCHANGED <<frame, canceled, vars>>

\* Mutant of ViewAfterStep: the rest of the batch is judged by the old view.
ViewKept == view

ViewAfterStep == observation

\* Mutant of Transition: Before is what the Engine last resolved against.
TransitionOfView == [before |-> view, action |-> Last(trace).action, after |-> view]

Transition == [before |-> before, action |-> Last(trace).action, after |-> observation]

\* The step is taken over, mapped to model events and checked by the oracles.
ExecuteSucceeded ==
    LET executed == [result EXCEPT !.actions = Append(@, Current)]
        mapped == [executed EXCEPT !.modelEvents = Append(@, Transition)]
    IN
    /\ Returned /\ ~terminated
    /\ view' = ViewAfterStep
    /\ batch' = [batch EXCEPT !.left = Tail(@), !.executed = Append(@, Current)]
    /\ \/ Stop("mapping_failed", executed) \/ Stop("mapping_failed", mapped) \* some events
       \/ Stop("oracle_failed", mapped)
       \/ stage' = "batch" /\ result' = mapped
    /\ UNCHANGED <<source, loop, before, canceled, vars>>

\* Every action of the resolution has been executed or skipped.
BatchEnds ==
    LET noted == IF batch.inapplicable
                 THEN Marked(MarkInapplicable(LastResolution, batch.executed)) ELSE result
    IN
    /\ stage = "batch" /\ batch.left = <<>>
    /\ batch' = NoBatch
    /\ IF batch.executed = <<>> THEN Noop(loop, noted)
       ELSE /\ loop' = [loop EXCEPT !.noops = 0]
            /\ stage' = "plan" /\ result' = noted
    /\ UNCHANGED <<source, view, before, canceled, vars>>

----------------------------------------------------------------------------
(* The end of a run.                                                       *)

PlanEnds ==
    /\ stage = "plan" /\ loop.processed >= source.maximum
    /\ stage' = "finish"
    /\ UNCHANGED <<frame, canceled, result, vars>>

\* Mutant of Reason: a plan cut off by the budget counts as complete.
ReasonIgnoringBudget ==
    IF result.termination # "" THEN result.termination
    ELSE IF loop.policyComplete THEN "policy_complete" ELSE "plan_complete"

\* Why the plan loop ended.
Reason ==
    IF result.termination # "" THEN result.termination
    ELSE IF source.budgeted /\ loop.processed = source.maximum THEN "plan_action_budget"
    ELSE IF loop.policyComplete THEN "policy_complete"
    ELSE IF ~source.online THEN "plan_complete" ELSE ""

\* The events of the whole run go to the model, if there is one.
Finish ==
    LET ended == [Capture(result) EXCEPT !.termination = Reason,
                    !.budgetExhausted = @ \/ (result.termination = "" /\ Reason = "plan_action_budget"),
                    !.modelExecuted = ModelExecutor]
    IN
    /\ stage = "finish" /\ stage' = "ready"
    /\ \E outcome \in {"completed"} \cup (IF ModelExecutor THEN {"model_failed"} ELSE {})
                     \cup (IF ModelExecutor /\ canceled THEN {"canceled"} ELSE {}) :
          result' = [ended EXCEPT !.status = outcome]
    /\ UNCHANGED <<frame, canceled, vars>>

Cancel ==
    /\ stage # "ready" /\ ~canceled /\ canceled' = TRUE
    /\ UNCHANGED <<stage, frame, result, vars>>

----------------------------------------------------------------------------

EngineInit ==
    /\ Init
    /\ stage = "ready" /\ source \in Sources /\ loop = NewLoop /\ batch = NoBatch
    /\ view = observation /\ before = observation /\ canceled = FALSE /\ result = NewResult

\* What the Engine does in a run, once it has begun.
EngineStep ==
    \/ PlanCanceled \/ PolicyEnds \/ PolicyFails \/ PlanEnds
    \/ \E p \in PlanActions : Plan(p)
    \/ ActionInapplicable \/ ModelBoundReached \/ ActionUnsupported
    \/ Execute \/ ExecuteRefused
    \/ Executing \/ ExecuteFailed \/ ExecuteSucceeded
    \/ BatchEnds \/ Finish

EngineNext ==
    \/ \E s \in Sources : Begin(s) \/ BeginFails(s)
    \/ RunCanceled
    \/ EngineStep
    \/ Cancel

EngineSpec == EngineInit /\ [][EngineNext]_allVars

\* A run is one goroutine: it goes on as long as the adapter, the source and
\* the model backend return.
EngineFairSpec == EngineSpec /\ WF_allVars(EngineStep)
----------------------------------------------------------------------------
(* Properties.                                                             *)

Batch == [left : Seq(ConcreteAction), executed : Seq(ConcreteAction), inapplicable : BOOLEAN]

Outcomes == {"none", "completed", "canceled", "invalid_plan", "resolution_failed", "runtime_failed",
             "policy_failed", "unsupported_by_model", "mapping_failed", "oracle_failed", "model_failed"}

Terminations == {"", "plan_complete", "policy_complete", "plan_action_budget", "runtime_budget",
                 "consecutive_noops", "model_bound_reached"}

Results ==
    [status : Outcomes, termination : Terminations, budgetExhausted : BOOLEAN,
     resolutions : Seq(Resolutions), actions : Seq(ConcreteAction),
     modelEvents : Seq([before : Observation, action : Action, after : Observation]),
     modelExecuted : BOOLEAN, trace : Seq(StepRecord), failure : FailureRecord \cup {NoFailure}]

\* The Engine's own state: its frame, and the fields of its result.
EngineTypeOK ==
    /\ stage \in {"ready", "plan", "batch", "call", "finish"}
    /\ source \in Sources /\ canceled \in BOOLEAN
    /\ loop \in [processed : 0..source.maximum, noops : 0..source.maximum,
                 policyComplete : BOOLEAN]
    /\ view \in Observation /\ before \in Observation
    /\ batch \in Batch /\ result \in Results

RunTrace == IF stage = "ready" THEN result.trace ELSE trace

Resolved == FlattenSeq([i \in DOMAIN result.resolutions |-> result.resolutions[i].actions])

\* How many of the last resolutions have executed nothing.
TrailingNoops ==
    LET executed == {i \in DOMAIN result.resolutions : result.resolutions[i].actions # <<>>}
    IN  Len(result.resolutions) - (IF executed = {} THEN 0 ELSE Max(executed))

Completed == stage = "ready" /\ result.status = "completed"

\* Whatever was delivered, dropped, duplicated or sent since the action was
\* resolved, Execute never refuses it: with every capability there, a run
\* reports a failure of the Runtime only if an operation of the SUT failed.
ResolvedActionsAccepted ==
    /\ stage = "ready" /\ result.status = "runtime_failed"
    /\ \A kind \in NodeKinds : RequiredCapability[kind] \in Capabilities
    => terminated

\* The executed actions are those of the trace in their order.
ActionsFollowTrace ==
    stage # "call" => [i \in DOMAIN result.actions |-> result.actions[i].action]
                    = [i \in DOMAIN RunTrace |-> RunTrace[i].action]

\* The mapper sees every recorded step once, and each transition begins where
\* the one before it ended, the first in the initial state.
TransitionsChain ==
    /\ \A k \in DOMAIN result.modelEvents :
          LET event == result.modelEvents[k] IN
          /\ event.before = IF k > 1 THEN result.modelEvents[k - 1].after
                            ELSE [time |-> 0, status |-> [n \in Nodes |-> "running"],
                                  messages |-> [l \in Links |-> <<>>]]
          /\ event.action = RunTrace[k].action
          /\ event.before.time = RunTrace[k].before /\ event.after.time = RunTrace[k].after
    /\ Len(result.actions) - Len(result.modelEvents)
          \in IF result.status = "mapping_failed" THEN {0, 1} ELSE {0}

\* Outside Execute, and in every result, also that of a failed or cancelled run,
\* executed actions, trace and model events (engine.go:270-294) tell the same
\* unbroken history, except for a last step whose mapping failed.
HistoryUnbroken == ActionsFollowTrace /\ TransitionsChain

\* Between plan actions, and at the end of a run that the Runtime's budget has
\* not cut off inside a plan action, the resolutions as the Engine has rewritten
\* them are valid and account for exactly the actions executed.
ResolutionsCoverActions ==
    stage = "plan" \/ (Completed /\ result.termination # "runtime_budget") =>
        /\ Resolved = result.actions
        /\ \A i \in DOMAIN result.resolutions : ResolutionValid(result.resolutions[i])

\* The no-op counter is the number of resolutions at the end that executed
\* nothing, whether at resolution or because the profile held every action
\* inapplicable, and a run goes on exactly as long as it is below the limit.
\* A completed run says why it stopped, and says so truly: a budget is reported
\* if and only if one is exhausted, a plan as complete only if every action of
\* it has been processed, a policy only if it stopped before its budget.
TerminationExplained ==
    /\ stage = "plan" => /\ loop.noops = TrailingNoops
                         /\ MaxConsecutiveNoops > 0 => TrailingNoops < MaxConsecutiveNoops
    /\ Completed =>
          /\ result.termination # ""
          /\ result.budgetExhausted <=>
                result.termination \in {"plan_action_budget", "runtime_budget", "consecutive_noops"}
          /\ result.termination = "consecutive_noops" => TrailingNoops = MaxConsecutiveNoops
          /\ result.termination \in {"plan_complete", "policy_complete", "plan_action_budget"}
                => MaxConsecutiveNoops = 0 \/ TrailingNoops < MaxConsecutiveNoops
          /\ result.termination \in {"plan_complete", "plan_action_budget"} =>
                /\ Len(result.resolutions) = source.maximum
                /\ source.budgeted <=> result.termination = "plan_action_budget"
          /\ result.termination = "policy_complete" =>
                source.online /\ Len(result.resolutions) < source.maximum

\* A run that has begun returns, in whatever way it ends: the tick loop, the
\* registration loop, the loop over a batch and the plan loop all come to an
\* end, whatever the profile skips and however an action fails.
RunReturns == stage # "ready" ~> stage = "ready"

\* "On success failure.json is null" (README.md): a completed run has no failure.
SuccessHasNoFailure == Completed => result.failure = NoFailure
=============================================================================
