----------------------------- MODULE RandomPlans -----------------------------
(***************************************************************************)
(* internal/policy/random.go and internal/mutation/random.go: where plans  *)
(* come from, as far as crashes and restarts of members are concerned.     *)
(*                                                                         *)
(* Two components keep the same rule on crashes.  The random policy keeps  *)
(* it online, from what it observes and from its own counters; the random  *)
(* mutator keeps it offline, on a plan it never executes.  A plan the      *)
(* policy made is what the mutator starts from, and a plan the mutator made*)
(* is executed and mutated again.                                          *)
(*                                                                         *)
(* mode is where the plan is: "online" (the policy makes it action by      *)
(* action), "offline" (a mutant is executed), or "corpus" (its run is over *)
(* and it may be mutated).  Actions other than crashes and restarts are    *)
(* "timeout" or "other": to what they are addressed does not matter here.  *)
(* External: which of those an observation offers, and when a run ends.    *)
(***************************************************************************)
EXTENDS Integers, Sequences, FiniteSets, SequencesExt

CONSTANTS
    Members, NoMember,
    MaxCrashed, MaxCrashEpisodes, LifecycleCooldown,    \* of both RandomConfigs
    TimeoutCooldown,
    Weighted,           \* the kinds of action with a positive weight
    MaxPlanActions      \* of a policy's run and of a mutant

LifecycleKinds == {"crash", "restart"}
OtherKinds == {"timeout", "other"}

ASSUME RandomConfigAssumption ==
    /\ IsFiniteSet(Members) /\ NoMember \notin Members
    /\ MaxCrashed \in 1..(Cardinality(Members) - 1)
    /\ MaxCrashEpisodes \in Nat \ {0} /\ MaxPlanActions \in Nat \ {0}
    /\ LifecycleCooldown \in Nat /\ TimeoutCooldown \in Nat
    /\ Weighted # {} /\ Weighted \subseteq LifecycleKinds \cup OtherKinds

VARIABLES
    mode, plan,
    next,               \* the position in plan of the action executed next
    up,                 \* external: the members that run
    crashEpisodes, lastLifecycleAction  \* of the policy; 0 = none

policyVars == <<crashEpisodes, lastLifecycleAction>>
vars == <<mode, plan, next, up, policyVars>>

OnMember(kind, n) == [kind |-> kind, node |-> n]
Plain(kind) == [kind |-> kind, node |-> NoMember]

------------------------------------------------------------------------------
(* The random policy.                                                      *)

\* Mutant of CrashAllowed: the cooldown is one action short.
CrashAllowedEarly ==
    /\ crashEpisodes < MaxCrashEpisodes
    /\ lastLifecycleAction = 0 \/ Len(plan) + 1 - lastLifecycleAction >= LifecycleCooldown

\* So many actions since the last crash or restart, and not too many crashes.
CrashAllowed ==
    /\ crashEpisodes < MaxCrashEpisodes
    /\ lastLifecycleAction = 0 \/ Len(plan) - lastLifecycleAction >= LifecycleCooldown

TimeoutCoolingDown ==
    \E k \in DOMAIN plan : k > Len(plan) - TimeoutCooldown /\ plan[k].kind = "timeout"

\* What may be drawn when the observation offers actions of these other kinds.
Candidates(offered) ==
    {a \in {OnMember("restart", n) : n \in Members \ up}
           \cup {OnMember("crash", n) : n \in {m \in up :
                    /\ Cardinality(up) > 1 /\ Cardinality(Members \ up) < MaxCrashed
                    /\ CrashAllowed}}
           \cup {Plain(kind) : kind \in {k \in offered : k = "timeout" => ~TimeoutCoolingDown}} :
     a.kind \in Weighted}

\* Reset: every run makes a new policy.
StartPolicy ==
    /\ mode = "corpus"
    /\ mode' = "online" /\ plan' = <<>> /\ next' = 1 /\ up' = Members
    /\ crashEpisodes' = 0 /\ lastLifecycleAction' = 0

\* Next draws an action once the one before it has been executed.
Draw ==
    /\ mode = "online" /\ next > Len(plan) /\ Len(plan) < MaxPlanActions
    /\ \E offered \in SUBSET OtherKinds : \E a \in Candidates(offered) :
          /\ plan' = Append(plan, a)
          /\ crashEpisodes' = crashEpisodes + (IF a.kind = "crash" THEN 1 ELSE 0)
          /\ lastLifecycleAction' = IF a.kind \in LifecycleKinds THEN Len(plan')
                                    ELSE lastLifecycleAction
    /\ UNCHANGED <<mode, next, up>>

------------------------------------------------------------------------------
(* The random mutator.                                                     *)

\* The members that the first k actions of p leave stopped.
Stopped(p, k) ==
    {n \in Members : \E i \in 1..k : /\ p[i] = OnMember("crash", n)
                                     /\ \A j \in (i + 1)..k : p[j] # OnMember("restart", n)}

CrashesBefore(p, i) == {j \in 1..(i - 1) : p[j].kind = "crash"}

CooledDown(p, i) ==
    \A j \in 1..(i - 1) : p[j].kind = "restart" => i - j - 1 >= LifecycleCooldown

\* Mutant of ValidateLifecycle: a restart is not looked at.
ValidateCrashes(p) ==
    \A i \in DOMAIN p : p[i].kind = "crash" =>
        /\ p[i].node \notin Stopped(p, i - 1)
        /\ Cardinality(Stopped(p, i - 1)) < MaxCrashed
        /\ Cardinality(CrashesBefore(p, i)) < MaxCrashEpisodes
        /\ CooledDown(p, i)

ValidateLifecycle(p) ==
    \A i \in DOMAIN p :
        /\ p[i].kind = "crash" =>
              /\ p[i].node \notin Stopped(p, i - 1)
              /\ Cardinality(Stopped(p, i - 1)) < MaxCrashed
              /\ Cardinality(CrashesBefore(p, i)) < MaxCrashEpisodes
              /\ CooledDown(p, i)
        /\ p[i].kind = "restart" => p[i].node \in Stopped(p, i - 1)

\* perturbAction: another member, or something that does not matter here.
Perturbed(p) ==
    UNION {{[p EXCEPT ![i].node = n] : n \in IF p[i].kind \in LifecycleKinds THEN Members
                                             ELSE {NoMember}} : i \in DOMAIN p}

Swapped(p) ==
    IF Len(p) < 2 THEN Perturbed(p)
    ELSE {[p EXCEPT ![i] = p[j], ![j] = p[i]] : i, j \in DOMAIN p}

Deleted(p) == IF Len(p) = 1 THEN Perturbed(p) ELSE {RemoveAt(p, i) : i \in DOMAIN p}

Duplicated(p) ==
    IF Len(p) >= MaxPlanActions THEN Perturbed(p)
    ELSE {InsertAt(p, i + 1, p[i]) : i \in DOMAIN p}

Inserted(p) ==
    IF Len(p) >= MaxPlanActions THEN Perturbed(p)
    ELSE {InsertAt(p, i, Plain(kind)) : i \in 1..(Len(p) + 1), kind \in OtherKinds}

\* n is stopped for the actions from start to end.
AroundWindow(p, n, start, end) ==
    SubSeq(p, 1, start - 1) \o <<OnMember("crash", n)>> \o SubSeq(p, start, end)
        \o <<OnMember("restart", n)>> \o SubSeq(p, end + 1, Len(p))

\* Windows are sampled first; only those of one action are tried exhaustively.
Paired(p) ==
    LET windows == {w \in (DOMAIN p) \X (DOMAIN p) : w[1] <= w[2]}
        legal(ws) == {q \in {AroundWindow(p, n, w[1], w[2]) : n \in Members, w \in ws} :
                         ValidateLifecycle(q)}
    IN  IF Len(p) + 2 > MaxPlanActions THEN Perturbed(p)
        ELSE legal(windows)
             \cup (IF legal({w \in windows : w[1] = w[2]}) = {} THEN Perturbed(p) ELSE {})

\* What Mutate may return for p.  That it differs from p and from the other
\* mutants is a matter of the details left out here.
Mutants(p) ==
    {q \in Swapped(p) \cup Perturbed(p) \cup Deleted(p) \cup Duplicated(p) \cup Inserted(p)
           \cup Paired(p) :
     Len(q) \in 1..MaxPlanActions /\ ValidateLifecycle(q)}

\* A mutant of the plan is executed; Mutate refuses an empty plan.
Mutate ==
    /\ mode = "corpus" /\ plan # <<>>
    /\ plan' \in Mutants(plan)
    /\ mode' = "offline" /\ next' = 1 /\ up' = Members
    /\ UNCHANGED policyVars

------------------------------------------------------------------------------
(* Execution.                                                              *)

\* A crash of a stopped member, or a restart of a running one, is skipped.
ExecuteAction ==
    /\ mode # "corpus" /\ next <= Len(plan)
    /\ next' = next + 1
    /\ up' = CASE plan[next].kind = "crash" -> up \ {plan[next].node}
               [] plan[next].kind = "restart" -> up \cup {plan[next].node}
               [] OTHER -> up
    /\ UNCHANGED <<mode, plan, policyVars>>

\* A run may end anywhere, also before the last action drawn is executed: its
\* whole plan is what the corpus gets.
RunEnds ==
    /\ mode # "corpus"
    /\ mode' = "corpus" /\ next' = 1 /\ up' = Members
    /\ crashEpisodes' = 0 /\ lastLifecycleAction' = 0
    /\ UNCHANGED plan

Init ==
    /\ mode = "corpus" /\ plan = <<>> /\ next = 1 /\ up = Members
    /\ crashEpisodes = 0 /\ lastLifecycleAction = 0

Next ==
    \/ StartPolicy
    \/ Draw
    \/ Mutate
    \/ ExecuteAction
    \/ RunEnds

Spec == Init /\ [][Next]_vars

------------------------------------------------------------------------------
(* Properties.                                                             *)

\* What the policy makes, from its observations and counters, the mutator's
\* own rule accepts at every moment, and so do all mutants it returns: a plan
\* is never lost to mutation because the two count a cooldown, an episode or
\* a stopped member differently.
PlansAcceptable == ValidateLifecycle(plan)

\* A plan is judged without being executed, but when it is, every crash finds
\* its member running and one more may stop, and every restart finds it
\* stopped: the Resolver skips neither, and no run is left without a member.
LifecycleNeverSkipped ==
    mode # "corpus" /\ next <= Len(plan) =>
        LET a == plan[next] IN
        /\ a.kind = "crash" => a.node \in up /\ Cardinality(Members \ up) < MaxCrashed
        /\ a.kind = "restart" => a.node \notin up
=============================================================================
