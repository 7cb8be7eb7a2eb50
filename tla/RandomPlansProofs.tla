------------------------- MODULE RandomPlansProofs -------------------------
(***************************************************************************)
(* The rule on crashes, proved for every number of members, every cooldown *)
(* and every limit on crashes: the policy's online counters imply the      *)
(* mutator's offline rule, and the rule implies what execution needs.      *)
(***************************************************************************)
EXTENDS RandomPlans, FiniteSetTheorems, TLAPS

Actions ==
    [kind : LifecycleKinds, node : Members] \cup [kind : OtherKinds, node : {NoMember}]

Types ==
    /\ mode \in {"online", "offline", "corpus"}
    /\ plan \in Seq(Actions) /\ next \in 1..(Len(plan) + 1) /\ up \in SUBSET Members
    /\ crashEpisodes \in Nat /\ lastLifecycleAction \in 0..Len(plan)

\* The members that run are those the executed part of the plan leaves running.
Executed == mode # "corpus" => up = Members \ Stopped(plan, next - 1)

\* The counters of the policy are what its plan says.
Counted ==
    IF mode = "online"
      THEN /\ crashEpisodes = Cardinality(CrashesBefore(plan, Len(plan) + 1))
           /\ \A j \in DOMAIN plan :
                 plan[j].kind \in LifecycleKinds => j <= lastLifecycleAction
      ELSE lastLifecycleAction = 0

PlanInv == Types /\ Executed /\ Counted /\ PlansAcceptable

----------------------------------------------------------------------------
(* Plans.                                                                  *)

\* What is stopped depends on the executed part alone.
LEMMA StoppedAppend ==
    ASSUME NEW p \in Seq(Actions), NEW a \in Actions, NEW k \in 0..Len(p)
    PROVE  Stopped(Append(p, a), k) = Stopped(p, k)
<1>1. \A i \in 1..k : Append(p, a)[i] = p[i]
  OBVIOUS
<1> QED
  BY <1>1 DEF Stopped

\* One more action executed.
LEMMA StoppedStep ==
    ASSUME NEW p \in Seq(Actions), NEW k \in DOMAIN p
    PROVE  Stopped(p, k) =
             CASE p[k].kind = "crash" -> Stopped(p, k - 1) \cup {p[k].node}
               [] p[k].kind = "restart" -> Stopped(p, k - 1) \ {p[k].node}
               [] OTHER -> Stopped(p, k - 1)
<1> DEFINE Falls(i, n) == p[i] = OnMember("crash", n)
           Rises(i, n) == p[i] = OnMember("restart", n)
<1>1. k \in Nat \ {0} /\ p[k] \in Actions
  OBVIOUS
<1>2. \A n \in Members : /\ Falls(k, n) <=> p[k].kind = "crash" /\ p[k].node = n
                         /\ Rises(k, n) <=> p[k].kind = "restart" /\ p[k].node = n
  BY <1>1 DEF Actions, OnMember, LifecycleKinds, OtherKinds
<1>3. p[k].kind \in LifecycleKinds => p[k].node \in Members
  BY <1>1 DEF Actions, LifecycleKinds, OtherKinds
<1> HIDE DEF Falls, Rises
<1>4. \A n : n \in Stopped(p, k) <=>
         n \in Members /\ (Falls(k, n) \/ (n \in Stopped(p, k - 1) /\ ~Rises(k, n)))
  <2>1. \A m \in 0..k : Stopped(p, m) =
          {n \in Members : \E i \in 1..m : Falls(i, n) /\ \A j \in (i + 1)..m : ~Rises(j, n)}
    BY DEF Stopped, Falls, Rises
  <2>2. k - 1 \in 0..k /\ k \in 0..k /\ 1..k = (1..(k - 1)) \cup {k}
    BY <1>1
  <2>3. ASSUME NEW i \in 1..(k - 1)
        PROVE  (i + 1)..k = ((i + 1)..(k - 1)) \cup {k}
    BY <1>1
  <2>4. (k + 1)..k = {}
    BY <1>1
  <2> QED
    BY <2>1, <2>2, <2>3, <2>4
<1>5. Stopped(p, k - 1) \subseteq Members
  BY DEF Stopped
<1> QED
  BY <1>2, <1>3, <1>4, <1>5 DEF LifecycleKinds

\* The crashes of a plan grow with it.
LEMMA CrashesAppend ==
    ASSUME NEW p \in Seq(Actions), NEW a \in Actions
    PROVE  /\ \A i \in 1..(Len(p) + 1) : CrashesBefore(Append(p, a), i) = CrashesBefore(p, i)
           /\ IsFiniteSet(CrashesBefore(p, Len(p) + 1))
           /\ Cardinality(CrashesBefore(Append(p, a), Len(p) + 2)) =
                Cardinality(CrashesBefore(p, Len(p) + 1)) + (IF a.kind = "crash" THEN 1 ELSE 0)
<1> DEFINE old == CrashesBefore(p, Len(p) + 1)
           new == CrashesBefore(Append(p, a), Len(p) + 2)
<1>1. Len(p) \in Nat /\ \A i \in 1..Len(p) : Append(p, a)[i] = p[i]
  OBVIOUS
<1>2. Append(p, a)[Len(p) + 1] = a
  OBVIOUS
<1>3. \A i \in 1..(Len(p) + 1) : CrashesBefore(Append(p, a), i) = CrashesBefore(p, i)
  BY <1>1 DEF CrashesBefore
<1>4. old \subseteq 1..Len(p) /\ IsFiniteSet(old)
  <2>1. old \subseteq 1..Len(p)
    BY <1>1 DEF CrashesBefore
  <2>2. \A m \in Nat : IsFiniteSet(1..m)
    BY FS_Interval
  <2>3. IsFiniteSet(1..Len(p))
    BY <1>1, <2>2
  <2> HIDE DEF old
  <2>4. IsFiniteSet(old)
    BY <2>1, <2>3, FS_Subset
  <2> QED
    BY <2>1, <2>4
<1>5. new = old \cup (IF a.kind = "crash" THEN {Len(p) + 1} ELSE {})
  <2>1. 1..(Len(p) + 2 - 1) = (1..Len(p)) \cup {Len(p) + 1} /\ 1..(Len(p) + 1 - 1) = 1..Len(p)
    BY <1>1
  <2> QED
    BY <2>1, <1>1, <1>2 DEF CrashesBefore
<1>6. Len(p) + 1 \notin old
  BY <1>1, <1>4
<1>7. CASE a.kind = "crash"
  BY <1>3, <1>4, <1>5, <1>6, <1>7, FS_AddElement
<1>8. CASE a.kind # "crash"
  <2>1. new = old /\ Cardinality(old) \in Nat
    BY <1>4, <1>5, <1>8, FS_CardinalityType
  <2> QED
    BY <2>1, <1>3, <1>4, <1>8
<1> QED
  BY <1>7, <1>8
\* The cooldown of the policy is that of the mutator, and its counters decide
\* for it.
LEMMA DrawnAccepted ==
    ASSUME PlanInv, mode = "online", next > Len(plan), NEW offered \in SUBSET OtherKinds,
           NEW a \in Candidates(offered)
    PROVE  a \in Actions /\ ValidateLifecycle(Append(plan, a))
<1> USE DEF PlanInv, Types
<1> DEFINE q == Append(plan, a)
           last == Len(plan) + 1
<1>1. a \in Actions
  BY DEF Candidates, Actions, OnMember, Plain, LifecycleKinds, OtherKinds
<1>2. Len(plan) \in Nat /\ q \in Seq(Actions) /\ DOMAIN q = 1..last /\ q[last] = a
        /\ \A i \in 1..Len(plan) : q[i] = plan[i]
  BY <1>1
<1>3. \A i \in 1..last : Stopped(q, i - 1) = Stopped(plan, i - 1)
  <2> TAKE i \in 1..last
  <2>1. i - 1 \in 0..Len(plan)
    BY <1>2
  <2> QED
    BY <1>1, <2>1, StoppedAppend
<1>4. \A i \in 1..last : CrashesBefore(q, i) = CrashesBefore(plan, i)
  BY <1>1, CrashesAppend
<1>5. \A i \in 1..last : CooledDown(q, i) <=> CooledDown(plan, i)
  BY <1>2 DEF CooledDown
<1>6. Stopped(plan, Len(plan)) = Members \ up
  BY <1>2 DEF Executed, Stopped
<1>7. ASSUME a.kind = "crash"
      PROVE  /\ a.node \in up /\ Cardinality(Members \ up) < MaxCrashed
             /\ crashEpisodes < MaxCrashEpisodes /\ CooledDown(plan, last)
  <2>1. a.node \in up /\ Cardinality(Members \ up) < MaxCrashed /\ CrashAllowed
    <3> DEFINE may == {m \in up : /\ Cardinality(up) > 1
                                  /\ Cardinality(Members \ up) < MaxCrashed
                                  /\ CrashAllowed}
    <3>1. \E n \in may : a = OnMember("crash", n)
      <4>1. \A n : OnMember("restart", n).kind # "crash"
        BY DEF OnMember
      <4>2. \A kind \in OtherKinds : Plain(kind).kind # "crash"
        BY DEF Plain, OtherKinds
      <4> QED
        BY <1>7, <4>1, <4>2 DEF Candidates
    <3>2. \A n : OnMember("crash", n).node = n
      BY DEF OnMember
    <3> HIDE DEF may
    <3> QED
      BY <3>1, <3>2 DEF may
  <2>2. ASSUME NEW j \in 1..(last - 1), plan[j].kind = "restart"
        PROVE  last - j - 1 >= LifecycleCooldown
    <3>1. j \in DOMAIN plan /\ j <= lastLifecycleAction /\ lastLifecycleAction # 0
      BY <1>2, <2>2 DEF Counted, LifecycleKinds
    <3>2. Len(plan) - lastLifecycleAction >= LifecycleCooldown
      BY <2>1, <3>1 DEF CrashAllowed
    <3> QED
      BY <1>2, <3>1, <3>2, RandomConfigAssumption
  <2> QED
    BY <2>1, <2>2 DEF CrashAllowed, CooledDown
<1>8. a.kind = "restart" => a.node \in Members \ up
  BY DEF Candidates, OnMember, Plain, OtherKinds
<1>9. ValidateLifecycle(q)
  <2> SUFFICES ASSUME NEW i \in 1..last
               PROVE  /\ q[i].kind = "crash" =>
                            /\ q[i].node \notin Stopped(plan, i - 1)
                            /\ Cardinality(Stopped(plan, i - 1)) < MaxCrashed
                            /\ Cardinality(CrashesBefore(plan, i)) < MaxCrashEpisodes
                            /\ CooledDown(plan, i)
                      /\ q[i].kind = "restart" => q[i].node \in Stopped(plan, i - 1)
    BY <1>2, <1>3, <1>4, <1>5 DEF ValidateLifecycle
  <2>1. CASE i \in 1..Len(plan)
    BY <1>2, <2>1 DEF PlansAcceptable, ValidateLifecycle
  <2>2. CASE i = last
    <3>1. Stopped(plan, i - 1) = Members \ up
      BY <1>2, <1>6, <2>2
    <3> QED
      BY <1>2, <1>7, <1>8, <2>2, <3>1 DEF Counted
  <2> QED
    BY <1>2, <2>1, <2>2
<1> QED
  BY <1>1, <1>9

\* All operators make a plan of a plan.
LEMMA MutantsArePlans ==
    ASSUME NEW p \in Seq(Actions), NEW q \in Mutants(p)
    PROVE  q \in Seq(Actions) /\ ValidateLifecycle(q)
<1>0. \A i \in 1..(Len(p) + 1), j \in 0..Len(p) : SubSeq(p, i, j) \in Seq(Actions)
  OBVIOUS
<1>1. Perturbed(p) \subseteq Seq(Actions)
  <2> SUFFICES ASSUME NEW i \in DOMAIN p,
                      NEW n \in IF p[i].kind \in LifecycleKinds THEN Members ELSE {NoMember}
               PROVE  [p EXCEPT ![i].node = n] \in Seq(Actions)
    BY DEF Perturbed
  <2>1. p[i] \in Actions
    OBVIOUS
  <2>2. [p[i] EXCEPT !.node = n] \in Actions
    BY <2>1 DEF Actions, LifecycleKinds, OtherKinds
  <2>3. [p EXCEPT ![i].node = n] = [p EXCEPT ![i] = [p[i] EXCEPT !.node = n]]
    OBVIOUS
  <2> QED
    BY <2>2, <2>3
<1>2. Swapped(p) \subseteq Seq(Actions)
  BY <1>1 DEF Swapped
<1>3. Deleted(p) \subseteq Seq(Actions)
  <2>1. ASSUME NEW i \in DOMAIN p
        PROVE  RemoveAt(p, i) \in Seq(Actions)
    <3>1. SubSeq(p, 1, i - 1) \in Seq(Actions) /\ SubSeq(p, i + 1, Len(p)) \in Seq(Actions)
      BY <1>0
    <3> QED
      BY <3>1 DEF RemoveAt
  <2> QED
    BY <1>1, <2>1 DEF Deleted
<1> DEFINE Longer(i, a) == InsertAt(p, i, a)
<1>10. ASSUME NEW i \in 1..(Len(p) + 1), NEW a \in Actions
       PROVE  Longer(i, a) \in Seq(Actions)
  <2>1. SubSeq(p, 1, i - 1) \in Seq(Actions) /\ SubSeq(p, i, Len(p)) \in Seq(Actions)
    BY <1>0
  <2> QED
    BY <2>1 DEF InsertAt
<1>4. Duplicated(p) \subseteq Seq(Actions)
  <2>1. \A i \in DOMAIN p : p[i] \in Actions /\ i + 1 \in 1..(Len(p) + 1)
    OBVIOUS
  <2>2. \A i \in DOMAIN p : InsertAt(p, i + 1, p[i]) \in Seq(Actions)
    BY <1>10, <2>1
  <2> QED
    BY <1>1, <2>2 DEF Duplicated
<1>5. Inserted(p) \subseteq Seq(Actions)
  <2>1. \A kind \in OtherKinds : Plain(kind) \in Actions
    BY DEF Plain, Actions
  <2>2. \A i \in 1..(Len(p) + 1) : \A kind \in OtherKinds :
          InsertAt(p, i, Plain(kind)) \in Seq(Actions)
    BY <1>10, <2>1
  <2> QED
    BY <1>1, <2>2 DEF Inserted
<1>6. Paired(p) \subseteq Seq(Actions)
  <2>1. ASSUME NEW n \in Members, NEW i \in DOMAIN p, NEW j \in DOMAIN p
        PROVE  AroundWindow(p, n, i, j) \in Seq(Actions)
    <3>1. OnMember("crash", n) \in Actions /\ OnMember("restart", n) \in Actions
      BY DEF OnMember, Actions, LifecycleKinds
    <3>2. SubSeq(p, 1, i - 1) \in Seq(Actions) /\ SubSeq(p, i, j) \in Seq(Actions)
            /\ SubSeq(p, j + 1, Len(p)) \in Seq(Actions)
      OBVIOUS
    <3> QED
      BY <3>1, <3>2 DEF AroundWindow
  <2> QED
    BY <1>1, <2>1 DEF Paired
<1> QED
  BY <1>1, <1>2, <1>3, <1>4, <1>5, <1>6 DEF Mutants
----------------------------------------------------------------------------
(* The invariant.                                                          *)

\* An empty plan satisfies the invariant.
LEMMA PlanInit == Init => PlanInv
<1> SUFFICES ASSUME Init PROVE PlanInv
  OBVIOUS
<1>1. plan \in Seq(Actions) /\ Len(plan) = 0 /\ DOMAIN plan = {}
  BY DEF Init
<1>2. Types
  BY <1>1 DEF Types, Init
<1>3. Executed /\ Counted /\ PlansAcceptable
  BY <1>1 DEF Executed, Counted, PlansAcceptable, ValidateLifecycle, Init
<1> QED
  BY <1>2, <1>3 DEF PlanInv

\* Every action the policy or the mutator adds preserves it.
LEMMA PlanStep == PlanInv /\ [Next]_vars => PlanInv'
<1> SUFFICES ASSUME PlanInv, [Next]_vars PROVE PlanInv'
  OBVIOUS
<1> USE DEF PlanInv, Types
<1>1. CASE StartPolicy
  <2>1. plan' \in Seq(Actions) /\ Len(plan') = 0 /\ DOMAIN plan' = {} /\ next' = 1
    BY <1>1 DEF StartPolicy
  <2>2. Stopped(plan', next' - 1) = {}
    BY <2>1 DEF Stopped
  <2>3. CrashesBefore(plan', Len(plan') + 1) = {}
    BY <2>1 DEF CrashesBefore
  <2>4. Types' /\ Executed'
    BY <1>1, <2>1, <2>2 DEF StartPolicy, Executed
  <2>5. Counted'
    BY <1>1, <2>1, <2>3, FS_EmptySet DEF StartPolicy, Counted
  <2>6. PlansAcceptable'
    BY <2>1 DEF PlansAcceptable, ValidateLifecycle
  <2> QED
    BY <2>4, <2>5, <2>6
<1>2. CASE Draw
  <2>0. PICK offered \in SUBSET OtherKinds : \E a \in Candidates(offered) :
          /\ plan' = Append(plan, a)
          /\ crashEpisodes' = crashEpisodes + (IF a.kind = "crash" THEN 1 ELSE 0)
          /\ lastLifecycleAction' = IF a.kind \in LifecycleKinds THEN Len(plan')
                                    ELSE lastLifecycleAction
    BY <1>2 DEF Draw
  <2>1. PICK a \in Candidates(offered) :
          /\ plan' = Append(plan, a)
          /\ crashEpisodes' = crashEpisodes + (IF a.kind = "crash" THEN 1 ELSE 0)
          /\ lastLifecycleAction' = IF a.kind \in LifecycleKinds THEN Len(plan')
                                    ELSE lastLifecycleAction
    BY <2>0
  <2>2. /\ mode = "online" /\ mode' = mode /\ next > Len(plan) /\ next' = next /\ up' = up
    BY <1>2 DEF Draw
  <2>3. a \in Actions /\ ValidateLifecycle(Append(plan, a))
    BY <2>2, DrawnAccepted
  <2>4. /\ Len(plan) \in Nat /\ plan' \in Seq(Actions) /\ Len(plan') = Len(plan) + 1
        /\ plan'[Len(plan) + 1] = a /\ \A i \in 1..Len(plan) : plan'[i] = plan[i]
    BY <2>1, <2>3
  <2>5. Types'
    BY <2>1, <2>2, <2>4
  <2>6. Executed'
    <3>1. next - 1 \in 0..Len(plan)
      BY <2>4
    <3>2. Stopped(plan', next' - 1) = Stopped(plan, next - 1)
      BY <2>1, <2>2, <2>3, <3>1, StoppedAppend
    <3> QED
      BY <2>2, <3>2 DEF Executed
  <2>7. Counted'
    <3>1. Len(plan') + 1 = Len(plan) + 2
      BY <2>4
    <3>2. crashEpisodes' = Cardinality(CrashesBefore(plan', Len(plan') + 1))
      BY <2>1, <2>2, <2>3, <3>1, CrashesAppend DEF Counted
    <3>3. ASSUME NEW j \in DOMAIN plan', plan'[j].kind \in LifecycleKinds
          PROVE  j <= lastLifecycleAction'
      <4>1. CASE j = Len(plan')
        BY <2>1, <2>4, <3>3, <4>1
      <4>2. CASE j \in 1..Len(plan)
        BY <2>1, <2>2, <2>4, <3>3, <4>2 DEF Counted
      <4> QED
        BY <2>4, <4>1, <4>2
    <3> QED
      BY <2>2, <3>2, <3>3 DEF Counted
  <2> QED
    BY <2>1, <2>3, <2>5, <2>6, <2>7 DEF PlansAcceptable
<1>3. CASE Mutate
  <2>1. plan' \in Seq(Actions) /\ ValidateLifecycle(plan')
    BY <1>3, MutantsArePlans DEF Mutate
  <2>2. /\ mode' = "offline" /\ next' = 1 /\ up' = Members
        /\ UNCHANGED policyVars
    BY <1>3 DEF Mutate
  <2>3. lastLifecycleAction = 0 /\ mode = "corpus"
    BY <1>3 DEF Mutate, Counted
  <2>4. Stopped(plan', 0) = {}
    BY DEF Stopped
  <2> QED
    BY <2>1, <2>2, <2>3, <2>4 DEF Executed, Counted, PlansAcceptable, policyVars
<1>4. CASE ExecuteAction
  <2>1. /\ mode # "corpus" /\ next \in DOMAIN plan /\ next' = next + 1
        /\ up' = CASE plan[next].kind = "crash" -> up \ {plan[next].node}
                   [] plan[next].kind = "restart" -> up \cup {plan[next].node}
                   [] OTHER -> up
        /\ UNCHANGED <<mode, plan, policyVars>>
    BY <1>4 DEF ExecuteAction
  <2>2. plan[next] \in Actions
    BY <2>1
  <2>3. plan[next].kind \in LifecycleKinds => plan[next].node \in Members
    BY <2>2 DEF Actions, LifecycleKinds, OtherKinds
  <2>4. Types'
    BY <2>1, <2>3 DEF policyVars, LifecycleKinds
  <2>5. Executed'
    <3>1. next' - 1 = next /\ up = Members \ Stopped(plan, next - 1)
      BY <2>1 DEF Executed
    <3>2. Stopped(plan, next) =
            CASE plan[next].kind = "crash" -> Stopped(plan, next - 1) \cup {plan[next].node}
              [] plan[next].kind = "restart" -> Stopped(plan, next - 1) \ {plan[next].node}
              [] OTHER -> Stopped(plan, next - 1)
      BY <2>1, StoppedStep
    <3>3. up' = Members \ Stopped(plan, next)
      BY <2>1, <2>3, <3>1, <3>2 DEF LifecycleKinds
    <3> QED
      BY <2>1, <3>1, <3>3 DEF Executed
  <2>6. Counted' /\ PlansAcceptable'
    BY <2>1 DEF Counted, PlansAcceptable, policyVars
  <2> QED
    BY <2>4, <2>5, <2>6
<1>5. CASE RunEnds
  BY <1>5 DEF RunEnds, Executed, Counted, PlansAcceptable
<1>6. CASE UNCHANGED vars
  BY <1>6 DEF vars, policyVars, Executed, Counted, PlansAcceptable
<1> QED
  BY <1>1, <1>2, <1>3, <1>4, <1>5, <1>6 DEF Next

\* So every reachable plan satisfies it.
LEMMA PlanInvariance == Spec => []PlanInv
  BY PlanInit, PlanStep, PTL DEF Spec

\* Every plan the random policy makes, action by action, and every mutant of
\* it satisfies the mutator's rule on crashes, for all cooldowns and limits.
THEOREM PlansCorrect == Spec => []PlansAcceptable
<1>1. PlanInv => PlansAcceptable
  BY DEF PlanInv
<1> QED
  BY <1>1, PlanInvariance, PTL

\* The rule is enough for execution: no crash or restart of a plan is skipped,
\* and MaxCrashed members are never down when one more is to crash.
THEOREM LifecycleCorrect == Spec => []LifecycleNeverSkipped
<1>1. PlanInv => LifecycleNeverSkipped
  <2> SUFFICES ASSUME PlanInv, mode # "corpus", next <= Len(plan)
               PROVE  /\ plan[next].kind = "crash" =>
                            /\ plan[next].node \in up
                            /\ Cardinality(Members \ up) < MaxCrashed
                      /\ plan[next].kind = "restart" => plan[next].node \notin up
    BY DEF LifecycleNeverSkipped
  <2>1. next \in DOMAIN plan /\ plan[next] \in Actions
    BY DEF PlanInv, Types
  <2>2. plan[next].kind \in LifecycleKinds => plan[next].node \in Members
    BY <2>1 DEF Actions, LifecycleKinds, OtherKinds
  <2>3. up = Members \ Stopped(plan, next - 1) /\ Members \ up = Stopped(plan, next - 1)
    BY DEF PlanInv, Executed, Stopped
  <2> QED
    BY <2>1, <2>2, <2>3 DEF PlanInv, PlansAcceptable, ValidateLifecycle, LifecycleKinds
<1> QED
  BY <1>1, PlanInvariance, PTL
=============================================================================
