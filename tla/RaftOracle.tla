----------------------------- MODULE RaftOracle -----------------------------
(***************************************************************************)
(* internal/oracle/raft: the checks on the observations of one execution   *)
(* that need no model.  A finding is its code.                             *)
(***************************************************************************)
EXTENDS EtcdAdapter

VARIABLE leadersByTerm      \* Checker.leadersByTerm: term -> the first leader seen

OracleInit == leadersByTerm = [t \in {} |-> None]

Found(condition, code) == IF condition THEN {code} ELSE {}

(* monotonicFindings: within one life of a node.                           *)
MonotonicFindings(before, after) ==
    IF before.epoch # after.epoch THEN {}
    ELSE Found(after.term < before.term, "term_regressed")
         \cup Found(after.commit < before.commit, "commit_regressed")
         \cup Found(after.applied < before.applied, "applied_regressed")

NodeFindings(o) ==
    Found(o.applied > o.commit, "applied_exceeds_commit")
    \cup Found(o.commit > o.lastIndex, "commit_exceeds_log")

Leading(observation) == {id \in Nodes : observation[id].role = "leader"}

(* Mutant of KnownLeaders: only the leaders of this observation are known. *)
LeadersNow(observation) ==
    [t \in {observation[id].term : id \in Leading(observation)} |->
        CHOOSE id \in Leading(observation) : observation[id].term = t]

(* The first leader of a term is kept for the rest of the execution.       *)
KnownLeaders(observation) ==
    LET terms == DOMAIN leadersByTerm \cup {observation[id].term : id \in Leading(observation)}
    IN  [t \in terms |-> IF t \in DOMAIN leadersByTerm THEN leadersByTerm[t]
                         ELSE CHOOSE id \in Leading(observation) : observation[id].term = t]

LeaderFindings(observation) ==
    Found(\E id \in Leading(observation) : KnownLeaders(observation)[observation[id].term] # id,
          "multiple_leaders_same_term")

(* Two nodes are compared at the smaller of their commit indices, which is *)
(* a checkpoint both show if they show any: committed_prefix_incomplete    *)
(* cannot be found on observations of the adapter.                         *)
PrefixFindings(ns, observation) ==
    LET commit(id) == observation[id].commit
        exposed == {id \in Nodes : PrefixAvailable(ns, observation, id)}
        pairs == {p \in exposed \X exposed : 0 < commit(p[1]) /\ commit(p[1]) <= commit(p[2])}
    IN  Found(\E p \in pairs : CommittedPrefix(ns, p[1], commit(p[1]))
                                # CommittedPrefix(ns, p[2], commit(p[1])), "committed_log_conflict")

(* Check, over the observations before and after a step.                   *)
Check(before, after, ns) ==
    (UNION {MonotonicFindings(before[id], after[id]) \cup NodeFindings(after[id]) : id \in Nodes})
    \cup LeaderFindings(after) \cup PrefixFindings(ns, after)
=============================================================================
