----------------------------- MODULE MCFeedback -----------------------------
(***************************************************************************)
(* Instances of Feedback for TLC.  Three raw model states project to two   *)
(* semantic keys; an execution visits none, one, or the other two of them. *)
(***************************************************************************)
EXTENDS Feedback

MCModelStates == {1, 2, 3}
MCSemanticKey == [s \in MCModelStates |-> IF s = 3 THEN "follower" ELSE "leader"]
MCVisits == {{}, {1}, {2, 3}}
MCVisitsFew == {{}, {1, 3}}
=============================================================================
