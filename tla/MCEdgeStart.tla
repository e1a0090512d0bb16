---------------------------- MODULE MCEdgeStart ----------------------------
(* Instances of EdgeStart for TLC: the requests of one student, which are  *)
(* alike, in the run that checks safety only.                              *)
EXTENDS EdgeStart, TLC

CONSTANTS a1, a2, a3, ann

Ann == [r \in Requests |-> ann]
Alike == Permutations({a1, a2, a3})
=============================================================================
