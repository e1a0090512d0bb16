------------------------- MODULE MCInferenceSession -------------------------
(* Symmetry for checking InferenceSession with TLC: rows, students,        *)
(* connections and logging processes are told apart by no definition.      *)
EXTENDS InferenceSession, TLC

Alike == Permutations(Sessions) \cup Permutations(Students)
         \cup Permutations(Conns) \cup Permutations(Loggers)
=============================================================================
