--------------------------- MODULE MCCreditLedger ---------------------------
(* Model values and symmetry for checking CreditLedger with TLC. No        *)
(* definition tells two teachers, students, groups, trainings or requests  *)
(* apart, so permuting each set is sound for the safety properties.        *)
EXTENDS CreditLedger, TLC

Alike == Permutations(Teachers) \cup Permutations(Students) \cup Permutations(Groups)
         \cup Permutations(Trainings) \cup Permutations(Requests)
=============================================================================
