---------------------------- MODULE MCJetsonLock ----------------------------
(* Instances of JetsonLock for TLC: two students of one class, and a       *)
(* teacher of another.                                                     *)
EXTENDS JetsonLock

CONSTANTS ann, ben, tina, udo

OneClass == [s \in Students |-> tina]
=============================================================================
