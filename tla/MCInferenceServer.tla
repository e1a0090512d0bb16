------------------------- MODULE MCInferenceServer -------------------------
(* An instance of InferenceServer for TLC: two sessions with two models,   *)
(* of which the second only prefetches.                                    *)
EXTENDS InferenceServer, TLC

CONSTANTS ann, ben, act, bct

Own == [c \in Connections |-> c]
BenHasOther == [t \in Tokens |-> IF t = ben THEN bct ELSE act]
AnnOnly == [c \in Connections |-> IF c = ann THEN 1 ELSE 0]
=============================================================================
