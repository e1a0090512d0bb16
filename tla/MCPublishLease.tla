--------------------------- MODULE MCPublishLease ---------------------------
(* Instances of PublishLease for TLC: a capped training and one whose      *)
(* final model is bad; the other two endings take steps of these.          *)
EXTENDS PublishLease

CappedOrBad == {<<TRUE, TRUE>>, <<FALSE, FALSE>>}
=============================================================================
