------------------------- MODULE TrainingRow_proofs -------------------------
(***************************************************************************)
(* Proofs about one managed training: types, the order of its attempts and *)
(* the worker's fence, its billing, and how it ends: charged when it ends  *)
(* and never again, a waived training has no checkpoint, an ended attempt  *)
(* gains none, and the row implements one reservation of the ledger.       *)
(***************************************************************************)
EXTENDS TrainingRow, TLAPS

-----------------------------------------------------------------------------
(* Lemmas about the helpers.                                               *)

(* Elapsed running time is a natural number, at most the clock.            *)
LEMMA ElapsedType ==
    ASSUME TypeOK PROVE Elapsed \in Nat
BY RowAssumption DEF TypeOK, Elapsed, Attempts, Null

(* What settlement counts for an open attempt is at most what it ran.      *)
LEMMA OpenSecondsBound ==
    ASSUME TypeOK
    PROVE  /\ OpenSeconds \in Nat
           /\ OpenSeconds <= (IF Live THEN Elapsed ELSE 0)
BY RowAssumption
   DEF TypeOK, OpenSeconds, StopOrNow, Elapsed, Live, Least, Greatest, Attempts, Null

(* Started hours of a natural number of seconds are a natural number.      *)
LEMMA CeilType ==
    ASSUME NEW s \in Nat, Hour \in Nat \ {0}
    PROVE  (s + Hour - 1) \div Hour \in Nat
BY SMT

(* A charge never exceeds the reservation.                                 *)
LEMMA ChargeType ==
    ASSUME NEW s \in Nat, NEW w \in BOOLEAN
    PROVE  ChargeFor(s, w) \in 0..Reserved
BY CeilType, RowAssumption DEF ChargeFor, Least

-----------------------------------------------------------------------------
(* Types.                                                                  *)

(* A settlement leaves the counted seconds and the charge in their types.  *)
LEMMA SettlesType ==
    ASSUME TypeOK, NEW c \in Nat, NEW w \in BOOLEAN, Settles(c, w)
    PROVE  used' \in Nat /\ charged' \in {Null} \cup 0..Reserved
<1>1. Greatest(c, used + OpenSeconds) \in Nat
  BY OpenSecondsBound DEF TypeOK, Greatest
<1> QED
  BY <1>1, ChargeType DEF Settles

(* Running time only grows.                                                *)
LEMMA RanType ==
    ASSUME TypeOK, StopsRunning PROVE ran' \in Nat
BY ElapsedType DEF TypeOK, StopsRunning

(* A terminal write keeps the attempt columns in their types.              *)
LEMMA ClosesType ==
    ASSUME TypeOK, NEW r \in {"canceled", "failed"} \cup PublishReasons, ClosesAttempt(r)
    PROVE  /\ aState' \in [Attempts -> {"none", "lost", "ended"} \cup Active]
           /\ aReason' \in [Attempts -> {"none", "loss", "canceled", "failed"} \cup PublishReasons]
BY DEF TypeOK, ClosesAttempt

(* Ending an attempt for its publish keeps every column in its type.       *)
LEMMA EndsType ==
    ASSUME TypeOK, NEW r \in PublishReasons, NEW n \in Nat, EndsForPublish(r, n)
    PROVE  /\ aState' \in [Attempts -> {"none", "lost", "ended"} \cup Active]
           /\ aReason' \in [Attempts -> {"none", "loss", "canceled", "failed"} \cup PublishReasons]
           /\ status' = "running" /\ token' = 0 /\ used' \in Nat /\ ran' \in Nat
<1>1. ran' \in Nat
  BY RanType DEF EndsForPublish
<1>2. aState' \in [Attempts -> {"none", "lost", "ended"} \cup Active]
  BY DEF TypeOK, EndsForPublish
<1>3. aReason' \in [Attempts -> {"none", "loss", "canceled", "failed"} \cup PublishReasons]
  BY DEF TypeOK, EndsForPublish
<1> QED
  BY <1>1, <1>2, <1>3 DEF TypeOK, EndsForPublish

(* Every step of every function keeps every column in its type.            *)
LEMMA TypeStep == TypeOK /\ [Next]_vars => TypeOK'
<1> SUFFICES ASSUME TypeOK, [Next]_vars PROVE TypeOK'
  OBVIOUS
<1> USE RowAssumption
<1>1. CASE ClaimTrainingAttempt
  <2>1. aState' \in [Attempts -> {"none", "lost", "ended"} \cup Active]
    BY <1>1 DEF TypeOK, ClaimTrainingAttempt, Active
  <2>2. cur' \in 0..MaxAttempt /\ claims' \in 0..MaxClaims /\ token' \in 0..claims'
    BY <1>1 DEF TypeOK, ClaimTrainingAttempt
  <2> QED
    BY <1>1, <2>1, <2>2 DEF TypeOK, ClaimTrainingAttempt
<1>2. CASE AttachTrainingAttempt
  <2>1. aState' \in [Attempts -> {"none", "lost", "ended"} \cup Active]
    BY <1>2 DEF TypeOK, AttachTrainingAttempt, Active
  <2>2. aRef' \in [Attempts -> BOOLEAN]
    BY <1>2 DEF TypeOK, AttachTrainingAttempt
  <2> QED
    BY <1>2, <2>1, <2>2 DEF TypeOK, AttachTrainingAttempt, rowVars
<1>3. CASE ReleaseTrainingAttempt
  <2>1. ckpt' \in [Slots -> {"absent", "uploading", "ready", "refused", "dropped"}]
    BY <1>3 DEF TypeOK, ReleaseTrainingAttempt
  <2>2. aFresh' \in [Attempts -> BOOLEAN]
    BY <1>3 DEF TypeOK, ReleaseTrainingAttempt
  <2>3. aState' \in [Attempts -> {"none", "lost", "ended"} \cup Active]
    BY <1>3 DEF TypeOK, ReleaseTrainingAttempt
  <2>4. cur' \in 0..MaxAttempt /\ token' \in 0..claims
    BY <1>3 DEF TypeOK, ReleaseTrainingAttempt
  <2> QED
    BY <1>3, <2>1, <2>2, <2>3, <2>4 DEF TypeOK, ReleaseTrainingAttempt
<1>4. CASE UpdateTrainingProgress
  <2>1. status' \in Open /\ stepped' \in BOOLEAN
    BY <1>4 DEF TypeOK, UpdateTrainingProgress, Open
  <2>2. aState' \in [Attempts -> {"none", "lost", "ended"} \cup Active]
    BY <1>4 DEF TypeOK, UpdateTrainingProgress, Active
  <2>3. aBeat' \in [Attempts -> {Null} \cup 0..now]
    BY <1>4 DEF TypeOK, UpdateTrainingProgress
  <2> QED
    BY <1>4, <2>1, <2>2, <2>3 DEF TypeOK, UpdateTrainingProgress
<1>5. CASE StartMeta
  BY <1>5 DEF TypeOK, StartMeta, rowVars
<1>6. CASE RequeueTraining
  <2>1. used' \in Nat /\ lost' \in Nat
    BY <1>6, ElapsedType DEF TypeOK, RequeueTraining, Least, Greatest
  <2>2. ran' \in Nat
    BY <1>6, RanType DEF RequeueTraining
  <2>3. stepped' \in BOOLEAN
    BY <1>6 DEF RequeueTraining
  <2>4. aState' \in [Attempts -> {"none", "lost", "ended"} \cup Active]
    BY <1>6 DEF TypeOK, RequeueTraining
  <2>5. aReason' \in [Attempts -> {"none", "loss", "canceled", "failed"} \cup PublishReasons]
    BY <1>6 DEF TypeOK, RequeueTraining
  <2>6. /\ status' = "queued" /\ token' = 0
        /\ UNCHANGED <<cur, claims, capped, stopAt, waived, charged, aRef, aBeat, aFresh, ckpt, now>>
    BY <1>6 DEF RequeueTraining
  <2> QED
    BY <2>1, <2>2, <2>3, <2>4, <2>5, <2>6 DEF TypeOK, Open
<1>7. CASE EndTrainingAttempt
  <2>1. PICK n \in 0..Elapsed : EndsForPublish("succeeded", n)
    BY <1>7 DEF EndTrainingAttempt
  <2>2. n \in Nat
    BY ElapsedType
  <2> QED
    BY <1>7, <2>1, <2>2, EndsType DEF TypeOK, EndTrainingAttempt, PublishReasons, Open
<1>8. CASE CapTrainingAttempt
  <2>1. PICK s \in Steps, n \in 0..Elapsed : capped' = s /\ EndsForPublish("capped", n)
    BY <1>8 DEF CapTrainingAttempt
  <2>2. n \in Nat
    BY ElapsedType
  <2> QED
    BY <1>8, <2>1, <2>2, EndsType DEF TypeOK, CapTrainingAttempt, PublishReasons, Open
<1>9. CASE StopTraining
  <2>1. stopAt' \in {Null} \cup 0..now'
    BY <1>9 DEF TypeOK, StopTraining, FirstStop
  <2>2. CASE StopPublishes
    <3>1. PICK r \in PublishReasons : EndsForPublish(r, Elapsed)
      BY <1>9, <2>2 DEF StopTraining, PublishReasons
    <3>2. capped' \in {Null} \cup Steps
      BY <1>9, <2>2 DEF TypeOK, StopTraining
    <3> QED
      BY <1>9, <2>1, <3>1, <3>2, ElapsedType, EndsType DEF TypeOK, StopTraining, Open
  <2>3. CASE ~StopPublishes
    BY <1>9, <2>1, <2>3 DEF TypeOK, StopTraining, Open
  <2> QED
    BY <2>2, <2>3
<1>10. CASE CancelRequestTraining
  BY <1>10 DEF TypeOK, CancelRequestTraining, FirstStop, attVars, Open
<1>11. CASE CompleteCancelTraining
  <2>1. used' \in Nat /\ charged' \in {Null} \cup 0..Reserved
    <3>1. used + OpenSeconds \in Nat
      BY OpenSecondsBound DEF TypeOK
    <3> QED
      BY <1>11, <3>1, SettlesType DEF CompleteCancelTraining
  <2>2. ran' \in Nat
    BY <1>11, RanType DEF CompleteCancelTraining
  <2> QED
    BY <1>11, <2>1, <2>2, ClosesType DEF TypeOK, CompleteCancelTraining, Terminal
<1>12. CASE FinishTraining
  <2>1. waived' \in BOOLEAN
    BY <1>12 DEF FinishTraining
  <2>2. used' \in Nat /\ charged' \in {Null} \cup 0..Reserved
    <3>1. used + (IF Live THEN Elapsed ELSE 0) \in Nat
      BY ElapsedType DEF TypeOK
    <3> QED
      BY <1>12, <2>1, <3>1, SettlesType DEF FinishTraining
  <2>3. ran' \in Nat
    BY <1>12, RanType DEF FinishTraining
  <2>4. status' \in {"succeeded", "failed"} /\ stepped' \in BOOLEAN
    BY <1>12 DEF TypeOK, FinishTraining
  <2> QED
    BY <1>12, <2>1, <2>2, <2>3, <2>4, ClosesType DEF TypeOK, FinishTraining, Terminal, PublishReasons
<1>13. CASE DeleteRow
  <2>1. used' \in Nat /\ charged' \in {Null} \cup 0..Reserved /\ ran' \in Nat
    BY <1>13, SettlesType, RanType DEF TypeOK, DeleteRow, OwesSettlement
  <2> QED
    BY <1>13, <2>1 DEF TypeOK, DeleteRow
<1>14. CASE InsertCheckpoint
  BY <1>14 DEF TypeOK, InsertCheckpoint, rowVars, attVars
<1>15. CASE MarkCheckpointReady
  BY <1>15 DEF TypeOK, MarkCheckpointReady, rowVars, attVars
<1>16. CASE RefuseCheckpoint
  BY <1>16 DEF TypeOK, RefuseCheckpoint, Removes, rowVars, attVars
<1>17. CASE DeleteCheckpoint
  BY <1>17 DEF TypeOK, DeleteCheckpoint, Removes, rowVars, attVars
<1>18. CASE Tick
  BY <1>18 DEF TypeOK, Tick, rowVars, attVars
<1>19. CASE UNCHANGED vars
  BY <1>19 DEF TypeOK, vars, rowVars, attVars
<1> QED
  BY <1>1, <1>2, <1>3, <1>4, <1>5, <1>6, <1>7, <1>8, <1>9, <1>10, <1>11, <1>12, <1>13,
     <1>14, <1>15, <1>16, <1>17, <1>18, <1>19 DEF Next

(* Every column of a managed training keeps its type.                      *)
THEOREM TypeCorrect == Spec => []TypeOK
<1>1. Init => TypeOK
  <2> SUFFICES ASSUME Init PROVE TypeOK
    OBVIOUS
  <2>1. stepped \in BOOLEAN
    BY DEF Init
  <2>2. /\ waived \in BOOLEAN
        /\ aRef \in [Attempts -> BOOLEAN] /\ aFresh \in [Attempts -> BOOLEAN]
    BY DEF Init
  <2>3. /\ status = "queued" /\ cur = 0 /\ token = 0 /\ claims = 0
        /\ capped = Null /\ stopAt = Null /\ used = 0 /\ lost = 0 /\ charged = Null
        /\ now = 0 /\ ran = 0
    BY DEF Init
  <2>4. /\ aState \in [Attempts -> {"none", "lost", "ended"} \cup Active]
        /\ aReason \in [Attempts -> {"none", "loss", "canceled", "failed"} \cup PublishReasons]
        /\ aBeat \in [Attempts -> {Null} \cup 0..now]
        /\ ckpt \in [Slots -> {"absent", "uploading", "ready", "refused", "dropped"}]
    BY DEF Init
  <2> QED
    BY <2>1, <2>2, <2>3, <2>4, RowAssumption DEF TypeOK, Open
<1> QED
  BY <1>1, TypeStep, PTL DEF Spec

-----------------------------------------------------------------------------
(* The order of the attempts. The three properties need each other: a      *)
(* claim leaves only lost attempts below it because a queued row's current *)
(* attempt is not ended, and a running write moves the right attempt       *)
(* because a token is only valid for an active one.                        *)

(* Ending an attempt for its publish keeps the order.                      *)
LEMMA EndsOrder ==
    ASSUME TypeOK, OneFencedAttempt, NEW r \in PublishReasons, NEW n, Endable,
           EndsForPublish(r, n), cur' = cur
    PROVE  OneFencedAttempt'
<1>1. cur \in Attempts /\ aState' = [aState EXCEPT ![cur] = "ended"] /\ aReason' = [aReason EXCEPT ![cur] = r]
  BY RowAssumption DEF TypeOK, Endable, EndsForPublish, Attempts
<1>2. Publishing' /\ ~Live'
  BY <1>1 DEF TypeOK, Publishing, Live, Active, Attempts
<1>3. AttemptLadder'
  BY <1>1 DEF TypeOK, OneFencedAttempt, AttemptLadder
<1> QED
  BY <1>2, <1>3 DEF EndsForPublish, OneFencedAttempt, TokenFence, RunningHasCause

(* A terminal write keeps the order.                                       *)
LEMMA ClosesOrder ==
    ASSUME TypeOK, OneFencedAttempt, NEW r, ClosesAttempt(r), cur' = cur, token' = 0,
           status' \in Terminal
    PROVE  OneFencedAttempt'
<1>1. ~Live'
  <2>1. CASE Live
    <3>1. cur \in Attempts /\ aState' = [aState EXCEPT ![cur] = "ended"]
      BY <2>1, RowAssumption DEF TypeOK, ClosesAttempt, Live, Attempts
    <3> QED
      BY <3>1 DEF TypeOK, Live, Active
  <2>2. CASE ~Live
    BY <2>2 DEF ClosesAttempt, Live
  <2> QED
    BY <2>1, <2>2
<1>2. AttemptLadder'
  BY DEF TypeOK, OneFencedAttempt, ClosesAttempt, AttemptLadder, Attempts, Live, Active
<1> QED
  BY <1>1, <1>2 DEF OneFencedAttempt, TokenFence, RunningHasCause, Terminal

(* Every step keeps the order of the attempts.                             *)
LEMMA OrderStep == TypeOK /\ OneFencedAttempt /\ [Next]_vars => OneFencedAttempt'
<1> SUFFICES ASSUME TypeOK, OneFencedAttempt, [Next]_vars PROVE OneFencedAttempt'
  OBVIOUS
<1> USE RowAssumption
<1>1. CASE ClaimTrainingAttempt
  <2>1. cur + 1 \in Attempts /\ cur' = cur + 1 /\ token' # 0 /\ status' = "queued"
        /\ aState' = [aState EXCEPT ![cur + 1] = "placing"]
    BY <1>1 DEF TypeOK, ClaimTrainingAttempt, Claimable, Attempts
  <2>2. cur > 0 => aState[cur] = "lost"
    BY <1>1 DEF TypeOK, ClaimTrainingAttempt, Claimable, OneFencedAttempt, RunningHasCause
  <2>3. AttemptLadder'
    BY <2>1, <2>2 DEF TypeOK, OneFencedAttempt, AttemptLadder, Attempts
  <2> QED
    BY <2>1, <2>3 DEF TypeOK, OneFencedAttempt, TokenFence, RunningHasCause, Live, Active
<1>2. CASE AttachTrainingAttempt
  <2>1. cur \in Attempts /\ cur' = cur /\ token' = token /\ status' = status /\ aReason' = aReason
        /\ aState' = [aState EXCEPT ![cur] = IF @ = "placing" THEN "starting" ELSE @]
        /\ aState[cur] \in Active /\ status \in {"queued", "running"}
    BY <1>2 DEF TypeOK, AttachTrainingAttempt, Attempts, Live, rowVars
  <2>2. AttemptLadder' /\ aState'[cur] \in Active
    BY <2>1 DEF TypeOK, OneFencedAttempt, AttemptLadder, Active
  <2> QED
    BY <2>1, <2>2 DEF TypeOK, OneFencedAttempt, TokenFence, RunningHasCause, Live, Active, Publishing, Attempts
<1>3. CASE ReleaseTrainingAttempt
  <2>1. cur \in Attempts /\ cur' = cur - 1 /\ token' = 0 /\ status' = "queued"
        /\ aState' = [aState EXCEPT ![cur] = "none"]
    BY <1>3 DEF TypeOK, ReleaseTrainingAttempt, Attempts
  <2>2. AttemptLadder'
    BY <2>1 DEF TypeOK, OneFencedAttempt, AttemptLadder, Attempts
  <2>3. cur' > 0 => aState'[cur'] = "lost"
    BY <2>1 DEF TypeOK, OneFencedAttempt, AttemptLadder, Attempts
  <2> QED
    BY <2>1, <2>2, <2>3 DEF OneFencedAttempt, TokenFence, RunningHasCause, Live, Active
<1>4. CASE UpdateTrainingProgress
  <2>1. cur \in Attempts /\ aState[cur] \in Active /\ token' = token /\ token # 0
        /\ cur' = cur /\ aReason' = aReason /\ status \in {"queued", "running"}
    BY <1>4 DEF TypeOK, UpdateTrainingProgress, OneFencedAttempt, TokenFence, Live, Attempts
  <2>2. CASE status' = "running" /\ aState[cur] \in {"placing", "starting"}
             /\ aState' = [aState EXCEPT ![cur] = "running"]
    BY <2>1, <2>2 DEF TypeOK, OneFencedAttempt, AttemptLadder, TokenFence, RunningHasCause, Live, Active
  <2>3. CASE status' = "running" /\ aState[cur] \notin {"placing", "starting"} /\ aState' = aState
    BY <2>1, <2>3 DEF TypeOK, OneFencedAttempt, AttemptLadder, TokenFence, RunningHasCause, Live, Active
  <2>4. CASE UNCHANGED <<status, aState>>
    BY <2>1, <2>4 DEF OneFencedAttempt, AttemptLadder, TokenFence, RunningHasCause, Live, Publishing
  <2> QED
    BY <1>4, <2>2, <2>3, <2>4 DEF UpdateTrainingProgress
<1>5. CASE StartMeta
  BY <1>5 DEF StartMeta, rowVars, OneFencedAttempt, AttemptLadder, TokenFence, RunningHasCause, Live, Publishing
<1>6. CASE RequeueTraining
  <2>1. cur \in Attempts /\ cur' = cur /\ token' = 0 /\ status' = "queued"
        /\ aState' = [aState EXCEPT ![cur] = "lost"]
    BY <1>6 DEF TypeOK, RequeueTraining, Live, Attempts
  <2> QED
    BY <2>1 DEF TypeOK, OneFencedAttempt, AttemptLadder, TokenFence, RunningHasCause, Live, Active
<1>7. CASE EndTrainingAttempt
  BY <1>7, EndsOrder DEF EndTrainingAttempt, PublishReasons
<1>8. CASE CapTrainingAttempt
  BY <1>8, EndsOrder DEF CapTrainingAttempt, PublishReasons
<1>9. CASE StopTraining
  <2>1. CASE StopPublishes
    <3>1. PICK r \in PublishReasons : EndsForPublish(r, Elapsed)
      BY <1>9, <2>1 DEF StopTraining, PublishReasons
    <3> QED
      BY <1>9, <2>1, <3>1, EndsOrder DEF StopTraining, StopPublishes
  <2>2. CASE ~StopPublishes
    BY <1>9, <2>2 DEF StopTraining, Stoppable, OneFencedAttempt, AttemptLadder, TokenFence, RunningHasCause,
                      Live, Publishing
  <2> QED
    BY <2>1, <2>2
<1>10. CASE CancelRequestTraining
  BY <1>10 DEF CancelRequestTraining, Stoppable, attVars, OneFencedAttempt, AttemptLadder, TokenFence,
               RunningHasCause, Live, Publishing
<1>11. CASE CompleteCancelTraining
  BY <1>11, ClosesOrder DEF CompleteCancelTraining, Terminal
<1>12. CASE FinishTraining
  BY <1>12, ClosesOrder DEF FinishTraining, Terminal
<1>13. CASE DeleteRow
  BY <1>13 DEF TypeOK, DeleteRow, OneFencedAttempt, AttemptLadder, TokenFence, RunningHasCause, Live, Attempts
<1>14. CASE InsertCheckpoint
  BY <1>14 DEF InsertCheckpoint, rowVars, attVars, OneFencedAttempt, AttemptLadder, TokenFence, RunningHasCause, Live, Publishing
<1>15. CASE MarkCheckpointReady
  BY <1>15 DEF MarkCheckpointReady, rowVars, attVars, OneFencedAttempt, AttemptLadder, TokenFence, RunningHasCause, Live, Publishing
<1>16. CASE RefuseCheckpoint
  BY <1>16 DEF RefuseCheckpoint, rowVars, attVars, OneFencedAttempt, AttemptLadder, TokenFence, RunningHasCause, Live, Publishing
<1>17. CASE DeleteCheckpoint
  BY <1>17 DEF DeleteCheckpoint, rowVars, attVars, OneFencedAttempt, AttemptLadder, TokenFence, RunningHasCause, Live, Publishing
<1>18. CASE Tick
  BY <1>18 DEF Tick, rowVars, attVars, OneFencedAttempt, AttemptLadder, TokenFence, RunningHasCause, Live, Publishing
<1>19. CASE UNCHANGED vars
  BY <1>19 DEF vars, rowVars, attVars, OneFencedAttempt, AttemptLadder, TokenFence, RunningHasCause, Live, Publishing
<1> QED
  BY <1>1, <1>2, <1>3, <1>4, <1>5, <1>6, <1>7, <1>8, <1>9, <1>10, <1>11, <1>12, <1>13,
     <1>14, <1>15, <1>16, <1>17, <1>18, <1>19 DEF Next

(* The worker's token is valid exactly while the current attempt is        *)
(* active, the attempts before it are lost, and a running row has a        *)
(* running or publishing attempt behind it.                                *)
THEOREM AttemptOrder == Spec => []OneFencedAttempt
<1>1. Init => OneFencedAttempt
  BY RowAssumption DEF Init, OneFencedAttempt, AttemptLadder, TokenFence, RunningHasCause, Live, Attempts
<1> QED
  BY <1>1, TypeCorrect, OrderStep, PTL DEF Spec

-----------------------------------------------------------------------------
(* Billing.                                                                *)

(* A settlement counts at most the time the open attempt ran.              *)
LEMMA SettlesCounts ==
    ASSUME TypeOK, NEW c \in Nat, NEW w \in BOOLEAN, Settles(c, w), StopsRunning,
           CountedOnce, lost' = lost,
           c <= used + (IF Live THEN Elapsed ELSE 0)
    PROVE  CountedOnce'
<1>1. used' <= used + (IF Live THEN Elapsed ELSE 0)
  BY OpenSecondsBound, ElapsedType DEF TypeOK, Settles, Greatest
<1>2. used' \in Nat
  BY SettlesType
<1> QED
  BY <1>1, <1>2, ElapsedType DEF TypeOK, StopsRunning, CountedOnce

(* Ending an attempt for its publish counts it at most once.               *)
LEMMA EndsCounts ==
    ASSUME TypeOK, CountedOnce, NEW r, NEW n \in 0..Elapsed, EndsForPublish(r, n), lost' = lost
    PROVE  CountedOnce'
BY ElapsedType DEF TypeOK, EndsForPublish, StopsRunning, CountedOnce

(* Every step keeps what was counted within what ran.                      *)
LEMMA CountedStep == TypeOK /\ CountedOnce /\ [Next]_vars => CountedOnce'
<1> SUFFICES ASSUME TypeOK, CountedOnce, [Next]_vars PROVE CountedOnce'
  OBVIOUS
<1>1. CASE RequeueTraining
  <2>1. PICK secs \in 0..Elapsed, counted \in 0..Elapsed, saved \in 0..Elapsed :
            /\ used' = used + Least(secs, saved)
            /\ lost' = lost + Greatest(counted - Least(secs, saved), 0)
    BY <1>1 DEF RequeueTraining
  <2>2. ran' = ran + Elapsed
    BY <1>1 DEF RequeueTraining, StopsRunning
  <2> QED
    BY <2>1, <2>2, ElapsedType DEF TypeOK, CountedOnce, Least, Greatest
<1>2. CASE EndTrainingAttempt
  BY <1>2, EndsCounts DEF EndTrainingAttempt
<1>3. CASE CapTrainingAttempt
  BY <1>3, EndsCounts DEF CapTrainingAttempt
<1>4. CASE StopTraining
  <2>1. CASE StopPublishes
    <3>1. PICK r \in PublishReasons : EndsForPublish(r, Elapsed)
      BY <1>4, <2>1 DEF StopTraining, PublishReasons
    <3> QED
      BY <1>4, <3>1, ElapsedType, EndsCounts DEF StopTraining
  <2>2. CASE ~StopPublishes
    BY <1>4, <2>2 DEF StopTraining, CountedOnce
  <2> QED
    BY <2>1, <2>2
<1>5. CASE CompleteCancelTraining
  <2>1. used + OpenSeconds \in Nat
    BY OpenSecondsBound DEF TypeOK
  <2>2. used + OpenSeconds <= used + (IF Live THEN Elapsed ELSE 0)
    BY OpenSecondsBound, ElapsedType DEF TypeOK
  <2> QED
    BY <1>5, <2>1, <2>2, SettlesCounts DEF CompleteCancelTraining
<1>6. CASE FinishTraining
  <2>1. waived' \in BOOLEAN
    BY <1>6 DEF FinishTraining
  <2>2. used + (IF Live THEN Elapsed ELSE 0) \in Nat
    BY ElapsedType DEF TypeOK
  <2> QED
    BY <1>6, <2>1, <2>2, SettlesCounts DEF FinishTraining
<1>7. CASE DeleteRow
  <2>1. CASE status \in Open
    <3>1. used <= used + (IF Live THEN Elapsed ELSE 0) /\ used \in Nat
      BY ElapsedType DEF TypeOK
    <3> QED
      BY <1>7, <2>1, <3>1, SettlesCounts DEF DeleteRow, OwesSettlement
  <2>2. CASE status \notin Open
    BY <1>7, <2>2 DEF DeleteRow, OwesSettlement, CountedOnce
  <2> QED
    BY <2>1, <2>2
<1>8. CASE UNCHANGED <<used, lost, ran>>
  BY <1>8 DEF CountedOnce
<1>9. CASE ClaimTrainingAttempt \/ AttachTrainingAttempt \/ ReleaseTrainingAttempt
           \/ UpdateTrainingProgress \/ StartMeta \/ CancelRequestTraining
  BY <1>8, <1>9 DEF ClaimTrainingAttempt, AttachTrainingAttempt, ReleaseTrainingAttempt,
                    UpdateTrainingProgress, StartMeta, CancelRequestTraining, rowVars
<1>10. CASE InsertCheckpoint \/ MarkCheckpointReady \/ RefuseCheckpoint \/ DeleteCheckpoint
            \/ Tick \/ UNCHANGED vars
  BY <1>8, <1>10 DEF InsertCheckpoint, MarkCheckpointReady, RefuseCheckpoint, DeleteCheckpoint,
                     Tick, vars, rowVars
<1> QED
  BY <1>1, <1>2, <1>3, <1>4, <1>5, <1>6, <1>7, <1>9, <1>10 DEF Next

(* No second of training is counted twice: billed and lost time together   *)
(* are at most the time in which attempts ran.                             *)
THEOREM BilledAtMostRun == Spec => []CountedOnce
<1>1. Init => CountedOnce
  BY DEF Init, CountedOnce
<1> QED
  BY <1>1, TypeCorrect, CountedStep, PTL DEF Spec

-----------------------------------------------------------------------------
(* How a training ends.                                                    *)

(* A settlement charges the started hours of what it counted.              *)
LEMMA SettlesCharge ==
    ASSUME TypeOK, NEW c \in Nat, NEW w \in BOOLEAN, Settles(c, w)
    PROVE  /\ charged' \in 0..Reserved
           /\ charged' = IF EverBeat /\ ~w THEN Least(Reserved, (used' + Hour - 1) \div Hour) ELSE 0
<1>1. Greatest(c, used + OpenSeconds) \in Nat
  BY OpenSecondsBound DEF TypeOK, Greatest
<1>2. charged' \in 0..Reserved
  BY <1>1, ChargeType DEF Settles
<1> QED
  BY <1>2 DEF Settles, ChargeFor

(* A step between two open states leaves the reservation alone.            *)
LEMMA OpenStep ==
    ASSUME SettledAtEnd, status \in Open, status' \in Open, UNCHANGED <<charged, waived>>
    PROVE  SettledAtEnd'
BY DEF SettledAtEnd, Open, Terminal

(* A step that touches none of the columns of a settlement keeps it.       *)
LEMMA RestStep ==
    ASSUME SettledAtEnd, UNCHANGED <<status, used, charged, waived, aBeat>>
    PROVE  SettledAtEnd'
BY DEF SettledAtEnd, EverBeat

(* Which writers end a training: everything else moves between open states *)
(* or leaves status, charge and counted seconds alone.                     *)
LEMMA OpenWriters ==
    ASSUME TypeOK,
           ClaimTrainingAttempt \/ AttachTrainingAttempt \/ ReleaseTrainingAttempt
           \/ UpdateTrainingProgress \/ RequeueTraining \/ EndTrainingAttempt
           \/ CapTrainingAttempt \/ StopTraining \/ CancelRequestTraining
    PROVE  status \in Open /\ status' \in Open /\ UNCHANGED <<charged, waived>>
<1>1. CASE ClaimTrainingAttempt \/ AttachTrainingAttempt \/ ReleaseTrainingAttempt
  BY <1>1 DEF ClaimTrainingAttempt, Claimable, AttachTrainingAttempt, ReleaseTrainingAttempt,
              rowVars, Open
<1>2. CASE UpdateTrainingProgress \/ RequeueTraining
  BY <1>2 DEF UpdateTrainingProgress, RequeueTraining, Open
<1>3. CASE EndTrainingAttempt \/ CapTrainingAttempt
  BY <1>3 DEF EndTrainingAttempt, CapTrainingAttempt, Endable, EndsForPublish, Open
<1>4. CASE StopTraining \/ CancelRequestTraining
  BY <1>4 DEF StopTraining, CancelRequestTraining, Stoppable, StopPublishes, EndsForPublish, Open
<1> QED
  BY <1>1, <1>2, <1>3, <1>4

LEMMA RestWriters ==
    ASSUME StartMeta \/ InsertCheckpoint \/ MarkCheckpointReady \/ RefuseCheckpoint
           \/ DeleteCheckpoint \/ Tick \/ UNCHANGED vars
    PROVE  UNCHANGED <<status, used, charged, waived, aBeat, token, capped>>
BY DEF StartMeta, InsertCheckpoint, MarkCheckpointReady, RefuseCheckpoint, DeleteCheckpoint, Tick,
       vars, rowVars, attVars

LEMMA SettledStep == TypeOK /\ SettledAtEnd /\ [Next]_vars => SettledAtEnd'
<1> SUFFICES ASSUME TypeOK, SettledAtEnd, [Next]_vars PROVE SettledAtEnd'
  OBVIOUS
<1>1. CASE ClaimTrainingAttempt \/ AttachTrainingAttempt \/ ReleaseTrainingAttempt
           \/ UpdateTrainingProgress \/ RequeueTraining \/ EndTrainingAttempt
           \/ CapTrainingAttempt \/ StopTraining \/ CancelRequestTraining
  BY <1>1, OpenWriters, OpenStep
<1>2. CASE CompleteCancelTraining
  <2>1. status' \in {"canceled", "failed"} /\ waived' = waived /\ aBeat' = aBeat
    BY <1>2 DEF CompleteCancelTraining
  <2>2. waived = FALSE
    BY <1>2 DEF CompleteCancelTraining, SettledAtEnd, TypeOK, Open, Null
  <2>3. used + OpenSeconds \in Nat
    BY OpenSecondsBound DEF TypeOK
  <2>4. /\ charged' \in 0..Reserved
        /\ charged' = IF EverBeat THEN Least(Reserved, (used' + Hour - 1) \div Hour) ELSE 0
    BY <1>2, <2>3, SettlesCharge DEF CompleteCancelTraining
  <2> QED
    BY <2>1, <2>2, <2>4 DEF SettledAtEnd, EverBeat, Open, Terminal, Null
<1>3. CASE FinishTraining
  <2>1. status' \in {"succeeded", "failed"} /\ aBeat' = aBeat
    BY <1>3 DEF FinishTraining
  <2>2. waived' \in BOOLEAN
    BY <1>3 DEF FinishTraining
  <2>3. used + (IF Live THEN Elapsed ELSE 0) \in Nat
    BY ElapsedType DEF TypeOK
  <2>4. /\ charged' \in 0..Reserved
        /\ charged' = IF EverBeat /\ ~waived' THEN Least(Reserved, (used' + Hour - 1) \div Hour) ELSE 0
    BY <1>3, <2>2, <2>3, SettlesCharge DEF FinishTraining
  <2> QED
    BY <2>1, <2>2, <2>4 DEF SettledAtEnd, EverBeat, Open, Terminal, Null
<1>4. CASE DeleteRow
  <2>1. status' = "gone" /\ waived' = waived
    BY <1>4 DEF DeleteRow
  <2>2. CASE status \in Open
    <3>1. waived = FALSE
      BY <2>2 DEF SettledAtEnd, TypeOK, Null
    <3>2. charged' \in 0..Reserved
      BY <1>4, <2>2, SettlesCharge DEF DeleteRow, OwesSettlement, TypeOK
    <3> QED
      BY <2>1, <3>1, <3>2 DEF SettledAtEnd, Open, Terminal, Null
  <2>3. CASE status \notin Open
    BY <1>4, <2>1, <2>3 DEF DeleteRow, OwesSettlement, SettledAtEnd, Open, Terminal
  <2> QED
    BY <2>2, <2>3
<1>5. CASE StartMeta \/ InsertCheckpoint \/ MarkCheckpointReady \/ RefuseCheckpoint
           \/ DeleteCheckpoint \/ Tick \/ UNCHANGED vars
  BY <1>5, RestWriters, RestStep
<1> QED
  BY <1>1, <1>2, <1>3, <1>4, <1>5 DEF Next

(* A training has been charged exactly when it has ended, for the started  *)
(* hours of its counted seconds within the reservation.                    *)
THEOREM ChargedAtEnd == Spec => []SettledAtEnd
<1>1. Init => SettledAtEnd
  BY DEF Init, SettledAtEnd, Open, Terminal
<1> QED
  BY <1>1, TypeCorrect, SettledStep, PTL DEF Spec

-----------------------------------------------------------------------------
(* Nothing happens after the end.                                          *)

(* An ended training has no worker.                                        *)
EndedFenced == status \notin Open => token = 0

LEMMA FinalStep ==
    ASSUME TypeOK, EndedFenced, [Next]_vars
    PROVE  /\ EndedFenced'
           /\ status \notin Open => /\ charged' = charged /\ used' = used
                                    /\ status' \in {status, "gone"} /\ token' = 0
<1>1. CASE ClaimTrainingAttempt \/ AttachTrainingAttempt \/ ReleaseTrainingAttempt
           \/ UpdateTrainingProgress \/ RequeueTraining \/ EndTrainingAttempt
           \/ CapTrainingAttempt \/ StopTraining \/ CancelRequestTraining
  BY <1>1, OpenWriters DEF EndedFenced
<1>2. CASE CompleteCancelTraining \/ FinishTraining
  BY <1>2 DEF CompleteCancelTraining, FinishTraining, Finishable, EndedFenced, Open
<1>3. CASE DeleteRow
  BY <1>3 DEF DeleteRow, OwesSettlement, EndedFenced, Open
<1>4. CASE StartMeta \/ InsertCheckpoint \/ MarkCheckpointReady \/ RefuseCheckpoint
           \/ DeleteCheckpoint \/ Tick \/ UNCHANGED vars
  BY <1>4, RestWriters DEF EndedFenced
<1> QED
  BY <1>1, <1>2, <1>3, <1>4 DEF Next

LEMMA AlwaysFenced == Spec => []EndedFenced
<1>1. Init => EndedFenced
  BY DEF Init, EndedFenced, Open
<1>2. TypeOK /\ EndedFenced /\ [Next]_vars => EndedFenced'
  BY FinalStep
<1> QED
  BY <1>1, <1>2, TypeCorrect, PTL DEF Spec

(* What an ended training was charged is final.                            *)
THEOREM FinalEnd == Spec => EndIsFinal
<1>1. TypeOK /\ EndedFenced /\ [Next]_vars =>
        [status \notin Open => /\ charged' = charged /\ used' = used
                               /\ status' \in {status, "gone"} /\ token' = 0]_vars
  BY FinalStep
<1> QED
  BY <1>1, AlwaysFenced, TypeCorrect, PTL DEF Spec, EndIsFinal

-----------------------------------------------------------------------------
(* Checkpoints.                                                            *)

(* Only ckpt-done of the running current attempt makes a checkpoint ready. *)
LEMMA ReadyStep ==
    ASSUME TypeOK, [Next]_vars, NEW x \in Slots, ckpt'[x] = "ready", ckpt[x] # "ready"
    PROVE  status = "running" /\ aState[x[1]] = "running" /\ waived' = waived
<1>1. CASE MarkCheckpointReady
  <2>1. PICK s \in Steps : ckpt' = [ckpt EXCEPT ![<<cur, s>>] = "ready"]
    BY <1>1 DEF MarkCheckpointReady
  <2>2. x = <<cur, s>>
    BY <2>1 DEF TypeOK
  <2> QED
    BY <1>1, <2>2 DEF MarkCheckpointReady, Markable, rowVars
<1>2. CASE ReleaseTrainingAttempt
  BY <1>2 DEF ReleaseTrainingAttempt
<1>3. CASE DeleteRow
  BY <1>3 DEF DeleteRow
<1>4. CASE InsertCheckpoint \/ RefuseCheckpoint \/ DeleteCheckpoint
  <2>1. PICK y \in Slots, v \in {"uploading", "refused", "dropped"} : ckpt' = [ckpt EXCEPT ![y] = v]
    BY <1>4 DEF InsertCheckpoint, RefuseCheckpoint, DeleteCheckpoint, Removes
  <2> QED
    BY <2>1 DEF TypeOK
<1>5. CASE UNCHANGED ckpt
  BY <1>5
<1>6. CASE ClaimTrainingAttempt \/ AttachTrainingAttempt \/ UpdateTrainingProgress \/ StartMeta
           \/ RequeueTraining \/ EndTrainingAttempt \/ CapTrainingAttempt
  BY <1>5, <1>6 DEF ClaimTrainingAttempt, AttachTrainingAttempt, UpdateTrainingProgress, StartMeta,
                    RequeueTraining, EndTrainingAttempt, CapTrainingAttempt
<1>7. CASE StopTraining \/ CancelRequestTraining \/ CompleteCancelTraining \/ FinishTraining
           \/ Tick \/ UNCHANGED vars
  BY <1>5, <1>7 DEF StopTraining, CancelRequestTraining, CompleteCancelTraining, FinishTraining,
                    Tick, vars
<1> QED
  BY <1>1, <1>2, <1>3, <1>4, <1>6, <1>7 DEF Next

(* No checkpoint of an attempt that is over becomes ready.                 *)
THEOREM OverGainsNone == Spec => NoLateReady
<1>1. TypeOK /\ [Next]_vars =>
        [\A x \in Slots : aState[x[1]] \notin Active /\ ckpt'[x] = "ready" => ckpt[x] = "ready"]_vars
  BY ReadyStep DEF Active
<1> QED
  BY <1>1, TypeCorrect, PTL DEF Spec, NoLateReady

LEMMA WaiverStep ==
    TypeOK /\ SettledAtEnd /\ WaivedHasNoCheckpoint /\ [Next]_vars => WaivedHasNoCheckpoint'
<1> SUFFICES ASSUME TypeOK, SettledAtEnd, WaivedHasNoCheckpoint, [Next]_vars, waived',
                    NEW x \in Slots, ckpt'[x] = "ready"
             PROVE  FALSE
  BY DEF WaivedHasNoCheckpoint
<1>1. CASE waived
  <2>1. ckpt[x] # "ready"
    BY <1>1 DEF WaivedHasNoCheckpoint
  <2>2. status = "running"
    BY <2>1, ReadyStep
  <2> QED
    BY <1>1, <2>2 DEF SettledAtEnd, Open, Null
<1>2. CASE ~waived
  <2>1. waived' # waived
    BY <1>2
  <2>2. CASE FinishTraining
    <3>1. WaiverProven /\ ckpt' = ckpt
      BY <2>2 DEF FinishTraining
    <3> QED
      BY <3>1 DEF WaiverProven
  <2>3. CASE UNCHANGED waived
    BY <2>1, <2>3
  <2>4. CASE ClaimTrainingAttempt \/ AttachTrainingAttempt \/ ReleaseTrainingAttempt
             \/ UpdateTrainingProgress \/ RequeueTraining \/ EndTrainingAttempt
             \/ CapTrainingAttempt \/ StopTraining \/ CancelRequestTraining
    BY <2>3, <2>4, OpenWriters
  <2>5. CASE CompleteCancelTraining \/ DeleteRow
    BY <2>3, <2>5 DEF CompleteCancelTraining, DeleteRow
  <2>6. CASE StartMeta \/ InsertCheckpoint \/ MarkCheckpointReady \/ RefuseCheckpoint
             \/ DeleteCheckpoint \/ Tick \/ UNCHANGED vars
    BY <2>3, <2>6, RestWriters
  <2> QED
    BY <2>2, <2>4, <2>5, <2>6 DEF Next
<1> QED
  BY <1>1, <1>2 DEF TypeOK

(* A training whose charge was waived has and gets no usable checkpoint.   *)
THEOREM WaiverIsEmpty == Spec => []WaivedHasNoCheckpoint
<1>1. Init => WaivedHasNoCheckpoint
  BY DEF Init, WaivedHasNoCheckpoint
<1> QED
  BY <1>1, TypeCorrect, ChargedAtEnd, WaiverStep, PTL DEF Spec

(* Both: an ended training was charged for what it used, or for nothing    *)
(* and then has nothing that could be used.                                *)
THEOREM ChargedForUse == Spec => []ChargedOrUseless
<1>1. SettledAtEnd /\ WaivedHasNoCheckpoint => ChargedOrUseless
  BY DEF ChargedOrUseless
<1> QED
  BY <1>1, ChargedAtEnd, WaiverIsEmpty, PTL

-----------------------------------------------------------------------------
(* The meter.                                                              *)

(* A requested cancel has the time of the first request.                   *)
StopKnown == status = "cancel_requested" => stopAt # Null

LEMMA StopKnownStep == TypeOK /\ StopKnown /\ [Next]_vars => StopKnown'
<1> SUFFICES ASSUME TypeOK, StopKnown, [Next]_vars PROVE StopKnown'
  OBVIOUS
<1>1. CASE StopTraining \/ CancelRequestTraining
  BY <1>1 DEF StopTraining, CancelRequestTraining, FirstStop, StopKnown, TypeOK, Null
<1>2. CASE UNCHANGED stopAt /\ (status' = status \/ status' # "cancel_requested")
  BY <1>2 DEF StopKnown
<1>3. CASE ClaimTrainingAttempt \/ AttachTrainingAttempt \/ ReleaseTrainingAttempt
           \/ UpdateTrainingProgress \/ RequeueTraining
  BY <1>2, <1>3 DEF ClaimTrainingAttempt, AttachTrainingAttempt, ReleaseTrainingAttempt,
                    UpdateTrainingProgress, RequeueTraining, rowVars
<1>4. CASE EndTrainingAttempt \/ CapTrainingAttempt \/ CompleteCancelTraining
           \/ FinishTraining \/ DeleteRow
  BY <1>2, <1>4 DEF EndTrainingAttempt, CapTrainingAttempt, EndsForPublish,
                    CompleteCancelTraining, FinishTraining, DeleteRow
<1>5. CASE StartMeta \/ InsertCheckpoint \/ MarkCheckpointReady \/ RefuseCheckpoint
           \/ DeleteCheckpoint \/ Tick \/ UNCHANGED vars
  BY <1>2, <1>5 DEF StartMeta, InsertCheckpoint, MarkCheckpointReady, RefuseCheckpoint,
                    DeleteCheckpoint, Tick, vars, rowVars
<1> QED
  BY <1>1, <1>3, <1>4, <1>5 DEF Next

LEMMA MeterStep ==
    ASSUME TypeOK, TypeOK', StopKnown, [Next]_vars, status = "cancel_requested"
    PROVE  used' + OpenSeconds' <= used + OpenSeconds
<1>0. used \in Nat /\ used' \in Nat /\ OpenSeconds \in Nat
  BY OpenSecondsBound DEF TypeOK
<1>1. CASE CompleteCancelTraining \/ DeleteRow
  <2>1. used' = used + OpenSeconds
    <3>1. CASE CompleteCancelTraining
      BY <1>0, <3>1 DEF CompleteCancelTraining, Settles, Greatest
    <3>2. CASE DeleteRow
      BY <1>0, <3>2 DEF DeleteRow, OwesSettlement, Settles, Greatest, Open
    <3> QED
      BY <1>1, <3>1, <3>2
  <2>2. ~Live'
    <3>1. CASE CompleteCancelTraining
      <4>1. cur' = cur /\ ClosesAttempt("canceled")
        BY <3>1 DEF CompleteCancelTraining
      <4> QED
        BY <4>1, RowAssumption DEF ClosesAttempt, Live, Active, TypeOK, Attempts
    <3>2. CASE DeleteRow
      BY <3>2 DEF DeleteRow, Live
    <3> QED
      BY <1>1, <3>1, <3>2
  <2>3. OpenSeconds' = 0
    BY <2>2 DEF OpenSeconds
  <2> QED
    BY <1>0, <2>1, <2>3
<1>2. CASE Tick
  <2>1. UNCHANGED <<used, cur, aState, aBeat, stopAt>> /\ now' = now + 1
    BY <1>2 DEF Tick, rowVars, attVars
  <2>2. StopOrNow' = StopOrNow
    BY <2>1 DEF StopOrNow, StopKnown, Least, Null, TypeOK
  <2>3. OpenSeconds' = OpenSeconds
    BY <2>1, <2>2 DEF OpenSeconds, Live
  <2> QED
    BY <1>0, <2>1, <2>3
<1>3. CASE UNCHANGED <<used, cur, aState, aBeat, stopAt, now>>
  <2>1. OpenSeconds' = OpenSeconds
    BY <1>3 DEF OpenSeconds, Live, StopOrNow
  <2> QED
    BY <1>0, <1>3, <2>1
<1>4. CASE StopTraining
  <2>1. UNCHANGED <<used, aState>>
    BY <1>4 DEF StopTraining, StopPublishes
  <2> QED
    BY <1>3, <1>4, <2>1 DEF StopTraining, FirstStop, StopKnown
<1>5. CASE CancelRequestTraining
  BY <1>3, <1>5 DEF CancelRequestTraining, FirstStop, StopKnown, attVars
<1>6. CASE StartMeta \/ InsertCheckpoint \/ MarkCheckpointReady \/ RefuseCheckpoint
           \/ DeleteCheckpoint \/ UNCHANGED vars
  BY <1>3, <1>6 DEF StartMeta, InsertCheckpoint, MarkCheckpointReady, RefuseCheckpoint,
                    DeleteCheckpoint, vars, rowVars, attVars
<1>7. ~(ClaimTrainingAttempt \/ AttachTrainingAttempt \/ ReleaseTrainingAttempt
        \/ UpdateTrainingProgress \/ RequeueTraining \/ EndTrainingAttempt
        \/ CapTrainingAttempt \/ FinishTraining)
  BY DEF ClaimTrainingAttempt, Claimable, AttachTrainingAttempt, ReleaseTrainingAttempt,
         UpdateTrainingProgress, RequeueTraining, EndTrainingAttempt, CapTrainingAttempt,
         Endable, FinishTraining, Finishable
<1> QED
  BY <1>1, <1>2, <1>4, <1>5, <1>6, <1>7 DEF Next

(* From the first stop request on no waiting, no retry and no later        *)
(* request adds a billable second.                                         *)
THEOREM StopEndsBilling == Spec => StopStopsMeter
<1>1. Init => StopKnown
  BY DEF Init, StopKnown
<1>2. TypeOK /\ TypeOK' /\ StopKnown /\ [Next]_vars =>
        [status = "cancel_requested" => used' + OpenSeconds' <= used + OpenSeconds]_vars
  BY MeterStep
<1> QED
  BY <1>1, <1>2, StopKnownStep, TypeCorrect, PTL DEF Spec, StopStopsMeter

(* Time is billed once, and not after a stop was asked for.                *)
THEOREM BilledOnce == Spec => TimeIsBilledOnce
<1>1. Spec => []CountedOnce
  BY BilledAtMostRun
<1>2. Spec => StopStopsMeter
  BY StopEndsBilling
<1> QED
  BY <1>1, <1>2 DEF TimeIsBilledOnce

(* Neither the end of the training nor of one of its attempts is touched   *)
(* by a late call.                                                         *)
THEOREM NothingAfterEnd == Spec => OverIsOver
<1>1. Spec => EndIsFinal
  BY FinalEnd
<1>2. Spec => NoLateReady
  BY OverGainsNone
<1> QED
  BY <1>1, <1>2 DEF OverIsOver

-----------------------------------------------------------------------------
(* Refinement.                                                             *)

LEMMA ReservationInit == Init => R!Init
BY RowAssumption DEF Init, R!Init, R!NoCharge, Open, Null

(* Every step is a settlement of the abstract reservation or none at all.  *)
LEMMA ReservationStep ==
    TypeOK /\ SettledAtEnd /\ SettledAtEnd' /\ EndedFenced /\ [Next]_vars
      => [R!Next]_<<[t \in {1} |-> IF status \in Open THEN "held" ELSE "settled"],
                    [t \in {1} |-> Reserved], [t \in {1} |-> charged]>>
<1> SUFFICES ASSUME TypeOK, SettledAtEnd, SettledAtEnd', TypeOK', EndedFenced, [Next]_vars
             PROVE  \/ R!Settle(1)
                    \/ /\ (status \in Open) = (status' \in Open)
                       /\ charged' = charged
  BY TypeStep DEF R!Next
<1>1. CASE status \in Open /\ status' \notin Open
  <2>1. charged = Null /\ charged' # Null
    BY <1>1 DEF SettledAtEnd
  <2>2. charged' \in 0..Reserved
    BY <2>1 DEF TypeOK
  <2> QED
    BY <1>1, <2>2 DEF R!Settle
<1>2. CASE status \in Open /\ status' \in Open
  BY <1>2 DEF SettledAtEnd
<1>3. CASE status \notin Open
  BY <1>3, FinalStep DEF Open
<1> QED
  BY <1>1, <1>2, <1>3

(* The row implements the abstract reservation: whatever attempts,         *)
(* retries, stops and deletions do, its hours are settled once, for at     *)
(* most what was reserved.                                                 *)
THEOREM RefinesReservation == Spec => ImplementsReservation
<1>1. Init => R!Init
  BY ReservationInit
<1> QED
  BY <1>1, ReservationStep, AlwaysFenced, TypeCorrect, ChargedAtEnd, PTL
     DEF Spec, ImplementsReservation, R!Spec

-----------------------------------------------------------------------------
(* Publishing.                                                             *)

(* A checkpoint belongs to an attempt that made a running write, and an    *)
(* attempt that is not running yet made none.                              *)
Evidence ==
    /\ \A x \in Slots : ckpt[x] # "absent" => aBeat[x[1]] # Null
    /\ \A a \in Attempts : aState[a] \in {"none", "placing", "starting"} => aBeat[a] = Null

(* Retention keeps the newest final checkpoint of an open row: one it      *)
(* deletes has a higher ready one.                                         *)
FinalKept ==
    status \in Open =>
        \A a \in Attempts : ckpt[<<a, Total>>] = "dropped" =>
            \E b \in Attempts : b > a /\ ckpt[<<b, Total>>] = "ready"

(* What a decided publish will read.                                       *)
HasStep ==
    status = "running" /\ Publishing =>
        IF aReason[cur] = "succeeded" THEN Ready(Total)
                                     ELSE capped \in 1..(Total - 1) /\ OnceReady(capped)

(* How the states of checkpoints change.                                   *)
LEMMA CheckpointWrites ==
    ASSUME TypeOK, InsertCheckpoint \/ MarkCheckpointReady \/ RefuseCheckpoint \/ DeleteCheckpoint
    PROVE  \E x \in Slots :
             \/ aBeat[x[1]] # Null /\ ckpt[x] = "absent" /\ ckpt' = [ckpt EXCEPT ![x] = "uploading"]
             \/ ckpt[x] = "uploading" /\ ckpt' = [ckpt EXCEPT ![x] = "ready"]
             \/ ckpt[x] = "uploading" /\ ckpt' = [ckpt EXCEPT ![x] = "refused"]
             \/ /\ ckpt[x] = "ready" /\ ckpt' = [ckpt EXCEPT ![x] = "dropped"]
                /\ \/ x[2] < Total
                   \/ \E y \in Slots : Above(y, x) /\ ckpt[y] \in {"ready", "dropped"}
                   \/ status \in Terminal
<1>1. CASE InsertCheckpoint
  BY <1>1 DEF InsertCheckpoint
<1>2. CASE MarkCheckpointReady
  <2>1. PICK s \in Steps : ckpt[<<cur, s>>] = "uploading" /\ ckpt' = [ckpt EXCEPT ![<<cur, s>>] = "ready"]
    BY <1>2 DEF MarkCheckpointReady
  <2>2. <<cur, s>> \in Slots
    BY <1>2, RowAssumption DEF MarkCheckpointReady, Markable, TypeOK, Slots, Attempts
  <2> QED
    BY <2>1, <2>2
<1>3. CASE RefuseCheckpoint
  BY <1>3 DEF RefuseCheckpoint, Refusable, Removes, TypeOK
<1>4. CASE DeleteCheckpoint
  BY <1>4 DEF DeleteCheckpoint, Removes, TypeOK
<1> QED
  BY <1>1, <1>2, <1>3, <1>4

LEMMA EvidenceStep == TypeOK /\ OneFencedAttempt /\ Evidence /\ [Next]_vars => Evidence'
<1> SUFFICES ASSUME TypeOK, OneFencedAttempt, Evidence, [Next]_vars PROVE Evidence'
  OBVIOUS
<1>1. CASE ClaimTrainingAttempt
  <2>1. cur + 1 \in Attempts /\ aState' = [aState EXCEPT ![cur + 1] = "placing"]
        /\ UNCHANGED <<aBeat, ckpt>>
    BY <1>1, RowAssumption DEF ClaimTrainingAttempt, TypeOK, Attempts
  <2>2. aState[cur + 1] = "none"
    BY <2>1 DEF OneFencedAttempt, AttemptLadder, TypeOK
  <2> QED
    BY <2>1, <2>2 DEF Evidence, TypeOK
<1>2. CASE AttachTrainingAttempt
  BY <1>2 DEF AttachTrainingAttempt, Evidence, TypeOK
<1>3. CASE ReleaseTrainingAttempt
  BY <1>3 DEF ReleaseTrainingAttempt, Evidence, TypeOK
<1>4. CASE UpdateTrainingProgress
  <2>1. cur \in Attempts /\ now # Null
    BY <1>4, RowAssumption DEF UpdateTrainingProgress, OneFencedAttempt, TokenFence, Live, TypeOK, Attempts, Null
  <2>2. ckpt' = ckpt
    BY <1>4 DEF UpdateTrainingProgress
  <2>3. CASE UNCHANGED <<aState, aBeat>>
    BY <2>2, <2>3 DEF Evidence
  <2>4. CASE /\ aState' = [aState EXCEPT ![cur] = "running"]
             /\ aBeat' = [aBeat EXCEPT ![cur] = IF @ = Null THEN now ELSE @]
    <3>1. \A a \in Attempts : aBeat[a] # Null => aBeat'[a] # Null
      BY <2>1, <2>4 DEF TypeOK
    <3>2. \A a \in Attempts : a # cur => aBeat'[a] = aBeat[a] /\ aState'[a] = aState[a]
      BY <2>4 DEF TypeOK
    <3>3. aState'[cur] = "running"
      BY <2>1, <2>4 DEF TypeOK
    <3> QED
      BY <2>2, <3>1, <3>2, <3>3 DEF Evidence, Slots
  <2> QED
    BY <1>4, <2>3, <2>4 DEF UpdateTrainingProgress
<1>5. CASE RequeueTraining
  BY <1>5 DEF RequeueTraining, Evidence, TypeOK
<1>6. CASE EndTrainingAttempt \/ CapTrainingAttempt
  <2>1. aState' = [aState EXCEPT ![cur] = "ended"] /\ UNCHANGED <<aBeat, ckpt>>
    BY <1>6 DEF EndTrainingAttempt, CapTrainingAttempt, EndsForPublish
  <2> QED
    BY <2>1 DEF Evidence, TypeOK
<1>7. CASE StopTraining
  <2>1. aState' \in {aState, [aState EXCEPT ![cur] = "ended"]} /\ UNCHANGED <<aBeat, ckpt>>
    BY <1>7 DEF StopTraining, EndsForPublish
  <2> QED
    BY <2>1 DEF Evidence, TypeOK
<1>8. CASE CompleteCancelTraining \/ FinishTraining
  <2>1. aState' \in {aState, [aState EXCEPT ![cur] = "ended"]} /\ UNCHANGED <<aBeat, ckpt>>
    BY <1>8 DEF CompleteCancelTraining, FinishTraining, ClosesAttempt
  <2> QED
    BY <2>1 DEF Evidence, TypeOK
<1>9. CASE DeleteRow
  BY <1>9 DEF DeleteRow, Evidence
<1>10. CASE InsertCheckpoint \/ MarkCheckpointReady \/ RefuseCheckpoint \/ DeleteCheckpoint
  <2>1. UNCHANGED <<aState, aBeat>>
    BY <1>10 DEF InsertCheckpoint, MarkCheckpointReady, RefuseCheckpoint, DeleteCheckpoint, attVars
  <2>2. PICK x \in Slots, v \in {"uploading", "ready", "refused", "dropped"} :
          ckpt' = [ckpt EXCEPT ![x] = v] /\ aBeat[x[1]] # Null
    BY <1>10, CheckpointWrites DEF Evidence
  <2> QED
    BY <2>1, <2>2 DEF Evidence, TypeOK
<1>11. CASE StartMeta \/ CancelRequestTraining \/ Tick \/ UNCHANGED vars
  BY <1>11 DEF StartMeta, CancelRequestTraining, Tick, vars, attVars, Evidence
<1> QED
  BY <1>1, <1>2, <1>3, <1>4, <1>5, <1>6, <1>7, <1>8, <1>9, <1>10, <1>11 DEF Next

LEMMA FinalKeptStep == TypeOK /\ EndedFenced /\ Evidence /\ FinalKept /\ [Next]_vars => FinalKept'
<1> SUFFICES ASSUME TypeOK, EndedFenced, Evidence, FinalKept, [Next]_vars PROVE FinalKept'
  OBVIOUS
<1>1. CASE UNCHANGED ckpt
  <2>1. status' \in Open => status \in Open
    BY FinalStep, TypeOK DEF Open, Terminal
  <2> QED
    BY <1>1, <2>1 DEF FinalKept
<1>2. CASE ReleaseTrainingAttempt
  <2>1. cur \in Attempts /\ aBeat[cur] = Null
    BY <1>2 DEF ReleaseTrainingAttempt, Evidence, TypeOK, Attempts
  <2>2. ckpt' = ckpt
    BY <1>2, <2>1 DEF ReleaseTrainingAttempt, Evidence, TypeOK
  <2> QED
    BY <1>1, <2>2
<1>3. CASE DeleteRow
  BY <1>3 DEF DeleteRow, FinalKept, Open
<1>4. CASE InsertCheckpoint \/ MarkCheckpointReady \/ RefuseCheckpoint \/ DeleteCheckpoint
  <2> SUFFICES ASSUME status \in Open, NEW a \in Attempts, ckpt'[<<a, Total>>] = "dropped"
               PROVE  \E b \in Attempts : b > a /\ ckpt'[<<b, Total>>] = "ready"
    BY <1>4 DEF FinalKept, InsertCheckpoint, MarkCheckpointReady, RefuseCheckpoint,
                DeleteCheckpoint, rowVars
  <2>1. \A c \in Attempts : <<c, Total>> \in Slots
    BY RowAssumption DEF Slots, Steps
  <2>2. PICK x \in Slots :
             \/ aBeat[x[1]] # Null /\ ckpt[x] = "absent" /\ ckpt' = [ckpt EXCEPT ![x] = "uploading"]
             \/ ckpt[x] = "uploading" /\ ckpt' = [ckpt EXCEPT ![x] = "ready"]
             \/ ckpt[x] = "uploading" /\ ckpt' = [ckpt EXCEPT ![x] = "refused"]
             \/ /\ ckpt[x] = "ready" /\ ckpt' = [ckpt EXCEPT ![x] = "dropped"]
                /\ \/ x[2] < Total
                   \/ \E y \in Slots : Above(y, x) /\ ckpt[y] \in {"ready", "dropped"}
                   \/ status \in Terminal
    BY <1>4, CheckpointWrites
  <2>3. \A c \in Attempts : ckpt[<<c, Total>>] = "dropped" =>
          \E b \in Attempts : b > c /\ ckpt[<<b, Total>>] = "ready"
    BY DEF FinalKept
  \* at x = <<c, Total>> the deletion leaves a higher final that stays ready
  <2>4. ASSUME NEW c \in Attempts, x = <<c, Total>>, ckpt[x] = "ready",
               ckpt' = [ckpt EXCEPT ![x] = "dropped"]
        PROVE  \E b \in Attempts : b > c /\ ckpt'[<<b, Total>>] = "ready"
    <3>1. PICK y \in Slots : Above(y, x) /\ ckpt[y] \in {"ready", "dropped"}
      BY <2>2, <2>4, <2>1, RowAssumption DEF TypeOK, Open, Terminal
    <3>2. y[1] \in Attempts /\ y[1] > c /\ y = <<y[1], Total>>
      BY <2>4, <3>1, RowAssumption DEF Above, Slots, Steps, Attempts
    <3>3. PICK b \in Attempts : b > c /\ ckpt[<<b, Total>>] = "ready"
      BY <2>3, <3>1, <3>2 DEF Attempts
    <3>4. <<b, Total>> # x
      BY <2>4, <3>3 DEF Attempts
    <3> QED
      BY <2>1, <2>4, <3>3, <3>4 DEF TypeOK
  <2>5. CASE ckpt[<<a, Total>>] = "dropped"
    <3>1. PICK b \in Attempts : b > a /\ ckpt[<<b, Total>>] = "ready"
      BY <2>3, <2>5
    <3>2. CASE ckpt'[<<b, Total>>] = "ready"
      BY <3>1, <3>2
    <3>3. CASE ckpt'[<<b, Total>>] # "ready"
      <4>1. x = <<b, Total>> /\ ckpt[x] = "ready" /\ ckpt' = [ckpt EXCEPT ![x] = "dropped"]
        BY <2>1, <2>2, <3>1, <3>3 DEF TypeOK
      <4>2. PICK c \in Attempts : c > b /\ ckpt'[<<c, Total>>] = "ready"
        BY <2>4, <4>1
      <4> QED
        BY <3>1, <4>2 DEF Attempts
    <3> QED
      BY <3>2, <3>3
  <2>6. CASE ckpt[<<a, Total>>] # "dropped"
    <3>1. x = <<a, Total>> /\ ckpt[x] = "ready" /\ ckpt' = [ckpt EXCEPT ![x] = "dropped"]
      BY <2>1, <2>2, <2>6 DEF TypeOK
    <3> QED
      BY <2>4, <3>1
  <2> QED
    BY <2>5, <2>6
<1>5. CASE Next /\ ~ReleaseTrainingAttempt /\ ~DeleteRow /\ ckpt' # ckpt
  <2>1. InsertCheckpoint \/ MarkCheckpointReady \/ RefuseCheckpoint \/ DeleteCheckpoint
    BY <1>5 DEF Next, ClaimTrainingAttempt, AttachTrainingAttempt, UpdateTrainingProgress,
                StartMeta, RequeueTraining, EndTrainingAttempt, CapTrainingAttempt, StopTraining,
                CancelRequestTraining, CompleteCancelTraining, FinishTraining, Tick
  <2> QED
    BY <1>4, <2>1
<1> QED
  BY <1>1, <1>2, <1>3, <1>5 DEF vars

LEMMA HasStepStep ==
    TypeOK /\ OneFencedAttempt /\ FinalKept' /\ HasStep /\ [Next]_vars => HasStep'
<1> SUFFICES ASSUME TypeOK, OneFencedAttempt, FinalKept', HasStep, [Next]_vars,
                    status' = "running", Publishing'
             PROVE  IF aReason'[cur'] = "succeeded"
                      THEN Ready(Total)' ELSE capped' \in 1..(Total - 1) /\ OnceReady(capped)'
  BY DEF HasStep
<1>1. CASE AttachTrainingAttempt
  BY <1>1 DEF AttachTrainingAttempt, rowVars, Publishing, Live, Active, TypeOK, Attempts
<1>2. CASE UpdateTrainingProgress
  BY <1>2 DEF UpdateTrainingProgress, Publishing, Live, Active, TypeOK, Attempts, OneFencedAttempt, TokenFence
<1>3. CASE StartMeta
  BY <1>3 DEF StartMeta, rowVars, Publishing, Live, Active
<1>4. CASE EndTrainingAttempt
  BY <1>4 DEF EndTrainingAttempt, EndsForPublish, Endable, Ready, TypeOK, Attempts
<1>5. CASE CapTrainingAttempt
  <2>1. aReason' = [aReason EXCEPT ![cur] = "capped"] /\ cur \in Attempts /\ UNCHANGED <<cur, ckpt>>
    BY <1>5 DEF CapTrainingAttempt, EndsForPublish, Endable, TypeOK, Attempts
  <2>2. PICK s \in Steps : s < Total /\ OnceReady(s) /\ capped' = s
    BY <1>5 DEF CapTrainingAttempt
  <2> QED
    BY <2>1, <2>2, RowAssumption DEF OnceReady, Steps, TypeOK
<1>6. CASE StopTraining
  <2>1. StopPublishes /\ UNCHANGED <<cur, ckpt>>
    BY <1>6 DEF StopTraining
  <2>2. cur \in Attempts
    BY <2>1 DEF StopPublishes, Endable, TypeOK, Attempts
  <2>3. CASE Ready(Total)
    <3>1. aReason' = [aReason EXCEPT ![cur] = "succeeded"]
      BY <1>6, <2>1, <2>3 DEF StopTraining, EndsForPublish
    <3>2. aReason'[cur'] = "succeeded"
      BY <2>1, <2>2, <3>1 DEF TypeOK
    <3> QED
      BY <2>1, <2>3, <3>2 DEF Ready
  <2>4. CASE ~Ready(Total)
    <3>1. PICK s \in Steps : Ready(s) /\ capped' = s
      BY <1>6, <2>1, <2>4 DEF StopTraining
    <3>2. aReason' = [aReason EXCEPT ![cur] = "stopped"]
      BY <1>6, <2>1, <2>4 DEF StopTraining, EndsForPublish
    <3>3. aReason'[cur'] = "stopped"
      BY <2>1, <2>2, <3>2 DEF TypeOK
    <3> QED
      BY <2>1, <2>4, <3>1, <3>3, RowAssumption DEF Steps, Ready, OnceReady
  <2> QED
    BY <2>3, <2>4
<1>7. CASE InsertCheckpoint \/ MarkCheckpointReady \/ RefuseCheckpoint \/ DeleteCheckpoint
  <2>1. UNCHANGED <<rowVars, attVars>>
    BY <1>7 DEF InsertCheckpoint, MarkCheckpointReady, RefuseCheckpoint, DeleteCheckpoint
  <2>2. status = "running" /\ Publishing
    BY <2>1 DEF rowVars, attVars, Publishing
  <2>3. CASE aReason[cur] = "succeeded"
    <3>1. PICK a \in Attempts : ckpt[<<a, Total>>] = "ready"
      BY <2>2, <2>3 DEF HasStep, Ready
    <3>2. <<a, Total>> \in Slots
      BY RowAssumption DEF Slots, Steps
    <3>3. ckpt'[<<a, Total>>] \in {"ready", "dropped"}
      BY <1>7, <3>1, <3>2, CheckpointWrites DEF TypeOK
    <3>4. Ready(Total)'
      BY <3>3 DEF FinalKept, Ready, Open
    <3> QED
      BY <2>1, <2>3, <3>4 DEF rowVars, attVars
  <2>4. CASE aReason[cur] # "succeeded"
    <3>1. PICK a \in Attempts : ckpt[<<a, capped>>] \in {"ready", "dropped"}
      BY <2>2, <2>4 DEF HasStep, OnceReady
    <3>2. <<a, capped>> \in Slots
      BY <2>2, <2>4, RowAssumption DEF HasStep, Slots, Steps
    <3>3. ckpt'[<<a, capped>>] \in {"ready", "dropped"}
      BY <1>7, <3>1, <3>2, CheckpointWrites DEF TypeOK
    <3> QED
      BY <2>1, <2>2, <2>4, <3>3 DEF HasStep, OnceReady, rowVars, attVars
  <2> QED
    BY <2>3, <2>4
<1>8. CASE UNCHANGED vars \/ Tick
  BY <1>8 DEF Tick, vars, rowVars, attVars, HasStep, Publishing, Ready, OnceReady
<1>9. Next => \/ AttachTrainingAttempt \/ UpdateTrainingProgress \/ StartMeta \/ EndTrainingAttempt
              \/ CapTrainingAttempt \/ StopTraining \/ Tick
              \/ InsertCheckpoint \/ MarkCheckpointReady \/ RefuseCheckpoint \/ DeleteCheckpoint
  BY DEF Next, ClaimTrainingAttempt, Claimable, ReleaseTrainingAttempt, RequeueTraining,
         CancelRequestTraining, CompleteCancelTraining, FinishTraining, DeleteRow
<1> QED
  BY <1>1, <1>2, <1>3, <1>4, <1>5, <1>6, <1>7, <1>8, <1>9

(* A row that publishes its final checkpoint has a ready one until it      *)
(* ends: no retention, refusal, release or late attempt takes it away. One *)
(* that publishes a capped step names a step that was ready once.          *)
THEOREM PublishReadsAStep == Spec => []PublishHasStep
<1>1. Init => Evidence /\ FinalKept /\ HasStep
  <2>1. ASSUME Init PROVE \A a \in Attempts : ckpt[<<a, Total>>] = "absent"
    BY <2>1, RowAssumption DEF Init, Slots, Steps
  <2> QED
    BY <2>1 DEF Init, Evidence, FinalKept, HasStep
<1>2. Evidence /\ HasStep => PublishHasStep
  BY DEF Evidence, HasStep, PublishHasStep
<1> QED
  BY <1>1, <1>2, EvidenceStep, FinalKeptStep, HasStepStep, TypeCorrect, AlwaysFenced,
     AttemptOrder, PTL DEF Spec, OneFencedAttempt

=============================================================================
