---------------------------- MODULE TrainingRow ----------------------------
(***************************************************************************)
(* One managed training: its trainings row, its training_attempts rows and *)
(* its training_checkpoints rows, and every database function that writes  *)
(* them (migrations 049, 050 and 052). Each function locks the trainings   *)
(* row first, so each is one atomic action; a call that raises a P-code    *)
(* changes nothing and is no step.                                         *)
(*                                                                         *)
(* A column of training_attempts is a function on attempt numbers. Time is *)
(* counted in ticks; Hour ticks are one hour. `ran' is no column: it is a  *)
(* history variable, the ticks during which some attempt was between its   *)
(* first running write and its end.                                        *)
(***************************************************************************)
EXTENDS Integers

CONSTANTS
    MaxAttempt,   \* MAX_ATTEMPTS: the dispatcher claims no attempt after it
    Total,        \* trainings.total_steps, in saved steps
    KeptStep,     \* step of the kept copy a continuation starts from; 0: none
    Reserved,     \* trainings.reserved_hours
    Hour,         \* ticks per hour
    MaxNow,       \* bound on the clock
    MaxClaims     \* bound on the number of claims, released ones included

ASSUME RowAssumption ==
    /\ MaxAttempt \in Nat \ {0} /\ Total \in Nat \ {0}
    /\ KeptStep \in 0..(Total - 1)
    /\ Reserved \in 1..3 /\ Hour \in Nat \ {0}
    /\ MaxNow \in Nat /\ MaxClaims \in Nat

VARIABLES
    status,     \* trainings.status; "gone": the row was deleted
    cur,        \* trainings.current_attempt
    token,      \* trainings.worker_token: 0 = NULL, else the claim that drew it
    claims,     \* tokens drawn so far
    stepped,    \* trainings.current_step is not 0
    capped,     \* trainings.capped_step
    stopAt,     \* trainings.stop_requested_at
    used,       \* trainings.train_seconds_used
    lost,       \* trainings.lost_seconds
    waived,     \* trainings.charge_waiver is set
    charged,    \* hours of the row's charge, Null until the row is settled
    aState,     \* training_attempts.state, "none": no row
    aReason,    \* training_attempts.end_reason
    aRef,       \* training_attempts.cloud_ref is set
    aBeat,      \* training_attempts.first_heartbeat_at
    aFresh,     \* training_attempts.resume_from_step is 0: /start ran, from step 0
    ckpt,       \* training_checkpoints.state of <<attempt_no, step>>; "absent": no row,
                \* "refused": never ready, "dropped": refused or deleted after it was ready
    now, ran

rowVars == <<status, cur, token, claims, stepped, capped, stopAt, used, lost, waived, charged>>
attVars == <<aState, aReason, aRef, aBeat, aFresh>>
vars == <<rowVars, attVars, ckpt, now, ran>>

Null == -1
Attempts == 1..MaxAttempt
Steps == 1..Total
Slots == Attempts \X Steps

Terminal == {"succeeded", "failed", "canceled"}
Open == {"queued", "running", "cancel_requested"}
Active == {"placing", "starting", "running"}
\* the reasons an ended attempt is published for; "capped" stands for capped,
\* wall_capped, attempts_out, no_gpu and content_refused, which no function tells apart
PublishReasons == {"succeeded", "capped", "stopped"}

Least(a, b) == IF a <= b THEN a ELSE b
Greatest(a, b) == IF a >= b THEN a ELSE b

-----------------------------------------------------------------------------
(* What the functions read.                                                *)

Live == cur > 0 /\ aState[cur] \in Active
Publishing == cur > 0 /\ aState[cur] = "ended" /\ aReason[cur] \in PublishReasons
EverBeat == \E a \in Attempts : aBeat[a] # Null
Ready(s) == \E a \in Attempts : ckpt[<<a, s>>] = "ready"
\* a step some reader has seen ready: refusals and deletions come later
OnceReady(s) == \E a \in Attempts : ckpt[<<a, s>>] \in {"ready", "dropped"}

\* now - first_heartbeat_at of the current attempt
Elapsed == IF cur > 0 /\ aBeat[cur] # Null THEN now - aBeat[cur] ELSE 0
\* _credit_open_seconds: up to LEAST(now, the first stop request)
StopOrNow == IF stopAt = Null THEN now ELSE Least(now, stopAt)
OpenSeconds ==
    IF Live /\ aBeat[cur] # Null THEN Greatest(StopOrNow - aBeat[cur], 0) ELSE 0

\* _credit_settle: ceil(seconds / 3600), at most the reservation
ChargeFor(secs, waiver) ==
    IF EverBeat /\ ~waiver THEN Least(Reserved, (secs + Hour - 1) \div Hour) ELSE 0

-----------------------------------------------------------------------------
(* start_training_safe has inserted the row and reserved its hours.        *)
Init ==
    /\ status = "queued" /\ cur = 0 /\ token = 0 /\ claims = 0
    /\ stepped = (KeptStep > 0) /\ capped = Null /\ stopAt = Null
    /\ used = 0 /\ lost = 0 /\ waived = FALSE /\ charged = Null
    /\ aState = [a \in Attempts |-> "none"]
    /\ aReason = [a \in Attempts |-> "none"]
    /\ aRef = [a \in Attempts |-> FALSE]
    /\ aBeat = [a \in Attempts |-> Null]
    /\ aFresh = [a \in Attempts |-> FALSE]
    /\ ckpt = [x \in Slots |-> "absent"]
    /\ now = 0 /\ ran = 0

(* The current attempt leaves the active states: its running time is over. *)
StopsRunning == ran' = ran + (IF Live THEN Elapsed ELSE 0)

(* A terminal UPDATE of the row and the settlement trigger inside it: the  *)
(* counted seconds are at least the open attempt's.                        *)
Settles(counted, waiver) ==
    LET secs == Greatest(counted, used + OpenSeconds)
    IN  /\ used' = secs
        /\ charged' = ChargeFor(secs, waiver)

\* mutant: a second dispatcher claims over an attempt that is being placed
ClaimableAnyway == status = "queued"

Claimable == status = "queued" /\ (cur > 0 => aState[cur] \in {"lost", "ended"})

ClaimTrainingAttempt ==
    /\ Claimable
    /\ cur < MaxAttempt /\ claims < MaxClaims
    /\ cur' = cur + 1
    /\ claims' = claims + 1
    /\ token' = claims + 1
    /\ aState' = [aState EXCEPT ![cur + 1] = "placing"]
    /\ UNCHANGED <<status, stepped, capped, stopAt, used, lost, waived, charged,
                   aReason, aRef, aBeat, aFresh, ckpt, now, ran>>

AttachTrainingAttempt ==
    /\ Live /\ ~aRef[cur]
    /\ status \in {"queued", "running"}
    /\ aRef' = [aRef EXCEPT ![cur] = TRUE]
    /\ aState' = [aState EXCEPT ![cur] = IF @ = "placing" THEN "starting" ELSE @]
    /\ UNCHANGED <<rowVars, aReason, aBeat, aFresh, ckpt, now, ran>>

(* A claim that placed nothing costs no attempt: its row is deleted.       *)
ReleaseTrainingAttempt ==
    /\ status = "queued"
    /\ cur > 0 /\ aState[cur] = "placing" /\ ~aRef[cur]
    /\ cur' = cur - 1
    /\ token' = 0
    /\ aState' = [aState EXCEPT ![cur] = "none"]
    /\ aFresh' = [aFresh EXCEPT ![cur] = FALSE]
    /\ ckpt' = [x \in Slots |-> IF x[1] = cur THEN "absent" ELSE ckpt[x]]
    /\ UNCHANGED <<status, claims, stepped, capped, stopAt, used, lost, waived, charged,
                   aReason, aRef, aBeat, now, ran>>

(* update_training_progress by the worker holding the row's token. Only a  *)
(* 'running' write moves the status and makes the attempt running.         *)
UpdateTrainingProgress ==
    /\ token # 0
    /\ status \in {"queued", "running"}
    /\ stepped' \in BOOLEAN
    /\ \E runningWrite \in BOOLEAN :
           IF runningWrite
             THEN /\ status' = "running"
                  /\ IF aState[cur] \in {"placing", "starting"}
                       THEN /\ aState' = [aState EXCEPT ![cur] = "running"]
                            /\ aBeat' = [aBeat EXCEPT ![cur] = IF @ = Null THEN now ELSE @]
                       ELSE UNCHANGED <<aState, aBeat>>
             ELSE UNCHANGED <<status, aState, aBeat>>
    /\ UNCHANGED <<cur, token, claims, capped, stopAt, used, lost, waived, charged,
                   aReason, aRef, aFresh, ckpt, now, ran>>

(* /start writes the step it hands out, filtered on an active attempt.     *)
StartMeta ==
    /\ Live
    /\ \E fresh \in BOOLEAN :
        /\ fresh => KeptStep = 0
        /\ ~fresh => KeptStep > 0 \/ \E s \in Steps : OnceReady(s)
        /\ aFresh' = [aFresh EXCEPT ![cur] = fresh]
    /\ UNCHANGED <<rowVars, aState, aReason, aRef, aBeat, ckpt, now, ran>>

(* requeue_training. `secs' is what the caller computed from its own read  *)
(* of the attempt and its own clock: at most Elapsed. `saved' is the time  *)
(* to the newest own ready checkpoint, 0 without one; `counted' ends at    *)
(* the last evidence of training.                                          *)
RequeueTraining ==
    /\ Live /\ status \in {"queued", "running"}
    /\ \E secs \in 0..Elapsed, counted \in 0..Elapsed, saved \in 0..Elapsed :
        /\ saved > 0 => \E s \in Steps : ckpt[<<cur, s>>] = "ready"
        /\ used' = used + Least(secs, saved)
        /\ lost' = lost + Greatest(counted - Least(secs, saved), 0)
    /\ \E resume \in {KeptStep} \cup {s \in Steps : s < Total /\ OnceReady(s)} :
        stepped' = (resume > 0)
    /\ status' = "queued" /\ token' = 0
    /\ aState' = [aState EXCEPT ![cur] = "lost"]
    /\ aReason' = [aReason EXCEPT ![cur] = "loss"]
    /\ StopsRunning
    /\ UNCHANGED <<cur, claims, capped, stopAt, waived, charged,
                   aRef, aBeat, aFresh, ckpt, now>>

\* mutant: a lost attempt's seconds are added again
EndsForPublishTwiceCounted(reason, secs) ==
    /\ aState' = [aState EXCEPT ![cur] = "ended"]
    /\ aReason' = [aReason EXCEPT ![cur] = reason]
    /\ status' = "running" /\ token' = 0
    /\ used' = used + secs
    /\ StopsRunning

(* What end, cap and stop share: the attempt is ended for publishing, the  *)
(* worker is fenced, the row runs on, `secs' are added unless a requeue    *)
(* counted the attempt before.                                             *)
EndsForPublish(reason, secs) ==
    /\ aState' = [aState EXCEPT ![cur] = "ended"]
    /\ aReason' = [aReason EXCEPT ![cur] = reason]
    /\ status' = "running" /\ token' = 0
    /\ used' = used + (IF Live THEN secs ELSE 0)
    /\ StopsRunning

Endable == cur > 0 /\ aState[cur] \in Active \cup {"lost"} /\ status \in {"queued", "running"}

\* every caller has read a ready checkpoint at the total
EndTrainingAttempt ==
    /\ Endable /\ Ready(Total)
    /\ \E secs \in 0..Elapsed : EndsForPublish("succeeded", secs)
    /\ UNCHANGED <<cur, claims, stepped, capped, stopAt, lost, waived, charged,
                   aRef, aBeat, aFresh, ckpt, now>>

\* the caller's checkpoint list may be stale: it publishes a step that was ready
CapTrainingAttempt ==
    /\ Endable
    /\ \E s \in Steps, secs \in 0..Elapsed :
        /\ s < Total /\ OnceReady(s)
        /\ capped' = s
        /\ EndsForPublish("capped", secs)
    /\ UNCHANGED <<cur, claims, stepped, stopAt, lost, waived, charged,
                   aRef, aBeat, aFresh, ckpt, now>>

(* stop_training: publish the newest ready checkpoint once a GPU trained,  *)
(* else ask for the cancel; the first request alone writes its time.       *)
\* mutant: a retried stop moves the time of the request
FirstStopMoved == stopAt' = now
FirstStop == stopAt' = (IF stopAt = Null THEN now ELSE stopAt)

Stoppable == status \in Open /\ ~Publishing

StopPublishes ==
    /\ status \in {"queued", "running"} /\ Endable /\ EverBeat
    /\ \E s \in Steps : Ready(s)

StopTraining ==
    /\ Stoppable
    /\ FirstStop
    /\ IF StopPublishes
         THEN /\ IF Ready(Total)
                   THEN EndsForPublish("succeeded", Elapsed) /\ UNCHANGED capped
                   ELSE /\ EndsForPublish("stopped", Elapsed)
                        /\ \E s \in Steps :
                             /\ Ready(s) /\ \A t \in Steps : Ready(t) => t <= s
                             /\ capped' = s
         ELSE /\ status' = "cancel_requested"
              /\ UNCHANGED <<token, capped, used, aState, aReason, ran>>
    /\ UNCHANGED <<cur, claims, stepped, lost, waived, charged, aRef, aBeat, aFresh, ckpt, now>>

(* cancel_request_training: the account deletion's cancel, and the sweep's *)
(* retry of a cancel already asked for.                                    *)
CancelRequestTraining ==
    /\ Stoppable
    /\ FirstStop
    /\ status' = "cancel_requested"
    /\ UNCHANGED <<cur, token, claims, stepped, capped, used, lost, waived, charged,
                   attVars, ckpt, now, ran>>

(* The attempt rows after a terminal write.                                *)
ClosesAttempt(reason) ==
    IF Live THEN /\ aState' = [aState EXCEPT ![cur] = "ended"]
                 /\ aReason' = [aReason EXCEPT ![cur] = reason]
            ELSE UNCHANGED <<aState, aReason>>

CompleteCancelTraining ==
    /\ status = "cancel_requested"
    /\ \E final \in {"canceled", "failed"} : status' = final
    /\ token' = 0
    /\ Settles(used + OpenSeconds, FALSE)
    /\ ClosesAttempt("canceled")
    /\ StopsRunning
    /\ UNCHANGED <<cur, claims, stepped, capped, stopAt, lost, waived,
                   aRef, aBeat, aFresh, ckpt, now>>

\* mutant: the waiver does not look at the checkpoints
WaiverProvenBlindly ==
    /\ cur > 0 /\ aState[cur] = "running" /\ aFresh[cur]
    /\ KeptStep = 0 /\ used = 0 /\ ~stepped

(* P0073: the waiver needs proof of a fresh first attempt.                 *)
WaiverProven ==
    /\ cur > 0 /\ aState[cur] = "running" /\ aFresh[cur]
    /\ KeptStep = 0 /\ used = 0 /\ ~stepped
    /\ \A x \in Slots : ckpt[x] # "ready"

\* mutant: finish_training does not look at the status
FinishableAnyway == status # "gone"
Finishable == status \in {"queued", "running"}

FinishTraining ==
    /\ Finishable
    /\ \/ /\ Publishing                       \* publish_sync has read the ended attempt
          /\ status' = "succeeded" /\ waived' = FALSE
          /\ stepped' = TRUE
       \/ /\ status' = "failed" /\ UNCHANGED stepped
          /\ waived' \in {FALSE} \cup (IF WaiverProven THEN {TRUE} ELSE {})
    /\ token' = 0
    /\ Settles(used + (IF Live THEN Elapsed ELSE 0), waived')
    /\ ClosesAttempt(status')
    /\ StopsRunning
    /\ UNCHANGED <<cur, claims, capped, stopAt, lost, aRef, aBeat, aFresh, ckpt, now>>

\* mutant: the deletion settles whatever it finds
OwesSettlementAnyway == status # "gone"
OwesSettlement == status \in Open

(* The account's deletion cascades to the row; a row that was not terminal *)
(* is settled first, while its attempts still exist.                       *)
DeleteRow ==
    /\ status # "gone"
    /\ status' = "gone" /\ token' = 0
    /\ IF OwesSettlement THEN Settles(used, FALSE) /\ StopsRunning
                          ELSE UNCHANGED <<used, charged, ran>>
    /\ cur' = 0
    /\ aState' = [a \in Attempts |-> "none"]
    /\ aReason' = [a \in Attempts |-> "none"]
    /\ aRef' = [a \in Attempts |-> FALSE]
    /\ aBeat' = [a \in Attempts |-> Null]
    /\ aFresh' = [a \in Attempts |-> FALSE]
    /\ ckpt' = [x \in Slots |-> "absent"]
    /\ UNCHANGED <<claims, stepped, capped, stopAt, lost, waived, now>>

-----------------------------------------------------------------------------
(* Checkpoints. The handlers run after an authorisation that may be stale, *)
(* so an insert and a refusal may come after their attempt ended.          *)

InsertCheckpoint ==
    /\ \E x \in Slots :
        /\ aBeat[x[1]] # Null /\ x[2] > KeptStep /\ ckpt[x] = "absent"
        /\ ckpt' = [ckpt EXCEPT ![x] = "uploading"]
    /\ UNCHANGED <<rowVars, attVars, now, ran>>

\* mutant: ckpt-done trusts its own, older authorisation
MarkableAnyway == cur > 0
Markable == status = "running" /\ cur > 0 /\ aState[cur] = "running"

MarkCheckpointReady ==
    /\ Markable
    /\ \E s \in Steps :
        /\ ckpt[<<cur, s>>] = "uploading"
        /\ ckpt' = [ckpt EXCEPT ![<<cur, s>>] = "ready"]
    /\ UNCHANGED <<rowVars, attVars, now, ran>>

\* mutant: the final checkpoint can be refused as well
RefusableAnyway(x) == ckpt[x] \in {"uploading", "ready"}
\* ckpt-done refuses an upload; ckpt-bad and resume_crash refuse a checkpoint that
\* was handed out, which is always below the total
Refusable(x) == ckpt[x] = "uploading" \/ (ckpt[x] = "ready" /\ x[2] < Total)

Removes(x) == ckpt' = [ckpt EXCEPT ![x] = IF @ = "ready" THEN "dropped" ELSE "refused"]

RefuseCheckpoint ==
    /\ \E x \in Slots : Refusable(x) /\ Removes(x)
    /\ UNCHANGED <<rowVars, attVars, now, ran>>

Above(y, x) == y[2] > x[2] \/ (y[2] = x[2] /\ y[1] > x[1])

\* apply_retention keeps the two highest checkpoints it read as ready; the janitor
\* deletes every object of a terminal row
DeleteCheckpoint ==
    /\ \E x \in Slots :
        /\ \/ /\ ckpt[x] = "ready"
              /\ \E y, z \in Slots : /\ y # z /\ Above(y, x) /\ Above(z, x)
                                     /\ {ckpt[y], ckpt[z]} \subseteq {"ready", "dropped"}
           \/ status \in Terminal /\ ckpt[x] \in {"uploading", "ready"}
        /\ Removes(x)
    /\ UNCHANGED <<rowVars, attVars, now, ran>>

\* time matters to an open row only
Tick ==
    /\ status \in Open
    /\ now < MaxNow /\ now' = now + 1
    /\ UNCHANGED <<rowVars, attVars, ckpt, ran>>

Next ==
    \/ ClaimTrainingAttempt \/ AttachTrainingAttempt \/ ReleaseTrainingAttempt
    \/ UpdateTrainingProgress \/ StartMeta \/ RequeueTraining
    \/ EndTrainingAttempt \/ CapTrainingAttempt
    \/ StopTraining \/ CancelRequestTraining \/ CompleteCancelTraining
    \/ FinishTraining \/ DeleteRow
    \/ InsertCheckpoint \/ MarkCheckpointReady \/ RefuseCheckpoint \/ DeleteCheckpoint
    \/ Tick

Spec == Init /\ [][Next]_vars

-----------------------------------------------------------------------------
(* Properties.                                                             *)

(* Every column keeps its type.                                            *)
TypeOK ==
    /\ status \in Open \cup Terminal \cup {"gone"}
    /\ cur \in 0..MaxAttempt /\ claims \in 0..MaxClaims /\ token \in 0..claims
    /\ stepped \in BOOLEAN /\ capped \in {Null} \cup Steps
    /\ now \in 0..MaxNow /\ stopAt \in {Null} \cup 0..now
    /\ used \in Nat /\ lost \in Nat /\ ran \in Nat
    /\ waived \in BOOLEAN /\ charged \in {Null} \cup 0..Reserved
    /\ aState \in [Attempts -> {"none", "lost", "ended"} \cup Active]
    /\ aReason \in [Attempts -> {"none", "loss", "canceled", "failed"} \cup PublishReasons]
    /\ aRef \in [Attempts -> BOOLEAN]
    /\ aBeat \in [Attempts -> {Null} \cup 0..now]
    /\ aFresh \in [Attempts -> BOOLEAN]
    /\ ckpt \in [Slots -> {"absent", "uploading", "ready", "refused", "dropped"}]

(* The fence: a worker token is valid exactly while the current attempt is *)
(* active. Whichever function ends, loses or releases an attempt also      *)
(* takes its worker's token; only a claim gives one out.                   *)
TokenFence == token # 0 <=> Live

(* The attempts are numbered without a gap, and only the current one can   *)
(* be anything but lost: no two attempts of a training are ever active,    *)
(* and no claim is made after one that is being published.                 *)
AttemptLadder ==
    \A a \in Attempts :
        /\ a < cur => aState[a] = "lost"
        /\ a > cur => aState[a] = "none"
        /\ a = cur => aState[a] # "none"

(* A row is running exactly while its current attempt is running or is     *)
(* being published (or a stop of it was asked for): no row is left running *)
(* with nothing behind it that would ever finish it.                       *)
RunningHasCause ==
    /\ status = "running" => Publishing \/ (cur > 0 /\ aState[cur] = "running")
    /\ status = "queued" /\ cur > 0 => aState[cur] \in {"placing", "starting", "lost"}
    /\ status = "cancel_requested" => ~Publishing

(* One attempt at a time, fenced, and never a running row without one:     *)
(* over claims, releases, losses, stops and publishes of any number of     *)
(* attempts the three hold together, and only together can they be proved. *)
OneFencedAttempt == TokenFence /\ AttemptLadder /\ RunningHasCause

(* No second is counted twice: what was billed and what was written off as *)
(* lost, over all attempts, retries and cancels, is at most the time in    *)
(* which attempts really ran.                                              *)
CountedOnce == used + lost <= ran

(* A training has been charged exactly when it ended, by whichever writer; *)
(* the charge is the started hours of its counted seconds within the       *)
(* reservation, and nothing when it was waived.                            *)
SettledAtEnd ==
    /\ status \in Open <=> charged = Null
    /\ status \in Terminal /\ ~waived =>
         charged = (IF EverBeat THEN Least(Reserved, (used + Hour - 1) \div Hour) ELSE 0)
    /\ waived => charged = 0

(* A waived training has no checkpoint anyone could use: none is ready     *)
(* when it is waived and none becomes ready later (V3-M1).                 *)
WaivedHasNoCheckpoint == waived => \A x \in Slots : ckpt[x] # "ready"

(* Whoever ends the training, it was charged once and for what it used, or *)
(* for nothing, and then it left nothing that could be used.               *)
ChargedOrUseless == SettledAtEnd /\ WaivedHasNoCheckpoint

(* A checkpoint is ready only if its attempt made a running write. A row   *)
(* that publishes its final checkpoint keeps one that is ready until it    *)
(* ends, whatever retention and refusals do; one that publishes a capped   *)
(* step names a step below the total that was ready once.                  *)
PublishHasStep ==
    /\ \A x \in Slots : ckpt[x] = "ready" => aBeat[x[1]] # Null
    /\ status = "running" /\ Publishing =>
         IF aReason[cur] = "succeeded" THEN Ready(Total)
                                      ELSE capped \in 1..(Total - 1) /\ OnceReady(capped)

(* A requested stop stops the meter: from the first request on, no retry   *)
(* of it, no later request and no waiting adds a billable second, and the  *)
(* completed cancel counts what was open then.                             *)
StopStopsMeter ==
    [][status = "cancel_requested" => used' + OpenSeconds' <= used + OpenSeconds]_vars

(* What an ended training was charged is never changed, and only deleting  *)
(* it takes it out of its final status.                                    *)
EndIsFinal ==
    [][status \notin Open =>
         /\ charged' = charged /\ used' = used /\ status' \in {status, "gone"} /\ token' = 0]_vars

(* Seen from the ledger the whole row is one reservation: held until some  *)
(* writer ends or deletes it, settled once for at most what was reserved,  *)
(* whichever of the four terminal writers comes first.                     *)
R == INSTANCE Reservation WITH
        Trainings <- {1}, MaxHours <- 3,
        phase <- [t \in {1} |-> IF status \in Open THEN "held" ELSE "settled"],
        hours <- [t \in {1} |-> Reserved],
        charge <- [t \in {1} |-> charged]
ImplementsReservation == R!Spec

(* An attempt that is over gains no ready checkpoint: what a requeue found *)
(* unsaved and wrote off stays unsaved, so no later attempt resumes from   *)
(* work nobody was charged for, and a publish already decided keeps its    *)
(* choice of steps.                                                        *)
NoLateReady ==
    [][\A x \in Slots : aState[x[1]] \notin Active /\ ckpt'[x] = "ready" => ckpt[x] = "ready"]_vars

(* What is over stays over: neither the end of the training nor the end of *)
(* one of its attempts is touched by a call that comes late.               *)
OverIsOver == EndIsFinal /\ NoLateReady

(* Every billed second was run, is billed once, and none is added after    *)
(* the student asked for the stop.                                         *)
TimeIsBilledOnce == []CountedOnce /\ StopStopsMeter
=============================================================================
