---------------------------- MODULE PublishLease ----------------------------
(***************************************************************************)
(* How a training's model reaches the Hugging Face Hub: the publish of the *)
(* checkpoint it ended with and the mirror of an earlier one, each a task  *)
(* of some API process under a lease in the database that a thread of the  *)
(* process renews; the sweep that retries a publish and gives it up after  *)
(* six hours; the janitor and the retention that delete the checkpoints'   *)
(* objects in R2. While a deploy overlaps there are two processes; a       *)
(* process may restart, a renewal may get no answer, and every external    *)
(* call may fail, with or without its effect.                              *)
(***************************************************************************)
EXTENDS Integers, FiniteSets

CONSTANTS
    Procs,         \* API processes
    Mirrors,       \* bound: those that mirror
    Ends,          \* how the training may end: whether capped, whether with a good model
    MaxTasks,      \* bound: tasks and sweep rounds that are under way at a time
    MaxMirror,     \* mirror_tries at which a mirror is given up
    Misses,        \* whether renewals may go unanswered until the lease expires
    Stops,         \* whether the training may be cancelled or fail
    None, Dead     \* no owner; the BOOT_ID of a process that is gone

ASSUME PublishAssumption ==
    /\ MaxTasks \in Nat \ {0} /\ MaxMirror \in Nat \ {0}
    /\ Misses \in BOOLEAN /\ Stops \in BOOLEAN
    /\ Mirrors \subseteq Procs /\ Ends \subseteq BOOLEAN \X BOOLEAN
    /\ None # Dead /\ None \notin Procs /\ Dead \notin Procs /\ None \notin {"S7", "S8"}

VARIABLES
    row,       \* "running", "publishing" (running, its attempt ended), "canceling", or an end
    capped,    \* the attempt's end reason: one of CAP_END_REASONS, or "succeeded"
    good,      \* the content of the published checkpoint passes validation
    why,       \* error_message of a failed publish: "S7", "S8"
    until,     \* continuable_until
    lease,     \* the publish lease: its owner and whether it is younger than lease_s
    old,       \* PUBLISH_RETRY_S have passed since publish_first_at
    kept,      \* the kept row: the window that its writer chose, or None
    copy,      \* the copies under keep/ are whole
    obj,       \* the checkpoints whose objects are in R2: "last", "mid"
    mlease, mtries, mirrored,   \* of "mid": the mirror lease, mirror_tries, mirrored_at
    hub,       \* the model is committed to its repository
    pub, mir,  \* per process: its publish task and its mirror task
    sweep,     \* per process: the round of its sweep on the row
    missed     \* a lease expired under a task that goes on

rowVars == <<row, capped, good, why, until>>
leaseVars == <<lease, old, missed>>
keepVars == <<kept, copy>>
midVars == <<mlease, mtries, mirrored>>
vars == <<rowVars, leaseVars, keepVars, obj, midVars, hub, pub, mir, sweep>>

Off == [pc |-> "off", lost |-> FALSE]
At(pc) == [pc |-> pc, lost |-> FALSE]
NoLease == [owner |-> None, live |-> FALSE]
Terminal == {"succeeded", "failed", "canceled"}

Tasks == {<<"pub", i>> : i \in {j \in Procs : pub[j] # Off}}
         \cup {<<"mir", i>> : i \in {j \in Procs : mir[j] # Off}}
         \cup {<<"sweep", i>> : i \in {j \in Procs : sweep[j] # "off"}}
Free == Cardinality(Tasks) < MaxTasks

Init ==
    /\ row = "running" /\ (\E e \in Ends : capped = e[1] /\ good = e[2]) /\ why = None /\ until = None
    /\ lease = NoLease /\ old = FALSE /\ missed = FALSE
    /\ kept = None /\ copy = FALSE
    /\ obj = {"last", "mid"}
    /\ mlease = NoLease /\ mtries = 0 /\ mirrored = FALSE
    /\ hub = FALSE
    /\ pub = [i \in Procs |-> Off] /\ mir = [i \in Procs |-> Off]
    /\ sweep = [i \in Procs |-> "off"]

\* a task of process i goes on to pc, or ends
PubTo(i, pc) == pub' = [pub EXCEPT ![i] = IF pc = "off" THEN Off ELSE [@ EXCEPT !.pc = pc]]
MirTo(i, pc) == mir' = [mir EXCEPT ![i] = IF pc = "off" THEN Off ELSE [@ EXCEPT !.pc = pc]]

-----------------------------------------------------------------------------
(* The row, as far as publishing depends on it (TrainingRow has it whole). *)

\* end_training_attempt or cap_training_attempt, by process i, which publishes if its threads
\* have room and it is not gone by then
AttemptEnds(i) ==
    /\ row = "running" /\ row' = "publishing"
    /\ \/ Free /\ pub' = [pub EXCEPT ![i] = At("claim")]
       \/ UNCHANGED pub
    /\ UNCHANGED <<capped, good, why, until, leaseVars, keepVars, obj, midVars, hub, mir, sweep>>

RowStops ==
    /\ Stops
    /\ \/ row = "running" /\ row' \in {"canceling", "failed"}
       \/ row = "canceling" /\ row' \in {"canceled", "failed"}
    /\ UNCHANGED <<capped, good, why, until, leaseVars, keepVars, obj, midVars, hub,
                   pub, mir, sweep>>

\* finish_training: the row must still be publishing. A failure clears nothing else.
Finish(end, text, window) ==
    IF row = "publishing"
      THEN row' = end /\ why' = text /\ until' = window /\ UNCHANGED <<capped, good>>
      ELSE UNCHANGED rowVars

-----------------------------------------------------------------------------
(* The leases.                                                             *)

\* mutant: a lease is claimed whoever holds it
ClaimableByAll(l, i) == TRUE
Claimable(l, i) == l.owner \in {None, i} \/ ~l.live
Held(i) == [owner |-> i, live |-> TRUE]

\* claim_training_publish, by a new task and by its renewals; the reads that follow it look
\* for what it required
PublishClaimable(i) == row = "publishing" /\ Claimable(lease, i)

PublishClaim(i) ==
    /\ pub[i].pc = "claim"
    /\ IF PublishClaimable(i) THEN lease' = Held(i) /\ PubTo(i, "download")
                              ELSE UNCHANGED lease /\ PubTo(i, "off")
    /\ UNCHANGED <<rowVars, old, missed, keepVars, obj, midVars, hub, mir, sweep>>

PublishRenew(i) ==
    /\ pub[i].pc \notin {"off", "claim"} /\ ~pub[i].lost
    /\ IF PublishClaimable(i) THEN lease' = Held(i) /\ UNCHANGED pub
                              ELSE UNCHANGED lease /\ pub' = [pub EXCEPT ![i].lost = TRUE]
    /\ UNCHANGED <<rowVars, old, missed, keepVars, obj, midVars, hub, mir, sweep>>

\* claim_checkpoint_mirror
MirrorClaimable(i) ==
    /\ row \in {"running", "publishing", "succeeded"} /\ "mid" \in obj /\ ~mirrored
    /\ Claimable(mlease, i)

MirrorRenew(i) ==
    /\ mir[i].pc # "off" /\ ~mir[i].lost
    /\ IF MirrorClaimable(i) THEN mlease' = Held(i) /\ UNCHANGED mir
                             ELSE UNCHANGED mlease /\ mir' = [mir EXCEPT ![i].lost = TRUE]
    /\ UNCHANGED <<rowVars, leaseVars, keepVars, obj, mtries, mirrored, hub, pub, sweep>>

\* lease_s without a renewal: nobody renews, or the renewals get no answer
Orphan(l, tasks) == l.owner \in Procs => tasks[l.owner] = Off
Expires(l, tasks) ==
    /\ l.live
    /\ IF Orphan(l, tasks) THEN UNCHANGED missed ELSE Misses /\ missed' = TRUE
    /\ UNCHANGED <<rowVars, old, keepVars, obj, mtries, mirrored, hub, pub, mir, sweep>>

LeaseExpires == Expires(lease, pub) /\ lease' = [lease EXCEPT !.live = FALSE] /\ UNCHANGED mlease
MirrorLeaseExpires ==
    Expires(mlease, mir) /\ mlease' = [mlease EXCEPT !.live = FALSE] /\ UNCHANGED lease

-----------------------------------------------------------------------------
(* publish_sync.                                                           *)

\* everything the task leaves alone unless an action says otherwise
PubOthers == <<leaseVars, midVars, mir, sweep>>

\* _download_model, _validate_model: missing objects and bad content are refusals, a fault
\* of R2 is not; a lost lease stops it
Download(i) ==
    /\ pub[i].pc = "download"
    /\ \/ pub[i].lost /\ PubTo(i, "off")
       \/ ~pub[i].lost /\ PubTo(i, "off")
       \/ ~pub[i].lost /\ PubTo(i, IF "last" \notin obj \/ ~good THEN "refuse"
                                   ELSE IF capped THEN "keep" ELSE "check")
    /\ UNCHANGED <<rowVars, keepVars, obj, hub, PubOthers>>

Refuse(i) ==
    /\ pub[i].pc = "refuse"
    /\ Finish("failed", "S7", until) \/ UNCHANGED rowVars
    /\ PubTo(i, "off")
    /\ UNCHANGED <<keepVars, obj, hub, PubOthers>>

\* _keep_checkpoint: a kept row, whose copies were made before it, is left as it is
KeepRead(i) ==
    /\ pub[i].pc = "keep"
    /\ PubTo(i, IF kept # None THEN "check" ELSE "copy")
    /\ UNCHANGED <<rowVars, keepVars, obj, hub, PubOthers>>

\* the objects one by one, then the sizes of all of them
KeepCopies(i) ==
    /\ pub[i].pc = "copy"
    /\ \/ ~pub[i].lost /\ "last" \in obj /\ copy' = TRUE /\ PubTo(i, "insert")
       \/ UNCHANGED copy /\ PubTo(i, "off")
    /\ UNCHANGED <<rowVars, kept, obj, hub, PubOthers>>

\* mutant: the later window wins
KeepInsertAnyway(i) ==
    /\ pub[i].pc = "insert"
    /\ kept' = i /\ PubTo(i, "check")
    /\ UNCHANGED <<rowVars, copy, obj, hub, PubOthers>>
\* the row of a concurrent publish is taken over (23505)
KeepInsert(i) ==
    /\ pub[i].pc = "insert"
    /\ \/ kept' = (IF kept = None THEN i ELSE kept) /\ PubTo(i, "check")
       \/ kept' \in {kept, IF kept = None THEN i ELSE kept} /\ PubTo(i, "off")
    /\ UNCHANGED <<rowVars, copy, obj, hub, PubOthers>>

\* the log, create_repo, then the last look at the lease before the commit
CommitCheck(i) ==
    /\ pub[i].pc = "check"
    /\ \/ PubTo(i, "off")
       \/ ~pub[i].lost /\ PubTo(i, "commit")
    /\ UNCHANGED <<rowVars, keepVars, obj, hub, PubOthers>>

\* create_commit; without an answer it may have happened
Commit(i) ==
    /\ pub[i].pc = "commit"
    /\ \/ hub' = TRUE /\ PubTo(i, "readback")
       \/ hub' \in {hub, TRUE} /\ PubTo(i, "off")
    /\ UNCHANGED <<rowVars, keepVars, obj, PubOthers>>

ReadBack(i) ==
    /\ pub[i].pc = "readback"
    /\ \/ PubTo(i, "off")
       \/ ~pub[i].lost /\ hub /\ PubTo(i, "finish")
    /\ UNCHANGED <<rowVars, keepVars, obj, hub, PubOthers>>

\* finish_training(succeeded); without an answer the task ends as well
FinishSucceeded(i) ==
    /\ pub[i].pc = "finish"
    /\ Finish("succeeded", None, IF capped THEN kept ELSE None) \/ UNCHANGED rowVars
    /\ PubTo(i, "off")
    /\ UNCHANGED <<keepVars, obj, hub, PubOthers>>

\* what a janitor leaves
Mirroring == ~mirrored /\ mlease.live
Swept == IF Mirroring THEN obj \cap {"mid"} ELSE {}

-----------------------------------------------------------------------------
(* mirror_sync. A refusal counts like a fault.                             *)

MirOthers == <<leaseVars, keepVars, pub, sweep>>

Fault == mtries' = (IF mtries < MaxMirror /\ "mid" \in obj THEN mtries + 1 ELSE mtries)

MirrorDownload(i) ==
    /\ mir[i].pc = "download"
    /\ \/ /\ ~mir[i].lost /\ row \in {"running", "publishing", "succeeded"} /\ "mid" \in obj
          /\ ~mirrored
          /\ MirTo(i, "commit") /\ UNCHANGED mtries
       \/ (Fault \/ UNCHANGED mtries) /\ MirTo(i, "off")
    /\ UNCHANGED <<rowVars, obj, mlease, mirrored, hub, MirOthers>>

\* create_commit and mirrored_at
MirrorCommit(i) ==
    /\ mir[i].pc = "commit"
    /\ \/ ~mir[i].lost /\ "mid" \in obj /\ mirrored' = TRUE /\ UNCHANGED mtries
       \/ (Fault \/ UNCHANGED mtries) /\ UNCHANGED mirrored
    /\ MirTo(i, "off")
    /\ UNCHANGED <<rowVars, obj, mlease, hub, MirOthers>>

-----------------------------------------------------------------------------
(* The rounds of the sweep: publishes to recover, mirrors to schedule,     *)
(* checkpoints to delete.                                                  *)

SweepOthers == <<keepVars, hub>>

\* a round that finds another process's live lease leaves the row alone
SweepReads(i) ==
    /\ sweep[i] = "off" /\ Free /\ row = "publishing" /\ (lease.live => lease.owner = i)
    /\ sweep' = [sweep EXCEPT ![i] = IF old THEN "old" ELSE "young"]
    /\ UNCHANGED <<rowVars, leaseVars, obj, midVars, pub, mir, SweepOthers>>

\* mutant: a publish is retried for ever
RetriesForEver(i) == FALSE
\* recover_publish: after six hours the row fails unless somebody is publishing it
GivesUp(i) == sweep[i] = "old" /\ pub[i] = Off

SweepDecides(i) ==
    /\ \/ /\ GivesUp(i)
          /\ sweep' = [sweep EXCEPT ![i] = "giveup"] /\ UNCHANGED pub
       \/ \* busy, or backed off since the last claim
          /\ sweep[i] \in {"old", "young"} /\ ~GivesUp(i)
          /\ sweep[i] = "old" \/ lease.owner # None \/ pub[i] # Off
          /\ sweep' = [sweep EXCEPT ![i] = "off"] /\ UNCHANGED pub
       \/ /\ sweep[i] = "young" /\ pub[i] = Off
          /\ sweep' = [sweep EXCEPT ![i] = "off"]
          /\ pub' = [pub EXCEPT ![i] = At("claim")]
    /\ UNCHANGED <<rowVars, leaseVars, obj, midVars, mir, SweepOthers>>

SweepGivesUp(i) ==
    /\ sweep[i] = "giveup"
    /\ Finish("failed", "S8", until)
    /\ sweep' = [sweep EXCEPT ![i] = "off"]
    /\ UNCHANGED <<leaseVars, obj, midVars, pub, mir, SweepOthers>>

\* mirror_due, asked by schedule_due_mirrors of a round that read the row open, and after
\* the checkpoint became ready
ScheduleMirror(i) ==
    /\ i \in Mirrors /\ mir[i] = Off /\ Free /\ row \in {"running", "publishing"} /\ mtries < MaxMirror
    /\ MirrorClaimable(i)
    /\ mir' = [mir EXCEPT ![i] = At("download")] /\ mlease' = Held(i)
    /\ UNCHANGED <<rowVars, leaseVars, obj, mtries, mirrored, pub, sweep, SweepOthers>>

\* apply_retention, when later checkpoints are ready
Retention ==
    /\ row = "running" /\ "mid" \in obj
    /\ mirrored \/ mtries = MaxMirror
    /\ ~Mirroring
    /\ obj' = obj \ {"mid"}
    /\ UNCHANGED <<rowVars, leaseVars, midVars, pub, mir, sweep, SweepOthers>>

\* janitor_row at the end of publish_sync, or janitor_tick
Janitor ==
    /\ row \in Terminal /\ obj' = Swept /\ obj' # obj
    /\ UNCHANGED <<rowVars, leaseVars, midVars, pub, mir, sweep, SweepOthers>>

\* six hours
Ages ==
    /\ ~old /\ lease.owner # None /\ row = "publishing" /\ old' = TRUE
    /\ UNCHANGED <<rowVars, lease, missed, keepVars, obj, midVars, hub, pub, mir, sweep>>

\* a restart: the process comes back under another BOOT_ID
Orphaned(l, i) == IF l.owner = i THEN [l EXCEPT !.owner = Dead] ELSE l
Crash(i) ==
    /\ lease' = Orphaned(lease, i) /\ mlease' = Orphaned(mlease, i)
    /\ pub' = [pub EXCEPT ![i] = Off] /\ mir' = [mir EXCEPT ![i] = Off]
    /\ sweep' = [sweep EXCEPT ![i] = "off"]
    /\ UNCHANGED <<rowVars, old, missed, keepVars, obj, mtries, mirrored, hub>>

Publish(i) ==
    \/ PublishClaim(i) \/ Download(i) \/ Refuse(i)
    \/ KeepRead(i) \/ KeepCopies(i) \/ KeepInsert(i)
    \/ CommitCheck(i) \/ Commit(i) \/ ReadBack(i) \/ FinishSucceeded(i)
Mirror(i) ==
    \/ MirrorDownload(i) \/ MirrorCommit(i)
SweepRound(i) == SweepReads(i) \/ SweepDecides(i) \/ SweepGivesUp(i)

Next ==
    \/ \E i \in Procs :
         \/ Publish(i) \/ PublishRenew(i) \/ Mirror(i) \/ MirrorRenew(i)
         \/ SweepRound(i) \/ ScheduleMirror(i) \/ Crash(i) \/ AttemptEnds(i)
    \/ RowStops \/ LeaseExpires \/ MirrorLeaseExpires \/ Retention \/ Janitor \/ Ages

(* Every task's calls return, the sweeps and the janitor come round, time  *)
(* passes, restarts come to an end. Nothing is assumed of the Hub: it may  *)
(* never answer well.                                                      *)
Fairness ==
    /\ \A i \in Procs : WF_vars(Publish(i)) /\ SF_vars(SweepRound(i))
    /\ \A i \in Mirrors : WF_vars(Mirror(i))
    /\ WF_vars(Ages \/ Janitor)
    /\ WF_vars(Orphan(lease, pub) /\ LeaseExpires)
    /\ WF_vars(Orphan(mlease, mir) /\ MirrorLeaseExpires)
    /\ <>[][\A i \in Procs : ~Crash(i)]_vars

Spec == Init /\ [][Next]_vars /\ Fairness

-----------------------------------------------------------------------------
(* Properties.                                                             *)

(* Every variable keeps its type.                                          *)
TypeOK ==
    /\ row \in Terminal \cup {"running", "publishing", "canceling"}
    /\ capped \in BOOLEAN /\ good \in BOOLEAN /\ why \in {None, "S7", "S8"}
    /\ until \in Procs \cup {None} /\ kept \in Procs \cup {None}
    /\ lease \in [owner : Procs \cup {None, Dead}, live : BOOLEAN]
    /\ mlease \in [owner : Procs \cup {None, Dead}, live : BOOLEAN]
    /\ old \in BOOLEAN /\ missed \in BOOLEAN /\ mirrored \in BOOLEAN
    /\ copy \in BOOLEAN /\ obj \subseteq {"last", "mid"}
    /\ mtries \in 0..MaxMirror /\ hub \in BOOLEAN

Working == {i \in Procs : pub[i].pc \notin {"off", "claim"} /\ ~pub[i].lost}

(* While renewals are answered within the lease, two processes never work  *)
(* on the same publish, whichever scheduled it, however often, and         *)
(* whatever process restarted with the lease in hand (_Lease).             *)
OneWriter == ~missed => Cardinality(Working) <= 1

(* A training fails as refused (S7) only if its model is bad: a process    *)
(* that finds the objects gone because another one published the model and *)
(* cleaned up must not turn the success into a failure.                    *)
RefusedIsBad == why = "S7" => ~good /\ row = "failed"

(* A model that was capped is continuable exactly as long as its kept copy *)
(* is: the window the row names is the kept row's, which no retry and no   *)
(* second process ever moves, and the copy is complete; and the model is   *)
(* on the Hub.                                                             *)
SucceededIsWhole ==
    row = "succeeded" =>
        /\ hub
        /\ capped => until # None /\ until = kept /\ copy

(* What the row tells the student is true, whatever two processes did to   *)
(* the objects, the copy and the row in between (publish_sync).            *)
OutcomeIsTrue == RefusedIsBad /\ SucceededIsWhole

(* A publish ends: in success, S7 or S8, also if the Hub never answers and *)
(* the process that held the lease is gone; and then, but for nothing, the *)
(* checkpoints' objects are deleted.                                       *)
PublishEnds == row = "publishing" ~> (row \in {"succeeded", "failed"} /\ obj = {})

=============================================================================
