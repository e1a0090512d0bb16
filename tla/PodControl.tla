----------------------------- MODULE PodControl -----------------------------
(***************************************************************************)
(* Where a managed training runs: the dispatcher, the sweep, the reaper    *)
(* and the cancel sweep of the API work on one row, its attempts and the   *)
(* pods of the RunPod account. Each is a task of its own: what it read is  *)
(* stale after its next await, and every change of the row is a compare-   *)
(* and-set function of the database (modelled in detail by TrainingRow).   *)
(* A create whose answer is lost leaves a pod nobody attaches; a delete    *)
(* may fail; pods die; the API restarts.                                   *)
(***************************************************************************)
EXTENDS Integers, FiniteSets

CONSTANTS
    Pods,          \* pods RunPod may create for the row
    MaxAttempt,    \* MAX_ATTEMPTS
    MaxCancel,     \* MAX_CANCEL_ATTEMPTS
    Cancels,       \* whether the student may cancel
    MaxOverlap,    \* bound: rounds of the four loops that are under way at a time
    MaxCrashes,    \* bound: restarts of the API
    None

ASSUME PodAssumption ==
    /\ MaxAttempt \in Nat \ {0} /\ MaxCancel \in Nat \ {0} /\ MaxCrashes \in Nat
    /\ Cancels \in BOOLEAN
    /\ None \notin Pods

Attempts == 1..MaxAttempt

VARIABLES
    status,      \* trainings.status
    cur,         \* current_attempt
    over,        \* the row's limit or the 12 h wall is reached
    final,       \* the checkpoint at total_steps is ready
    state, ref,  \* of each attempt: training_attempts.state, cloud_ref
    late,        \* the current attempt is placing for PLACING_STALE_S, past its start
                 \* deadline, silent or stalled
    pod,         \* what RunPod has: "free" (not created), "up", "gone"
    name,        \* the attempt in the pod's name
    age,         \* 0; 1: over PLACING_STALE_S; 2: over the reaper's maximum age
    holds,       \* the pods whose token is the row's worker_token
    disp,        \* the dispatcher's round
    sweep,       \* the sweep's round on the row
    reaper,      \* the reaper's round
    cancel,      \* the cancel sweep (and the first request)
    tries,       \* cancel_attempts
    crashes

rowVars == <<status, cur, over, final, state, ref, late, holds>>
podVars == <<pod, name, age>>
tasks == <<disp, sweep, reaper, cancel>>
vars == <<rowVars, podVars, tasks, tries, crashes>>

Active == {"placing", "starting", "running"}
Open == {"queued", "running"}
Terminal == {"succeeded", "failed", "canceled"}

Idle == [pc |-> "idle"]

\* rounds are short and far apart: a bounded number of them overlap
Free == Cardinality({t \in {"disp", "sweep", "reaper", "cancel"} :
            CASE t = "disp" -> disp # Idle [] t = "sweep" -> sweep # Idle
              [] t = "reaper" -> reaper # Idle [] t = "cancel" -> cancel # Idle}) < MaxOverlap

Init ==
    /\ status = "queued" /\ cur = 0 /\ over = FALSE /\ final = FALSE
    /\ state = [a \in Attempts |-> "none"] /\ ref = [a \in Attempts |-> None]
    /\ late = FALSE /\ holds = {}
    /\ pod = [p \in Pods |-> "free"] /\ name = [p \in Pods |-> 0] /\ age = [p \in Pods |-> 0]
    /\ disp = Idle /\ sweep = Idle /\ reaper = Idle /\ cancel = Idle
    /\ tries = 0 /\ crashes = 0

\* the pod of the current attempt of an active row
Live(p) ==
    /\ pod[p] = "up" /\ status \in Open /\ cur > 0
    /\ ref[cur] = p /\ state[cur] \in {"starting", "running"}

-----------------------------------------------------------------------------
(* The database's functions, as far as placement depends on them: each is  *)
(* a compare-and-set on the attempt n the caller knows.                    *)

Claimable(n) == status = "queued" /\ cur = n /\ (n > 0 => state[n] \in {"lost", "ended"})

Claim(n) ==
    /\ cur' = n + 1 /\ holds' = {}
    /\ state' = [state EXCEPT ![n + 1] = "placing"]
    /\ late' = FALSE
    /\ UNCHANGED <<status, over, final, ref>>

\* mutant: a cancelled row still gets its pod
AttachableAnyway(n) == cur = n /\ ref[n] = None /\ state[n] \in Active
Attachable(n) == status \in Open /\ cur = n /\ ref[n] = None /\ state[n] \in Active

Attach(n, p) ==
    /\ ref' = [ref EXCEPT ![n] = p]
    /\ state' = [state EXCEPT ![n] = IF @ = "placing" THEN "starting" ELSE @]
    /\ late' = FALSE
    /\ UNCHANGED <<status, cur, over, final, holds>>

Releasable(n) == status = "queued" /\ cur = n /\ state[n] = "placing" /\ ref[n] = None

Release(n) ==
    /\ cur' = n - 1 /\ holds' = {}
    /\ state' = [state EXCEPT ![n] = "none"]
    /\ late' = FALSE
    /\ UNCHANGED <<status, over, final, ref>>

Requeueable(n) == status \in Open /\ cur = n /\ state[n] \in Active

Requeue(n) ==
    /\ status' = "queued" /\ holds' = {}
    /\ state' = [state EXCEPT ![n] = "lost"]
    /\ late' = FALSE
    /\ UNCHANGED <<cur, over, final, ref>>

\* end_training_attempt and cap_training_attempt: the row is published next
Endable(n) == status \in Open /\ cur = n /\ n > 0 /\ state[n] \in Active \cup {"lost"}

EndAttempt(n) ==
    /\ status' = "running" /\ holds' = {}
    /\ state' = [state EXCEPT ![n] = "ended"]
    /\ late' = FALSE
    /\ UNCHANGED <<cur, over, final, ref>>

\* a terminal write closes the attempt that was active
Closes(end) ==
    /\ status' = end /\ holds' = {}
    /\ state' = (IF cur > 0 /\ state[cur] \in Active THEN [state EXCEPT ![cur] = "ended"] ELSE state)
    /\ late' = FALSE
    /\ UNCHANGED <<cur, over, final, ref>>

Failable(n) == status \in Open /\ cur = n

\* if the compare-and-set fails (P0049) the row stays and the caller goes on
OrConflict(guard, change) == IF guard THEN change ELSE UNCHANGED rowVars

\* cap_attempt: without a ready checkpoint the row fails, else its newest is published
CapAttempt(n) ==
    \/ OrConflict(Failable(n), Closes("failed"))
    \/ n > 0 /\ OrConflict(Endable(n), EndAttempt(n))

(* delete_pod: RunPod deletes it, or the call fails. The retry set only    *)
(* counts rounds: the reaper finds the pod by its name again. The name and *)
(* age of a pod that is gone are not read any more.                        *)
Gone(p) ==
    /\ pod' = [pod EXCEPT ![p] = "gone"]
    /\ name' = [name EXCEPT ![p] = 0] /\ age' = [age EXCEPT ![p] = 0]
    /\ holds' = holds \ {p}
Deleted(p) == IF p = None THEN UNCHANGED <<podVars, holds>> ELSE Gone(p)
DeleteFails(p) == p # None /\ UNCHANGED <<podVars, holds>>

rowButHolds == <<status, cur, over, final, state, ref, late>>

-----------------------------------------------------------------------------
(* The dispatcher.                                                         *)

Needing == cur > 0 => state[cur] = "lost"

\* what the round decides on its reads: a final checkpoint (step 1), a budget that is
\* used up (step 2), or placement
DispatchRead ==
    /\ disp = Idle /\ Free /\ status = "queued" /\ Needing
    /\ disp' = CASE final /\ cur > 0 -> [pc |-> "finish", n |-> cur]
                 [] ~final /\ (over \/ cur = MaxAttempt) ->
                      [pc |-> "giveup", n |-> cur]
                 [] OTHER -> [pc |-> "claim", n |-> cur]
    /\ UNCHANGED <<rowVars, podVars, sweep, reaper, cancel, tries, crashes>>

DispatchFinishes ==
    /\ disp.pc \in {"finish", "giveup"}
    /\ IF disp.pc = "finish" THEN OrConflict(Endable(disp.n), EndAttempt(disp.n))
                             ELSE CapAttempt(disp.n)
    /\ disp' = Idle
    /\ UNCHANGED <<podVars, sweep, reaper, cancel, tries, crashes>>

\* placement is blocked, or no rung is usable: the row only gets its unplaced_since,
\* whose 30 minutes end it earlier than the wall does
MarkUnplaced ==
    /\ disp.pc = "claim"
    /\ disp' = Idle
    /\ UNCHANGED <<rowVars, podVars, sweep, reaper, cancel, tries, crashes>>

DispatchClaim ==
    /\ disp.pc = "claim"
    /\ OrConflict(Claimable(disp.n), Claim(disp.n))
    /\ disp' = IF Claimable(disp.n) THEN [pc |-> "place", n |-> disp.n + 1] ELSE Idle
    /\ UNCHANGED <<podVars, sweep, reaper, cancel, tries, crashes>>

\* one POST: the pod comes up under the claim's token, whether or not the answer arrives
CreatePod(p) ==
    /\ disp.pc = "place" /\ pod[p] = "free"
    /\ pod' = [pod EXCEPT ![p] = "up"]
    /\ name' = [name EXCEPT ![p] = disp.n]
    /\ holds' = (IF cur = disp.n /\ status \in Open /\ state[cur] \in Active
                   THEN holds \cup {p} ELSE holds)
    /\ \/ disp' = [pc |-> "attach", n |-> disp.n, pod |-> p]
       \/ UNCHANGED disp
    /\ UNCHANGED <<status, cur, over, final, state, ref, late, age,
                   sweep, reaper, cancel, tries, crashes>>

\* no candidate was placed on any rung (402, 400, no stock, the tick's budget)
NothingPlaced ==
    /\ disp.pc = "place"
    /\ disp' = [disp EXCEPT !.pc = "release"]
    /\ UNCHANGED <<rowVars, podVars, sweep, reaper, cancel, tries, crashes>>

\* _attach_runpod: without the answer of a committed attach the pod is deleted
\* as well; a placed pod goes to the CUDA guard
AttachPod ==
    /\ disp.pc = "attach"
    /\ OrConflict(Attachable(disp.n), Attach(disp.n, disp.pod))
    /\ \/ /\ Attachable(disp.n)
          /\ disp' \in {Idle, [disp EXCEPT !.pc = "guard"]}
       \/ disp' = [disp EXCEPT !.pc = "delete"]
    /\ UNCHANGED <<podVars, sweep, reaper, cancel, tries, crashes>>

\* the attach got no answer and did not commit
AttachUnanswered ==
    /\ disp.pc = "attach"
    /\ disp' = [disp EXCEPT !.pc = "delete"]
    /\ UNCHANGED <<rowVars, podVars, sweep, reaper, cancel, tries, crashes>>

DispatchDeletes ==
    /\ disp.pc \in {"delete", "guard"}
    /\ Deleted(disp.pod) \/ DeleteFails(disp.pod)
    /\ disp' = IF disp.pc = "guard" THEN [disp EXCEPT !.pc = "requeue"] ELSE Idle
    /\ UNCHANGED <<rowButHolds, sweep, reaper, cancel, tries, crashes>>

\* apply_guard refused the host
GuardRequeues ==
    /\ disp.pc = "requeue"
    /\ OrConflict(Requeueable(disp.n), Requeue(disp.n))
    /\ disp' = Idle
    /\ UNCHANGED <<podVars, sweep, reaper, cancel, tries, crashes>>

DispatchReleases ==
    /\ disp.pc = "release"
    /\ OrConflict(Releasable(disp.n), Release(disp.n)) \/ UNCHANGED rowVars
    /\ disp' = Idle
    /\ UNCHANGED <<podVars, sweep, reaper, cancel, tries, crashes>>

-----------------------------------------------------------------------------
(* The sweep's round on an active attempt.                                 *)

\* the rules in their order, on what the round has read of the row
Verdict ==
    CASE state[cur] = "placing" -> IF late THEN "release" ELSE "pass"
      [] final -> "final"
      [] over -> "stop"
      [] OTHER -> IF late THEN "quiet" ELSE "look"

SweepRead ==
    /\ sweep = Idle /\ Free /\ status \in Open /\ cur > 0 /\ state[cur] \in Active
    /\ Verdict # "pass"
    /\ sweep' = [pc |-> Verdict, n |-> cur, ref |-> ref[cur]]
    /\ UNCHANGED <<rowVars, podVars, disp, reaper, cancel, tries, crashes>>

\* what on_loss and the ready-final rule do next
Terminates == sweep' = [pc |-> "terminate", ref |-> sweep.ref]

SweepFinal ==
    /\ sweep.pc = "final"
    /\ OrConflict(Endable(sweep.n), EndAttempt(sweep.n))
    /\ IF Endable(sweep.n) THEN Terminates ELSE sweep' = Idle
    /\ UNCHANGED <<podVars, disp, reaper, cancel, tries, crashes>>

\* a cap stops the GPU before it ends the attempt
SweepStops ==
    /\ sweep.pc = "stop"
    /\ Deleted(sweep.ref) \/ DeleteFails(sweep.ref)
    /\ sweep' = [sweep EXCEPT !.pc = "cap"]
    /\ UNCHANGED <<rowButHolds, disp, reaper, cancel, tries, crashes>>

SweepCaps ==
    /\ sweep.pc = "cap"
    /\ CapAttempt(sweep.n)
    /\ sweep' = Idle
    /\ UNCHANGED <<podVars, disp, reaper, cancel, tries, crashes>>

\* a claim that placed nothing for PLACING_STALE_S
SweepReleases ==
    /\ sweep.pc = "release"
    /\ OrConflict(Releasable(sweep.n), Release(sweep.n))
    /\ sweep' = Idle
    /\ UNCHANGED <<podVars, disp, reaper, cancel, tries, crashes>>

\* the round's pod list, read after the rows: a pod that is gone is lost, in the second
\* round that sees it so; else the attempt is lost if it is late
SeesGone == sweep.ref # None /\ pod[sweep.ref] = "gone"

SweepLoses ==
    /\ sweep.pc \in {"quiet", "look"}
    /\ SeesGone \/ sweep.pc = "quiet"
    /\ OrConflict(Requeueable(sweep.n), Requeue(sweep.n)) /\ Terminates
    /\ UNCHANGED <<podVars, disp, reaper, cancel, tries, crashes>>

\* apply_guard, of a host found unfit only now: no second delete follows
SweepGuards ==
    /\ sweep.pc \in {"quiet", "look"} /\ sweep.ref # None
    /\ Deleted(sweep.ref) \/ DeleteFails(sweep.ref)
    /\ sweep' = [sweep EXCEPT !.pc = "requeue"]
    /\ UNCHANGED <<rowButHolds, disp, reaper, cancel, tries, crashes>>

SweepRequeues ==
    /\ sweep.pc = "requeue"
    /\ OrConflict(Requeueable(sweep.n), Requeue(sweep.n))
    /\ sweep' = Idle
    /\ UNCHANGED <<podVars, disp, reaper, cancel, tries, crashes>>

SweepPasses ==
    /\ sweep.pc = "look"
    /\ sweep' = Idle
    /\ UNCHANGED <<rowVars, podVars, disp, reaper, cancel, tries, crashes>>

SweepTerminates ==
    /\ sweep.pc = "terminate"
    /\ Deleted(sweep.ref) \/ DeleteFails(sweep.ref)
    /\ sweep' = Idle
    /\ UNCHANGED <<rowButHolds, disp, reaper, cancel, tries, crashes>>

-----------------------------------------------------------------------------
(* The reaper: it lists the pods, then reads the attached refs, the active *)
(* rows and their attempts in three queries, then judges pod by pod.       *)

ReaperLists ==
    /\ reaper = Idle /\ Free
    /\ \E p \in Pods : pod[p] = "up"
    /\ reaper' = [pc |-> "refs", ages |-> [p \in {q \in Pods : pod[q] = "up"} |-> age[p]]]
    /\ UNCHANGED <<rowVars, podVars, disp, sweep, cancel, tries, crashes>>

ReaperReadsRefs ==
    /\ reaper.pc = "refs"
    /\ reaper' = [pc |-> "rows", ages |-> reaper.ages, refs |-> {ref[a] : a \in Attempts} \ {None}]
    /\ UNCHANGED <<rowVars, podVars, disp, sweep, cancel, tries, crashes>>

\* active: the current attempt of a row that is queued or running, else 0
ReaperReadsRows ==
    /\ reaper.pc = "rows"
    /\ reaper' = [pc |-> "attempts", ages |-> reaper.ages, refs |-> reaper.refs,
                  active |-> IF status \in Open THEN cur ELSE 0]
    /\ UNCHANGED <<rowVars, podVars, disp, sweep, cancel, tries, crashes>>

\* mutant: an attached pod is kept only while it is young
KeepsYoung(p) ==
    /\ reaper.active > 0
    /\ \/ /\ p \in reaper.refs /\ ref[reaper.active] = p
          /\ state[reaper.active] \in {"starting", "running"}
          /\ reaper.ages[p] = 0
       \/ /\ name[p] = reaper.active /\ state[reaper.active] = "placing"
          /\ reaper.ages[p] = 0
Keeps(p) ==
    /\ reaper.active > 0
    /\ \/ /\ p \in reaper.refs /\ ref[reaper.active] = p
          /\ state[reaper.active] \in {"starting", "running"}
          /\ reaper.ages[p] < 2
       \/ /\ name[p] = reaper.active /\ state[reaper.active] = "placing"
          /\ reaper.ages[p] = 0

\* mutant: a pod without an attached attempt is taken for another environment's
OursByRef(p) == p \in reaper.refs
\* by its name or by an attempt that has it
Ours(p) == name[p] \in Attempts \/ p \in reaper.refs

ReaperJudges ==
    /\ reaper.pc = "attempts"
    /\ LET doomed == {p \in DOMAIN reaper.ages : Ours(p) /\ ~Keeps(p)}
       IN  reaper' = IF doomed = {} THEN Idle
                     ELSE [pc |-> "delete", doomed |-> doomed, refs |-> reaper.refs]
    /\ UNCHANGED <<rowVars, podVars, disp, sweep, cancel, tries, crashes>>

ReaperDeletes(p) ==
    /\ reaper.pc = "delete" /\ p \in reaper.doomed
    /\ Deleted(p) \/ DeleteFails(p)
    /\ reaper' = IF reaper.doomed = {p} THEN Idle ELSE [reaper EXCEPT !.doomed = @ \ {p}]
    /\ UNCHANGED <<rowButHolds, disp, sweep, cancel, tries, crashes>>

-----------------------------------------------------------------------------
(* Cancelling: the request, asked again by the cancel sweep.               *)

Publishing == status = "running" /\ cur > 0 /\ state[cur] = "ended"

CancelRequest ==
    /\ cancel = Idle /\ Free /\ Cancels
    /\ status \in Open \cup {"cancel_requested"} /\ ~Publishing
    /\ status' = "cancel_requested"
    /\ tries' = (IF tries < MaxCancel THEN tries + 1 ELSE tries)
    /\ cancel' = [pc |-> "stop",
                  ref |-> IF cur > 0 /\ state[cur] \in {"starting", "running"} THEN ref[cur] ELSE None]
    /\ UNCHANGED <<cur, over, final, state, ref, late, holds,
                   podVars, disp, sweep, reaper, crashes>>

CancelStops ==
    /\ cancel.pc = "stop"
    /\ \/ Deleted(cancel.ref) /\ cancel' = [pc |-> "canceled"]
       \/ /\ DeleteFails(cancel.ref)
          /\ cancel' = IF tries = MaxCancel THEN [pc |-> "failed"] ELSE Idle
    /\ UNCHANGED <<rowButHolds, disp, sweep, reaper, tries, crashes>>

\* complete_cancel_training
CancelCompletes ==
    /\ cancel.pc \in {"canceled", "failed"}
    /\ OrConflict(status = "cancel_requested", Closes(cancel.pc))
    /\ cancel' = Idle
    /\ UNCHANGED <<podVars, disp, sweep, reaper, tries, crashes>>

-----------------------------------------------------------------------------
(* Around them: the worker in a pod, the publish, RunPod, time.            *)

\* a pod created for the claim reports, attached or not
Heartbeat(p) ==
    /\ p \in holds /\ pod[p] = "up" /\ status \in Open /\ state[cur] \in Active
    /\ status' = "running" /\ late' = FALSE
    /\ state' = [state EXCEPT ![cur] = "running"]
    /\ UNCHANGED <<cur, over, final, ref, holds, podVars, tasks, tries, crashes>>

FinalReady ==
    /\ holds # {} /\ status \in Open /\ state[cur] = "running" /\ ~final
    /\ final' = TRUE
    /\ UNCHANGED <<status, cur, over, state, ref, late, holds, podVars, tasks, tries, crashes>>

\* the worker reports a loss, or that it cannot train
WorkerFinishes ==
    /\ holds # {} /\ status \in Open /\ state[cur] = "running" /\ ~final
    /\ Requeue(cur) \/ Closes("failed")
    /\ UNCHANGED <<podVars, tasks, tries, crashes>>

\* publish_sync
PublishEnds ==
    /\ Publishing
    /\ \E end \in {"succeeded", "failed"} : Closes(end)
    /\ UNCHANGED <<podVars, tasks, tries, crashes>>

PodDies(p) ==
    /\ pod[p] = "up" /\ Gone(p)
    /\ UNCHANGED <<rowButHolds, tasks, tries, crashes>>

\* the age over the maximum matters to an attached pod only
PodAges(p) ==
    /\ pod[p] = "up"
    /\ age[p] < (IF \E a \in Attempts : ref[a] = p THEN 2 ELSE 1)
    /\ age' = [age EXCEPT ![p] = @ + 1]
    /\ UNCHANGED <<rowVars, pod, name, tasks, tries, crashes>>

\* the clocks of the row
LimitReached ==
    /\ ~over /\ status \in Open
    /\ over' = TRUE
    /\ UNCHANGED <<status, cur, final, state, ref, late, holds,
                   podVars, tasks, tries, crashes>>

\* no attach, no start, no heartbeat or no progress for too long
Delay ==
    /\ status \in Open /\ cur > 0 /\ state[cur] \in Active /\ ~late
    /\ late' = TRUE
    /\ UNCHANGED <<status, cur, over, final, state, ref, holds,
                   podVars, tasks, tries, crashes>>

Restart ==
    /\ crashes < MaxCrashes /\ crashes' = crashes + 1
    /\ disp' = Idle /\ sweep' = Idle /\ reaper' = Idle /\ cancel' = Idle
    /\ UNCHANGED <<rowVars, podVars, tries>>

Dispatcher ==
    \/ DispatchRead \/ DispatchFinishes \/ MarkUnplaced \/ DispatchClaim \/ NothingPlaced
    \/ (\E p \in Pods : CreatePod(p))
    \/ AttachPod \/ AttachUnanswered \/ DispatchDeletes \/ GuardRequeues \/ DispatchReleases
Sweep ==
    \/ SweepRead \/ SweepFinal \/ SweepStops \/ SweepCaps \/ SweepReleases
    \/ SweepLoses \/ SweepGuards \/ SweepRequeues \/ SweepPasses \/ SweepTerminates
Reaper ==
    \/ ReaperLists \/ ReaperReadsRefs \/ ReaperReadsRows \/ ReaperJudges
    \/ \E p \in Pods : ReaperDeletes(p)
Canceler == CancelStops \/ CancelCompletes \/ CancelRequest
Clocks == LimitReached \/ Delay

Next ==
    \/ Dispatcher \/ Sweep \/ Reaper \/ Canceler \/ Clocks
    \/ (\E p \in Pods : Heartbeat(p) \/ PodDies(p) \/ PodAges(p))
    \/ FinalReady \/ WorkerFinishes \/ PublishEnds \/ Restart

(* The loops never die (_forever) and come round again, strongly because   *)
(* the bound on overlapping rounds may keep one waiting for the others; a  *)
(* delete repeated every round works in the end; the clocks go on.         *)
Fairness ==
    /\ SF_vars(Dispatcher) /\ SF_vars(Sweep) /\ SF_vars(Reaper)
    /\ SF_vars(CancelStops \/ CancelCompletes \/ (status = "cancel_requested" /\ CancelRequest))
    /\ SF_vars(\E p \in Pods : ReaperDeletes(p) /\ pod'[p] = "gone")
    /\ WF_vars(PublishEnds \/ LimitReached) /\ WF_vars(Delay)

Spec == Init /\ [][Next]_vars
FairSpec == Spec /\ Fairness

-----------------------------------------------------------------------------
(* Properties.                                                             *)

(* Every variable keeps its type.                                          *)
TypeOK ==
    /\ status \in Open \cup Terminal \cup {"cancel_requested"}
    /\ cur \in 0..MaxAttempt
    /\ over \in BOOLEAN
    /\ state \in [Attempts -> Active \cup {"none", "lost", "ended"}]
    /\ ref \in [Attempts -> Pods \cup {None}]
    /\ final \in BOOLEAN /\ late \in BOOLEAN
    /\ pod \in [Pods -> {"free", "up", "gone"}]
    /\ name \in [Pods -> 0..MaxAttempt] /\ age \in [Pods -> 0..2]
    /\ holds \subseteq Pods
    /\ tries \in 0..MaxCancel /\ crashes \in 0..MaxCrashes

(* The reaper never deletes the pod of the running attempt if the attach   *)
(* had committed when it read the refs and the pod is not over its maximum *)
(* age, whatever the row did between the reaper's four reads and the       *)
(* deletes (reaper_tick).                                                  *)
AttachedIsSpared ==
    reaper.pc = "delete" =>
        \A p \in reaper.doomed \cap reaper.refs : Live(p) => age[p] = 2

(* on_loss terminates whatever its compare-and-set answered, on a reading  *)
(* that may be long out of date: by then the pod is never the live one.    *)
TerminatesOnlyLost == sweep.pc = "terminate" /\ sweep.ref # None => ~Live(sweep.ref)

(* No loop takes the pod of a running attempt away: neither the reaper     *)
(* with its readings of four moments nor the sweep after a compare-and-set *)
(* whose answer it ignores (reaper_tick, on_loss).                         *)
LivePodIsSpared == AttachedIsSpared /\ TerminatesOnlyLost

(* A training is only "canceled" when the pod its last attempt ran on is   *)
(* gone: an attach that commits between the request and its completion     *)
(* would leave a GPU running for a cancelled student (_retry_one_managed). *)
CanceledIsStopped ==
    status = "canceled" /\ cur > 0 /\ state[cur] = "ended" /\ ref[cur] # None
        => pod[ref[cur]] = "gone"

(* In the end the training is over and none of its pods is up: no order of *)
(* losses, conflicts, stale reads, failed deletes and restarts leaves a    *)
(* row that no loop moves, or the orphan of a create without an answer     *)
(* (_budget_finish, _check_attempt, reaper_tick).                          *)
AllEnds == <>[](status \in Terminal /\ \A p \in Pods : pod[p] # "up")

=============================================================================
