-------------------------- MODULE PodControl_proofs --------------------------
(***************************************************************************)
(* The safety of PodControl for any number of pods, attempts, cancel       *)
(* tries, overlapping rounds and restarts. Each loop acts on what it read  *)
(* some awaits ago; the invariant says what is left of every reading.      *)
(***************************************************************************)
EXTENDS PodControl, TLAPS

(* The row and RunPod.                                                     *)
Typed ==
    /\ status \in Open \cup Terminal \cup {"cancel_requested"}
    /\ cur \in 0..MaxAttempt
    /\ over \in BOOLEAN /\ final \in BOOLEAN /\ late \in BOOLEAN
    /\ state \in [Attempts -> Active \cup {"none", "lost", "ended"}]
    /\ ref \in [Attempts -> Pods \cup {None}]
    /\ holds \subseteq Pods
    /\ pod \in [Pods -> {"free", "up", "gone"}]
    /\ name \in [Pods -> 0..MaxAttempt] /\ age \in [Pods -> 0..2]

(* The attempts of the row in order: those before the current one are      *)
(* lost, those after it have not begun; only an attached attempt has a     *)
(* pod, each its own; a token is held of a claim; and no attempt has ended *)
(* while the row waits for one or for its cancellation.                    *)
Ordered ==
    /\ \A a \in Attempts : a < cur => state[a] = "lost"
    /\ \A a \in Attempts : a > cur => state[a] = "none" /\ ref[a] = None
    /\ \A a \in Attempts : state[a] = "placing" => ref[a] = None
    /\ cur > 0 => state[cur] # "none"
    /\ holds # {} => cur > 0
    /\ status \in {"queued", "cancel_requested"} /\ cur > 0 => state[cur] # "ended"
    /\ \A a \in Attempts : ref[a] # None => pod[ref[a]] # "free"
    /\ \A a, b \in Attempts : ref[a] = ref[b] /\ ref[a] # None => a = b

(* An attempt that can never run again.                                    *)
Done(a) == status \notin Open \/ state[a] \in {"lost", "ended"}

(* A round of the dispatcher, with what it carries from step to step. The  *)
(* pod it has yet to attach is nobody's.                                   *)
DispatchOK ==
    /\ disp.pc \in {"idle", "finish", "giveup", "claim", "place", "release",
                    "attach", "delete", "guard", "requeue"}
    /\ disp.pc = "giveup" => disp.n \in 0..MaxAttempt
    /\ disp.pc = "claim" => disp.n + 1 \in Attempts /\ disp.n \in Nat
    /\ disp.pc \in {"place", "release"} => disp = [pc |-> disp.pc, n |-> disp.n]
    /\ disp.pc \in {"attach", "delete", "guard", "requeue"} =>
         disp = [pc |-> disp.pc, n |-> disp.n, pod |-> disp.pod] /\ disp.pod \in Pods
    /\ disp.pc \in {"finish", "place", "release", "attach", "delete", "guard", "requeue"} =>
         disp.n \in Attempts
    /\ disp.pc = "attach" => pod[disp.pod] # "free" /\ \A a \in Attempts : ref[a] # disp.pod

(* A round of the sweep: the pod it has read of an attempt is that         *)
(* attempt's for good, and the one it terminates has no attempt that runs. *)
SweepOK ==
    /\ sweep.pc \in {"idle", "final", "stop", "cap", "release", "quiet", "look", "requeue",
                     "terminate"}
    /\ sweep.pc \notin {"idle", "terminate"} =>
         /\ sweep = [pc |-> sweep.pc, n |-> sweep.n, ref |-> sweep.ref]
         /\ sweep.n \in Attempts
         /\ sweep.ref # None => ref[sweep.n] = sweep.ref
    /\ sweep.pc # "idle" => sweep.ref \in Pods \cup {None}
    /\ sweep.pc = "terminate" /\ sweep.ref # None =>
         \E a \in Attempts : ref[a] = sweep.ref /\ Done(a)

(* A round of the reaper: what is left of its readings.                    *)
ReaperOK ==
    /\ reaper.pc \in {"idle", "refs", "rows", "attempts", "delete"}
    /\ reaper.pc \in {"refs", "rows", "attempts"} =>
         \A p \in DOMAIN reaper.ages : /\ p \in Pods /\ reaper.ages[p] \in 0..2
                                       /\ pod[p] # "gone" => reaper.ages[p] <= age[p]
    /\ reaper.pc \in {"rows", "attempts", "delete"} =>
         \A p \in reaper.refs : p \in Pods /\ \E a \in Attempts : ref[a] = p
    /\ reaper.pc = "attempts" =>
         \A a \in Attempts : ref[a] \in reaper.refs => reaper.active = a \/ Done(a)
    /\ reaper.pc = "delete" =>
         /\ reaper = [pc |-> "delete", doomed |-> reaper.doomed, refs |-> reaper.refs]
         /\ reaper.doomed \subseteq Pods
         /\ \A a \in Attempts : ref[a] \in reaper.doomed \cap reaper.refs =>
              Done(a) \/ pod[ref[a]] = "gone" \/ age[ref[a]] = 2

(* A round of the cancel sweep: once the request stands, the attempt and   *)
(* its pod stay what they were, until the pod is gone.                     *)
RunsOn(p) == cur > 0 /\ state[cur] \in {"starting", "running"} /\ ref[cur] = p
CancelOK ==
    /\ cancel.pc \in {"idle", "stop", "canceled", "failed"}
    /\ cancel.pc # "idle" => status = "cancel_requested"
    /\ cancel.pc = "stop" => cancel.ref \in Pods \cup {None}
                             /\ \A p \in Pods : RunsOn(p) => cancel.ref = p
    /\ cancel.pc = "canceled" => \A p \in Pods : RunsOn(p) => pod[p] = "gone"

IInv == Typed /\ Ordered /\ DispatchOK /\ SweepOK /\ ReaperOK /\ CancelOK /\ CanceledIsStopped

-----------------------------------------------------------------------------
(* What no step undoes: a pod stays with its attempt, an attempt that is   *)
(* done stays so, a pod that is gone stays gone and grows older till then. *)
Forward ==
    /\ \A a \in Attempts : ref[a] # None => ref'[a] = ref[a] /\ (Done(a) => Done(a)')
    /\ \A a \in Attempts : ref'[a] # ref[a] => disp.pc = "attach" /\ ref'[a] = disp.pod
    /\ \A p \in Pods : /\ pod[p] # "free" => pod'[p] # "free"
                       /\ pod[p] = "gone" => pod'[p] = "gone"
                       /\ pod'[p] # "gone" => age[p] <= age'[p]

(* A row that is over or to be cancelled is only completed.                *)
Frozen == status \notin Open => UNCHANGED <<status, cur, state, ref>>

(* A step of the row or of RunPod.                                         *)
Sound == Typed' /\ Ordered' /\ Forward /\ Frozen /\ (status' = "canceled" => status = "canceled")

LEMMA Params ==
    /\ MaxAttempt \in Nat \ {0} /\ MaxCancel \in Nat \ {0} /\ MaxCrashes \in Nat /\ None \notin Pods
    /\ \A a \in Attempts : a \in Nat /\ a > 0
BY PodAssumption DEF Attempts

(* The rounds that a step leaves alone keep what they have.                *)
LEMMA OthersKeep ==
    ASSUME IInv, Typed', Forward
    PROVE  /\ sweep' = sweep => SweepOK'
           /\ reaper' = reaper => ReaperOK'
           /\ cancel' = cancel /\ Frozen => CancelOK'
           /\ disp' = disp /\ ref' = ref => DispatchOK'
           /\ Frozen /\ (status' = "canceled" => status = "canceled") => CanceledIsStopped'
<1>1. ASSUME sweep' = sweep PROVE SweepOK'
  <2>1. ASSUME sweep.pc \notin {"idle", "terminate"} /\ sweep.ref # None
        PROVE  ref'[sweep.n] = sweep.ref
    BY <2>1 DEF IInv, SweepOK, Forward
  <2>2. ASSUME sweep.pc = "terminate" /\ sweep.ref # None
        PROVE  \E a \in Attempts : ref'[a] = sweep.ref /\ Done(a)'
    BY <2>2 DEF IInv, SweepOK, Forward
  <2> QED
    BY <1>1, <2>1, <2>2 DEF IInv, SweepOK
<1>2. ASSUME reaper' = reaper PROVE ReaperOK'
  <2>1. ASSUME NEW a \in Attempts, NEW R \in SUBSET Pods,
               \A p \in R : \E b \in Attempts : ref[b] = p, ref'[a] \in R
        PROVE  ref[a] = ref'[a] /\ ref[a] # None
    BY <2>1, Params DEF IInv, DispatchOK, Forward
  <2>2. ASSUME reaper.pc \in {"refs", "rows", "attempts"}, NEW p \in DOMAIN reaper.ages
        PROVE  /\ p \in Pods /\ reaper.ages[p] \in 0..2
               /\ pod'[p] # "gone" => reaper.ages[p] <= age'[p]
    <3>1. p \in Pods /\ reaper.ages[p] \in 0..2 /\ (pod[p] # "gone" => reaper.ages[p] <= age[p])
      BY <2>2 DEF IInv, ReaperOK
    <3>2. age[p] \in Int /\ age'[p] \in Int /\ reaper.ages[p] \in Int
      BY <3>1 DEF IInv, Typed
    <3>3. (pod[p] = "gone" => pod'[p] = "gone") /\ (pod'[p] # "gone" => age[p] <= age'[p])
      BY <3>1 DEF Forward
    <3> QED
      BY <3>1, <3>2, <3>3
  <2>3. ASSUME reaper.pc \in {"rows", "attempts", "delete"}, NEW p \in reaper.refs
        PROVE  p \in Pods /\ \E a \in Attempts : ref'[a] = p
    <3>1. p \in Pods /\ \E a \in Attempts : ref[a] = p
      BY <2>3 DEF IInv, ReaperOK
    <3> QED
      BY <3>1, Params DEF Forward
  <2>4. ASSUME reaper.pc = "attempts", NEW a \in Attempts, ref'[a] \in reaper.refs
        PROVE  reaper.active = a \/ Done(a)'
    <3>1. ref[a] = ref'[a] /\ ref[a] # None
      BY <2>1, <2>4 DEF IInv, ReaperOK
    <3> QED
      BY <2>4, <3>1 DEF IInv, ReaperOK, Forward
  <2>5. ASSUME reaper.pc = "delete", NEW a \in Attempts, ref'[a] \in reaper.doomed \cap reaper.refs
        PROVE  Done(a)' \/ pod'[ref'[a]] = "gone" \/ age'[ref'[a]] = 2
    <3>1. ref[a] = ref'[a] /\ ref[a] # None /\ ref[a] \in Pods
      BY <2>1, <2>5 DEF IInv, ReaperOK
    <3>2. Done(a) \/ pod[ref[a]] = "gone" \/ age[ref[a]] = 2
      BY <2>5, <3>1 DEF IInv, ReaperOK
    <3>3. pod'[ref[a]] # "gone" /\ age[ref[a]] = 2 => age'[ref[a]] = 2
      BY <3>1 DEF Forward, Typed
    <3> QED
      BY <3>1, <3>2, <3>3 DEF Forward
  <2> QED
    BY <1>2, <2>2, <2>3, <2>4, <2>5 DEF IInv, ReaperOK
<1>3. ASSUME cancel' = cancel, Frozen PROVE CancelOK'
  BY <1>3 DEF IInv, CancelOK, Forward, Frozen, RunsOn, Open
<1>4. ASSUME disp' = disp, ref' = ref PROVE DispatchOK'
  BY <1>4 DEF IInv, DispatchOK, Forward
<1>5. ASSUME Frozen, status' = "canceled" => status = "canceled" PROVE CanceledIsStopped'
  <2>1. CASE status' # "canceled"
    BY <2>1 DEF CanceledIsStopped
  <2>2. CASE status' = "canceled"
    <3>1. status = "canceled" /\ UNCHANGED <<cur, state, ref>>
      BY <1>5, <2>2 DEF Frozen, Open
    <3>2. cur > 0 => cur \in Attempts
      BY DEF IInv, Typed, Attempts
    <3> QED
      BY <3>1, <3>2 DEF IInv, Typed, CanceledIsStopped, Forward
  <2> QED
    BY <2>1, <2>2
<1> QED
  BY <1>1, <1>2, <1>3, <1>4, <1>5

(* The database's functions.                                               *)
LEMMA ClaimSound ==
    ASSUME IInv, UNCHANGED podVars, NEW n, n \in Nat, n + 1 \in Attempts, Claimable(n), Claim(n)
    PROVE  Sound
<1>1. /\ status = "queued" /\ cur = n /\ status' = status /\ ref' = ref /\ cur' = n + 1
      /\ state' = [state EXCEPT ![n + 1] = "placing"]
      /\ over' = over /\ final' = final /\ late' = FALSE /\ holds' = {}
      /\ UNCHANGED podVars
  BY DEF Claimable, Claim
<1>2. state[n + 1] = "none" /\ ref[n + 1] = None
  BY <1>1 DEF IInv, Ordered
<1>3. Typed'
  <2>1. cur' \in 0..MaxAttempt
    BY <1>1, Params DEF Attempts
  <2>2. state' \in [Attempts -> Active \cup {"none", "lost", "ended"}]
    BY <1>1 DEF IInv, Typed, Active
  <2> QED
    BY <1>1, <2>1, <2>2 DEF IInv, Typed, podVars
<1>4. n > 0 => state[n] = "lost"
  BY <1>1 DEF Claimable, IInv, Ordered
<1>5. Ordered'
  BY <1>1, <1>2, <1>4, Params DEF IInv, Typed, Ordered, podVars
<1>6. Forward /\ Frozen
  BY <1>1, <1>2 DEF IInv, Typed, Forward, Frozen, Done, podVars, Open
<1> QED
  BY <1>1, <1>3, <1>5, <1>6 DEF Sound

LEMMA AttachSound ==
    ASSUME IInv, UNCHANGED podVars, disp.pc = "attach", Attachable(disp.n), Attach(disp.n, disp.pod)
    PROVE  Sound
<1>1. /\ disp.n \in Attempts /\ disp.pod \in Pods
      /\ pod[disp.pod] # "free" /\ \A a \in Attempts : ref[a] # disp.pod
  BY DEF IInv, DispatchOK
<1>2. /\ status \in Open /\ cur = disp.n /\ ref[disp.n] = None /\ state[disp.n] \in Active
      /\ ref' = [ref EXCEPT ![disp.n] = disp.pod]
      /\ state' = [state EXCEPT ![disp.n] = IF @ = "placing" THEN "starting" ELSE @]
      /\ late' = FALSE /\ UNCHANGED <<status, cur, over, final, holds>> /\ UNCHANGED podVars
  BY DEF Attachable, Attach
<1>3. state'[disp.n] \in {"starting", "running"} /\ \A a \in Attempts \ {disp.n} : state'[a] = state[a]
  BY <1>1, <1>2 DEF IInv, Typed, Active
<1>4. Typed'
  BY <1>1, <1>2 DEF IInv, Typed, podVars, Active
<1>5. Ordered'
  BY <1>1, <1>2, <1>3, Params DEF IInv, Typed, Ordered, podVars
<1>6. Forward /\ Frozen
  BY <1>1, <1>2, <1>3 DEF IInv, Typed, Forward, Frozen, Done, podVars, Active
<1> QED
  BY <1>2, <1>4, <1>5, <1>6 DEF Sound

LEMMA ReleaseSound ==
    ASSUME IInv, UNCHANGED podVars, NEW n \in Attempts, Releasable(n), Release(n)
    PROVE  Sound
<1>1. /\ status = "queued" /\ cur = n /\ state[n] = "placing" /\ ref[n] = None
      /\ cur' = n - 1 /\ holds' = {} /\ state' = [state EXCEPT ![n] = "none"] /\ late' = FALSE
      /\ UNCHANGED <<status, over, final, ref>> /\ UNCHANGED podVars
  BY DEF Releasable, Release
<1>2. Typed'
  <2>1. cur' \in 0..MaxAttempt
    BY <1>1, Params DEF Attempts
  <2>2. state' \in [Attempts -> Active \cup {"none", "lost", "ended"}]
    BY <1>1 DEF IInv, Typed
  <2> QED
    BY <1>1, <2>1, <2>2 DEF IInv, Typed, podVars
<1>3. Ordered'
  <2>1. \A a \in Attempts : a < n => state'[a] = "lost"
    BY <1>1, Params DEF IInv, Typed, Ordered
  <2>2. \A a \in Attempts : a > n - 1 => state'[a] = "none" /\ ref[a] = None
    BY <1>1, Params DEF IInv, Typed, Ordered
  <2>3. n - 1 > 0 => n - 1 \in Attempts
    BY Params DEF Attempts
  <2> QED
    BY <1>1, <2>1, <2>2, <2>3, Params DEF IInv, Typed, Ordered, podVars
<1>4. Forward /\ Frozen
  BY <1>1 DEF IInv, Typed, Forward, Frozen, Done, podVars, Open
<1> QED
  BY <1>1, <1>2, <1>3, <1>4 DEF Sound

LEMMA RequeueSound ==
    ASSUME IInv, UNCHANGED podVars, NEW n \in Attempts, Requeueable(n), Requeue(n)
    PROVE  Sound /\ state'[n] = "lost"
<1>1. /\ status \in Open /\ cur = n /\ state[n] \in Active
      /\ status' = "queued" /\ holds' = {} /\ state' = [state EXCEPT ![n] = "lost"] /\ late' = FALSE
      /\ UNCHANGED <<cur, over, final, ref>> /\ UNCHANGED podVars
  BY DEF Requeueable, Requeue
<1>2. Typed'
  BY <1>1 DEF IInv, Typed, podVars, Open
<1>3. Ordered'
  BY <1>1, Params DEF IInv, Typed, Ordered, podVars
<1>4. Forward /\ Frozen
  BY <1>1 DEF IInv, Typed, Forward, Frozen, Done, podVars, Active
<1> QED
  BY <1>1, <1>2, <1>3, <1>4 DEF Sound, IInv, Typed

LEMMA EndSound ==
    ASSUME IInv, UNCHANGED podVars, NEW n \in Attempts, Endable(n), EndAttempt(n)
    PROVE  Sound /\ state'[n] = "ended"
<1>1. /\ status \in Open /\ cur = n /\ state[n] \in Active \cup {"lost"}
      /\ status' = "running" /\ holds' = {} /\ state' = [state EXCEPT ![n] = "ended"] /\ late' = FALSE
      /\ UNCHANGED <<cur, over, final, ref>> /\ UNCHANGED podVars
  BY DEF Endable, EndAttempt
<1>2. Typed'
  BY <1>1 DEF IInv, Typed, podVars, Open
<1>3. Ordered'
  BY <1>1, Params DEF IInv, Typed, Ordered, podVars
<1>4. Forward /\ Frozen
  BY <1>1 DEF IInv, Typed, Forward, Frozen, Done, podVars, Active
<1> QED
  BY <1>1, <1>2, <1>3, <1>4 DEF Sound, IInv, Typed

(* A terminal write, in any state that may end.                            *)
LEMMA CloseKeeps ==
    ASSUME IInv, UNCHANGED podVars, NEW end \in Terminal, Closes(end)
    PROVE  /\ Typed' /\ Ordered' /\ Forward
           /\ cur' = cur /\ ref' = ref /\ status' = end
           /\ cur > 0 /\ state'[cur] = "ended" => state[cur] \in Active \cup {"ended"}
<1>1. /\ status' = end /\ holds' = {} /\ late' = FALSE
      /\ state' = IF cur > 0 /\ state[cur] \in Active THEN [state EXCEPT ![cur] = "ended"] ELSE state
      /\ UNCHANGED <<cur, over, final, ref>> /\ UNCHANGED podVars
  BY DEF Closes
<1>2. cur > 0 => cur \in Attempts
  BY DEF IInv, Typed, Attempts
<1>3. /\ state' \in [Attempts -> Active \cup {"none", "lost", "ended"}]
      /\ \A a \in Attempts : state'[a] = state[a] \/ (a = cur /\ state'[a] = "ended")
  BY <1>1, <1>2 DEF IInv, Typed
<1>4. Typed'
  BY <1>1, <1>3 DEF IInv, Typed, podVars
<1>5. Ordered'
  BY <1>1, <1>2, <1>3, Params DEF IInv, Typed, Ordered, podVars, Terminal
<1>6. Forward
  BY <1>1, <1>3 DEF IInv, Typed, Forward, Done, podVars, Terminal, Open
<1>7. cur > 0 /\ state'[cur] = "ended" => state[cur] \in Active \cup {"ended"}
  BY <1>1, <1>2 DEF IInv, Typed
<1> QED
  BY <1>1, <1>4, <1>5, <1>6, <1>7

LEMMA CloseSound ==
    ASSUME IInv, UNCHANGED podVars, NEW end \in {"succeeded", "failed"}, status \in Open, Closes(end)
    PROVE  Sound
BY CloseKeeps DEF Sound, Frozen, Terminal

LEMMA RowStands ==
    ASSUME IInv, UNCHANGED podVars, UNCHANGED rowVars PROVE Sound
<1>1. Typed' /\ Ordered'
  BY DEF IInv, Typed, Ordered, podVars, rowVars
<1>2. Forward /\ Frozen
  BY DEF IInv, Typed, Forward, Frozen, Done, podVars, rowVars
<1> QED
  BY <1>1, <1>2 DEF Sound, rowVars

LEMMA CapSound ==
    ASSUME IInv, UNCHANGED podVars, NEW n \in 0..MaxAttempt, CapAttempt(n)
    PROVE  Sound
<1>1. CASE Failable(n) /\ Closes("failed")
  BY <1>1, CloseSound DEF Failable
<1>2. CASE n > 0 /\ Endable(n) /\ EndAttempt(n)
  <2>1. n \in Attempts
    BY <1>2 DEF Attempts
  <2> QED
    BY <1>2, <2>1, EndSound
<1>3. CASE UNCHANGED rowVars
  BY <1>3, RowStands
<1> QED
  BY <1>1, <1>2, <1>3 DEF CapAttempt, OrConflict

(* A delete, done or not.                                                  *)
LEMMA DeleteSound ==
    ASSUME IInv, NEW p \in Pods \cup {None}, Deleted(p) \/ DeleteFails(p), UNCHANGED rowButHolds
    PROVE  /\ Sound /\ ref' = ref
           /\ Deleted(p) /\ p # None => pod'[p] = "gone"
<1>1. UNCHANGED <<status, cur, over, final, state, ref, late>>
  BY DEF rowButHolds
<1>2. CASE UNCHANGED <<podVars, holds>>
  <2>1. UNCHANGED rowVars
    BY <1>1, <1>2 DEF rowVars
  <2>2. Sound /\ ref' = ref
    BY <1>1, <1>2, <2>1, RowStands
  <2>3. Deleted(p) /\ p # None => pod'[p] = "gone"
    BY DEF Deleted, Gone, IInv, Typed
  <2> QED
    BY <2>2, <2>3
<1>3. CASE Gone(p) /\ p \in Pods
  <2>1. /\ pod' = [pod EXCEPT ![p] = "gone"] /\ name' = [name EXCEPT ![p] = 0]
        /\ age' = [age EXCEPT ![p] = 0] /\ holds' = holds \ {p}
    BY <1>3 DEF Gone
  <2>2. Typed'
    BY <1>1, <1>3, <2>1, Params DEF IInv, Typed
  <2>3. Ordered'
    BY <1>1, <1>3, <2>1 DEF IInv, Typed, Ordered
  <2>4. Forward /\ Frozen
    BY <1>1, <1>3, <2>1 DEF IInv, Typed, Forward, Frozen, Done
  <2> QED
    BY <1>1, <1>3, <2>1, <2>2, <2>3, <2>4 DEF Sound, IInv, Typed
<1> QED
  BY <1>2, <1>3 DEF Deleted, DeleteFails

-----------------------------------------------------------------------------
(* A step of one task.                                                     *)
LEMMA StepKeeps ==
    ASSUME IInv, Sound,
           sweep' = sweep \/ SweepOK',
           reaper' = reaper \/ ReaperOK',
           cancel' = cancel \/ CancelOK',
           (disp' = disp /\ ref' = ref) \/ DispatchOK'
    PROVE  IInv'
BY OthersKeep DEF Sound, IInv

(* The row only gets something read, or nothing at all.                    *)
LEMMA Reads ==
    ASSUME IInv, UNCHANGED rowVars, UNCHANGED podVars
    PROVE  Sound /\ ref' = ref
BY RowStands DEF rowVars

LEMMA DispatchIdle == ASSUME disp' = Idle PROVE DispatchOK'
BY DEF DispatchOK, Idle

LEMMA CreateSound ==
    ASSUME IInv, NEW p \in Pods, CreatePod(p)
    PROVE  Sound /\ ref' = ref /\ ((disp' = disp) \/ DispatchOK')
<1>1. /\ disp.pc = "place" /\ pod[p] = "free" /\ pod' = [pod EXCEPT ![p] = "up"]
      /\ name' = [name EXCEPT ![p] = disp.n] /\ age' = age
      /\ holds' = (IF cur = disp.n /\ status \in Open /\ state[cur] \in Active
                     THEN holds \cup {p} ELSE holds)
      /\ UNCHANGED <<status, cur, over, final, state, ref, late>>
      /\ (disp' = [pc |-> "attach", n |-> disp.n, pod |-> p]) \/ disp' = disp
  BY DEF CreatePod
<1>2. disp.n \in Attempts
  BY <1>1 DEF IInv, DispatchOK
<1>3. /\ pod' \in [Pods -> {"free", "up", "gone"}] /\ pod'[p] = "up"
      /\ \A q \in Pods \ {p} : pod'[q] = pod[q]
  BY <1>1 DEF IInv, Typed
<1>4. Typed'
  <2>1. name' \in [Pods -> 0..MaxAttempt]
    BY <1>1, <1>2, Params DEF IInv, Typed, Attempts
  <2>2. holds' \subseteq Pods
    BY <1>1 DEF IInv, Typed
  <2> QED
    BY <1>1, <1>3, <2>1, <2>2 DEF IInv, Typed
<1>5. Ordered'
  <2>1. holds' # {} => cur > 0
    BY <1>1, <1>2, Params DEF IInv, Ordered
  <2>2. \A a \in Attempts : ref[a] # None => pod'[ref[a]] # "free"
    BY <1>3 DEF IInv, Typed, Ordered
  <2> QED
    BY <1>1, <2>1, <2>2 DEF IInv, Ordered
<1>6. Forward /\ Frozen
  <2>1. \A q \in Pods : age[q] <= age'[q]
    BY <1>1 DEF IInv, Typed
  <2> QED
    BY <1>1, <1>3, <2>1 DEF Forward, Frozen, Done
<1>7. CASE disp' = [pc |-> "attach", n |-> disp.n, pod |-> p]
  <2>1. \A a \in Attempts : ref'[a] # p
    BY <1>1, Params DEF IInv, Ordered
  <2> QED
    BY <1>1, <1>2, <1>3, <1>4, <1>5, <1>6, <1>7, <2>1 DEF DispatchOK, Sound
<1> QED
  BY <1>1, <1>4, <1>5, <1>6, <1>7 DEF Sound

LEMMA DispatcherKeeps ==
    ASSUME IInv, Dispatcher
    PROVE  IInv'
<1>1. ASSUME DispatchRead PROVE IInv'
  <2>1. Sound /\ ref' = ref /\ UNCHANGED <<sweep, reaper, cancel>>
    BY <1>1, Reads DEF DispatchRead
  <2>2. cur \in 0..MaxAttempt /\ cur \in Nat /\ (cur > 0 => cur \in Attempts)
    BY DEF IInv, Typed, Attempts
  <2>3. CASE final /\ cur > 0
    <3>1. disp' = [pc |-> "finish", n |-> cur]
      BY <1>1, <2>3 DEF DispatchRead
    <3>2. DispatchOK'
      BY <2>2, <2>3, <3>1, <2>1 DEF DispatchOK, DispatchRead, rowVars
    <3> QED
      BY <2>1, <3>2, StepKeeps
  <2>4. CASE ~final /\ (over \/ cur = MaxAttempt)
    <3>1. disp' = [pc |-> "giveup", n |-> cur]
      BY <1>1, <2>4 DEF DispatchRead
    <3>2. DispatchOK'
      BY <2>2, <3>1 DEF DispatchOK
    <3> QED
      BY <2>1, <3>2, StepKeeps
  <2>5. CASE ~(final /\ cur > 0) /\ ~(~final /\ (over \/ cur = MaxAttempt))
    <3>1. disp' = [pc |-> "claim", n |-> cur]
      BY <1>1, <2>5 DEF DispatchRead
    <3>2. cur + 1 \in Attempts
      BY <2>2, <2>5, Params DEF Attempts
    <3>3. DispatchOK'
      BY <2>2, <3>1, <3>2 DEF DispatchOK
    <3> QED
      BY <2>1, <3>3, StepKeeps
  <2> QED
    BY <2>3, <2>4, <2>5
<1>2. ASSUME DispatchFinishes PROVE IInv'
  <2>1. UNCHANGED podVars /\ UNCHANGED <<sweep, reaper, cancel>> /\ disp' = Idle
    BY <1>2 DEF DispatchFinishes
  <2>2. CASE disp.pc = "finish" /\ Endable(disp.n) /\ EndAttempt(disp.n)
    <3>1. disp.n \in Attempts
      BY <2>2 DEF IInv, DispatchOK
    <3> QED
      BY <2>1, <2>2, <3>1, EndSound, DispatchIdle, StepKeeps
  <2>3. CASE disp.pc = "finish" /\ UNCHANGED rowVars
    BY <2>1, <2>3, RowStands, DispatchIdle, StepKeeps
  <2>4. CASE disp.pc = "giveup" /\ CapAttempt(disp.n)
    <3>1. disp.n \in 0..MaxAttempt
      BY <2>4 DEF IInv, DispatchOK
    <3> QED
      BY <2>1, <2>4, <3>1, CapSound, DispatchIdle, StepKeeps
  <2> QED
    BY <1>2, <2>2, <2>3, <2>4 DEF DispatchFinishes, OrConflict
<1>3. ASSUME MarkUnplaced PROVE IInv'
  BY <1>3, Reads, DispatchIdle, StepKeeps DEF MarkUnplaced
<1>4. ASSUME DispatchClaim PROVE IInv'
  <2>1. UNCHANGED podVars /\ UNCHANGED <<sweep, reaper, cancel>> /\ disp.pc = "claim"
    BY <1>4 DEF DispatchClaim
  <2>2. disp.n \in Nat /\ disp.n + 1 \in Attempts
    BY <2>1 DEF IInv, DispatchOK
  <2>3. CASE Claimable(disp.n)
    <3>1. Claim(disp.n) /\ disp' = [pc |-> "place", n |-> disp.n + 1]
      BY <1>4, <2>3 DEF DispatchClaim, OrConflict
    <3>2. DispatchOK'
      BY <2>2, <3>1 DEF DispatchOK
    <3> QED
      BY <2>1, <2>2, <2>3, <3>1, <3>2, ClaimSound, StepKeeps
  <2>4. CASE ~Claimable(disp.n)
    <3>1. UNCHANGED rowVars /\ disp' = Idle
      BY <1>4, <2>4 DEF DispatchClaim, OrConflict
    <3> QED
      BY <2>1, <3>1, RowStands, DispatchIdle, StepKeeps
  <2> QED
    BY <2>3, <2>4
<1>5. ASSUME NothingPlaced PROVE IInv'
  <2>1. disp.pc = "place" /\ disp' = [disp EXCEPT !.pc = "release"]
        /\ UNCHANGED <<sweep, reaper, cancel>>
    BY <1>5 DEF NothingPlaced
  <2>2. disp = [pc |-> disp.pc, n |-> disp.n] /\ disp.n \in Attempts
    BY <2>1 DEF IInv, DispatchOK
  <2>3. disp' = [pc |-> "release", n |-> disp.n]
    BY <2>1, <2>2
  <2>4. DispatchOK'
    BY <2>2, <2>3 DEF DispatchOK
  <2> QED
    BY <1>5, <2>1, <2>4, Reads, StepKeeps DEF NothingPlaced
<1>6. ASSUME NEW p \in Pods, CreatePod(p) PROVE IInv'
  <2>1. UNCHANGED <<sweep, reaper, cancel>>
    BY <1>6 DEF CreatePod
  <2> QED
    BY <1>6, <2>1, CreateSound, StepKeeps
<1>7. ASSUME disp.pc \in {"attach", "delete", "guard", "requeue"}, NEW c \in {"delete", "guard", "requeue"},
             disp' = [disp EXCEPT !.pc = c]
      PROVE  DispatchOK'
  <2>1. disp = [pc |-> disp.pc, n |-> disp.n, pod |-> disp.pod] /\ disp.pod \in Pods /\ disp.n \in Attempts
    BY <1>7 DEF IInv, DispatchOK
  <2>2. disp' = [pc |-> c, n |-> disp.n, pod |-> disp.pod]
    BY <1>7, <2>1
  <2> QED
    BY <2>1, <2>2 DEF DispatchOK
<1>8. ASSUME AttachPod PROVE IInv'
  <2>1. UNCHANGED podVars /\ UNCHANGED <<sweep, reaper, cancel>> /\ disp.pc = "attach"
    BY <1>8 DEF AttachPod
  <2>2. Sound
    <3>1. CASE Attachable(disp.n) /\ Attach(disp.n, disp.pod)
      BY <2>1, <3>1, AttachSound
    <3>2. CASE UNCHANGED rowVars
      BY <2>1, <3>2, RowStands
    <3> QED
      BY <1>8, <3>1, <3>2 DEF AttachPod, OrConflict
  <2>3. DispatchOK'
    <3>1. disp' = Idle \/ \E c \in {"delete", "guard", "requeue"} : disp' = [disp EXCEPT !.pc = c]
      BY <1>8 DEF AttachPod
    <3> QED
      BY <2>1, <3>1, <1>7, DispatchIdle
  <2> QED
    BY <2>1, <2>2, <2>3, StepKeeps
<1>9. ASSUME AttachUnanswered PROVE IInv'
  BY <1>9, <1>7, Reads, StepKeeps DEF AttachUnanswered
<1>10. ASSUME DispatchDeletes PROVE IInv'
  <2>1. disp.pod \in Pods /\ UNCHANGED <<sweep, reaper, cancel>>
    BY <1>10 DEF DispatchDeletes, IInv, DispatchOK
  <2>2. Sound
    BY <1>10, <2>1, DeleteSound DEF DispatchDeletes
  <2>3. DispatchOK'
    BY <1>10, <1>7, DispatchIdle DEF DispatchDeletes
  <2> QED
    BY <2>1, <2>2, <2>3, StepKeeps
<1>11. ASSUME GuardRequeues PROVE IInv'
  <2>1. disp.n \in Attempts /\ disp' = Idle /\ UNCHANGED podVars /\ UNCHANGED <<sweep, reaper, cancel>>
    BY <1>11 DEF GuardRequeues, IInv, DispatchOK
  <2>2. Sound
    BY <1>11, <2>1, RequeueSound, RowStands DEF GuardRequeues, OrConflict
  <2> QED
    BY <2>1, <2>2, DispatchIdle, StepKeeps
<1>12. ASSUME DispatchReleases PROVE IInv'
  <2>1. disp.n \in Attempts /\ disp' = Idle /\ UNCHANGED podVars /\ UNCHANGED <<sweep, reaper, cancel>>
    BY <1>12 DEF DispatchReleases, IInv, DispatchOK
  <2>2. Sound
    BY <1>12, <2>1, ReleaseSound, RowStands DEF DispatchReleases, OrConflict
  <2> QED
    BY <2>1, <2>2, DispatchIdle, StepKeeps
<1> QED
  BY <1>1, <1>2, <1>3, <1>4, <1>5, <1>6, <1>8, <1>9, <1>10, <1>11, <1>12 DEF Dispatcher

LEMMA SweepIdle == ASSUME sweep' = Idle PROVE SweepOK'
BY DEF SweepOK, Idle

(* Done, after the step, of an attempt read before it.                     *)
DoneNext(a) == status' \notin Open \/ state'[a] \in {"lost", "ended"}

(* The pod of a reading is lost once the attempt is done.                  *)
LEMMA SweepMoves ==
    ASSUME IInv, sweep.pc \notin {"idle", "terminate"}, ref' = ref
    PROVE  /\ \A c \in {"cap", "requeue"} : sweep' = [sweep EXCEPT !.pc = c] => SweepOK'
           /\ Terminates /\ (sweep.ref # None => DoneNext(sweep.n)) => SweepOK'
<1>1. /\ sweep = [pc |-> sweep.pc, n |-> sweep.n, ref |-> sweep.ref] /\ sweep.n \in Attempts
      /\ sweep.ref # None => ref[sweep.n] = sweep.ref
      /\ sweep.ref \in Pods \cup {None}
  BY DEF IInv, SweepOK
<1>2. ASSUME NEW c \in {"cap", "requeue"}, sweep' = [sweep EXCEPT !.pc = c] PROVE SweepOK'
  <2>1. sweep' = [pc |-> c, n |-> sweep.n, ref |-> sweep.ref]
    BY <1>1, <1>2
  <2> QED
    BY <1>1, <2>1 DEF SweepOK
<1>3. ASSUME Terminates, sweep.ref # None => DoneNext(sweep.n) PROVE SweepOK'
  <2>1. sweep' = [pc |-> "terminate", ref |-> sweep.ref]
    BY <1>3 DEF Terminates
  <2> QED
    BY <1>1, <1>3, <2>1 DEF SweepOK, Done, DoneNext
<1> QED
  BY <1>2, <1>3

LEMMA SweepKeeps ==
    ASSUME IInv, Sweep
    PROVE  IInv'
<1>1. ASSUME SweepRead PROVE IInv'
  <2>1. /\ cur \in Attempts /\ Verdict # "pass"
        /\ sweep' = [pc |-> Verdict, n |-> cur, ref |-> ref[cur]]
        /\ UNCHANGED <<disp, reaper, cancel>>
    BY <1>1 DEF SweepRead, IInv, Typed, Attempts
  <2>2. Sound /\ ref' = ref
    BY <1>1, Reads DEF SweepRead
  <2>3. Verdict \in {"release", "final", "stop", "quiet", "look"}
    BY <2>1 DEF Verdict
  <2>4. ref[cur] \in Pods \cup {None}
    BY <2>1 DEF IInv, Typed
  <2>5. SweepOK'
    BY <2>1, <2>2, <2>3, <2>4 DEF SweepOK
  <2> QED
    BY <2>1, <2>2, <2>5, StepKeeps
<1>2. ASSUME SweepFinal PROVE IInv'
  <2>1. /\ sweep.pc = "final" /\ sweep.n \in Attempts /\ UNCHANGED podVars
        /\ UNCHANGED <<disp, reaper, cancel>>
    BY <1>2 DEF SweepFinal, IInv, SweepOK
  <2>2. CASE Endable(sweep.n)
    <3>1. EndAttempt(sweep.n) /\ Terminates
      BY <1>2, <2>2 DEF SweepFinal, OrConflict
    <3>2. Sound /\ ref' = ref /\ DoneNext(sweep.n)
      BY <2>1, <2>2, <3>1, EndSound DEF EndAttempt, DoneNext
    <3>3. SweepOK'
      BY <2>1, <3>1, <3>2, SweepMoves
    <3> QED
      BY <2>1, <3>2, <3>3, StepKeeps
  <2>3. CASE ~Endable(sweep.n)
    <3>1. UNCHANGED rowVars /\ sweep' = Idle
      BY <1>2, <2>3 DEF SweepFinal, OrConflict
    <3> QED
      BY <2>1, <3>1, Reads, SweepIdle, StepKeeps
  <2> QED
    BY <2>2, <2>3
<1>3. ASSUME sweep.pc \in {"stop", "quiet", "look", "terminate"},
             Deleted(sweep.ref) \/ DeleteFails(sweep.ref), UNCHANGED rowButHolds
      PROVE  Sound /\ ref' = ref
  <2>1. sweep.ref \in Pods \cup {None}
    BY <1>3 DEF IInv, SweepOK
  <2> QED
    BY <1>3, <2>1, DeleteSound
<1>4. ASSUME SweepStops PROVE IInv'
  BY <1>3, <1>4, SweepMoves, StepKeeps DEF SweepStops
<1>5. ASSUME SweepCaps PROVE IInv'
  <2>1. sweep.n \in 0..MaxAttempt
    BY <1>5 DEF SweepCaps, IInv, SweepOK, Attempts
  <2>2. Sound
    BY <1>5, <2>1, CapSound DEF SweepCaps
  <2>3. ref' = ref
    BY <1>5 DEF SweepCaps, CapAttempt, OrConflict, Closes, EndAttempt, rowVars
  <2> QED
    BY <1>5, <2>2, <2>3, SweepIdle, StepKeeps DEF SweepCaps
<1>6. ASSUME SweepReleases PROVE IInv'
  <2>1. sweep.n \in Attempts
    BY <1>6 DEF SweepReleases, IInv, SweepOK
  <2>2. Sound
    BY <1>6, <2>1, ReleaseSound, RowStands DEF SweepReleases, OrConflict
  <2>3. ref' = ref
    BY <1>6 DEF SweepReleases, OrConflict, Release, rowVars
  <2> QED
    BY <1>6, <2>2, <2>3, SweepIdle, StepKeeps DEF SweepReleases
<1>7. ASSUME UNCHANGED podVars, OrConflict(Requeueable(sweep.n), Requeue(sweep.n)),
             sweep.pc \in {"quiet", "look", "requeue"}
      PROVE  Sound /\ ref' = ref /\ (sweep.ref # None => DoneNext(sweep.n))
  <2>1. sweep.n \in Attempts /\ (sweep.ref # None => ref[sweep.n] = sweep.ref)
    BY <1>7 DEF IInv, SweepOK
  <2>2. CASE Requeueable(sweep.n)
    BY <1>7, <2>1, <2>2, RequeueSound DEF OrConflict, Requeue, DoneNext
  <2>3. CASE ~Requeueable(sweep.n)
    <3>1. UNCHANGED rowVars
      BY <1>7, <2>3 DEF OrConflict
    <3>2. Sound /\ ref' = ref
      BY <1>7, <3>1, Reads
    <3>3. ASSUME sweep.ref # None PROVE Done(sweep.n)
      <4>1. sweep.n <= cur
        BY <2>1, <3>3, Params DEF IInv, Typed, Ordered
      <4>2. CASE sweep.n < cur
        BY <2>1, <4>2 DEF IInv, Ordered, Done
      <4>3. CASE sweep.n = cur
        BY <2>1, <2>3, <4>3, Params DEF IInv, Typed, Ordered, Done, Requeueable
      <4> QED
        BY <2>1, <4>1, <4>2, <4>3, Params DEF IInv, Typed
    <3> QED
      BY <3>1, <3>2, <3>3 DEF Done, DoneNext, rowVars
  <2> QED
    BY <2>2, <2>3
<1>8. ASSUME SweepLoses PROVE IInv'
  <2>1. Sound /\ ref' = ref /\ (sweep.ref # None => DoneNext(sweep.n))
    BY <1>7, <1>8 DEF SweepLoses
  <2>2. SweepOK'
    BY <1>8, <2>1, SweepMoves DEF SweepLoses
  <2> QED
    BY <1>8, <2>1, <2>2, StepKeeps DEF SweepLoses
<1>9. ASSUME SweepGuards PROVE IInv'
  BY <1>3, <1>9, SweepMoves, StepKeeps DEF SweepGuards
<1>10. ASSUME SweepRequeues PROVE IInv'
  BY <1>7, <1>10, SweepIdle, StepKeeps DEF SweepRequeues
<1>11. ASSUME SweepPasses PROVE IInv'
  BY <1>11, Reads, SweepIdle, StepKeeps DEF SweepPasses
<1>12. ASSUME SweepTerminates PROVE IInv'
  BY <1>3, <1>12, SweepIdle, StepKeeps DEF SweepTerminates
<1> QED
  BY <1>1, <1>2, <1>4, <1>5, <1>6, <1>8, <1>9, <1>10, <1>11, <1>12 DEF Sweep

LEMMA ReaperIdle == ASSUME reaper' = Idle PROVE ReaperOK'
BY DEF ReaperOK, Idle

(* An attempt with a pod is the current one or it is lost.                 *)
LEMMA HasPod ==
    ASSUME IInv, NEW a \in Attempts, ref[a] # None
    PROVE  \/ a = cur /\ state[a] \in {"starting", "running", "lost", "ended"}
           \/ state[a] = "lost"
<1>1. a <= cur /\ cur \in Nat
  BY Params DEF IInv, Typed, Ordered
<1>2. CASE a < cur
  BY <1>2 DEF IInv, Ordered
<1>3. CASE a = cur
  BY <1>3, Params DEF IInv, Typed, Ordered, Active
<1> QED
  BY <1>1, <1>2, <1>3, Params

LEMMA ReaperKeeps ==
    ASSUME IInv, Reaper
    PROVE  IInv'
<1>1. ASSUME ReaperLists PROVE IInv'
  <2>1. reaper' = [pc |-> "refs", ages |-> [p \in {q \in Pods : pod[q] = "up"} |-> age[p]]]
        /\ UNCHANGED podVars /\ UNCHANGED <<disp, sweep, cancel>>
    BY <1>1 DEF ReaperLists
  <2>2. Sound /\ ref' = ref
    BY <1>1, Reads DEF ReaperLists
  <2>3. \A p \in Pods : age[p] \in 0..2 /\ age[p] <= age[p]
    BY DEF IInv, Typed
  <2>4. ReaperOK'
    BY <2>1, <2>3 DEF ReaperOK, podVars
  <2> QED
    BY <2>1, <2>2, <2>4, StepKeeps
<1>2. ASSUME ReaperReadsRefs PROVE IInv'
  <2>1. /\ reaper.pc = "refs" /\ UNCHANGED rowVars /\ UNCHANGED podVars
        /\ UNCHANGED <<disp, sweep, cancel>>
    BY <1>2 DEF ReaperReadsRefs
  <2>2. reaper' = [pc |-> "rows", ages |-> reaper.ages, refs |-> {ref[a] : a \in Attempts} \ {None}]
    BY <1>2 DEF ReaperReadsRefs
  <2>3. Sound /\ ref' = ref
    BY <2>1, Reads
  <2>4. \A p \in reaper'.refs : p \in Pods /\ \E a \in Attempts : ref[a] = p
    BY <2>2 DEF IInv, Typed
  <2>5. \A p \in DOMAIN reaper.ages : /\ p \in Pods /\ reaper.ages[p] \in 0..2
                                      /\ pod[p] # "gone" => reaper.ages[p] <= age[p]
    BY <2>1 DEF IInv, ReaperOK
  <2>6. ReaperOK'
    BY <2>1, <2>2, <2>3, <2>4, <2>5 DEF ReaperOK, podVars
  <2> QED
    BY <2>1, <2>3, <2>6, StepKeeps
<1>3. ASSUME ReaperReadsRows PROVE IInv'
  <2>1. /\ reaper.pc = "rows" /\ UNCHANGED rowVars /\ UNCHANGED podVars
        /\ UNCHANGED <<disp, sweep, cancel>>
    BY <1>3 DEF ReaperReadsRows
  <2>2. reaper' = [pc |-> "attempts", ages |-> reaper.ages, refs |-> reaper.refs,
                   active |-> IF status \in Open THEN cur ELSE 0]
    BY <1>3 DEF ReaperReadsRows
  <2>3. Sound /\ ref' = ref
    BY <2>1, Reads
  <2>4. \A p \in reaper.refs : p \in Pods /\ \E a \in Attempts : ref[a] = p
    BY <2>1 DEF IInv, ReaperOK
  <2>5. \A p \in DOMAIN reaper.ages : /\ p \in Pods /\ reaper.ages[p] \in 0..2
                                      /\ pod[p] # "gone" => reaper.ages[p] <= age[p]
    BY <2>1 DEF IInv, ReaperOK
  <2>6. ASSUME NEW a \in Attempts, ref[a] \in reaper.refs
        PROVE  reaper'.active = a \/ Done(a)
    <3>1. ref[a] # None
      BY <2>4, <2>6, Params
    <3> QED
      BY <2>2, <3>1, HasPod DEF Done
  <2>7. \A a \in Attempts : Done(a)' = Done(a)
    BY <2>1 DEF Done, rowVars
  <2>8. ReaperOK'
    BY <2>1, <2>2, <2>3, <2>4, <2>5, <2>6, <2>7 DEF ReaperOK, podVars
  <2> QED
    BY <2>1, <2>3, <2>8, StepKeeps
<1>4. ASSUME ReaperJudges PROVE IInv'
  <2>1. /\ reaper.pc = "attempts" /\ UNCHANGED rowVars /\ UNCHANGED podVars
        /\ UNCHANGED <<disp, sweep, cancel>>
    BY <1>4 DEF ReaperJudges
  <2> DEFINE doomed == {p \in DOMAIN reaper.ages : Ours(p) /\ ~Keeps(p)}
  <2>2. reaper' = IF doomed = {} THEN Idle ELSE [pc |-> "delete", doomed |-> doomed, refs |-> reaper.refs]
    BY <1>4 DEF ReaperJudges
  <2>3. Sound /\ ref' = ref
    BY <2>1, Reads
  <2>4. /\ \A p \in reaper.refs : p \in Pods /\ \E a \in Attempts : ref[a] = p
        /\ \A p \in DOMAIN reaper.ages : /\ p \in Pods /\ reaper.ages[p] \in 0..2
                                         /\ pod[p] # "gone" => reaper.ages[p] <= age[p]
        /\ \A a \in Attempts : ref[a] \in reaper.refs => reaper.active = a \/ Done(a)
    BY <2>1 DEF IInv, ReaperOK
  <2>5. ASSUME NEW a \in Attempts, ref[a] \in doomed, ref[a] \in reaper.refs
        PROVE  Done(a) \/ pod[ref[a]] = "gone" \/ age[ref[a]] = 2
    <3>1. ref[a] # None /\ ref[a] \in Pods /\ ref[a] \in DOMAIN reaper.ages /\ ~Keeps(ref[a])
      BY <2>4, <2>5, Params
    <3>2. Done(a) \/ (reaper.active = a /\ state[a] \in {"starting", "running"})
      BY <2>4, <2>5, <3>1, HasPod DEF Done
    <3>3. ASSUME reaper.active = a, state[a] \in {"starting", "running"}, pod[ref[a]] # "gone"
          PROVE  age[ref[a]] = 2
      <4>1. ~(reaper.ages[ref[a]] < 2)
        BY <2>5, <3>1, <3>3, Params DEF Keeps
      <4>2. /\ reaper.ages[ref[a]] \in 0..2 /\ reaper.ages[ref[a]] <= age[ref[a]]
            /\ age[ref[a]] \in 0..2
        BY <2>4, <3>1, <3>3 DEF IInv, Typed
      <4> QED
        BY <4>1, <4>2
    <3> QED
      BY <3>2, <3>3
  <2>6. doomed \subseteq Pods
    BY <2>4
  <2>7. \A a \in Attempts : Done(a)' = Done(a)
    BY <2>1 DEF Done, rowVars
  <2> HIDE DEF doomed
  <2>8. ASSUME reaper' = [pc |-> "delete", doomed |-> doomed, refs |-> reaper.refs] PROVE ReaperOK'
    BY <2>1, <2>3, <2>4, <2>5, <2>6, <2>7, <2>8 DEF ReaperOK, podVars
  <2>9. ReaperOK'
    BY <2>2, <2>8, ReaperIdle
  <2> QED
    BY <2>1, <2>3, <2>9, StepKeeps
<1>5. ASSUME NEW p \in Pods, ReaperDeletes(p) PROVE IInv'
  <2>1. /\ reaper.pc = "delete" /\ p \in reaper.doomed /\ UNCHANGED <<disp, sweep, cancel>>
        /\ UNCHANGED rowButHolds /\ (Deleted(p) \/ DeleteFails(p))
    BY <1>5 DEF ReaperDeletes
  <2>2. Sound /\ ref' = ref
    BY <2>1, DeleteSound
  <2>3. reaper = [pc |-> "delete", doomed |-> reaper.doomed, refs |-> reaper.refs]
        /\ reaper.doomed \subseteq Pods
    BY <2>1 DEF IInv, ReaperOK
  <2>4. reaper' = Idle \/ reaper' = [reaper EXCEPT !.doomed = @ \ {p}]
    BY <1>5 DEF ReaperDeletes
  <2>5. ASSUME reaper' = [reaper EXCEPT !.doomed = @ \ {p}] PROVE ReaperOK'
    <3>1. reaper' = [pc |-> "delete", doomed |-> reaper.doomed \ {p}, refs |-> reaper.refs]
      BY <2>3, <2>5
    <3>2. \A q \in reaper.refs : q \in Pods /\ \E a \in Attempts : ref[a] = q
      BY <2>1 DEF IInv, ReaperOK
    <3>3. ASSUME NEW a \in Attempts, ref[a] \in reaper.doomed, ref[a] \in reaper.refs
          PROVE  Done(a)' \/ pod'[ref[a]] = "gone" \/ age'[ref[a]] = 2
      <4>1. Done(a) \/ pod[ref[a]] = "gone" \/ age[ref[a]] = 2
        BY <2>1, <3>3 DEF IInv, ReaperOK
      <4>2. ref[a] \in Pods /\ ref[a] # None
        BY <2>3, <3>3, Params
      <4>3. pod'[ref[a]] # "gone" /\ age[ref[a]] = 2 => age'[ref[a]] = 2
        BY <2>2, <4>2 DEF Sound, Forward, Typed
      <4> QED
        BY <2>2, <4>1, <4>2, <4>3 DEF Sound, Forward
    <3> QED
      BY <2>2, <2>3, <3>1, <3>2, <3>3 DEF ReaperOK
  <2> QED
    BY <2>1, <2>2, <2>4, <2>5, ReaperIdle, StepKeeps
<1> QED
  BY <1>1, <1>2, <1>3, <1>4, <1>5 DEF Reaper

LEMMA CancelIdle == ASSUME cancel' = Idle PROVE CancelOK'
BY DEF CancelOK, Idle

LEMMA CancelerKeeps ==
    ASSUME IInv, Canceler
    PROVE  IInv'
<1>1. ASSUME CancelStops PROVE IInv'
  <2>1. /\ cancel.pc = "stop" /\ status = "cancel_requested" /\ cancel.ref \in Pods \cup {None}
        /\ \A p \in Pods : RunsOn(p) => cancel.ref = p
        /\ UNCHANGED rowButHolds /\ UNCHANGED <<disp, sweep, reaper>>
        /\ (Deleted(cancel.ref) \/ DeleteFails(cancel.ref))
    BY <1>1 DEF CancelStops, IInv, CancelOK
  <2>2. Sound /\ ref' = ref /\ (Deleted(cancel.ref) /\ cancel.ref # None => pod'[cancel.ref] = "gone")
    BY <2>1, DeleteSound
  <2>3. CASE Deleted(cancel.ref) /\ cancel' = [pc |-> "canceled"]
    <3>1. \A p \in Pods : RunsOn(p)' = RunsOn(p)
      BY <2>1 DEF RunsOn, rowButHolds
    <3>2. \A p \in Pods : RunsOn(p) => pod'[p] = "gone"
      BY <2>1, <2>2, <2>3, Params
    <3>3. CancelOK'
      BY <2>1, <2>3, <3>1, <3>2 DEF CancelOK, rowButHolds
    <3> QED
      BY <2>1, <2>2, <3>3, StepKeeps
  <2>4. CASE cancel' \in {[pc |-> "failed"], Idle}
    <3>1. CancelOK'
      BY <2>1, <2>4 DEF CancelOK, Idle, rowButHolds
    <3> QED
      BY <2>1, <2>2, <3>1, StepKeeps
  <2> QED
    BY <1>1, <2>3, <2>4 DEF CancelStops
<1>2. ASSUME CancelCompletes PROVE IInv'
  <2>1. /\ cancel.pc \in {"canceled", "failed"} /\ status = "cancel_requested"
        /\ UNCHANGED podVars /\ cancel' = Idle /\ UNCHANGED <<disp, sweep, reaper>>
        /\ Closes(cancel.pc)
    BY <1>2 DEF CancelCompletes, OrConflict, IInv, CancelOK
  <2>2. /\ Typed' /\ Ordered' /\ Forward
        /\ cur' = cur /\ ref' = ref /\ status' = cancel.pc
        /\ cur > 0 /\ state'[cur] = "ended" => state[cur] \in Active \cup {"ended"}
    BY <2>1, CloseKeeps DEF Terminal
  <2>3. SweepOK' /\ ReaperOK' /\ DispatchOK'
    BY <2>1, <2>2, OthersKeep
  <2>4. ASSUME status' = "canceled", cur > 0, state'[cur] = "ended", ref[cur] # None
        PROVE  pod[ref[cur]] = "gone"
    <3>1. cur \in Attempts /\ ref[cur] \in Pods
      BY <2>4 DEF IInv, Typed, Attempts
    <3>2. state[cur] \in {"starting", "running"}
      BY <2>1, <2>2, <2>4, <3>1, HasPod DEF IInv, Ordered, Active
    <3>3. RunsOn(ref[cur])
      BY <2>4, <3>2 DEF RunsOn
    <3> QED
      BY <2>1, <2>2, <2>4, <3>1, <3>3 DEF IInv, CancelOK
  <2>5. CanceledIsStopped'
    BY <2>1, <2>2, <2>4 DEF CanceledIsStopped, podVars
  <2> QED
    BY <2>1, <2>2, <2>3, <2>5, CancelIdle DEF IInv
<1>3. ASSUME CancelRequest PROVE IInv'
  <2>1. /\ status \in Open \cup {"cancel_requested"} /\ ~Publishing /\ status' = "cancel_requested"
        /\ UNCHANGED <<cur, over, final, state, ref, late, holds>> /\ UNCHANGED podVars
        /\ UNCHANGED <<disp, sweep, reaper>>
        /\ cancel' = [pc |-> "stop",
                      ref |-> IF cur > 0 /\ state[cur] \in {"starting", "running"} THEN ref[cur] ELSE None]
    BY <1>3 DEF CancelRequest
  <2>2. Typed' /\ Forward /\ Frozen
    BY <2>1 DEF IInv, Typed, Forward, Frozen, Done, podVars, Open
  <2>3. Ordered'
    <3>1. cur > 0 => state[cur] # "ended"
      BY <2>1 DEF IInv, Ordered, Publishing, Open
    <3> QED
      BY <2>1, <3>1 DEF IInv, Ordered, podVars
  <2>4. CancelOK'
    <3>1. cur > 0 => ref[cur] \in Pods \cup {None}
      BY DEF IInv, Typed, Attempts
    <3> QED
      BY <2>1, <3>1 DEF CancelOK, RunsOn
  <2> QED
    BY <2>1, <2>2, <2>3, <2>4, StepKeeps DEF Sound
<1> QED
  BY <1>1, <1>2, <1>3 DEF Canceler

(* The worker, the publish, RunPod and the clocks.                         *)
LEMMA OutsideKeeps ==
    ASSUME IInv, UNCHANGED tasks,
           \/ Clocks
           \/ \E p \in Pods : Heartbeat(p) \/ PodDies(p) \/ PodAges(p)
           \/ FinalReady \/ WorkerFinishes \/ PublishEnds
    PROVE  IInv'
<1> USE DEF tasks
<1>1. ASSUME Sound, ref' = ref PROVE IInv'
  BY <1>1, StepKeeps
<1>2. ASSUME Clocks \/ FinalReady PROVE Sound /\ ref' = ref
  <2>1. /\ UNCHANGED <<status, cur, state, ref, holds>> /\ UNCHANGED podVars
        /\ over' \in BOOLEAN /\ final' \in BOOLEAN /\ late' \in BOOLEAN
    BY <1>2 DEF Clocks, LimitReached, Delay, FinalReady, IInv, Typed
  <2>2. Typed' /\ Ordered'
    BY <2>1 DEF IInv, Typed, Ordered, podVars
  <2>3. Forward /\ Frozen
    BY <2>1 DEF IInv, Typed, Forward, Frozen, Done, podVars
  <2> QED
    BY <2>1, <2>2, <2>3 DEF Sound
<1>3. ASSUME NEW p \in Pods, Heartbeat(p) PROVE Sound /\ ref' = ref
  <2>1. /\ p \in holds /\ status \in Open /\ state[cur] \in Active
        /\ status' = "running" /\ late' = FALSE /\ state' = [state EXCEPT ![cur] = "running"]
        /\ UNCHANGED <<cur, over, final, ref, holds>> /\ UNCHANGED podVars
    BY <1>3 DEF Heartbeat
  <2>2. cur > 0 /\ cur \in Attempts
    BY <2>1 DEF IInv, Typed, Ordered, Attempts
  <2>3. Typed'
    BY <2>1, <2>2 DEF IInv, Typed, podVars, Open, Active
  <2>4. Ordered'
    BY <2>1, <2>2, Params DEF IInv, Typed, Ordered, podVars
  <2>5. Forward /\ Frozen
    BY <2>1, <2>2 DEF IInv, Typed, Forward, Frozen, Done, podVars, Active
  <2> QED
    BY <2>1, <2>3, <2>4, <2>5 DEF Sound
<1>4. ASSUME NEW p \in Pods, PodDies(p) PROVE Sound /\ ref' = ref
  BY <1>4, DeleteSound, Params DEF PodDies, Deleted
<1>5. ASSUME NEW p \in Pods, PodAges(p) PROVE Sound /\ ref' = ref
  <2>1. /\ age[p] < 2 /\ age' = [age EXCEPT ![p] = @ + 1]
        /\ UNCHANGED rowVars /\ pod' = pod /\ name' = name
    BY <1>5 DEF PodAges, IInv, Typed
  <2>2. Typed' /\ \A q \in Pods : age[q] <= age'[q]
    BY <2>1 DEF IInv, Typed, rowVars
  <2>3. Ordered'
    BY <2>1 DEF IInv, Ordered, rowVars
  <2> QED
    BY <2>1, <2>2, <2>3 DEF Sound, Forward, Frozen, Done, rowVars
<1>6. ASSUME WorkerFinishes PROVE Sound /\ ref' = ref
  <2>1. /\ holds # {} /\ status \in Open /\ state[cur] = "running" /\ UNCHANGED podVars
        /\ (Requeue(cur) \/ Closes("failed"))
    BY <1>6 DEF WorkerFinishes
  <2>2. cur \in Attempts /\ Requeueable(cur)
    BY <2>1 DEF IInv, Typed, Ordered, Attempts, Requeueable, Active
  <2>3. Sound
    BY <2>1, <2>2, RequeueSound, CloseSound
  <2> QED
    BY <2>1, <2>3 DEF Requeue, Closes
<1>7. ASSUME PublishEnds PROVE Sound /\ ref' = ref
  <2>1. PICK end \in {"succeeded", "failed"} : Closes(end)
    BY <1>7 DEF PublishEnds
  <2>2. status \in Open /\ UNCHANGED podVars
    BY <1>7 DEF PublishEnds, Publishing, Open
  <2> QED
    BY <2>1, <2>2, CloseSound DEF Closes
<1> QED
  BY <1>1, <1>2, <1>3, <1>4, <1>5, <1>6, <1>7

-----------------------------------------------------------------------------
(* The invariant: what is left of every reading, in every reachable state. *)
THEOREM Invariant == Spec => []IInv
<1>1. Init => IInv
  <2> SUFFICES ASSUME Init PROVE IInv
    OBVIOUS
  <2>1. Typed
    <3>1. cur = 0 /\ \A p \in Pods : name[p] = 0 /\ age[p] = 0
      BY DEF Init
    <3>2. 0 \in 0..MaxAttempt /\ 0 \in 0..2
      BY Params
    <3> QED
      BY <3>1, <3>2 DEF Init, Typed, Open
  <2>2. Ordered
    BY Params DEF Init, Ordered
  <2>3. DispatchOK /\ SweepOK /\ ReaperOK /\ CancelOK /\ CanceledIsStopped
    BY DEF Init, Idle, DispatchOK, SweepOK, ReaperOK, CancelOK, CanceledIsStopped
  <2> QED
    BY <2>1, <2>2, <2>3 DEF IInv
<1>2. IInv /\ [Next]_vars => IInv'
  <2> SUFFICES ASSUME IInv, [Next]_vars PROVE IInv'
    OBVIOUS
  <2>1. CASE Dispatcher
    BY <2>1, DispatcherKeeps
  <2>2. CASE Sweep
    BY <2>2, SweepKeeps
  <2>3. CASE Reaper
    BY <2>3, ReaperKeeps
  <2>4. CASE Canceler
    BY <2>4, CancelerKeeps
  <2>5. CASE Clocks \/ (\E p \in Pods : Heartbeat(p) \/ PodDies(p) \/ PodAges(p))
             \/ FinalReady \/ WorkerFinishes \/ PublishEnds
    <3>1. UNCHANGED tasks
      BY <2>5 DEF Clocks, LimitReached, Delay, Heartbeat, PodDies, PodAges, FinalReady,
                  WorkerFinishes, PublishEnds
    <3> QED
      BY <2>5, <3>1, OutsideKeeps
  <2>6. CASE Restart
    <3>1. UNCHANGED rowVars /\ UNCHANGED podVars
          /\ disp' = Idle /\ sweep' = Idle /\ reaper' = Idle /\ cancel' = Idle
      BY <2>6 DEF Restart
    <3>2. DispatchOK' /\ SweepOK' /\ ReaperOK' /\ CancelOK'
      BY <3>1, DispatchIdle, SweepIdle, ReaperIdle, CancelIdle
    <3>3. Sound
      BY <3>1, RowStands
    <3> QED
      BY <3>2, <3>3, StepKeeps
  <2>7. CASE UNCHANGED vars
    <3>1. Sound /\ ref' = ref /\ UNCHANGED tasks
      BY <2>7, Reads DEF vars
    <3> QED
      BY <3>1, StepKeeps DEF tasks
  <2> QED
    BY <2>1, <2>2, <2>3, <2>4, <2>5, <2>6, <2>7 DEF Next
<1> QED
  BY <1>1, <1>2, PTL DEF Spec

(* Every variable keeps its type: the row of the database, RunPod's pods,  *)
(* the cancel tries and the restarts.                                      *)
THEOREM TypeCorrect == Spec => []TypeOK
<1> DEFINE Counted == tries \in 0..MaxCancel /\ crashes \in 0..MaxCrashes
<1>1. Init => Counted
  BY Params DEF Init
<1>2. Counted /\ [Next]_vars => Counted'
  <2> SUFFICES ASSUME Counted, [Next]_vars PROVE Counted'
    OBVIOUS
  <2>1. CASE UNCHANGED <<tries, crashes>>
    BY <2>1
  <2>2. CASE CancelRequest
    BY <2>2, Params DEF CancelRequest
  <2>3. CASE Restart
    BY <2>3, Params DEF Restart
  <2>4. CASE Dispatcher
    BY <2>1, <2>4 DEF Dispatcher, DispatchRead, DispatchFinishes, MarkUnplaced, DispatchClaim,
        NothingPlaced, CreatePod, AttachPod, AttachUnanswered, DispatchDeletes, GuardRequeues,
        DispatchReleases
  <2>5. CASE Sweep
    BY <2>1, <2>5 DEF Sweep, SweepRead, SweepFinal, SweepStops, SweepCaps, SweepReleases, SweepLoses,
        SweepGuards, SweepRequeues, SweepPasses, SweepTerminates
  <2>6. CASE Reaper
    BY <2>1, <2>6 DEF Reaper, ReaperLists, ReaperReadsRefs, ReaperReadsRows, ReaperJudges, ReaperDeletes
  <2>7. CASE Canceler
    BY <2>1, <2>2, <2>7 DEF Canceler, CancelStops, CancelCompletes
  <2>8. CASE Clocks \/ (\E p \in Pods : Heartbeat(p) \/ PodDies(p) \/ PodAges(p))
             \/ FinalReady \/ WorkerFinishes \/ PublishEnds
    BY <2>1, <2>8 DEF Clocks, LimitReached, Delay, Heartbeat, PodDies, PodAges, FinalReady,
        WorkerFinishes, PublishEnds
  <2> QED
    BY <2>1, <2>3, <2>4, <2>5, <2>6, <2>7, <2>8 DEF Next, vars
<1>3. IInv /\ Counted => TypeOK
  BY DEF IInv, Typed, TypeOK
<1> QED
  BY <1>1, <1>2, <1>3, Invariant, PTL DEF Spec

(* No loop takes the pod of a running attempt away: not the reaper, whose  *)
(* four readings are of four moments, and not the sweep, which terminates  *)
(* whatever its compare-and-set answered (reaper_tick, on_loss).           *)
THEOREM LiveSpared == Spec => []LivePodIsSpared
<1>1. IInv => LivePodIsSpared
  <2> SUFFICES ASSUME IInv PROVE LivePodIsSpared
    OBVIOUS
  <2>1. ASSUME NEW p, Live(p)
        PROVE  cur \in Attempts /\ ref[cur] = p /\ ~Done(cur) /\ pod[p] # "gone"
    BY <2>1 DEF Live, Done, IInv, Typed, Attempts
  <2>2. AttachedIsSpared
    <3> SUFFICES ASSUME reaper.pc = "delete", NEW p \in reaper.doomed \cap reaper.refs, Live(p)
                 PROVE  age[p] = 2
      BY DEF AttachedIsSpared
    <3> QED
      BY <2>1 DEF IInv, ReaperOK
  <2>3. TerminatesOnlyLost
    <3> SUFFICES ASSUME sweep.pc = "terminate", sweep.ref # None, Live(sweep.ref) PROVE FALSE
      BY DEF TerminatesOnlyLost
    <3>1. PICK a \in Attempts : ref[a] = sweep.ref /\ Done(a)
      BY DEF IInv, SweepOK
    <3>2. cur \in Attempts /\ ref[cur] = sweep.ref /\ ~Done(cur)
      BY DEF Live, Done, IInv, Typed, Attempts
    <3> QED
      BY <3>1, <3>2 DEF IInv, Ordered
  <2> QED
    BY <2>2, <2>3 DEF LivePodIsSpared
<1> QED
  BY <1>1, Invariant, PTL

(* A training is only "canceled" when the pod its last attempt ran on is   *)
(* gone, whatever attaches, deaths and restarts came between the request   *)
(* and its completion (_retry_one_managed, complete_cancel_training).      *)
THEOREM StoppedWhenCanceled == Spec => []CanceledIsStopped
<1>1. IInv => CanceledIsStopped
  BY DEF IInv
<1> QED
  BY <1>1, Invariant, PTL
=============================================================================
