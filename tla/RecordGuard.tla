---------------------------- MODULE RecordGuard -----------------------------
(***************************************************************************)
(* Recording a dataset under the teleoperation collision guard, on the     *)
(* robot's ROS node. Four threads share it: the sensor thread detects a    *)
(* trip and only latches it; the collision group performs the trip or runs *)
(* the watchdog, never both; the record group runs one tick of the         *)
(* recorder at a time; the default group runs the student's commands and   *)
(* the end of a recovery, one at a time. The recorder has a lock that the  *)
(* trip and an end never wait for: they leave a request, and whoever holds *)
(* the lock applies it when it lets go. One session and its recoveries.    *)
(***************************************************************************)
EXTENDS Integers

CONSTANTS
    Episodes,      \* num_episodes
    Frames,        \* frames of a whole take
    MaxRedos,      \* MAX_REDOS_PER_EPISODE
    MaxTrips,      \* bound: trips that are detected
    Fails,         \* whether a tick may meet an error
    Instant,       \* whether reset_time_s is 0
    Free           \* the owner of a lock that nobody holds

ASSUME RecordGuardAssumption ==
    /\ Episodes \in Nat \ {0} /\ Frames \in Nat \ {0}
    /\ MaxRedos \in Nat /\ MaxTrips \in Nat /\ Fails \in BOOLEAN /\ Instant \in BOOLEAN
    /\ Free \notin {"tick", "main", "guard"}

Threads == {"tick", "main", "guard"}   \* the record, the default and the collision group

VARIABLES
    rec,           \* the DataManager: see Fresh
    discardReq,    \* _collision_discard_requested
    endReq,        \* _end_requested: "none", "finish" or "stop"
    lock,          \* who holds the recorder lock
    on,            \* on_recording; the record timer runs as long
    tick,          \* the tick under way: whether its session generation is still the current
                   \* one, and what it publishes when it has let go of the lock
    active,        \* _collision_active
    pending,       \* _collision_trip_pending is set
    homed,         \* _collision_homed
    resync,        \* _collision_resync_timer: "none", "due", or its callback runs: "over"
    interrupted,   \* _collision_interrupted_recording
    ending,        \* _collision_end_recording
    flag,          \* the value last published on /collision_flag
    shown,         \* the phase last published on /task/status: "collision", "record", "ready"
    flagLock,      \* who holds _collision_flag_lock
    pc,            \* where each thread is
    trips,         \* trips detected so far
    crossed        \* a trip was performed inside a START or the release of a resync

recorderVars == <<rec, discardReq, endReq, lock>>
guardVars == <<active, pending, homed, resync, flagLock, trips, crossed>>
resumeVars == <<interrupted, ending>>
topicVars == <<flag, shown>>
vars == <<recorderVars, on, tick, guardVars, resumeVars, topicVars, pc>>

(***************************************************************************)
(* The DataManager. st: its _status. n: frames in the buffer. hot: a trip  *)
(* halted their take, or they came after it. saving: _on_saving. due: the  *)
(* count-pending flag that belongs to st (_save_, _finish_ or              *)
(* _stop_count_pending; each is read only while saving). drops:            *)
(* _finish_drops_run. done: _stop_save_completed. bad: a hot take was      *)
(* committed. over: the dataset is finalized.                              *)
(***************************************************************************)
NoSession == [st |-> "none", n |-> 0, hot |-> FALSE, saving |-> FALSE, due |-> FALSE,
              drops |-> FALSE, done |-> FALSE, redos |-> 0, count |-> 0, commits |-> 0,
              bad |-> FALSE, over |-> FALSE]
Fresh == [NoSession EXCEPT !.st = "warmup"]

EpisodeReset(r) == [r EXCEPT !.n = 0, !.hot = FALSE]
Rewound(r, st) ==
    [EpisodeReset(r) EXCEPT !.st = st, !.saving = FALSE, !.due = FALSE, !.done = FALSE]
Counted(r) == [r EXCEPT !.count = @ + 1]
Enough(r) == r.count >= Episodes

\* re_record: a save that has committed is counted first, and may have been the last.
ReRecord(r) ==
    IF r.st \in {"finish", "stop"} THEN r
    ELSE IF r.st = "save" /\ r.saving /\ r.due
    THEN Rewound(Counted(r), IF Enough(Counted(r)) THEN "finish" ELSE "reset")
    ELSE Rewound(r, "reset")

InFlight(r) == r.st = "run" \/ (r.st = "save" /\ ~r.saving)
\* mutant: a latched save's count is not handed over.
FinishForgetsSave(r, young) ==
    IF r.st \in {"finish", "stop"} THEN r
    ELSE [r EXCEPT !.st = "finish", !.drops = young /\ InFlight(r), !.due = FALSE]
\* record_finish: a run in flight is dropped when it is young, or follows a RERECORD.
Finish(r, young) ==
    IF r.st \in {"finish", "stop"} THEN r
    ELSE [r EXCEPT !.st = "finish", !.drops = young /\ InFlight(r),
                   !.due = r.st = "save" /\ r.saving /\ r.due]
\* record_stop
Stop(r) ==
    [r EXCEPT !.st = "stop", !.due = r.st \in {"save", "finish", "stop"} /\ r.saving /\ r.due]
\* record_early_save
EarlySave(r) ==
    IF r.st \in {"warmup", "reset"} THEN {[r EXCEPT !.st = "run"]}
    ELSE IF r.st = "run" /\ r.n > 0 THEN {r, [r EXCEPT !.st = "save"]} ELSE {r}

\* The requests that are waiting, the collision's first.
AfterDiscard(r, discard) == IF discard THEN ReRecord(r) ELSE r
AfterEnd(r, end, young) ==
    CASE end = "finish" -> Finish(r, young)
      [] end = "stop" -> Stop(r)
      [] OTHER -> r
\* mutant: the end first.
DrainedEndFirst(r, discard, end, young) == AfterDiscard(AfterEnd(r, end, young), discard)
Drained(r, discard, end, young) == AfterEnd(AfterDiscard(r, discard), end, young)

\* save() of a take: committed; discarded and redone; or, once redos are spent, a loss
\* that ends the session. A source gap is kept then.
Committed(r) ==
    [EpisodeReset(r) EXCEPT !.saving = TRUE, !.due = r.n > 0, !.redos = 0,
        !.commits = @ + (IF r.n > 0 THEN 1 ELSE 0), !.bad = @ \/ r.hot]
Redone(r) == [Rewound(r, "reset") EXCEPT !.redos = @ + 1]
Lost(r) == [Rewound(r, "finish") EXCEPT !.drops = FALSE, !.saving = TRUE]
Discarded(r) ==
    IF r.n = 0 THEN {} ELSE IF r.redos < MaxRedos THEN {Redone(r)} ELSE {Lost(r)}
\* _finish_after_discard: a FINISH or STOP whose take was discarded is not re-recorded.
EndsAnyway(r, st) == [r EXCEPT !.st = st, !.due = FALSE, !.saving = TRUE]

\* The latched save is counted and the take closed.
Closed(r) == [EpisodeReset(IF r.due THEN Counted(r) ELSE r) EXCEPT !.saving = FALSE, !.due = FALSE]
Finalized(r) == [r EXCEPT !.over = TRUE]
SaveStep(r) ==
    IF ~r.saving THEN {Committed(r)} \cup Discarded(r)
    ELSE {[Closed(r) EXCEPT !.st = IF Enough(Closed(r)) THEN "finish" ELSE "reset"]}
StopStep(r) ==
    IF r.done THEN {r}
    ELSE IF r.saving THEN {[Finalized(Closed(r)) EXCEPT !.done = TRUE]}
    ELSE {Committed(r)} \cup {EndsAnyway(d, "stop") : d \in Discarded(r)}
FinishStep(r) ==
    IF r.saving THEN {Closed(r)}
    ELSE IF r.drops THEN {[EpisodeReset(r) EXCEPT !.drops = FALSE, !.saving = TRUE]}
    ELSE {Committed(r)} \cup {EndsAnyway(d, "finish") : d \in Discarded(r)}
\* A record() call that adds no frame: its outcomes, with whether it returns RECORD_COMPLETED.
\* A reset that this very call began ends with it only if it takes no time.
Return(x, full) == IF full \/ Enough(x) THEN <<Finalized(x), TRUE>> ELSE <<x, FALSE>>
Recorded(r) ==
    CASE r.st = "warmup" \/ (r.st = "reset" /\ (Instant \/ rec.st = "reset"))
                         -> {<<r, FALSE>>, <<[r EXCEPT !.st = "run"], FALSE>>}
      [] r.st = "save" -> {Return(x, FALSE) : x \in SaveStep(r)}
      [] r.st = "finish" -> {Return(x, r.saving) : x \in FinishStep(r)}
      [] r.st = "stop" -> {<<x, r.saving /\ ~r.done>> : x \in StopStep(r)}
      [] OTHER -> {<<r, FALSE>>}
AddFrame(r, late) ==
    [r EXCEPT !.n = @ + 1, !.hot = @ \/ late, !.st = IF r.n + 1 >= Frames THEN "save" ELSE @]

\* end_after_error: without a dataset, in the warm-up, the recorder is left as it is.
AfterError(r) ==
    LET ended == [Rewound(IF r.saving /\ r.due THEN Counted(r) ELSE r, "stop")
                    EXCEPT !.drops = FALSE, !.done = TRUE]
    IN  {Finalized(ended)} \cup (IF r.st = "warmup" THEN {Finalized(r)} ELSE {})

\* end_session_now: at most four record() calls.
More(S) == UNION {IF x[2] THEN {x} ELSE Recorded(x[1]) : x \in S}
EndNow(r) ==
    UNION {{x[1] : x \in More(More(More(Recorded(Finish(r, young)))))} : young \in BOOLEAN}

-----------------------------------------------------------------------------
\* The recorder lock. A request is set before the lock is tried; a holder applies what is
\* waiting, lets go, and looks again.
Goto(p, label) == pc' = [pc EXCEPT ![p] = label]
After(p) == CASE p = "tick" -> "publish"
              [] p = "guard" -> "status"
              [] OTHER -> IF resync = "over" THEN "release" ELSE "idle"
Waiting == discardReq \/ endReq # "none"

Try(p) ==
    /\ pc[p] = "try"
    /\ IF lock = Free THEN lock' = p /\ Goto(p, "drain")
                      ELSE UNCHANGED lock /\ Goto(p, After(p))
    /\ UNCHANGED <<rec, discardReq, endReq, on, tick, guardVars, resumeVars, topicVars>>
\* The waiting requests are applied, then the rest of the step to what they leave.
Drain(p) ==
    /\ pc[p] = "drain"
    /\ \E young \in BOOLEAN : rec' = Drained(rec, discardReq, endReq, young)
    /\ discardReq' = FALSE /\ endReq' = "none"
    /\ Goto(p, "unlock")
    /\ UNCHANGED <<lock, on, tick, guardVars, resumeVars, topicVars>>
Unlock(p) ==
    /\ pc[p] = "unlock"
    /\ lock' = Free
    /\ Goto(p, "recheck")
    /\ UNCHANGED <<rec, discardReq, endReq, on, tick, guardVars, resumeVars, topicVars>>
\* mutant: only the collision's request is looked for again.
LooksForDiscard == discardReq /\ lock = Free
LooksAgain == Waiting /\ lock = Free
Recheck(p) ==
    /\ pc[p] = "recheck"
    /\ IF LooksAgain THEN lock' = p /\ Goto(p, "drain")
                     ELSE UNCHANGED lock /\ Goto(p, After(p))
    /\ UNCHANGED <<rec, discardReq, endReq, on, tick, guardVars, resumeVars, topicVars>>
LockStep(p) == Try(p) \/ Drain(p) \/ Unlock(p) \/ Recheck(p)

-----------------------------------------------------------------------------
\* The record tick. It owns the session while no trip or new session moved the generation.
Owns == on /\ ~pending /\ tick.own
Idle == [own |-> FALSE, out |-> "return"]

TickEnter ==
    /\ pc["tick"] = "idle" /\ on /\ ~pending /\ rec.st # "none"
    /\ tick' = [own |-> TRUE, out |-> "return"]
    /\ Goto("tick", "enter")
    /\ UNCHANGED <<recorderVars, on, guardVars, resumeVars, topicVars>>

\* What the tick does before record(): the joystick, the disk floor, a silent source.
Inputs(r) ==
    {r} \cup (IF r.st \in {"finish", "stop"} THEN {} ELSE {ReRecord(r)} \cup EarlySave(r))
        \cup (IF r.st \in {"warmup", "run", "reset"} THEN {Finish(r, y) : y \in BOOLEAN} ELSE {})
TickLock ==
    /\ pc["tick"] = "enter" /\ lock = Free
    /\ lock' = "tick"
    /\ IF Owns THEN rec' \in Inputs(rec) /\ Goto("tick", "step")
               ELSE UNCHANGED rec /\ Goto("tick", "drain")
    /\ UNCHANGED <<discardReq, endReq, on, tick, guardVars, resumeVars, topicVars>>

\* record() applies the waiting requests first, then takes its step: in a run it adds a frame.
Halted == active /\ pc["guard"] # "halt"
RecordCall ==
    \E young \in BOOLEAN :
      LET r == Drained(rec, discardReq, endReq, young)
      IN  \E x \in IF r.st = "run" THEN {<<AddFrame(r, Halted), FALSE>>} ELSE Recorded(r) :
        /\ rec' = x[1]
        /\ discardReq' = FALSE /\ endReq' = "none"
        /\ tick' = [tick EXCEPT !.out = IF x[2] \/ @ = "ready" THEN "ready" ELSE "status"]
TickRecords ==
    /\ pc["tick"] = "step" /\ rec.st # "run"
    /\ RecordCall
    /\ Goto("tick", "drain")
    /\ UNCHANGED <<lock, on, guardVars, resumeVars, topicVars>>
\* Before every decided slot: still in the run, and no trip latched.
TakesSlot(r) == r.st = "run" /\ ~pending
TickSlot ==
    /\ pc["tick"] = "slot" \/ (pc["tick"] = "step" /\ rec.st = "run")
    /\ \E young \in BOOLEAN :
         /\ rec' = Drained(rec, discardReq, endReq, young)
         /\ \/ TakesSlot(rec') /\ Goto("tick", "add") /\ UNCHANGED tick
            \/ Goto("tick", "drain")
               /\ tick' = [tick EXCEPT !.out = IF @ = "ready" THEN @ ELSE "status"]
    /\ discardReq' = FALSE /\ endReq' = "none"
    /\ UNCHANGED <<lock, on, guardVars, resumeVars, topicVars>>
TickAdds ==
    /\ pc["tick"] = "add"
    /\ RecordCall
    /\ Goto("tick", "slot")
    /\ UNCHANGED <<lock, on, guardVars, resumeVars, topicVars>>

\* Every error stop, unless a trip took the session over.
TickFails ==
    /\ Fails /\ pc["tick"] \in {"step", "slot", "add"}
    /\ IF Owns THEN rec' \in AfterError(rec) /\ Goto("tick", "stop")
               ELSE UNCHANGED rec /\ Goto("tick", "drain")
    /\ tick' = [tick EXCEPT !.out = "return"]
    /\ UNCHANGED <<discardReq, endReq, lock, on, guardVars, resumeVars, topicVars>>
Ready == /\ shown' = IF Owns THEN "ready" ELSE shown
         /\ on' = FALSE
TickStops ==
    /\ pc["tick"] = "stop"
    /\ Ready
    /\ Goto("tick", "drain")
    /\ UNCHANGED <<recorderVars, tick, guardVars, resumeVars, flag>>

\* The publish guard.
Publishes == Owns
TickPublishes ==
    /\ pc["tick"] = "publish"
    /\ IF tick.out # "return" /\ Publishes
       THEN /\ shown' = "record"
            /\ Goto("tick", IF tick.out = "ready" THEN "ready" ELSE "idle")
       ELSE UNCHANGED shown /\ Goto("tick", "idle")
    /\ tick' = IF pc'["tick"] = "idle" THEN Idle ELSE tick
    /\ UNCHANGED <<recorderVars, on, guardVars, resumeVars, flag>>
TickReady ==
    /\ pc["tick"] = "ready"
    /\ Ready
    /\ tick' = Idle
    /\ Goto("tick", "idle")
    /\ UNCHANGED <<recorderVars, guardVars, resumeVars, flag>>

TickStep == TickLock \/ TickRecords \/ TickSlot \/ TickAdds \/ TickStops \/ TickPublishes \/ TickReady

-----------------------------------------------------------------------------
\* The trip, latched by the sensor thread and performed by the collision group.
Latch ==
    /\ ~active /\ ~pending /\ trips < MaxTrips
    /\ pending' = TRUE /\ trips' = trips + 1
    /\ tick' = [tick EXCEPT !.own = FALSE]
    /\ UNCHANGED <<recorderVars, on, active, homed, resync, flagLock, crossed, resumeVars,
                   topicVars, pc>>

\* The statements of START and of the end of a recovery that a trip must not fall between.
Windows == {"claim", "unfreeze", "resume", "clear"}
Perform ==
    /\ pc["guard"] = "idle" /\ pending
    /\ active' = TRUE /\ homed' = FALSE
    /\ crossed' = (crossed \/ pc["main"] \in Windows)
    /\ Goto("guard", "halt")
    /\ UNCHANGED <<recorderVars, on, tick, pending, resync, flagLock, trips, resumeVars, topicVars>>
Halt ==
    /\ pc["guard"] = "halt"
    /\ flag' = TRUE
    /\ IF on THEN /\ interrupted' = TRUE /\ on' = FALSE
                  /\ discardReq' = (rec.st # "none")
                  /\ rec' = [rec EXCEPT !.hot = InFlight(rec)]
                  /\ Goto("guard", "try")
             ELSE UNCHANGED <<interrupted, on, discardReq, rec>> /\ Goto("guard", "status")
    /\ UNCHANGED <<endReq, lock, tick, guardVars, ending, shown>>
TripShown ==
    /\ pc["guard"] = "status"
    /\ shown' = "collision" /\ pending' = FALSE
    /\ Goto("guard", "idle")
    /\ UNCHANGED <<recorderVars, on, tick, active, homed, resync, flagLock, trips, crossed,
                   resumeVars, flag>>

\* mutant: the watchdog takes no lock.
WatchUnlocked == TRUE
\* The watchdog reads and publishes under the flag lock.
FlagLockFree == flagLock = Free
Watch ==
    /\ pc["guard"] = "idle" /\ FlagLockFree /\ (active \/ ~pending)
    /\ flagLock' = "guard"
    /\ Goto("guard", IF active THEN "assert" ELSE "lower")
    /\ UNCHANGED <<recorderVars, on, tick, active, pending, homed, resync, trips, crossed,
                   resumeVars, topicVars>>
WatchPublishes ==
    /\ pc["guard"] \in {"assert", "lower"}
    /\ flag' = (pc["guard"] = "assert")
    /\ shown' = IF pc["guard"] = "assert" THEN "collision" ELSE shown
    /\ flagLock' = Free
    /\ Goto("guard", "idle")
    /\ UNCHANGED <<recorderVars, on, tick, active, pending, homed, resync, trips, crossed,
                   resumeVars>>
GuardStep == Perform \/ Halt \/ TripShown \/ WatchPublishes

-----------------------------------------------------------------------------
\* /task/command: a start checks the arm's other owners and claims; commands to the recorder
\* wait for its lock only so long, and are refused as busy.
StartCheck ==
    /\ pc["main"] = "idle" /\ rec.st = "none" /\ ~active /\ ~on
    /\ Goto("main", "claim")
    /\ UNCHANGED <<recorderVars, on, tick, guardVars, resumeVars, topicVars>>
StartClaim ==
    /\ pc["main"] = "claim"
    /\ on' = TRUE
    /\ Goto("main", "init")
    /\ UNCHANGED <<recorderVars, tick, guardVars, resumeVars, topicVars>>
StartInit ==
    /\ pc["main"] = "init"
    /\ rec' = Fresh
    /\ tick' = [tick EXCEPT !.own = FALSE]
    /\ Goto("main", "idle")
    /\ UNCHANGED <<discardReq, endReq, lock, on, guardVars, resumeVars, topicVars>>

\* rerecord_from_command
WireReRecord(r) ==
    IF r.st \in {"finish", "stop"} \/ (r.st = "save" /\ r.saving) THEN r ELSE ReRecord(r)
Commands == {WireReRecord(rec), ReRecord(rec)} \cup EarlySave(rec)
Command ==
    /\ pc["main"] = "idle" /\ on /\ lock = Free
    /\ lock' = "main" /\ rec' \in Commands
    /\ Goto("main", "drain")
    /\ UNCHANGED <<discardReq, endReq, on, tick, guardVars, resumeVars, topicVars>>
\* FINISH and STOP
End ==
    /\ pc["main"] = "idle" /\ on
    /\ endReq' \in {"finish", "stop"}
    /\ Goto("main", "try")
    /\ UNCHANGED <<rec, discardReq, lock, on, tick, guardVars, resumeVars, topicVars>>

\* The recovery: the follower is glided home, in a glide that arrives, and the leader
\* resynced; or it is forced.
HomeFollower ==
    /\ pc["main"] = "idle" /\ active /\ resync = "none" /\ ~homed
    /\ homed' = TRUE
    /\ UNCHANGED <<recorderVars, on, tick, active, pending, resync, flagLock, trips, crossed,
                   resumeVars, topicVars, pc>>
Resume ==
    /\ pc["main"] = "idle" /\ active /\ resync = "none" /\ homed
    /\ resync' = "due"
    /\ UNCHANGED <<recorderVars, on, tick, active, pending, homed, flagLock, trips, crossed,
                   resumeVars, topicVars, pc>>
\* mutant: the forced recovery leaves the session behind.
ForgetsSession == FALSE
EndsInterrupted == interrupted
ForceResume ==
    /\ pc["main"] = "idle" /\ active /\ resync = "none"
    /\ resync' = "due"
    /\ ending' = EndsInterrupted /\ interrupted' = FALSE
    /\ UNCHANGED <<recorderVars, on, tick, active, pending, homed, flagLock, trips, crossed,
                   topicVars, pc>>

\* _on_resync_complete, seconds after the trip: no thread is still between two of its
\* statements then. The recording work while the arm is frozen, the release, the session.
ResyncFires ==
    /\ pc["main"] = "idle" /\ resync = "due"
    /\ pc["guard"] \in {"idle", "assert", "lower"} /\ pc["tick"] \notin {"unlock", "recheck"}
    /\ resync' = "over"
    /\ Goto("main", IF interrupted \/ ending THEN "settle" ELSE "release")
    /\ UNCHANGED <<recorderVars, on, tick, active, pending, homed, flagLock, trips, crossed,
                   resumeVars, topicVars>>
Settle ==
    /\ pc["main"] = "settle" /\ lock = Free
    /\ lock' = "main"
    /\ rec' \in IF interrupted THEN {rec} ELSE EndNow(rec)
    /\ Goto("main", "drain")
    /\ UNCHANGED <<discardReq, endReq, on, tick, guardVars, resumeVars, topicVars>>
Release ==
    /\ pc["main"] = "release" /\ flagLock = Free
    /\ flagLock' = "main"
    /\ active' = FALSE /\ homed' = FALSE
    /\ Goto("main", "unfreeze")
    /\ UNCHANGED <<recorderVars, on, tick, pending, resync, trips, crossed, resumeVars, topicVars>>
Unfreeze ==
    /\ pc["main"] = "unfreeze"
    /\ flag' = FALSE /\ flagLock' = Free
    /\ Goto("main", "resume")
    /\ UNCHANGED <<recorderVars, on, tick, active, pending, homed, resync, trips, crossed,
                   resumeVars, shown>>
ResumeSession ==
    /\ pc["main"] = "resume"
    /\ IF interrupted THEN on' = TRUE /\ UNCHANGED shown
                      ELSE shown' = "ready" /\ UNCHANGED on
    /\ Goto("main", "clear")
    /\ UNCHANGED <<recorderVars, tick, guardVars, resumeVars, flag>>
Clear ==
    /\ pc["main"] = "clear"
    /\ interrupted' = FALSE /\ ending' = FALSE /\ resync' = "none"
    /\ Goto("main", "idle")
    /\ UNCHANGED <<recorderVars, on, tick, active, pending, homed, flagLock, trips, crossed,
                   topicVars>>
MainStep == StartClaim \/ StartInit \/ Settle \/ Release \/ Unfreeze \/ ResumeSession \/ Clear
Student == StartCheck \/ Command \/ End \/ HomeFollower \/ Resume \/ ForceResume

-----------------------------------------------------------------------------
Init ==
    /\ rec = NoSession /\ discardReq = FALSE /\ endReq = "none" /\ lock = Free
    /\ on = FALSE /\ tick = Idle
    /\ active = FALSE /\ pending = FALSE /\ homed = FALSE /\ resync = "none"
    /\ interrupted = FALSE /\ ending = FALSE
    /\ flag = FALSE /\ shown = "ready" /\ flagLock = Free
    /\ pc = [p \in Threads |-> "idle"]
    /\ trips = 0 /\ crossed = FALSE

Next ==
    \/ \E p \in Threads : LockStep(p)
    \/ TickEnter \/ TickStep \/ TickFails
    \/ Latch \/ Watch \/ GuardStep
    \/ Student \/ ResyncFires \/ MainStep

Spec == Init /\ [][Next]_vars

-----------------------------------------------------------------------------
\* A take that a trip interrupted is discarded, and nothing after the trip is recorded: no
\* take on disk was in flight when a trip halted it, nor holds a later frame; an end queued
\* beside the discard comes second (_trigger_collision_stop, _release_and_drain, record).
InterruptedIsDiscarded == ~crossed => ~rec.bad

\* Every take on disk is counted once: the count lags a commit only while its save is
\* latched, through trips, repeats, FINISH, STOP and error stops (re_record, record_stop,
\* record_finish, end_after_error).
CountHonest == rec.commits = rec.count + (IF rec.saving /\ rec.due THEN 1 ELSE 0)

\* Both: the data set holds whole takes, as many as the page says.
TakesAreHonest == InterruptedIsDiscarded /\ CountHonest

\* A discard or an end that was requested while the recorder was busy is never left behind:
\* somebody holds the lock and has yet to look, or the requester has yet to try
\* (_release_and_drain).
RequestIsServed ==
    Waiting => lock # Free \/ \E p \in Threads : pc[p] \in {"try", "recheck"}

\* While the collision stands, the page shows it: no other phase is published over it
\* (_publish_record_status; the page closes its window at the first other phase).
CollisionStaysShown == ~crossed /\ active /\ pc["guard"] \in {"idle", "assert"} => shown = "collision"

\* The freeze of the leader follows the collision: raised while it stands, and not raised
\* again behind the release (_collision_watchdog_cb against _on_resync_complete).
FlagFollows ==
    /\ ~crossed /\ active /\ pc["guard"] \in {"idle", "assert"} => flag
    /\ ~active /\ pc["guard"] \in {"idle", "lower"} /\ pc["main"] # "unfreeze" => ~flag

\* The student sees the collision as long as the leader is frozen for it, and neither longer:
\* whichever of the tick, the watchdog and the recovery writes last.
CollisionIsShown == CollisionStaysShown /\ FlagFollows

\* A session that was started is recording, or a recovery holds it and will resume or end
\* it, or its dataset has been finalized (_collision_interrupted_recording,
\* _collision_end_recording, end_session_now).
SessionIsHeld ==
    ~crossed /\ rec.st # "none" /\ ~rec.over => on \/ interrupted \/ ending

\* An end always comes: at any moment, FINISH or STOP leaves at most four record() calls
\* until the session is finalized, whatever save() makes of the take in flight
\* (end_session_now, _finish_after_discard, _end_for_frame_loss).
EndIsNear ==
    rec.st # "none" /\ ~rec.over =>
        \A r \in EndNow(rec) \cup EndNow(Stop(rec)) : r.over

\* No order of trips, recoveries and ends leaves a session that nobody can bring to its end
\* (FORCE_RESUME_LEADER, the resync's tail, end_session_now).
SessionCanEnd == SessionIsHeld /\ EndIsNear
=============================================================================
