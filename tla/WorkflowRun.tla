----------------------------- MODULE WorkflowRun -----------------------------
(***************************************************************************)
(* How a workflow of Roboter Studio runs: the start callback that claims   *)
(* the arm (on_workflow) and starts a WorkflowManager, the run's main      *)
(* thread and its hat threads between stop checks, pauses, single steps,   *)
(* breakpoints and the motion lock, the stop callback whose joins time     *)
(* out, and the end of the main thread, which gives the claim back. There  *)
(* is one manager for the arm and one for the simulator; both share        *)
(* on_workflow. A stop event belongs to a manager, not to a run: the next  *)
(* start clears it.                                                        *)
(***************************************************************************)
EXTENDS Integers

CONSTANTS
    MaxRuns,     \* bound: calls of /workflow/start
    Hats,        \* event blocks of a program
    Eventful,    \* bound: runs whose program has event blocks
    Debugged,    \* bound: runs with breakpoints and in which the buttons of the debugger are used
    None         \* nobody

Runs == 1 .. MaxRuns

ASSUME WorkflowAssumption ==
    /\ MaxRuns \in Nat \ {0} /\ "main" \notin Hats
    /\ Eventful \subseteq Runs /\ Debugged \subseteq Runs

Managers == {"real", "sim"}
HatsOf(r) == IF r \in Eventful THEN Hats ELSE {}
Threads == {x \in Runs \X ({"main"} \cup Hats) : x[2] = "main" \/ x[2] \in HatsOf(x[1])}

VARIABLES
    onWorkflow,               \* on_workflow
    call, kind,               \* per start: how far the callback is, and its manager
    run,                      \* per manager: the run its _thread and _hat_threads belong to
    stop, pause, resume, step,  \* per manager: its four events are set
    arm,                      \* per manager: the thread that holds _motion_lock
    pc,                       \* per thread: where it is
    stopping,                 \* the manager whose stop() the stop callback waits in, if any
    ended,                    \* history: runs that were told to end
    early,                    \* history: runs whose claim Stop gave back before they did
    late,                     \* history: runs claimed before such a run was through
    credit                    \* history, per manager: presses of "Schritt" not yet spent on a block

callVars == <<call, kind, run>>
events == <<stop, pause, resume, step, credit>>
history == <<ended, early, late>>
vars == <<onWorkflow, callVars, events, arm, pc, stopping, history>>

Init ==
    /\ onWorkflow = FALSE
    /\ call = [r \in Runs |-> "idle"] /\ kind = [r \in Runs |-> "real"]
    /\ run = [k \in Managers |-> 0]
    /\ stop = [k \in Managers |-> FALSE] /\ pause = [k \in Managers |-> FALSE]
    /\ resume = [k \in Managers |-> TRUE] /\ step = [k \in Managers |-> FALSE]
    /\ arm = [k \in Managers |-> None]
    /\ pc = [x \in Threads |-> "off"]
    /\ stopping = {} /\ ended = {} /\ early = {} /\ late = {}
    /\ credit = [k \in Managers |-> 0]

MainAlive(r) == pc[<<r, "main">>] \notin {"off", "report", "done"}
MainHolds(r) == pc[<<r, "main">>] \notin {"off", "done"}
Alive(x) == pc[x] \notin {"off", "done"}
IsRunning(k) == ~stop[k] /\ run[k] \in Runs /\ MainAlive(run[k])
\* _active_workflow_manager: the simulator's comes first
Active(k) == IsRunning(k) /\ (k = "sim" \/ ~IsRunning("sim"))

\* mutant: only the hat threads of the run before are looked at
HatsAlive(k) == run[k] \in Runs /\ \E h \in HatsOf(run[k]) : Alive(<<run[k], h>>)
PrevRunThreadsAlive(k) ==
    run[k] \in Runs /\ (MainAlive(run[k]) \/ \E h \in HatsOf(run[k]) : Alive(<<run[k], h>>))

\* /workflow/start and /workflow/stop are on the node's mutually exclusive group
Starting(r) == call[r] \in {"claimed", "spawning", "refused"}
GroupFree == stopping = {} /\ \A r \in Runs : ~Starting(r)

-----------------------------------------------------------------------------
(* The start callback.                                                     *)

\* mutant: the gate does not look at on_workflow
NobodyRuns == \A k \in Managers : ~IsRunning(k)
MayClaim == ~onWorkflow /\ \A k \in Managers : ~IsRunning(k)

\* Under _mode_lock: nothing runs and nobody holds the arm
Claim(r, k) ==
    /\ GroupFree /\ call[r] = "idle" /\ \A q \in 1 .. r - 1 : call[q] # "idle"
    /\ MayClaim
    /\ onWorkflow' = TRUE
    /\ call' = [call EXCEPT ![r] = "claimed"] /\ kind' = [kind EXCEPT ![r] = k]
    /\ late' = IF \E q \in early \cup late : MainHolds(q) THEN late \cup {r} ELSE late
    /\ UNCHANGED <<run, events, arm, pc, stopping, ended, early>>

\* WorkflowManager.start refuses, before it clears the stop event
Refuses(r) ==
    /\ call' = [call EXCEPT ![r] = "refused"]
    /\ UNCHANGED <<kind, run, events, arm, pc>>

\* ... or clears the events and starts hat threads, of which a start may fail
Arms(r, H) ==
    LET k == kind[r] IN
    /\ call' = [call EXCEPT ![r] = "spawning"] /\ run' = [run EXCEPT ![k] = r]
    /\ stop' = [stop EXCEPT ![k] = FALSE] /\ pause' = [pause EXCEPT ![k] = FALSE]
    /\ resume' = [resume EXCEPT ![k] = TRUE] /\ step' = [step EXCEPT ![k] = FALSE]
    /\ credit' = [credit EXCEPT ![k] = 0]
    /\ pc' = [x \in Threads |-> IF x \in {<<r, h>> : h \in H} THEN "wait" ELSE pc[x]]
    /\ UNCHANGED <<kind, arm>>

Launch(r) ==
    /\ call[r] = "claimed"
    /\ \/ Refuses(r)
       \/ /\ ~IsRunning(kind[r]) /\ ~PrevRunThreadsAlive(kind[r])
          /\ \E H \in SUBSET HatsOf(r) : Arms(r, H)
    /\ UNCHANGED <<onWorkflow, stopping, history>>

LaunchMain(r) ==
    /\ call[r] = "spawning" /\ \A h \in HatsOf(r) : pc[<<r, h>>] # "off"
    /\ call' = [call EXCEPT ![r] = "over"] /\ pc' = [pc EXCEPT ![<<r, "main">>] = "check"]
    /\ UNCHANGED <<onWorkflow, kind, run, events, arm, stopping, history>>

\* mutant: a failed start leaves the stop event cleared
FailsArmed(r) ==
    /\ call' = [call EXCEPT ![r] = "refused"]
    /\ ended' = ended \cup {r}
    /\ UNCHANGED events
\* An exception or a Thread.start() that fails: the finally puts the stop event back
Fails(r) ==
    /\ call' = [call EXCEPT ![r] = "refused"]
    /\ ended' = ended \cup {r}
    /\ stop' = [stop EXCEPT ![kind[r]] = TRUE]
    /\ UNCHANGED <<pause, resume, step, credit>>
LaunchFails(r) ==
    /\ call[r] = "spawning"
    /\ Fails(r)
    /\ UNCHANGED <<onWorkflow, kind, run, arm, pc, stopping, early, late>>

\* the callback's finally: no run took the claim
Unclaims(r) ==
    /\ call[r] = "refused"
    /\ call' = [call EXCEPT ![r] = "over"] /\ onWorkflow' = FALSE
    /\ UNCHANGED <<kind, run, events, arm, pc, stopping, history>>

-----------------------------------------------------------------------------
(* The buttons.                                                            *)

Pause(k) ==
    /\ Active(k) /\ run[k] \in Debugged
    /\ pause' = [pause EXCEPT ![k] = TRUE] /\ resume' = [resume EXCEPT ![k] = FALSE]
    /\ UNCHANGED <<onWorkflow, callVars, stop, step, credit, arm, pc, stopping, history>>

Continue(k) ==
    /\ Active(k) /\ run[k] \in Debugged
    /\ pause' = [pause EXCEPT ![k] = FALSE] /\ resume' = [resume EXCEPT ![k] = TRUE]
    /\ UNCHANGED <<onWorkflow, callVars, stop, step, credit, arm, pc, stopping, history>>

\* Only while paused; presses that no thread has taken collapse into one
Step(k) ==
    /\ Active(k) /\ pause[k]
    /\ step' = [step EXCEPT ![k] = TRUE] /\ resume' = [resume EXCEPT ![k] = TRUE]
    /\ credit' = [credit EXCEPT ![k] = IF step[k] THEN @ ELSE @ + 1]
    /\ UNCHANGED <<onWorkflow, callVars, stop, pause, arm, pc, stopping, history>>

Stop(k) ==
    /\ GroupFree /\ Active(k)
    /\ stop' = [stop EXCEPT ![k] = TRUE]
    /\ resume' = [resume EXCEPT ![k] = TRUE] /\ step' = [step EXCEPT ![k] = TRUE]
    /\ stopping' = stopping \cup {k}
    /\ ended' = ended \cup {run[k]}
    /\ UNCHANGED <<onWorkflow, callVars, pause, credit, arm, pc, early, late>>

\* The joins are over, or have timed out; on_workflow = manager.is_running
StopReturns(k) ==
    /\ k \in stopping
    /\ stopping' = stopping \ {k}
    /\ onWorkflow' = IsRunning(k)
    /\ early' = early \cup {r \in ended : kind[r] = k /\ MainHolds(r)}
    /\ UNCHANGED <<callVars, events, arm, pc, ended, late>>

-----------------------------------------------------------------------------
(* The threads.                                                            *)

Goes(x, to) == pc' = [pc EXCEPT ![x] = to]
Of(x) == kind[x[1]]
Main(x) == x[2] = "main"
\* the thread has let go of the lock, if it held it
Lets(x) == arm' = [arm EXCEPT ![Of(x)] = IF @ = x THEN None ELSE @]
LetsIfMain(x) == IF Main(x) THEN Lets(x) ELSE UNCHANGED arm

HatTriggered(x) ==
    /\ pc[x] = "wait" /\ ~stop[Of(x)]
    /\ Goes(x, "queue") /\ UNCHANGED <<events, arm>>

HatStops(x) ==
    /\ pc[x] \in {"wait", "queue"} /\ stop[Of(x)]
    /\ Goes(x, "done") /\ UNCHANGED <<events, arm>>

\* A hat holds the motion lock for its whole body
HatTakesArm(x) ==
    /\ pc[x] = "queue" /\ ~stop[Of(x)] /\ arm[Of(x)] = None
    /\ arm' = [arm EXCEPT ![Of(x)] = x]
    /\ Goes(x, "check") /\ UNCHANGED events

\* A WorkflowError ends the main stack; a hat survives some, and ends at last
Aborts(x) ==
    /\ Lets(x) /\ UNCHANGED events
    /\ IF Main(x) THEN Goes(x, "reap") ELSE \E to \in {"wait", "done"} : Goes(x, to)

\* _exec_chain: the next block, if the run goes on; its end
Check(x) ==
    /\ pc[x] = "check"
    /\ \/ stop[Of(x)] /\ Aborts(x)
       \/ ~stop[Of(x)] /\ Goes(x, "gate") /\ UNCHANGED <<events, arm>>
       \/ Goes(x, IF Main(x) THEN "await" ELSE "wait") /\ Lets(x) /\ UNCHANGED events

\* A block begins; under a pause it spends a press
Begins(x) ==
    /\ Goes(x, "block")
    /\ credit' = [credit EXCEPT ![Of(x)] = IF pause[Of(x)] THEN @ - 1 ELSE @]
    /\ UNCHANGED <<stop, pause, arm>>

\* mutant: another thread may test the token before this one clears it
TestsStepToken(x) ==
    /\ pause[Of(x)] /\ step[Of(x)]
    /\ step' = [step EXCEPT ![Of(x)] =
                   \E y \in Threads \ {x} : Of(y) = Of(x) /\ pc[y] \in {"gate", "parked"}]
    /\ resume' = [resume EXCEPT ![Of(x)] = FALSE]
\* Atomically takes the token and re-arms the pause
ConsumesStepToken(x) ==
    /\ pause[Of(x)] /\ step[Of(x)]
    /\ step' = [step EXCEPT ![Of(x)] = FALSE] /\ resume' = [resume EXCEPT ![Of(x)] = FALSE]

Gate(x) ==
    LET k == Of(x) IN
    /\ pc[x] = "gate"
    /\ \/ /\ x[1] \in Debugged /\ Goes(x, "halted")       \* a breakpoint
          /\ pause' = [pause EXCEPT ![k] = TRUE] /\ resume' = [resume EXCEPT ![k] = FALSE]
          /\ UNCHANGED <<stop, step, credit, arm>>
       \/ ~pause[k] /\ Begins(x) /\ UNCHANGED <<resume, step>>
       \/ ConsumesStepToken(x) /\ Begins(x)
       \/ pause[k] /\ ~step[k] /\ Goes(x, "parked") /\ UNCHANGED <<events, arm>>

\* _wait_for_resume. A breakpoint asks for the stop again; the pause gate does not
Resumes(x) ==
    LET k == Of(x) IN
    /\ pc[x] \in {"halted", "parked"}
    /\ \/ stop[k] /\ pc[x] = "halted" /\ Aborts(x)
       \/ stop[k] /\ pc[x] = "parked" /\ Goes(x, "block") /\ UNCHANGED <<events, arm>>
       \/ ~stop[k] /\ resume[k] /\ ConsumesStepToken(x) /\ Begins(x)
       \/ ~stop[k] /\ resume[k] /\ ~pause[k] /\ Begins(x) /\ UNCHANGED <<resume, step>>

\* A block that does not move the arm, one that fails, and one that takes the lock to move it
Block(x) ==
    LET k == Of(x) IN
    /\ pc[x] = "block"
    /\ \/ Goes(x, "check") /\ UNCHANGED <<events, arm>>
       \/ Aborts(x)
       \/ /\ ~stop[k] /\ arm[k] \in {None, x}
          /\ arm' = [arm EXCEPT ![k] = x] /\ Goes(x, "move") /\ UNCHANGED events

\* chunked_publish asks for the stop before every point and while a chunk plays
Move(x) ==
    /\ pc[x] = "move"
    /\ \/ stop[Of(x)] /\ Aborts(x)
       \/ ~stop[Of(x)] /\ Goes(x, "send") /\ UNCHANGED <<events, arm>>
       \/ Goes(x, "check") /\ LetsIfMain(x) /\ UNCHANGED events

Send(x) == pc[x] = "send" /\ Goes(x, "move") /\ UNCHANGED <<events, arm>>

\* _await_hat_handlers: the hats are gone, Stop, or the time limit
Await(x) == pc[x] = "await" /\ Goes(x, "reap") /\ UNCHANGED <<events, arm>>

RunsOn(x) ==
    /\ \/ HatStops(x) \/ HatTakesArm(x)
       \/ Check(x) \/ Gate(x) \/ Resumes(x) \/ Block(x) \/ Move(x) \/ Send(x) \/ Await(x)
    /\ UNCHANGED <<onWorkflow, callVars, stopping, history>>
Trigger(x) == HatTriggered(x) /\ UNCHANGED <<onWorkflow, callVars, stopping, history>>

\* The finally of _run: the flag first, so that the hats end too
Reap(r) ==
    LET k == kind[r] IN
    /\ pc[<<r, "main">>] = "reap" /\ Goes(<<r, "main">>, "join")
    /\ stop' = [stop EXCEPT ![k] = TRUE] /\ resume' = [resume EXCEPT ![k] = TRUE]
    /\ ended' = ended \cup {r}
    /\ UNCHANGED <<onWorkflow, callVars, pause, step, credit, arm, stopping, early, late>>

\* the hats are joined, or the joins have timed out; _thread = None
Joined(r) ==
    /\ pc[<<r, "main">>] = "join" /\ Goes(<<r, "main">>, "report")
    /\ UNCHANGED <<onWorkflow, callVars, events, arm, stopping, history>>

Report(r) ==
    /\ pc[<<r, "main">>] = "report" /\ Goes(<<r, "main">>, "done")
    /\ onWorkflow' = FALSE
    /\ UNCHANGED <<callVars, events, arm, stopping, history>>

Next ==
    \/ \E r \in Runs :
         \/ \E k \in Managers : Claim(r, k)
         \/ Launch(r) \/ LaunchMain(r) \/ LaunchFails(r) \/ Unclaims(r)
         \/ Reap(r) \/ Joined(r) \/ Report(r)
    \/ \E k \in Managers : Pause(k) \/ Continue(k) \/ Step(k) \/ Stop(k) \/ StopReturns(k)
    \/ \E x \in Threads : RunsOn(x) \/ Trigger(x)

\* The threads and the callbacks run on: every wait of theirs has a time limit or asks for
\* the stop. Nothing is assumed of the triggers and the buttons
Fairness ==
    /\ \A r \in Runs :
         /\ WF_vars(Launch(r)) /\ WF_vars(LaunchMain(r) \/ LaunchFails(r)) /\ WF_vars(Unclaims(r))
         /\ WF_vars(Reap(r)) /\ WF_vars(Joined(r)) /\ WF_vars(Report(r))
    /\ \A k \in Managers : WF_vars(StopReturns(k))
    /\ \A x \in Threads : WF_vars(RunsOn(x))
Spec == Init /\ [][Next]_vars /\ Fairness

-----------------------------------------------------------------------------
(* Properties.                                                             *)

\* A run that was told to end, by Stop, by its own end or by its failed start, goes on to no
\* further block and publishes no further chunk: nothing takes its stop back while a thread
\* of it lives, though the event is the manager's and the next start clears it.
StopIsKept ==
    [][\A x \in Threads :
         ~(x[1] \in ended /\ \/ pc[x] = "check" /\ pc'[x] = "gate"
                             \/ pc[x] = "move" /\ pc'[x] = "send")]_vars

\* on_workflow is held from the claim until the main thread has reported, through failed
\* starts, joins and the moment in which the manager already runs nothing: no other mode and
\* no other manager takes the arm under a run. Excepted are the runs that Stop gave up
\* waiting for, and those that were claimed before such a run was through.
ClaimHeld ==
    \A r \in Runs \ (early \cup late) :
        Starting(r) \/ MainHolds(r) => onWorkflow

\* Under a pause no thread begins a block without a press of "Schritt" of its own: one press
\* lets one block through, whichever thread it is of, and is neither lost nor doubled.
OneBlockPerStep ==
    \A k \in Managers : ~stop[k] => credit[k] = IF step[k] THEN 1 ELSE 0

\* Of a run that was told to end every thread ends, paused, queueing for the arm or in a
\* motion, and of a start that failed too; a claim leads to a run or is given back.
RunEnds ==
    \A r \in Runs :
        /\ r \in ended ~> \A x \in Threads : x[1] = r => ~Alive(x)
        /\ call[r] = "claimed" ~> ~onWorkflow \/ IsRunning(kind[r])
=============================================================================
