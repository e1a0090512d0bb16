------------------------------ MODULE EdgeStart ------------------------------
(***************************************************************************)
(* Cloud inference: how the API starts and ends Modal sessions. The tasks  *)
(* of one event loop (reserve handlers, late attaches, the terminate loop) *)
(* interleave at their awaits; START_POOL's threads answer at any time.    *)
(*                                                                         *)
(* A reserve request creates one inference_sessions row and submits at     *)
(* most one sessions.start, so row, request, start and the Modal session   *)
(* of that start share the request's name. What happens to a row besides   *)
(* these calls (arm, connect, heartbeats, sweep) is Connect and RowEnds.   *)
(***************************************************************************)
EXTENDS Integers, FiniteSets

CONSTANTS
    Requests,     \* reserve requests
    Students,
    Student,      \* whose request it is
    PoolSize,     \* START_POOL workers
    Idle,         \* EDGE_IDLE_S in ticks: Modal ends a session idle this long
    Clocked,      \* whether time passes
    Faults,       \* which faults occur: a request is cancelled, an RPC has no answer, a
                  \* student is deleted, the envelope key changes, a terminate call
                  \* fails, credentials have an unexpected shape
    MaxCrashes,   \* bound: restarts of the API
    Nobody

ASSUME EdgeAssumption ==
    /\ Student \in [Requests -> Students]
    /\ PoolSize \in Nat \ {0} /\ Idle \in Nat \ {0} /\ Clocked \in BOOLEAN
    /\ Faults \subseteq {"cancel", "db", "delete", "key", "modal", "odd"}
    /\ MaxCrashes \in Nat
    /\ Nobody \notin Requests

VARIABLES
    status,     \* inference_sessions.status; "none": no row yet, "deleted"
    edge,       \* modal_session_id
    sealed,     \* edge_token_enc is not NULL
    age,        \* now - ended_at
    modal,      \* the Modal session of the start: "none", "up", "gone"
    idle,       \* how long no robot has used it
    pc,         \* where the reserve handler is
    fut,        \* its _Waiter.fut
    held,       \* the session whose credentials the handler (or its fut) has
    joined,     \* the start it waits on
    cf,         \* the pool future of the start
    waiter,     \* _UserStart.waiter
    late,       \* _UserStart.on_late: whose late path
    settled,    \* _UserStart.settled
    hung,       \* older than START_JOIN_MAX_AGE_S
    starts,     \* _STARTS
    lateTask,   \* on_late tasks: <<request, session, next call>>
    term,       \* _terminate_row for the row: "off", "call", "left", "mark"
    crashes

rowVars == <<status, edge, sealed, age>>
modalVars == <<modal, idle>>
handlerVars == <<pc, fut, held, joined>>
startVars == <<cf, waiter, late, settled, hung, starts>>
vars == <<rowVars, modalVars, handlerVars, startVars, lateTask, term, crashes>>

Live == {"reserved", "active"}
Running == {"queued", "running"}

Init ==
    /\ status = [r \in Requests |-> "none"] /\ edge = [r \in Requests |-> Nobody]
    /\ sealed = [r \in Requests |-> FALSE] /\ age = [r \in Requests |-> 0]
    /\ modal = [s \in Requests |-> "none"] /\ idle = [s \in Requests |-> 0]
    /\ pc = [r \in Requests |-> "out"] /\ fut = [r \in Requests |-> "none"]
    /\ held = [r \in Requests |-> Nobody] /\ joined = [r \in Requests |-> Nobody]
    /\ cf = [s \in Requests |-> "none"] /\ waiter = [s \in Requests |-> Nobody]
    /\ late = [s \in Requests |-> Nobody] /\ settled = [s \in Requests |-> FALSE]
    /\ hung = [s \in Requests |-> FALSE] /\ starts = [u \in Students |-> Nobody]
    /\ lateTask = {} /\ term = [r \in Requests |-> "off"] /\ crashes = 0

-----------------------------------------------------------------------------
(* The rows (migration 048).                                               *)

\* _inference_session_finish
Finish(r) == status' = [status EXCEPT ![r] = IF @ \in Live THEN "ended" ELSE @]

(* create_inference_session_safe commits: the student's live rows are      *)
(* superseded. The handler has not resumed yet.                            *)
Create(r) ==
    /\ pc[r] = "out"
    /\ \A q \in Requests : Student[q] = Student[r] => status[q] # "deleted"
    /\ LET mine == {q \in Requests : Student[q] = Student[r] /\ status[q] \in Live}
       IN  status' = [q \in Requests |->
                        CASE q = r -> "reserved" [] q \in mine -> "ended" [] OTHER -> status[q]]
    /\ pc' = [pc EXCEPT ![r] = "created"]
    /\ UNCHANGED <<edge, sealed, age, modalVars, fut, held, joined, startVars, lateTask, term, crashes>>

\* the page knows the row from the reserve answer and arms it, and the robot
\* connects through the container of its session
Connect(r) ==
    /\ pc[r] = "ready"
    /\ status[r] = "reserved" /\ sealed[r] /\ modal[edge[r]] = "up"
    /\ status' = [status EXCEPT ![r] = "active"]
    /\ idle' = [idle EXCEPT ![edge[r]] = 0]
    /\ UNCHANGED <<edge, sealed, age, modal, handlerVars, startVars, lateTask, term, crashes>>

\* the page, the robot, the container or the sweep ends the row
RowEnds(r) ==
    /\ status[r] \in Live
    /\ Finish(r)
    /\ UNCHANGED <<edge, sealed, age, modalVars, handlerVars, startVars, lateTask, term, crashes>>

\* the student's account is deleted: ON DELETE CASCADE (what a deleted row had
\* as edge is only read by a terminate call already running)
StudentDeleted(u) ==
    /\ "delete" \in Faults
    /\ LET rows == {r \in Requests : Student[r] = u /\ status[r] # "none"}
       IN  /\ \E r \in rows : status[r] # "deleted"
           /\ status' = [r \in Requests |-> IF r \in rows THEN "deleted" ELSE status[r]]
           /\ sealed' = [r \in Requests |-> IF r \in rows THEN FALSE ELSE sealed[r]]
    /\ UNCHANGED <<edge, age, modalVars, handlerVars, startVars, lateTask, term, crashes>>

\* attach_inference_edge stores session s in row r, and the row may be past a
\* clock limit at that moment
Stores(r, s) ==
    /\ edge' = [edge EXCEPT ![r] = s]
    /\ sealed' = [sealed EXCEPT ![r] = TRUE]
    /\ Finish(r) \/ UNCHANGED status

\* the row exists and holds no session; it may have ended
Attachable(r) == status[r] \notin {"none", "deleted"} /\ edge[r] = Nobody

-----------------------------------------------------------------------------
(* sessions.start, shared by the reservations of one student.              *)

\* what _leave, Join and a new start do to the start entries is written as one
\* record of their next values
Entries == [cf |-> cf, waiter |-> waiter, late |-> late, settled |-> settled, starts |-> starts]
Becomes(n) ==
    /\ cf' = n.cf /\ waiter' = n.waiter /\ late' = n.late
    /\ settled' = n.settled /\ starts' = n.starts

\* mutant: whatever start the student has is forgotten
ForgetAnyway(n, s) ==
    [n EXCEPT !.settled[s] = TRUE, !.starts[Student[s]] = Nobody]

\* _forget
Forget(n, s) ==
    [n EXCEPT !.settled[s] = TRUE,
              !.starts = [u \in Students |-> IF n.starts[u] = s THEN Nobody ELSE n.starts[u]]]

\* the student's start that a new reservation waits on
Joinable(s) == s # Nobody /\ ~settled[s] /\ ~hung[s]

\* start_session up to its await: the older request is released, the start is
\* joined or a new one submitted
StartSession(r) ==
    /\ pc[r] = "created"
    /\ LET e == starts[Student[r]]
           older == IF e = Nobody THEN Nobody ELSE waiter[e]
           s == IF Joinable(e) THEN e ELSE r
           released == IF e = Nobody THEN Entries ELSE [Entries EXCEPT !.waiter[e] = Nobody]
           entries == IF s = r THEN [released EXCEPT !.cf[r] = "queued", !.starts[Student[r]] = r]
                               ELSE released
       IN  /\ Becomes([entries EXCEPT !.waiter[s] = r, !.late[s] = r])
           /\ fut' = [q \in Requests |->
                        CASE q = r -> "pending"
                          [] q = older /\ fut[q] = "pending" -> "superseded"
                          [] OTHER -> fut[q]]
           /\ joined' = [joined EXCEPT ![r] = s]
    /\ pc' = [pc EXCEPT ![r] = "waiting"]
    /\ UNCHANGED <<rowVars, modalVars, held, hung, lateTask, term, crashes>>

StartRuns(s) ==
    /\ cf[s] = "queued"
    /\ Cardinality({x \in Requests : cf[x] = "running"}) < PoolSize
    /\ cf' = [cf EXCEPT ![s] = "running"]
    /\ UNCHANGED <<rowVars, modalVars, handlerVars, waiter, late, settled, hung, starts, lateTask, term, crashes>>

\* Modal answers: credentials, credentials of an unexpected shape, or an error
StartAnswers(s) ==
    /\ cf[s] = "running"
    /\ \E answer \in {"creds", "error"} \cup (Faults \cap {"odd"}) :
         /\ cf' = [cf EXCEPT ![s] = answer]
         /\ modal' = [modal EXCEPT ![s] = IF answer = "error" THEN @ ELSE "up"]
    /\ UNCHANGED <<rowVars, idle, handlerVars, waiter, late, settled, hung, starts, lateTask, term, crashes>>

\* its first request's bound is long over
StartHangs(s) ==
    /\ cf[s] \in Running /\ ~hung[s]
    /\ waiter[s] # s
    /\ hung' = [hung EXCEPT ![s] = TRUE]
    /\ UNCHANGED <<rowVars, modalVars, handlerVars, cf, waiter, late, settled, starts, lateTask, term, crashes>>

\* mutant: the late path runs also when a request took the success
LateTakesAlways(s) == cf[s] # "error" /\ late[s] # Nobody

LateTakes(s) ==
    /\ cf[s] # "error" /\ late[s] # Nobody
    /\ waiter[s] = Nobody \/ fut[waiter[s]] # "pending"

\* _settle: the outcome goes to the newest reservation still waiting, else a
\* success goes to the newest reservation's late path. Its age is not read any more
Settle(s) ==
    /\ cf[s] \in {"creds", "odd", "error"} /\ ~settled[s]
    /\ Becomes([Forget(Entries, s) EXCEPT !.waiter[s] = Nobody])
    /\ LET w == waiter[s]
       IN  IF w # Nobody /\ fut[w] = "pending"
           THEN /\ fut' = [fut EXCEPT ![w] = IF cf[s] = "error" THEN "failed" ELSE "creds"]
                /\ held' = [held EXCEPT ![w] = IF cf[s] = "error" THEN @ ELSE s]
           ELSE UNCHANGED <<fut, held>>
    /\ lateTask' = lateTask \cup (IF LateTakes(s) THEN {<<late[s], s, "attach">>} ELSE {})
    /\ hung' = [hung EXCEPT ![s] = FALSE]
    /\ UNCHANGED <<rowVars, modalVars, pc, joined, term, crashes>>

-----------------------------------------------------------------------------
(* The reserve handler after its start.                                    *)

\* mutant: a success already handed to a request that goes away is dropped
HandsOverNothing(r) == FALSE

\* an outcome already handed to a request that stops waiting goes to its late path
HandsOver(r) == fut[r] = "creds"

\* _leave: the bound is over, or the request is cancelled; a start that is
\* still queued and that nobody waits for never runs
Leave(r) ==
    LET s == joined[r]
        left == IF waiter[s] = r THEN [Entries EXCEPT !.waiter[s] = Nobody] ELSE Entries
        drop == fut[r] = "pending" /\ left.waiter[s] = Nobody /\ ~settled[s] /\ cf[s] = "queued"
    IN  /\ Becomes(IF drop THEN [Forget(left, s) EXCEPT !.cf[s] = "cancelled"] ELSE left)
        /\ lateTask' = lateTask \cup (IF HandsOver(r) THEN {<<r, held[r], "attach">>} ELSE {})

\* START_TIMEOUT_S: EdgeTimeout
StartTimeout(r) ==
    /\ pc[r] = "waiting" /\ fut[r] = "pending"
    /\ Leave(r)
    /\ pc' = [pc EXCEPT ![r] = "fail"]
    /\ fut' = [fut EXCEPT ![r] = "none"]
    /\ joined' = [joined EXCEPT ![r] = Nobody]
    /\ UNCHANGED <<rowVars, modalVars, held, hung, term, crashes>>

\* the request's task is cancelled while it waits
Cancel(r) ==
    /\ "cancel" \in Faults
    /\ pc[r] = "waiting"
    /\ Leave(r)
    /\ pc' = [pc EXCEPT ![r] = "done"]
    /\ fut' = [fut EXCEPT ![r] = "none"]
    /\ held' = [held EXCEPT ![r] = Nobody]
    /\ joined' = [joined EXCEPT ![r] = Nobody]
    /\ UNCHANGED <<rowVars, modalVars, hung, term, crashes>>


After(r) ==
    IF fut[r] # "creds" THEN "fail"
    ELSE IF cf[held[r]] = "odd" THEN "kill"
    ELSE "attach"

\* the await returns: credentials to attach, credentials of the wrong shape to
\* terminate, or StartSuperseded / the SDK's exception
Resume(r) ==
    /\ pc[r] = "waiting" /\ fut[r] # "pending"
    /\ pc' = [pc EXCEPT ![r] = After(r)]
    /\ fut' = [fut EXCEPT ![r] = "none"]
    /\ joined' = [joined EXCEPT ![r] = Nobody]
    /\ UNCHANGED <<rowVars, modalVars, held, startVars, lateTask, term, crashes>>

\* the RPC answers: stored, missing or conflict, or no answer (stored or not)
Attach(r) ==
    /\ pc[r] = "attach"
    /\ LET s == held[r]
       IN  \/ /\ Attachable(r)
              /\ Stores(r, s)
              /\ pc' = [pc EXCEPT ![r] = IF status'[r] = "reserved" THEN "ready" ELSE "refused"]
              /\ held' = [held EXCEPT ![r] = Nobody]
           \/ /\ ~Attachable(r)
              /\ pc' = [pc EXCEPT ![r] = "killLast"]
              /\ UNCHANGED <<status, edge, sealed, held>>
           \/ /\ "db" \in Faults
              /\ \/ (Attachable(r) /\ Stores(r, s))
                 \/ UNCHANGED <<status, edge, sealed>>
              /\ pc' = [pc EXCEPT ![r] = "kill"]
              /\ UNCHANGED held
    /\ UNCHANGED <<age, modalVars, fut, joined, startVars, lateTask, term, crashes>>

\* one terminate call that may fail
Terminates(s) ==
    \/ modal' = [modal EXCEPT ![s] = "gone"]
    \/ ("modal" \in Faults /\ UNCHANGED modal)

\* terminate_now for a session no row holds
TerminateNow(r) ==
    /\ pc[r] \in {"kill", "killLast"}
    /\ Terminates(held[r])
    /\ pc' = [pc EXCEPT ![r] = IF @ = "kill" THEN "fail" ELSE "refused"]
    /\ held' = [held EXCEPT ![r] = Nobody]
    /\ UNCHANGED <<rowVars, idle, fut, joined, startVars, lateTask, term, crashes>>

\* _end_edge_failed, best effort
EndEdgeFailed(r) ==
    /\ pc[r] = "fail"
    /\ \/ Finish(r) /\ pc' = [pc EXCEPT ![r] = "refused"]
       \/ /\ "db" \in Faults
          /\ pc' = [pc EXCEPT ![r] = "done"]
          /\ UNCHANGED status
    /\ UNCHANGED <<edge, sealed, age, modalVars, fut, held, joined, startVars, lateTask, term, crashes>>

\* on_late: attach the late session to its row, else terminate it now
LateAttach(t) ==
    /\ t \in lateTask /\ t[3] = "attach"
    /\ LET r == t[1]
           s == t[2]
           kill == <<r, s, "kill">>
       IN  \/ /\ cf[s] # "odd" /\ Attachable(r)
              /\ Stores(r, s)
              /\ lateTask' = lateTask \ {t}
           \/ /\ cf[s] = "odd" \/ ~Attachable(r)
              /\ lateTask' = (lateTask \ {t}) \cup {kill}
              /\ UNCHANGED <<status, edge, sealed>>
           \/ /\ "db" \in Faults /\ cf[s] # "odd"
              /\ \/ (Attachable(r) /\ Stores(r, s))
                 \/ UNCHANGED <<status, edge, sealed>>
              /\ lateTask' = (lateTask \ {t}) \cup {kill}
    /\ UNCHANGED <<age, modalVars, handlerVars, startVars, term, crashes>>

LateTerminate(t) ==
    /\ t \in lateTask /\ t[3] = "kill"
    /\ Terminates(t[2])
    /\ lateTask' = lateTask \ {t}
    /\ UNCHANGED <<rowVars, idle, handlerVars, startVars, term, crashes>>

-----------------------------------------------------------------------------
(* The terminate loop.                                                     *)

\* mutant: a row that ended before its session was attached is never due
DueOnceReady(r) == status[r] = "ended" /\ sealed[r] /\ pc[r] = "ready"

\* inference_edges_due
Due(r) == status[r] = "ended" /\ sealed[r]

\* _terminate_row: a row past EDGE_IDLE_S, or one whose token does not open, is
\* marked without a call
TerminateRow(r) ==
    /\ Due(r) /\ term[r] = "off"
    /\ \/ /\ age[r] > Idle
          /\ term' = [term EXCEPT ![r] = "mark"]
       \/ /\ age[r] <= Idle
          /\ term' = [term EXCEPT ![r] = "call"]
       \/ /\ age[r] <= Idle /\ "key" \in Faults
          /\ term' = [term EXCEPT ![r] = "mark"]
    /\ UNCHANGED <<rowVars, modalVars, handlerVars, startVars, lateTask, crashes>>

\* TERMINATE_CALL_WAIT_S: the call is left running, the row stays in flight
TerminateLeft(r) ==
    /\ "modal" \in Faults
    /\ term[r] = "call"
    /\ term' = [term EXCEPT ![r] = "left"]
    /\ UNCHANGED <<rowVars, modalVars, handlerVars, startVars, lateTask, crashes>>

TerminateAnswers(r) ==
    /\ term[r] \in {"call", "left"}
    /\ \/ /\ modal' = [modal EXCEPT ![edge[r]] = "gone"]
          /\ term' = [term EXCEPT ![r] = IF @ = "call" THEN "mark" ELSE "off"]
       \/ /\ "modal" \in Faults
          /\ term' = [term EXCEPT ![r] = "off"]
          /\ UNCHANGED modal
    /\ UNCHANGED <<rowVars, idle, handlerVars, startVars, lateTask, crashes>>

\* mark_inference_edge_terminated
MarkTerminated(r) ==
    /\ term[r] = "mark"
    /\ \/ status[r] = "ended" /\ sealed' = [sealed EXCEPT ![r] = FALSE]
       \/ (status[r] # "ended" \/ "db" \in Faults) /\ UNCHANGED sealed
    /\ term' = [term EXCEPT ![r] = "off"]
    /\ UNCHANGED <<status, edge, age, modalVars, handlerVars, startVars, lateTask, crashes>>

-----------------------------------------------------------------------------
(* Time and crashes.                                                       *)

Least(m, n) == IF m < n THEN m ELSE n
HeldBy(s, states) == \E r \in Requests : edge[r] = s /\ status[r] \in states

\* rows age once they have ended; a session without a robot idles out, which
\* EDGE_IDLE_S being longer than a reservation delays until its row has ended
Tick ==
    /\ Clocked
    /\ age' = [r \in Requests |-> IF status[r] = "ended" THEN Least(age[r] + 1, Idle + 1) ELSE age[r]]
    /\ idle' = [s \in Requests |->
                  IF modal[s] # "up" \/ HeldBy(s, {"active"}) THEN 0
                  ELSE Least(idle[s] + 1, IF HeldBy(s, {"reserved"}) THEN Idle - 1 ELSE Idle)]
    /\ modal' = [s \in Requests |-> IF modal[s] = "up" /\ idle'[s] = Idle THEN "gone" ELSE modal[s]]
    /\ UNCHANGED <<status, edge, sealed, handlerVars, startVars, lateTask, term, crashes>>

\* the API process restarts: the database and Modal keep what they have
Crash ==
    /\ crashes < MaxCrashes
    /\ crashes' = crashes + 1
    /\ pc' = [r \in Requests |-> IF pc[r] \in {"out", "ready", "refused"} THEN pc[r] ELSE "done"]
    /\ fut' = [r \in Requests |-> "none"]
    /\ held' = [r \in Requests |-> Nobody]
    /\ joined' = [r \in Requests |-> Nobody]
    /\ cf' = [s \in Requests |-> CASE cf[s] = "queued" -> "cancelled"
                                   [] cf[s] = "running" -> "orphan"
                                   [] OTHER -> cf[s]]
    /\ waiter' = [s \in Requests |-> Nobody]
    /\ late' = [s \in Requests |-> Nobody]
    /\ settled' = [s \in Requests |-> cf[s] # "none"]
    /\ hung' = [s \in Requests |-> FALSE]
    /\ starts' = [u \in Students |-> Nobody]
    /\ lateTask' = {}
    /\ term' = [r \in Requests |-> "off"]
    /\ UNCHANGED <<rowVars, modalVars>>

\* Modal still serves a start whose caller is gone
OrphanUp(s) ==
    /\ cf[s] = "orphan"
    /\ cf' = [cf EXCEPT ![s] = "cancelled"]
    /\ modal' = [modal EXCEPT ![s] = "up"]
    /\ UNCHANGED <<rowVars, idle, handlerVars, waiter, late, settled, hung, starts, lateTask, term, crashes>>

-----------------------------------------------------------------------------
RowStep(r) == Create(r) \/ Connect(r) \/ RowEnds(r)
StartStep(s) == StartRuns(s) \/ StartAnswers(s) \/ StartHangs(s) \/ Settle(s) \/ OrphanUp(s)
HandlerStep(r) ==
    \/ StartSession(r) \/ StartTimeout(r) \/ Cancel(r) \/ Resume(r)
    \/ Attach(r) \/ TerminateNow(r) \/ EndEdgeFailed(r)
LateStep == \E t \in lateTask : LateAttach(t) \/ LateTerminate(t)
TerminateStep(r) ==
    TerminateRow(r) \/ TerminateLeft(r) \/ TerminateAnswers(r) \/ MarkTerminated(r)

Next ==
    \/ \E r \in Requests : RowStep(r) \/ StartStep(r) \/ HandlerStep(r) \/ TerminateStep(r)
    \/ \E u \in Students : StudentDeleted(u)
    \/ LateStep \/ Tick \/ Crash

(* The event loop runs every ready task, START_POOL every start it can,    *)
(* the sweep and the page end every row, the terminate loop takes every    *)
(* due row and its calls answer; time passes. Nobody has to reserve,       *)
(* connect or give up.                                                     *)
Fairness ==
    /\ \A r \in Requests :
         /\ WF_vars(RowEnds(r))
         /\ WF_vars(StartSession(r)) /\ WF_vars(Resume(r)) /\ WF_vars(Attach(r))
         /\ WF_vars(TerminateNow(r)) /\ WF_vars(EndEdgeFailed(r))
         /\ WF_vars(StartRuns(r)) /\ WF_vars(StartAnswers(r)) /\ WF_vars(Settle(r))
         /\ WF_vars(TerminateRow(r)) /\ WF_vars(TerminateAnswers(r)) /\ WF_vars(MarkTerminated(r))
    /\ WF_vars(LateStep) /\ WF_vars(Tick)

Spec == Init /\ [][Next]_vars /\ Fairness

-----------------------------------------------------------------------------
(* Properties.                                                             *)

\* Every variable has its type: the states of a row, a handler, a start and a
\* terminate call as the code distinguishes them.
TypeOK ==
    /\ status \in [Requests -> Live \cup {"none", "ended", "deleted"}]
    /\ edge \in [Requests -> Requests \cup {Nobody}]
    /\ sealed \in [Requests -> BOOLEAN] /\ age \in [Requests -> 0..(Idle + 1)]
    /\ modal \in [Requests -> {"none", "up", "gone"}] /\ idle \in [Requests -> 0..Idle]
    /\ pc \in [Requests -> {"out", "created", "waiting", "attach", "kill", "killLast", "fail",
                            "ready", "refused", "done"}]
    /\ fut \in [Requests -> {"none", "pending", "creds", "failed", "superseded"}]
    /\ held \in [Requests -> Requests \cup {Nobody}]
    /\ joined \in [Requests -> Requests \cup {Nobody}]
    /\ cf \in [Requests -> Running \cup {"none", "creds", "odd", "error", "cancelled", "orphan"}]
    /\ waiter \in [Requests -> Requests \cup {Nobody}]
    /\ late \in [Requests -> Requests \cup {Nobody}]
    /\ settled \in [Requests -> BOOLEAN] /\ hung \in [Requests -> BOOLEAN]
    /\ starts \in [Students -> Requests \cup {Nobody}]
    /\ lateTask \subseteq Requests \X Requests \X {"attach", "kill"}
    /\ term \in [Requests -> {"off", "call", "left", "mark"}] /\ crashes \in 0..MaxCrashes
    \* what is due has a session to end
    /\ \A r \in Requests : sealed[r] \/ term[r] # "off" => edge[r] # Nobody

\* A student's retries never hold two START_POOL workers or two GPU starts: of
\* the starts younger than START_JOIN_MAX_AGE_S at most one runs or waits
\* ("ONE start per student at a time"), whatever hung start settles meanwhile.
OneStartPerStudent ==
    \A s, t \in Requests :
        s # t /\ Student[s] = Student[t] =>
            ~ \A x \in {s, t} : cf[x] \in Running /\ ~settled[x] /\ ~hung[x]

\* A reserve answered with success holds, while its row is live, a session of
\* the same student that is up and that the terminate loop can end later: no
\* other request's handler, late path or terminate call ends the session under
\* a robot that runs on it.
ReadyIsUsable ==
    \A r \in Requests :
        pc[r] = "ready" /\ status[r] \in Live =>
            /\ sealed[r] /\ modal[edge[r]] = "up"
            /\ Student[edge[r]] = Student[r]

\* A reserve answered with an error leaves no live row behind, unless the call
\* that ends it failed: also when two tabs' requests reach the start in the
\* other order than their rows, and when a row already has a session.
RefusedRowEnded ==
    \A r \in Requests : pc[r] = "refused" => status[r] \notin Live

\* Whichever way a reserve was answered, the answer is true of its row: it has its
\* session, or it has ended, whatever the other requests of the student did.
AnswerIsTrue == ReadyIsUsable /\ RefusedRowEnded

Keeps(s) ==
    \/ cf[s] \in {"creds", "odd"} /\ ~settled[s]
    \/ \E r \in Requests : held[r] = s
    \/ \E t \in lateTask : t[2] = s
    \/ \E r \in Requests : edge[r] = s /\ sealed[r] /\ status[r] # "deleted"

\* A Modal session that is up always has something that will attach or end it:
\* its start's outcome, the request it was handed to, a late task, or a row
\* that still has its token ("one success = one Modal session = one attach").
NoLostSession == \A s \in Requests : modal[s] = "up" => Keeps(s)

\* The ciphertext of every token is erased in the end, whatever fails: the row
\* ends, and its session is terminated or given up on.
TokenErased == \A r \in Requests : sealed[r] ~> ~sealed[r]
=============================================================================
