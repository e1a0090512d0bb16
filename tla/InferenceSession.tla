-------------------------- MODULE InferenceSession --------------------------
(***************************************************************************)
(* Cloud inference: the rows of inference_sessions, their clock, and the   *)
(* run log written from them (migration 048, inference_sessions.py).       *)
(*                                                                         *)
(* Every RPC is one transaction on locked rows, so one step; now() is its  *)
(* start, which a wait for the lock leaves up to Lag behind the commit.    *)
(* A call with a stale token or of a replaced connection changes nothing   *)
(* and is not a step.                                                      *)
(***************************************************************************)
EXTENDS Integers, FiniteSets, Functions

CONSTANTS
    Sessions,       \* row ids
    Students,
    Conns,          \* connection ids of robots
    Loggers,        \* API processes running sweep_loop
    SessionMax,     \* SESSION_MAX_S
    DailyCap,       \* DAILY_CAP_S
    GlobalCap,      \* GLOBAL_CAP
    MinLeft,        \* 60 s: less is no session
    ReserveS,       \* RESERVE_S
    ArmS,           \* 60 s to connect after an arm
    PageQuiet,      \* 45 s
    ServerQuiet,    \* 60 s
    DayLen,         \* a calendar day
    Lag,            \* longest wait for a lock
    MaxTime,        \* bound of the clock
    Nobody

ASSUME SessionAssumption ==
    /\ {SessionMax, DailyCap, GlobalCap, MinLeft, ReserveS, ArmS, DayLen} \subseteq Nat \ {0}
    /\ {PageQuiet, ServerQuiet, Lag, MaxTime} \subseteq Nat
    /\ MinLeft <= SessionMax
    /\ Nobody \notin Students \cup Conns
    /\ IsFiniteSet(Sessions)

VARIABLES
    now,
    row,        \* inference_sessions
    pass,       \* log_ended_sessions: ids it read and rows it marked
    runs        \* inference_runs rows of a session

vars == <<now, row, pass, runs>>

Never == -1
Live == {"reserved", "active"}

NoRow ==
    [status |-> "none", student |-> Nobody, created |-> Never, until |-> Never, len |-> 0,
     attached |-> Never, armed |-> Never, connected |-> Never, maxEnd |-> Never, conn |-> Nobody,
     serverBeat |-> Never, pageBeat |-> Never, ended |-> Never, reason |-> "", active |-> 0,
     logged |-> FALSE]

Init ==
    /\ now = 0
    /\ row = [s \in Sessions |-> NoRow]
    /\ pass = [w \in Loggers |-> [ids |-> {}, marked |-> {}]]
    /\ runs = [s \in Sessions |-> 0]

-----------------------------------------------------------------------------
(* A row and its clock: v is a row, t a transaction's now().               *)

Least(m, n) == IF m < n THEN m ELSE n
Greatest(m, n) == IF m < n THEN n ELSE m

Starts == Greatest(0, now - Lag)..now

\* connected time of v, from its start to t or its limit
RunTo(v, t) ==
    IF v.connected = Never THEN 0 ELSE Greatest(0, Least(t, v.maxEnd) - v.connected)

\* mutant: an ended row is ended again
FinishedAgain(v, why, t) ==
    IF v.status = "none" THEN v
    ELSE [v EXCEPT !.status = "ended", !.ended = t, !.reason = why, !.active = RunTo(v, t)]

\* _inference_session_finish (and columns that nothing reads after the end are reset)
Finished(v, why, t) ==
    IF v.status \notin Live THEN v
    ELSE [v EXCEPT !.status = "ended", !.ended = t, !.reason = why, !.active = RunTo(v, t),
                   !.conn = Nobody, !.until = Never, !.serverBeat = Never, !.pageBeat = Never]

\* the limit v is past at t
Limit(v, t) ==
    CASE v.status = "reserved" /\ t >= v.until -> "never_connected"
      [] v.status = "active" /\ t >= v.maxEnd -> "expired"
      [] v.attached # Never /\ Greatest(v.pageBeat, v.attached) < t - PageQuiet -> "client_gone"
      [] OTHER -> ""

Due(v, t) == v.status \in Live /\ Limit(v, t) # ""

\* _inference_session_expire_if_due
Expired(v, t) == IF Due(v, t) THEN Finished(v, Limit(v, t), t) ELSE v

\* connected time of each row up to t
RunAt(t) ==
    [s \in Sessions |-> RunTo(row[s], IF row[s].status = "ended" THEN row[s].ended ELSE t)]

CreatedOn(u, d) == {s \in Sessions : row[s].student = u /\ row[s].created \div DayLen = d}

\* _inference_used_today_s of a student whose live row has been superseded at t
UsedToday(u, t) == SumFunctionOnSet(RunAt(t), CreatedOn(u, t \div DayLen))

Remaining(u, t) == DailyCap - UsedToday(u, t)

LiveOthers(u) == {s \in Sessions : row[s].status \in Live /\ row[s].student # u}

\* mutant: a run in progress is left alone
SupersedesReserved(u, v) == v.student = u /\ v.status = "reserved"

\* the rows that the student's new one ends, if they are live
Supersedes(u, v) == v.student = u

\* create_inference_session_safe
Create(u, s, t) ==
    /\ row[s].status = "none"
    /\ Remaining(u, t) \in MinLeft..DailyCap
    /\ Cardinality(LiveOthers(u)) < GlobalCap
    /\ row' = [q \in Sessions |->
         CASE q = s -> [NoRow EXCEPT !.status = "reserved", !.student = u, !.created = t,
                                     !.until = t + ReserveS, !.pageBeat = t,
                                     !.len = Least(SessionMax, Remaining(u, t))]
           [] Supersedes(u, row[q]) -> Finished(row[q], "superseded", t)
           [] OTHER -> row[q]]
    /\ UNCHANGED <<now, pass, runs>>

\* the row of one call, and what the call makes of it
Writes(s, v) ==
    /\ row' = [row EXCEPT ![s] = v]
    /\ UNCHANGED <<now, pass, runs>>

\* attach_inference_edge
Attach(s, t) ==
    /\ row[s].status # "none" /\ row[s].attached = Never
    /\ Writes(s, Expired([row[s] EXCEPT !.attached = t], t))

\* mutant: a Start in the last seconds gets what is left of the window
ArmUntilAsReserved(v, t) == v.until

ArmUntil(v, t) == Greatest(v.until, t + ArmS)

\* arm_inference_session
Arm(s, t) ==
    LET v == row[s]
    IN  /\ v.status \in Live
        /\ \/ Due(v, t) /\ Writes(s, Expired(v, t))
           \/ /\ ~Due(v, t) /\ v.status = "reserved" /\ v.attached # Never
              /\ Writes(s, [v EXCEPT !.armed = t, !.pageBeat = t, !.until = ArmUntil(v, t)])

\* mutant: a reconnect starts the clock again
ClockRestarted(v, t) == t + v.len

\* the clock starts once
Clock(v, t) == IF v.maxEnd # Never THEN v.maxEnd ELSE t + v.len

Connectable(v, t) == v.status \in Live /\ v.attached # Never /\ v.armed # Never /\ ~Due(v, t)

\* inference_session_connect; the robot has the token of the last arm
Connect(s, c, t) ==
    LET v == row[s]
    IN  \/ Due(v, t) /\ v.armed # Never /\ Writes(s, Expired(v, t))
        \/ /\ Connectable(v, t)
           /\ Writes(s, [v EXCEPT !.status = "active", !.conn = c, !.serverBeat = t,
                                  !.connected = IF @ = Never THEN t ELSE @,
                                  !.maxEnd = Clock(v, t)])

\* inference_session_peek (a prefetch, a check) and every heartbeat end a due row
Peek(s, t) == Due(row[s], t) /\ row[s].attached # Never /\ Writes(s, Expired(row[s], t))

\* inference_session_heartbeat
ServerHeartbeat(s, c, t) ==
    /\ row[s].status = "active" /\ row[s].conn = c /\ ~Due(row[s], t)
    /\ Writes(s, [row[s] EXCEPT !.serverBeat = t])

\* inference_session_end, by the current connection
RobotEnds(s, c, t) ==
    /\ row[s].status = "active" /\ row[s].conn = c
    /\ Writes(s, Finished(row[s], "robot", t))

\* heartbeat_inference_session_client
PageHeartbeat(s, t) ==
    /\ row[s].status \in Live
    /\ Writes(s, IF Due(row[s], t) THEN Expired(row[s], t) ELSE [row[s] EXCEPT !.pageBeat = t])

\* end_inference_session: user_stop by the page, edge_failed by the API
PageEnds(s, t) == row[s].status \in Live /\ Writes(s, Finished(row[s], "stop", t))

\* sweep_inference_sessions, one row of it; rows locked by others are skipped
Sweep(s, t) ==
    LET v == row[s]
    IN  \/ Due(v, t) /\ Writes(s, Expired(v, t))
        \/ /\ v.status = "active" /\ ~Due(v, t) /\ v.serverBeat < t - ServerQuiet
           /\ Writes(s, Finished(v, "server_gone", t))

-----------------------------------------------------------------------------
(* log_ended_sessions: read, mark, insert are three calls.                 *)

Unlogged(s) == row[s].status = "ended" /\ ~row[s].logged

LogRead(w) ==
    /\ pass[w] = [ids |-> {}, marked |-> {}]
    /\ \E s \in Sessions : Unlogged(s)
    /\ pass' = [pass EXCEPT ![w].ids = {s \in Sessions : Unlogged(s)}]
    /\ UNCHANGED <<now, row, runs>>

\* mutant: the update does not ask again whether the row is unlogged
MarksAll(w) == pass[w].ids

Marks(w) == {s \in pass[w].ids : ~row[s].logged}

LogMark(w) ==
    /\ pass[w].ids # {}
    /\ row' = [s \in Sessions |-> IF s \in Marks(w) THEN [row[s] EXCEPT !.logged = TRUE] ELSE row[s]]
    /\ pass' = [pass EXCEPT ![w] = [ids |-> {}, marked |-> Marks(w)]]
    /\ UNCHANGED <<now, runs>>

\* only runs the robot connected to
LogInsert(w) ==
    /\ pass[w].marked # {}
    /\ runs' = [s \in Sessions |-> IF s \in pass[w].marked /\ row[s].connected # Never
                                   THEN runs[s] + 1 ELSE runs[s]]
    /\ pass' = [pass EXCEPT ![w].marked = {}]
    /\ UNCHANGED <<now, row>>

\* a call fails or the process stops: the rows it marked are not written
LogLost(w) ==
    /\ pass[w] # [ids |-> {}, marked |-> {}]
    /\ pass' = [pass EXCEPT ![w] = [ids |-> {}, marked |-> {}]]
    /\ UNCHANGED <<now, row, runs>>

Tick ==
    /\ now < MaxTime
    /\ now' = now + 1
    /\ UNCHANGED <<row, pass, runs>>

Next ==
    \/ \E t \in Starts, s \in Sessions :
         \/ \E u \in Students : Create(u, s, t)
         \/ Attach(s, t) \/ Arm(s, t) \/ Peek(s, t)
         \/ PageHeartbeat(s, t) \/ PageEnds(s, t) \/ Sweep(s, t)
         \/ \E c \in Conns : Connect(s, c, t) \/ ServerHeartbeat(s, c, t) \/ RobotEnds(s, c, t)
    \/ \E w \in Loggers : LogRead(w) \/ LogMark(w) \/ LogInsert(w) \/ LogLost(w)
    \/ Tick

Spec == Init /\ [][Next]_vars

-----------------------------------------------------------------------------
(* Properties.                                                             *)

Times == -1..(MaxTime + SessionMax + ReserveS + ArmS)

Row ==
    [status : Live \cup {"none", "ended"}, student : Students \cup {Nobody},
     created : Times, until : Times, len : 0..SessionMax,
     attached : Times, armed : Times, connected : Times, maxEnd : Times, conn : Conns \cup {Nobody},
     serverBeat : Times, pageBeat : Times, ended : Times,
     reason : {"", "never_connected", "expired", "client_gone", "superseded", "server_gone",
               "robot", "stop"},
     active : 0..SessionMax, logged : BOOLEAN]

\* the table's CHECK constraints
Consistent(v) ==
    /\ v.status = "ended" <=> v.ended # Never /\ v.reason # ""
    /\ v.status = "active" => v.connected # Never /\ v.attached # Never
    /\ v.connected = Never <=> v.maxEnd = Never

\* Every row satisfies the table's types and its CHECK constraints; in
\* particular no run is billed more than its session_s.
TypeOK ==
    /\ now \in 0..MaxTime
    /\ row \in [Sessions -> Row]
    /\ pass \in [Loggers -> [ids : SUBSET Sessions, marked : SUBSET Sessions]]
    /\ runs \in [Sessions -> Nat]
    /\ \A s \in Sessions : Consistent(row[s])

\* A student has one live row at most, whatever calls of an older row are late.
OneLivePerStudent ==
    \A s, q \in Sessions :
        s # q /\ row[s].status \in Live /\ row[q].status \in Live => row[s].student # row[q].student

\* The connected time of the sessions a student created on one day never
\* exceeds the daily cap, through reconnects, supersedes and midnight.
DailyUse ==
    \A u \in Students, d \in 0..(MaxTime \div DayLen) :
        SumFunctionOnSet(RunAt(now), CreatedOn(u, d)) <= DailyCap

\* An ended row's end, reason and billed seconds never change again: a late
\* connect, attach, heartbeat or second end of it is without effect.
EndIsFinal ==
    [][\A s \in Sessions : row[s].status = "ended" =>
         /\ row'[s].status = "ended" /\ row'[s].ended = row[s].ended
         /\ row'[s].reason = row[s].reason /\ row'[s].active = row[s].active]_vars

\* A teacher sees a cloud run once at most, and only one whose robot had
\* connected, although two API processes may log at the same time ("a lost
\* insert drops one teacher row, it never duplicates one").
RunLoggedOnce ==
    \A s \in Sessions :
        /\ runs[s] <= 1
        /\ runs[s] = 1 => row[s].logged /\ row[s].status = "ended" /\ row[s].connected # Never

\* After a Start was answered the robot has its minute to connect before the
\* row is ended as never connected (F-8).
ArmedHasMinute ==
    \A s \in Sessions :
        row[s].reason = "never_connected" /\ row[s].armed # Never =>
            row[s].ended >= row[s].armed + ArmS

\* A session ends once, and not before its robot had the time to connect.
EndIsJust == []ArmedHasMinute /\ EndIsFinal
=============================================================================
