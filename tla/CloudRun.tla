------------------------------ MODULE CloudRun ------------------------------
(***************************************************************************)
(* A run of cloud inference on the robot: the node's timer tick with the   *)
(* schedule it steps, the client's thread that has one observation at a    *)
(* time on the wire, and the mailboxes between them. The node's callbacks  *)
(* (start, stop, tick) exclude each other, so each is one action; the      *)
(* client runs beside them and answers when it likes. Positions are        *)
(* counted from the next action (e): queue[0] is the action for e. One     *)
(* tick of time is a period of the timer, which may come late.             *)
(***************************************************************************)
EXTENDS Integers, SequencesExt

CONSTANTS
    N,             \* actions_per_chunk
    Cadence,       \* cadence_steps
    ObsGap,        \* 1 / max_obs_per_s
    Resend,        \* resend_after_s
    Stall,         \* stall_end_s
    Loading,       \* LOADING_BUDGET_S
    HelloAttempts, \* HELLO_ATTEMPTS
    MaxGap,        \* bound: the longest time from one tick to the next
    Seqs,          \* bound: sequence numbers are counted modulo Seqs
    Nil

\* an observation in flight, and the schedule with the rows of the steps to come
Flights == [seq : Int, behind : Nat, age : Nat]
Queues == UNION {[S -> Nat] : S \in SUBSET (0 .. N - 1)}
Schedules ==
    [queue : Queues, fly : Flights \cup {Nil}, seq : Int, wait : Nat, steps : Nat \cup {Nil},
     plan : Nat \cup {Nil}, holding : BOOLEAN, held : Nat, stale : Int \cup {Nil}, bad : BOOLEAN]

ASSUME RunAssumption ==
    /\ {N, Cadence, ObsGap, Resend, Stall, Loading, HelloAttempts, MaxGap} \subseteq Nat \ {0}
    /\ Seqs \in Nat \ {0, 1}
    /\ Nil \notin Int \cup Flights \cup Schedules

VARIABLES
    run,      \* "off", "live" or "over": _cloud_run, and with it on_inference
    age,      \* since run.started
    sched,        \* the schedule, or Nil before the ready frame was seen
    moved,    \* the action of the last tick: the age of its newest row's picture, or Nil
    phase,    \* the client's _phase
    failed,   \* hellos that failed
    offers, results,   \* the mailboxes
    wire,     \* the requests on the wire
    cend,     \* _end: the server or the transport ended the run
    closing,  \* _closing, with the reason of the bye: "bye", "silent" or Nil
    gone      \* the client's thread ended, its tokens with it

runVars == <<run, age, sched, moved>>
clientVars == <<phase, failed, wire, cend, gone>>
cloudVars == <<runVars, clientVars, offers, results, closing>>

\* beyond this every age is the same to the properties
AgeCap == Resend + N * MaxGap + 1
Capped(a, cap) == IF a < cap THEN a ELSE cap

RunInit ==
    /\ run = "off" /\ age = 0 /\ sched = Nil /\ moved = Nil
    /\ phase = "connecting" /\ failed = 0 /\ offers = <<>> /\ results = <<>> /\ wire = {}
    /\ cend = FALSE /\ closing = Nil /\ gone = FALSE

-----------------------------------------------------------------------------
(* The schedule: what step does, in its order.                             *)

NewSchedule ==
    [queue |-> <<>>, fly |-> Nil, seq |-> 0, wait |-> ObsGap, steps |-> Nil, plan |-> Nil,
     holding |-> TRUE, held |-> 0, stale |-> Nil, bad |-> FALSE]

\* d periods later
Later(x, d) ==
    [x EXCEPT !.queue = [i \in DOMAIN @ |-> Capped(@[i] + d, AgeCap)],
              !.fly = IF @ = Nil THEN Nil ELSE [x.fly EXCEPT !.age = Capped(x.fly.age + d, AgeCap)],
              !.wait = Capped(@ + d, ObsGap), !.held = Capped(@ + d, AgeCap),
              !.plan = IF @ = Nil THEN Nil ELSE Capped(@ + d, Stall)]

\* the rows of a chunk for the steps to come, over what is queued for them
Planned(x) ==
    LET rows == {i - x.fly.behind : i \in x.fly.behind .. N - 1}
    IN [i \in DOMAIN x.queue \cup rows |-> IF i \in rows THEN x.fly.age ELSE x.queue[i]]

\* mutant: an answer without a chunk counts as a plan
AdoptAny(x, r) ==
    IF x.fly = Nil \/ r.seq # x.fly.seq THEN x
    ELSE IF r.chunk = "none" \/ x.stale = r.seq
         THEN [x EXCEPT !.fly = Nil, !.stale = Nil, !.plan = 0]
    ELSE IF r.chunk = "bad" THEN [x EXCEPT !.bad = TRUE]
    ELSE [x EXCEPT !.queue = Planned(x), !.fly = Nil, !.plan = 0]

\* _adopt: an answer r that is not for the observation in flight is dropped, one without a
\* chunk frees the slot, and so does one for a picture marked stale
Adopt(x, r) ==
    IF x.fly = Nil \/ r.seq # x.fly.seq THEN x
    ELSE IF r.chunk = "none" \/ x.stale = r.seq THEN [x EXCEPT !.fly = Nil, !.stale = Nil]
    ELSE IF r.chunk = "bad" THEN [x EXCEPT !.bad = TRUE]
    ELSE [x EXCEPT !.queue = Planned(x), !.fly = Nil, !.plan = 0]

Have(x) == 0 \in DOMAIN x.queue

\* mutant: a picture from before the hold may end it
HoldPlain(x) ==
    IF ~Have(x) /\ ~x.holding THEN [x EXCEPT !.holding = TRUE, !.held = 0]
    ELSE [x EXCEPT !.holding = @ /\ ~Have(x)]

\* without an action the arm holds: the picture on the wire is from before the hold
Hold(x) ==
    IF ~Have(x) /\ ~x.holding
    THEN [x EXCEPT !.holding = TRUE, !.held = 0,
                   !.stale = IF x.fly = Nil THEN @ ELSE x.fly.seq]
    ELSE [x EXCEPT !.holding = @ /\ ~Have(x)]

\* mutant: an overdue observation is given up
OverdueFrees(x) ==
    IF x.fly # Nil /\ x.fly.age >= Resend THEN [x EXCEPT !.fly = Nil] ELSE x

\* an observation that is not answered in time is marked, never given up
Overdue(x) ==
    IF x.fly # Nil /\ x.fly.age >= Resend THEN [x EXCEPT !.stale = x.fly.seq] ELSE x

\* adopt, hold, overdue
Stepped(x) == Overdue(Hold(FoldLeft(Adopt, x, results)))

\* malformed or not finite, the loading budget, the stall
RunEndsNow(x) ==
    \/ x.bad
    \/ IF x.plan = Nil THEN age' >= Loading ELSE x.plan >= Stall

\* an observation is due
ObsDue(x) ==
    /\ x.fly = Nil /\ x.wait >= ObsGap
    /\ (x.steps = Nil \/ x.holding \/ x.steps >= Cadence)

Sent(x) ==
    [x EXCEPT !.fly = [seq |-> x.seq, behind |-> 0, age |-> 0], !.seq = (@ + 1) % Seqs,
              !.wait = 0, !.steps = 0]

\* the action for e is published and e advances
Popped(x) ==
    IF ~Have(x) THEN x
    ELSE [x EXCEPT !.queue = [i \in {j - 1 : j \in DOMAIN @ \ {0}} |-> @[i + 1]],
                   !.steps = IF @ = Nil THEN Nil ELSE Capped(@ + 1, Cadence),
                   !.fly = IF @ = Nil THEN Nil ELSE [x.fly EXCEPT !.behind = x.fly.behind + 1]]

-----------------------------------------------------------------------------
(* The node.                                                               *)

\* the claim of the mode, the leader and the contract are checked before
Start ==
    /\ run = "off" /\ run' = "live"
    /\ UNCHANGED <<age, sched, moved, clientVars, offers, results, closing>>

\* _end_inference: the run is forgotten, the client told to close, with or without a bye
EndInference(reason) ==
    /\ run' = "over" /\ closing' = reason /\ moved' = Nil
    /\ UNCHANGED <<clientVars, offers, results>>

\* the page, the GUI, FINISH or STOP
Stop == run = "live" /\ EndInference("bye") /\ UNCHANGED <<age, sched>>

Passes(d) == run = "live" /\ age' = Capped(age + d, Loading)

\* the end of the client, seen by a tick
TickClientEnded(d) == Passes(d) /\ cend /\ EndInference("silent") /\ UNCHANGED sched

\* a leader that turns live, a ready frame or a picture that is refused, an error
TickFails(d) == Passes(d) /\ EndInference("bye") /\ UNCHANGED sched

TickLoading(d) ==
    /\ Passes(d) /\ ~cend /\ sched = Nil /\ phase # "ready"
    /\ IF age' >= Loading THEN EndInference("bye") /\ UNCHANGED sched
       ELSE moved' = Nil /\ UNCHANGED <<run, sched, clientVars, offers, results, closing>>

\* take_chunks, step, offer, publish
TickSteps(d, ready) ==
    /\ Passes(d) /\ ~cend /\ (sched # Nil \/ phase = "ready")
    /\ LET x == Stepped(IF sched = Nil THEN NewSchedule ELSE Later(sched, d)) IN
         IF RunEndsNow(x) THEN EndInference("bye") /\ sched' = x
         ELSE /\ sched' = Popped(IF ready /\ ObsDue(x) THEN Sent(x) ELSE x)
              /\ offers' = IF ready /\ ObsDue(x) THEN Append(offers, x.seq) ELSE offers
              /\ moved' = IF Have(x) THEN x.queue[0] ELSE Nil
              /\ results' = <<>>
              /\ UNCHANGED <<run, clientVars, closing>>

-----------------------------------------------------------------------------
(* The client.                                                             *)

\* _hello: the ready frame, an answer that ends the run, or another attempt
HelloReady ==
    /\ run # "off" /\ ~gone /\ ~cend /\ phase = "connecting"
    /\ phase' = "ready"
    /\ UNCHANGED <<runVars, failed, wire, cend, gone, offers, results, closing>>

HelloEnds ==
    /\ run # "off" /\ ~gone /\ ~cend /\ phase = "connecting"
    /\ cend' = TRUE
    /\ UNCHANGED <<runVars, phase, failed, wire, gone, offers, results, closing>>

HelloFails ==
    /\ run # "off" /\ ~gone /\ ~cend /\ phase = "connecting"
    /\ failed' = failed + 1 /\ cend' = (failed' = HelloAttempts)
    /\ UNCHANGED <<runVars, phase, wire, gone, offers, results, closing>>

\* the loop of _main: every offer becomes a request
Post ==
    /\ phase = "ready" /\ offers # <<>> /\ ~cend /\ closing = Nil
    /\ wire' = wire \cup Range(offers) /\ offers' = <<>>
    /\ UNCHANGED <<runVars, phase, failed, cend, gone, results, closing>>

\* _infer: a request ends with a chunk, without one, or with the end of the run, of which
\* nothing is reported
Answer(q, chunk) ==
    /\ q \in wire /\ wire' = wire \ {q}
    /\ results' = IF cend THEN results ELSE Append(results, [seq |-> q, chunk |-> chunk])
    /\ UNCHANGED <<runVars, phase, failed, cend, gone, offers, closing>>

EndsRun(q) ==
    /\ q \in wire /\ wire' = wire \ {q} /\ cend' = TRUE
    /\ offers' = IF cend THEN offers ELSE <<>>
    /\ UNCHANGED <<runVars, phase, failed, gone, results, closing>>

\* a bye if there is a reason, then what is left on the wire is cancelled
Close ==
    /\ closing # Nil /\ ~gone
    /\ gone' = TRUE /\ wire' = {}
    /\ UNCHANGED <<runVars, phase, failed, cend, offers, results, closing>>

\* an error in the transport
ThreadEnds ==
    /\ run # "off" /\ ~gone
    /\ gone' = TRUE /\ wire' = {} /\ cend' = TRUE
    /\ offers' = IF cend THEN offers ELSE <<>>
    /\ UNCHANGED <<runVars, phase, failed, results, closing>>

-----------------------------------------------------------------------------
Ticks ==
    \E d \in 1 .. MaxGap :
        \/ TickClientEnded(d) \/ TickFails(d) \/ TickLoading(d)
        \/ \E ready \in BOOLEAN : TickSteps(d, ready)
Answers == \E q \in wire : EndsRun(q) \/ \E chunk \in {"rows", "bad", "none"} : Answer(q, chunk)

RunNext ==
    \/ Start \/ Stop \/ Ticks \/ HelloReady \/ HelloEnds \/ HelloFails \/ Post \/ Answers \/ Close
    \/ ThreadEnds

\* The timer fires and the client's loop goes on. Nothing is assumed of the network: a
\* request may stay on the wire for ever
RunSpec == RunInit /\ [][RunNext]_cloudVars /\ WF_cloudVars(Ticks) /\ WF_cloudVars(Post) /\ WF_cloudVars(Close)

-----------------------------------------------------------------------------
(* Properties.                                                             *)

\* The arm never moves on an old picture: an action is published at most the overdue limit
\* and the length of a chunk, in ticks, after its picture was sent, however late answers and
\* ticks come; and what ends a hold was seen during that hold.
FreshMotion ==
    /\ [](moved # Nil => run = "live" /\ moved <= Resend - 1 + N * MaxGap)
    /\ [][sched # Nil /\ sched'.holding # sched.holding /\ sched.holding /\ moved' # Nil =>
            moved' <= Capped(sched.held + MaxGap, AgeCap)]_cloudVars

\* The slot and the wire agree across the two threads: an observation in flight is offered,
\* on the wire or answered, exactly once, and nothing else is. A slot that no request is for
\* would stop the run for good, and a second request would delay the first.
OneOnTheWire ==
    run = "live" /\ ~cend =>
        Len(offers) + Cardinality(wire) + Len(results)
            = IF sched # Nil /\ sched.fly # Nil THEN 1 ELSE 0

\* A run whose cloud or robot falls silent does not hold its arm for ever: from every moment
\* of a run the arm moves again or the run ends, and a run that ended gives its session and
\* its tokens up.
SilenceEnds ==
    /\ run = "live" ~> (moved # Nil \/ run = "over")
    /\ run = "over" ~> gone
=============================================================================
