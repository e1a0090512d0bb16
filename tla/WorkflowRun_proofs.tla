-------------------------- MODULE WorkflowRun_proofs --------------------------
(***************************************************************************)
(* For any number of runs and event blocks: a run that was told to end     *)
(* goes on to no further block (StopKept), one press of "Schritt" lets one *)
(* block through (OnePress), and on_workflow covers every run that Stop    *)
(* did not give up waiting for (ClaimCovers).                              *)
(***************************************************************************)
EXTENDS WorkflowRun, TLAPS

Labels == {"off", "wait", "queue", "check", "gate", "halted", "parked", "block", "move",
           "send", "await", "reap", "join", "report", "done"}

Typed ==
    /\ onWorkflow \in BOOLEAN
    /\ call \in [Runs -> {"idle", "claimed", "refused", "spawning", "over"}]
    /\ kind \in [Runs -> Managers] /\ run \in [Managers -> Runs \cup {0}]
    /\ stop \in [Managers -> BOOLEAN] /\ pause \in [Managers -> BOOLEAN]
    /\ resume \in [Managers -> BOOLEAN] /\ step \in [Managers -> BOOLEAN]
    /\ credit \in [Managers -> Int]
    /\ arm \in [Managers -> Threads \cup {None}]
    /\ pc \in [Threads -> Labels]
    /\ stopping \subseteq Managers
    /\ ended \subseteq Runs /\ early \subseteq Runs /\ late \subseteq Runs

\* Before a start has started the main thread there is none, and before it has armed the
\* manager the run has no thread at all and was never told to end.
Young ==
    \A r \in Runs :
        /\ call[r] # "over" => pc[<<r, "main">>] = "off"
        /\ call[r] \in {"idle", "claimed"} => \A x \in Threads : x[1] = r => pc[x] = "off"
        /\ call[r] \in {"idle", "claimed", "spawning"} => r \notin ended
        /\ call[r] = "spawning" => run[kind[r]] = r

\* A manager's current run is one of its own, and was launched.
Current ==
    \A k \in Managers : run[k] \in Runs =>
        kind[run[k]] = k /\ call[run[k]] \notin {"idle", "claimed"}

\* A thread that may still run a block is of its manager's current run, and if that run was
\* told to end, the manager's stop event is still set.
Owned ==
    \A x \in Threads : pc[x] \notin {"off", "done", "report"} =>
        run[kind[x[1]]] = x[1] /\ (x[1] \in ended => stop[kind[x[1]]])

\* Start and stop exclude each other, and so do two starts.
OneCallback ==
    \A r \in Runs : Starting(r) =>
        stopping = {} /\ \A q \in Runs : Starting(q) => q = r

Lasting == Typed /\ Young /\ Current /\ Owned /\ OneCallback

\* A run holds the claim from its start to its report; the ordinary ones exclude all others,
\* and a stop under way is for the one there is.
Holding(r) == Starting(r) \/ MainHolds(r)
Ordinary == Runs \ (early \cup late)
Alone == \A r \in Ordinary, q \in Runs : Holding(r) /\ Holding(q) => q = r
StopsIt == \A k \in stopping, r \in Ordinary : Holding(r) => r \in ended /\ kind[r] = k

Covered == ClaimHeld /\ Alone /\ StopsIt
WInv == Lasting /\ OneBlockPerStep /\ Covered

-----------------------------------------------------------------------------
\* The threads of a run: its main thread and its hats.
LEMMA ThreadFacts ==
    /\ \A r \in Runs : <<r, "main">> \in Threads /\ <<r, "main">>[1] = r
    /\ \A x \in Threads : /\ x[1] \in Runs /\ x = <<x[1], x[2]>>
                          /\ x[2] = "main" \/ x[2] \in HatsOf(x[1])
    /\ 0 \notin Runs
BY WorkflowAssumption DEF Threads, Runs

\* A step of a thread moves it from one block to the next, or ends it; it starts no thread,
\* reports none, and goes past a stop check only while the stop event is not set.
Advances(x) ==
    /\ UNCHANGED stop
    /\ \E to \in Labels \ {"off", "report", "join"} :
         /\ pc[x] \notin {"off", "done", "report"}
         /\ pc' = [pc EXCEPT ![x] = to]
         /\ pc[x] = "check" /\ to = "gate" => ~stop[Of(x)]
         /\ pc[x] = "move" /\ to = "send" => ~stop[Of(x)]

LEMMA AbortAdvances ==
    ASSUME NEW x, Aborts(x), pc[x] \in {"check", "halted", "block", "move"}
    PROVE  Advances(x)
<1>1. UNCHANGED stop
  BY DEF Aborts, events
<1>2. PICK to \in {"reap", "wait", "done"} : pc' = [pc EXCEPT ![x] = to]
  BY DEF Aborts, Goes
<1> QED
  BY <1>1, <1>2 DEF Advances, Labels

LEMMA BeginAdvances ==
    ASSUME NEW x, Begins(x), pc[x] \in {"gate", "halted", "parked"}
    PROVE  Advances(x)
BY DEF Begins, Goes, Advances, Labels

LEMMA ThreadsAdvance ==
    ASSUME NEW x \in Threads, RunsOn(x) \/ Trigger(x)
    PROVE  Advances(x) /\ UNCHANGED <<onWorkflow, call, kind, run, stopping, ended, early, late>>
<1>1. UNCHANGED <<onWorkflow, call, kind, run, stopping, ended, early, late>>
  BY DEF RunsOn, Trigger, callVars, history
<1> SUFFICES Advances(x)
  BY <1>1
<1>2. CASE HatTriggered(x) \/ HatStops(x) \/ HatTakesArm(x)
  BY <1>2 DEF HatTriggered, HatStops, HatTakesArm, Goes, Advances, Labels, events
<1>3. CASE Check(x)
  <2>1. CASE Aborts(x)
    BY <1>3, <2>1, AbortAdvances DEF Check
  <2>2. CASE ~stop[Of(x)] /\ Goes(x, "gate") /\ UNCHANGED events
    BY <1>3, <2>2 DEF Check, Goes, Advances, Labels, events
  <2>3. CASE Goes(x, IF Main(x) THEN "await" ELSE "wait") /\ UNCHANGED events
    BY <1>3, <2>3 DEF Check, Goes, Advances, Labels, events
  <2> QED
    BY <1>3, <2>1, <2>2, <2>3 DEF Check
<1>4. CASE Gate(x)
  <2>1. CASE Begins(x)
    BY <1>4, <2>1, BeginAdvances DEF Gate
  <2>2. CASE Goes(x, "halted") /\ UNCHANGED stop
    BY <1>4, <2>2 DEF Gate, Goes, Advances, Labels
  <2>3. CASE Goes(x, "parked") /\ UNCHANGED events
    BY <1>4, <2>3 DEF Gate, Goes, Advances, Labels, events
  <2> QED
    BY <1>4, <2>1, <2>2, <2>3 DEF Gate
<1>5. CASE Resumes(x)
  <2>1. CASE Begins(x)
    BY <1>5, <2>1, BeginAdvances DEF Resumes
  <2>2. CASE pc[x] = "halted" /\ Aborts(x)
    BY <2>2, AbortAdvances
  <2>3. CASE pc[x] = "parked" /\ Goes(x, "block") /\ UNCHANGED events
    BY <2>3 DEF Goes, Advances, Labels, events
  <2> QED
    BY <1>5, <2>1, <2>2, <2>3 DEF Resumes
<1>6. CASE Block(x)
  <2>1. CASE Aborts(x)
    BY <1>6, <2>1, AbortAdvances DEF Block
  <2>2. CASE (Goes(x, "check") \/ Goes(x, "move")) /\ UNCHANGED events
    BY <1>6, <2>2 DEF Block, Goes, Advances, Labels, events
  <2> QED
    BY <1>6, <2>1, <2>2 DEF Block
<1>7. CASE Move(x)
  <2>1. CASE Aborts(x)
    BY <1>7, <2>1, AbortAdvances DEF Move
  <2>2. CASE ~stop[Of(x)] /\ Goes(x, "send") /\ UNCHANGED events
    BY <1>7, <2>2 DEF Move, Goes, Advances, Labels, events
  <2>3. pc[x] = "move"
    BY <1>7 DEF Move
  <2>4. CASE Goes(x, "check") /\ UNCHANGED events
    <3>1. pc' = [pc EXCEPT ![x] = "check"] /\ UNCHANGED stop
      BY <2>4 DEF Goes, events
    <3>2. /\ "check" \in Labels \ {"off", "report", "join"} /\ "check" # "send"
          /\ pc[x] \notin {"off", "done", "report"} /\ pc[x] # "check"
      BY <2>3 DEF Labels
    <3> QED
      BY <3>1, <3>2, Zenon DEF Advances
  <2> QED
    BY <1>7, <2>1, <2>2, <2>4 DEF Move
<1>8. CASE Send(x) \/ Await(x)
  BY <1>8 DEF Send, Await, Goes, Advances, Labels, events
<1> QED
  BY <1>2, <1>3, <1>4, <1>5, <1>6, <1>7, <1>8 DEF RunsOn, Trigger

-----------------------------------------------------------------------------
\* The types.

ButtonsTyped ==
    /\ pause \in [Managers -> BOOLEAN] /\ resume \in [Managers -> BOOLEAN]
    /\ step \in [Managers -> BOOLEAN] /\ credit \in [Managers -> Int]
    /\ arm \in [Managers -> Threads \cup {None}]

LEMMA ThreadsKeepButtons ==
    ASSUME Typed, NEW x \in Threads, RunsOn(x) \/ Trigger(x)
    PROVE  ButtonsTyped'
<1> DEFINE k == Of(x)
<1>1. k \in Managers
  BY ThreadFacts DEF Typed, Of
<1>2. /\ pause \in [Managers -> BOOLEAN] /\ resume \in [Managers -> BOOLEAN]
      /\ step \in [Managers -> BOOLEAN] /\ credit \in [Managers -> Int]
      /\ arm \in [Managers -> Threads \cup {None}]
  BY DEF Typed
<1>3. CASE HatTriggered(x) \/ HatStops(x) \/ Send(x) \/ Await(x)
  BY <1>2, <1>3 DEF HatTriggered, HatStops, Send, Await, events, ButtonsTyped
<1>4. ASSUME UNCHANGED events, \/ UNCHANGED arm \/ Lets(x) \/ arm' = [arm EXCEPT ![k] = x]
      PROVE  ButtonsTyped'
  BY <1>1, <1>2, <1>4 DEF events, Lets, ButtonsTyped
<1>5. CASE HatTakesArm(x)
  BY <1>4, <1>5 DEF HatTakesArm
<1>6. ASSUME Aborts(x) PROVE ButtonsTyped'
  BY <1>4, <1>6 DEF Aborts
<1>7. CASE Check(x)
  BY <1>4, <1>6, <1>7 DEF Check, events
<1>8. ASSUME Begins(x) PROVE UNCHANGED <<pause, arm>> /\ credit' \in [Managers -> Int]
  BY <1>1, <1>2, <1>8 DEF Begins
<1>9. ASSUME ConsumesStepToken(x)
      PROVE  step' \in [Managers -> BOOLEAN] /\ resume' \in [Managers -> BOOLEAN]
  BY <1>1, <1>2, <1>9 DEF ConsumesStepToken
<1>10. CASE Gate(x)
  <2>1. CASE Begins(x) /\ UNCHANGED <<resume, step>>
    BY <1>2, <1>8, <2>1 DEF ButtonsTyped
  <2>2. CASE Begins(x) /\ ConsumesStepToken(x)
    BY <1>2, <1>8, <1>9, <2>2 DEF ButtonsTyped
  <2>3. CASE /\ pause' = [pause EXCEPT ![k] = TRUE] /\ resume' = [resume EXCEPT ![k] = FALSE]
             /\ UNCHANGED <<stop, step, credit, arm>>
    BY <1>1, <1>2, <2>3 DEF ButtonsTyped
  <2>4. CASE UNCHANGED <<events, arm>>
    BY <1>4, <2>4
  <2> QED
    BY <1>10, <2>1, <2>2, <2>3, <2>4 DEF Gate
<1>11. CASE Resumes(x)
  <2>1. CASE Begins(x) /\ UNCHANGED <<resume, step>>
    BY <1>2, <1>8, <2>1 DEF ButtonsTyped
  <2>2. CASE Begins(x) /\ ConsumesStepToken(x)
    BY <1>2, <1>8, <1>9, <2>2 DEF ButtonsTyped
  <2> QED
    BY <1>4, <1>6, <1>11, <2>1, <2>2 DEF Resumes
<1>12. CASE Block(x)
  BY <1>4, <1>6, <1>12 DEF Block
<1>13. CASE Move(x)
  BY <1>4, <1>6, <1>13 DEF Move, LetsIfMain
<1> QED
  BY <1>3, <1>5, <1>7, <1>10, <1>11, <1>12, <1>13 DEF RunsOn, Trigger

LEMMA TypedInit == Init => Typed
<1> SUFFICES ASSUME Init PROVE Typed
  OBVIOUS
<1>1. /\ call \in [Runs -> {"idle", "claimed", "refused", "spawning", "over"}]
      /\ kind \in [Runs -> Managers] /\ run \in [Managers -> Runs \cup {0}]
      /\ pc \in [Threads -> Labels]
  BY DEF Init, Managers, Labels
<1>2. /\ stop \in [Managers -> BOOLEAN] /\ pause \in [Managers -> BOOLEAN]
      /\ resume \in [Managers -> BOOLEAN] /\ step \in [Managers -> BOOLEAN]
      /\ credit \in [Managers -> Int] /\ arm \in [Managers -> Threads \cup {None}]
  BY DEF Init
<1> QED
  BY <1>1, <1>2 DEF Init, Typed

LEMMA TypedStep == Typed /\ [Next]_vars => Typed'
<1> SUFFICES ASSUME Typed, [Next]_vars PROVE Typed'
  OBVIOUS
<1> USE DEF Typed
<1>1. CASE UNCHANGED vars
  BY <1>1 DEF vars, callVars, events, history
<1>2. ASSUME NEW r \in Runs, NEW k \in Managers, Claim(r, k) PROVE Typed'
  BY <1>2 DEF Claim, events
<1>3. ASSUME NEW r \in Runs, Launch(r) PROVE Typed'
  <2>1. CASE Refuses(r)
    BY <1>3, <2>1 DEF Launch, Refuses, events, history
  <2>2. ASSUME NEW H \in SUBSET HatsOf(r), Arms(r, H) PROVE Typed'
    <3>1. pc' \in [Threads -> Labels]
      BY <2>2 DEF Arms, Labels
    <3>2. kind[r] \in Managers
      OBVIOUS
    <3>3. /\ stop' \in [Managers -> BOOLEAN] /\ pause' \in [Managers -> BOOLEAN]
          /\ resume' \in [Managers -> BOOLEAN] /\ step' \in [Managers -> BOOLEAN]
          /\ credit' \in [Managers -> Int]
      BY <2>2, <3>2 DEF Arms
    <3>4. call' \in [Runs -> {"idle", "claimed", "refused", "spawning", "over"}]
          /\ run' \in [Managers -> Runs \cup {0}]
      BY <2>2, <3>2 DEF Arms
    <3> QED
      BY <1>3, <2>2, <3>1, <3>3, <3>4 DEF Arms, Launch, history
  <2> QED
    BY <1>3, <2>1, <2>2 DEF Launch
<1>4. ASSUME NEW r \in Runs, LaunchMain(r) PROVE Typed'
  BY <1>4, ThreadFacts DEF LaunchMain, events, history, Labels
<1>5. ASSUME NEW r \in Runs, LaunchFails(r) PROVE Typed'
  BY <1>5 DEF LaunchFails, Fails
<1>6. ASSUME NEW r \in Runs, Unclaims(r) PROVE Typed'
  BY <1>6 DEF Unclaims, events, history
<1>7. ASSUME NEW r \in Runs, Reap(r) PROVE Typed'
  <2>1. pc' \in [Threads -> Labels]
    BY <1>7, ThreadFacts DEF Reap, Goes, Labels
  <2>2. stop' \in [Managers -> BOOLEAN] /\ resume' \in [Managers -> BOOLEAN]
    BY <1>7 DEF Reap
  <2> QED
    BY <1>7, <2>1, <2>2 DEF Reap, callVars
<1>8. ASSUME NEW r \in Runs, Joined(r) \/ Report(r) PROVE Typed'
  <2>1. pc' \in [Threads -> Labels]
    BY <1>8, ThreadFacts DEF Joined, Report, Goes, Labels
  <2>2. onWorkflow' \in BOOLEAN
    BY <1>8 DEF Joined, Report
  <2> QED
    BY <1>8, <2>1, <2>2 DEF Joined, Report, callVars, events, history
<1>9. ASSUME NEW k \in Managers, Pause(k) \/ Continue(k) PROVE Typed'
  BY <1>9 DEF Pause, Continue, callVars, history
<1>10. ASSUME NEW k \in Managers, Step(k) PROVE Typed'
  BY <1>10 DEF Step, callVars, history
<1>11. ASSUME NEW k \in Managers, Stop(k) PROVE Typed'
  <2>1. run[k] \in Runs
    BY <1>11 DEF Stop, Active, IsRunning
  <2> QED
    BY <1>11, <2>1 DEF Stop, callVars
<1>12. ASSUME NEW k \in Managers, StopReturns(k) PROVE Typed'
  <2>1. /\ onWorkflow' \in BOOLEAN /\ stopping' \subseteq Managers /\ early' \subseteq Runs
        /\ UNCHANGED <<callVars, events, arm, pc, ended, late>>
    BY <1>12 DEF StopReturns, IsRunning
  <2> QED
    BY <2>1 DEF callVars, events
<1>13. ASSUME NEW x \in Threads, RunsOn(x) \/ Trigger(x) PROVE Typed'
  <2>1. UNCHANGED <<onWorkflow, call, kind, run, stopping, ended, early, late>>
        /\ Advances(x)
    BY <1>13, ThreadsAdvance
  <2>2. pc' \in [Threads -> Labels] /\ UNCHANGED stop
    BY <2>1 DEF Advances
  <2> QED
    BY <1>13, <2>1, <2>2, ThreadsKeepButtons DEF ButtonsTyped
<1> QED
  BY <1>1, <1>2, <1>3, <1>4, <1>5, <1>6, <1>7, <1>8, <1>9, <1>10, <1>11, <1>12, <1>13 DEF Next

-----------------------------------------------------------------------------
\* Which threads live, and whose stop event is set.

LEMMA LastingInit == Init => Lasting
<1> SUFFICES ASSUME Init PROVE Lasting
  OBVIOUS
<1>1. \A x \in Threads : pc[x] = "off"
  BY DEF Init
<1>2. \A r \in Runs : call[r] = "idle" /\ r \notin ended
  BY DEF Init
<1>3. \A k \in Managers : run[k] \notin Runs
  BY ThreadFacts DEF Init
<1> QED
  BY <1>1, <1>2, <1>3, TypedInit, ThreadFacts
  DEF Lasting, Young, Current, Owned, OneCallback, Starting

\* Arming a manager clears its stop event: none of the threads it un-stops is one of a run
\* that was told to end.
LEMMA ArmsLasting ==
    ASSUME Lasting, Typed', NEW r \in Runs, call[r] = "claimed", UNCHANGED ended,
           UNCHANGED stopping, ~PrevRunThreadsAlive(kind[r]), NEW H \in SUBSET HatsOf(r), Arms(r, H)
    PROVE  Lasting'
<1> DEFINE k == kind[r]
<1>1. /\ Typed /\ k \in Managers /\ UNCHANGED kind
      /\ \A q \in Runs : call'[q] = IF q = r THEN "spawning" ELSE call[q]
      /\ \A m \in Managers : run'[m] = IF m = k THEN r ELSE run[m]
      /\ \A m \in Managers : m # k => stop'[m] = stop[m]
  BY DEF Lasting, Typed, Arms
<1>2. /\ \A x \in Threads : x[1] # r => pc'[x] = pc[x]
      /\ pc'[<<r, "main">>] = "off" /\ r \notin ended
      /\ \A x \in Threads : x[1] = r => pc[x] = "off"
  <2>1. r \notin ended /\ \A x \in Threads : x[1] = r => pc[x] = "off"
    BY DEF Lasting, Young
  <2>2. <<r, "main">> \notin {<<r, h>> : h \in H}
    BY WorkflowAssumption DEF HatsOf
  <2>3. \A x \in Threads : x[1] # r => x \notin {<<r, h>> : h \in H}
    OBVIOUS
  <2> QED
    BY <2>1, <2>2, <2>3, ThreadFacts DEF Arms
<1>3. OneCallback' /\ \A q \in Runs : call[q] = "spawning" => q = r
  BY <1>1 DEF Lasting, OneCallback, Starting
<1>4. Young'
  <2> SUFFICES ASSUME NEW q \in Runs
               PROVE  /\ call'[q] # "over" => pc'[<<q, "main">>] = "off"
                      /\ call'[q] \in {"idle", "claimed"} =>
                           \A x \in Threads : x[1] = q => pc'[x] = "off"
                      /\ call'[q] \in {"idle", "claimed", "spawning"} => q \notin ended'
                      /\ call'[q] = "spawning" => run'[kind'[q]] = q
    BY DEF Young
  <2>1. CASE q = r
    BY <1>1, <1>2, <2>1
  <2>2. CASE q # r
    <3>1. UNCHANGED <<call[q], pc[<<q, "main">>]>> /\ call[q] # "spawning"
      BY <1>1, <1>2, <1>3, <2>2, ThreadFacts
    <3> QED
      BY <1>2, <2>2, <3>1 DEF Lasting, Young
  <2> QED
    BY <2>1, <2>2
<1>5. Current'
  BY <1>1 DEF Lasting, Current
<1>6. ASSUME NEW x \in Threads, pc'[x] \notin {"off", "done", "report"}
      PROVE  run'[kind'[x[1]]] = x[1] /\ (x[1] \in ended' => stop'[kind'[x[1]]])
  <2>1. x[1] \in Runs /\ kind[x[1]] \in Managers
    BY <1>1, ThreadFacts DEF Typed
  <2>2. CASE x[1] = r
    BY <1>1, <1>2, <2>2
  <2>3. CASE x[1] # r
    <3>1. pc[x] \notin {"off", "done", "report"}
      BY <1>2, <1>6, <2>3
    <3>2. run[kind[x[1]]] = x[1] /\ (x[1] \in ended => stop[kind[x[1]]])
      BY <3>1 DEF Lasting, Owned
    <3>3. kind[x[1]] # k
      <4>1. SUFFICES ASSUME kind[x[1]] = k PROVE FALSE
        OBVIOUS
      <4>2. run[k] \in Runs /\ ~MainAlive(run[k]) /\ \A h \in HatsOf(run[k]) : ~Alive(<<run[k], h>>)
        BY <2>1, <3>2, <4>1 DEF PrevRunThreadsAlive
      <4>3. x[2] = "main" \/ x[2] \in HatsOf(run[k])
        BY <3>2, <4>1, ThreadFacts
      <4>4. x = <<run[k], x[2]>>
        BY <3>2, <4>1, ThreadFacts
      <4> QED
        BY <3>1, <4>2, <4>3, <4>4 DEF MainAlive, Alive
    <3> QED
      BY <1>1, <2>1, <3>2, <3>3
  <2> QED
    BY <2>2, <2>3
<1> QED
  BY <1>4, <1>5, <1>6, <1>3 DEF Lasting, Owned

LEMMA LastingStep == Lasting /\ [Next]_vars => Lasting'
<1> SUFFICES ASSUME Lasting, [Next]_vars PROVE Lasting'
  OBVIOUS
<1>0. Typed' /\ Typed /\ Young /\ Current /\ Owned /\ OneCallback
  BY TypedStep DEF Lasting
<1>1. CASE UNCHANGED vars
  BY <1>1, <1>0 DEF vars, callVars, events, history, Lasting, Young, Current, Owned,
     OneCallback, Starting
<1>2. ASSUME NEW r \in Runs, NEW k \in Managers, Claim(r, k) PROVE Lasting'
  <2>1. /\ UNCHANGED <<run, pc, ended, stop>> /\ call[r] = "idle"
        /\ \A q \in Runs : call'[q] = IF q = r THEN "claimed" ELSE call[q]
        /\ \A q \in Runs : q # r => kind'[q] = kind[q]
    BY <1>0, <1>2 DEF Claim, events, Typed
  <2>2. Young'
    BY <1>0, <2>1 DEF Young
  <2>3. OneCallback'
    BY <1>2, <2>1 DEF Claim, GroupFree, OneCallback, Starting
  <2>4. Current'
    BY <1>0, <2>1 DEF Current
  <2>5. Owned'
    BY <1>0, <2>1, ThreadFacts DEF Owned, Young
  <2> QED
    BY <1>0, <2>2, <2>4, <2>5, <2>3 DEF Lasting
<1>3. ASSUME NEW r \in Runs, Launch(r) PROVE Lasting'
  <2>1. CASE Refuses(r)
    <3>1. /\ UNCHANGED <<kind, run, pc, ended, stop, stopping>> /\ call[r] = "claimed"
          /\ \A q \in Runs : call'[q] = IF q = r THEN "refused" ELSE call[q]
      BY <1>0, <1>3, <2>1 DEF Launch, Refuses, events, history, Typed
    <3>2. Young'
      BY <1>0, <3>1, ThreadFacts DEF Young
    <3>3. Current' /\ Owned' /\ OneCallback'
      BY <1>0, <3>1 DEF Current, Owned, OneCallback, Starting
    <3> QED
      BY <1>0, <3>2, <3>3 DEF Lasting
  <2>2. CASE ~Refuses(r)
    BY <1>0, <1>3, <2>2, ArmsLasting DEF Launch, history
  <2> QED
    BY <2>1, <2>2
<1>4. ASSUME NEW r \in Runs, LaunchMain(r) PROVE Lasting'
  <2>1. /\ UNCHANGED <<kind, run, ended, stop, stopping>> /\ call[r] = "spawning"
        /\ \A q \in Runs : call'[q] = IF q = r THEN "over" ELSE call[q]
        /\ \A x \in Threads : pc'[x] = IF x = <<r, "main">> THEN "check" ELSE pc[x]
    BY <1>0, <1>4, ThreadFacts DEF LaunchMain, events, history, Typed
  <2>2. Young' /\ Current' /\ OneCallback'
    BY <1>0, <2>1, ThreadFacts DEF Young, Current, OneCallback, Starting
  <2>3. Owned'
    BY <1>0, <2>1, ThreadFacts DEF Owned, Young
  <2> QED
    BY <1>0, <2>2, <2>3 DEF Lasting
<1>5. ASSUME NEW r \in Runs, LaunchFails(r) PROVE Lasting'
  <2>1. /\ UNCHANGED <<kind, run, pc, stopping>> /\ call[r] = "spawning" /\ ended' = ended \cup {r}
        /\ \A q \in Runs : call'[q] = IF q = r THEN "refused" ELSE call[q]
        /\ \A m \in Managers : stop'[m] = (m = kind[r] \/ stop[m])
    BY <1>0, <1>5 DEF LaunchFails, Fails, Typed
  <2>2. Young' /\ Current' /\ OneCallback'
    BY <1>0, <2>1, ThreadFacts DEF Young, Current, OneCallback, Starting
  <2>3. Owned'
    BY <1>0, <2>1, ThreadFacts DEF Owned, Typed
  <2> QED
    BY <1>0, <2>2, <2>3 DEF Lasting
<1>6. ASSUME NEW r \in Runs, Unclaims(r) PROVE Lasting'
  <2>1. /\ UNCHANGED <<kind, run, pc, ended, stop, stopping>> /\ call[r] = "refused"
        /\ \A q \in Runs : call'[q] = IF q = r THEN "over" ELSE call[q]
    BY <1>0, <1>6 DEF Unclaims, events, history, Typed
  <2>2. Young' /\ Current' /\ Owned' /\ OneCallback'
    BY <1>0, <2>1 DEF Young, Current, Owned, OneCallback, Starting
  <2> QED
    BY <1>0, <2>2 DEF Lasting
<1>7. ASSUME NEW r \in Runs, Reap(r) PROVE Lasting'
  <2>1. /\ UNCHANGED <<call, kind, run, stopping>> /\ ended' = ended \cup {r} /\ pc[<<r, "main">>] = "reap"
        /\ \A m \in Managers : stop'[m] = (m = kind[r] \/ stop[m])
        /\ \A x \in Threads : pc'[x] = IF x = <<r, "main">> THEN "join" ELSE pc[x]
    BY <1>0, <1>7 DEF Reap, Goes, callVars, Typed
  <2>2. Young' /\ Current' /\ OneCallback'
    BY <1>0, <2>1, ThreadFacts DEF Young, Current, OneCallback, Starting
  <2>3. Owned'
    BY <1>0, <2>1, ThreadFacts DEF Owned, Typed
  <2> QED
    BY <1>0, <2>2, <2>3 DEF Lasting
<1>8. ASSUME NEW r \in Runs, Joined(r) \/ Report(r) PROVE Lasting'
  <2>1. /\ UNCHANGED <<call, kind, run, ended, stop, stopping>>
        /\ pc[<<r, "main">>] \in {"join", "report"}
        /\ \E to \in {"report", "done"} :
             \A x \in Threads : pc'[x] = IF x = <<r, "main">> THEN to ELSE pc[x]
    BY <1>0, <1>8 DEF Joined, Report, Goes, callVars, events, history, Typed
  <2>2. Young' /\ Current' /\ OneCallback'
    BY <1>0, <2>1, ThreadFacts DEF Young, Current, OneCallback, Starting
  <2>3. Owned'
    BY <1>0, <2>1 DEF Owned
  <2> QED
    BY <1>0, <2>2, <2>3 DEF Lasting
<1>9. ASSUME NEW k \in Managers, Pause(k) \/ Continue(k) \/ Step(k) \/ StopReturns(k)
      PROVE  Lasting'
  <2>1. UNCHANGED <<call, kind, run, ended, stop, pc>> /\ stopping' \subseteq stopping
    BY <1>9 DEF Pause, Continue, Step, StopReturns, callVars, events, history
  <2> QED
    BY <1>0, <2>1 DEF Lasting, Young, Current, Owned, OneCallback, Starting
<1>10. ASSUME NEW k \in Managers, Stop(k) PROVE Lasting'
  <2>1. /\ UNCHANGED <<call, kind, run, pc>> /\ ended' = ended \cup {run[k]}
        /\ run[k] \in Runs /\ MainAlive(run[k])
        /\ \A m \in Managers : stop'[m] = (m = k \/ stop[m])
    BY <1>0, <1>10 DEF Stop, Active, IsRunning, callVars, Typed
  <2>2. call[run[k]] = "over" /\ kind[run[k]] = k
    BY <1>0, <2>1 DEF Young, Current, MainAlive
  <2>3. Young' /\ Current' /\ OneCallback'
    BY <1>0, <1>10, <2>1, <2>2 DEF Young, Current, OneCallback, Starting, Stop, GroupFree
  <2>4. Owned'
    BY <1>0, <2>1, <2>2, ThreadFacts DEF Owned, Typed
  <2> QED
    BY <1>0, <2>3, <2>4 DEF Lasting
<1>11. ASSUME NEW x \in Threads, RunsOn(x) \/ Trigger(x) PROVE Lasting'
  <2>1. /\ UNCHANGED <<call, kind, run, ended, stop, stopping>>
        /\ pc[x] \notin {"off", "done", "report"}
        /\ \A y \in Threads : y # x => pc'[y] = pc[y]
    BY <1>0, <1>11, ThreadsAdvance DEF Advances, Typed
  <2>2. Young' /\ Current' /\ OneCallback'
    BY <1>0, <2>1, ThreadFacts DEF Young, Current, OneCallback, Starting
  <2>3. Owned'
    BY <1>0, <2>1 DEF Owned
  <2> QED
    BY <1>0, <2>2, <2>3 DEF Lasting
<1> QED
  BY <1>1, <1>2, <1>3, <1>4, <1>5, <1>6, <1>7, <1>8, <1>9, <1>10, <1>11 DEF Next

-----------------------------------------------------------------------------
\* The presses of "Schritt".

LEMMA ThreadsSpendPresses ==
    ASSUME Typed, NEW x \in Threads, RunsOn(x) \/ Trigger(x)
    PROVE  \/ UNCHANGED <<credit, step>>
           \/ /\ step[Of(x)] /\ step' = [step EXCEPT ![Of(x)] = FALSE]
              /\ credit' = [credit EXCEPT ![Of(x)] = @ - 1]
<1>1. Of(x) \in Managers
  BY ThreadFacts DEF Typed, Of
<1>2. ASSUME Begins(x), ~pause[Of(x)], UNCHANGED step PROVE UNCHANGED <<credit, step>>
  BY <1>1, <1>2 DEF Begins, Typed
<1>3. ASSUME Begins(x), ConsumesStepToken(x)
      PROVE  /\ step[Of(x)] /\ step' = [step EXCEPT ![Of(x)] = FALSE]
             /\ credit' = [credit EXCEPT ![Of(x)] = @ - 1]
  BY <1>1, <1>3 DEF Begins, ConsumesStepToken, Typed
<1>4. CASE Gate(x)
  BY <1>4, <1>2, <1>3 DEF Gate, events
<1>5. CASE Resumes(x)
  BY <1>5, <1>2, <1>3 DEF Resumes, Aborts, events
<1>6. CASE ~Gate(x) /\ ~Resumes(x)
  BY <1>6 DEF RunsOn, Trigger, HatTriggered, HatStops, HatTakesArm, Check, Block, Move, Send,
     Await, Aborts, events
<1> QED
  BY <1>4, <1>5, <1>6

LEMMA PressStep == Typed /\ OneBlockPerStep /\ [Next]_vars => OneBlockPerStep'
<1> SUFFICES ASSUME Typed, OneBlockPerStep, [Next]_vars PROVE OneBlockPerStep'
  OBVIOUS
<1> USE DEF OneBlockPerStep
<1>1. ASSUME UNCHANGED <<credit, step>>, \A k \in Managers : stop[k] => stop'[k]
      PROVE  OneBlockPerStep'
  BY <1>1 DEF Typed
<1>2. CASE UNCHANGED vars
  BY <1>1, <1>2 DEF vars, events
<1>3. ASSUME NEW r \in Runs, Launch(r) PROVE OneBlockPerStep'
  <2>1. CASE Refuses(r)
    BY <1>1, <2>1 DEF Refuses, events
  <2>2. ASSUME NEW H \in SUBSET HatsOf(r), Arms(r, H) PROVE OneBlockPerStep'
    BY <2>2 DEF Arms, Typed
  <2> QED
    BY <1>3, <2>1, <2>2 DEF Launch
<1>4. ASSUME NEW r \in Runs, \/ \E k \in Managers : Claim(r, k)
                            \/ LaunchMain(r) \/ Unclaims(r) \/ Joined(r) \/ Report(r)
      PROVE  OneBlockPerStep'
  BY <1>1, <1>4 DEF Claim, LaunchMain, Unclaims, Joined, Report, events
<1>5. ASSUME NEW r \in Runs, LaunchFails(r) \/ Reap(r) PROVE OneBlockPerStep'
  BY <1>5 DEF LaunchFails, Fails, Reap, Typed
<1>6. ASSUME NEW k \in Managers, Pause(k) \/ Continue(k) \/ StopReturns(k) PROVE OneBlockPerStep'
  BY <1>1, <1>6 DEF Pause, Continue, StopReturns, events
<1>7. ASSUME NEW k \in Managers, Step(k) PROVE OneBlockPerStep'
  BY <1>7 DEF Step, Active, IsRunning, Typed
<1>8. ASSUME NEW k \in Managers, Stop(k) PROVE OneBlockPerStep'
  BY <1>8 DEF Stop, Typed
<1>9. ASSUME NEW x \in Threads, RunsOn(x) \/ Trigger(x) PROVE OneBlockPerStep'
  <2>1. UNCHANGED stop /\ Of(x) \in Managers
    BY <1>9, ThreadsAdvance, ThreadFacts DEF Advances, Typed, Of
  <2>2. CASE UNCHANGED <<credit, step>>
    BY <1>1, <2>1, <2>2
  <2>3. CASE ~UNCHANGED <<credit, step>>
    BY <1>9, <2>1, <2>3, ThreadsSpendPresses DEF Typed
  <2> QED
    BY <2>2, <2>3
<1> QED
  BY <1>2, <1>3, <1>4, <1>5, <1>6, <1>7, <1>8, <1>9 DEF Next

-----------------------------------------------------------------------------
\* The claim.

\* A step that lets no run begin to hold the claim, and takes it from no ordinary run that
\* goes on to hold it.
LEMMA CoveredStays ==
    ASSUME Covered, Ordinary' \subseteq Ordinary,
           \A r \in Runs : Holding(r)' => Holding(r),
           \A r \in Ordinary' : Holding(r)' => onWorkflow \/ onWorkflow',
           onWorkflow => onWorkflow' \/ \A r \in Ordinary' : ~Holding(r)',
           \A k \in stopping', r \in Ordinary' : Holding(r)' => r \in ended' /\ kind'[r] = k
    PROVE  Covered'
<1>1. \A r \in Ordinary' : Holding(r)' => onWorkflow'
  BY DEF Ordinary
<1>2. ClaimHeld'
  BY <1>1 DEF ClaimHeld, Holding, Ordinary
<1> QED
  BY <1>2 DEF Covered, Alone, StopsIt, Ordinary

LEMMA CoveredStep == Lasting /\ Covered /\ [Next]_vars => Covered'
<1> SUFFICES ASSUME Lasting, Covered, [Next]_vars PROVE Covered'
  OBVIOUS
<1>0. /\ Typed /\ Young /\ Current /\ OneCallback /\ Alone /\ StopsIt
      /\ \A r \in Ordinary : Holding(r) => onWorkflow
  BY DEF Lasting, Covered, ClaimHeld, Holding, Ordinary
<1>1. CASE UNCHANGED vars
  BY <1>1 DEF vars, callVars, history, Covered, ClaimHeld, Alone, StopsIt, Ordinary, Holding,
     Starting, MainHolds
<1>2. ASSUME NEW r \in Runs, NEW k \in Managers, Claim(r, k) PROVE Covered'
  <2>1. /\ UNCHANGED <<pc, ended, early>> /\ stopping = {} /\ stopping' = {} /\ onWorkflow'
        /\ \A q \in Runs : ~Starting(q)
        /\ \A q \in Runs : Starting(q)' <=> q = r
        /\ ~onWorkflow /\ pc[<<r, "main">>] = "off"
        /\ late \subseteq late'
    BY <1>0, <1>2 DEF Claim, MayClaim, GroupFree, Starting, Typed, Young
  <2>2. \A q \in Runs : MainHolds(q)' <=> MainHolds(q)
    BY <2>1 DEF MainHolds
  <2>3. \A q \in Ordinary : ~Holding(q)
    BY <1>0, <2>1
  <2>4. ASSUME NEW q \in Ordinary', NEW p \in Runs, Holding(q)', Holding(p)' PROVE p = q
    <3>1. q = r
      BY <2>1, <2>2, <2>3, <2>4 DEF Ordinary, Holding
    <3>2. r \notin late'
      BY <3>1 DEF Ordinary
    <3>3. \A s \in early \cup late : ~MainHolds(s)
      BY <1>2, <3>2 DEF Claim
    <3> QED
      BY <2>1, <2>2, <2>3, <2>4, <3>1, <3>3 DEF Ordinary, Holding
  <2> QED
    BY <2>1, <2>4 DEF Covered, ClaimHeld, Alone, StopsIt
<1>3. ASSUME NEW r \in Runs, Launch(r) PROVE Covered'
  <2>1. /\ UNCHANGED <<onWorkflow, kind, stopping, ended, early, late>>
        /\ \A q \in Runs : Starting(q)' => Starting(q)
    BY <1>0, <1>3 DEF Launch, Refuses, Arms, Starting, history, Typed
  <2>2. \A q \in Runs : MainHolds(q)' => MainHolds(q)
    <3>1. \A q \in Runs : <<q, "main">> \notin {<<r, h>> : h \in HatsOf(r)}
      BY WorkflowAssumption DEF HatsOf
    <3>2. \A q \in Runs : pc'[<<q, "main">>] = pc[<<q, "main">>]
      <4>1. CASE Refuses(r)
        BY <4>1 DEF Refuses
      <4>2. ASSUME NEW H \in SUBSET HatsOf(r), Arms(r, H)
            PROVE  \A q \in Runs : pc'[<<q, "main">>] = pc[<<q, "main">>]
        BY <3>1, <4>2, ThreadFacts DEF Arms
      <4> QED
        BY <1>3, <4>1, <4>2 DEF Launch
    <3> QED
      BY <3>2 DEF MainHolds
  <2> QED
    BY <1>0, <2>1, <2>2, CoveredStays DEF Ordinary, Holding, StopsIt
<1>4. ASSUME NEW r \in Runs, LaunchMain(r) PROVE Covered'
  <2>1. /\ UNCHANGED <<onWorkflow, kind, stopping, ended, early, late>> /\ Starting(r)
        /\ \A q \in Runs : Starting(q)' => Starting(q)
        /\ \A q \in Runs : q # r => pc'[<<q, "main">>] = pc[<<q, "main">>]
    BY <1>0, <1>4, ThreadFacts DEF LaunchMain, Starting, history, Typed
  <2>2. \A q \in Runs : Holding(q)' => Holding(q)
    BY <2>1 DEF Holding, MainHolds
  <2> QED
    BY <1>0, <2>1, <2>2, CoveredStays DEF Ordinary, StopsIt
<1>5. ASSUME NEW r \in Runs, LaunchFails(r) PROVE Covered'
  <2>1. /\ UNCHANGED <<onWorkflow, kind, stopping, early, late, pc>> /\ ended \subseteq ended'
        /\ \A q \in Runs : Starting(q)' => Starting(q)
    BY <1>0, <1>5 DEF LaunchFails, Fails, Starting, Typed
  <2>2. \A q \in Runs : Holding(q)' => Holding(q)
    BY <2>1 DEF Holding, MainHolds
  <2> QED
    BY <1>0, <2>1, <2>2, CoveredStays DEF Ordinary, StopsIt
<1>6. ASSUME NEW r \in Runs, Unclaims(r) \/ Report(r) PROVE Covered'
  <2>1. /\ UNCHANGED <<kind, stopping, ended, early, late>> /\ Holding(r) /\ ~Holding(r)'
        /\ \A q \in Runs : Starting(q)' => Starting(q)
        /\ \A q \in Runs : q # r => pc'[<<q, "main">>] = pc[<<q, "main">>]
    <3>1. CASE Unclaims(r)
      BY <1>0, <3>1 DEF Unclaims, Starting, Holding, MainHolds, history, Typed, Young
    <3>2. CASE Report(r)
      BY <1>0, <3>2, ThreadFacts
      DEF Report, Goes, Starting, Holding, MainHolds, callVars, history, Typed, Young
    <3> QED
      BY <1>6, <3>1, <3>2
  <2>2. \A q \in Runs : Holding(q)' => Holding(q) /\ q # r
    BY <2>1 DEF Holding, MainHolds
  <2>3. \A q \in Ordinary' : ~Holding(q)'
    BY <1>0, <2>1, <2>2 DEF Alone, Ordinary
  <2> QED
    BY <1>0, <2>1, <2>2, <2>3, CoveredStays DEF Ordinary
<1>7. ASSUME NEW r \in Runs, Reap(r) \/ Joined(r) PROVE Covered'
  <2>1. /\ UNCHANGED <<onWorkflow, call, kind, stopping, early, late>> /\ ended \subseteq ended'
        /\ MainHolds(r)
        /\ \A q \in Runs : q # r => pc'[<<q, "main">>] = pc[<<q, "main">>]
    BY <1>0, <1>7, ThreadFacts DEF Reap, Joined, Goes, MainHolds, callVars, history, Typed
  <2>2. \A q \in Runs : Holding(q)' => Holding(q)
    BY <2>1 DEF Holding, Starting, MainHolds
  <2> QED
    BY <1>0, <2>1, <2>2, CoveredStays DEF Ordinary, StopsIt
<1>8. ASSUME NEW k \in Managers, Pause(k) \/ Continue(k) \/ Step(k) PROVE Covered'
  <2>1. UNCHANGED <<onWorkflow, call, kind, pc, stopping, ended, early, late>>
    BY <1>8 DEF Pause, Continue, Step, callVars, history
  <2>2. \A q \in Runs : Holding(q)' => Holding(q)
    BY <2>1 DEF Holding, Starting, MainHolds
  <2> QED
    BY <1>0, <2>1, <2>2, CoveredStays DEF Ordinary, StopsIt
<1>9. ASSUME NEW k \in Managers, Stop(k) PROVE Covered'
  <2>1. /\ UNCHANGED <<onWorkflow, call, kind, pc, early, late>>
        /\ stopping' = {k} /\ ended' = ended \cup {run[k]}
        /\ run[k] \in Runs /\ MainAlive(run[k])
    BY <1>9 DEF Stop, Active, IsRunning, GroupFree, callVars
  <2>2. \A q \in Runs : Holding(q)' => Holding(q)
    BY <2>1 DEF Holding, Starting, MainHolds
  <2>3. Holding(run[k]) /\ kind[run[k]] = k
    BY <1>0, <2>1 DEF Holding, MainHolds, MainAlive, Current
  <2>4. \A q \in Ordinary' : Holding(q)' => q \in ended' /\ kind'[q] = k
    BY <1>0, <2>1, <2>2, <2>3 DEF Alone, Ordinary
  <2> QED
    BY <1>0, <2>1, <2>2, <2>4, CoveredStays DEF Ordinary
<1>10. ASSUME NEW k \in Managers, StopReturns(k) PROVE Covered'
  <2>1. /\ UNCHANGED <<call, kind, pc, ended, late>> /\ k \in stopping /\ stopping' \subseteq stopping
        /\ early' = early \cup {r \in ended : kind[r] = k /\ MainHolds(r)}
    BY <1>10 DEF StopReturns, callVars, history
  <2>2. \A q \in Runs : Holding(q)' <=> Holding(q)
    BY <2>1 DEF Holding, Starting, MainHolds
  <2>3. \A q \in Ordinary' : ~Holding(q)'
    <3> SUFFICES ASSUME NEW q \in Ordinary', Holding(q) PROVE FALSE
      BY <2>2 DEF Ordinary
    <3>1. q \in Ordinary /\ ~Starting(q)
      BY <1>0, <2>1 DEF Ordinary, OneCallback
    <3>2. q \in ended /\ kind[q] = k /\ MainHolds(q)
      BY <1>0, <2>1, <3>1 DEF StopsIt, Holding
    <3> QED
      BY <2>1, <3>2 DEF Ordinary
  <2> QED
    BY <2>1, <2>2, <2>3, CoveredStays DEF Ordinary
<1>11. ASSUME NEW x \in Threads, RunsOn(x) \/ Trigger(x) PROVE Covered'
  <2>1. /\ UNCHANGED <<onWorkflow, call, kind, stopping, ended, early, late>>
        /\ pc[x] \notin {"off", "done"} /\ \A y \in Threads : y # x => pc'[y] = pc[y]
    BY <1>0, <1>11, ThreadsAdvance DEF Advances, Typed
  <2>2. \A q \in Runs : Holding(q)' => Holding(q)
    BY <2>1, ThreadFacts DEF Holding, Starting, MainHolds
  <2> QED
    BY <1>0, <2>1, <2>2, CoveredStays DEF Ordinary, StopsIt
<1> QED
  BY <1>1, <1>2, <1>3, <1>4, <1>5, <1>6, <1>7, <1>8, <1>9, <1>10, <1>11 DEF Next

-----------------------------------------------------------------------------
LEMMA Invariant == Spec => []WInv
<1>1. Init => WInv
  <2> SUFFICES ASSUME Init PROVE OneBlockPerStep /\ Covered
    BY LastingInit DEF WInv
  <2>1. \A r \in Runs : ~Holding(r)
    BY ThreadFacts DEF Init, Holding, Starting, MainHolds
  <2> QED
    BY <2>1 DEF Init, OneBlockPerStep, Covered, ClaimHeld, Alone, StopsIt, Ordinary, Holding
<1>2. WInv /\ [Next]_vars => WInv'
  BY LastingStep, PressStep, CoveredStep DEF WInv, Lasting
<1> QED
  BY <1>1, <1>2, PTL DEF Spec

\* on_workflow is held from the claim of a run until its main thread has reported, except
\* under the runs that Stop gave up waiting for and those claimed meanwhile
\* (workflow_start_callback, _on_workflow_finished).
THEOREM ClaimCovers == Spec => []ClaimHeld
<1>1. WInv => ClaimHeld
  BY DEF WInv, Covered
<1> QED
  BY <1>1, Invariant, PTL

\* Under a pause each press of "Schritt" lets exactly one block begin, whichever thread
\* takes it (_consume_step_token).
THEOREM OnePress == Spec => []OneBlockPerStep
<1>1. WInv => OneBlockPerStep
  BY DEF WInv
<1> QED
  BY <1>1, Invariant, PTL

\* No thread of a run that was told to end goes past a stop check again, though every start
\* clears its manager's stop event (start, _prev_run_threads_alive).
THEOREM StopKept == Spec => StopIsKept
<1>1. WInv /\ [Next]_vars =>
        [\A x \in Threads :
           ~(x[1] \in ended /\ \/ pc[x] = "check" /\ pc'[x] = "gate"
                               \/ pc[x] = "move" /\ pc'[x] = "send")]_vars
  <2> SUFFICES ASSUME WInv, Next, NEW x \in Threads, x[1] \in ended,
                      \/ pc[x] = "check" /\ pc'[x] = "gate"
                      \/ pc[x] = "move" /\ pc'[x] = "send"
               PROVE  FALSE
    OBVIOUS
  <2>1. Typed /\ Owned
    BY DEF WInv, Lasting
  <2>2. stop[Of(x)]
    BY <2>1 DEF Owned, Of
  <2>3. pc'[x] \in {"gate", "send"} /\ pc'[x] # pc[x]
    OBVIOUS
  <2>4. ASSUME NEW r \in Runs, Launch(r) PROVE FALSE
    <3>1. CASE Refuses(r)
      BY <2>3, <3>1 DEF Refuses
    <3>2. ASSUME NEW H \in SUBSET HatsOf(r), Arms(r, H) PROVE FALSE
      BY <2>3, <3>2 DEF Arms
    <3> QED
      BY <2>4, <3>1, <3>2 DEF Launch
  <2>5. ASSUME NEW r \in Runs, LaunchMain(r) \/ Reap(r) \/ Joined(r) \/ Report(r) PROVE FALSE
    <3>1. PICK to \in {"check", "join", "report", "done"} : pc' = [pc EXCEPT ![<<r, "main">>] = to]
      BY <2>5 DEF LaunchMain, Reap, Joined, Report, Goes
    <3> QED
      BY <2>1, <2>3, <3>1, ThreadFacts DEF Typed
  <2>6. ASSUME NEW y \in Threads, RunsOn(y) \/ Trigger(y) PROVE FALSE
    <3>1. Advances(y)
      BY <2>6, ThreadsAdvance
    <3>2. y = x
      BY <2>1, <2>3, <3>1 DEF Advances, Typed
    <3> QED
      BY <2>1, <2>2, <3>1, <3>2 DEF Advances, Typed
  <2>7. ASSUME UNCHANGED pc PROVE FALSE
    BY <2>3, <2>7
  <2>8. ASSUME NEW r \in Runs, \/ \E k \in Managers : Claim(r, k)
                              \/ LaunchFails(r) \/ Unclaims(r)
        PROVE  FALSE
    BY <2>7, <2>8 DEF Claim, LaunchFails, Unclaims
  <2>9. ASSUME NEW k \in Managers,
               Pause(k) \/ Continue(k) \/ Step(k) \/ Stop(k) \/ StopReturns(k)
        PROVE  FALSE
    BY <2>7, <2>9 DEF Pause, Continue, Step, Stop, StopReturns
  <2> QED
    BY <2>4, <2>5, <2>6, <2>8, <2>9 DEF Next
<1> QED
  BY <1>1, Invariant, PTL DEF Spec, StopIsKept
=============================================================================
