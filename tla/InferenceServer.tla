--------------------------- MODULE InferenceServer ---------------------------
(***************************************************************************)
(* One container of the cloud inference server: the tasks of its event     *)
(* loop that answer hello, infer, bye and prefetch, the pool of CPU        *)
(* threads that load models and decode pictures, the one GPU thread that   *)
(* computes chunks and warms models up, the cache of engines with its      *)
(* leases, and the entry it keeps of each session, checked against the     *)
(* session's row from time to time but never while an observation waits.   *)
(* Up to an await a task is one action; the pools run beside it.           *)
(***************************************************************************)
EXTENDS Integers, SequencesExt

CONSTANTS
    Reqs,          \* requests under way at the same time: a bound
    Connections,   \* one for each run of a robot
    Tokens,        \* connect tokens, one for each armed session
    TokenOf,       \* of each connection
    Models,
    ModelOf,       \* of each token: the row's model
    MaxModels,     \* LRU_MAX_MODELS
    CpuThreads,    \* CPU_THREADS
    MaxHellos,     \* HELLO_ATTEMPTS of each robot's client; 0: only its page prefetches
    Ttl,           \* HTTPS_CACHE_TTL_S
    Retry,         \* HEARTBEAT_RETRY_S
    Rpc,           \* RPC_TIMEOUT_S: a check has its answer, or failed, after that
    FailClosed,    \* HEARTBEAT_FAIL_CLOSED_S
    Evict,         \* HTTPS_ENTRY_EVICT_S
    MaxClock,      \* bound
    None

ASSUME ServerAssumption ==
    /\ TokenOf \in [Connections -> Tokens] /\ ModelOf \in [Tokens -> Models]
    /\ {MaxModels, CpuThreads} \subseteq Nat \ {0}
    /\ MaxHellos \in [Connections -> Nat]
    /\ {Ttl, Retry, Rpc, FailClosed, Evict, MaxClock} \subseteq Nat
    /\ IsFiniteSet(Reqs)
    /\ None \notin Connections \cup Int /\ "over" \notin Connections \cup {None}

VARIABLES
    req,     \* what each request is doing, for whom
    cpu,     \* cpu_pool's queue of requests
    gpu,     \* gpu_pool's queue: the first one is on the thread
    slots,   \* _slots: the cached models
    older,   \* the order of _slots: pairs of which the first was leased before the second
    refs,    \* the reference counts
    entry,   \* entries: of each token, or None
    cur,     \* the row: the connection it is bound to, None, or "over"
    robot,   \* "new", "ready" (it had its ready frame) or "gone", of each connection
    tries,   \* the hellos it has sent
    time

poolVars == <<cpu, gpu>>
cacheVars == <<slots, older, refs>>
robotVars == <<robot, tries>>
serverVars == <<req, poolVars, cacheVars, entry, cur, robotVars, time>>

Free == [pc |-> "free", kind |-> "none", conn |-> None, at |-> 0]
Token(q) == TokenOf[req[q].conn]
Model(q) == ModelOf[Token(q)]

ServerInit ==
    /\ req = [q \in Reqs |-> Free] /\ cpu = <<>> /\ gpu = <<>>
    /\ slots = {} /\ older = {} /\ refs = [m \in Models |-> 0]
    /\ entry = [t \in Tokens |-> None] /\ cur = [t \in Tokens |-> None]
    /\ robot = [c \in Connections |-> "new"] /\ tries = [c \in Connections |-> 0]
    /\ time = 0

At(q, pc) == req[q].pc = pc
Goes(q, pc) == req' = [req EXCEPT ![q].pc = pc]
Answered(q) == req' = [req EXCEPT ![q] = Free]

-----------------------------------------------------------------------------
(* The cache.                                                              *)

Cached(m) == m \in slots

\* _lease_locked's move_to_end
MovedToEnd(m) == {p \in older : m \notin {p[1], p[2]}} \cup {<<k, m>> : k \in slots \ {m}}

\* _evict_locked, on the slots S, their order o and the counts r: while there are too many,
\* the oldest that nobody uses
Victims(S, o, r) ==
    {out \in SUBSET {m \in S : r[m] = 0} :
        /\ \A m \in out, k \in S \ out : r[k] = 0 => <<m, k>> \in o
        /\ out # {} => Cardinality(S \ out) >= MaxModels
        /\ Cardinality(S \ out) > MaxModels => \A m \in S \ out : r[m] > 0}
Evicts(S, o, r) ==
    \E out \in Victims(S, o, r) :
        slots' = S \ out /\ older' = {p \in o : {p[1], p[2]} \cap out = {}}

\* the lease on a cached engine
Lease(m) ==
    /\ refs' = [refs EXCEPT ![m] = @ + 1]
    /\ older' = MovedToEnd(m) /\ UNCHANGED slots

\* Lease.release, then eviction
Release(m) ==
    LET r == IF Cached(m) /\ refs[m] > 0 THEN [refs EXCEPT ![m] = @ - 1] ELSE refs
    IN refs' = r /\ Evicts(slots, older, r)

\* acquire's end: the warmed engine gets its slot and its lease, then eviction
Insert(m) ==
    LET r == [refs EXCEPT ![m] = 1]
    IN refs' = r /\ Evicts(slots \cup {m}, MovedToEnd(m), r)

\* _lease, for the request r: the cached engine at once, or a job for the CPU pool
AsksEngine(q, r) ==
    LET m == ModelOf[TokenOf[r.conn]] IN
    IF Cached(m)
    THEN /\ req' = [req EXCEPT ![q] = [r EXCEPT !.pc = "leased"]]
         /\ Lease(m) /\ UNCHANGED poolVars
    ELSE /\ req' = [req EXCEPT ![q] = [r EXCEPT !.pc = "queued"]]
         /\ cpu' = Append(cpu, q) /\ UNCHANGED <<gpu, cacheVars>>

-----------------------------------------------------------------------------
(* Entries and their checks.                                               *)

NewEntry(c, t0) ==
    [conn |-> c, checked |-> t0, used |-> t0, failing |-> None, denied |-> FALSE,
     check |-> "none", sent |-> 0, told |-> None]

\* _sweep
Kept == [t \in Tokens |-> IF entry[t] # None /\ time - entry[t].used >= Evict
                          THEN None ELSE entry[t]]

\* an entry answers no observation any more: a verdict, or checks that failed too long
Closed(x) == x.denied \/ (x.failing # None /\ time - x.failing >= FailClosed)

Current(t, c) == cur[t] = c

\* _start_check, in the background, one at a time. told: since when a check could have
\* told that the row is over or somebody else's
Checking(t, x) ==
    IF time - x.checked >= Ttl /\ x.check = "none"
    THEN [x EXCEPT !.check = "sent", !.sent = time,
                   !.told = IF @ = None /\ ~Current(t, x.conn) THEN time ELSE @]
    ELSE x

\* the check's RPC at the row: a verdict, or no answer
CheckReads(t) ==
    /\ entry[t] # None /\ entry[t].check = "sent"
    /\ \E a \in {IF Current(t, entry[t].conn) THEN "ok" ELSE "over", "lost"} :
         entry' = [entry EXCEPT ![t].check = a]
    /\ UNCHANGED <<req, poolVars, cacheVars, cur, robotVars, time>>

\* mutant: every failed check starts the row of failures anew
FailedCheckAnew(x) == [x EXCEPT !.checked = time - Ttl + Retry, !.failing = time]

\* _check_failed: the next try after Retry, the first failure of the row of failures kept
FailedCheck(x) ==
    [x EXCEPT !.checked = time - Ttl + Retry, !.failing = IF @ = None THEN time ELSE @]

CheckLands(t) ==
    /\ entry[t] # None /\ entry[t].check \in {"ok", "over", "lost"}
    /\ LET x == [entry[t] EXCEPT !.check = "none"] IN
         entry' = [entry EXCEPT ![t] =
                     CASE entry[t].check = "over" -> [x EXCEPT !.denied = TRUE]
                       [] entry[t].check = "lost" -> FailedCheck(x)
                       [] OTHER -> [x EXCEPT !.checked = time, !.failing = None]]
    /\ UNCHANGED <<req, poolVars, cacheVars, cur, robotVars, time>>

-----------------------------------------------------------------------------
(* Requests arrive.                                                        *)

\* the robot's client tries again when it waited long enough: the old hello goes on here
Hello(q, c) ==
    /\ At(q, "free") /\ robot[c] = "new" /\ tries[c] < MaxHellos[c]
    /\ tries' = [tries EXCEPT ![c] = @ + 1]
    /\ entry' = Kept
    /\ req' = [req EXCEPT ![q] = [pc |-> "connect", kind |-> "hello", conn |-> c, at |-> time]]
    /\ UNCHANGED <<poolVars, cacheVars, cur, robot, time>>

Prefetch(q, c) ==
    /\ At(q, "free") /\ robot[c] = "new"
    /\ req' = [req EXCEPT ![q] = [pc |-> "peek", kind |-> "prefetch", conn |-> c, at |-> 0]]
    /\ UNCHANGED <<poolVars, cacheVars, entry, cur, robotVars, time>>

\* its entry is not here, or another connection's: connect again
InferUnknown(q, c) ==
    LET x == Kept[TokenOf[c]] IN
    /\ At(q, "free") /\ robot[c] = "ready" /\ (x = None \/ (x # None /\ x.conn # c))
    /\ entry' = Kept
    /\ req' = [req EXCEPT ![q] = [pc |-> "connect", kind |-> "infer", conn |-> c, at |-> 0]]
    /\ UNCHANGED <<poolVars, cacheVars, cur, robotVars, time>>

InferClosed(c) ==
    LET x == Kept[TokenOf[c]] IN
    /\ robot[c] = "ready" /\ x # None /\ x.conn = c /\ Closed(x)
    /\ entry' = [Kept EXCEPT ![TokenOf[c]] = None]
    /\ robot' = [robot EXCEPT ![c] = "gone"]
    /\ UNCHANGED <<req, poolVars, cacheVars, cur, tries, time>>

\* accepted: a check is started if it is time, and not waited for. An observation over the
\* rate is refused at once
InferAccepted(q, c) ==
    LET t == TokenOf[c]
        x == Kept[t]
    IN
    /\ At(q, "free") /\ robot[c] = "ready" /\ x # None /\ x.conn = c /\ ~Closed(x)
    /\ entry' = [Kept EXCEPT ![t] = Checking(t, [x EXCEPT !.used = time])]
    /\ \/ UNCHANGED <<req, poolVars, cacheVars>>
       \/ AsksEngine(q, [pc |-> "free", kind |-> "infer", conn |-> c, at |-> 0])
    /\ UNCHANGED <<cur, robotVars, time>>

\* the robot ended its run, also before it was ready
Bye(q, c) ==
    LET t == TokenOf[c] IN
    /\ At(q, "free") /\ robot[c] # "gone" /\ tries[c] > 0
    /\ robot' = [robot EXCEPT ![c] = "gone"]
    /\ entry' = IF entry[t] # None /\ entry[t].conn = c
                THEN [entry EXCEPT ![t] = None] ELSE entry
    /\ req' = [req EXCEPT ![q] = [pc |-> "end", kind |-> "bye", conn |-> c, at |-> 0]]
    /\ UNCHANGED <<poolVars, cacheVars, cur, tries, time>>

-----------------------------------------------------------------------------
(* The row (migration 048).                                                *)

\* a connection that becomes the row's again was told nothing yet
Bound(c) ==
    LET t == TokenOf[c] IN
    /\ cur' = [cur EXCEPT ![t] = c]
    /\ entry' = IF entry[t] # None /\ entry[t].conn = c
                THEN [entry EXCEPT ![t].told = None] ELSE entry

\* inference_session_connect binds the row to whoever asks; its answer may be lost
ConnectAtRow(q) ==
    /\ At(q, "connect")
    /\ \/ /\ cur[Token(q)] # "over" /\ Bound(req[q].conn)
          /\ Goes(q, "granted") \/ Goes(q, "denied")
       \/ /\ Goes(q, "denied") /\ UNCHANGED <<cur, entry>>
    /\ UNCHANGED <<poolVars, cacheVars, robotVars, time>>

\* inference_session_peek; a prefetch takes its engine in the CPU pool, cached or not
PeekAtRow(q) ==
    /\ At(q, "peek")
    /\ \/ cur[Token(q)] # "over" /\ Goes(q, "queued") /\ cpu' = Append(cpu, q)
       \/ Answered(q) /\ UNCHANGED cpu
    /\ UNCHANGED <<gpu, cacheVars, entry, cur, robotVars, time>>

\* inference_session_end, by its own connection only; no answer is waited for longer
EndAtRow(q) ==
    /\ At(q, "end")
    /\ \/ Current(Token(q), req[q].conn) /\ cur' = [cur EXCEPT ![Token(q)] = "over"]
       \/ UNCHANGED cur
    /\ robot' = [robot EXCEPT ![req[q].conn] = "gone"]
    /\ Answered(q)
    /\ UNCHANGED <<poolVars, cacheVars, entry, tries, time>>

\* the page's stop, the sweep, the clock of the session
RowEnds(t) ==
    /\ cur[t] # "over"
    /\ cur' = [cur EXCEPT ![t] = "over"]
    /\ UNCHANGED <<req, poolVars, cacheVars, entry, robotVars, time>>

-----------------------------------------------------------------------------
(* The event loop goes on with a request.                                  *)

HelloGranted(q) ==
    /\ At(q, "granted") /\ req[q].kind = "hello"
    /\ AsksEngine(q, req[q])
    /\ UNCHANGED <<entry, cur, robotVars, time>>

\* a new entry in the place of whatever was there
InferGranted(q) ==
    /\ At(q, "granted") /\ req[q].kind = "infer"
    /\ entry' = [entry EXCEPT ![Token(q)] = NewEntry(req[q].conn, time)]
    /\ AsksEngine(q, req[q])
    /\ UNCHANGED <<cur, robotVars, time>>

\* the verdict, or 'unavailable', ends the run at the robot; an infer takes the entry along
Denied(q) ==
    /\ At(q, "denied")
    /\ entry' = IF req[q].kind = "infer" THEN [entry EXCEPT ![Token(q)] = None] ELSE entry
    /\ robot' = [robot EXCEPT ![req[q].conn] = "gone"]
    /\ Answered(q)
    /\ UNCHANGED <<poolVars, cacheVars, cur, tries, time>>

\* hello: the lease is given back and the entry stored, over a newer one if there is; its
\* times are those of the request's arrival. A client that no longer waits misses the answer
HelloStores(q) ==
    /\ At(q, "leased") /\ req[q].kind = "hello"
    /\ Release(Model(q))
    /\ entry' = [entry EXCEPT ![Token(q)] = NewEntry(req[q].conn, req[q].at)]
    /\ \/ robot[req[q].conn] = "new" /\ robot' = [robot EXCEPT ![req[q].conn] = "ready"]
       \/ UNCHANGED robot
    /\ Answered(q)
    /\ UNCHANGED <<poolVars, cur, tries, time>>

PrefetchDone(q) ==
    /\ At(q, "leased") /\ req[q].kind = "prefetch"
    /\ Release(Model(q)) /\ Answered(q)
    /\ UNCHANGED <<poolVars, entry, cur, robotVars, time>>

\* the cameras, the state and the sizes are checked before the pictures are decoded
InferValid(q) ==
    /\ At(q, "leased") /\ req[q].kind = "infer"
    /\ Goes(q, "decode") /\ cpu' = Append(cpu, q)
    /\ UNCHANGED <<gpu, cacheVars, entry, cur, robotVars, time>>

\* every way out gives the lease back; the refusal ends the run at the robot
InferRefused(q) ==
    /\ At(q, "leased") /\ req[q].kind = "infer"
    /\ Release(Model(q)) /\ Answered(q)
    /\ robot' = [robot EXCEPT ![req[q].conn] = "gone"]
    /\ UNCHANGED <<poolVars, entry, cur, tries, time>>

\* a model that is refused ends the session, or the observation is lost
LoadFailed(q) ==
    /\ At(q, "failed")
    /\ IF req[q].kind = "prefetch" THEN Answered(q)
       ELSE Goes(q, "end") \/ (req[q].kind = "infer" /\ Answered(q))
    /\ UNCHANGED <<poolVars, cacheVars, entry, cur, robotVars, time>>

-----------------------------------------------------------------------------
(* The pools.                                                              *)

\* on a CPU thread: a prefetch gives its lease back there
OnCpu == {q \in Reqs : \/ req[q].pc \in {"key", "loading", "warm", "decoding"}
                       \/ At(q, "leased") /\ req[q].kind = "prefetch"}

\* a thread takes the next job: the load of a model or the decoding of pictures
CpuTakes ==
    /\ cpu # <<>> /\ Cardinality(OnCpu) < CpuThreads
    /\ LET q == Head(cpu) IN Goes(q, IF At(q, "queued") THEN "key" ELSE "decoding")
    /\ cpu' = Tail(cpu)
    /\ UNCHANGED <<gpu, cacheVars, entry, cur, robotVars, time>>

\* mutant: no lock for each key
KeyFreeAlways(m) == TRUE

\* the lock of the key is held while its model is loaded and warmed
KeyFree(m) == \A q \in Reqs : req[q].pc \in {"loading", "warm"} => Model(q) # m

\* acquire under the key's lock: somebody else loaded it meanwhile, or this thread does
TakesKey(q) ==
    /\ At(q, "key") /\ KeyFree(Model(q))
    /\ IF Cached(Model(q)) THEN Goes(q, "leased") /\ Lease(Model(q))
       ELSE Goes(q, "loading") /\ UNCHANGED cacheVars
    /\ UNCHANGED <<poolVars, entry, cur, robotVars, time>>

\* mutant: the warm-up is a job for the CPU pool as well
ToWarmUpOnCpu(q) == Goes(q, "warm") /\ cpu' = Append(cpu, q) /\ UNCHANGED gpu

\* the loaded engine computes one chunk on the GPU thread, for which the CPU thread waits
ToWarmUp(q) == Goes(q, "warm") /\ gpu' = Append(gpu, q) /\ UNCHANGED cpu

Loads(q) ==
    /\ At(q, "loading")
    /\ \/ ToWarmUp(q)
       \/ Goes(q, "failed") /\ UNCHANGED poolVars
    /\ UNCHANGED <<cacheVars, entry, cur, robotVars, time>>

Decodes(q) ==
    /\ At(q, "decoding")
    /\ \/ /\ Goes(q, "chunk") /\ gpu' = Append(gpu, q)
          /\ UNCHANGED <<cacheVars, robot>>
       \/ /\ Release(Model(q)) /\ Answered(q)
          /\ robot' = [robot EXCEPT ![req[q].conn] = "gone"] /\ UNCHANGED gpu
    /\ UNCHANGED <<cpu, entry, cur, tries, time>>

\* the GPU thread ends its job: a warm-up, whose engine is cached then, or a chunk
GpuRuns ==
    /\ gpu # <<>> /\ gpu' = Tail(gpu)
    /\ LET q == Head(gpu) IN
         IF At(q, "warm") THEN Goes(q, "leased") /\ Insert(Model(q))
         ELSE Answered(q) /\ Release(Model(q))
    /\ UNCHANGED <<cpu, entry, cur, robotVars, time>>

ServerTick ==
    /\ time < MaxClock
    /\ \A t \in Tokens : entry[t] # None /\ entry[t].check # "none" => time < entry[t].sent + Rpc
    /\ time' = time + 1
    /\ UNCHANGED <<req, poolVars, cacheVars, entry, cur, robotVars>>

-----------------------------------------------------------------------------
Arrives(q, c) ==
    \/ Hello(q, c) \/ Prefetch(q, c) \/ InferUnknown(q, c) \/ InferAccepted(q, c) \/ Bye(q, c)
LoopRuns(q) ==
    \/ HelloGranted(q) \/ InferGranted(q) \/ Denied(q) \/ HelloStores(q)
    \/ PrefetchDone(q) \/ InferValid(q) \/ InferRefused(q) \/ LoadFailed(q)
RowAnswers(q) == ConnectAtRow(q) \/ PeekAtRow(q) \/ EndAtRow(q)
ThreadRuns(q) == Loads(q) \/ Decodes(q)

ServerNext ==
    \/ \E q \in Reqs, c \in Connections : Arrives(q, c)
    \/ \E c \in Connections : InferClosed(c)
    \/ \E q \in Reqs : LoopRuns(q) \/ RowAnswers(q) \/ ThreadRuns(q) \/ TakesKey(q)
    \/ \E t \in Tokens : RowEnds(t) \/ CheckReads(t) \/ CheckLands(t)
    \/ CpuTakes \/ GpuRuns \/ ServerTick

ServerSpec == ServerInit /\ [][ServerNext]_serverVars

-----------------------------------------------------------------------------
(* Properties.                                                             *)

\* the requests that compute with the engine of m
Users(m) ==
    {q \in Reqs : req[q].pc \in {"leased", "decode", "decoding", "chunk"} /\ Model(q) = m}

\* What the cache counts is what the requests use, through misses of two at once, loads that
\* fail and every early answer: an engine in use keeps its slot, so no second copy of it is
\* loaded beside it, and one that nobody uses is given up as soon as there are too many.
EnginesCounted ==
    /\ \A m \in Models : refs[m] = Cardinality(Users(m)) /\ (Users(m) # {} => Cached(m))
    /\ Cardinality(slots) > MaxModels => \A m \in slots : refs[m] > 0

\* The CPU threads never all wait: whichever jobs hold them, one of them goes on by itself,
\* or the GPU thread has the warm-up that one waits for. Loads that wait for a key's lock,
\* warm-ups that queue behind chunks and decodings behind loads never wait for each other.
GoesOn(q) ==
    \/ req[q].pc \in {"loading", "decoding", "leased"}
    \/ At(q, "key") /\ KeyFree(Model(q))
    \/ At(q, "warm") /\ Contains(gpu, q)
ThreadsGoOn == OnCpu # {} => \E q \in OnCpu : GoesOn(q)

\* A run whose row is over, or another connection's, is served no longer than the limit of
\* failed checks after the first check that could have told, however many checks fail, and
\* although no observation ever waits for a check.
OverEndsService ==
    \A t \in Tokens :
        entry[t] # None /\ ~Current(t, entry[t].conn) /\ entry[t].told # None =>
            \/ Closed(entry[t])
            \/ time <= entry[t].told + Rpc + FailClosed
=============================================================================
