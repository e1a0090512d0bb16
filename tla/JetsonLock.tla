----------------------------- MODULE JetsonLock -----------------------------
(***************************************************************************)
(* The classroom Jetson: one row of the database that teachers pair with a *)
(* class and students lock, the agent on the device that follows the lock  *)
(* with a heartbeat every 10 s, the containers and session volumes it      *)
(* starts and wipes, and the proxy that lets the owner at the robot. Lock  *)
(* and device are never changed together: between a claim and the next     *)
(* heartbeat, and while the agent is busy with docker, they disagree.      *)
(***************************************************************************)
EXTENDS Integers, FiniteSets

CONSTANTS
    Students,
    Teachers,      \* each with one class; a class is named by its teacher
    Class,         \* of each student: the teacher of the class
    RetryLimit,    \* CLAIM_RETRY_LIMIT
    Faults,        \* "docker": a wipe may fail; "kill": the agent may die anywhere
    MaxRestarts,   \* bound: restarts of the agent
    Nobody

ASSUME JetsonAssumption ==
    /\ Class \in [Students -> Teachers]
    /\ RetryLimit \in Nat \ {0} /\ MaxRestarts \in Nat
    /\ Nobody \notin Students \cup Teachers

VARIABLES
    room,      \* classroom_id: the class it is paired with
    code,      \* there is a pairing_code that has not expired
    intent,    \* intent_teacher_id (with it, its token)
    owner,     \* current_owner_user_id
    app,       \* of each student's page: "off", "claiming", "on" (connected)
    beacon,    \* the students whose release beacon is on its way
    pc,        \* what the agent is doing
    local,     \* _current_owner_user_id of the agent
    next,      \* the owner it claims for after the wipe
    strikes,   \* _failed_claim_attempts
    proxy,     \* the proxy runs
    cache,     \* its cached owner
    stack,     \* the containers are up
    data,      \* the students whose data is in the session volumes
    conn,      \* the students connected to the robot through the proxy
    unwiped,   \* a session ended without its wipe: a restart, or docker refused
    restarts

jetsonRow == <<room, code, intent, owner>>
appVars == <<app, beacon>>
agentVars == <<pc, local, next, strikes>>
deviceVars == <<proxy, cache, stack, data, conn, unwiped>>
jetsonVars == <<jetsonRow, appVars, agentVars, deviceVars, restarts>>

NoStrikes == [s \in Students |-> 0]

\* registered by setup.sh, which prints the pairing code
JetsonInit ==
    /\ room = Nobody /\ code = TRUE /\ intent = Nobody /\ owner = Nobody
    /\ app = [s \in Students |-> "off"] /\ beacon = {}
    /\ pc = "idle" /\ local = Nobody /\ next = Nobody /\ strikes = NoStrikes
    /\ proxy = FALSE /\ cache = Nobody /\ stack = FALSE /\ data = {} /\ conn = {}
    /\ unwiped = FALSE /\ restarts = 0

-----------------------------------------------------------------------------
(* Teachers.                                                               *)

\* claim_pair_intent: of an unpaired device, by the first teacher
PairIntent(t) ==
    /\ code /\ room = Nobody /\ intent \in {Nobody, t}
    /\ intent' = t
    /\ UNCHANGED <<room, code, owner, appVars, agentVars, deviceVars, restarts>>

\* pair_jetson: code, token and teacher agree
Pair(t) ==
    /\ code /\ intent = t
    /\ room' = t /\ code' = FALSE /\ intent' = Nobody
    /\ UNCHANGED <<owner, appVars, agentVars, deviceVars, restarts>>

RegenerateCode(t) ==
    /\ room = t
    /\ code' = TRUE /\ intent' = Nobody
    /\ UNCHANGED <<room, owner, appVars, agentVars, deviceVars, restarts>>

CodeExpires ==
    /\ code /\ code' = FALSE
    /\ UNCHANGED <<room, intent, owner, appVars, agentVars, deviceVars, restarts>>

ForceRelease(t) ==
    /\ room = t /\ owner # Nobody
    /\ owner' = Nobody
    /\ UNCHANGED <<room, code, intent, appVars, agentVars, deviceVars, restarts>>

Unpair(t) ==
    /\ room = t
    /\ room' = Nobody /\ owner' = Nobody
    /\ UNCHANGED <<code, intent, appVars, agentVars, deviceVars, restarts>>

\* classroom_id ON DELETE SET NULL: the lock stays
ClassDeleted ==
    /\ room # Nobody /\ room' = Nobody
    /\ UNCHANGED <<code, intent, owner, appVars, agentVars, deviceVars, restarts>>

-----------------------------------------------------------------------------
(* The student's page and the calls it makes.                              *)

\* the route reads the class and checks the student before it calls the database
ClaimCheck(s) ==
    /\ app[s] = "off" /\ room = Class[s]
    /\ app' = [app EXCEPT ![s] = "claiming"]
    /\ UNCHANGED <<jetsonRow, beacon, agentVars, deviceVars, restarts>>

\* claim_jetson; the answer may be lost
Claim(s) ==
    /\ app[s] = "claiming"
    /\ \/ /\ room # Nobody /\ owner = Nobody
          /\ owner' = s
          /\ \E a \in {"on", "off"} : app' = [app EXCEPT ![s] = a]
       \/ /\ room = Nobody \/ owner # Nobody
          /\ app' = [app EXCEPT ![s] = "off"] /\ UNCHANGED owner
    /\ UNCHANGED <<room, code, intent, beacon, agentVars, deviceVars, restarts>>

\* a page that is opened again finds itself the owner; its own beacon may not have arrived yet
Resume(s) ==
    /\ app[s] = "off" /\ owner = s /\ room = Class[s]
    /\ app' = [app EXCEPT ![s] = "on"]
    /\ UNCHANGED <<jetsonRow, beacon, agentVars, deviceVars, restarts>>

\* heartbeat_jetson of a page that lost the lock: 410 ends the connection; the owner's
\* heartbeat keeps the sweeper away
Heartbeat(s) ==
    /\ app[s] = "on" /\ owner # s
    /\ app' = [app EXCEPT ![s] = "off"] /\ conn' = conn \ {s}
    /\ UNCHANGED <<room, code, intent, owner, beacon, agentVars,
                   proxy, cache, stack, data, unwiped, restarts>>

\* release_jetson, by the owner only
Releases(s) == owner' = IF owner = s THEN Nobody ELSE owner

\* Trennen: the page goes on when the call fails
Disconnect(s) ==
    /\ app[s] = "on"
    /\ Releases(s) \/ UNCHANGED owner
    /\ app' = [app EXCEPT ![s] = "off"] /\ conn' = conn \ {s}
    /\ UNCHANGED <<room, code, intent, beacon, agentVars,
                   proxy, cache, stack, data, unwiped, restarts>>

\* the tab is closed or loaded again
Unload(s) ==
    /\ app[s] = "on"
    /\ app' = [app EXCEPT ![s] = "off"] /\ conn' = conn \ {s}
    /\ beacon' = beacon \cup {s}
    /\ UNCHANGED <<jetsonRow, agentVars, proxy, cache, stack, data, unwiped, restarts>>

BeaconArrives(s) ==
    /\ s \in beacon /\ beacon' = beacon \ {s}
    /\ Releases(s) \/ UNCHANGED owner
    /\ UNCHANGED <<room, code, intent, app, agentVars, deviceVars, restarts>>

\* sweep_jetson_locks: 5 minutes without a heartbeat that arrived, which the page and its
\* network decide
Sweep ==
    /\ owner # Nobody /\ owner' = Nobody
    /\ UNCHANGED <<room, code, intent, appVars, agentVars, deviceVars, restarts>>

-----------------------------------------------------------------------------
(* The agent.                                                              *)

\* a heartbeat that was answered; without an answer the agent changes nothing
AgentHeartbeat ==
    /\ pc = "idle"
    /\ \/ /\ owner # Nobody /\ local = Nobody
          /\ local' = owner /\ pc' = "claim" /\ UNCHANGED <<next, strikes>>
       \/ /\ owner # Nobody /\ local \notin {Nobody, owner}
          /\ strikes' = NoStrikes /\ next' = owner /\ pc' = "stop" /\ UNCHANGED local
       \/ /\ owner = Nobody /\ local # Nobody
          /\ strikes' = NoStrikes /\ local' = Nobody /\ pc' = "stop" /\ UNCHANGED next
       \/ /\ owner = Nobody /\ local = Nobody /\ strikes # NoStrikes
          /\ strikes' = NoStrikes /\ UNCHANGED <<pc, local, next>>
    /\ UNCHANGED <<jetsonRow, appVars, deviceVars, restarts>>

\* mutant: the proxy of the last session is left to the next
StopProxyLater == UNCHANGED <<proxy, cache, conn>>
\* terminating the process closes its connections and loses its cache
StopProxy == proxy' = FALSE /\ cache' = Nobody /\ conn' = {}

\* _transition_to_released
ReleaseStops ==
    /\ pc = "stop" /\ pc' = "down"
    /\ StopProxy
    /\ UNCHANGED <<jetsonRow, appVars, local, next, strikes, stack, data, unwiped, restarts>>

ReleaseDown ==
    /\ pc = "down" /\ pc' = "wipe"
    /\ stack' = FALSE \/ ("docker" \in Faults /\ UNCHANGED stack)
    /\ UNCHANGED <<jetsonRow, appVars, local, next, strikes, proxy, cache, data, conn, unwiped, restarts>>

\* mutant: only the Hugging Face cache is wiped
WipesCache == UNCHANGED data
Wipes == IF stack THEN UNCHANGED data ELSE data' = {}

\* a volume in use stays; then the claim of the owner that follows at once
ReleaseWipes ==
    /\ pc = "wipe"
    /\ \/ Wipes /\ unwiped' = stack
       \/ "docker" \in Faults /\ UNCHANGED data /\ unwiped' = TRUE
    /\ pc' = (IF next = Nobody THEN "idle" ELSE "claim")
    /\ local' = next /\ next' = Nobody
    /\ UNCHANGED <<jetsonRow, appVars, strikes, proxy, cache, stack, conn, restarts>>

\* _transition_to_claimed: docker compose up and the health checks, or any of it fails
BringUp ==
    /\ pc = "claim" /\ strikes[local] < RetryLimit
    /\ \/ stack' = TRUE /\ pc' = "home"
       \/ stack' \in {stack, TRUE} /\ pc' = "cleanup"
    /\ UNCHANGED <<jetsonRow, appVars, local, next, strikes,
                   proxy, cache, data, conn, unwiped, restarts>>

\* mutant: after RetryLimit failures the agent only waits for the sweeper
GiveUpAndWait ==
    /\ pc = "claim" /\ strikes[local] = RetryLimit
    /\ pc' = "idle" /\ local' = Nobody
    /\ UNCHANGED <<jetsonRow, appVars, next, strikes, deviceVars, restarts>>
GiveUp ==
    /\ pc = "claim" /\ strikes[local] = RetryLimit
    /\ pc' = "release"
    /\ UNCHANGED <<jetsonRow, appVars, local, next, strikes, deviceVars, restarts>>

\* after the safe-home move, whose failure is only logged; a proxy that runs is kept
StartProxy ==
    /\ pc = "home"
    /\ \/ /\ pc' = "idle" /\ proxy' = TRUE
          /\ strikes' = [strikes EXCEPT ![local] = 0]
       \/ pc' = "cleanup" /\ UNCHANGED <<proxy, strikes>>
    /\ UNCHANGED <<jetsonRow, appVars, local, next, cache, stack, data, conn, unwiped, restarts>>

Cleanup ==
    /\ pc = "cleanup" /\ pc' = "release"
    /\ strikes' = [strikes EXCEPT ![local] = @ + 1]
    /\ StopProxy
    /\ stack' = FALSE \/ ("docker" \in Faults /\ UNCHANGED stack)
    /\ UNCHANGED <<jetsonRow, appVars, local, next, data, unwiped, restarts>>

\* agent_release_jetson clears the lock, whoever holds it by now; or the call fails
AgentReleases == owner' = Nobody

AgentRelease ==
    /\ pc = "release" /\ pc' = "idle" /\ local' = Nobody
    /\ AgentReleases \/ UNCHANGED owner
    /\ UNCHANGED <<room, code, intent, appVars, next, strikes, deviceVars, restarts>>

\* what a new process starts from
Reborn == pc' = "idle" /\ local' = Nobody /\ next' = Nobody /\ strikes' = NoStrikes

\* SIGTERM between two heartbeats, or a docker call of the wipe raises: main() releases a
\* lock it holds and takes the containers down; systemd starts the agent again
AgentExits ==
    /\ restarts < MaxRestarts /\ restarts' = restarts + 1
    /\ pc = "idle" \/ ("docker" \in Faults /\ pc \in {"down", "wipe"})
    /\ IF local # Nobody
         THEN (AgentReleases \/ UNCHANGED owner) /\ stack' = FALSE
         ELSE UNCHANGED <<owner, stack>>
    /\ StopProxy /\ Reborn /\ unwiped' = TRUE
    /\ UNCHANGED <<room, code, intent, appVars, data>>

\* killed, or the power is lost: the containers restart by themselves
AgentKilled ==
    /\ "kill" \in Faults /\ restarts < MaxRestarts /\ restarts' = restarts + 1
    /\ StopProxy /\ Reborn /\ unwiped' = TRUE
    /\ UNCHANGED <<jetsonRow, appVars, stack, data>>

\* the proxy asks the agent for the owner, or finds its answer to an earlier connection;
\* what the connected student does fills the volumes
Connect(s) ==
    /\ app[s] = "on" /\ s \notin conn /\ proxy /\ stack
    /\ \/ cache = s /\ UNCHANGED cache
       \/ local = s /\ cache' = local
    /\ conn' = conn \cup {s} /\ data' = data \cup {s}
    /\ UNCHANGED <<jetsonRow, appVars, agentVars, proxy, stack, unwiped, restarts>>

Teacher(t) ==
    PairIntent(t) \/ Pair(t) \/ RegenerateCode(t) \/ ForceRelease(t) \/ Unpair(t)
Page(s) ==
    \/ ClaimCheck(s) \/ Claim(s) \/ Resume(s) \/ Heartbeat(s) \/ Disconnect(s)
    \/ Unload(s) \/ BeaconArrives(s) \/ Connect(s)
Agent ==
    \/ AgentHeartbeat \/ ReleaseStops \/ ReleaseDown \/ ReleaseWipes
    \/ BringUp \/ GiveUp \/ StartProxy \/ Cleanup \/ AgentRelease

JetsonNext ==
    \/ (\E t \in Teachers : Teacher(t)) \/ CodeExpires \/ ClassDeleted
    \/ (\E s \in Students : Page(s)) \/ Sweep
    \/ Agent \/ AgentExits \/ AgentKilled

(* The agent's loop never stops, and a call that it makes again and again  *)
(* is answered once. Nothing is assumed of students, teachers and sweeper. *)
JetsonFairness == WF_jetsonVars(Agent) /\ SF_jetsonVars(AgentRelease /\ AgentReleases)

JetsonSpec == JetsonInit /\ [][JetsonNext]_jetsonVars /\ JetsonFairness

-----------------------------------------------------------------------------
(* Properties.                                                             *)

(* Every variable keeps its type.                                          *)
JetsonTypeOK ==
    /\ room \in Teachers \cup {Nobody} /\ intent \in Teachers \cup {Nobody}
    /\ code \in BOOLEAN
    /\ owner \in Students \cup {Nobody}
    /\ app \in [Students -> {"off", "claiming", "on"}] /\ beacon \subseteq Students
    /\ pc \in {"idle", "stop", "down", "wipe", "claim", "home", "cleanup", "release"}
    /\ local \in Students \cup {Nobody} /\ next \in Students \cup {Nobody}
    /\ strikes \in [Students -> 0..RetryLimit]
    /\ proxy \in BOOLEAN /\ cache \in Students \cup {Nobody} /\ stack \in BOOLEAN
    /\ data \subseteq Students /\ conn \subseteq Students
    /\ unwiped \in BOOLEAN /\ restarts \in 0..MaxRestarts

(* The proxy never lets two students at the robot at a time, however late  *)
(* the agent learns of a new owner and whatever its cache holds            *)
(* (_bridge, _transition_to_released).                                     *)
OneAtTheRobot == Cardinality(conn) <= 1

(* A student at the robot finds no data of another, unless a restart of    *)
(* the agent or docker itself prevented the wipe: not even when the lock   *)
(* passes from one to the next between two heartbeats, or passed through   *)
(* failed claims (_main_loop, _wipe_session_volumes).                      *)
HandoverIsPristine == ~unwiped => \A s \in conn : data \subseteq {s}

(* Both: whoever is at the robot is there alone and finds it as new.       *)
CleanHandover == OneAtTheRobot /\ HandoverIsPristine

(* A device that is paired is never taken over by another class: it has to *)
(* be unpaired, or its class deleted, first (claim_pair_intent, pair_jetson *)
(* which itself does not look, regenerate_pairing_code).                   *)
NoTakeover == [][room' # room /\ room' # Nobody => room = Nobody]_jetsonVars

(* Whoever holds the lock gets the robot in the end, or the lock comes     *)
(* free: a device that cannot start does not stay locked although the      *)
(* student's page keeps the lock alive (_transition_to_claimed).           *)
LockServes ==
    \A s \in Students : owner = s ~> (owner # s \/ (local = s /\ proxy))

=============================================================================
