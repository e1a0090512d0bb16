---------------------------- MODULE Leases_proofs ----------------------------
(***************************************************************************)
(* The classroom's two leases, each held by one at a time and lost without *)
(* the holder's knowledge: the lock of a Jetson and the publish lease of a *)
(* trained model. First JetsonLock, for any number of students and         *)
(* teachers, any retry limit, every fault and any number of restarts; then *)
(* PublishLease, for any number of processes, tasks and restarts.          *)
(***************************************************************************)
EXTENDS JetsonLock, PublishLease, FiniteSetTheorems, TLAPS

-----------------------------------------------------------------------------
(* The Jetson. The two properties about the robot are not inductive: that  *)
(* a new proxy finds nobody connected, and that its cache never names      *)
(* another student than the one the agent serves, is Bridged.              *)

(* A student is being served: containers, proxy or their failure.          *)
Serving == {"claim", "home", "cleanup", "release"}

(* The agent serves somebody when it says so, and has tries left while it  *)
(* is at it (_transition_to_claimed).                                      *)
AgentKnows ==
    /\ pc \in Serving => local \in Students
    /\ pc \in {"home", "cleanup"} => strikes[local] < RetryLimit

(* A proxy runs while the agent serves a student or has yet to stop it;    *)
(* only the student it has cached is connected, and it caches nobody but   *)
(* the student the agent serves (_start_proxy, _stop_proxy, _bridge).      *)
Bridged ==
    /\ ~proxy => conn = {} /\ cache = Nobody
    /\ proxy => pc \in {"idle", "stop"}
    /\ pc = "idle" /\ local = Nobody => ~proxy
    /\ conn \subseteq {cache}
    /\ proxy /\ local # Nobody => cache \in {Nobody, local}

(* The volumes hold the data of nobody but the student at the robot, and   *)
(* of nobody at all between the wipe and the next proxy, unless a wipe was *)
(* prevented (_wipe_session_volumes).                                      *)
Wiped ==
    ~unwiped => IF proxy THEN data \subseteq {cache}
                         ELSE pc \notin {"down", "wipe"} => data = {}

IInv == JetsonTypeOK /\ AgentKnows /\ Bridged /\ Wiped

LEMMA InitIInv == JetsonInit => IInv
<1> SUFFICES ASSUME JetsonInit PROVE IInv
  OBVIOUS
<1>1. app \in [Students -> {"off", "claiming", "on"}] /\ strikes \in [Students -> 0..RetryLimit]
  BY JetsonAssumption DEF JetsonInit, NoStrikes
<1>2. 0 \in 0..MaxRestarts
  BY JetsonAssumption
<1>3. JetsonTypeOK
  BY <1>1, <1>2, Zenon DEF JetsonInit, JetsonTypeOK
<1>4. AgentKnows /\ Bridged /\ Wiped
  BY DEF JetsonInit, AgentKnows, Serving, Bridged, Wiped
<1> QED
  BY <1>3, <1>4 DEF IInv

-----------------------------------------------------------------------------
(* Teachers, the pages' calls and the sweeper touch the row and the pages  *)
(* only; a page that goes takes its connection along.                      *)

LEMMA RowCallsKeep ==
    ASSUME IInv,
           \/ \E t \in Teachers : Teacher(t)
           \/ CodeExpires \/ ClassDeleted \/ Sweep
           \/ \E s \in Students : ClaimCheck(s) \/ Claim(s) \/ Resume(s) \/ BeaconArrives(s)
    PROVE  IInv'
<1>1. UNCHANGED <<agentVars, deviceVars, restarts>>
  BY DEF Teacher, PairIntent, Pair, RegenerateCode, ForceRelease, Unpair, CodeExpires,
         ClassDeleted, Sweep, ClaimCheck, Claim, Resume, BeaconArrives
<1>2. JetsonTypeOK'
  <2>1. /\ room' \in Teachers \cup {Nobody} /\ intent' \in Teachers \cup {Nobody}
        /\ code' \in BOOLEAN /\ owner' \in Students \cup {Nobody}
    BY DEF IInv, JetsonTypeOK, Teacher, PairIntent, Pair, RegenerateCode, ForceRelease, Unpair,
           CodeExpires, ClassDeleted, Sweep, ClaimCheck, Claim, Resume, BeaconArrives, Releases,
           jetsonRow
  <2>2. app' \in [Students -> {"off", "claiming", "on"}] /\ beacon' \subseteq Students
    BY DEF IInv, JetsonTypeOK, Teacher, PairIntent, Pair, RegenerateCode, ForceRelease, Unpair,
           CodeExpires, ClassDeleted, Sweep, ClaimCheck, Claim, Resume, BeaconArrives, appVars
  <2> QED
    BY <1>1, <2>1, <2>2 DEF IInv, JetsonTypeOK, agentVars, deviceVars
<1>3. AgentKnows' /\ Bridged' /\ Wiped'
  BY <1>1 DEF IInv, AgentKnows, Serving, Bridged, Wiped, agentVars, deviceVars
<1> QED
  BY <1>2, <1>3 DEF IInv

LEMMA LeavingKeeps ==
    ASSUME IInv, NEW s \in Students, Heartbeat(s) \/ Disconnect(s) \/ Unload(s)
    PROVE  IInv'
<1>1. /\ conn' = conn \ {s}
      /\ UNCHANGED <<agentVars, proxy, cache, stack, data, unwiped, restarts>>
  BY DEF Heartbeat, Disconnect, Unload
<1>2. JetsonTypeOK'
  BY <1>1, JetsonAssumption
     DEF IInv, JetsonTypeOK, agentVars, Heartbeat, Disconnect, Unload, Releases, appVars, jetsonRow
<1>3. AgentKnows' /\ Bridged' /\ Wiped'
  BY <1>1 DEF IInv, AgentKnows, Serving, Bridged, Wiped, agentVars
<1> QED
  BY <1>2, <1>3 DEF IInv

(* A connection is of the cached student, whose data is then all there is. *)
LEMMA ConnectKeeps ==
    ASSUME IInv, NEW s \in Students, Connect(s)
    PROVE  IInv'
<1>1. /\ proxy /\ proxy' /\ cache' = s /\ cache \in {Nobody, s}
      /\ conn' = conn \cup {s} /\ data' = data \cup {s}
      /\ UNCHANGED <<jetsonRow, appVars, agentVars, stack, unwiped, restarts>>
  BY JetsonAssumption DEF Connect, IInv, Bridged
<1>2. conn' \subseteq {s} /\ (~unwiped => data' \subseteq {s})
  BY <1>1, JetsonAssumption DEF IInv, JetsonTypeOK, Bridged, Wiped
<1>3. local # Nobody => local = s
  BY <1>1, JetsonAssumption DEF Connect, IInv, Bridged
<1>4. JetsonTypeOK'
  BY <1>1 DEF IInv, JetsonTypeOK, agentVars, jetsonRow, appVars
<1> QED
  BY <1>1, <1>2, <1>3, <1>4 DEF IInv, AgentKnows, Serving, Bridged, Wiped, agentVars

-----------------------------------------------------------------------------
(* The agent.                                                              *)

LEMMA AgentTypes ==
    ASSUME IInv, Agent
    PROVE  JetsonTypeOK' /\ AgentKnows'
<1> USE JetsonAssumption DEF IInv, JetsonTypeOK, AgentKnows, Serving, jetsonRow, appVars, deviceVars
<1>1. CASE AgentHeartbeat
  BY <1>1 DEF AgentHeartbeat, NoStrikes
<1>2. CASE ReleaseStops
  BY <1>2 DEF ReleaseStops, StopProxy
<1>3. CASE ReleaseDown
  BY <1>3 DEF ReleaseDown
<1>4. CASE ReleaseWipes
  BY <1>4 DEF ReleaseWipes, Wipes
<1>5. CASE BringUp
  BY <1>5 DEF BringUp
<1>6. CASE GiveUp
  BY <1>6 DEF GiveUp
<1>7. CASE StartProxy
  <2>1. strikes' \in [Students -> 0..RetryLimit]
    BY <1>7 DEF StartProxy
  <2> QED
    BY <1>7, <2>1 DEF StartProxy
<1>8. CASE Cleanup
  <2>1. strikes'[local] \in 0..RetryLimit /\ strikes' \in [Students -> 0..RetryLimit]
    BY <1>8 DEF Cleanup
  <2> QED
    BY <1>8, <2>1 DEF Cleanup, StopProxy
<1>9. CASE AgentRelease
  BY <1>9 DEF AgentRelease, AgentReleases
<1> QED
  BY <1>1, <1>2, <1>3, <1>4, <1>5, <1>6, <1>7, <1>8, <1>9 DEF Agent

LEMMA AgentKeeps ==
    ASSUME IInv, Agent
    PROVE  IInv'
<1>0. JetsonTypeOK' /\ AgentKnows'
  BY AgentTypes
<1> SUFFICES Bridged' /\ Wiped'
  BY <1>0 DEF IInv
<1> USE JetsonAssumption DEF IInv, AgentKnows, Serving, Bridged, Wiped, deviceVars
<1>1. CASE AgentHeartbeat
  BY <1>1 DEF AgentHeartbeat
<1>2. CASE ReleaseStops
  BY <1>2 DEF ReleaseStops, StopProxy
<1>3. CASE ReleaseDown
  BY <1>3 DEF ReleaseDown
<1>4. CASE ReleaseWipes
  BY <1>4 DEF ReleaseWipes, Wipes, JetsonTypeOK
<1>5. CASE BringUp
  BY <1>5 DEF BringUp
<1>6. CASE GiveUp
  BY <1>6 DEF GiveUp
<1>7. CASE StartProxy
  BY <1>7 DEF StartProxy
<1>8. CASE Cleanup
  BY <1>8 DEF Cleanup, StopProxy
<1>9. CASE AgentRelease
  BY <1>9 DEF AgentRelease
<1> QED
  BY <1>1, <1>2, <1>3, <1>4, <1>5, <1>6, <1>7, <1>8, <1>9 DEF Agent

(* A restart connects nobody and says that nothing was wiped.              *)
LEMMA RestartKeeps ==
    ASSUME IInv, AgentExits \/ AgentKilled
    PROVE  IInv'
<1>1. JetsonTypeOK'
  <2>1. strikes' \in [Students -> 0..RetryLimit]
    BY JetsonAssumption DEF AgentExits, AgentKilled, Reborn, NoStrikes
  <2>2. restarts' \in 0..MaxRestarts
    BY JetsonAssumption DEF IInv, JetsonTypeOK, AgentExits, AgentKilled
  <2>3. owner' \in Students \cup {Nobody} /\ stack' \in BOOLEAN
    BY DEF IInv, JetsonTypeOK, AgentExits, AgentKilled, AgentReleases, jetsonRow
  <2>4. UNCHANGED <<room, code, intent, appVars, data>>
    BY DEF AgentExits, AgentKilled, jetsonRow
  <2> QED
    BY <2>1, <2>2, <2>3, <2>4
       DEF IInv, JetsonTypeOK, AgentExits, AgentKilled, StopProxy, Reborn, appVars
<1>2. AgentKnows' /\ Bridged' /\ Wiped'
  BY DEF AgentExits, AgentKilled, StopProxy, Reborn, AgentKnows, Serving, Bridged, Wiped
<1> QED
  BY <1>1, <1>2 DEF IInv

LEMMA NextIInv ==
    ASSUME IInv, [JetsonNext]_jetsonVars
    PROVE  IInv'
<1>1. CASE UNCHANGED jetsonVars
  BY <1>1 DEF IInv, JetsonTypeOK, AgentKnows, Serving, Bridged, Wiped, jetsonVars, jetsonRow, appVars,
              agentVars, deviceVars
<1>2. CASE JetsonNext
  BY <1>2, RowCallsKeep, LeavingKeeps, ConnectKeeps, AgentKeeps, RestartKeeps DEF JetsonNext, Page
<1> QED
  BY <1>1, <1>2

LEMMA JetsonInvariant == JetsonSpec => []IInv
BY InitIInv, NextIInv, PTL DEF JetsonSpec

-----------------------------------------------------------------------------
(* Every variable keeps its type, whatever fails.                          *)
THEOREM TypeCorrect == JetsonSpec => []JetsonTypeOK
BY JetsonInvariant, PTL DEF IInv

(* Two students are never at the robot at a time, however late the agent   *)
(* learns of a new owner and whatever the proxy has cached (_bridge).      *)
THEOREM OneRobot == JetsonSpec => []OneAtTheRobot
<1>1. IInv => OneAtTheRobot
  <2> SUFFICES ASSUME IInv PROVE OneAtTheRobot
    OBVIOUS
  <2>1. IsFiniteSet({cache}) /\ Cardinality({cache}) = 1
    BY FS_Singleton
  <2>2. Cardinality(conn) <= Cardinality({cache})
    BY <2>1, FS_Subset DEF IInv, Bridged
  <2> QED
    BY <2>1, <2>2 DEF OneAtTheRobot
<1> QED
  BY <1>1, JetsonInvariant, PTL

(* The next student finds nothing of the last, unless a wipe was prevented *)
(* (_wipe_session_volumes).                                                *)
THEOREM PristineHandover == JetsonSpec => []HandoverIsPristine
<1>1. IInv => HandoverIsPristine
  BY DEF IInv, Bridged, Wiped, HandoverIsPristine
<1> QED
  BY <1>1, JetsonInvariant, PTL

(* Whoever is at the robot is there alone and finds it as new.             *)
THEOREM AloneAndClean == JetsonSpec => []CleanHandover
<1>1. OneAtTheRobot /\ HandoverIsPristine => CleanHandover
  BY DEF CleanHandover
<1> QED
  BY <1>1, OneRobot, PristineHandover, PTL

-----------------------------------------------------------------------------
(* A device that is paired has no pair intent: whoever pairs it found it   *)
(* unpaired, although pair_jetson does not look (claim_pair_intent).       *)
IntentOfUnpaired == room # Nobody => intent = Nobody

LEMMA IntentStep ==
    ASSUME IntentOfUnpaired, [JetsonNext]_jetsonVars
    PROVE  IntentOfUnpaired' /\ [room' # room /\ room' # Nobody => room = Nobody]_jetsonVars
<1> USE JetsonAssumption DEF IntentOfUnpaired
<1>1. CASE \E t \in Teachers : Teacher(t)
  BY <1>1 DEF Teacher, PairIntent, Pair, RegenerateCode, ForceRelease, Unpair
<1>2. CASE CodeExpires \/ ClassDeleted \/ Sweep \/ AgentExits \/ AgentKilled
  BY <1>2 DEF CodeExpires, ClassDeleted, Sweep, AgentExits, AgentKilled, jetsonRow
<1>3. CASE \E s \in Students : Page(s)
  BY <1>3 DEF Page, ClaimCheck, Claim, Resume, Heartbeat, Disconnect, Unload, BeaconArrives,
              Connect, jetsonRow
<1>4. CASE Agent
  BY <1>4 DEF Agent, AgentHeartbeat, ReleaseStops, ReleaseDown, ReleaseWipes, BringUp, GiveUp,
              StartProxy, Cleanup, AgentRelease, jetsonRow
<1>5. CASE UNCHANGED jetsonVars
  BY <1>5 DEF jetsonVars, jetsonRow
<1> QED
  BY <1>1, <1>2, <1>3, <1>4, <1>5 DEF JetsonNext

(* A paired device changes to another class only through being unpaired    *)
(* (pair_jetson, regenerate_pairing_code).                                 *)
THEOREM PairedStays == JetsonSpec => NoTakeover
<1>1. JetsonInit => IntentOfUnpaired
  BY DEF JetsonInit, IntentOfUnpaired
<1> QED
  BY <1>1, IntentStep, PTL DEF JetsonSpec, NoTakeover

-----------------------------------------------------------------------------
(* Publishing. OneWriter follows from Owned: who works has the lease in    *)
(* hand as long as no renewal went unanswered. OutcomeIsTrue follows from  *)
(* Founded: what each phase of publish_sync has seen stays true until it   *)
(* writes the row.                                                         *)

Phases == {"off", "claim", "download", "refuse", "keep", "copy", "insert",
           "check", "commit", "readback", "finish"}

(* The types the argument needs.                                           *)
Typed ==
    /\ pub \in [Procs -> [pc : Phases, lost : BOOLEAN]]
    /\ lease \in [owner : Procs \cup {None, Dead}, live : BOOLEAN]
    /\ missed \in BOOLEAN
    /\ row \in Terminal \cup {"running", "publishing", "canceling"}

(* A task beyond its claim that has not seen its lease lost.               *)
Works(i) == pub[i].pc \notin {"off", "claim"} /\ ~pub[i].lost

(* Who works holds the lease, and it is live (claim_training_publish).     *)
Owned == ~missed => \A i \in Procs : Works(i) => lease.owner = i /\ lease.live

(* What publish_sync relies on when it writes the row: a model it refuses  *)
(* is bad or somebody has ended the training already; a model it finishes  *)
(* is on the Hub; a capped one that goes on to the Hub has its kept row,   *)
(* and a kept row its copies. A window on the row is the kept row's.       *)
Founded ==
    /\ why = "S7" => ~good /\ row = "failed"
    /\ "last" \notin obj => row \in Terminal
    /\ kept # None => copy
    /\ row = "succeeded" => hub /\ (capped => kept # None /\ until = kept)
    /\ \A i \in Procs :
         /\ pub[i].pc = "refuse" => ~good \/ row \in Terminal
         /\ pub[i].pc = "finish" => hub
         /\ pub[i].pc = "insert" => copy
         /\ pub[i].pc \in {"check", "commit", "readback", "finish"} /\ capped => kept # None

PInv == Typed /\ Owned /\ Founded

LEMMA InitPInv == Init => PInv
<1> SUFFICES ASSUME Init PROVE PInv
  OBVIOUS
<1>1. Typed
  BY DEF Init, Typed, Phases, Off, NoLease, Terminal
<1>2. Owned
  BY DEF Init, Owned, Works, Off
<1>3. Founded
  BY PublishAssumption DEF Init, Founded, Off, Terminal
<1> QED
  BY <1>1, <1>2, <1>3 DEF PInv

-----------------------------------------------------------------------------
(* A step of one task: the others stand still.                             *)

LEMMA PubStep ==
    ASSUME Typed, NEW i \in Procs, NEW to \in Phases, PubTo(i, to)
    PROVE  /\ pub' \in [Procs -> [pc : Phases, lost : BOOLEAN]]
           /\ pub'[i].pc = to
           /\ to # "off" => pub'[i].lost = pub[i].lost
           /\ \A j \in Procs \ {i} : pub'[j] = pub[j]
BY DEF Typed, PubTo, Off, Phases

(* The records a claim and a new task write.                                *)
LEMMA NewRecords ==
    ASSUME NEW i \in Procs
    PROVE  /\ Held(i) \in [owner : Procs \cup {None, Dead}, live : BOOLEAN]
           /\ Held(i).owner = i /\ Held(i).live
           /\ At("claim") \in [pc : Phases, lost : BOOLEAN] /\ At("claim").pc = "claim"
           /\ Off \in [pc : Phases, lost : BOOLEAN] /\ Off.pc = "off"
BY DEF Held, At, Off, Phases

(* A task goes on working or ends: it gains no lease it did not have.      *)
LEMMA StepOwned ==
    ASSUME Typed, Owned, NEW i \in Procs, NEW to \in Phases, PubTo(i, to),
           pub[i].pc \notin {"off", "claim"},
           UNCHANGED <<lease, missed>>
    PROVE  Owned'
BY PubStep DEF Owned, Works

LEMMA PublishKeeps ==
    ASSUME PInv, NEW i \in Procs, Publish(i)
    PROVE  PInv'
<1> USE PublishAssumption DEF PInv
<1>1. CASE PublishClaim(i)
  <2>1. PICK to \in {"download", "off"} : /\ PubTo(i, to)
                                          /\ \/ /\ to = "download" /\ Claimable(lease, i)
                                                /\ lease' = Held(i)
                                             \/ to = "off" /\ lease' = lease
    BY <1>1 DEF PublishClaim, PublishClaimable
  <2>2. /\ pub' \in [Procs -> [pc : Phases, lost : BOOLEAN]]
        /\ pub'[i].pc = to /\ \A j \in Procs \ {i} : pub'[j] = pub[j]
    BY <2>1, PubStep DEF Phases
  <2>3. UNCHANGED <<rowVars, missed, keepVars, obj, hub>>
    BY <1>1 DEF PublishClaim
  <2>4. lease' \in [owner : Procs \cup {None, Dead}, live : BOOLEAN]
    BY <2>1, NewRecords DEF Typed
  <2>5. Typed'
    BY <2>2, <2>3, <2>4 DEF Typed, rowVars
  <2>6. Owned'
    BY <2>1, <2>2, <2>3 DEF Owned, Works, Claimable, Held, Typed
  <2>7. Founded'
    BY <2>1, <2>2, <2>3 DEF Founded, rowVars, keepVars, Terminal
  <2> QED
    BY <2>5, <2>6, <2>7
<1>2. CASE Download(i)
  <2>1. PICK to \in {"off", "refuse", "keep", "check"} :
            /\ PubTo(i, to)
            /\ to = "refuse" => "last" \notin obj \/ ~good
            /\ to = "check" => ~capped
    BY <1>2 DEF Download
  <2>2. pub[i].pc = "download" /\ UNCHANGED <<rowVars, keepVars, obj, hub, lease, missed>>
    BY <1>2 DEF Download, PubOthers, leaseVars
  <2>3. Typed'
    BY <2>1, <2>2, PubStep DEF Typed, rowVars, Phases
  <2>4. Owned'
    BY <2>1, <2>2, StepOwned DEF Phases
  <2>5. Founded'
    <3>1. pub'[i].pc = to /\ \A j \in Procs \ {i} : pub'[j] = pub[j]
      BY <2>1, PubStep DEF Phases
    <3> QED
      BY <2>1, <2>2, <3>1 DEF Founded, rowVars, keepVars, Terminal
  <2> QED
    BY <2>3, <2>4, <2>5
<1>3. CASE Refuse(i)
  <2>1. PubTo(i, "off") /\ pub[i].pc = "refuse" /\ UNCHANGED <<keepVars, obj, hub, lease, missed>>
    BY <1>3 DEF Refuse, PubOthers, leaseVars
  <2>2. \/ row = "publishing" /\ row' = "failed" /\ why' = "S7" /\ UNCHANGED <<until, capped, good>>
        \/ UNCHANGED rowVars
    BY <1>3 DEF Refuse, Finish
  <2>3. Typed'
    BY <2>1, <2>2, PubStep DEF Typed, rowVars, Phases, Terminal
  <2>4. Owned'
    BY <2>1, StepOwned DEF Phases
  <2>5. Founded'
    <3>1. pub'[i].pc = "off" /\ \A j \in Procs \ {i} : pub'[j] = pub[j]
      BY <2>1, PubStep DEF Phases
    <3> QED
      BY <2>1, <2>2, <3>1 DEF Founded, rowVars, keepVars, Terminal
  <2> QED
    BY <2>3, <2>4, <2>5
<1>4. CASE KeepRead(i) \/ KeepCopies(i) \/ KeepInsert(i) \/ CommitCheck(i) \/ Commit(i) \/ ReadBack(i)
  <2>1. PICK to \in Phases :
            /\ PubTo(i, to) /\ to \notin {"refuse", "claim", "download"}
            /\ to = "insert" => copy'
            /\ to = "finish" => hub
            /\ to \in {"check", "commit", "readback", "finish"} /\ capped => kept' # None
    <3> USE DEF Founded, Phases
    <3>1. CASE KeepRead(i)
      BY <3>1 DEF KeepRead, keepVars
    <3>2. CASE KeepCopies(i)
      BY <3>2 DEF KeepCopies
    <3>3. CASE KeepInsert(i)
      BY <3>3 DEF KeepInsert
    <3>4. CASE CommitCheck(i)
      BY <3>4 DEF CommitCheck, keepVars
    <3>5. CASE Commit(i)
      BY <3>5 DEF Commit, keepVars
    <3>6. CASE ReadBack(i)
      BY <3>6 DEF ReadBack, keepVars
    <3> QED
      BY <1>4, <3>1, <3>2, <3>3, <3>4, <3>5, <3>6
  <2>2. /\ pub[i].pc \notin {"off", "claim"} /\ UNCHANGED <<rowVars, obj, lease, missed>>
        /\ hub => hub'
        /\ copy => copy'
        /\ kept # None => kept' = kept
        /\ kept' # None => copy'
    BY <1>4 DEF KeepRead, KeepCopies, KeepInsert, CommitCheck, Commit, ReadBack, Founded,
                PubOthers, leaseVars, keepVars
  <2>3. Typed'
    BY <2>1, <2>2, PubStep DEF Typed, rowVars
  <2>4. Owned'
    BY <2>1, <2>2, StepOwned
  <2>5. Founded'
    <3>1. pub'[i].pc = to /\ \A j \in Procs \ {i} : pub'[j] = pub[j]
      BY <2>1, PubStep
    <3> QED
      BY <2>1, <2>2, <3>1 DEF Founded, rowVars, Terminal
  <2> QED
    BY <2>3, <2>4, <2>5
<1>5. CASE FinishSucceeded(i)
  <2>1. PubTo(i, "off") /\ pub[i].pc = "finish" /\ UNCHANGED <<keepVars, obj, hub, lease, missed>>
    BY <1>5 DEF FinishSucceeded, PubOthers, leaseVars
  <2>2. \/ /\ row = "publishing" /\ row' = "succeeded" /\ why' = None
           /\ until' = (IF capped THEN kept ELSE None) /\ UNCHANGED <<capped, good>>
        \/ UNCHANGED rowVars
    BY <1>5 DEF FinishSucceeded, Finish
  <2>3. Typed'
    BY <2>1, <2>2, PubStep DEF Typed, rowVars, Phases, Terminal
  <2>4. Owned'
    BY <2>1, StepOwned DEF Phases
  <2>5. Founded'
    <3>1. pub'[i].pc = "off" /\ \A j \in Procs \ {i} : pub'[j] = pub[j]
      BY <2>1, PubStep DEF Phases
    <3> QED
      BY <2>1, <2>2, <3>1 DEF Founded, rowVars, keepVars, Terminal
  <2> QED
    BY <2>3, <2>4, <2>5
<1> QED
  BY <1>1, <1>2, <1>3, <1>4, <1>5 DEF Publish

-----------------------------------------------------------------------------
(* The renewal thread, the lease's clock, restarts.                        *)

LEMMA LeaseKeeps ==
    ASSUME PInv, LeaseExpires \/ \E i \in Procs : PublishRenew(i) \/ Crash(i)
    PROVE  PInv'
<1> USE PublishAssumption DEF PInv
<1>1. ASSUME NEW i \in Procs, PublishRenew(i)
      PROVE  PInv'
  <2>1. \/ Claimable(lease, i) /\ lease' = Held(i) /\ pub' = pub
        \/ lease' = lease /\ pub' = [pub EXCEPT ![i].lost = TRUE]
    BY <1>1 DEF PublishRenew, PublishClaimable
  <2>2. UNCHANGED <<rowVars, missed, keepVars, obj, hub>> /\ Works(i)
    BY <1>1 DEF PublishRenew, Works
  <2>3. /\ pub' \in [Procs -> [pc : Phases, lost : BOOLEAN]]
        /\ \A j \in Procs : pub'[j].pc = pub[j].pc /\ (pub[j].lost => pub'[j].lost)
    <3>1. CASE pub' = pub
      BY <3>1 DEF Typed
    <3>2. CASE pub' = [pub EXCEPT ![i].lost = TRUE]
      <4>1. pub[i] \in [pc : Phases, lost : BOOLEAN]
        BY DEF Typed
      <4>2. pub' = [pub EXCEPT ![i] = [pub[i] EXCEPT !.lost = TRUE]]
        BY <3>2
      <4>3. /\ [pub[i] EXCEPT !.lost = TRUE] \in [pc : Phases, lost : BOOLEAN]
            /\ [pub[i] EXCEPT !.lost = TRUE].pc = pub[i].pc
            /\ [pub[i] EXCEPT !.lost = TRUE].lost
        BY <4>1
      <4> QED
        BY <4>2, <4>3 DEF Typed
    <3> QED
      BY <2>1, <3>1, <3>2
  <2>4. lease' \in [owner : Procs \cup {None, Dead}, live : BOOLEAN]
    BY <2>1, NewRecords DEF Typed
  <2>5. Typed'
    BY <2>2, <2>3, <2>4 DEF Typed, rowVars
  <2>6. Owned'
    BY <2>1, <2>2, <2>3 DEF Owned, Works, Claimable, Held, Typed
  <2>7. Founded'
    BY <2>2, <2>3 DEF Founded, rowVars, keepVars, Terminal
  <2> QED
    BY <2>5, <2>6, <2>7
<1>2. CASE LeaseExpires
  <2>1. /\ lease' = [lease EXCEPT !.live = FALSE]
        /\ \/ Orphan(lease, pub) /\ missed' = missed
           \/ missed' = TRUE
        /\ UNCHANGED <<rowVars, keepVars, obj, hub, pub>>
    BY <1>2 DEF LeaseExpires, Expires
  <2>2. Typed'
    BY <2>1 DEF Typed, rowVars
  <2>3. Owned'
    BY <2>1 DEF Owned, Works, Orphan, Off, Typed
  <2>4. Founded'
    BY <2>1 DEF Founded, rowVars, keepVars, Terminal
  <2> QED
    BY <2>2, <2>3, <2>4
<1>3. ASSUME NEW i \in Procs, Crash(i)
      PROVE  PInv'
  <2>1. /\ lease' = Orphaned(lease, i) /\ pub' = [pub EXCEPT ![i] = Off]
        /\ UNCHANGED <<rowVars, missed, keepVars, obj, hub>>
    BY <1>3 DEF Crash
  <2>2. /\ pub' \in [Procs -> [pc : Phases, lost : BOOLEAN]]
        /\ pub'[i].pc = "off" /\ \A j \in Procs \ {i} : pub'[j] = pub[j]
    BY <2>1 DEF Typed, Off, Phases
  <2>3. /\ lease' \in [owner : Procs \cup {None, Dead}, live : BOOLEAN]
        /\ lease'.live = lease.live /\ (lease.owner # i => lease' = lease)
    BY <2>1 DEF Typed, Orphaned
  <2>4. Typed'
    BY <2>1, <2>2, <2>3 DEF Typed, rowVars
  <2>5. Owned'
    BY <2>1, <2>2, <2>3 DEF Owned, Works
  <2>6. Founded'
    BY <2>1, <2>2 DEF Founded, rowVars, keepVars, Terminal
  <2> QED
    BY <2>4, <2>5, <2>6
<1> QED
  BY <1>1, <1>2, <1>3

-----------------------------------------------------------------------------
(* The row, the sweep, the mirror and the deletions.                       *)

(* Starting a task for a row disturbs nobody's lease.                      *)
LEMMA StartsKeep ==
    ASSUME PInv, NEW i \in Procs, AttemptEnds(i) \/ SweepDecides(i)
    PROVE  PInv'
<1> USE PublishAssumption DEF PInv
<1>1. /\ row' = row \/ (row = "running" /\ row' = "publishing")
      /\ UNCHANGED <<capped, good, why, until, lease, missed, keepVars, obj, hub>>
  BY DEF AttemptEnds, SweepDecides, rowVars, leaseVars, SweepOthers
<1>2. pub' = pub \/ pub' = [pub EXCEPT ![i] = At("claim")]
  BY DEF AttemptEnds, SweepDecides
<1>3. /\ pub' \in [Procs -> [pc : Phases, lost : BOOLEAN]]
      /\ \A j \in Procs : pub'[j] = pub[j] \/ pub'[j].pc = "claim"
  BY <1>2, NewRecords DEF Typed
<1>4. Typed'
  BY <1>1, <1>3 DEF Typed
<1>5. Owned'
  BY <1>1, <1>3 DEF Owned, Works
<1>6. Founded'
  BY <1>1, <1>3 DEF Founded, keepVars, Terminal
<1> QED
  BY <1>4, <1>5, <1>6

(* What touches neither task nor lease of the publish: the row may end,    *)
(* and the objects go once it has.                                         *)
LEMMA OthersKeep ==
    ASSUME PInv,
           \/ RowStops \/ MirrorLeaseExpires \/ Retention \/ Janitor \/ Ages
           \/ \E i \in Procs : \/ Mirror(i) \/ MirrorRenew(i) \/ ScheduleMirror(i)
                               \/ SweepReads(i) \/ SweepGivesUp(i)
    PROVE  PInv'
<1> USE PublishAssumption DEF PInv
<1>1. UNCHANGED <<pub, lease, keepVars, hub, capped, good, until>> /\ (missed' = missed \/ missed' = TRUE)
  BY DEF RowStops, MirrorLeaseExpires, Retention, Janitor, Ages, Mirror, MirrorDownload,
         MirrorCommit, MirOthers, MirrorRenew, ScheduleMirror, SweepReads, SweepGivesUp, Finish,
         Expires, SweepOthers, leaseVars, rowVars
<1>2. \/ row' = row /\ why' = why
      \/ row \in {"running", "canceling"} /\ row' \in {"canceling", "canceled", "failed"} /\ why' = why
      \/ row = "publishing" /\ row' = "failed" /\ why' = "S8"
  BY DEF RowStops, MirrorLeaseExpires, Retention, Janitor, Ages, Mirror, MirrorDownload,
         MirrorCommit, MirrorRenew, ScheduleMirror, SweepReads, SweepGivesUp, Finish,
         Expires, rowVars
<1>3. "last" \in obj => "last" \in obj' \/ row' \in Terminal
  BY DEF RowStops, MirrorLeaseExpires, Retention, Janitor, Ages, Mirror, MirrorDownload,
         MirrorCommit, MirrorRenew, ScheduleMirror, SweepReads, SweepGivesUp, Expires, rowVars
<1>4. Typed'
  BY <1>1, <1>2 DEF Typed, Terminal
<1>5. Owned'
  BY <1>1 DEF Owned, Works
<1>6. "last" \notin obj' => row' \in Terminal
  BY <1>2, <1>3, <1>4 DEF Founded, Typed, Terminal
<1>7. Founded'
  BY <1>1, <1>2, <1>6 DEF Founded, keepVars, Terminal
<1> QED
  BY <1>4, <1>5, <1>7

LEMMA NextPInv ==
    ASSUME PInv, [Next]_vars
    PROVE  PInv'
<1>1. CASE UNCHANGED vars
  BY <1>1 DEF PInv, Typed, Owned, Works, Founded, vars, rowVars, leaseVars, keepVars, Terminal
<1>2. ASSUME NEW i \in Procs,
             \/ Publish(i) \/ PublishRenew(i) \/ Mirror(i) \/ MirrorRenew(i)
             \/ SweepRound(i) \/ ScheduleMirror(i) \/ Crash(i) \/ AttemptEnds(i)
      PROVE  PInv'
  <2>1. CASE Publish(i)
    BY <2>1, PublishKeeps
  <2>2. CASE PublishRenew(i) \/ Crash(i)
    BY <2>2, LeaseKeeps
  <2>3. CASE AttemptEnds(i) \/ SweepDecides(i)
    BY <2>3, StartsKeep
  <2>4. CASE Mirror(i) \/ MirrorRenew(i) \/ ScheduleMirror(i) \/ SweepReads(i) \/ SweepGivesUp(i)
    BY <2>4, OthersKeep
  <2> QED
    BY <1>2, <2>1, <2>2, <2>3, <2>4 DEF SweepRound
<1>3. CASE LeaseExpires
  BY <1>3, LeaseKeeps
<1>4. CASE RowStops \/ MirrorLeaseExpires \/ Retention \/ Janitor \/ Ages
  BY <1>4, OthersKeep
<1> QED
  BY <1>1, <1>2, <1>3, <1>4 DEF Next

LEMMA PublishInvariant == Spec => []PInv
BY InitPInv, NextPInv, PTL DEF Spec

-----------------------------------------------------------------------------
(* Two processes never work on the same publish while renewals are         *)
(* answered in time, for any number of processes, retries and restarts     *)
(* (_Lease, claim_training_publish).                                       *)
THEOREM SingleWriter == Spec => []OneWriter
<1>1. PInv => OneWriter
  <2> SUFFICES ASSUME PInv, ~missed PROVE Cardinality(Working) <= 1
    BY DEF OneWriter
  <2>1. Working \subseteq {lease.owner}
    BY DEF PInv, Owned, Works, Working
  <2>2. IsFiniteSet({lease.owner}) /\ Cardinality({lease.owner}) = 1
    BY FS_Singleton
  <2>3. Cardinality(Working) <= Cardinality({lease.owner})
    BY <2>1, <2>2, FS_Subset
  <2> QED
    BY <2>2, <2>3
<1> QED
  BY <1>1, PublishInvariant, PTL

(* What the row tells the student is true: a training is refused only for  *)
(* a bad model, and one that succeeded is on the Hub, a capped one with    *)
(* its kept copy and that copy's window (publish_sync, _keep_checkpoint).  *)
THEOREM TrueOutcome == Spec => []OutcomeIsTrue
<1>1. PInv => OutcomeIsTrue
  BY DEF PInv, Founded, OutcomeIsTrue, RefusedIsBad, SucceededIsWhole
<1> QED
  BY <1>1, PublishInvariant, PTL
=============================================================================
