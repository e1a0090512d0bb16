-------------------------- MODULE EdgeStart_proofs --------------------------
(***************************************************************************)
(* Proofs about the starts of Modal sessions, for any number of students,  *)
(* requests and pool workers: types; one start per student; where an       *)
(* outcome is until it is attached or ended (Sound), under every fault;    *)
(* and on it that answers are true and that no session is lost.            *)
(***************************************************************************)
EXTENDS EdgeStart, TLAPS

(* A request whose outcome has arrived or may still arrive waits for it,   *)
(* and one that has credentials knows their session.                       *)
KnowsSession ==
    \A r \in Requests :
        /\ fut[r] # "none" => pc[r] = "waiting"
        /\ fut[r] = "creds" \/ pc[r] \in {"attach", "kill", "killLast"} => held[r] # Nobody

(* A start that can be joined is the one _STARTS has for its student.      *)
Registered ==
    \A s \in Requests :
        cf[s] \in Running /\ ~settled[s] /\ ~hung[s] => starts[Student[s]] = s

IInv == TypeOK /\ KnowsSession /\ Registered

-----------------------------------------------------------------------------
LEMMA InitIInv == Init => IInv
BY EdgeAssumption DEF Init, IInv, TypeOK, KnowsSession, Registered, Live, Running

(* The rows' own steps do not touch handlers or starts.                    *)
LEMMA RowStepIInv ==
    ASSUME IInv, NEW r \in Requests, RowStep(r) PROVE IInv'
<1>1. CASE Create(r)
  BY <1>1, EdgeAssumption
     DEF IInv, Create, TypeOK, KnowsSession, Registered, Live, Running, startVars, modalVars
<1>2. CASE Connect(r)
  BY <1>2, EdgeAssumption
     DEF IInv, Connect, TypeOK, KnowsSession, Registered, Live, Running, startVars, handlerVars
<1>3. CASE RowEnds(r)
  BY <1>3, EdgeAssumption
     DEF IInv, RowEnds, Finish, TypeOK, KnowsSession, Registered, Live, Running, startVars,
         handlerVars, modalVars
<1> QED
  BY <1>1, <1>2, <1>3 DEF RowStep

LEMMA DeleteIInv ==
    ASSUME IInv, NEW u \in Students, StudentDeleted(u) PROVE IInv'
BY EdgeAssumption
   DEF IInv, StudentDeleted, TypeOK, KnowsSession, Registered, Live, Running, startVars,
       handlerVars, modalVars

(* Of a student's starts, only the registered one can be joined; a new one *)
(* is submitted when there is none.                                        *)
LEMMA StartSessionIInv ==
    ASSUME IInv, NEW r \in Requests, StartSession(r) PROVE IInv'
<1> DEFINE e == starts[Student[r]]
           s == IF Joinable(e) THEN e ELSE r
<1>1. /\ Student[r] \in Students /\ e \in Requests \cup {Nobody}
      /\ s \in Requests
  BY EdgeAssumption DEF IInv, TypeOK, Joinable
<1>2. /\ cf' = IF s = r THEN [cf EXCEPT ![r] = "queued"] ELSE cf
      /\ starts' = IF s = r THEN [starts EXCEPT ![Student[r]] = r] ELSE starts
      /\ settled' = settled /\ hung' = hung
      /\ late' = [late EXCEPT ![s] = r]
      /\ waiter' = IF e = Nobody THEN [waiter EXCEPT ![s] = r]
                   ELSE [[waiter EXCEPT ![e] = Nobody] EXCEPT ![s] = r]
  BY DEF StartSession, Becomes, Entries
<1>3. TypeOK'
  <2>1. /\ cf' \in [Requests -> Running \cup {"none", "creds", "odd", "error", "cancelled", "orphan"}]
        /\ starts' \in [Students -> Requests \cup {Nobody}]
        /\ late' \in [Requests -> Requests \cup {Nobody}]
        /\ waiter' \in [Requests -> Requests \cup {Nobody}]
    BY <1>1, <1>2 DEF IInv, TypeOK, Running
  <2>2. /\ fut' \in [Requests -> {"none", "pending", "creds", "failed", "superseded"}]
        /\ joined' \in [Requests -> Requests \cup {Nobody}]
        /\ pc' \in [Requests -> {"out", "created", "waiting", "attach", "kill", "killLast", "fail",
                                 "ready", "refused", "done"}]
    BY <1>1 DEF IInv, TypeOK, StartSession
  <2> QED
    BY <1>2, <2>1, <2>2 DEF IInv, TypeOK, StartSession, rowVars, modalVars
<1>4. KnowsSession'
  BY DEF IInv, KnowsSession, TypeOK, StartSession
<1>5. Registered'
  BY <1>1, <1>2, EdgeAssumption DEF IInv, TypeOK, Registered, Joinable, Running
<1> QED
  BY <1>3, <1>4, <1>5 DEF IInv

LEMMA SettleIInv ==
    ASSUME IInv, NEW s \in Requests, Settle(s) PROVE IInv'
<1>1. /\ cf' = cf /\ late' = late
      /\ waiter' = [waiter EXCEPT ![s] = Nobody]
      /\ settled' = [settled EXCEPT ![s] = TRUE]
      /\ starts' = [u \in Students |-> IF starts[u] = s THEN Nobody ELSE starts[u]]
  BY DEF Settle, Becomes, Forget, Entries
<1>2. /\ fut' \in [Requests -> {"none", "pending", "creds", "failed", "superseded"}]
      /\ held' \in [Requests -> Requests \cup {Nobody}]
      /\ lateTask' \subseteq Requests \X Requests \X {"attach", "kill"}
  BY DEF IInv, TypeOK, Settle, LateTakes
<1>3. TypeOK'
  BY <1>1, <1>2 DEF IInv, TypeOK, Settle, rowVars, modalVars
<1>4. KnowsSession'
  BY EdgeAssumption DEF IInv, KnowsSession, TypeOK, Settle
<1>5. Registered'
  <2> SUFFICES ASSUME NEW q \in Requests, cf'[q] \in Running, ~settled'[q], ~hung'[q]
               PROVE  starts'[Student[q]] = q
    BY DEF Registered
  <2>1. q # s /\ cf[q] \in Running /\ ~settled[q] /\ ~hung[q]
    BY <1>1 DEF IInv, TypeOK, Settle
  <2>2. starts[Student[q]] = q /\ Student[q] \in Students
    BY <2>1, EdgeAssumption DEF IInv, Registered
  <2> QED
    BY <1>1, <2>1, <2>2
<1> QED
  BY <1>3, <1>4, <1>5 DEF IInv

LEMMA StartStepIInv ==
    ASSUME IInv, NEW s \in Requests, StartStep(s) PROVE IInv'
<1>1. CASE StartRuns(s)
  BY <1>1, EdgeAssumption
     DEF IInv, StartRuns, TypeOK, KnowsSession, Registered, Live, Running, rowVars, handlerVars, modalVars
<1>2. CASE StartAnswers(s)
  BY <1>2, EdgeAssumption
     DEF IInv, StartAnswers, TypeOK, KnowsSession, Registered, Live, Running, rowVars, handlerVars, modalVars
<1>3. CASE StartHangs(s)
  BY <1>3, EdgeAssumption
     DEF IInv, StartHangs, TypeOK, KnowsSession, Registered, Live, Running, rowVars, handlerVars, modalVars
<1>4. CASE OrphanUp(s)
  BY <1>4, EdgeAssumption
     DEF IInv, OrphanUp, TypeOK, KnowsSession, Registered, Live, Running, rowVars, handlerVars, modalVars
<1> QED
  BY <1>1, <1>2, <1>3, <1>4, SettleIInv DEF StartStep

(* Leaving forgets a start only with the request that waited for it.       *)
LEMMA LeaveKeeps ==
    ASSUME IInv, NEW r \in Requests, Leave(r)
    PROVE  /\ cf' \in [Requests -> Running \cup {"none", "creds", "odd", "error", "cancelled", "orphan"}]
           /\ waiter' \in [Requests -> Requests \cup {Nobody}]
           /\ late' = late
           /\ settled' \in [Requests -> BOOLEAN]
           /\ starts' \in [Students -> Requests \cup {Nobody}]
           /\ lateTask' \subseteq Requests \X Requests \X {"attach", "kill"}
           /\ hung' = hung => Registered'
<1> DEFINE j == joined[r]
           w == IF waiter[j] = r THEN [waiter EXCEPT ![j] = Nobody] ELSE waiter
           drop == fut[r] = "pending" /\ w[j] = Nobody /\ ~settled[j] /\ cf[j] = "queued"
<1>1. /\ late' = late /\ waiter' = w
      /\ cf' = IF drop THEN [cf EXCEPT ![j] = "cancelled"] ELSE cf
      /\ settled' = IF drop THEN [settled EXCEPT ![j] = TRUE] ELSE settled
      /\ starts' = IF drop THEN [u \in Students |-> IF starts[u] = j THEN Nobody ELSE starts[u]]
                   ELSE starts
  BY DEF Leave, Becomes, Forget, Entries
<1>2. lateTask' \subseteq Requests \X Requests \X {"attach", "kill"}
  BY DEF IInv, TypeOK, KnowsSession, Leave, HandsOver
<1>3. ASSUME hung' = hung PROVE Registered'
  BY <1>1, <1>3, EdgeAssumption DEF IInv, TypeOK, Registered, Running
<1> QED
  BY <1>1, <1>2, <1>3 DEF IInv, TypeOK, Running

(* Storing a session in a row keeps the row's types and gives it an edge.  *)
LEMMA StoresType ==
    ASSUME IInv, NEW r \in Requests, NEW s \in Requests, Stores(r, s)
    PROVE  /\ status' \in [Requests -> Live \cup {"none", "ended", "deleted"}]
           /\ edge' \in [Requests -> Requests \cup {Nobody}]
           /\ sealed' \in [Requests -> BOOLEAN]
           /\ \A q \in Requests : edge'[q] = Nobody => edge[q] = Nobody /\ sealed'[q] = sealed[q]
<1>1. status' \in [Requests -> Live \cup {"none", "ended", "deleted"}]
  BY DEF IInv, TypeOK, Stores, Finish, Live
<1>2. edge' = [edge EXCEPT ![r] = s] /\ sealed' = [sealed EXCEPT ![r] = TRUE]
  BY DEF Stores
<1>3. edge' \in [Requests -> Requests \cup {Nobody}] /\ sealed' \in [Requests -> BOOLEAN]
  BY <1>2 DEF IInv, TypeOK
<1>4. ASSUME NEW q \in Requests, edge'[q] = Nobody
      PROVE  edge[q] = Nobody /\ sealed'[q] = sealed[q]
  <2>1. q # r
    BY <1>2, <1>4, EdgeAssumption DEF IInv, TypeOK
  <2> QED
    BY <1>2, <1>4, <2>1 DEF IInv, TypeOK
<1> QED
  BY <1>1, <1>3, <1>4

LEMMA HandlerStepIInv ==
    ASSUME IInv, NEW r \in Requests, HandlerStep(r) PROVE IInv'
<1> USE EdgeAssumption
<1>1. CASE StartTimeout(r)
  BY <1>1, LeaveKeeps DEF IInv, StartTimeout, TypeOK, KnowsSession, rowVars, modalVars
<1>2. CASE Cancel(r)
  BY <1>2, LeaveKeeps DEF IInv, Cancel, TypeOK, KnowsSession, rowVars, modalVars
<1>3. CASE Resume(r)
  <2>1. After(r) \in {"fail", "kill", "attach"} /\ (After(r) # "fail" => fut[r] = "creds")
    BY DEF After
  <2>2. KnowsSession'
    BY <1>3, <2>1 DEF IInv, Resume, TypeOK, KnowsSession
  <2>3. TypeOK'
    BY <1>3, <2>1 DEF IInv, Resume, TypeOK, rowVars, modalVars, startVars
  <2>4. Registered'
    BY <1>3 DEF IInv, Resume, Registered, startVars
  <2> QED
    BY <2>2, <2>3, <2>4 DEF IInv
<1>4. CASE Attach(r)
  <2>1. held[r] \in Requests
    BY <1>4 DEF IInv, Attach, KnowsSession, TypeOK
  <2>2. /\ status' \in [Requests -> Live \cup {"none", "ended", "deleted"}]
        /\ edge' \in [Requests -> Requests \cup {Nobody}]
        /\ sealed' \in [Requests -> BOOLEAN]
        /\ \A q \in Requests : edge'[q] = Nobody => edge[q] = Nobody /\ sealed'[q] = sealed[q]
    BY <1>4, <2>1, StoresType DEF IInv, TypeOK, Attach
  <2>3. /\ pc' \in [Requests -> {"out", "created", "waiting", "attach", "kill", "killLast", "fail",
                                 "ready", "refused", "done"}]
        /\ held' \in [Requests -> Requests \cup {Nobody}]
    <3>1. \E to \in {"ready", "refused", "killLast", "kill"} : pc' = [pc EXCEPT ![r] = to]
      BY <1>4 DEF Attach
    <3>2. held' = held \/ held' = [held EXCEPT ![r] = Nobody]
      BY <1>4 DEF Attach
    <3> QED
      BY <3>1, <3>2 DEF IInv, TypeOK
  <2>4. TypeOK'
    BY <1>4, <2>2, <2>3 DEF IInv, Attach, TypeOK, modalVars, startVars
  <2>5. KnowsSession'
    BY <1>4, <2>1 DEF IInv, Attach, TypeOK, KnowsSession
  <2>6. Registered'
    BY <1>4 DEF IInv, Attach, Registered, startVars
  <2> QED
    BY <2>4, <2>5, <2>6 DEF IInv
<1>5. CASE TerminateNow(r)
  BY <1>5 DEF IInv, TerminateNow, Terminates, TypeOK, KnowsSession, Registered, rowVars, startVars
<1>6. CASE EndEdgeFailed(r)
  BY <1>6 DEF IInv, EndEdgeFailed, Finish, Live, TypeOK, KnowsSession, Registered, modalVars, startVars
<1> QED
  BY <1>1, <1>2, <1>3, <1>4, <1>5, <1>6, StartSessionIInv DEF HandlerStep

LEMMA LateStepIInv ==
    ASSUME IInv, LateStep PROVE IInv'
<1> USE EdgeAssumption
<1>1. PICK t \in lateTask : LateAttach(t) \/ LateTerminate(t)
  BY DEF LateStep
<1>2. t \in Requests \X Requests \X {"attach", "kill"}
  BY DEF IInv, TypeOK
<1>3. CASE LateAttach(t)
  <2> DEFINE r == t[1]
  <2>1. r \in Requests /\ t[2] \in Requests /\ <<r, t[2], "kill">> \in Requests \X Requests \X {"attach", "kill"}
    BY <1>2
  <2>2. /\ status' \in [Requests -> Live \cup {"none", "ended", "deleted"}]
        /\ edge' \in [Requests -> Requests \cup {Nobody}]
        /\ sealed' \in [Requests -> BOOLEAN]
        /\ \A q \in Requests : edge'[q] = Nobody => edge[q] = Nobody /\ sealed'[q] = sealed[q]
    BY <1>3, <2>1, StoresType DEF IInv, TypeOK, LateAttach
  <2>3. lateTask' \subseteq Requests \X Requests \X {"attach", "kill"}
    BY <1>3, <2>1 DEF IInv, TypeOK, LateAttach
  <2>4. TypeOK'
    BY <1>3, <2>2, <2>3 DEF IInv, LateAttach, TypeOK, modalVars, startVars, handlerVars
  <2>5. KnowsSession' /\ Registered'
    BY <1>3 DEF IInv, LateAttach, KnowsSession, Registered, startVars, handlerVars
  <2> QED
    BY <2>4, <2>5 DEF IInv
<1>4. CASE LateTerminate(t)
  BY <1>2, <1>4 DEF IInv, LateTerminate, Terminates, TypeOK, KnowsSession, Registered, rowVars,
              startVars, handlerVars
<1> QED
  BY <1>1, <1>3, <1>4

LEMMA TerminateStepIInv ==
    ASSUME IInv, NEW r \in Requests, TerminateStep(r) PROVE IInv'
<1> USE EdgeAssumption
<1>1. CASE TerminateRow(r)
  BY <1>1 DEF IInv, TerminateRow, Due, TypeOK, KnowsSession, Registered, rowVars, modalVars,
              startVars, handlerVars
<1>2. CASE TerminateLeft(r)
  BY <1>2 DEF IInv, TerminateLeft, TypeOK, KnowsSession, Registered, rowVars, modalVars,
              startVars, handlerVars
<1>3. CASE TerminateAnswers(r)
  BY <1>3 DEF IInv, TerminateAnswers, TypeOK, KnowsSession, Registered, rowVars,
              startVars, handlerVars
<1>4. CASE MarkTerminated(r)
  <2>1. sealed' \in [Requests -> BOOLEAN] /\ \A q \in Requests : sealed'[q] => sealed[q]
    <3>1. CASE sealed' = sealed
      BY <3>1 DEF IInv, TypeOK
    <3>2. CASE sealed' = [sealed EXCEPT ![r] = FALSE]
      BY <3>2 DEF IInv, TypeOK
    <3> QED
      BY <1>4, <3>1, <3>2 DEF MarkTerminated
  <2>2. /\ term' \in [Requests -> {"off", "call", "left", "mark"}]
        /\ \A q \in Requests : term'[q] # "off" => term[q] # "off"
    BY <1>4 DEF IInv, TypeOK, MarkTerminated
  <2>3. ASSUME NEW q \in Requests, sealed'[q] \/ term'[q] # "off"
        PROVE  edge'[q] # Nobody
    BY <1>4, <2>1, <2>2, <2>3 DEF IInv, TypeOK, MarkTerminated
  <2>4. TypeOK'
    BY <1>4, <2>1, <2>2, <2>3 DEF IInv, MarkTerminated, TypeOK, modalVars, startVars, handlerVars
  <2> QED
    BY <1>4, <2>4 DEF IInv, MarkTerminated, KnowsSession, Registered, startVars, handlerVars
<1> QED
  BY <1>1, <1>2, <1>3, <1>4 DEF TerminateStep

LEMMA TickIInv ==
    ASSUME IInv, Tick PROVE IInv'
BY EdgeAssumption
   DEF IInv, Tick, Least, TypeOK, KnowsSession, Registered, startVars, handlerVars

LEMMA CrashIInv ==
    ASSUME IInv, Crash PROVE IInv'
BY EdgeAssumption
   DEF IInv, Crash, TypeOK, KnowsSession, Registered, Running, rowVars, modalVars

LEMMA NextIInv == IInv /\ [Next]_vars => IInv'
<1> SUFFICES ASSUME IInv, [Next]_vars PROVE IInv'
  OBVIOUS
<1>1. CASE Next
  BY <1>1, RowStepIInv, StartStepIInv, HandlerStepIInv, TerminateStepIInv, DeleteIInv, LateStepIInv,
     TickIInv, CrashIInv DEF Next
<1>2. CASE UNCHANGED vars
  BY <1>2 DEF IInv, TypeOK, KnowsSession, Registered, vars, rowVars, modalVars, handlerVars, startVars
<1> QED
  BY <1>1, <1>2

(* The invariant that the types and the uniqueness of starts rest on.     *)
THEOREM Invariant == Spec => []IInv
BY InitIInv, NextIInv, PTL DEF Spec

(* Every variable keeps its type, and what is due to be ended has a        *)
(* session to end.                                                         *)
THEOREM TypeCorrect == Spec => []TypeOK
<1>1. IInv => TypeOK
  BY DEF IInv
<1> QED
  BY Invariant, <1>1, PTL

(* One start per student, whatever hung start settles meanwhile: two that  *)
(* could be joined would both be the one _STARTS has.                      *)
THEOREM OneStart == Spec => []OneStartPerStudent
<1>1. IInv => OneStartPerStudent
  BY DEF IInv, Registered, OneStartPerStudent
<1> QED
  BY Invariant, <1>1, PTL

-----------------------------------------------------------------------------
(* A start that was submitted has a request, whose own it was first, and   *)
(* the student whose entry in _STARTS it is. A call without an answer has  *)
(* no session yet and is not settled.                                      *)
Started ==
    \A s \in Requests :
        /\ cf[s] \in {"none", "queued", "running"} => ~settled[s] /\ modal[s] = "none"
        /\ cf[s] = "none" => late[s] = Nobody
        /\ pc[s] \in {"out", "created"} => cf[s] = "none" /\ \A x \in Requests : late[x] # s
        /\ starts[Student[s]] # Nobody =>
              /\ Student[starts[Student[s]]] = Student[s]
              /\ cf[starts[Student[s]]] # "none"

(* A start that is not settled has a newest request of its student, which  *)
(* no other start has; a request that waits is the newest of the start it  *)
(* waits on.                                                               *)
Newest ==
    /\ \A s \in Requests :
        /\ waiter[s] # Nobody => late[s] = waiter[s] /\ ~settled[s]
        /\ late[s] # Nobody => Student[late[s]] = Student[s]
        /\ cf[s] \in {"queued", "running", "creds", "odd"} /\ ~settled[s] => late[s] # Nobody
        /\ fut[s] = "pending" => joined[s] # Nobody /\ waiter[joined[s]] = s
    /\ \A s, t \in Requests : late[s] = late[t] /\ late[s] # Nobody => s = t

Outcome(s) == cf[s] \in {"creds", "odd"} /\ settled[s]

(* Credentials are in one place: the request they were handed to, or the   *)
(* one late task of the newest request.                                    *)
Handed ==
    /\ \A r \in Requests :
        held[r] # Nobody =>
            /\ Outcome(held[r]) /\ late[held[r]] = r
            /\ fut[r] = "creds" \/ pc[r] \in {"attach", "kill", "killLast"}
    /\ \A t \in lateTask :
        /\ Outcome(t[2]) /\ late[t[2]] = t[1]
        /\ \A r \in Requests : held[r] # t[2]

(* A session is stored in one row, of its student, and is handed on no     *)
(* more, unless an attach without an answer makes its own request end it.  *)
StoredOnce(r) ==
    /\ Outcome(edge[r]) /\ Student[edge[r]] = Student[r]
    /\ status[r] # "none" /\ (status[r] \in Live => sealed[r])
    /\ \A q \in Requests :
        /\ edge[q] = edge[r] => q = r
        /\ held[q] = edge[r] => q = r /\ pc[r] = "kill"
    /\ \A t \in lateTask : t[2] = edge[r] => t[1] = r /\ t[3] = "kill"

Stored ==
    \A r \in Requests :
        /\ edge[r] # Nobody => StoredOnce(r)
        /\ fut[r] \in {"pending", "creds"} \/ pc[r] \in {"out", "created", "attach"} => edge[r] = Nobody

(* What a request's place says of its row.                                 *)
Rows ==
    \A r \in Requests :
        /\ (status[r] = "none") <=> (pc[r] = "out")
        /\ status[r] = "active" => pc[r] = "ready"
        /\ term[r] # "off" => status[r] \in {"ended", "deleted"}
        /\ pc[r] \in {"refused", "killLast"} => status[r] \notin Live
        /\ pc[r] = "ready" => edge[r] # Nobody /\ \A t \in lateTask : t[2] # edge[r]

Sound == Started /\ Newest /\ Handed /\ Stored /\ Rows

-----------------------------------------------------------------------------
LEMMA InitSound == Init => Sound
BY EdgeAssumption DEF Init, Sound, Started, Newest, Handed, Stored, StoredOnce, Rows, Outcome, Live

LEMMA RowStepSound ==
    ASSUME IInv, Sound, NEW r \in Requests, RowStep(r) PROVE Sound'
<1> USE EdgeAssumption DEF IInv, TypeOK, KnowsSession, Live, Running, Sound
<1>1. CASE Create(r)
  <2> USE <1>1 DEF Create, startVars, modalVars
  <2>1. Started' BY DEF Started
  <2>2. Newest' BY DEF Newest
  <2>3. Handed' BY DEF Handed, Outcome
  <2>4. Stored' BY DEF Stored, StoredOnce, Outcome, Handed
  <2>5. Rows' BY DEF Rows, Stored
  <2> QED BY <2>1, <2>2, <2>3, <2>4, <2>5
<1>2. CASE Connect(r)
  <2> USE <1>2 DEF Connect, startVars, handlerVars
  <2>1. Started' BY DEF Started
  <2>2. Newest' BY DEF Newest
  <2>3. Handed' BY DEF Handed, Outcome
  <2>4. Stored' BY DEF Stored, StoredOnce, Outcome
  <2>5. Rows' BY DEF Rows
  <2> QED BY <2>1, <2>2, <2>3, <2>4, <2>5
<1>3. CASE RowEnds(r)
  <2> USE <1>3 DEF RowEnds, Finish, startVars, handlerVars, modalVars
  <2>1. Started' BY DEF Started
  <2>2. Newest' BY DEF Newest
  <2>3. Handed' BY DEF Handed, Outcome
  <2>4. Stored' BY DEF Stored, StoredOnce, Outcome
  <2>5. Rows' BY DEF Rows
  <2> QED BY <2>1, <2>2, <2>3, <2>4, <2>5
<1> QED
  BY <1>1, <1>2, <1>3 DEF RowStep

LEMMA DeleteSound ==
    ASSUME IInv, Sound, NEW u \in Students, StudentDeleted(u) PROVE Sound'
<1> USE EdgeAssumption DEF IInv, TypeOK, Live, Sound, StudentDeleted, startVars, handlerVars, modalVars
<1>1. Started' BY DEF Started
<1>2. Newest' BY DEF Newest
<1>3. Handed' BY DEF Handed, Outcome
<1>4. Stored' BY DEF Stored, StoredOnce, Outcome
<1>5. Rows' BY DEF Rows
<1> QED BY <1>1, <1>2, <1>3, <1>4, <1>5

(* The start a request joins is its student's, unsettled, and has another  *)
(* newest request; a start of its own is new.                              *)
LEMMA StartSessionSound ==
    ASSUME IInv, Sound, NEW r \in Requests, StartSession(r) PROVE Sound'
<1> DEFINE e == starts[Student[r]]
           s == IF Joinable(e) THEN e ELSE r
           older == IF e = Nobody THEN Nobody ELSE waiter[e]
<1>1. /\ Student[r] \in Students /\ e \in Requests \cup {Nobody} /\ s \in Requests
      /\ e # Nobody => e \in Requests /\ Student[e] = Student[r] /\ cf[e] # "none"
      /\ s # r => s = e /\ ~settled[e]
  BY EdgeAssumption DEF IInv, TypeOK, Joinable, Sound, Started
<1>2. /\ cf' = IF s = r THEN [cf EXCEPT ![r] = "queued"] ELSE cf
      /\ starts' = IF s = r THEN [starts EXCEPT ![Student[r]] = r] ELSE starts
      /\ settled' = settled /\ hung' = hung
      /\ late' = [late EXCEPT ![s] = r]
      /\ waiter' = IF e = Nobody THEN [waiter EXCEPT ![s] = r]
                   ELSE [[waiter EXCEPT ![e] = Nobody] EXCEPT ![s] = r]
      /\ joined' = [joined EXCEPT ![r] = s]
      /\ fut' = [q \in Requests |->
                   CASE q = r -> "pending"
                     [] q = older /\ fut[q] = "pending" -> "superseded"
                     [] OTHER -> fut[q]]
      /\ pc[r] = "created" /\ pc' = [pc EXCEPT ![r] = "waiting"]
      /\ UNCHANGED <<rowVars, modalVars, held, lateTask, term>>
  BY DEF StartSession, Becomes, Entries
<1>3. /\ cf[r] = "none" /\ ~settled[r] /\ modal[r] = "none" /\ waiter[r] = Nobody
      /\ \A x \in Requests : late[x] # r
      /\ e # r /\ ~settled[s]
  <2>1. /\ cf[r] = "none" /\ ~settled[r] /\ modal[r] = "none"
        /\ \A x \in Requests : late[x] # r
    BY <1>2 DEF Sound, Started
  <2>2. waiter[r] = Nobody
    BY <1>2, <2>1 DEF Sound, Started, Newest
  <2>3. e # r
    BY <1>1, <2>1, EdgeAssumption
  <2> QED BY <1>1, <2>1, <2>2, <2>3
<1> HIDE DEF e, s, older
<1> USE EdgeAssumption, <1>1, <1>2, <1>3 DEF IInv, TypeOK, KnowsSession, Sound
<1>4. Started' BY DEF Started, modalVars, e
<1>5. Newest'
  <2>1. \A q \in Requests : fut'[q] = "pending" =>
           \/ q = r
           \/ fut[q] = "pending" /\ q # older
    BY DEF Newest
  <2>2. \A q \in Requests : fut'[q] = "pending" => joined'[q] # Nobody /\ waiter'[joined'[q]] = q
    BY <2>1 DEF Newest, older
  <2>3. \A x \in Requests : waiter'[x] # Nobody => late'[x] = waiter'[x] /\ ~settled'[x]
    BY DEF Newest
  <2> QED BY <2>2, <2>3 DEF Newest
<1>6. Handed' BY DEF Handed, Outcome
<1>7. Stored' BY DEF Stored, StoredOnce, Outcome, rowVars
<1>8. Rows' BY DEF Rows, rowVars
<1> QED BY <1>4, <1>5, <1>6, <1>7, <1>8

(* Settling hands the outcome to the request that waits, or to the newest  *)
(* one's late task, and the start is nobody's any more.                    *)
LEMMA SettleSound ==
    ASSUME IInv, Sound, NEW s \in Requests, Settle(s) PROVE Sound'
<1> DEFINE w == waiter[s]
<1>1. /\ cf' = cf /\ late' = late
      /\ waiter' = [waiter EXCEPT ![s] = Nobody]
      /\ settled' = [settled EXCEPT ![s] = TRUE]
      /\ starts' = [u \in Students |-> IF starts[u] = s THEN Nobody ELSE starts[u]]
      /\ cf[s] \in {"creds", "odd", "error"} /\ ~settled[s]
      /\ UNCHANGED <<rowVars, modalVars, pc, joined, term>>
      /\ lateTask' = lateTask \cup (IF LateTakes(s) THEN {<<late[s], s, "attach">>} ELSE {})
  BY DEF Settle, Becomes, Forget, Entries
<1>2. \/ /\ w # Nobody /\ fut[w] = "pending" /\ ~LateTakes(s)
         /\ fut' = [fut EXCEPT ![w] = IF cf[s] = "error" THEN "failed" ELSE "creds"]
         /\ held' = [held EXCEPT ![w] = IF cf[s] = "error" THEN @ ELSE s]
      \/ (w = Nobody \/ fut[w] # "pending") /\ UNCHANGED <<fut, held>>
  BY DEF Settle, LateTakes
<1>3. w # Nobody => w \in Requests /\ late[s] = w
  BY DEF IInv, TypeOK, Sound, Newest
<1>4. /\ \A r \in Requests : held[r] # s
      /\ \A t \in lateTask : t[2] # s
  BY <1>1, EdgeAssumption DEF IInv, TypeOK, Sound, Handed, Outcome
<1> HIDE DEF w
<1> USE EdgeAssumption, <1>1, <1>2, <1>3 DEF IInv, TypeOK, KnowsSession, Sound
<1>5. Started' BY DEF Started, modalVars
<1>6. Newest'
  <2>1. \A q \in Requests : fut'[q] = "pending" => fut[q] = "pending" /\ q # w
    OBVIOUS
  <2>2. \A q \in Requests : fut'[q] = "pending" => joined'[q] # Nobody /\ waiter'[joined'[q]] = q
    BY <2>1 DEF Newest, w
  <2> QED BY <2>2 DEF Newest
<1>7. Handed'
  <2>1. ASSUME NEW r \in Requests, held'[r] # Nobody
        PROVE  /\ Outcome(held[r])' /\ late'[held'[r]] = r
               /\ fut'[r] = "creds" \/ pc'[r] \in {"attach", "kill", "killLast"}
    BY <2>1 DEF Handed, Outcome
  <2>2. ASSUME NEW t \in lateTask'
        PROVE  Outcome(t[2])' /\ late'[t[2]] = t[1] /\ \A r \in Requests : held'[r] # t[2]
    <3>1. CASE t \in lateTask
      BY <1>4, <3>1 DEF Handed, Outcome
    <3>2. CASE LateTakes(s) /\ t = <<late[s], s, "attach">>
      BY <1>4, <3>2 DEF Handed, Outcome, LateTakes
    <3> QED BY <3>1, <3>2, <2>2
  <2> QED BY <2>1, <2>2 DEF Handed
<1>8. Stored'
  <2> SUFFICES ASSUME NEW r \in Requests
               PROVE  /\ edge[r] # Nobody => StoredOnce(r)'
                      /\ fut'[r] \in {"pending", "creds"} \/ pc[r] \in {"out", "created", "attach"} => edge[r] = Nobody
    BY DEF Stored, rowVars
  <2>1. fut'[r] \in {"pending", "creds"} => fut[r] \in {"pending", "creds"}
    OBVIOUS
  <2>2. edge[r] # Nobody => StoredOnce(r) /\ edge[r] # s
    BY DEF Stored, StoredOnce, Outcome
  <2>3. edge[r] # Nobody => StoredOnce(r)'
    BY <2>2 DEF StoredOnce, Outcome, rowVars
  <2> QED BY <2>1, <2>3 DEF Stored
<1>9. Rows'
  <2>1. \A r \in Requests : edge[r] # Nobody => edge[r] # s
    BY DEF Stored, StoredOnce, Outcome
  <2> QED BY <2>1 DEF Rows, rowVars
<1> QED BY <1>5, <1>6, <1>7, <1>8, <1>9

LEMMA StartStepSound ==
    ASSUME IInv, Sound, NEW s \in Requests, StartStep(s) PROVE Sound'
<1> USE EdgeAssumption DEF IInv, TypeOK, KnowsSession, Sound
<1>1. CASE StartRuns(s)
  <2> USE <1>1 DEF StartRuns, rowVars, handlerVars, modalVars
  <2>1. Started' BY DEF Started
  <2>2. Newest' BY DEF Newest
  <2>3. Handed' BY DEF Handed, Outcome
  <2>4. Stored' BY DEF Stored, StoredOnce, Outcome
  <2>5. Rows' BY DEF Rows
  <2> QED BY <2>1, <2>2, <2>3, <2>4, <2>5
<1>2. CASE StartAnswers(s)
  <2> USE <1>2 DEF StartAnswers, rowVars, handlerVars
  <2>1. Started' BY DEF Started
  <2>2. Newest' BY DEF Newest
  <2>3. Handed' BY DEF Handed, Outcome
  <2>4. Stored' BY DEF Stored, StoredOnce, Outcome
  <2>5. Rows' BY DEF Rows
  <2> QED BY <2>1, <2>2, <2>3, <2>4, <2>5
<1>3. CASE StartHangs(s)
  BY <1>3 DEF StartHangs, rowVars, handlerVars, modalVars, Started, Newest, Handed, Stored, StoredOnce, Outcome, Rows
<1>4. CASE OrphanUp(s)
  <2> USE <1>4 DEF OrphanUp, rowVars, handlerVars
  <2>1. Started' BY DEF Started
  <2>2. Newest' BY DEF Newest
  <2>3. Handed' BY DEF Handed, Outcome
  <2>4. Stored' BY DEF Stored, StoredOnce, Outcome
  <2>5. Rows' BY DEF Rows
  <2> QED BY <2>1, <2>2, <2>3, <2>4, <2>5
<1> QED
  BY <1>1, <1>2, <1>3, <1>4, SettleSound DEF StartStep

(* Leaving gives up the wait, and hands on credentials that came already.  *)
LEMMA LeaveSound ==
    ASSUME IInv, Sound, NEW r \in Requests, Leave(r), pc[r] = "waiting", UNCHANGED <<rowVars, modalVars, term, hung>>,
           pc' \in {[pc EXCEPT ![r] = "fail"], [pc EXCEPT ![r] = "done"]},
           fut' = [fut EXCEPT ![r] = "none"], joined' = [joined EXCEPT ![r] = Nobody],
           \/ fut[r] = "pending" /\ held' = held
           \/ held' = [held EXCEPT ![r] = Nobody]
    PROVE  Sound'
<1> DEFINE j == joined[r]
           w == IF waiter[j] = r THEN [waiter EXCEPT ![j] = Nobody] ELSE waiter
           drop == fut[r] = "pending" /\ w[j] = Nobody /\ ~settled[j] /\ cf[j] = "queued"
<1>1. /\ late' = late /\ waiter' = w
      /\ cf' = IF drop THEN [cf EXCEPT ![j] = "cancelled"] ELSE cf
      /\ settled' = IF drop THEN [settled EXCEPT ![j] = TRUE] ELSE settled
      /\ starts' = IF drop THEN [u \in Students |-> IF starts[u] = j THEN Nobody ELSE starts[u]]
                   ELSE starts
      /\ lateTask' = lateTask \cup (IF fut[r] = "creds" THEN {<<r, held[r], "attach">>} ELSE {})
  BY DEF Leave, Becomes, Forget, Entries, HandsOver
<1>2. /\ drop => cf[j] = "queued" /\ ~settled[j]
      /\ fut[r] = "pending" => j \in Requests /\ waiter[j] = r /\ held[r] = Nobody
      /\ fut[r] = "creds" => held[r] \in Requests
  <2>1. fut[r] = "pending" => held[r] = Nobody
    BY DEF IInv, TypeOK, KnowsSession, Sound, Handed
  <2> QED BY <2>1 DEF IInv, TypeOK, KnowsSession, Sound, Newest
<1>0. \A x \in Requests : Student[x] \in Students /\ starts[Student[x]] \in Requests \cup {Nobody}
  <2>1. starts \in [Students -> Requests \cup {Nobody}]
    BY DEF IInv, TypeOK
  <2>2. Student \in [Requests -> Students]
    BY EdgeAssumption
  <2> QED BY <2>1, <2>2
<1>3. /\ waiter' \in [Requests -> Requests \cup {Nobody}]
      /\ \A x \in Requests : waiter'[x] # Nobody => waiter'[x] = waiter[x]
      /\ \A x \in Requests : waiter[x] # r => waiter'[x] = waiter[x]
  <2>1. waiter' = waiter \/ (waiter' = [waiter EXCEPT ![j] = Nobody] /\ waiter[j] = r)
    BY <1>1
  <2>2. waiter \in [Requests -> Requests \cup {Nobody}]
    BY DEF IInv, TypeOK
  <2> HIDE DEF j
  <2>3. CASE waiter' = waiter
    BY <2>2, <2>3
  <2>4. CASE waiter' = [waiter EXCEPT ![j] = Nobody] /\ waiter[j] = r
    BY <2>2, <2>4
  <2> QED BY <2>1, <2>3, <2>4
<1>4. \A q \in Requests : fut'[q] = "pending" => q # r /\ fut[q] = "pending"
  BY DEF IInv, TypeOK
<1>5. /\ \A x \in Requests : settled[x] => settled'[x] /\ cf'[x] = cf[x]
      /\ \A x \in Requests : cf'[x] # cf[x] \/ settled'[x] # settled[x] =>
            cf'[x] = "cancelled" /\ waiter'[x] = Nobody
      /\ \A u \in Students : starts'[u] # Nobody => starts'[u] = starts[u]
  <2>1. \/ cf' = cf /\ settled' = settled /\ starts' = starts
        \/ /\ j \in Requests /\ cf[j] = "queued" /\ ~settled[j] /\ waiter'[j] = Nobody
           /\ cf' = [cf EXCEPT ![j] = "cancelled"] /\ settled' = [settled EXCEPT ![j] = TRUE]
           /\ starts' = [u \in Students |-> IF starts[u] = j THEN Nobody ELSE starts[u]]
    BY <1>1, <1>2
  <2> HIDE DEF j
  <2> QED BY <2>1 DEF IInv, TypeOK
<1> HIDE DEF j, w, drop
<1> USE EdgeAssumption, <1>1, <1>2, <1>3, <1>4, <1>5 DEF IInv, TypeOK, KnowsSession, Sound
<1>6. Started'
  <2> SUFFICES ASSUME NEW x \in Requests
               PROVE  /\ cf'[x] \in {"none", "queued", "running"} => ~settled'[x] /\ modal'[x] = "none"
                      /\ cf'[x] = "none" => late'[x] = Nobody
                      /\ pc'[x] \in {"out", "created"} => cf'[x] = "none" /\ \A y \in Requests : late'[y] # x
                      /\ starts'[Student[x]] # Nobody =>
                            /\ Student[starts'[Student[x]]] = Student[x]
                            /\ cf'[starts'[Student[x]]] # "none"
    BY DEF Started
  <2>1. (cf'[x] = cf[x] /\ settled'[x] = settled[x]) \/ cf'[x] = "cancelled"
    OBVIOUS
  <2>2. cf[x] = "none" => cf'[x] = "none" /\ ~settled[x]
    BY DEF Started
  <2>3. pc'[x] \in {"out", "created"} => pc[x] \in {"out", "created"}
    OBVIOUS
  <2>4. starts'[Student[x]] # Nobody =>
           starts'[Student[x]] = starts[Student[x]] /\ starts[Student[x]] \in Requests
    BY <1>0, <1>5
  <2>5. \A y \in Requests : cf[y] # "none" => cf'[y] # "none"
    OBVIOUS
  <2>6. starts'[Student[x]] # Nobody =>
           /\ Student[starts'[Student[x]]] = Student[x]
           /\ cf'[starts'[Student[x]]] # "none"
    BY <2>4, <2>5 DEF Started
  <2> QED BY <2>1, <2>2, <2>3, <2>6 DEF Started, modalVars
<1>7. Newest'
  <2>1. \A q \in Requests : fut'[q] = "pending" => joined'[q] # Nobody /\ waiter'[joined'[q]] = q
    BY DEF Newest
  <2>2. ASSUME NEW x \in Requests, waiter'[x] # Nobody
        PROVE  late'[x] = waiter'[x] /\ ~settled'[x]
    <3>1. waiter'[x] = waiter[x] /\ settled'[x] = settled[x]
      BY <2>2
    <3> QED BY <2>2, <3>1 DEF Newest
  <2> QED BY <2>1, <2>2 DEF Newest
<1>8. Handed'
  <2>1. ASSUME NEW q \in Requests, held'[q] # Nobody
        PROVE  q # r /\ held'[q] = held[q] /\ pc'[q] = pc[q] /\ fut'[q] = fut[q]
    BY <2>1
  <2>2. ASSUME NEW q \in Requests, held'[q] # Nobody
        PROVE  /\ Outcome(held[q])' /\ late'[held'[q]] = q
               /\ fut'[q] = "creds" \/ pc'[q] \in {"attach", "kill", "killLast"}
    BY <2>1, <2>2 DEF Handed, Outcome
  <2>3. ASSUME NEW t \in lateTask'
        PROVE  Outcome(t[2])' /\ late'[t[2]] = t[1] /\ \A q \in Requests : held'[q] # t[2]
    <3>1. CASE t \in lateTask
      BY <2>1, <3>1 DEF Handed, Outcome
    <3>2. CASE fut[r] = "creds" /\ t = <<r, held[r], "attach">>
      BY <2>1, <3>2 DEF Handed, Outcome
    <3> QED BY <3>1, <3>2, <2>3
  <2> QED BY <2>2, <2>3 DEF Handed
<1>9. \A q \in Requests : edge[q] # Nobody => edge[q] \in Requests /\ StoredOnce(q)
  BY DEF Stored
<1>10. \A q \in Requests : held'[q] # Nobody => held'[q] = held[q]
  OBVIOUS
<1>11. Stored'
  <2>1. ASSUME NEW q \in Requests, edge[q] # Nobody PROVE StoredOnce(q)'
    <3>1. fut[r] = "creds" => edge[q] # held[r]
      BY <1>9, <2>1 DEF StoredOnce
    <3> QED BY <1>9, <1>10, <2>1, <3>1 DEF StoredOnce, Outcome, rowVars
  <2> QED BY <2>1 DEF Stored, rowVars
<1>12. Rows'
  <2>1. ASSUME NEW q \in Requests, pc'[q] = "ready"
        PROVE  edge[q] # Nobody /\ \A t \in lateTask' : t[2] # edge[q]
    <3>1. pc[q] = "ready" /\ edge[q] # Nobody /\ \A t \in lateTask : t[2] # edge[q]
      BY <2>1 DEF Rows
    <3>2. fut[r] = "creds" => edge[q] # held[r]
      BY <1>9, <3>1 DEF StoredOnce
    <3> QED BY <3>1, <3>2
  <2> QED BY <2>1 DEF Rows, rowVars
<1> QED BY <1>6, <1>7, <1>8, <1>11, <1>12

(* Storing: the session was the request's or its late task's alone.        *)
LEMMA AttachSound ==
    ASSUME IInv, Sound, NEW r \in Requests, Attach(r) PROVE Sound'
<1> DEFINE s == held[r]
<1>1. /\ s \in Requests /\ Outcome(s) /\ late[s] = r /\ pc[r] = "attach" /\ edge[r] = Nobody
      /\ Student[s] = Student[r] /\ fut[r] = "none" /\ status[r] \notin {"none", "active"}
      /\ \A t \in lateTask : t[2] # s
      /\ \A q \in Requests : edge[q] # s /\ (held[q] = s => q = r)
  BY EdgeAssumption
     DEF Attach, IInv, TypeOK, KnowsSession, Sound, Handed, Newest, Stored, StoredOnce, Rows
<1>2. \/ /\ Attachable(r) /\ Stores(r, s)
         /\ pc' = [pc EXCEPT ![r] = IF status'[r] = "reserved" THEN "ready" ELSE "refused"]
         /\ held' = [held EXCEPT ![r] = Nobody]
      \/ /\ status[r] = "deleted"
         /\ pc' = [pc EXCEPT ![r] = "killLast"]
         /\ UNCHANGED <<status, edge, sealed, held>>
      \/ /\ \/ (Attachable(r) /\ Stores(r, s))
            \/ UNCHANGED <<status, edge, sealed>>
         /\ pc' = [pc EXCEPT ![r] = "kill"]
         /\ UNCHANGED held
  BY <1>1 DEF Attach, Attachable
<1>3. UNCHANGED <<age, modalVars, fut, joined, startVars, lateTask, term>>
  BY DEF Attach
<1>4. /\ \/ UNCHANGED <<status, edge, sealed>>
         \/ /\ edge' = [edge EXCEPT ![r] = s] /\ sealed' = [sealed EXCEPT ![r] = TRUE]
            /\ status' = [status EXCEPT ![r] = IF @ \in Live THEN "ended" ELSE @] \/ UNCHANGED status
      /\ term[r] # "off" => status[r] \in {"ended", "deleted"}
  BY <1>2 DEF Stores, Finish, Sound, Rows
<1> HIDE DEF s
<1> USE EdgeAssumption, <1>1, <1>2, <1>3, <1>4 DEF IInv, TypeOK, KnowsSession, Sound, Live
<1>5. Started' BY DEF Started, modalVars, startVars
<1>6. Newest' BY DEF Newest, startVars
<1>7. Handed' BY DEF Handed, Outcome, startVars, s
<1>8. Stored'
  <2>1. ASSUME NEW q \in Requests, edge'[q] # Nobody PROVE StoredOnce(q)'
    <3>1. CASE q = r
      BY <2>1, <3>1 DEF StoredOnce, Outcome, startVars, s, Stores
    <3>2. CASE q # r
      <4>1. edge'[q] = edge[q] /\ StoredOnce(q) /\ status'[q] = status[q] /\ sealed'[q] = sealed[q]
        BY <2>1, <3>2 DEF Stored
      <4> QED BY <2>1, <3>2, <4>1 DEF StoredOnce, Outcome, startVars, s
    <3> QED BY <3>1, <3>2
  <2>2. ASSUME NEW q \in Requests, fut'[q] \in {"pending", "creds"} \/ pc'[q] \in {"out", "created", "attach"}
        PROVE  edge'[q] = Nobody
    BY <2>2 DEF Stored
  <2> QED BY <2>1, <2>2 DEF Stored
<1>9. Rows' BY DEF Rows, Stores, Attachable
<1> QED BY <1>5, <1>6, <1>7, <1>8, <1>9

LEMMA HandlerStepSound ==
    ASSUME IInv, Sound, NEW r \in Requests, HandlerStep(r) PROVE Sound'
<1>1. CASE StartTimeout(r) \/ Cancel(r)
  BY <1>1, LeaveSound DEF StartTimeout, Cancel
<1>2. CASE Resume(r)
  <2> USE EdgeAssumption, <1>2 DEF IInv, TypeOK, KnowsSession, Sound, Resume, rowVars, modalVars, startVars
  <2>1. /\ pc[r] = "waiting" /\ pc' = [pc EXCEPT ![r] = After(r)]
        /\ After(r) \in {"fail", "kill", "attach"}
        /\ After(r) = "fail" <=> fut[r] # "creds"
    BY DEF After
  <2>2. Started' BY <2>1 DEF Started
  <2>3. Newest' BY <2>1 DEF Newest
  <2>4. Handed' BY <2>1 DEF Handed, Outcome
  <2>5. Stored' BY <2>1 DEF Stored, StoredOnce, Outcome
  <2>6. Rows' BY <2>1 DEF Rows
  <2> QED BY <2>2, <2>3, <2>4, <2>5, <2>6
<1>3. CASE TerminateNow(r)
  <2> USE EdgeAssumption, <1>3 DEF IInv, TypeOK, KnowsSession, Sound, TerminateNow, rowVars, startVars
  <2>1. held[r] \in Requests /\ Outcome(held[r]) /\ (modal' = modal \/ modal' = [modal EXCEPT ![held[r]] = "gone"])
    BY DEF Handed, Terminates
  <2>2. Started' BY <2>1 DEF Started, Outcome
  <2>3. Newest' BY DEF Newest
  <2>4. Handed' BY DEF Handed, Outcome
  <2>5. Stored' BY DEF Stored, StoredOnce, Outcome
  <2>6. Rows' BY DEF Rows
  <2> QED BY <2>2, <2>3, <2>4, <2>5, <2>6
<1>4. CASE EndEdgeFailed(r)
  <2> USE EdgeAssumption, <1>4 DEF IInv, TypeOK, KnowsSession, Sound, EndEdgeFailed, Finish, Live, modalVars, startVars
  <2>1. Started' BY DEF Started
  <2>2. Newest' BY DEF Newest
  <2>3. Handed' BY DEF Handed, Outcome
  <2>4. Stored' BY DEF Stored, StoredOnce, Outcome
  <2>5. Rows' BY DEF Rows
  <2> QED BY <2>1, <2>2, <2>3, <2>4, <2>5
<1> QED
  BY <1>1, <1>2, <1>3, <1>4, StartSessionSound, AttachSound DEF HandlerStep

(* A late task has its session to itself, and gives it to the row or keeps *)
(* it to end it.                                                           *)
LEMMA LateAttachSound ==
    ASSUME IInv, Sound, NEW t \in lateTask, LateAttach(t) PROVE Sound'
<1> DEFINE r == t[1]
           s == t[2]
<1>1. /\ r \in Requests /\ s \in Requests /\ Outcome(s) /\ late[s] = r /\ t[3] = "attach"
      /\ t = <<r, s, "attach">> /\ <<r, s, "kill">> \in Requests \X Requests \X {"attach", "kill"}
      /\ <<r, s, "kill">>[1] = r /\ <<r, s, "kill">>[2] = s /\ <<r, s, "kill">>[3] = "kill"
      /\ <<r, s, "kill">> # t
      /\ Student[s] = Student[r] /\ (\A q \in Requests : edge[q] # s /\ held[q] # s)
  BY EdgeAssumption DEF LateAttach, IInv, TypeOK, Sound, Handed, Newest, Stored, StoredOnce
<1>2. \/ /\ Attachable(r) /\ Stores(r, s)
         /\ lateTask' = lateTask \ {t}
      \/ /\ UNCHANGED <<status, edge, sealed>>
         /\ lateTask' = (lateTask \ {t}) \cup {<<r, s, "kill">>}
      \/ /\ Attachable(r) /\ Stores(r, s)
         /\ lateTask' = (lateTask \ {t}) \cup {<<r, s, "kill">>}
  BY DEF LateAttach
<1>3. UNCHANGED <<age, modalVars, handlerVars, startVars, term>>
  BY DEF LateAttach
<1>4. /\ \/ UNCHANGED <<status, edge, sealed>>
         \/ /\ edge' = [edge EXCEPT ![r] = s] /\ sealed' = [sealed EXCEPT ![r] = TRUE]
            /\ status' = [status EXCEPT ![r] = IF @ \in Live THEN "ended" ELSE @] \/ UNCHANGED status
      /\ term[r] # "off" => status[r] \in {"ended", "deleted"}
  BY <1>1, <1>2 DEF Stores, Finish, Sound, Rows
<1>5. ASSUME NEW x \in lateTask'
      PROVE  \/ x \in lateTask /\ x # t
             \/ x = <<r, s, "kill">> /\ x[1] = r /\ x[2] = s /\ x[3] = "kill"
  BY <1>1, <1>2
<1> HIDE DEF r, s
<1> USE EdgeAssumption, <1>1, <1>2, <1>3, <1>4, <1>5 DEF IInv, TypeOK, KnowsSession, Sound, Live
<1>6. Started' BY DEF Started, modalVars, startVars, handlerVars
<1>7. Newest' BY DEF Newest, startVars, handlerVars
<1>8. Handed' BY DEF Handed, Outcome, startVars, handlerVars
<1>9. Stored'
  <2>1. ASSUME NEW p \in Requests, edge'[p] # Nobody PROVE StoredOnce(p)'
    <3>1. CASE edge'[p] = edge[p]
      <4>1. StoredOnce(p) /\ (status'[p] \in Live => sealed'[p]) /\ status'[p] # "none" /\ edge'[p] # s
        BY <2>1, <3>1 DEF Stored, StoredOnce
      <4> QED BY <2>1, <3>1, <4>1 DEF StoredOnce, Outcome, startVars, handlerVars
    <3>2. CASE edge'[p] # edge[p]
      <4>1. p = r /\ edge'[p] = s /\ sealed'[p] /\ Attachable(r)
        BY <3>2 DEF Stores
      <4>2. \A x \in lateTask' : x[2] = s => x[1] = r /\ x[3] = "kill"
        <5> SUFFICES ASSUME NEW x \in lateTask, x # t, x[2] = s PROVE x[1] = r /\ x[3] = "kill"
          BY <1>5
        <5>1. x[1] = r
          BY DEF Handed
        <5>2. x = <<x[1], x[2], x[3]>> /\ x[3] \in {"attach", "kill"}
          OBVIOUS
        <5> QED BY <5>1, <5>2
      <4>3. Outcome(s)' /\ \A x \in Requests : (edge'[x] = s => x = r) /\ held'[x] # s
        BY DEF Outcome, startVars, handlerVars
      <4>4. status'[r] # "none" /\ Student[s] = Student[r]
        BY <4>1 DEF Attachable
      <4>5. /\ edge'[p] = s /\ sealed'[p] /\ Outcome(edge[p])' /\ Student[edge'[p]] = Student[p]
            /\ status'[p] # "none"
            /\ \A x \in Requests : (edge'[x] = s => x = p) /\ held'[x] # s
            /\ \A x \in lateTask' : x[2] = s => x[1] = p /\ x[3] = "kill"
        BY <4>1, <4>2, <4>3, <4>4
      <4> QED BY <4>5 DEF StoredOnce
    <3> QED BY <3>1, <3>2
  <2>2. ASSUME NEW q \in Requests, fut'[q] \in {"pending", "creds"} \/ pc'[q] \in {"out", "created", "attach"}
        PROVE  edge'[q] = Nobody
    <3>1. fut[r] \notin {"pending", "creds"} /\ pc[r] \notin {"out", "created", "attach"}
      BY DEF Started, Newest, Handed, Outcome
    <3> QED BY <2>2, <3>1 DEF Stored, handlerVars
  <2> QED BY <2>1, <2>2 DEF Stored
<1>10. Rows' BY DEF Rows, Stores, Attachable, handlerVars
<1> QED BY <1>6, <1>7, <1>8, <1>9, <1>10

LEMMA LateStepSound ==
    ASSUME IInv, Sound, LateStep PROVE Sound'
<1>1. PICK t \in lateTask : LateAttach(t) \/ LateTerminate(t)
  BY DEF LateStep
<1>2. CASE LateTerminate(t)
  <2> USE EdgeAssumption, <1>2 DEF IInv, TypeOK, KnowsSession, Sound, LateTerminate, rowVars, startVars, handlerVars
  <2>1. t[2] \in Requests /\ Outcome(t[2]) /\ (modal' = modal \/ modal' = [modal EXCEPT ![t[2]] = "gone"])
    BY DEF Handed, Terminates
  <2>2. Started' BY <2>1 DEF Started, Outcome
  <2>3. Newest' BY DEF Newest
  <2>4. Handed' BY DEF Handed, Outcome
  <2>5. Stored' BY DEF Stored, StoredOnce, Outcome
  <2>6. Rows' BY DEF Rows
  <2> QED BY <2>2, <2>3, <2>4, <2>5, <2>6
<1> QED
  BY <1>1, <1>2, LateAttachSound

LEMMA TerminateStepSound ==
    ASSUME IInv, Sound, NEW r \in Requests, TerminateStep(r) PROVE Sound'
<1> USE EdgeAssumption DEF IInv, TypeOK, KnowsSession, Sound, startVars, handlerVars
<1>1. CASE TerminateRow(r) \/ TerminateLeft(r)
  <2>1. /\ UNCHANGED <<rowVars, modalVars, handlerVars, startVars, lateTask>>
        /\ term[r] # "off" \/ status[r] = "ended"
        /\ \E to \in {"mark", "call", "left"} : term' = [term EXCEPT ![r] = to]
    BY <1>1 DEF TerminateRow, TerminateLeft, Due
  <2>2. \A q \in Requests : term'[q] # "off" => status[q] \in {"ended", "deleted"}
    BY <2>1 DEF Rows
  <2> QED
    BY <2>1, <2>2 DEF Started, Newest, Handed, Stored, StoredOnce, Outcome, Rows, rowVars, modalVars
<1>2. CASE TerminateAnswers(r)
  <2> USE <1>2 DEF TerminateAnswers, rowVars
  <2>1. edge[r] \in Requests /\ Outcome(edge[r]) /\ (modal' = modal \/ modal' = [modal EXCEPT ![edge[r]] = "gone"])
    BY DEF Stored, StoredOnce
  <2>2. Started' BY <2>1 DEF Started, Outcome
  <2>3. Newest' BY DEF Newest
  <2>4. Handed' BY DEF Handed, Outcome
  <2>5. Stored' BY DEF Stored, StoredOnce, Outcome
  <2>6. Rows'
    <3>1. \A q \in Requests : term'[q] # "off" => term[q] # "off"
      OBVIOUS
    <3> QED BY <3>1 DEF Rows
  <2> QED BY <2>2, <2>3, <2>4, <2>5, <2>6
<1>3. CASE MarkTerminated(r)
  <2> USE <1>3 DEF MarkTerminated, modalVars
  <2>1. Started' BY DEF Started
  <2>2. Newest' BY DEF Newest
  <2>3. Handed' BY DEF Handed, Outcome
  <2>4. Stored' BY DEF Stored, StoredOnce, Outcome, Live
  <2>5. Rows' BY DEF Rows
  <2> QED BY <2>1, <2>2, <2>3, <2>4, <2>5
<1> QED
  BY <1>1, <1>2, <1>3 DEF TerminateStep

LEMMA TickSound ==
    ASSUME IInv, Sound, Tick PROVE Sound'
<1> USE EdgeAssumption DEF IInv, TypeOK, KnowsSession, Sound, Tick, startVars, handlerVars
<1>1. Started' BY DEF Started
<1>2. Newest' BY DEF Newest
<1>3. Handed' BY DEF Handed, Outcome
<1>4. Stored' BY DEF Stored, StoredOnce, Outcome
<1>5. Rows' BY DEF Rows
<1> QED BY <1>1, <1>2, <1>3, <1>4, <1>5

(* A crash forgets every start and task, and what is stored stays stored.  *)
LEMMA CrashSound ==
    ASSUME IInv, Sound, Crash PROVE Sound'
<1> USE EdgeAssumption DEF IInv, TypeOK, KnowsSession, Sound, Crash, rowVars, modalVars
<1>1. Started' BY DEF Started
<1>2. Newest' BY DEF Newest
<1>3. Handed' BY DEF Handed, Outcome
<1>4. Stored' BY DEF Stored, StoredOnce, Outcome
<1>5. Rows' BY DEF Rows
<1> QED BY <1>1, <1>2, <1>3, <1>4, <1>5

LEMMA NextSound == IInv /\ Sound /\ [Next]_vars => Sound'
<1> SUFFICES ASSUME IInv, Sound, [Next]_vars PROVE Sound'
  OBVIOUS
<1>1. CASE Next
  BY <1>1, RowStepSound, StartStepSound, HandlerStepSound, TerminateStepSound, DeleteSound, LateStepSound,
     TickSound, CrashSound DEF Next
<1>2. CASE UNCHANGED vars
  BY <1>2 DEF Sound, Started, Newest, Handed, Stored, StoredOnce, Outcome, Rows, vars, rowVars, modalVars,
              handlerVars, startVars
<1> QED
  BY <1>1, <1>2

(* Where an outcome is, and whose it is, is never in doubt: in every      *)
(* reachable state, under every fault, restart and passage of time.       *)
THEOREM SoundAlways == Spec => []Sound
BY InitSound, NextSound, Invariant, PTL DEF Spec

(* A reserve answered with an error leaves no live row, whatever time and  *)
(* faults do to it.                                                        *)
THEOREM RefusedEnded == Spec => []RefusedRowEnded
<1>1. Sound => RefusedRowEnded
  BY DEF Sound, Rows, RefusedRowEnded
<1> QED
  BY SoundAlways, <1>1, PTL

-----------------------------------------------------------------------------
(* Nobody ends a session that is not yet answered for, or that a ready     *)
(* row's robot uses. Without a clock no session idles out before.          *)
Up ==
    \A r \in Requests :
        /\ cf[r] \in {"creds", "odd"} /\ ~settled[r] => modal[r] = "up"
        /\ held[r] # Nobody /\ pc[r] \in {"waiting", "attach"} => modal[held[r]] = "up"
        /\ pc[r] = "ready" /\ status[r] \in Live => modal[edge[r]] = "up"

(* Terminating a session that is handed on to be ended, or whose row has   *)
(* ended, takes it from nobody else.                                       *)
LEMMA EndsNobodys ==
    ASSUME IInv, Sound, Up, NEW s \in Requests, Outcome(s),
           modal' = [modal EXCEPT ![s] = "gone"] \/ modal' = modal,
           UNCHANGED <<status, edge, cf, settled>>,
           \A r \in Requests :
              /\ held'[r] = held[r] \/ held'[r] = Nobody
              /\ pc'[r] = pc[r] \/ pc'[r] \in {"fail", "refused"}
              /\ held[r] = s /\ held'[r] # Nobody => pc[r] \notin {"waiting", "attach"}
              /\ edge[r] = s => pc[r] # "ready" \/ status[r] \notin Live
    PROVE  Up'
<1>1. \A x \in Requests : x # s => modal'[x] = modal[x]
  BY DEF IInv, TypeOK
<1>2. \A r \in Requests :
        /\ held[r] \in Requests \cup {Nobody} /\ edge[r] \in Requests \cup {Nobody}
        /\ pc[r] = "ready" => edge[r] # Nobody
  BY DEF IInv, TypeOK, Sound, Rows
<1> QED
  BY <1>1, <1>2 DEF Up, Outcome

LEMMA UpStep ==
    ASSUME ~Clocked, IInv, Sound, Up, [Next]_vars PROVE Up'
<1> USE EdgeAssumption
<1>1. ASSUME NEW r \in Requests, RowStep(r) PROVE Up'
  BY <1>1 DEF RowStep, Create, Connect, RowEnds, Finish, Up, Live, IInv, TypeOK, Sound, Rows,
              startVars, handlerVars, modalVars
<1>2. ASSUME NEW s \in Requests, StartStep(s) PROVE Up'
  <2> USE DEF Up, IInv, TypeOK, Running, rowVars, handlerVars, modalVars
  <2>1. CASE StartRuns(s) \/ StartHangs(s)
    BY <2>1 DEF StartRuns, StartHangs
  <2>2. CASE StartAnswers(s) \/ OrphanUp(s)
    <3>1. /\ modal' = modal \/ modal' = [modal EXCEPT ![s] = "up"]
          /\ \A x \in Requests : x # s => cf'[x] = cf[x]
          /\ cf'[s] \in {"creds", "odd"} => modal'[s] = "up"
          /\ UNCHANGED <<status, edge, settled, held, pc>>
      BY <2>2 DEF StartAnswers, OrphanUp
    <3>2. \A x \in Requests : modal[x] = "up" => modal'[x] = "up"
      BY <3>1
    <3>3. \A r \in Requests : pc[r] = "ready" => edge[r] # Nobody
      BY DEF Sound, Rows
    <3> QED BY <3>1, <3>2, <3>3
  <2>3. CASE Settle(s)
    <3>1. /\ cf' = cf /\ settled' = [settled EXCEPT ![s] = TRUE]
          /\ cf[s] \in {"creds", "odd", "error"} /\ ~settled[s]
          /\ UNCHANGED <<rowVars, modalVars, pc>>
          /\ \/ held' = [held EXCEPT ![waiter[s]] = IF cf[s] = "error" THEN @ ELSE s]
             \/ held' = held
      BY <2>3 DEF Settle, Becomes, Forget, Entries
    <3>2. \A r \in Requests : held'[r] = held[r] \/ (held'[r] = s /\ cf[s] # "error")
      BY <3>1
    <3> QED BY <3>1, <3>2
  <2> QED BY <1>2, <2>1, <2>2, <2>3 DEF StartStep
<1>3. ASSUME NEW r \in Requests, HandlerStep(r) PROVE Up'
  <2>1. CASE StartSession(r)
    <3> DEFINE e == starts[Student[r]]
    <3>1. /\ pc[r] = "created" /\ pc' = [pc EXCEPT ![r] = "waiting"]
          /\ settled' = settled /\ (cf' = cf \/ cf' = [cf EXCEPT ![r] = "queued"])
          /\ UNCHANGED <<rowVars, modalVars, held>>
      BY <2>1 DEF StartSession, Becomes, Entries
    <3>2. held[r] = Nobody
      BY <3>1 DEF Sound, Handed, IInv, KnowsSession
    <3> QED BY <3>1, <3>2 DEF Up, IInv, TypeOK, rowVars, modalVars
  <2>2. CASE StartTimeout(r) \/ Cancel(r)
    <3>1. /\ \A x \in Requests : cf'[x] = cf[x] \/ cf'[x] = "cancelled"
          /\ \A x \in Requests : settled[x] => settled'[x]
      BY <2>2 DEF StartTimeout, Cancel, Leave, Becomes, Entries, Forget, IInv, TypeOK
    <3>2. /\ \A q \in Requests : held'[q] = held[q] \/ held'[q] = Nobody
          /\ \A q \in Requests : pc'[q] = pc[q] \/ pc'[q] \in {"fail", "done"}
          /\ UNCHANGED <<rowVars, modalVars>>
      BY <2>2 DEF StartTimeout, Cancel, IInv, TypeOK
    <3> QED BY <3>1, <3>2 DEF Up, IInv, TypeOK, rowVars, modalVars
  <2>3. CASE Resume(r)
    BY <2>3 DEF Resume, After, Up, IInv, TypeOK, rowVars, modalVars, startVars
  <2>4. CASE Attach(r)
    <3>1. /\ pc[r] = "attach" /\ held[r] \in Requests /\ modal[held[r]] = "up"
          /\ pc' = [pc EXCEPT ![r] = pc'[r]]
          /\ pc'[r] \in {"ready", "refused", "killLast", "kill"}
          /\ pc'[r] = "ready" => edge' = [edge EXCEPT ![r] = held[r]]
      BY <2>4 DEF Attach, Up, IInv, TypeOK, KnowsSession, Stores
    <3>2. /\ \A q \in Requests : held'[q] = held[q] \/ held'[q] = Nobody
          /\ \A q \in Requests : q # r => edge'[q] = edge[q] /\ status'[q] = status[q]
          /\ UNCHANGED <<modalVars, startVars>>
      BY <2>4 DEF Attach, IInv, TypeOK, Stores, Finish
    <3> QED BY <3>1, <3>2 DEF Up, IInv, TypeOK, modalVars, startVars
  <2>5. CASE TerminateNow(r)
    <3>1. /\ held[r] \in Requests /\ Outcome(held[r])
          /\ \A q \in Requests : held[q] = held[r] => q = r
          /\ \A q \in Requests : edge[q] = held[r] => q = r
      BY <2>5 DEF TerminateNow, Sound, Handed, Stored, StoredOnce, IInv, TypeOK, KnowsSession
    <3>2. /\ modal' = [modal EXCEPT ![held[r]] = "gone"] \/ modal' = modal
          /\ UNCHANGED <<status, edge, cf, settled>>
          /\ pc[r] \in {"kill", "killLast"} /\ held' = [held EXCEPT ![r] = Nobody]
          /\ \A q \in Requests : pc'[q] = pc[q] \/ pc'[q] \in {"fail", "refused"}
      BY <2>5 DEF TerminateNow, Terminates, rowVars, startVars, IInv, TypeOK
    <3> QED BY <3>1, <3>2, EndsNobodys DEF IInv, TypeOK
  <2>6. CASE EndEdgeFailed(r)
    BY <2>6 DEF EndEdgeFailed, Finish, Up, Live, IInv, TypeOK, modalVars, startVars
  <2> QED BY <1>3, <2>1, <2>2, <2>3, <2>4, <2>5, <2>6 DEF HandlerStep
<1>4. ASSUME LateStep PROVE Up'
  <2>1. PICK t \in lateTask : LateAttach(t) \/ LateTerminate(t)
    BY <1>4 DEF LateStep
  <2>2. /\ t[1] \in Requests /\ t[2] \in Requests /\ Outcome(t[2])
        /\ \A q \in Requests : held[q] # t[2]
        /\ \A q \in Requests : edge[q] = t[2] => pc[q] # "ready"
    BY DEF IInv, TypeOK, Sound, Handed, Rows
  <2>3. CASE LateAttach(t)
    <3>1. /\ \A q \in Requests : edge'[q] # edge[q] => edge[q] = Nobody
          /\ \A q \in Requests : status'[q] \in Live => status[q] \in Live
          /\ UNCHANGED <<modalVars, handlerVars, startVars>>
      BY <2>2, <2>3 DEF LateAttach, Stores, Finish, Attachable, Live, IInv, TypeOK
    <3>2. \A q \in Requests : pc[q] = "ready" => edge[q] # Nobody
      BY DEF Sound, Rows
    <3> QED BY <3>1, <3>2 DEF Up, modalVars, handlerVars, startVars
  <2>4. CASE LateTerminate(t)
    <3>1. /\ modal' = [modal EXCEPT ![t[2]] = "gone"] \/ modal' = modal
          /\ UNCHANGED <<status, edge, cf, settled, held, pc>>
      BY <2>4 DEF LateTerminate, Terminates, rowVars, handlerVars, startVars
    <3> QED BY <2>2, <3>1, EndsNobodys
  <2> QED BY <2>1, <2>3, <2>4
<1>5. ASSUME NEW r \in Requests, TerminateStep(r) PROVE Up'
  <2>1. CASE TerminateAnswers(r)
    <3>1. /\ edge[r] \in Requests /\ Outcome(edge[r]) /\ status[r] \in {"ended", "deleted"}
          /\ \A q \in Requests : edge[q] = edge[r] => q = r
          /\ \A q \in Requests : held[q] = edge[r] => pc[q] = "kill"
      BY <2>1 DEF TerminateAnswers, Sound, Stored, StoredOnce, Rows, IInv, TypeOK
    <3>2. /\ modal' = [modal EXCEPT ![edge[r]] = "gone"] \/ modal' = modal
          /\ UNCHANGED <<status, edge, cf, settled, held, pc>>
      BY <2>1 DEF TerminateAnswers, rowVars, handlerVars, startVars
    <3> QED BY <3>1, <3>2, EndsNobodys DEF Live
  <2>2. CASE TerminateRow(r) \/ TerminateLeft(r) \/ MarkTerminated(r)
    BY <2>2 DEF TerminateRow, TerminateLeft, MarkTerminated, Up, rowVars, modalVars, handlerVars, startVars
  <2> QED BY <1>5, <2>1, <2>2 DEF TerminateStep
<1>6. ASSUME NEW u \in Students, StudentDeleted(u) PROVE Up'
  BY <1>6 DEF StudentDeleted, Up, Live, IInv, TypeOK, modalVars, handlerVars, startVars
<1>7. ASSUME Crash PROVE Up'
  BY <1>7 DEF Crash, Up, IInv, TypeOK, rowVars, modalVars
<1>8. CASE UNCHANGED vars
  BY <1>8 DEF Up, vars, rowVars, modalVars, handlerVars, startVars
<1>9. ~Tick
  BY DEF Tick
<1> QED
  BY <1>1, <1>2, <1>3, <1>4, <1>5, <1>6, <1>7, <1>8, <1>9 DEF Next

(* While no session idles out, a ready answer is true of its row too: only *)
(* the row's own end terminates the session its robot runs on.             *)
THEOREM AnswersTrue ==
    ASSUME ~Clocked PROVE Spec => []AnswerIsTrue
<1>1. Init => Up
  BY EdgeAssumption DEF Init, Up
<1>2. IInv /\ Sound /\ Up /\ [Next]_vars => Up'
  BY UpStep
<1>3. Sound /\ Up => AnswerIsTrue
  BY DEF Sound, Stored, StoredOnce, Rows, Up, AnswerIsTrue, ReadyIsUsable, RefusedRowEnded
<1> QED
  BY <1>1, <1>2, <1>3, Invariant, SoundAlways, PTL DEF Spec

-----------------------------------------------------------------------------
(* What gives a session up: a clock that lets a row outlive EDGE_IDLE_S, a *)
(* restart, a deleted account, a key that no longer opens the token, a     *)
(* terminate call that fails. Without those a row is marked only once its  *)
(* session is gone.                                                        *)
Gentle == ~Clocked /\ MaxCrashes = 0 /\ Faults \cap {"delete", "key", "modal"} = {}

Marked ==
    \A r \in Requests :
        /\ cf[r] # "orphan" /\ status[r] # "deleted" /\ age[r] = 0 /\ term[r] # "left"
        /\ term[r] = "mark" => modal[edge[r]] = "gone"

LEMMA GentleSteps ==
    ASSUME Gentle, IInv
    PROVE  /\ ~Tick /\ ~Crash /\ \A u \in Students : ~StudentDeleted(u)
           /\ "key" \notin Faults /\ "modal" \notin Faults
<1>1. "delete" \notin Faults /\ "key" \notin Faults /\ "modal" \notin Faults
  BY DEF Gentle
<1>2. crashes \in 0..0
  BY DEF Gentle, IInv, TypeOK
<1>3. ~Crash
  BY <1>2 DEF Gentle, Crash
<1>4. ~Tick
  BY DEF Gentle, Tick
<1> QED
  BY <1>1, <1>3, <1>4 DEF StudentDeleted

LEMMA MarkedStep ==
    ASSUME Gentle, IInv, Sound, Marked, [Next]_vars PROVE Marked'
<1> USE EdgeAssumption DEF Gentle, IInv, TypeOK, Marked
<1>1. ~Tick /\ ~Crash /\ \A u \in Students : ~StudentDeleted(u)
  BY GentleSteps
<1>2. \A r \in Requests : term[r] # "off" => edge[r] \in Requests /\ Outcome(edge[r])
  BY DEF Sound, Stored, StoredOnce
<1>3. ASSUME NEW r \in Requests, RowStep(r) PROVE Marked'
  BY <1>3 DEF RowStep, Create, Connect, RowEnds, Finish, Live, startVars, handlerVars, modalVars
<1>4. ASSUME NEW s \in Requests, StartStep(s) PROVE Marked'
  <2>1. CASE StartRuns(s) \/ StartHangs(s)
    BY <2>1 DEF StartRuns, StartHangs, rowVars, modalVars
  <2>2. CASE StartAnswers(s)
    BY <1>2, <2>2 DEF StartAnswers, rowVars, Outcome
  <2>3. CASE Settle(s)
    BY <2>3 DEF Settle, Becomes, Forget, Entries, rowVars, modalVars
  <2>4. ~OrphanUp(s)
    BY DEF OrphanUp
  <2> QED BY <1>4, <2>1, <2>2, <2>3, <2>4 DEF StartStep
<1>5. ASSUME NEW r \in Requests, HandlerStep(r) PROVE Marked'
  <2>1. CASE StartSession(r) \/ StartTimeout(r) \/ Cancel(r)
    <3>1. /\ \A x \in Requests : cf'[x] = cf[x] \/ cf'[x] \in {"queued", "cancelled"}
          /\ UNCHANGED <<rowVars, modalVars, term>>
      BY <2>1 DEF StartSession, StartTimeout, Cancel, Leave, Becomes, Entries, Forget
    <3> QED BY <3>1 DEF rowVars, modalVars
  <2>2. CASE Resume(r)
    BY <2>2 DEF Resume, rowVars, modalVars, startVars
  <2>3. CASE Attach(r)
    <3>1. /\ \A q \in Requests : edge'[q] # edge[q] => edge[q] = Nobody
          /\ \A q \in Requests : status'[q] # "deleted"
          /\ UNCHANGED <<age, modalVars, startVars, term>>
      BY <2>3 DEF Attach, Stores, Finish, Attachable, Live
    <3> QED BY <3>1 DEF modalVars, startVars
  <2>4. CASE TerminateNow(r)
    <3>1. \A x \in Requests : modal[x] = "gone" => modal'[x] = "gone"
      BY <2>4 DEF TerminateNow, Terminates
    <3> QED BY <1>2, <2>4, <3>1 DEF TerminateNow, rowVars, startVars
  <2>5. CASE EndEdgeFailed(r)
    BY <2>5 DEF EndEdgeFailed, Finish, Live, modalVars, startVars
  <2> QED BY <1>5, <2>1, <2>2, <2>3, <2>4, <2>5 DEF HandlerStep
<1>6. ASSUME LateStep PROVE Marked'
  <2>1. PICK t \in lateTask : LateAttach(t) \/ LateTerminate(t)
    BY <1>6 DEF LateStep
  <2>2. t[1] \in Requests /\ t[2] \in Requests
    OBVIOUS
  <2>3. CASE LateAttach(t)
    <3>1. /\ \A q \in Requests : edge'[q] # edge[q] => edge[q] = Nobody
          /\ \A q \in Requests : status'[q] # "deleted"
          /\ UNCHANGED <<age, modalVars, startVars, term>>
      BY <2>2, <2>3 DEF LateAttach, Stores, Finish, Attachable, Live
    <3> QED BY <3>1 DEF modalVars, startVars
  <2>4. CASE LateTerminate(t)
    <3>1. \A x \in Requests : modal[x] = "gone" => modal'[x] = "gone"
      BY <2>4 DEF LateTerminate, Terminates
    <3> QED BY <1>2, <2>4, <3>1 DEF LateTerminate, rowVars, startVars
  <2> QED BY <2>1, <2>3, <2>4
<1>7. ASSUME NEW r \in Requests, TerminateStep(r) PROVE Marked'
  <2>1. CASE TerminateAnswers(r)
    <3>1. /\ modal' = [modal EXCEPT ![edge[r]] = "gone"] /\ edge[r] \in Requests
          /\ term' = [term EXCEPT ![r] = IF @ = "call" THEN "mark" ELSE "off"]
          /\ UNCHANGED <<rowVars, startVars>>
      BY <1>2, <2>1 DEF TerminateAnswers
    <3>2. \A x \in Requests : modal[x] = "gone" => modal'[x] = "gone"
      BY <3>1
    <3> QED BY <1>2, <3>1, <3>2 DEF rowVars, startVars
  <2>2. CASE TerminateRow(r)
    <3>1. term' = [term EXCEPT ![r] = "call"] /\ UNCHANGED <<rowVars, modalVars, startVars>>
      BY <2>2 DEF TerminateRow
    <3> QED BY <3>1 DEF rowVars, modalVars, startVars
  <2>3. CASE MarkTerminated(r)
    BY <2>3 DEF MarkTerminated, modalVars, startVars
  <2>4. ~TerminateLeft(r)
    BY DEF TerminateLeft
  <2> QED BY <1>7, <2>1, <2>2, <2>3, <2>4 DEF TerminateStep
<1>8. CASE UNCHANGED vars
  BY <1>8 DEF vars, rowVars, modalVars, handlerVars, startVars
<1> QED
  BY <1>1, <1>3, <1>4, <1>5, <1>6, <1>7, <1>8 DEF Next

(* A session that a step does not end keeps its keeper or gets another.    *)
LEMMA NoLostStep ==
    ASSUME Gentle, IInv, Sound, Marked, NoLostSession, [Next]_vars PROVE NoLostSession'
<1> USE EdgeAssumption DEF Gentle, IInv, TypeOK
<1>1. ~Tick /\ ~Crash /\ \A u \in Students : ~StudentDeleted(u)
  BY GentleSteps
<1>2. ASSUME NEW r \in Requests, RowStep(r) PROVE NoLostSession'
  BY <1>2 DEF RowStep, Create, Connect, RowEnds, Finish, Live, startVars, handlerVars, modalVars,
              NoLostSession, Keeps, Marked
<1>3. ASSUME NEW s \in Requests, StartStep(s) PROVE NoLostSession'
  <2>1. CASE StartRuns(s) \/ StartHangs(s)
    BY <2>1 DEF StartRuns, StartHangs, rowVars, modalVars, handlerVars, NoLostSession, Keeps
  <2>2. CASE StartAnswers(s)
    <3>1. cf[s] = "running" /\ ~settled[s]
      BY <2>2 DEF StartAnswers, Sound, Started
    <3> QED BY <2>2, <3>1 DEF StartAnswers, rowVars, handlerVars, NoLostSession, Keeps, Running
  <2>3. CASE Settle(s)
    <3> DEFINE w == waiter[s]
    <3>1. /\ cf' = cf /\ settled' = [settled EXCEPT ![s] = TRUE]
          /\ cf[s] \in {"creds", "odd", "error"} /\ ~settled[s]
          /\ UNCHANGED <<rowVars, modalVars>>
          /\ lateTask \subseteq lateTask'
          /\ LateTakes(s) => <<late[s], s, "attach">> \in lateTask'
      BY <2>3 DEF Settle, Becomes, Forget, Entries
    <3>2. \/ /\ w # Nobody /\ fut[w] = "pending"
             /\ held' = [held EXCEPT ![w] = IF cf[s] = "error" THEN @ ELSE s]
          \/ (w = Nobody \/ fut[w] # "pending") /\ held' = held
      BY <2>3 DEF Settle
    <3>3. cf[s] # "error" => late[s] # Nobody
      BY <3>1 DEF Sound, Newest
    <3>4. CASE w # Nobody /\ fut[w] = "pending" /\ held' = [held EXCEPT ![w] = IF cf[s] = "error" THEN @ ELSE s]
      <4>1. w \in Requests /\ held[w] = Nobody
        BY <3>4 DEF Sound, Handed, KnowsSession
      <4> QED BY <3>1, <3>4, <4>1 DEF rowVars, modalVars, NoLostSession, Keeps
    <3>5. CASE (w = Nobody \/ fut[w] # "pending") /\ held' = held
      <4>1. cf[s] # "error" => \E t \in lateTask' : t[2] = s
        <5> SUFFICES ASSUME cf[s] # "error" PROVE \E t \in lateTask' : t[2] = s
          OBVIOUS
        <5>1. <<late[s], s, "attach">> \in lateTask' /\ <<late[s], s, "attach">>[2] = s
          BY <3>1, <3>3, <3>5 DEF LateTakes
        <5> QED BY <5>1
      <4> QED BY <3>1, <3>5, <4>1 DEF rowVars, modalVars, NoLostSession, Keeps
    <3> QED BY <3>2, <3>4, <3>5
  <2>4. ~OrphanUp(s)
    BY DEF OrphanUp, Marked
  <2> QED BY <1>3, <2>1, <2>2, <2>3, <2>4 DEF StartStep
<1>4. ASSUME NEW r \in Requests, HandlerStep(r) PROVE NoLostSession'
  <2>1. CASE StartSession(r)
    <3>1. /\ settled' = settled /\ (cf' = cf \/ cf' = [cf EXCEPT ![r] = "queued"])
          /\ pc[r] = "created" /\ UNCHANGED <<rowVars, modalVars, held, lateTask>>
      BY <2>1 DEF StartSession, Becomes, Entries
    <3>2. cf[r] = "none"
      BY <3>1 DEF Sound, Started
    <3> QED BY <3>1, <3>2 DEF rowVars, modalVars, NoLostSession, Keeps
  <2>2. CASE StartTimeout(r) \/ Cancel(r)
    <3>1. /\ \A x \in Requests : cf[x] \in {"creds", "odd"} /\ ~settled[x] => cf'[x] = cf[x] /\ ~settled'[x]
          /\ lateTask \subseteq lateTask' /\ UNCHANGED <<rowVars, modalVars>>
          /\ fut[r] = "creds" => <<r, held[r], "attach">> \in lateTask'
          /\ \A q \in Requests : held'[q] = held[q] \/ q = r
      BY <2>2 DEF StartTimeout, Cancel, Leave, Becomes, Entries, Forget, HandsOver
    <3>2. held[r] # Nobody => fut[r] = "creds"
      BY <2>2 DEF StartTimeout, Cancel, Sound, Handed
    <3>3. ASSUME held[r] # Nobody PROVE \E t \in lateTask' : t[2] = held[r]
      <4>1. <<r, held[r], "attach">> \in lateTask' /\ <<r, held[r], "attach">>[2] = held[r]
        BY <3>1, <3>2, <3>3
      <4> QED BY <4>1
    <3> QED BY <3>1, <3>3 DEF rowVars, modalVars, NoLostSession, Keeps
  <2>3. CASE Resume(r)
    BY <2>3 DEF Resume, rowVars, modalVars, startVars, NoLostSession, Keeps
  <2>4. CASE Attach(r)
    <3>1. /\ \A q \in Requests : edge[q] # Nobody => edge'[q] = edge[q] /\ sealed'[q] = sealed[q]
          /\ \A q \in Requests : status[q] # "deleted" => status'[q] # "deleted"
          /\ \A q \in Requests : held'[q] = held[q] \/ q = r
          /\ held' = held \/ (edge'[r] = held[r] /\ sealed'[r])
          /\ UNCHANGED <<modalVars, startVars, lateTask>>
      BY <2>4 DEF Attach, Stores, Finish, Attachable, Live
    <3>2. \A q \in Requests : status'[q] # "deleted"
      BY <3>1 DEF Marked
    <3> SUFFICES ASSUME NEW s \in Requests, modal'[s] = "up" PROVE Keeps(s)'
      BY DEF NoLostSession
    <3>3. Keeps(s)
      BY <3>1 DEF NoLostSession, modalVars
    <3>4. CASE held[r] = s
      BY <3>1, <3>2, <3>4 DEF Keeps
    <3>5. CASE held[r] # s
      BY <3>1, <3>2, <3>3, <3>5 DEF Keeps, startVars
    <3> QED BY <3>4, <3>5
  <2>5. CASE TerminateNow(r)
    <3>1. modal' = [modal EXCEPT ![held[r]] = "gone"] /\ held' = [held EXCEPT ![r] = Nobody]
          /\ held[r] \in Requests
      BY <2>5 DEF TerminateNow, Terminates, KnowsSession
    <3> QED BY <2>5, <3>1 DEF TerminateNow, rowVars, startVars, NoLostSession, Keeps
  <2>6. CASE EndEdgeFailed(r)
    BY <2>6 DEF EndEdgeFailed, Finish, Live, modalVars, startVars, NoLostSession, Keeps
  <2> QED BY <1>4, <2>1, <2>2, <2>3, <2>4, <2>5, <2>6 DEF HandlerStep
<1>5. ASSUME LateStep PROVE NoLostSession'
  <2>1. PICK t \in lateTask : LateAttach(t) \/ LateTerminate(t)
    BY <1>5 DEF LateStep
  <2>2. t[1] \in Requests /\ t[2] \in Requests
    OBVIOUS
  <2>3. CASE LateAttach(t)
    <3>1. /\ \A q \in Requests : edge[q] # Nobody => edge'[q] = edge[q] /\ sealed'[q] = sealed[q]
          /\ \A q \in Requests : status[q] # "deleted" => status'[q] # "deleted"
          /\ UNCHANGED <<modalVars, startVars, handlerVars>>
      BY <2>2, <2>3 DEF LateAttach, Stores, Finish, Attachable, Live
    <3>2. \/ edge'[t[1]] = t[2] /\ sealed'[t[1]]
          \/ \E k \in lateTask' : k[2] = t[2]
      <4>1. <<t[1], t[2], "kill">>[2] = t[2]
        OBVIOUS
      <4>2. \/ Stores(t[1], t[2])
            \/ <<t[1], t[2], "kill">> \in lateTask'
        BY <2>3 DEF LateAttach
      <4>3. CASE Stores(t[1], t[2])
        BY <2>2, <4>3 DEF Stores
      <4> QED BY <4>1, <4>2, <4>3
    <3>3. \A k \in lateTask : k # t => k \in lateTask'
      BY <2>3 DEF LateAttach
    <3>4. \A q \in Requests : status'[q] # "deleted"
      BY <3>1 DEF Marked
    <3> SUFFICES ASSUME NEW s \in Requests, modal'[s] = "up" PROVE Keeps(s)'
      BY DEF NoLostSession
    <3>5. Keeps(s)
      BY <3>1 DEF NoLostSession, modalVars
    <3>6. CASE s = t[2]
      BY <2>2, <3>2, <3>4, <3>6 DEF Keeps
    <3>7. CASE s # t[2]
      BY <3>1, <3>3, <3>4, <3>5, <3>7 DEF Keeps, startVars, handlerVars
    <3> QED BY <3>6, <3>7
  <2>4. CASE LateTerminate(t)
    <3>1. modal' = [modal EXCEPT ![t[2]] = "gone"] /\ \A k \in lateTask : k # t => k \in lateTask'
      BY <2>4 DEF LateTerminate, Terminates
    <3> QED BY <2>2, <2>4, <3>1 DEF LateTerminate, rowVars, startVars, handlerVars, NoLostSession, Keeps
  <2> QED BY <2>1, <2>3, <2>4
<1>6. ASSUME NEW r \in Requests, TerminateStep(r) PROVE NoLostSession'
  <2>1. CASE TerminateAnswers(r)
    <3>1. modal' = [modal EXCEPT ![edge[r]] = "gone"] /\ UNCHANGED <<rowVars, startVars, handlerVars, lateTask>>
      BY <2>1 DEF TerminateAnswers
    <3> QED BY <3>1 DEF rowVars, startVars, handlerVars, NoLostSession, Keeps
  <2>2. CASE MarkTerminated(r)
    <3>1. /\ modal[edge[r]] = "gone"
          /\ \A q \in Requests : sealed'[q] = sealed[q] \/ q = r
          /\ UNCHANGED <<status, edge, modal, startVars, handlerVars, lateTask>>
      BY <2>2 DEF MarkTerminated, Marked, modalVars
    <3> SUFFICES ASSUME NEW s \in Requests, modal'[s] = "up" PROVE Keeps(s)'
      BY DEF NoLostSession
    <3>2. Keeps(s) /\ edge[r] # s
      BY <3>1 DEF NoLostSession
    <3> QED BY <3>1, <3>2 DEF Keeps, startVars, handlerVars
  <2>3. CASE TerminateRow(r) \/ TerminateLeft(r)
    BY <2>3 DEF TerminateRow, TerminateLeft, rowVars, modalVars, startVars, handlerVars, NoLostSession, Keeps
  <2> QED BY <1>6, <2>1, <2>2, <2>3 DEF TerminateStep
<1>7. CASE UNCHANGED vars
  BY <1>7 DEF vars, rowVars, modalVars, handlerVars, startVars, NoLostSession, Keeps
<1> QED
  BY <1>1, <1>2, <1>3, <1>4, <1>5, <1>6, <1>7 DEF Next

(* One success, one session, one attach: through cancelled requests, lost  *)
(* answers of attach calls and odd credentials, every Modal session that   *)
(* is up has a request, a task, a start or a row that will end it.         *)
THEOREM NothingLost ==
    ASSUME Gentle PROVE Spec => []NoLostSession
<1>1. Init => Marked /\ NoLostSession
  BY EdgeAssumption DEF Init, Marked, NoLostSession
<1>2. IInv /\ Sound /\ Marked /\ [Next]_vars => Marked'
  BY MarkedStep
<1>3. IInv /\ Sound /\ Marked /\ NoLostSession /\ [Next]_vars => NoLostSession'
  BY NoLostStep
<1> QED
  BY <1>1, <1>2, <1>3, Invariant, SoundAlways, PTL DEF Spec
=============================================================================
