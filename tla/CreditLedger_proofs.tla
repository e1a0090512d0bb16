------------------------- MODULE CreditLedger_proofs -------------------------
(***************************************************************************)
(* Proofs about the ledger, for any number of people, groups, trainings    *)
(* and requests. First its structure: every child account has a funding    *)
(* account, a funder is never exchanged under a reservation. Then its      *)
(* sums: every hour is accounted for and every reserved hour belongs to an *)
(* open training. At last, every training is one abstract reservation.     *)
(***************************************************************************)
EXTENDS CreditLedger, FiniteSetTheorems, WellFoundedInduction, TLAPS

(* The shapes the structure rests on, without the numbers of hours.        *)
Shapes ==
    /\ accounts \subseteq Owners
    /\ class \in [Child -> Teachers \cup {None}]
    /\ parent \in [Owners -> Teachers \cup {None}]
    /\ asked \in [Requests -> Changes \cup {None}]
    /\ pending \subseteq Requests
    /\ \A r \in pending : asked[r] \in Changes

Structure == Shapes /\ ChildHasTeacherAccount

(* What a request of each kind names.                                      *)
LEMMA ChangeNames ==
    ASSUME NEW q \in Changes
    PROVE  /\ q.kind \in {"grant", "revoke", "assign", "reclaim", "limit"}
                \/ (q.kind = "compensate" /\ q.training = None) => q.teacher \in Teachers
           /\ q.kind \in {"assign", "reclaim", "limit", "compensate"} => q.child \in Child
BY LedgerAssumption DEF Changes, Change

(* Creating a child account creates its teacher's.                         *)
LEMMA ChildAccountKeeps ==
    ASSUME Structure, NEW c \in Child, NEW t \in Teachers, ChildAccount(c, t)
    PROVE  /\ accounts' \subseteq Owners
           /\ parent' \in [Owners -> Teachers \cup {None}]
           /\ ChildHasTeacherAccount'
<1>1. accounts' \subseteq Owners /\ accounts \subseteq accounts' /\ {c, t} \subseteq accounts'
  BY DEF ChildAccount, Structure, Shapes, Owners
<1>2. parent' \in [Owners -> Teachers \cup {None}]
  BY DEF ChildAccount, Structure, Shapes
<1>3. ASSUME NEW d \in Child \cap accounts'
      PROVE  parent'[d] \in Teachers \cap accounts'
  <2>1. CASE d \in accounts
    <3>1. parent'[d] = parent[d]
      BY <2>1 DEF ChildAccount, Structure, Shapes, Owners
    <3> QED
      BY <1>1, <2>1, <3>1 DEF Structure, ChildHasTeacherAccount
  <2>2. CASE d \notin accounts
    <3>1. d = c
      BY <2>2, LedgerAssumption DEF ChildAccount, Child
    <3>2. parent'[d] = t
      BY <2>2, <3>1 DEF ChildAccount, Structure, Shapes, Owners
    <3> QED
      BY <1>1, <3>2
  <2> QED
    BY <2>1, <2>2
<1> QED
  BY <1>1, <1>2, <1>3 DEF ChildHasTeacherAccount

LEMMA StructureStep == Structure /\ [Next]_vars => Structure'
<1> SUFFICES ASSUME Structure, [Next]_vars PROVE Structure'
  OBVIOUS
<1>1. CASE UNCHANGED <<class, accounts, parent, asked>> /\ pending' \subseteq pending
  BY <1>1 DEF Structure, Shapes, ChildHasTeacherAccount
<1>2. ASSUME NEW r \in Requests, Issue(r) PROVE Structure'
  <2>1. PICK q \in Changes : asked' = [asked EXCEPT ![r] = q]
    BY <1>2 DEF Issue
  <2>2. UNCHANGED <<class, accounts, parent>> /\ pending' = pending \cup {r}
    BY <1>2 DEF Issue, people, accountVars
  <2> QED
    BY <2>1, <2>2 DEF Structure, Shapes, ChildHasTeacherAccount
<1>3. ASSUME NEW r \in Requests, Answer(r) \/ AdminRevoke(r) \/ Reclaim(r) PROVE Structure'
  BY <1>1, <1>3 DEF Answer, AdminRevoke, Reclaim, Posts, people, accountVars
<1>4. ASSUME NEW r \in Requests, AdminGrant(r) PROVE Structure'
  <2>1. asked[r] \in Changes /\ asked[r].kind = "grant"
    BY <1>4 DEF AdminGrant, Asks, Structure, Shapes
  <2>2. asked[r].teacher \in Teachers
    BY <2>1, ChangeNames
  <2>3. UNCHANGED <<class, parent, asked>> /\ pending' \subseteq pending
        /\ accounts' = accounts \cup {asked[r].teacher}
    BY <1>4 DEF AdminGrant, Posts, people
  <2> QED
    BY <2>2, <2>3, LedgerAssumption
       DEF Structure, Shapes, ChildHasTeacherAccount, Owners, Child
<1>5. ASSUME NEW r \in Requests, Assign(r) \/ SetMemberLimit(r) PROVE Structure'
  <2>1. asked[r] \in Changes /\ asked[r].kind \in {"assign", "limit"}
    BY <1>5 DEF Assign, SetMemberLimit, Asks, Structure, Shapes
  <2>2. asked[r].teacher \in Teachers /\ asked[r].child \in Child
    BY <2>1, ChangeNames
  <2>3. ChildAccount(asked[r].child, asked[r].teacher)
    BY <1>5 DEF Assign, SetMemberLimit
  <2>4. UNCHANGED <<class, asked>> /\ pending' \subseteq pending
    BY <1>5 DEF Assign, SetMemberLimit, Posts, people
  <2> QED
    BY <2>2, <2>3, <2>4, ChildAccountKeeps DEF Structure, Shapes
<1>6. ASSUME NEW r \in Requests, Compensate(r) PROVE Structure'
  <2>1. asked[r] \in Changes /\ asked[r].kind = "compensate"
    BY <1>6 DEF Compensate, Asks, Structure, Shapes
  <2>2. UNCHANGED <<class, asked>> /\ pending' \subseteq pending
    BY <1>6 DEF Compensate, Posts, people
  <2>3. CASE asked[r].training = None
    <3>1. asked[r].teacher \in Teachers /\ asked[r].child \in Child
      BY <2>1, <2>3, ChangeNames
    <3>2. ChildAccount(asked[r].child, asked[r].teacher)
      BY <1>6, <2>3 DEF Compensate
    <3> QED
      BY <2>2, <3>1, <3>2, ChildAccountKeeps DEF Structure, Shapes
  <2>4. CASE asked[r].training # None
    BY <1>1, <1>6, <2>2, <2>4 DEF Compensate
  <2> QED
    BY <2>3, <2>4
<1>7. ASSUME NEW t \in Trainings, SettleTraining(t) \/ \E s \in Students : StartTraining(t, s)
      PROVE  Structure'
  BY <1>1, <1>7 DEF SettleTraining, StartTraining, people, requestVars
<1>8. ASSUME NEW s \in Students,
             DeleteStudent(s) \/ LeaveGroup(s) \/ \E g \in Groups : JoinGroup(s, g)
      PROVE  Structure'
  BY <1>1, <1>8 DEF DeleteStudent, LeaveGroup, JoinGroup, accountVars, requestVars
<1>9. ASSUME NEW g \in Groups, DeleteGroup(g) PROVE Structure'
  BY <1>1, <1>9 DEF DeleteGroup, requestVars
<1>10. ASSUME NEW t \in Teachers, DeleteTeacher(t) PROVE Structure'
  <2>1. class' \in [Child -> Teachers \cup {None}]
    BY <1>10 DEF DeleteTeacher, Structure, Shapes
  <2>2. UNCHANGED <<accounts, parent, asked, pending>>
    BY <1>10 DEF DeleteTeacher, requestVars
  <2> QED
    BY <2>1, <2>2 DEF Structure, Shapes, ChildHasTeacherAccount
<1>11. ASSUME NEW c \in Child, NEW t \in Teachers \cup {None}, Move(c, t) PROVE Structure'
  <2>1. class' \in [Child -> Teachers \cup {None}]
    BY <1>11 DEF Move, Structure, Shapes
  <2>2. UNCHANGED <<asked, pending>>
    BY <1>11 DEF Move, requestVars
  <2>3. CASE UNCHANGED <<accounts, parent>>
    BY <2>1, <2>2, <2>3 DEF Structure, Shapes, ChildHasTeacherAccount
  <2>4. CASE t # None /\ parent' = [parent EXCEPT ![c] = t] /\ accounts' = accounts \cup {t}
    <3>1. accounts' \subseteq Owners /\ parent' \in [Owners -> Teachers \cup {None}]
      BY <2>4 DEF Structure, Shapes, Owners
    <3>2. ChildHasTeacherAccount'
      BY <2>4, LedgerAssumption DEF Structure, Shapes, ChildHasTeacherAccount, Owners, Child
    <3> QED
      BY <2>1, <2>2, <3>1, <3>2 DEF Structure, Shapes
  <2> QED
    BY <1>11, <2>3, <2>4 DEF Move
<1>12. CASE UNCHANGED vars
  BY <1>1, <1>12 DEF vars, people, accountVars, requestVars
<1> QED
  BY <1>2, <1>3, <1>4, <1>5, <1>6, <1>7, <1>8, <1>9, <1>10, <1>11, <1>12 DEF Next

LEMMA AlwaysStructured == Spec => []Structure
<1>1. Init => Structure
  BY LedgerAssumption DEF Init, Structure, Shapes, ChildHasTeacherAccount, Owners, Child
<1> QED
  BY <1>1, StructureStep, PTL DEF Spec

(* Every child account has its teacher's account behind it (I13).          *)
THEOREM FundedChildren == Spec => []ChildHasTeacherAccount
BY AlwaysStructured, PTL DEF Structure

-----------------------------------------------------------------------------
(* Reservations.                                                           *)

(* The columns of the trainings, and that hours are reserved only in       *)
(* accounts that exist.                                                    *)
Booked ==
    /\ reserved \in [Owners -> Int]
    /\ tState \in [Trainings -> {"none", "open", "settled"}]
    /\ tHours \in [Trainings -> 0..MaxHours]
    /\ tAccount \in [Trainings -> Owners \cup {None}]
    /\ tCharge \in [Trainings -> -1..MaxHours]
    /\ \A t \in Trainings : tState[t] # "none" => tAccount[t] \in accounts
    /\ \A o \in Owners \ accounts : reserved[o] = 0

(* Everything but a start and a settlement leaves the trainings and the    *)
(* reserved hours alone and only adds accounts.                            *)
LEMMA OtherCalls ==
    ASSUME [Next]_vars,
           \A t \in Trainings : ~SettleTraining(t) /\ \A s \in Students : ~StartTraining(t, s)
    PROVE  UNCHANGED <<reserved, trainingVars>> /\ accounts \subseteq accounts'
<1>1. ASSUME NEW r \in Requests,
             Issue(r) \/ Answer(r) \/ AdminGrant(r) \/ AdminRevoke(r) \/ Reclaim(r)
      PROVE  UNCHANGED <<reserved, trainingVars>> /\ accounts \subseteq accounts'
  BY <1>1 DEF Issue, Answer, AdminGrant, AdminRevoke, Reclaim, accountVars
<1>2. ASSUME NEW r \in Requests, Assign(r) \/ SetMemberLimit(r) \/ Compensate(r)
      PROVE  UNCHANGED <<reserved, trainingVars>> /\ accounts \subseteq accounts'
  BY <1>2 DEF Assign, SetMemberLimit, Compensate, ChildAccount
<1>3. ASSUME NEW s \in Students,
             DeleteStudent(s) \/ LeaveGroup(s) \/ \E g \in Groups : JoinGroup(s, g)
      PROVE  UNCHANGED <<reserved, trainingVars>> /\ accounts \subseteq accounts'
  BY <1>3 DEF DeleteStudent, LeaveGroup, JoinGroup, accountVars
<1>4. ASSUME NEW g \in Groups, DeleteGroup(g)
      PROVE  UNCHANGED <<reserved, trainingVars>> /\ accounts \subseteq accounts'
  BY <1>4 DEF DeleteGroup
<1>5. ASSUME NEW t \in Teachers, DeleteTeacher(t)
      PROVE  UNCHANGED <<reserved, trainingVars>> /\ accounts \subseteq accounts'
  BY <1>5 DEF DeleteTeacher
<1>6. ASSUME NEW c \in Child, NEW t \in Teachers \cup {None}, Move(c, t)
      PROVE  UNCHANGED <<reserved, trainingVars>> /\ accounts \subseteq accounts'
  BY <1>6 DEF Move
<1>7. CASE UNCHANGED vars
  BY <1>7 DEF vars, accountVars
<1> QED
  BY <1>1, <1>2, <1>3, <1>4, <1>5, <1>6, <1>7 DEF Next

LEMMA BookedStart ==
    ASSUME Structure, Booked, NEW t \in Trainings, NEW s \in Students, StartTraining(t, s)
    PROVE  Booked'
<1>1. PICK n \in {m \in 1..MaxHours : Startable(s, m)} :
        /\ reserved' = [reserved EXCEPT ![Payer(s)] = @ + n]
        /\ tHours' = [tHours EXCEPT ![t] = n]
  BY DEF StartTraining
<1>2. Payer(s) \in accounts /\ Payer(s) \in Owners
  BY <1>1 DEF Startable, Usable, Structure, Shapes
<1>3. /\ tState' = [tState EXCEPT ![t] = "open"]
      /\ tAccount' = [tAccount EXCEPT ![t] = Payer(s)]
      /\ UNCHANGED <<tCharge, accounts>>
  BY DEF StartTraining
<1>4. n \in 0..MaxHours /\ n \in Int
  BY LedgerAssumption
<1>5. reserved' \in [Owners -> Int] /\ tHours' \in [Trainings -> 0..MaxHours]
  BY <1>1, <1>2, <1>4 DEF Booked
<1>6. /\ tState' \in [Trainings -> {"none", "open", "settled"}]
      /\ tAccount' \in [Trainings -> Owners \cup {None}]
  BY <1>2, <1>3 DEF Booked
<1>7. ASSUME NEW u \in Trainings, tState'[u] # "none" PROVE tAccount'[u] \in accounts'
  BY <1>2, <1>3, <1>7 DEF Booked
<1>8. ASSUME NEW o \in Owners \ accounts' PROVE reserved'[o] = 0
  BY <1>1, <1>2, <1>3, <1>8 DEF Booked
<1> QED
  BY <1>3, <1>5, <1>6, <1>7, <1>8 DEF Booked

LEMMA BookedSettle ==
    ASSUME Structure, Booked, NEW t \in Trainings, SettleTraining(t)
    PROVE  Booked'
<1>1. PICK c \in 0..tHours[t] :
        /\ tCharge' = [tCharge EXCEPT ![t] = c]
        /\ reserved' = [reserved EXCEPT ![tAccount[t]] = @ - tHours[t]]
  BY DEF SettleTraining, SettledFrom
<1>2. tAccount[t] \in accounts /\ tAccount[t] \in Owners
  BY DEF SettleTraining, Settleable, Booked, Structure, Shapes
<1>3. tState' = [tState EXCEPT ![t] = "settled"] /\ UNCHANGED <<tHours, tAccount, accounts>>
  BY DEF SettleTraining
<1>4. tHours[t] \in 0..MaxHours /\ tState[t] = "open"
  BY DEF SettleTraining, Settleable, Booked
<1>5. c \in -1..MaxHours
  BY <1>4, LedgerAssumption
<1>6. reserved' \in [Owners -> Int] /\ tCharge' \in [Trainings -> -1..MaxHours]
  BY <1>1, <1>2, <1>4, <1>5 DEF Booked
<1>7. tState' \in [Trainings -> {"none", "open", "settled"}]
  BY <1>3 DEF Booked
<1>8. ASSUME NEW u \in Trainings, tState'[u] # "none" PROVE tAccount'[u] \in accounts'
  BY <1>2, <1>3, <1>8 DEF Booked
<1>9. ASSUME NEW o \in Owners \ accounts' PROVE reserved'[o] = 0
  BY <1>1, <1>2, <1>3, <1>9 DEF Booked
<1> QED
  BY <1>3, <1>6, <1>7, <1>8, <1>9 DEF Booked

LEMMA BookedStep == Structure /\ Booked /\ [Next]_vars => Booked'
<1> SUFFICES ASSUME Structure, Booked, [Next]_vars PROVE Booked'
  OBVIOUS
<1>1. CASE \E t \in Trainings : SettleTraining(t)
  BY <1>1, BookedSettle
<1>2. CASE \E t \in Trainings, s \in Students : StartTraining(t, s)
  BY <1>2, BookedStart
<1>3. CASE \A t \in Trainings : ~SettleTraining(t) /\ \A s \in Students : ~StartTraining(t, s)
  <2>1. UNCHANGED <<reserved, trainingVars>> /\ accounts \subseteq accounts'
    BY <1>3, OtherCalls
  <2> QED
    BY <2>1 DEF Booked, trainingVars
<1> QED
  BY <1>1, <1>2, <1>3

LEMMA AlwaysBooked == Spec => []Booked
<1>1. Init => Booked
  <2> SUFFICES ASSUME Init PROVE Booked
    OBVIOUS
  <2>1. 0 \in 0..MaxHours /\ -1 \in -1..MaxHours
    BY LedgerAssumption
  <2> QED
    BY <2>1 DEF Init, Booked
<1> QED
  BY <1>1, BookedStep, AlwaysStructured, PTL DEF Spec

-----------------------------------------------------------------------------
(* Funders.                                                                *)

LEMMA FunderStep ==
    ASSUME Structure, Booked, [Next]_vars, NEW o \in Owners, reserved[o] > 0
    PROVE  parent'[o] = parent[o]
<1>1. o \in accounts
  BY DEF Booked
<1>2. CASE UNCHANGED parent
  BY <1>2
<1>3. ASSUME NEW c \in Child, NEW t \in Teachers \cup {None}, Move(c, t)
      PROVE  parent'[o] = parent[o]
  BY <1>2, <1>3 DEF Move, Movable, Structure, Shapes
<1>4. ASSUME NEW r \in Requests, Assign(r) \/ SetMemberLimit(r) \/ Compensate(r)
      PROVE  parent'[o] = parent[o]
  BY <1>1, <1>2, <1>4 DEF Assign, SetMemberLimit, Compensate, ChildAccount, Structure, Shapes
<1>5. ASSUME NEW r \in Requests,
             Issue(r) \/ Answer(r) \/ AdminGrant(r) \/ AdminRevoke(r) \/ Reclaim(r)
      PROVE  parent'[o] = parent[o]
  BY <1>2, <1>5 DEF Issue, Answer, AdminGrant, AdminRevoke, Reclaim, accountVars
<1>6. ASSUME NEW t \in Trainings, SettleTraining(t) \/ \E s \in Students : StartTraining(t, s)
      PROVE  parent'[o] = parent[o]
  BY <1>2, <1>6 DEF SettleTraining, StartTraining
<1>7. ASSUME NEW s \in Students,
             DeleteStudent(s) \/ LeaveGroup(s) \/ \E g \in Groups : JoinGroup(s, g)
      PROVE  parent'[o] = parent[o]
  BY <1>2, <1>7 DEF DeleteStudent, LeaveGroup, JoinGroup, accountVars
<1>8. ASSUME NEW g \in Groups, DeleteGroup(g) PROVE parent'[o] = parent[o]
  BY <1>2, <1>8 DEF DeleteGroup
<1>9. ASSUME NEW t \in Teachers, DeleteTeacher(t) PROVE parent'[o] = parent[o]
  BY <1>2, <1>9 DEF DeleteTeacher
<1>10. CASE UNCHANGED vars
  BY <1>2, <1>10 DEF vars, accountVars
<1> QED
  BY <1>3, <1>4, <1>5, <1>6, <1>7, <1>8, <1>9, <1>10 DEF Next

(* While hours are reserved the funding teacher is the one they came from. *)
THEOREM NoExchangedFunder == Spec => FunderFrozen
<1>1. Structure /\ Booked /\ [Next]_vars =>
        [\A o \in Owners : reserved[o] > 0 => parent'[o] = parent[o]]_vars
  BY FunderStep
<1> QED
  BY <1>1, AlwaysStructured, AlwaysBooked, PTL DEF Spec, FunderFrozen

-----------------------------------------------------------------------------
(* Closed accounts.                                                        *)

(* Every owner has a column of free hours, and what closed had an account. *)
Emptied ==
    /\ DOMAIN free = Owners
    /\ closed \subseteq accounts
    /\ ClosedChildIsEmpty

(* Closing an account empties it, and hands hours to open accounts only.   *)
LEMMA CloseEmpties ==
    ASSUME Emptied, NEW gone, CloseAccounts(gone), UNCHANGED accounts
    PROVE  Emptied'
<1> DEFINE shut == gone \cap (accounts \ closed)
<1> DEFINE heirs == accounts \ (closed \cup gone)
<1>1. closed' = closed \cup shut
  BY DEF CloseAccounts
<1>2. /\ DOMAIN free' = Owners
      /\ \A o \in Owners : o \in shut => free'[o] = 0
      /\ \A o \in Owners : o \notin shut /\ o \notin heirs => free'[o] = free[o] + 0
  BY DEF CloseAccounts
<1>3. ASSUME NEW c \in Child \cap closed' PROVE free'[c] = 0
  <2>1. CASE c \in shut
    BY <1>2, <2>1 DEF Owners
  <2>2. CASE c \notin shut
    <3>1. c \in closed /\ c \notin heirs /\ c \in Owners
      BY <1>1, <1>3, <2>2 DEF Owners
    <3>2. free[c] = 0
      BY <3>1 DEF Emptied, ClosedChildIsEmpty
    <3> QED
      BY <1>2, <2>2, <3>1, <3>2
  <2> QED
    BY <2>1, <2>2
<1> QED
  BY <1>1, <1>2, <1>3 DEF Emptied, ClosedChildIsEmpty

(* Hours returned by an open account, or passed on by a closed one.        *)
LEMMA ReturnKeeps ==
    ASSUME Emptied, NEW c \in Owners, NEW balance, NEW n, ReturnFree(balance, c, n),
           DOMAIN balance = Owners, \A o \in Owners \ {c} : balance[o] = free[o],
           c \in closed /\ c \in Child => n \in Int /\ balance[c] = n
    PROVE  DOMAIN free' = Owners /\ \A o \in Child \cap closed : free'[o] = 0
<1>1. parent[c] \in Child \cap closed => ~Usable(parent[c])
  BY DEF Usable
<1>2. \A o \in Child \cap closed : o # c => balance[o] = 0
  BY DEF Emptied, ClosedChildIsEmpty, Owners
<1>3. CASE Usable(parent[c])
  <2>1. free' = [balance EXCEPT ![c] = @ - n, ![parent[c]] = @ + n]
    BY <1>3 DEF ReturnFree
  <2>2. ASSUME NEW o \in Child \cap closed PROVE free'[o] = 0
    <3>1. o # parent[c] /\ o \in Owners
      BY <1>1, <1>3, <2>2 DEF Owners
    <3>2. free'[o] = IF o = c THEN balance[o] - n ELSE balance[o]
      BY <2>1, <3>1
    <3> QED
      BY <1>2, <2>2, <3>2
  <2> QED
    BY <2>1, <2>2
<1>4. CASE ~Usable(parent[c])
  <2>1. free' = [balance EXCEPT ![c] = @ - n]
    BY <1>4 DEF ReturnFree
  <2>2. ASSUME NEW o \in Child \cap closed PROVE free'[o] = 0
    <3>1. o \in Owners /\ free'[o] = IF o = c THEN balance[o] - n ELSE balance[o]
      BY <2>1, <2>2 DEF Owners
    <3> QED
      BY <1>2, <2>2, <3>1
  <2> QED
    BY <2>1, <2>2
<1> QED
  BY <1>3, <1>4

LEMMA SettleEmpties ==
    ASSUME Structure, Booked, Emptied, NEW t \in Trainings, SettleTraining(t)
    PROVE  Emptied'
<1> DEFINE a == tAccount[t]
<1>1. a \in Owners /\ tHours[t] \in 0..MaxHours
  BY DEF SettleTraining, Settleable, Booked, Structure, Shapes
<1>2. PICK c \in 0..tHours[t] :
        LET rest == tHours[t] - c
            released == [free EXCEPT ![a] = @ + rest]
        IN  IF PassedOn(a) THEN ReturnFree(released, a, rest) ELSE free' = released
  BY DEF SettleTraining, SettledFrom
<1> DEFINE rest == tHours[t] - c
<1> DEFINE released == [free EXCEPT ![a] = @ + rest]
<1>3. rest \in Int
  BY <1>1, LedgerAssumption
<1>4. /\ DOMAIN released = Owners /\ released[a] = free[a] + rest
      /\ \A o \in Owners \ {a} : released[o] = free[o]
  BY <1>1 DEF Emptied
<1>5. UNCHANGED <<accounts, closed>>
  BY DEF SettleTraining
<1>6. CASE PassedOn(a)
  <2>1. ReturnFree(released, a, rest)
    BY <1>2, <1>6
  <2>2. a \in closed /\ a \in Child => rest \in Int /\ released[a] = rest
    BY <1>3, <1>4 DEF Emptied, ClosedChildIsEmpty
  <2>3. DOMAIN free' = Owners /\ \A o \in Child \cap closed : free'[o] = 0
    <3> HIDE DEF rest, released
    <3> QED
      BY <1>1, <1>3, <1>4, <2>1, <2>2, ReturnKeeps
  <2> QED
    BY <1>5, <2>3 DEF Emptied, ClosedChildIsEmpty
<1>7. CASE ~PassedOn(a)
  <2>1. free' = released /\ a \notin closed
    BY <1>2, <1>7 DEF PassedOn
  <2>2. \A o \in Child \cap closed : o \in Owners \ {a}
    BY <2>1 DEF Owners
  <2> QED
    BY <1>4, <1>5, <2>1, <2>2 DEF Emptied, ClosedChildIsEmpty
<1> QED
  BY <1>6, <1>7

LEMMA CallEmpties ==
    ASSUME Structure, Emptied, NEW r \in Requests,
           \/ Issue(r) \/ Answer(r) \/ AdminGrant(r) \/ AdminRevoke(r)
           \/ Assign(r) \/ Reclaim(r) \/ SetMemberLimit(r) \/ Compensate(r)
    PROVE  Emptied'
<1> DEFINE q == asked[r]
<1>1. CASE Issue(r) \/ Answer(r)
  BY <1>1 DEF Issue, Answer, accountVars, Emptied, ClosedChildIsEmpty
<1>2. CASE SetMemberLimit(r)
  <2>1. closed' = closed /\ free' = free /\ accounts \subseteq accounts'
    BY <1>2 DEF SetMemberLimit, ChildAccount
  <2> QED
    BY <2>1 DEF Emptied, ClosedChildIsEmpty
<1>3. CASE AdminGrant(r) \/ AdminRevoke(r)
  <2>1. q \in Changes /\ q.kind \in {"grant", "revoke"}
    BY <1>3 DEF AdminGrant, AdminRevoke, Asks, Structure, Shapes
  <2>2. q.teacher \in Teachers /\ q.teacher \notin Child
    BY <2>1, ChangeNames, LedgerAssumption
  <2>3. /\ closed' = closed /\ accounts \subseteq accounts'
        /\ \/ free' = [free EXCEPT ![q.teacher] = @ + q.hours]
           \/ free' = [free EXCEPT ![q.teacher] = @ - q.hours]
    BY <1>3 DEF AdminGrant, AdminRevoke
  <2>4. DOMAIN free' = Owners /\ \A o \in Child : free'[o] = free[o]
    BY <2>2, <2>3 DEF Emptied, Owners
  <2> QED
    BY <2>3, <2>4 DEF Emptied, ClosedChildIsEmpty
<1>4. CASE Assign(r) \/ Reclaim(r)
  <2>1. q \in Changes /\ q.kind \in {"assign", "reclaim"}
    BY <1>4 DEF Assign, Reclaim, Asks, Structure, Shapes
  <2>2. q.teacher \in Teachers /\ q.teacher \notin Child /\ q.child \in Child
    BY <2>1, ChangeNames, LedgerAssumption
  <2>3. /\ closed' = closed /\ accounts \subseteq accounts' /\ q.child \notin closed
        /\ \/ free' = [free EXCEPT ![q.teacher] = @ - q.hours, ![q.child] = @ + q.hours]
           \/ free' = [free EXCEPT ![q.child] = @ - q.hours, ![q.teacher] = @ + q.hours]
    BY <1>4 DEF Assign, Reclaim, Reclaimable, Usable, ChildAccount
  <2>4. DOMAIN free' = Owners /\ \A o \in Child : o # q.child => free'[o] = free[o]
    BY <2>2, <2>3 DEF Emptied, Owners
  <2> QED
    BY <2>3, <2>4 DEF Emptied, ClosedChildIsEmpty
<1>5. CASE Compensate(r)
  <2>1. /\ closed' = closed /\ accounts \subseteq accounts' /\ q.child \notin closed
        /\ free' = [free EXCEPT ![q.child] = @ + q.hours]
    BY <1>5 DEF Compensate, ChildAccount
  <2>2. DOMAIN free' = Owners /\ \A o \in Child : o # q.child => free'[o] = free[o]
    BY <2>1 DEF Emptied, Owners
  <2> QED
    BY <2>1, <2>2 DEF Emptied, ClosedChildIsEmpty
<1> QED
  BY <1>1, <1>2, <1>3, <1>4, <1>5

LEMMA MoveEmpties ==
    ASSUME Structure, Emptied, NEW c \in Child, NEW t \in Teachers \cup {None}, Move(c, t)
    PROVE  Emptied'
<1>1. closed' = closed /\ accounts \subseteq accounts'
  BY DEF Move
<1>2. CASE free' = free
  BY <1>1, <1>2 DEF Emptied, ClosedChildIsEmpty
<1>3. CASE Usable(c) /\ ReturnFree(free, c, free[c])
  <2>1. c \notin closed /\ c \in Owners
    BY <1>3 DEF Usable, Owners
  <2>2. DOMAIN free' = Owners /\ \A o \in Child \cap closed : free'[o] = 0
    BY <1>3, <2>1, ReturnKeeps DEF Emptied
  <2> QED
    BY <1>1, <2>2 DEF Emptied, ClosedChildIsEmpty
<1> QED
  BY <1>2, <1>3 DEF Move

LEMMA EmptiedStep == Structure /\ Booked /\ Emptied /\ [Next]_vars => Emptied'
<1> SUFFICES ASSUME Structure, Booked, Emptied, [Next]_vars PROVE Emptied'
  OBVIOUS
<1>1. CASE UNCHANGED <<free, accounts, closed>>
  BY <1>1 DEF Emptied, ClosedChildIsEmpty
<1>2. ASSUME NEW t \in Trainings, NEW s \in Students, StartTraining(t, s) PROVE Emptied'
  <2>1. PICK n : free' = [free EXCEPT ![Payer(s)] = @ - n] /\ Payer(s) \notin closed
    BY <1>2 DEF StartTraining, Startable, Usable
  <2>2. UNCHANGED <<accounts, closed>>
    BY <1>2 DEF StartTraining
  <2> QED
    BY <2>1, <2>2 DEF Emptied, ClosedChildIsEmpty, Owners
<1>3. ASSUME NEW s \in Students, DeleteStudent(s) PROVE Emptied'
  BY <1>3, CloseEmpties DEF DeleteStudent
<1>4. ASSUME NEW g \in Groups, DeleteGroup(g) PROVE Emptied'
  BY <1>4, CloseEmpties DEF DeleteGroup
<1>5. ASSUME NEW t \in Teachers, DeleteTeacher(t) PROVE Emptied'
  BY <1>5, CloseEmpties DEF DeleteTeacher
<1>6. ASSUME NEW s \in Students, LeaveGroup(s) \/ \E g \in Groups : JoinGroup(s, g)
      PROVE  Emptied'
  BY <1>1, <1>6 DEF LeaveGroup, JoinGroup, accountVars
<1>7. CASE UNCHANGED vars
  BY <1>1, <1>7 DEF vars, accountVars
<1> QED
  BY <1>2, <1>3, <1>4, <1>5, <1>6, <1>7, CallEmpties, SettleEmpties, MoveEmpties DEF Next

(* A closed child account never holds free hours: whatever a training      *)
(* gives back to it is with the teacher, or out of the system, in the same *)
(* step.                                                                   *)
THEOREM ClosedStaysEmpty == Spec => []ClosedChildIsEmpty
<1>1. Init => Emptied
  BY DEF Init, Emptied, ClosedChildIsEmpty
<1> QED
  BY <1>1, EmptiedStep, AlwaysStructured, AlwaysBooked, PTL DEF Spec, Emptied

(* Together: hours that a child account cannot use are with the teacher    *)
(* who paid them, whose account exists, or out of the system.              *)
THEOREM NothingLeftBehind == Spec => HoursGoHome
BY FundedChildren, ClosedStaysEmpty, NoExchangedFunder DEF HoursGoHome

-----------------------------------------------------------------------------
(* Facts about SumFunctionOnSet, the community modules' sum of a           *)
(* function's values over a finite set. An induction over the subsets of a *)
(* set is a smallest counterexample here; the sum is unfolded from the     *)
(* recursive function that the library defines it by.                      *)

(* Every set of natural numbers has a least one.                           *)
LEMMA LeastNumber ==
    ASSUME NEW T, T \subseteq Nat, T # {}
    PROVE  \E n \in T : \A m \in T : n <= m
<1> DEFINE less == OpToRel(<, Nat)
<1>1. IsWellFoundedOn(less, Nat)
  BY NatLessThanWellFounded
<1>2. \E n \in T : \A m \in T : ~ (<<m, n>> \in less)
  <2> HIDE DEF less
  <2> QED
    BY <1>1, WFMin
<1>3. PICK n \in T : \A m \in T : <<m, n>> \notin less
  BY <1>2, Zenon
<1>4. ASSUME NEW m \in T PROVE n <= m
  <2>1. m \in Nat /\ n \in Nat
    BY Zenon
  <2>2. ~ (m < n)
    BY <1>3, <2>1, Zenon DEF OpToRel
  <2> QED
    BY <2>1, <2>2
<1> QED
  BY <1>4

(* Induction over the subsets of a finite set, with the property as a set. *)
LEMMA SubsetInduction ==
    ASSUME NEW S, IsFiniteSet(S), NEW P \in SUBSET SUBSET S,
           \A U \in SUBSET S : (\A V \in SUBSET U : V # U => V \in P) => U \in P
    PROVE  S \in P
<1> DEFINE bad == (SUBSET S) \ P
<1> DEFINE sizes == {Cardinality(U) : U \in bad}
<1> SUFFICES ASSUME bad # {} PROVE FALSE
  OBVIOUS
<1>1. \A U \in SUBSET S : IsFiniteSet(U) /\ Cardinality(U) \in Nat
  BY FS_Subset, FS_CardinalityType
<1>2. sizes \subseteq Nat /\ sizes # {}
  BY <1>1
<1>3. PICK n \in sizes : \A m \in sizes : n <= m
  <2> HIDE DEF sizes
  <2> QED
    BY <1>2, LeastNumber
<1>4. PICK U \in SUBSET S : U \notin P /\ n = Cardinality(U)
  OBVIOUS
<1>5. ASSUME NEW V \in SUBSET U, V # U PROVE V \in P
  <2>1. Cardinality(V) < Cardinality(U)
    BY <1>1, <1>5, FS_Subset
  <2>2. V \notin bad
    BY <1>1, <1>3, <1>4, <2>1
  <2> QED
    BY <2>2
<1> QED
  BY <1>4, <1>5

Total(f, S) == SumFunctionOnSet(f, S)

(* A sum as the recursive function the library defines it by.              *)
Pick(s) == CHOOSE x \in s : TRUE
Term(f, g, s) == IF s = {} THEN 0 ELSE f[Pick(s)] + g[s \ {Pick(s)}]
Adds(f, g, S) == g = [s \in SUBSET S |-> Term(f, g, s)]
Adder(f, S) == CHOOSE g : Adds(f, g, S)

LEMMA PickIn == ASSUME NEW s, s # {} PROVE Pick(s) \in s
BY DEF Pick

LEMMA TotalAdds == ASSUME NEW f, NEW S PROVE Total(f, S) = Adder(f, S)[S]
BY DEF Total, SumFunctionOnSet, FoldFunctionOnSet, MapThenFoldSet, Adder, Adds, Term, Pick

(* Two such functions agree where both are defined.                        *)
LEMMA AddsAgree ==
    ASSUME NEW f, NEW S, NEW T, NEW g, NEW h, Adds(f, g, S), Adds(f, h, T),
           NEW U \in (SUBSET S) \cap (SUBSET T), IsFiniteSet(U)
    PROVE  g[U] = h[U]
<1> DEFINE P == {V \in SUBSET U : g[V] = h[V]}
<1>1. ASSUME NEW V \in SUBSET U, \A W \in SUBSET V : W # V => W \in P
      PROVE  V \in P
  <2>0. V \in SUBSET S /\ V \in SUBSET T
    OBVIOUS
  <2>1. g[V] = Term(f, g, V) /\ h[V] = Term(f, h, V)
    BY <2>0, Zenon DEF Adds
  <2>2. CASE V = {}
    BY <2>1, <2>2 DEF Term
  <2>3. CASE V # {}
    <3>1. V \ {Pick(V)} \in P
      BY <1>1, <2>3, PickIn
    <3> QED
      BY <2>1, <2>3, <3>1 DEF Term
  <2> QED
    BY <2>2, <2>3
<1>2. U \in P
  <2> HIDE DEF P
  <2>1. P \in SUBSET SUBSET U
    BY DEF P
  <2> QED
    BY <1>1, <2>1, SubsetInduction
<1> QED
  BY <1>2

(* For a finite set there is one.                                          *)
LEMMA AddsExists ==
    ASSUME NEW f, NEW S, IsFiniteSet(S)
    PROVE  Adds(f, Adder(f, S), S)
<1> DEFINE P == {U \in SUBSET S : Adds(f, Adder(f, U), U)}
<1>1. ASSUME NEW U \in SUBSET S, \A V \in SUBSET U : V # U => V \in P
      PROVE  U \in P
  <2> DEFINE below == [V \in SUBSET U |-> Adder(f, V)[V]]
  <2> DEFINE g == [V \in SUBSET U |-> Term(f, below, V)]
  <2>1. ASSUME NEW V \in SUBSET U, V # U PROVE below[V] = g[V]
    <3>1. Adds(f, Adder(f, V), V)
      BY <1>1, <2>1
    <3>2. Adder(f, V)[V] = Term(f, Adder(f, V), V)
      BY <3>1 DEF Adds
    <3>3. CASE V = {}
      BY <3>2, <3>3 DEF Term
    <3>4. CASE V # {}
      <4> DEFINE W == V \ {Pick(V)}
      <4>1. W \in SUBSET V /\ W \in SUBSET U /\ W # U /\ W \in SUBSET S /\ IsFiniteSet(W)
        BY <2>1, <3>4, PickIn, FS_Subset
      <4>2. Adds(f, Adder(f, W), W)
        BY <1>1, <4>1
      <4>3. Adder(f, V)[W] = Adder(f, W)[W]
        <5>1. W \in (SUBSET V) \cap (SUBSET W)
          BY <4>1
        <5> HIDE DEF W
        <5> QED
          BY <3>1, <4>1, <4>2, <5>1, AddsAgree
      <4> QED
        BY <3>2, <3>4, <4>1, <4>3 DEF Term
    <3> QED
      BY <3>3, <3>4
  <2>2. ASSUME NEW V \in SUBSET U PROVE Term(f, below, V) = Term(f, g, V)
    <3>1. CASE V = {}
      BY <3>1 DEF Term
    <3>2. CASE V # {}
      <4>1. V \ {Pick(V)} \in SUBSET U /\ V \ {Pick(V)} # U
        BY <3>2, PickIn
      <4>2. below[V \ {Pick(V)}] = g[V \ {Pick(V)}]
        BY <2>1, <4>1
      <4> QED
        BY <3>2, <4>2 DEF Term
    <3> QED
      BY <3>1, <3>2
  <2>3. Adds(f, g, U)
    BY <2>2 DEF Adds
  <2>4. Adds(f, Adder(f, U), U)
    <3> HIDE DEF g
    <3> QED
      BY <2>3 DEF Adder
  <2> QED
    BY <2>4
<1>2. S \in P
  <2> HIDE DEF P
  <2>1. P \in SUBSET SUBSET S
    BY DEF P
  <2> QED
    BY <1>1, <2>1, SubsetInduction
<1> QED
  BY <1>2

LEMMA SumUnfold ==
    ASSUME NEW f, NEW S, IsFiniteSet(S)
    PROVE  /\ S = {} => Total(f, S) = 0
           /\ S # {} => Total(f, S) = f[Pick(S)] + Total(f, S \ {Pick(S)})
<1> DEFINE T == S \ {Pick(S)}
<1>0. Adds(f, Adder(f, S), S) /\ S \in SUBSET S
  BY AddsExists
<1>1. Total(f, S) = Term(f, Adder(f, S), S)
  BY <1>0, TotalAdds, Zenon DEF Adds
<1>2. IsFiniteSet(T) /\ T \in SUBSET S
  BY FS_Subset
<1>3. Adder(f, S)[T] = Adder(f, T)[T]
  <2> HIDE DEF T
  <2>1. T \in (SUBSET S) \cap (SUBSET T)
    BY <1>2, Zenon
  <2>2. Adds(f, Adder(f, T), T)
    BY <1>2, AddsExists
  <2> QED
    BY <1>0, <1>2, <2>1, <2>2, AddsAgree
<1>4. Adder(f, S)[T] = Total(f, T)
  BY <1>3, TotalAdds
<1> QED
  BY <1>1, <1>4 DEF Term

(* The sum over nothing is 0; one over integers is an integer, one over    *)
(* natural numbers a natural number.                                       *)
LEMMA SumOfNone == ASSUME NEW f PROVE Total(f, {}) = 0
BY SumUnfold, FS_EmptySet

LEMMA SumType ==
    ASSUME NEW f, NEW S, IsFiniteSet(S), \A x \in S : f[x] \in Int
    PROVE  Total(f, S) \in Int
<1> DEFINE P == {U \in SUBSET S : Total(f, U) \in Int}
<1>1. ASSUME NEW U \in SUBSET S, \A V \in SUBSET U : V # U => V \in P
      PROVE  U \in P
  <2>1. IsFiniteSet(U)
    BY FS_Subset
  <2>2. CASE U = {}
    BY <2>2, SumOfNone
  <2>3. CASE U # {}
    <3>1. Pick(U) \in S /\ U \ {Pick(U)} \in P
      BY <1>1, <2>3, PickIn
    <3>2. f[Pick(U)] \in Int /\ Total(f, U \ {Pick(U)}) \in Int
      BY <3>1
    <3> QED
      BY <2>1, <2>3, <3>2, SumUnfold
  <2> QED
    BY <2>2, <2>3
<1>2. S \in P
  <2> HIDE DEF P
  <2>1. P \in SUBSET SUBSET S
    BY DEF P
  <2> QED
    BY <1>1, <2>1, SubsetInduction
<1> QED
  BY <1>2

LEMMA SumNat ==
    ASSUME NEW f, NEW S, IsFiniteSet(S), \A x \in S : f[x] \in Nat
    PROVE  Total(f, S) \in Nat
<1> DEFINE P == {U \in SUBSET S : Total(f, U) \in Nat}
<1>1. ASSUME NEW U \in SUBSET S, \A V \in SUBSET U : V # U => V \in P
      PROVE  U \in P
  <2>1. IsFiniteSet(U)
    BY FS_Subset
  <2>2. CASE U = {}
    BY <2>2, SumOfNone
  <2>3. CASE U # {}
    <3>1. Pick(U) \in S /\ U \ {Pick(U)} \in P
      BY <1>1, <2>3, PickIn
    <3>2. f[Pick(U)] \in Nat /\ Total(f, U \ {Pick(U)}) \in Nat
      BY <3>1
    <3> QED
      BY <2>1, <2>3, <3>2, SumUnfold
  <2> QED
    BY <2>2, <2>3
<1>2. S \in P
  <2> HIDE DEF P
  <2>1. P \in SUBSET SUBSET S
    BY DEF P
  <2> QED
    BY <1>1, <2>1, SubsetInduction
<1> QED
  BY <1>2

(* Any element may be taken out of a sum first.                            *)
LEMMA SumRemove ==
    ASSUME NEW f, NEW S, IsFiniteSet(S), \A y \in S : f[y] \in Int, NEW x \in S
    PROVE  Total(f, S) = f[x] + Total(f, S \ {x})
<1> DEFINE P == {U \in SUBSET S : \A y \in U : Total(f, U) = f[y] + Total(f, U \ {y})}
<1>1. ASSUME NEW U \in SUBSET S, \A V \in SUBSET U : V # U => V \in P
      PROVE  U \in P
  <2>1. ASSUME NEW y \in U PROVE Total(f, U) = f[y] + Total(f, U \ {y})
    <3> DEFINE c == Pick(U)
    <3>1. c \in U /\ IsFiniteSet(U) /\ IsFiniteSet(U \ {c}) /\ IsFiniteSet(U \ {y})
      BY PickIn, FS_Subset
    <3>2. Total(f, U) = f[c] + Total(f, U \ {c})
      BY <3>1, SumUnfold
    <3>3. CASE y = c
      BY <3>2, <3>3
    <3>4. CASE y # c
      <4> DEFINE rest == (U \ {c}) \ {y}
      <4>1. U \ {c} \in P /\ U \ {y} \in P /\ y \in U \ {c} /\ c \in U \ {y}
        BY <1>1, <3>1, <3>4
      <4>2. Total(f, U \ {c}) = f[y] + Total(f, rest)
        BY <4>1
      <4>3. Total(f, U \ {y}) = f[c] + Total(f, (U \ {y}) \ {c})
        BY <4>1
      <4>4. (U \ {y}) \ {c} = rest
        OBVIOUS
      <4>5. f[c] \in Int /\ f[y] \in Int /\ Total(f, rest) \in Int
        <5>1. IsFiniteSet(rest) /\ rest \subseteq S
          BY <3>1, FS_Subset
        <5> QED
          BY <3>1, <5>1, SumType
      <4>6. Total(f, U \ {y}) = f[c] + Total(f, rest)
        BY <4>3, <4>4, Zenon
      <4> HIDE DEF rest, c
      <4> QED
        BY <3>2, <4>2, <4>5, <4>6
    <3> QED
      BY <3>3, <3>4
  <2> QED
    BY <2>1
<1>2. S \in P
  <2> HIDE DEF P
  <2>1. P \in SUBSET SUBSET S
    BY DEF P
  <2> QED
    BY <1>1, <2>1, SubsetInduction
<1> QED
  BY <1>2

(* Equal terms, equal sums.                                                *)
LEMMA SumSame ==
    ASSUME NEW f, NEW g, NEW S, IsFiniteSet(S), \A x \in S : f[x] = g[x]
    PROVE  Total(f, S) = Total(g, S)
<1> DEFINE P == {U \in SUBSET S : Total(f, U) = Total(g, U)}
<1>1. ASSUME NEW U \in SUBSET S, \A V \in SUBSET U : V # U => V \in P
      PROVE  U \in P
  <2>1. IsFiniteSet(U)
    BY FS_Subset
  <2>2. CASE U = {}
    BY <2>1, <2>2, SumUnfold
  <2>3. CASE U # {}
    <3>1. f[Pick(U)] = g[Pick(U)] /\ U \ {Pick(U)} \in P
      BY <1>1, <2>3, PickIn
    <3> QED
      BY <2>1, <2>3, <3>1, SumUnfold
  <2> QED
    BY <2>2, <2>3
<1>2. S \in P
  <2> HIDE DEF P
  <2>1. P \in SUBSET SUBSET S
    BY DEF P
  <2> QED
    BY <1>1, <2>1, SubsetInduction
<1> QED
  BY <1>2

LEMMA SumZero ==
    ASSUME NEW f, NEW S, IsFiniteSet(S), \A x \in S : f[x] = 0
    PROVE  Total(f, S) = 0
<1> DEFINE P == {U \in SUBSET S : Total(f, U) = 0}
<1>1. ASSUME NEW U \in SUBSET S, \A V \in SUBSET U : V # U => V \in P
      PROVE  U \in P
  <2>1. IsFiniteSet(U)
    BY FS_Subset
  <2>2. CASE U = {}
    BY <2>2, SumOfNone
  <2>3. CASE U # {}
    <3>1. f[Pick(U)] = 0 /\ U \ {Pick(U)} \in P
      BY <1>1, <2>3, PickIn
    <3> QED
      BY <2>1, <2>3, <3>1, SumUnfold
  <2> QED
    BY <2>2, <2>3
<1>2. S \in P
  <2> HIDE DEF P
  <2>1. P \in SUBSET SUBSET S
    BY DEF P
  <2> QED
    BY <1>1, <2>1, SubsetInduction
<1> QED
  BY <1>2

(* A term more, or another term in one place.                              *)
LEMMA SumAdd ==
    ASSUME NEW f, NEW S, IsFiniteSet(S), NEW x, x \notin S, \A y \in S \cup {x} : f[y] \in Int
    PROVE  Total(f, S \cup {x}) = Total(f, S) + f[x]
<1>1. IsFiniteSet(S \cup {x}) /\ (S \cup {x}) \ {x} = S
  BY FS_AddElement
<1>2. Total(f, S \cup {x}) = f[x] + Total(f, S)
  BY <1>1, SumRemove
<1>3. f[x] \in Int /\ Total(f, S) \in Int
  BY SumType
<1> QED
  BY <1>2, <1>3

LEMMA SumChange ==
    ASSUME NEW f, NEW g, NEW S, IsFiniteSet(S), \A y \in S : f[y] \in Int /\ g[y] \in Int,
           NEW x \in S, \A y \in S \ {x} : g[y] = f[y]
    PROVE  Total(g, S) = Total(f, S) + g[x] - f[x]
<1> DEFINE T == S \ {x}
<1>1. IsFiniteSet(T) /\ T \subseteq S
  BY FS_Subset
<1>2. Total(g, T) = Total(f, T) /\ Total(f, T) \in Int
  BY <1>1, SumSame, SumType
<1>3. Total(f, S) = f[x] + Total(f, T) /\ Total(g, S) = g[x] + Total(g, T)
  BY SumRemove
<1>4. f[x] \in Int /\ g[x] \in Int
  OBVIOUS
<1> HIDE DEF T
<1> QED
  BY <1>2, <1>3, <1>4

(* Sums of two parts and of two columns.                                   *)
LEMMA SumUnion ==
    ASSUME NEW f, NEW S, NEW T, IsFiniteSet(S), IsFiniteSet(T), S \cap T = {},
           \A x \in S \cup T : f[x] \in Int
    PROVE  Total(f, S \cup T) = Total(f, S) + Total(f, T)
<1> DEFINE P == {U \in SUBSET T : Total(f, S \cup U) = Total(f, S) + Total(f, U)}
<1>1. ASSUME NEW U \in SUBSET T, \A V \in SUBSET U : V # U => V \in P
      PROVE  U \in P
  <2>1. IsFiniteSet(U) /\ Total(f, S) \in Int
    BY FS_Subset, SumType
  <2>2. CASE U = {}
    <3>1. Total(f, S \cup U) = Total(f, S) /\ Total(f, U) = 0
      BY <2>2, SumOfNone
    <3>2. Total(f, S \cup U) = Total(f, S) + Total(f, U)
      BY <2>1, <3>1
    <3> QED
      BY <3>2
  <2>3. CASE U # {}
    <3> DEFINE x == Pick(U)
    <3> DEFINE V == U \ {x}
    <3>1. x \in U /\ V \in P /\ x \notin S \cup V /\ x \in T
      BY <1>1, <2>3, PickIn
    <3>2. IsFiniteSet(V) /\ IsFiniteSet(S \cup V)
      BY <2>1, FS_Subset, FS_Union
    <3>3. S \cup U = (S \cup V) \cup {x} /\ U = V \cup {x}
      BY <3>1
    <3>4. Total(f, S \cup U) = Total(f, S \cup V) + f[x] /\ Total(f, U) = Total(f, V) + f[x]
      <4>1. \A y \in (S \cup V) \cup {x} : f[y] \in Int
        BY <3>1
      <4> HIDE DEF V, x
      <4> QED
        BY <3>1, <3>2, <3>3, <4>1, SumAdd
    <3>5. Total(f, S \cup V) = Total(f, S) + Total(f, V)
      BY <3>1
    <3>6. Total(f, V) \in Int /\ f[x] \in Int
      BY <3>1, <3>2, SumType
    <3>7. Total(f, S \cup U) = Total(f, S) + Total(f, U)
      <4> HIDE DEF V, x
      <4> QED
        BY <2>1, <3>4, <3>5, <3>6
    <3> QED
      BY <3>7
  <2> QED
    BY <2>2, <2>3
<1>2. T \in P
  <2> HIDE DEF P
  <2>1. P \in SUBSET SUBSET T
    BY DEF P
  <2> QED
    BY <1>1, <2>1, SubsetInduction
<1> QED
  BY <1>2

LEMMA SumPlus ==
    ASSUME NEW f, NEW g, NEW h, NEW S, IsFiniteSet(S),
           \A x \in S : f[x] \in Int /\ g[x] \in Int /\ h[x] = f[x] + g[x]
    PROVE  Total(h, S) = Total(f, S) + Total(g, S)
<1> DEFINE P == {U \in SUBSET S : Total(h, U) = Total(f, U) + Total(g, U)}
<1>1. ASSUME NEW U \in SUBSET S, \A V \in SUBSET U : V # U => V \in P
      PROVE  U \in P
  <2>1. IsFiniteSet(U)
    BY FS_Subset
  <2>2. CASE U = {}
    BY <2>2, SumOfNone
  <2>3. CASE U # {}
    <3> DEFINE x == Pick(U)
    <3> DEFINE V == U \ {x}
    <3>1. x \in S /\ V \in P /\ IsFiniteSet(V) /\ V \subseteq S
      BY <1>1, <2>3, PickIn, FS_Subset
    <3>2. /\ Total(f, V) \in Int /\ Total(g, V) \in Int /\ f[x] \in Int /\ g[x] \in Int
          /\ h[x] = f[x] + g[x] /\ Total(h, V) = Total(f, V) + Total(g, V)
      BY <3>1, SumType
    <3>3. /\ Total(f, U) = f[x] + Total(f, V) /\ Total(g, U) = g[x] + Total(g, V)
          /\ Total(h, U) = h[x] + Total(h, V)
      BY <2>1, <2>3, SumUnfold
    <3>4. Total(h, U) = Total(f, U) + Total(g, U)
      <4> HIDE DEF V, x
      <4> QED
        BY <3>2, <3>3
    <3> QED
      BY <3>4
  <2> QED
    BY <2>2, <2>3
<1>2. S \in P
  <2> HIDE DEF P
  <2>1. P \in SUBSET SUBSET S
    BY DEF P
  <2> QED
    BY <1>1, <2>1, SubsetInduction
<1> QED
  BY <1>2

(* What is summed by key and then over the keys is the sum of everything   *)
(* that has one of the keys.                                               *)
LEMMA SumByKey ==
    ASSUME NEW f, NEW key, NEW S, NEW K, IsFiniteSet(S), IsFiniteSet(K), \A x \in S : f[x] \in Int
    PROVE  Total([k \in K |-> Total(f, {x \in S : key[x] = k})], K) =
           Total(f, {x \in S : key[x] \in K})
<1> DEFINE by(k) == {x \in S : key[x] = k}
<1> DEFINE in(U) == {x \in S : key[x] \in U}
<1> DEFINE sums == [k \in K |-> Total(f, by(k))]
<1> DEFINE P == {U \in SUBSET K : Total(sums, U) = Total(f, in(U))}
<1>0. \A k : IsFiniteSet(by(k)) /\ by(k) \subseteq S /\ Total(f, by(k)) \in Int
  <2> TAKE k
  <2>1. IsFiniteSet(by(k)) /\ by(k) \subseteq S
    BY FS_Subset
  <2> HIDE DEF by
  <2> QED
    BY <2>1, SumType
<1>1. ASSUME NEW U \in SUBSET K, \A V \in SUBSET U : V # U => V \in P
      PROVE  U \in P
  <2>1. IsFiniteSet(U)
    BY FS_Subset
  <2>2. CASE U = {}
    <3>1. in(U) = {}
      BY <2>2
    <3> QED
      BY <2>2, <3>1, SumOfNone
  <2>3. CASE U # {}
    <3> DEFINE k == Pick(U)
    <3> DEFINE V == U \ {k}
    <3>1. k \in U /\ k \in K /\ V \in P
      BY <1>1, <2>3, PickIn
    <3>2. in(U) = in(V) \cup by(k) /\ in(V) \cap by(k) = {}
      BY <3>1
    <3>3. IsFiniteSet(in(V)) /\ in(V) \subseteq S
      BY FS_Subset
    <3>4. Total(f, in(U)) = Total(f, in(V)) + Total(f, by(k))
      <4> DEFINE A == in(V)
      <4> DEFINE B == by(k)
      <4>1. /\ IsFiniteSet(A) /\ IsFiniteSet(B) /\ A \cap B = {} /\ in(U) = A \cup B
            /\ \A x \in A \cup B : f[x] \in Int
        BY <1>0, <3>2, <3>3
      <4>2. Total(f, A \cup B) = Total(f, A) + Total(f, B)
        <5> HIDE DEF A, B
        <5> QED
          BY <4>1, SumUnion
      <4> QED
        BY <4>1, <4>2
    <3>5. Total(sums, U) = sums[k] + Total(sums, V)
      BY <2>1, <2>3, SumUnfold
    <3>6. sums[k] = Total(f, by(k)) /\ Total(sums, V) = Total(f, in(V))
      BY <3>1
    <3>7. Total(f, in(V)) \in Int
      <4> HIDE DEF in
      <4> QED
        BY <3>3, SumType
    <3>8. Total(sums, U) = Total(f, in(U))
      <4> HIDE DEF in, by, k, V, sums
      <4> QED
        BY <1>0, <3>4, <3>5, <3>6, <3>7
    <3> QED
      BY <3>8
  <2> QED
    BY <2>2, <2>3
<1>2. K \in P
  <2> HIDE DEF P
  <2>1. P \in SUBSET SUBSET K
    BY DEF P
  <2> QED
    BY <1>1, <2>1, SubsetInduction
<1> QED
  BY <1>2

-----------------------------------------------------------------------------
(* Sums: every hour is accounted for.                                      *)

(* Owners without an account hold nothing, a training's account, member    *)
(* and charge are those of its start and its settlement, and a request     *)
(* that is under way or posted stands for a change.                        *)
Backed ==
    /\ \A o \in Owners \ accounts : free[o] = 0 /\ reserved[o] = 0 /\ spent[o] = 0
    /\ \A t \in Trainings : tState[t] # "none" =>
          /\ tAccount[t] \in accounts /\ tMember[t] \in Students
          /\ tState[t] = "settled" => tCharge[t] \in 0..tHours[t]
    /\ \A r \in pending \cup posted : asked[r] # None

IInv == HoursAddUp /\ Backed

(* A column of hours summed over all owners: one without an account adds   *)
(* nothing.                                                                *)
Sum(column) == Total(column, Owners)

LEMMA AllOwners ==
    ASSUME NEW column \in [Owners -> Int], NEW S \in SUBSET Owners,
           \A o \in Owners \ S : column[o] = 0
    PROVE  Hours(column, S) = Sum(column) /\ Sum(column) \in Int
<1>1. IsFiniteSet(S) /\ IsFiniteSet(Owners \ S) /\ IsFiniteSet(Owners)
  BY LedgerAssumption, FS_Subset
<1>2. Total(column, Owners \ S) = 0
  BY <1>1, SumZero
<1>3. Total(column, S) \in Int /\ Total(column, Owners) \in Int
  BY <1>1, SumType
<1>4. Total(column, S \cup (Owners \ S)) = Total(column, S) + Total(column, Owners \ S)
  <2>1. S \cap (Owners \ S) = {} /\ \A x \in S \cup (Owners \ S) : column[x] \in Int
    OBVIOUS
  <2> QED
    BY <1>1, <2>1, SumUnion
<1>5. S \cup (Owners \ S) = Owners
  OBVIOUS
<1>6. Total(column, Owners) = Total(column, S) + Total(column, Owners \ S)
  BY <1>4, <1>5, Zenon
<1>7. Total(column, S) = Total(column, Owners)
  BY <1>2, <1>3, <1>6
<1> QED
  BY <1>3, <1>7 DEF Hours, Total, Sum

(* One owner's hours change; hours move between two owners.                *)
LEMMA SumOne ==
    ASSUME NEW f \in [Owners -> Int], NEW g \in [Owners -> Int], NEW o \in Owners,
           \A p \in Owners \ {o} : g[p] = f[p]
    PROVE  Sum(g) = Sum(f) + g[o] - f[o] /\ Sum(f) \in Int /\ Sum(g) \in Int
<1>1. IsFiniteSet(Owners) /\ \A p \in Owners : f[p] \in Int /\ g[p] \in Int
  BY LedgerAssumption
<1>2. Total(g, Owners) = Total(f, Owners) + g[o] - f[o]
  BY <1>1, SumChange
<1>3. Total(f, Owners) \in Int /\ Total(g, Owners) \in Int
  BY <1>1, SumType
<1> QED
  BY <1>2, <1>3 DEF Sum

LEMMA SumTwo ==
    ASSUME NEW f \in [Owners -> Int], NEW g \in [Owners -> Int],
           NEW o \in Owners, NEW p \in Owners, o # p,
           \A q \in Owners \ {o, p} : g[q] = f[q]
    PROVE  /\ Sum(g) = Sum(f) + (g[o] - f[o]) + (g[p] - f[p])
           /\ Sum(f) \in Int /\ Sum(g) \in Int
<1> DEFINE h == [f EXCEPT ![o] = g[o]]
<1>1. /\ h \in [Owners -> Int] /\ \A q \in Owners \ {o} : h[q] = f[q]
      /\ \A q \in Owners \ {p} : g[q] = h[q]
      /\ h[o] = g[o] /\ h[p] = f[p]
  OBVIOUS
<1>2. Sum(h) = Sum(f) + h[o] - f[o] /\ Sum(f) \in Int /\ Sum(h) \in Int
  <2> HIDE DEF h
  <2> QED
    BY <1>1, SumOne
<1>3. Sum(g) = Sum(h) + g[p] - h[p] /\ Sum(g) \in Int
  <2> HIDE DEF h
  <2> QED
    BY <1>1, SumOne
<1>4. f[o] \in Int /\ f[p] \in Int /\ g[o] \in Int /\ g[p] \in Int
  OBVIOUS
<1> HIDE DEF h
<1> QED
  BY <1>1, <1>2, <1>3, <1>4

(* Hours that leave a child arrive at its teacher or are revoked.          *)
LEMMA SumReturn ==
    ASSUME NEW balance \in [Owners -> Int], NEW c \in Child, NEW n \in Int, revoked \in Int,
           Structure, ReturnFree(balance, c, n)
    PROVE  /\ free' \in [Owners -> Int] /\ Sum(free') \in Int /\ Sum(balance) \in Int
           /\ Sum(free') + revoked' = Sum(balance) + revoked
           /\ free'[c] = balance[c] - n
           /\ revoked' \in {revoked, revoked + n}
           /\ \A o \in Owners \ {c} :
                \/ free'[o] = balance[o]
                \/ o \in accounts /\ free'[o] = balance[o] + n
<1>0. c \in Owners /\ c \notin Teachers
  BY LedgerAssumption DEF Owners
<1>1. CASE Usable(parent[c])
  <2> DEFINE d == parent[c]
  <2>1. d \in Owners /\ d # c /\ d \in accounts
    BY <1>0, <1>1, LedgerAssumption DEF Usable, Structure, Shapes
  <2>2. free' = [balance EXCEPT ![c] = @ - n, ![d] = @ + n] /\ revoked' = revoked
    BY <1>1 DEF ReturnFree
  <2>3. /\ free' \in [Owners -> Int]
        /\ free'[c] = balance[c] - n /\ free'[d] = balance[d] + n
        /\ \A q \in Owners \ {c, d} : free'[q] = balance[q]
    BY <1>0, <2>1, <2>2
  <2>4. /\ Sum(free') = Sum(balance) + (free'[c] - balance[c]) + (free'[d] - balance[d])
        /\ Sum(balance) \in Int /\ Sum(free') \in Int
    BY <1>0, <2>1, <2>3, SumTwo
  <2>5. balance[c] \in Int /\ balance[d] \in Int
    BY <1>0, <2>1
  <2>6. Sum(free') = Sum(balance)
    BY <2>3, <2>4, <2>5
  <2> QED
    BY <2>1, <2>2, <2>3, <2>4, <2>6
<1>2. CASE ~Usable(parent[c])
  <2>1. free' = [balance EXCEPT ![c] = @ - n] /\ revoked' = revoked + n
    BY <1>2 DEF ReturnFree
  <2>2. /\ free' \in [Owners -> Int] /\ free'[c] = balance[c] - n
        /\ \A q \in Owners \ {c} : free'[q] = balance[q]
    BY <1>0, <2>1
  <2>3. /\ Sum(free') = Sum(balance) + free'[c] - balance[c]
        /\ Sum(balance) \in Int /\ Sum(free') \in Int
    BY <1>0, <2>2, SumOne
  <2>4. balance[c] \in Int
    BY <1>0
  <2> QED
    BY <2>1, <2>2, <2>3, <2>4
<1> QED
  BY <1>1, <1>2

(* Closing accounts neither makes nor loses hours: what a closed child had *)
(* is with the open account of its teacher, and the rest is revoked.       *)
LEMMA SumClose ==
    ASSUME NEW gone, CloseAccounts(gone), free \in [Owners -> Nat], revoked \in Nat,
           accounts \subseteq Owners
    PROVE  /\ free' \in [Owners -> Nat] /\ revoked' \in Nat
           /\ Sum(free') + revoked' = Sum(free) + revoked
           /\ \A o \in Owners \ accounts : free'[o] = free[o]
<1> DEFINE shut == gone \cap (accounts \ closed)
<1> DEFINE heirs == accounts \ (closed \cup gone)
<1> DEFINE backTo(o) == {c \in shut : parent[c] = o}
<1> DEFINE lost == {o \in shut : parent[o] \notin heirs}
<1> DEFINE left == {o \in shut : parent[o] \in heirs}
<1> DEFINE back == [o \in heirs |-> Total(free, backTo(o))]
<1>1. /\ revoked' = revoked + Total(free, lost)
      /\ free' = [o \in Owners |-> IF o \in shut THEN 0
                                   ELSE free[o] + (IF o \in heirs THEN Total(free, backTo(o)) ELSE 0)]
  BY DEF CloseAccounts, Hours, Total
<1>2. /\ IsFiniteSet(shut) /\ IsFiniteSet(heirs) /\ IsFiniteSet(lost) /\ IsFiniteSet(left)
      /\ \A o : IsFiniteSet(backTo(o)) /\ backTo(o) \subseteq Owners
      /\ shut \subseteq Owners /\ heirs \subseteq Owners /\ lost \subseteq Owners
      /\ IsFiniteSet(Owners)
  <2>1. IsFiniteSet(Owners) /\ shut \in SUBSET Owners /\ heirs \in SUBSET Owners
        /\ lost \in SUBSET Owners /\ left \in SUBSET Owners
        /\ \A o : backTo(o) \in SUBSET Owners
    BY LedgerAssumption
  <2> HIDE DEF shut, heirs, lost, left, backTo
  <2> QED
    BY <2>1, FS_Subset
<1>3. /\ \A o : Total(free, backTo(o)) \in Nat
      /\ Total(free, lost) \in Nat
  <2>1. \A o \in Owners : free[o] \in Nat
    OBVIOUS
  <2> HIDE DEF shut, heirs, lost, left, backTo
  <2> QED
    BY <1>2, <2>1, SumNat
<1>4. free' \in [Owners -> Nat] /\ revoked' \in Nat
  <2> HIDE DEF shut, heirs, lost, backTo
  <2> QED
    BY <1>1, <1>3
<1> DEFINE gained == [o \in Owners |-> IF o \in heirs THEN Total(free, backTo(o)) ELSE 0]
<1> DEFINE kept == [o \in Owners |-> IF o \in shut THEN 0 ELSE free[o]]
<1>5. /\ gained \in [Owners -> Nat] /\ kept \in [Owners -> Nat] /\ free' \in [Owners -> Nat]
      /\ \A o \in Owners : free'[o] = kept[o] + gained[o]
  <2>1. \A o \in shut : o \notin heirs
    OBVIOUS
  <2> HIDE DEF shut, heirs, lost, backTo
  <2> QED
    BY <1>1, <1>3, <1>4, <2>1
<1>6. Sum(free') = Sum(kept) + Sum(gained)
  <2> HIDE DEF kept, gained
  <2>1. \A o \in Owners : kept[o] \in Int /\ gained[o] \in Int /\ free'[o] = kept[o] + gained[o]
    BY <1>5
  <2> QED
    BY <1>2, <2>1, SumPlus DEF Sum
<1>7. Sum(gained) = Total(free, left)
  <2>1. Sum(gained) = Total(gained, heirs)
    <3>1. gained \in [Owners -> Int] /\ \A o \in Owners \ heirs : gained[o] = 0
      BY <1>5
    <3> HIDE DEF gained, heirs
    <3> QED
      BY <1>2, <3>1, AllOwners DEF Hours, Total
  <2>2. Total(gained, heirs) = Total(back, heirs)
    <3>1. \A o \in heirs : gained[o] = back[o]
      BY <1>2
    <3> HIDE DEF gained, heirs, back
    <3> QED
      BY <1>2, <3>1, SumSame
  <2>3. Total(back, heirs) = Total(free, left)
    <3>1. \A x \in shut : free[x] \in Int
      BY <1>2
    <3> HIDE DEF shut, heirs
    <3> QED
      BY <1>2, <3>1, SumByKey
  <2> QED
    BY <2>1, <2>2, <2>3
<1>8. Sum(free) = Sum(kept) + Total(free, shut) /\ Sum(kept) \in Int
  <2> DEFINE rest == Owners \ shut
  <2>1. IsFiniteSet(rest) /\ rest \cap shut = {} /\ Owners = rest \cup shut
    BY <1>2, FS_Subset
  <2>2. Total(free, rest \cup shut) = Total(free, rest) + Total(free, shut)
    <3>1. \A x \in rest \cup shut : free[x] \in Int
      BY <2>1
    <3> HIDE DEF rest, shut
    <3> QED
      BY <1>2, <2>1, <3>1, SumUnion
  <2>3. Total(free, rest) = Total(kept, rest)
    <3>1. \A x \in rest : free[x] = kept[x]
      OBVIOUS
    <3> HIDE DEF rest, shut, kept
    <3> QED
      BY <2>1, <3>1, SumSame
  <2>4. Total(kept, rest) = Sum(kept) /\ Sum(kept) \in Int
    <3>1. kept \in [Owners -> Int] /\ rest \in SUBSET Owners /\ \A o \in Owners \ rest : kept[o] = 0
      BY <1>5
    <3> HIDE DEF rest, kept
    <3> QED
      BY <3>1, AllOwners DEF Hours, Total
  <2>5. Sum(free) = Total(free, rest) + Total(free, shut)
    BY <2>1, <2>2, Zenon DEF Sum
  <2> HIDE DEF rest, shut, kept
  <2> QED
    BY <2>3, <2>4, <2>5
<1>9. Total(free, shut) = Total(free, left) + Total(free, lost) /\ Total(free, left) \in Int
  <2>1. shut = left \cup lost /\ left \cap lost = {}
    OBVIOUS
  <2>2. \A x \in left \cup lost : free[x] \in Int
    BY <1>2
  <2> HIDE DEF shut, left, lost
  <2>3. Total(free, left \cup lost) = Total(free, left) + Total(free, lost)
    BY <1>2, <2>1, <2>2, SumUnion
  <2>4. Total(free, left) \in Int
    BY <1>2, <2>2, SumType
  <2> QED
    BY <2>1, <2>3, <2>4, Zenon
<1>10. Sum(free') + revoked' = Sum(free) + revoked
  <2>1. revoked' = revoked + Total(free, lost)
    BY <1>1
  <2> HIDE DEF shut, left, lost, kept, gained
  <2> QED
    BY <1>3, <1>6, <1>7, <1>8, <1>9, <2>1
<1>11. \A o \in Owners \ accounts : free'[o] = free[o]
  <2>1. \A o \in Owners \ accounts : o \notin shut /\ o \notin heirs
    OBVIOUS
  <2> HIDE DEF shut, heirs, backTo
  <2> QED
    BY <1>1, <2>1
<1> QED
  BY <1>4, <1>10, <1>11

(* What a step has to keep of each sum.                                    *)
LEMMA BalanceKept ==
    ASSUME IInv, TypeOK', Backed',
           granted' + compensated' + Sum(free) + Sum(reserved) + Sum(spent) + revoked =
               granted + compensated + Sum(free)' + Sum(reserved)' + Sum(spent)' + revoked'
    PROVE  Conservation'
<1>1. /\ {free, reserved, spent} \subseteq [Owners -> Int] /\ accounts \in SUBSET Owners
      /\ {granted, compensated, revoked} \subseteq Int
      /\ \A o \in Owners \ accounts : free[o] = 0 /\ reserved[o] = 0 /\ spent[o] = 0
  BY DEF IInv, HoursAddUp, TypeOK, Backed
<1>2. /\ Hours(free, accounts) = Sum(free) /\ Hours(reserved, accounts) = Sum(reserved)
      /\ Hours(spent, accounts) = Sum(spent)
      /\ Sum(free) \in Int /\ Sum(reserved) \in Int /\ Sum(spent) \in Int
  BY <1>1, AllOwners
<1>3. /\ {free', reserved', spent'} \subseteq [Owners -> Int] /\ accounts' \in SUBSET Owners
      /\ {granted', compensated', revoked'} \subseteq Int
      /\ \A o \in Owners \ accounts' : free'[o] = 0 /\ reserved'[o] = 0 /\ spent'[o] = 0
  BY DEF TypeOK, Backed
<1>4. /\ Hours(free', accounts') = Sum(free') /\ Hours(reserved', accounts') = Sum(reserved')
      /\ Hours(spent', accounts') = Sum(spent')
      /\ Sum(free') \in Int /\ Sum(reserved') \in Int /\ Sum(spent') \in Int
  BY <1>3, AllOwners
<1>5. granted + compensated = Sum(free) + Sum(reserved) + Sum(spent) + revoked
  BY <1>2 DEF IInv, HoursAddUp, Conservation
<1>6. granted' + compensated' = Sum(free') + Sum(reserved') + Sum(spent') + revoked'
  BY <1>1, <1>2, <1>3, <1>4, <1>5
<1> QED
  BY <1>4, <1>6 DEF Conservation

LEMMA ReservationsKept ==
    ASSUME ReservedIsOpen, UNCHANGED <<reserved, spent, trainingVars>>
    PROVE  ReservedIsOpen'
BY DEF ReservedIsOpen, trainingVars

(* The hours of the requests of a kind, in the posted ones or in others.   *)
AskedFor == [r \in Requests |-> IF asked[r] = None THEN 0 ELSE asked[r].hours]
Posted(kind) == {r \in posted : asked[r].kind = kind}

LEMMA ChangeHours ==
    ASSUME NEW q \in Changes
    PROVE  q.hours \in Nat \ {0} /\ q # None
BY LedgerAssumption DEF Changes, Change

LEMMA RequestsKept ==
    ASSUME IInv, TypeOK', UNCHANGED <<posted, granted, compensated>>,
           \A r \in posted : /\ asked'[r] # None
                             /\ asked'[r].kind = asked[r].kind /\ asked'[r].hours = asked[r].hours
    PROVE  RequestOnce'
<1>1. ASSUME NEW kind PROVE Total(AskedFor, Posted(kind))' = Total(AskedFor, Posted(kind))
  <2>1. Posted(kind)' = Posted(kind) /\ IsFiniteSet(Posted(kind))
    <3>1. Posted(kind) \in SUBSET Requests
      BY DEF Posted, IInv, HoursAddUp, TypeOK
    <3> QED
      BY <3>1, LedgerAssumption, FS_Subset DEF Posted
  <2>2. \A r \in Posted(kind) : AskedFor'[r] = AskedFor[r]
    BY DEF Posted, AskedFor, IInv, HoursAddUp, TypeOK, Backed
  <2>3. Total(AskedFor', Posted(kind)) = Total(AskedFor, Posted(kind))
    BY <2>1, <2>2, SumSame
  <2> QED
    BY <2>1, <2>3, Zenon
<1>2. granted = Total(AskedFor, Posted("grant")) /\ compensated = Total(AskedFor, Posted("compensate"))
  BY DEF IInv, HoursAddUp, RequestOnce, Hours, Total, AskedFor, Posted
<1>3. /\ granted' = Total(AskedFor, Posted("grant"))'
      /\ compensated' = Total(AskedFor, Posted("compensate"))'
  BY <1>1, <1>2
<1> QED
  BY <1>3 DEF RequestOnce, Hours, Total, AskedFor, Posted

(* A request that posts now counts its hours once.                         *)
LEMMA RequestPosts ==
    ASSUME IInv, NEW r \in pending \ posted, Posts(r), UNCHANGED asked,
           granted' = granted + (IF asked[r].kind = "grant" THEN asked[r].hours ELSE 0),
           compensated' = compensated + (IF asked[r].kind = "compensate" THEN asked[r].hours ELSE 0)
    PROVE  RequestOnce'
<1>1. r \in Requests /\ asked[r] \in Changes /\ posted \in SUBSET Requests
  BY DEF IInv, HoursAddUp, TypeOK, Backed
<1>2. \A x \in Requests : AskedFor[x] \in Int
  BY ChangeHours DEF IInv, HoursAddUp, TypeOK, AskedFor
<1>3. AskedFor[r] = asked[r].hours /\ AskedFor' = AskedFor
  BY <1>1, ChangeHours DEF AskedFor
<1>4. ASSUME NEW kind
      PROVE  Total(AskedFor, Posted(kind))' =
             Total(AskedFor, Posted(kind)) + (IF asked[r].kind = kind THEN asked[r].hours ELSE 0)
  <2>1. Posted(kind)' = Posted(kind) \cup (IF asked[r].kind = kind THEN {r} ELSE {})
    BY DEF Posted, Posts
  <2>2. /\ IsFiniteSet(Posted(kind)) /\ r \notin Posted(kind)
        /\ \A y \in Posted(kind) \cup {r} : AskedFor[y] \in Int
    <3>1. Posted(kind) \in SUBSET Requests /\ r \notin Posted(kind)
      BY <1>1 DEF Posted
    <3> QED
      BY <1>1, <1>2, <3>1, LedgerAssumption, FS_Subset
  <2>3. CASE asked[r].kind = kind
    <3>1. Total(AskedFor, Posted(kind) \cup {r}) = Total(AskedFor, Posted(kind)) + AskedFor[r]
      BY <2>2, SumAdd
    <3> QED
      BY <1>3, <2>1, <2>3, <3>1
  <2>4. CASE asked[r].kind # kind
    <3>1. Posted(kind)' = Posted(kind)
      BY <2>1, <2>4
    <3>2. Total(AskedFor, Posted(kind)) \in Int
      BY <2>2, SumType
    <3> QED
      BY <1>3, <2>4, <3>1, <3>2
  <2> QED
    BY <2>3, <2>4
<1>5. granted = Total(AskedFor, Posted("grant")) /\ compensated = Total(AskedFor, Posted("compensate"))
  BY DEF IInv, HoursAddUp, RequestOnce, Hours, Total, AskedFor, Posted
<1>6. /\ granted' = Total(AskedFor, Posted("grant"))'
      /\ compensated' = Total(AskedFor, Posted("compensate"))'
  BY <1>4, <1>5
<1> QED
  BY <1>6 DEF RequestOnce, Hours, Total, AskedFor, Posted

(* Calls that move no hours.                                               *)
LEMMA QuietCalls ==
    ASSUME IInv, Structure, TypeOK', accounts \subseteq accounts',
           UNCHANGED <<free, reserved, spent, trainingVars, totals, posted>>,
           \A r \in pending' \cup posted : asked'[r] # None,
           \A r \in posted : /\ asked'[r] # None
                             /\ asked'[r].kind = asked[r].kind /\ asked'[r].hours = asked[r].hours
    PROVE  IInv'
<1>1. Backed'
  BY DEF IInv, Backed, trainingVars
<1>2. Conservation'
  <2>1. UNCHANGED <<Sum(free), Sum(reserved), Sum(spent), granted, compensated, revoked>>
    BY DEF totals
  <2> QED
    BY <1>1, <2>1, BalanceKept
<1>3. ReservedIsOpen'
  BY ReservationsKept DEF IInv, HoursAddUp
<1>4. RequestOnce'
  BY RequestsKept DEF totals
<1> QED
  BY <1>1, <1>2, <1>3, <1>4 DEF IInv, HoursAddUp

LEMMA IssueAdds == ASSUME IInv, Structure, NEW r \in Requests, Issue(r) PROVE IInv'
<1>1. PICK q \in Changes : SameChange(q, asked[r]) /\ asked' = [asked EXCEPT ![r] = q]
  BY DEF Issue
<1>2. /\ UNCHANGED <<people, accountVars, trainingVars, totals, posted>>
      /\ pending' = pending \cup {r}
  BY DEF Issue
<1>3. TypeOK'
  BY <1>1, <1>2 DEF IInv, HoursAddUp, TypeOK, people, accountVars, trainingVars, totals
<1>4. asked[r] # None => q.kind = asked[r].kind /\ q.hours = asked[r].hours
  <2> SUFFICES ASSUME asked[r] # None PROVE q.kind = asked[r].kind /\ q.hours = asked[r].hours
    OBVIOUS
  <2>1. asked[r] \in Changes
    BY DEF IInv, HoursAddUp, TypeOK
  <2>2. asked[r] = [kind |-> asked[r].kind, teacher |-> asked[r].teacher, child |-> asked[r].child,
                    training |-> asked[r].training, hours |-> asked[r].hours]
    BY <2>1 DEF Changes, Change
  <2>3. CASE q = asked[r]
    BY <2>3
  <2>4. CASE q = [asked[r] EXCEPT !.teacher = q.teacher]
    BY <2>2, <2>4
  <2> QED
    BY <1>1, <2>3, <2>4 DEF SameChange
<1>5. \A x \in Requests : asked'[x] = IF x = r THEN q ELSE asked[x]
  BY <1>1 DEF IInv, HoursAddUp, TypeOK
<1>6. q # None /\ posted \subseteq Requests /\ pending \subseteq Requests
  BY ChangeHours DEF IInv, HoursAddUp, TypeOK
<1>7. \A x \in pending \cup posted : asked[x] # None
  BY DEF IInv, Backed
<1>8. \A x \in pending' \cup posted : asked'[x] # None
  BY <1>2, <1>5, <1>6, <1>7
<1>9. \A x \in posted : /\ asked'[x] # None
                        /\ asked'[x].kind = asked[x].kind /\ asked'[x].hours = asked[x].hours
  BY <1>4, <1>5, <1>6, <1>7
<1>10. accounts \subseteq accounts' /\ UNCHANGED <<free, reserved, spent>>
  BY <1>2 DEF accountVars
<1> QED
  BY <1>2, <1>3, <1>8, <1>9, <1>10, QuietCalls

LEMMA RestKeeps ==
    ASSUME IInv, Structure, UNCHANGED <<free, reserved, spent, trainingVars, totals, asked, posted>>,
           TypeOK', accounts \subseteq accounts', pending' \subseteq pending
    PROVE  IInv'
<1>1. \A r \in pending \cup posted : asked[r] # None
  BY DEF IInv, Backed
<1>2. /\ \A r \in pending' \cup posted : asked'[r] # None
      /\ \A r \in posted : /\ asked'[r] # None
                           /\ asked'[r].kind = asked[r].kind /\ asked'[r].hours = asked[r].hours
  BY <1>1
<1> QED
  BY <1>2, QuietCalls

LEMMA LimitKeeps ==
    ASSUME IInv, Structure, Structure', NEW r \in Requests, SetMemberLimit(r)
    PROVE  IInv'
<1>1. asked[r] \in Changes /\ asked[r].kind = "limit"
  BY DEF SetMemberLimit, Structure, Shapes
<1>2. asked[r].hours \in Limits
  BY <1>1 DEF Changes, Change
<1>3. /\ UNCHANGED <<people, closed, free, reserved, spent, trainingVars, totals, asked, posted>>
      /\ pending' \subseteq pending /\ accounts \subseteq accounts'
      /\ \E h \in {None, asked[r].hours} : limit' = [limit EXCEPT ![asked[r].child] = h]
  BY DEF SetMemberLimit, ChildAccount
<1>4. limit' \in [Groups -> {None} \cup Limits]
  BY <1>2, <1>3 DEF IInv, HoursAddUp, TypeOK
<1>5. TypeOK'
  BY <1>3, <1>4
     DEF IInv, HoursAddUp, TypeOK, Structure, Shapes, people, trainingVars, totals
<1> QED
  BY <1>3, <1>5, RestKeeps

LEMMA GroupKeeps ==
    ASSUME IInv, Structure, NEW s \in Students,
           LeaveGroup(s) \/ \E g \in Groups : JoinGroup(s, g)
    PROVE  IInv'
<1>1. UNCHANGED <<alive, class, accountVars, trainingVars, requestVars, totals>>
  BY DEF LeaveGroup, JoinGroup
<1>2. group' \in [Students -> Groups \cup {None}]
  BY DEF LeaveGroup, JoinGroup, IInv, HoursAddUp, TypeOK
<1>3. TypeOK'
  BY <1>1, <1>2 DEF IInv, HoursAddUp, TypeOK, accountVars, trainingVars, requestVars, totals
<1> QED
  BY <1>1, <1>3, RestKeeps DEF accountVars, requestVars

LEMMA StutterKeeps ==
    ASSUME IInv, Structure, UNCHANGED vars \/ \E r \in Requests : Answer(r)
    PROVE  IInv'
<1>1. /\ UNCHANGED <<people, accountVars, trainingVars, totals, asked, posted>>
      /\ pending' \subseteq pending
  BY DEF vars, requestVars, Answer
<1>2. TypeOK'
  BY <1>1 DEF IInv, HoursAddUp, TypeOK, people, accountVars, trainingVars, totals
<1> QED
  BY <1>1, <1>2, RestKeeps DEF accountVars

LEMMA Numbers ==
    ASSUME TypeOK
    PROVE  {granted, compensated, revoked, Sum(free), Sum(reserved), Sum(spent)} \subseteq Int
<1>1. free \in [Owners -> Int] /\ reserved \in [Owners -> Int] /\ spent \in [Owners -> Int]
  BY DEF TypeOK
<1>2. Sum(free) \in Int /\ Sum(reserved) \in Int /\ Sum(spent) \in Int
  BY <1>1, AllOwners
<1> QED
  BY <1>2 DEF TypeOK

(* A grant, a revocation and the transfers.                                *)
LEMMA GrantAdds ==
    ASSUME IInv, Structure, Structure', NEW r \in Requests, AdminGrant(r)
    PROVE  IInv'
<1> DEFINE q == asked[r]
<1>1. q \in Changes /\ q.kind = "grant" /\ q.hours \in Nat \ {0} /\ r \in pending \ posted
  BY ChangeHours DEF AdminGrant, Asks, Structure, Shapes
<1>2. q.teacher \in Teachers /\ q.teacher \in Owners
  BY <1>1, ChangeNames DEF Owners
<1>3. /\ UNCHANGED <<people, closed, parent, reserved, spent, limit, trainingVars,
                     compensated, revoked, given, asked>>
      /\ accounts' = accounts \cup {q.teacher} /\ granted' = granted + q.hours /\ Posts(r)
      /\ free' = [free EXCEPT ![q.teacher] = @ + q.hours]
  BY DEF AdminGrant
<1>4. /\ free \in [Owners -> Nat] /\ free' \in [Owners -> Nat]
      /\ free'[q.teacher] = free[q.teacher] + q.hours
      /\ \A o \in Owners \ {q.teacher} : free'[o] = free[o]
  BY <1>1, <1>2, <1>3 DEF IInv, HoursAddUp, TypeOK
<1>5. granted' \in Nat /\ posted' \subseteq Requests /\ pending' \subseteq Requests
      /\ pending' \cup posted' \subseteq pending \cup posted
  BY <1>1, <1>3 DEF IInv, HoursAddUp, TypeOK, Posts
<1>6. TypeOK'
  BY <1>3, <1>4, <1>5 DEF IInv, HoursAddUp, TypeOK, Structure, Shapes, people, trainingVars
<1>7. Backed'
  BY <1>3, <1>4, <1>5 DEF IInv, Backed, trainingVars
<1>8. Conservation'
  <2>1. Sum(free') = Sum(free) + free'[q.teacher] - free[q.teacher] /\ Sum(free) \in Int
    BY <1>2, <1>4, SumOne
  <2>2. Sum(free)' = Sum(free) + q.hours
    BY <1>1, <1>2, <1>4, <2>1 DEF Sum
  <2>3. UNCHANGED <<Sum(reserved), Sum(spent), compensated, revoked>> /\ granted' = granted + q.hours
    BY <1>3
  <2>4. {granted, compensated, revoked, Sum(free), Sum(reserved), Sum(spent)} \subseteq Int
    BY Numbers DEF IInv, HoursAddUp
  <2> QED
    BY <1>1, <1>6, <1>7, <2>2, <2>3, <2>4, BalanceKept
<1>9. ReservedIsOpen'
  BY <1>3, ReservationsKept DEF IInv, HoursAddUp
<1>10. RequestOnce'
  <2>1. compensated' = compensated + 0 /\ granted' = granted + q.hours
    BY <1>3 DEF IInv, HoursAddUp, TypeOK
  <2> QED
    BY <1>1, <1>3, <2>1, RequestPosts
<1> QED
  BY <1>6, <1>7, <1>8, <1>9, <1>10 DEF IInv, HoursAddUp

LEMMA RevokeKeeps ==
    ASSUME IInv, Structure, NEW r \in Requests, AdminRevoke(r)
    PROVE  IInv'
<1> DEFINE q == asked[r]
<1>1. q \in Changes /\ q.kind = "revoke" /\ q.hours \in Nat \ {0} /\ r \in pending \ posted
  BY ChangeHours DEF AdminRevoke, Asks, Structure, Shapes
<1>2. q.teacher \in Teachers /\ q.teacher \in Owners
  BY <1>1, ChangeNames DEF Owners
<1>3. /\ UNCHANGED <<people, accounts, closed, parent, reserved, spent, limit, trainingVars,
                     granted, compensated, given, asked>>
      /\ revoked' = revoked + q.hours /\ Posts(r)
      /\ q.teacher \in accounts /\ free[q.teacher] >= q.hours
      /\ free' = [free EXCEPT ![q.teacher] = @ - q.hours]
  BY DEF AdminRevoke
<1>4. /\ free \in [Owners -> Nat] /\ free' \in [Owners -> Nat]
      /\ free'[q.teacher] = free[q.teacher] - q.hours
      /\ \A o \in Owners \ {q.teacher} : free'[o] = free[o]
  BY <1>1, <1>2, <1>3 DEF IInv, HoursAddUp, TypeOK
<1>5. revoked' \in Nat /\ posted' \subseteq Requests /\ pending' \subseteq Requests
      /\ pending' \cup posted' \subseteq pending \cup posted
  BY <1>1, <1>3 DEF IInv, HoursAddUp, TypeOK, Posts
<1>6. TypeOK'
  BY <1>3, <1>4, <1>5 DEF IInv, HoursAddUp, TypeOK, people, trainingVars
<1>7. Backed'
  BY <1>3, <1>4, <1>5 DEF IInv, Backed, trainingVars
<1>8. Conservation'
  <2>1. Sum(free') = Sum(free) + free'[q.teacher] - free[q.teacher] /\ Sum(free) \in Int
    BY <1>2, <1>4, SumOne
  <2>2. Sum(free)' = Sum(free) - q.hours
    BY <1>1, <1>2, <1>4, <2>1 DEF Sum
  <2>3. UNCHANGED <<Sum(reserved), Sum(spent), granted, compensated>> /\ revoked' = revoked + q.hours
    BY <1>3
  <2>4. {granted, compensated, revoked, Sum(free), Sum(reserved), Sum(spent)} \subseteq Int
    BY Numbers DEF IInv, HoursAddUp
  <2> QED
    BY <1>1, <1>6, <1>7, <2>2, <2>3, <2>4, BalanceKept
<1>9. ReservedIsOpen'
  BY <1>3, ReservationsKept DEF IInv, HoursAddUp
<1>10. RequestOnce'
  <2>1. compensated' = compensated + 0 /\ granted' = granted + 0
    BY <1>3 DEF IInv, HoursAddUp, TypeOK
  <2> QED
    BY <1>1, <1>3, <2>1, RequestPosts
<1> QED
  BY <1>6, <1>7, <1>8, <1>9, <1>10 DEF IInv, HoursAddUp

LEMMA TransferKeeps ==
    ASSUME IInv, Structure, Structure', NEW r \in Requests, Assign(r) \/ Reclaim(r)
    PROVE  IInv'
<1> DEFINE q == asked[r]
<1>1. q \in Changes /\ q.kind \in {"assign", "reclaim"} /\ q.hours \in Nat \ {0}
      /\ r \in pending \ posted
  BY ChangeHours DEF Assign, Reclaim, Asks, Structure, Shapes
<1>2. /\ q.teacher \in Teachers /\ q.teacher \in Owners
      /\ q.child \in Child /\ q.child \in Owners /\ q.teacher # q.child
  BY <1>1, ChangeNames, LedgerAssumption DEF Owners
<1>3. PICK from \in {q.teacher, q.child}, to \in {q.teacher, q.child} :
        /\ from # to /\ from \in accounts /\ free[from] >= q.hours
        /\ free' = [free EXCEPT ![from] = @ - q.hours, ![to] = @ + q.hours]
        /\ to \in accounts'
  BY <1>2 DEF Assign, Reclaim, Reclaimable, Usable, ChildAccount
<1>4. /\ UNCHANGED <<people, closed, reserved, spent, limit, trainingVars, totals, asked>>
      /\ Posts(r) /\ accounts \subseteq accounts'
  BY DEF Assign, Reclaim, ChildAccount
<1>5. /\ free \in [Owners -> Nat] /\ free' \in [Owners -> Nat]
      /\ free'[from] = free[from] - q.hours /\ free'[to] = free[to] + q.hours
      /\ \A o \in Owners \ {from, to} : free'[o] = free[o]
  BY <1>1, <1>2, <1>3 DEF IInv, HoursAddUp, TypeOK
<1>6. posted' \subseteq Requests /\ pending' \subseteq Requests
      /\ pending' \cup posted' \subseteq pending \cup posted
  BY <1>1, <1>4 DEF IInv, HoursAddUp, TypeOK, Posts
<1>7. TypeOK'
  BY <1>4, <1>5, <1>6
     DEF IInv, HoursAddUp, TypeOK, Structure, Shapes, people, trainingVars, totals
<1>8. Backed'
  BY <1>3, <1>4, <1>5, <1>6 DEF IInv, Backed, trainingVars
<1>9. Conservation'
  <2>1. /\ Sum(free') = Sum(free) + (free'[from] - free[from]) + (free'[to] - free[to])
        /\ Sum(free) \in Int
    <3>1. from \in Owners /\ to \in Owners /\ from # to
      BY <1>2, <1>3
    <3>2. free \in [Owners -> Int] /\ free' \in [Owners -> Int]
      BY <1>5
    <3> QED
      BY <1>5, <3>1, <3>2, SumTwo
  <2>2. Sum(free)' = Sum(free)
    BY <1>1, <1>2, <1>5, <2>1 DEF Sum
  <2>3. UNCHANGED <<Sum(reserved), Sum(spent), granted, compensated, revoked>>
    BY <1>4 DEF totals
  <2> QED
    BY <1>7, <1>8, <2>2, <2>3, BalanceKept
<1>10. ReservedIsOpen'
  BY <1>4, ReservationsKept DEF IInv, HoursAddUp
<1>11. RequestOnce'
  <2>1. compensated' = compensated + 0 /\ granted' = granted + 0
    BY <1>4 DEF IInv, HoursAddUp, TypeOK, totals
  <2> QED
    BY <1>1, <1>4, <2>1, RequestPosts
<1> QED
  BY <1>7, <1>8, <1>9, <1>10, <1>11 DEF IInv, HoursAddUp

LEMMA CompensateAdds ==
    ASSUME IInv, Structure, Structure', NEW r \in Requests, Compensate(r)
    PROVE  IInv'
<1> DEFINE q == asked[r]
<1>1. q \in Changes /\ q.kind = "compensate" /\ q.hours \in Nat \ {0} /\ r \in pending \ posted
  BY ChangeHours DEF Compensate, Asks, Structure, Shapes
<1>2. q.child \in Child /\ q.child \in Owners
  BY <1>1, ChangeNames DEF Owners
<1>3. /\ UNCHANGED <<people, closed, reserved, spent, limit, trainingVars, granted, revoked, asked>>
      /\ Posts(r) /\ accounts \subseteq accounts' /\ q.child \in accounts'
      /\ free' = [free EXCEPT ![q.child] = @ + q.hours]
      /\ compensated' = compensated + q.hours
  BY DEF Compensate, ChildAccount
<1>4. /\ free \in [Owners -> Nat] /\ free' \in [Owners -> Nat]
      /\ free'[q.child] = free[q.child] + q.hours
      /\ \A o \in Owners \ {q.child} : free'[o] = free[o]
  BY <1>1, <1>2, <1>3 DEF IInv, HoursAddUp, TypeOK
<1>5. given' \in [Students \X Groups -> Nat]
  <2>1. given \in [Students \X Groups -> Nat]
    BY DEF IInv, HoursAddUp, TypeOK
  <2>2. \/ given' = given
        \/ given' = [given EXCEPT ![<<tMember[q.training], q.child>>] = @ + q.hours]
    BY DEF Compensate
  <2> QED
    BY <1>1, <2>1, <2>2
<1>6. compensated' \in Nat /\ posted' \subseteq Requests /\ pending' \subseteq Requests
      /\ pending' \cup posted' \subseteq pending \cup posted
  BY <1>1, <1>3 DEF IInv, HoursAddUp, TypeOK, Posts
<1>7. TypeOK'
  BY <1>3, <1>4, <1>5, <1>6
     DEF IInv, HoursAddUp, TypeOK, Structure, Shapes, people, trainingVars
<1>8. Backed'
  BY <1>3, <1>4, <1>6 DEF IInv, Backed, trainingVars
<1>9. Conservation'
  <2>1. Sum(free') = Sum(free) + free'[q.child] - free[q.child] /\ Sum(free) \in Int
    BY <1>2, <1>4, SumOne
  <2>2. Sum(free)' = Sum(free) + q.hours
    BY <1>1, <1>2, <1>4, <2>1 DEF Sum
  <2>3. UNCHANGED <<Sum(reserved), Sum(spent), granted, revoked>>
        /\ compensated' = compensated + q.hours
    BY <1>3
  <2>4. {granted, compensated, revoked, Sum(free), Sum(reserved), Sum(spent)} \subseteq Int
    BY Numbers DEF IInv, HoursAddUp
  <2> QED
    BY <1>1, <1>7, <1>8, <2>2, <2>3, <2>4, BalanceKept
<1>10. ReservedIsOpen'
  BY <1>3, ReservationsKept DEF IInv, HoursAddUp
<1>11. RequestOnce'
  <2>1. compensated' = compensated + q.hours /\ granted' = granted + 0
    BY <1>3 DEF IInv, HoursAddUp, TypeOK
  <2> QED
    BY <1>1, <1>3, <2>1, RequestPosts
<1> QED
  BY <1>7, <1>8, <1>9, <1>10, <1>11 DEF IInv, HoursAddUp

(* Closes and moves.                                                       *)
LEMMA CloseKeeps ==
    ASSUME IInv, NEW gone, CloseAccounts(gone), TypeOK',
           UNCHANGED <<accounts, reserved, spent, trainingVars, requestVars,
                       granted, compensated, given>>
    PROVE  IInv'
<1>1. free \in [Owners -> Nat] /\ revoked \in Nat /\ accounts \subseteq Owners
  BY DEF IInv, HoursAddUp, TypeOK
<1>2. /\ Sum(free') + revoked' = Sum(free) + revoked
      /\ \A o \in Owners \ accounts : free'[o] = free[o]
  BY <1>1, SumClose
<1>3. Backed'
  BY <1>2 DEF IInv, Backed, trainingVars, requestVars
<1>4. Conservation'
  <2>1. Sum(free)' + revoked' = Sum(free) + revoked
    BY <1>2 DEF Sum
  <2>2. UNCHANGED <<Sum(reserved), Sum(spent), granted, compensated>>
    OBVIOUS
  <2>3. {granted, compensated, revoked, Sum(free), Sum(reserved), Sum(spent)} \subseteq Int
        /\ {granted, compensated, revoked, Sum(free), Sum(reserved), Sum(spent)}' \subseteq Int
    <3>1. /\ free' \in [Owners -> Int] /\ reserved' \in [Owners -> Int] /\ spent' \in [Owners -> Int]
          /\ {granted, compensated, revoked}' \subseteq Int
      BY DEF TypeOK
    <3>2. {Sum(free'), Sum(reserved'), Sum(spent')} \subseteq Int
      BY <3>1, AllOwners
    <3> QED
      BY <3>1, <3>2, Numbers DEF IInv, HoursAddUp, Sum
  <2> QED
    BY <1>3, <2>1, <2>2, <2>3, BalanceKept
<1>5. ReservedIsOpen'
  BY ReservationsKept DEF IInv, HoursAddUp
<1>6. RequestOnce'
  BY RequestsKept DEF IInv, Backed, requestVars
<1> QED
  BY <1>3, <1>4, <1>5, <1>6 DEF IInv, HoursAddUp

LEMMA DeletionsKeep ==
    ASSUME IInv, Structure, Structure',
           \/ \E s \in Students : DeleteStudent(s)
           \/ \E g \in Groups : DeleteGroup(g)
           \/ \E t \in Teachers : DeleteTeacher(t)
    PROVE  IInv'
<1>1. PICK gone : CloseAccounts(gone)
  BY DEF DeleteStudent, DeleteGroup, DeleteTeacher
<1>2. UNCHANGED <<accounts, parent, reserved, spent, limit, trainingVars, requestVars,
                  granted, compensated, given>>
  BY DEF DeleteStudent, DeleteGroup, DeleteTeacher
<1>3. /\ alive' \subseteq alive
      /\ group' \in [Students -> Groups \cup {None}]
  BY DEF DeleteStudent, DeleteGroup, DeleteTeacher, IInv, HoursAddUp, TypeOK
<1>4. closed' \subseteq accounts
  BY <1>1 DEF CloseAccounts, IInv, HoursAddUp, TypeOK
<1>5. free' \in [Owners -> Nat] /\ revoked' \in Nat
  BY <1>1, SumClose DEF IInv, HoursAddUp, TypeOK
<1>6. TypeOK'
  BY <1>2, <1>3, <1>4, <1>5
     DEF IInv, HoursAddUp, TypeOK, Structure, Shapes, trainingVars, requestVars
<1> QED
  BY <1>1, <1>2, <1>6, CloseKeeps

LEMMA MoveKeeps ==
    ASSUME IInv, Structure, Structure', NEW c \in Child, NEW t \in Teachers \cup {None}, Move(c, t)
    PROVE  IInv'
<1>1. /\ UNCHANGED <<alive, group, closed, reserved, spent, limit, trainingVars, requestVars,
                     granted, compensated, given>>
      /\ accounts \subseteq accounts'
  BY DEF Move
<1>2. CASE UNCHANGED <<free, revoked>>
  <2>1. TypeOK'
    BY <1>1, <1>2
       DEF IInv, HoursAddUp, TypeOK, Structure, Shapes, trainingVars, requestVars
  <2> QED
    BY <1>1, <1>2, <2>1, RestKeeps DEF totals, requestVars
<1>3. CASE Usable(c) /\ ReturnFree(free, c, free[c])
  <2>1. /\ free \in [Owners -> Int] /\ c \in Owners /\ free[c] \in Nat /\ revoked \in Nat
        /\ free \in [Owners -> Nat] /\ c \in accounts
    BY <1>3 DEF IInv, HoursAddUp, TypeOK, Owners, Usable
  <2>2. /\ free' \in [Owners -> Int] /\ Sum(free') \in Int
        /\ Sum(free') + revoked' = Sum(free) + revoked
        /\ free'[c] = free[c] - free[c]
        /\ revoked' \in {revoked, revoked + free[c]}
        /\ \A o \in Owners \ {c} : \/ free'[o] = free[o]
                                   \/ o \in accounts /\ free'[o] = free[o] + free[c]
    BY <1>3, <2>1, SumReturn
  <2>3. \A o \in Owners : free'[o] \in Nat
    BY <2>1, <2>2
  <2>4. free' \in [Owners -> Nat] /\ revoked' \in Nat
    BY <2>1, <2>2, <2>3
  <2>5. TypeOK'
    BY <1>1, <2>4
       DEF IInv, HoursAddUp, TypeOK, Structure, Shapes, trainingVars, requestVars
  <2>6. Backed'
    BY <1>1, <2>1, <2>2 DEF IInv, Backed, trainingVars, requestVars
  <2>7. Conservation'
    <3>1. Sum(free)' + revoked' = Sum(free) + revoked /\ Sum(free)' \in Int
      BY <2>2 DEF Sum
    <3>2. UNCHANGED <<Sum(reserved), Sum(spent), granted, compensated>>
      BY <1>1
    <3>3. {granted, compensated, revoked, Sum(free), Sum(reserved), Sum(spent)} \subseteq Int
      BY Numbers DEF IInv, HoursAddUp
    <3> QED
      BY <2>4, <2>5, <2>6, <3>1, <3>2, <3>3, BalanceKept
  <2>8. ReservedIsOpen'
    BY <1>1, ReservationsKept DEF IInv, HoursAddUp
  <2>9. RequestOnce'
    BY <1>1, <2>5, RequestsKept DEF IInv, Backed, requestVars
  <2> QED
    BY <2>5, <2>6, <2>7, <2>8, <2>9 DEF IInv, HoursAddUp
<1> QED
  BY <1>2, <1>3 DEF Move

(* The trainings an account has reserved hours for, and those it paid.     *)
Of(o, state) == {t \in Trainings : tAccount[t] = o /\ tState[t] = state}

LEMMA StartReserves ==
    ASSUME IInv, Structure, NEW t \in Trainings, NEW s \in Students, StartTraining(t, s)
    PROVE  IInv'
<1> DEFINE a == Payer(s)
<1>1. PICK n \in 1..MaxHours :
        /\ Usable(a) /\ n <= free[a]
        /\ free' = [free EXCEPT ![a] = @ - n]
        /\ reserved' = [reserved EXCEPT ![a] = @ + n]
        /\ tHours' = [tHours EXCEPT ![t] = n]
  BY DEF StartTraining, Startable
<1>2. /\ tState[t] = "none"
      /\ tState' = [tState EXCEPT ![t] = "open"]
      /\ tAccount' = [tAccount EXCEPT ![t] = a]
      /\ tMember' = [tMember EXCEPT ![t] = s]
      /\ UNCHANGED <<people, accounts, closed, parent, spent, limit, tCharge, requestVars, totals>>
  BY DEF StartTraining
<1>3. n \in Nat \ {0} /\ n \in 0..MaxHours
  BY LedgerAssumption
<1>4. a \in accounts /\ a \in Child /\ a \in Owners
  <2>1. a \in Child
    <3>1. group[s] # None => group[s] \in Groups
      BY DEF IInv, HoursAddUp, TypeOK
    <3> QED
      BY <3>1 DEF Payer, Child
  <2> QED
    BY <1>1, <2>1 DEF Usable, Owners
<1>5. /\ free \in [Owners -> Nat] /\ free' \in [Owners -> Nat]
      /\ free'[a] = free[a] - n /\ \A o \in Owners \ {a} : free'[o] = free[o]
      /\ reserved \in [Owners -> Nat] /\ reserved' \in [Owners -> Nat]
      /\ reserved'[a] = reserved[a] + n /\ \A o \in Owners \ {a} : reserved'[o] = reserved[o]
  <2> HIDE DEF a
  <2> QED
    BY <1>1, <1>3, <1>4 DEF IInv, HoursAddUp, TypeOK
<1>6. /\ tState' \in [Trainings -> {"none", "open", "settled"}]
      /\ tHours' \in [Trainings -> 0..MaxHours]
      /\ tAccount' \in [Trainings -> Child \cup {None}]
      /\ tMember' \in [Trainings -> Students \cup {None}]
  <2> HIDE DEF a
  <2> QED
    BY <1>1, <1>2, <1>3, <1>4 DEF IInv, HoursAddUp, TypeOK
<1>7. TypeOK'
  <2> HIDE DEF a
  <2> QED
    BY <1>2, <1>5, <1>6 DEF IInv, HoursAddUp, TypeOK, people, requestVars, totals
<1>8. Backed'
  <2>1. ASSUME NEW u \in Trainings, tState'[u] # "none"
        PROVE  /\ tAccount'[u] \in accounts' /\ tMember'[u] \in Students
               /\ tState'[u] = "settled" => tCharge'[u] \in 0..tHours'[u]
    <3> HIDE DEF a
    <3>1. CASE u = t
      BY <1>2, <1>4, <3>1 DEF IInv, HoursAddUp, TypeOK
    <3>2. CASE u # t
      <4>1. /\ tState'[u] = tState[u] /\ tAccount'[u] = tAccount[u] /\ tMember'[u] = tMember[u]
            /\ tHours'[u] = tHours[u] /\ tCharge'[u] = tCharge[u] /\ accounts' = accounts
        BY <1>1, <1>2, <3>2 DEF IInv, HoursAddUp, TypeOK
      <4> QED
        BY <2>1, <4>1 DEF IInv, Backed
    <3> QED
      BY <3>1, <3>2
  <2>2. \A o \in Owners \ accounts' : free'[o] = 0 /\ reserved'[o] = 0 /\ spent'[o] = 0
    <3> HIDE DEF a
    <3> QED
      BY <1>2, <1>4, <1>5 DEF IInv, Backed
  <2>3. \A r \in pending' \cup posted' : asked'[r] # None
    BY <1>2 DEF IInv, Backed, requestVars
  <2> QED
    BY <2>1, <2>2, <2>3 DEF Backed
<1>9. Conservation'
  <2> HIDE DEF a
  <2>1. /\ Sum(free') = Sum(free) + free'[a] - free[a]
        /\ Sum(reserved') = Sum(reserved) + reserved'[a] - reserved[a]
    <3>1. Sum(free') = Sum(free) + free'[a] - free[a]
      BY <1>4, <1>5, SumOne
    <3>2. Sum(reserved') = Sum(reserved) + reserved'[a] - reserved[a]
      <4>1. /\ reserved \in [Owners -> Int] /\ reserved' \in [Owners -> Int]
            /\ \A o \in Owners \ {a} : reserved'[o] = reserved[o]
        BY <1>5
      <4> QED
        BY <1>4, <4>1, SumOne
    <3> QED
      BY <3>1, <3>2
  <2>2. free[a] \in Nat /\ reserved[a] \in Nat
    BY <1>4, <1>5
  <2>3. {granted, compensated, revoked, Sum(free), Sum(reserved), Sum(spent)} \subseteq Int
    BY Numbers DEF IInv, HoursAddUp
  <2>4. Sum(free)' = Sum(free) - n /\ Sum(reserved)' = Sum(reserved) + n
    BY <1>3, <1>5, <2>1, <2>2, <2>3 DEF Sum
  <2>5. UNCHANGED <<Sum(spent), granted, compensated, revoked>>
    BY <1>2 DEF totals
  <2> QED
    BY <1>3, <1>7, <1>8, <2>3, <2>4, <2>5, BalanceKept
<1>10. ReservedIsOpen'
  <2> HIDE DEF a
  <2>1. ASSUME NEW o \in Owners
        PROVE  reserved'[o] = Total(tHours', Of(o, "open")') /\ spent'[o] = Total(tCharge', Of(o, "settled")')
    <3>1. reserved[o] = Total(tHours, Of(o, "open")) /\ spent[o] = Total(tCharge, Of(o, "settled"))
      BY DEF IInv, HoursAddUp, ReservedIsOpen, Hours, Total, Of
    <3>2. Of(o, "settled")' = Of(o, "settled") /\ t \notin Of(o, "open")
      BY <1>2 DEF Of, IInv, HoursAddUp, TypeOK
    <3>3. Of(o, "open")' = IF o = a THEN Of(o, "open") \cup {t} ELSE Of(o, "open")
      BY <1>2 DEF Of, IInv, HoursAddUp, TypeOK
    <3>4. IsFiniteSet(Of(o, "open")) /\ \A u \in Of(o, "open") \cup {t} : tHours'[u] \in Int
      <4>1. Of(o, "open") \in SUBSET Trainings
        BY DEF Of
      <4> QED
        BY <1>6, <4>1, LedgerAssumption, FS_Subset
    <3>5. Total(tHours', Of(o, "open")) = Total(tHours, Of(o, "open"))
      <4>1. \A u \in Of(o, "open") : tHours'[u] = tHours[u]
        BY <1>1, <3>2 DEF Of, IInv, HoursAddUp, TypeOK
      <4> QED
        BY <3>4, <4>1, SumSame
    <3>6. Total(tHours', Of(o, "open") \cup {t}) = Total(tHours', Of(o, "open")) + tHours'[t]
      BY <3>2, <3>4, SumAdd
    <3>7. tHours'[t] = n
      BY <1>1 DEF IInv, HoursAddUp, TypeOK
    <3>8. reserved'[o] = Total(tHours', Of(o, "open")')
      <4>1. CASE o = a
        BY <1>5, <3>1, <3>3, <3>5, <3>6, <3>7, <4>1
      <4>2. CASE o # a
        BY <1>5, <3>1, <3>3, <3>5, <4>2
      <4> QED
        BY <4>1, <4>2
    <3>9. spent'[o] = Total(tCharge', Of(o, "settled")')
      BY <1>2, <3>1, <3>2
    <3> QED
      BY <3>8, <3>9
  <2> QED
    BY <2>1 DEF ReservedIsOpen, Hours, Total, Of
<1>11. RequestOnce'
  BY <1>2, <1>7, RequestsKept DEF IInv, Backed, requestVars, totals
<1> QED
  BY <1>7, <1>8, <1>9, <1>10, <1>11 DEF IInv, HoursAddUp

LEMMA SettleReturns ==
    ASSUME IInv, Structure, NEW t \in Trainings, SettleTraining(t)
    PROVE  IInv'
<1> DEFINE a == tAccount[t]
<1> DEFINE h == tHours[t]
<1>1. PICK c \in 0..h :
        /\ tCharge' = [tCharge EXCEPT ![t] = c]
        /\ reserved' = [reserved EXCEPT ![a] = @ - h]
        /\ spent' = [spent EXCEPT ![a] = @ + c]
        /\ LET rest == h - c
               released == [free EXCEPT ![a] = @ + rest]
           IN  IF PassedOn(a) THEN ReturnFree(released, a, rest)
                              ELSE free' = released /\ UNCHANGED revoked
  BY DEF SettleTraining, SettledFrom
<1>2. /\ tState[t] = "open"
      /\ tState' = [tState EXCEPT ![t] = "settled"]
      /\ UNCHANGED <<people, accounts, closed, parent, limit, tHours, tAccount, tMember,
                     requestVars, granted, compensated, given>>
  BY DEF SettleTraining, Settleable
<1>3. /\ h \in 0..MaxHours /\ h \in Nat /\ c \in Nat /\ h - c \in Nat /\ c <= h
      /\ c \in -1..MaxHours
  <2>1. h \in 0..MaxHours
    BY DEF IInv, HoursAddUp, TypeOK
  <2> HIDE DEF h
  <2> QED
    BY <2>1, LedgerAssumption
<1>4. a \in accounts /\ a \in Child /\ a \in Owners
  BY <1>2, LedgerAssumption DEF IInv, HoursAddUp, TypeOK, Backed, Owners
<1> DEFINE released == [free EXCEPT ![a] = @ + (h - c)]
<1>5. \A u \in Of(a, "open") : tHours[u] \in Nat
  BY DEF Of, IInv, HoursAddUp, TypeOK
<1>6. /\ \A o : IsFiniteSet(Of(o, "open")) /\ IsFiniteSet(Of(o, "settled"))
      /\ \A o : Of(o, "open") \subseteq Trainings /\ Of(o, "settled") \subseteq Trainings
  <2>1. \A o : Of(o, "open") \in SUBSET Trainings /\ Of(o, "settled") \in SUBSET Trainings
    BY DEF Of
  <2> QED
    BY <2>1, LedgerAssumption, FS_Subset
<1>7. t \in Of(a, "open") /\ \A o : t \notin Of(o, "settled")
  BY <1>2 DEF Of
<1>8. \A o \in Owners : /\ reserved[o] = Total(tHours, Of(o, "open"))
                        /\ spent[o] = Total(tCharge, Of(o, "settled"))
  BY DEF IInv, HoursAddUp, ReservedIsOpen, Hours, Total, Of
<1>9. reserved[a] = h + Total(tHours, Of(a, "open") \ {t}) /\ Total(tHours, Of(a, "open") \ {t}) \in Nat
  <2>1. IsFiniteSet(Of(a, "open") \ {t})
    BY <1>6, FS_Subset
  <2>2. Total(tHours, Of(a, "open")) = tHours[t] + Total(tHours, Of(a, "open") \ {t})
    <3>1. \A u \in Of(a, "open") : tHours[u] \in Int
      BY <1>5
    <3> HIDE DEF a
    <3> QED
      BY <1>6, <1>7, <3>1, SumRemove
  <2>3. Total(tHours, Of(a, "open") \ {t}) \in Nat
    <3>1. \A u \in Of(a, "open") \ {t} : tHours[u] \in Nat
      BY <1>5
    <3> HIDE DEF a
    <3> QED
      BY <2>1, <3>1, SumNat
  <2> QED
    BY <1>4, <1>8, <2>2, <2>3
<1>10. /\ reserved \in [Owners -> Nat] /\ reserved' \in [Owners -> Nat]
       /\ reserved'[a] = reserved[a] - h /\ \A o \in Owners \ {a} : reserved'[o] = reserved[o]
       /\ spent \in [Owners -> Nat] /\ spent' \in [Owners -> Nat]
       /\ spent'[a] = spent[a] + c /\ \A o \in Owners \ {a} : spent'[o] = spent[o]
  <2>1. reserved \in [Owners -> Nat] /\ spent \in [Owners -> Nat]
    BY DEF IInv, HoursAddUp, TypeOK
  <2>2. reserved[a] - h \in Nat
    <3> HIDE DEF a, h
    <3> QED
      BY <1>3, <1>9
  <2> HIDE DEF a, h
  <2> QED
    BY <1>1, <1>3, <1>4, <2>1, <2>2
<1>11. /\ free \in [Owners -> Nat] /\ released \in [Owners -> Nat]
       /\ released[a] = free[a] + (h - c)
       /\ \A o \in Owners \ {a} : released[o] = free[o]
  <2>1. free \in [Owners -> Nat]
    BY DEF IInv, HoursAddUp, TypeOK
  <2> HIDE DEF a, h
  <2> QED
    BY <1>3, <1>4, <2>1
<1>12. Sum(released) = Sum(free) + (h - c) /\ Sum(free) \in Int
  <2>1. Sum(released) = Sum(free) + released[a] - free[a] /\ Sum(free) \in Int
    <3> HIDE DEF a, h, released
    <3> QED
      BY <1>4, <1>11, SumOne
  <2>2. free[a] \in Nat
    BY <1>4, <1>11
  <2> HIDE DEF a, h, released
  <2> QED
    BY <1>3, <1>11, <2>1, <2>2
<1>13. /\ free' \in [Owners -> Nat] /\ revoked' \in Nat /\ revoked \in Nat
       /\ Sum(free') + revoked' = Sum(released) + revoked
       /\ Sum(free') \in Int
       /\ \A o \in Owners \ accounts : free'[o] = free[o]
  <2>1. revoked \in Nat
    BY DEF IInv, HoursAddUp, TypeOK
  <2>2. CASE PassedOn(a)
    <3>1. ReturnFree(released, a, h - c)
      BY <1>1, <2>2
    <3>2. released \in [Owners -> Int] /\ h - c \in Int
      BY <1>3, <1>11
    <3> HIDE DEF a, h, released
    <3>3. /\ free' \in [Owners -> Int] /\ Sum(free') \in Int
          /\ Sum(free') + revoked' = Sum(released) + revoked
          /\ free'[a] = released[a] - (h - c)
          /\ revoked' \in {revoked, revoked + (h - c)}
          /\ \A o \in Owners \ {a} : \/ free'[o] = released[o]
                                     \/ o \in accounts /\ free'[o] = released[o] + (h - c)
      BY <1>4, <2>1, <3>1, <3>2, SumReturn
    <3>4. free'[a] = free[a]
      BY <1>3, <1>4, <1>11, <3>3
    <3>5. \A o \in Owners : free'[o] \in Nat
      BY <1>3, <1>4, <1>11, <3>3, <3>4
    <3>6. free' \in [Owners -> Nat] /\ revoked' \in Nat
      BY <1>3, <2>1, <3>3, <3>5
    <3> QED
      BY <1>4, <1>11, <2>1, <3>3, <3>6
  <2>3. CASE ~PassedOn(a)
    <3>1. free' = released /\ revoked' = revoked
      BY <1>1, <2>3
    <3> HIDE DEF a, h, released
    <3>2. Sum(free') = Sum(released) /\ Sum(free') \in Int
      BY <1>3, <1>12, <3>1
    <3> QED
      BY <1>4, <1>11, <2>1, <3>1, <3>2
  <2> QED
    BY <2>2, <2>3
<1>14. /\ tState' \in [Trainings -> {"none", "open", "settled"}]
       /\ tCharge' \in [Trainings -> -1..MaxHours]
  <2> HIDE DEF a, h
  <2> QED
    BY <1>1, <1>2, <1>3 DEF IInv, HoursAddUp, TypeOK
<1>15. TypeOK'
  <2> HIDE DEF a, h, released
  <2> QED
    BY <1>2, <1>10, <1>13, <1>14 DEF IInv, HoursAddUp, TypeOK, people, requestVars
<1>16. Backed'
  <2>1. ASSUME NEW u \in Trainings, tState'[u] # "none"
        PROVE  /\ tAccount'[u] \in accounts' /\ tMember'[u] \in Students
               /\ tState'[u] = "settled" => tCharge'[u] \in 0..tHours'[u]
    <3>1. CASE u = t
      BY <1>1, <1>2, <3>1 DEF IInv, HoursAddUp, TypeOK, Backed
    <3>2. CASE u # t
      <4>1. /\ tState'[u] = tState[u] /\ tAccount'[u] = tAccount[u] /\ tMember'[u] = tMember[u]
            /\ tHours'[u] = tHours[u] /\ tCharge'[u] = tCharge[u] /\ accounts' = accounts
        BY <1>1, <1>2, <3>2 DEF IInv, HoursAddUp, TypeOK
      <4> QED
        BY <2>1, <4>1 DEF IInv, Backed
    <3> QED
      BY <3>1, <3>2
  <2>2. \A o \in Owners \ accounts' : free'[o] = 0 /\ reserved'[o] = 0 /\ spent'[o] = 0
    <3> HIDE DEF a, h, released
    <3> QED
      BY <1>2, <1>4, <1>10, <1>13 DEF IInv, Backed
  <2>3. \A r \in pending' \cup posted' : asked'[r] # None
    BY <1>2 DEF IInv, Backed, requestVars
  <2> QED
    BY <2>1, <2>2, <2>3 DEF Backed
<1>17. Conservation'
  <2> HIDE DEF a, h, released
  <2>1. Sum(reserved') = Sum(reserved) + reserved'[a] - reserved[a]
    BY <1>4, <1>10, SumOne
  <2>2. Sum(spent') = Sum(spent) + spent'[a] - spent[a]
    BY <1>4, <1>10, SumOne
  <2>3. reserved[a] \in Nat /\ spent[a] \in Nat
    BY <1>4, <1>10
  <2>4. {granted, compensated, revoked, Sum(free), Sum(reserved), Sum(spent)} \subseteq Int
    BY Numbers DEF IInv, HoursAddUp
  <2>5. /\ Sum(reserved)' = Sum(reserved) - h /\ Sum(spent)' = Sum(spent) + c
        /\ Sum(free)' + revoked' = Sum(free) + (h - c) + revoked /\ Sum(free)' \in Int
    BY <1>3, <1>10, <1>12, <1>13, <2>1, <2>2, <2>3, <2>4 DEF Sum
  <2>6. UNCHANGED <<granted, compensated>>
    BY <1>2
  <2> QED
    BY <1>3, <1>13, <1>15, <1>16, <2>4, <2>5, <2>6, BalanceKept
<1>18. ReservedIsOpen'
  <2>1. ASSUME NEW o \in Owners
        PROVE  reserved'[o] = Total(tHours', Of(o, "open")') /\ spent'[o] = Total(tCharge', Of(o, "settled")')
    <3>1. Of(o, "open")' = IF o = a THEN Of(o, "open") \ {t} ELSE Of(o, "open")
      BY <1>2 DEF Of, IInv, HoursAddUp, TypeOK
    <3>2. Of(o, "settled")' = IF o = a THEN Of(o, "settled") \cup {t} ELSE Of(o, "settled")
      BY <1>2 DEF Of, IInv, HoursAddUp, TypeOK
    <3>3. tHours' = tHours
      BY <1>2
    <3>4. tCharge'[t] = c /\ \A u \in Of(o, "settled") : tCharge'[u] = tCharge[u]
      BY <1>1, <1>6, <1>7 DEF IInv, HoursAddUp, TypeOK
    <3>5. Total(tCharge', Of(o, "settled")) = Total(tCharge, Of(o, "settled"))
      BY <1>6, <3>4, SumSame
    <3>6. Total(tCharge', Of(o, "settled") \cup {t}) = Total(tCharge', Of(o, "settled")) + tCharge'[t]
      <4>1. \A u \in Of(o, "settled") \cup {t} : tCharge'[u] \in Int
        BY <1>6, <1>14
      <4> QED
        BY <1>6, <1>7, <4>1, SumAdd
    <3>7. CASE o = a
      <4> HIDE DEF a, h
      <4>1. reserved'[o] = Total(tHours, Of(o, "open") \ {t})
        BY <1>3, <1>9, <1>10, <3>7
      <4>2. spent'[o] = Total(tCharge, Of(o, "settled")) + c
        BY <1>8, <1>10, <3>7
      <4> QED
        BY <3>1, <3>2, <3>3, <3>4, <3>5, <3>6, <3>7, <4>1, <4>2
    <3>8. CASE o # a
      <4> HIDE DEF a, h
      <4> QED
        BY <1>8, <1>10, <3>1, <3>2, <3>3, <3>5, <3>8
    <3> QED
      BY <3>7, <3>8
  <2> QED
    BY <2>1 DEF ReservedIsOpen, Hours, Total, Of
<1>19. RequestOnce'
  BY <1>2, <1>15, RequestsKept DEF IInv, Backed, requestVars
<1> QED
  BY <1>15, <1>16, <1>17, <1>18, <1>19 DEF IInv, HoursAddUp

LEMMA HoursStep == IInv /\ Structure /\ Structure' /\ [Next]_vars => IInv'
BY IssueAdds, StutterKeeps, GrantAdds, RevokeKeeps, TransferKeeps, LimitKeeps, CompensateAdds,
   StartReserves, SettleReturns, GroupKeeps, DeletionsKeep, MoveKeeps DEF Next

LEMMA HoursInit == Init => IInv
<1> SUFFICES ASSUME Init PROVE IInv
  OBVIOUS
<1>1. TypeOK
  <2>1. 0 \in 0..MaxHours /\ -1 \in -1..MaxHours
    BY LedgerAssumption
  <2> QED
    BY <2>1, LedgerAssumption DEF Init, TypeOK, Owners, Child
<1>2. Backed
  BY DEF Init, Backed
<1>3. Conservation
  <2>1. \A S \in SUBSET Owners : IsFiniteSet(S)
    BY LedgerAssumption, FS_Subset
  <2>2. accounts \in SUBSET Owners
    BY DEF Init
  <2>3. \A o \in accounts : free[o] = 0 /\ reserved[o] = 0 /\ spent[o] = 0
    BY <2>2 DEF Init
  <2>4. /\ Total(free, accounts) = 0 /\ Total(reserved, accounts) = 0
        /\ Total(spent, accounts) = 0
    BY <2>1, <2>2, <2>3, SumZero
  <2> QED
    BY <2>4 DEF Init, Conservation, Hours, Total
<1>4. ReservedIsOpen
  <2>1. ASSUME NEW o \in Owners, NEW state \in {"open", "settled"}
        PROVE  Of(o, state) = {}
    BY DEF Init, Of
  <2>2. \A f : Total(f, {}) = 0
    BY SumOfNone
  <2>3. \A o \in Owners : /\ reserved[o] = Total(tHours, Of(o, "open"))
                          /\ spent[o] = Total(tCharge, Of(o, "settled"))
    BY <2>1, <2>2 DEF Init
  <2> QED
    BY <2>3 DEF ReservedIsOpen, Hours, Total, Of
<1>5. RequestOnce
  <2>1. \A kind : Posted(kind) = {}
    BY DEF Init, Posted
  <2>2. Total(AskedFor, Posted("grant")) = 0 /\ Total(AskedFor, Posted("compensate")) = 0
    BY <2>1, SumOfNone
  <2> QED
    BY <2>2 DEF Init, RequestOnce, Hours, Total, AskedFor, Posted
<1> QED
  BY <1>1, <1>2, <1>3, <1>4, <1>5 DEF IInv, HoursAddUp

(* No hour appears or disappears, the reserved and spent hours are those   *)
(* of the trainings, and every request counts once.                        *)
THEOREM AllHoursAddUp == Spec => []HoursAddUp
<1>1. Spec => []IInv
  BY HoursInit, HoursStep, AlwaysStructured, PTL DEF Spec
<1> QED
  BY <1>1, PTL DEF IInv

-----------------------------------------------------------------------------
(* What a member has used of its group's hours.                            *)

Kept == [t \in Trainings |-> IF tState[t] = "settled" THEN tCharge[t] ELSE tHours[t]]
Mine(s, g) == {t \in Trainings : tState[t] # "none" /\ tMember[t] = s /\ tAccount[t] = g}
Net(s, g) == Total(Kept, Mine(s, g)) - given[<<s, g>>]

LEMMA UsedIsNet ==
    ASSUME NEW s, NEW g
    PROVE  MemberUsed(s, g) = IF Net(s, g) > 0 THEN Net(s, g) ELSE 0
BY Zenon DEF MemberUsed, Net, Mine, Kept, Hours, Total

LEMMA NetType ==
    ASSUME TypeOK, NEW s \in Students, NEW g \in Groups
    PROVE  /\ IsFiniteSet(Mine(s, g)) /\ Mine(s, g) \subseteq Trainings
           /\ \A t \in Trainings : Kept[t] \in Int
           /\ Total(Kept, Mine(s, g)) \in Int /\ given[<<s, g>>] \in Nat /\ Net(s, g) \in Int
<1>1. Mine(s, g) \in SUBSET Trainings /\ IsFiniteSet(Mine(s, g))
  <2>1. Mine(s, g) \in SUBSET Trainings
    BY DEF Mine
  <2> QED
    BY <2>1, LedgerAssumption, FS_Subset
<1>2. \A t \in Trainings : Kept[t] \in Int
  BY LedgerAssumption DEF TypeOK, Kept
<1>3. Total(Kept, Mine(s, g)) \in Int
  <2>1. \A t \in Mine(s, g) : Kept[t] \in Int
    BY <1>1, <1>2
  <2> QED
    BY <1>1, <2>1, SumType
<1>4. given[<<s, g>>] \in Nat
  BY DEF TypeOK
<1> QED
  BY <1>1, <1>2, <1>3, <1>4 DEF Net

(* Nobody but a compensation changes what was given, and it gives more.    *)
LEMMA GivenGrows ==
    ASSUME TypeOK, Structure, [Next]_vars, NEW s \in Students, NEW g \in Groups
    PROVE  given'[<<s, g>>] \in Nat /\ given'[<<s, g>>] >= given[<<s, g>>]
<1>0. given \in [Students \X Groups -> Nat] /\ given[<<s, g>>] \in Nat
  BY DEF TypeOK
<1>1. CASE UNCHANGED given
  BY <1>0, <1>1
<1>2. ASSUME NEW r \in Requests, Compensate(r)
      PROVE  given'[<<s, g>>] \in Nat /\ given'[<<s, g>>] >= given[<<s, g>>]
  <2>1. asked[r] \in Changes
    BY <1>2 DEF Compensate, Asks, Structure, Shapes
  <2>2. asked[r].hours \in Nat
    BY <2>1, ChangeHours
  <2>3. \/ given' = given
        \/ given' = [given EXCEPT ![<<tMember[asked[r].training], asked[r].child>>] =
                                    @ + asked[r].hours]
    BY <1>2 DEF Compensate
  <2> QED
    BY <1>0, <2>2, <2>3
<1>3. ASSUME NEW r \in Requests,
             \/ Issue(r) \/ Answer(r) \/ AdminGrant(r) \/ AdminRevoke(r)
             \/ Assign(r) \/ Reclaim(r) \/ SetMemberLimit(r)
      PROVE  UNCHANGED given
  BY <1>3 DEF Issue, Answer, AdminGrant, AdminRevoke, Assign, Reclaim, SetMemberLimit, totals
<1>4. ASSUME NEW t \in Trainings, SettleTraining(t) \/ \E u \in Students : StartTraining(t, u)
      PROVE  UNCHANGED given
  BY <1>4 DEF SettleTraining, StartTraining, totals
<1>5. ASSUME NEW u \in Students,
             DeleteStudent(u) \/ LeaveGroup(u) \/ \E h \in Groups : JoinGroup(u, h)
      PROVE  UNCHANGED given
  BY <1>5 DEF DeleteStudent, LeaveGroup, JoinGroup, totals
<1>6. ASSUME NEW h \in Groups, DeleteGroup(h) PROVE UNCHANGED given
  BY <1>6 DEF DeleteGroup
<1>7. ASSUME NEW t \in Teachers, DeleteTeacher(t) PROVE UNCHANGED given
  BY <1>7 DEF DeleteTeacher
<1>8. ASSUME NEW c \in Child, NEW t \in Teachers \cup {None}, Move(c, t) PROVE UNCHANGED given
  BY <1>8 DEF Move
<1>9. CASE UNCHANGED vars
  BY <1>1, <1>9 DEF vars, totals
<1> QED
  BY <1>1, <1>2, <1>3, <1>4, <1>5, <1>6, <1>7, <1>8, <1>9 DEF Next

LEMMA MemberStep ==
    ASSUME IInv, IInv', Structure, [Next]_vars, NEW s \in Students, NEW g \in Groups,
           limit[g] # None, limit'[g] = limit[g], MemberUsed(s, g)' > limit[g]
    PROVE  MemberUsed(s, g)' <= MemberUsed(s, g)
<1>1. /\ IsFiniteSet(Mine(s, g)) /\ Mine(s, g) \subseteq Trainings
      /\ \A t \in Trainings : Kept[t] \in Int
      /\ Total(Kept, Mine(s, g)) \in Int /\ given[<<s, g>>] \in Nat /\ Net(s, g) \in Int
  BY NetType DEF IInv, HoursAddUp
<1>2. given'[<<s, g>>] \in Nat /\ given'[<<s, g>>] >= given[<<s, g>>]
  BY GivenGrows DEF IInv, HoursAddUp
<1>3. /\ MemberUsed(s, g) = IF Net(s, g) > 0 THEN Net(s, g) ELSE 0
      /\ MemberUsed(s, g)' = IF Net(s, g)' > 0 THEN Net(s, g)' ELSE 0
  <2>1. MemberUsed(s, g) = IF Net(s, g) > 0 THEN Net(s, g) ELSE 0
    BY UsedIsNet
  <2>2. MemberUsed(s, g)' = IF Net(s, g)' > 0 THEN Net(s, g)' ELSE 0
    BY Zenon DEF MemberUsed, Net, Mine, Kept, Hours, Total
  <2> QED
    BY <2>1, <2>2
<1>4. limit[g] \in Nat
  BY LedgerAssumption DEF IInv, HoursAddUp, TypeOK
<1>5. ASSUME Total(Kept, Mine(s, g))' \in Int,
             Total(Kept, Mine(s, g))' <= Total(Kept, Mine(s, g))
      PROVE  MemberUsed(s, g)' <= MemberUsed(s, g)
  <2>1. Net(s, g)' \in Int /\ Net(s, g)' <= Net(s, g)
    BY <1>1, <1>2, <1>5 DEF Net
  <2> QED
    BY <1>1, <1>3, <2>1
<1>6. ASSUME NEW t \in Trainings, SettleTraining(t)
      PROVE  MemberUsed(s, g)' <= MemberUsed(s, g)
  <2>1. PICK c \in 0..tHours[t] : tCharge' = [tCharge EXCEPT ![t] = c]
    BY <1>6 DEF SettleTraining
  <2>2. /\ tState[t] = "open" /\ tState' = [tState EXCEPT ![t] = "settled"]
        /\ UNCHANGED <<tHours, tAccount, tMember>>
    BY <1>6 DEF SettleTraining, Settleable
  <2>3. Mine(s, g)' = Mine(s, g)
    BY <2>2 DEF Mine, IInv, HoursAddUp, TypeOK
  <2>4. /\ Kept'[t] = c /\ Kept[t] = tHours[t] /\ tHours[t] \in Nat
        /\ \A u \in Trainings \ {t} : Kept'[u] = Kept[u]
    BY <2>1, <2>2 DEF Kept, IInv, HoursAddUp, TypeOK
  <2>5. c \in Int /\ c <= tHours[t]
    BY <2>1, <2>4
  <2>6. \A u \in Mine(s, g) : Kept[u] \in Int /\ Kept'[u] \in Int
    BY <1>1, <2>4, <2>5
  <2>7. CASE t \in Mine(s, g)
    <3>1. Total(Kept', Mine(s, g)) = Total(Kept, Mine(s, g)) + Kept'[t] - Kept[t]
      BY <1>1, <2>4, <2>6, <2>7, SumChange
    <3>2. /\ Total(Kept, Mine(s, g))' \in Int
          /\ Total(Kept, Mine(s, g))' <= Total(Kept, Mine(s, g))
      BY <1>1, <2>3, <2>4, <2>5, <3>1
    <3> QED
      BY <1>5, <3>2
  <2>8. CASE t \notin Mine(s, g)
    <3>1. Total(Kept', Mine(s, g)) = Total(Kept, Mine(s, g))
      BY <1>1, <2>4, <2>8, SumSame
    <3>2. /\ Total(Kept, Mine(s, g))' \in Int
          /\ Total(Kept, Mine(s, g))' <= Total(Kept, Mine(s, g))
      BY <1>1, <2>3, <3>1
    <3> QED
      BY <1>5, <3>2
  <2> QED
    BY <2>7, <2>8
<1>7. ASSUME NEW t \in Trainings, NEW u \in Students, StartTraining(t, u)
      PROVE  MemberUsed(s, g)' <= MemberUsed(s, g)
  <2>1. PICK n \in 1..MaxHours :
          tHours' = [tHours EXCEPT ![t] = n] /\ n <= HeadRoom(u)
    BY <1>7 DEF StartTraining, Startable
  <2>2. /\ tState[t] = "none" /\ tState' = [tState EXCEPT ![t] = "open"]
        /\ tAccount' = [tAccount EXCEPT ![t] = Payer(u)]
        /\ tMember' = [tMember EXCEPT ![t] = u]
        /\ UNCHANGED <<tCharge, given>>
    BY <1>7 DEF StartTraining, totals
  <2>3. n \in Nat /\ t \notin Mine(s, g)
    BY <2>2, LedgerAssumption DEF Mine
  <2>4. \A x \in Mine(s, g) : Kept'[x] = Kept[x]
    BY <2>1, <2>2, <2>3 DEF Kept, Mine, IInv, HoursAddUp, TypeOK
  <2>5. Total(Kept', Mine(s, g)) = Total(Kept, Mine(s, g))
    BY <1>1, <2>4, SumSame
  <2>6. CASE u = s /\ Payer(u) = g
    <3>1. group[u] = g
      <4>1. u # g /\ g # None
        BY LedgerAssumption DEF Owners, Child
      <4> QED
        BY <2>6, <4>1 DEF Payer
    <3>2. n <= limit[g] - MemberUsed(s, g)
      BY <2>1, <2>6, <3>1, LedgerAssumption DEF HeadRoom, Owners, Child
    <3>3. Mine(s, g)' = Mine(s, g) \cup {t}
      BY <2>2, <2>6 DEF Mine, IInv, HoursAddUp, TypeOK
    <3>4. Kept'[t] = n
      BY <2>1, <2>2 DEF Kept, IInv, HoursAddUp, TypeOK
    <3>5. Total(Kept', Mine(s, g) \cup {t}) = Total(Kept', Mine(s, g)) + Kept'[t]
      <4>1. \A x \in Mine(s, g) \cup {t} : Kept'[x] \in Int
        BY <1>1, <2>3, <2>4, <3>4
      <4> QED
        BY <1>1, <2>3, <4>1, SumAdd
    <3>6. Net(s, g)' = Net(s, g) + n
      BY <1>1, <2>2, <2>3, <2>5, <3>3, <3>4, <3>5 DEF Net
    <3>7. MemberUsed(s, g) \in Nat /\ Net(s, g) <= MemberUsed(s, g)
      BY <1>1, <1>3
    <3>8. Net(s, g)' <= limit[g]
      BY <1>1, <1>4, <2>3, <3>2, <3>6, <3>7
    <3> QED
      BY <1>1, <1>3, <1>4, <2>3, <3>6, <3>8
  <2>7. CASE ~(u = s /\ Payer(u) = g)
    <3>1. Mine(s, g)' = Mine(s, g)
      BY <2>2, <2>7 DEF Mine, IInv, HoursAddUp, TypeOK
    <3>2. /\ Total(Kept, Mine(s, g))' \in Int
          /\ Total(Kept, Mine(s, g))' <= Total(Kept, Mine(s, g))
      BY <1>1, <2>5, <3>1
    <3> QED
      BY <1>5, <3>2
  <2> QED
    BY <2>6, <2>7
<1>8. CASE \A t \in Trainings : ~SettleTraining(t) /\ \A u \in Students : ~StartTraining(t, u)
  <2>1. UNCHANGED trainingVars
    BY <1>8, OtherCalls
  <2>2. Kept' = Kept /\ Mine(s, g)' = Mine(s, g)
    BY <2>1 DEF Kept, Mine, trainingVars
  <2> QED
    BY <1>1, <1>5, <2>2
<1> QED
  BY <1>6, <1>7, <1>8

(* No sequence of starts, settlements, compensations and lowered limits    *)
(* lets a member over the group's limit take another hour.                 *)
THEOREM LimitHolds == Spec => MemberLimit
<1>1. IInv /\ IInv' /\ Structure /\ [Next]_vars =>
        [\A s \in Students, g \in Groups :
           limit[g] # None /\ limit'[g] = limit[g] /\ MemberUsed(s, g)' > limit[g]
             => MemberUsed(s, g)' <= MemberUsed(s, g)]_vars
  BY MemberStep
<1>2. Spec => []IInv
  BY HoursInit, HoursStep, AlwaysStructured, PTL DEF Spec
<1> QED
  BY <1>1, <1>2, AlwaysStructured, PTL DEF Spec, MemberLimit

-----------------------------------------------------------------------------
(* Refinement.                                                             *)

LEMMA ReservationInit == Init => R!Init
BY LedgerAssumption DEF Init, Phase, R!Init, R!NoCharge

LEMMA ReservationStep ==
    Structure /\ Booked /\ [Next]_vars => [R!Next]_<<Phase, tHours, tCharge>>
<1> SUFFICES ASSUME Structure, Booked, [Next]_vars
             PROVE  [R!Next]_<<Phase, tHours, tCharge>>
  OBVIOUS
<1>1. ASSUME NEW t \in Trainings, SettleTraining(t) PROVE R!Settle(t)
  <2>1. PICK c \in 0..tHours[t] : tCharge' = [tCharge EXCEPT ![t] = c]
    BY <1>1 DEF SettleTraining
  <2>2. tState[t] = "open" /\ tState' = [tState EXCEPT ![t] = "settled"] /\ UNCHANGED tHours
    BY <1>1 DEF SettleTraining, Settleable
  <2>3. Phase' = [Phase EXCEPT ![t] = "settled"] /\ Phase[t] = "held"
    BY <2>2 DEF Phase, Booked
  <2> QED
    BY <2>1, <2>2, <2>3 DEF R!Settle
<1>2. ASSUME NEW t \in Trainings, NEW s \in Students, StartTraining(t, s) PROVE R!Reserve(t)
  <2>1. PICK n \in 1..MaxHours : tHours' = [tHours EXCEPT ![t] = n]
    BY <1>2 DEF StartTraining
  <2>2. tState[t] = "none" /\ tState' = [tState EXCEPT ![t] = "open"] /\ UNCHANGED tCharge
    BY <1>2 DEF StartTraining
  <2>3. Phase' = [Phase EXCEPT ![t] = "held"] /\ Phase[t] = "none"
    BY <2>2 DEF Phase, Booked
  <2> QED
    BY <2>1, <2>2, <2>3 DEF R!Reserve
<1>3. CASE \A t \in Trainings : ~SettleTraining(t) /\ \A s \in Students : ~StartTraining(t, s)
  BY <1>3, OtherCalls DEF trainingVars, Phase
<1> QED
  BY <1>1, <1>2, <1>3 DEF R!Next

(* Every training of the ledger is one abstract reservation: set aside     *)
(* once, settled once for at most what was set aside, whatever happens to  *)
(* its member, its group, its account and its teacher.                     *)
THEOREM RefinesReservations == Spec => ImplementsReservation
BY ReservationInit, ReservationStep, AlwaysStructured, AlwaysBooked, PTL
   DEF Spec, ImplementsReservation, R!Spec
=============================================================================
