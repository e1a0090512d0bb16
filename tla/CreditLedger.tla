---------------------------- MODULE CreditLedger ----------------------------
(***************************************************************************)
(* The training-hour ledger (migration 052): the accounts of teachers,     *)
(* students and groups, the calls that move hours between them, the        *)
(* trainings that reserve and settle hours, and the deletions and moves    *)
(* of the people and groups that own the accounts.                         *)
(*                                                                         *)
(* A call is two steps. Issue is what happens before its first lock: the   *)
(* API route's ownership check and the function's own unlocked reads. Run  *)
(* is the rest, atomic because every function then locks the accounts it   *)
(* writes. In between, anything may be moved or deleted. A request id may  *)
(* be issued again after any outcome: a client's retry.                    *)
(*                                                                         *)
(* The ledger rows themselves are kept as what the properties need of      *)
(* them: totals of the rows that create and destroy hours, one record of   *)
(* columns per training, and the hours compensated per group member.       *)
(***************************************************************************)
EXTENDS Integers, FiniteSets, Functions

CONSTANTS
    Teachers, Students, Groups,
    Trainings,     \* trainings that may start
    Requests,      \* client request ids
    None,          \* SQL NULL
    MaxHours,      \* hours a training may reserve: 3
    Amounts,       \* bound: the hours a transfer may be of
    Limits,        \* bound: the hours a member limit may be of
    MaxCreated     \* bound on the hours granted and compensated

Child == Students \cup Groups
Owners == Teachers \cup Child

\* what one request asks for; a compensation may name the training it is for
Change(kinds, teachers, children, trainings, amounts) ==
    [kind : kinds, teacher : teachers, child : children, training : trainings, hours : amounts]
Changes == Change({"grant", "revoke"}, Teachers, {None}, {None}, Amounts)
           \cup Change({"assign", "reclaim", "compensate"}, Teachers, Child, {None}, Amounts)
           \cup Change({"limit"}, Teachers, Child, {None}, Limits)
           \cup Change({"compensate"}, {None}, Child, Trainings, Amounts)

ASSUME LedgerAssumption ==
    /\ None \notin Owners \cup Trainings \cup Changes
    /\ Teachers \cap Child = {} /\ Students \cap Groups = {}
    /\ IsFiniteSet(Owners) /\ IsFiniteSet(Trainings) /\ IsFiniteSet(Requests)
    /\ MaxHours \in Nat \ {0} /\ MaxCreated \in Nat
    /\ Amounts \subseteq Nat \ {0} /\ Limits \subseteq Nat \ {0}

VARIABLES
    alive,         \* owners whose users or workgroups row exists
    class,         \* teacher of the child's classroom, None without a classroom
    group,         \* users.workgroup_id
    accounts,      \* owners that have a credit_accounts row
    closed,        \* accounts with closed_at
    parent,        \* parent_teacher_id, None for a teacher's account
    free, reserved, spent,
    limit,         \* member_hour_limit, None: no limit
    granted, compensated, revoked,      \* sums of those ledger rows
    tState,        \* "none", "open" (reserved), "settled"
    tHours, tAccount, tMember, tCharge, \* its reserve and charge rows
    given,         \* compensations naming a training, per <<member, group>>
    asked,         \* the change a request id stands for, None before
    pending,       \* requests between Issue and Run
    posted         \* request ids in the ledger

people == <<alive, class, group>>
accountVars == <<accounts, closed, parent, free, reserved, spent, limit>>
trainingVars == <<tState, tHours, tAccount, tMember, tCharge>>
requestVars == <<asked, pending, posted>>
totals == <<granted, compensated, revoked, given>>
vars == <<people, accountVars, trainingVars, requestVars, totals>>

Hours(column, owners) == SumFunctionOnSet(column, owners)

-----------------------------------------------------------------------------
(* What the functions read.                                                *)

Usable(o) == o \in accounts \ closed

\* _credit_startable: the member's reservations in the group, less what came back
MemberUsed(s, g) ==
    LET mine == {t \in Trainings : tState[t] # "none" /\ tMember[t] = s /\ tAccount[t] = g}
        kept == [t \in Trainings |-> IF tState[t] = "settled" THEN tCharge[t] ELSE tHours[t]]
        net == Hours(kept, mine) - given[<<s, g>>]
    IN  IF net > 0 THEN net ELSE 0

\* the account a start of the student would reserve from
Payer(s) == IF group[s] = None THEN s ELSE group[s]

HeadRoom(s) ==
    IF group[s] = None \/ limit[group[s]] = None THEN MaxHours
    ELSE limit[group[s]] - MemberUsed(s, group[s])

-----------------------------------------------------------------------------
(* Migration 052 gave the owners it found an empty account, a child's      *)
(* teacher included; who is created later has none until hours come.       *)
Init ==
    /\ alive = Owners
    /\ class \in [Child -> Teachers]
    /\ group = [s \in Students |-> None]
    /\ accounts \in {a \in SUBSET Owners : \A c \in a \cap Child : class[c] \in a}
    /\ closed = {}
    /\ parent = [o \in Owners |-> IF o \in accounts \cap Child THEN class[o] ELSE None]
    /\ free = [o \in Owners |-> 0] /\ reserved = free /\ spent = free
    /\ limit = [g \in Groups |-> None]
    /\ granted = 0 /\ compensated = 0 /\ revoked = 0
    /\ tState = [t \in Trainings |-> "none"]
    /\ tHours = [t \in Trainings |-> 0]
    /\ tAccount = [t \in Trainings |-> None] /\ tMember = tAccount
    /\ tCharge = [t \in Trainings |-> -1]
    /\ given = [x \in Students \X Groups |-> 0]
    /\ asked = [r \in Requests |-> None] /\ pending = {} /\ posted = {}

-----------------------------------------------------------------------------
(* Calls of the admin and teacher routes.                                  *)

(* The checks made before any lock is taken.                               *)
Checks(q) ==
    CASE q.kind \in {"grant", "revoke"} -> q.teacher \in alive
      [] q.kind = "assign" ->
            /\ q.child \in alive /\ class[q.child] = q.teacher
            /\ q.child \in Students => group[q.child] = None
      [] q.kind = "reclaim" -> q.child \in alive /\ class[q.child] = q.teacher
      [] q.kind = "limit" -> q.child \in Groups \cap alive /\ class[q.child] = q.teacher
      [] q.kind = "compensate" ->
            IF q.training = None
              THEN /\ q.child \in alive /\ class[q.child] = q.teacher
                   /\ q.child \in Students => group[q.child] = None
              ELSE tState[q.training] # "none" /\ tAccount[q.training] = q.child

\* a retry sends the same change; only the teacher a compensation looks up may differ
SameChange(q, old) ==
    old # None =>
        \/ q = old
        \/ q.kind = "compensate" /\ q.training = None /\ q = [old EXCEPT !.teacher = q.teacher]

Issue(r) ==
    /\ r \notin pending
    /\ \E q \in Changes :
        /\ SameChange(q, asked[r]) /\ Checks(q)
        /\ asked' = [asked EXCEPT ![r] = q]
    /\ pending' = pending \cup {r}
    /\ UNCHANGED <<people, accountVars, trainingVars, totals, posted>>

(* A call that raises or replays changes nothing and is answered.          *)
Answer(r) ==
    /\ r \in pending
    /\ pending' = pending \ {r}
    /\ UNCHANGED <<people, accountVars, trainingVars, totals, asked, posted>>

Posts(r) == posted' = posted \cup {r} /\ pending' = pending \ {r}

Asks(r, kind) == r \in pending \ posted /\ asked[r].kind = kind

\* _credit_child_account: the child's account and its teacher's, unless they exist
ChildAccount(c, t) ==
    /\ accounts' = accounts \cup {c, t}
    /\ parent' = [parent EXCEPT ![c] = IF c \in accounts THEN @ ELSE t]

AdminGrant(r) ==
    LET q == asked[r] IN
    /\ Asks(r, "grant")
    /\ q.teacher \in alive
    /\ granted + compensated + q.hours <= MaxCreated
    /\ accounts' = accounts \cup {q.teacher}
    /\ free' = [free EXCEPT ![q.teacher] = @ + q.hours]
    /\ granted' = granted + q.hours
    /\ Posts(r)
    /\ UNCHANGED <<people, closed, parent, reserved, spent, limit, trainingVars,
                   compensated, revoked, given, asked>>

AdminRevoke(r) ==
    LET q == asked[r] IN
    /\ Asks(r, "revoke")
    /\ q.teacher \in alive \cap accounts /\ free[q.teacher] >= q.hours
    /\ free' = [free EXCEPT ![q.teacher] = @ - q.hours]
    /\ revoked' = revoked + q.hours
    /\ Posts(r)
    /\ UNCHANGED <<people, accounts, closed, parent, reserved, spent, limit, trainingVars,
                   granted, compensated, given, asked>>

Assign(r) ==
    LET q == asked[r] IN
    /\ Asks(r, "assign")
    /\ q.teacher \in accounts /\ free[q.teacher] >= q.hours
    /\ ChildAccount(q.child, q.teacher)
    /\ parent'[q.child] = q.teacher /\ q.child \notin closed
    /\ free' = [free EXCEPT ![q.teacher] = @ - q.hours, ![q.child] = @ + q.hours]
    /\ Posts(r)
    /\ UNCHANGED <<people, closed, reserved, spent, limit, trainingVars, totals, asked>>

Reclaimable(q) ==
    /\ q.teacher \in accounts
    /\ Usable(q.child) /\ parent[q.child] = q.teacher
    /\ free[q.child] >= q.hours

Reclaim(r) ==
    LET q == asked[r] IN
    /\ Asks(r, "reclaim") /\ Reclaimable(q)
    /\ free' = [free EXCEPT ![q.child] = @ - q.hours, ![q.teacher] = @ + q.hours]
    /\ Posts(r)
    /\ UNCHANGED <<people, accounts, closed, parent, reserved, spent, limit, trainingVars,
                   totals, asked>>

(* credit_set_member_limit has no request id: a retry writes it again.     *)
SetMemberLimit(r) ==
    LET q == asked[r] IN
    /\ r \in pending /\ q.kind = "limit"
    /\ ChildAccount(q.child, q.teacher)
    /\ parent'[q.child] = q.teacher /\ q.child \notin closed
    /\ \E h \in {None, q.hours} : limit' = [limit EXCEPT ![q.child] = h]
    /\ pending' = pending \ {r}
    /\ UNCHANGED <<people, closed, free, reserved, spent, trainingVars, totals, asked, posted>>

(* The target row is still there: it is locked before its classroom is     *)
(* read. A compensation for a training creates no account.                 *)
Compensate(r) ==
    LET q == asked[r] IN
    /\ Asks(r, "compensate")
    /\ q.child \in alive
    /\ granted + compensated + q.hours <= MaxCreated
    /\ IF q.training = None THEN ChildAccount(q.child, q.teacher)
                            ELSE UNCHANGED <<accounts, parent>>
    /\ q.child \in accounts' \ closed
    /\ free' = [free EXCEPT ![q.child] = @ + q.hours]
    /\ compensated' = compensated + q.hours
    /\ given' = IF q.training # None /\ q.child \in Groups
                  THEN [given EXCEPT ![<<tMember[q.training], q.child>>] = @ + q.hours]
                  ELSE given
    /\ Posts(r)
    /\ UNCHANGED <<people, closed, reserved, spent, limit, trainingVars, granted, revoked, asked>>

-----------------------------------------------------------------------------
(* Trainings.                                                              *)

\* mutant: the member's limit is not looked at
StartableAnyway(s, n) == Usable(Payer(s)) /\ n <= free[Payer(s)]
Startable(s, n) == Usable(Payer(s)) /\ n <= free[Payer(s)] /\ n <= HeadRoom(s)

(* start_training_safe, also inside start_continuation_safe: as many hours *)
(* as allowed, at most what the caller asks for.                           *)
StartTraining(t, s) ==
    LET a == Payer(s)
        hours == {n \in 1..MaxHours : Startable(s, n)}
    IN
    /\ tState[t] = "none" /\ s \in alive
    /\ \E n \in hours :
        /\ free' = [free EXCEPT ![a] = @ - n]
        /\ reserved' = [reserved EXCEPT ![a] = @ + n]
        /\ tHours' = [tHours EXCEPT ![t] = n]
    /\ tState' = [tState EXCEPT ![t] = "open"]
    /\ tAccount' = [tAccount EXCEPT ![t] = a]
    /\ tMember' = [tMember EXCEPT ![t] = s]
    /\ UNCHANGED <<people, accounts, closed, parent, spent, limit, tCharge, requestVars, totals>>

\* mutant: hours that have nowhere to go are only taken away
ReturnFreeUnrecorded(balance, c, n) ==
    /\ UNCHANGED revoked
    /\ free' = IF Usable(parent[c]) THEN [balance EXCEPT ![c] = @ - n, ![parent[c]] = @ + n]
                                    ELSE [balance EXCEPT ![c] = @ - n]

(* _credit_return_free: hours leaving a child go to its teacher while that *)
(* account is open, else out of the system.                                *)
ReturnFree(balance, c, n) ==
    IF Usable(parent[c])
      THEN /\ free' = [balance EXCEPT ![c] = @ - n, ![parent[c]] = @ + n]
           /\ UNCHANGED revoked
      ELSE /\ free' = [balance EXCEPT ![c] = @ - n]
           /\ revoked' = revoked + n

\* mutant: a training that has its charge row is settled again
SettleableAgain(t) == tState[t] # "none"
Settleable(t) == tState[t] = "open"

SettledFrom(t) == tAccount[t]

\* mutant: what a closed account gets back stays there
NothingPassedOn(a) == FALSE
PassedOn(a) == a \in closed

(* _credit_settle with the charge the training's seconds give: the rest is *)
(* free again; from a closed account it leaves at once.                    *)
SettleTraining(t) ==
    /\ Settleable(t)
    /\ \E c \in 0..tHours[t] :
        LET a == SettledFrom(t)
            rest == tHours[t] - c
            released == [free EXCEPT ![a] = @ + rest]
        IN  /\ tCharge' = [tCharge EXCEPT ![t] = c]
            /\ reserved' = [reserved EXCEPT ![a] = @ - tHours[t]]
            /\ spent' = [spent EXCEPT ![a] = @ + c]
            /\ IF PassedOn(a) THEN ReturnFree(released, a, rest)
                              ELSE free' = released /\ UNCHANGED revoked
    /\ tState' = [tState EXCEPT ![t] = "settled"]
    /\ UNCHANGED <<people, accounts, closed, parent, limit, tHours, tAccount, tMember,
                   requestVars, granted, compensated, given>>

-----------------------------------------------------------------------------
(* The people and groups behind the accounts.                              *)

(* _credit_close of the accounts in gone, a teacher's before the groups'    *)
(* that cascade: free hours of a child go to its teacher while that        *)
(* account is open; all other free hours leave the system.                 *)
CloseAccounts(gone) ==
    LET shut == gone \cap (accounts \ closed)
        heirs == accounts \ (closed \cup gone)
        backTo(o) == {c \in shut : parent[c] = o}
        lost == {o \in shut : parent[o] \notin heirs}
    IN  /\ closed' = closed \cup shut
        /\ free' = [o \in Owners |-> IF o \in shut THEN 0
                                     ELSE free[o] + (IF o \in heirs THEN Hours(free, backTo(o)) ELSE 0)]
        /\ revoked' = revoked + Hours(free, lost)

Locked(o) == \E r \in pending : asked[r].kind = "compensate" /\ asked[r].child = o

(* Deleting a student cascades to the trainings first, which settles them: *)
(* here the deletion waits until they are settled.                         *)
DeleteStudent(s) ==
    /\ s \in alive /\ ~Locked(s)
    /\ \A t \in Trainings : tMember[t] = s => tState[t] = "settled"
    /\ alive' = alive \ {s}
    /\ CloseAccounts({s})
    /\ UNCHANGED <<class, group, accounts, parent, reserved, spent, limit, trainingVars,
                   requestVars, granted, compensated, given>>

(* Members become personal; an open reservation stays with the account.    *)
DeleteGroup(g) ==
    /\ g \in alive /\ ~Locked(g)
    /\ alive' = alive \ {g}
    /\ group' = [s \in Students |-> IF group[s] = g THEN None ELSE group[s]]
    /\ CloseAccounts({g})
    /\ UNCHANGED <<class, accounts, parent, reserved, spent, limit, trainingVars,
                   requestVars, granted, compensated, given>>

(* The classrooms go with the teacher, and their groups with them; the     *)
(* students stay without a classroom. (The admin route refuses while it    *)
(* counts classrooms; the cascade is the database's.)                      *)
DeleteTeacher(t) ==
    LET groups == {g \in Groups \cap alive : class[g] = t} IN
    /\ t \in alive /\ \A g \in groups : ~Locked(g)
    /\ alive' = alive \ ({t} \cup groups)
    /\ class' = [c \in Child |-> IF class[c] = t /\ c \in Students THEN None ELSE class[c]]
    /\ group' = [s \in Students |-> IF group[s] \in groups THEN None ELSE group[s]]
    /\ CloseAccounts({t} \cup groups)
    /\ UNCHANGED <<accounts, parent, reserved, spent, limit, trainingVars, requestVars,
                   granted, compensated, given>>

JoinGroup(s, g) ==
    /\ {s, g} \subseteq alive /\ group[s] = None /\ class[s] = class[g]
    /\ group' = [group EXCEPT ![s] = g]
    /\ UNCHANGED <<alive, class, accountVars, trainingVars, requestVars, totals>>

LeaveGroup(s) ==
    /\ s \in alive /\ group[s] # None
    /\ group' = [group EXCEPT ![s] = None]
    /\ UNCHANGED <<alive, class, accountVars, trainingVars, requestVars, totals>>

\* mutant: an account with an open reservation is moved as well
MovableAnyway(c) == TRUE
Movable(c) == reserved[c] = 0

(* A classroom change, or None: the student is taken out of the classroom. *)
(* Under another teacher an open account gives its free hours back and     *)
(* gets the new teacher; with a reservation the move is refused (P0072).   *)
Move(c, t) ==
    /\ c \in alive /\ class[c] # t /\ t \in alive \cup (IF c \in Students THEN {None} ELSE {})
    /\ c \in Students /\ group[c] # None => t = None
    /\ class' = [class EXCEPT ![c] = t]
    /\ IF t # None /\ Usable(c) /\ parent[c] # t
         THEN /\ Movable(c)
              /\ parent' = [parent EXCEPT ![c] = t]
              /\ accounts' = accounts \cup {t}
              /\ ReturnFree(free, c, free[c])
         ELSE UNCHANGED <<parent, accounts, free, revoked>>
    /\ UNCHANGED <<alive, group, closed, reserved, spent, limit, trainingVars, requestVars,
                   granted, compensated, given>>

-----------------------------------------------------------------------------
Next ==
    \/ \E r \in Requests :
          \/ Issue(r) \/ Answer(r)
          \/ AdminGrant(r) \/ AdminRevoke(r) \/ Assign(r) \/ Reclaim(r)
          \/ SetMemberLimit(r) \/ Compensate(r)
    \/ \E t \in Trainings : SettleTraining(t) \/ \E s \in Students : StartTraining(t, s)
    \/ \E s \in Students :
          \/ DeleteStudent(s) \/ LeaveGroup(s)
          \/ \E g \in Groups : JoinGroup(s, g)
    \/ \E g \in Groups : DeleteGroup(g)
    \/ \E t \in Teachers : DeleteTeacher(t)
    \/ \E c \in Child, t \in Teachers \cup {None} : Move(c, t)

Spec == Init /\ [][Next]_vars

-----------------------------------------------------------------------------
(* Properties.                                                             *)

(* Every bucket is a number of hours and never negative (I4).              *)
TypeOK ==
    /\ alive \subseteq Owners /\ closed \subseteq accounts /\ accounts \subseteq Owners
    /\ class \in [Child -> Teachers \cup {None}] /\ group \in [Students -> Groups \cup {None}]
    /\ parent \in [Owners -> Teachers \cup {None}]
    /\ {free, reserved, spent} \subseteq [Owners -> Nat]
    /\ limit \in [Groups -> {None} \cup Limits]
    /\ {granted, compensated, revoked} \subseteq Nat
    /\ tState \in [Trainings -> {"none", "open", "settled"}]
    /\ tHours \in [Trainings -> 0..MaxHours] /\ tCharge \in [Trainings -> -1..MaxHours]
    /\ tAccount \in [Trainings -> Child \cup {None}]
    /\ tMember \in [Trainings -> Students \cup {None}]
    /\ given \in [Students \X Groups -> Nat]
    /\ asked \in [Requests -> Changes \cup {None}]
    /\ pending \subseteq Requests /\ posted \subseteq Requests

(* No hour appears or disappears (I10): what was granted and compensated   *)
(* is what the accounts hold and spent, plus what was revoked, through any *)
(* order of transfers, settlements, moves and cascaded closes.             *)
Conservation ==
    granted + compensated = Hours(free, accounts) + Hours(reserved, accounts)
                            + Hours(spent, accounts) + revoked

(* An account's reserved hours are those of its open trainings and its     *)
(* spent hours the charges of its settled ones, also after the account     *)
(* closed, its member left the group or its student was deleted.           *)
ReservedIsOpen ==
    \A o \in Owners :
        LET of(state) == {t \in Trainings : tAccount[t] = o /\ tState[t] = state}
        IN  reserved[o] = Hours(tHours, of("open")) /\ spent[o] = Hours(tCharge, of("settled"))

(* A request id posts once, however often its call is retried and          *)
(* whatever was moved or deleted between the tries.                        *)
RequestOnce ==
    LET askedFor == [r \in Requests |-> IF asked[r] = None THEN 0 ELSE asked[r].hours]
        of(kind) == {r \in posted : asked[r].kind = kind}
    IN  granted = Hours(askedFor, of("grant")) /\ compensated = Hours(askedFor, of("compensate"))

(* Every hour is accounted for, in every column and for every request.     *)
HoursAddUp == TypeOK /\ Conservation /\ ReservedIsOpen /\ RequestOnce

(* A child account always has its teacher's account behind it (I13), so    *)
(* hours that leave it have a row to go to or a closed row to prove that   *)
(* they must leave the system.                                             *)
ChildHasTeacherAccount == \A c \in Child \cap accounts : parent[c] \in Teachers \cap accounts

(* A student's or group's account that closed holds no free hours and is   *)
(* never reopened: what an open training gives back later goes on to the   *)
(* teacher in the same transaction.                                        *)
ClosedChildIsEmpty == \A c \in Child \cap closed : free[c] = 0

(* A member at or over the group's limit never takes more: the limit may   *)
(* be lowered below what a member used, but only settlements and           *)
(* compensations move the member's hours then.                             *)
MemberLimit ==
    [][\A s \in Students, g \in Groups :
         limit[g] # None /\ limit'[g] = limit[g] /\ MemberUsed(s, g)' > limit[g]
           => MemberUsed(s, g)' <= MemberUsed(s, g)]_vars

(* While hours are reserved in an account, its funding teacher stays the   *)
(* same: the rest of the training returns to the pool it was paid from     *)
(* (P0072).                                                                *)
FunderFrozen == [][\A o \in Owners : reserved[o] > 0 => parent'[o] = parent[o]]_vars

(* What a child account cannot use goes to the teacher who paid it: there  *)
(* is one, it is not exchanged while hours are reserved, and with the      *)
(* closing the hours have gone.                                            *)
HoursGoHome == []ChildHasTeacherAccount /\ []ClosedChildIsEmpty /\ FunderFrozen

(* Each training's hours are set aside once and settled once, as the       *)
(* abstract reservation says.                                              *)
Phase == [t \in Trainings |-> CASE tState[t] = "none" -> "none"
                                  [] tState[t] = "open" -> "held"
                                  [] OTHER -> "settled"]
R == INSTANCE Reservation WITH phase <- Phase, hours <- tHours, charge <- tCharge
ImplementsReservation == R!Spec

=============================================================================
