-------------------------- MODULE UserStoreProofs --------------------------
(***************************************************************************)
(* What UserStore promises for every set of clients, usernames and         *)
(* passwords and for every bound, and that with one operator it implements *)
(* AccountRegistry, where every operation is a single step.                *)
(***************************************************************************)
EXTENDS UserStore, TLAPS

TypeUsers == users \in [Ids -> Row \cup {NoUser}]

----------------------------------------------------------------------------
(* Lemmas on the building blocks of the actions.                           *)

LEMMA ZeroFailures == 0 \in Failures
BY StoreAssumption DEF Failures

----------------------------------------------------------------------------
(* What the updates make of a row.                                         *)

\* The row still is the account it was; for the updates that leave role and
\* status alone, it also ranks as it did.
SameAccount(row, old) == row \in Row /\ row.username = old.username

SameRank(row, old) ==
  /\ SameAccount(row, old)
  /\ row.role = old.role /\ row.isActive = old.isActive /\ row.status = old.status

LEMMA RoleRow ==
  ASSUME NEW r \in Row, NEW role \in Roles, NEW v \in Nat
  PROVE  SameAccount([r EXCEPT !.role = role, !.version = v], r)
BY DEF SameAccount, Row

LEMMA ActiveRow ==
  ASSUME NEW r \in Row
  PROVE  SameAccount([r EXCEPT !.isActive = TRUE, !.status = "active"], r)
BY DEF SameAccount, Row, Statuses

LEMMA InactiveRow ==
  ASSUME NEW r \in Row, NEW v \in Nat
  PROVE  SameAccount([r EXCEPT !.isActive = FALSE, !.status = "disabled",
                               !.version = v], r)
BY DEF SameAccount, Row, Statuses

LEMMA PasswordRow ==
  ASSUME NEW r \in Row, NEW pw \in Passwords, NEW force \in BOOLEAN, NEW v \in Nat
  PROVE  SameRank([r EXCEPT !.password = pw, !.force = force, !.failed = 0,
                            !.locked = FALSE, !.version = v], r)
BY ZeroFailures DEF SameRank, SameAccount, Row

LEMMA UnlockedRow ==
  ASSUME NEW r \in Row
  PROVE  SameRank([r EXCEPT !.failed = 0, !.locked = FALSE], r)
BY ZeroFailures DEF SameRank, SameAccount, Row

LEMMA FailureRow ==
  ASSUME NEW r \in Row, NEW failures \in Failures, NEW lock \in BOOLEAN
  PROVE  SameRank([r EXCEPT !.failed = failures, !.locked = @ \/ lock], r)
BY DEF SameRank, SameAccount, Row

LEMMA SuccessRow ==
  ASSUME NEW r \in Row, NEW pw \in Passwords, NEW rehash \in BOOLEAN
  PROVE  SameRank([r EXCEPT !.failed = 0, !.locked = FALSE,
                            !.password = IF rehash THEN pw ELSE @], r)
<1>1. CASE rehash
  BY <1>1, ZeroFailures DEF SameRank, SameAccount, Row
<1>2. CASE ~rehash
  BY <1>2, ZeroFailures DEF SameRank, SameAccount, Row
<1>. QED
  BY <1>1, <1>2

\* What a call carries, and the row it is about to write.
LEMMA TargetRow ==
  ASSUME TypeOK, NEW c \in Clients, job[c] # Idle
  PROVE  /\ job[c].id \in Ids /\ job[c].password \in Passwords
         /\ job[c].version + 1 \in Nat /\ job[c].failed \in Failures
         /\ users[job[c].id] # NoUser => users[job[c].id] \in Row
<1>1. job[c] \in Job
  BY DEF TypeOK
<1>. QED
  BY <1>1 DEF TypeOK, Job

\* One row is written and stays the account it was.
AccountUpdate(i) ==
  /\ TypeUsers'
  /\ \A k \in Ids : k # i => users'[k] = users[k]
  /\ users[i] = NoUser => users'[i] = NoUser
  /\ users[i] # NoUser => SameAccount(users'[i], users[i])

RankUpdate(i) ==
  /\ TypeUsers'
  /\ \A k \in Ids : k # i => users'[k] = users[k]
  /\ users[i] = NoUser => users'[i] = NoUser
  /\ users[i] # NoUser => SameRank(users'[i], users[i])

LEMMA UpdateAccount ==
  ASSUME TypeUsers, NEW i \in Ids, NEW row, Update(i, row),
         users[i] # NoUser => SameAccount(row, users[i])
  PROVE  AccountUpdate(i)
BY DEF TypeUsers, Update, AccountUpdate, SameAccount

LEMMA UpdateRank ==
  ASSUME TypeUsers, NEW i \in Ids, NEW row, Update(i, row),
         users[i] # NoUser => SameRank(row, users[i])
  PROVE  RankUpdate(i)
BY DEF TypeUsers, Update, RankUpdate, SameRank, SameAccount

----------------------------------------------------------------------------
(* The types of what the actions do.                                       *)

\* Starting a call, going on in it and returning from it keep job well typed.
LEMMA BeginType ==
  ASSUME TypeOK, NEW c \in Clients, NEW call, NEW at \in Steps, NEW i \in Ids,
         NEW pw \in Passwords, Begin(c, call, at, i, pw)
  PROVE  TypeOK'
<1>1. call \in AllCalls
  BY StoreAssumption DEF Begin
<1>2. users[i] \in Row
  BY DEF Begin, TypeOK
<1>3. [call |-> call, at |-> at, id |-> i, username |-> users[i].username,
       password |-> pw, version |-> users[i].version, failed |-> users[i].failed,
       admitted |-> Admitted(i)] \in Job
  BY <1>1, <1>2 DEF Job, Row, Admitted
<1>. QED
  BY <1>3 DEF Begin, TypeOK

LEMMA GotoType ==
  ASSUME job \in [Clients -> Job \cup {Idle}], NEW c \in Clients, job[c] # Idle,
         NEW step \in Steps, Goto(c, step)
  PROVE  job' \in [Clients -> Job \cup {Idle}]
BY DEF Goto, Job

LEMMA ReturnType ==
  ASSUME job \in [Clients -> Job \cup {Idle}], NEW c \in Clients, Return(c)
  PROVE  job' \in [Clients -> Job \cup {Idle}]
BY DEF Return

LEMMA InsertType ==
  ASSUME TypeOK, NEW call, NEW name \in Usernames, NEW pw \in Passwords,
         NEW role \in Roles, NEW status \in Statuses, NEW force \in BOOLEAN,
         Insert(call, name, pw, role, status, force)
  PROVE  TypeOK'
<1>1. [username |-> name, password |-> pw, role |-> role,
       isActive |-> (status = "active"), status |-> status, version |-> 1,
       failed |-> 0, locked |-> FALSE, force |-> force] \in Row
  BY StoreAssumption DEF Row, Failures
<1>2. nextId' \in 1..(MaxUsers + 1)
  BY StoreAssumption DEF TypeOK, Insert, Ids
<1>. QED
  BY <1>1, <1>2 DEF TypeOK, Insert

----------------------------------------------------------------------------
(* Type correctness.                                                       *)

LEMMA InsertsType ==
  ASSUME TypeOK, NEW c \in Clients, Inserts(c)
  PROVE  TypeOK'
<1> PICK name \in Usernames, pw \in Passwords :
       \/ \E role \in Roles : Create(c, name, pw, role)
       \/ Signup(c, name, pw)
       \/ Bootstrap(c, name, pw)
  BY DEF Inserts
<1>1. ASSUME NEW role \in Roles, Create(c, name, pw, role) PROVE TypeOK'
  BY <1>1, InsertType DEF Create, Statuses
<1>2. CASE Signup(c, name, pw)
  BY <1>2, InsertType DEF Signup, Statuses, Roles
<1>3. CASE Bootstrap(c, name, pw)
  BY <1>3, InsertType DEF Bootstrap, Statuses, Roles
<1>. QED
  BY <1>1, <1>2, <1>3

LEMMA ReadsType ==
  ASSUME TypeOK, NEW c \in Clients, Reads(c)
  PROVE  TypeOK'
<1>1. CASE ReadForChange(c)
  <2>1. job' \in [Clients -> Job \cup {Idle}]
    <3> DEFINE i == job[c].id
    <3>1. job[c] \in Job
      BY <1>1 DEF ReadForChange, At, TypeOK
    <3>2. CASE users[i] = NoUser
      BY <1>1, <3>2, ReturnType DEF ReadForChange, TypeOK
    <3>3. CASE users[i] # NoUser
      <4>1. users[i].version \in Nat
        BY <3>1, <3>3 DEF TypeOK, Job, Row
      <4>2. [job[c] EXCEPT !.at = "write", !.version = users[i].version] \in Job
        BY <3>1, <4>1 DEF Job, Steps
      <4>. QED
        BY <1>1, <3>3, <4>2 DEF ReadForChange, TypeOK
    <3>. QED
      BY <3>2, <3>3
  <2>. QED
    BY <1>1, <2>1 DEF ReadForChange, TypeOK
<1>2. ASSUME NEW i \in Ids, NEW pw \in Passwords,
             \/ \E call \in Calls : ReadTarget(c, call, i) \/ ReadPending(c, call, i)
             \/ ReadForReset(c, i, pw) \/ VerifyOwnPassword(c, i, pw)
             \/ ReadForLogin(c, i, pw)
      PROVE  TypeOK'
  <2>1. users[i] # NoUser => users[i].password \in Passwords
    BY DEF TypeOK, Row
  <2>2. ASSUME NEW call \in Calls, ReadTarget(c, call, i) PROVE TypeOK'
    <3>1. users[i].password \in Passwords
      BY <2>1, <2>2 DEF ReadTarget
    <3>2. (IF call \in RemovalCalls /\ users[i].role = "admin" THEN "count" ELSE "write")
            \in Steps
      BY DEF Steps
    <3>. QED
      BY <2>2, <3>1, <3>2, BeginType DEF ReadTarget
  <2>3. ASSUME NEW call \in Calls, ReadPending(c, call, i) PROVE TypeOK'
    <3>1. users[i].password \in Passwords
      BY <2>1, <2>3 DEF ReadPending
    <3>. QED
      BY <2>3, <3>1, BeginType DEF ReadPending, Steps
  <2>4. CASE ReadForReset(c, i, pw)
    BY <2>4, BeginType DEF ReadForReset, Steps
  <2>5. CASE VerifyOwnPassword(c, i, pw)
    BY <2>5, BeginType DEF VerifyOwnPassword, Steps
  <2>6. CASE ReadForLogin(c, i, pw)
    BY <2>6, BeginType DEF ReadForLogin, Steps
  <2>. QED
    BY <1>2, <2>2, <2>3, <2>4, <2>5, <2>6
<1>. QED
  BY <1>1, <1>2 DEF Reads

LEMMA WriteRoleEffect ==
  ASSUME TypeOK, NEW c \in Clients, WriteRole(c)
  PROVE  AccountUpdate(job[c].id)
<1> DEFINE i == job[c].id
           role == IF job[c].call = "promote" THEN "admin" ELSE "user"
<1>1. job[c] # Idle
  BY DEF WriteRole, Writing, At
<1>2. role \in Roles
  BY DEF Roles
<1>3. users[i] # NoUser =>
        SameAccount([users[i] EXCEPT !.role = role, !.version = job[c].version + 1],
                    users[i])
  BY <1>1, <1>2, TargetRow, RoleRow
<1>4. Update(i, [users[i] EXCEPT !.role = role, !.version = job[c].version + 1])
  BY DEF WriteRole
<1>. QED
  BY <1>1, <1>3, <1>4, TargetRow, UpdateAccount DEF TypeOK, TypeUsers

LEMMA WriteActiveEffect ==
  ASSUME TypeOK, NEW c \in Clients, WriteActive(c) \/ WriteApproval(c)
  PROVE  AccountUpdate(job[c].id)
<1> DEFINE i == job[c].id
<1>1. job[c] # Idle
  BY DEF WriteActive, WriteApproval, Writing, At
<1>2. users[i] # NoUser =>
        SameAccount([users[i] EXCEPT !.isActive = TRUE, !.status = "active"], users[i])
  BY <1>1, TargetRow, ActiveRow
<1>3. Update(i, [users[i] EXCEPT !.isActive = TRUE, !.status = "active"])
  BY DEF WriteActive, WriteApproval
<1>. QED
  BY <1>1, <1>2, <1>3, TargetRow, UpdateAccount DEF TypeOK, TypeUsers

LEMMA WriteInactiveEffect ==
  ASSUME TypeOK, NEW c \in Clients, WriteInactive(c)
  PROVE  AccountUpdate(job[c].id)
<1> DEFINE i == job[c].id
           version == job[c].version + 1
<1>1. job[c] # Idle
  BY DEF WriteInactive, Writing, At
<1>2. users[i] # NoUser =>
        SameAccount([users[i] EXCEPT !.isActive = FALSE, !.status = "disabled",
                                     !.version = version], users[i])
  BY <1>1, TargetRow, InactiveRow
<1>3. Update(i, [users[i] EXCEPT !.isActive = FALSE, !.status = "disabled",
                                 !.version = version])
  BY DEF WriteInactive
<1>. QED
  BY <1>1, <1>2, <1>3, TargetRow, UpdateAccount DEF TypeOK, TypeUsers

LEMMA DeleteRowEffect ==
  ASSUME TypeOK, NEW c \in Clients, DeleteRow(c)
  PROVE  /\ TypeUsers'
         /\ \A k \in Ids : k # job[c].id => users'[k] = users[k]
         /\ users'[job[c].id] = NoUser
<1>1. job[c] # Idle
  BY DEF DeleteRow, Writing, At
<1>2. job[c].id \in Ids
  BY <1>1, TargetRow
<1>. QED
  BY <1>2 DEF DeleteRow, TypeOK, TypeUsers

LEMMA WritePasswordEffect ==
  ASSUME TypeOK, NEW c \in Clients, WritePassword(c)
  PROVE  RankUpdate(job[c].id)
<1> DEFINE i     == job[c].id
           force == job[c].call = "reset"
<1>1. job[c] # Idle
  BY DEF WritePassword, Writing, At
<1>2. users[i] # NoUser =>
        SameRank([users[i] EXCEPT !.password = job[c].password, !.force = force,
                                  !.failed = 0, !.locked = FALSE,
                                  !.version = job[c].version + 1], users[i])
  BY <1>1, TargetRow, PasswordRow
<1>3. Update(i, [users[i] EXCEPT !.password = job[c].password, !.force = force,
                                 !.failed = 0, !.locked = FALSE,
                                 !.version = job[c].version + 1])
  BY DEF WritePassword, NewVersion
<1>. QED
  BY <1>1, <1>2, <1>3, TargetRow, UpdateRank DEF TypeOK, TypeUsers

LEMMA UnlockEffect ==
  ASSUME TypeOK, NEW c \in Clients, NEW i \in Ids, Unlock(c, i)
  PROVE  RankUpdate(i)
<1>1. users[i] # NoUser =>
        SameRank([users[i] EXCEPT !.failed = 0, !.locked = FALSE], users[i])
  BY UnlockedRow DEF TypeOK
<1>. QED
  BY <1>1, UpdateRank DEF Unlock, TypeOK, TypeUsers

LEMMA WriteFailureEffect ==
  ASSUME TypeOK, NEW c \in Clients, WriteFailure(c)
  PROVE  RankUpdate(job[c].id)
<1> DEFINE i        == job[c].id
           failures == job[c].failed + 1
           lock     == Locks(failures)
<1>1. job[c] # Idle
  BY DEF WriteFailure, At
<1>2. (IF lock THEN 0 ELSE failures) \in Failures /\ lock \in BOOLEAN
  BY <1>1, TargetRow, StoreAssumption DEF Failures, Locks
<1>3. users[i] # NoUser =>
        SameRank([users[i] EXCEPT !.failed = IF lock THEN 0 ELSE failures,
                                  !.locked = @ \/ lock], users[i])
  BY <1>1, <1>2, TargetRow, FailureRow
<1>4. Update(i, [users[i] EXCEPT !.failed = IF lock THEN 0 ELSE failures,
                                 !.locked = @ \/ lock])
  BY DEF WriteFailure
<1>. QED
  BY <1>1, <1>3, <1>4, TargetRow, UpdateRank DEF TypeOK, TypeUsers

LEMMA WriteSuccessEffect ==
  ASSUME TypeOK, NEW c \in Clients, NEW rehash \in BOOLEAN, WriteSuccess(c, rehash)
  PROVE  RankUpdate(job[c].id)
<1> DEFINE i == job[c].id
<1>1. job[c] # Idle
  BY DEF WriteSuccess, At
<1>2. users[i] # NoUser =>
        SameRank([users[i] EXCEPT !.failed = 0, !.locked = FALSE,
                    !.password = IF rehash THEN job[c].password ELSE @], users[i])
  BY <1>1, TargetRow, SuccessRow
<1>3. Update(i, [users[i] EXCEPT !.failed = 0, !.locked = FALSE,
                   !.password = IF rehash THEN job[c].password ELSE @])
  BY DEF WriteSuccess
<1>. QED
  BY <1>1, <1>2, <1>3, TargetRow, UpdateRank DEF TypeOK, TypeUsers

LEMMA WritesType ==
  ASSUME TypeOK, NEW c \in Clients, Writes(c)
  PROVE  TypeOK'
<1>1. CASE WriteRole(c)
  BY <1>1, WriteRoleEffect, ReturnType
  DEF WriteRole, Finish, AccountUpdate, TypeOK, TypeUsers
<1>2. CASE WriteActive(c) \/ WriteApproval(c)
  BY <1>2, WriteActiveEffect, ReturnType
  DEF WriteActive, WriteApproval, Finish, AccountUpdate, TypeOK, TypeUsers
<1>3. CASE WriteInactive(c)
  BY <1>3, WriteInactiveEffect, ReturnType
  DEF WriteInactive, Finish, AccountUpdate, TypeOK, TypeUsers
<1>4. CASE DeleteRow(c)
  BY <1>4, DeleteRowEffect, ReturnType DEF DeleteRow, Finish, TypeOK, TypeUsers
<1>5. CASE WritePassword(c)
  <2>1. job' \in [Clients -> Job \cup {Idle}]
    BY <1>5, ReturnType, GotoType DEF WritePassword, Writing, At, TypeOK, Steps
  <2>. QED
    BY <1>5, <2>1, WritePasswordEffect DEF WritePassword, RankUpdate, TypeOK, TypeUsers
<1>6. ASSUME NEW i \in Ids, Unlock(c, i) PROVE TypeOK'
  BY <1>6, UnlockEffect DEF Unlock, RankUpdate, TypeOK, TypeUsers
<1>. QED
  BY <1>1, <1>2, <1>3, <1>4, <1>5, <1>6 DEF Writes

LEMMA LoginType ==
  ASSUME TypeOK, NEW c \in Clients, Login(c)
  PROVE  TypeOK'
<1>1. CASE CheckHash(c)
  BY <1>1, GotoType, ReturnType DEF CheckHash, At, TypeOK, Steps
<1>2. CASE WriteFailure(c)
  BY <1>2, WriteFailureEffect, ReturnType
  DEF WriteFailure, Finish, RankUpdate, TypeOK, TypeUsers
<1>3. ASSUME NEW rehash \in BOOLEAN, WriteSuccess(c, rehash) PROVE TypeOK'
  BY <1>3, WriteSuccessEffect, GotoType
  DEF WriteSuccess, At, RankUpdate, TypeOK, TypeUsers, Steps
<1>4. CASE Reread(c)
  BY <1>4, ReturnType DEF Reread, TypeOK
<1>. QED
  BY <1>1, <1>2, <1>3, <1>4 DEF Login

LEMMA LockExpiresType ==
  ASSUME TypeOK, NEW i \in Ids, LockExpires(i)
  PROVE  TypeOK'
<1>1. [users[i] EXCEPT !.locked = FALSE] \in Row
  BY DEF LockExpires, TypeOK, Row
<1>. QED
  BY <1>1 DEF LockExpires, TypeOK

LEMMA CountType ==
  ASSUME TypeOK, NEW c \in Clients, CountOthers(c)
  PROVE  TypeOK'
BY GotoType, ReturnType DEF CountOthers, At, TypeOK, Steps

LEMMA InitType == Init => TypeOK
BY StoreAssumption DEF Init, TypeOK

LEMMA StepType == TypeOK /\ [Next]_storeVars => TypeOK'
<1> SUFFICES ASSUME TypeOK, [Next]_storeVars PROVE TypeOK'
  OBVIOUS
<1>1. ASSUME NEW c \in Clients,
             Inserts(c) \/ Reads(c) \/ CountOthers(c) \/ Writes(c) \/ Login(c)
      PROVE  TypeOK'
  BY <1>1, InsertsType, ReadsType, CountType, WritesType, LoginType
<1>2. ASSUME NEW i \in Ids, LockExpires(i) PROVE TypeOK'
  BY <1>2, LockExpiresType
<1>3. CASE UNCHANGED storeVars
  BY <1>3 DEF storeVars, TypeOK
<1>. QED
  BY <1>1, <1>2, <1>3 DEF Next

\* The table, the id counter and every call in progress stay well typed; in
\* particular a stored failure count never reaches the lockout threshold.
THEOREM TypeCorrect == Spec => []TypeOK
BY InitType, StepType, PTL DEF Spec

----------------------------------------------------------------------------
(* A freed id never comes back: every id in the table or carried by a call *)
(* is below the AUTOINCREMENT counter.                                     *)

IdsUsed ==
  /\ \A i \in Ids : users[i] # NoUser => i < nextId
  /\ \A c \in Clients : job[c] # Idle => job[c].id < nextId

\* A call has the name of the row that its id stands for.
CallsNamed ==
  \A c \in Clients :
    job[c] # Idle /\ users[job[c].id] # NoUser
      => users[job[c].id].username = job[c].username

NameInv == TypeOK /\ IdsUsed /\ CallsNamed

\* What a step may do to the row of account i: insert it under the next id,
\* remove it, or write it without touching its username.
RowStep(i) ==
  \/ users'[i] = users[i]
  \/ users'[i] = NoUser
  \/ /\ users[i] # NoUser /\ users'[i] # NoUser
     /\ users'[i].username = users[i].username
  \/ i = nextId /\ nextId' = nextId + 1

\* What a step may do to the call of client c: end it, carry it on, or start
\* it for a row of the table.
JobStep(c) ==
  \/ job'[c] = Idle
  \/ /\ job[c] # Idle
     /\ job'[c].id = job[c].id /\ job'[c].username = job[c].username
     /\ job'[c].admitted = job[c].admitted
  \/ /\ users' = users /\ job'[c].id \in Ids
     /\ users[job'[c].id] # NoUser
     /\ job'[c].username = users[job'[c].id].username
     /\ job'[c].admitted => users[job'[c].id].status = "active"

Frame ==
  /\ \A i \in Ids : RowStep(i)
  /\ \A c \in Clients : JobStep(c)
  /\ nextId' >= nextId

\* A step of this shape keeps every call on the account it was started for.
LEMMA FrameKeepsNames ==
  ASSUME NameInv, TypeOK', Frame
  PROVE  NameInv'
<1>1. nextId \in Nat /\ nextId' \in Nat
  BY StoreAssumption DEF NameInv, TypeOK
<1>2. \A i \in Ids : i \in Nat
  BY StoreAssumption DEF Ids
<1>3. ASSUME NEW i \in Ids, users'[i] # NoUser PROVE i < nextId'
  BY <1>1, <1>2, <1>3 DEF Frame, RowStep, NameInv, IdsUsed
<1>4. ASSUME NEW c \in Clients, job'[c] # Idle
      PROVE  /\ job'[c].id < nextId'
             /\ users'[job'[c].id] # NoUser
                  => users'[job'[c].id].username = job'[c].username
  <2> DEFINE i == job'[c].id
  <2>1. i \in Ids
    BY <1>4 DEF TypeOK, Job
  <2>2. CASE job[c] # Idle /\ i = job[c].id /\ job'[c].username = job[c].username
    <3>1. i < nextId
      BY <2>2 DEF NameInv, IdsUsed
    <3>2. users[i] # NoUser => users[i].username = job[c].username
      BY <2>2 DEF NameInv, CallsNamed
    <3>3. RowStep(i)
      BY <2>1 DEF Frame
    <3>. QED
      BY <1>1, <1>2, <2>1, <2>2, <3>1, <3>2, <3>3 DEF RowStep, Frame
  <2>3. CASE /\ users' = users /\ users[i] # NoUser
             /\ job'[c].username = users[i].username
    BY <1>1, <1>2, <2>1, <2>3 DEF Frame, NameInv, IdsUsed
  <2>. QED
    BY <1>4, <2>2, <2>3 DEF Frame, JobStep
<1>. QED
  BY <1>3, <1>4 DEF NameInv, IdsUsed, CallsNamed

----------------------------------------------------------------------------
(* Calm steps: no existing account changes its standing.                   *)

SameStanding(i) ==
  users[i] # NoUser /\ users'[i] # NoUser /\ SameRank(users'[i], users[i])

Arrives(i) ==
  /\ i = nextId /\ nextId' = nextId + 1
  /\ users'[i] # NoUser
  /\ users'[i].isActive <=> users'[i].status = "active"

Calm ==
  /\ \A i \in Ids : users'[i] = users[i] \/ SameStanding(i) \/ Arrives(i)
  /\ \A c \in Clients : JobStep(c)
  /\ nextId' >= nextId

LEMMA CounterGrows ==
  ASSUME TypeOK
  PROVE  nextId >= nextId /\ nextId + 1 >= nextId
BY StoreAssumption DEF TypeOK

LEMMA InsertCalm ==
  ASSUME TypeOK, NEW call, NEW name \in Usernames, NEW pw \in Passwords,
         NEW role \in Roles, NEW status \in Statuses, NEW force \in BOOLEAN,
         Insert(call, name, pw, role, status, force)
  PROVE  Calm
<1> DEFINE row == [username |-> name, password |-> pw, role |-> role,
                   isActive |-> (status = "active"), status |-> status,
                   version |-> 1, failed |-> 0, locked |-> FALSE, force |-> force]
<1>1. row # NoUser /\ (row.isActive <=> row.status = "active")
  <2>1. row \in Row
    BY ZeroFailures DEF Row
  <2>. QED
    BY <2>1, StoreAssumption
<1>2. users' = [users EXCEPT ![nextId] = row] /\ nextId' = nextId + 1 /\ job' = job
  BY DEF Insert, FreshId
<1>3. \A i \in Ids : users'[i] = users[i] \/ Arrives(i)
  <2> HIDE DEF row
  <2>. QED
    BY <1>1, <1>2 DEF Arrives, TypeOK
<1>. QED
  BY <1>2, <1>3, CounterGrows DEF Calm, JobStep

LEMMA InsertsCalm ==
  ASSUME TypeOK, NEW c \in Clients, Inserts(c)
  PROVE  Calm
<1> PICK name \in Usernames, pw \in Passwords :
       \/ \E role \in Roles : Create(c, name, pw, role)
       \/ Signup(c, name, pw)
       \/ Bootstrap(c, name, pw)
  BY DEF Inserts
<1>1. ASSUME NEW role \in Roles, Create(c, name, pw, role) PROVE Calm
  BY <1>1, InsertCalm DEF Create, Statuses
<1>2. CASE Signup(c, name, pw)
  BY <1>2, InsertCalm DEF Signup, Statuses, Roles
<1>3. CASE Bootstrap(c, name, pw)
  BY <1>3, InsertCalm DEF Bootstrap, Statuses, Roles
<1>. QED
  BY <1>1, <1>2, <1>3

LEMMA BeginCalm ==
  ASSUME TypeOK, NEW c \in Clients, NEW call, NEW at, NEW i \in Ids, NEW pw,
         Begin(c, call, at, i, pw)
  PROVE  Calm
BY CounterGrows DEF Calm, JobStep, Begin, Admitted, TypeOK

\* Carrying a call on or ending it.
LEMMA GotoStep ==
  ASSUME TypeOK, NEW c \in Clients, job[c] # Idle, NEW step \in Steps, Goto(c, step)
  PROVE  \A d \in Clients : JobStep(d)
BY DEF JobStep, Goto, TypeOK, Job

LEMMA ReturnStep ==
  ASSUME TypeOK, NEW c \in Clients, Return(c)
  PROVE  \A d \in Clients : JobStep(d)
BY DEF JobStep, Return, TypeOK

LEMMA StayCalm ==
  ASSUME TypeOK, users' = users, nextId' = nextId, \A d \in Clients : JobStep(d)
  PROVE  Calm
BY CounterGrows DEF Calm

\* An UPDATE that writes none of the columns an account's standing is made of.
LEMMA UpdateCalm ==
  ASSUME TypeOK, NEW i \in Ids, RankUpdate(i), nextId' = nextId,
         \A d \in Clients : JobStep(d)
  PROVE  Calm
<1>1. \A k \in Ids : users'[k] = users[k] \/ SameStanding(k)
  BY StoreAssumption DEF RankUpdate, SameStanding, SameRank, SameAccount
<1>. QED
  BY <1>1, CounterGrows DEF Calm

LEMMA ReadsCalm ==
  ASSUME TypeOK, NEW c \in Clients, Reads(c) \/ CountOthers(c)
  PROVE  Calm
<1>1. CASE ReadForChange(c)
  <2>1. job[c] \in Job
    BY <1>1 DEF ReadForChange, At, TypeOK
  <2>2. \A d \in Clients : JobStep(d)
    <3>1. CASE users[job[c].id] = NoUser
      BY <1>1, <3>1, ReturnStep DEF ReadForChange
    <3>2. CASE users[job[c].id] # NoUser
      <4> DEFINE next == [job[c] EXCEPT !.at = "write",
                                        !.version = users[job[c].id].version]
      <4>1. /\ next.id = job[c].id /\ next.username = job[c].username
            /\ next.admitted = job[c].admitted
        BY <2>1 DEF Job
      <4>2. job' = [job EXCEPT ![c] = next]
        BY <1>1, <3>2 DEF ReadForChange
      <4>. QED
        BY <1>1, <4>1, <4>2 DEF ReadForChange, At, JobStep, TypeOK
    <3>. QED
      BY <3>1, <3>2
  <2>. QED
    BY <1>1, <2>2, StayCalm DEF ReadForChange
<1>2. ASSUME NEW i \in Ids, NEW pw \in Passwords,
             \/ \E call \in Calls : ReadTarget(c, call, i) \/ ReadPending(c, call, i)
             \/ ReadForReset(c, i, pw) \/ VerifyOwnPassword(c, i, pw)
             \/ ReadForLogin(c, i, pw)
      PROVE  Calm
  BY <1>2, BeginCalm
  DEF ReadTarget, ReadPending, ReadForReset, VerifyOwnPassword, ReadForLogin
<1>3. CASE CountOthers(c)
  <2>1. \A d \in Clients : JobStep(d)
    BY <1>3, ReturnStep, GotoStep DEF CountOthers, At, Steps
  <2>. QED
    BY <1>3, <2>1, StayCalm DEF CountOthers
<1>. QED
  BY <1>1, <1>2, <1>3 DEF Reads

LEMMA LoginCalm ==
  ASSUME TypeOK, NEW c \in Clients, Login(c)
  PROVE  Calm
<1>1. job[c] # Idle /\ job[c].id \in Ids
  BY TargetRow DEF Login, CheckHash, WriteFailure, WriteSuccess, Reread, At
<1>2. CASE CheckHash(c)
  <2>1. \A d \in Clients : JobStep(d)
    BY <1>2, ReturnStep, GotoStep DEF CheckHash, At, Steps
  <2>. QED
    BY <1>2, <2>1, StayCalm DEF CheckHash
<1>3. CASE WriteFailure(c)
  BY <1>1, <1>3, WriteFailureEffect, ReturnStep, UpdateCalm DEF WriteFailure, Finish
<1>4. ASSUME NEW rehash \in BOOLEAN, WriteSuccess(c, rehash) PROVE Calm
  BY <1>1, <1>4, WriteSuccessEffect, GotoStep, UpdateCalm DEF WriteSuccess, Steps
<1>5. CASE Reread(c)
  BY <1>5, ReturnStep, StayCalm DEF Reread
<1>. QED
  BY <1>2, <1>3, <1>4, <1>5 DEF Login

LEMMA PasswordCalm ==
  ASSUME TypeOK, NEW c \in Clients, WritePassword(c)
  PROVE  Calm
<1>1. job[c] # Idle /\ job[c].id \in Ids
  BY TargetRow DEF WritePassword, Writing, At
<1>2. \A d \in Clients : JobStep(d)
  BY <1>1, ReturnStep, GotoStep DEF WritePassword, Steps
<1>. QED
  BY <1>1, <1>2, WritePasswordEffect, UpdateCalm DEF WritePassword

LEMMA UnlockCalm ==
  ASSUME TypeOK, NEW c \in Clients, NEW i \in Ids, Unlock(c, i)
  PROVE  Calm
<1>1. \A d \in Clients : JobStep(d)
  BY DEF Unlock, JobStep
<1>. QED
  BY <1>1, UnlockEffect, UpdateCalm DEF Unlock

LEMMA ExpiryCalm ==
  ASSUME TypeOK, NEW i \in Ids, LockExpires(i)
  PROVE  Calm
<1>1. SameRank([users[i] EXCEPT !.locked = FALSE], users[i])
  BY DEF LockExpires, TypeOK, SameRank, SameAccount, Row
<1>2. RankUpdate(i)
  BY <1>1 DEF LockExpires, RankUpdate, TypeOK, TypeUsers, SameRank, SameAccount
<1>3. \A d \in Clients : JobStep(d)
  BY DEF LockExpires, JobStep
<1>. QED
  BY <1>2, <1>3, UpdateCalm DEF LockExpires

----------------------------------------------------------------------------
(* The writes that change an account's standing: one administrator call    *)
(* ends, and only the row it carries is written or removed.                *)

Decision(c) ==
  \/ WriteRole(c) \/ WriteActive(c) \/ WriteInactive(c) \/ WriteApproval(c)
  \/ DeleteRow(c)

DecisionCalls == OperatorCalls \ {"reset", "unlock", "create"}

LEMMA DecisionFrame ==
  ASSUME TypeOK, NEW c \in Clients, Decision(c)
  PROVE  /\ Writing(c, DecisionCalls)
         /\ job' = [job EXCEPT ![c] = Idle]
         /\ nextId' = nextId
         /\ job[c].id \in Ids
         /\ \A k \in Ids : k # job[c].id => users'[k] = users[k]
         /\ RowStep(job[c].id)
         /\ users[job[c].id] = NoUser => users'[job[c].id] = NoUser
<1> DEFINE i == job[c].id
<1>1. Writing(c, DecisionCalls) /\ job' = [job EXCEPT ![c] = Idle] /\ nextId' = nextId
  BY DEF Decision, WriteRole, WriteActive, WriteInactive, WriteApproval, DeleteRow,
         Writing, Finish, Return, DecisionCalls, OperatorCalls, RoleCalls,
         ActiveCalls, SignupCalls
<1>2. i \in Ids
  BY <1>1, TargetRow DEF Writing, At
<1>3. AccountUpdate(i) \/ DeleteRow(c)
  BY WriteRoleEffect, WriteActiveEffect, WriteInactiveEffect DEF Decision
<1>4. CASE AccountUpdate(i)
  BY <1>1, <1>2, <1>4, StoreAssumption DEF AccountUpdate, RowStep, SameAccount
<1>5. CASE DeleteRow(c)
  BY <1>1, <1>2, <1>5, DeleteRowEffect DEF RowStep
<1>. QED
  BY <1>3, <1>4, <1>5

LEMMA StepCases ==
  ASSUME TypeOK, Next
  PROVE  Calm \/ \E c \in Clients : Decision(c)
<1>1. ASSUME NEW c \in Clients,
             Inserts(c) \/ Reads(c) \/ CountOthers(c) \/ Writes(c) \/ Login(c)
      PROVE  Calm \/ Decision(c)
  BY <1>1, InsertsCalm, ReadsCalm, LoginCalm, PasswordCalm, UnlockCalm
  DEF Writes, Decision
<1>2. ASSUME NEW i \in Ids, LockExpires(i) PROVE Calm
  BY <1>2, ExpiryCalm
<1>. QED
  BY <1>1, <1>2 DEF Next

LEMMA StepFrame ==
  ASSUME TypeOK, Next
  PROVE  Frame
<1>1. CASE Calm
  BY <1>1 DEF Calm, Frame, RowStep, SameStanding, SameRank, SameAccount, Arrives
<1>2. ASSUME NEW c \in Clients, Decision(c) PROVE Frame
  <2>1. \A i \in Ids : RowStep(i)
    BY <1>2, DecisionFrame DEF RowStep
  <2>2. \A d \in Clients : JobStep(d)
    BY <1>2, DecisionFrame DEF JobStep, TypeOK
  <2>. QED
    BY <1>2, <2>1, <2>2, DecisionFrame, CounterGrows DEF Frame
<1>. QED
  BY <1>1, <1>2, StepCases

LEMMA NameInit == Init => NameInv
BY InitType DEF Init, NameInv, IdsUsed, CallsNamed

LEMMA NameStep == NameInv /\ [Next]_storeVars => NameInv'
<1> SUFFICES ASSUME NameInv, [Next]_storeVars PROVE NameInv'
  OBVIOUS
<1>1. TypeOK'
  BY StepType DEF NameInv
<1>2. CASE Next
  BY <1>1, <1>2, StepFrame, FrameKeepsNames DEF NameInv
<1>3. CASE UNCHANGED storeVars
  BY <1>1, <1>3 DEF storeVars, NameInv, IdsUsed, CallsNamed
<1>. QED
  BY <1>2, <1>3

----------------------------------------------------------------------------
(* The single-operator results.  A second inductive invariant says what an *)
(* administrator call relies on between its check and its write.           *)

\* The step a call is at tells which operation it belongs to.
Staged(c) ==
  /\ At(c, "lookup") => job[c].call = "change"
  /\ At(c, "count")  => job[c].call \in RemovalCalls

OperatorJob(c) ==
  job[c] # Idle /\ job[c].call \in OperatorCalls => c \in Operators

\* A removal about to be written leaves another active administrator.
RemovalSafe(c) ==
  Writing(c, RemovalCalls) /\ job[c].id \in ActiveAdmins
    => ActiveAdmins \ {job[c].id} # {}

\* A decision about to be written still finds the sign-up undecided.
SignupOpen(c) ==
  Writing(c, SignupCalls) /\ users[job[c].id] # NoUser
    => users[job[c].id].status = "pending"

Guarded(c) == Staged(c) /\ OperatorJob(c) /\ RemovalSafe(c) /\ SignupOpen(c)

AdminInv == NameInv /\ StatusAgrees /\ \A c \in Clients : Guarded(c)

\* A calm step takes nothing away from a call that waits.
LEMMA CalmKeepsGuard ==
  ASSUME AdminInv, Calm, NEW c \in Clients, job'[c] = job[c]
  PROVE  Guarded(c)'
<1> DEFINE i == job[c].id
<1>1. Staged(c)' /\ OperatorJob(c)'
  BY DEF AdminInv, Guarded, Staged, OperatorJob, At
<1>2. ASSUME job[c] # Idle
      PROVE  i \in Ids /\ (users'[i] = users[i] \/ SameStanding(i))
  <2>1. i \in Ids /\ i < nextId /\ nextId \in Nat
    BY <1>2, TargetRow, StoreAssumption DEF AdminInv, NameInv, IdsUsed, TypeOK
  <2>. QED
    BY <2>1 DEF Calm, Arrives
<1>3. ASSUME NEW k \in ActiveAdmins PROVE k \in ActiveAdmins'
  <2>1. k \in Ids /\ users[k] # NoUser /\ k < nextId /\ nextId \in Nat
    BY StoreAssumption DEF ActiveAdmins, Live, AdminInv, NameInv, IdsUsed, TypeOK
  <2>2. users'[k] = users[k] \/ SameStanding(k)
    BY <2>1 DEF Calm, Arrives
  <2>. QED
    BY <2>1, <2>2 DEF ActiveAdmins, Live, SameStanding, SameRank
<1>4. RemovalSafe(c)'
  <2> SUFFICES ASSUME Writing(c, RemovalCalls), i \in ActiveAdmins'
               PROVE  ActiveAdmins' \ {i} # {}
    BY DEF RemovalSafe, Writing, At
  <2>1. i \in ActiveAdmins
    BY <1>2 DEF Writing, At, ActiveAdmins, Live, SameStanding, SameRank
  <2>. QED
    BY <1>3, <2>1 DEF AdminInv, Guarded, RemovalSafe
<1>5. SignupOpen(c)'
  BY <1>2 DEF SignupOpen, Writing, At, AdminInv, Guarded, SameStanding, SameRank
<1>. QED
  BY <1>1, <1>4, <1>5 DEF Guarded

\* A call that returns, or goes on to a step that guards nothing, is guarded.
LEMMA LeavesGuard ==
  ASSUME AdminInv, NEW c \in Clients,
         \/ job'[c] = Idle
         \/ /\ job[c] # Idle /\ job'[c].call = job[c].call
            /\ job'[c].at \notin {"lookup", "count", "write"}
  PROVE  Guarded(c)'
BY DEF Guarded, Staged, OperatorJob, RemovalSafe, SignupOpen, Writing, At, AdminInv

\* A call that starts on row i is guarded by what it read.
LEMMA BeginGuard ==
  ASSUME AdminInv, NEW c \in Clients, NEW i \in Ids, NEW pw \in Passwords,
         \/ \E call \in Calls : ReadTarget(c, call, i) \/ ReadPending(c, call, i)
         \/ ReadForReset(c, i, pw) \/ VerifyOwnPassword(c, i, pw)
         \/ ReadForLogin(c, i, pw)
  PROVE  /\ Guarded(c)'
         /\ \A d \in Clients : d # c => job'[d] = job[d]
<1>0. job \in [Clients -> Job \cup {Idle}]
  BY DEF AdminInv, NameInv, TypeOK
<1>1. ASSUME NEW call \in Calls, ReadTarget(c, call, i)
      PROVE  /\ Guarded(c)'
             /\ \A d \in Clients : d # c => job'[d] = job[d]
  <2> DEFINE at == IF call \in RemovalCalls /\ users[i].role = "admin"
                   THEN "count" ELSE "write"
  <2>1. /\ job'[c].call = call /\ job'[c].at = at /\ job'[c].id = i
        /\ users' = users /\ c \in Operators
        /\ \A d \in Clients : d # c => job'[d] = job[d]
    BY <1>0, <1>1 DEF ReadTarget, Begin
  <2>2. Staged(c)' /\ OperatorJob(c)' /\ SignupOpen(c)'
    BY <1>1, <2>1
    DEF Staged, OperatorJob, SignupOpen, Writing, At, ReadTarget, RoleCalls,
        ActiveCalls, SignupCalls, RemovalCalls
  <2>3. RemovalSafe(c)'
    BY <2>1 DEF RemovalSafe, Writing, At, ActiveAdmins
  <2>. QED
    BY <2>1, <2>2, <2>3 DEF Guarded
<1>2. ASSUME NEW call \in Calls, ReadPending(c, call, i)
      PROVE  /\ Guarded(c)'
             /\ \A d \in Clients : d # c => job'[d] = job[d]
  <2>1. /\ job'[c].call = call /\ job'[c].at = "write" /\ job'[c].id = i
        /\ users' = users /\ c \in Operators
        /\ \A d \in Clients : d # c => job'[d] = job[d]
    BY <1>0, <1>2 DEF ReadPending, Begin
  <2>. QED
    BY <1>2, <2>1
    DEF Guarded, Staged, OperatorJob, SignupOpen, RemovalSafe, Writing, At,
        ReadPending, SignupCalls, RemovalCalls
<1>3. CASE ReadForReset(c, i, pw)
  <2>1. /\ job'[c].call = "reset" /\ job'[c].at = "write" /\ c \in Operators
        /\ \A d \in Clients : d # c => job'[d] = job[d]
    BY <1>0, <1>3 DEF ReadForReset, Begin
  <2>. QED
    BY <2>1
    DEF Guarded, Staged, OperatorJob, SignupOpen, RemovalSafe, Writing, At,
        SignupCalls, RemovalCalls
<1>4. CASE VerifyOwnPassword(c, i, pw)
  <2>1. /\ job'[c].call = "change" /\ job'[c].at = "lookup"
        /\ \A d \in Clients : d # c => job'[d] = job[d]
    BY <1>0, <1>4 DEF VerifyOwnPassword, Begin
  <2>. QED
    BY <2>1
    DEF Guarded, Staged, OperatorJob, SignupOpen, RemovalSafe, Writing, At,
        OperatorCalls, RoleCalls, ActiveCalls, SignupCalls
<1>5. CASE ReadForLogin(c, i, pw)
  <2>1. /\ job'[c].call = "login" /\ job'[c].at = "hash"
        /\ \A d \in Clients : d # c => job'[d] = job[d]
    BY <1>0, <1>5 DEF ReadForLogin, Begin
  <2>. QED
    BY <2>1
    DEF Guarded, Staged, OperatorJob, SignupOpen, RemovalSafe, Writing, At,
        OperatorCalls, RoleCalls, ActiveCalls, SignupCalls
<1>. QED
  BY <1>1, <1>2, <1>3, <1>4, <1>5

\* Reading leaves every call guarded.
LEMMA ReadsGuard ==
  ASSUME AdminInv, NEW c \in Clients, Reads(c) \/ CountOthers(c)
  PROVE  /\ Guarded(c)'
         /\ \A d \in Clients : d # c => job'[d] = job[d]
<1>0. TypeOK /\ job \in [Clients -> Job \cup {Idle}]
  BY DEF AdminInv, NameInv, TypeOK
<1>1. CASE ReadForChange(c)
  <2>1. \A d \in Clients : d # c => job'[d] = job[d]
    BY <1>0, <1>1 DEF ReadForChange, Return
  <2>2. CASE users[job[c].id] = NoUser
    BY <1>0, <1>1, <2>1, <2>2, LeavesGuard DEF ReadForChange, Return
  <2>3. CASE users[job[c].id] # NoUser
    <3>1. job[c] \in Job /\ job[c].call = "change"
      BY <1>0, <1>1 DEF ReadForChange, At, AdminInv, Guarded, Staged
    <3>2. [job[c] EXCEPT !.at = "write", !.version = users[job[c].id].version].call
            = job[c].call
      BY <3>1 DEF Job
    <3>3. [job[c] EXCEPT !.at = "write", !.version = users[job[c].id].version].at
            = "write"
      BY <3>1 DEF Job
    <3>4. job'[c].call = "change" /\ job'[c].at = "write"
      BY <1>0, <1>1, <2>3, <3>1, <3>2, <3>3 DEF ReadForChange
    <3>. QED
      BY <2>1, <3>4
      DEF Guarded, Staged, OperatorJob, SignupOpen, RemovalSafe, Writing, At,
          OperatorCalls, RoleCalls, ActiveCalls, SignupCalls, RemovalCalls
  <2>. QED
    BY <2>2, <2>3
<1>2. CASE CountOthers(c)
  <2>1. \A d \in Clients : d # c => job'[d] = job[d]
    BY <1>0, <1>2 DEF CountOthers, Return, Goto
  <2>2. CASE OtherAdmins(c) = {}
    BY <1>0, <1>2, <2>1, <2>2, LeavesGuard DEF CountOthers, Return
  <2>3. CASE OtherAdmins(c) # {}
    <3>1. job[c] \in Job /\ job[c] # Idle /\ job[c].call \in RemovalCalls
      BY <1>0, <1>2 DEF CountOthers, At, AdminInv, Guarded, Staged
    <3>2. /\ job'[c].call = job[c].call /\ job'[c].at = "write"
          /\ job'[c].id = job[c].id /\ users' = users
      BY <1>0, <1>2, <2>3, <3>1 DEF CountOthers, Goto, Job
    <3>3. Staged(c)' /\ OperatorJob(c)' /\ SignupOpen(c)'
      BY <3>1, <3>2
      DEF AdminInv, Guarded, Staged, OperatorJob, SignupOpen, Writing, At,
          RemovalCalls, SignupCalls
    <3>4. RemovalSafe(c)'
      BY <2>3, <3>2 DEF RemovalSafe, OtherAdmins, ActiveAdmins, Live
    <3>. QED
      BY <2>1, <3>3, <3>4 DEF Guarded
  <2>. QED
    BY <2>2, <2>3
<1>3. ASSUME NEW i \in Ids, NEW pw \in Passwords,
             \/ \E call \in Calls : ReadTarget(c, call, i) \/ ReadPending(c, call, i)
             \/ ReadForReset(c, i, pw) \/ VerifyOwnPassword(c, i, pw)
             \/ ReadForLogin(c, i, pw)
      PROVE  /\ Guarded(c)'
             /\ \A d \in Clients : d # c => job'[d] = job[d]
  BY <1>3, BeginGuard
<1>. QED
  BY <1>1, <1>2, <1>3 DEF Reads

\* Signing in and writing a password go on to steps that guard nothing.
LEMMA LoginGuard ==
  ASSUME AdminInv, NEW c \in Clients, Login(c) \/ WritePassword(c)
  PROVE  /\ Guarded(c)'
         /\ \A d \in Clients : d # c => job'[d] = job[d]
<1>1. job \in [Clients -> Job \cup {Idle}]
  BY DEF AdminInv, NameInv, TypeOK
<1>2. job[c] # Idle
  BY DEF Login, CheckHash, WriteFailure, WriteSuccess, Reread, WritePassword, Writing, At
<1>3. Return(c) \/ Goto(c, "fail") \/ Goto(c, "grant") \/ Goto(c, "reread")
  BY DEF Login, CheckHash, WriteFailure, WriteSuccess, Reread, WritePassword, Finish
<1>4. CASE Return(c)
  BY <1>1, <1>4, LeavesGuard DEF Return
<1>5. ASSUME NEW step \in {"fail", "grant", "reread"}, Goto(c, step)
      PROVE  /\ Guarded(c)'
             /\ \A d \in Clients : d # c => job'[d] = job[d]
  <2>1. job[c] \in Job
    BY <1>1, <1>2
  <2>2. /\ job'[c].call = job[c].call /\ job'[c].at = step
        /\ \A d \in Clients : d # c => job'[d] = job[d]
    BY <1>1, <1>5, <2>1 DEF Goto, Job
  <2>. QED
    BY <1>2, <2>2, LeavesGuard
<1>. QED
  BY <1>3, <1>4, <1>5

LEMMA CalmGuard ==
  ASSUME AdminInv, Next, Calm,
         \A c \in Clients : ~Decision(c)
  PROVE  \A c \in Clients : Guarded(c)'
<1>1. ASSUME NEW c \in Clients,
             \/ Reads(c) \/ CountOthers(c) \/ Login(c) \/ WritePassword(c)
      PROVE  \A d \in Clients : Guarded(d)'
  BY <1>1, ReadsGuard, LoginGuard, CalmKeepsGuard
<1>2. CASE job' = job
  BY <1>2, CalmKeepsGuard
<1>3. ASSUME NEW c \in Clients, Inserts(c) PROVE job' = job
  BY <1>3 DEF Inserts, Create, Signup, Bootstrap, Insert
<1>4. ASSUME NEW c \in Clients, NEW i \in Ids, Unlock(c, i) PROVE job' = job
  BY <1>4 DEF Unlock
<1>5. ASSUME NEW i \in Ids, LockExpires(i) PROVE job' = job
  BY <1>5 DEF LockExpires
<1>. QED
  BY <1>1, <1>2, <1>3, <1>4, <1>5 DEF Next, Writes, Decision

\* With one operator nobody else is about to decide anything.
LEMMA DecisionGuard ==
  ASSUME AdminInv, SingleOperator, NEW c \in Clients, Decision(c)
  PROVE  \A d \in Clients : Guarded(d)'
<1>1. TypeOK /\ job \in [Clients -> Job \cup {Idle}]
  BY DEF AdminInv, NameInv, TypeOK
<1>2. c \in Operators /\ job'[c] = Idle
  BY <1>1, DecisionFrame DEF Writing, At, DecisionCalls, AdminInv, Guarded, OperatorJob
<1>3. ASSUME NEW d \in Clients, d # c PROVE Guarded(d)'
  <2>1. job'[d] = job[d] /\ d \notin Operators
    BY <1>1, <1>2, <1>3, DecisionFrame DEF SingleOperator
  <2>2. ~Writing(d, RemovalCalls) /\ ~Writing(d, SignupCalls)
    BY <2>1
    DEF AdminInv, Guarded, OperatorJob, Writing, At, RemovalCalls, SignupCalls,
        OperatorCalls, RoleCalls, ActiveCalls
  <2>. QED
    BY <2>1, <2>2
    DEF AdminInv, Guarded, Staged, OperatorJob, RemovalSafe, SignupOpen, Writing, At
<1>. QED
  BY <1>2, <1>3, LeavesGuard

\* What each decision makes of the standing of a row that is still there.
LEMMA DecidedStanding ==
  ASSUME TypeOK, NEW c \in Clients, users[job[c].id] # NoUser, Decision(c)
  PROVE  LET old == users[job[c].id]
             new == users'[job[c].id]
         IN  \/ /\ Writing(c, {"promote"}) /\ new # NoUser /\ new.role = "admin"
                /\ new.isActive = old.isActive /\ new.status = old.status
             \/ /\ Writing(c, {"demote"}) /\ new # NoUser
                /\ new.isActive = old.isActive /\ new.status = old.status
             \/ /\ new # NoUser /\ new.role = old.role
                /\ new.isActive = TRUE /\ new.status = "active"
             \/ /\ Writing(c, {"deactivate"}) /\ new # NoUser /\ new.role = old.role
                /\ new.isActive = FALSE /\ new.status = "disabled"
             \/ Writing(c, {"delete", "reject"}) /\ new = NoUser
<1> DEFINE i   == job[c].id
           old == users[i]
<1>1. i \in Ids /\ old \in Row
  BY TargetRow, DecisionFrame DEF Writing, At
<1>2. CASE WriteRole(c)
  <2> DEFINE role    == IF job[c].call = "promote" THEN "admin" ELSE "user"
             version == job[c].version + 1
             row     == [old EXCEPT !.role = role, !.version = version]
  <2>1. users'[i] = row
    BY <1>1, <1>2 DEF WriteRole, Update, TypeOK
  <2>2. row.role = role /\ row.isActive = old.isActive /\ row.status = old.status
    <3> HIDE DEF role, version
    <3>. QED
      BY <1>1 DEF Row
  <2>3. users'[i] # NoUser
    BY <1>1, <1>2, WriteRoleEffect, StoreAssumption DEF AccountUpdate, SameAccount
  <2>4. Writing(c, {"promote"}) \/ Writing(c, {"demote"})
    BY <1>2 DEF WriteRole, Writing, RoleCalls
  <2>5. Writing(c, {"promote"}) => role = "admin"
    BY DEF Writing
  <2> HIDE DEF row, role
  <2>. QED
    BY <2>1, <2>2, <2>3, <2>4, <2>5
<1>3. CASE WriteActive(c) \/ WriteApproval(c)
  <2>1. users'[i] = [old EXCEPT !.isActive = TRUE, !.status = "active"]
    BY <1>1, <1>3 DEF WriteActive, WriteApproval, Update, TypeOK
  <2>2. users'[i] # NoUser
    BY <1>1, <1>3, WriteActiveEffect, StoreAssumption DEF AccountUpdate, SameAccount
  <2>. QED
    BY <1>1, <2>1, <2>2 DEF Row
<1>4. CASE WriteInactive(c)
  <2> DEFINE version == job[c].version + 1
  <2>1. users'[i] = [old EXCEPT !.isActive = FALSE, !.status = "disabled",
                                !.version = version]
    BY <1>1, <1>4 DEF WriteInactive, Update, TypeOK
  <2>2. /\ users'[i].isActive = FALSE /\ users'[i].status = "disabled"
        /\ users'[i].role = old.role
    <3> HIDE DEF version
    <3>. QED
      BY <1>1, <2>1 DEF Row
  <2>3. users'[i] # NoUser
    BY <1>1, <1>4, WriteInactiveEffect, StoreAssumption DEF AccountUpdate, SameAccount
  <2>. QED
    BY <1>4, <2>2, <2>3 DEF WriteInactive
<1>5. CASE DeleteRow(c)
  BY <1>5, DeleteRowEffect DEF DeleteRow
<1>. QED
  BY <1>2, <1>3, <1>4, <1>5 DEF Decision

LEMMA StatusStep ==
  ASSUME TypeOK, StatusAgrees, Next
  PROVE  StatusAgrees'
<1>1. CASE Calm
  BY <1>1 DEF Calm, StatusAgrees, Live, SameStanding, SameRank, Arrives
<1>2. ASSUME NEW c \in Clients, Decision(c) PROVE StatusAgrees'
  <2>1. ASSUME NEW k \in Ids, users'[k] # NoUser
        PROVE  users'[k].isActive <=> users'[k].status = "active"
    <3>1. CASE k # job[c].id
      BY <1>2, <2>1, <3>1, DecisionFrame DEF StatusAgrees, Live
    <3>2. CASE k = job[c].id
      <4>1. users[k] # NoUser
        BY <1>2, <2>1, <3>2, DecisionFrame
      <4>2. users[k].isActive <=> users[k].status = "active"
        BY <4>1 DEF StatusAgrees, Live
      <4>. QED
        BY <1>2, <2>1, <3>2, <4>1, <4>2, DecidedStanding
    <3>. QED
      BY <3>1, <3>2
  <2>. QED
    BY <2>1 DEF StatusAgrees, Live
<1>. QED
  BY <1>1, <1>2, StepCases

\* The two columns that say whether an account may be used never disagree,
\* whatever operators and tabs do at once.
THEOREM StatusesAgree == Spec => []StatusAgrees
<1>1. Init => StatusAgrees
  BY DEF Init, StatusAgrees, Live
<1>2. TypeOK /\ StatusAgrees /\ [Next]_storeVars => StatusAgrees'
  BY StatusStep DEF storeVars, StatusAgrees, Live
<1>. QED
  BY <1>1, <1>2, TypeCorrect, PTL DEF Spec

LEMMA AdminInit == Init => AdminInv
BY NameInit DEF Init, AdminInv, StatusAgrees, Live, Guarded, Staged, OperatorJob,
                RemovalSafe, SignupOpen, Writing, At

LEMMA AdminStep ==
  ASSUME SingleOperator, AdminInv, [Next]_storeVars
  PROVE  AdminInv'
<1>1. NameInv'
  BY NameStep DEF AdminInv
<1>2. CASE Next
  <2>1. StatusAgrees'
    BY <1>2, StatusStep DEF AdminInv, NameInv
  <2>2. \A c \in Clients : Guarded(c)'
    BY <1>2, StepCases, CalmGuard, DecisionGuard DEF AdminInv, NameInv
  <2>. QED
    BY <1>1, <2>1, <2>2 DEF AdminInv
<1>3. CASE UNCHANGED storeVars
  BY <1>1, <1>3
  DEF storeVars, AdminInv, StatusAgrees, Live, Guarded, Staged, OperatorJob,
      RemovalSafe, SignupOpen, Writing, At, ActiveAdmins
<1>. QED
  BY <1>2, <1>3

\* What AdminInv is for: no step takes the last active administrator away.
LEMMA AdminsRemain ==
  ASSUME AdminInv, Next, ActiveAdmins # {}
  PROVE  ActiveAdmins' # {}
<1>t. TypeOK
  BY DEF AdminInv, NameInv
<1>1. CASE Calm
  <2>1. PICK a \in Ids : a \in ActiveAdmins
    BY DEF ActiveAdmins, Live
  <2>2. a < nextId /\ nextId \in Nat /\ a \in Nat
    BY <2>1, StoreAssumption DEF AdminInv, NameInv, IdsUsed, TypeOK, Ids, ActiveAdmins, Live
  <2>3. a \in ActiveAdmins'
    BY <1>1, <2>1, <2>2 DEF Calm, Arrives, SameStanding, SameRank, ActiveAdmins, Live
  <2>. QED
    BY <2>3
<1>2. ASSUME NEW c \in Clients, Decision(c) PROVE ActiveAdmins' # {}
  <2> DEFINE i == job[c].id
  <2>1. i \in Ids /\ \A k \in Ids : k # i => users'[k] = users[k]
    BY <1>2, <1>t, DecisionFrame
  <2>2. \A k \in ActiveAdmins : k # i => k \in ActiveAdmins'
    BY <2>1 DEF ActiveAdmins, Live
  <2>3. CASE ActiveAdmins \ {i} # {}
    BY <2>2, <2>3
  <2>4. CASE ActiveAdmins \ {i} = {}
    <3>1. i \in ActiveAdmins
      BY <2>4
    <3>2. users[i] # NoUser /\ users[i].role = "admin" /\ users[i].isActive
      BY <3>1 DEF ActiveAdmins, Live
    <3>3. ~Writing(c, RemovalCalls)
      BY <2>4, <3>1 DEF AdminInv, Guarded, RemovalSafe
    <3>4. ~Writing(c, {"reject"})
      BY <2>1, <3>2 DEF AdminInv, Guarded, SignupOpen, StatusAgrees, Live, Writing, SignupCalls
    <3>5. i \in ActiveAdmins'
      BY <1>2, <1>t, <2>1, <3>2, <3>3, <3>4, DecidedStanding
      DEF Writing, RemovalCalls, ActiveAdmins, Live
    <3>. QED
      BY <3>5
  <2>. QED
    BY <2>3, <2>4
<1>. QED
  BY <1>1, <1>2, <1>t, StepCases

\* With one operator at a time the last active administrator survives every
\* interleaving of the store's transactions.
THEOREM LastAdminPersists == SingleOperator => (Spec => LastAdminStays)
<1> SUFFICES ASSUME SingleOperator PROVE Spec => LastAdminStays
  OBVIOUS
<1>1. AdminInv /\ [Next]_storeVars => AdminInv'
  BY AdminStep
<1>2. AdminInv /\ [Next]_storeVars => [ActiveAdmins # {} => ActiveAdmins' # {}]_storeVars
  BY AdminsRemain
<1>. QED
  BY <1>1, <1>2, AdminInit, PTL DEF Spec, LastAdminStays

----------------------------------------------------------------------------
(* Signing in: what verify_credentials grants was admitted when it was     *)
(* read, and an account that is not pending never becomes pending again.   *)

\* What any step leaves of an account that existed before it.
LEMMA RowsOnlySettle ==
  ASSUME NameInv, Next, NEW i \in Ids, i < nextId, users'[i] # NoUser
  PROVE  /\ users[i] # NoUser
         /\ users'[i].username = users[i].username
         /\ users[i].status # "pending" => users'[i].status # "pending"
<1>1. TypeOK /\ nextId \in Nat /\ i \in Nat
  BY StoreAssumption DEF NameInv, TypeOK, Ids
<1>2. CASE Calm
  BY <1>1, <1>2 DEF Calm, Arrives, SameStanding, SameRank, SameAccount
<1>3. ASSUME NEW c \in Clients, Decision(c)
      PROVE  /\ users[i] # NoUser
             /\ users'[i].username = users[i].username
             /\ users[i].status # "pending" => users'[i].status # "pending"
  <2>1. CASE i # job[c].id
    BY <1>1, <1>3, <2>1, DecisionFrame
  <2>2. CASE i = job[c].id
    <3>1. users[i] # NoUser
      BY <1>1, <1>3, <2>2, DecisionFrame
    <3>2. users'[i].username = users[i].username
      BY <1>1, <1>3, <2>2, <3>1, DecisionFrame DEF RowStep
    <3>3. users[i].status # "pending" => users'[i].status # "pending"
      BY <1>1, <1>3, <2>2, <3>1, DecidedStanding
    <3>. QED
      BY <3>1, <3>2, <3>3
  <2>. QED
    BY <2>1, <2>2
<1>. QED
  BY <1>1, <1>2, <1>3, StepCases

\* No call ever acts on another account than the one it was started for.
THEOREM TargetNamed == Spec => TargetKeepsItsName
<1>1. ASSUME NameInv, Next, NEW c \in Clients, job[c] # Idle, users'[job[c].id] # NoUser
      PROVE  users[job[c].id] # NoUser /\ users'[job[c].id].username = job[c].username
  <2>1. job[c].id \in Ids /\ job[c].id < nextId
    BY <1>1 DEF NameInv, TypeOK, IdsUsed, Job
  <2>2. /\ users[job[c].id] # NoUser
        /\ users'[job[c].id].username = users[job[c].id].username
    BY <1>1, <2>1, RowsOnlySettle
  <2>. QED
    BY <1>1, <2>2 DEF NameInv, CallsNamed
<1>2. NameInv /\ [Next]_storeVars =>
        [\A c \in Clients :
           job[c] # Idle /\ users'[job[c].id] # NoUser
             => /\ users[job[c].id] # NoUser
                /\ users'[job[c].id].username = job[c].username]_storeVars
  BY <1>1
<1>. QED
  BY <1>2, NameInit, NameStep, PTL DEF Spec, TargetKeepsItsName

Granted(c) ==
  /\ At(c, "grant") => job[c].admitted
  /\ At(c, "reread") /\ job[c].call = "login" => job[c].admitted

AdmittedSettled(c) ==
  job[c] # Idle /\ job[c].admitted /\ users[job[c].id] # NoUser
    => users[job[c].id].status # "pending"

LoginInv == NameInv /\ \A c \in Clients : Granted(c) /\ AdmittedSettled(c)

LEMMA SettledStep ==
  ASSUME LoginInv, Next, NEW c \in Clients
  PROVE  AdmittedSettled(c)'
<1>1. JobStep(c) /\ TypeOK /\ NameInv
  BY StepFrame DEF LoginInv, NameInv, Frame
<1>2. CASE job'[c] = Idle
  BY <1>2 DEF AdmittedSettled
<1>3. CASE /\ job[c] # Idle
           /\ job'[c].id = job[c].id /\ job'[c].admitted = job[c].admitted
  <2>1. job[c].id \in Ids /\ job[c].id < nextId
    BY <1>1, <1>3, TargetRow DEF NameInv, IdsUsed
  <2>2. users'[job[c].id] # NoUser =>
          /\ users[job[c].id] # NoUser
          /\ users[job[c].id].status # "pending" => users'[job[c].id].status # "pending"
    BY <1>1, <2>1, RowsOnlySettle
  <2>. QED
    BY <1>3, <2>2 DEF AdmittedSettled, LoginInv
<1>4. CASE /\ users' = users
           /\ job'[c].admitted => users[job'[c].id].status = "active"
  BY <1>4 DEF AdmittedSettled
<1>. QED
  BY <1>1, <1>2, <1>3, <1>4 DEF JobStep

\* A call that stays where it is, returns, or goes on to a step that grants
\* nothing.
LEMMA GrantsNothing ==
  ASSUME LoginInv, NEW c \in Clients,
         \/ job'[c] = job[c] \/ job'[c] = Idle
         \/ job'[c].at \in {"lookup", "count", "write", "hash", "fail"}
  PROVE  Granted(c)'
BY DEF LoginInv, Granted, At

LEMMA GrantedStep ==
  ASSUME LoginInv, Next, NEW d \in Clients
  PROVE  Granted(d)'
<1>0. TypeOK /\ job \in [Clients -> Job \cup {Idle}]
  BY DEF LoginInv, NameInv, TypeOK
<1>1. ASSUME NEW c \in Clients, Inserts(c) PROVE Granted(d)'
  BY <1>1, GrantsNothing DEF Inserts, Create, Signup, Bootstrap, Insert
<1>2. ASSUME NEW c \in Clients, NEW call, NEW at \in {"count", "write", "lookup", "hash"},
             NEW i \in Ids, NEW pw, Begin(c, call, at, i, pw)
      PROVE  Granted(d)'
  BY <1>0, <1>2, GrantsNothing DEF Begin
<1>3. ASSUME NEW c \in Clients, Reads(c) PROVE Granted(d)'
  <2>1. CASE ReadForChange(c)
    <3>1. job[c] \in Job
      BY <1>0, <2>1 DEF ReadForChange, At
    <3>2. [job[c] EXCEPT !.at = "write", !.version = users[job[c].id].version].at
            = "write"
      BY <3>1 DEF Job
    <3>. QED
      BY <1>0, <2>1, <3>2, GrantsNothing DEF ReadForChange, Return
  <2>2. ASSUME NEW i \in Ids, NEW pw \in Passwords,
               \/ \E call \in Calls : ReadTarget(c, call, i) \/ ReadPending(c, call, i)
               \/ ReadForReset(c, i, pw) \/ VerifyOwnPassword(c, i, pw)
               \/ ReadForLogin(c, i, pw)
        PROVE  Granted(d)'
    BY <1>2, <2>2
    DEF ReadTarget, ReadPending, ReadForReset, VerifyOwnPassword, ReadForLogin
  <2>. QED
    BY <1>3, <2>1, <2>2 DEF Reads
<1>4. ASSUME NEW c \in Clients, job[c] # Idle, Goto(c, "write") \/ Goto(c, "fail")
      PROVE  Granted(d)'
  BY <1>0, <1>4, GrantsNothing DEF Goto, Job
<1>5. ASSUME NEW c \in Clients, Return(c) PROVE Granted(d)'
  BY <1>0, <1>5, GrantsNothing DEF Return
<1>6. ASSUME NEW c \in Clients, job[c] # Idle, job[c].admitted,
             Goto(c, "grant") \/ Goto(c, "reread")
      PROVE  Granted(d)'
  <2>1. job[c] \in Job
    BY <1>0, <1>6
  <2>2. d # c => job'[d] = job[d]
    BY <1>0, <1>6 DEF Goto
  <2>3. job'[c].admitted
    BY <1>0, <1>6, <2>1 DEF Goto, Job
  <2>. QED
    BY <2>2, <2>3, GrantsNothing DEF Granted
<1>7. ASSUME NEW c \in Clients, job[c] # Idle, job[c].call = "change", Goto(c, "reread")
      PROVE  Granted(d)'
  <2>1. job[c] \in Job
    BY <1>0, <1>7
  <2>2. d # c => job'[d] = job[d]
    BY <1>0, <1>7 DEF Goto
  <2>3. job'[c].call = "change" /\ job'[c].at = "reread"
    BY <1>0, <1>7, <2>1 DEF Goto, Job
  <2>. QED
    BY <2>2, <2>3, GrantsNothing DEF Granted, At
<1>8. ASSUME NEW c \in Clients, CountOthers(c) PROVE Granted(d)'
  BY <1>4, <1>5, <1>8 DEF CountOthers, At
<1>9. ASSUME NEW c \in Clients, Writes(c) PROVE Granted(d)'
  <2>1. CASE WritePassword(c)
    BY <1>5, <1>7, <2>1 DEF WritePassword, Writing, At
  <2>2. CASE Decision(c)
    BY <1>5, <2>2
    DEF Decision, WriteRole, WriteActive, WriteInactive, WriteApproval, DeleteRow, Finish
  <2>3. ASSUME NEW i \in Ids, Unlock(c, i) PROVE Granted(d)'
    BY <2>3, GrantsNothing DEF Unlock
  <2>. QED
    BY <1>9, <2>1, <2>2, <2>3 DEF Writes, Decision
<1>10. ASSUME NEW c \in Clients, Login(c) PROVE Granted(d)'
  <2>1. CASE CheckHash(c)
    BY <1>4, <1>5, <1>6, <2>1 DEF CheckHash, At
  <2>2. CASE WriteFailure(c)
    BY <1>5, <2>2 DEF WriteFailure, Finish
  <2>3. ASSUME NEW rehash \in BOOLEAN, WriteSuccess(c, rehash) PROVE Granted(d)'
    <3>1. job[c] # Idle /\ job[c].admitted
      BY <2>3 DEF WriteSuccess, At, LoginInv, Granted
    <3>. QED
      BY <1>6, <2>3, <3>1 DEF WriteSuccess
  <2>4. CASE Reread(c)
    BY <1>5, <2>4 DEF Reread
  <2>. QED
    BY <1>10, <2>1, <2>2, <2>3, <2>4 DEF Login
<1>11. ASSUME NEW i \in Ids, LockExpires(i) PROVE Granted(d)'
  BY <1>11, GrantsNothing DEF LockExpires
<1>. QED
  BY <1>1, <1>3, <1>8, <1>9, <1>10, <1>11 DEF Next

LEMMA LoginInit == Init => LoginInv
BY NameInit DEF Init, LoginInv, Granted, AdmittedSettled, At

LEMMA LoginStep == LoginInv /\ [Next]_storeVars => LoginInv'
<1> SUFFICES ASSUME LoginInv, [Next]_storeVars PROVE LoginInv'
  OBVIOUS
<1>1. NameInv'
  BY NameStep DEF LoginInv
<1>2. CASE Next
  BY <1>1, <1>2, SettledStep, GrantedStep DEF LoginInv
<1>3. CASE UNCHANGED storeVars
  BY <1>1, <1>3 DEF storeVars, LoginInv, Granted, AdmittedSettled, At
<1>. QED
  BY <1>2, <1>3

\* Whoever verify_credentials lets in was admitted when the call read the
\* account, and no later decision made the account pending.
THEOREM GrantsAreSettled == Spec => []LoginInv
BY LoginInit, LoginStep, PTL DEF Spec
----------------------------------------------------------------------------
(* The refinement: with one operator, the transactions of a call come to   *)
(* one step of AccountRegistry at the write, and to none before it.        *)

\* What the registry sees of a row.
LEMMA Entry ==
  ASSUME NEW row \in Row, row.isActive <=> row.status = "active"
  PROVE  /\ Registered(row) = [username |-> row.username, role |-> row.role,
                               state |-> row.status]
         /\ Registered(row) # NoUser
<1>1. row # NoUser
  BY StoreAssumption
<1>2. [username |-> row.username, role |-> row.role, state |-> row.status]
        \in [username : Usernames, role : Roles, state : Statuses]
  BY DEF Row
<1>. QED
  BY <1>1, <1>2, StoreAssumption DEF Registered

LEMMA EntryGone == Registered(NoUser) = NoUser
BY DEF Registered

LEMMA RankUnseen ==
  ASSUME NEW row \in Row, NEW old \in Row, SameRank(row, old)
  PROVE  Registered(row) = Registered(old)
BY StoreAssumption DEF Registered, SameRank, SameAccount

\* The registry holds the live accounts, and its administrators are those
\* count_active_admins counts.
LEMMA SameAdministrators ==
  ASSUME TypeOK, StatusAgrees
  PROVE  Registry!Held = Live /\ Registry!Administrators = ActiveAdmins
<1>1. ASSUME NEW i \in Ids, users[i] # NoUser
      PROVE  /\ Registered(users[i]) # NoUser
             /\ Registered(users[i]).role = users[i].role
             /\ Registered(users[i]).state = users[i].status
             /\ users[i].isActive <=> users[i].status = "active"
  BY <1>1, Entry DEF TypeOK, StatusAgrees, Live
<1>2. ASSUME NEW i \in Ids, users[i] = NoUser PROVE Registered(users[i]) = NoUser
  BY <1>2, EntryGone
<1>3. Registry!Held = Live
  BY <1>1, <1>2 DEF Registry!Held, Live, Ids
<1>. QED
  BY <1>1, <1>3 DEF Registry!Administrators, ActiveAdmins, Live

\* A step that inserts nothing and decides nothing goes unnoticed.
LEMMA CalmUnseen ==
  ASSUME TypeOK, TypeOK', Calm, nextId' = nextId
  PROVE  UNCHANGED Registry!registry
<1>1. nextId # nextId + 1
  BY StoreAssumption DEF TypeOK
<1>2. ASSUME NEW i \in Ids PROVE Registered(users'[i]) = Registered(users[i])
  <2>1. users'[i] = users[i] \/ SameStanding(i)
    BY <1>1 DEF Calm, Arrives
  <2>2. CASE SameStanding(i)
    BY <2>2, RankUnseen DEF SameStanding, TypeOK
  <2>. QED
    BY <2>1, <2>2
<1>. QED
  BY <1>2 DEF Registry!registry

\* An insert opens the account under the next id.
LEMMA InsertOpens ==
  ASSUME TypeOK, StatusAgrees, NEW call, NEW name \in Usernames, NEW pw \in Passwords,
         NEW role \in Roles, NEW status \in Statuses, NEW force \in BOOLEAN,
         status = "active" \/ (status = "pending" /\ role = "user"),
         Insert(call, name, pw, role, status, force)
  PROVE  Registry!RNext
<1> DEFINE row == [username |-> name, password |-> pw, role |-> role,
                   isActive |-> (status = "active"), status |-> status,
                   version |-> 1, failed |-> 0, locked |-> FALSE, force |-> force]
           entry == [username |-> name, role |-> role, state |-> status]
<1>1. Registered(row) = entry
  <2>1. row \in Row
    BY ZeroFailures DEF Row
  <2>. QED
    BY <2>1, Entry
<1>2. /\ users' = [users EXCEPT ![nextId] = row] /\ nextId' = nextId + 1
      /\ nextId \in Ids /\ \A i \in Live : users[i].username # name
  BY DEF Insert, FreshId
<1>3. nextId - 1 < MaxUsers /\ nextId' - 1 = (nextId - 1) + 1 /\ nextId' - 1 = nextId
  BY <1>2, StoreAssumption DEF Ids
<1>4. \A i \in Registry!Held : Registered(users[i]).username # name
  <2>1. ASSUME NEW i \in Live PROVE Registered(users[i]).username # name
    BY <1>2, Entry DEF Live, TypeOK, StatusAgrees
  <2>. QED
    BY <2>1, SameAdministrators
<1>5. \A i \in Ids : users'[i] = IF i = nextId THEN row ELSE users[i]
  <2> HIDE DEF row
  <2>. QED
    BY <1>2 DEF TypeOK
<1>6. [i \in Ids |-> Registered(users'[i])]
        = [[i \in Ids |-> Registered(users[i])] EXCEPT ![nextId] = entry]
  <2> HIDE DEF row, entry
  <2>1. \A i \in Ids :
          Registered(users'[i]) = IF i = nextId THEN entry ELSE Registered(users[i])
    BY <1>1, <1>5
  <2>. QED
    BY <1>2, <2>1
<1>7. Registry!Open(name, role, status)
  <2> HIDE DEF row
  <2>1. \A i \in Registry!Held : [k \in Ids |-> Registered(users[k])][i].username # name
    BY <1>4 DEF Registry!Held, Ids
  <2>. QED
    BY <1>3, <1>6, <2>1 DEF Registry!Open
<1>. QED
  BY <1>7 DEF Registry!RNext, Roles

LEMMA InsertsOpen ==
  ASSUME TypeOK, StatusAgrees, NEW c \in Clients, Inserts(c)
  PROVE  Registry!RNext
<1> PICK name \in Usernames, pw \in Passwords :
       \/ \E role \in Roles : Create(c, name, pw, role)
       \/ Signup(c, name, pw)
       \/ Bootstrap(c, name, pw)
  BY DEF Inserts
<1>1. ASSUME NEW role \in Roles, Create(c, name, pw, role) PROVE Registry!RNext
  BY <1>1, InsertOpens DEF Create, Statuses
<1>2. CASE Signup(c, name, pw)
  BY <1>2, InsertOpens DEF Signup, Statuses, Roles
<1>3. CASE Bootstrap(c, name, pw)
  BY <1>3, InsertOpens DEF Bootstrap, Statuses, Roles
<1>. QED
  BY <1>1, <1>2, <1>3

\* The guard of each decision, as AdminInv keeps it until the write.
LEMMA DecisionAllowed ==
  ASSUME AdminInv, NEW c \in Clients, job[c].id \in Ids,
         Writing(c, RemovalCalls \cup {"reject"}), users[job[c].id] # NoUser
  PROVE  Registry!Dispensable(job[c].id)
<1>1. TypeOK /\ StatusAgrees
  BY DEF AdminInv, NameInv
<1>2. job[c].id \notin ActiveAdmins \/ ActiveAdmins \ {job[c].id} # {}
  <2>1. CASE Writing(c, RemovalCalls)
    BY <2>1 DEF AdminInv, Guarded, RemovalSafe
  <2>2. CASE Writing(c, {"reject"})
    BY <1>1, <2>2 DEF AdminInv, Guarded, SignupOpen, Writing, SignupCalls, StatusAgrees,
                      ActiveAdmins, Live
  <2>. QED
    BY <2>1, <2>2 DEF Writing
<1>. QED
  BY <1>1, <1>2, SameAdministrators DEF Registry!Dispensable

\* A decision on a live account is one operation of the registry; on an
\* account deleted in the meantime it is none.
LEMMA DecisionRegisters ==
  ASSUME AdminInv, TypeOK', StatusAgrees', NEW c \in Clients, Decision(c)
  PROVE  [Registry!RNext]_(Registry!registry)
<1> DEFINE i        == job[c].id
           old      == users[i]
           new      == users'[i]
           view     == [k \in Ids |-> Registered(users[k])]
           nextView == [k \in Ids |-> Registered(users'[k])]
<1>1. TypeOK /\ StatusAgrees
  BY DEF AdminInv, NameInv
<1>2. /\ Writing(c, DecisionCalls) /\ nextId' = nextId /\ i \in Ids
      /\ \A k \in Ids : k # i => users'[k] = users[k]
      /\ RowStep(i) /\ (old = NoUser => new = NoUser)
  BY <1>1, DecisionFrame
<1>3. nextView = [view EXCEPT ![i] = Registered(new)]
  BY <1>2
<1>4. CASE old = NoUser
  <2>1. nextView = view
    BY <1>2, <1>4
  <2>. QED
    BY <1>2, <2>1 DEF Registry!registry
<1>5. CASE old # NoUser
  <2>1. /\ old \in Row /\ i \in Registry!Held
        /\ old.isActive <=> old.status = "active"
    BY <1>1, <1>2, <1>5, SameAdministrators DEF TypeOK, StatusAgrees, Live
  <2>2. view[i] = [username |-> old.username, role |-> old.role, state |-> old.status]
    <3> HIDE DEF old
    <3>1. Registered(old) = [username |-> old.username, role |-> old.role,
                             state |-> old.status]
      BY <2>1, Entry
    <3>2. view[i] = Registered(old)
      <4> USE DEF old
      <4>. QED
        BY <1>2
    <3>. QED
      BY <3>1, <3>2
  <2>3. CASE new = NoUser
    <3>1. Writing(c, {"delete", "reject"})
      BY <1>1, <1>2, <1>5, <2>3, DecidedStanding
    <3>2. Registry!Dispensable(i)
      BY <1>2, <1>5, <3>1, DecisionAllowed DEF Writing, RemovalCalls
    <3>3. nextView = [view EXCEPT ![i] = NoUser]
      BY <1>3, <2>3, EntryGone
    <3>4. Registry!Delete(i)
      BY <1>2, <2>1, <3>2, <3>3 DEF Registry!Delete
    <3>. QED
      BY <2>1, <3>4 DEF Registry!RNext
  <2>4. CASE new # NoUser
    <3>1. /\ new \in Row /\ new.username = old.username
          /\ new.isActive <=> new.status = "active"
      <4>1. nextId # nextId + 1
        BY <1>1, StoreAssumption DEF TypeOK
      <4>. QED
        BY <1>2, <2>4, <4>1 DEF TypeOK, StatusAgrees, Live, RowStep
    <3>2. nextView = [view EXCEPT ![i] = [username |-> old.username, role |-> new.role,
                                          state |-> new.status]]
      <4>1. Registered(new) = [username |-> old.username, role |-> new.role,
                               state |-> new.status]
        <5> HIDE DEF new, old
        <5>. QED
          BY <3>1, Entry
      <4> HIDE DEF new, old, view, nextView
      <4>. QED
        BY <1>3, <4>1
    <3>3. CASE /\ new.status = old.status
               /\ new.role = "admin" \/ Writing(c, {"demote"})
      <4>1. nextView = [view EXCEPT ![i].role = new.role]
        <5> HIDE DEF i, old, new, view, nextView
        <5>1. [view EXCEPT ![i].role = new.role]
                = [view EXCEPT ![i] = [username |-> old.username, role |-> new.role,
                                                state |-> old.status]]
          <6>1. [view[i] EXCEPT !.role = new.role]
                  = [username |-> old.username, role |-> new.role, state |-> old.status]
            BY <2>2
          <6>. QED
            BY <6>1
        <5>. QED
          BY <3>2, <3>3, <5>1
      <4>2. new.role = "user" => Registry!Dispensable(i)
        BY <1>2, <1>5, <3>3, DecisionAllowed DEF Writing, RemovalCalls
      <4>3. Registry!Appoint(i, new.role)
        BY <1>2, <2>1, <4>1, <4>2 DEF Registry!Appoint
      <4>4. new.role \in {"admin", "user"}
        <5> HIDE DEF new
        <5>. QED
          BY <3>1 DEF Row, Roles
      <4>. QED
        BY <2>1, <4>3, <4>4 DEF Registry!RNext
    <3>4. CASE new.role = old.role /\ new.status = "active"
      <4>1. nextView = [view EXCEPT ![i].state = "active"]
        <5> HIDE DEF i, old, new, view, nextView
        <5>1. [view EXCEPT ![i].state = "active"]
                = [view EXCEPT ![i] = [username |-> old.username, role |-> old.role,
                                                state |-> "active"]]
          <6>1. [view[i] EXCEPT !.state = "active"]
                  = [username |-> old.username, role |-> old.role, state |-> "active"]
            BY <2>2
          <6>. QED
            BY <6>1
        <5>. QED
          BY <3>2, <3>4, <5>1
      <4>2. Registry!Activate(i)
        BY <1>2, <2>1, <4>1 DEF Registry!Activate
      <4>. QED
        BY <2>1, <4>2 DEF Registry!RNext
    <3>5. CASE Writing(c, {"deactivate"}) /\ new.role = old.role /\ new.status = "disabled"
      <4>1. nextView = [view EXCEPT ![i].state = "disabled"]
        <5> HIDE DEF i, old, new, view, nextView
        <5>1. [view EXCEPT ![i].state = "disabled"]
                = [view EXCEPT ![i] = [username |-> old.username, role |-> old.role,
                                                state |-> "disabled"]]
          <6>1. [view[i] EXCEPT !.state = "disabled"]
                  = [username |-> old.username, role |-> old.role, state |-> "disabled"]
            BY <2>2
          <6>. QED
            BY <6>1
        <5>. QED
          BY <3>2, <3>5, <5>1
      <4>2. Registry!Dispensable(i)
        BY <1>2, <1>5, <3>5, DecisionAllowed DEF Writing, RemovalCalls
      <4>3. Registry!Deactivate(i)
        BY <1>2, <2>1, <4>1, <4>2 DEF Registry!Deactivate
      <4>. QED
        BY <2>1, <4>3 DEF Registry!RNext
    <3>. QED
      BY <1>1, <1>2, <1>5, <2>4, <3>3, <3>4, <3>5, DecidedStanding
  <2>. QED
    BY <2>3, <2>4
<1>. QED
  BY <1>4, <1>5

LEMMA SeenCases ==
  ASSUME TypeOK, Next
  PROVE  \/ \E c \in Clients : Inserts(c) \/ Decision(c)
         \/ Calm /\ nextId' = nextId
<1>1. ASSUME NEW c \in Clients, Reads(c) \/ CountOthers(c) \/ Writes(c) \/ Login(c)
      PROVE  nextId' = nextId
  BY <1>1
  DEF Reads, ReadForChange, ReadTarget, ReadPending, ReadForReset, VerifyOwnPassword,
      ReadForLogin, Begin, CountOthers, Writes, WriteRole, WriteActive, WriteInactive,
      WriteApproval, DeleteRow, WritePassword, Unlock, Login, CheckHash, WriteFailure,
      WriteSuccess, Reread, Finish
<1>2. ASSUME NEW i \in Ids, LockExpires(i) PROVE nextId' = nextId
  BY <1>2 DEF LockExpires
<1>. QED
  BY <1>1, <1>2, StepCases DEF Next

LEMMA RegistryInit == Init => Registry!RInit
<1> SUFFICES ASSUME Init PROVE Registry!RInit
  OBVIOUS
<1>1. [i \in Ids |-> Registered(users[i])] = [i \in Ids |-> NoUser]
  BY EntryGone DEF Init
<1>. QED
  BY <1>1 DEF Init, Registry!RInit, Ids

LEMMA RegistryStep ==
  ASSUME SingleOperator, AdminInv, [Next]_storeVars
  PROVE  [Registry!RNext]_(Registry!registry)
<1>1. /\ TypeOK /\ TypeOK' /\ StatusAgrees /\ StatusAgrees'
  BY AdminStep DEF AdminInv, NameInv
<1>2. CASE UNCHANGED storeVars
  BY <1>2 DEF storeVars, Registry!registry
<1>3. CASE Next
  BY <1>1, <1>3, SeenCases, InsertsOpen, DecisionRegisters, CalmUnseen
<1>. QED
  BY <1>2, <1>3

\* With one operator at a time, the look-up, the count and the write of each
\* call together are one operation of the registry, decided on the accounts as
\* they are at the write, whatever the sign-ups and sign-ins do in between.
THEOREM StoreImplementsRegistry == SingleOperator => (Spec => ImplementsRegistry)
<1> SUFFICES ASSUME SingleOperator PROVE Spec => ImplementsRegistry
  OBVIOUS
<1>1. AdminInv /\ [Next]_storeVars => AdminInv'
  BY AdminStep
<1>2. AdminInv /\ [Next]_storeVars => [Registry!RNext]_(Registry!registry)
  BY RegistryStep
<1>. QED
  BY <1>1, <1>2, AdminInit, RegistryInit, PTL DEF Spec, ImplementsRegistry, Registry!RSpec
=============================================================================
