----------------------------- MODULE UserStore -----------------------------
(***************************************************************************)
(* The accounts table of user_store.py and the operations on it.           *)
(*                                                                         *)
(* Every `with _connect()` block of the code is one SQLite transaction, so *)
(* an operation that looks a user up, checks something and then updates is *)
(* two or three transactions, and the script thread of another browser     *)
(* session can run between them.  A client of this module is one such      *)
(* thread; job[c] holds the local variables of the call it is inside, and  *)
(* job[c].at names the next transaction of that call.                      *)
(***************************************************************************)
EXTENDS Integers, FiniteSets

CONSTANTS
  Clients,            \* script threads that call the store
  Operators,          \* the clients that run administrator operations
  Usernames,          \* normalised usernames
  Passwords,          \* passwords (a stored hash is the password it verifies)
  NoUser,             \* what SELECT returns when there is no such row
  MaxFailedAttempts,  \* MAX_FAILED_ATTEMPTS of the code
  MayRehash,          \* TRUE when stored hashes may predate the Argon2 settings
  Calls,              \* the operations this instance exercises
  MaxUsers,           \* bound: accounts ever created
  MaxVersion          \* bound: largest session_version

Roles     == {"admin", "user"}
Statuses  == {"active", "pending", "disabled"}

\* The count that would lock the account is never stored.
Failures  == 0..(MaxFailedAttempts - 1)

\* A row of `users`; profile fields and timestamps are left out, and
\* locked says that locked_until lies in the future.
Row == [username : Usernames, password : Passwords, role : Roles,
        isActive : BOOLEAN, status : Statuses, version : Nat,
        failed : Failures, locked : BOOLEAN, force : BOOLEAN]

Ids == 1..MaxUsers

\* set_user_role and set_user_active called with each of their two arguments.
RoleCalls     == {"promote", "demote"}
ActiveCalls   == {"activate", "deactivate"}
SignupCalls   == {"approve", "reject"}
\* The calls that refuse to take away the last active administrator.
RemovalCalls  == {"demote", "deactivate", "delete"}
OperatorCalls == RoleCalls \cup ActiveCalls \cup SignupCalls
                   \cup {"delete", "reset", "unlock", "create"}
AllCalls      == OperatorCalls \cup {"change", "login", "signup", "bootstrap"}

ASSUME StoreAssumption ==
  /\ Operators \subseteq Clients
  /\ NoUser \notin Row
  /\ NoUser \notin [username : Usernames, role : Roles, state : Statuses]
  /\ MaxUsers \in Nat /\ MaxVersion \in Nat
  /\ MaxFailedAttempts \in Nat \ {0}
  /\ MayRehash \in BOOLEAN
  /\ Calls \subseteq AllCalls

VARIABLES
  users,   \* the table: users[i] is the row with id i, or NoUser
  nextId,  \* the AUTOINCREMENT counter: ids are never handed out twice
  job      \* job[c]: what client c read so far in the call it is inside

storeVars == <<users, nextId, job>>

Idle == [call |-> "none", at |-> "idle"]
Steps == {"lookup", "count", "write", "hash", "fail", "grant", "reread"}
Job  == [call : AllCalls, at : Steps, id : Ids, username : Usernames,
         password : Passwords, version : Nat, failed : Failures,
         admitted : BOOLEAN]

TypeOK ==
  /\ users \in [Ids -> Row \cup {NoUser}]
  /\ nextId \in 1..(MaxUsers + 1)
  /\ job \in [Clients -> Job \cup {Idle}]

----------------------------------------------------------------------------
Live == {i \in Ids : users[i] # NoUser}

ActiveAdmins == {i \in Live : users[i].role = "admin" /\ users[i].isActive}

Init ==
  /\ users = [i \in Ids |-> NoUser]
  /\ nextId = 1
  /\ job = [c \in Clients |-> Idle]

\* UPDATE users SET ... WHERE id = i, which touches no row once i is deleted.
Update(i, row) ==
  users' = IF users[i] = NoUser THEN users ELSE [users EXCEPT ![i] = row]

\* verify_credentials turns away pending and disabled accounts.
NotDisabled(i) == users[i].status # "disabled"
Admitted(i)    == users[i].isActive /\ users[i].status = "active"

\* The call has read row i and keeps what it will use of it.
Begin(c, call, at, i, pw) ==
  /\ job[c] = Idle
  /\ call \in Calls
  /\ users[i] # NoUser /\ users[i].version < MaxVersion
  /\ job' = [job EXCEPT ![c] =
       [call |-> call, at |-> at, id |-> i, username |-> users[i].username,
        password |-> pw, version |-> users[i].version, failed |-> users[i].failed,
        admitted |-> Admitted(i)]]
  /\ UNCHANGED <<users, nextId>>

At(c, step) == job[c] # Idle /\ job[c].at = step

Goto(c, step) == job' = [job EXCEPT ![c].at = step]

Return(c) == job' = [job EXCEPT ![c] = Idle]

----------------------------------------------------------------------------
(* create_user, in the three ways the program calls it.                    *)

\* id INTEGER PRIMARY KEY AUTOINCREMENT.
ReusedId == IF Live = Ids THEN nextId ELSE CHOOSE i \in Ids \ Live : \A k \in Ids \ Live : i <= k
FreshId == nextId

\* INSERT INTO users; the UNIQUE constraint on username makes it fail.
Insert(call, name, pw, role, status, force) ==
  /\ call \in Calls
  /\ nextId \in Ids
  /\ \A i \in Live : users[i].username # name
  /\ users' = [users EXCEPT ![FreshId] =
       [username |-> name, password |-> pw, role |-> role,
        isActive |-> (status = "active"), status |-> status, version |-> 1,
        failed |-> 0, locked |-> FALSE, force |-> force]]
  /\ nextId' = nextId + 1
  /\ UNCHANGED job

Create(c, name, pw, role) ==
  c \in Operators /\ job[c] = Idle /\ Insert("create", name, pw, role, "active", TRUE)

Signup(c, name, pw) ==
  job[c] = Idle /\ Insert("signup", name, pw, "user", "pending", FALSE)

Bootstrap(c, name, pw) ==
  job[c] = Idle /\ Insert("bootstrap", name, pw, "admin", "active", FALSE)

----------------------------------------------------------------------------
(* First transaction of the administrator operations: look the target up.  *)

\* set_user_role and set_user_active, delete_user: an administrator that
\* would lose the role or the account is counted next.
ReadTarget(c, call, i) ==
  /\ c \in Operators
  /\ call \in RoleCalls \cup ActiveCalls \cup {"delete"}
  /\ users[i] # NoUser
  /\ Begin(c, call,
           IF call \in RemovalCalls /\ users[i].role = "admin" THEN "count" ELSE "write",
           i, users[i].password)

\* approve_pending_signup and reject_pending_signup.
ReadPending(c, call, i) ==
  /\ c \in Operators
  /\ call \in SignupCalls
  /\ users[i] # NoUser /\ users[i].status = "pending"
  /\ Begin(c, call, "write", i, users[i].password)

\* set_password, as an administrator calls it.
ReadForReset(c, i, pw) == c \in Operators /\ Begin(c, "reset", "write", i, pw)

\* change_own_password verifies the current password in a transaction of its
\* own and asks for a different one; set_password then looks the user up.
VerifyOwnPassword(c, i, pw) ==
  /\ users[i] # NoUser /\ users[i].password # pw
  /\ Begin(c, "change", "lookup", i, pw)

ReadForChange(c) ==
  /\ At(c, "lookup")
  /\ LET i == job[c].id IN
     IF users[i] = NoUser
     THEN Return(c)
     ELSE /\ users[i].version < MaxVersion
          /\ job' = [job EXCEPT ![c].at = "write", ![c].version = users[i].version]
  /\ UNCHANGED <<users, nextId>>

\* count_active_admins(exclude_user_id), in a transaction of its own.
AllAdmins(c) == ActiveAdmins
OtherAdmins(c) == ActiveAdmins \ {job[c].id}

CountOthers(c) ==
  /\ At(c, "count")
  /\ IF OtherAdmins(c) = {} THEN Return(c) ELSE Goto(c, "write")
  /\ UNCHANGED <<users, nextId>>

----------------------------------------------------------------------------
(* Last transaction: the write, computed from what was read before.        *)

Writing(c, calls) == At(c, "write") /\ job[c].call \in calls

Finish(c) == Return(c) /\ UNCHANGED nextId

WriteRole(c) ==
  /\ Writing(c, RoleCalls)
  /\ LET i == job[c].id IN
     Update(i, [users[i] EXCEPT
                  !.role = IF job[c].call = "promote" THEN "admin" ELSE "user",
                  !.version = job[c].version + 1])
  /\ Finish(c)

WriteActive(c) ==
  /\ Writing(c, {"activate"})
  /\ LET i == job[c].id IN
     Update(i, [users[i] EXCEPT !.isActive = TRUE, !.status = "active"])
  /\ Finish(c)

WriteInactive(c) ==
  /\ Writing(c, {"deactivate"})
  /\ LET i == job[c].id IN
     Update(i, [users[i] EXCEPT !.isActive = FALSE, !.status = "disabled",
                                !.version = job[c].version + 1])
  /\ Finish(c)

FlagActive(c) ==
  /\ Writing(c, {"approve"})
  /\ LET i == job[c].id IN Update(i, [users[i] EXCEPT !.isActive = TRUE])
  /\ Finish(c)

WriteApproval(c) ==
  /\ Writing(c, {"approve"})
  /\ LET i == job[c].id IN
     Update(i, [users[i] EXCEPT !.isActive = TRUE, !.status = "active"])
  /\ Finish(c)

\* delete_user and reject_pending_signup both end in DELETE ... WHERE id.
DeleteRow(c) ==
  /\ Writing(c, {"delete", "reject"})
  /\ users' = [users EXCEPT ![job[c].id] = NoUser]
  /\ Finish(c)

ResetVersion(c) == IF job[c].call = "reset" THEN job[c].version + 1 ELSE job[c].version
NewVersion(c)   == job[c].version + 1

\* set_password; only a reset makes the next sign-in ask for a new one.
WritePassword(c) ==
  /\ Writing(c, {"reset", "change"})
  /\ LET i == job[c].id IN
     Update(i, [users[i] EXCEPT !.password = job[c].password,
                                !.force = (job[c].call = "reset"),
                                !.failed = 0, !.locked = FALSE,
                                !.version = NewVersion(c)])
  /\ IF job[c].call = "change" THEN Goto(c, "reread") ELSE Return(c)
  /\ UNCHANGED nextId

\* unlock_user reads nothing first.
Unlock(c, i) ==
  /\ c \in Operators /\ job[c] = Idle /\ "unlock" \in Calls
  /\ users[i] # NoUser
  /\ Update(i, [users[i] EXCEPT !.failed = 0, !.locked = FALSE])
  /\ UNCHANGED <<nextId, job>>

----------------------------------------------------------------------------
(* verify_credentials                                                      *)

\* The row is read by username; a locked account goes no further.
ReadForLogin(c, i, pw) ==
  /\ users[i] # NoUser /\ ~users[i].locked
  /\ Begin(c, "login", "hash", i, pw)

\* The hash is read again, by id; whether the account is pending or disabled
\* is judged by the first read.
CheckHash(c) ==
  /\ At(c, "hash")
  /\ LET i  == job[c].id
         ok == users[i] # NoUser /\ users[i].password = job[c].password
     IN  \/ ~ok /\ Goto(c, "fail")
         \/ ok /\ job[c].admitted /\ Goto(c, "grant")
         \/ ok /\ ~job[c].admitted /\ Return(c)
  /\ UNCHANGED <<users, nextId>>

LocksLate(failures) == failures > MaxFailedAttempts
Locks(failures)     == failures >= MaxFailedAttempts

\* One more failure than were read; the last one allowed locks instead.
WriteFailure(c) ==
  /\ At(c, "fail")
  /\ LET i        == job[c].id
         failures == job[c].failed + 1
         lock     == Locks(failures)
     IN  Update(i, [users[i] EXCEPT !.failed = IF lock THEN 0 ELSE failures,
                                    !.locked = @ \/ lock])
  /\ Finish(c)

\* Success clears the failures and the lock, and may store the typed
\* password again under the current Argon2 settings.
WriteSuccess(c, rehash) ==
  /\ At(c, "grant")
  /\ LET i == job[c].id IN
     Update(i, [users[i] EXCEPT !.failed = 0, !.locked = FALSE,
                                !.password = IF rehash THEN job[c].password ELSE @])
  /\ Goto(c, "reread")
  /\ UNCHANGED nextId

\* verify_credentials and set_password read the user once more, by id, and
\* return it to the caller.
Reread(c) ==
  /\ At(c, "reread")
  /\ Return(c)
  /\ UNCHANGED <<users, nextId>>

\* LOCKOUT_MINUTES pass.
LockExpires(i) ==
  /\ users[i] # NoUser /\ users[i].locked
  /\ users' = [users EXCEPT ![i].locked = FALSE]
  /\ UNCHANGED <<nextId, job>>

----------------------------------------------------------------------------
Reads(c) ==
  \/ ReadForChange(c)
  \/ \E i \in Ids, pw \in Passwords :
       \/ \E call \in Calls : ReadTarget(c, call, i) \/ ReadPending(c, call, i)
       \/ ReadForReset(c, i, pw) \/ VerifyOwnPassword(c, i, pw)
       \/ ReadForLogin(c, i, pw)

Writes(c) ==
  \/ WriteRole(c) \/ WriteActive(c) \/ WriteInactive(c) \/ WriteApproval(c)
  \/ DeleteRow(c) \/ WritePassword(c)
  \/ \E i \in Ids : Unlock(c, i)

Login(c) ==
  \/ CheckHash(c) \/ WriteFailure(c)
  \/ \E rehash \in BOOLEAN : (rehash => MayRehash) /\ WriteSuccess(c, rehash)
  \/ Reread(c)

Inserts(c) ==
  \E name \in Usernames, pw \in Passwords :
    \/ \E role \in Roles : Create(c, name, pw, role)
    \/ Signup(c, name, pw)
    \/ Bootstrap(c, name, pw)

Next ==
  \/ \E c \in Clients : Inserts(c) \/ Reads(c) \/ CountOthers(c) \/ Writes(c) \/ Login(c)
  \/ \E i \in Ids : LockExpires(i)

Spec == Init /\ [][Next]_storeVars

----------------------------------------------------------------------------
\* The account that a call was started for is the only one it can touch: it
\* keeps its name, and once delete_user or reject_pending_signup took it out of
\* the table no other account, of whatever name, has its id while a slower call
\* still carries it.
TargetKeepsItsName ==
  [][\A c \in Clients :
       job[c] # Idle /\ users'[job[c].id] # NoUser
         => /\ users[job[c].id] # NoUser
            /\ users'[job[c].id].username = job[c].username]_storeVars

\* Sign-in judges an account by account_status and by is_active, every later
\* rerun by is_active alone: no sequence of calls makes the two disagree.
StatusAgrees == \A i \in Live : users[i].isActive <=> users[i].status = "active"

\* The registry's view of a row: its standing is one of three states as long as
\* the two columns it is made of agree.
Registered(row) ==
  IF row = NoUser THEN NoUser
  ELSE [username |-> row.username, role |-> row.role,
        state |-> IF row.isActive <=> row.status = "active" THEN row.status ELSE "torn"]

Registry == INSTANCE AccountRegistry WITH
  accounts <- [i \in Ids |-> Registered(users[i])],
  issued   <- nextId - 1

\* The check and the write of an administrator operation are separate
\* transactions: what the check found out survives until the write only when
\* no second operator is at work.
SingleOperator == \A a, b \in Operators : a = b

\* Whatever the operator, the sign-ups and the sign-ins do between the look-up,
\* the count and the write of an operation, the table changes as if each were
\* one step that decides on the table as it is, with a single operator.
ImplementsRegistry == Registry!RSpec

\* Once there is an active administrator there always is one: demoting,
\* deactivating, deleting and rejecting never remove the last (user_store.py
\* set_user_role, set_user_active, delete_user), with a single operator.
LastAdminStays == [][ActiveAdmins # {} => ActiveAdmins' # {}]_storeVars

\* A rejection deletes an account only while it waits for approval: one that
\* was approved since the look-up stays (user_store.py reject_pending_signup,
\* whose check and DELETE are two transactions).
RejectsOnlyPending ==
  [][\A c \in Clients :
       Writing(c, {"reject"}) /\ job'[c] = Idle /\ users[job[c].id] # NoUser
         => users[job[c].id].status = "pending"]_storeVars

\* Every wrong password brings the account one failure closer to its lock.
EveryMissCounts ==
  [][\A c \in Clients :
       At(c, "fail") /\ job'[c] = Idle /\ users[job[c].id] # NoUser
         => \/ users'[job[c].id].locked
            \/ users'[job[c].id].failed = users[job[c].id].failed + 1]_storeVars
============================================================================
