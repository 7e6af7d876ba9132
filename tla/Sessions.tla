------------------------------ MODULE Sessions ------------------------------
(***************************************************************************)
(* Browser sessions over the accounts table: the login page, the session   *)
(* gate that main() runs on every rerun (auth_session.enforce_session),    *)
(* the forced password change, the account page and the administration     *)
(* console (app.py, auth.py, auth_session.py, auth_ui.py, admin_console.py)*)
(*                                                                         *)
(* A client is one browser tab.  Streamlit runs the whole script once per  *)
(* interaction; page[c] says how far that run is, and "browser" that the   *)
(* tab waits for its user.  A widget's handler runs inside the rerun that  *)
(* drew it, so an operation starts only on a page the gate has let through.*)
(***************************************************************************)
EXTENDS UserStore

CONSTANTS
  NoSession,            \* session_state has no auth_user
  BootstrapConfigured,  \* BOOTSTRAP_ADMIN_USERNAME and _PASSWORD are set
  BootstrapName,
  BootstrapPassword

\* auth_user, the AuthenticatedUser kept in session_state.
Session == [id : Ids, username : Usernames, version : Nat, role : Roles,
            force : BOOLEAN]

Pages == {"browser", "gate", "seed", "login", "force", "app"}

ASSUME SessionAssumption ==
  /\ NoSession \notin Session
  /\ BootstrapConfigured \in BOOLEAN
  /\ BootstrapName \in Usernames /\ BootstrapPassword \in Passwords

VARIABLES sess, page

vars == <<users, nextId, job, sess, page>>

SessionsTypeOK ==
  /\ TypeOK
  /\ sess \in [Clients -> Session \cup {NoSession}]
  /\ page \in [Clients -> Pages]

SInit ==
  /\ Init
  /\ sess = [c \in Clients |-> NoSession]
  /\ page = [c \in Clients |-> "browser"]

----------------------------------------------------------------------------
\* to_authenticated_user
SessionFor(i) ==
  [id |-> i, username |-> users[i].username, version |-> users[i].version,
   role |-> users[i].role, force |-> users[i].force]

\* LocalPasswordProvider.revalidate
Revalidates(c) ==
  /\ sess[c] # NoSession
  /\ users[sess[c].id] # NoUser
  /\ users[sess[c].id].isActive
  /\ users[sess[c].id].version = sess[c].version

Show(c, p) == page' = [page EXCEPT ![c] = p]
On(c, p)   == page[c] = p /\ job[c] = Idle

\* enforce_session: what revalidates is refreshed from the table, and the
\* pending password change decides which page main() draws.
Enforce(c) ==
  /\ On(c, "browser")
  /\ Revalidates(c)
  /\ sess' = [sess EXCEPT ![c] = SessionFor(sess[c].id)]
  /\ Show(c, IF users[sess[c].id].force THEN "force" ELSE "app")
  /\ UNCHANGED storeVars

\* No session, a foreign ?sid=, a session past its idle or absolute limit, or
\* one that no longer revalidates: end_session, then the login page.
Refuse(c) ==
  /\ On(c, "browser")
  /\ sess' = [sess EXCEPT ![c] = NoSession]
  /\ Show(c, "gate")
  /\ UNCHANGED storeVars

\* The user looks at the page and interacts with it again.
Leave(c) ==
  /\ page[c] \in {"login", "force", "app"} /\ job[c] = Idle
  /\ Show(c, "browser")
  /\ UNCHANGED <<storeVars, sess>>

SignOut(c) ==
  /\ page[c] \in {"force", "app"} /\ job[c] = Idle
  /\ sess' = [sess EXCEPT ![c] = NoSession]
  /\ Show(c, "browser")
  /\ UNCHANGED storeVars

----------------------------------------------------------------------------
(* The login page: bootstrap_admin_if_needed first, then the forms.        *)

NoBootstrap(c) ==
  On(c, "gate") /\ Show(c, "login") /\ UNCHANGED <<storeVars, sess>>

BootstrapCheck(c) ==
  /\ On(c, "gate")
  /\ Show(c, IF Live = {} /\ BootstrapConfigured THEN "seed" ELSE "login")
  /\ UNCHANGED <<storeVars, sess>>

\* The count was a transaction of its own: the name may be taken by now.
BootstrapCreate(c) ==
  /\ On(c, "seed")
  /\ IF \E i \in Live : users[i].username = BootstrapName
     THEN UNCHANGED storeVars
     ELSE Bootstrap(c, BootstrapName, BootstrapPassword)
  /\ Show(c, "login")
  /\ UNCHANGED sess

SubmitSignup(c) ==
  /\ On(c, "login")
  /\ \E name \in Usernames, pw \in Passwords : Signup(c, name, pw)
  /\ Show(c, "browser")
  /\ UNCHANGED sess

SubmitLogin(c) ==
  /\ On(c, "login")
  /\ \E i \in Ids, pw \in Passwords : ReadForLogin(c, i, pw)
  /\ UNCHANGED <<sess, page>>

\* start_session with the record that verify_credentials read last.
SignIn(c) ==
  /\ At(c, "reread") /\ job[c].call = "login"
  /\ sess' = [sess EXCEPT ![c] =
       IF users[job[c].id] = NoUser THEN @ ELSE SessionFor(job[c].id)]
  /\ Reread(c)
  /\ Show(c, "browser")

----------------------------------------------------------------------------
(* The forced change and the account page: change_own_password.            *)

SubmitOwnPassword(c) ==
  /\ page[c] \in {"force", "app"} /\ job[c] = Idle
  /\ \E pw \in Passwords : VerifyOwnPassword(c, sess[c].id, pw)
  /\ UNCHANGED <<sess, page>>

\* The tab that made the change takes over the new session_version.
KeepSession(c) ==
  /\ At(c, "reread") /\ job[c].call = "change"
  /\ sess' = [sess EXCEPT ![c] =
       IF users[job[c].id] = NoUser THEN @ ELSE SessionFor(job[c].id)]
  /\ Reread(c)
  /\ Show(c, "browser")

\* An interaction while the script runs stops it at its next session_state
\* access: the transactions are done, the session is not updated.
Stopped(c) ==
  /\ At(c, "reread")
  /\ Reread(c)
  /\ Show(c, "browser")
  /\ UNCHANGED sess

----------------------------------------------------------------------------
(* The administration console.                                             *)

\* The console disables Deactivate and Delete on the administrator's own row.
ConsoleStart(c) ==
  \/ \E call \in Calls, i \in Ids :
       /\ call \in {"deactivate", "delete"} => i # sess[c].id
       /\ ReadTarget(c, call, i)
  \/ \E call \in Calls, i \in Ids : ReadPending(c, call, i)
  \/ \E i \in Ids, pw \in Passwords : ReadForReset(c, i, pw)

ConsoleAtOnce(c) ==
  \/ \E name \in Usernames, pw \in Passwords, role \in Roles : Create(c, name, pw, role)
  \/ \E i \in Ids : Unlock(c, i)

Console(c) ==
  /\ On(c, "app") /\ sess[c].role = "admin"
  /\ \/ ConsoleStart(c) /\ UNCHANGED page
     \/ ConsoleAtOnce(c) /\ Show(c, "browser")
  /\ UNCHANGED sess

\* The store call goes on; when it returns, the rerun is over.
Resume(c) ==
  /\ \/ CheckHash(c) \/ WriteFailure(c) \/ ReadForChange(c) \/ CountOthers(c)
     \/ \E rehash \in BOOLEAN : (rehash => MayRehash) /\ WriteSuccess(c, rehash)
     \/ WriteRole(c) \/ WriteActive(c) \/ WriteInactive(c) \/ WriteApproval(c)
     \/ DeleteRow(c) \/ WritePassword(c)
  /\ page' = IF job'[c] = Idle THEN [page EXCEPT ![c] = "browser"] ELSE page
  /\ UNCHANGED sess

----------------------------------------------------------------------------
SNext ==
  \/ \E c \in Clients :
       \/ Enforce(c) \/ Refuse(c) \/ Leave(c) \/ SignOut(c)
       \/ BootstrapCheck(c) \/ BootstrapCreate(c)
       \/ SubmitSignup(c) \/ SubmitLogin(c) \/ SignIn(c)
       \/ SubmitOwnPassword(c) \/ KeepSession(c) \/ Stopped(c)
       \/ Console(c) \/ Resume(c)
  \/ \E i \in Ids : LockExpires(i) /\ UNCHANGED <<sess, page>>

SSpec == SInit /\ [][SNext]_vars

----------------------------------------------------------------------------
\* Nobody works in an account that is still waiting for approval, whatever
\* was approved, rejected, deleted or signed up again while the sign-in ran.
NoPendingSession ==
  \A c \in Clients :
    sess[c] # NoSession /\ users[sess[c].id] # NoUser
      => users[sess[c].id].status # "pending"

\* A session is never about another account than the one signed in to: once that
\* account was deleted the session finds none, even when its username is taken
\* again and the table has a new row for it.
SessionOfItsAccount ==
  [][\A c \in Clients :
       sess[c] # NoSession /\ users'[sess[c].id] # NoUser
         => /\ users[sess[c].id] # NoUser
            /\ users'[sess[c].id].username = sess[c].username]_vars

\* With the bootstrap configured and one operator, a table that holds any
\* account holds an active administrator: sign-ups cannot get in first and
\* no operation removes the last one.
TableHasAdmin == Live # {} => ActiveAdmins # {}

\* The calls that write session_version: one more than they read.
Renewals == RoleCalls \cup {"deactivate", "reset", "change"}

\* Between that read and that write.
Renewing(c) ==
  job[c] # Idle /\ job[c].call \in Renewals /\ job[c].at \in {"count", "write"}

\* A call that speaks for account i because its password was right, and has yet
\* to put the row that comes out of it into auth_user: a sign-in from the check
\* of the hash on, an own change from the check of the current password on.
Vouching(c) ==
  job[c] # Idle /\ \/ job[c].call = "login" /\ job[c].at \in {"grant", "reread"}
                   \/ job[c].call = "change"

\* Nobody renews an account while another call renews it or speaks for it.
\* Nothing in the code sees to that: the run stale_reset shows what happens when
\* they do.
RenewalsApart ==
  \A c, d \in Clients :
    c # d /\ Renewing(c) /\ (Renewing(d) \/ Vouching(d)) => job[c].id # job[d].id

ApartSpec == SInit /\ [][SNext /\ RenewalsApart']_vars

\* A password change or reset ends every other session of that account.
ResetEndsSessions ==
  [][\A c, d \in Clients :
       (/\ Writing(c, {"reset", "change"}) /\ job'[c] # job[c]
        /\ users[job[c].id] # NoUser
        /\ d # c /\ sess[d] # NoSession /\ sess[d].id = job[c].id)
       => sess[d].version # users'[job[c].id].version]_vars

\* It puts every other session of the account behind the new session_version;
Behind ==
  \A c, d \in Clients :
    (/\ Writing(c, {"reset", "change"}) /\ job'[c] # job[c]
     /\ users[job[c].id] # NoUser
     /\ d # c /\ sess[d] # NoSession /\ sess[d].id = job[c].id)
    => sess[d].version < users'[job[c].id].version
\* no session_version comes back;
Onwards ==
  \A i \in Ids :
    users[i] # NoUser /\ users'[i] # NoUser => users[i].version <= users'[i].version
\* and a session becomes good again only by a call whose own password is the
\* account's, not by the row the call happens to read after its write.
TakenOver ==
  \A c \in Clients :
    sess'[c] # sess[c] /\ sess'[c] # NoSession /\ ~Revalidates(c)
    => job[c] # Idle /\ users[sess'[c].id].password = job[c].password

\* What is to hold of a change or reset for good, when no call overlaps it
\* (user_store.py set_password, auth.py revalidate, auth_ui.py
\* change_own_password).
ResetsAreFinal == [][Behind /\ Onwards /\ TakenOver]_vars
============================================================================
