--------------------------- MODULE SessionsProofs ---------------------------
(***************************************************************************)
(* What Sessions promises for every set of tabs: it implements UserStore,  *)
(* so the store's theorems hold of it, a session never belongs to an       *)
(* account that is waiting for approval or that is another one, and it     *)
(* ends with a password change that no other call overlaps.                *)
(***************************************************************************)
EXTENDS Sessions, UserStoreProofs

\* The forced change and the application are drawn for a session only.
SignedIn == \A c \in Clients : page[c] \in {"force", "app"} => sess[c] # NoSession

PageInv == SessionsTypeOK /\ SignedIn

\* What a tab does in one step.
TabStep(c) ==
  \/ Enforce(c) \/ Refuse(c) \/ Leave(c) \/ SignOut(c)
  \/ BootstrapCheck(c) \/ BootstrapCreate(c)
  \/ SubmitSignup(c) \/ SubmitLogin(c) \/ SignIn(c)
  \/ SubmitOwnPassword(c) \/ KeepSession(c) \/ Stopped(c)
  \/ Console(c) \/ Resume(c)

----------------------------------------------------------------------------
(* Refinement: a step of a tab is a step of the store, or leaves it alone. *)

LEMMA TabIsStore ==
  ASSUME PageInv, NEW c \in Clients, TabStep(c)
  PROVE  UNCHANGED storeVars \/ Inserts(c) \/ Reads(c) \/ CountOthers(c) \/ Writes(c) \/ Login(c)
<1>1. CASE Enforce(c) \/ Refuse(c) \/ Leave(c) \/ SignOut(c) \/ BootstrapCheck(c)
  BY <1>1 DEF Enforce, Refuse, Leave, SignOut, BootstrapCheck
<1>2. CASE BootstrapCreate(c)
  BY <1>2, SessionAssumption DEF BootstrapCreate, Inserts
<1>3. CASE SubmitSignup(c)
  BY <1>3 DEF SubmitSignup, Inserts
<1>4. CASE SubmitLogin(c)
  BY <1>4 DEF SubmitLogin, Reads
<1>5. CASE SignIn(c) \/ KeepSession(c) \/ Stopped(c)
  BY <1>5 DEF SignIn, KeepSession, Stopped, Login
<1>6. CASE SubmitOwnPassword(c)
  <2>1. sess[c] \in Session
    BY <1>6 DEF SubmitOwnPassword, PageInv, SessionsTypeOK, SignedIn
  <2>2. sess[c].id \in Ids
    BY <2>1 DEF Session
  <2>. QED
    BY <1>6, <2>2 DEF SubmitOwnPassword, Reads
<1>7. CASE Console(c)
  <2>1. CASE ConsoleStart(c)
    <3>1. ASSUME NEW call \in Calls, NEW i \in Ids,
                 ReadTarget(c, call, i) \/ ReadPending(c, call, i)
          PROVE  Reads(c)
      BY <3>1, SessionAssumption DEF Reads
    <3>2. ASSUME NEW i \in Ids, NEW pw \in Passwords, ReadForReset(c, i, pw)
          PROVE  Reads(c)
      BY <3>2 DEF Reads
    <3>. QED
      BY <2>1, <3>1, <3>2 DEF ConsoleStart
  <2>2. CASE ConsoleAtOnce(c)
    BY <2>2 DEF ConsoleAtOnce, Inserts, Writes
  <2>. QED
    BY <1>7, <2>1, <2>2 DEF Console
<1>8. CASE Resume(c)
  BY <1>8 DEF Resume, Login, Reads, Writes
<1>. QED
  BY <1>1, <1>2, <1>3, <1>4, <1>5, <1>6, <1>7, <1>8 DEF TabStep

LEMMA StepIsStore ==
  ASSUME PageInv, [SNext]_vars
  PROVE  [Next]_storeVars
<1>1. ASSUME NEW c \in Clients, TabStep(c) PROVE [Next]_storeVars
  BY <1>1, TabIsStore DEF Next
<1>2. ASSUME NEW i \in Ids, LockExpires(i) PROVE Next
  BY <1>2 DEF Next
<1>3. CASE UNCHANGED vars
  BY <1>3 DEF vars, storeVars
<1>. QED
  BY <1>1, <1>2, <1>3 DEF SNext, TabStep

----------------------------------------------------------------------------
(* Types, and what a step does to the sessions.                            *)

LEMMA SessionForType ==
  ASSUME TypeOK, NEW i \in Ids, users[i] # NoUser
  PROVE  /\ SessionFor(i) \in Session
         /\ SessionFor(i).id = i /\ SessionFor(i).username = users[i].username
         /\ SessionFor(i) # NoSession
<1>1. users[i] \in Row
  BY DEF TypeOK
<1>2. SessionFor(i) \in Session
  BY <1>1 DEF SessionFor, Session, Row
<1>. QED
  BY <1>2, SessionAssumption DEF SessionFor

\* A session is dropped, kept, or made from a row as it stands.
SessionStep(c) ==
  \/ sess'[c] = sess[c]
  \/ sess'[c] = NoSession
  \/ \E i \in Ids : /\ users[i] # NoUser /\ users' = users
                    /\ sess'[c] = SessionFor(i)
                    /\ \/ sess[c] # NoSession /\ sess[c].id = i /\ Revalidates(c)
                       \/ /\ At(c, "reread") /\ job[c].id = i
                          /\ job[c].call \in {"login", "change"}

LEMMA TabFrame ==
  ASSUME PageInv, NEW c \in Clients, TabStep(c)
  PROVE  /\ \A d \in Clients : SessionStep(d)
         /\ \A d \in Clients : d # c => sess'[d] = sess[d] /\ page'[d] = page[d]
         /\ page' \in [Clients -> Pages] /\ sess' \in [Clients -> Session \cup {NoSession}]
         /\ page'[c] \in {"force", "app"} => sess'[c] # NoSession
<1>0. /\ page \in [Clients -> Pages] /\ sess \in [Clients -> Session \cup {NoSession}]
      /\ TypeOK /\ (page[c] \in {"force", "app"} => sess[c] # NoSession)
  BY DEF PageInv, SessionsTypeOK, SignedIn
<1>1. CASE Enforce(c)
  <2> DEFINE i == sess[c].id
  <2>1. i \in Ids /\ users[i] # NoUser /\ sess[c] # NoSession /\ Revalidates(c)
    BY <1>0, <1>1 DEF Enforce, Revalidates, Session
  <2>2. /\ users' = users
        /\ sess' = [sess EXCEPT ![c] = SessionFor(i)]
        /\ \E p \in Pages : page' = [page EXCEPT ![c] = p]
    BY <1>1 DEF Enforce, Show, storeVars, Pages
  <2>. QED
    BY <1>0, <2>1, <2>2, SessionForType DEF SessionStep
<1>2. CASE Refuse(c) \/ SignOut(c)
  BY <1>0, <1>2 DEF Refuse, SignOut, Show, SessionStep, Pages
<1>3. CASE Leave(c) \/ BootstrapCheck(c) \/ BootstrapCreate(c) \/ SubmitSignup(c)
  BY <1>0, <1>3
  DEF Leave, BootstrapCheck, BootstrapCreate, SubmitSignup, Show, SessionStep, Pages
<1>4. CASE SubmitLogin(c) \/ SubmitOwnPassword(c)
  BY <1>0, <1>4 DEF SubmitLogin, SubmitOwnPassword, SessionStep
<1>5. CASE SignIn(c) \/ KeepSession(c)
  <2> DEFINE i == job[c].id
  <2>1. /\ i \in Ids /\ At(c, "reread") /\ users' = users
        /\ job[c].call \in {"login", "change"}
    BY <1>0, <1>5, TargetRow DEF SignIn, KeepSession, At, Reread
  <2>2. sess' = [sess EXCEPT ![c] = IF users[i] = NoUser THEN @ ELSE SessionFor(i)]
    BY <1>5 DEF SignIn, KeepSession
  <2>3. page' = [page EXCEPT ![c] = "browser"]
    BY <1>5 DEF SignIn, KeepSession, Show
  <2>. QED
    BY <1>0, <2>1, <2>2, <2>3, SessionForType DEF SessionStep, Pages
<1>6. CASE Stopped(c)
  BY <1>0, <1>6 DEF Stopped, Show, SessionStep, Pages
<1>7. CASE Console(c)
  BY <1>0, <1>7 DEF Console, Show, SessionStep, Pages
<1>8. CASE Resume(c)
  BY <1>0, <1>8 DEF Resume, SessionStep, Pages
<1>. QED
  BY <1>1, <1>2, <1>3, <1>4, <1>5, <1>6, <1>7, <1>8 DEF TabStep

LEMMA PageInit == SInit => PageInv
BY InitType DEF SInit, PageInv, SessionsTypeOK, SignedIn, Pages

LEMMA PageStep ==
  ASSUME PageInv, [SNext]_vars
  PROVE  PageInv'
<1>1. TypeOK'
  BY StepIsStore, StepType DEF PageInv, SessionsTypeOK
<1>2. ASSUME NEW c \in Clients, TabStep(c) PROVE PageInv'
  BY <1>1, <1>2, TabFrame DEF PageInv, SessionsTypeOK, SignedIn
<1>3. CASE UNCHANGED <<sess, page>>
  BY <1>1, <1>3 DEF PageInv, SessionsTypeOK, SignedIn
<1>. QED
  BY <1>2, <1>3 DEF SNext, TabStep, vars

\* Sessions, pages, the table and the calls stay well typed.
THEOREM SessionsTypeCorrect == SSpec => []SessionsTypeOK
<1>1. PageInv => SessionsTypeOK
  BY DEF PageInv
<1>. QED
  BY <1>1, PageInit, PageStep, PTL DEF SSpec

\* Whatever tabs do, the accounts table goes through steps of UserStore only.
THEOREM SessionsImplementStore == SSpec => Spec
<1>1. SInit => Init
  BY DEF SInit
<1>. QED
  BY <1>1, PageInit, PageStep, StepIsStore, PTL DEF SSpec, Spec

----------------------------------------------------------------------------
(* Whose session it is.                                                    *)

\* A session's account is the one that was signed in to, and not pending.
Proper(c) ==
  sess[c] # NoSession =>
    /\ sess[c].id < nextId
    /\ users[sess[c].id] # NoUser =>
         /\ users[sess[c].id].username = sess[c].username
         /\ users[sess[c].id].status # "pending"

\* A tab changes the password of its own session's account.
ChangesOwn(c) ==
  job[c] # Idle /\ job[c].call = "change" =>
    sess[c] # NoSession /\ sess[c].id = job[c].id

SessInv ==
  /\ PageInv /\ LoginInv
  /\ \A c \in Clients : Proper(c) /\ ChangesOwn(c)

\* Old sessions stay proper through every step of the store.
LEMMA KeptProper ==
  ASSUME SessInv, [Next]_storeVars, NEW c \in Clients, sess'[c] = sess[c]
  PROVE  Proper(c)'
<1> SUFFICES ASSUME sess[c] # NoSession
             PROVE  Proper(c)'
  BY DEF Proper
<1>1. /\ sess[c].id \in Ids /\ sess[c].id < nextId
      /\ NameInv /\ TypeOK
  BY DEF SessInv, LoginInv, NameInv, PageInv, SessionsTypeOK, Session, Proper
<1>2. CASE UNCHANGED storeVars
  BY <1>2 DEF storeVars, SessInv, Proper
<1>3. CASE Next
  <2>1. nextId' >= nextId
    BY <1>1, <1>3, StepFrame DEF Frame
  <2>2. sess[c].id \in Nat /\ nextId \in Nat /\ nextId' \in Nat
    BY <1>1, <1>3, StepType, StoreAssumption DEF TypeOK, Ids
  <2>3. users'[sess[c].id] # NoUser =>
          /\ users[sess[c].id] # NoUser
          /\ users'[sess[c].id].username = users[sess[c].id].username
          /\ users[sess[c].id].status # "pending" => users'[sess[c].id].status # "pending"
    BY <1>1, <1>3, RowsOnlySettle
  <2>. QED
    BY <1>1, <2>1, <2>2, <2>3 DEF SessInv, Proper
<1>. QED
  BY <1>2, <1>3

LEMMA TabProper ==
  ASSUME SessInv, NEW c \in Clients, TabStep(c), NEW d \in Clients
  PROVE  Proper(d)'
<1>1. [Next]_storeVars /\ SessionStep(d) /\ TypeOK /\ NameInv
  BY TabFrame, TabIsStore DEF SessInv, Next, LoginInv, NameInv
<1>2. CASE sess'[d] = sess[d]
  BY <1>1, <1>2, KeptProper
<1>3. CASE sess'[d] = NoSession
  BY <1>3 DEF Proper
<1>4. ASSUME NEW i \in Ids, users[i] # NoUser, users' = users, sess'[d] = SessionFor(i),
             \/ sess[d] # NoSession /\ sess[d].id = i
             \/ /\ At(d, "reread") /\ job[d].id = i
                /\ job[d].call \in {"login", "change"}
      PROVE  Proper(d)'
  <2>1. users[i].status # "pending"
    <3>1. CASE sess[d] # NoSession /\ sess[d].id = i
      BY <1>4, <3>1 DEF SessInv, Proper
    <3>2. CASE At(d, "reread") /\ job[d].call = "login" /\ job[d].id = i
      BY <1>4, <3>2 DEF SessInv, LoginInv, Granted, AdmittedSettled, At
    <3>3. CASE At(d, "reread") /\ job[d].call = "change" /\ job[d].id = i
      BY <1>4, <3>3 DEF SessInv, ChangesOwn, Proper, At
    <3>. QED
      BY <1>4, <3>1, <3>2, <3>3
  <2>2. i < nextId /\ nextId' >= nextId
    <3>1. i < nextId
      BY <1>1, <1>4 DEF NameInv, IdsUsed
    <3>2. CASE Next
      BY <1>1, <3>1, <3>2, StepFrame DEF Frame
    <3>3. CASE UNCHANGED storeVars
      BY <1>1, <3>1, <3>3, CounterGrows DEF storeVars
    <3>. QED
      BY <1>1, <3>1, <3>2, <3>3
  <2>3. i \in Nat /\ nextId \in Nat /\ nextId' \in Nat
    BY <1>1, StepType, StoreAssumption DEF TypeOK, Ids
  <2>4. i < nextId'
    BY <2>2, <2>3
  <2>. QED
    BY <1>1, <1>4, <2>1, <2>4, SessionForType DEF Proper
<1>. QED
  BY <1>1, <1>2, <1>3, <1>4 DEF SessionStep

\* Starting, carrying on and ending a call concern one tab only.
LEMMA ResumeOwn ==
  ASSUME TypeOK, NEW c \in Clients, Resume(c)
  PROVE  /\ \A d \in Clients : d # c => job'[d] = job[d]
         /\ \/ job'[c] = Idle
            \/ job[c] # Idle /\ job'[c].call = job[c].call /\ job'[c].id = job[c].id
<1>0. job \in [Clients -> Job \cup {Idle}]
  BY DEF TypeOK
<1>1. job[c] # Idle /\ job[c] \in Job
  BY <1>0
  DEF Resume, CheckHash, WriteFailure, ReadForChange, CountOthers, WriteSuccess, WriteRole,
      WriteActive, WriteInactive, WriteApproval, DeleteRow, WritePassword, Writing, At
<1>2. CASE Return(c)
  BY <1>0, <1>2 DEF Return
<1>3. ASSUME NEW step, Goto(c, step)
      PROVE  /\ \A d \in Clients : d # c => job'[d] = job[d]
             /\ job'[c].call = job[c].call /\ job'[c].id = job[c].id
  BY <1>0, <1>1, <1>3 DEF Goto, Job
<1>4. ASSUME NEW v, job' = [job EXCEPT ![c].at = "write", ![c].version = v]
      PROVE  /\ \A d \in Clients : d # c => job'[d] = job[d]
             /\ job'[c].call = job[c].call /\ job'[c].id = job[c].id
  BY <1>0, <1>1, <1>4 DEF Job
<1>5. \/ Return(c) \/ Goto(c, "fail") \/ Goto(c, "grant") \/ Goto(c, "write")
      \/ Goto(c, "reread")
      \/ job' = [job EXCEPT ![c].at = "write", ![c].version = users[job[c].id].version]
  BY DEF Resume, CheckHash, WriteFailure, ReadForChange, CountOthers, WriteSuccess,
         WriteRole, WriteActive, WriteInactive, WriteApproval, DeleteRow, WritePassword,
         Finish
<1>. QED
  BY <1>1, <1>2, <1>3, <1>4, <1>5

LEMMA TabOwn ==
  ASSUME SessInv, NEW c \in Clients, TabStep(c), NEW d \in Clients
  PROVE  ChangesOwn(d)'
<1>0. job \in [Clients -> Job \cup {Idle}] /\ TypeOK
  BY DEF SessInv, LoginInv, NameInv, TypeOK
<1>f. \A e \in Clients : e # c => sess'[e] = sess[e]
  BY TabFrame DEF SessInv
<1>1. CASE job' = job /\ sess' = sess
  BY <1>1 DEF SessInv, ChangesOwn
<1>2. CASE /\ \A e \in Clients : e # c => job'[e] = job[e]
           /\ job'[c] = Idle
  BY <1>2, <1>f DEF SessInv, ChangesOwn
<1>3. ASSUME NEW call \in AllCalls, NEW at, NEW i \in Ids, NEW pw, Begin(c, call, at, i, pw),
             sess' = sess, call = "change" => sess[c] # NoSession /\ sess[c].id = i
      PROVE  ChangesOwn(d)'
  BY <1>0, <1>3 DEF SessInv, ChangesOwn, Begin
<1>4. CASE Enforce(c) \/ Refuse(c) \/ SignOut(c)
  BY <1>0, <1>2, <1>4 DEF Enforce, Refuse, SignOut, On, storeVars
<1>5. CASE Leave(c) \/ BootstrapCheck(c) \/ BootstrapCreate(c) \/ SubmitSignup(c)
  BY <1>1, <1>5
  DEF Leave, BootstrapCheck, BootstrapCreate, SubmitSignup, Bootstrap, Signup, Insert, storeVars
<1>6. CASE SubmitLogin(c)
  <2>1. PICK i \in Ids, pw \in Passwords : ReadForLogin(c, i, pw)
    BY <1>6 DEF SubmitLogin
  <2>. QED
    BY <1>3, <1>6, <2>1 DEF SubmitLogin, ReadForLogin, AllCalls
<1>7. CASE SignIn(c) \/ KeepSession(c) \/ Stopped(c)
  BY <1>0, <1>2, <1>7 DEF SignIn, KeepSession, Stopped, Reread, Return
<1>8. CASE SubmitOwnPassword(c)
  <2>1. PICK pw \in Passwords : VerifyOwnPassword(c, sess[c].id, pw)
    BY <1>8 DEF SubmitOwnPassword
  <2>2. sess[c] # NoSession /\ sess[c].id \in Ids
    BY <1>8 DEF SubmitOwnPassword, SessInv, PageInv, SessionsTypeOK, SignedIn, Session
  <2>. QED
    BY <1>3, <1>8, <2>1, <2>2 DEF SubmitOwnPassword, VerifyOwnPassword, AllCalls
<1>9. CASE Console(c)
  <2>1. ASSUME NEW call \in Calls, NEW i \in Ids,
               ReadTarget(c, call, i) \/ ReadPending(c, call, i)
        PROVE  ChangesOwn(d)'
    <3>1. call \in AllCalls /\ call # "change"
      BY <2>1, StoreAssumption
      DEF ReadTarget, ReadPending, RoleCalls, ActiveCalls, SignupCalls
    <3>. QED
      BY <1>3, <1>9, <2>1, <3>1 DEF Console, ReadTarget, ReadPending
  <2>2. ASSUME NEW i \in Ids, NEW pw \in Passwords, ReadForReset(c, i, pw)
        PROVE  ChangesOwn(d)'
    BY <1>3, <1>9, <2>2 DEF Console, ReadForReset, AllCalls, OperatorCalls
  <2>3. CASE ConsoleAtOnce(c)
    BY <1>1, <1>9, <2>3 DEF Console, ConsoleAtOnce, Create, Insert, Unlock
  <2>. QED
    BY <1>9, <2>1, <2>2, <2>3 DEF Console, ConsoleStart
<1>10. CASE Resume(c)
  <2>1. sess' = sess
    BY <1>10 DEF Resume
  <2>. QED
    BY <1>0, <1>10, <2>1, ResumeOwn DEF SessInv, ChangesOwn
<1>. QED
  BY <1>4, <1>5, <1>6, <1>7, <1>8, <1>9, <1>10 DEF TabStep

LEMMA SessInit == SInit => SessInv
BY PageInit, LoginInit DEF SInit, Init, SessInv, Proper, ChangesOwn

LEMMA SessStep ==
  ASSUME SessInv, [SNext]_vars
  PROVE  SessInv'
<1>1. PageInv' /\ LoginInv' /\ [Next]_storeVars
  BY PageStep, StepIsStore, LoginStep DEF SessInv
<1>2. ASSUME NEW c \in Clients, TabStep(c) PROVE SessInv'
  BY <1>1, <1>2, TabProper, TabOwn DEF SessInv
<1>3. ASSUME NEW i \in Ids, LockExpires(i), UNCHANGED <<sess, page>> PROVE SessInv'
  <2>1. job' = job /\ sess' = sess
    BY <1>3 DEF LockExpires
  <2>. QED
    BY <1>1, <2>1, KeptProper DEF SessInv, ChangesOwn
<1>4. CASE UNCHANGED vars
  BY <1>1, <1>4, KeptProper DEF vars, SessInv, ChangesOwn
<1>. QED
  BY <1>2, <1>3, <1>4 DEF SNext, TabStep

\* Nobody works in an account that is still waiting for approval.
THEOREM NoPendingSessions == SSpec => []NoPendingSession
<1>1. SessInv => NoPendingSession
  BY DEF SessInv, Proper, NoPendingSession
<1>. QED
  BY <1>1, SessInit, SessStep, PTL DEF SSpec

\* A session stays with the account that was signed in to.
THEOREM SessionsOfTheirAccount == SSpec => SessionOfItsAccount
<1>1. ASSUME SessInv, [SNext]_vars, NEW c \in Clients, sess[c] # NoSession,
             users'[sess[c].id] # NoUser
      PROVE  users[sess[c].id] # NoUser /\ users'[sess[c].id].username = sess[c].username
  <2>1. sess[c].id \in Ids /\ sess[c].id < nextId /\ NameInv
    BY <1>1 DEF SessInv, LoginInv, PageInv, SessionsTypeOK, Session, Proper
  <2>2. CASE Next
    <3>1. /\ users[sess[c].id] # NoUser
          /\ users'[sess[c].id].username = users[sess[c].id].username
      BY <1>1, <2>1, <2>2, RowsOnlySettle
    <3>. QED
      BY <1>1, <3>1 DEF SessInv, Proper
  <2>3. CASE UNCHANGED storeVars
    BY <1>1, <2>3 DEF storeVars, SessInv, Proper
  <2>4. [Next]_storeVars
    BY <1>1, StepIsStore DEF SessInv
  <2>. QED
    BY <2>2, <2>3, <2>4
<1>2. SessInv /\ [SNext]_vars =>
        [\A c \in Clients :
           sess[c] # NoSession /\ users'[sess[c].id] # NoUser
             => /\ users[sess[c].id] # NoUser
                /\ users'[sess[c].id].username = sess[c].username]_vars
  BY <1>1
<1>. QED
  BY <1>2, SessInit, SessStep, PTL DEF SSpec, SessionOfItsAccount

----------------------------------------------------------------------------
(* The bootstrap: with BOOTSTRAP_ADMIN_* set and one operator, nobody gets *)
(* into the table before the first administrator.                          *)

\* Whatever a tab does besides loading the page needs an account to exist.
Peopled ==
  \A c \in Clients :
    page[c] \in {"login", "force", "app"} \/ sess[c] # NoSession \/ job[c] # Idle
      => Live # {}

TableInv == PageInv /\ AdminInv /\ TableHasAdmin /\ Peopled

LEMMA EmptyTable ==
  ASSUME TableInv, Live = {}, NEW c \in Clients, TabStep(c)
  PROVE  Refuse(c) \/ BootstrapCheck(c) \/ BootstrapCreate(c)
<1>1. page[c] \notin {"login", "force", "app"} /\ sess[c] = NoSession /\ job[c] = Idle
  BY DEF TableInv, Peopled
<1>2. ~Enforce(c) /\ ~Leave(c) /\ ~SignOut(c) /\ ~SubmitSignup(c) /\ ~SubmitLogin(c)
  BY <1>1 DEF Enforce, Revalidates, Leave, SignOut, SubmitSignup, SubmitLogin, On
<1>3. ~SubmitOwnPassword(c) /\ ~Console(c)
  BY <1>1 DEF SubmitOwnPassword, Console, On
<1>4. ~SignIn(c) /\ ~KeepSession(c) /\ ~Stopped(c)
  BY <1>1 DEF SignIn, KeepSession, Stopped, Reread, At
<1>5. ~Resume(c)
  BY <1>1
  DEF Resume, CheckHash, WriteFailure, ReadForChange, CountOthers, WriteSuccess, WriteRole,
      WriteActive, WriteInactive, WriteApproval, DeleteRow, WritePassword, Writing, At
<1>. QED
  BY <1>2, <1>3, <1>4, <1>5 DEF TabStep

LEMMA FirstAdmin ==
  ASSUME TypeOK, NEW c \in Clients, NEW name \in Usernames, NEW pw \in Passwords,
         Bootstrap(c, name, pw)
  PROVE  ActiveAdmins' # {}
<1> DEFINE row == [username |-> name, password |-> pw, role |-> "admin",
                   isActive |-> ("active" = "active"), status |-> "active", version |-> 1,
                   failed |-> 0, locked |-> FALSE, force |-> FALSE]
<1>1. row \in Row
  BY ZeroFailures DEF Row, Roles, Statuses
<1>2. row # NoUser /\ row.role = "admin" /\ row.isActive
  BY <1>1, StoreAssumption
<1>3. users' = [users EXCEPT ![nextId] = row] /\ nextId \in Ids
  BY DEF Bootstrap, Insert, FreshId
<1> HIDE DEF row
<1>4. users'[nextId] = row
  BY <1>3 DEF TypeOK
<1>. QED
  BY <1>2, <1>3, <1>4 DEF ActiveAdmins, Live

LEMMA TableStep ==
  ASSUME BootstrapConfigured, SingleOperator, TableInv, [SNext]_vars
  PROVE  TableInv'
<1>1. PageInv' /\ AdminInv' /\ [Next]_storeVars
  BY PageStep, StepIsStore, AdminStep DEF TableInv
<1>2. CASE Live # {}
  <2>1. ActiveAdmins # {}
    BY <1>2 DEF TableInv, TableHasAdmin
  <2>2. ActiveAdmins' # {}
    BY <1>1, <2>1, AdminsRemain DEF TableInv, storeVars, ActiveAdmins, Live
  <2>3. Live' # {}
    BY <2>2 DEF ActiveAdmins
  <2>. QED
    BY <1>1, <2>2, <2>3 DEF TableInv, TableHasAdmin, Peopled
<1>3. CASE Live = {}
  <2>1. ASSUME NEW c \in Clients, Refuse(c) PROVE TableInv'
    <3>1. users' = users /\ job' = job
      BY <2>1 DEF Refuse, storeVars
    <3>2. \A d \in Clients : sess'[d] \in {sess[d], NoSession}
      BY <2>1 DEF Refuse, TableInv, PageInv, SessionsTypeOK
    <3>3. \A d \in Clients : page'[d] \in {page[d], "gate"}
      BY <2>1 DEF Refuse, Show, TableInv, PageInv, SessionsTypeOK
    <3>. QED
      BY <1>1, <1>3, <3>1, <3>2, <3>3
      DEF TableInv, TableHasAdmin, Peopled, Live, ActiveAdmins
  <2>2. ASSUME NEW c \in Clients, BootstrapCheck(c) PROVE TableInv'
    <3>1. users' = users /\ job' = job /\ sess' = sess
      BY <2>2 DEF BootstrapCheck, storeVars
    <3>2. \A d \in Clients : page'[d] \in {page[d], "seed"}
      BY <1>3, <2>2 DEF BootstrapCheck, Show, TableInv, PageInv, SessionsTypeOK
    <3>. QED
      BY <1>1, <1>3, <3>1, <3>2 DEF TableInv, TableHasAdmin, Peopled, Live, ActiveAdmins
  <2>3. ASSUME NEW c \in Clients, BootstrapCreate(c) PROVE TableInv'
    <3>1. Bootstrap(c, BootstrapName, BootstrapPassword)
      BY <1>3, <2>3 DEF BootstrapCreate
    <3>2. ActiveAdmins' # {}
      BY <3>1, FirstAdmin, SessionAssumption DEF TableInv, PageInv, SessionsTypeOK
    <3>3. Live' # {}
      BY <3>2 DEF ActiveAdmins
    <3>. QED
      BY <1>1, <3>2, <3>3 DEF TableInv, TableHasAdmin, Peopled
  <2>4. ASSUME NEW c \in Clients, TabStep(c) PROVE TableInv'
    BY <1>3, <2>1, <2>2, <2>3, <2>4, EmptyTable
  <2>5. ASSUME NEW i \in Ids, LockExpires(i) PROVE FALSE
    BY <1>3, <2>5 DEF LockExpires, Live
  <2>6. CASE UNCHANGED vars
    BY <1>1, <2>6 DEF vars, TableInv, TableHasAdmin, Peopled, Live, ActiveAdmins
  <2>. QED
    BY <2>4, <2>5, <2>6 DEF SNext, TabStep
<1>. QED
  BY <1>2, <1>3

LEMMA TableInit == SInit => TableInv
BY PageInit, AdminInit DEF SInit, Init, TableInv, TableHasAdmin, Peopled, Live, ActiveAdmins

\* With the bootstrap configured and one operator, a deployment that has any
\* account has an active administrator.
THEOREM TableKeepsAdmin ==
  BootstrapConfigured /\ SingleOperator => (SSpec => []TableHasAdmin)
<1> SUFFICES ASSUME BootstrapConfigured, SingleOperator PROVE SSpec => []TableHasAdmin
  OBVIOUS
<1>1. TableInv /\ [SNext]_vars => TableInv'
  BY TableStep
<1>2. TableInv => TableHasAdmin
  BY DEF TableInv
<1>. QED
  BY <1>1, <1>2, TableInit, PTL DEF SSpec
\* What AccountRegistry promises holds of the program as tabs use it.
THEOREM SessionsImplementRegistry == SingleOperator => (SSpec => ImplementsRegistry)
BY SessionsImplementStore, StoreImplementsRegistry

----------------------------------------------------------------------------
(* Ending sessions.  session_version is read in one transaction and        *)
(* written, one larger, in another; sessions end at a password change as   *)
(* long as no two such calls on one account overlap.                       *)

\* A call that will write the version has read the one that is there.
VersionRead(c) ==
  Renewing(c) /\ users[job[c].id] # NoUser => users[job[c].id].version = job[c].version

\* No session is ahead of the table.
NotAhead(c) ==
  sess[c] # NoSession /\ users[sess[c].id] # NoUser
    => sess[c].version <= users[sess[c].id].version

\* Only a sign-in checks and grants, only it and an own change read back.
Stage(c) ==
  /\ At(c, "hash") \/ At(c, "grant") => job[c].call = "login"
  /\ At(c, "reread") => job[c].call \in {"login", "change"}

\* A call that is about to vouch for a session has the account's password.
Vouched(c) ==
  (At(c, "grant") \/ At(c, "reread")) /\ users[job[c].id] # NoUser
    => users[job[c].id].password = job[c].password

VersionInv ==
  SessInv /\ \A c \in Clients : VersionRead(c) /\ NotAhead(c) /\ Stage(c) /\ Vouched(c)

\* The call of client c writes the version of account i and is through.
Renews(c, i) ==
  /\ Renewing(c) /\ ~Renewing(c)' /\ job[c].id = i
  /\ users'[i].version = job[c].version + 1

LEMMA PasswordRenews ==
  ASSUME TypeOK, NEW c \in Clients, WritePassword(c), users[job[c].id] # NoUser
  PROVE  users'[job[c].id].version = job[c].version + 1
<1> DEFINE i       == job[c].id
           version == job[c].version + 1
           force   == job[c].call = "reset"
           row     == [users[i] EXCEPT !.password = job[c].password, !.force = force,
                                       !.failed = 0, !.locked = FALSE, !.version = version]
<1>1. i \in Ids /\ users[i] \in Row
  BY TargetRow DEF WritePassword, Writing, At
<1>2. users'[i] = row
  BY <1>1 DEF WritePassword, NewVersion, Update, TypeOK
<1>3. row.version = version
  <2> HIDE DEF version, force
  <2>. QED
    BY <1>1 DEF Row
<1>. QED
  BY <1>2, <1>3

LEMMA WrittenPassword ==
  ASSUME TypeOK, NEW c \in Clients, WritePassword(c), users[job[c].id] # NoUser
  PROVE  users'[job[c].id].password = job[c].password
<1> DEFINE i       == job[c].id
           version == job[c].version + 1
           force   == job[c].call = "reset"
           pw      == job[c].password
           row     == [users[i] EXCEPT !.password = pw, !.force = force,
                                       !.failed = 0, !.locked = FALSE, !.version = version]
<1>1. i \in Ids /\ users[i] \in Row
  BY TargetRow DEF WritePassword, Writing, At
<1>2. users'[i] = row
  BY <1>1 DEF WritePassword, NewVersion, Update, TypeOK
<1>3. row.password = pw
  <2> HIDE DEF version, force, pw
  <2>. QED
    BY <1>1 DEF Row
<1>. QED
  BY <1>2, <1>3

LEMMA VersionWritten ==
  ASSUME NameInv, Next, NEW i \in Ids, i < nextId, users'[i] # NoUser
  PROVE  /\ users[i] # NoUser
         /\ \/ users'[i].version = users[i].version
            \/ \E c \in Clients : Renews(c, i)
<1> DEFINE Goal == users'[i].version = users[i].version \/ \E c \in Clients : Renews(c, i)
<1>0. TypeOK /\ job \in [Clients -> Job \cup {Idle}] /\ i \in Nat /\ nextId \in Nat
  BY StoreAssumption DEF NameInv, TypeOK, Ids
<1>1. users[i] # NoUser
  BY RowsOnlySettle
<1>r. users[i] \in Row
  BY <1>0, <1>1 DEF TypeOK
<1>2. ASSUME NEW c \in Clients, Inserts(c) PROVE Goal
  BY <1>0, <1>2 DEF Inserts, Create, Signup, Bootstrap, Insert, FreshId, TypeOK
<1>3. ASSUME NEW c \in Clients, Reads(c) \/ CountOthers(c) \/ CheckHash(c) \/ Reread(c)
      PROVE  Goal
  BY <1>3
  DEF Reads, ReadForChange, ReadTarget, ReadPending, ReadForReset, VerifyOwnPassword,
      ReadForLogin, Begin, CountOthers, CheckHash, Reread
<1>4. ASSUME NEW c \in Clients, WriteRole(c) PROVE Goal
  <2> DEFINE k       == job[c].id
             role    == IF job[c].call = "promote" THEN "admin" ELSE "user"
             version == job[c].version + 1
             row     == [users[i] EXCEPT !.role = role, !.version = version]
  <2>1. /\ job[c].id \in Ids /\ Renewing(c) /\ job'[c] = Idle
        /\ i # k => users'[i] = users[i]
    BY <1>0, <1>4, TargetRow, WriteRoleEffect
    DEF WriteRole, Writing, At, Finish, Return, Renewing, Renewals, RoleCalls, AccountUpdate
  <2>2. i = k => users'[i] = row
    BY <1>0, <1>1, <1>4 DEF WriteRole, Update, TypeOK
  <2>3. row.version = version
    <3> HIDE DEF role, version
    <3>. QED
      BY <1>r DEF Row
  <2> HIDE DEF row
  <2>. QED
    BY <2>1, <2>2, <2>3 DEF Renews, Renewing
<1>5. ASSUME NEW c \in Clients, WriteActive(c) \/ WriteApproval(c) PROVE Goal
  <2> DEFINE k   == job[c].id
             row == [users[i] EXCEPT !.isActive = TRUE, !.status = "active"]
  <2>1. i # k => users'[i] = users[i]
    BY <1>0, <1>5, WriteActiveEffect DEF AccountUpdate
  <2>2. i = k => users'[i] = row
    BY <1>0, <1>1, <1>5 DEF WriteActive, WriteApproval, Update, TypeOK
  <2>3. row.version = users[i].version
    BY <1>r DEF Row
  <2>. QED
    BY <2>1, <2>2, <2>3
<1>6. ASSUME NEW c \in Clients, WriteInactive(c) PROVE Goal
  <2> DEFINE k       == job[c].id
             version == job[c].version + 1
             row     == [users[i] EXCEPT !.isActive = FALSE, !.status = "disabled",
                                         !.version = version]
  <2>1. /\ job[c].id \in Ids /\ Renewing(c) /\ job'[c] = Idle
        /\ i # k => users'[i] = users[i]
    BY <1>0, <1>6, TargetRow, WriteInactiveEffect
    DEF WriteInactive, Writing, At, Finish, Return, Renewing, Renewals, AccountUpdate
  <2>2. i = k => users'[i] = row
    BY <1>0, <1>1, <1>6 DEF WriteInactive, Update, TypeOK
  <2>3. row.version = version
    <3> HIDE DEF version
    <3>. QED
      BY <1>r DEF Row
  <2> HIDE DEF row
  <2>. QED
    BY <2>1, <2>2, <2>3 DEF Renews, Renewing
<1>7. ASSUME NEW c \in Clients, DeleteRow(c) PROVE Goal
  BY <1>0, <1>7, DeleteRowEffect
<1>8. ASSUME NEW c \in Clients, WritePassword(c) PROVE Goal
  <2>1. job[c].id \in Ids /\ Renewing(c) /\ job[c] \in Job
    BY <1>0, <1>8, TargetRow DEF WritePassword, Writing, At, Renewing, Renewals
  <2>2. ~Renewing(c)'
    BY <1>0, <1>8, <2>1 DEF WritePassword, Return, Goto, Renewing, Job
  <2>3. CASE i = job[c].id
    BY <1>0, <1>1, <1>8, <2>1, <2>2, <2>3, PasswordRenews DEF Renews
  <2>4. CASE i # job[c].id
    BY <1>0, <1>8, <2>1, <2>4, WritePasswordEffect DEF RankUpdate
  <2>. QED
    BY <2>3, <2>4
<1>9. ASSUME NEW c \in Clients, NEW k \in Ids, Unlock(c, k) PROVE Goal
  <2> DEFINE row == [users[i] EXCEPT !.failed = 0, !.locked = FALSE]
  <2>1. i # k => users'[i] = users[i]
    BY <1>0, <1>9, UnlockEffect DEF RankUpdate
  <2>2. i = k => users'[i] = row
    BY <1>0, <1>1, <1>9 DEF Unlock, Update, TypeOK
  <2>3. row.version = users[i].version
    BY <1>r DEF Row
  <2>. QED
    BY <2>1, <2>2, <2>3
<1>10. ASSUME NEW c \in Clients, WriteFailure(c) PROVE Goal
  <2> DEFINE k        == job[c].id
             failures == job[c].failed + 1
             lock     == Locks(failures)
             row      == [users[i] EXCEPT !.failed = IF lock THEN 0 ELSE failures,
                                          !.locked = @ \/ lock]
  <2>1. i # k => users'[i] = users[i]
    BY <1>0, <1>10, WriteFailureEffect DEF RankUpdate
  <2>2. i = k => users'[i] = row
    BY <1>0, <1>1, <1>10 DEF WriteFailure, Update, TypeOK
  <2>3. row.version = users[i].version
    <3> HIDE DEF failures, lock
    <3>. QED
      BY <1>r DEF Row
  <2> HIDE DEF row
  <2>. QED
    BY <2>1, <2>2, <2>3
<1>11. ASSUME NEW c \in Clients, NEW rehash \in BOOLEAN, WriteSuccess(c, rehash) PROVE Goal
  <2> DEFINE k   == job[c].id
             row == [users[i] EXCEPT !.failed = 0, !.locked = FALSE,
                                     !.password = IF rehash THEN job[c].password ELSE @]
  <2>1. i # k => users'[i] = users[i]
    BY <1>0, <1>11, WriteSuccessEffect DEF RankUpdate
  <2>2. i = k => users'[i] = row
    BY <1>0, <1>1, <1>11 DEF WriteSuccess, Update, TypeOK
  <2>3. row.version = users[i].version
    BY <1>r DEF Row
  <2> HIDE DEF row
  <2>. QED
    BY <2>1, <2>2, <2>3
<1>12. ASSUME NEW k \in Ids, LockExpires(k) PROVE Goal
  BY <1>0, <1>r, <1>12 DEF LockExpires, TypeOK, Row
<1>13. ASSUME NEW c \in Clients, Writes(c) PROVE Goal
  BY <1>4, <1>5, <1>6, <1>7, <1>8, <1>9, <1>13 DEF Writes
<1>14. ASSUME NEW c \in Clients, Login(c) PROVE Goal
  BY <1>3, <1>10, <1>11, <1>14 DEF Login
<1>. QED
  BY <1>1, <1>2, <1>3, <1>12, <1>13, <1>14 DEF Next

\* A call in between either was so before, with what it had read, or has just
\* read the version that is there.
LEMMA RenewingStep ==
  ASSUME TypeOK, Next, NEW d \in Clients, Renewing(d)'
  PROVE  \/ Renewing(d) /\ job'[d].id = job[d].id /\ job'[d].version = job[d].version
         \/ users' = users /\ job'[d].version = users[job'[d].id].version
<1> DEFINE Goal ==
      \/ Renewing(d) /\ job'[d].id = job[d].id /\ job'[d].version = job[d].version
      \/ users' = users /\ job'[d].version = users[job'[d].id].version
<1>0. job \in [Clients -> Job \cup {Idle}]
  BY DEF TypeOK
<1>1. CASE job'[d] = job[d]
  BY <1>1 DEF Renewing
<1>2. ASSUME NEW c \in Clients, Return(c) PROVE Goal
  BY <1>0, <1>1, <1>2 DEF Return, Renewing
<1>3. ASSUME NEW c \in Clients, NEW step \in {"fail", "grant", "reread"}, job[c] # Idle,
             Goto(c, step)
      PROVE  Goal
  <2>1. job[c] \in Job
    BY <1>0, <1>3
  <2>2. CASE c = d
    BY <1>0, <1>3, <2>1, <2>2 DEF Goto, Renewing, Job
  <2>3. CASE c # d
    BY <1>0, <1>1, <1>3, <2>3 DEF Goto
  <2>. QED
    BY <2>2, <2>3
<1>4. ASSUME NEW c \in Clients, NEW call, NEW at, NEW i \in Ids, NEW pw,
             Begin(c, call, at, i, pw)
      PROVE  Goal
  BY <1>0, <1>1, <1>4 DEF Begin
<1>5. ASSUME NEW c \in Clients, Inserts(c) PROVE Goal
  BY <1>1, <1>5 DEF Inserts, Create, Signup, Bootstrap, Insert
<1>6. ASSUME NEW c \in Clients, Reads(c) PROVE Goal
  <2>1. CASE ReadForChange(c)
    <3> DEFINE i == job[c].id
    <3>1. CASE users[i] = NoUser
      BY <1>2, <2>1, <3>1 DEF ReadForChange
    <3>2. CASE users[i] # NoUser
      <4>1. job[c] \in Job
        BY <1>0, <2>1 DEF ReadForChange, At
      <4> DEFINE version == users[i].version
      <4>2. /\ job' = [job EXCEPT ![c] = [job[c] EXCEPT !.at = "write", !.version = version]]
            /\ users' = users
        BY <2>1, <3>2 DEF ReadForChange
      <4>3. [job[c] EXCEPT !.at = "write", !.version = version].version = version
        BY <4>1 DEF Job
      <4>4. [job[c] EXCEPT !.at = "write", !.version = version].id = i
        BY <4>1 DEF Job
      <4>. QED
        BY <1>0, <1>1, <4>2, <4>3, <4>4
    <3>. QED
      BY <3>1, <3>2
  <2>2. ASSUME NEW i \in Ids, NEW pw \in Passwords,
               \/ \E call \in Calls : ReadTarget(c, call, i) \/ ReadPending(c, call, i)
               \/ ReadForReset(c, i, pw) \/ VerifyOwnPassword(c, i, pw)
               \/ ReadForLogin(c, i, pw)
        PROVE  Goal
    BY <1>4, <2>2
    DEF ReadTarget, ReadPending, ReadForReset, VerifyOwnPassword, ReadForLogin
  <2>. QED
    BY <1>6, <2>1, <2>2 DEF Reads
<1>7. ASSUME NEW c \in Clients, CountOthers(c) PROVE Goal
  <2>1. CASE Return(c)
    BY <1>2, <2>1
  <2>2. CASE Goto(c, "write")
    <3>1. job[c] \in Job /\ job[c] # Idle /\ job[c].at = "count"
      BY <1>0, <1>7 DEF CountOthers, At
    <3>2. /\ d # c => job'[d] = job[d]
          /\ d = c => /\ job'[d].id = job[d].id /\ job'[d].version = job[d].version
                      /\ job'[d].call = job[d].call
      BY <1>0, <2>2, <3>1 DEF Goto, Job
    <3>. QED
      BY <1>1, <3>1, <3>2 DEF Renewing
  <2>. QED
    BY <1>7, <2>1, <2>2 DEF CountOthers
<1>8. ASSUME NEW c \in Clients, Writes(c) PROVE Goal
  <2>1. CASE Return(c)
    BY <1>2, <2>1
  <2>2. CASE WritePassword(c)
    BY <1>2, <1>3, <2>2 DEF WritePassword, Writing, At
  <2>3. ASSUME NEW i \in Ids, Unlock(c, i) PROVE Goal
    BY <1>1, <2>3 DEF Unlock
  <2>. QED
    BY <1>8, <2>1, <2>2, <2>3
    DEF Writes, WriteRole, WriteActive, WriteInactive, WriteApproval, DeleteRow, Finish
<1>9. ASSUME NEW c \in Clients, Login(c) PROVE Goal
  BY <1>2, <1>3, <1>9
  DEF Login, CheckHash, WriteFailure, WriteSuccess, Reread, Finish, At
<1>10. ASSUME NEW i \in Ids, LockExpires(i) PROVE Goal
  BY <1>1, <1>10 DEF LockExpires
<1>. QED
  BY <1>5, <1>6, <1>7, <1>8, <1>9, <1>10 DEF Next

LEMMA VersionReadStep ==
  ASSUME VersionInv, RenewalsApart, Next, NEW d \in Clients
  PROVE  VersionRead(d)'
<1> SUFFICES ASSUME Renewing(d)', users'[job'[d].id] # NoUser
             PROVE  users'[job'[d].id].version = job'[d].version
  BY DEF VersionRead
<1>0. NameInv /\ TypeOK
  BY DEF VersionInv, SessInv, LoginInv, NameInv
<1>1. CASE Renewing(d) /\ job'[d].id = job[d].id /\ job'[d].version = job[d].version
  <2> DEFINE i == job[d].id
  <2>1. i \in Ids /\ i < nextId
    BY <1>0, <1>1, TargetRow DEF Renewing, NameInv, IdsUsed
  <2>2. ~\E c \in Clients : Renews(c, i)
    BY <1>1 DEF Renews, RenewalsApart
  <2>3. users[i] # NoUser /\ users'[i].version = users[i].version
    BY <1>0, <1>1, <2>1, <2>2, VersionWritten
  <2>. QED
    BY <1>1, <2>3 DEF VersionInv, VersionRead
<1>2. CASE users' = users /\ job'[d].version = users[job'[d].id].version
  BY <1>2
<1>. QED
  BY <1>0, <1>1, <1>2, RenewingStep

\* What an overlap-free step makes of the version of an account.
LEMMA VersionGrows ==
  ASSUME VersionInv, Next, NEW i \in Ids, i < nextId, users'[i] # NoUser
  PROVE  /\ users[i] # NoUser /\ users[i].version \in Nat
         /\ users'[i].version \in {users[i].version, users[i].version + 1}
<1>0. NameInv /\ TypeOK
  BY DEF VersionInv, SessInv, LoginInv, NameInv
<1>1. /\ users[i] # NoUser
      /\ \/ users'[i].version = users[i].version
         \/ \E c \in Clients : Renews(c, i)
  BY <1>0, VersionWritten
<1>2. users[i].version \in Nat
  BY <1>0, <1>1 DEF TypeOK, Row
<1>3. ASSUME NEW c \in Clients, Renews(c, i) PROVE users'[i].version = users[i].version + 1
  BY <1>1, <1>3 DEF Renews, VersionInv, VersionRead
<1>. QED
  BY <1>1, <1>2, <1>3

\* A password is written by a change or a reset, or put back by a sign-in whose
\* hash check was passed.
LEMMA PasswordWritten ==
  ASSUME NameInv, Next, NEW i \in Ids, i < nextId, users'[i] # NoUser
  PROVE  \/ users'[i].password = users[i].password
         \/ \E c \in Clients :
              /\ WritePassword(c) \/ At(c, "grant")
              /\ job[c].id = i /\ users'[i].password = job[c].password
<1> DEFINE Goal ==
      \/ users'[i].password = users[i].password
      \/ \E c \in Clients :
           /\ WritePassword(c) \/ At(c, "grant")
           /\ job[c].id = i /\ users'[i].password = job[c].password
<1>0. TypeOK /\ job \in [Clients -> Job \cup {Idle}] /\ i \in Nat /\ nextId \in Nat
  BY StoreAssumption DEF NameInv, TypeOK, Ids
<1>1. users[i] # NoUser
  BY RowsOnlySettle
<1>r. users[i] \in Row
  BY <1>0, <1>1 DEF TypeOK
<1>2. ASSUME NEW c \in Clients, Inserts(c) PROVE Goal
  BY <1>0, <1>2 DEF Inserts, Create, Signup, Bootstrap, Insert, FreshId, TypeOK
<1>3. ASSUME NEW c \in Clients, Reads(c) \/ CountOthers(c) \/ CheckHash(c) \/ Reread(c)
      PROVE  Goal
  BY <1>3
  DEF Reads, ReadForChange, ReadTarget, ReadPending, ReadForReset, VerifyOwnPassword,
      ReadForLogin, Begin, CountOthers, CheckHash, Reread
<1>4. ASSUME NEW c \in Clients, WriteRole(c) PROVE Goal
  <2> DEFINE role    == IF job[c].call = "promote" THEN "admin" ELSE "user"
             version == job[c].version + 1
             row     == [users[i] EXCEPT !.role = role, !.version = version]
  <2>1. i # job[c].id => users'[i] = users[i]
    BY <1>0, <1>4, WriteRoleEffect DEF AccountUpdate
  <2>2. i = job[c].id => users'[i] = row
    BY <1>0, <1>1, <1>4 DEF WriteRole, Update, TypeOK
  <2>3. row.password = users[i].password
    <3> HIDE DEF role, version
    <3>. QED
      BY <1>r DEF Row
  <2> HIDE DEF row
  <2>. QED
    BY <2>1, <2>2, <2>3
<1>5. ASSUME NEW c \in Clients, WriteActive(c) \/ WriteApproval(c) PROVE Goal
  <2> DEFINE row == [users[i] EXCEPT !.isActive = TRUE, !.status = "active"]
  <2>1. i # job[c].id => users'[i] = users[i]
    BY <1>0, <1>5, WriteActiveEffect DEF AccountUpdate
  <2>2. i = job[c].id => users'[i] = row
    BY <1>0, <1>1, <1>5 DEF WriteActive, WriteApproval, Update, TypeOK
  <2>3. row.password = users[i].password
    BY <1>r DEF Row
  <2>. QED
    BY <2>1, <2>2, <2>3
<1>6. ASSUME NEW c \in Clients, WriteInactive(c) PROVE Goal
  <2> DEFINE version == job[c].version + 1
             row     == [users[i] EXCEPT !.isActive = FALSE, !.status = "disabled",
                                         !.version = version]
  <2>1. i # job[c].id => users'[i] = users[i]
    BY <1>0, <1>6, WriteInactiveEffect DEF AccountUpdate
  <2>2. i = job[c].id => users'[i] = row
    BY <1>0, <1>1, <1>6 DEF WriteInactive, Update, TypeOK
  <2>3. row.password = users[i].password
    <3> HIDE DEF version
    <3>. QED
      BY <1>r DEF Row
  <2> HIDE DEF row
  <2>. QED
    BY <2>1, <2>2, <2>3
<1>7. ASSUME NEW c \in Clients, DeleteRow(c) PROVE Goal
  BY <1>0, <1>7, DeleteRowEffect
<1>8. ASSUME NEW c \in Clients, WritePassword(c) PROVE Goal
  <2>1. i # job[c].id => users'[i] = users[i]
    BY <1>0, <1>8, WritePasswordEffect DEF RankUpdate
  <2>2. i = job[c].id => users'[i].password = job[c].password
    BY <1>0, <1>1, <1>8, WrittenPassword
  <2>. QED
    BY <1>8, <2>1, <2>2
<1>9. ASSUME NEW c \in Clients, NEW k \in Ids, Unlock(c, k) PROVE Goal
  <2> DEFINE row == [users[i] EXCEPT !.failed = 0, !.locked = FALSE]
  <2>1. i # k => users'[i] = users[i]
    BY <1>0, <1>9, UnlockEffect DEF RankUpdate
  <2>2. i = k => users'[i] = row
    BY <1>0, <1>1, <1>9 DEF Unlock, Update, TypeOK
  <2>3. row.password = users[i].password
    BY <1>r DEF Row
  <2>. QED
    BY <2>1, <2>2, <2>3
<1>10. ASSUME NEW c \in Clients, WriteFailure(c) PROVE Goal
  <2> DEFINE failures == job[c].failed + 1
             lock     == Locks(failures)
             row      == [users[i] EXCEPT !.failed = IF lock THEN 0 ELSE failures,
                                          !.locked = @ \/ lock]
  <2>1. i # job[c].id => users'[i] = users[i]
    BY <1>0, <1>10, WriteFailureEffect DEF RankUpdate
  <2>2. i = job[c].id => users'[i] = row
    BY <1>0, <1>1, <1>10 DEF WriteFailure, Update, TypeOK
  <2>3. row.password = users[i].password
    <3> HIDE DEF failures, lock
    <3>. QED
      BY <1>r DEF Row
  <2> HIDE DEF row
  <2>. QED
    BY <2>1, <2>2, <2>3
<1>11. ASSUME NEW c \in Clients, NEW rehash \in BOOLEAN, WriteSuccess(c, rehash) PROVE Goal
  <2> DEFINE row == [users[i] EXCEPT !.failed = 0, !.locked = FALSE,
                                     !.password = IF rehash THEN job[c].password ELSE @]
  <2>1. i # job[c].id => users'[i] = users[i]
    BY <1>0, <1>11, WriteSuccessEffect DEF RankUpdate
  <2>2. i = job[c].id => users'[i] = row
    BY <1>0, <1>1, <1>11 DEF WriteSuccess, Update, TypeOK
  <2>3. row.password \in {users[i].password, job[c].password}
    BY <1>r DEF Row
  <2> HIDE DEF row
  <2>. QED
    BY <1>11, <2>1, <2>2, <2>3 DEF WriteSuccess
<1>12. ASSUME NEW k \in Ids, LockExpires(k) PROVE Goal
  BY <1>0, <1>r, <1>12 DEF LockExpires, TypeOK, Row
<1>13. ASSUME NEW c \in Clients, Writes(c) PROVE Goal
  BY <1>4, <1>5, <1>6, <1>7, <1>8, <1>9, <1>13 DEF Writes
<1>14. ASSUME NEW c \in Clients, Login(c) PROVE Goal
  BY <1>3, <1>10, <1>11, <1>14 DEF Login
<1>. QED
  BY <1>2, <1>3, <1>12, <1>13, <1>14 DEF Next

\* How a call comes to the steps that vouch.
LEMMA VouchingStep ==
  ASSUME TypeOK, Next, NEW d \in Clients, Stage(d)
  PROVE  /\ Stage(d)'
         /\ \/ ~At(d, "grant")' /\ ~At(d, "reread")'
            \/ job'[d] = job[d]
            \/ /\ users' = users /\ users[job'[d].id] # NoUser
               /\ users[job'[d].id].password = job'[d].password
            \/ /\ At(d, "grant") \/ WritePassword(d)
               /\ job'[d].id = job[d].id /\ job'[d].password = job[d].password
<1> DEFINE Goal ==
      /\ Stage(d)'
      /\ \/ ~At(d, "grant")' /\ ~At(d, "reread")'
         \/ job'[d] = job[d]
         \/ /\ users' = users /\ users[job'[d].id] # NoUser
            /\ users[job'[d].id].password = job'[d].password
         \/ /\ At(d, "grant") \/ WritePassword(d)
            /\ job'[d].id = job[d].id /\ job'[d].password = job[d].password
<1>0. job \in [Clients -> Job \cup {Idle}]
  BY DEF TypeOK
<1>1. CASE job'[d] = job[d]
  BY <1>1 DEF Stage, At
<1>2. ASSUME NEW c \in Clients, Return(c) PROVE Goal
  BY <1>0, <1>1, <1>2 DEF Return, Stage, At
<1>3. ASSUME NEW c \in Clients, NEW step \in Steps, job[c] # Idle, Goto(c, step)
      PROVE  \/ c # d /\ job'[d] = job[d]
             \/ /\ c = d /\ job'[d] # Idle /\ job'[d].at = step /\ job'[d].id = job[d].id
                /\ job'[d].call = job[d].call /\ job'[d].password = job[d].password
  <2>1. job[c] \in Job
    BY <1>0, <1>3
  <2>2. [job[c] EXCEPT !.at = step] # Idle
    BY <2>1 DEF Job, Idle, AllCalls, OperatorCalls, RoleCalls, ActiveCalls, SignupCalls
  <2>. QED
    BY <1>0, <1>3, <2>1, <2>2 DEF Goto, Job
<1>4. ASSUME NEW c \in Clients, NEW call, NEW at \in {"count", "write", "lookup", "hash"},
             NEW i \in Ids, NEW pw, Begin(c, call, at, i, pw), at = "hash" => call = "login"
      PROVE  Goal
  BY <1>0, <1>1, <1>4 DEF Begin, Stage, At
<1>5. ASSUME NEW c \in Clients, Inserts(c) PROVE Goal
  BY <1>1, <1>5 DEF Inserts, Create, Signup, Bootstrap, Insert
<1>6. ASSUME NEW c \in Clients, Reads(c) PROVE Goal
  <2>1. CASE ReadForChange(c)
    <3> DEFINE i == job[c].id
               version == users[i].version
    <3>1. CASE users[i] = NoUser
      BY <1>2, <2>1, <3>1 DEF ReadForChange
    <3>2. CASE users[i] # NoUser
      <4>1. job[c] \in Job
        BY <1>0, <2>1 DEF ReadForChange, At
      <4>2. job' = [job EXCEPT ![c] = [job[c] EXCEPT !.at = "write", !.version = version]]
        BY <2>1, <3>2 DEF ReadForChange
      <4>3. [job[c] EXCEPT !.at = "write", !.version = version].at = "write"
        BY <4>1 DEF Job
      <4>. QED
        BY <1>0, <1>1, <4>2, <4>3 DEF Stage, At
    <3>. QED
      BY <3>1, <3>2
  <2>2. ASSUME NEW i \in Ids, NEW pw \in Passwords,
               \/ \E call \in Calls : ReadTarget(c, call, i) \/ ReadPending(c, call, i)
               \/ ReadForReset(c, i, pw) \/ VerifyOwnPassword(c, i, pw)
               \/ ReadForLogin(c, i, pw)
        PROVE  Goal
    BY <1>4, <2>2
    DEF ReadTarget, ReadPending, ReadForReset, VerifyOwnPassword, ReadForLogin
  <2>. QED
    BY <1>6, <2>1, <2>2 DEF Reads
<1>7. ASSUME NEW c \in Clients, CountOthers(c) PROVE Goal
  <2>1. CASE Return(c)
    BY <1>2, <2>1
  <2>2. CASE Goto(c, "write")
    BY <1>0, <1>1, <1>3, <1>7, <2>2 DEF CountOthers, Stage, At, Steps
  <2>. QED
    BY <1>7, <2>1, <2>2 DEF CountOthers
<1>8. ASSUME NEW c \in Clients, Writes(c) PROVE Goal
  <2>1. CASE Return(c)
    BY <1>2, <2>1
  <2>2. CASE WritePassword(c) /\ job[c].call = "change"
    <3>1. job[c] # Idle /\ Goto(c, "reread")
      BY <2>2 DEF WritePassword, Writing, At
    <3>. QED
      BY <1>1, <1>3, <2>2, <3>1 DEF Stage, At, Steps
  <2>3. ASSUME NEW i \in Ids, Unlock(c, i) PROVE Goal
    BY <1>1, <2>3 DEF Unlock
  <2>. QED
    BY <1>8, <2>1, <2>2, <2>3
    DEF Writes, WriteRole, WriteActive, WriteInactive, WriteApproval, DeleteRow, WritePassword,
        Finish
<1>9. ASSUME NEW c \in Clients, CheckHash(c) PROVE Goal
  <2>1. CASE Return(c)
    BY <1>2, <2>1
  <2>2. CASE Goto(c, "fail")
    BY <1>1, <1>3, <1>9, <2>2 DEF CheckHash, Stage, At, Steps
  <2>3. CASE /\ Goto(c, "grant") /\ users[job[c].id] # NoUser
             /\ users[job[c].id].password = job[c].password
    BY <1>1, <1>3, <1>9, <2>3 DEF CheckHash, Stage, At, Steps
  <2>. QED
    BY <1>9, <2>1, <2>2, <2>3 DEF CheckHash
<1>10. ASSUME NEW c \in Clients, NEW rehash \in BOOLEAN, WriteSuccess(c, rehash) PROVE Goal
  BY <1>1, <1>3, <1>10 DEF WriteSuccess, Stage, At, Steps
<1>11. ASSUME NEW c \in Clients, Login(c) PROVE Goal
  BY <1>2, <1>9, <1>10, <1>11 DEF Login, WriteFailure, Reread, Finish
<1>12. ASSUME NEW i \in Ids, LockExpires(i) PROVE Goal
  BY <1>1, <1>12 DEF LockExpires
<1>. QED
  BY <1>5, <1>6, <1>7, <1>8, <1>11, <1>12 DEF Next

LEMMA VouchedStep ==
  ASSUME VersionInv, RenewalsApart, Next, NEW d \in Clients
  PROVE  Stage(d)' /\ Vouched(d)'
<1>0. NameInv /\ TypeOK /\ Stage(d)
  BY DEF VersionInv, SessInv, LoginInv, NameInv
<1>1. Stage(d)'
  BY <1>0, VouchingStep
<1> SUFFICES ASSUME At(d, "grant")' \/ At(d, "reread")', users'[job'[d].id] # NoUser
             PROVE  users'[job'[d].id].password = job'[d].password
  BY <1>1 DEF Vouched
<1> DEFINE i == job[d].id
<1>2. CASE users' = users /\ users[job'[d].id].password = job'[d].password
  BY <1>2
<1>3. CASE /\ job[d] # Idle /\ i = job'[d].id /\ job'[d].password = job[d].password
           /\ Renewing(d) \/ Vouching(d)
           /\ WritePassword(d) \/ users[i].password = job[d].password
  <2>1. i \in Ids /\ i < nextId /\ users[i] # NoUser
    BY <1>0, <1>3, TargetRow, RowsOnlySettle DEF NameInv, IdsUsed
  <2>2. CASE WritePassword(d)
    BY <1>0, <1>3, <2>1, <2>2, WrittenPassword
  <2>3. CASE users[i].password = job[d].password
    <3>1. ASSUME NEW c \in Clients, WritePassword(c), job[c].id = i
          PROVE  users'[i].password = job[d].password
      <4>1. Renewing(c)
        BY <3>1 DEF WritePassword, Writing, At, Renewing, Renewals
      <4>2. c = d
        BY <1>3, <3>1, <4>1 DEF RenewalsApart, Vouching, Renewing
      <4>. QED
        BY <1>0, <2>1, <3>1, <4>2, WrittenPassword
    <3>2. ASSUME NEW c \in Clients, At(c, "grant"), job[c].id = i
          PROVE  users[i].password = job[c].password
      BY <2>1, <3>2 DEF VersionInv, Vouched
    <3>. QED
      BY <1>0, <1>3, <2>1, <2>3, <3>1, <3>2, PasswordWritten
  <2>. QED
    BY <1>3, <2>2, <2>3
<1>4. CASE job'[d] = job[d] \/ At(d, "grant")
  <2>1. At(d, "grant") \/ At(d, "reread")
    BY <1>4 DEF At
  <2>2. Vouching(d) /\ job[d] # Idle
    BY <1>0, <2>1 DEF Stage, Vouching, At
  <2>3. users[i] # NoUser => users[i].password = job[d].password
    BY <2>1 DEF VersionInv, Vouched
  <2>4. i \in Ids /\ i < nextId
    BY <1>0, <2>2, TargetRow DEF NameInv, IdsUsed
  <2>5. CASE i = job'[d].id /\ job'[d].password = job[d].password
    BY <1>0, <1>3, <2>2, <2>3, <2>4, <2>5, RowsOnlySettle
  <2>. QED
    BY <1>0, <1>2, <1>4, <2>5, VouchingStep DEF WritePassword, Writing, At
<1>5. CASE WritePassword(d) /\ i = job'[d].id /\ job'[d].password = job[d].password
  BY <1>3, <1>5 DEF WritePassword, Writing, At, Renewing, Renewals
<1>. QED
  BY <1>0, <1>2, <1>4, <1>5, VouchingStep

LEMMA NotAheadStep ==
  ASSUME VersionInv, [SNext]_vars, NEW d \in Clients
  PROVE  NotAhead(d)'
<1> SUFFICES ASSUME sess'[d] # NoSession, users'[sess'[d].id] # NoUser
             PROVE  sess'[d].version <= users'[sess'[d].id].version
  BY DEF NotAhead
<1>0. PageInv /\ TypeOK /\ NameInv /\ [Next]_storeVars
  BY StepIsStore DEF VersionInv, SessInv, LoginInv, NameInv
<1>1. SessionStep(d)
  BY <1>0, TabFrame DEF SNext, TabStep, vars, SessionStep
<1>2. CASE sess'[d] = sess[d]
  <2> DEFINE i == sess[d].id
  <2>1. i \in Ids /\ sess[d].version \in Nat
    BY <1>0, <1>2 DEF PageInv, SessionsTypeOK, Session
  <2>2. CASE Next
    <3>1. i < nextId
      BY <1>2 DEF VersionInv, SessInv, Proper
    <3>2. /\ users[i] # NoUser /\ users[i].version \in Nat
          /\ users'[i].version \in {users[i].version, users[i].version + 1}
      BY <1>2, <2>1, <2>2, <3>1, VersionGrows
    <3>. QED
      BY <1>2, <2>1, <3>2 DEF VersionInv, NotAhead
  <2>3. CASE UNCHANGED storeVars
    BY <1>2, <2>3 DEF storeVars, VersionInv, NotAhead
  <2>. QED
    BY <1>0, <2>2, <2>3
<1>3. ASSUME NEW i \in Ids, users[i] # NoUser, users' = users, sess'[d] = SessionFor(i)
      PROVE  sess'[d].version <= users'[sess'[d].id].version
  BY <1>0, <1>3 DEF SessionFor, TypeOK, Row
<1>. QED
  BY <1>1, <1>2, <1>3 DEF SessionStep

LEMMA VersionInit == SInit => VersionInv
BY SessInit DEF SInit, Init, VersionInv, VersionRead, Renewing, NotAhead, Stage, Vouched, At

LEMMA VersionStep ==
  ASSUME VersionInv, RenewalsApart, [SNext]_vars
  PROVE  VersionInv'
<1>1. SessInv' /\ [Next]_storeVars
  BY SessStep, StepIsStore DEF VersionInv, SessInv
<1>2. \A d \in Clients : NotAhead(d)'
  BY NotAheadStep
<1>3. CASE Next
  BY <1>1, <1>2, <1>3, VersionReadStep, VouchedStep DEF VersionInv
<1>4. CASE UNCHANGED storeVars
  <2>1. \A d \in Clients : VersionRead(d)' /\ Stage(d)' /\ Vouched(d)'
    BY <1>4 DEF storeVars, VersionInv, VersionRead, Renewing, Stage, Vouched, At
  <2>. QED
    BY <1>1, <1>2, <2>1 DEF VersionInv
<1>. QED
  BY <1>1, <1>3, <1>4

\* Only the write itself takes a call past it.
LEMMA WriterWrites ==
  ASSUME TypeOK, Next, NEW c \in Clients, Writing(c, {"reset", "change"}), job'[c] # job[c]
  PROVE  WritePassword(c)
<1>0. job \in [Clients -> Job \cup {Idle}] /\ job[c] # Idle /\ job[c].at = "write"
  BY DEF TypeOK, Writing, At
<1>1. ASSUME NEW e \in Clients,
             \/ \E call, at, i, pw : Begin(e, call, at, i, pw)
             \/ e # c /\ \E next : job' = [job EXCEPT ![e] = next]
             \/ job' = job
      PROVE  FALSE
  BY <1>0, <1>1 DEF Begin
<1>2. ASSUME NEW e \in Clients, Inserts(e) PROVE FALSE
  BY <1>1, <1>2 DEF Inserts, Create, Signup, Bootstrap, Insert
<1>3. ASSUME NEW e \in Clients, Reads(e) PROVE FALSE
  <2>1. CASE ReadForChange(e)
    BY <1>0, <1>1, <2>1 DEF ReadForChange, At, Return
  <2>2. ASSUME NEW i \in Ids, NEW pw \in Passwords,
               \/ \E call \in Calls : ReadTarget(e, call, i) \/ ReadPending(e, call, i)
               \/ ReadForReset(e, i, pw) \/ VerifyOwnPassword(e, i, pw)
               \/ ReadForLogin(e, i, pw)
        PROVE  FALSE
    BY <1>1, <2>2
    DEF ReadTarget, ReadPending, ReadForReset, VerifyOwnPassword, ReadForLogin
  <2>. QED
    BY <1>3, <2>1, <2>2 DEF Reads
<1>4. ASSUME NEW e \in Clients,
             CountOthers(e) \/ CheckHash(e) \/ WriteFailure(e) \/ Reread(e)
             \/ \E rehash \in BOOLEAN : WriteSuccess(e, rehash)
      PROVE  FALSE
  BY <1>0, <1>1, <1>4
  DEF CountOthers, CheckHash, WriteFailure, Reread, WriteSuccess, Finish, At, Goto, Return
<1>5. ASSUME NEW e \in Clients, Writes(e), ~WritePassword(c) PROVE FALSE
  <2>1. CASE Decision(e)
    BY <1>0, <1>1, <2>1
    DEF Decision, WriteRole, WriteActive, WriteInactive, WriteApproval, DeleteRow, Writing,
        At, Finish, Return, RoleCalls
  <2>2. CASE WritePassword(e)
    BY <1>1, <1>5, <2>2 DEF WritePassword, Goto, Return
  <2>3. ASSUME NEW i \in Ids, Unlock(e, i) PROVE FALSE
    BY <1>1, <2>3 DEF Unlock
  <2>. QED
    BY <1>5, <2>1, <2>2, <2>3 DEF Writes, Decision
<1>6. ASSUME NEW i \in Ids, LockExpires(i) PROVE FALSE
  BY <1>6 DEF LockExpires
<1>. QED
  BY <1>2, <1>3, <1>4, <1>5, <1>6 DEF Next, Login

\* A change or reset writes one more than the account has, and no session has
\* more than that.
LEMMA RenewalEnds ==
  ASSUME VersionInv, SNext
  PROVE  Behind
<1> SUFFICES ASSUME NEW c \in Clients, NEW d \in Clients,
                    Writing(c, {"reset", "change"}), job'[c] # job[c],
                    users[job[c].id] # NoUser,
                    d # c, sess[d] # NoSession, sess[d].id = job[c].id
             PROVE  sess[d].version < users'[job[c].id].version
  BY DEF Behind
<1> DEFINE i == job[c].id
<1>0. TypeOK /\ PageInv /\ sess[d] \in Session
  BY DEF VersionInv, SessInv, PageInv, SessionsTypeOK
<1>1. WritePassword(c)
  <2>1. Next
    BY <1>0, StepIsStore DEF storeVars
  <2>. QED
    BY <1>0, <2>1, WriterWrites
<1>2. users[i].version \in Nat /\ sess[d].version \in Nat
  BY <1>0, TargetRow DEF Row, Session, Writing, At
<1>3. users'[i].version = job[c].version + 1
  BY <1>0, <1>1, PasswordRenews
<1>4. job[c].version = users[i].version /\ sess[d].version <= users[i].version
  BY DEF VersionInv, VersionRead, NotAhead, Renewing, Renewals, Writing, At
<1>. QED
  BY <1>2, <1>3, <1>4

LEMMA VersionsGrow ==
  ASSUME VersionInv, SNext
  PROVE  Onwards
<1> SUFFICES ASSUME NEW i \in Ids, users[i] # NoUser, users'[i] # NoUser
             PROVE  users[i].version <= users'[i].version
  BY DEF Onwards
<1>0. PageInv /\ TypeOK /\ NameInv /\ users[i].version \in Nat
  BY DEF VersionInv, SessInv, LoginInv, NameInv, TypeOK, Row
<1>1. [Next]_storeVars
  BY <1>0, StepIsStore
<1>2. CASE Next
  <2>1. i < nextId
    BY <1>0 DEF NameInv, IdsUsed
  <2>. QED
    BY <1>0, <1>2, <2>1, VersionGrows
<1>3. CASE UNCHANGED storeVars
  BY <1>0, <1>3 DEF storeVars
<1>. QED
  BY <1>1, <1>2, <1>3

\* A session is taken over from the row a call reads back at its end, and the
\* call's password is the account's then.
LEMMA SessionsTakenOver ==
  ASSUME VersionInv, SNext
  PROVE  TakenOver
<1> SUFFICES ASSUME NEW c \in Clients, sess'[c] # sess[c], sess'[c] # NoSession,
                    ~Revalidates(c)
             PROVE  job[c] # Idle /\ users[sess'[c].id].password = job[c].password
  BY DEF TakenOver
<1>0. PageInv /\ TypeOK
  BY DEF VersionInv, SessInv, PageInv, SessionsTypeOK
<1>1. SessionStep(c)
  BY <1>0, TabFrame DEF SNext, TabStep
<1>2. PICK i \in Ids : /\ users[i] # NoUser /\ sess'[c] = SessionFor(i)
                      /\ At(c, "reread") /\ job[c].id = i
  BY <1>1 DEF SessionStep
<1>3. sess'[c].id = i
  BY <1>0, <1>2, SessionForType
<1>4. users[i].password = job[c].password
  BY <1>2 DEF VersionInv, Vouched
<1>. QED
  BY <1>2, <1>3, <1>4 DEF At

ApartInv == VersionInv /\ RenewalsApart

\* A password change or reset is final for every set of tabs and operators, as
\* long as nobody renews an account while another call renews it or speaks for
\* it: the other sessions of the account fall behind, no session_version comes
\* back, and only a call whose own password is the account's makes a session
\* good again (user_store.py set_password, auth_ui.py change_own_password).
THEOREM ResetsFinal == ApartSpec => ResetsAreFinal
<1>1. SInit => ApartInv
  BY VersionInit DEF SInit, Init, ApartInv, RenewalsApart, Renewing
<1>2. ApartInv /\ [SNext /\ RenewalsApart']_vars => ApartInv'
  <2> SUFFICES ASSUME ApartInv, [SNext /\ RenewalsApart']_vars PROVE ApartInv'
    OBVIOUS
  <2>1. VersionInv'
    BY VersionStep DEF ApartInv
  <2>2. UNCHANGED vars => RenewalsApart'
    BY DEF ApartInv, vars, RenewalsApart, Renewing, Vouching
  <2>. QED
    BY <2>1, <2>2 DEF ApartInv
<1>3. ApartInv /\ [SNext /\ RenewalsApart']_vars
        => [Behind /\ Onwards /\ TakenOver]_vars
  BY RenewalEnds, VersionsGrow, SessionsTakenOver DEF ApartInv
<1>. QED
  BY <1>1, <1>2, <1>3, PTL DEF ApartSpec, ResetsAreFinal
=============================================================================
