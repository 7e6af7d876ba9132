---------------------------- MODULE ResetRequests ----------------------------
(***************************************************************************)
(* Password reset requests (user_store.py, auth_ui.py, admin_console.py):  *)
(* the sign-in page records a request, an administrator authorises it,     *)
(* which replaces the password and shows the new one once, or rejects it.  *)
(*                                                                         *)
(* Every step is one SQLite statement or transaction; resetJob[c] holds    *)
(* the locals of the call that tab c is in and names its next step.  Of an *)
(* account only what these calls see is kept: its name, whether it waits   *)
(* for approval, and which temporary password it has (0: one its owner     *)
(* chose).  UserStore has the rest.                                        *)
(***************************************************************************)
EXTENDS Integers, FiniteSets

CONSTANTS
  ResetAdmins,    \* tabs showing the administration console
  Forgetful,      \* tabs showing the sign-in page
  AccountNames,
  NoAccount, NoRequest, NoCall, NothingShown,
  MaxAccounts,    \* bound: accounts ever created
  MaxRequests,    \* bound: requests ever recorded
  MaxIssued       \* bound: temporary passwords ever generated

AccountIds == 1..MaxAccounts
RequestIds == 1..MaxRequests
NoId       == 0

Account == [name : AccountNames, pending : BOOLEAN, password : 0..MaxIssued]
Request == [name : AccountNames, account : AccountIds \cup {NoId},
            status : {"pending", "fulfilled", "rejected"}]
Call    == [at : {"ask", "insert", "byId", "byName", "lookup", "set",
                  "resolve", "answer", "show"},
            answer : {"none", "fulfilled", "rejected"},
            request : RequestIds \cup {NoId}, name : AccountNames,
            account : AccountIds \cup {NoId}, temporary : 0..MaxIssued]

ASSUME ResetAssumption ==
  /\ MaxAccounts \in Nat /\ MaxRequests \in Nat /\ MaxIssued \in Nat
  /\ ResetAdmins \cap Forgetful = {}
  /\ NoAccount \notin Account /\ NoRequest \notin Request /\ NoCall \notin Call
  /\ NothingShown \notin [account : AccountIds, temporary : 0..MaxIssued]

VARIABLES
  accounts,    \* accounts[i]: the row of `users` with id i, or NoAccount
  nextAccount, \* AUTOINCREMENT: an id is never handed out twice
  requests,    \* password_reset_requests, whose rows are never deleted
  nextRequest,
  issued,      \* temporary passwords generated so far
  resetJob,
  shown        \* shown[c]: admin_temp_password as tab c displays it

resetVars == <<accounts, nextAccount, requests, nextRequest, issued, resetJob, shown>>

ResetTabs == ResetAdmins \cup Forgetful

ResetTypeOK ==
  /\ accounts \in [AccountIds -> Account \cup {NoAccount}]
  /\ nextAccount \in 1..(MaxAccounts + 1)
  /\ requests \in [RequestIds -> Request \cup {NoRequest}]
  /\ nextRequest \in 1..(MaxRequests + 1)
  /\ issued \in 0..MaxIssued
  /\ resetJob \in [ResetTabs -> Call \cup {NoCall}]
  /\ shown \in [ResetAdmins -> [account : AccountIds, temporary : 0..MaxIssued]
                                 \cup {NothingShown}]

ResetInit ==
  /\ accounts = [i \in AccountIds |-> NoAccount]
  /\ nextAccount = 1
  /\ requests = [r \in RequestIds |-> NoRequest]
  /\ nextRequest = 1
  /\ issued = 0
  /\ resetJob = [c \in ResetTabs |-> NoCall]
  /\ shown = [c \in ResetAdmins |-> NothingShown]

----------------------------------------------------------------------------
Accounts  == {i \in AccountIds : accounts[i] # NoAccount}
Named(name) == {i \in Accounts : accounts[i].name = name}
Pending   == {r \in RequestIds : requests[r] # NoRequest /\ requests[r].status = "pending"}

Stands(c, at) == resetJob[c] # NoCall /\ resetJob[c].at = at
Step(c, at)   == resetJob' = [resetJob EXCEPT ![c].at = at]
Leave(c)      == resetJob' = [resetJob EXCEPT ![c] = NoCall]

TablesKept == UNCHANGED <<accounts, nextAccount, requests, nextRequest>>

----------------------------------------------------------------------------
(* The accounts, as the other calls of user_store.py change them.          *)

RecycledAccount ==
  IF Accounts = AccountIds THEN nextAccount
  ELSE CHOOSE i \in AccountIds \ Accounts : \A k \in AccountIds \ Accounts : i <= k
FreshAccount == nextAccount

NewAccount(name, pending) ==
  /\ nextAccount \in AccountIds
  /\ Named(name) = {}
  /\ accounts' = [accounts EXCEPT ![FreshAccount] =
                    [name |-> name, pending |-> pending, password |-> 0]]
  /\ nextAccount' = nextAccount + 1
  /\ UNCHANGED <<requests, nextRequest, issued, resetJob, shown>>

\* FOREIGN KEY(user_id) ... ON DELETE SET NULL, with PRAGMA foreign_keys = ON.
RemoveAccount(i) ==
  /\ accounts[i] # NoAccount
  /\ accounts' = [accounts EXCEPT ![i] = NoAccount]
  /\ requests' = [r \in RequestIds |->
                    IF requests[r] # NoRequest /\ requests[r].account = i
                    THEN [requests[r] EXCEPT !.account = NoId] ELSE requests[r]]
  /\ UNCHANGED <<nextAccount, nextRequest, issued, resetJob, shown>>

ApproveAccount(i) ==
  /\ accounts[i] # NoAccount /\ accounts[i].pending
  /\ accounts' = [accounts EXCEPT ![i].pending = FALSE]
  /\ UNCHANGED <<nextAccount, requests, nextRequest, issued, resetJob, shown>>

\* The owner signs in with a temporary password and chooses another.
OwnerChanges(i) ==
  /\ accounts[i] # NoAccount /\ accounts[i].password # 0
  /\ accounts' = [accounts EXCEPT ![i].password = 0]
  /\ UNCHANGED <<nextAccount, requests, nextRequest, issued, resetJob, shown>>

----------------------------------------------------------------------------
(* request_password_reset                                                  *)

\* Unknown and pending accounts get the same answer and leave no request.
AskForReset(c, i) ==
  /\ c \in Forgetful /\ resetJob[c] = NoCall
  /\ accounts[i] # NoAccount /\ ~accounts[i].pending
  /\ resetJob' = [resetJob EXCEPT ![c] =
       [at |-> "ask", answer |-> "none", request |-> NoId, name |-> accounts[i].name,
        account |-> i, temporary |-> 0]]
  /\ UNCHANGED <<issued, shown>> /\ TablesKept

\* The SELECT takes no lock: the INSERT comes in a transaction of its own.
LookForPending(c) ==
  /\ Stands(c, "ask")
  /\ IF \E r \in Pending : requests[r].name = resetJob[c].name
     THEN Leave(c) ELSE Step(c, "insert")
  /\ UNCHANGED <<issued, shown>> /\ TablesKept

\* The foreign key refuses the row of an account deleted meanwhile.
InsertRequest(c) ==
  /\ Stands(c, "insert") /\ nextRequest \in RequestIds
  /\ IF accounts[resetJob[c].account] = NoAccount
     THEN UNCHANGED <<requests, nextRequest>>
     ELSE /\ requests' = [requests EXCEPT ![nextRequest] =
               [name |-> resetJob[c].name, account |-> resetJob[c].account,
                status |-> "pending"]]
          /\ nextRequest' = nextRequest + 1
  /\ Leave(c)
  /\ UNCHANGED <<accounts, nextAccount, issued, shown>>

----------------------------------------------------------------------------
(* _handle_authorize_reset_request                                         *)

\* The run that handles the click displays no earlier password any more.
StaysShown(c) == shown' = shown
Consumed(c)   == shown' = [shown EXCEPT ![c] = NothingShown]

Authorise(c, r) ==
  /\ c \in ResetAdmins /\ resetJob[c] = NoCall
  /\ r \in Pending /\ issued < MaxIssued
  /\ resetJob' = [resetJob EXCEPT ![c] =
       [at |-> IF requests[r].account = NoId THEN "byName" ELSE "byId",
        answer |-> "fulfilled", request |-> r, name |-> requests[r].name,
        account |-> requests[r].account, temporary |-> 0]]
  /\ Consumed(c)
  /\ UNCHANGED issued /\ TablesKept

\* get_user_by_id(req.user_id)
FindById(c) ==
  /\ Stands(c, "byId")
  /\ IF accounts[resetJob[c].account] = NoAccount
     THEN Step(c, "byName") /\ UNCHANGED issued
     ELSE /\ issued < MaxIssued /\ issued' = issued + 1
          /\ resetJob' = [resetJob EXCEPT ![c].at = "lookup", ![c].temporary = issued + 1]
  /\ UNCHANGED shown /\ TablesKept

\* The request outlived its account: whoever has the name now.
FindByName(c) ==
  /\ Stands(c, "byName")
  /\ IF Named(resetJob[c].name) = {}
     THEN Leave(c) /\ UNCHANGED issued
     ELSE \E i \in Named(resetJob[c].name) :
            /\ issued < MaxIssued /\ issued' = issued + 1
            /\ resetJob' = [resetJob EXCEPT ![c].at = "lookup", ![c].account = i,
                                            ![c].temporary = issued + 1]
  /\ UNCHANGED shown /\ TablesKept

\* set_password looks the account up and writes in another transaction.
LookUpAccount(c) ==
  /\ Stands(c, "lookup")
  /\ IF accounts[resetJob[c].account] = NoAccount THEN Leave(c) ELSE Step(c, "set")
  /\ UNCHANGED <<issued, shown>> /\ TablesKept

SetTemporary(c) ==
  /\ Stands(c, "set")
  /\ LET i == resetJob[c].account IN
     accounts' = IF accounts[i] = NoAccount THEN accounts
                 ELSE [accounts EXCEPT ![i].password = resetJob[c].temporary]
  /\ Step(c, "resolve")
  /\ UNCHANGED <<nextAccount, requests, nextRequest, issued, shown>>

\* A Reject button calls resolve_password_reset_request at once.
Reject(c, r) ==
  /\ c \in ResetAdmins /\ resetJob[c] = NoCall /\ r \in Pending
  /\ resetJob' = [resetJob EXCEPT ![c] =
       [at |-> "resolve", answer |-> "rejected", request |-> r,
        name |-> requests[r].name, account |-> NoId, temporary |-> 0]]
  /\ Consumed(c)
  /\ UNCHANGED issued /\ TablesKept

\* resolve_password_reset_request checks in one transaction ...
CheckPending(c) ==
  /\ Stands(c, "resolve")
  /\ IF resetJob[c].request \in Pending THEN Step(c, "answer") ELSE Leave(c)
  /\ UNCHANGED <<issued, shown>> /\ TablesKept

\* ... and updates in the next, by id alone.
AnswerRequest(c) ==
  /\ Stands(c, "answer")
  /\ requests' = [requests EXCEPT ![resetJob[c].request].status = resetJob[c].answer]
  /\ IF resetJob[c].answer = "fulfilled" THEN Step(c, "show") ELSE Leave(c)
  /\ UNCHANGED <<accounts, nextAccount, nextRequest, issued, shown>>

\* admin_temp_password, which the next run displays.
ShowTemporary(c) ==
  /\ Stands(c, "show")
  /\ shown' = [shown EXCEPT ![c] = [account |-> resetJob[c].account,
                                    temporary |-> resetJob[c].temporary]]
  /\ Leave(c)
  /\ UNCHANGED issued /\ TablesKept

\* A database error, a restart of the server, or, before "show", the next
\* access to session_state after a click that stopped the script.
Abandon(c) ==
  /\ resetJob[c] # NoCall
  /\ Leave(c)
  /\ UNCHANGED <<issued, shown>> /\ TablesKept

----------------------------------------------------------------------------
Asking(c)    == LookForPending(c) \/ InsertRequest(c) \/ \E i \in AccountIds : AskForReset(c, i)
Answering(c) ==
  \/ \E r \in RequestIds : Authorise(c, r) \/ Reject(c, r)
  \/ FindById(c) \/ FindByName(c) \/ LookUpAccount(c) \/ SetTemporary(c)
  \/ CheckPending(c) \/ AnswerRequest(c) \/ ShowTemporary(c)

AccountsChange ==
  \/ \E name \in AccountNames, pending \in BOOLEAN : NewAccount(name, pending)
  \/ \E i \in AccountIds : RemoveAccount(i) \/ ApproveAccount(i) \/ OwnerChanges(i)

ResetNext ==
  \/ \E c \in ResetTabs : Asking(c) \/ Answering(c) \/ Abandon(c)
  \/ AccountsChange

ResetSpec == ResetInit /\ [][ResetNext]_resetVars

----------------------------------------------------------------------------
\* An authorisation carries the id of an account from one transaction to the
\* next, and falls back to the name when the account is gone: whatever is
\* deleted and created meanwhile, the account whose password it replaces has
\* the name that the request shows (_handle_authorize_reset_request).
ResetReachesItsName ==
  \A c \in ResetAdmins :
    resetJob[c] # NoCall /\ resetJob[c].account \in Accounts
      => accounts[resetJob[c].account].name = requests[resetJob[c].request].name

\* The temporary password that the console shows opens the account, unless
\* its owner has replaced it: repeated requests, answers that were given up
\* half way and accounts deleted in between do not change that as long as a
\* single administrator answers.
ShownPasswordWorks ==
  \A c \in ResetAdmins :
    shown[c] # NothingShown /\ shown[c].account \in Accounts
      => accounts[shown[c].account].password \in {0, shown[c].temporary}
============================================================================
