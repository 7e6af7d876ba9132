-------------------------- MODULE AccountRegistry --------------------------
(***************************************************************************)
(* What the accounts store promises about who may use the program: each    *)
(* operation of an administrator is one step, decided on the accounts as   *)
(* they are at that moment.  An account is in one of three states, its     *)
(* name and its id are its own for good, and an operation that would take  *)
(* the last active administrator away does not happen.                     *)
(***************************************************************************)
EXTENDS Integers

CONSTANTS
  Usernames,  \* names an account can have
  NoUser,     \* what is left of an account that was deleted
  MaxUsers    \* bound: accounts ever opened

VARIABLES
  accounts,   \* accounts[i]: the account with id i, or NoUser
  issued      \* ids handed out so far

registry == <<accounts, issued>>

Held == {i \in 1..MaxUsers : accounts[i] # NoUser}

Administrators ==
  {i \in Held : accounts[i].role = "admin" /\ accounts[i].state = "active"}

\* Account i is not the last active administrator.
Dispensable(i) == i \in Administrators => Administrators \ {i} # {}

RInit == accounts = [i \in 1..MaxUsers |-> NoUser] /\ issued = 0

\* A sign-up is a pending user; administrators open active accounts.
Open(name, role, state) ==
  /\ issued < MaxUsers
  /\ \A i \in Held : accounts[i].username # name
  /\ state = "active" \/ (state = "pending" /\ role = "user")
  /\ issued' = issued + 1
  /\ accounts' = [accounts EXCEPT ![issued'] =
                    [username |-> name, role |-> role, state |-> state]]

Appoint(i, role) ==
  /\ i \in Held /\ (role = "user" => Dispensable(i))
  /\ accounts' = [accounts EXCEPT ![i].role = role]
  /\ UNCHANGED issued

\* The approval of a sign-up activates it as well.
Activate(i) ==
  /\ i \in Held
  /\ accounts' = [accounts EXCEPT ![i].state = "active"]
  /\ UNCHANGED issued

Deactivate(i) ==
  /\ i \in Held /\ Dispensable(i)
  /\ accounts' = [accounts EXCEPT ![i].state = "disabled"]
  /\ UNCHANGED issued

\* The rejection of a sign-up deletes it.
Delete(i) ==
  /\ i \in Held /\ Dispensable(i)
  /\ accounts' = [accounts EXCEPT ![i] = NoUser]
  /\ UNCHANGED issued

RNext ==
  \/ \E name \in Usernames, role \in {"admin", "user"}, state \in {"active", "pending"} :
       Open(name, role, state)
  \/ \E i \in Held :
       \/ \E role \in {"admin", "user"} : Appoint(i, role)
       \/ Activate(i) \/ Deactivate(i) \/ Delete(i)

RSpec == RInit /\ [][RNext]_registry
============================================================================
