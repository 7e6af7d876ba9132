----------------------------- MODULE MCSessions -----------------------------
(* Small instances of Sessions. *)
EXTENDS Sessions

\* What the console, the login page and the account page can call: every
\* operation of the store.
TabCalls == AllCalls

\* A password change in one tab against a reset from the console.
PasswordCalls == {"bootstrap", "create", "login", "change", "reset"}

\* History: no call that renews an account has overlapped another one, or one
\* that speaks for the account, so far.
VARIABLE apart
MCVars == <<vars, apart>>
MCInit == SInit /\ apart = TRUE
MCNext == SNext /\ apart' = (apart /\ RenewalsApart')
MCSpec == MCInit /\ [][MCNext]_MCVars

\* As long as that is so, a change or reset is final (ResetsAreFinal).
FinalWhileApart == [][apart' => Behind /\ Onwards /\ TakenOver]_MCVars
=============================================================================
