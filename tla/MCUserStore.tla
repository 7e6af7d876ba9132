---------------------------- MODULE MCUserStore ----------------------------
(* Small instances of UserStore. *)
EXTENDS UserStore

\* Only what two administrators need to demote each other.
DemotionCalls == {"bootstrap", "create", "demote"}

\* Only what two simultaneous sign-ins need.
SignInCalls == {"bootstrap", "login"}

\* Only what two administrators need to decide on one sign-up.
DecisionsOnSignups == {"bootstrap", "signup"} \cup SignupCalls
============================================================================
