--------------------------- MODULE SessionLifetime ---------------------------
(***************************************************************************)
(* How long one browser session lives: the two timestamps that             *)
(* auth_session.enforce_session judges at every run of the script, and     *)
(* that a sign-in, a change of password and the end of a session write     *)
(* (auth.py, auth_session.py, auth_ui.py).  Sessions has everything else   *)
(* about the gate; there a session may be refused at any time.             *)
(*                                                                         *)
(* Time is counted in units of which IdleLimit make up the idle timeout    *)
(* and AbsoluteLimit the longest session.  A handler writes session_state  *)
(* field by field, and a click can stop it between two writes.             *)
(***************************************************************************)
EXTENDS Integers

CONSTANTS
  IdleLimit,      \* SESSION_IDLE_TIMEOUT_MINUTES
  AbsoluteLimit,  \* SESSION_ABSOLUTE_TIMEOUT_HOURS
  Never,          \* a timestamp that session_state does not hold
  MaxTime         \* bound: how far the clock goes

Time == 0..MaxTime

ASSUME LifetimeAssumption ==
  /\ IdleLimit \in Nat \ {0} /\ AbsoluteLimit \in Nat \ {0} /\ MaxTime \in Nat
  /\ Never \notin Time

VARIABLES
  now,
  since,     \* auth_user.authenticated_at; Never when nobody is signed in
  seen,      \* auth_last_activity
  session,   \* when it was signed in to, its last run, and whether it was to end
  doing      \* where the run of the script is

lifetimeVars == <<now, since, seen, session, doing>>

Doings == {"waiting", "login", "gate", "page", "ending"}

LifetimeTypeOK ==
  /\ now \in Time
  /\ since \in Time \cup {Never} /\ seen \in Time \cup {Never}
  /\ session \in [start : Time, active : Time, leaving : BOOLEAN]
  /\ doing \in Doings

LifetimeInit ==
  /\ now = 0 /\ since = Never /\ seen = Never
  /\ session = [start |-> 0, active |-> 0, leaving |-> FALSE]
  /\ doing = "waiting"

----------------------------------------------------------------------------
Elapses ==
  /\ now < MaxTime /\ now' = now + 1
  /\ UNCHANGED <<since, seen, session, doing>>

\* The user does something: the script runs from the top.
Interact ==
  /\ doing \in {"waiting", "page", "login"}
  /\ doing' = IF since = Never THEN "login" ELSE "gate"
  /\ UNCHANGED <<now, since, seen, session>>

\* start_session: the wipe, auth_user and then auth_last_activity.
SignIn ==
  /\ doing = "login"
  /\ since' = now
  /\ seen' \in {now, Never}
  /\ session' = [start |-> now, active |-> now, leaving |-> FALSE]
  /\ doing' = "waiting"
  /\ UNCHANGED now

\* evaluate_session_expiry, in its order.
OnlySince == since
LastSeen == IF seen = Never THEN since ELSE seen
TooOld   == now - since >= AbsoluteLimit
TooIdle  == now - LastSeen >= IdleLimit
Expired == TooOld \/ TooIdle

\* The session goes on: auth_user is replaced by a fresh copy that keeps
\* authenticated_at, then the activity is noted.
RenewsSince(t) == since' = t
KeepsSince(t)  == since' = since

Pass ==
  /\ doing = "gate" /\ ~Expired
  /\ KeepsSince(now)
  /\ seen' = now
  /\ session' = [session EXCEPT !.active = now]
  /\ doing' = "page"
  /\ UNCHANGED now

\* A click stops the run between the two writes; the next run starts at once.
PassStopped ==
  /\ doing = "gate" /\ ~Expired
  /\ KeepsSince(now)
  /\ UNCHANGED <<now, seen, session, doing>>

TimeOut ==
  /\ doing = "gate" /\ Expired
  /\ doing' = "ending"
  /\ UNCHANGED <<now, since, seen, session>>

\* change_own_password: the new auth_user keeps authenticated_at as well.
ChangePassword ==
  /\ doing = "page"
  /\ KeepsSince(now)
  /\ UNCHANGED <<now, seen, session, doing>>

\* Log out, or another reason of the gate to refuse the session.
LogOut ==
  /\ doing \in {"gate", "page"}
  /\ doing' = "ending"
  /\ session' = [session EXCEPT !.leaving = TRUE]
  /\ UNCHANGED <<now, since, seen>>

\* wipe_session_for_identity_change pops the fields one after the other ...
Wipe ==
  /\ doing = "ending"
  /\ since' = Never /\ seen' = Never
  /\ doing' = "login"
  /\ UNCHANGED <<now, session>>

\* ... in the order of session_state, and may be stopped half way.
WipeStopped ==
  /\ doing = "ending"
  /\ \/ since' = Never /\ UNCHANGED seen
     \/ seen' = Never /\ UNCHANGED since
  /\ doing' = "waiting"
  /\ UNCHANGED <<now, session>>

LifetimeNext ==
  \/ Elapses \/ Interact \/ SignIn \/ Pass \/ PassStopped \/ TimeOut
  \/ ChangePassword \/ LogOut \/ Wipe \/ WipeStopped

LifetimeSpec == LifetimeInit /\ [][LifetimeNext]_lifetimeVars

----------------------------------------------------------------------------
\* A page is drawn only for a session that is younger than the absolute limit
\* and was last active less than the idle limit ago.  What session_state holds
\* after a stopped sign-in, gate, or end of the session never makes it live
\* longer, and neither does a change of password.
PagesWithinLimits ==
  [][doing = "gate" /\ doing' = "page"
       => /\ now - session.start < AbsoluteLimit
          /\ now - session.active < IdleLimit]_lifetimeVars

\* Someone who keeps working is not signed out before the absolute limit: the
\* gate judges the activity before this run and notes the new one after it.
WorkingUserStays ==
  [][doing = "gate" /\ doing' = "ending" /\ ~session'.leaving
       => \/ now - session.start >= AbsoluteLimit
          \/ now - session.active >= IdleLimit]_lifetimeVars
============================================================================
