------------------------------ MODULE OpenRouter ------------------------------
(***************************************************************************)
(* The OpenRouter key of the deployment and the requests made with it        *)
(* (openrouter*.py, api_connections_ui.py, OpenRouterVLMAdapter).  One key   *)
(* is kept for everybody, in the database; every tab has a flag of its own   *)
(* that the provider has rejected the key, which blocks the tab.  What the   *)
(* tab shows of its catalog tests decides nothing and is left out.           *)
(***************************************************************************)
EXTENDS Integers

CONSTANTS KeyTabs,        \* browser sessions, any of which may be an administrator's
          OrKeys,         \* keys somebody may paste
          NoKey,          \* the code's ""
          PhotosPerRun    \* photos of one analysis (a bound)

ASSUME OpenRouterAssumption == NoKey \notin OrKeys /\ PhotosPerRun \in Nat \ {0}

VARIABLES honoured,   \* the keys the provider accepts
          secret,     \* the row of deployment_secrets
          keyTab,     \* per tab: its session state and the script it is in the middle of
          proven,     \* history: the keys that were verified
          refused,    \* history, per tab: keys refused to it since a key was verified in it
          unflagged   \* history, per tab: those of them whose refusal a click kept from the flag
openRouterVars == <<honoured, secret, keyTab, proven, refused, unflagged>>

FreshTab == [doing |-> "idle", key |-> NoKey, rejected |-> FALSE, left |-> 0,
             detectorKey |-> NoKey]
OpenRouterInit ==
  /\ honoured \in SUBSET OrKeys
  /\ secret = NoKey /\ keyTab = [t \in KeyTabs |-> FreshTab]
  /\ proven = {} /\ refused = [t \in KeyTabs |-> {}] /\ unflagged = [t \in KeyTabs |-> {}]

Busy(t, activity) == keyTab[t].doing = activity
CredentialReady(t) == ~ keyTab[t].rejected /\ secret # NoKey
InferenceKey(t) == IF keyTab[t].rejected THEN NoKey ELSE secret

(* ----- API Connections ----- *)

\* The form is only there, and its submission only read, while no key is configured.
SubmitKey(t, k) ==
  /\ Busy(t, "idle") /\ secret = NoKey
  /\ keyTab' = [keyTab EXCEPT ![t].doing = "verifying", ![t].key = k]
  /\ UNCHANGED <<honoured, secret, proven, refused, unflagged>>

Verifies(k) == k \in honoured
\* verify_api_key: the provider accepts the key, or anything else happened.
VerifyAnswered(t) ==
  /\ Busy(t, "verifying")
  /\ \/ /\ Verifies(keyTab[t].key)
        /\ keyTab' = [keyTab EXCEPT ![t].doing = "saving"]
        /\ proven' = proven \cup {keyTab[t].key}
     \/ /\ keyTab' = [keyTab EXCEPT ![t].doing = "idle", ![t].key = NoKey]
        /\ UNCHANGED proven
  /\ UNCHANGED <<honoured, secret, refused, unflagged>>

SaveKey(t) ==
  /\ Busy(t, "saving")
  /\ secret' = keyTab[t].key
  /\ keyTab' = [keyTab EXCEPT ![t].doing = "clearing"]
  /\ UNCHANGED <<honoured, proven, refused, unflagged>>

\* clear_stale_credential_test_state, in the session that verified the key
ClearStale(t) ==
  /\ Busy(t, "clearing")
  /\ keyTab' = [keyTab EXCEPT ![t] = [@ EXCEPT !.doing = "idle", !.key = NoKey, !.rejected = FALSE]]
  /\ refused' = [refused EXCEPT ![t] = {}] /\ unflagged' = [unflagged EXCEPT ![t] = {}]
  /\ UNCHANGED <<honoured, secret, proven>>

RemoveKey(t) ==
  /\ Busy(t, "idle") /\ secret # NoKey
  /\ secret' = NoKey
  /\ UNCHANGED <<honoured, keyTab, proven, refused, unflagged>>

(* ----- Analysis ----- *)

StartPhotos(t) ==
  /\ Busy(t, "idle") /\ CredentialReady(t)
  /\ keyTab' = [keyTab EXCEPT ![t] = [@ EXCEPT !.doing = "running", !.left = PhotosPerRun,
                                               !.detectorKey = NoKey]]
  /\ UNCHANGED <<honoured, secret, proven, refused, unflagged>>

SharedDetectorKey(t) == IF InferenceKey(t) # NoKey THEN InferenceKey(t) ELSE keyTab[t].detectorKey
\* With a key the adapter makes a detector of its own; the shared one never has a key.
DetectorKeyAfter(t) == keyTab[t].detectorKey
AdapterKey(t) == IF InferenceKey(t) # NoKey THEN InferenceKey(t) ELSE keyTab[t].detectorKey

OneTooMany(t) == keyTab[t].left >= 0
PhotosLeft(t) == keyTab[t].left > 0
\* The key is read again for every photo; without one nothing is sent.
SendPhoto(t) ==
  /\ Busy(t, "running") /\ PhotosLeft(t)
  /\ keyTab' =
       IF AdapterKey(t) = NoKey THEN [keyTab EXCEPT ![t].left = @ - 1]
       ELSE [keyTab EXCEPT ![t].doing = "waiting", ![t].key = AdapterKey(t),
                           ![t].detectorKey = DetectorKeyAfter(t)]
  /\ UNCHANGED <<honoured, secret, proven, refused, unflagged>>

\* A 401 or 403, or a text that reads like one: the provider does not accept the
\* key, or not for this request.
KeyRefused(t, next) ==
  /\ keyTab' = [keyTab EXCEPT ![t] = next]
  /\ refused' = [refused EXCEPT ![t] = @ \cup {keyTab[t].key}]
  /\ unflagged' = [unflagged EXCEPT ![t] = @ \ {keyTab[t].key}]
\* A count, or any other failure: the network, a limit, no credit, no reading it.
GoOn(t, next) ==
  /\ keyTab' = [keyTab EXCEPT ![t] = next]
  /\ UNCHANGED <<refused, unflagged>>

PhotoAnswered(t) ==
  /\ Busy(t, "waiting")
  /\ LET next == [keyTab[t] EXCEPT !.doing = "running", !.key = NoKey, !.left = @ - 1]
     IN \/ KeyRefused(t, [next EXCEPT !.doing = "photoRefused", !.key = keyTab[t].key])
        \/ GoOn(t, next)
  /\ UNCHANGED <<honoured, secret, proven>>

\* mark_session_key_rejected, which writes to the session state.
MarkRejected(t) ==
  /\ keyTab[t].doing \in {"photoRefused", "testRefused"}
  /\ keyTab' = [keyTab EXCEPT ![t] =
       IF @.doing = "photoRefused" THEN [@ EXCEPT !.doing = "running", !.key = NoKey, !.rejected = TRUE]
       ELSE [@ EXCEPT !.doing = "idle", !.key = NoKey, !.rejected = TRUE]]
  /\ UNCHANGED <<honoured, secret, proven, refused, unflagged>>

EndRun(t) ==
  /\ Busy(t, "running") /\ keyTab[t].left = 0
  /\ keyTab' = [keyTab EXCEPT ![t].doing = "idle", ![t].detectorKey = NoKey]
  /\ UNCHANGED <<honoured, secret, proven, refused, unflagged>>

Stoppable == {"saving", "clearing", "running", "testing", "photoRefused", "testRefused"}
\* A click of the user stops the script, at its next call of streamlit or use of
\* the session state: between two photos, or an answer and what follows from it.
Stopped(t) ==
  /\ keyTab[t].doing \in Stoppable
  /\ keyTab' = [keyTab EXCEPT ![t] = [@ EXCEPT !.doing = "idle", !.key = NoKey, !.left = 0,
                                               !.detectorKey = NoKey]]
  /\ unflagged' = IF keyTab[t].doing \in {"photoRefused", "testRefused"}
                  THEN [unflagged EXCEPT ![t] = @ \cup {keyTab[t].key}] ELSE unflagged
  /\ UNCHANGED <<honoured, secret, proven, refused>>

(* ----- Catalog Test ----- *)

\* preflight_openrouter_catalog_test lets the test go on.
Preflight(t) ==
  /\ Busy(t, "idle") /\ CredentialReady(t)
  /\ keyTab' = [keyTab EXCEPT ![t].doing = "testing"]
  /\ UNCHANGED <<honoured, secret, proven, refused, unflagged>>

\* The key is read once more: it may be gone since the preflight.
SendTest(t) ==
  /\ Busy(t, "testing")
  /\ keyTab' =
       IF InferenceKey(t) = NoKey THEN [keyTab EXCEPT ![t].doing = "idle"]
       ELSE [keyTab EXCEPT ![t].doing = "probing", ![t].key = InferenceKey(t)]
  /\ UNCHANGED <<honoured, secret, proven, refused, unflagged>>

TestAnswered(t) ==
  /\ Busy(t, "probing")
  /\ LET next == [keyTab[t] EXCEPT !.doing = "idle", !.key = NoKey]
     IN KeyRefused(t, [keyTab[t] EXCEPT !.doing = "testRefused"]) \/ GoOn(t, next)
  /\ UNCHANGED <<honoured, secret, proven>>

(* ----- Around it ----- *)

\* The owner of the account at the provider withdraws a key.
Withdraw(k) ==
  /\ k \in honoured
  /\ honoured' = honoured \ {k}
  /\ UNCHANGED <<secret, keyTab, proven, refused, unflagged>>

\* Signing out wipes the session; a restart of the server loses it at any point.
LoseTab(t) ==
  /\ keyTab[t] # FreshTab
  /\ keyTab' = [keyTab EXCEPT ![t] = FreshTab]
  /\ refused' = [refused EXCEPT ![t] = {}] /\ unflagged' = [unflagged EXCEPT ![t] = {}]
  /\ UNCHANGED <<honoured, secret, proven>>

KeyStep(t) ==
  \/ \E k \in OrKeys : SubmitKey(t, k)
  \/ VerifyAnswered(t) \/ SaveKey(t) \/ ClearStale(t) \/ RemoveKey(t)
RequestStep(t) ==
  \/ StartPhotos(t) \/ SendPhoto(t) \/ PhotoAnswered(t) \/ EndRun(t)
  \/ Preflight(t) \/ SendTest(t) \/ TestAnswered(t) \/ MarkRejected(t) \/ Stopped(t)
OpenRouterNext ==
  \/ \E t \in KeyTabs : KeyStep(t) \/ RequestStep(t) \/ LoseTab(t)
  \/ \E k \in OrKeys : Withdraw(k)
OpenRouterSpec == OpenRouterInit /\ [][OpenRouterNext]_openRouterVars
-----------------------------------------------------------------------------
Activities == {"idle", "verifying", "waiting", "probing"} \cup Stoppable
KeyTabType ==
  [doing : Activities, key : OrKeys \cup {NoKey}, rejected : BOOLEAN, left : 0 .. PhotosPerRun,
   detectorKey : OrKeys \cup {NoKey}]
OpenRouterTypeOK ==
  /\ honoured \subseteq OrKeys /\ secret \in OrKeys \cup {NoKey}
  /\ keyTab \in [KeyTabs -> KeyTabType]
  /\ proven \subseteq OrKeys /\ refused \in [KeyTabs -> SUBSET OrKeys]
  /\ unflagged \in [KeyTabs -> SUBSET OrKeys]

Sending(t) == keyTab[t].doing \in {"waiting", "probing"}

(* Once the provider has refused a key to a tab and the flag was written, the *)
(* tab sends nothing, whichever photo of a run it is at and whatever other     *)
(* administrators do to the key meanwhile, until a key is verified in it.  A   *)
(* refusal is forgotten only where a click has kept its flag from being        *)
(* written, whatever the docstring at openrouter_runtime.py:179 says, and not  *)
(* when the key is refused once more and flagged.  What is sent is a key that  *)
(* was verified (openrouter_runtime.py:141-191, app.py:3793-3800).             *)
SilentOnceFlagged ==
  \A t \in KeyTabs :
    Sending(t) => refused[t] \subseteq unflagged[t] /\ keyTab[t].key \in proven
=============================================================================
