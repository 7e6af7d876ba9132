-------------------------- MODULE ProviderProofs --------------------------
(***************************************************************************)
(* The providers, for any number of tabs, keys, photos and models: a tab   *)
(* that is flagged for a key that OpenRouter has refused sends nothing      *)
(* until a key is verified in it, and a model is offered only by an entry    *)
(* that some test has passed.                                               *)
(***************************************************************************)
EXTENDS OpenRouter, ModelCatalog, TLAPS

----------------------------------------------------------------------------
(* OpenRouter: the key and the requests made with it                        *)

Refusing == {"photoRefused", "testRefused"}

\* A tab, the keys refused to it, those of them that a click kept from the flag,
\* and the keys that were verified so far: the flag remembers every other
\* refusal but the one that is about to be flagged, the shared detector of a run
\* carries no key, and what is being saved or has been sent is a verified key.
TabSound(tab, back, lost, keys) ==
  /\ tab \in KeyTabType /\ tab.detectorKey = NoKey
  /\ back \in SUBSET OrKeys /\ lost \in SUBSET OrKeys
  /\ \/ tab.rejected \/ back \subseteq lost
     \/ tab.doing \in Refusing /\ back \subseteq lost \cup {tab.key}
  /\ tab.doing = "saving" => tab.key \in keys
  /\ tab.doing \in {"waiting", "probing"} => back \subseteq lost /\ tab.key \in keys
  /\ tab.doing \in Refusing => tab.key \in OrKeys
  /\ tab.doing = "waiting" => tab.left > 0

SecretSound(key, keys) == key = NoKey \/ key \in keys

KeyInv ==
  /\ OpenRouterTypeOK
  /\ SecretSound(secret, proven)
  /\ \A t \in KeyTabs : TabSound(keyTab[t], refused[t], unflagged[t], proven)

LEMMA KeyInvInit == OpenRouterInit => KeyInv
<1> SUFFICES ASSUME OpenRouterInit PROVE KeyInv
  OBVIOUS
<1>1. FreshTab \in KeyTabType
  BY OpenRouterAssumption DEF FreshTab, KeyTabType, Activities
<1>2. TabSound(FreshTab, {}, {}, {})
  BY <1>1 DEF TabSound, FreshTab, Refusing
<1>. QED
  BY <1>1, <1>2 DEF OpenRouterInit, OpenRouterTypeOK, KeyInv, SecretSound

(* Whatever one tab does to itself, the invariant holds when it holds of that *)
(* tab and of the secret afterwards: verified keys stay verified.             *)
LEMMA OneTab ==
  ASSUME KeyInv, NEW t \in KeyTabs, NEW tab, NEW back, NEW lost,
         keyTab' = [keyTab EXCEPT ![t] = tab], refused' = [refused EXCEPT ![t] = back],
         unflagged' = [unflagged EXCEPT ![t] = lost],
         proven \subseteq proven', proven' \subseteq OrKeys, honoured' = honoured,
         secret' \in OrKeys \cup {NoKey}, SecretSound(secret', proven'),
         TabSound(tab, back, lost, proven')
  PROVE  KeyInv'
<1>1. tab \in KeyTabType /\ back \in SUBSET OrKeys /\ lost \in SUBSET OrKeys
  BY DEF TabSound
<1>2. OpenRouterTypeOK'
  BY <1>1 DEF KeyInv, OpenRouterTypeOK
<1>3. ASSUME NEW s \in KeyTabs PROVE TabSound(keyTab'[s], refused'[s], unflagged'[s], proven')
  <2>1. CASE s = t
    BY <2>1 DEF KeyInv, OpenRouterTypeOK
  <2>2. CASE s # t
    <3>1. keyTab'[s] = keyTab[s] /\ refused'[s] = refused[s] /\ unflagged'[s] = unflagged[s]
      BY <2>2 DEF KeyInv, OpenRouterTypeOK
    <3>2. TabSound(keyTab[s], refused[s], unflagged[s], proven)
      BY DEF KeyInv
    <3>. QED
      BY <3>1, <3>2 DEF TabSound
  <2>. QED
    BY <2>1, <2>2
<1>. QED
  BY <1>2, <1>3 DEF KeyInv, SecretSound

\* The same for a step that leaves the refusals and the keys as they are.
LEMMA OneTabOnly ==
  ASSUME KeyInv, NEW t \in KeyTabs, NEW tab,
         keyTab' = [keyTab EXCEPT ![t] = tab], UNCHANGED <<honoured, secret, proven, refused, unflagged>>,
         TabSound(tab, refused[t], unflagged[t], proven)
  PROVE  KeyInv'
<1>1. refused' = [refused EXCEPT ![t] = refused[t]] /\ unflagged' = [unflagged EXCEPT ![t] = unflagged[t]]
  BY DEF KeyInv, OpenRouterTypeOK
<1>2. SecretSound(secret', proven') /\ secret' \in OrKeys \cup {NoKey} /\ proven' \subseteq OrKeys
  BY DEF KeyInv, OpenRouterTypeOK
<1>3. TabSound(tab, refused[t], unflagged[t], proven')
  OBVIOUS
<1>. QED
  BY <1>1, <1>2, <1>3, OneTab

\* The same for one that changes what the histories say of the tab.
LEMMA OneTabRefused ==
  ASSUME KeyInv, NEW t \in KeyTabs, NEW tab, NEW back, NEW lost,
         keyTab' = [keyTab EXCEPT ![t] = tab], refused' = [refused EXCEPT ![t] = back],
         unflagged' = [unflagged EXCEPT ![t] = lost], UNCHANGED <<honoured, secret, proven>>,
         TabSound(tab, back, lost, proven)
  PROVE  KeyInv'
<1>1. SecretSound(secret', proven') /\ secret' \in OrKeys \cup {NoKey} /\ proven' \subseteq OrKeys
  BY DEF KeyInv, OpenRouterTypeOK
<1>2. TabSound(tab, back, lost, proven')
  OBVIOUS
<1>. QED
  BY <1>1, <1>2, OneTab

----------------------------------------------------------------------------
LEMMA KeyStepKeeps ==
  ASSUME KeyInv, NEW t \in KeyTabs, KeyStep(t)
  PROVE  KeyInv'
<1> DEFINE tab == keyTab[t]
<1>0. tab \in KeyTabType /\ TabSound(tab, refused[t], unflagged[t], proven)
  BY DEF KeyInv, OpenRouterTypeOK
<1> USE DEF Refusing, Stoppable
<1>1. ASSUME NEW k \in OrKeys, SubmitKey(t, k) PROVE KeyInv'
  <2>1. tab.doing = "idle"
    BY <1>1 DEF SubmitKey, Busy
  <2>2. TabSound([tab EXCEPT !.doing = "verifying", !.key = k], refused[t], unflagged[t], proven)
    BY <1>0, <2>1 DEF TabSound, KeyTabType, Activities
  <2>3. keyTab' = [keyTab EXCEPT ![t] = [tab EXCEPT !.doing = "verifying", !.key = k]]
    BY <1>1, <1>0 DEF SubmitKey, KeyInv
  <2>. QED
    BY <1>1, <2>2, <2>3, OneTabOnly DEF SubmitKey
<1>2. CASE VerifyAnswered(t)
  <2>0. tab.doing = "verifying"
    BY <1>2 DEF VerifyAnswered, Busy
  <2>1. CASE VerifyAnswered(t) /\ proven' = proven
    <3>. DEFINE new == [tab EXCEPT !.doing = "idle", !.key = NoKey]
    <3>1. \/ keyTab' = [keyTab EXCEPT ![t] = new]
          \/ Verifies(tab.key) /\ tab.key \in proven /\ keyTab' = [keyTab EXCEPT ![t] = [tab EXCEPT !.doing = "saving"]]
      BY <2>1 DEF VerifyAnswered, KeyInv
    <3>2. TabSound(new, refused[t], unflagged[t], proven)
      BY <1>0, <2>0 DEF TabSound, KeyTabType, Activities
    <3>3. tab.key \in proven => TabSound([tab EXCEPT !.doing = "saving"], refused[t], unflagged[t], proven)
      BY <1>0, <2>0 DEF TabSound, KeyTabType, Activities
    <3>. QED
      BY <2>1, <3>1, <3>2, <3>3, OneTabOnly DEF VerifyAnswered
  <2>2. CASE Verifies(tab.key) /\ proven' = proven \cup {tab.key}
             /\ keyTab' = [keyTab EXCEPT ![t] = [tab EXCEPT !.doing = "saving"]]
    <3>1. tab.key \in OrKeys
      BY <2>2 DEF Verifies, KeyInv, OpenRouterTypeOK
    <3>2. TabSound([tab EXCEPT !.doing = "saving"], refused[t], unflagged[t], proven')
      BY <1>0, <2>0, <2>2 DEF TabSound, KeyTabType, Activities
    <3>3. /\ refused' = [refused EXCEPT ![t] = refused[t]] /\ unflagged' = [unflagged EXCEPT ![t] = unflagged[t]]
          /\ honoured' = honoured /\ secret' = secret
      BY <1>2 DEF VerifyAnswered, KeyInv, OpenRouterTypeOK
    <3>4. SecretSound(secret', proven') /\ secret' \in OrKeys \cup {NoKey} /\ proven' \subseteq OrKeys
      BY <2>2, <3>1, <3>3 DEF KeyInv, OpenRouterTypeOK, SecretSound
    <3>. QED
      BY <2>2, <3>2, <3>3, <3>4, OneTab
  <2>. QED
    BY <1>2, <2>1, <2>2 DEF VerifyAnswered
<1>3. CASE SaveKey(t)
  <2>. DEFINE new == [tab EXCEPT !.doing = "clearing"]
  <2>0. tab.doing = "saving"
    BY <1>3 DEF SaveKey, Busy
  <2>1. TabSound(new, refused[t], unflagged[t], proven)
    BY <1>0, <2>0 DEF TabSound, KeyTabType, Activities
  <2>2. tab.key \in proven /\ proven \subseteq OrKeys
    BY <2>0, <1>0 DEF TabSound, KeyInv, OpenRouterTypeOK
  <2>3. /\ keyTab' = [keyTab EXCEPT ![t] = new] /\ refused' = [refused EXCEPT ![t] = refused[t]]
        /\ unflagged' = [unflagged EXCEPT ![t] = unflagged[t]]
    BY <1>3 DEF SaveKey, KeyInv, OpenRouterTypeOK
  <2>4. secret' = tab.key /\ proven' = proven /\ honoured' = honoured
    BY <1>3 DEF SaveKey
  <2>5. SecretSound(secret', proven') /\ secret' \in OrKeys \cup {NoKey}
    BY <2>2, <2>4 DEF SecretSound
  <2>6. TabSound(new, refused[t], unflagged[t], proven')
    BY <2>1, <2>4
  <2>. QED
    BY <2>2, <2>3, <2>4, <2>5, <2>6, OneTab
<1>4. CASE ClearStale(t)
  <2>. DEFINE new == [tab EXCEPT !.doing = "idle", !.key = NoKey, !.rejected = FALSE]
  <2>1. TabSound(new, {}, {}, proven)
    BY <1>0 DEF TabSound, KeyTabType, Activities
  <2>2. /\ keyTab' = [keyTab EXCEPT ![t] = new] /\ refused' = [refused EXCEPT ![t] = {}]
        /\ unflagged' = [unflagged EXCEPT ![t] = {}] /\ UNCHANGED <<honoured, secret, proven>>
    BY <1>4 DEF ClearStale
  <2>. QED
    BY <2>1, <2>2, OneTabRefused
<1>5. CASE RemoveKey(t)
  BY <1>5 DEF RemoveKey, KeyInv, OpenRouterTypeOK, SecretSound
<1>. QED
  BY <1>1, <1>2, <1>3, <1>4, <1>5 DEF KeyStep

\* An answer after which the tab goes on as before.
LEMMA GoOnKeeps ==
  ASSUME KeyInv, NEW t \in KeyTabs, keyTab[t].doing \in {"waiting", "probing"},
         NEW next \in KeyTabType, next.detectorKey = NoKey, next.rejected = keyTab[t].rejected,
         next.doing \in {"running", "idle"},
         UNCHANGED <<honoured, secret, proven>>, GoOn(t, next)
  PROVE  KeyInv'
<1>0. TabSound(keyTab[t], refused[t], unflagged[t], proven)
  BY DEF KeyInv
<1>1. TabSound(next, refused[t], unflagged[t], proven)
  BY <1>0 DEF TabSound, Refusing
<1>. QED
  BY <1>1, OneTabOnly DEF GoOn

\* A refusal, which the tab is about to flag.
LEMMA RefusalKeeps ==
  ASSUME KeyInv, NEW t \in KeyTabs, keyTab[t].doing \in {"waiting", "probing"},
         NEW next \in KeyTabType, next.detectorKey = NoKey, next.doing \in Refusing,
         next.key = keyTab[t].key,
         UNCHANGED <<honoured, secret, proven>>, KeyRefused(t, next)
  PROVE  KeyInv'
<1>. DEFINE back == refused[t] \cup {keyTab[t].key}
            lost == unflagged[t] \ {keyTab[t].key}
<1>0. TabSound(keyTab[t], refused[t], unflagged[t], proven) /\ proven \subseteq OrKeys
  BY DEF KeyInv, OpenRouterTypeOK
<1>1. keyTab[t].key \in OrKeys /\ refused[t] \subseteq unflagged[t]
  BY <1>0 DEF TabSound
<1>2. TabSound(next, back, lost, proven)
  BY <1>0, <1>1 DEF TabSound, Refusing
<1>3. keyTab' = [keyTab EXCEPT ![t] = next] /\ refused' = [refused EXCEPT ![t] = back]
      /\ unflagged' = [unflagged EXCEPT ![t] = lost]
  BY DEF KeyRefused
<1>. QED
  BY <1>2, <1>3, OneTabRefused

\* The flag is written, or a click comes first.
LEMMA RefusedKeeps ==
  ASSUME KeyInv, NEW t \in KeyTabs, MarkRejected(t) \/ Stopped(t)
  PROVE  KeyInv'
<1> DEFINE tab == keyTab[t]
<1>0. tab \in KeyTabType /\ TabSound(tab, refused[t], unflagged[t], proven)
  BY DEF KeyInv, OpenRouterTypeOK
<1> USE DEF Refusing, Stoppable
<1>1. CASE MarkRejected(t)
  <2>1. PICK act \in {"running", "idle"} :
          keyTab' = [keyTab EXCEPT ![t] = [tab EXCEPT !.doing = act, !.key = NoKey, !.rejected = TRUE]]
    BY <1>1 DEF MarkRejected
  <2>2. TabSound([tab EXCEPT !.doing = act, !.key = NoKey, !.rejected = TRUE], refused[t], unflagged[t], proven)
    BY <1>0 DEF TabSound, KeyTabType, Activities
  <2>. QED
    BY <1>1, <2>1, <2>2, OneTabOnly DEF MarkRejected
<1>2. CASE Stopped(t)
  <2>. DEFINE new == [tab EXCEPT !.doing = "idle", !.key = NoKey, !.left = 0, !.detectorKey = NoKey]
              lost == IF tab.doing \in Refusing THEN unflagged[t] \cup {tab.key} ELSE unflagged[t]
  <2>1. 0 \in 0 .. PhotosPerRun
    BY OpenRouterAssumption
  <2>2. /\ new \in KeyTabType /\ new.detectorKey = NoKey /\ new.rejected = tab.rejected
        /\ new.doing = "idle"
    BY <1>0, <2>1 DEF KeyTabType, Activities
  <2>3. lost \in SUBSET OrKeys /\ refused[t] \in SUBSET OrKeys /\ (tab.rejected \/ refused[t] \subseteq lost)
    BY <1>0 DEF TabSound
  <2>. HIDE DEF new, lost
  <2>4. TabSound(new, refused[t], lost, proven)
    BY <2>2, <2>3 DEF TabSound
  <2>5. /\ keyTab' = [keyTab EXCEPT ![t] = new] /\ UNCHANGED <<honoured, secret, proven>>
        /\ refused' = [refused EXCEPT ![t] = refused[t]]
        /\ unflagged' = [unflagged EXCEPT ![t] = lost]
    BY <1>2 DEF Stopped, KeyInv, OpenRouterTypeOK, new, lost
  <2>. QED
    BY <2>4, <2>5, OneTabRefused
<1>. QED
  BY <1>1, <1>2

LEMMA RequestStepKeeps ==
  ASSUME KeyInv, NEW t \in KeyTabs, RequestStep(t)
  PROVE  KeyInv'
<1> DEFINE tab == keyTab[t]
<1>0. tab \in KeyTabType /\ TabSound(tab, refused[t], unflagged[t], proven)
  BY DEF KeyInv, OpenRouterTypeOK
<1> USE DEF Refusing, Stoppable
<1>1. CASE StartPhotos(t)
  <2>. DEFINE new == [tab EXCEPT !.doing = "running", !.left = PhotosPerRun, !.detectorKey = NoKey]
  <2>1. PhotosPerRun \in 0 .. PhotosPerRun /\ tab.doing = "idle"
    BY <1>1, OpenRouterAssumption DEF StartPhotos, Busy
  <2>2. TabSound(new, refused[t], unflagged[t], proven)
    BY <1>0, <2>1 DEF TabSound, KeyTabType, Activities
  <2>3. keyTab' = [keyTab EXCEPT ![t] = new]
    BY <1>1 DEF StartPhotos
  <2>. QED
    BY <1>1, <2>2, <2>3, OneTabOnly DEF StartPhotos
<1>2. CASE SendPhoto(t)
  <2>0. tab.doing = "running" /\ tab.left > 0
    BY <1>2 DEF SendPhoto, Busy, PhotosLeft
  <2>1. CASE AdapterKey(t) = NoKey
    <3>. DEFINE new == [tab EXCEPT !.left = @ - 1]
    <3>1. tab.left - 1 \in 0 .. PhotosPerRun
      BY <2>0, <1>0, OpenRouterAssumption DEF KeyTabType
    <3>2. TabSound(new, refused[t], unflagged[t], proven)
      BY <2>0, <1>0, <3>1 DEF TabSound, KeyTabType
    <3>3. keyTab' = [keyTab EXCEPT ![t] = new]
      BY <1>2, <1>0, <2>1 DEF SendPhoto, KeyInv, KeyTabType
    <3>. QED
      BY <1>2, <3>2, <3>3, OneTabOnly DEF SendPhoto
  <2>2. CASE AdapterKey(t) # NoKey
    <3>. DEFINE new == [tab EXCEPT !.doing = "waiting", !.key = AdapterKey(t), !.detectorKey = NoKey]
    <3>1. ~ tab.rejected /\ AdapterKey(t) = secret
      BY <1>0, <2>2 DEF AdapterKey, InferenceKey, TabSound
    <3>2. AdapterKey(t) \in proven /\ AdapterKey(t) \in OrKeys
      BY <2>2, <3>1 DEF KeyInv, OpenRouterTypeOK, SecretSound
    <3>3. TabSound(new, refused[t], unflagged[t], proven)
      BY <2>0, <1>0, <3>1, <3>2 DEF TabSound, KeyTabType, Activities
    <3>4. DetectorKeyAfter(t) = NoKey
      BY <1>0 DEF DetectorKeyAfter, TabSound
    <3>5. keyTab' = [keyTab EXCEPT ![t] = new]
      BY <1>2, <2>2, <3>4 DEF SendPhoto, KeyInv
    <3>. QED
      BY <1>2, <3>3, <3>5, OneTabOnly DEF SendPhoto
  <2>. QED
    BY <2>1, <2>2
<1>3. CASE PhotoAnswered(t)
  <2>. DEFINE next == [tab EXCEPT !.doing = "running", !.key = NoKey, !.left = @ - 1]
              back == [next EXCEPT !.doing = "photoRefused", !.key = tab.key]
  <2>1. tab.doing = "waiting"
    BY <1>3 DEF PhotoAnswered, Busy
  <2>2. tab.left - 1 \in 0 .. PhotosPerRun
    BY <1>0, <2>1, OpenRouterAssumption DEF TabSound, KeyTabType
  <2>3. /\ next \in KeyTabType /\ next.detectorKey = NoKey
        /\ next.rejected = tab.rejected /\ next.doing = "running"
    BY <1>0, <2>2 DEF TabSound, KeyTabType, Activities
  <2>4. /\ back \in KeyTabType /\ back.detectorKey = NoKey /\ back.doing = "photoRefused" /\ back.key = tab.key
    BY <1>0, <2>2 DEF TabSound, KeyTabType, Activities
  <2>5. KeyRefused(t, back) \/ GoOn(t, next)
    BY <1>3 DEF PhotoAnswered
  <2>. HIDE DEF next, back
  <2>. QED
    BY <1>3, <2>1, <2>3, <2>4, <2>5, GoOnKeeps, RefusalKeeps DEF PhotoAnswered
<1>4. CASE EndRun(t)
  <2>. DEFINE new == [tab EXCEPT !.doing = "idle", !.detectorKey = NoKey]
  <2>1. tab.doing = "running"
    BY <1>4 DEF EndRun, Busy
  <2>2. TabSound(new, refused[t], unflagged[t], proven)
    BY <1>0, <2>1 DEF TabSound, KeyTabType, Activities
  <2>3. keyTab' = [keyTab EXCEPT ![t] = new]
    BY <1>4 DEF EndRun
  <2>. QED
    BY <1>4, <2>2, <2>3, OneTabOnly DEF EndRun
<1>5. CASE Preflight(t)
  <2>. DEFINE new == [tab EXCEPT !.doing = "testing"]
  <2>1. tab.doing = "idle"
    BY <1>5 DEF Preflight, Busy
  <2>2. TabSound(new, refused[t], unflagged[t], proven)
    BY <1>0, <2>1 DEF TabSound, KeyTabType, Activities
  <2>3. keyTab' = [keyTab EXCEPT ![t] = new]
    BY <1>5 DEF Preflight
  <2>. QED
    BY <1>5, <2>2, <2>3, OneTabOnly DEF Preflight
<1>6. CASE SendTest(t)
  <2>0. tab.doing = "testing"
    BY <1>6 DEF SendTest, Busy
  <2>1. CASE InferenceKey(t) = NoKey
    <3>. DEFINE new == [tab EXCEPT !.doing = "idle"]
    <3>1. TabSound(new, refused[t], unflagged[t], proven)
      BY <1>0, <2>0 DEF TabSound, KeyTabType, Activities
    <3>2. keyTab' = [keyTab EXCEPT ![t] = new]
      BY <1>6, <2>1 DEF SendTest
    <3>. QED
      BY <1>6, <3>1, <3>2, OneTabOnly DEF SendTest
  <2>2. CASE InferenceKey(t) # NoKey
    <3>. DEFINE new == [tab EXCEPT !.doing = "probing", !.key = InferenceKey(t)]
    <3>1. ~ tab.rejected /\ InferenceKey(t) \in proven /\ InferenceKey(t) \in OrKeys
      BY <2>2 DEF InferenceKey, KeyInv, OpenRouterTypeOK, SecretSound
    <3>2. TabSound(new, refused[t], unflagged[t], proven)
      BY <1>0, <2>0, <3>1 DEF TabSound, KeyTabType, Activities
    <3>3. keyTab' = [keyTab EXCEPT ![t] = new]
      BY <1>6, <2>2 DEF SendTest, KeyInv
    <3>. QED
      BY <1>6, <3>2, <3>3, OneTabOnly DEF SendTest
  <2>. QED
    BY <2>1, <2>2
<1>7. CASE TestAnswered(t)
  <2>. DEFINE next == [tab EXCEPT !.doing = "idle", !.key = NoKey]
              back == [tab EXCEPT !.doing = "testRefused"]
  <2>1. tab.doing = "probing"
    BY <1>7 DEF TestAnswered, Busy
  <2>2. /\ next \in KeyTabType /\ next.detectorKey = NoKey
        /\ next.rejected = tab.rejected /\ next.doing = "idle"
    BY <1>0 DEF TabSound, KeyTabType, Activities
  <2>3. /\ back \in KeyTabType /\ back.detectorKey = NoKey /\ back.doing = "testRefused" /\ back.key = tab.key
    BY <1>0 DEF TabSound, KeyTabType, Activities
  <2>4. KeyRefused(t, back) \/ GoOn(t, next)
    BY <1>7 DEF TestAnswered
  <2>. HIDE DEF next, back
  <2>. QED
    BY <1>7, <2>1, <2>2, <2>3, <2>4, GoOnKeeps, RefusalKeeps DEF TestAnswered
<1>. QED
  BY <1>1, <1>2, <1>3, <1>4, <1>5, <1>6, <1>7, RefusedKeeps DEF RequestStep

----------------------------------------------------------------------------
LEMMA KeyInvNext == KeyInv /\ [OpenRouterNext]_openRouterVars => KeyInv'
<1> SUFFICES ASSUME KeyInv, [OpenRouterNext]_openRouterVars PROVE KeyInv'
  OBVIOUS
<1>1. ASSUME NEW t \in KeyTabs, KeyStep(t) PROVE KeyInv'
  BY <1>1, KeyStepKeeps
<1>2. ASSUME NEW t \in KeyTabs, RequestStep(t) PROVE KeyInv'
  BY <1>2, RequestStepKeeps
<1>3. ASSUME NEW t \in KeyTabs, LoseTab(t) PROVE KeyInv'
  <2>1. TabSound(FreshTab, {}, {}, proven)
    BY OpenRouterAssumption DEF TabSound, FreshTab, KeyTabType, Activities, Refusing
  <2>. QED
    BY <1>3, <2>1, OneTabRefused DEF LoseTab
<1>4. ASSUME NEW k \in OrKeys, Withdraw(k) PROVE KeyInv'
  BY <1>4 DEF Withdraw, KeyInv, OpenRouterTypeOK
<1>5. CASE UNCHANGED openRouterVars
  BY <1>5 DEF openRouterVars, KeyInv, OpenRouterTypeOK
<1>. QED
  BY <1>1, <1>2, <1>3, <1>4, <1>5 DEF OpenRouterNext

(* A tab that was flagged for a refused key uses no key until one was verified *)
(* in it (openrouter_runtime.py:141-191): the flag outlives the run that met    *)
(* the refusal, neither the detector of a run nor another administrator's key   *)
(* leads around it, and a refusal is forgotten only with a run that a click has *)
(* ended before the flag was written.                                           *)
THEOREM TabsStaySilent == OpenRouterSpec => []SilentOnceFlagged
<1>1. OpenRouterInit => KeyInv
  BY KeyInvInit
<1>2. KeyInv /\ [OpenRouterNext]_openRouterVars => KeyInv'
  BY KeyInvNext
<1>3. KeyInv => SilentOnceFlagged
  BY DEF KeyInv, TabSound, SilentOnceFlagged, Sending
<1>. QED
  BY <1>1, <1>2, <1>3, PTL DEF OpenRouterSpec

\* The keys, the tabs that use them and the histories keep their types.
THEOREM OpenRouterTyped == OpenRouterSpec => []OpenRouterTypeOK
<1>1. KeyInv => OpenRouterTypeOK
  BY DEF KeyInv
<1>. QED
  BY <1>1, KeyInvInit, KeyInvNext, PTL DEF OpenRouterSpec

----------------------------------------------------------------------------
(* ModelCatalog: tests and publication                                      *)

Calling(t)    == calling[t] # NoOperation
Testing(t) == Calling(t) /\ calling[t].kind = "test"
Stamping   == {"loadConfig", "config", "pubs"}  \* a test, once the catalog has its result
Settled    == Models \ unsettled

\* A catalog that was loaded is still the catalog, but for what is unsettled.
LoadedIsCatalog ==
  \A t \in CatalogTabs : Doing(t, "catalog") =>
    \A k \in Settled : calling[t].base[k] = catalog[k]

\* A model that is being tested is in the catalog.
TestedIsListed ==
  \A t \in CatalogTabs :
    /\ Testing(t) /\ calling[t].at \in {"load", "catalog"} /\ calling[t].model \in Settled
    => catalog[calling[t].model] # NotListed

\* What the three writes rely on.
OperationsInOrder ==
  \A t \in CatalogTabs :
    /\ Doing(t, "catalog") /\ calling[t].kind = "enable" => calling[t].base[calling[t].model] # NotListed
    /\ Calling(t) /\ calling[t].kind = "add" => calling[t].model \in PublicModels
    /\ Doing(t, "load") => calling[t].kind \in {"test", "keyless", "add"}
    /\ Doing(t, "pubs") => calling[t].kind \in {"add", "remove", "test"}

\* A mark in the catalog tells of the last test and of the last sync.
MarksAreTrue ==
  \A k \in Settled : catalog[k] # NotListed =>
    /\ catalog[k].validated => lastTest[k] = "ok"
    /\ ~catalog[k].stale => k \notin gone \/ rebuilt

StampingOf(t, k) == Testing(t) /\ calling[t].at \in Stamping /\ calling[t].model = k

\* So does a mark among the approved models, once a test has reached them ...
ApprovedAreTrue ==
  \A k \in Settled \cap PublicModels :
    /\ approved[k] # NotListed /\ approved[k].validated
    => lastTest[k] = "ok" \/ \E t \in CatalogTabs : StampingOf(t, k)

\* ... and the test has the last result.
StampIsLast ==
  \A t \in CatalogTabs, k \in Settled :
    StampingOf(t, k) => lastTest[k] = IF calling[t].good THEN "ok" ELSE "failed"

CatalogInv ==
  /\ CatalogTypeOK /\ OperationsInOrder
  /\ LoadedIsCatalog /\ TestedIsListed /\ MarksAreTrue /\ ApprovedAreTrue /\ StampIsLast

LEMMA CatalogInvInit == CatalogInit => CatalogInv
<1>. SUFFICES ASSUME NEW known \in SUBSET Models, CatalogOf(known) PROVE CatalogInv
  BY DEF CatalogInit
<1>0. InUse \in CatalogEntry /\ InUse.validated /\ ~InUse.stale
  BY DEF InUse, CatalogEntry
<1>1. InUse \in CatalogEntry /\ InUse.validated /\ ~InUse.stale /\ InUse # NotListed
  BY <1>0, ModelCatalogAssumption
<1>2. CatalogTypeOK
  <2>1. catalog \in [Models -> CatalogEntry \cup {NotListed}] /\ approved \in [PublicModels -> CatalogEntry \cup {NotListed}]
    BY <1>1 DEF CatalogOf
  <2>2. config \in [Models -> Flags] /\ lastTest \in [Models -> {"none", "ok", "failed"}]
    BY DEF CatalogOf, Flags
  <2>3. calling \in [CatalogTabs -> Operation \cup {NoOperation}]
    BY DEF CatalogOf
  <2>4. calls \in 0..MaxOperations
    BY ModelCatalogAssumption DEF CatalogOf
  <2>5. passed \subseteq Models /\ gone \subseteq WorkspaceModels /\ rebuilt \in BOOLEAN /\ unsettled \subseteq Models
    BY Zenon DEF CatalogOf
  <2>. QED
    BY <2>1, <2>2, <2>3, <2>4, <2>5 DEF CatalogTypeOK
<1>3. OperationsInOrder /\ LoadedIsCatalog /\ TestedIsListed /\ StampIsLast
  BY DEF CatalogOf, OperationsInOrder, LoadedIsCatalog, TestedIsListed, StampIsLast, StampingOf, Testing, Calling, Doing
<1>4. MarksAreTrue
  BY <1>1 DEF CatalogOf, MarksAreTrue, Settled
<1>5. ApprovedAreTrue
  BY <1>1 DEF CatalogOf, ApprovedAreTrue, Settled, Models
<1>. QED
  BY <1>2, <1>3, <1>4, <1>5 DEF CatalogInv

----------------------------------------------------------------------------
(* What an operation writes.                                               *)

\* Normalizing an entry keeps its marks.
LEMMA NormalizedEntry ==
  ASSUME NEW e \in CatalogEntry
  PROVE  /\ Normalized(e) \in CatalogEntry
         /\ Normalized(e).validated = e.validated /\ Normalized(e).stale = e.stale
BY DEF Normalized, CatalogEntry

\* A test writes its result and leaves the mark of the last sync.
LEMMA StampedEntry ==
  ASSUME NEW e \in CatalogEntry, NEW ok \in BOOLEAN
  PROVE  /\ Stamped(e, ok) \in CatalogEntry
         /\ Stamped(e, ok).validated = ok /\ Stamped(e, ok).stale = e.stale
<1>. DEFINE r == [e EXCEPT !.validated = ok, !.status = IF ok THEN "ready" ELSE "failed_validation"]
<1>1. r \in CatalogEntry /\ r.validated = ok /\ r.stale = e.stale
  BY DEF CatalogEntry
<1>. QED
  BY <1>1, NormalizedEntry DEF Stamped

\* An entry rebuilt from metadata carries no test.
LEMMA MetadataOnlyEntry ==
  MetadataOnly \in CatalogEntry /\ ~MetadataOnly.validated /\ ~MetadataOnly.stale
BY DEF MetadataOnly, CatalogEntry

\* Laying the configuration over an entry changes neither test nor staleness.
LEMMA OverlaidEntry ==
  ASSUME NEW e \in CatalogEntry \cup {NotListed}, NEW flag
  PROVE  /\ Overlaid(e, flag) \in CatalogEntry \cup {NotListed}
         /\ Overlaid(e, flag) = NotListed <=> e = NotListed
         /\ e # NotListed => Overlaid(e, flag).validated = e.validated /\ Overlaid(e, flag).stale = e.stale
BY ModelCatalogAssumption DEF Overlaid, CatalogEntry

\* A sync keeps what the last test said, of what it found and of what it did not.
LEMMA SyncedEntry ==
  ASSUME CatalogTypeOK, NEW base \in [Models -> CatalogEntry \cup {NotListed}],
         NEW found \in SUBSET WorkspaceModels, NEW k \in Models
  PROVE  /\ Synced(base, found)[k] \in CatalogEntry \cup {NotListed}
         /\ Synced(base, found)[k] # NotListed =>
              /\ Synced(base, found)[k].validated => base[k] # NotListed /\ base[k].validated
              /\ ~Synced(base, found)[k].stale => k \in PublicModels \/ k \in found
<1>. DEFINE e == IF k \in PublicModels THEN base[k]
                 ELSE IF k \in found THEN Discovered(base[k]) ELSE Missing(base[k])
<1>1. base[k] \in CatalogEntry \cup {NotListed}
  OBVIOUS
<1>2. /\ Discovered(base[k]) \in CatalogEntry
      /\ Discovered(base[k]).validated => base[k] # NotListed /\ base[k].validated
  BY <1>1, MetadataOnlyEntry DEF Discovered, CatalogEntry, MetadataOnly
<1>3. base[k] # NotListed =>
        /\ [base[k] EXCEPT !.stale = TRUE] \in CatalogEntry
        /\ [base[k] EXCEPT !.stale = TRUE].stale
        /\ [base[k] EXCEPT !.stale = TRUE].validated = base[k].validated
  BY <1>1 DEF CatalogEntry
<1>4. /\ Missing(base[k]) \in CatalogEntry \cup {NotListed}
      /\ Missing(base[k]) # NotListed => /\ Missing(base[k]).stale
                                         /\ base[k] # NotListed
                                         /\ Missing(base[k]).validated = base[k].validated
  BY <1>1, <1>3, NormalizedEntry DEF Missing
<1>5. /\ e \in CatalogEntry \cup {NotListed}
      /\ e # NotListed => /\ e.validated => base[k] # NotListed /\ base[k].validated
                          /\ ~e.stale => k \in PublicModels \/ k \in found
  BY <1>1, <1>2, <1>4
<1>6. Synced(base, found)[k] = Overlaid(e, config[k])
  BY DEF Synced
<1>. HIDE DEF e
<1>. QED
  BY <1>5, <1>6, OverlaidEntry

\* What the catalog says of a model after an operation that had loaded it.
LEMMA NewEntry ==
  ASSUME CatalogTypeOK, NEW op \in Operation, NEW k \in Models,
         op.kind = "enable" => op.base[op.model] # NotListed
  PROVE  /\ NewCatalog(op)[k] \in CatalogEntry \cup {NotListed}
         /\ op.kind = "sync" => NewCatalog(op)[k] = Synced(op.base, op.found)[k]
         /\ op.kind # "sync" /\ k # op.model => NewCatalog(op)[k] = op.base[k]
         /\ op.kind = "enable" /\ k = op.model =>
              /\ op.base[k] # NotListed
              /\ NewCatalog(op)[k].validated = op.base[k].validated
              /\ NewCatalog(op)[k].stale = op.base[k].stale
         /\ op.kind = "test" /\ k = op.model =>
              IF op.base[k] = NotListed THEN NewCatalog(op)[k] = NotListed
              ELSE NewCatalog(op)[k].validated = op.good /\ NewCatalog(op)[k].stale = op.base[k].stale
         /\ op.kind = "add" /\ k = op.model =>
              ~NewCatalog(op)[k].validated /\ NewCatalog(op)[k].stale = FALSE /\ NewCatalog(op)[k] # NotListed
         /\ op.kind = "keyless" => NewCatalog(op)[k] = op.base[k]
         /\ op.kind = "remove" /\ k = op.model => NewCatalog(op)[k] = NotListed
<1>1. /\ op.kind \in {"sync", "enable", "test", "keyless", "add", "remove"} /\ op.model \in Models /\ op.good \in BOOLEAN
      /\ op.found \in SUBSET WorkspaceModels /\ op.base \in [Models -> CatalogEntry \cup {NotListed}]
  BY DEF Operation
<1>2. op.base[k] \in CatalogEntry \cup {NotListed} /\ op.base[op.model] \in CatalogEntry \cup {NotListed}
  BY <1>1
<1>3. CASE op.kind = "sync"
  <2>1. NewCatalog(op) = Synced(op.base, op.found)
    BY <1>3 DEF NewCatalog
  <2>. QED
    BY <2>1, <1>1, <1>3, SyncedEntry
<1>4. CASE op.kind = "enable"
  <2>. DEFINE e == [op.base[op.model] EXCEPT !.enabled = op.good]
  <2>1. e \in CatalogEntry /\ e.validated = op.base[op.model].validated /\ e.stale = op.base[op.model].stale
    BY <1>1, <1>2, <1>4 DEF CatalogEntry
  <2>2. NewCatalog(op) = [op.base EXCEPT ![op.model] = e]
    BY <1>4 DEF NewCatalog
  <2>. HIDE DEF e
  <2>. QED
    BY <2>1, <2>2, <1>1, <1>2, <1>4
<1>5. CASE op.kind = "test"
  <2>1. NewCatalog(op) = IF op.base[op.model] = NotListed THEN op.base
                         ELSE [op.base EXCEPT ![op.model] = Stamped(op.base[op.model], op.good)]
    BY <1>5 DEF NewCatalog
  <2>. QED
    BY <2>1, <1>1, <1>2, <1>5, StampedEntry
<1>6. CASE op.kind = "add"
  <2>1. NewCatalog(op) = [op.base EXCEPT ![op.model] = MetadataOnly]
    BY <1>6 DEF NewCatalog
  <2>. QED
    BY <2>1, <1>1, <1>2, <1>6, MetadataOnlyEntry, ModelCatalogAssumption
<1>7. CASE op.kind = "remove"
  <2>1. NewCatalog(op) = [op.base EXCEPT ![op.model] = NotListed]
    BY <1>7 DEF NewCatalog
  <2>. QED
    BY <2>1, <1>1, <1>2, <1>7
<1>8. CASE op.kind = "keyless"
  BY <1>1, <1>2, <1>8 DEF NewCatalog
<1>. QED
  BY <1>1, <1>3, <1>4, <1>5, <1>6, <1>7, <1>8

\* The flags an operation stores are typed.
LEMMA NewFlagsTyped ==
  ASSUME NEW op \in Operation
  PROVE  NewFlags(op) \in [Models -> Flags]
<1>1. /\ op.kind \in {"sync", "enable", "test", "keyless", "add", "remove"} /\ op.model \in Models
      /\ op.flags \in [Models -> Flags]
  BY DEF Operation
<1>2. \A flag \in Flags, on \in BOOLEAN : Switched(flag, on) \in Flags
  BY DEF Switched, Flags
<1>4. op.good \in BOOLEAN /\ "absent" \in Flags
  BY DEF Operation, Flags
<1>5. CASE op.kind = "sync"
  <2>1. NewFlags(op) = [m \in Models |-> SyncedFlag(m, op.base[m], op.flags[m])]
    BY <1>5 DEF NewFlags
  <2>2. \A m \in Models : SyncedFlag(m, op.base[m], op.flags[m]) \in Flags
    BY <1>1 DEF SyncedFlag, Flags
  <2>. QED
    BY <2>1, <2>2
<1>6. CASE op.kind = "enable"
  BY <1>1, <1>2, <1>4, <1>6 DEF NewFlags
<1>7. CASE op.kind = "test"
  BY <1>1, <1>2, <1>4, <1>7 DEF NewFlags
<1>8. CASE op.kind = "add"
  BY <1>1, <1>8 DEF NewFlags, MergedFlags, Flags
<1>10. CASE op.kind = "keyless"
  BY <1>1, <1>10 DEF NewFlags
<1>9. CASE op.kind = "remove"
  BY <1>1, <1>2, <1>4, <1>9 DEF NewFlags
<1>. QED
  BY <1>1, <1>5, <1>6, <1>7, <1>8, <1>9, <1>10

\* A saved catalog is a function of all models.
LEMMA CatalogIsFunction ==
  ASSUME NEW op \in Operation
  PROVE  DOMAIN NewCatalog(op) = Models /\ NewCatalog(op) = [k \in Models |-> NewCatalog(op)[k]]
BY DEF NewCatalog, Synced, Operation

----------------------------------------------------------------------------
(* The steps of one tab.                                                   *)

\* An operation in progress is well typed.
LEMMA OperationTyped ==
  ASSUME CatalogInv, NEW t \in CatalogTabs, Calling(t)
  PROVE  /\ calling[t] \in Operation
         /\ calling[t].model \in Models /\ calling[t].good \in BOOLEAN
         /\ calling[t].kind \in {"sync", "enable", "test", "keyless", "add", "remove"}
         /\ calling[t].at \in {"load", "catalog", "loadConfig", "config", "pubs"}
         /\ calling[t].found \in SUBSET WorkspaceModels
         /\ calling[t].base \in [Models -> CatalogEntry \cup {NotListed}]
BY DEF CatalogInv, CatalogTypeOK, Calling, Operation

CatalogParts ==
  /\ OperationsInOrder /\ LoadedIsCatalog /\ TestedIsListed /\ MarksAreTrue /\ ApprovedAreTrue /\ StampIsLast

(* A step that leaves the catalog and the last results alone, and makes nothing *)
(* a test that was none.                                                      *)
LEMMA CatalogStays ==
  ASSUME CatalogInv, NEW t \in CatalogTabs,
         UNCHANGED <<catalog, lastTest, gone, rebuilt>>, Settled' \subseteq Settled,
         \A s \in CatalogTabs \ {t} : calling'[s] = calling[s],
         Doing(t, "catalog")' =>
           /\ \A k \in Settled : calling'[t].base[k] = catalog[k]
           /\ calling'[t].kind = "enable" => calling'[t].base[calling'[t].model] # NotListed,
         Calling(t)' /\ calling'[t].kind = "add" => calling'[t].model \in PublicModels,
         Doing(t, "load")' => calling'[t].kind \in {"test", "keyless", "add"},
         Doing(t, "pubs")' => calling'[t].kind \in {"add", "remove", "test"},
         /\ Testing(t)' /\ calling'[t].at \in {"load", "catalog"} /\ calling'[t].model \in Settled
         => catalog[calling'[t].model] # NotListed,
         \A k \in Settled : StampingOf(t, k)' => StampingOf(t, k) /\ calling'[t].good = calling[t].good
  PROVE  OperationsInOrder' /\ LoadedIsCatalog' /\ TestedIsListed' /\ MarksAreTrue' /\ StampIsLast'
<1>. CatalogParts
  BY DEF CatalogInv, CatalogParts
<1>1. OperationsInOrder'
  BY DEF CatalogParts, OperationsInOrder, Doing, Calling
<1>2. LoadedIsCatalog'
  BY DEF CatalogParts, LoadedIsCatalog, Doing
<1>3. TestedIsListed'
  BY DEF CatalogParts, TestedIsListed, Testing, Calling
<1>4. MarksAreTrue'
  BY DEF CatalogParts, MarksAreTrue
<1>5. \A s \in CatalogTabs, k \in Settled :
         StampingOf(s, k)' => StampingOf(s, k) /\ calling'[s].good = calling[s].good
  BY DEF StampingOf, Testing, Calling
<1>6. StampIsLast'
  BY <1>5 DEF CatalogParts, StampIsLast
<1>. QED
  BY <1>1, <1>2, <1>3, <1>4, <1>6

\* A step that writes nothing but models.json, and keeps a test what it is.
LEMMA TabMoves ==
  ASSUME CatalogInv, NEW t \in CatalogTabs,
         UNCHANGED <<catalog, approved, lastTest, gone, rebuilt, unsettled>>,
         \A s \in CatalogTabs \ {t} : calling'[s] = calling[s],
         Doing(t, "catalog")' =>
           /\ \A k \in Settled : calling'[t].base[k] = catalog[k]
           /\ calling'[t].kind = "enable" => calling'[t].base[calling'[t].model] # NotListed,
         Calling(t)' /\ calling'[t].kind = "add" => calling'[t].model \in PublicModels,
         Doing(t, "load")' => calling'[t].kind \in {"test", "keyless", "add"},
         Doing(t, "pubs")' => calling'[t].kind \in {"add", "remove", "test"},
         /\ Testing(t)' /\ calling'[t].at \in {"load", "catalog"} /\ calling'[t].model \in Settled
         => catalog[calling'[t].model] # NotListed,
         \A k \in Settled : StampingOf(t, k)' <=> StampingOf(t, k),
         \A k \in Settled : StampingOf(t, k) => calling'[t].good = calling[t].good
  PROVE  CatalogParts'
<1>. Settled' = Settled /\ CatalogParts
  BY DEF Settled, CatalogInv, CatalogParts
<1>1. OperationsInOrder' /\ LoadedIsCatalog' /\ TestedIsListed' /\ MarksAreTrue' /\ StampIsLast'
  BY CatalogStays
<1>2. \A s \in CatalogTabs, k \in Settled : StampingOf(s, k)' <=> StampingOf(s, k)
  BY DEF StampingOf, Testing, Calling
<1>3. ApprovedAreTrue'
  BY <1>2 DEF CatalogParts, ApprovedAreTrue
<1>. QED
  BY <1>1, <1>3 DEF CatalogParts

LEMMA BeginKeeps ==
  ASSUME CatalogInv, NEW t \in CatalogTabs,
         NEW kind \in {"sync", "enable", "test", "keyless", "add", "remove"},
         NEW k \in Models, NEW good \in BOOLEAN,
         NEW found \in SUBSET WorkspaceModels, NEW at \in {"load", "catalog", "pubs"},
         Begin(t, kind, k, good, found, at),
         kind \in {"enable", "test"} => catalog[k] # NotListed,
         at = "pubs" <=> kind = "add",
         kind = "add" => k \in PublicModels,
         at = "load" <=> kind \in {"test", "keyless"}
  PROVE  CatalogInv'
<1>. DEFINE op == [kind |-> kind, model |-> k, good |-> good, found |-> found, at |-> at,
                   base |-> IF at = "catalog" THEN catalog ELSE Unread, flags |-> Unknown]
<1>. CatalogTypeOK /\ ~Calling(t)
  BY DEF CatalogInv, Begin, Calling
<1>1. op \in Operation
  BY DEF CatalogTypeOK, Operation, Unread, Unknown, Flags
<1>2. /\ op.kind = kind /\ op.model = k /\ op.good = good /\ op.at = at
      /\ at = "catalog" => op.base = catalog
  OBVIOUS
<1>. HIDE DEF op
<1>3. /\ calls < MaxOperations /\ calls' = calls + 1
      /\ calling' = [calling EXCEPT ![t] = op] 
      /\ UNCHANGED <<catalog, config, approved, lastTest, gone, rebuilt, unsettled>>
      /\ passed' \subseteq passed \cup {k}
  BY DEF Begin, op
<1>4. CatalogTypeOK'
  BY <1>1, <1>3, ModelCatalogAssumption DEF CatalogTypeOK
<1>5. calling'[t] = op /\ \A s \in CatalogTabs \ {t} : calling'[s] = calling[s]
  BY <1>1, <1>3, <1>4, ModelCatalogAssumption DEF CatalogTypeOK
<1>6. op # NoOperation
  BY <1>1, ModelCatalogAssumption
<1>7. \A m \in Settled : ~StampingOf(t, m) /\ ~StampingOf(t, m)'
  BY <1>2, <1>5, <1>6 DEF StampingOf, Testing, Calling, Stamping
<1>8. CatalogParts'
  BY <1>2, <1>3, <1>5, <1>6, <1>7, TabMoves DEF Doing, Testing
<1>. QED
  BY <1>4, <1>8 DEF CatalogInv, CatalogParts

\* Loading the catalog or models.json, and writing models.json.
LEMMA ConfigKeeps ==
  ASSUME CatalogInv, NEW t \in CatalogTabs, LoadCatalog(t) \/ LoadConfig(t) \/ SaveConfig(t)
  PROVE  CatalogInv'
<1>. CatalogTypeOK /\ Calling(t)
  BY DEF CatalogInv, LoadCatalog, LoadConfig, SaveConfig, Doing, Calling
<1>. DEFINE op == calling[t]
<1>1. /\ op \in Operation /\ op # NoOperation /\ op.model \in Models
      /\ op.kind \in {"sync", "enable", "test", "keyless", "add", "remove"}
      /\ op.kind = "add" => op.model \in PublicModels
  BY OperationTyped DEF Calling, CatalogInv, OperationsInOrder
<1>2. CASE LoadCatalog(t)
  <2>. DEFINE new == [op EXCEPT !.at = "catalog", !.base = catalog]
  <2>1. /\ new \in Operation /\ new.kind = op.kind /\ new.model = op.model /\ new.good = op.good
        /\ new.at = "catalog" /\ new.base = catalog
    BY <1>1 DEF CatalogTypeOK, Operation
  <2>. HIDE DEF new
  <2>2. /\ calling' = [calling EXCEPT ![t] = new] /\ op.at = "load" /\ Doing(t, "load")
        /\ UNCHANGED <<catalog, config, approved, calls, lastTest, passed, gone, rebuilt, unsettled>>
    BY <1>2 DEF LoadCatalog, Doing, new
  <2>3. CatalogTypeOK' /\ calling'[t] = new /\ \A s \in CatalogTabs \ {t} : calling'[s] = calling[s]
    BY <2>1, <2>2 DEF CatalogTypeOK
  <2>. QED
    <3>1. op.kind \in {"test", "keyless", "add"} /\ \A m \in Settled : ~StampingOf(t, m) /\ ~StampingOf(t, m)'
      BY <2>1, <2>2, <2>3 DEF CatalogInv, OperationsInOrder, StampingOf, Testing, Stamping
    <3>2. new.kind = "test" /\ new.model \in Settled => catalog[new.model] # NotListed
      BY <2>1, <2>2 DEF CatalogInv, TestedIsListed, Testing
    <3>3. CatalogParts'
      BY <1>1, <2>1, <2>2, <2>3, <3>1, <3>2, TabMoves DEF Doing, Testing
    <3>. QED
      BY <2>3, <3>3 DEF CatalogInv, CatalogParts
<1>3. CASE LoadConfig(t)
  <2>. DEFINE new == [op EXCEPT !.at = "config", !.flags = config]
  <2>1. /\ new \in Operation /\ new.kind = op.kind /\ new.model = op.model /\ new.good = op.good
        /\ new.at = "config"
    BY <1>1 DEF CatalogTypeOK, Operation
  <2>. HIDE DEF new
  <2>2. /\ calling' = [calling EXCEPT ![t] = new] /\ op.at = "loadConfig"
        /\ UNCHANGED <<catalog, config, approved, calls, lastTest, passed, gone, rebuilt, unsettled>>
    BY <1>3 DEF LoadConfig, Doing, new
  <2>3. CatalogTypeOK' /\ calling'[t] = new /\ \A s \in CatalogTabs \ {t} : calling'[s] = calling[s]
    BY <2>1, <2>2 DEF CatalogTypeOK
  <2>4. new # NoOperation
    BY <2>1, ModelCatalogAssumption
  <2>5. \A m \in Settled : StampingOf(t, m)' <=> StampingOf(t, m)
    BY <1>1, <2>1, <2>2, <2>3, <2>4 DEF StampingOf, Testing, Calling, Stamping
  <2>6. CatalogParts'
    BY <1>1, <2>1, <2>2, <2>3, <2>5, TabMoves DEF Doing, Testing
  <2>. QED
    BY <2>3, <2>6 DEF CatalogInv, CatalogParts
<1>4. CASE SaveConfig(t)
  <2>. DEFINE new == IF op.kind = "test" THEN [op EXCEPT !.at = "pubs"]
                     ELSE IF op.kind = "add" THEN [op EXCEPT !.at = "load"] ELSE NoOperation
  <2>1. /\ new # NoOperation => /\ new \in Operation /\ new.kind = op.kind /\ new.model = op.model
                                /\ new.good = op.good /\ op.kind \in {"test", "add"}
                                /\ new.at = IF op.kind = "test" THEN "pubs" ELSE "load"
        /\ op.kind = "test" => new # NoOperation
    BY <1>1, ModelCatalogAssumption DEF Operation
  <2>2. /\ calling' = [calling EXCEPT ![t] = new] /\ op.at = "config" /\ config' = NewFlags(op)
        /\ UNCHANGED <<catalog, approved, calls, lastTest, passed, gone, rebuilt, unsettled>>
    BY <1>4, <1>1 DEF SaveConfig, Doing, Then, Done
  <2>. HIDE DEF new
  <2>3. CatalogTypeOK' /\ calling'[t] = new /\ \A s \in CatalogTabs \ {t} : calling'[s] = calling[s]
    BY <1>1, <2>1, <2>2, NewFlagsTyped DEF CatalogTypeOK
  <2>5. \A m \in Settled : StampingOf(t, m)' <=> StampingOf(t, m)
    BY <1>1, <2>1, <2>2, <2>3 DEF StampingOf, Testing, Calling, Stamping
  <2>6. CatalogParts'
    BY <1>1, <2>1, <2>2, <2>3, <2>5, TabMoves DEF Doing, Testing, Calling, StampingOf
  <2>. QED
    BY <2>3, <2>6 DEF CatalogInv, CatalogParts
<1>. QED
  BY <1>2, <1>3, <1>4

LEMMA SaveApprovedKeeps ==
  ASSUME CatalogInv, NEW t \in CatalogTabs, SaveApproved(t)
  PROVE  CatalogInv'
<1>. DEFINE op == calling[t]  k == calling[t].model
            new == IF op.kind = "test" THEN NoOperation ELSE [op EXCEPT !.at = "loadConfig"]
<1>. CatalogTypeOK /\ Calling(t) /\ CatalogParts
  BY DEF CatalogInv, CatalogParts, SaveApproved, Doing, Calling
<1>1. op \in Operation /\ op # NoOperation /\ k \in Models /\ op.good \in BOOLEAN
  BY OperationTyped DEF Calling
<1>2. op.at = "pubs" /\ op.kind \in {"add", "remove", "test"} /\ (op.kind = "add" => k \in PublicModels)
  BY DEF SaveApproved, Doing, Calling, CatalogParts, OperationsInOrder
<1>3. /\ op.kind = "test" => new = NoOperation
      /\ op.kind # "test" => /\ new \in Operation /\ new # NoOperation /\ new.kind = op.kind
                             /\ new.at = "loadConfig" /\ new.model = k
  BY <1>1, ModelCatalogAssumption DEF Operation
<1>4. calling' = [calling EXCEPT ![t] = new]
      /\ UNCHANGED <<catalog, config, calls, lastTest, passed, gone, rebuilt, unsettled>>
  BY <1>1 DEF SaveApproved, Then, Done
<1>. HIDE DEF new
<1>5. /\ calling' \in [CatalogTabs -> Operation \cup {NoOperation}] /\ calling'[t] = new
      /\ \A s \in CatalogTabs \ {t} : calling'[s] = calling[s]
  BY <1>3, <1>4 DEF CatalogTypeOK
<1>6. /\ approved' \in [PublicModels -> CatalogEntry \cup {NotListed}]
      /\ \A m \in PublicModels \ {k} : approved'[m] = approved[m]
      /\ k \in PublicModels /\ approved'[k] # NotListed /\ approved'[k].validated
         => op.kind = "test" /\ op.good
  <2>1. CASE k \notin PublicModels
    BY <2>1 DEF SaveApproved, CatalogTypeOK
  <2>2. CASE k \in PublicModels /\ op.kind = "add"
    <3>1. approved' = [approved EXCEPT ![k] = MetadataOnly]
      BY <2>2 DEF SaveApproved
    <3>. QED
      BY <2>2, <3>1, MetadataOnlyEntry DEF CatalogTypeOK
  <2>3. CASE k \in PublicModels /\ op.kind = "remove"
    <3>1. approved' = [approved EXCEPT ![k] = NotListed]
      BY <2>3 DEF SaveApproved
    <3>. QED
      BY <2>3, <3>1 DEF CatalogTypeOK
  <2>4. CASE k \in PublicModels /\ op.kind = "test"
    <3>1. approved' = IF approved[k] = NotListed THEN approved
                      ELSE [approved EXCEPT ![k] = Stamped(approved[k], op.good)]
      BY <2>4 DEF SaveApproved
    <3>2. approved[k] # NotListed =>
            /\ Stamped(approved[k], op.good) \in CatalogEntry
            /\ Stamped(approved[k], op.good).validated = op.good
      BY <2>4, <1>1, StampedEntry DEF CatalogTypeOK
    <3>. QED
      BY <2>4, <3>1, <3>2 DEF CatalogTypeOK
  <2>. QED
    BY <1>2, <2>1, <2>2, <2>3, <2>4
<1>7. Settled' = Settled /\ \A m \in Settled : ~StampingOf(t, m)'
  BY <1>3, <1>4, <1>5 DEF Settled, StampingOf, Testing, Calling
<1>8. OperationsInOrder' /\ LoadedIsCatalog' /\ TestedIsListed' /\ MarksAreTrue' /\ StampIsLast'
  BY <1>2, <1>3, <1>4, <1>5, <1>7, CatalogStays DEF Doing, Testing, Calling
<1>9. ApprovedAreTrue'
  <2>. SUFFICES ASSUME NEW m \in Settled \cap PublicModels, approved'[m] # NotListed, approved'[m].validated
                PROVE  lastTest[m] = "ok" \/ \E s \in CatalogTabs : StampingOf(s, m)'
    BY <1>4, <1>7 DEF ApprovedAreTrue
  <2>1. CASE m = k
    <3>1. op.kind = "test" /\ op.good /\ StampingOf(t, m)
      BY <2>1, <1>2, <1>6 DEF StampingOf, Testing, Stamping
    <3>. QED
      BY <3>1 DEF CatalogParts, StampIsLast
  <2>2. CASE m # k
    <3>1. ~StampingOf(t, m) /\ approved'[m] = approved[m]
      BY <2>2, <1>6 DEF StampingOf
    <3>2. \A s \in CatalogTabs : StampingOf(s, m) => StampingOf(s, m)'
      BY <3>1, <1>5 DEF StampingOf, Testing, Calling
    <3>. QED
      BY <3>1, <3>2 DEF CatalogParts, ApprovedAreTrue
  <2>. QED
    BY <2>1, <2>2
<1>10. CatalogTypeOK'
  BY <1>4, <1>5, <1>6 DEF CatalogTypeOK
<1>. QED
  BY <1>8, <1>9, <1>10 DEF CatalogInv

LEMMA GiveUpKeeps ==
  ASSUME CatalogInv, NEW t \in CatalogTabs, GiveUp(t)
  PROVE  CatalogInv'
<1>. CatalogTypeOK /\ Calling(t) /\ CatalogParts
  BY DEF CatalogInv, CatalogParts, GiveUp, Calling
<1>1. calling[t].model \in Models
  BY OperationTyped
<1>2. /\ calling' = [calling EXCEPT ![t] = NoOperation]
      /\ unsettled \subseteq unsettled' /\ unsettled' \subseteq Models
      /\ calling[t].at \notin {"load", "catalog"} /\ calling[t].kind # "sync"
         => calling[t].model \in unsettled'
      /\ UNCHANGED <<catalog, config, approved, calls, lastTest, passed, gone, rebuilt>>
  BY <1>1 DEF GiveUp, Done, CatalogTypeOK
<1>3. /\ calling' \in [CatalogTabs -> Operation \cup {NoOperation}] /\ calling'[t] = NoOperation
      /\ \A s \in CatalogTabs \ {t} : calling'[s] = calling[s]
  BY <1>2 DEF CatalogTypeOK
<1>4. CatalogTypeOK'
  BY <1>2, <1>3 DEF CatalogTypeOK
<1>5. Settled' \subseteq Settled
  BY <1>2 DEF Settled
<1>6. OperationsInOrder' /\ LoadedIsCatalog' /\ TestedIsListed' /\ MarksAreTrue' /\ StampIsLast'
  BY <1>2, <1>3, <1>5, CatalogStays DEF Doing, Testing, Calling, StampingOf
<1>7. ApprovedAreTrue'
  <2>1. \A m \in Settled' : ~StampingOf(t, m)
    BY <1>2 DEF StampingOf, Testing, Stamping, Settled
  <2>2. \A m \in Settled', s \in CatalogTabs : StampingOf(s, m) => StampingOf(s, m)'
    BY <2>1, <1>3 DEF StampingOf, Testing, Calling
  <2>. QED
    BY <2>2, <1>2, <1>5 DEF CatalogParts, ApprovedAreTrue
<1>. QED
  BY <1>4, <1>6, <1>7 DEF CatalogInv

LEMMA SaveCatalogKeeps ==
  ASSUME CatalogInv, NEW t \in CatalogTabs, SaveCatalog(t)
  PROVE  CatalogInv'
<1>. DEFINE op == calling[t]  k == calling[t].model
            new == IF op.kind = "add" THEN NoOperation
                   ELSE [op EXCEPT !.base = IF op.kind = "sync" THEN catalog' ELSE Unread,
                                   !.at = IF op.kind = "remove" THEN "pubs" ELSE "loadConfig"]
<1>. CatalogTypeOK /\ Calling(t) /\ CatalogParts
  BY DEF CatalogInv, CatalogParts, SaveCatalog, Doing, Calling
<1>1. /\ op \in Operation /\ op # NoOperation /\ k \in Models /\ op.good \in BOOLEAN /\ op.at = "catalog"
      /\ op.kind \in {"sync", "enable", "test", "keyless", "add", "remove"} /\ op.found \in SUBSET WorkspaceModels
      /\ op.base \in [Models -> CatalogEntry \cup {NotListed}]
      /\ op.kind = "enable" => op.base[k] # NotListed
      /\ op.kind = "add" => k \in PublicModels
  BY OperationTyped DEF Calling, SaveCatalog, Doing, CatalogParts, OperationsInOrder
<1>2. /\ catalog' = NewCatalog(op)
      /\ lastTest' = IF op.kind = "test" /\ op.base[k] # NotListed
                     THEN [lastTest EXCEPT ![k] = IF op.good THEN "ok" ELSE "failed"] ELSE lastTest
      /\ gone' = IF op.kind = "sync" THEN WorkspaceModels \ op.found ELSE gone
      /\ rebuilt' = (rebuilt /\ op.kind # "sync")
      /\ unsettled' = unsettled \cup Overtaken(t)
      /\ calling' = [calling EXCEPT ![t] = new]
      /\ UNCHANGED <<config, approved, calls, passed>>
  BY <1>1 DEF SaveCatalog
<1>3. catalog' \in [Models -> CatalogEntry \cup {NotListed}]
  BY <1>1, <1>2, NewEntry, CatalogIsFunction
<1>4. new # NoOperation => /\ new \in Operation /\ new.kind = op.kind /\ new.model = k /\ new.good = op.good
                           /\ op.kind # "add"
                           /\ new.at = IF op.kind = "remove" THEN "pubs" ELSE "loadConfig"
  BY <1>1, <1>3 DEF Operation, Unread
<1>5. op.kind = "test" => new # NoOperation
  <2>1. op.kind = "test" => [op EXCEPT !.base = Unread, !.at = "loadConfig"] \in Operation
    BY <1>1 DEF Operation, Unread
  <2>. QED
    BY <2>1, ModelCatalogAssumption
<1>. HIDE DEF new
<1>6. /\ calling' \in [CatalogTabs -> Operation \cup {NoOperation}] /\ calling'[t] = new
      /\ \A s \in CatalogTabs \ {t} : calling'[s] = calling[s]
  BY <1>2, <1>4 DEF CatalogTypeOK
<1>7. /\ Settled' \subseteq Settled
      /\ \A s \in CatalogTabs \ {t}, m \in Settled' : Calling(s) => m # k /\ catalog'[m] = catalog[m]
  BY <1>2 DEF Settled, Overtaken, Calling
<1>8. CatalogTypeOK'
  BY <1>1, <1>2, <1>3, <1>6 DEF CatalogTypeOK, Overtaken
<1>9. OperationsInOrder'
  BY <1>4, <1>6 DEF CatalogParts, OperationsInOrder, Doing, Calling
<1>10. LoadedIsCatalog' /\ TestedIsListed'
  BY <1>4, <1>6, <1>7 DEF CatalogParts, LoadedIsCatalog, TestedIsListed, Doing, Testing, Calling
<1>11. MarksAreTrue'
  <2>. SUFFICES ASSUME NEW m \in Settled', catalog'[m] # NotListed
                PROVE  /\ catalog'[m].validated => lastTest'[m] = "ok"
                       /\ ~catalog'[m].stale => m \notin gone' \/ rebuilt'
    BY DEF MarksAreTrue
  <2>1. m \in Settled /\ m \in Models /\ op.base[m] = catalog[m]
    BY <1>1, <1>7 DEF CatalogParts, LoadedIsCatalog, Doing, Calling, Settled
  <2>2. op.base[m] # NotListed => /\ op.base[m].validated => lastTest[m] = "ok"
                                  /\ ~op.base[m].stale => m \notin gone \/ rebuilt
    BY <2>1 DEF CatalogParts, MarksAreTrue
  <2>3. CASE op.kind = "sync"
    <3>1. catalog'[m] = Synced(op.base, op.found)[m] /\ lastTest' = lastTest
      BY <2>1, <2>3, <1>1, <1>2, NewEntry
    <3>2. /\ catalog'[m].validated => op.base[m] # NotListed /\ op.base[m].validated
          /\ ~catalog'[m].stale => m \in PublicModels \/ m \in op.found
      BY <2>1, <3>1, <1>1, SyncedEntry
    <3>. QED
      BY <2>2, <2>3, <3>1, <3>2, <1>2, ModelCatalogAssumption
  <2>4. CASE op.kind # "sync" /\ m # k
    BY <2>1, <2>2, <2>4, <1>1, <1>2, NewEntry DEF CatalogTypeOK
  <2>5. CASE op.kind = "enable" /\ m = k
    BY <2>1, <2>2, <2>5, <1>1, <1>2, NewEntry
  <2>6. CASE op.kind = "test" /\ m = k
    BY <2>1, <2>2, <2>6, <1>1, <1>2, NewEntry DEF CatalogTypeOK
  <2>7. CASE op.kind = "add" /\ m = k
    <3>1. /\ ~catalog'[m].validated /\ gone' = gone
      BY <2>7, <2>1, <1>1, <1>2, NewEntry
    <3>2. k \notin gone
      BY <2>7, <1>1, ModelCatalogAssumption DEF CatalogTypeOK
    <3>. QED
      BY <2>7, <3>1, <3>2
  <2>8. CASE op.kind = "remove" /\ m = k
    BY <2>1, <2>8, <1>1, <1>2, NewEntry
  <2>9. CASE op.kind = "keyless"
    BY <2>1, <2>2, <2>9, <1>1, <1>2, NewEntry
  <2>. QED
    BY <1>1, <2>3, <2>4, <2>5, <2>6, <2>7, <2>8, <2>9
<1>12. StampIsLast'
  <2>. SUFFICES ASSUME NEW s \in CatalogTabs, NEW m \in Settled', StampingOf(s, m)'
                PROVE  lastTest'[m] = IF calling'[s].good THEN "ok" ELSE "failed"
    BY DEF StampIsLast
  <2>0. m \in Settled /\ m \in Models
    BY <1>7 DEF Settled
  <2>1. CASE s = t
    <3>1. op.kind = "test" /\ m = k /\ new.good = op.good /\ calling'[t] = new
      BY <2>1, <1>4, <1>6 DEF StampingOf, Testing, Calling
    <3>2. catalog[k] # NotListed /\ op.base[k] = catalog[k]
      BY <3>1, <2>0, <1>1 DEF CatalogParts, TestedIsListed, LoadedIsCatalog, Testing, Doing, Calling
    <3>. QED
      BY <2>1, <3>1, <3>2, <1>1, <1>2 DEF CatalogTypeOK
  <2>2. CASE s # t
    <3>1. StampingOf(s, m) /\ calling'[s] = calling[s] /\ m # k
      BY <2>2, <1>6, <1>7 DEF StampingOf, Testing, Calling
    <3>2. lastTest'[m] = lastTest[m]
      BY <3>1, <2>0, <1>2 DEF CatalogTypeOK
    <3>. QED
      BY <3>1, <3>2, <2>0 DEF CatalogParts, StampIsLast
  <2>. QED
    BY <2>1, <2>2
<1>13. ApprovedAreTrue'
  <2>. SUFFICES ASSUME NEW m \in Settled' \cap PublicModels, approved'[m] # NotListed, approved'[m].validated,
                       lastTest'[m] # "ok"
                PROVE  \E s \in CatalogTabs : StampingOf(s, m)'
    BY DEF ApprovedAreTrue
  <2>1. lastTest[m] = "ok" \/ \E s \in CatalogTabs : StampingOf(s, m)
    BY <1>2, <1>7 DEF CatalogParts, ApprovedAreTrue
  <2>2. CASE lastTest[m] = "ok"
    <3>1. op.kind = "test" /\ m = k
      BY <2>2, <1>1, <1>2 DEF CatalogTypeOK
    <3>2. StampingOf(t, m)'
      BY <3>1, <1>4, <1>5, <1>6 DEF StampingOf, Testing, Calling, Stamping
    <3>. QED
      BY <3>2
  <2>3. CASE \E s \in CatalogTabs : StampingOf(s, m)
    <3>1. PICK s \in CatalogTabs : StampingOf(s, m)
      BY <2>3
    <3>2. s # t
      BY <3>1, <1>1 DEF StampingOf, Stamping
    <3>. QED
      BY <3>1, <3>2, <1>6 DEF StampingOf, Testing, Calling
  <2>. QED
    BY <2>1, <2>2, <2>3
<1>. QED
  BY <1>8, <1>9, <1>10, <1>11, <1>12, <1>13 DEF CatalogInv

\* A catalog that is built anew while nobody is at work tells of no other tests.
LEMMA RebuildKeeps ==
  ASSUME CatalogInv, Rebuild
  PROVE  CatalogInv'
<1>. CatalogTypeOK /\ CatalogParts
  BY DEF CatalogInv, CatalogParts
<1>0. UNCHANGED <<config, approved, calling, calls, lastTest, passed, gone>> /\ rebuilt' /\ unsettled \subseteq unsettled'
      /\ unsettled' \subseteq Models /\ rebuilt' \in BOOLEAN
  BY DEF Rebuild, CatalogTypeOK
<1>1. ASSUME NEW k \in Models
      PROVE  /\ catalog'[k] \in CatalogEntry \cup {NotListed}
             /\ catalog'[k] # NotListed /\ catalog'[k].validated =>
                  k \in PublicModels /\ approved[k] # NotListed /\ approved[k].validated
  <2>1. CASE k \in PublicModels /\ approved[k] # NotListed
    <3>1. catalog'[k] = Overlaid(approved[k], config[k]) /\ approved[k] \in CatalogEntry
      BY <2>1 DEF Rebuild, CatalogTypeOK
    <3>. QED
      BY <2>1, <3>1, OverlaidEntry
  <2>2. CASE ~(k \in PublicModels /\ approved[k] # NotListed)
    BY <2>2 DEF Rebuild, CatalogEntry
  <2>. QED
    BY <2>1, <2>2
<1>2. CatalogTypeOK'
  <2>1. catalog' \in [Models -> CatalogEntry \cup {NotListed}]
    BY <1>1 DEF Rebuild
  <2>. QED
    BY <2>1, <1>0 DEF CatalogTypeOK
<1>3. OperationsInOrder'
  BY <1>0 DEF CatalogParts, OperationsInOrder, Doing, Calling
<1>4. CASE \E s \in CatalogTabs : Calling(s)
  <2>1. Settled' = {}
    BY <1>4 DEF Rebuild, Calling, Settled
  <2>. QED
    BY <2>1, <1>2, <1>3 DEF CatalogInv, LoadedIsCatalog, TestedIsListed, MarksAreTrue, ApprovedAreTrue, StampIsLast
<1>5. CASE \A s \in CatalogTabs : ~Calling(s)
  <2>1. \A s \in CatalogTabs : ~Calling(s)'
    BY <1>0, <1>5 DEF Calling
  <2>2. LoadedIsCatalog' /\ TestedIsListed' /\ StampIsLast'
    BY <2>1 DEF LoadedIsCatalog, TestedIsListed, StampIsLast, StampingOf, Testing, Doing, Calling
  <2>3. Settled' = Settled
    BY <1>5 DEF Rebuild, Calling, Settled
  <2>4. \A k \in Settled \cap PublicModels : approved[k] # NotListed /\ approved[k].validated => lastTest[k] = "ok"
    BY <1>5 DEF CatalogParts, ApprovedAreTrue, StampingOf, Testing
  <2>5. MarksAreTrue'
    BY <2>3, <2>4, <1>0, <1>1 DEF MarksAreTrue, Settled
  <2>6. ApprovedAreTrue'
    BY <2>3, <2>4, <1>0 DEF ApprovedAreTrue
  <2>. QED
    BY <1>2, <1>3, <2>2, <2>5, <2>6 DEF CatalogInv
<1>. QED
  BY <1>4, <1>5

LEMMA CatalogInvNext == CatalogInv /\ [CatalogNext]_catalogVars => CatalogInv'
<1>. SUFFICES ASSUME CatalogInv, [CatalogNext]_catalogVars PROVE CatalogInv'
  OBVIOUS
<1>1. ASSUME NEW t \in CatalogTabs, NEW found \in SUBSET WorkspaceModels, RefreshWorkspace(t, found)
      PROVE  CatalogInv'
  <2>1. (CHOOSE k \in Models : TRUE) \in Models
    BY ModelCatalogAssumption
  <2>. QED
    BY <1>1, <2>1, BeginKeeps DEF RefreshWorkspace
<1>2. ASSUME NEW t \in CatalogTabs, NEW k \in Models, AddPublic(t, k) \/ RemoveModel(t, k) \/ TestWithoutKey(t, k)
      PROVE  CatalogInv'
  BY <1>2, BeginKeeps DEF AddPublic, RemoveModel, TestWithoutKey
<1>3. ASSUME NEW t \in CatalogTabs, NEW k \in Models, NEW b \in BOOLEAN, SetEnabled(t, k, b) \/ TestModel(t, k, b)
      PROVE  CatalogInv'
  BY <1>3, BeginKeeps DEF SetEnabled, TestModel
<1>4. ASSUME NEW t \in CatalogTabs, LoadCatalog(t) \/ LoadConfig(t) \/ SaveConfig(t)
      PROVE  CatalogInv'
  BY <1>4, ConfigKeeps
<1>5. ASSUME NEW t \in CatalogTabs, SaveCatalog(t) \/ SaveApproved(t) \/ GiveUp(t)
      PROVE  CatalogInv'
  BY <1>5, SaveCatalogKeeps, SaveApprovedKeeps, GiveUpKeeps
<1>6. CASE UNCHANGED catalogVars
  BY <1>6 DEF catalogVars, CatalogInv, CatalogTypeOK, OperationsInOrder, LoadedIsCatalog, TestedIsListed,
     MarksAreTrue, ApprovedAreTrue, StampIsLast, StampingOf, Testing, Calling, Doing, Settled
<1>. QED
  BY <1>1, <1>2, <1>3, <1>4, <1>5, <1>6, RebuildKeeps DEF CatalogNext

----------------------------------------------------------------------------
(* No entry vouches for a model that never passed a test, wherever it is kept. *)

PassedIn(entry, k) == entry # NotListed /\ entry.validated => k \in passed

PassedAreTrue ==
  /\ \A k \in Models : PassedIn(catalog[k], k)
  /\ \A k \in PublicModels : PassedIn(approved[k], k)
  /\ \A t \in CatalogTabs : Calling(t) =>
       /\ \A k \in Models : PassedIn(calling[t].base[k], k)
       /\ calling[t].kind = "test" /\ calling[t].good => calling[t].model \in passed

\* What an operation saves vouches for no more than what it has loaded and tested.
LEMMA SavedWerePassed ==
  ASSUME CatalogInv, NEW t \in CatalogTabs, Calling(t), PassedAreTrue,
         calling[t].kind = "enable" => calling[t].base[calling[t].model] # NotListed, NEW k \in Models
  PROVE  PassedIn(NewCatalog(calling[t])[k], k)
<1>. DEFINE op == calling[t]
<1>1. op \in Operation /\ CatalogTypeOK /\ op.base \in [Models -> CatalogEntry \cup {NotListed}]
      /\ op.found \in SUBSET WorkspaceModels
      /\ op.kind \in {"sync", "enable", "test", "keyless", "add", "remove"}
  BY OperationTyped DEF CatalogInv
<1>2. PassedIn(op.base[k], k) /\ (op.kind = "test" /\ op.good => op.model \in passed)
  BY DEF PassedAreTrue
<1>. HIDE DEF op
<1>3. op.kind = "enable" => op.base[op.model] # NotListed
  BY DEF op
<1>4. CASE op.kind = "sync"
  <2>1. NewCatalog(op)[k] = Synced(op.base, op.found)[k]
    BY <1>1, <1>4, NewEntry
  <2>. QED
    BY <2>1, <1>1, <1>2, SyncedEntry DEF PassedIn, op
<1>5. CASE op.kind # "sync"
  <2>1. op.kind = "test" => op.good \in BOOLEAN
    BY <1>1 DEF Operation
  <2>2. NewCatalog(op)[k] # NotListed /\ NewCatalog(op)[k].validated
        => \/ op.base[k] # NotListed /\ op.base[k].validated
           \/ op.kind = "test" /\ op.good /\ k = op.model
    BY <1>1, <1>3, <1>5, <2>1, NewEntry
  <2>. QED
    BY <2>2, <1>2 DEF PassedIn, op
<1>. QED
  BY <1>4, <1>5

\* A step of one tab that leaves the rest vouching for what it did.
LEMMA VouchedByTab ==
  ASSUME CatalogInv, PassedAreTrue, NEW t \in CatalogTabs, passed \subseteq passed',
         \A s \in CatalogTabs \ {t} : calling'[s] = calling[s],
         \A k \in Models : PassedIn(catalog[k], k) => PassedIn(catalog[k], k)',
         \A k \in PublicModels : PassedIn(approved[k], k) => PassedIn(approved[k], k)',
         calling'[t] # NoOperation =>
           /\ \A k \in Models : PassedIn(calling[t].base[k], k)'
           /\ calling'[t].kind = "test" /\ calling'[t].good => calling'[t].model \in passed'
  PROVE  PassedAreTrue'
<1>1. \A s \in CatalogTabs \ {t}, k \in Models :
        Calling(s)' => Calling(s) /\ PassedIn(calling[s].base[k], k)'
  BY DEF PassedAreTrue, PassedIn, Calling
<1>. QED
  BY <1>1 DEF PassedAreTrue, Calling

LEMMA PassedInit == CatalogInit => PassedAreTrue
<1>. SUFFICES ASSUME NEW known \in SUBSET Models, CatalogOf(known) PROVE PassedAreTrue
  BY DEF CatalogInit
<1>1. \A k \in Models : PassedIn(catalog[k], k)
  BY DEF CatalogOf, PassedIn
<1>2. \A k \in PublicModels : PassedIn(approved[k], k)
  BY DEF CatalogOf, PassedIn
<1>3. \A t \in CatalogTabs : ~Calling(t)
  BY DEF CatalogOf, Calling
<1>. QED
  BY <1>1, <1>2, <1>3 DEF PassedAreTrue

LEMMA PassedNext == CatalogInv /\ PassedAreTrue /\ [CatalogNext]_catalogVars => PassedAreTrue'
<1>. SUFFICES ASSUME CatalogInv, PassedAreTrue, [CatalogNext]_catalogVars PROVE PassedAreTrue'
  OBVIOUS
<1>. CatalogTypeOK
  BY DEF CatalogInv
<1>1. ASSUME NEW t \in CatalogTabs, NEW kind, NEW k, NEW good, NEW found, NEW at, Begin(t, kind, k, good, found, at)
      PROVE  PassedAreTrue'
  <2>. DEFINE op == [kind |-> kind, model |-> k, good |-> good, found |-> found, at |-> at,
                     base |-> IF at = "catalog" THEN catalog ELSE Unread, flags |-> Unknown]
  <2>1. /\ calling' = [calling EXCEPT ![t] = op] /\ UNCHANGED <<catalog, approved>>
        /\ passed \subseteq passed' /\ (kind = "test" /\ good => k \in passed')
    BY <1>1 DEF Begin
  <2>2. calling'[t] = op /\ \A s \in CatalogTabs \ {t} : calling'[s] = calling[s]
    BY <2>1 DEF CatalogTypeOK
  <2>3. op.base = catalog \/ op.base = Unread
    OBVIOUS
  <2>4. \A m \in Models : PassedIn(calling[t].base[m], m)'
    BY <2>1, <2>2, <2>3 DEF PassedAreTrue, PassedIn, Unread
  <2>5. calling'[t].kind = "test" /\ calling'[t].good => calling'[t].model \in passed'
    BY <2>1, <2>2
  <2>6. /\ \A m \in Models : PassedIn(catalog[m], m) => PassedIn(catalog[m], m)'
        /\ \A m \in PublicModels : PassedIn(approved[m], m) => PassedIn(approved[m], m)'
    BY <2>1 DEF PassedIn
  <2>. HIDE DEF op
  <2>. QED
    BY <2>1, <2>2, <2>4, <2>5, <2>6, VouchedByTab
<1>2. ASSUME NEW t \in CatalogTabs, LoadCatalog(t) \/ LoadConfig(t) \/ SaveConfig(t) \/ GiveUp(t)
      PROVE  PassedAreTrue'
  <2>1. Calling(t) /\ UNCHANGED <<catalog, approved, passed>>
    BY <1>2 DEF LoadCatalog, LoadConfig, SaveConfig, GiveUp, Doing, Calling
  <2>2. calling[t] \in Operation
    BY <2>1, OperationTyped
  <2>3. \A s \in CatalogTabs \ {t} : calling'[s] = calling[s]
    BY <1>2 DEF LoadCatalog, LoadConfig, SaveConfig, GiveUp, Then, Done, CatalogTypeOK
  <2>4. calling'[t] # NoOperation =>
          /\ calling'[t].kind = calling[t].kind /\ calling'[t].model = calling[t].model
          /\ calling'[t].good = calling[t].good
          /\ calling'[t].base = calling[t].base \/ calling'[t].base = catalog
    <3>1. CASE LoadCatalog(t)
      BY <2>2, <3>1 DEF LoadCatalog, Operation, CatalogTypeOK
    <3>2. CASE LoadConfig(t)
      BY <2>2, <3>2 DEF LoadConfig, Operation, CatalogTypeOK
    <3>3. CASE SaveConfig(t) \/ GiveUp(t)
      BY <2>2, <3>3 DEF SaveConfig, GiveUp, Then, Done, Operation, CatalogTypeOK
    <3>. QED
      BY <1>2, <3>1, <3>2, <3>3
  <2>5. /\ \A m \in Models : PassedIn(catalog[m], m) => PassedIn(catalog[m], m)'
        /\ \A m \in PublicModels : PassedIn(approved[m], m) => PassedIn(approved[m], m)'
    BY <2>1 DEF PassedIn
  <2>6. calling'[t] # NoOperation =>
          /\ \A m \in Models : PassedIn(calling[t].base[m], m)'
          /\ calling'[t].kind = "test" /\ calling'[t].good => calling'[t].model \in passed'
    BY <2>1, <2>4 DEF PassedAreTrue, PassedIn
  <2>. QED
    BY <2>1, <2>3, <2>5, <2>6, VouchedByTab
<1>3. ASSUME NEW t \in CatalogTabs, SaveCatalog(t) PROVE PassedAreTrue'
  <2>1. Calling(t) /\ catalog' = NewCatalog(calling[t]) /\ UNCHANGED <<approved, passed>>
        /\ (calling[t].kind = "enable" => calling[t].base[calling[t].model] # NotListed)
    BY <1>3 DEF SaveCatalog, Doing, Calling, CatalogInv, OperationsInOrder
  <2>2. calling[t] \in Operation
    BY <2>1, OperationTyped
  <2>3. \A k \in Models : PassedIn(catalog'[k], k)
    BY <2>1, SavedWerePassed
  <2>4. \A s \in CatalogTabs \ {t} : calling'[s] = calling[s]
    BY <1>3 DEF SaveCatalog, CatalogTypeOK
  <2>5. calling'[t] # NoOperation =>
          /\ calling'[t].kind = calling[t].kind /\ calling'[t].model = calling[t].model
          /\ calling'[t].good = calling[t].good
          /\ calling'[t].base = Unread \/ calling'[t].base = catalog'
    <3>1. CASE calling[t].kind = "add"
      BY <3>1, <1>3 DEF SaveCatalog, CatalogTypeOK
    <3>2. CASE calling[t].kind # "add"
      BY <3>2, <2>2, <1>3 DEF SaveCatalog, Operation, CatalogTypeOK
    <3>. QED
      BY <3>1, <3>2
  <2>6. /\ \A m \in Models : PassedIn(catalog[m], m) => PassedIn(catalog[m], m)'
        /\ \A m \in PublicModels : PassedIn(approved[m], m) => PassedIn(approved[m], m)'
    BY <2>1, <2>3 DEF PassedIn
  <2>7. calling'[t] # NoOperation =>
          /\ \A m \in Models : PassedIn(calling[t].base[m], m)'
          /\ calling'[t].kind = "test" /\ calling'[t].good => calling'[t].model \in passed'
    BY <2>1, <2>3, <2>5 DEF PassedAreTrue, PassedIn, Unread
  <2>. QED
    BY <2>1, <2>4, <2>6, <2>7, VouchedByTab
<1>4. ASSUME NEW t \in CatalogTabs, SaveApproved(t) PROVE PassedAreTrue'
  <2>1. Calling(t) /\ UNCHANGED <<catalog, passed>>
    BY <1>4 DEF SaveApproved, Doing, Calling
  <2>2. calling[t] \in Operation /\ calling[t].good \in BOOLEAN
        /\ (calling[t].kind = "test" /\ calling[t].good => calling[t].model \in passed)
    BY <2>1, OperationTyped DEF PassedAreTrue
  <2>3. ASSUME NEW k \in PublicModels, PassedIn(approved[k], k) PROVE PassedIn(approved'[k], k)
    <3>1. approved[k] # NotListed => /\ approved[k] \in CatalogEntry
                                     /\ Stamped(approved[k], calling[t].good).validated = calling[t].good
      BY <2>2, StampedEntry DEF CatalogTypeOK
    <3>2. CASE k # calling[t].model \/ calling[t].kind \notin {"add", "remove", "test"}
      BY <3>2, <2>3, <1>4 DEF SaveApproved, CatalogTypeOK, PassedIn, CatalogInv, OperationsInOrder
    <3>3. CASE k = calling[t].model /\ calling[t].kind = "add"
      BY <3>3, <1>4, MetadataOnlyEntry DEF SaveApproved, CatalogTypeOK, PassedIn
    <3>4. CASE k = calling[t].model /\ calling[t].kind = "remove"
      BY <3>4, <1>4 DEF SaveApproved, CatalogTypeOK, PassedIn
    <3>5. CASE k = calling[t].model /\ calling[t].kind = "test"
      BY <3>1, <3>5, <2>2, <1>4 DEF SaveApproved, CatalogTypeOK, PassedIn
    <3>. QED
      BY <3>2, <3>3, <3>4, <3>5
  <2>4. \A s \in CatalogTabs \ {t} : calling'[s] = calling[s]
    BY <1>4 DEF SaveApproved, Then, Done, CatalogTypeOK
  <2>5. calling'[t] # NoOperation =>
          /\ calling'[t].kind = calling[t].kind /\ calling'[t].model = calling[t].model
          /\ calling'[t].good = calling[t].good /\ calling'[t].base = calling[t].base
    BY <1>4, <2>2 DEF SaveApproved, Then, Done, Operation, CatalogTypeOK
  <2>6. /\ \A m \in Models : PassedIn(catalog[m], m) => PassedIn(catalog[m], m)'
        /\ \A m \in PublicModels : PassedIn(approved[m], m) => PassedIn(approved[m], m)'
    BY <2>1, <2>3 DEF PassedIn
  <2>7. calling'[t] # NoOperation =>
          /\ \A m \in Models : PassedIn(calling[t].base[m], m)'
          /\ calling'[t].kind = "test" /\ calling'[t].good => calling'[t].model \in passed'
    BY <2>1, <2>5 DEF PassedAreTrue, PassedIn
  <2>. QED
    BY <2>1, <2>4, <2>6, <2>7, VouchedByTab
<1>5. CASE Rebuild
  <2>1. UNCHANGED <<approved, calling, passed>>
    BY <1>5 DEF Rebuild
  <2>2. ASSUME NEW k \in Models PROVE PassedIn(catalog'[k], k)
    <3>1. CASE k \in PublicModels /\ approved[k] # NotListed
      <4>1. catalog'[k] = Overlaid(approved[k], config[k]) /\ approved[k] \in CatalogEntry
        BY <3>1, <1>5 DEF Rebuild, CatalogTypeOK
      <4>. QED
        BY <3>1, <4>1, OverlaidEntry DEF PassedAreTrue, PassedIn
    <3>2. CASE ~(k \in PublicModels /\ approved[k] # NotListed)
      BY <3>2, <1>5 DEF Rebuild, PassedIn
    <3>. QED
      BY <3>1, <3>2
  <2>. QED
    BY <2>1, <2>2 DEF PassedAreTrue, PassedIn, Calling
<1>6. CASE UNCHANGED catalogVars
  BY <1>6 DEF catalogVars, PassedAreTrue, PassedIn, Calling
<1>. QED
  BY <1>1, <1>2, <1>3, <1>4, <1>5, <1>6 DEF CatalogNext, RefreshWorkspace, AddPublic, RemoveModel,
     TestWithoutKey, SetEnabled, TestModel

\* However syncs, tests, removals, registrations and rebuilt catalogs of any
\* number of tabs overtake each other: a model is offered only by an entry that
\* some live test has passed, and, where none of them was overtaken or given up,
\* by one whose last test passed and that the last sync found, or that a catalog
\* built again since has (get_selectable_models).
THEOREM OfferedWereTested == CatalogSpec => []OfferedIsTested
<1>1. CatalogInv /\ PassedAreTrue => OfferedIsTested
  <2>. SUFFICES ASSUME CatalogInv, PassedAreTrue, NEW k \in Models, NEW j \in Models, OfferedBy(k, j)
                PROVE  /\ j \in passed
                       /\ j \notin unsettled => lastTest[j] = "ok" /\ (j \in gone => rebuilt)
    BY DEF OfferedIsTested
  <2>1. catalog[j] # NotListed /\ catalog[j].validated /\ ~catalog[j].stale
    BY DEF OfferedBy, Judges, AnalysisReady
  <2>. QED
    BY <2>1 DEF CatalogInv, MarksAreTrue, Settled, PassedAreTrue, PassedIn
<1>. QED
  BY <1>1, CatalogInvInit, CatalogInvNext, PassedInit, PassedNext, PTL DEF CatalogSpec

\* The three files and the operations on them keep their types.
THEOREM CatalogTyped == CatalogSpec => []CatalogTypeOK
<1>1. CatalogInv => CatalogTypeOK
  BY DEF CatalogInv
<1>. QED
  BY <1>1, CatalogInvInit, CatalogInvNext, PTL DEF CatalogSpec
=============================================================================
