---------------------------- MODULE ModelPolicies ----------------------------
(***************************************************************************)
(* The policies that say who may run a model (model_access.py, the policy  *)
(* half of user_store.py, _render_model_access).  Every run of the script  *)
(* seeds the policies that are missing, before anybody is asked to sign    *)
(* in; an administrator saves the form of one that is there.  Both go      *)
(* through upsert_model_policy, which reads the row, merges what it was    *)
(* not given into it, and writes every column in a second transaction.     *)
(*                                                                         *)
(* policyJob[t] holds the locals of the seeding or the save tab t is in.   *)
(***************************************************************************)
EXTENDS Naturals

CONSTANTS
  PolicyTabs,
  SeededModels,   \* the model keys of DEFAULT_POLICY_SEEDS, in whichever order
  Seeds,          \* Seeds[k]: the seed of k
  NoPolicy, NoPolicyJob,
  PolicyRoles,
  MaxLimit,       \* bound: daily limits an administrator enters
  MaxPolicySaves  \* bound: forms submitted

\* A limit of 0 is the None of the code: unlimited, and not given in a seed.
\* The form refuses a policy for no role at all.
Policy == [enabled : BOOLEAN, roles : (SUBSET PolicyRoles) \ {{}}, limit : 0..MaxLimit]
PolicyJob == [doing : {"seed", "save"}, at : {"read", "write"}, left : SUBSET SeededModels,
              key : SeededModels, values : Policy]

ASSUME PolicyAssumption ==
  /\ MaxLimit \in Nat /\ MaxPolicySaves \in Nat
  /\ Seeds \in [SeededModels -> Policy]
  /\ NoPolicy \notin Policy /\ NoPolicyJob \notin PolicyJob

VARIABLES
  policy,       \* policy[k]: the row of model_access_policies
  policyJob,
  submitted,    \* forms submitted so far
  edited,       \* history: the form of k that was written last
  limits,       \* history: the limits that forms have written for k
  contested     \* history: keys written by a form while a seeding had them before it

policyVars == <<policy, policyJob, submitted, edited, limits, contested>>

PolicyTypeOK ==
  /\ policy \in [SeededModels -> Policy \cup {NoPolicy}]
  /\ policyJob \in [PolicyTabs -> PolicyJob \cup {NoPolicyJob}]
  /\ submitted \in 0..MaxPolicySaves
  /\ edited \in [SeededModels -> Policy \cup {NoPolicy}]
  /\ limits \in [SeededModels -> SUBSET (0..MaxLimit)]
  /\ contested \subseteq SeededModels

PolicyInit ==
  /\ policy = [k \in SeededModels |-> NoPolicy]
  /\ policyJob = [t \in PolicyTabs |-> NoPolicyJob]
  /\ submitted = 0
  /\ edited = [k \in SeededModels |-> NoPolicy]
  /\ limits = [k \in SeededModels |-> {}]
  /\ contested = {}

----------------------------------------------------------------------------
PolicyStep(t, doing, at) ==
  policyJob[t] # NoPolicyJob /\ policyJob[t].doing = doing /\ policyJob[t].at = at

\* No row yet: ModelAccessPolicy(model_key=key).
BaseLimit(k) == IF policy[k] = NoPolicy THEN 0 ELSE policy[k].limit

\* The keys that ensure_default_policies does not pass over.
AllSeeds == SeededModels
Unseeded == {k \in SeededModels : policy[k] = NoPolicy}

\* ensure_default_policies: the keys are read once, in a transaction of
\* their own; where none is missing the run goes on without a write.
BeginSeeding(t) ==
  /\ policyJob[t] = NoPolicyJob
  /\ \E k \in Unseeded :
       policyJob' = [policyJob EXCEPT ![t] =
         [doing |-> "seed", at |-> "read", left |-> Unseeded, key |-> k, values |-> Seeds[k]]]
  /\ UNCHANGED <<policy, submitted, edited, limits, contested>>

\* A seed without a limit keeps the one that it finds.
Merge(t) ==
  /\ PolicyStep(t, "seed", "read")
  /\ policyJob' = [policyJob EXCEPT ![t].at = "write",
       ![t].values.limit = IF @ = 0 THEN BaseLimit(policyJob[t].key) ELSE @]
  /\ UNCHANGED <<policy, submitted, edited, limits, contested>>

WriteSeed(t) ==
  /\ PolicyStep(t, "seed", "write")
  /\ LET key == policyJob[t].key left == policyJob[t].left \ {key} IN
     /\ policy' = [policy EXCEPT ![key] = policyJob[t].values]
     /\ IF left = {} THEN policyJob' = [policyJob EXCEPT ![t] = NoPolicyJob]
        ELSE \E k \in left :
               policyJob' = [policyJob EXCEPT ![t] =
                 [doing |-> "seed", at |-> "read", left |-> left, key |-> k, values |-> Seeds[k]]]
  /\ UNCHANGED <<submitted, edited, limits, contested>>

\* Save policy: the form shows a row, and gives every field of it.
SubmitForm(t, k, values) ==
  /\ policyJob[t] = NoPolicyJob /\ policy[k] # NoPolicy /\ submitted < MaxPolicySaves
  /\ submitted' = submitted + 1
  /\ policyJob' = [policyJob EXCEPT ![t] =
       [doing |-> "save", at |-> "read", left |-> {k}, key |-> k, values |-> values]]
  /\ UNCHANGED <<policy, edited, limits, contested>>

\* The row is read here as well, and none of it is used.
ReadForForm(t) ==
  /\ PolicyStep(t, "save", "read")
  /\ policyJob' = [policyJob EXCEPT ![t].at = "write"]
  /\ UNCHANGED <<policy, submitted, edited, limits, contested>>

Seeding(k) ==
  \E t \in PolicyTabs : /\ policyJob[t] # NoPolicyJob /\ policyJob[t].doing = "seed"
                        /\ k \in policyJob[t].left

WriteForm(t) ==
  /\ PolicyStep(t, "save", "write")
  /\ LET key == policyJob[t].key IN
     /\ policy' = [policy EXCEPT ![key] = policyJob[t].values]
     /\ edited' = [edited EXCEPT ![key] = policyJob[t].values]
     /\ limits' = [limits EXCEPT ![key] = @ \cup {policyJob[t].values.limit}]
     /\ contested' = IF Seeding(key) THEN contested \cup {key} ELSE contested
  /\ policyJob' = [policyJob EXCEPT ![t] = NoPolicyJob]
  /\ UNCHANGED submitted

\* A DatabaseError, which main passes over, or the end of the process.
GiveUpPolicy(t) ==
  /\ policyJob[t] # NoPolicyJob
  /\ policyJob' = [policyJob EXCEPT ![t] = NoPolicyJob]
  /\ UNCHANGED <<policy, submitted, edited, limits, contested>>

----------------------------------------------------------------------------
PolicyNext ==
  \E t \in PolicyTabs :
    \/ BeginSeeding(t) \/ Merge(t) \/ WriteSeed(t)
    \/ \E k \in SeededModels, values \in Policy : SubmitForm(t, k, values)
    \/ ReadForForm(t) \/ WriteForm(t) \/ GiveUpPolicy(t)

PolicySpec == PolicyInit /\ [][PolicyNext]_policyVars

----------------------------------------------------------------------------
\* A row that a seeding wrote: all of the seed, but for a limit that the seed
\* does not give.  That one is whatever a form had left.
OfSeed(row, k) ==
  /\ row.enabled = Seeds[k].enabled /\ row.roles = Seeds[k].roles
  /\ row.limit \in IF Seeds[k].limit # 0 THEN {Seeds[k].limit} ELSE {0} \cup limits[k]

\* Whatever tabs seed, fail, seed again and save at once, a policy is missing
\* only while nobody saved one; otherwise it is the form that was saved last,
\* whole, or a seed.  A seed takes the place of a form only where a seeding that
\* had read the table before the row was there was still at work as the form was
\* saved, and never later (ensure_default_policies, upsert_model_policy).
FormOrSeed ==
  \A k \in SeededModels :
    \/ policy[k] = edited[k]
    \/ /\ policy[k] # NoPolicy /\ OfSeed(policy[k], k)
       /\ (edited[k] # NoPolicy => k \in contested)

\* "Create the seed policies once; never overwrite administrator edits" (the
\* docstring of ensure_default_policies, model_access.py:85).  The keys are read
\* before the first write: what is saved between the two is overwritten.
EditsOutliveSeeding ==
  \A k \in SeededModels : edited[k] # NoPolicy => policy[k] = edited[k]
=============================================================================
