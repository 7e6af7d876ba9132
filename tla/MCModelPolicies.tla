--------------------------- MODULE MCModelPolicies ---------------------------
(***************************************************************************)
(* The policies alone, for the run in which a seeding overtakes a form.    *)
(***************************************************************************)
EXTENDS ModelPolicies

\* One model for everybody and without a limit.
MCSeeds == [k \in SeededModels |-> [enabled |-> TRUE, roles |-> PolicyRoles, limit |-> 0]]
=============================================================================
