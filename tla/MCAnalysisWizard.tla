-------------------------- MODULE MCAnalysisWizard --------------------------
(* Small instances of AnalysisWizard. *)
EXTENDS AnalysisWizard, TLC

Symmetry == Permutations(Photos) \cup Permutations(Models) \cup Permutations(Setups)
=============================================================================
