---------------------------- MODULE MCComponents ----------------------------
(***************************************************************************)
(* Small instances of the components that share no variable, checked in one  *)
(* run.  part says which of them this behaviour is about: the others keep a  *)
(* fixed initial state, so the states of the instances add up instead of     *)
(* multiplying, and each property is checked in every state of its own part. *)
(***************************************************************************)
EXTENDS ResetRequests, Migrations, SessionLifetime, BenchmarkStore, BatchRuns, ModelCatalog,
        SampleLibrary, DetectionRun, OpenRouter, ShapeRuns, ModelPolicies, TLC

VARIABLE part
componentsVars ==
  <<part, resetVars, migrationVars, lifetimeVars, storeVars, batchVars, catalogVars, sampleVars,
    detectionVars, openRouterVars, shapeVars, policyVars>>
Parts == {"resets", "migrations", "lifetime", "store", "batch", "catalog", "samples", "detection",
          "openrouter", "shapes", "policies"}

\* Two items side by side, cut by the tiles; two that overlap a little; and one that
\* the second model may not report.
Item(l, r) == [l |-> l, r |-> r, cls |-> "pallet"]
MCLayouts == {{Item(9, 12), Item(14, 19)}, {Item(6, 10), Item(9, 12)},
              {Item(6, 10), [Item(9, 12) EXCEPT !.cls = "person"]}}
MCDetectors == <<"m1", "m2">>
MCClasses == [m \in {"m1", "m2"} |-> IF m = "m1" THEN {} ELSE {"pallet"}]

\* One model for everybody and without a limit, one that is off and limited.
MCSeeds == [k \in SeededModels |->
              [enabled |-> k \in WorkspaceModels, roles |-> PolicyRoles,
               limit |-> IF k \in WorkspaceModels THEN 0 ELSE 1]]

MCSymmetry == Permutations(BenchPhotos) \cup Permutations(PromptSets)

\* A fixed state for the components whose initial state is not the only one.
DatabaseAtRest == DatabaseOfRelease(0, [o \in Owners |-> NoRow])
DetectionAtRest ==
  /\ photo = [items |-> {}, scale |-> 1] /\ turn = 1 /\ asked = Nothing /\ results = <<>> /\ agreed = <<>>
  /\ setup = [mode |-> "whole", kind |-> "direct", strategy |-> "none"]
OpenRouterAtRest ==
  /\ honoured = {} /\ secret = NoKey /\ keyTab = [t \in KeyTabs |-> FreshTab]
  /\ proven = {} /\ refused = [t \in KeyTabs |-> {}] /\ unflagged = [t \in KeyTabs |-> {}]

ComponentsInit ==
  /\ part \in Parts
  /\ ResetInit /\ LifetimeInit /\ SampleInit /\ ShapeInit /\ PolicyInit
  /\ IF part = "migrations" THEN MigrationsInit ELSE DatabaseAtRest
  /\ IF part = "store" THEN StoreInit ELSE StoreOf({}, [t \in Savers |-> CHOOSE v \in Viewers : TRUE])
  /\ IF part = "batch" THEN BatchInit ELSE BatchFrom([k \in CacheKeys |-> Failure])
  /\ IF part = "catalog" THEN CatalogInit ELSE CatalogOf({})
  /\ IF part = "detection" THEN DetectionInit ELSE DetectionAtRest
  /\ IF part = "openrouter" THEN OpenRouterInit ELSE OpenRouterAtRest

ComponentsNext ==
  /\ UNCHANGED part
  /\ IF part = "resets" THEN ResetNext ELSE UNCHANGED resetVars
  /\ IF part = "migrations" THEN MigrationsNext ELSE UNCHANGED migrationVars
  /\ IF part = "lifetime" THEN LifetimeNext ELSE UNCHANGED lifetimeVars
  /\ IF part = "store" THEN StoreNext ELSE UNCHANGED storeVars
  /\ IF part = "batch" THEN BatchNext ELSE UNCHANGED batchVars
  /\ IF part = "catalog" THEN CatalogNext ELSE UNCHANGED catalogVars
  /\ IF part = "samples" THEN SampleNext ELSE UNCHANGED sampleVars
  /\ IF part = "detection" THEN DetectionNext ELSE UNCHANGED detectionVars
  /\ IF part = "openrouter" THEN OpenRouterNext ELSE UNCHANGED openRouterVars
  /\ IF part = "shapes" THEN ShapeNext ELSE UNCHANGED shapeVars
  /\ IF part = "policies" THEN PolicyNext ELSE UNCHANGED policyVars
ComponentsSpec == ComponentsInit /\ [][ComponentsNext]_componentsVars

\* Every component keeps its types.
ComponentsTypeOK ==
  /\ part \in Parts
  /\ CASE part = "resets" -> ResetTypeOK
       [] part = "migrations" -> MigrationsTypeOK
       [] part = "lifetime" -> LifetimeTypeOK
       [] part = "store" -> StoreTypeOK
       [] part = "batch" -> BatchTypeOK
       [] part = "catalog" -> CatalogTypeOK
       [] part = "samples" -> SampleTypeOK
       [] part = "detection" -> DetectionTypeOK
       [] part = "openrouter" -> OpenRouterTypeOK
       [] part = "shapes" -> ShapeTypeOK
       [] part = "policies" -> PolicyTypeOK
=============================================================================
