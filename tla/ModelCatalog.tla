---------------------------- MODULE ModelCatalog ----------------------------
(***************************************************************************)
(* The model catalog (model_catalog.py, catalog_ui.py, model_registry.py)  *)
(* of fixed-class models: versions trained in the workspace, which a sync  *)
(* discovers, and public models, which an administrator registers.  Three  *)
(* JSON files tell what the analysis may offer: the catalog (what is known *)
(* of a model and its last test), models.json (what is enabled) and the    *)
(* approved public models.  Each operation loads, changes and replaces     *)
(* them one after the other; nothing is locked, and a sync asks the        *)
(* network in between.                                                     *)
(*                                                                         *)
(* calling[t] holds the locals of the operation that tab t is in.  The     *)
(* dynamic workflows (YOLO-World, OpenRouter) are left out: loading the    *)
(* catalog declares them ready whatever a test said.                       *)
(***************************************************************************)
EXTENDS Integers, FiniteSets

CONSTANTS
  CatalogTabs,
  WorkspaceModels, PublicModels,
  Namesakes,       \* models that are shown under one name
  NotListed,       \* no entry in a file
  NoOperation,
  MaxOperations         \* bound: operations begun

Models == WorkspaceModels \cup PublicModels

CatalogEntry == [enabled : BOOLEAN, validated : BOOLEAN, stale : BOOLEAN,
                 status : {"ready", "needs_configuration", "failed_validation",
                           "stale", "metadata_only"}]
Flags == {"on", "off", "absent"}

Operation ==
  [kind : {"sync", "enable", "test", "keyless", "add", "remove"}, model : Models,
   good : BOOLEAN, found : SUBSET WorkspaceModels,
   at : {"load", "catalog", "loadConfig", "config", "pubs"},
   base : [Models -> CatalogEntry \cup {NotListed}], flags : [Models -> Flags]]

ASSUME ModelCatalogAssumption ==
  /\ WorkspaceModels \cap PublicModels = {} /\ Models # {} /\ MaxOperations \in Nat
  /\ Namesakes \subseteq Models
  /\ NotListed \notin CatalogEntry /\ NoOperation \notin Operation

VARIABLES
  catalog,     \* model_catalog.json
  config,      \* models.json: the flag `enabled`
  approved,    \* approved_public_models.json
  calling,
  calls,
  lastTest,    \* history: the result that was last stamped into the catalog
  passed,      \* history: the models that ever passed a live test
  gone,        \* history: the models that the last recorded sync did not find
  rebuilt,     \* history: whether the catalog was built again since that sync
  unsettled    \* history: models of which a save was overtaken or given up half way

catalogVars == <<catalog, config, approved, calling, calls, lastTest,
                 passed, gone, rebuilt, unsettled>>

CatalogTypeOK ==
  /\ catalog \in [Models -> CatalogEntry \cup {NotListed}]
  /\ config \in [Models -> Flags]
  /\ approved \in [PublicModels -> CatalogEntry \cup {NotListed}]
  /\ calling \in [CatalogTabs -> Operation \cup {NoOperation}]
  /\ calls \in 0..MaxOperations
  /\ lastTest \in [Models -> {"none", "ok", "failed"}]
  /\ passed \subseteq Models /\ gone \subseteq WorkspaceModels /\ rebuilt \in BOOLEAN
  /\ unsettled \subseteq Models

\* What earlier sessions have left: models that were tested and enabled.
InUse == [enabled |-> TRUE, validated |-> TRUE, stale |-> FALSE, status |-> "ready"]

CatalogOf(known) ==
  /\ catalog = [k \in Models |-> IF k \in known THEN InUse ELSE NotListed]
  /\ config = [k \in Models |-> IF k \in known THEN "on" ELSE "absent"]
  /\ approved = [k \in PublicModels |-> IF k \in known THEN InUse ELSE NotListed]
  /\ calling = [t \in CatalogTabs |-> NoOperation]
  /\ calls = 0
  /\ lastTest = [k \in Models |-> IF k \in known THEN "ok" ELSE "none"]
  /\ passed = known /\ gone = {} /\ rebuilt = FALSE /\ unsettled = {}

CatalogInit == \E known \in SUBSET Models : CatalogOf(known)

----------------------------------------------------------------------------
(* What an operation writes, from what it has read.                        *)

\* normalize_schema_fields
Normalized(e) == [e EXCEPT !.status = IF e.stale THEN "stale" ELSE @]

\* A discovered version, and a registered public model.
MetadataOnly == [enabled |-> FALSE, validated |-> FALSE, stale |-> FALSE, status |-> "metadata_only"]

\* normalize_workspace_version with the local settings of the entry before.
Discovered(prev) ==
  IF prev = NotListed THEN MetadataOnly
  ELSE [MetadataOnly EXCEPT !.enabled = prev.enabled, !.validated = prev.validated,
                            !.status = IF prev.validated THEN "ready" ELSE @]

Missing(prev) ==
  IF prev = NotListed THEN NotListed ELSE Normalized([prev EXCEPT !.stale = TRUE])

\* models.json has the last word on what is enabled.
Overlaid(e, flag) ==
  IF e = NotListed \/ flag = "absent" THEN e ELSE [e EXCEPT !.enabled = flag = "on"]

Synced(base, found) ==
  [k \in Models |-> Overlaid(IF k \in PublicModels THEN base[k]
                             ELSE IF k \in found THEN Discovered(base[k])
                             ELSE Missing(base[k]), config[k])]

\* What a test would do that cleared the mark of the last sync.
Retested(e, ok) ==
  [e EXCEPT !.validated = ok, !.stale = FALSE,
            !.status = IF ok THEN "ready" ELSE "failed_validation"]

\* _stamp_test_result; a test that failed for a key ("keyless") stamps nothing.
Stamped(e, ok) ==
  Normalized([e EXCEPT !.validated = ok,
                       !.status = IF ok THEN "ready" ELSE "failed_validation"])

NewCatalog(op) ==
  LET k == op.model IN
  CASE op.kind = "sync"   -> Synced(op.base, op.found)
    [] op.kind = "enable" -> [op.base EXCEPT ![k].enabled = op.good]
    [] op.kind = "test"   -> IF op.base[k] = NotListed THEN op.base
                             ELSE [op.base EXCEPT ![k] = Stamped(@, op.good)]
    [] op.kind = "keyless" -> op.base
    [] op.kind = "add"    -> [op.base EXCEPT ![k] = MetadataOnly]
    [] op.kind = "remove" -> [op.base EXCEPT ![k] = NotListed]

\* _sync_models_json_from_catalog: what is stale is switched off, a version
\* that is new starts switched off, a public model follows the catalog.
SyncedFlag(k, entry, flag) ==
  IF entry = NotListed THEN flag
  ELSE IF k \in PublicModels THEN IF entry.enabled /\ ~entry.stale THEN "on" ELSE "off"
  ELSE IF entry.stale \/ flag = "absent" THEN "off" ELSE flag

\* _merge_entry_into_models_json replaces the rows of the model and of its name.
NamedLike(k) == {k} \cup IF k \in Namesakes THEN Namesakes ELSE {}

MergedFlags(k, flags) ==
  [m \in Models |->
     IF m \notin NamedLike(k) THEN flags[m]
     ELSE IF m = k /\ \E j \in NamedLike(k) : flags[j] # "absent" THEN "off" ELSE "absent"]

Switched(flag, on) == IF flag = "absent" THEN flag ELSE IF on THEN "on" ELSE "off"

NewFlags(op) ==
  LET k == op.model IN
  CASE op.kind = "sync"   -> [m \in Models |-> SyncedFlag(m, op.base[m], op.flags[m])]
    [] op.kind = "enable" -> [op.flags EXCEPT ![k] = Switched(@, op.good)]
    [] op.kind = "test"   -> IF op.good THEN [op.flags EXCEPT ![k] = Switched(@, TRUE)] ELSE op.flags
    [] op.kind = "keyless" -> op.flags
    [] op.kind = "add"    -> MergedFlags(k, op.flags)
    [] op.kind = "remove" -> [op.flags EXCEPT ![k] = IF k \in WorkspaceModels THEN Switched(@, FALSE)
                                                     ELSE "absent"]

----------------------------------------------------------------------------
(* The operations                                                          *)

Unread  == [k \in Models |-> NotListed]
Unknown == [k \in Models |-> "absent"]

Begin(t, kind, k, good, found, at) ==
  /\ calling[t] = NoOperation /\ calls < MaxOperations
  /\ calls' = calls + 1
  /\ calling' = [calling EXCEPT ![t] =
       [kind |-> kind, model |-> k, good |-> good, found |-> found, at |-> at,
        base |-> IF at = "catalog" THEN catalog ELSE Unread, flags |-> Unknown]]
  /\ passed' = IF kind = "test" /\ good THEN passed \cup {k} ELSE passed
  /\ UNCHANGED <<catalog, config, approved, lastTest, gone, rebuilt, unsettled>>

\* Refresh Workspace: the entries are loaded when the list of projects has
\* come, and saved when all of their versions have.
RefreshWorkspace(t, found) ==
  Begin(t, "sync", CHOOSE k \in Models : TRUE, TRUE, found, "catalog")

\* set_catalog_entry_enabled: a stale entry cannot be enabled.
SetEnabled(t, k, on) ==
  /\ catalog[k] # NotListed /\ (catalog[k].stale => ~on)
  /\ Begin(t, "enable", k, on, {}, "catalog")

\* Test Model: the live inference comes before the catalog is loaded.
TestModel(t, k, ok) == catalog[k] # NotListed /\ Begin(t, "test", k, ok, {}, "load")

\* Or it fails for the key of the user: skip_global_fail.
TestWithoutKey(t, k) == catalog[k] # NotListed /\ Begin(t, "keyless", k, TRUE, {}, "load")

\* add_approved_public_model: the store of public models, models.json, the catalog.
AddPublic(t, k) ==
  /\ k \in PublicModels /\ approved[k] = NotListed /\ catalog[k] = NotListed
  /\ Begin(t, "add", k, TRUE, {}, "pubs")

RemoveModel(t, k) == catalog[k] # NotListed /\ Begin(t, "remove", k, TRUE, {}, "catalog")

----------------------------------------------------------------------------
Doing(t, at) == calling[t] # NoOperation /\ calling[t].at = at

Then(t, at) == calling' = [calling EXCEPT ![t].at = at]
Done(t)     == calling' = [calling EXCEPT ![t] = NoOperation]

LoadCatalog(t) ==
  /\ Doing(t, "load")
  /\ calling' = [calling EXCEPT ![t].at = "catalog", ![t].base = catalog]
  /\ UNCHANGED <<catalog, config, approved, calls, lastTest, passed, gone, rebuilt, unsettled>>

\* The models whose new entry the operation of another tab does not see.
Overtaken(t) ==
  IF \A s \in CatalogTabs \ {t} : calling[s] = NoOperation THEN {}
  ELSE {calling[t].model} \cup {k \in Models : catalog'[k] # catalog[k]}

SaveCatalog(t) ==
  /\ Doing(t, "catalog")
  /\ LET op == calling[t] k == op.model IN
     /\ catalog' = NewCatalog(op)
     /\ lastTest' = IF op.kind = "test" /\ op.base[k] # NotListed
                    THEN [lastTest EXCEPT ![k] = IF op.good THEN "ok" ELSE "failed"] ELSE lastTest
     /\ gone' = IF op.kind = "sync" THEN WorkspaceModels \ op.found ELSE gone
     /\ rebuilt' = (rebuilt /\ op.kind # "sync")
     /\ unsettled' = unsettled \cup Overtaken(t)
     /\ calling' = IF op.kind = "add" THEN [calling EXCEPT ![t] = NoOperation]
                   ELSE [calling EXCEPT ![t].base = IF op.kind = "sync" THEN catalog' ELSE Unread,
                                        ![t].at = IF op.kind = "remove" THEN "pubs" ELSE "loadConfig"]
  /\ UNCHANGED <<config, approved, calls, passed>>

LoadConfig(t) ==
  /\ Doing(t, "loadConfig")
  /\ calling' = [calling EXCEPT ![t].at = "config", ![t].flags = config]
  /\ UNCHANGED <<catalog, config, approved, calls, lastTest, passed, gone, rebuilt, unsettled>>

SaveConfig(t) ==
  /\ Doing(t, "config")
  /\ config' = NewFlags(calling[t])
  /\ CASE calling[t].kind = "test" -> Then(t, "pubs")
       [] calling[t].kind = "add"  -> Then(t, "load")
       [] OTHER                    -> Done(t)
  /\ UNCHANGED <<catalog, approved, calls, lastTest, passed, gone, rebuilt, unsettled>>

\* The store of public models is loaded and replaced at once.
SaveApproved(t) ==
  /\ Doing(t, "pubs")
  /\ LET op == calling[t] k == op.model IN
     approved' =
       IF k \notin PublicModels THEN approved
       ELSE CASE op.kind = "add"    -> [approved EXCEPT ![k] = MetadataOnly]
              [] op.kind = "remove" -> [approved EXCEPT ![k] = NotListed]
              [] op.kind = "test"   -> IF approved[k] = NotListed THEN approved
                                       ELSE [approved EXCEPT ![k] = Stamped(@, op.good)]
  /\ IF calling[t].kind = "test" THEN Done(t) ELSE Then(t, "loadConfig")
  /\ UNCHANGED <<catalog, config, calls, lastTest, passed, gone, rebuilt, unsettled>>

\* A failing write, a restart, or a sync that another click has stopped.
GiveUp(t) ==
  /\ calling[t] # NoOperation
  /\ unsettled' = IF calling[t].at \in {"load", "catalog"} THEN unsettled
                  ELSE unsettled \cup (IF calling[t].kind = "sync" THEN Models ELSE {calling[t].model})
  /\ Done(t)
  /\ UNCHANGED <<catalog, config, approved, calls, lastTest, passed, gone, rebuilt>>

\* A catalog that is missing or unreadable is built again by the next load,
\* from the approved public models and models.json.
Rebuild ==
  /\ catalog' = [k \in Models |->
       IF k \in PublicModels /\ approved[k] # NotListed THEN Overlaid(approved[k], config[k])
       ELSE IF config[k] = "absent" THEN NotListed
       ELSE [enabled |-> config[k] = "on", validated |-> FALSE, stale |-> FALSE,
             status |-> IF config[k] = "on" THEN "ready" ELSE "needs_configuration"]]
  /\ catalog' # catalog
  /\ rebuilt' = TRUE
  /\ unsettled' = IF \E s \in CatalogTabs : calling[s] # NoOperation THEN Models ELSE unsettled
  /\ UNCHANGED <<config, approved, calling, calls, lastTest, passed, gone>>

CatalogNext ==
  \/ \E t \in CatalogTabs :
       \/ \E found \in SUBSET WorkspaceModels : RefreshWorkspace(t, found)
       \/ \E k \in Models : AddPublic(t, k) \/ RemoveModel(t, k) \/ TestWithoutKey(t, k)
       \/ \E k \in Models, b \in BOOLEAN : SetEnabled(t, k, b) \/ TestModel(t, k, b)
       \/ LoadCatalog(t) \/ SaveCatalog(t) \/ LoadConfig(t) \/ SaveConfig(t)
       \/ SaveApproved(t) \/ GiveUp(t)
  \/ Rebuild

CatalogSpec == CatalogInit /\ [][CatalogNext]_catalogVars

----------------------------------------------------------------------------
\* get_selectable_models: a row of models.json is judged by the entry of its key
\* or, for want of one, by an entry of its name (_entry_is_analysis_ready).
\* Which of several is the last of the catalog is left open.
Judges(k) ==
  IF catalog[k] # NotListed THEN {k} ELSE {j \in NamedLike(k) : catalog[j] # NotListed}

AnalysisReady(j) == ~catalog[j].stale /\ catalog[j].validated /\ catalog[j].status = "ready"

OfferedBy(k, j) == config[k] = "on" /\ j \in Judges(k) /\ AnalysisReady(j)

\* However syncs, tests, removals, registrations and rebuilt catalogs of several
\* tabs overtake each other or are given up half way, a model is offered only by
\* an entry that some live test has passed.  Where none of them was overtaken or
\* given up, the last result stamped into that entry is a pass, and the last sync
\* has found the model, unless the catalog was built again since.  Otherwise it
\* need not be: a sync that loaded the catalog before a test failed, and saves it
\* after, brings the pass of before back (_stamp_test_result,
\* sync_workspace_models, load_catalog_entries).
OfferedIsTested ==
  \A k \in Models, j \in Models :
    OfferedBy(k, j) =>
      /\ j \in passed
      /\ j \notin unsettled => lastTest[j] = "ok" /\ (j \in gone => rebuilt)
=============================================================================
