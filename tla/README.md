# AI Inventory Counter: verification project

TLA+ models of the AI Inventory Counter, the runs that model-check them with
TLC, and theorems about them that TLAPS checks. Paths are relative to the
repository; `app.py:4029` is line 4029 of `src/app.py`.

The program is a Streamlit application. Every browser tab has a script thread
that runs `main()` from the top for each interaction; tabs share one SQLite
database and some files. There is no other concurrency, but this much is
enough for most of what is hard here:

- a function of `user_store.py` is *several* transactions, and another tab's
  thread runs between them;
- a click while the script runs *stops* it, at its next access to
  `st.session_state`, wherever that is;
- what a page shows was read in an earlier run of the script.

## 1. Inventory

| Component | State | Operations | Hard behaviour | What makes it correct |
|---|---|---|---|---|
| Accounts (`user_store.py`, `security.py`) | table `users` | create, sign up, bootstrap, approve, reject, role, activate, deactivate, delete, set password, unlock, verify credentials | check and write in different transactions; failure counter written from an earlier read | a call of several transactions comes to one operation on the accounts as they are; the last administrator stays, status and `is_active` agree, a call reaches the account it was meant for |
| Sessions (`auth.py`, `auth_session.py`, `auth_ui.py`, `admin_console.py`, `main` in `app.py`) | `auth_user` and the page of each tab | gate of every rerun, sign in and out, forced change, own password, console | session data older than the table; stopped handlers | a session is about the account it signed in to, never a pending one; a reset ends sessions; the table never lacks an administrator |
| Analysis wizard (`app.py`, `ui_helpers.py`) | some thirty fields of `st.session_state`, the locals of a running analysis, `inventory_counts` | setup, photos, model choice, analysis, review, edits, save, reset | stops between any two writes; results, edits, flags and cache that have to agree | an analysis is recorded at most once, with its own edits; flags tell the truth; an analysis ends |
| Daily limits (`model_access.py`, `user_model_usage`) | run counters | evaluate, register | read once before a long analysis, several tabs, stops between call and count | no call counted twice, none lost but to a stop, the limit exceeded by less than one analysis |
| Password reset requests (`user_store.py` 894-1021, `admin_console.py` 423-528) | table of requests | request, authorise, reject | password set and request resolved separately | the password shown opens the account whose name the request shows |
| Model policies (`model_access.py`, `user_store.py` 650-815) | table of policies | seed, merge-and-write, evaluate | seeding at every rerun races with an edit | a policy is the last form or a seed; an edit is lost to no seeding that began after it |
| Session lifetime (`auth.py` 237-270) | two timestamps | check, touch | order of check and touch, clocks | an idle session ends, an active one does not before its time |
| Database and migrations (`database.py`) | schema version, tables, backup | migrate | processes that start together, failure in the middle | the schema is what its version says; an upgrade changes nobody's status twice |
| Benchmarks (`benchmark.py`, `benchmark_ui.py`, `benchmark_batch_ui.py`) | JSON files, run cache, batch sessions | run, save, load, compare | load-append-replace, a stop in the middle of a batch | an entry is lost only to a save that could not see it; histories are their owner's; the matrix adds up for whatever names, cached runs are honest, the recommendation is best |
| Overlap (`overlap.py`) | none | NMS, NMM, conservative deduplication, consensus clusters | ties, chains of overlaps, cut items | each item counted once |
| Review (`review_navigation.py`, `schemas.py`) | edits | filter, step, toggle, count | edits of another result | the count is what is shown |
| Detector and adapters (`detector.py`, `model_adapters.py`, `picket_counter.py`) | none kept | predict, tile, parse | timeouts, fallbacks, odd answers | a success rests on every request that was sent |
| OpenRouter (`openrouter*.py`) | deployment key, one flag and one running script per tab | save, verify, remove, analyse, test | the key is refused in the middle of a run, replaced by another administrator, a click before the refusal is flagged | a flagged tab stays silent, what is sent was verified |
| Catalog (`model_catalog.py`, `model_registry.py`) | three JSON files | sync, enable, test, register, remove, rebuild | three files replaced one after the other, several tabs | only models that passed a live test are offered, by an entry that says so |
| Samples (`admin_samples.py`, `sample_images.py`) | files and rows | add, update, delete, list | crash between file and row | a row has its file |
| Shape detection (`shape_*.py`) | the page, its cache, saved tests with their items and images | set up, detect, review, save, open | a result object that the cache could share, file before rows | the cache stays unreviewed, a saved test is its review, whole or not at all |
| Photos, profiles, configuration, pages, scripts | | | mostly data and layout | |

They interact as follows. `main` calls the session gate before anything else;
the gate reads accounts. Console and login page call the accounts. The wizard
asks `model_access` which models may be used, calls the adapters, counts the
runs, and inserts the record with the signed-in user's id. Everything persistent
goes through `database._connect`.

`PROJECT.json` lists every component with its status and every hazard with the
properties that watch it, or the reason why none does.

## 2. Plan

| Order | Module | What it models | Proofs |
|---|---|---|---|
| 1 | `AccountRegistry` | abstract: who may use the program, one step for each operation | `UserStoreProofs` |
| 1 | `UserStore` | the accounts table and its multi-transaction calls; implements `AccountRegistry` | `UserStoreProofs` |
| 2 | `Sessions` (EXTENDS `UserStore`) | tabs, gate, login page, console; implements `UserStore`'s `Spec` | `SessionsProofs` |
| 3 | `InventoryLedger` | abstract: what the wizard promises about the history | `AnalysisWizardProofs` |
| 4 | `AnalysisWizard` | one tab's wizard; implements `InventoryLedger` | `AnalysisWizardProofs` |
| 5 | `ResetRequests`, `Migrations`, `SessionLifetime`, `ModelPolicies` | who gets in, and to what | `AccessProofs` |
| 6 | `BenchmarkStore`, `SampleLibrary`, `ModelCatalog` | files and rows under several writers, failures and restarts | `BenchmarkProofs`, `PictureProofs`, `ProviderProofs` |
| 7 | `Tiling`, `Overlap`, `DetectionRun` | a photo through the models to a count | `PictureProofs` |
| 8 | `BatchRuns` (over `BenchmarkMetrics`), `OpenRouter`, `ShapeRuns` | the remaining state machines | `BenchmarkProofs`, `ProviderProofs`, `PictureProofs` |

The modules of 5 to 8 share no variable. `MCComponents` puts them side by side:
its variable `part` picks one of them for a whole behaviour and the others stay
where they are, so that their states add up and one run checks them all.
`CountingLemmas` holds the facts about finite sets, sums, sequences and recursive
functions that several proofs need. What could come next is the `review_state` of
the wizard and the dynamic workflows of the catalog. No module uses a RECURSIVE
operator: loops are recursive functions over the numbers of their steps, with the
step itself as an operator of its own, and sums are counted in sets.

## 3. The modules

### `AccountRegistry` and `UserStore`

`AccountRegistry` is abstract: an account has a name, a role and one of three states;
`Open`, `Appoint`, `Activate`, `Deactivate` and `Delete` are one step each, decided on
the accounts as they are, and none takes the last active administrator away
(`Dispensable`). `UserStore` is the code.

`users` is the table, `nextId` the AUTOINCREMENT counter, `job[c]` the local
variables of the call that client `c` is in. Each `with _connect()` block is one
action; `job[c].at` names the next one:

| step | code |
|---|---|
| `lookup` | read the target: `get_user_by_id`, `get_user_by_username` |
| `count` | `count_active_admins(exclude_user_id=...)` |
| `write` | the `UPDATE`, `DELETE` or `INSERT`, computed from what was read |
| `hash`, `fail`, `grant` | `verify_credentials`: hash check, failure, success |
| `reread` | the row that the call returns |

So `demote`, `deactivate` and `delete` are `ReadTarget`, `CountOthers` and a
write; `login` is `ReadForLogin`, `CheckHash`, `WriteFailure` or `WriteSuccess`,
`Reread`. A password stands for the hash it verifies; `locked` for a
`locked_until` in the future, which `LockExpires` ends; profile fields, audit
events and timestamps are left out. `Operators` are the clients that run
administrator operations; `SingleOperator` says that there is at most one.

`Registered(row)` is what the registry sees of a row: name and role, and as the state
`account_status`, as long as `is_active` says the same (`StatusAgrees`); a row whose two
columns disagree is in a state the registry does not have. Under this mapping reads and
counts are stutters, an insert is `Open`, and the write of an operation is the operation.

### `Sessions`

`sess[c]` is `auth_user` of tab `c`, `page[c]` how far the current run of the
script is: `browser` (waiting for the user), `gate` and `seed`
(`bootstrap_admin_if_needed`), `login`, `force`, `app`. `Enforce` and `Refuse`
are `auth_session.enforce_session`; `Refuse` stands for every reason to be
signed out, the time limits included, and is therefore always possible.
Operations of the store are called from the page that draws their button, with
the console's own restrictions. `Stopped` is a click that stops the script
after the transactions and before `auth_user` is updated.

`Renewing(c)` says that a call has read a `session_version` and will write it back;
`Vouching(c)`, that a sign-in or an own change has checked a password and will
read a row again for `auth_user` (`Reread`). `RenewalsApart` keeps a renewal of an
account from overlapping another one or a call that vouches for it, and
`ResetsAreFinal` is what a reset is worth then: it puts the sessions `Behind`,
versions go `Onwards`, and a session is good again (`TakenOver`) only by a call whose
own password is the account's. `MCSessions` carries the history `apart`, so that
`FinalWhileApart` says this of every behaviour up to the first overlap.

### `InventoryLedger` and `AnalysisWizard`

`InventoryLedger` is abstract: analyses are numbered, `current` is the one open
for review, `recorded` the history. An analysis is recorded only while it is
open, and only once.

`AnalysisWizard` is the code. `ss` holds the fields of `st.session_state`, `run`
the locals of `_execute_analysis_run`, `history` the inserted rows.

| Model | Code |
|---|---|
| `ss.stage`, `status`, `save`, `running`, `executing` | `wizard_stage`, `analysis_status`, `save_status`, `analyze_running`, `_analysis_executing` |
| `ss.results` | `analysis_results` with the parts of `analysis_meta` a property needs; `run` numbers it |
| `ss.edits` | `review_edits`: the analysis they were made on, 0 when there are none |
| `ss.accepted`, `active`, `viewModel` | `accepted_result_key`, `review_active_image`, `review_active_model` |
| `ss.form`, `ctx`, `photos`, `cache` | `form`, `run_context`, `uploaded_images`, `inference_cache` |
| `Handle(t, order)` | a button's handler: writes the fields in this order, `navigate_to`, next run of the script |
| `Rerun`, `Redirected`, `Aimed` | what that run does before it waits: `_render_wizard`, the start of `stage_review` |
| `Start`, `TakeCached`, `SkipPhoto`, `Predict`, `Register`, `Store`, `Finish` | `stage_running` and `_execute_analysis_run`, step by step |
| `Nudge` | a click that only stops the script; also an exception of an adapter and the click after it |
| `OtherTab` | the same user runs a model elsewhere |

A handler that is stopped has written a prefix of its fields; `Written` is that
prefix. A stopped analysis goes through the `finally` of `stage_running`
(`Released`), which is stopped again at any of its two writes.

There is no way back into the wizard from another page except Get Started, which
resets it, so leaving it needs no action of its own. A record that cannot be
inserted leaves everything as it was, and is not an action either.

Not in `AnalysisWizard`: `review_state` (false positives, missed items, direct
count), the reviewed count itself, consensus, demo samples as an entry, photos
that share a file name, more than one UTC day. Which models may be compared is
abstracted to any choice of at most three, in any order.

`Among(seq, S)` is what is left of a list, in its order; `NoRun` is an analysis
that does not exist. `Written`, `Reached`, `Stopped`, `Handle` and `Nudge` model Streamlit's script
runner, which is not in the repository, as the code relies on it.

### `ResetRequests`, `Migrations`, `SessionLifetime`, `ModelPolicies`

`ResetRequests`: `resetJob[c]` is the call of a tab between its transactions.
Authorising is `FindById` or `FindByName`, `LookUpAccount`, `SetTemporary`,
`CheckPending`, `AnswerRequest`, `ShowTemporary`; `Abandon` gives up between any
two. Accounts are created, deleted (ids are never reused), approved, and change
their password in between.

`Migrations`: `built` is the schema that exists, `recorded` what
`schema_migrations` says; `upgrade[p]` is a thread in `apply_migrations`, with
the list it read. The transaction rolls back as a whole (`RollBack`), also when
the process ends. `people` is kept because migration 8 classifies accounts.

`SessionLifetime`: a clock and the two timestamps in `st.session_state`. Sign-in,
gate, change of password, sign-out and wipe write them field by field
and are stopped between writes (`PassStopped`, `WipeStopped`). `session` is what
an observer knows of the session: its start, its last activity.

`ModelPolicies`: `policyJob[t]` is a seeding or a form in `upsert_model_policy`,
between its read and its write; `left` are the seeds a seeding still has before
it. `GiveUpPolicy` is a database error or the end of the process: a seeding that
failed half way is taken up by the next run of any tab. `contested` are the policies
that were saved while a seeding had them before it. They may be overwritten, which the
run `policy_seeding` shows; `FormOrSeed` says what holds of them too: the row is the
last form or the seed (which keeps a limit that it finds when it has none itself), and
for any other policy that was saved it is the form.

### `BenchmarkStore`, `BatchRuns`, `BenchmarkMetrics`

`BenchmarkStore` is the two JSON files under several tabs: `saving[t]` holds the
list a save has loaded (`Load`, or `LoadNothing` for a file that cannot be read)
until `Replace`. A failed write leaves the file `Untouched`, because of the
temporary file. A batch goes on with one row for each run (`BatchRow`).

`BatchRuns` is the loop of one tab: `batch` are the locals of
`execute_batch_runs`, which reach `runCache`, `opened` and `sessions` only at
the end (`KeepCache`, `SaveSession`, `ShowSession`); `StopBatch` is any click
before that. Names of prompt sets are free text: those of `alike` have one name
(`NameOf`), and the cells select runs by name, as the code does. `BenchmarkMetrics` has
the arithmetic; a rate is a pair of whole numbers, with denominator 0 for the code's `None`.

### `ModelCatalog`, `SampleLibrary`

Both follow what is persistent through failures (`GiveUp`, `TaskStops`).
In `ModelCatalog` `calling[t]` is an operation with the entries it loaded;
`Overlaid`, `Synced` and `Stamped` are what a sync and a test do to an entry; a test
that fails for the user's key (`TestWithoutKey`) stamps nothing. `OfferedBy(k, j)` is
`get_selectable_models`: the row of model `k` is judged by its own entry or, for want of
one, by entry `j` of the same name (`NamedLike`, `Judges`). Four histories say what the
files should: the last result stamped, the models that ever passed (`passed`), those
the last sync did not find (`gone`) and whether the catalog was `rebuilt` since.
`unsettled` are the models whose save was overtaken or given up. In `SampleLibrary` `disk[s]` is
the file (nothing, a temporary one, or whole), `samples[s]` the row, and
a gallery may still show cards that are gone.

### `Tiling`, `Overlap`, `DetectionRun`

A photo is one row of items, so that a box is an interval and IoU, IoS and
distances are ratios of whole numbers, compared by multiplying out. `Todo` are
the requests of the plan (whole photo, tiles, both), `asked` what
`run_inference_on_prepared_image` has gathered: detections in the
photo's coordinates (`Placed`), calls, failures, the cap; a model with allowed
classes loses the others (`ClassesOf`, `Passes`). `AskDirect`,
`AskDynamic` and `AskPublished` are the three kinds of models with their odd
answers; `Conclude` is the adapter's verdict and `TakeConsensus` the consensus.

The loops of `overlap.py` and `create_tiles` go step by step, each step an operator
named for what it does: `KeepBest` (NMS meets the next detection), `Taking` and
`AddCluster` (the next one joins the cluster; the next seed opens one), `LinkedTo`
(the cluster of the consensus takes in its neighbours), `Enlarged` (a tile grows).

### `OpenRouter`, `ShapeRuns`

`OpenRouter`: one `secret` for all tabs, `keyTab[t]` a tab's flag and the script it is
in; the provider may `Withdraw` a key at any time, and an answer that reads like a 401
or 403 may refuse an honoured one. A run makes its detector at the start and asks for
the key again for every photo. The refusal (`PhotoAnswered`, `TestAnswered`) and the
flag (`MarkRejected`) are steps of their own, because `mark_session_key_rejected` writes
to `st.session_state`, where a click may stop the script (`Stopped`); `unflagged`
remembers the refusals this happened to.

`ShapeRuns`: every click runs Setup first (`AfterSetup`), then its own handler.
A result is an object (`object`): a detection makes two, the page's and a copy for the
cache (`Copied`, the code's `deepcopy`), a hit makes a copy, and a review writes into
every result that is the page's object (`PageReviewed`). Without the copy the cache
would share it. A save goes write by write: `BeginSave`, `WriteFile`, `InsertRun`,
`InsertItem` for each row, `CommitSave`; the rows wait in the open transaction
(`savingTest.rows`) until then. `SaveFails` rolls it back and `ProcessStops` loses it
with the session, after any of them; a file that was written stays.

## 4. The runs

| Run | Shows | Result |
|---|---|---|
| `sessions` | two tabs, one of them the administrator's, that call every operation of the store: it implements the registry; no call acts on a recycled account; sessions belong to their account, never to a pending one; the last administrator stays, also over the bootstrap; a change or reset is final as long as no renewal of an account overlaps another one or a sign-in | holds |
| `two_admins` | two administrators demote each other | `LastAdminStays` violated |
| `reject_race` | one administrator approves a sign-up between the look-up and the DELETE of another one's rejection | `RejectsOnlyPending` violated |
| `lockout` | two sign-ins miss at once | `EveryMissCounts` violated |
| `stale_reset` | a change of password against a reset | `ResetEndsSessions` violated |
| `wizard` | one tab with clicks that stop the script, and a limited model: implements the ledger, edits belong to the results, "Saved successfully" is about these results, charges follow the runs but for one per stop, the limit is exceeded by less than one analysis, and an analysis that has begun ends | holds |
| `wizard_calm` | without stops, two models, two inventory types: flags, and the review shows what is staged | holds |
| `quota` | two photos, a limit of one | `QuotaKept` violated |
| `chosen_result` | Use This Result, another photo, back, save | `ChoiceIsSaved` violated |
| `components` | the eleven components of `MCComponents`, one per behaviour: one to three properties each | holds |
| `policy_seeding` | a policy is saved while a seeding that read the table before is at work | `EditsOutliveSeeding` violated |
| `shape_result` | detect on an uploaded picture, click again | `ResultUntilNewImage` violated |

The eight violations are the places where the code and its own documents
disagree; `PROJECT.json` quotes the line for each under `findings`.

Observed besides, without a document that says otherwise: with a daily limit,
`ReviewedAsStaged` does not hold. When another tab uses up the limit between Run
Analysis and the start, the status stays `running`; the user can go back, choose
another inventory type and another model, and Go to Running then starts the
analysis with the `run_context` of the first click. `model_access.note_quota_block`,
which would write the `policy.quota.blocked` event the administrator guide
promises, is never called.

`ShownPasswordWorks` is about a single administrator who answers requests. With two,
both may pass `SetTemporary` before either reaches `CheckPending`: the one who comes
second is told that the request is already resolved, but that one's password is the
one stored if it was set last, and the one shown does not work.

Three more behaviours were met that a stronger property would refuse, and that no
document excludes in so many words. The property that is checked says where each of
them begins:

- `MatrixAddsUp`, `NothingBetter`: two prompt sets of one name share their cells.
  `parse_named_prompt_sets` (`benchmark.py:796`) takes any name twice,
  `aggregate_prompt_threshold` (`benchmark.py:1164`) selects the runs by name, and both
  sets then show the sums of both. What is checked is that the cells add up all the same.
- `OfferedIsTested`: a sync that loaded the catalog before a test failed and saves it
  after (`model_catalog.py:1255`, `1491`) brings the pass of before back, and the model is
  offered although its last test failed. So the last result is promised only for models
  of which no save was overtaken or given up (`unsettled`); that *some* live test passed
  is promised for all.
- `SilentOnceFlagged`: a click between a refusal and its flag
  (`openrouter_runtime.py:178`, `model_adapters.py:429`) leaves the tab unflagged, and it
  sends the refused key again, though the docstring says "Block further OpenRouter use in
  this browser session after auth rejection". The property says what holds besides.

`EachItemOnce` and `ConsensusCountsItems` are about items whose boxes stay apart. What a
chain of overlapping boxes, or the pieces of an item that tiles have cut, should count as
is nowhere stated, and not checked.

### Bounds, and why they are enough

- `sessions`: two tabs, of which one may be the console's, two names, three rows, two
  passwords, versions up to 2, lockout after 2 misses; 3.0 million states. Every race
  here is between two calls about one or two accounts; the third row lets a deleted
  account's name be taken again while an administrator remains. `MaxUsers` stops
  creation, `MaxVersion` stops password changes. One tab alone is an operator, because
  with two `two_admins` and `reject_race` are reached; what holds for any number of
  operators is proved. The four violations of the store need two rows and version 3 at most.
- `Calls` names the operations that may be called: all of them in `sessions`, those of the
  race in the violations.
- `wizard`: two photos, one model, two analyses, two faults. Two photos are needed
  for an analysis that is stopped between predictions and resumed from the cache;
  two analyses for anything that survives from one to the next; two faults for a
  stop whose leftovers meet another stop. The limit of 2 with one run of the other tab
  (`MaxUse`) is reached in the middle of an analysis. A fault is a stopped script or a count
  the database refuses (`MaxFaults`).
- `wizard_calm`: two photos, two models (so comparison and per-photo choice
  happen), two inventory types, two analyses, no daily limit.
- `components`, 1.2 million states in all. What each part is given:
  - resets (65 thousand states): an administrator tab and two sign-in pages, two
    names, accounts, requests and passwords: a repeated request, an account
    deleted and its name taken again between two transactions;
  - migrations: two threads, two people, every release of the database as initial state;
  - lifetime: idle limit 2, absolute limit 5, clock up to 8, so that each limit
    is met alone, together, and by a session that was renewed;
  - store: two tabs, two users of whom one is an administrator, two saves,
    batches of two runs: a save inside another, and inside a batch's rows;
  - batch: two photos, two prompt sets with the same terms in another order
    (the cache key is the same), with names of their own or one name, counts up to 1,
    one review;
  - policies: two tabs, two seeds, two forms. Two tabs are a seeding and whoever
    overtakes it, two seeds a seeding that is stopped between them;
  - catalog: two tabs, a trained and a public model that are shown under one name, two
    operations that overlap freely;
  - samples: two administrators, two ids, one gallery;
  - detection: a row of 20 with two items in three layouts (cut by the tiles, touching,
    and of two classes, one of which the second model may not report), tiles of 12, 10
    and 6, at most two calls, which is less than the thorough mode needs, so that the
    cap bites; two models in the whole-photo mode (`ManyModelModes`);
  - openrouter: two tabs, two keys, two photos per run;
  - shapes: one picture, the sample, one setting, a cache of 1 so that it is replaced,
    nothing or two shapes found, one saved test (`MaxSaved`) and two files (`MaxFiles`), so
    that a save that failed after its file is followed by one that does not.
- `MaxUse` bounds only how far the other tab goes; predictions are bounded by the
  analyses.

Symmetry is used in `wizard_calm`, for photos, models and inventory types, where none is
named elsewhere in the instance, and in no run with liveness. In `components` it is symmetry of the photos and of the prompt sets of a batch; other
parts take their tabs from the same values, none of them orders or names one.
Deadlock is not checked: when the bounds are used up nothing may be left to do.

### Fairness

Only `wizard` assumes any: weak fairness of `Analysis`, the steps of a running analysis.
The script thread runs on by itself, and none of them waits for the user. That a call to
a provider returns is an assumption: `openrouter_vlm.py:551` sets a timeout, local
models compute, but for Roboflow the code relies on the client library. Nothing is
assumed of the user, nor of other tabs: the clicks that stop the script are steps of the
run, up to `MaxFaults`, and `AnalysisEnds` says what becomes of an analysis that they
stop. It speaks of analyses that have begun: one whose limit is used up between the
click and the start never does, and its status stays `running` (see above).

## 5. What is proved

Eight modules of proofs, one of them (`CountingLemmas`) with lemmas only.
Everything holds for every number of clients, tabs, accounts, names, photos,
models, items and for every bound:

| Theorem | Says | Assumes |
|---|---|---|
| `TypeCorrect`, `SessionsTypeCorrect` | types | |
| `TargetNamed` | a call reaches the account it was started for, never one made since under its id | |
| `StatusesAgree` | `is_active` and `account_status` agree | |
| `StoreImplementsRegistry` | the look-up, count and write of a call come to one operation of the registry | `SingleOperator` |
| `LastAdminPersists` | the last active administrator stays | `SingleOperator` |
| `GrantsAreSettled` | what a sign-in grants is settled when it is granted | |
| `SessionsImplementStore` | every step of the tabs is a step of the store | |
| `SessionsImplementRegistry` | ... and so the tabs implement the registry | `SingleOperator` |
| `ResetsFinal` | a password change or reset ends the other sessions of its account, and only a call that holds the current password makes one good again | `RenewalsApart` at every step (`ApartSpec`) |
| `NoPendingSessions`, `SessionsOfTheirAccount` | no session of a pending account, none of another account or of one made since under its id | |
| `TableKeepsAdmin` | a table with accounts has an active administrator | `BootstrapConfigured`, `SingleOperator` |
| `WizardImplementsLedger` | every step of the wizard is a step or a stutter of the ledger | |
| `LedgerRecordsAscend` | the wizard's history holds no analysis twice, nor after a later one | |
| `WizardTyped` | types of the session fields, the running analysis, the cache | |
| `EditsStayWithResults` | edits were made on the results they are counted with | |
| `SavedPageIsHonest` | "Saved successfully" is about these results | |
| `EveryRunIsCharged` | no run counted that was not made; uncounted at most one for each stop and each count the database failed | |
| `OvershootIsBounded` | the daily limit is exceeded by less than the photos of one analysis | `Photos` finite, `MaxUse < Limit` |
| `PredictionsAreCounted` | every prediction of a limited model is counted once | `MaxFaults = 0` |
| `FlagsAreTrue` | the flags say whether an analysis is at work | `MaxFaults = 0` |
| `ReviewShowsWhatIsStaged` | what is reviewed is what is staged | `MaxFaults = 0`, `Limited = {}` |
| `LimitsHold`, `WorkersStay` | no page beyond a limit; nobody signed out within them | |
| `SchemaIsItsVersion`, `UpgradesKeepAccounts` | schema and version agree; an upgrade that comes second changes no account | |
| `ResetsReachTheirName` | a reset reaches the name it shows | |
| `ShownPasswordOpens` | the temporary password shown opens its account | `OneAnswers` |
| `PoliciesFormOrSeed` | a policy is the last form or the seed, and the seed in place of a form only where a seeding was at work as the form was saved | |
| `OnlyTheUnseenIsLost`, `HistoriesAreOwn` | what a benchmark file may lose; who sees what | |
| `CacheTellsTheTruth` | a run from the cache is the model's answer to the same question | |
| `MatrixIsOfItsRuns` | one run per combination; every cell adds up to the runs of the sets that have its name, be it one set or several | |
| `RecommendationIsBest` | no supported cell is better than the recommended one | |
| `NoRowWithoutFile` | a registered sample has its file | |
| `TabsStaySilent` | a tab whose key was refused sends nothing, unless a click kept the refusal from its flag; what is sent was verified | |
| `OfferedWereTested` | an offered model is so by an entry that some live test has passed; its last test was a pass and it is still there, unless a save of it was overtaken or given up | |
| `SuccessesSawAll` | a success rests on an answer to every request that was sent | |
| `EveryItemLookedAt` | ... and each item stands, in part at least, in one of their pictures, unless the cap cut them short | |
| `TilesShowAll` | tiles leave no gap; what is no wider than their overlap is whole in one | |
| `ItemsCountedOnce` | each item apart from the others is counted once | |
| `ConsensusIsTheItems` | the consensus has one cluster per item that enough models found | |
| `ReviewsStayOut`, `TestsAreReviews` | no review reaches the objects in the cache of shapes; a test is saved whole, as its review, or not at all | |
| `LifetimeTyped`, `MigrationsTyped`, `ResetsTyped`, `PoliciesTyped`, `StoreTyped`, `BatchesTyped`, `OpenRouterTyped`, `CatalogTyped`, `LibraryTyped`, `DetectionTyped`, `ShapesTyped` | types of the other components | |

Besides, every theorem rests on the named assumption about the constants of its
module: that bounds are numbers, that the values for "nothing" are none of the
others, that items have extent and no two are in one place
(`DetectionAssumption`), that a supported cell needs an image (`MetricsAssumption`).
TLC evaluates them in the runs.

The assumptions of the table are not conveniences. `two_admins` shows that
`LastAdminStays` is false without `SingleOperator`, and `ImplementsRegistry` is with
it: the second of two demotions is an operation the registry refuses. `stale_reset`
shows what happens without `RenewalsApart`. It has two parts, and both are needed: two
calls that write a version must not overlap, and none may overlap a sign-in or change
that has checked its password and will read the row again (`Vouching`), for that read
can hand a session the later version. The code makes neither sure. A click that
stops the script between a prediction and its registration leaves a run uncounted, and
one between two writes a flag behind, so without `MaxFaults = 0` the equality of the two
counters and the property of the flags are false; what holds *with* stops is
`EveryRunIsCharged`. `MaxUse` is how far the other tab goes: two tabs that both use up
the limit would each add an analysis to it.
Section 4 has the counterexamples to the two others: `OneAnswers` (two
administrators answer one request) and `Limited = {}` (the limit is used up
between the click and the start).

The argument. A property about the table alone is not inductive, because a call
in progress carries what it read. So the invariants speak about the calls.

- `NameInv` adds that ids below `nextId` are used up and that a call holds the
  name of the row its id stands for: an id is never handed out again.
- `AdminInv` adds `Guarded(c)`: each call that is about to take away an
  administrator's role or account has counted another one who is still there,
  and it belongs to the one operator, so nobody else can have removed that one
  since.
- `StoreImplementsRegistry` rests on `AdminInv` too: when the write comes, its guard
  still holds of the table (`DecisionAllowed`), so the write is the registry's operation
  on the accounts as they are then (`DecisionRegisters`), or none when the row is gone;
  all other steps leave standing alone (`Calm`), an insert opens an account.
- `LoginInv` follows a sign-in through its three reads: an account that was
  settled when it was admitted never becomes pending again under the same id.
- `PageInv`, `SessInv` and `TableInv` carry these over to the tabs. The
  step lemmas are first proved for the store; `SessionsImplementStore` makes every
  step of a tab one of them, so that only what concerns `sess` and `page` is new.
- `VersionInv`: a call between reading `session_version` and writing it has read the one
  that is there, no session is ahead of the table, and a call that is about to vouch for
  a session has the account's password (`Vouched`). It is kept by every step as long as
  renewals stay apart (`RenewalsApart`), so that versions only grow, the write of a
  password leaves all sessions behind, and none is handed the later version after it.

The wizard:

- `WizardInv` says of the session fields which analysis they are about:
  `Sound(ss, latest, history)` relates results, edits, save status and history.
  The step lemmas show it of every *prefix* of a handler's writes (`Written`),
  because a click may stop the handler there. `Open(ss)`, the analysis that could still be saved, is the
  refinement mapping to `current` of the ledger; `KeepsPromise` is one step of
  the argument for both at once. `LedgerInv`, proved of the ledger and carried to
  the wizard by the refinement: the open analysis is the newest one, and the
  history ascends up to it.
- `TypedInv`: the inventory type is set before the status says that an analysis may
  run (`Prepared`), however far a handler comes, so that what is cached names an
  inventory type that exists; and the pair of photo and model at hand is the first of `todo` for as
  long as it is being counted and stored.
- `UsageInv` adds the one prediction that may be made and not yet counted, between
  `Predict` and `Register`; `ChargeInv` that what is missing besides is paid for by a
  fault each; `CountedInv` that without faults the two counters differ by this one
  exactly. `OvershootInv` is about the photos that a model is still to be counted for
  in this analysis (`Left`): counter and photos left stay below limit and photos
  together, from the start, which asks for a run to be left, over each count, which
  takes one photo off, to a stop, which takes them all off. It needs the plan to name
  no photo twice for a model.
- `FlagsInv`: while nothing runs no flag says so, and while an analysis is at work
  the session says it is running. Without faults every handler is carried out whole,
  so that only its last state matters.
- `StagedInv`: from the click to the end, the context of the analysis is the form's
  inventory type and its photos are the staged ones; and finished results, on any page
  from the model choice on, are those of what is staged: the handlers of the two pages
  before throw them away when it has changed.

Who gets in, and files:

- `LifetimeInv`: `auth_user`, when it is there, is of this session, and the
  activity it tells of is the last one, unless the session was to end when a
  click stopped it being wiped.
- `MigrationInv`: a thread's pending list begins at or just above a version the
  database has passed, so that applying it again adds nothing; and an account
  that migration 8 finds a second time is classified already.
- `ReachInv`: an id found for a name belongs to that name or to nobody for ever.
  `ShownInv`: from the moment a temporary password is stored until it is shown, the
  account has it, has had it changed by its owner, or is gone; the account calls
  never set another one.
- `PolicyInv`: a seeding under way carries the values of its seed, with a limit of 0 or
  of a form; and a policy that has been edited is in front of a seeding only where it is
  contested: every later seeding reads the table when the row is there.
- `StoreInv`: what a save is about to replace, it has loaded or it is endangered;
  and every entry's owner is who began its save.
- `BatchInv`: what the cache holds, the shared one and the loop's own, was answered to
  the question of its key, and so was every run marked as taken from it; a run is judged
  by the expected count of its own session; the runs made and those left are
  the planned ones, none of them both, each labelled with the name of its set. Every cell of
  the matrix then has one run per photo and set of its name (`CellHasEveryPhoto`), and
  its sums are numbers of runs.
- `RecommendationIsBest` needs no invariant besides: rates are compared by
  multiplying out, which is transitive only when denominators are not 0
  (`NotLedIsTransitive`); a supported cell has an image, so its rates are known;
  ties fall to a second key; so the order is total and the first cell of a finite
  set exists (`FirstOfTotalOrder`).
- `SampleInv`: ids are handed out before anything is known of them, so an id is
  added by one call alone.
- `PassedAreTrue`, of all models: every mark of a pass, in the files or carried by an
  operation, is of a model that passed a live test once. `CatalogInv`, of the models of
  which no save was overtaken or given up (`Settled`): a catalog that was loaded is still
  the catalog; a mark there is backed by the last test of the model and the last sync,
  unless the catalog was rebuilt since, and one among the approved models by that test
  or by the operation that is about to bring its result.
- `KeyInv`: the flag of a tab remembers each refusal but those a click kept from it and
  the one that is about to be flagged, and what is stored or sent was verified.
- `ShapeInv`: no cache entry holds the object of the page (`OwnResult`), so that the review
  reaches none. `SaveInv`: what a save under way has written is the picture of what the
  page shows, the row of its review, and the first of its items in order; the commit
  comes after the last. `FilesWritten`: no saved row names a file that was never written.

From a photo to a count:

- `SawInv`: calls, lists and failures add up to the requests passed, so a verdict of
  success finds every request answered or the cap reached. `TurnInv`: a model has
  its turn once, no request lists an item twice, and the consensus is taken after
  the last turn.
- `RawInv`: detections are numbered, lie in their item and were cut, if at all, by
  the tile they come from. From it `ItemsCountedOnce`: ranking enumerates the set;
  the recursive functions exist (`Recursion`) and their steps are followed by
  induction over numbers (`StepByStep`, from the least number). A cluster stays in
  one item, since boxes of items kept apart do not overlap enough to join; so nothing is merged across items
  and nothing of an item disappears. Detections of an item seen whole lie in the
  same place, join each other, and the first cluster that meets one takes them all.
- `ConsensusIsTheItems`: when a photo is asked about whole, a model lists each item
  at most once, so that removing duplicates changes nothing (`AsTheyWere`), provided
  that what was found of different items stays apart (`Apart`, `FarApart`: hypotheses
  about the detections, before anything is removed). Linked are then those of one item
  exactly, a cluster is full after one step, and clusters and items correspond
  (`ClustersAreItems`).
- `TilesShowAll`: a tile grows by a pixel at least or stays, and then it stays for
  good (`GrownSettles`: within as many steps as the row is long, with at most
  `MaxTiles` tiles then). A place is found in the tile whose number is its quotient
  by the stride, or in the last one, which is flush with the edge.

Each theorem is stated with an invariant `I`, `Init => I`, `I /\ [Next]_v => I'`
and `I => property`, and combined by temporal logic. The lemmas are grouped by
transaction, with one step for each action.

Model-checked only:

- liveness: `AnalysisEnds`, and the fairness it rests on, which the provers cannot
  handle;
- `FinalWhileApart`, which is `ResetsAreFinal` with a history that switches it off at the
  first overlap; `ResetsFinal` proves the property itself of behaviours without one;
- `ComponentsTypeOK`, which is about `MCComponents` and not about the program: the
  type theorem of each component it puts side by side is proved.

The violations are counterexamples and need no proof.

## 6. Not modelled

- Inventory history beyond the insertion: a SELECT by owner and its export.
  Nothing updates or deletes a record.
- Review navigation and the reviewed count, with `review_state`: page state of
  one tab and sums over it. Two hazards remain noted in `PROJECT.json`:
  `review_state` survives a new analysis, and Final lags one run behind its widgets.
- Photos that share a file name, more than one UTC day of a daily limit.
- The rest of `evaluate_model_access`: reads of one policy and one role.
- Of the catalog the dynamic workflows, which loading declares ready whatever a
  test said; of OpenRouter the text of prompts and the repair of JSON; of shape
  detection the feature policy and who may open whose test.
- `photo_preparation.py`, which the wizard does not call (`README.md:467`),
  `image_quality.py`, `picket_counter.py`, `shape_geometry.py` and every other
  arithmetic on pixels; the parsing of inventory names and synonyms.
- The text and layout of pages, password hashing and encryption as such,
  configuration, and the scripts around the program.
