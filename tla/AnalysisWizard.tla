--------------------------- MODULE AnalysisWizard ---------------------------
(***************************************************************************)
(* The wizard of app.py in one browser tab: inventory setup, photos,       *)
(* analysis, running page, review and save.                                *)
(*                                                                         *)
(* All of the wizard's state is in st.session_state (ss).  A click runs    *)
(* the script from the top; the clicked button's handler writes fields of  *)
(* ss one after the other, navigates, and the script runs again and draws. *)
(* Streamlit stops a script that is still running when the user clicks     *)
(* again: at the next access to session_state, so after any of the writes  *)
(* of a handler and between any two steps of an analysis.                  *)
(***************************************************************************)
EXTENDS Integers, Sequences, FiniteSets, SequencesExt

CONSTANTS
  Photos,       \* pictures, identified by their content hash
  Models,       \* detection models the inventory offers
  Setups,       \* inventory types (and custom items) to choose from
  None,         \* Python's None
  Limited,      \* models with a daily limit on runs
  Limit,        \* maximum_runs_per_user_per_day
  MaxAnalyses,  \* bound: analyses finished in this session
  MaxUse,       \* bound: predictions up to which another tab joins in
  MaxFaults      \* bound: scripts stopped by a click, and runs the database failed to count

ASSUME WizardAssumption ==
  /\ None \notin Photos \cup Models \cup Setups
  /\ Limited \subseteq Models
  /\ {Limit, MaxAnalyses, MaxUse, MaxFaults} \subseteq Nat

VARIABLES
  ss,        \* the fields of st.session_state the wizard works with
  run,       \* the locals of _execute_analysis_run, or NoRun
  history,   \* the analyses this tab inserted into inventory_counts, oldest first
  latest,    \* analyses finished: the number of the newest one
  asked,     \* asked[m]: predictions model m was asked for (and billed) today
  usage,     \* usage[m]: run_count of user_model_usage
  chosen,    \* the result chosen last with Use This Result, or None
  faults     \* scripts stopped and counts failed so far

wizardVars == <<ss, run, history, latest, asked, usage, chosen, faults>>
stores     == <<history, latest, asked, usage, chosen>>

COMPARE_MAX_MODELS == 3

\* One model, or two to three different ones to compare.
Selections(models) ==
  UNION {{s \in [1..k -> models] : IsInjective(s)} : k \in 1..COMPARE_MAX_MODELS}

\* analysis_results: items are the photo and model of every InferenceResult.
NoRun     == [at |-> "none"]
NoResults == [run |-> 0, items |-> <<>>, photos |-> <<>>, setup |-> None]

Stages   == {"setup", "photos", "analyze", "running", "review"}
Statuses == {"idle", "running", "complete", "partial", "error"}

InitSession ==
  [stage |-> "setup", form |-> [setup |-> None, models |-> <<>>],
   photos |-> <<>>, status |-> "idle", results |-> NoResults,
   accepted |-> None, edits |-> 0, save |-> "idle", savedRec |-> 0,
   running |-> FALSE, executing |-> FALSE, cache |-> {},
   active |-> None, viewModel |-> None, ctx |-> None]

Init ==
  /\ ss = InitSession
  /\ run = NoRun
  /\ history = <<>>
  /\ latest = 0
  /\ asked = [m \in Limited |-> 0]
  /\ usage = [m \in Limited |-> 0]
  /\ chosen = None
  /\ faults = 0

----------------------------------------------------------------------------
(* Models a run may use: partition_models leaves out the exhausted ones.   *)
Selectable == {m \in Models : m \in Limited => usage[m] < Limit}

\* The elements of a sequence that are in S, in the order they have there.
Among(seq, S) ==
  LET kept == {n \in DOMAIN seq : seq[n] \in S}
  IN [k \in 1..Cardinality(kept) |->
        seq[CHOOSE n \in kept : Cardinality({m \in kept : m < n}) = k - 1]]

Usable(models) == Among(models, Selectable)

\* The pairs to analyse, photo by photo and model by model.
Plan(photos, models) ==
  [n \in 1..(Len(photos) * Len(models)) |->
     <<photos[((n - 1) \div Len(models)) + 1], models[((n - 1) % Len(models)) + 1]>>]

\* photos, and the results named after them, in the order they appear in.
PhotosOf(items) == {items[n][1] : n \in DOMAIN items}
ModelsOf(items, p) == Among(items, {r \in Range(items) : r[1] = p})

Reviewable(s)  == s.status \in {"complete", "partial"} /\ s.results.items # <<>>
SavedScreen(s) == s.save = "saved" /\ s.savedRec # 0

----------------------------------------------------------------------------
(* What a run of the script does to ss before it waits for the user.       *)

\* _render_wizard: no review before an analysis is complete.
Redirected(s) ==
  IF s.stage = "review" /\ s.status \notin {"complete", "partial"} /\ s.save # "saved"
  THEN [s EXCEPT !.stage = IF s.status \in {"running", "error"} THEN "running" ELSE "analyze"]
  ELSE s

\* stage_running: an analysis that is to run, and does not run yet, is run,
\* by the models that may be used by then (Start).
Starts(s) ==
  s.stage = "running" /\ s.status = "running" /\ ~s.executing /\ s.photos # <<>>

\* stage_review: the photo shown, the model viewed, and the accepted result,
\* which has to be one of the photo shown.
Aimed(s) ==
  IF s.stage # "review" \/ SavedScreen(s) \/ ~Reviewable(s) THEN s
  ELSE LET items    == s.results.items
           active   == IF s.active \in PhotosOf(items) THEN s.active ELSE items[1][1]
           own      == ModelsOf(items, active)
           view     == IF <<active, s.viewModel>> \in Range(own) THEN s.viewModel ELSE own[1][2]
           accepted == IF s.accepted \in Range(own) THEN s.accepted ELSE <<active, view>>
       IN  [s EXCEPT !.active = active, !.viewModel = view, !.accepted = accepted]

Rerun(s) ==
  LET d == Redirected(s) IN
  IF Starts(d)
  THEN ss' = d /\ run' = [at |-> "start"]
  ELSE ss' = Aimed(d) /\ run' = NoRun

\* s on the way to t, after the first k of the fields in order were written.
Written(s, t, order, k) ==
  [f \in DOMAIN s |-> IF \E n \in 1..k : order[n] = f THEN t[f] ELSE s[f]]

\* How many of n writes are reached before a click can stop the script.
Reached(n) == IF faults < MaxFaults THEN 0..n ELSE {n}

Stopped(whole) == faults' = IF whole THEN faults ELSE faults + 1

\* A handler that takes ss to t, writing the fields in this order, and what
\* is drawn next: after all of it, or after the part that was let through.
Handle(t, order) ==
  /\ \E k \in Reached(Len(order)) :
       Rerun(Written(ss, t, order, k)) /\ Stopped(k = Len(order))
  /\ UNCHANGED stores

At(step)  == run.at = step
On(stage) == run = NoRun /\ ss.stage = stage
Go(stage) == Handle([ss EXCEPT !.stage = stage], <<"stage">>)

----------------------------------------------------------------------------
(* Inventory setup and photos                                              *)

ChooseInventory(i) ==
  On("setup") /\ Handle([ss EXCEPT !.form.setup = i], <<"form">>)

SetupNext == On("setup") /\ ss.form.setup # None /\ Go("photos")

\* Mutant: the content hash is not looked up among the staged photos.
AddPhotoAgain(p) ==
  /\ On("photos")
  /\ Handle([ss EXCEPT !.photos = Append(@, p)], <<"photos">>)

AddPhoto(p) ==
  /\ On("photos") /\ p \notin Range(ss.photos)
  /\ Handle([ss EXCEPT !.photos = Append(@, p)], <<"photos">>)

RemovePhoto(p) ==
  /\ On("photos") /\ p \in Range(ss.photos)
  /\ Handle([ss EXCEPT !.photos = Among(@, Photos \ {p})], <<"photos">>)

\* Mutant: the status and the results outlive the state of the save.
ClearedKeepsStatus(s) == [s EXCEPT !.save = "idle", !.savedRec = 0]

\* A finished analysis is dropped on the way to the next one.
Cleared(s) == [s EXCEPT !.status = "idle", !.results = NoResults,
                        !.save = "idle", !.savedRec = 0]

PhotosNext ==
  /\ On("photos") /\ ss.photos # <<>> /\ ss.form.setup # None
  /\ IF ss.status \in {"complete", "partial"}
     THEN Handle([Cleared(ss) EXCEPT !.stage = "analyze"],
                 <<"status", "results", "save", "savedRec", "stage">>)
     ELSE Go("analyze")

PhotosBack == On("photos") /\ Go("setup")

----------------------------------------------------------------------------
(* Analyze: the model selection is read off the page's widgets.            *)

AnalyzeBack == On("analyze") /\ Go("photos")

GoToRunning(sel) ==
  /\ On("analyze") /\ ss.status # "idle"
  /\ Handle([ss EXCEPT !.form.models = sel, !.stage = "running"], <<"form", "stage">>)

RunAnalysis(sel) ==
  /\ On("analyze") /\ ss.status = "idle" /\ ~ss.running
  /\ ss.photos # <<>> /\ ss.form.setup # None /\ latest < MaxAnalyses
  /\ Handle([ss EXCEPT !.form.models = sel, !.ctx = ss.form.setup, !.running = TRUE,
                       !.status = "running", !.executing = FALSE, !.stage = "running"],
            <<"form", "ctx", "running", "status", "executing", "stage">>)

----------------------------------------------------------------------------
(* The running page.                                                       *)

\* Without photos the page says that nothing was started.
Shows(status) == ss.status = status /\ ss.photos # <<>>

RunningBack ==
  /\ On("running")
  /\ IF Shows("error")
     THEN Handle([ss EXCEPT !.status = "idle", !.running = FALSE, !.stage = "analyze"],
                 <<"status", "running", "stage">>)
     ELSE (Shows("running") => ~ss.executing) /\ Go("analyze")

\* The photos page is offered when nothing at all was detected.
RunningNext ==
  /\ On("running")
  /\ \/ (Shows("complete") \/ Shows("partial")) /\ ss.results.items # <<>> /\ Go("review")
     \/ Shows("complete") /\ Go("photos")

----------------------------------------------------------------------------
(* _execute_analysis_run                                                   *)

Begun ==
  [at |-> "next", todo |-> Plan(ss.photos, Usable(ss.form.models)),
   got |-> <<>>, failed |-> FALSE, photos |-> ss.photos, setup |-> ss.ctx,
   models |-> Len(Usable(ss.form.models))]

\* Mutant: an analysis that was stopped goes on without asking for the limit.
StartUnasked ==
  /\ At("start")
  /\ run' = [Begun EXCEPT !.todo = Plan(ss.photos, ss.form.models), !.models = Len(ss.form.models)]
  /\ ss' = [ss EXCEPT !.executing = TRUE]
  /\ UNCHANGED <<stores, faults>>

Start ==
  /\ At("start")
  /\ IF Range(ss.form.models) \cap Selectable = {}
     THEN run' = NoRun /\ UNCHANGED ss
     ELSE run' = Begun /\ ss' = [ss EXCEPT !.executing = TRUE]
  /\ UNCHANGED <<stores, faults>>

Pair     == Head(run.todo)
CacheKey == <<Pair[1], Pair[2], run.setup>>

Billed(counts, m) == IF m \in Limited THEN [counts EXCEPT ![m] = @ + 1] ELSE counts

TakeCached ==
  /\ At("next") /\ run.todo # <<>> /\ CacheKey \in ss.cache
  /\ run' = [run EXCEPT !.todo = Tail(@), !.got = Append(@, Pair)]
  /\ UNCHANGED <<ss, stores, faults>>

\* A photo that cannot be decoded fails for every model.
SkipPhoto ==
  /\ At("next") /\ run.todo # <<>>
  /\ Len(ModelsOf(run.todo, Pair[1])) = run.models
  /\ run' = [run EXCEPT !.todo = SubSeq(@, run.models + 1, Len(@)), !.failed = TRUE]
  /\ UNCHANGED <<ss, stores, faults>>

\* adapter.predict: the model's provider is called.
Predict ==
  /\ At("next") /\ run.todo # <<>> /\ CacheKey \notin ss.cache
  /\ asked' = Billed(asked, Pair[2])
  /\ run' = [run EXCEPT !.at = "register"]
  /\ UNCHANGED <<ss, history, latest, usage, chosen, faults>>

\* Mutant: only the first prediction of an analysis is counted.
RegisterFirst ==
  /\ At("register")
  /\ usage' = IF run.got = <<>> THEN Billed(usage, Pair[2]) ELSE usage
  /\ run' = [run EXCEPT !.at = "store"]
  /\ UNCHANGED <<ss, history, latest, asked, chosen, faults>>

\* _record_model_run: a database error is swallowed.
Register ==
  /\ At("register")
  /\ \/ usage' = Billed(usage, Pair[2]) /\ UNCHANGED faults
     \/ faults < MaxFaults /\ faults' = faults + 1 /\ UNCHANGED usage
  /\ run' = [run EXCEPT !.at = "store"]
  /\ UNCHANGED <<ss, history, latest, asked, chosen>>

\* A prediction that succeeded is cached, one that failed is a failure.
Store(ok) ==
  /\ At("store")
  /\ ss' = IF ok THEN [ss EXCEPT !.cache = @ \cup {CacheKey}] ELSE ss
  /\ run' = [run EXCEPT !.at = "next", !.todo = Tail(@),
                        !.got = IF ok THEN Append(@, Pair) ELSE @,
                        !.failed = @ \/ ~ok]
  /\ UNCHANGED <<stores, faults>>

\* Mutant: an analysis without a result keeps its status.
OutcomeOpen ==
  IF run.got = <<>> THEN "running" ELSE IF run.failed THEN "partial" ELSE "complete"

Outcome ==
  IF run.got = <<>> THEN "error" ELSE IF run.failed THEN "partial" ELSE "complete"

\* Mutant: the edits of the analysis before are kept.
FinishedKeepsEdits ==
  [ss EXCEPT !.results = [run |-> latest + 1, items |-> run.got,
                          photos |-> run.photos, setup |-> run.setup],
             !.status = Outcome,
             !.accepted = IF run.got = <<>> THEN None ELSE run.got[1]]

Finished ==
  [ss EXCEPT !.results = [run |-> latest + 1, items |-> run.got,
                          photos |-> run.photos, setup |-> run.setup],
             !.edits = 0,
             !.status = Outcome,
             !.accepted = IF run.got = <<>> THEN None ELSE run.got[1]]

\* Mutant: the finally clause forgets analyze_running.
ReleasedHalf(s, k) == Written(s, [s EXCEPT !.executing = FALSE], <<"executing", "running">>, k)

\* s after the finally clause of stage_running; the access to session_state
\* in it may be stopped again.
Released(s, k) ==
  Written(s, [s EXCEPT !.executing = FALSE, !.running = FALSE], <<"executing", "running">>, k)

Finish ==
  /\ At("next") /\ run.todo = <<>> /\ latest < MaxAnalyses
  /\ \E k \in Reached(4), j \in Reached(2) :
       /\ Rerun(Released(Written(ss, Finished, <<"results", "edits", "status", "accepted">>, k), j))
       /\ Stopped(k = 4 /\ j = 2)
  /\ latest' = latest + 1
  /\ chosen' = None
  /\ UNCHANGED <<history, asked, usage>>

\* What a click that stops the script leaves: the finally clause is only there
\* once the analysis has started.
Halted == {Released(ss, j) : j \in IF run = NoRun \/ At("start") THEN {0} ELSE 0..2}

\* A click that keeps the page, or Streamlit's own stop button: the script
\* thread ends where it is, and the page is drawn again.
Nudge ==
  /\ faults < MaxFaults /\ run # NoRun
  /\ \E s \in Halted : Rerun(s)
  /\ Stopped(FALSE)
  /\ UNCHANGED stores

----------------------------------------------------------------------------
(* Review and save.                                                        *)

Reviewing == On("review") /\ Reviewable(ss) /\ ~SavedScreen(ss)

ShowPhoto(p) ==
  /\ Reviewing /\ p \in PhotosOf(ss.results.items) \ {ss.active}
  /\ Handle([ss EXCEPT !.active = p], <<"active">>)

ShowModel(m) ==
  /\ Reviewing /\ <<ss.active, m>> \in Range(ss.results.items)
  /\ Handle([ss EXCEPT !.viewModel = m], <<"viewModel">>)

\* Offered where several models have a result of the photo.
UseThisResult ==
  /\ Reviewing /\ Len(ModelsOf(ss.results.items, ss.active)) > 1
  /\ Rerun([ss EXCEPT !.accepted = <<ss.active, ss.viewModel>>])
  /\ chosen' = <<ss.active, ss.viewModel>>
  /\ UNCHANGED <<history, latest, asked, usage, faults>>

\* Exclusions, labels and manual markers; Reset adjustments drops them.
Edit(e) ==
  /\ Reviewing /\ e \in {0, ss.results.run}
  /\ Handle([ss EXCEPT !.edits = e], <<"edits">>)

RerunAnalysis ==
  /\ Reviewing
  /\ Handle([Cleared(ss) EXCEPT !.cache = {}, !.stage = "analyze"],
            <<"status", "results", "save", "savedRec", "cache", "stage">>)

ReviewBack == On("review") /\ ~SavedScreen(ss) /\ Go("running")

\* Mutant: "saving" is written after the row.
SaveEarly ==
  /\ Reviewing /\ ss.save = "idle"
  /\ \E k \in Reached(4) :
       /\ history' = IF k >= 1 THEN Append(history, ss.results.run) ELSE history
       /\ Rerun([ss EXCEPT !.save = CASE k < 2 -> "idle" [] k = 4 -> "saved" [] OTHER -> "saving",
                           !.savedRec = IF k >= 3 THEN ss.results.run ELSE @])
       /\ Stopped(k = 4)
  /\ UNCHANGED <<latest, asked, usage, chosen>>

\* _save_inventory: the row holds the count of the accepted result and the
\* edits to it.  "saving" is written before the row and "saved" last.
\* When the row cannot be inserted save_status is idle again.
Save ==
  /\ Reviewing /\ ss.save = "idle"
  /\ \E k \in Reached(4) :
       /\ history' = IF k >= 2 THEN Append(history, ss.results.run) ELSE history
       /\ Rerun([ss EXCEPT !.save = CASE k = 0 -> "idle" [] k = 4 -> "saved" [] OTHER -> "saving",
                           !.savedRec = IF k >= 3 THEN ss.results.run ELSE @])
       /\ Stopped(k = 4)
  /\ UNCHANGED <<latest, asked, usage, chosen>>

----------------------------------------------------------------------------
\* Mutant: the state of the save outlives the analysis.
FreshKeepsSave == [InitSession EXCEPT !.save = ss.save, !.savedRec = ss.savedRec]

\* reset_active_analysis: Start Fresh, Get Started, Start New Analysis.
Fresh == InitSession

Reset ==
  /\ run # NoRun => faults < MaxFaults
  /\ LET order == <<"form", "photos", "status", "results", "accepted", "edits", "save",
                    "savedRec", "running", "executing", "cache", "active", "viewModel",
                    "ctx", "stage">>
     IN  \E k \in Reached(15), s \in Halted :
           /\ Rerun(Written(s, Fresh, order, k))
           /\ Stopped(run = NoRun /\ k = 15)
  /\ UNCHANGED stores

\* The user runs the model from another tab.
OtherTab(m) ==
  /\ m \in Limited /\ asked[m] < MaxUse
  /\ asked' = Billed(asked, m) /\ usage' = Billed(usage, m)
  /\ UNCHANGED <<ss, run, history, latest, chosen, faults>>

Analysis ==
  Start \/ TakeCached \/ SkipPhoto \/ Predict \/ Register \/ Finish \/ \E ok \in BOOLEAN : Store(ok)

Next ==
  \/ \E i \in Setups : ChooseInventory(i)
  \/ \E p \in Photos : AddPhoto(p) \/ RemovePhoto(p) \/ ShowPhoto(p)
  \/ SetupNext \/ PhotosNext \/ PhotosBack \/ AnalyzeBack
  \/ \E sel \in Selections(Selectable) : GoToRunning(sel) \/ RunAnalysis(sel)
  \/ RunningBack \/ RunningNext \/ Nudge \/ Analysis
  \/ \E m \in Models : ShowModel(m) \/ OtherTab(m)
  \/ UseThisResult \/ \E e \in 0..latest : Edit(e)
  \/ RerunAnalysis \/ ReviewBack \/ Save \/ Reset

Spec == Init /\ [][Next]_wizardVars

\* The script thread goes on, and every call to a provider returns at last.
FairSpec == Spec /\ WF_wizardVars(Analysis)

----------------------------------------------------------------------------
Runs  == 0..MaxAnalyses
Pairs == Photos \X Models

WizardTypeOK ==
  /\ ss.stage \in Stages /\ ss.status \in Statuses
  /\ ss.form.setup \in Setups \cup {None} /\ ss.ctx \in Setups \cup {None}
  /\ Range(ss.form.models) \subseteq Models
  /\ Range(ss.photos) \subseteq Photos /\ IsInjective(ss.photos)
  /\ ss.results.run \in Runs /\ Range(ss.results.items) \subseteq Pairs
  /\ ss.accepted \in Pairs \cup {None}
  /\ ss.save \in {"idle", "saving", "saved"} /\ ss.savedRec \in Runs /\ ss.edits \in Runs
  /\ {ss.running, ss.executing} \subseteq BOOLEAN
  /\ ss.cache \subseteq Photos \X Models \X Setups
  /\ (run # NoRun /\ ~At("start")) =>
       run.at \in {"next", "register", "store"} /\ run.todo \in Seq(Pairs)
  /\ latest \in Runs
  /\ usage \in [Limited -> Nat] /\ asked \in [Limited -> Nat]
  /\ faults \in 0..MaxFaults

\* The inventory history keeps the ledger's promise: a record is made of the
\* analysis open for review, and never twice of the same one, however often
\* the user clicks and wherever a click stops the script.
Ledger == INSTANCE InventoryLedger WITH
  current  <- IF Reviewable(ss) THEN ss.results.run ELSE 0,
  recorded <- history

KeepsLedger == Ledger!LSpec

\* The exclusions, labels and markers that are counted were made on the
\* results they are counted with, never on those of an earlier analysis.
EditsOfTheseResults == Reviewable(ss) => ss.edits \in {0, ss.results.run}

\* What is reviewed is what is staged: whoever goes back and adds or removes
\* a photo, or chooses another inventory type, loses the results, by whatever
\* way he comes to the review again.
ReviewedAsStaged ==
  ss.stage = "review" /\ Reviewable(ss)
    => ss.results.photos = ss.photos /\ ss.results.setup = ss.form.setup

\* Saved successfully is never shown for results that were not saved.
SavedIsTheseResults ==
  SavedScreen(ss) => \/ ss.results.run \in {0, ss.savedRec}
                     \/ ss.stage # "review"

\* Nobody is charged a run for a photo the cache answered, for one that was
\* not analysed, or twice for the same prediction; and no run is forgotten but
\* one for each script that a click stopped and each count the database failed.
ChargesMatchRuns ==
  \A m \in Limited :
    /\ usage[m] <= asked[m]
    /\ asked[m] <= usage[m] + faults + (IF At("register") THEN 1 ELSE 0)

\* The limit is asked for before an analysis only, but before each, one that
\* goes on after a click included: as long as the other tab stays below it,
\* it is never exceeded by as much as the photos of one analysis.
OvershootBounded == \A m \in Limited : usage[m] < Limit + Cardinality(Photos)

\* While no analysis runs no flag claims one, and Save and Run are offered.
FlagsTellTheTruth ==
  run = NoRun => ~ss.executing /\ (ss.running => ss.status = "running") /\ ss.save # "saving"

\* An analysis that has begun comes to an end, wherever it is stopped and taken
\* up again: it is finished, or the page waits after a click that stopped it.
\* As long as no script was stopped, its status then says that it is over
\* (_execute_analysis_run, the finally clause of stage_running).
AnalysisEnds ==
  \A n \in 0..(MaxAnalyses - 1) :
    run # NoRun /\ ~At("start") /\ latest = n
      ~> \/ latest > n /\ (faults = 0 => ss.status # "running")
         \/ run = NoRun /\ faults > 0

\* Nobody runs a model more often than its daily limit allows.
QuotaKept == \A m \in Limited : usage[m] <= Limit

\* Use This Result sets the result of that photo that is saved.
ChoiceIsSaved ==
  [][history' # history /\ chosen # None => (ss.accepted[1] = chosen[1] => ss.accepted = chosen)]_wizardVars
=============================================================================
