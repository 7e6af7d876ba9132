------------------------- MODULE AnalysisWizardProofs -------------------------
(***************************************************************************)
(* For any number of photos, models, analyses and stopped scripts: the     *)
(* wizard keeps its types and the promise of InventoryLedger, edits stay   *)
(* with their results, Saved successfully is shown for what was saved,     *)
(* charges follow the runs but for one per stop, and the daily limit is    *)
(* exceeded by less than the photos of one analysis.  When nothing is      *)
(* stopped, every prediction is counted, the flags tell the truth and,     *)
(* without a daily limit, the review shows what is staged.                 *)
(***************************************************************************)
EXTENDS AnalysisWizard, CountingLemmas

Fields == {"stage", "form", "photos", "status", "results", "accepted", "edits", "save",
           "savedRec", "running", "executing", "cache", "active", "viewModel", "ctx"}

\* What becomes of the fields that the history depends on.
Alike(s, t) ==
  /\ s.status = t.status /\ s.results = t.results /\ s.edits = t.edits
  /\ s.save = t.save /\ s.savedRec = t.savedRec

Open(s) == IF Reviewable(s) THEN s.results.run ELSE 0

\* A session after n analyses, of which `past` were recorded: results that can
\* be reviewed are those of an analysis that finished, with its own edits, and
\* as long as Save is offered they were not recorded.  The page that says Saved
\* is left by nothing but a reset.
Sound(s, n, past) ==
  /\ DOMAIN s = Fields
  /\ Reviewable(s) => /\ s.results.run \in 1..n
                      /\ s.edits \in {0, s.results.run}
                      /\ s.save = "idle" => s.results.run \notin Range(past)
  /\ s.save = "saved" => /\ s.stage = "review" /\ s.savedRec # 0
                         /\ s.results.run \in {0, s.savedRec}

WizardInv ==
  /\ latest \in Nat /\ history \in Seq(1..latest)
  /\ Sound(ss, latest, history)
  /\ run # NoRun => ss.status = "running" /\ ss.stage = "running"

KeepsPromise == WizardInv' /\ [Ledger!LNext]_(Ledger!ledger)

LEMMA WizardInvInit == Init => WizardInv
BY DEF Init, WizardInv, InitSession, Sound, Reviewable, Fields

(* The run of the script that follows a handler changes only what is drawn. *)
LEMMA RerunKeeps ==
  ASSUME NEW s, DOMAIN s = Fields, Rerun(s)
  PROVE  /\ DOMAIN ss' = Fields /\ Alike(ss', s)
         /\ s.save = "saved" => ss'.stage = s.stage
         /\ run' # NoRun => ss'.status = "running" /\ ss'.stage = "running"
<1> DEFINE d == Redirected(s)
<1>1. DOMAIN d = Fields /\ Alike(d, s) /\ (s.save = "saved" => d.stage = s.stage)
  BY DEF Redirected, Alike, Fields
<1>2. DOMAIN Aimed(d) = Fields /\ Alike(Aimed(d), d) /\ Aimed(d).stage = d.stage
  <2> HIDE DEF d
  <2> QED BY <1>1 DEF Aimed, Alike, Fields
<1>3. CASE Starts(d)
  <2>1. ss' = d
    BY <1>3 DEF Rerun
  <2> QED BY <1>1, <1>3, <2>1 DEF Starts
<1>4. CASE ~Starts(d)
  <2>1. ss' = Aimed(d) /\ run' = NoRun
    BY <1>4 DEF Rerun
  <2> HIDE DEF d
  <2> QED BY <1>1, <1>2, <2>1 DEF Alike
<1> QED BY <1>3, <1>4

(* A step that counts no analysis and records none: what was open stays open, *)
(* or is given up.                                                            *)
LEMMA SessionStep ==
  ASSUME WizardInv, NEW s, Rerun(s), Sound(s, latest, history),
         Open(s) \in {Open(ss), 0}, latest' = latest, history' = history
  PROVE  KeepsPromise
<1>1. /\ DOMAIN ss' = Fields /\ Alike(ss', s)
      /\ s.save = "saved" => ss'.stage = s.stage
      /\ run' # NoRun => ss'.status = "running" /\ ss'.stage = "running"
  BY RerunKeeps DEF Sound
<1>2. Reviewable(ss') = Reviewable(s) /\ Open(ss') = Open(s)
  BY <1>1 DEF Alike, Reviewable, Open
<1>3. Sound(ss', latest, history)
  BY <1>1, <1>2 DEF Sound, Alike
<1>4. WizardInv'
  BY <1>1, <1>3 DEF WizardInv, Sound, Reviewable
<1>5. [Ledger!LNext]_(Ledger!ledger)
  <2>1. CASE Open(s) = Open(ss)
    BY <1>2, <2>1 DEF Ledger!ledger, Open
  <2>2. CASE Open(ss) # 0 /\ Open(s) = 0
    BY <1>2, <2>2 DEF Ledger!LNext, Ledger!Discard, Open
  <2> QED BY <2>1, <2>2
<1> QED BY <1>4, <1>5 DEF KeepsPromise

\* Written, field by field: each field is the old one or the new one.
LEMMA WrittenFields ==
  ASSUME NEW s, DOMAIN s = Fields, NEW t, NEW order, NEW k
  PROVE  /\ DOMAIN Written(s, t, order, k) = Fields
         /\ \A f \in Fields :
              Written(s, t, order, k)[f] = IF \E n \in 1..k : order[n] = f THEN t[f] ELSE s[f]
BY DEF Written

\* A handler that leaves those fields alone.
LEMMA QuietStep ==
  ASSUME WizardInv, NEW t, NEW order, Handle(t, order), Alike(t, ss),
         ss.save = "saved" => t.stage = ss.stage
  PROVE  KeepsPromise
<1>1. PICK k \in Reached(Len(order)) : Rerun(Written(ss, t, order, k))
  BY DEF Handle
<1> DEFINE s == Written(ss, t, order, k)
<1>2. DOMAIN ss = Fields
  BY DEF WizardInv, Sound
<1>3. DOMAIN s = Fields /\ \A f \in Fields : s[f] \in {ss[f], t[f]}
  BY <1>2, WrittenFields
<1> HIDE DEF s
<1>4. Alike(s, ss) /\ (ss.save = "saved" => s.stage = ss.stage)
  BY <1>3 DEF Alike, Fields
<1>5. Reviewable(s) = Reviewable(ss) /\ Open(s) = Open(ss)
  BY <1>4 DEF Alike, Reviewable, Open
<1>6. Sound(s, latest, history)
  BY <1>3, <1>4, <1>5 DEF WizardInv, Sound, Alike
<1>7. latest' = latest /\ history' = history
  BY DEF Handle, stores
<1> QED BY <1>1, <1>5, <1>6, <1>7, SessionStep DEF s

\* A session that gives its results up, when nothing can be reviewed in it.
LEMMA GivenUp ==
  ASSUME WizardInv, NEW s, DOMAIN s = Fields, Rerun(s), ~Reviewable(s),
         latest' = latest, history' = history,
         s.save = "saved" => /\ s.stage = "review" /\ s.savedRec # 0
                             /\ s.results.run \in {0, s.savedRec}
  PROVE  KeepsPromise
<1>1. Sound(s, latest, history) /\ Open(s) = 0
  BY DEF Sound, Open
<1> QED BY <1>1, SessionStep

LEMMA GoStep ==
  ASSUME WizardInv, NEW stage, Go(stage), ss.save # "saved"
  PROVE  KeepsPromise
<1>1. Alike([ss EXCEPT !.stage = stage], ss)
  BY DEF WizardInv, Sound, Alike, Fields
<1> QED BY <1>1, QuietStep DEF Go

\* Away from the review nothing is shown as saved.
LEMMA NotSaved ==
  ASSUME WizardInv, NEW stage, On(stage), stage # "review"
  PROVE  ss.save # "saved"
BY DEF WizardInv, Sound, On

\* The page after saving is the only one that comes with a saved status.
LEMMA NotSavedInReview ==
  ASSUME WizardInv, ~SavedScreen(ss)
  PROVE  ss.save # "saved"
BY DEF WizardInv, Sound, SavedScreen

LEMMA SetupAndPhotos ==
  ASSUME WizardInv
  PROVE  /\ \A i \in Setups : ChooseInventory(i) => KeepsPromise
         /\ \A p \in Photos : AddPhoto(p) \/ RemovePhoto(p) => KeepsPromise
         /\ SetupNext \/ PhotosBack \/ AnalyzeBack => KeepsPromise
<1>0. DOMAIN ss = Fields
  BY DEF WizardInv, Sound
<1>1. ASSUME NEW i \in Setups, ChooseInventory(i) PROVE KeepsPromise
  <2>1. Alike([ss EXCEPT !.form.setup = i], ss)
    BY <1>0 DEF Alike, Fields
  <2>2. ss.save # "saved"
    BY <1>1, NotSaved DEF ChooseInventory
  <2> QED BY <1>1, <2>1, <2>2, QuietStep DEF ChooseInventory
<1>2. ASSUME NEW p \in Photos, AddPhoto(p) PROVE KeepsPromise
  <2>1. Alike([ss EXCEPT !.photos = Append(@, p)], ss)
    BY <1>0 DEF Alike, Fields
  <2>2. ss.save # "saved"
    BY <1>2, NotSaved DEF AddPhoto
  <2> QED BY <1>2, <2>1, <2>2, QuietStep DEF AddPhoto
<1>3. ASSUME NEW p \in Photos, RemovePhoto(p) PROVE KeepsPromise
  <2>1. Alike([ss EXCEPT !.photos = Among(@, Photos \ {p})], ss)
    BY <1>0 DEF Alike, Fields
  <2>2. ss.save # "saved"
    BY <1>3, NotSaved DEF RemovePhoto
  <2> QED BY <1>3, <2>1, <2>2, QuietStep DEF RemovePhoto
<1>4. ASSUME SetupNext \/ PhotosBack \/ AnalyzeBack PROVE KeepsPromise
  BY <1>4, NotSaved, GoStep DEF SetupNext, PhotosBack, AnalyzeBack
<1> QED BY <1>1, <1>2, <1>3, <1>4

\* The fields of Cleared are written status first, and save before savedRec.
LEMMA ClearedStep ==
  ASSUME WizardInv, ss.save # "saved", NEW t, t.status = "idle", t.save = "idle",
         t.results = NoResults, NEW order, Handle(t, order),
         order \in {<<"status", "results", "save", "savedRec", "stage">>,
                    <<"status", "results", "save", "savedRec", "cache", "stage">>}
  PROVE  KeepsPromise
<1>1. PICK k \in Reached(Len(order)) : Rerun(Written(ss, t, order, k))
  BY DEF Handle
<1> DEFINE s == Written(ss, t, order, k)
<1>2. DOMAIN ss = Fields /\ k \in Nat
  BY DEF WizardInv, Sound, Reached
<1>3. /\ DOMAIN s = Fields
      /\ \A f \in Fields : s[f] = IF \E n \in 1..k : order[n] = f THEN t[f] ELSE ss[f]
  BY <1>2, WrittenFields
<1>4. latest' = latest /\ history' = history
  BY DEF Handle, stores
<1> HIDE DEF s
<1>5. CASE k = 0
  <2>1. \A f \in Fields : s[f] = ss[f]
    BY <1>3, <1>5
  <2>2. Reviewable(s) = Reviewable(ss) /\ Open(s) = Open(ss) /\ Sound(s, latest, history)
    BY <1>3, <2>1 DEF WizardInv, Sound, Reviewable, Open, Fields
  <2> QED BY <1>1, <1>4, <2>2, SessionStep DEF s
<1>6. CASE k # 0
  <2>1. s.status = "idle"
    <3>1. 1 \in 1..k /\ order[1] = "status"
      BY <1>2, <1>6
    <3> QED BY <1>3, <3>1 DEF Fields
  <2>2. s.save \in {ss.save, "idle"}
    BY <1>3 DEF Fields
  <2> QED BY <1>1, <1>3, <1>4, <2>1, <2>2, GivenUp DEF s, Reviewable
<1> QED BY <1>5, <1>6
LEMMA AnalyseAndRunning ==
  ASSUME WizardInv
  PROVE  /\ PhotosNext => KeepsPromise
         /\ \A sel \in Selections(Selectable) : GoToRunning(sel) \/ RunAnalysis(sel) => KeepsPromise
         /\ RunningBack \/ RunningNext => KeepsPromise
<1>0. DOMAIN ss = Fields
  BY DEF WizardInv, Sound
<1>1. ASSUME PhotosNext PROVE KeepsPromise
  <2>1. ss.save # "saved"
    BY <1>1, NotSaved DEF PhotosNext
  <2>2. CASE ss.status \in {"complete", "partial"}
    <3> DEFINE t == [Cleared(ss) EXCEPT !.stage = "analyze"]
    <3>1. t.status = "idle" /\ t.save = "idle" /\ t.results = NoResults
      BY <1>0 DEF Cleared, Fields
    <3>2. Handle(t, <<"status", "results", "save", "savedRec", "stage">>)
      BY <1>1, <2>2 DEF PhotosNext
    <3> HIDE DEF t
    <3> QED BY <2>1, <3>1, <3>2, ClearedStep
  <2>3. CASE ss.status \notin {"complete", "partial"}
    BY <1>1, <2>1, <2>3, GoStep DEF PhotosNext
  <2> QED BY <2>2, <2>3
<1>2. ASSUME NEW sel \in Selections(Selectable), GoToRunning(sel) PROVE KeepsPromise
  <2>1. Alike([ss EXCEPT !.form.models = sel, !.stage = "running"], ss)
    BY <1>0 DEF Alike, Fields
  <2>2. ss.save # "saved"
    BY <1>2, NotSaved DEF GoToRunning
  <2> QED BY <1>2, <2>1, <2>2, QuietStep DEF GoToRunning
<1>3. ASSUME NEW sel \in Selections(Selectable), RunAnalysis(sel) PROVE KeepsPromise
  <2> DEFINE t == [ss EXCEPT !.form.models = sel, !.ctx = ss.form.setup, !.running = TRUE,
                             !.status = "running", !.executing = FALSE, !.stage = "running"]
             order == <<"form", "ctx", "running", "status", "executing", "stage">>
  <2>1. PICK k \in Reached(Len(order)) : Rerun(Written(ss, t, order, k))
    BY <1>3 DEF RunAnalysis, Handle
  <2>2. ss.save # "saved" /\ ss.status = "idle" /\ latest' = latest /\ history' = history
    BY <1>3, NotSaved DEF RunAnalysis, Handle, stores
  <2>3. t.status = "running" /\ t.save = ss.save
    BY <1>0 DEF Fields
  <2> DEFINE s == Written(ss, t, order, k)
  <2>4. DOMAIN s = Fields /\ \A f \in Fields : s[f] \in {ss[f], t[f]}
    <3> HIDE DEF t, order
    <3> QED BY <1>0, WrittenFields
  <2> HIDE DEF s, t, order
  <2>5. s.status \in {"idle", "running"} /\ s.save # "saved"
    BY <2>2, <2>3, <2>4 DEF Fields
  <2> QED BY <2>1, <2>2, <2>4, <2>5, GivenUp DEF s, Reviewable
<1>4. ASSUME RunningBack PROVE KeepsPromise
  <2>1. ss.save # "saved"
    BY <1>4, NotSaved DEF RunningBack
  <2>2. CASE Shows("error")
    <3> DEFINE t == [ss EXCEPT !.status = "idle", !.running = FALSE, !.stage = "analyze"]
               order == <<"status", "running", "stage">>
    <3>1. PICK k \in Reached(Len(order)) : Rerun(Written(ss, t, order, k))
      BY <1>4, <2>2 DEF RunningBack, Handle
    <3>2. ss.status = "error" /\ latest' = latest /\ history' = history
      BY <1>4, <2>2 DEF RunningBack, Shows, Handle, stores
    <3>3. t.status = "idle" /\ t.save = ss.save
      BY <1>0 DEF Fields
    <3> DEFINE s == Written(ss, t, order, k)
    <3>4. DOMAIN s = Fields /\ \A f \in Fields : s[f] \in {ss[f], t[f]}
      <4> HIDE DEF t, order
      <4> QED BY <1>0, WrittenFields
    <3> HIDE DEF s, t, order
    <3>5. s.status \in {"idle", "error"} /\ s.save # "saved"
      BY <2>1, <3>2, <3>3, <3>4 DEF Fields
    <3> QED BY <3>1, <3>2, <3>4, <3>5, GivenUp DEF s, Reviewable
  <2>3. CASE ~Shows("error")
    BY <1>4, <2>1, <2>3, GoStep DEF RunningBack
  <2> QED BY <2>2, <2>3
<1>5. ASSUME RunningNext PROVE KeepsPromise
  BY <1>5, NotSaved, GoStep DEF RunningNext
<1> QED BY <1>1, <1>2, <1>3, <1>4, <1>5

(* Steps of the analysis itself.                                            *)
LEMMA RunStep ==
  ASSUME WizardInv, run # NoRun \/ run' = NoRun, DOMAIN ss' = Fields, Alike(ss', ss), ss'.stage = ss.stage,
         latest' = latest, history' = history
  PROVE  KeepsPromise
<1>1. Reviewable(ss') = Reviewable(ss) /\ Open(ss') = Open(ss)
  BY DEF Alike, Reviewable, Open
<1>2. WizardInv'
  BY <1>1 DEF WizardInv, Sound, Alike
<1> QED BY <1>1, <1>2 DEF KeepsPromise, Ledger!ledger, Open

LEMMA PhotoByPhoto ==
  ASSUME WizardInv
  PROVE  /\ Start \/ TakeCached \/ SkipPhoto \/ Predict \/ Register => KeepsPromise
         /\ \A ok \in BOOLEAN : Store(ok) => KeepsPromise
<1>0. DOMAIN ss = Fields
  BY DEF WizardInv, Sound
<1>1. ASSUME Start PROVE KeepsPromise
  <2>1. DOMAIN ss' = Fields /\ Alike(ss', ss) /\ ss'.stage = ss.stage
    BY <1>0, <1>1 DEF Start, Alike, Fields
  <2> QED BY <1>1, <2>1, RunStep DEF Start, At, NoRun, stores
<1>2. ASSUME TakeCached \/ SkipPhoto \/ Predict \/ Register PROVE KeepsPromise
  BY <1>0, <1>2, RunStep DEF TakeCached, SkipPhoto, Predict, Register, At, NoRun, stores, Alike
<1>3. ASSUME NEW ok \in BOOLEAN, Store(ok) PROVE KeepsPromise
  <2>1. DOMAIN ss' = Fields /\ Alike(ss', ss) /\ ss'.stage = ss.stage
    BY <1>0, <1>3 DEF Store, Alike, Fields
  <2> QED BY <1>3, <2>1, RunStep DEF Store, At, NoRun, stores
<1> QED BY <1>1, <1>2, <1>3

LEMMA OtherTabStep ==
  ASSUME WizardInv, NEW m, OtherTab(m)
  PROVE  KeepsPromise
BY DEF OtherTab, KeepsPromise, WizardInv, Sound, Reviewable, Ledger!ledger

\* The finally clause touches none of those fields.
LEMMA ReleasedKeeps ==
  ASSUME NEW s, DOMAIN s = Fields, NEW j
  PROVE  DOMAIN Released(s, j) = Fields /\ Alike(Released(s, j), s) /\ Released(s, j).stage = s.stage
<1> DEFINE t == [s EXCEPT !.executing = FALSE, !.running = FALSE]
<1>1. \A f \in Fields \ {"executing", "running"} : t[f] = s[f]
  BY DEF Fields
<1> HIDE DEF t
<1>2. /\ DOMAIN Written(s, t, <<"executing", "running">>, j) = Fields
      /\ \A f \in Fields : Written(s, t, <<"executing", "running">>, j)[f] \in {s[f], t[f]}
  BY WrittenFields
<1> QED BY <1>1, <1>2 DEF Released, Alike, Fields, t

LEMMA NudgeStep ==
  ASSUME WizardInv, Nudge
  PROVE  KeepsPromise
<1>1. PICK s \in Halted : Rerun(s)
  BY DEF Nudge
<1>2. DOMAIN s = Fields /\ Alike(s, ss) /\ s.stage = ss.stage
  BY ReleasedKeeps DEF Halted, WizardInv, Sound
<1>3. Reviewable(s) = Reviewable(ss) /\ Open(s) = Open(ss) /\ Sound(s, latest, history)
  BY <1>2 DEF Alike, Reviewable, Open, WizardInv, Sound
<1> QED BY <1>1, <1>3, SessionStep DEF Nudge, stores
(* The results are written before the status, so that a status that offers   *)
(* the review is about the new results.                                      *)
LEMMA FinishStep ==
  ASSUME WizardInv, Finish
  PROVE  KeepsPromise
<1> DEFINE order == <<"results", "edits", "status", "accepted">>
<1>1. PICK k \in Reached(4), j \in Reached(2) : Rerun(Released(Written(ss, Finished, order, k), j))
  BY DEF Finish
<1> DEFINE w == Written(ss, Finished, order, k)
           s == Released(w, j)
<1>2. /\ ss.status = "running" /\ ss.save # "saved" /\ DOMAIN ss = Fields
      /\ latest' = latest + 1 /\ history' = history /\ k \in Nat
  BY DEF Finish, At, NoRun, WizardInv, Sound, Reached
<1>3. /\ Finished.results.run = latest + 1 /\ Finished.edits = 0 /\ Finished.save = ss.save
      /\ Finished.stage = ss.stage
  BY <1>2 DEF Finished, Fields
<1>4. /\ DOMAIN w = Fields
      /\ \A f \in Fields : w[f] = IF \E n \in 1..k : order[n] = f THEN Finished[f] ELSE ss[f]
  <2> HIDE DEF order
  <2> QED BY <1>2, WrittenFields
<1>5. w.save = ss.save /\ w.stage = ss.stage
  BY <1>3, <1>4 DEF Fields
<1>6. Reviewable(w) => w.results.run = latest + 1 /\ w.edits = 0
  <2> SUFFICES ASSUME Reviewable(w) PROVE w.results.run = latest + 1 /\ w.edits = 0
    OBVIOUS
  <2>1. k >= 3
    <3>1. w.status # ss.status
      BY <1>2 DEF Reviewable
    <3>2. PICK n \in 1..k : order[n] = "status"
      BY <1>4, <3>1 DEF Fields
    <3> QED BY <1>2, <3>2
  <2>2. 1 \in 1..k /\ 2 \in 1..k /\ order[1] = "results" /\ order[2] = "edits"
    BY <1>2, <2>1
  <2> QED BY <1>3, <1>4, <2>2 DEF Fields
<1> HIDE DEF w
<1>7. DOMAIN s = Fields /\ Alike(s, w) /\ s.stage = w.stage
  BY <1>4, ReleasedKeeps
<1> HIDE DEF s
<1>8. Reviewable(s) => s.results.run = latest + 1 /\ s.edits = 0
  BY <1>6, <1>7 DEF Alike, Reviewable
<1>9. latest + 1 \notin Range(history) /\ history \in Seq(1..(latest + 1)) /\ latest \in Nat
  BY DEF WizardInv, Range
<1>10. s.save # "saved"
  BY <1>2, <1>5, <1>7 DEF Alike
<1>11. /\ DOMAIN ss' = Fields /\ Alike(ss', s)
       /\ run' # NoRun => ss'.status = "running" /\ ss'.stage = "running"
  BY <1>1, <1>7, RerunKeeps DEF s, w
<1>12. Reviewable(ss') = Reviewable(s)
  BY <1>11 DEF Alike, Reviewable
<1>13. WizardInv'
  BY <1>2, <1>8, <1>9, <1>10, <1>11, <1>12 DEF WizardInv, Sound, Alike
<1>14. Ledger!Analyse
  BY <1>2, <1>8, <1>11, <1>12 DEF Ledger!Analyse, Alike, Reviewable
<1> QED BY <1>13, <1>14 DEF KeepsPromise, Ledger!LNext

LEMMA ReviewSteps ==
  ASSUME WizardInv
  PROVE  /\ \A p \in Photos : ShowPhoto(p) => KeepsPromise
         /\ \A m \in Models : ShowModel(m) => KeepsPromise
         /\ UseThisResult \/ RerunAnalysis \/ ReviewBack => KeepsPromise
         /\ \A e \in 0..latest : Edit(e) => KeepsPromise
<1>0. DOMAIN ss = Fields /\ (Reviewing => ss.save # "saved")
  BY NotSavedInReview DEF WizardInv, Sound, Reviewing
<1>1. ASSUME NEW p \in Photos, ShowPhoto(p) PROVE KeepsPromise
  <2>1. Alike([ss EXCEPT !.active = p], ss)
    BY <1>0 DEF Alike, Fields
  <2> QED BY <1>0, <1>1, <2>1, QuietStep DEF ShowPhoto
<1>2. ASSUME NEW m \in Models, ShowModel(m) PROVE KeepsPromise
  <2>1. Alike([ss EXCEPT !.viewModel = m], ss)
    BY <1>0 DEF Alike, Fields
  <2> QED BY <1>0, <1>2, <2>1, QuietStep DEF ShowModel
<1>3. ASSUME UseThisResult PROVE KeepsPromise
  <2> DEFINE s == [ss EXCEPT !.accepted = <<ss.active, ss.viewModel>>]
  <2>1. DOMAIN s = Fields /\ Alike(s, ss) /\ s.stage = ss.stage
    BY <1>0 DEF Alike, Fields
  <2>2. Rerun(s) /\ latest' = latest /\ history' = history
    BY <1>3 DEF UseThisResult
  <2> HIDE DEF s
  <2>3. Reviewable(s) = Reviewable(ss) /\ Open(s) = Open(ss) /\ Sound(s, latest, history)
    BY <2>1 DEF Alike, Reviewable, Open, WizardInv, Sound
  <2> QED BY <2>2, <2>3, SessionStep
<1>4. ASSUME RerunAnalysis PROVE KeepsPromise
  <2> DEFINE t == [Cleared(ss) EXCEPT !.cache = {}, !.stage = "analyze"]
  <2>1. t.status = "idle" /\ t.save = "idle" /\ t.results = NoResults
    BY <1>0 DEF Cleared, Fields
  <2>2. Handle(t, <<"status", "results", "save", "savedRec", "cache", "stage">>) /\ Reviewing
    BY <1>4 DEF RerunAnalysis
  <2> HIDE DEF t
  <2> QED BY <1>0, <2>1, <2>2, ClearedStep
<1>5. ASSUME ReviewBack PROVE KeepsPromise
  BY <1>5, NotSavedInReview, GoStep DEF ReviewBack
<1>6. ASSUME NEW e \in 0..latest, Edit(e) PROVE KeepsPromise
  <2> DEFINE t == [ss EXCEPT !.edits = e]
             order == <<"edits">>
  <2>1. PICK k \in Reached(Len(order)) : Rerun(Written(ss, t, order, k))
    BY <1>6 DEF Edit, Handle
  <2>2. /\ Reviewing /\ e \in {0, ss.results.run}
        /\ latest' = latest /\ history' = history
    BY <1>6 DEF Edit, Handle, stores
  <2>3. t.edits = e /\ \A f \in Fields \ {"edits"} : t[f] = ss[f]
    BY <1>0 DEF Fields
  <2> DEFINE s == Written(ss, t, order, k)
  <2>4. DOMAIN s = Fields /\ \A f \in Fields : s[f] \in {ss[f], t[f]}
    <3> HIDE DEF t, order
    <3> QED BY <1>0, WrittenFields
  <2> HIDE DEF s, t, order
  <2>5. /\ s.status = ss.status /\ s.results = ss.results /\ s.save = ss.save
        /\ s.savedRec = ss.savedRec /\ s.stage = ss.stage /\ s.edits \in {ss.edits, e}
    BY <2>3, <2>4 DEF Fields
  <2>6. Reviewable(s) = Reviewable(ss) /\ Open(s) = Open(ss) /\ Sound(s, latest, history)
    BY <2>2, <2>4, <2>5 DEF Reviewable, Open, WizardInv, Sound
  <2> QED BY <2>1, <2>2, <2>6, SessionStep DEF s
<1> QED BY <1>1, <1>2, <1>3, <1>4, <1>5, <1>6

LEMMA SaveStep ==
  ASSUME WizardInv, Save
  PROVE  KeepsPromise
<1> DEFINE T(k) == [ss EXCEPT !.save = CASE k = 0 -> "idle" [] k = 4 -> "saved" [] OTHER -> "saving",
                              !.savedRec = IF k >= 3 THEN ss.results.run ELSE @]
<1>1. PICK k \in Reached(4) :
        /\ history' = IF k >= 2 THEN Append(history, ss.results.run) ELSE history
        /\ Rerun(T(k))
  BY DEF Save
<1>2. /\ Reviewable(ss) /\ ss.stage = "review" /\ ss.save = "idle" /\ latest' = latest
      /\ DOMAIN ss = Fields /\ k \in 0..4 /\ latest \in Nat /\ history \in Seq(1..latest)
      /\ ss.results.run \in 1..latest /\ ss.results.run \notin Range(history)
      /\ ss.edits \in {0, ss.results.run}
  BY DEF Save, Reviewing, On, WizardInv, Sound, Reached
<1> DEFINE s == T(k)
<1>3. /\ DOMAIN s = Fields /\ s.status = ss.status /\ s.results = ss.results
      /\ s.edits = ss.edits /\ s.stage = ss.stage
      /\ s.save = (CASE k = 0 -> "idle" [] k = 4 -> "saved" [] OTHER -> "saving")
      /\ s.savedRec = IF k >= 3 THEN ss.results.run ELSE ss.savedRec
  BY <1>2 DEF Fields
<1> HIDE DEF T, s
<1>4. Reviewable(s) /\ Open(s) = Open(ss) /\ Open(ss) = ss.results.run
  BY <1>2, <1>3 DEF Reviewable, Open
<1>5. CASE k < 2
  <2>1. Sound(s, latest, history)
    BY <1>2, <1>3, <1>4, <1>5 DEF Sound
  <2>2. Rerun(s) /\ history' = history
    BY <1>1, <1>2, <1>5 DEF s
  <2> QED BY <1>2, <1>4, <2>1, <2>2, SessionStep
<1>6. CASE k >= 2
  <2>1. history' = Append(history, ss.results.run) /\ Rerun(s)
    BY <1>1, <1>2, <1>6 DEF s
  <2>2. history' \in Seq(1..latest)
    BY <1>2, <2>1
  <2>3. Sound(s, latest, history')
    BY <1>2, <1>3, <1>4, <1>6 DEF Sound
  <2>4. /\ DOMAIN ss' = Fields /\ Alike(ss', s) /\ (s.save = "saved" => ss'.stage = s.stage)
        /\ run' # NoRun => ss'.status = "running" /\ ss'.stage = "running"
    BY <1>3, <2>1, RerunKeeps
  <2>5. Reviewable(ss') /\ ss'.results = ss.results
    BY <1>3, <1>4, <2>4 DEF Alike, Reviewable
  <2>6. WizardInv'
    BY <1>2, <1>4, <2>2, <2>3, <2>4, <2>5 DEF WizardInv, Sound, Alike
  <2>7. Ledger!Record
    BY <1>2, <2>1, <2>5 DEF Ledger!Record, Ledger!Range, Range
  <2> QED BY <2>6, <2>7 DEF KeepsPromise, Ledger!LNext
<1> QED BY <1>2, <1>5, <1>6
(* The status goes first and save before savedRec and the stage, wherever in  *)
(* an analysis the reset falls.                                              *)
LEMMA ResetStep ==
  ASSUME WizardInv, Reset
  PROVE  KeepsPromise
<1> DEFINE order == <<"form", "photos", "status", "results", "accepted", "edits", "save",
                      "savedRec", "running", "executing", "cache", "active", "viewModel",
                      "ctx", "stage">>
<1>1. PICK k \in Reached(15), h \in Halted : Rerun(Written(h, Fresh, order, k))
  BY DEF Reset
<1>2. /\ DOMAIN h = Fields /\ Alike(h, ss) /\ h.stage = ss.stage
      /\ latest' = latest /\ history' = history /\ k \in 0..15
  BY ReleasedKeeps DEF Halted, WizardInv, Sound, Reset, stores, Reached
<1> DEFINE s == Written(h, Fresh, order, k)
<1>3. /\ DOMAIN s = Fields
      /\ \A f \in Fields : s[f] = IF \E n \in 1..k : order[n] = f THEN Fresh[f] ELSE h[f]
  <2> HIDE DEF order
  <2> QED BY <1>2, WrittenFields
<1>4. Fresh.status = "idle" /\ Fresh.save = "idle" /\ Fresh.results.run = 0
  BY DEF Fresh, InitSession, NoResults
<1> HIDE DEF s
<1>5. CASE k < 3
  <2>1. Alike(s, h) /\ s.stage = h.stage
    BY <1>2, <1>3, <1>5 DEF Alike, Fields
  <2>2. Reviewable(s) = Reviewable(ss) /\ Open(s) = Open(ss) /\ Sound(s, latest, history)
    BY <1>2, <1>3, <2>1 DEF Alike, Reviewable, Open, WizardInv, Sound
  <2> QED BY <1>1, <1>2, <2>2, SessionStep DEF s
<1>6. CASE k >= 3
  <2>1. s.status = "idle"
    <3>1. 3 \in 1..k /\ order[3] = "status"
      BY <1>2, <1>6
    <3> QED BY <1>3, <1>4, <3>1 DEF Fields
  <2>2. CASE k < 7
    <3>1. s.save = h.save /\ s.savedRec = h.savedRec /\ s.stage = h.stage
      BY <1>2, <1>3, <2>2 DEF Fields
    <3>2. s.results.run \in {0, h.results.run}
      BY <1>3, <1>4 DEF Fields
    <3>3. s.save = "saved" => /\ s.stage = "review" /\ s.savedRec # 0
                              /\ s.results.run \in {0, s.savedRec}
      BY <1>2, <3>1, <3>2 DEF WizardInv, Sound, Alike
    <3> QED BY <1>1, <1>2, <1>3, <2>1, <3>3, GivenUp DEF s, Reviewable
  <2>3. CASE k >= 7
    <3>1. 7 \in 1..k /\ order[7] = "save"
      BY <1>2, <2>3
    <3>2. s.save = "idle"
      BY <1>3, <1>4, <3>1 DEF Fields
    <3> QED BY <1>1, <1>2, <1>3, <2>1, <3>2, GivenUp DEF s, Reviewable
  <2> QED BY <1>2, <2>2, <2>3
<1> QED BY <1>2, <1>5, <1>6

LEMMA WizardStep == WizardInv /\ [Next]_wizardVars => KeepsPromise
<1> SUFFICES ASSUME WizardInv, [Next]_wizardVars PROVE KeepsPromise
  OBVIOUS
<1>1. CASE \/ \E i \in Setups : ChooseInventory(i)
           \/ \E p \in Photos : AddPhoto(p) \/ RemovePhoto(p)
           \/ SetupNext \/ PhotosBack \/ AnalyzeBack
  BY <1>1, SetupAndPhotos
<1>2. CASE \/ PhotosNext \/ RunningBack \/ RunningNext
           \/ \E sel \in Selections(Selectable) : GoToRunning(sel) \/ RunAnalysis(sel)
  BY <1>2, AnalyseAndRunning
<1>3. CASE Analysis
  BY <1>3, PhotoByPhoto, FinishStep DEF Analysis
<1>4. CASE \/ \E p \in Photos : ShowPhoto(p)
           \/ \E m \in Models : ShowModel(m)
           \/ UseThisResult \/ RerunAnalysis \/ ReviewBack
           \/ \E e \in 0..latest : Edit(e)
  BY <1>4, ReviewSteps
<1>5. CASE Save \/ Reset \/ Nudge \/ \E m \in Models : OtherTab(m)
  BY <1>5, SaveStep, ResetStep, NudgeStep, OtherTabStep
<1>6. CASE UNCHANGED wizardVars
  BY <1>6 DEF wizardVars, KeepsPromise, WizardInv, Sound, Reviewable, Ledger!ledger
<1> QED BY <1>1, <1>2, <1>3, <1>4, <1>5, <1>6 DEF Next

LEMMA WizardInductive == Spec => []WizardInv
<1>1. WizardInv /\ [Next]_wizardVars => WizardInv'
  BY WizardStep DEF KeepsPromise
<1> QED BY <1>1, WizardInvInit, PTL DEF Spec

\* The wizard implements InventoryLedger: _save_inventory records the analysis
\* that is open for review, never twice, however often the user clicks and
\* wherever a click stops a handler or an analysis.
THEOREM WizardImplementsLedger == Spec => KeepsLedger
<1>1. Init => Ledger!LInit
  BY DEF Init, Ledger!LInit, InitSession, Reviewable
<1>2. WizardInv /\ [Next]_wizardVars => [Ledger!LNext]_(Ledger!ledger)
  BY WizardStep DEF KeepsPromise
<1> QED BY <1>1, <1>2, WizardInductive, PTL DEF Spec, KeepsLedger, Ledger!LSpec

\* The exclusions, labels and markers that the review counts were made on the
\* results it shows (review_edits of app.py).
THEOREM EditsStayWithResults == Spec => []EditsOfTheseResults
<1>1. WizardInv => EditsOfTheseResults
  BY DEF WizardInv, Sound, EditsOfTheseResults
<1> QED BY <1>1, WizardInductive, PTL

\* Saved successfully is shown for the results that were saved, or for none.
THEOREM SavedPageIsHonest == Spec => []SavedIsTheseResults
<1>1. WizardInv => SavedIsTheseResults
  BY DEF WizardInv, Sound, SavedIsTheseResults, SavedScreen
<1> QED BY <1>1, WizardInductive, PTL

----------------------------------------------------------------------------
(* What the ledger's promise gives for the history.                         *)

\* The history holds each analysis at most once, in the order they were made.
HistoryAscends ==
  \A i, j \in DOMAIN history : i < j => history[i] < history[j]

LedgerInv ==
  /\ latest \in Nat
  /\ Open(ss) \in {0, latest}
  /\ history \in Seq(1..latest)
  /\ HistoryAscends

LEMMA LedgerInvInit == Ledger!LInit => LedgerInv
BY DEF Ledger!LInit, LedgerInv, HistoryAscends, Open

LEMMA LedgerInvStep == LedgerInv /\ [Ledger!LNext]_(Ledger!ledger) => LedgerInv'
<1> SUFFICES ASSUME LedgerInv, [Ledger!LNext]_(Ledger!ledger) PROVE LedgerInv'
  OBVIOUS
<1>0. /\ latest \in Nat /\ Open(ss) \in {0, latest} /\ history \in Seq(1..latest) /\ HistoryAscends
  BY DEF LedgerInv
<1>1. CASE Ledger!Analyse
  <2>1. latest' = latest + 1 /\ Open(ss)' \in {0, latest'} /\ history' = history
    BY <1>1 DEF Ledger!Analyse, Open
  <2>2. history' \in Seq(1..latest')
    BY <1>0, <2>1
  <2>3. HistoryAscends'
    BY <1>0, <2>1 DEF HistoryAscends
  <2> QED BY <1>0, <2>1, <2>2, <2>3 DEF LedgerInv
<1>2. CASE Ledger!Discard
  <2>1. latest' = latest /\ Open(ss)' = 0 /\ history' = history
    BY <1>2 DEF Ledger!Discard, Open
  <2> QED BY <1>0, <2>1 DEF LedgerInv, HistoryAscends
<1>3. CASE Ledger!Record
  <2>1. /\ Open(ss) # 0 /\ Open(ss) \notin Range(history)
        /\ history' = Append(history, Open(ss)) /\ latest' = latest /\ Open(ss)' = Open(ss)
    BY <1>3 DEF Ledger!Record, Ledger!Range, Range, Open
  <2>2. Open(ss) = latest /\ latest \in 1..latest
    BY <1>0, <2>1
  <2>3. history' \in Seq(1..latest')
    BY <1>0, <2>1, <2>2
  <2>4. ASSUME NEW i \in DOMAIN history PROVE history[i] < latest
    <3>1. history[i] \in 1..latest
      BY <1>0
    <3>2. history[i] # latest
      BY <2>1, <2>2 DEF Range
    <3> QED BY <1>0, <3>1, <3>2
  <2>5. HistoryAscends'
    <3> SUFFICES ASSUME NEW i \in DOMAIN history', NEW j \in DOMAIN history', i < j
                 PROVE history'[i] < history'[j]
      BY DEF HistoryAscends
    <3>1. DOMAIN history' = 1..(Len(history) + 1) /\ DOMAIN history = 1..Len(history)
      BY <1>0, <2>1
    <3>2. i \in DOMAIN history /\ history'[i] = history[i]
      BY <1>0, <2>1, <3>1
    <3>3. CASE j = Len(history) + 1
      BY <1>0, <2>1, <2>2, <2>4, <3>2, <3>3
    <3>4. CASE j # Len(history) + 1
      <4>1. j \in DOMAIN history /\ history'[j] = history[j]
        BY <1>0, <2>1, <3>1, <3>4
      <4> QED BY <1>0, <3>2, <4>1 DEF HistoryAscends
    <3> QED BY <3>3, <3>4
  <2> QED BY <1>0, <2>1, <2>2, <2>3, <2>5 DEF LedgerInv
<1>4. CASE UNCHANGED Ledger!ledger
  <2>1. latest' = latest /\ Open(ss)' = Open(ss) /\ history' = history
    BY <1>4 DEF Ledger!ledger, Open
  <2> QED BY <1>0, <2>1 DEF LedgerInv, HistoryAscends
<1> QED BY <1>1, <1>2, <1>3, <1>4 DEF Ledger!LNext

\* No analysis is in the history twice, nor after one that was made later:
\* what _save_inventory inserts for one session, from the ledger's promise.
THEOREM LedgerRecordsAscend == Spec => []HistoryAscends
<1>1. Ledger!LSpec => []LedgerInv
  BY LedgerInvInit, LedgerInvStep, PTL DEF Ledger!LSpec
<1>2. LedgerInv => HistoryAscends
  BY DEF LedgerInv
<1> QED BY <1>1, <1>2, WizardImplementsLedger, PTL DEF KeepsLedger

----------------------------------------------------------------------------
(* Charged runs.                                                            *)

\* Between a prediction and its count, one run is asked for and not counted.
Uncounted(m) == IF At("register") /\ Pair[2] = m THEN 1 ELSE 0

RunShape ==
  run # NoRun /\ ~At("start") => DOMAIN run = {"at", "todo", "got", "failed", "photos", "setup", "models"}

UsageInv ==
  /\ usage \in [Limited -> Nat] /\ asked \in [Limited -> Nat]
  /\ \A m \in Limited : usage[m] + Uncounted(m) <= asked[m]
  /\ RunShape

\* The run of the script after a handler is never in the middle of an analysis.
LEMMA RerunIsNoRegister ==
  ASSUME NEW s, Rerun(s) PROVE ~At("register")' /\ RunShape'
BY DEF Rerun, At, NoRun, RunShape

\* Steps that ask for nothing and count nothing.
LEMMA NotCharged ==
  ASSUME UsageInv, usage' = usage, asked' = asked, ~At("register")', RunShape'
  PROVE  UsageInv'
BY DEF UsageInv, Uncounted

\* A prediction is billed to its model alone, when that is limited.
LEMMA BilledOnce ==
  ASSUME NEW c \in [Limited -> Nat], NEW m
  PROVE  /\ Billed(c, m) \in [Limited -> Nat]
         /\ \A l \in Limited : Billed(c, m)[l] = IF l = m THEN c[l] + 1 ELSE c[l]
BY DEF Billed

LEMMA UsageStep == UsageInv /\ [Next]_wizardVars => UsageInv'
<1> SUFFICES ASSUME UsageInv, [Next]_wizardVars PROVE UsageInv'
  OBVIOUS
<1>1. CASE \/ \E i \in Setups : ChooseInventory(i)
           \/ \E p \in Photos : AddPhoto(p) \/ RemovePhoto(p) \/ ShowPhoto(p)
           \/ SetupNext \/ PhotosNext \/ PhotosBack \/ AnalyzeBack
           \/ \E sel \in Selections(Selectable) : GoToRunning(sel) \/ RunAnalysis(sel)
           \/ RunningBack \/ RunningNext \/ \E m \in Models : ShowModel(m)
           \/ \E e \in 0..latest : Edit(e)
           \/ RerunAnalysis \/ ReviewBack
  <2>1. \E t, order : Handle(t, order)
    BY <1>1 DEF ChooseInventory, AddPhoto, RemovePhoto, ShowPhoto, SetupNext, PhotosNext,
         PhotosBack, AnalyzeBack, GoToRunning, RunAnalysis, RunningBack, RunningNext,
         ShowModel, Edit, RerunAnalysis, ReviewBack, Go
  <2> QED BY <2>1, RerunIsNoRegister, NotCharged DEF Handle, stores
<1>2. CASE Nudge \/ UseThisResult \/ Save \/ Reset \/ Finish
  <2>1. (\E s : Rerun(s)) /\ usage' = usage /\ asked' = asked
    BY <1>2 DEF Nudge, UseThisResult, Save, Reset, Finish, stores
  <2> QED BY <2>1, RerunIsNoRegister, NotCharged
<1>3. CASE Start
  <2>1. ~At("register")' /\ RunShape' /\ usage' = usage /\ asked' = asked
    BY <1>3 DEF Start, At, NoRun, Begun, RunShape, stores
  <2> QED BY <2>1, NotCharged
<1>4. CASE TakeCached \/ SkipPhoto
  <2>1. ~At("register")' /\ RunShape' /\ usage' = usage /\ asked' = asked
    BY <1>4 DEF TakeCached, SkipPhoto, At, NoRun, RunShape, UsageInv, stores
  <2> QED BY <2>1, NotCharged
<1>5. ASSUME NEW ok \in BOOLEAN, Store(ok) PROVE UsageInv'
  <2>1. ~At("register")' /\ RunShape' /\ usage' = usage /\ asked' = asked
    BY <1>5 DEF Store, At, NoRun, RunShape, UsageInv, stores
  <2> QED BY <2>1, NotCharged
<1>6. CASE Predict
  <2>1. /\ asked' = Billed(asked, Pair[2]) /\ usage' = usage /\ ~At("register")
        /\ RunShape' /\ run'.todo = run.todo
    BY <1>6 DEF Predict, At, NoRun, RunShape, UsageInv
  <2>2. Uncounted(Pair[2])' \in {0, 1} /\ \A m : m # Pair[2] => Uncounted(m)' = 0
    BY <2>1 DEF Uncounted, Pair
  <2>3. \A m \in Limited : usage'[m] + Uncounted(m)' <= asked'[m]
    <3> SUFFICES ASSUME NEW m \in Limited PROVE usage'[m] + Uncounted(m)' <= asked'[m]
      OBVIOUS
    <3>1. usage[m] <= asked[m]
      BY <2>1 DEF UsageInv, Uncounted
    <3>2. asked'[m] = IF m = Pair[2] THEN asked[m] + 1 ELSE asked[m]
      BY <2>1, BilledOnce DEF UsageInv
    <3>3. Uncounted(m)' = 0 \/ (m = Pair[2] /\ Uncounted(m)' = 1)
      BY <2>2 DEF Uncounted
    <3> QED BY <2>1, <3>1, <3>2, <3>3 DEF UsageInv
  <2> QED BY <2>1, <2>3, BilledOnce DEF UsageInv
<1>7. CASE Register
  <2>1. /\ asked' = asked /\ usage' \in {usage, Billed(usage, Pair[2])}
        /\ At("register") /\ RunShape' /\ ~At("register")'
    BY <1>7 DEF Register, At, NoRun, RunShape, UsageInv
  <2>2. \A m \in Limited : usage'[m] <= asked'[m]
    <3> SUFFICES ASSUME NEW m \in Limited PROVE usage'[m] <= asked'[m]
      OBVIOUS
    <3>1. usage[m] + (IF Pair[2] = m THEN 1 ELSE 0) <= asked[m]
      BY <2>1 DEF UsageInv, Uncounted
    <3>2. usage'[m] \in {usage[m], usage[m] + (IF Pair[2] = m THEN 1 ELSE 0)}
      BY <2>1, BilledOnce DEF UsageInv
    <3> QED BY <2>1, <3>1, <3>2 DEF UsageInv
  <2>3. usage' \in [Limited -> Nat]
    BY <2>1, BilledOnce DEF UsageInv
  <2> QED BY <2>1, <2>2, <2>3 DEF UsageInv, Uncounted
<1>8. ASSUME NEW m \in Models, OtherTab(m) PROVE UsageInv'
  <2>1. /\ asked' = Billed(asked, m) /\ usage' = Billed(usage, m) /\ run' = run
    BY <1>8 DEF OtherTab
  <2>2. RunShape' /\ \A l : Uncounted(l)' = Uncounted(l) /\ Uncounted(l) \in {0, 1}
    BY <2>1 DEF RunShape, At, NoRun, Uncounted, Pair, UsageInv
  <2>3. \A l \in Limited : usage'[l] + Uncounted(l)' <= asked'[l]
    BY <2>1, <2>2, BilledOnce DEF UsageInv
  <2> QED BY <2>1, <2>2, <2>3, BilledOnce DEF UsageInv
<1>9. CASE UNCHANGED wizardVars
  BY <1>9 DEF wizardVars, UsageInv, RunShape, Uncounted, At, NoRun, Pair
<1> QED BY <1>1, <1>2, <1>3, <1>4, <1>5, <1>6, <1>7, <1>8, <1>9 DEF Next, Analysis

\* A click that stops a script, and a count that the database fails, loses one
\* run at most.
ChargeInv ==
  /\ UsageInv /\ faults \in Nat
  /\ \A m \in Limited : asked[m] <= usage[m] + Uncounted(m) + faults

\* Steps that ask for nothing and count nothing, and give up a run that was
\* asked for only when a fault is noted.
LEMMA NotForgotten ==
  ASSUME ChargeInv, UsageInv', usage' = usage, asked' = asked, faults' \in {faults, faults + 1},
         At("register") /\ ~At("register")' => faults' = faults + 1,
         At("register")' => At("register") /\ run' = run
  PROVE  ChargeInv'
<1>1. faults \in Nat /\ faults' \in Nat
  BY DEF ChargeInv
<1>2. ASSUME NEW m \in Limited PROVE asked'[m] <= usage'[m] + Uncounted(m)' + faults'
  <2>1. asked[m] <= usage[m] + Uncounted(m) + faults /\ asked[m] \in Nat /\ usage[m] \in Nat
    BY DEF ChargeInv, UsageInv
  <2>2. CASE At("register")'
    <3>1. Uncounted(m)' = Uncounted(m) /\ Uncounted(m) \in {0, 1}
      BY <2>2 DEF Uncounted, Pair
    <3> QED BY <1>1, <2>1, <3>1
  <2>3. CASE ~At("register")'
    <3>1. Uncounted(m)' = 0 /\ Uncounted(m) \in {0, 1} /\ (Uncounted(m) = 1 => faults' = faults + 1)
      BY <2>3 DEF Uncounted
    <3> QED BY <1>1, <2>1, <3>1
  <2> QED BY <2>2, <2>3
<1> QED BY <1>1, <1>2 DEF ChargeInv

LEMMA ChargeStep == ChargeInv /\ [Next]_wizardVars => ChargeInv'
<1> SUFFICES ASSUME ChargeInv, [Next]_wizardVars PROVE ChargeInv'
  OBVIOUS
<1>0. UsageInv /\ UsageInv' /\ faults \in Nat
  BY UsageStep DEF ChargeInv
<1>1. CASE \/ \E i \in Setups : ChooseInventory(i)
           \/ \E p \in Photos : AddPhoto(p) \/ RemovePhoto(p) \/ ShowPhoto(p)
           \/ SetupNext \/ PhotosNext \/ PhotosBack \/ AnalyzeBack
           \/ \E sel \in Selections(Selectable) : GoToRunning(sel) \/ RunAnalysis(sel)
           \/ RunningBack \/ RunningNext \/ \E m \in Models : ShowModel(m)
           \/ \E e \in 0..latest : Edit(e)
           \/ RerunAnalysis \/ ReviewBack
  <2>1. \E t, order : Handle(t, order)
    BY <1>1 DEF ChooseInventory, AddPhoto, RemovePhoto, ShowPhoto, SetupNext, PhotosNext,
         PhotosBack, AnalyzeBack, GoToRunning, RunAnalysis, RunningBack, RunningNext,
         ShowModel, Edit, RerunAnalysis, ReviewBack, Go
  <2>2. run = NoRun
    BY <1>1 DEF ChooseInventory, AddPhoto, RemovePhoto, ShowPhoto, SetupNext, PhotosNext,
         PhotosBack, AnalyzeBack, GoToRunning, RunAnalysis, RunningBack, RunningNext,
         ShowModel, Edit, RerunAnalysis, ReviewBack, On, Reviewing
  <2>3. /\ usage' = usage /\ asked' = asked /\ ~At("register") /\ ~At("register")'
        /\ faults' \in {faults, faults + 1}
    BY <2>1, <2>2, RerunIsNoRegister DEF Handle, stores, At, NoRun, Stopped
  <2> QED BY <1>0, <2>3, NotForgotten
<1>2. CASE Nudge \/ Reset
  <2>1. /\ (\E s : Rerun(s)) /\ usage' = usage /\ asked' = asked /\ faults' \in {faults, faults + 1}
        /\ run # NoRun => faults' = faults + 1
    BY <1>2 DEF Nudge, Reset, Stopped, stores
  <2>2. ~At("register")' /\ (At("register") => run # NoRun)
    BY <2>1, RerunIsNoRegister DEF At, NoRun
  <2> QED BY <1>0, <2>1, <2>2, NotForgotten
<1>3. CASE UseThisResult \/ Save \/ Finish
  <2>1. /\ (\E s : Rerun(s)) /\ usage' = usage /\ asked' = asked /\ faults' \in {faults, faults + 1}
        /\ run = NoRun \/ At("next")
    BY <1>3 DEF UseThisResult, Save, Finish, Reviewing, On, Stopped
  <2>2. ~At("register") /\ ~At("register")'
    BY <2>1, RerunIsNoRegister DEF At, NoRun
  <2> QED BY <1>0, <2>1, <2>2, NotForgotten
<1>4. CASE Start \/ TakeCached \/ SkipPhoto \/ \E ok \in BOOLEAN : Store(ok)
  <2>1. usage' = usage /\ asked' = asked /\ faults' = faults
    BY <1>4 DEF Start, TakeCached, SkipPhoto, Store, stores
  <2>2. ~At("register") /\ ~At("register")'
    <3>1. CASE Start
      BY <3>1 DEF Start, Begun, At, NoRun
    <3>2. CASE TakeCached \/ SkipPhoto
      BY <1>0, <3>2 DEF TakeCached, SkipPhoto, At, NoRun, UsageInv, RunShape
    <3>3. ASSUME NEW ok \in BOOLEAN, Store(ok) PROVE ~At("register") /\ ~At("register")'
      BY <1>0, <3>3 DEF Store, At, NoRun, UsageInv, RunShape
    <3> QED BY <1>4, <3>1, <3>2, <3>3
  <2> QED BY <1>0, <2>1, <2>2, NotForgotten
<1>5. CASE Predict
  <2>1. /\ asked' = Billed(asked, Pair[2]) /\ usage' = usage /\ faults' = faults
        /\ ~At("register") /\ At("register")' /\ run'.todo = run.todo
    BY <1>0, <1>5 DEF Predict, At, NoRun, UsageInv, RunShape
  <2>2. ASSUME NEW m \in Limited PROVE asked'[m] <= usage'[m] + Uncounted(m)' + faults'
    <3>1. asked[m] <= usage[m] + faults /\ asked[m] \in Nat /\ usage[m] \in Nat
      BY <2>1 DEF ChargeInv, UsageInv, Uncounted
    <3>2. asked'[m] = IF m = Pair[2] THEN asked[m] + 1 ELSE asked[m]
      BY <1>0, <2>1, BilledOnce DEF UsageInv
    <3>3. Uncounted(m)' = IF m = Pair[2] THEN 1 ELSE 0
      BY <2>1 DEF Uncounted, Pair
    <3> QED BY <1>0, <2>1, <3>1, <3>2, <3>3
  <2> QED BY <1>0, <2>1, <2>2 DEF ChargeInv
<1>6. CASE Register
  <2>1. /\ asked' = asked /\ At("register") /\ ~At("register")'
        /\ \/ usage' = Billed(usage, Pair[2]) /\ faults' = faults
           \/ usage' = usage /\ faults' = faults + 1
    BY <1>0, <1>6 DEF Register, At, NoRun, UsageInv, RunShape
  <2>2. ASSUME NEW m \in Limited PROVE asked'[m] <= usage'[m] + Uncounted(m)' + faults'
    <3>1. asked[m] <= usage[m] + Uncounted(m) + faults /\ asked[m] \in Nat /\ usage[m] \in Nat
      BY DEF ChargeInv, UsageInv
    <3>2. Uncounted(m)' = 0 /\ Uncounted(m) = IF m = Pair[2] THEN 1 ELSE 0
      BY <2>1 DEF Uncounted
    <3>3. \/ usage'[m] = usage[m] + Uncounted(m) /\ faults' = faults
          \/ usage'[m] = usage[m] /\ faults' = faults + 1
      BY <1>0, <2>1, <3>1, <3>2, BilledOnce DEF UsageInv
    <3> QED BY <1>0, <2>1, <3>1, <3>2, <3>3
  <2> QED BY <1>0, <2>1, <2>2 DEF ChargeInv
<1>7. ASSUME NEW m \in Models, OtherTab(m) PROVE ChargeInv'
  <2>1. asked' = Billed(asked, m) /\ usage' = Billed(usage, m) /\ run' = run /\ faults' = faults
    BY <1>7 DEF OtherTab
  <2>2. \A l : Uncounted(l)' = Uncounted(l) /\ Uncounted(l) \in {0, 1}
    BY <2>1 DEF At, NoRun, Uncounted, Pair
  <2>3. \A l \in Limited : asked'[l] <= usage'[l] + Uncounted(l)' + faults'
    BY <1>0, <2>1, <2>2, BilledOnce DEF UsageInv, ChargeInv
  <2> QED BY <1>0, <2>1, <2>3 DEF ChargeInv
<1>8. CASE UNCHANGED wizardVars
  BY <1>0, <1>8 DEF wizardVars, ChargeInv, Uncounted, At, Pair
<1> QED BY <1>1, <1>2, <1>3, <1>4, <1>5, <1>6, <1>7, <1>8 DEF Next, Analysis

\* Nobody is charged a run for a photo the cache answered, for one that was
\* not analysed, or twice for the same prediction, and no run is forgotten but
\* one for each stopped script and each failed count (_record_model_run).
THEOREM EveryRunIsCharged == Spec => []ChargesMatchRuns
<1>1. Init => ChargeInv
  BY DEF Init, ChargeInv, UsageInv, RunShape, Uncounted, At, NoRun
<1>2. ChargeInv => ChargesMatchRuns
  <2> SUFFICES ASSUME ChargeInv, NEW m \in Limited
               PROVE  /\ usage[m] <= asked[m]
                      /\ asked[m] <= usage[m] + faults + (IF At("register") THEN 1 ELSE 0)
    BY DEF ChargesMatchRuns
  <2>1. /\ usage[m] \in Nat /\ asked[m] \in Nat /\ faults \in Nat
        /\ usage[m] + Uncounted(m) <= asked[m] /\ asked[m] <= usage[m] + Uncounted(m) + faults
    BY DEF ChargeInv, UsageInv
  <2>2. Uncounted(m) \in {0, 1} /\ (Uncounted(m) = 1 => At("register"))
    BY DEF Uncounted
  <2> QED BY <2>1, <2>2
<1> QED BY <1>1, <1>2, ChargeStep, PTL DEF Spec
----------------------------------------------------------------------------
(* A session in which no click stops a script and the database fails at      *)
(* nothing (MaxFaults = 0).                                                   *)

\* A handler writes all of its fields.
LEMMA AllWritten ==
  ASSUME MaxFaults = 0, faults = 0, NEW n \in Nat
  PROVE  Reached(n) = {n}
BY DEF Reached

\* Without faults there are none.
LEMMA NoFaults ==
  ASSUME MaxFaults = 0, faults = 0, Next
  PROVE  faults' = 0
<1>1. ASSUME NEW t, NEW order, Handle(t, order), Len(order) \in Nat PROVE faults' = 0
  BY <1>1, AllWritten DEF Handle, Stopped
<1>2. CASE \/ \E i \in Setups : ChooseInventory(i)
           \/ \E p \in Photos : AddPhoto(p) \/ RemovePhoto(p) \/ ShowPhoto(p)
           \/ SetupNext \/ PhotosNext \/ PhotosBack \/ AnalyzeBack
           \/ \E sel \in Selections(Selectable) : GoToRunning(sel) \/ RunAnalysis(sel)
           \/ RunningBack \/ RunningNext \/ \E m \in Models : ShowModel(m)
           \/ \E e \in 0..latest : Edit(e)
           \/ RerunAnalysis \/ ReviewBack
  <2>1. CASE \/ \E i \in Setups : ChooseInventory(i)
             \/ \E p \in Photos : AddPhoto(p) \/ RemovePhoto(p) \/ ShowPhoto(p)
             \/ \E m \in Models : ShowModel(m)
             \/ \E e \in 0..latest : Edit(e)
    <3>1. ASSUME NEW t, Handle(t, <<"form">>) \/ Handle(t, <<"photos">>) \/ Handle(t, <<"active">>)
                        \/ Handle(t, <<"viewModel">>) \/ Handle(t, <<"edits">>)
          PROVE  faults' = 0
      BY <1>1, <3>1
    <3> QED BY <2>1, <3>1, Zenon DEF ChooseInventory, AddPhoto, RemovePhoto, ShowPhoto, ShowModel, Edit
  <2>2. CASE SetupNext \/ PhotosNext \/ PhotosBack \/ AnalyzeBack \/ RunningNext \/ ReviewBack
    BY <1>1, <2>2 DEF SetupNext, PhotosNext, PhotosBack, AnalyzeBack, RunningNext, ReviewBack, Go
  <2>3. CASE RunningBack \/ RerunAnalysis
    BY <1>1, <2>3 DEF RunningBack, RerunAnalysis, Go
  <2>4. CASE \E sel \in Selections(Selectable) : GoToRunning(sel) \/ RunAnalysis(sel)
    BY <1>1, <2>4 DEF GoToRunning, RunAnalysis
  <2> QED BY <1>2, <2>1, <2>2, <2>3, <2>4
<1>3. CASE Nudge
  BY <1>3 DEF Nudge
<1>4. CASE Save
  <2>1. Reached(4) = {4}
    BY AllWritten
  <2> QED BY <1>4, <2>1 DEF Save, Stopped
<1>5. CASE Finish
  <2>1. Reached(4) = {4} /\ Reached(2) = {2}
    BY AllWritten
  <2> QED BY <1>5, <2>1 DEF Finish, Stopped
<1>6. CASE Reset
  <2>1. Reached(15) = {15} /\ run = NoRun
    BY <1>6, AllWritten DEF Reset
  <2> QED BY <1>6, <2>1 DEF Reset, Stopped
<1>7. CASE Start \/ TakeCached \/ SkipPhoto \/ Predict \/ UseThisResult \/ \E ok \in BOOLEAN : Store(ok)
  BY <1>7 DEF Start, TakeCached, SkipPhoto, Predict, UseThisResult, Store
<1>8. CASE Register \/ \E m \in Models : OtherTab(m)
  BY <1>8 DEF Register, OtherTab
<1> QED BY <1>2, <1>3, <1>4, <1>5, <1>6, <1>7, <1>8 DEF Next, Analysis

\* Counted and asked for differ by the prediction being registered alone.
CountedInv ==
  /\ UsageInv /\ faults = 0
  /\ \A m \in Limited : usage[m] + Uncounted(m) = asked[m]

\* Without faults no run is forgotten.
LEMMA NothingForgotten == CountedInv <=> ChargeInv /\ faults = 0
<1>1. ASSUME UsageInv, NEW m \in Limited
      PROVE  usage[m] \in Nat /\ asked[m] \in Nat /\ usage[m] + Uncounted(m) <= asked[m]
             /\ Uncounted(m) \in {0, 1}
  BY <1>1 DEF UsageInv, Uncounted
<1> QED BY <1>1 DEF CountedInv, ChargeInv

LEMMA CountedStep == MaxFaults = 0 /\ CountedInv /\ [Next]_wizardVars => CountedInv'
<1> SUFFICES ASSUME MaxFaults = 0, CountedInv, [Next]_wizardVars PROVE CountedInv'
  OBVIOUS
<1>1. ChargeInv' /\ faults = 0
  BY NothingForgotten, ChargeStep
<1>2. faults' = 0
  BY <1>1, NoFaults DEF wizardVars
<1>3. ASSUME NEW m \in Limited PROVE usage'[m] + Uncounted(m)' = asked'[m]
  <2>1. /\ asked'[m] <= usage'[m] + Uncounted(m)' + faults'
        /\ usage'[m] \in Nat /\ asked'[m] \in Nat /\ usage'[m] + Uncounted(m)' <= asked'[m]
    BY <1>1 DEF ChargeInv, UsageInv
  <2>2. Uncounted(m)' \in {0, 1}
    BY DEF Uncounted
  <2> QED BY <1>2, <2>1, <2>2
<1> QED BY <1>1, <1>2, <1>3 DEF CountedInv, ChargeInv

\* When the database counts every run it is told of and no click stops a
\* script, each prediction a provider was asked for is counted by the time the
\* script has ended.
THEOREM PredictionsAreCounted ==
  ASSUME MaxFaults = 0
  PROVE  Spec => [](run = NoRun => usage = asked)
<1>1. Init => CountedInv
  BY DEF Init, CountedInv, UsageInv, RunShape, Uncounted, At, NoRun
<1>2. CountedInv => (run = NoRun => usage = asked)
  BY DEF CountedInv, UsageInv, Uncounted, At, NoRun
<1>3. CountedInv /\ [Next]_wizardVars => CountedInv'
  BY CountedStep
<1> QED BY <1>1, <1>2, <1>3, PTL DEF Spec
\* The fields that a run of the script changes only what is drawn of.
Drawn == {"stage", "active", "viewModel", "accepted"}

\* Where the script goes: to the page of s, or to an earlier one.
LEMMA RerunGoes ==
  ASSUME NEW s, DOMAIN s = Fields, Rerun(s)
  PROVE  /\ DOMAIN ss' = Fields /\ \A f \in Fields \ Drawn : ss'[f] = s[f]
         /\ run' = NoRun \/ run' = [at |-> "start"]
         /\ run' # NoRun => s.executing # TRUE /\ s.status = "running"
         /\ s.stage # "review" => ss'.stage = s.stage
         /\ s.status \in {"complete", "partial"} => ss'.stage = s.stage
         /\ s.stage = "running" /\ s.status = "running" /\ ~s.executing /\ s.photos # <<>> => run' # NoRun
<1> DEFINE d == Redirected(s)
<1>1. /\ DOMAIN d = Fields /\ \A f \in Fields \ Drawn : d[f] = s[f]
      /\ s.stage # "review" => d.stage = s.stage
      /\ s.status \in {"complete", "partial"} => d.stage = s.stage
  BY DEF Redirected, Fields, Drawn
<1>2. d.status = s.status /\ d.executing = s.executing /\ d.photos = s.photos
  BY <1>1 DEF Fields, Drawn
<1> HIDE DEF d
<1>3. DOMAIN Aimed(d) = Fields /\ (\A f \in Fields \ Drawn : Aimed(d)[f] = d[f]) /\ Aimed(d).stage = d.stage
  BY <1>1 DEF Aimed, Fields, Drawn
<1>4. CASE Starts(d)
  <2>1. ss' = d /\ run' = [at |-> "start"]
    BY <1>4 DEF Rerun, d
  <2> QED BY <1>1, <1>2, <1>4, <2>1 DEF Starts, NoRun
<1>5. CASE ~Starts(d)
  <2>1. ss' = Aimed(d) /\ run' = NoRun
    BY <1>5 DEF Rerun, d
  <2>2. ~(s.stage = "running" /\ s.status = "running" /\ ~s.executing /\ s.photos # <<>>)
    BY <1>1, <1>2, <1>5 DEF Starts
  <2> QED BY <1>1, <1>3, <2>1, <2>2
<1> QED BY <1>4, <1>5

\* A handler that no click stops takes the session to t.
LEMMA WholeHandler ==
  ASSUME MaxFaults = 0, faults = 0, DOMAIN ss = Fields, NEW t, t = [f \in Fields |-> t[f]],
         NEW order, Len(order) \in Nat,
         \A f \in Fields : t[f] = ss[f] \/ \E n \in 1..Len(order) : order[n] = f,
         Handle(t, order)
  PROVE  Rerun(t)
<1>1. Rerun(Written(ss, t, order, Len(order)))
  BY AllWritten DEF Handle
<1>2. Written(ss, t, order, Len(order)) = [f \in Fields |-> t[f]]
  BY DEF Written
<1> QED BY <1>1, <1>2
\* While nothing runs no flag says so; while something does, the session says
\* what it works on.
FlagsInv ==
  /\ WizardInv /\ CountedInv
  /\ IF run = NoRun \/ At("start") THEN ss.executing = FALSE ELSE ss.executing = TRUE
  /\ ss.running = TRUE \/ ss.running = FALSE
  /\ ss.running => ss.status = "running"
  /\ ss.save # "saving"

FlagsOK(s) ==
  /\ DOMAIN s = Fields /\ s.executing = FALSE /\ s.save # "saving"
  /\ s.running = TRUE \/ s.running = FALSE
  /\ s.running => s.status = "running"

\* The run of the script that follows a handler leaves flags that are in order so.
LEMMA FlagsRerun ==
  ASSUME NEW s, FlagsOK(s), Rerun(s), WizardInv', CountedInv'
  PROVE  FlagsInv'
<1>1. /\ \A f \in Fields \ Drawn : ss'[f] = s[f]
      /\ run' = NoRun \/ run' = [at |-> "start"]
  BY RerunGoes DEF FlagsOK
<1>2. /\ ss'.executing = s.executing /\ ss'.save = s.save /\ ss'.running = s.running
      /\ ss'.status = s.status
  BY <1>1 DEF Fields, Drawn
<1>3. run' = NoRun \/ At("start")'
  BY <1>1 DEF At
<1> QED BY <1>2, <1>3 DEF FlagsInv, FlagsOK

\* So does a handler, which without faults writes all its fields.
LEMMA FlagsHandler ==
  ASSUME MaxFaults = 0, FlagsInv, WizardInv', CountedInv', NEW t, NEW order, Handle(t, order),
         Len(order) \in Nat, t = [f \in Fields |-> t[f]], FlagsOK(t),
         \A f \in Fields : t[f] = ss[f] \/ \E n \in 1..Len(order) : order[n] = f
  PROVE  FlagsInv'
<1>1. Rerun(t)
  BY WholeHandler DEF FlagsInv, WizardInv, Sound, CountedInv
<1> QED BY <1>1, FlagsRerun

\* One field, none of the flags.
LEMMA FlagsField ==
  ASSUME MaxFaults = 0, FlagsInv, WizardInv', CountedInv', run = NoRun,
         NEW f \in {"form", "photos", "stage", "active", "viewModel", "edits"}, NEW value,
         Handle([ss EXCEPT ![f] = value], <<f>>)
  PROVE  FlagsInv'
<1> DEFINE t == [ss EXCEPT ![f] = value]
<1>1. DOMAIN ss = Fields /\ f \in Fields
  BY DEF FlagsInv, WizardInv, Sound, Fields
<1>2. t = [g \in Fields |-> t[g]] /\ (\A g \in Fields : t[g] = ss[g] \/ g = f)
  BY <1>1
<1>3. FlagsOK(t)
  BY <1>1, <1>2 DEF FlagsInv, FlagsOK, Fields
<1>4. Handle(t, <<f>>)
  OBVIOUS
<1> HIDE DEF t
<1>5. \A g \in Fields : t[g] = ss[g] \/ \E n \in 1..Len(<<f>>) : <<f>>[n] = g
  BY <1>2
<1> QED BY <1>2, <1>3, <1>4, <1>5, FlagsHandler

\* Handlers that write no flag.
LEMMA FlagsFields ==
  ASSUME MaxFaults = 0, FlagsInv, WizardInv', CountedInv',
         \/ \E i \in Setups : ChooseInventory(i)
         \/ \E p \in Photos : AddPhoto(p) \/ RemovePhoto(p) \/ ShowPhoto(p)
         \/ SetupNext \/ PhotosBack \/ AnalyzeBack \/ RunningNext \/ ReviewBack
         \/ PhotosNext /\ ss.status \notin {"complete", "partial"}
         \/ RunningBack /\ ~Shows("error")
         \/ \E m \in Models : ShowModel(m)
         \/ \E e \in 0..latest : Edit(e)
  PROVE  FlagsInv'
<1>1. run = NoRun
  BY DEF ChooseInventory, AddPhoto, RemovePhoto, ShowPhoto, SetupNext, PhotosNext, PhotosBack,
         AnalyzeBack, RunningBack, RunningNext, ShowModel, Edit, ReviewBack, On, Reviewing
<1>2. ASSUME NEW stage, Go(stage) PROVE FlagsInv'
  BY <1>1, <1>2, FlagsField DEF Go
<1>3. CASE SetupNext \/ PhotosBack \/ AnalyzeBack \/ RunningNext \/ ReviewBack
  BY <1>2, <1>3, Zenon DEF SetupNext, PhotosBack, AnalyzeBack, RunningNext, ReviewBack
<1>4. CASE PhotosNext /\ ss.status \notin {"complete", "partial"}
  BY <1>2, <1>4, Zenon DEF PhotosNext
<1>5. CASE RunningBack /\ ~Shows("error")
  BY <1>2, <1>5, Zenon DEF RunningBack
<1>6. ASSUME NEW i \in Setups, ChooseInventory(i) PROVE FlagsInv'
  <2>1. Handle([ss EXCEPT !["form"] = [ss.form EXCEPT !.setup = i]], <<"form">>)
    BY <1>6 DEF ChooseInventory
  <2> QED BY <1>1, <2>1, FlagsField
<1>7. ASSUME NEW p \in Photos, AddPhoto(p) \/ RemovePhoto(p) \/ ShowPhoto(p) PROVE FlagsInv'
  <2>1. \/ Handle([ss EXCEPT !["photos"] = Append(ss.photos, p)], <<"photos">>)
        \/ Handle([ss EXCEPT !["photos"] = Among(ss.photos, Photos \ {p})], <<"photos">>)
        \/ Handle([ss EXCEPT !["active"] = p], <<"active">>)
    BY <1>7 DEF AddPhoto, RemovePhoto, ShowPhoto
  <2> QED BY <1>1, <2>1, FlagsField
<1>8. ASSUME NEW m \in Models, ShowModel(m) PROVE FlagsInv'
  BY <1>1, <1>8, FlagsField DEF ShowModel
<1>9. ASSUME NEW e \in 0..latest, Edit(e) PROVE FlagsInv'
  BY <1>1, <1>9, FlagsField DEF Edit
<1> QED BY <1>3, <1>4, <1>5, <1>6, <1>7, <1>8, <1>9

\* Handlers that throw the results away.
LEMMA FlagsCleared ==
  ASSUME MaxFaults = 0, FlagsInv, WizardInv', CountedInv',
         \/ PhotosNext /\ ss.status \in {"complete", "partial"}
         \/ RerunAnalysis
         \/ RunningBack /\ Shows("error")
  PROVE  FlagsInv'
<1>1. run = NoRun /\ ss.executing = FALSE /\ ss.running = FALSE /\ DOMAIN ss = Fields
  <2>1. run = NoRun /\ ss.status # "running"
    BY DEF PhotosNext, RerunAnalysis, RunningBack, Shows, Reviewing, Reviewable, On
  <2> QED BY <2>1 DEF FlagsInv, WizardInv, Sound
<1>2. CASE PhotosNext /\ ss.status \in {"complete", "partial"}
  <2> DEFINE t == [Cleared(ss) EXCEPT !.stage = "analyze"]
             order == <<"status", "results", "save", "savedRec", "stage">>
  <2>1. t = [f \in Fields |-> t[f]] /\ t.executing = FALSE /\ t.save = "idle" /\ t.running = FALSE
        /\ \A f \in Fields : t[f] = ss[f] \/ f \in {"status", "results", "save", "savedRec", "stage"}
    BY <1>1 DEF Cleared, Fields
  <2>2. Handle(t, order)
    BY <1>2 DEF PhotosNext
  <2>3. /\ order[1] = "status" /\ order[2] = "results" /\ order[3] = "save" /\ order[4] = "savedRec"
        /\ order[5] = "stage" /\ Len(order) = 5
    OBVIOUS
  <2> HIDE DEF t, order
  <2>4. FlagsOK(t)
    BY <2>1 DEF FlagsOK
  <2>5. \A f \in Fields : t[f] = ss[f] \/ \E n \in 1..Len(order) : order[n] = f
    BY <2>1, <2>3
  <2>6. Len(order) \in Nat
    BY <2>3
  <2> QED BY <2>1, <2>2, <2>4, <2>5, <2>6, FlagsHandler
<1>3. CASE RerunAnalysis
  <2> DEFINE t == [Cleared(ss) EXCEPT !.cache = {}, !.stage = "analyze"]
             order == <<"status", "results", "save", "savedRec", "cache", "stage">>
  <2>1. t = [f \in Fields |-> t[f]] /\ t.executing = FALSE /\ t.save = "idle" /\ t.running = FALSE
        /\ \A f \in Fields : t[f] = ss[f] \/ f \in {"status", "results", "save", "savedRec", "cache", "stage"}
    BY <1>1 DEF Cleared, Fields
  <2>2. Handle(t, order)
    BY <1>3 DEF RerunAnalysis
  <2>3. /\ order[1] = "status" /\ order[2] = "results" /\ order[3] = "save" /\ order[4] = "savedRec"
        /\ order[5] = "cache" /\ order[6] = "stage" /\ Len(order) = 6
    OBVIOUS
  <2> HIDE DEF t, order
  <2>4. FlagsOK(t)
    BY <2>1 DEF FlagsOK
  <2>5. \A f \in Fields : t[f] = ss[f] \/ \E n \in 1..Len(order) : order[n] = f
    BY <2>1, <2>3
  <2>6. Len(order) \in Nat
    BY <2>3
  <2> QED BY <2>1, <2>2, <2>4, <2>5, <2>6, FlagsHandler
<1>4. CASE RunningBack /\ Shows("error")
  <2> DEFINE t == [ss EXCEPT !.status = "idle", !.running = FALSE, !.stage = "analyze"]
             order == <<"status", "running", "stage">>
  <2>1. t = [f \in Fields |-> t[f]] /\ t.executing = FALSE /\ t.save = ss.save /\ t.running = FALSE
        /\ \A f \in Fields : t[f] = ss[f] \/ f \in {"status", "running", "stage"}
    BY <1>1 DEF Fields
  <2>2. Handle(t, order)
    BY <1>4 DEF RunningBack
  <2>3. order[1] = "status" /\ order[2] = "running" /\ order[3] = "stage" /\ Len(order) = 3
    OBVIOUS
  <2> HIDE DEF t, order
  <2>4. FlagsOK(t)
    BY <2>1 DEF FlagsOK, FlagsInv
  <2>5. \A f \in Fields : t[f] = ss[f] \/ \E n \in 1..Len(order) : order[n] = f
    BY <2>1, <2>3
  <2>6. Len(order) \in Nat
    BY <2>3
  <2> QED BY <2>1, <2>2, <2>4, <2>5, <2>6, FlagsHandler
<1> QED BY <1>2, <1>3, <1>4
\* What the longer handlers leave when no click stops them.
Launched(sel) == [ss EXCEPT !.form.models = sel, !.ctx = ss.form.setup, !.running = TRUE,
                            !.status = "running", !.executing = FALSE, !.stage = "running"]

\* Without faults the handlers that start, return, save and reset are carried out whole.
LEMMA WholeLaunch ==
  ASSUME MaxFaults = 0, FlagsInv, NEW sel, RunAnalysis(sel)
  PROVE  run = NoRun /\ Rerun(Launched(sel))
<1> DEFINE order == <<"form", "ctx", "running", "status", "executing", "stage">>
           t == Launched(sel)
<1>1. run = NoRun /\ Handle(t, order) /\ DOMAIN ss = Fields /\ faults = 0
  BY DEF RunAnalysis, On, Launched, FlagsInv, WizardInv, Sound, CountedInv
<1>2. t = [f \in Fields |-> t[f]]
      /\ \A f \in Fields : t[f] = ss[f] \/ f \in {"form", "ctx", "running", "status", "executing", "stage"}
  BY <1>1 DEF Launched, Fields
<1>3. /\ order[1] = "form" /\ order[2] = "ctx" /\ order[3] = "running" /\ order[4] = "status"
      /\ order[5] = "executing" /\ order[6] = "stage" /\ Len(order) = 6
  OBVIOUS
<1> HIDE DEF t, order
<1>4. Len(order) \in Nat /\ \A f \in Fields : t[f] = ss[f] \/ \E n \in 1..Len(order) : order[n] = f
  BY <1>2, <1>3
<1>5. Rerun(t)
  BY <1>1, <1>2, <1>4, WholeHandler
<1> QED BY <1>1, <1>5 DEF t

LEMMA WholeReturn ==
  ASSUME MaxFaults = 0, FlagsInv, NEW sel, GoToRunning(sel)
  PROVE  run = NoRun /\ Rerun([ss EXCEPT !.form.models = sel, !.stage = "running"])
<1> DEFINE order == <<"form", "stage">>
           t == [ss EXCEPT !.form.models = sel, !.stage = "running"]
<1>1. run = NoRun /\ Handle(t, order) /\ DOMAIN ss = Fields /\ faults = 0
  BY DEF GoToRunning, On, FlagsInv, WizardInv, Sound, CountedInv
<1>2. t = [f \in Fields |-> t[f]] /\ \A f \in Fields : t[f] = ss[f] \/ f \in {"form", "stage"}
  BY <1>1 DEF Fields
<1>3. order[1] = "form" /\ order[2] = "stage" /\ Len(order) = 2
  OBVIOUS
<1> HIDE DEF t, order
<1>4. Len(order) \in Nat /\ \A f \in Fields : t[f] = ss[f] \/ \E n \in 1..Len(order) : order[n] = f
  BY <1>2, <1>3
<1>5. Rerun(t)
  BY <1>1, <1>2, <1>4, WholeHandler
<1> QED BY <1>1, <1>5 DEF t

LEMMA WholeSave ==
  ASSUME MaxFaults = 0, FlagsInv, Save
  PROVE  run = NoRun /\ Rerun([ss EXCEPT !.save = "saved", !.savedRec = ss.results.run])
<1>1. Reached(4) = {4}
  BY AllWritten DEF FlagsInv, CountedInv
<1>2. Rerun([ss EXCEPT !.save = CASE 4 = 0 -> "idle" [] 4 = 4 -> "saved" [] OTHER -> "saving",
                       !.savedRec = IF 4 >= 3 THEN ss.results.run ELSE ss.savedRec])
  BY <1>1 DEF Save
<1>3. (CASE 4 = 0 -> "idle" [] 4 = 4 -> "saved" [] OTHER -> "saving") = "saved" /\ 4 >= 3
  OBVIOUS
<1> QED BY <1>2, <1>3 DEF Save, Reviewing, On

LEMMA WholeReset ==
  ASSUME MaxFaults = 0, FlagsInv, Reset
  PROVE  run = NoRun /\ Rerun(InitSession)
<1> DEFINE order == <<"form", "photos", "status", "results", "accepted", "edits", "save",
                      "savedRec", "running", "executing", "cache", "active", "viewModel",
                      "ctx", "stage">>
<1>1. run = NoRun /\ faults = 0 /\ DOMAIN ss = Fields
  BY DEF Reset, FlagsInv, CountedInv, WizardInv, Sound
<1>2. Reached(15) = {15}
  BY <1>1, AllWritten
<1>3. PICK s \in Halted : Rerun(Written(s, Fresh, order, 15))
  BY <1>2 DEF Reset
<1>4. DOMAIN s = Fields
  BY <1>1, <1>3, ReleasedKeeps DEF Halted
<1>5. \A f \in Fields : \E n \in 1..15 : order[n] = f
  <2>1. /\ order[1] = "form" /\ order[2] = "photos" /\ order[3] = "status" /\ order[4] = "results"
        /\ order[5] = "accepted" /\ order[6] = "edits" /\ order[7] = "save" /\ order[8] = "savedRec"
        /\ order[9] = "running" /\ order[10] = "executing" /\ order[11] = "cache"
        /\ order[12] = "active" /\ order[13] = "viewModel" /\ order[14] = "ctx" /\ order[15] = "stage"
    OBVIOUS
  <2> HIDE DEF order
  <2> QED BY <2>1 DEF Fields
<1> HIDE DEF order
<1>6. Written(s, Fresh, order, 15) = [f \in Fields |-> Fresh[f]]
  BY <1>4, <1>5 DEF Written
<1>7. InitSession = [f \in Fields |-> InitSession[f]]
  BY DEF InitSession, Fields
<1> QED BY <1>1, <1>3, <1>6, <1>7 DEF Fresh

\* The session of an analysis that came to its end.
Ended == [Finished EXCEPT !.executing = FALSE, !.running = FALSE]

\* The end of an analysis, too, is carried out whole.
LEMMA WholeFinish ==
  ASSUME MaxFaults = 0, FlagsInv, Finish
  PROVE  Rerun(Ended)
<1> DEFINE order == <<"results", "edits", "status", "accepted">>
           w == Written(ss, Finished, order, 4)
           last == <<"executing", "running">>
<1>1. DOMAIN ss = Fields /\ faults = 0
  BY DEF FlagsInv, CountedInv, WizardInv, Sound
<1>2. Reached(4) = {4} /\ Reached(2) = {2}
  BY <1>1, AllWritten
<1>3. Rerun(Released(w, 2))
  BY <1>2 DEF Finish
<1>4. /\ Finished = [f \in Fields |-> Finished[f]]
      /\ \A f \in Fields : Finished[f] = ss[f] \/ f \in {"results", "edits", "status", "accepted"}
  BY <1>1 DEF Finished, Fields
<1>5. /\ order[1] = "results" /\ order[2] = "edits" /\ order[3] = "status" /\ order[4] = "accepted"
      /\ last[1] = "executing" /\ last[2] = "running"
  OBVIOUS
<1>6. Released(w, 2) = Written(w, [w EXCEPT !.executing = FALSE, !.running = FALSE], last, 2)
  BY DEF Released
<1> HIDE DEF order, last
<1>7. w = Finished
  <2>1. w = [f \in Fields |-> IF \E n \in 1..4 : order[n] = f THEN Finished[f] ELSE ss[f]]
    BY <1>1 DEF Written
  <2>2. \A f \in Fields : Finished[f] = ss[f] \/ \E n \in 1..4 : order[n] = f
    BY <1>4, <1>5
  <2>3. w = [f \in Fields |-> Finished[f]]
    BY <2>1, <2>2
  <2> QED BY <1>4, <2>3
<1> HIDE DEF w
<1>8. Released(w, 2) = Ended
  <2> DEFINE e == [w EXCEPT !.executing = FALSE, !.running = FALSE]
  <2>1. /\ DOMAIN w = Fields /\ e = [f \in Fields |-> e[f]]
        /\ \A f \in Fields : e[f] = w[f] \/ f \in {"executing", "running"}
    BY <1>4, <1>7 DEF Fields
  <2> HIDE DEF e
  <2>2. \A f \in Fields : e[f] = w[f] \/ \E n \in 1..2 : last[n] = f
    BY <1>5, <2>1
  <2>3. Written(w, e, last, 2) = [f \in Fields |-> e[f]]
    BY <2>1, <2>2 DEF Written
  <2> QED BY <1>6, <1>7, <2>1, <2>3 DEF Ended, e
<1> QED BY <1>3, <1>8
\* A step of an analysis that has started: it goes on, with the same photos and
\* for the same inventory type.
LEMMA AnalysisGoes ==
  ASSUME RunShape, DOMAIN ss = Fields,
         TakeCached \/ SkipPhoto \/ Predict \/ Register \/ \E ok \in BOOLEAN : Store(ok)
  PROVE  /\ run # NoRun /\ ~At("start") /\ run' # NoRun /\ ~At("start")'
         /\ run'.photos = run.photos /\ run'.setup = run.setup
         /\ DOMAIN ss' = Fields /\ \A f \in Fields \ {"cache"} : ss'[f] = ss[f]
<1>1. /\ run # NoRun /\ ~At("start")
      /\ run.at \in {"next", "register", "store"}
  <2>1. run.at \in {"next", "register", "store"}
    BY DEF TakeCached, SkipPhoto, Predict, Register, Store, At
  <2> QED BY <2>1 DEF At, NoRun
<1>2. DOMAIN run = {"at", "todo", "got", "failed", "photos", "setup", "models"}
  BY <1>1 DEF RunShape
<1>3. CASE TakeCached \/ SkipPhoto
  BY <1>1, <1>2, <1>3 DEF TakeCached, SkipPhoto, At, NoRun, stores
<1>4. CASE Predict \/ Register
  BY <1>1, <1>2, <1>4 DEF Predict, Register, At, NoRun
<1>5. ASSUME NEW ok \in BOOLEAN, Store(ok)
      PROVE  /\ run' # NoRun /\ ~At("start")'
             /\ run'.photos = run.photos /\ run'.setup = run.setup
             /\ DOMAIN ss' = Fields /\ \A f \in Fields \ {"cache"} : ss'[f] = ss[f]
  <2>1. DOMAIN ss' = Fields /\ \A f \in Fields \ {"cache"} : ss'[f] = ss[f]
    BY <1>5 DEF Store, Fields
  <2>2. run'.at = "next" /\ run'.photos = run.photos /\ run'.setup = run.setup
    BY <1>2, <1>5 DEF Store
  <2> QED BY <2>1, <2>2 DEF At, NoRun
<1> QED BY <1>1, <1>3, <1>4, <1>5

LEMMA FlagsStep == MaxFaults = 0 /\ FlagsInv /\ [Next]_wizardVars => FlagsInv'
<1> SUFFICES ASSUME MaxFaults = 0, FlagsInv, [Next]_wizardVars PROVE FlagsInv'
  OBVIOUS
<1>1. WizardInv' /\ CountedInv' /\ DOMAIN ss = Fields /\ RunShape
  BY WizardStep, CountedStep DEF KeepsPromise, FlagsInv, WizardInv, Sound, CountedInv, UsageInv
<1>2. CASE \/ \E i \in Setups : ChooseInventory(i)
           \/ \E p \in Photos : AddPhoto(p) \/ RemovePhoto(p) \/ ShowPhoto(p)
           \/ SetupNext \/ PhotosBack \/ AnalyzeBack \/ RunningNext \/ ReviewBack
           \/ PhotosNext \/ RunningBack \/ RerunAnalysis
           \/ \E m \in Models : ShowModel(m)
           \/ \E e \in 0..latest : Edit(e)
  BY <1>1, <1>2, FlagsFields, FlagsCleared
<1>3. ASSUME NEW sel, RunAnalysis(sel) PROVE FlagsInv'
  <2>1. FlagsOK(Launched(sel)) /\ Rerun(Launched(sel))
    BY <1>1, <1>3, WholeLaunch DEF Launched, FlagsOK, FlagsInv, Fields
  <2> QED BY <1>1, <2>1, FlagsRerun
<1>4. ASSUME NEW sel, GoToRunning(sel) PROVE FlagsInv'
  <2> DEFINE t == [ss EXCEPT !.form.models = sel, !.stage = "running"]
  <2>1. FlagsOK(t) /\ Rerun(t)
    BY <1>1, <1>4, WholeReturn DEF FlagsOK, FlagsInv, Fields
  <2> QED BY <1>1, <2>1, FlagsRerun
<1>5. CASE Save
  <2> DEFINE t == [ss EXCEPT !.save = "saved", !.savedRec = ss.results.run]
  <2>1. FlagsOK(t) /\ Rerun(t)
    BY <1>1, <1>5, WholeSave DEF FlagsOK, FlagsInv, Fields
  <2> QED BY <1>1, <2>1, FlagsRerun
<1>6. CASE Reset
  <2>1. FlagsOK(InitSession) /\ Rerun(InitSession)
    BY <1>6, WholeReset DEF FlagsOK, InitSession, Fields
  <2> QED BY <1>1, <2>1, FlagsRerun
<1>7. CASE UseThisResult
  <2> DEFINE t == [ss EXCEPT !.accepted = <<ss.active, ss.viewModel>>]
  <2>1. FlagsOK(t) /\ Rerun(t)
    BY <1>1, <1>7 DEF UseThisResult, Reviewing, On, FlagsOK, FlagsInv, Fields
  <2> QED BY <1>1, <2>1, FlagsRerun
<1>8. CASE Finish
  <2>1. FlagsOK(Ended) /\ Rerun(Ended)
    BY <1>1, <1>8, WholeFinish DEF Ended, Finished, FlagsOK, FlagsInv, Fields
  <2> QED BY <1>1, <2>1, FlagsRerun
<1>9. CASE Start
  <2>1. CASE run' = NoRun /\ ss' = ss
    BY <1>1, <1>9, <2>1 DEF Start, FlagsInv
  <2>2. CASE run' = Begun /\ ss' = [ss EXCEPT !.executing = TRUE]
    BY <1>1, <2>2 DEF Begun, At, NoRun, FlagsInv, Fields
  <2> QED BY <1>9, <2>1, <2>2 DEF Start
<1>10. CASE TakeCached \/ SkipPhoto \/ Predict \/ Register \/ \E ok \in BOOLEAN : Store(ok)
  <2>1. /\ run # NoRun /\ ~At("start") /\ run' # NoRun /\ ~At("start")'
        /\ \A f \in Fields \ {"cache"} : ss'[f] = ss[f]
    BY <1>1, <1>10, AnalysisGoes
  <2> QED BY <1>1, <2>1 DEF FlagsInv, Fields
<1>11. CASE Nudge
  BY <1>11 DEF Nudge, FlagsInv, CountedInv
<1>12. CASE (\E m \in Models : OtherTab(m)) \/ UNCHANGED wizardVars
  BY <1>1, <1>12 DEF OtherTab, wizardVars, FlagsInv, At
<1> QED BY <1>2, <1>3, <1>4, <1>5, <1>6, <1>7, <1>8, <1>9, <1>10, <1>11, <1>12 DEF Next, Analysis

\* Unless a click stops a script, the flags of the session are true when
\* nothing runs: no run is claimed, Run Analysis is blocked by analysis_running
\* for an analysis that is to start alone, and no save is left under way.
THEOREM FlagsAreTrue ==
  ASSUME MaxFaults = 0
  PROVE  Spec => []FlagsTellTheTruth
<1>1. Init => FlagsInv
  BY WizardInvInit DEF Init, InitSession, FlagsInv, CountedInv, UsageInv, RunShape, Uncounted, At, NoRun
<1>2. FlagsInv => FlagsTellTheTruth
  BY DEF FlagsInv, FlagsTellTheTruth
<1>3. FlagsInv /\ [Next]_wizardVars => FlagsInv'
  BY FlagsStep
<1> QED BY <1>1, <1>2, <1>3, PTL DEF Spec

----------------------------------------------------------------------------
(* What is reviewed is what is staged.                                       *)

Done(s) == s.status \in {"complete", "partial"}

\* Results that a page from the analysis on can show are of what is staged.
Staged(s) ==
  /\ DOMAIN s = Fields /\ DOMAIN s.form = {"setup", "models"}
  /\ Done(s) /\ s.stage \in {"analyze", "running", "review"}
       => s.results.photos = s.photos /\ s.results.setup = s.form.setup

\* Without limits an analysis that is to run does run, and works on what was
\* staged when it was started, as it still is.
StagedInv ==
  /\ FlagsInv /\ Staged(ss)
  /\ run = NoRun => ss.status # "running"
  /\ run # NoRun => ss.ctx = ss.form.setup
  /\ At("start") => Range(ss.form.models) \cap Models # {}
  /\ run # NoRun /\ ~At("start") => run.photos = ss.photos /\ run.setup = ss.form.setup

\* What the next run of the script shows is staged when the fields say so.
LEMMA StagedRerun ==
  ASSUME NEW s, Staged(s), Rerun(s), FlagsInv', s.status # "running"
  PROVE  StagedInv'
<1>1. /\ DOMAIN ss' = Fields /\ \A f \in Fields \ Drawn : ss'[f] = s[f]
      /\ run' = NoRun \/ run' = [at |-> "start"]
      /\ run' # NoRun => s.executing # TRUE /\ s.status = "running"
      /\ s.stage # "review" => ss'.stage = s.stage
      /\ s.status \in {"complete", "partial"} => ss'.stage = s.stage
  BY RerunGoes DEF Staged
<1>2. ss'.form = s.form /\ ss'.results = s.results /\ ss'.photos = s.photos /\ ss'.status = s.status
  BY <1>1 DEF Fields, Drawn
<1>3. run' = NoRun
  BY <1>1
<1>4. Staged(ss')
  BY <1>1, <1>2 DEF Staged, Done
<1> QED BY <1>2, <1>3, <1>4 DEF StagedInv, Staged, Done, At, NoRun

\* One field changes while nothing runs.
LEMMA StagedField ==
  ASSUME MaxFaults = 0, StagedInv, FlagsInv', run = NoRun,
         NEW f \in {"form", "photos", "stage", "active", "viewModel", "edits"}, NEW value,
         Handle([ss EXCEPT ![f] = value], <<f>>),
         f = "form" => DOMAIN value = {"setup", "models"},
         f = "stage" => value \in {"setup", "photos"} \/ ~Done(ss) \/ ss.stage \in {"analyze", "running", "review"},
         f \in {"form", "photos"} => ss.stage \in {"setup", "photos"}
  PROVE  StagedInv'
<1> DEFINE t == [ss EXCEPT ![f] = value]
<1>1. DOMAIN ss = Fields /\ f \in Fields /\ faults = 0
  BY DEF StagedInv, FlagsInv, WizardInv, Sound, CountedInv, Fields
<1>2. t = [g \in Fields |-> t[g]] /\ (\A g \in Fields : t[g] = ss[g] \/ g = f)
  BY <1>1
<1>3. Staged(t) /\ t.status # "running"
  BY <1>1, <1>2 DEF StagedInv, Staged, Done, Fields
<1>4. Handle(t, <<f>>)
  OBVIOUS
<1> HIDE DEF t
<1>5. \A g \in Fields : t[g] = ss[g] \/ \E n \in 1..Len(<<f>>) : <<f>>[n] = g
  BY <1>2
<1>6. Rerun(t)
  BY <1>1, <1>2, <1>4, <1>5, WholeHandler
<1> QED BY <1>3, <1>6, StagedRerun

\* Handlers that change neither results nor status.
LEMMA StagedFields ==
  ASSUME MaxFaults = 0, StagedInv, FlagsInv',
         \/ \E i \in Setups : ChooseInventory(i)
         \/ \E p \in Photos : AddPhoto(p) \/ RemovePhoto(p) \/ ShowPhoto(p)
         \/ SetupNext \/ PhotosBack \/ AnalyzeBack \/ RunningNext \/ ReviewBack
         \/ PhotosNext /\ ~Done(ss)
         \/ RunningBack /\ ~Shows("error")
         \/ \E m \in Models : ShowModel(m)
         \/ \E e \in 0..latest : Edit(e)
  PROVE  StagedInv'
<1>1. run = NoRun
  BY DEF ChooseInventory, AddPhoto, RemovePhoto, ShowPhoto, SetupNext, PhotosNext, PhotosBack,
         AnalyzeBack, RunningBack, RunningNext, ShowModel, Edit, ReviewBack, On, Reviewing
<1>2. ASSUME NEW stage, Go(stage),
             stage \in {"setup", "photos"} \/ ~Done(ss) \/ ss.stage \in {"analyze", "running", "review"}
      PROVE  StagedInv'
  BY <1>1, <1>2, StagedField DEF Go
<1>3. CASE SetupNext \/ PhotosBack \/ AnalyzeBack
  BY <1>2, <1>3 DEF SetupNext, PhotosBack, AnalyzeBack
<1>4. CASE RunningNext
  BY <1>2, <1>4 DEF RunningNext, On
<1>5. CASE ReviewBack
  BY <1>2, <1>5 DEF ReviewBack, On
<1>6. CASE PhotosNext /\ ~Done(ss)
  BY <1>2, <1>6 DEF PhotosNext, Done
<1>7. CASE RunningBack /\ ~Shows("error")
  BY <1>2, <1>7 DEF RunningBack, On
<1>8. ASSUME NEW i \in Setups, ChooseInventory(i) PROVE StagedInv'
  <2> DEFINE form == [ss.form EXCEPT !.setup = i]
  <2>1. Handle([ss EXCEPT !["form"] = form], <<"form">>) /\ ss.stage = "setup"
    BY <1>8 DEF ChooseInventory, On
  <2>2. DOMAIN form = {"setup", "models"}
    BY DEF StagedInv, Staged
  <2> HIDE DEF form
  <2> QED BY <1>1, <2>1, <2>2, StagedField
<1>9. ASSUME NEW p \in Photos, AddPhoto(p) \/ RemovePhoto(p) \/ ShowPhoto(p) PROVE StagedInv'
  <2>1. \/ Handle([ss EXCEPT !["photos"] = Append(ss.photos, p)], <<"photos">>) /\ ss.stage = "photos"
        \/ Handle([ss EXCEPT !["photos"] = Among(ss.photos, Photos \ {p})], <<"photos">>) /\ ss.stage = "photos"
        \/ Handle([ss EXCEPT !["active"] = p], <<"active">>)
    BY <1>9 DEF AddPhoto, RemovePhoto, ShowPhoto, On
  <2> QED BY <1>1, <2>1, StagedField
<1>10. ASSUME NEW m \in Models, ShowModel(m) PROVE StagedInv'
  BY <1>1, <1>10, StagedField DEF ShowModel
<1>11. ASSUME NEW e \in 0..latest, Edit(e) PROVE StagedInv'
  BY <1>1, <1>11, StagedField DEF Edit
<1> QED BY <1>3, <1>4, <1>5, <1>6, <1>7, <1>8, <1>9, <1>10, <1>11
\* Results that are given up are of nothing that is staged.
LEMMA StagedCleared ==
  ASSUME MaxFaults = 0, StagedInv, FlagsInv',
         \/ PhotosNext /\ Done(ss)
         \/ RerunAnalysis
         \/ RunningBack /\ Shows("error")
  PROVE  StagedInv'
<1>1. DOMAIN ss = Fields /\ faults = 0 /\ DOMAIN ss.form = {"setup", "models"}
  BY DEF StagedInv, FlagsInv, WizardInv, Sound, CountedInv, Staged
<1>2. ASSUME NEW t, NEW order, Handle(t, order), Len(order) \in Nat, t = [f \in Fields |-> t[f]],
             t.status = "idle", t.form = ss.form,
             \A f \in Fields : t[f] = ss[f] \/ \E n \in 1..Len(order) : order[n] = f
      PROVE  StagedInv'
  <2>1. Rerun(t)
    BY <1>1, <1>2, WholeHandler
  <2>2. Staged(t) /\ t.status # "running"
    BY <1>1, <1>2 DEF Staged, Done
  <2> QED BY <2>1, <2>2, StagedRerun
<1>3. CASE PhotosNext /\ Done(ss)
  <2> DEFINE t == [Cleared(ss) EXCEPT !.stage = "analyze"]
             order == <<"status", "results", "save", "savedRec", "stage">>
  <2>1. t = [f \in Fields |-> t[f]] /\ t.status = "idle" /\ t.form = ss.form
        /\ \A f \in Fields : t[f] = ss[f] \/ f \in {"status", "results", "save", "savedRec", "stage"}
    BY <1>1 DEF Cleared, Fields
  <2>2. Handle(t, order)
    BY <1>3 DEF PhotosNext, Done
  <2>3. /\ order[1] = "status" /\ order[2] = "results" /\ order[3] = "save" /\ order[4] = "savedRec"
        /\ order[5] = "stage" /\ Len(order) = 5
    OBVIOUS
  <2> HIDE DEF t, order
  <2>4. \A f \in Fields : t[f] = ss[f] \/ \E n \in 1..Len(order) : order[n] = f
    BY <2>1, <2>3
  <2>5. Len(order) \in Nat
    BY <2>3
  <2> QED BY <1>2, <2>1, <2>2, <2>4, <2>5
<1>4. CASE RerunAnalysis
  <2> DEFINE t == [Cleared(ss) EXCEPT !.cache = {}, !.stage = "analyze"]
             order == <<"status", "results", "save", "savedRec", "cache", "stage">>
  <2>1. t = [f \in Fields |-> t[f]] /\ t.status = "idle" /\ t.form = ss.form
        /\ \A f \in Fields : t[f] = ss[f] \/ f \in {"status", "results", "save", "savedRec", "cache", "stage"}
    BY <1>1 DEF Cleared, Fields
  <2>2. Handle(t, order)
    BY <1>4 DEF RerunAnalysis
  <2>3. /\ order[1] = "status" /\ order[2] = "results" /\ order[3] = "save" /\ order[4] = "savedRec"
        /\ order[5] = "cache" /\ order[6] = "stage" /\ Len(order) = 6
    OBVIOUS
  <2> HIDE DEF t, order
  <2>4. \A f \in Fields : t[f] = ss[f] \/ \E n \in 1..Len(order) : order[n] = f
    BY <2>1, <2>3
  <2>5. Len(order) \in Nat
    BY <2>3
  <2> QED BY <1>2, <2>1, <2>2, <2>4, <2>5
<1>5. CASE RunningBack /\ Shows("error")
  <2> DEFINE t == [ss EXCEPT !.status = "idle", !.running = FALSE, !.stage = "analyze"]
             order == <<"status", "running", "stage">>
  <2>1. t = [f \in Fields |-> t[f]] /\ t.status = "idle" /\ t.form = ss.form
        /\ \A f \in Fields : t[f] = ss[f] \/ f \in {"status", "running", "stage"}
    BY <1>1 DEF Fields
  <2>2. Handle(t, order)
    BY <1>5 DEF RunningBack
  <2>3. order[1] = "status" /\ order[2] = "running" /\ order[3] = "stage" /\ Len(order) = 3
    OBVIOUS
  <2> HIDE DEF t, order
  <2>4. \A f \in Fields : t[f] = ss[f] \/ \E n \in 1..Len(order) : order[n] = f
    BY <2>1, <2>3
  <2>5. Len(order) \in Nat
    BY <2>3
  <2> QED BY <1>2, <2>1, <2>2, <2>4, <2>5
<1> QED BY <1>3, <1>4, <1>5

\* The model selection has a model.
LEMMA SelectionHasModel ==
  ASSUME NEW models, NEW sel \in Selections(models)
  PROVE  Range(sel) \cap models # {}
<1>1. PICK k \in 1..COMPARE_MAX_MODELS : sel \in [1..k -> models]
  BY DEF Selections
<1>2. 1 \in DOMAIN sel /\ sel[1] \in models
  BY <1>1
<1> QED BY <1>2 DEF Range

\* An analysis is started on what is staged.
LEMMA StagedLaunch ==
  ASSUME MaxFaults = 0, Limited = {}, StagedInv, FlagsInv', NEW sel \in Selections(Selectable), RunAnalysis(sel)
  PROVE  StagedInv'
<1> DEFINE t == Launched(sel)
<1>1. Rerun(t) /\ run = NoRun
  BY WholeLaunch DEF StagedInv
<1>2. DOMAIN ss = Fields /\ DOMAIN ss.form = {"setup", "models"} /\ ss.photos # <<>>
  BY DEF StagedInv, Staged, RunAnalysis
<1>3. /\ DOMAIN t = Fields /\ DOMAIN t.form = {"setup", "models"}
      /\ t.form.models = sel /\ t.form.setup = ss.form.setup /\ t.ctx = ss.form.setup
      /\ t.stage = "running" /\ t.status = "running" /\ t.executing = FALSE /\ t.photos # <<>>
  BY <1>2 DEF Launched, Fields
<1> HIDE DEF t
<1>4. /\ DOMAIN ss' = Fields /\ \A f \in Fields \ Drawn : ss'[f] = t[f]
      /\ run' = [at |-> "start"]
  BY <1>1, <1>3, RerunGoes
<1>5. ss'.form = t.form /\ ss'.ctx = t.ctx /\ ss'.status = t.status
  BY <1>4 DEF Fields, Drawn
<1>6. Range(ss'.form.models) \cap Models # {}
  BY <1>3, <1>5, SelectionHasModel DEF Selectable
<1>7. Staged(ss')
  BY <1>3, <1>4, <1>5 DEF Staged, Done
<1>8. run' # NoRun /\ At("start")'
  BY <1>4 DEF NoRun, At
<1> QED BY <1>3, <1>5, <1>6, <1>7, <1>8 DEF StagedInv

\* What it finds is about what is still staged.
LEMMA StagedFinish ==
  ASSUME MaxFaults = 0, StagedInv, FlagsInv', Finish
  PROVE  StagedInv'
<1>1. Rerun(Ended) /\ DOMAIN ss = Fields /\ DOMAIN ss.form = {"setup", "models"}
  BY WholeFinish DEF StagedInv, Staged
<1>2. run.photos = ss.photos /\ run.setup = ss.form.setup
  BY DEF Finish, At, NoRun, StagedInv
<1>3. /\ DOMAIN Ended = Fields /\ Ended.form = ss.form /\ Ended.photos = ss.photos
      /\ Ended.results.photos = run.photos /\ Ended.results.setup = run.setup
      /\ Ended.status = Outcome
  BY <1>1 DEF Ended, Finished, Fields
<1>4. Outcome # "running"
  BY DEF Outcome
<1>5. Staged(Ended)
  BY <1>1, <1>2, <1>3 DEF Staged
<1> QED BY <1>1, <1>3, <1>4, <1>5, StagedRerun

\* With no model limited, an analysis that may run begins.
LEMMA StagedStart ==
  ASSUME Limited = {}, StagedInv, FlagsInv', Start
  PROVE  StagedInv'
<1>1. At("start") /\ run # NoRun /\ Selectable = Models /\ Range(ss.form.models) \cap Models # {}
  BY DEF Start, At, NoRun, StagedInv, Selectable
<1>2. run' = Begun /\ ss' = [ss EXCEPT !.executing = TRUE]
  BY <1>1 DEF Start
<1>3. run'.photos = ss.photos /\ run'.setup = ss.ctx /\ run'.at = "next"
  BY <1>2 DEF Begun
<1>4. DOMAIN ss' = Fields /\ \A f \in Fields \ {"executing"} : ss'[f] = ss[f]
  BY <1>2 DEF StagedInv, Staged, Fields
<1>5. /\ ss'.form = ss.form /\ ss'.photos = ss.photos /\ ss'.ctx = ss.ctx /\ ss'.status = ss.status
      /\ ss'.results = ss.results /\ ss'.stage = ss.stage
  BY <1>4 DEF Fields
<1>6. run' # NoRun /\ ~At("start")'
  BY <1>3 DEF At, NoRun
<1>7. Staged(ss')
  BY <1>4, <1>5 DEF StagedInv, Staged, Done
<1> QED BY <1>1, <1>3, <1>5, <1>6, <1>7 DEF StagedInv

LEMMA StagedStep == MaxFaults = 0 /\ Limited = {} /\ StagedInv /\ [Next]_wizardVars => StagedInv'
<1> SUFFICES ASSUME MaxFaults = 0, Limited = {}, StagedInv, [Next]_wizardVars PROVE StagedInv'
  OBVIOUS
<1>1. FlagsInv' /\ FlagsInv /\ DOMAIN ss = Fields /\ RunShape /\ faults = 0
  BY FlagsStep DEF StagedInv, FlagsInv, Staged, CountedInv, UsageInv
<1>2. CASE \/ \E i \in Setups : ChooseInventory(i)
           \/ \E p \in Photos : AddPhoto(p) \/ RemovePhoto(p) \/ ShowPhoto(p)
           \/ SetupNext \/ PhotosBack \/ AnalyzeBack \/ RunningNext \/ ReviewBack
           \/ PhotosNext \/ RunningBack \/ RerunAnalysis
           \/ \E m \in Models : ShowModel(m)
           \/ \E e \in 0..latest : Edit(e)
  BY <1>1, <1>2, StagedFields, StagedCleared
<1>3. ASSUME NEW sel \in Selections(Selectable), RunAnalysis(sel) PROVE StagedInv'
  BY <1>1, <1>3, StagedLaunch
<1>4. ASSUME NEW sel, GoToRunning(sel) PROVE StagedInv'
  <2> DEFINE t == [ss EXCEPT !.form.models = sel, !.stage = "running"]
  <2>1. Rerun(t) /\ run = NoRun /\ ss.stage = "analyze"
    BY <1>1, <1>4, WholeReturn DEF GoToRunning, On
  <2>2. Staged(t) /\ t.status # "running"
    BY <1>1, <2>1 DEF StagedInv, Staged, Done, Fields
  <2> QED BY <1>1, <2>1, <2>2, StagedRerun
<1>5. CASE Save
  <2> DEFINE t == [ss EXCEPT !.save = "saved", !.savedRec = ss.results.run]
  <2>1. Rerun(t) /\ run = NoRun
    BY <1>1, <1>5, WholeSave
  <2>2. Staged(t) /\ t.status # "running"
    BY <1>1, <2>1 DEF StagedInv, Staged, Done, Fields
  <2> QED BY <1>1, <2>1, <2>2, StagedRerun
<1>6. CASE Reset
  <2>1. Rerun(InitSession) /\ Staged(InitSession) /\ InitSession.status # "running"
    BY <1>1, <1>6, WholeReset DEF InitSession, Staged, Done, Fields
  <2> QED BY <1>1, <2>1, StagedRerun
<1>7. CASE UseThisResult
  <2> DEFINE t == [ss EXCEPT !.accepted = <<ss.active, ss.viewModel>>]
  <2>1. Rerun(t) /\ run = NoRun
    BY <1>7 DEF UseThisResult, Reviewing, On
  <2>2. Staged(t) /\ t.status # "running"
    BY <1>1, <2>1 DEF StagedInv, Staged, Done, Fields
  <2> QED BY <1>1, <2>1, <2>2, StagedRerun
<1>8. CASE Finish \/ Start
  BY <1>1, <1>8, StagedFinish, StagedStart
<1>9. CASE TakeCached \/ SkipPhoto \/ Predict \/ Register \/ \E ok \in BOOLEAN : Store(ok)
  <2>1. /\ run # NoRun /\ ~At("start") /\ run' # NoRun /\ ~At("start")'
        /\ run'.photos = run.photos /\ run'.setup = run.setup
        /\ DOMAIN ss' = Fields /\ \A f \in Fields \ {"cache"} : ss'[f] = ss[f]
    BY <1>1, <1>9, AnalysisGoes
  <2>2. /\ ss'.form = ss.form /\ ss'.photos = ss.photos /\ ss'.ctx = ss.ctx /\ ss'.status = ss.status
        /\ ss'.results = ss.results /\ ss'.stage = ss.stage
    BY <2>1 DEF Fields
  <2> QED BY <1>1, <2>1, <2>2 DEF StagedInv, Staged, Done
<1>10. CASE Nudge
  BY <1>1, <1>10 DEF Nudge
<1>11. CASE (\E m \in Models : OtherTab(m)) \/ UNCHANGED wizardVars
  BY <1>1, <1>11 DEF OtherTab, wizardVars, StagedInv, At
<1> QED BY <1>2, <1>3, <1>4, <1>5, <1>6, <1>7, <1>8, <1>9, <1>10, <1>11 DEF Next, Analysis

\* With models that have no daily limit, and unless a click stops a script,
\* the review shows the results of the photos that are staged, for the
\* inventory type that is chosen: whoever goes back and changes either loses
\* them (stage_photos, _clear_analysis_results).
THEOREM ReviewShowsWhatIsStaged ==
  ASSUME MaxFaults = 0, Limited = {}
  PROVE  Spec => []ReviewedAsStaged
<1>1. Init => StagedInv
  BY WizardInvInit DEF Init, InitSession, StagedInv, Staged, Done, FlagsInv, CountedInv, UsageInv, RunShape,
     Uncounted, At, NoRun, Fields
<1>2. StagedInv => ReviewedAsStaged
  BY DEF StagedInv, Staged, Done, ReviewedAsStaged, Reviewable
<1>3. StagedInv /\ [Next]_wizardVars => StagedInv'
  BY StagedStep
<1> QED BY <1>1, <1>2, <1>3, PTL DEF Spec

----------------------------------------------------------------------------
(* Types.                                                                   *)
\* What Among leaves of a sequence.
LEMMA AmongKeeps ==
  ASSUME NEW T, NEW seq \in Seq(T), NEW S, NEW some, some = Among(seq, S)
  PROVE  /\ some \in Seq(T)
         /\ \A k \in 1..Len(some) : some[k] \in S
         /\ (\E n \in DOMAIN seq : seq[n] \in S) => some # <<>>
         /\ IsInjective(seq) => IsInjective(some)
<1> DEFINE kept == {n \in DOMAIN seq : seq[n] \in S}
           before == {p \in kept \X kept : p[1] < p[2]}
           order == EachPlace(kept, before)
           N == Cardinality(kept)
<1>1. Len(seq) \in Nat /\ DOMAIN seq = 1..Len(seq) /\ \A n \in DOMAIN seq : seq[n] \in T
  BY LenProperties
<1>2. IsFiniteSet(kept) /\ kept \subseteq Nat
  <2>1. IsFiniteSet(1..Len(seq)) /\ kept \in SUBSET (1..Len(seq))
    BY <1>1, FS_Interval
  <2> HIDE DEF kept
  <2>2. IsFiniteSet(kept)
    BY <2>1, FS_Subset
  <2> QED BY <1>1, <2>1, <2>2
<1>3. InARow(kept, before)
  <2>1. \A m, n \in kept : <<m, n>> \in before <=> m < n
    OBVIOUS
  <2> HIDE DEF kept, before
  <2> QED BY <1>2, <2>1 DEF InARow
<1>4. /\ N \in Nat /\ order \in [1..N -> kept]
      /\ \A n \in kept : \E k \in 1..N : order[k] = n
      /\ \A j, k \in 1..N : order[j] = order[k] => j = k
  <2> HIDE DEF kept, before
  <2> QED BY <1>2, <1>3, RowOfAll
<1>5. some = [k \in 1..N |-> seq[order[k]]]
  <2>1. \A n \in kept : {m \in kept : m < n} = {m \in kept : <<m, n>> \in before}
    OBVIOUS
  <2>2. some = [k \in 1..N |-> seq[CHOOSE n \in kept : Cardinality({m \in kept : m < n}) = k - 1]]
    BY DEF Among
  <2>3. \A k \in 1..N : order[k] = CHOOSE n \in kept : Cardinality({m \in kept : <<m, n>> \in before}) = k - 1
    BY DEF EachPlace
  <2>4. ASSUME NEW k
        PROVE  (CHOOSE n \in kept : Cardinality({m \in kept : m < n}) = k - 1)
                 = CHOOSE n \in kept : Cardinality({m \in kept : <<m, n>> \in before}) = k - 1
    <3>1. \A n \in kept : Cardinality({m \in kept : m < n}) = Cardinality({m \in kept : <<m, n>> \in before})
      BY <2>1
    <3> HIDE DEF kept, before
    <3> QED BY <3>1
  <2> HIDE DEF kept, before, order, N
  <2>5. \A k \in 1..N : (CHOOSE n \in kept : Cardinality({m \in kept : m < n}) = k - 1) = order[k]
    BY <2>3, <2>4, Zenon
  <2> QED BY <2>2, <2>5, Zenon
<1>6. \A k \in 1..N : order[k] \in DOMAIN seq /\ seq[order[k]] \in S /\ seq[order[k]] \in T
  BY <1>1, <1>4
<1>7. some \in [1..N -> T] /\ \A k \in 1..N : some[k] = seq[order[k]]
  <2> HIDE DEF order, N, kept
  <2> QED BY <1>5, <1>6
<1>8. some \in Seq(T) /\ Len(some) = N /\ DOMAIN some = 1..N
  <2> HIDE DEF N
  <2> QED BY <1>4, <1>7, FunctionIsRow
<1>9. ASSUME NEW n \in DOMAIN seq, seq[n] \in S PROVE some # <<>>
  <2>1. \E k \in 1..N : order[k] = n
    BY <1>4, <1>9
  <2> HIDE DEF N, order, kept
  <2> QED BY <1>4, <1>8, <2>1
<1>10. ASSUME IsInjective(seq) PROVE IsInjective(some)
  <2> HIDE DEF N, order, kept
  <2> QED BY <1>4, <1>6, <1>7, <1>8, <1>10 DEF IsInjective
<1> HIDE DEF N, order, kept
<1> QED BY <1>6, <1>7, <1>8, <1>9, <1>10

\* The photo and the model of each place of a plan.
LEMMA PlanPlaces ==
  ASSUME NEW P \in Nat, NEW M \in Nat, NEW n \in 1..(P * M)
  PROVE  /\ ((n - 1) \div M) + 1 \in 1..P /\ ((n - 1) % M) + 1 \in 1..M
         /\ n - 1 = (M * ((n - 1) \div M)) + ((n - 1) % M)
<1>1. P * M \in Nat /\ n \in Int /\ n <= P * M /\ n >= 1
  OBVIOUS
<1>2. M > 0
  BY <1>1
<1> DEFINE q == (n - 1) \div M
           r == (n - 1) % M
<1>3. q \in Int /\ r \in 0..(M - 1) /\ n - 1 = M * q + r /\ q >= 0
  BY <1>1, <1>2
<1>4. q < P
  <2>1. SUFFICES ASSUME q >= P PROVE FALSE
    BY <1>3
  <2>2. M * q >= M * P /\ M * P = P * M
    BY <1>2, <1>3, <2>1
  <2> HIDE DEF q, r
  <2> QED BY <1>1, <1>3, <2>2
<1> HIDE DEF q, r
<1>5. q + 1 \in 1..P /\ r + 1 \in 1..M
  BY <1>2, <1>3, <1>4
<1> QED BY <1>3, <1>5 DEF q, r

\* The pairs of an analysis are pairs of its photos and models, each once.
LEMMA PlanTyped ==
  ASSUME NEW photos \in Seq(Photos), NEW models \in Seq(Models)
  PROVE  /\ Plan(photos, models) \in Seq(Pairs)
         /\ \A n \in DOMAIN Plan(photos, models) :
              \E k \in 1..Len(models) : Plan(photos, models)[n][2] = models[k]
         /\ IsInjective(photos) /\ IsInjective(models) => IsInjective(Plan(photos, models))
<1> DEFINE P == Len(photos)
           M == Len(models)
           q(n) == (n - 1) \div M
           r(n) == (n - 1) % M
           plan == Plan(photos, models)
<1>1. P \in Nat /\ M \in Nat /\ P * M \in Nat /\ DOMAIN photos = 1..P /\ DOMAIN models = 1..M
  BY LenProperties
<1>2. \A n \in 1..(P * M) : /\ q(n) + 1 \in 1..P /\ r(n) + 1 \in 1..M
                            /\ n - 1 = M * q(n) + r(n)
  <2> HIDE DEF P, M
  <2> QED BY <1>1, PlanPlaces
<1>3. plan = [n \in 1..(P * M) |-> <<photos[q(n) + 1], models[r(n) + 1]>>]
  BY DEF Plan
<1>4. (\A n \in 1..P : photos[n] \in Photos) /\ (\A n \in 1..M : models[n] \in Models)
  BY LenProperties
<1> HIDE DEF P, M, q, r, plan
<1>5. plan \in [1..(P * M) -> Pairs]
  BY <1>2, <1>3, <1>4 DEF Pairs
<1>6. plan \in Seq(Pairs) /\ DOMAIN plan = 1..(P * M)
  BY <1>1, <1>5, FunctionIsRow
<1>7. ASSUME NEW n \in DOMAIN plan PROVE \E k \in 1..M : plan[n][2] = models[k]
  BY <1>2, <1>3, <1>6
<1>8. ASSUME IsInjective(photos), IsInjective(models) PROVE IsInjective(plan)
  <2> SUFFICES ASSUME NEW m \in 1..(P * M), NEW n \in 1..(P * M), plan[m] = plan[n] PROVE m = n
    BY <1>6 DEF IsInjective
  <2>1. photos[q(m) + 1] = photos[q(n) + 1] /\ models[r(m) + 1] = models[r(n) + 1]
    BY <1>3
  <2>2. q(m) + 1 = q(n) + 1 /\ r(m) + 1 = r(n) + 1
    BY <1>1, <1>2, <1>8, <2>1 DEF IsInjective
  <2>3. m - 1 = n - 1
    <3>1. M * q(m) + r(m) = M * q(n) + r(n)
      <4>1. q(m) \in Int /\ q(n) \in Int /\ r(m) \in Int /\ r(n) \in Int
        BY <1>1, <1>2 DEF q, r
      <4> QED BY <2>2, <4>1
    <3> QED BY <1>2, <3>1
  <2> QED BY <2>3
<1> QED BY <1>6, <1>7, <1>8 DEF plan, M

\* What each field of the session holds.
Types ==
  [stage |-> Stages, status |-> Statuses,
   form |-> [setup : Setups \cup {None}, models : Seq(Models)],
   photos |-> {q \in Seq(Photos) : IsInjective(q)},
   results |-> [run : Runs, items : Seq(Pairs), photos : Seq(Photos), setup : Setups \cup {None}],
   accepted |-> Pairs \cup {None}, edits |-> Runs,
   save |-> {"idle", "saving", "saved"}, savedRec |-> Runs,
   running |-> BOOLEAN, executing |-> BOOLEAN, cache |-> SUBSET (Photos \X Models \X Setups),
   active |-> Photos \cup {None}, viewModel |-> Models \cup {None}, ctx |-> Setups \cup {None}]

SessionTyped(s) == DOMAIN s = Fields /\ \A f \in Fields : s[f] \in Types[f]

\* The inventory type of an analysis is set before it may run.
Prepared(s) == s.status = "running" => s.ctx # None

\* The locals of an analysis: the pair at hand is the first one of todo.
RunFields == [at : {"next", "register", "store"}, todo : Seq(Pairs), got : Seq(Pairs),
              failed : BOOLEAN, photos : Seq(Photos), setup : Setups, models : Nat]
RunTyped ==
  \/ run = NoRun \/ run = [at |-> "start"]
  \/ /\ run \in RunFields
     /\ run.at # "next" => run.todo # <<>>

TypedInv ==
  /\ SessionTyped(ss) /\ Prepared(ss) /\ RunTyped
  /\ latest \in Runs /\ faults \in 0..MaxFaults
  /\ usage \in [Limited -> Nat] /\ asked \in [Limited -> Nat]

\* The types of the session fields, one by one.
LEMMA TypesOf ==
  /\ Types.stage = Stages /\ Types.status = Statuses
  /\ Types.form = [setup : Setups \cup {None}, models : Seq(Models)]
  /\ Types.photos = {q \in Seq(Photos) : IsInjective(q)}
  /\ Types.results = [run : Runs, items : Seq(Pairs), photos : Seq(Photos), setup : Setups \cup {None}]
  /\ Types.accepted = Pairs \cup {None} /\ Types.edits = Runs
  /\ Types.save = {"idle", "saving", "saved"} /\ Types.savedRec = Runs
  /\ Types.running = BOOLEAN /\ Types.executing = BOOLEAN
  /\ Types.cache = SUBSET (Photos \X Models \X Setups)
  /\ Types.active = Photos \cup {None} /\ Types.viewModel = Models \cup {None}
  /\ Types.ctx = Setups \cup {None}
BY DEF Types

LEMMA FreshTyped == SessionTyped(InitSession)
<1>1. InitSession.form \in Types.form /\ InitSession.photos \in Types.photos
      /\ InitSession.results \in Types.results
  <2>1. <<>> \in Seq(Models) /\ <<>> \in Seq(Photos) /\ <<>> \in Seq(Pairs) /\ IsInjective(<<>>)
    BY DEF IsInjective
  <2>2. 0 \in Runs
    BY WizardAssumption DEF Runs
  <2> QED BY <2>1, <2>2, TypesOf DEF InitSession, NoResults
<1>2. DOMAIN InitSession = Fields
  BY DEF InitSession, Fields
<1>3. 0 \in Runs
  BY WizardAssumption DEF Runs
<1>4. /\ InitSession.stage \in Types.stage /\ InitSession.status \in Types.status
      /\ InitSession.accepted \in Types.accepted /\ InitSession.save \in Types.save
  BY TypesOf DEF InitSession, Stages, Statuses
<1>5. /\ InitSession.edits \in Types.edits /\ InitSession.savedRec \in Types.savedRec
      /\ InitSession.running \in Types.running /\ InitSession.executing \in Types.executing
  BY <1>3, TypesOf DEF InitSession
<1>6. /\ InitSession.cache \in Types.cache /\ InitSession.active \in Types.active
      /\ InitSession.viewModel \in Types.viewModel /\ InitSession.ctx \in Types.ctx
  BY TypesOf DEF InitSession
<1> QED BY <1>1, <1>2, <1>4, <1>5, <1>6 DEF SessionTyped, Fields

LEMMA TypedInit == Init => TypedInv
<1> SUFFICES ASSUME Init PROVE TypedInv
  OBVIOUS
<1>3. Prepared(InitSession) /\ run = NoRun
  BY DEF Prepared, InitSession, Init
<1>4. latest \in Runs /\ faults \in 0..MaxFaults
      /\ usage \in [Limited -> Nat] /\ asked \in [Limited -> Nat]
  BY WizardAssumption DEF Init, Runs
<1> QED BY <1>3, <1>4, FreshTyped DEF Init, TypedInv, RunTyped

\* t is s but for some of the fields, which are typed.
Differs(s, t, changed) ==
  /\ DOMAIN t = Fields /\ \A f \in Fields \ changed : t[f] = s[f]
  /\ \A f \in changed : t[f] \in Types[f]

\* A session that differs in typed fields is typed.
LEMMA FieldsTyped ==
  ASSUME NEW s, SessionTyped(s), NEW t, NEW changed, Differs(s, t, changed)
  PROVE  SessionTyped(t)
BY DEF SessionTyped, Differs

\* So is one of which a stopped handler has written a prefix.
LEMMA WrittenTyped ==
  ASSUME NEW s, SessionTyped(s), NEW t, SessionTyped(t), NEW order, NEW k
  PROVE  SessionTyped(Written(s, t, order, k))
<1>1. DOMAIN s = Fields
  BY DEF SessionTyped
<1>2. /\ DOMAIN Written(s, t, order, k) = Fields
      /\ \A f \in Fields : Written(s, t, order, k)[f] \in {s[f], t[f]}
  BY <1>1, WrittenFields
<1> QED BY <1>2 DEF SessionTyped

\* Redirecting changes the page alone.
LEMMA RedirectedTyped ==
  ASSUME NEW s, SessionTyped(s)
  PROVE  SessionTyped(Redirected(s)) /\ Redirected(s).status = s.status
         /\ Redirected(s).ctx = s.ctx
<1> DEFINE t == Redirected(s)
<1>1. DOMAIN s = Fields
  BY DEF SessionTyped
<1>2. DOMAIN t = Fields /\ (\A f \in Fields \ {"stage"} : t[f] = s[f])
      /\ (t.stage = s.stage \/ t.stage \in Stages)
  BY <1>1 DEF Redirected, Fields, Stages
<1> HIDE DEF t
<1>3. SessionTyped(t)
  <2>1. t.stage \in Types.stage
    BY <1>2, TypesOf DEF SessionTyped, Fields
  <2>2. Differs(s, t, {"stage"})
    BY <1>2, <2>1 DEF Differs
  <2> QED BY <2>2, FieldsTyped
<1> QED BY <1>2, <1>3 DEF Fields, t

\* The page of the review picks a photo, a model and a result among the results.
Picks(s, t) ==
  /\ DOMAIN t = Fields /\ \A f \in Fields \ {"active", "viewModel", "accepted"} : t[f] = s[f]
  /\ t.active \in Photos /\ t.viewModel \in Models /\ t.accepted \in Pairs

\* The review aims at a photo and a model of its results, or keeps those it has.
LEMMA AimedPicks ==
  ASSUME NEW s, DOMAIN s = Fields, s.results.items \in Seq(Pairs),
         s.stage = "review", ~SavedScreen(s), Reviewable(s)
  PROVE  Picks(s, Aimed(s))
<1> DEFINE items    == s.results.items
           active   == IF s.active \in PhotosOf(items) THEN s.active ELSE items[1][1]
           own      == ModelsOf(items, active)
           view     == IF <<active, s.viewModel>> \in Range(own) THEN s.viewModel ELSE own[1][2]
           accepted == IF s.accepted \in Range(own) THEN s.accepted ELSE <<active, view>>
<1>1. items \in Seq(Pairs) /\ items # <<>> /\ Len(items) \in Nat /\ DOMAIN items = 1..Len(items)
      /\ 1 \in DOMAIN items /\ \A n \in DOMAIN items : items[n] \in Pairs
  <2>1. items \in Seq(Pairs) /\ items # <<>>
    BY DEF Reviewable
  <2> HIDE DEF items
  <2> QED BY <2>1, LenProperties
<1>2. active \in PhotosOf(items) /\ active \in Photos
  <2> HIDE DEF items
  <2> QED BY <1>1 DEF PhotosOf, Pairs
<1>3. own \in Seq(Pairs) /\ own # <<>> /\ \A k \in 1..Len(own) : own[k] \in Pairs /\ own[k][1] = active
  <2> HIDE DEF items, active
  <2> DEFINE S == {r \in Range(items) : r[1] = active}
  <2>1. own = Among(items, S)
    BY DEF ModelsOf
  <2>2. \E n \in DOMAIN items : items[n] \in S
    BY <1>2 DEF PhotosOf, Range
  <2> HIDE DEF S, own
  <2>3. own \in Seq(Pairs) /\ own # <<>> /\ \A k \in 1..Len(own) : own[k] \in S
    BY <1>1, <2>1, <2>2, AmongKeeps, Zenon
  <2>4. \A k \in 1..Len(own) : own[k] \in Pairs
    BY <2>3, LenProperties
  <2> QED BY <2>3, <2>4 DEF S
<1>4. 1 \in 1..Len(own) /\ \A r \in Range(own) : r \in Pairs /\ r[1] = active
  <2> HIDE DEF own, active, items
  <2>1. Len(own) \in Nat /\ DOMAIN own = 1..Len(own) /\ Len(own) # 0
    BY <1>3, LenProperties
  <2> QED BY <1>3, <2>1 DEF Range
<1>5. view \in Models
  <2> HIDE DEF own, active, items
  <2> QED BY <1>3, <1>4 DEF Pairs
<1>6. accepted \in Pairs
  <2> HIDE DEF own, active, items, view
  <2> QED BY <1>2, <1>4, <1>5 DEF Pairs
<1>7. Aimed(s) = [s EXCEPT !.active = active, !.viewModel = view, !.accepted = accepted]
  BY DEF Aimed
<1> HIDE DEF own, active, items, view, accepted
<1>8. DOMAIN Aimed(s) = Fields /\ \A f \in Fields \ {"active", "viewModel", "accepted"} : Aimed(s)[f] = s[f]
  BY <1>7
<1>9. Aimed(s).active = active /\ Aimed(s).viewModel = view /\ Aimed(s).accepted = accepted
  BY <1>7 DEF Fields
<1> QED BY <1>2, <1>5, <1>6, <1>8, <1>9 DEF Picks

\* The run of the script that follows keeps what a handler leaves typed.
LEMMA RerunTyped ==
  ASSUME NEW s, SessionTyped(s), Prepared(s), Rerun(s)
  PROVE  SessionTyped(ss') /\ Prepared(ss') /\ RunTyped'
<1> DEFINE d == Redirected(s)
<1>1. SessionTyped(d) /\ d.status = s.status /\ d.ctx = s.ctx
  BY RedirectedTyped
<1> HIDE DEF d
<1>2. CASE Starts(d)
  <2>1. ss' = d /\ run' = [at |-> "start"]
    BY <1>2 DEF Rerun, d
  <2> QED BY <1>1, <2>1 DEF Prepared, RunTyped
<1>3. CASE ~Starts(d)
  <2>1. ss' = Aimed(d) /\ run' = NoRun
    BY <1>3 DEF Rerun, d
  <2>2. CASE d.stage # "review" \/ SavedScreen(d) \/ ~Reviewable(d)
    <3>1. Aimed(d) = d
      BY <2>2 DEF Aimed
    <3> QED BY <1>1, <2>1, <3>1 DEF Prepared, RunTyped
  <2>3. CASE d.stage = "review" /\ ~SavedScreen(d) /\ Reviewable(d)
    <3>1. DOMAIN d = Fields /\ d.results \in Types.results
      BY <1>1 DEF SessionTyped, Fields
    <3>2. Picks(d, Aimed(d))
      BY <2>3, <3>1, AimedPicks, TypesOf
    <3> DEFINE t == Aimed(d)
    <3> HIDE DEF t
    <3>3. SessionTyped(t)
      <4>1. \A f \in {"active", "viewModel", "accepted"} : t[f] \in Types[f]
        BY <3>2, TypesOf DEF Picks, t
      <4>2. Differs(d, t, {"active", "viewModel", "accepted"})
        BY <3>2, <4>1 DEF Picks, Differs, t
      <4> QED BY <1>1, <4>2, FieldsTyped
    <3>4. t.status = d.status /\ t.ctx = d.ctx
      BY <3>2 DEF Picks, Fields, t
    <3> QED BY <1>1, <2>1, <3>3, <3>4 DEF Prepared, RunTyped, t
  <2> QED BY <2>2, <2>3
<1> QED BY <1>2, <1>3

\* However far a handler comes, an analysis that may run has its inventory type.
PreparedAll(t, order) == \A k \in 0..Len(order) : Prepared(Written(ss, t, order, k))

\* A handler that sets typed fields.
LEMMA HandleTyped ==
  ASSUME TypedInv, NEW t, NEW order, Handle(t, order), SessionTyped(t), Len(order) \in Nat,
         PreparedAll(t, order)
  PROVE  TypedInv'
<1>1. PICK k \in Reached(Len(order)) : Rerun(Written(ss, t, order, k)) /\ Stopped(k = Len(order))
  BY DEF Handle
<1>2. k \in 0..Len(order)
  BY <1>1 DEF Reached
<1>3. SessionTyped(Written(ss, t, order, k)) /\ Prepared(Written(ss, t, order, k))
  BY <1>2, WrittenTyped DEF TypedInv, PreparedAll
<1>4. SessionTyped(ss') /\ Prepared(ss') /\ RunTyped'
  BY <1>1, <1>3, RerunTyped
<1>5. faults' \in 0..MaxFaults
  BY <1>1, <1>2, WizardAssumption DEF Reached, Stopped, TypedInv
<1> QED BY <1>4, <1>5 DEF TypedInv, Handle, stores

\* Most handlers leave ctx alone and start nothing.
LEMMA PlainTyped ==
  ASSUME TypedInv, NEW t, NEW order, Handle(t, order), SessionTyped(t), Len(order) \in Nat,
         t.ctx = ss.ctx, t.status \in {ss.status, "idle"}
  PROVE  TypedInv'
<1>1. ASSUME NEW k \in 0..Len(order) PROVE Prepared(Written(ss, t, order, k))
  <2> DEFINE w == Written(ss, t, order, k)
  <2>1. \A f \in Fields : w[f] \in {ss[f], t[f]}
    BY WrittenFields DEF TypedInv, SessionTyped
  <2>2. w.status \in {ss.status, "idle"} /\ w.ctx = ss.ctx
    <3> HIDE DEF w
    <3> QED BY <2>1 DEF Fields
  <2> HIDE DEF w
  <2>3. Prepared(w)
    BY <2>2 DEF TypedInv, Prepared
  <2> QED BY <2>3 DEF w
<1>2. PreparedAll(t, order)
  BY <1>1 DEF PreparedAll
<1> QED BY <1>2, HandleTyped

\* Handlers that set one field.
LEMMA FieldTyped ==
  ASSUME TypedInv, NEW f \in Fields \ {"status", "ctx"}, NEW v \in Types[f],
         Handle([ss EXCEPT ![f] = v], <<f>>)
  PROVE  TypedInv'
<1> DEFINE t == [ss EXCEPT ![f] = v]
<1>1. DOMAIN t = Fields /\ t[f] = v /\ \A g \in Fields \ {f} : t[g] = ss[g]
  BY DEF TypedInv, SessionTyped
<1> HIDE DEF t
<1>2. SessionTyped(t) /\ t.status = ss.status /\ t.ctx = ss.ctx
  <2>1. Differs(ss, t, {f})
    BY <1>1 DEF Differs
  <2>2. SessionTyped(t)
    BY <2>1, FieldsTyped DEF TypedInv
  <2> QED BY <1>1, <2>2 DEF Fields
<1>3. Len(<<f>>) \in Nat
  OBVIOUS
<1> QED BY <1>2, <1>3, PlainTyped DEF t

LEMMA GoTyped ==
  ASSUME TypedInv, NEW stage \in Stages, Go(stage)
  PROVE  TypedInv'
<1>1. Handle([ss EXCEPT !["stage"] = stage], <<"stage">>)
  BY DEF Go
<1> QED BY <1>1, FieldTyped, TypesOf DEF Fields

LEMMA PagesTyped ==
  ASSUME TypedInv,
         \/ \E i \in Setups : ChooseInventory(i)
         \/ \E p \in Photos : AddPhoto(p) \/ RemovePhoto(p) \/ ShowPhoto(p)
         \/ SetupNext \/ PhotosBack \/ AnalyzeBack \/ ReviewBack \/ RunningNext
         \/ \E m \in Models : ShowModel(m)
         \/ \E e \in 0..latest : Edit(e)
  PROVE  TypedInv'
<1>0. /\ ss.form \in Types.form /\ ss.photos \in Types.photos /\ DOMAIN ss = Fields
  BY DEF TypedInv, SessionTyped, Fields
<1>1. ASSUME NEW i \in Setups, ChooseInventory(i) PROVE TypedInv'
  <2> DEFINE v == [ss.form EXCEPT !.setup = i]
  <2>1. v \in Types.form
    BY <1>0, TypesOf
  <2>2. Handle([ss EXCEPT !["form"] = v], <<"form">>)
    BY <1>1 DEF ChooseInventory
  <2> HIDE DEF v
  <2> QED BY <2>1, <2>2, FieldTyped DEF Fields
<1>2. ASSUME NEW p \in Photos, AddPhoto(p) PROVE TypedInv'
  <2> DEFINE v == Append(ss.photos, p)
  <2>1. v \in Types.photos
    <3>1. ss.photos \in Seq(Photos) /\ IsInjective(ss.photos) /\ p \notin Range(ss.photos)
      BY <1>0, <1>2, TypesOf DEF AddPhoto
    <3>2. /\ v \in Seq(Photos) /\ Len(v) = Len(ss.photos) + 1 /\ Len(ss.photos) \in Nat
          /\ (\A i \in 1..Len(ss.photos) : v[i] = ss.photos[i]) /\ v[Len(ss.photos) + 1] = p
          /\ DOMAIN ss.photos = 1..Len(ss.photos) /\ DOMAIN v = 1..Len(v)
      BY <3>1, AppendProperties, LenProperties
    <3> HIDE DEF v
    <3>3. IsInjective(v)
      BY <3>1, <3>2 DEF IsInjective, Range
    <3> QED BY <3>2, <3>3, TypesOf
  <2>2. Handle([ss EXCEPT !["photos"] = v], <<"photos">>)
    BY <1>2 DEF AddPhoto
  <2> HIDE DEF v
  <2> QED BY <2>1, <2>2, FieldTyped DEF Fields
<1>3. ASSUME NEW p \in Photos, RemovePhoto(p) PROVE TypedInv'
  <2> DEFINE v == Among(ss.photos, Photos \ {p})
  <2>1. v \in Types.photos
    BY <1>0, AmongKeeps, TypesOf
  <2>2. Handle([ss EXCEPT !["photos"] = v], <<"photos">>)
    BY <1>3 DEF RemovePhoto
  <2> HIDE DEF v
  <2> QED BY <2>1, <2>2, FieldTyped DEF Fields
<1>4. ASSUME NEW p \in Photos, ShowPhoto(p) PROVE TypedInv'
  <2>1. Handle([ss EXCEPT !["active"] = p], <<"active">>)
    BY <1>4 DEF ShowPhoto
  <2> QED BY <2>1, FieldTyped, TypesOf DEF Fields
<1>5. ASSUME NEW m \in Models, ShowModel(m) PROVE TypedInv'
  <2>1. Handle([ss EXCEPT !["viewModel"] = m], <<"viewModel">>)
    BY <1>5 DEF ShowModel
  <2> QED BY <2>1, FieldTyped, TypesOf DEF Fields
<1>6. ASSUME NEW e \in 0..latest, Edit(e) PROVE TypedInv'
  <2>1. Handle([ss EXCEPT !["edits"] = e], <<"edits">>)
    BY <1>6 DEF Edit
  <2>2. e \in Types.edits
    BY <1>6, TypesOf, WizardAssumption DEF TypedInv, Runs
  <2> QED BY <2>1, <2>2, FieldTyped DEF Fields
<1>7. CASE SetupNext \/ PhotosBack \/ AnalyzeBack \/ ReviewBack \/ RunningNext
  BY <1>7, GoTyped DEF SetupNext, PhotosBack, AnalyzeBack, ReviewBack, RunningNext, Stages
<1> QED BY <1>1, <1>2, <1>3, <1>4, <1>5, <1>6, <1>7

LEMMA ClearedTyped ==
  ASSUME TypedInv, PhotosNext \/ RerunAnalysis \/ RunningBack
  PROVE  TypedInv'
<1>0. DOMAIN ss = Fields
  BY DEF TypedInv, SessionTyped
<1>1. 0 \in Runs /\ NoResults \in Types.results /\ "idle" \in Types.status /\ "idle" \in Types.save
      /\ {} \in Types.cache /\ "analyze" \in Types.stage /\ FALSE \in Types.running
  <2>1. <<>> \in Seq(Photos) /\ <<>> \in Seq(Pairs)
    OBVIOUS
  <2>2. 0 \in Runs
    BY WizardAssumption DEF Runs
  <2>3. NoResults \in Types.results
    BY <2>1, <2>2, TypesOf DEF NoResults
  <2> QED BY <2>2, <2>3, TypesOf DEF Stages, Statuses
<1>2. CASE PhotosNext /\ ss.status \in {"complete", "partial"}
  <2> DEFINE t == [Cleared(ss) EXCEPT !.stage = "analyze"]
  <2>1. /\ DOMAIN t = Fields
        /\ \A f \in Fields \ {"status", "results", "save", "savedRec", "stage"} : t[f] = ss[f]
        /\ t.status = "idle" /\ t.results = NoResults /\ t.save = "idle" /\ t.savedRec = 0
        /\ t.stage = "analyze"
    BY <1>0 DEF Cleared, Fields
  <2>2. Handle(t, <<"status", "results", "save", "savedRec", "stage">>)
    BY <1>2 DEF PhotosNext
  <2> HIDE DEF t
  <2>3. SessionTyped(t)
    <3>1. \A f \in {"status", "results", "save", "savedRec", "stage"} : t[f] \in Types[f]
      BY <1>1, <2>1, TypesOf
    <3>2. Differs(ss, t, {"status", "results", "save", "savedRec", "stage"})
      BY <2>1, <3>1 DEF Differs
    <3> QED BY <3>2, FieldsTyped DEF TypedInv
  <2>4. t.ctx = ss.ctx /\ t.status = "idle"
    BY <2>1 DEF Fields
  <2> QED BY <2>2, <2>3, <2>4, PlainTyped
<1>3. CASE RerunAnalysis
  <2> DEFINE t == [Cleared(ss) EXCEPT !.cache = {}, !.stage = "analyze"]
  <2>1. /\ DOMAIN t = Fields
        /\ \A f \in Fields \ {"status", "results", "save", "savedRec", "cache", "stage"} : t[f] = ss[f]
        /\ t.status = "idle" /\ t.results = NoResults /\ t.save = "idle" /\ t.savedRec = 0
        /\ t.stage = "analyze" /\ t.cache = {}
    BY <1>0 DEF Cleared, Fields
  <2>2. Handle(t, <<"status", "results", "save", "savedRec", "cache", "stage">>)
    BY <1>3 DEF RerunAnalysis
  <2> HIDE DEF t
  <2>3. SessionTyped(t)
    <3>1. \A f \in {"status", "results", "save", "savedRec", "cache", "stage"} : t[f] \in Types[f]
      BY <1>1, <2>1, TypesOf
    <3>2. Differs(ss, t, {"status", "results", "save", "savedRec", "cache", "stage"})
      BY <2>1, <3>1 DEF Differs
    <3> QED BY <3>2, FieldsTyped DEF TypedInv
  <2>4. t.ctx = ss.ctx /\ t.status = "idle"
    BY <2>1 DEF Fields
  <2> QED BY <2>2, <2>3, <2>4, PlainTyped
<1>4. CASE RunningBack /\ Shows("error")
  <2> DEFINE t == [ss EXCEPT !.status = "idle", !.running = FALSE, !.stage = "analyze"]
  <2>1. /\ DOMAIN t = Fields
        /\ \A f \in Fields \ {"status", "running", "stage"} : t[f] = ss[f]
        /\ t.status = "idle" /\ t.running = FALSE /\ t.stage = "analyze"
    BY <1>0 DEF Fields
  <2>2. Handle(t, <<"status", "running", "stage">>)
    BY <1>4 DEF RunningBack
  <2> HIDE DEF t
  <2>3. SessionTyped(t)
    <3>1. \A f \in {"status", "running", "stage"} : t[f] \in Types[f]
      BY <1>1, <2>1
    <3>2. Differs(ss, t, {"status", "running", "stage"})
      BY <2>1, <3>1 DEF Differs
    <3> QED BY <3>2, FieldsTyped DEF TypedInv
  <2>4. t.ctx = ss.ctx /\ t.status = "idle"
    BY <2>1 DEF Fields
  <2> QED BY <2>2, <2>3, <2>4, PlainTyped
<1>5. CASE \/ PhotosNext /\ ss.status \notin {"complete", "partial"}
           \/ RunningBack /\ ~Shows("error")
  BY <1>5, GoTyped DEF PhotosNext, RunningBack, Stages
<1> QED BY <1>2, <1>3, <1>4, <1>5

\* A selection is a sequence of models.
LEMMA SelectionTyped ==
  ASSUME NEW sel \in Selections(Selectable)
  PROVE  sel \in Seq(Models)
<1>1. PICK k \in 1..COMPARE_MAX_MODELS : sel \in [1..k -> Selectable]
  BY DEF Selections
<1>2. k \in Nat /\ sel \in [1..k -> Models]
  BY <1>1 DEF COMPARE_MAX_MODELS, Selectable
<1> QED BY <1>2, FunctionIsRow

LEMMA LaunchTyped ==
  ASSUME TypedInv, NEW sel \in Selections(Selectable), GoToRunning(sel) \/ RunAnalysis(sel)
  PROVE  TypedInv'
<1>0. DOMAIN ss = Fields /\ ss.form \in Types.form
  BY DEF TypedInv, SessionTyped, Fields
<1> DEFINE form == [ss.form EXCEPT !.models = sel]
<1>1. form \in Types.form /\ "running" \in Types.stage /\ "running" \in Types.status
      /\ TRUE \in Types.running /\ FALSE \in Types.executing /\ ss.form.setup \in Types.ctx
  BY <1>0, SelectionTyped, TypesOf DEF Stages, Statuses
<1>2. CASE GoToRunning(sel)
  <2> DEFINE t == [ss EXCEPT !.form.models = sel, !.stage = "running"]
  <2>1. /\ DOMAIN t = Fields /\ \A f \in Fields \ {"form", "stage"} : t[f] = ss[f]
        /\ t.form = form /\ t.stage = "running"
    BY <1>0 DEF Fields
  <2>2. Handle(t, <<"form", "stage">>)
    BY <1>2 DEF GoToRunning
  <2> HIDE DEF t, form
  <2>3. SessionTyped(t)
    <3>1. \A f \in {"form", "stage"} : t[f] \in Types[f]
      BY <1>1, <2>1
    <3>2. Differs(ss, t, {"form", "stage"})
      BY <2>1, <3>1 DEF Differs
    <3> QED BY <3>2, FieldsTyped DEF TypedInv
  <2>4. t.ctx = ss.ctx /\ t.status = ss.status
    BY <2>1 DEF Fields
  <2> QED BY <2>2, <2>3, <2>4, PlainTyped
<1>3. CASE RunAnalysis(sel)
  <2> DEFINE t == [ss EXCEPT !.form.models = sel, !.ctx = ss.form.setup, !.running = TRUE,
                             !.status = "running", !.executing = FALSE, !.stage = "running"]
             order == <<"form", "ctx", "running", "status", "executing", "stage">>
  <2>1. /\ DOMAIN t = Fields
        /\ \A f \in Fields \ {"form", "ctx", "running", "status", "executing", "stage"} : t[f] = ss[f]
        /\ t.form = form /\ t.ctx = ss.form.setup /\ t.running = TRUE /\ t.status = "running"
        /\ t.executing = FALSE /\ t.stage = "running"
    BY <1>0 DEF Fields
  <2>2. Handle(t, order) /\ ss.status = "idle" /\ ss.form.setup # None
    BY <1>3 DEF RunAnalysis
  <2> HIDE DEF t, form
  <2>3. SessionTyped(t)
    <3>1. \A f \in {"form", "ctx", "running", "status", "executing", "stage"} : t[f] \in Types[f]
      BY <1>1, <2>1
    <3>2. Differs(ss, t, {"form", "ctx", "running", "status", "executing", "stage"})
      BY <2>1, <3>1 DEF Differs
    <3> QED BY <3>2, FieldsTyped DEF TypedInv
  <2>4. ASSUME NEW k \in 0..6 PROVE Prepared(Written(ss, t, order, k))
    <3> DEFINE w == Written(ss, t, order, k)
    <3>1. /\ w.status = IF \E n \in 1..k : order[n] = "status" THEN t.status ELSE ss.status
          /\ w.ctx = IF \E n \in 1..k : order[n] = "ctx" THEN t.ctx ELSE ss.ctx
      <4> HIDE DEF order
      <4> QED BY <1>0, WrittenFields DEF Fields
    <3> HIDE DEF w
    <3>2. CASE k < 4
      <4>1. w.status = "idle"
        BY <2>2, <3>1, <3>2
      <4> QED BY <4>1 DEF Prepared, w
    <3>3. CASE k >= 4
      <4>1. 2 \in 1..k /\ order[2] = "ctx"
        BY <3>3
      <4>2. w.ctx # None
        BY <2>1, <2>2, <3>1, <4>1
      <4> QED BY <4>2 DEF Prepared, w
    <3> QED BY <3>2, <3>3
  <2>5. Len(order) = 6
    OBVIOUS
  <2>6. PreparedAll(t, order)
    BY <2>4, <2>5 DEF PreparedAll
  <2> HIDE DEF order
  <2> QED BY <2>2, <2>3, <2>5, <2>6, HandleTyped
<1> QED BY <1>2, <1>3

\* Taking the first pair off the pairs that are left.
LEMMA PairTaken ==
  ASSUME run \in RunFields, run.todo # <<>>
  PROVE  /\ Pair \in Pairs /\ CacheKey \in Photos \X Models \X Setups
         /\ Tail(run.todo) \in Seq(Pairs)
         /\ Append(run.got, Pair) \in Seq(Pairs)
<1>1. run.todo \in Seq(Pairs) /\ run.got \in Seq(Pairs) /\ run.setup \in Setups
  BY DEF RunFields
<1>2. Pair \in Pairs /\ Tail(run.todo) \in Seq(Pairs)
  BY <1>1, HeadTailProperties DEF Pair
<1>3. CacheKey \in Photos \X Models \X Setups
  BY <1>1, <1>2 DEF CacheKey, Pairs
<1> QED BY <1>1, <1>2, <1>3, AppendProperties

LEMMA StartTyped ==
  ASSUME TypedInv, WizardInv, Start
  PROVE  TypedInv'
<1>1. At("start") /\ run # NoRun /\ ss.status = "running"
  BY DEF Start, At, NoRun, WizardInv
<1>2. /\ ss.form \in Types.form /\ ss.photos \in Types.photos /\ ss.ctx \in Types.ctx /\ ss.ctx # None
      /\ DOMAIN ss = Fields
  BY <1>1 DEF TypedInv, SessionTyped, Fields, Prepared
<1>3. CASE run' = NoRun /\ UNCHANGED ss
  BY <1>3 DEF TypedInv, Start, stores, RunTyped
<1>4. CASE run' = Begun /\ ss' = [ss EXCEPT !.executing = TRUE]
  <2> DEFINE models == Usable(ss.form.models)
  <2>1. models \in Seq(Models)
    BY <1>2, AmongKeeps, TypesOf DEF Usable
  <2>2. ss.photos \in Seq(Photos) /\ ss.ctx \in Setups /\ <<>> \in Seq(Pairs)
    BY <1>2, TypesOf
  <2> HIDE DEF models
  <2>3. Plan(ss.photos, models) \in Seq(Pairs) /\ Len(models) \in Nat
    BY <2>1, <2>2, PlanTyped, LenProperties
  <2>4. Begun \in RunFields /\ Begun.at = "next"
    BY <2>2, <2>3 DEF Begun, RunFields, models
  <2>5. Differs(ss, ss', {"executing"})
    BY <1>2, <1>4, TypesOf DEF Differs, Fields
  <2>6. SessionTyped(ss')
    BY <2>5, FieldsTyped DEF TypedInv
  <2>7. ss'.ctx = ss.ctx
    BY <2>5 DEF Differs, Fields
  <2>8. RunTyped'
    BY <1>4, <2>4 DEF RunTyped, RunFields
  <2> QED BY <1>2, <2>6, <2>7, <2>8 DEF TypedInv, Start, stores, Prepared
<1> QED BY <1>3, <1>4 DEF Start

\* An analysis that is neither absent nor about to start has its locals.
LEMMA InProgress ==
  ASSUME RunTyped, ~At("start"), run # NoRun
  PROVE  run \in RunFields /\ (run.at # "next" => run.todo # <<>>)
BY DEF RunTyped, At, RunFields

LEMMA AnalysingTyped ==
  ASSUME TypedInv, TakeCached \/ SkipPhoto \/ Predict \/ Register \/ \E ok \in BOOLEAN : Store(ok)
  PROVE  TypedInv'
<1>0. (At("next") /\ run.todo # <<>>) \/ At("register") \/ At("store")
  BY Zenon DEF TakeCached, SkipPhoto, Predict, Register, Store
<1>1. ~At("start") /\ run # NoRun
  BY <1>0 DEF At, NoRun
<1>2. run \in RunFields /\ run.todo # <<>>
  BY <1>0, <1>1, InProgress DEF TypedInv, At
<1>3. /\ Pair \in Pairs /\ CacheKey \in Photos \X Models \X Setups
      /\ Tail(run.todo) \in Seq(Pairs) /\ Append(run.got, Pair) \in Seq(Pairs)
  BY <1>2, PairTaken
<1>4. \A c \in [Limited -> Nat] : Billed(c, Pair[2]) \in [Limited -> Nat]
  BY BilledOnce
<1>5. CASE TakeCached
  <2>1. run' \in RunFields /\ run'.at = "next"
    BY <1>2, <1>3, <1>5 DEF TakeCached, RunFields, At
  <2> QED BY <1>5, <2>1 DEF TypedInv, TakeCached, stores, RunTyped, RunFields, Prepared
<1>6. CASE SkipPhoto
  <2> DEFINE rest == SubSeq(run.todo, run.models + 1, Len(run.todo))
  <2>1. rest \in Seq(Pairs)
    <3>1. run.models \in Nat /\ run.todo \in Seq(Pairs)
      BY <1>2 DEF RunFields
    <3>2. /\ Len(run.todo) \in Int /\ run.models + 1 \in Int
          /\ \A i \in run.models + 1 .. Len(run.todo) : run.todo[i] \in Pairs
      BY <3>1, LenProperties
    <3> QED BY <3>2, SubSeqProperties
  <2>2. run' = [run EXCEPT !.todo = rest, !.failed = TRUE]
    BY <1>6 DEF SkipPhoto
  <2> HIDE DEF rest
  <2>3. run' \in RunFields /\ run'.at = "next"
    BY <1>2, <1>6, <2>1, <2>2 DEF SkipPhoto, RunFields, At
  <2> QED BY <1>6, <2>3 DEF TypedInv, SkipPhoto, stores, RunTyped, RunFields, Prepared
<1>7. CASE Predict
  <2>1. run' \in RunFields /\ run'.todo # <<>>
    BY <1>2, <1>7 DEF Predict, RunFields
  <2>2. asked' \in [Limited -> Nat]
    BY <1>4, <1>7 DEF Predict, TypedInv
  <2> QED BY <1>7, <2>1, <2>2 DEF TypedInv, Predict, RunTyped, RunFields, Prepared
<1>8. CASE Register
  <2>1. run' \in RunFields /\ run'.todo # <<>>
    BY <1>2, <1>8 DEF Register, RunFields
  <2>2. usage' \in [Limited -> Nat] /\ faults' \in 0..MaxFaults
    BY <1>4, <1>8, WizardAssumption DEF Register, TypedInv
  <2> QED BY <1>8, <2>1, <2>2 DEF TypedInv, Register, RunTyped, RunFields, Prepared
<1>9. ASSUME NEW ok \in BOOLEAN, Store(ok) PROVE TypedInv'
  <2>1. run' \in RunFields /\ run'.at = "next"
    BY <1>2, <1>3, <1>9 DEF Store, RunFields
  <2>2. DOMAIN ss = Fields /\ ss.cache \in Types.cache
    BY DEF TypedInv, SessionTyped, Fields
  <2>3. ss' = ss \/ Differs(ss, ss', {"cache"})
    <3>1. ss' = ss \/ ss' = [ss EXCEPT !.cache = @ \cup {CacheKey}]
      BY <1>9 DEF Store
    <3>2. ss.cache \cup {CacheKey} \in Types.cache
      BY <1>3, <2>2, TypesOf
    <3> QED BY <2>2, <3>1, <3>2 DEF Differs, Fields
  <2>4. SessionTyped(ss') /\ ss'.status = ss.status /\ ss'.ctx = ss.ctx
    <3>1. SessionTyped(ss')
      BY <2>3, FieldsTyped DEF TypedInv
    <3> QED BY <2>3, <3>1 DEF Differs, Fields
  <2> QED BY <1>9, <2>1, <2>4 DEF TypedInv, Store, stores, RunTyped, RunFields, Prepared
<1> QED BY <1>5, <1>6, <1>7, <1>8, <1>9

\* A stopped analysis releases flags, and nothing else.
LEMMA ReleasedTyped ==
  ASSUME NEW s, SessionTyped(s), NEW j
  PROVE  SessionTyped(Released(s, j)) /\ Released(s, j).status = s.status /\ Released(s, j).ctx = s.ctx
<1> DEFINE t == [s EXCEPT !.executing = FALSE, !.running = FALSE]
<1>1. DOMAIN s = Fields
  BY DEF SessionTyped
<1>2. Differs(s, t, {"executing", "running"})
  BY <1>1, TypesOf DEF Differs, Fields
<1> HIDE DEF t
<1>3. SessionTyped(t)
  BY <1>2, FieldsTyped
<1> DEFINE w == Written(s, t, <<"executing", "running">>, j)
<1>4. SessionTyped(w)
  BY <1>3, WrittenTyped
<1>5. \A f \in Fields : w[f] \in {s[f], t[f]}
  BY <1>1, WrittenFields
<1> HIDE DEF w
<1>6. w.status = s.status /\ w.ctx = s.ctx
  BY <1>2, <1>5 DEF Differs, Fields
<1> QED BY <1>4, <1>6 DEF Released, t, w

\* Wherever a click stops the script, the session is typed and the status is kept.
LEMMA HaltedTyped ==
  ASSUME TypedInv, NEW s \in Halted
  PROVE  SessionTyped(s) /\ s.status = ss.status /\ s.ctx = ss.ctx
BY ReleasedTyped DEF Halted, TypedInv

LEMMA NudgeTyped ==
  ASSUME TypedInv, Nudge
  PROVE  TypedInv'
<1>1. PICK s \in Halted : Rerun(s)
  BY DEF Nudge
<1>2. SessionTyped(s) /\ Prepared(s)
  BY HaltedTyped DEF TypedInv, Prepared
<1>3. SessionTyped(ss') /\ Prepared(ss') /\ RunTyped'
  BY <1>1, <1>2, RerunTyped
<1>4. faults' \in 0..MaxFaults
  BY WizardAssumption DEF Nudge, Stopped, TypedInv
<1> QED BY <1>3, <1>4 DEF TypedInv, Nudge, stores

LEMMA FinishTyped ==
  ASSUME TypedInv, Finish
  PROVE  TypedInv'
<1> DEFINE order == <<"results", "edits", "status", "accepted">>
<1>0. run \in RunFields /\ run # NoRun /\ DOMAIN ss = Fields
  <2>1. ~At("start") /\ run # NoRun
    BY DEF Finish, At, NoRun
  <2> QED BY <2>1, InProgress DEF TypedInv, SessionTyped
<1>1. PICK k \in Reached(4), j \in Reached(2) :
        /\ Rerun(Released(Written(ss, Finished, order, k), j))
        /\ Stopped(k = 4 /\ j = 2)
  BY DEF Finish
<1>2. latest + 1 \in Runs /\ 0 \in Runs
  BY WizardAssumption DEF Finish, TypedInv, Runs
<1>3. run.got \in Seq(Pairs) /\ run.photos \in Seq(Photos) /\ run.setup \in Setups
  BY <1>0 DEF RunFields
<1>4. run.got = <<>> \/ run.got[1] \in Pairs
  <2>1. CASE run.got # <<>>
    <3>1. 1 \in 1..Len(run.got)
      BY <1>3, <2>1, EmptySeq
    <3> QED BY <1>3, <3>1, ElementOfSeq
  <2> QED BY <2>1
<1>5. /\ [run |-> latest + 1, items |-> run.got, photos |-> run.photos, setup |-> run.setup] \in Types.results
      /\ 0 \in Types.edits /\ Outcome \in Types.status
      /\ (IF run.got = <<>> THEN None ELSE run.got[1]) \in Types.accepted
  <2>1. [run |-> latest + 1, items |-> run.got, photos |-> run.photos, setup |-> run.setup] \in Types.results
    BY <1>2, <1>3, TypesOf
  <2>2. Outcome \in Types.status
    BY TypesOf DEF Outcome, Statuses
  <2> QED BY <1>2, <1>4, <2>1, <2>2, TypesOf
<1>6. Differs(ss, Finished, {"results", "edits", "status", "accepted"})
  BY <1>0, <1>5 DEF Finished, Differs, Fields
<1>7. SessionTyped(Finished) /\ Finished.ctx = ss.ctx /\ Finished.status = Outcome
  <2>1. SessionTyped(Finished)
    BY <1>6, FieldsTyped DEF TypedInv
  <2>2. Finished.status = Outcome
    BY <1>0 DEF Finished, Fields
  <2> QED BY <1>6, <2>1, <2>2 DEF Differs, Fields
<1> DEFINE w == Written(ss, Finished, order, k)
<1>8. SessionTyped(w) /\ Prepared(w)
  <2>1. SessionTyped(w)
    BY <1>7, WrittenTyped DEF TypedInv
  <2>2. \A f \in Fields : w[f] \in {ss[f], Finished[f]}
    BY <1>0, WrittenFields
  <2>3. Outcome # "running"
    BY DEF Outcome
  <2> HIDE DEF w
  <2>4. w.ctx = ss.ctx /\ w.status \in {ss.status, Outcome}
    BY <1>7, <2>2 DEF Fields
  <2> QED BY <2>1, <2>3, <2>4 DEF TypedInv, Prepared
<1> HIDE DEF w
<1>9. SessionTyped(Released(w, j)) /\ Prepared(Released(w, j))
  BY <1>8, ReleasedTyped DEF Prepared
<1>10. SessionTyped(ss') /\ Prepared(ss') /\ RunTyped'
  BY <1>1, <1>9, RerunTyped DEF w
<1>11. faults' \in 0..MaxFaults
  BY <1>1, WizardAssumption DEF Reached, Stopped, TypedInv
<1> QED BY <1>2, <1>10, <1>11 DEF TypedInv, Finish

LEMMA SaveTyped ==
  ASSUME TypedInv, Save
  PROVE  TypedInv'
<1> DEFINE T(k) == [ss EXCEPT !.save = CASE k = 0 -> "idle" [] k = 4 -> "saved" [] OTHER -> "saving",
                              !.savedRec = IF k >= 3 THEN ss.results.run ELSE @]
<1>1. PICK k \in Reached(4) : Rerun(T(k)) /\ Stopped(k = 4)
  BY DEF Save
<1>2. k \in 0..4 /\ DOMAIN ss = Fields /\ ss.results \in Types.results /\ ss.savedRec \in Types.savedRec
  BY <1>1 DEF Reached, TypedInv, SessionTyped, Fields
<1> DEFINE t == T(k)
<1>3. /\ DOMAIN t = Fields /\ \A f \in Fields \ {"save", "savedRec"} : t[f] = ss[f]
      /\ t.save \in {"idle", "saving", "saved"} /\ t.savedRec \in {ss.results.run, ss.savedRec}
  BY <1>2 DEF Fields
<1> HIDE DEF t, T
<1>4. t.save \in Types.save /\ t.savedRec \in Types.savedRec
  BY <1>2, <1>3, TypesOf
<1>5. Differs(ss, t, {"save", "savedRec"})
  BY <1>3, <1>4 DEF Differs
<1>6. SessionTyped(t) /\ t.status = ss.status /\ t.ctx = ss.ctx
  <2>1. SessionTyped(t)
    BY <1>5, FieldsTyped DEF TypedInv
  <2> QED BY <1>3, <2>1 DEF Fields
<1>7. SessionTyped(ss') /\ Prepared(ss') /\ RunTyped'
  <2>1. Prepared(t) /\ Rerun(t)
    BY <1>1, <1>6 DEF TypedInv, Prepared, t
  <2> QED BY <1>6, <2>1, RerunTyped
<1>8. faults' \in 0..MaxFaults
  BY <1>1, WizardAssumption DEF Reached, Stopped, TypedInv
<1> QED BY <1>7, <1>8 DEF TypedInv, Save

LEMMA UseTyped ==
  ASSUME TypedInv, UseThisResult
  PROVE  TypedInv'
<1> DEFINE s == [ss EXCEPT !.accepted = <<ss.active, ss.viewModel>>]
<1>0. DOMAIN ss = Fields /\ ss.results \in Types.results
  BY DEF TypedInv, SessionTyped, Fields
<1>1. Rerun(s) /\ ss.stage = "review" /\ Reviewable(ss) /\ ~SavedScreen(ss)
  BY DEF UseThisResult, Reviewing, On
<1>2. DOMAIN s = Fields /\ \A f \in Fields \ {"accepted"} : s[f] = ss[f]
  BY <1>0
<1> HIDE DEF s
<1>3. /\ s.stage = "review" /\ s.status = ss.status /\ s.results = ss.results /\ s.ctx = ss.ctx
      /\ s.save = ss.save /\ s.savedRec = ss.savedRec
  BY <1>1, <1>2 DEF Fields
<1>4. Reviewable(s) /\ ~SavedScreen(s)
  BY <1>1, <1>3 DEF Reviewable, SavedScreen
<1>5. Redirected(s) = s /\ ~Starts(s)
  BY <1>3, <1>4 DEF Redirected, Starts, Reviewable
<1>6. ss' = Aimed(s) /\ run' = NoRun
  BY <1>1, <1>5 DEF Rerun
<1>7. Picks(s, ss')
  BY <1>0, <1>2, <1>3, <1>4, <1>6, AimedPicks, TypesOf
<1>8. Differs(ss, ss', {"active", "viewModel", "accepted"})
  BY <1>2, <1>7, TypesOf DEF Picks, Differs
<1>9. SessionTyped(ss') /\ ss'.status = ss.status /\ ss'.ctx = ss.ctx
  <2>1. SessionTyped(ss')
    BY <1>8, FieldsTyped DEF TypedInv
  <2> QED BY <1>8, <2>1 DEF Differs, Fields
<1> QED BY <1>6, <1>9 DEF TypedInv, UseThisResult, Prepared, RunTyped

\* A reset takes the status away long before the inventory type.
LEMMA ResetTyped ==
  ASSUME TypedInv, Reset
  PROVE  TypedInv'
<1> DEFINE order == <<"form", "photos", "status", "results", "accepted", "edits", "save",
                      "savedRec", "running", "executing", "cache", "active", "viewModel",
                      "ctx", "stage">>
<1>1. PICK k \in Reached(15), h \in Halted :
        Rerun(Written(h, Fresh, order, k)) /\ Stopped(run = NoRun /\ k = 15)
  BY DEF Reset
<1>2. SessionTyped(h) /\ h.status = ss.status /\ h.ctx = ss.ctx /\ k \in 0..15
  BY <1>1, HaltedTyped DEF Reached
<1>3. SessionTyped(Fresh) /\ Fresh.status = "idle"
  BY FreshTyped DEF Fresh, InitSession
<1> DEFINE w == Written(h, Fresh, order, k)
<1>4. SessionTyped(w)
  BY <1>2, <1>3, WrittenTyped
<1>5. /\ w.status = IF \E n \in 1..k : order[n] = "status" THEN Fresh.status ELSE h.status
      /\ w.ctx = IF \E n \in 1..k : order[n] = "ctx" THEN Fresh.ctx ELSE h.ctx
  <2> HIDE DEF order
  <2> QED BY <1>2, WrittenFields DEF SessionTyped, Fields
<1> HIDE DEF w
<1>6. Prepared(w)
  <2>1. CASE k < 14
    <3>1. \A n \in 1..k : order[n] # "ctx"
      BY <1>2, <2>1
    <3>2. w.ctx = ss.ctx /\ w.status \in {"idle", ss.status}
      BY <1>2, <1>3, <1>5, <3>1
    <3> QED BY <3>2 DEF Prepared, TypedInv
  <2>2. CASE k >= 14
    <3>1. 3 \in 1..k /\ order[3] = "status"
      BY <1>2, <2>2
    <3>2. w.status = "idle"
      BY <1>3, <1>5, <3>1
    <3> QED BY <3>2 DEF Prepared
  <2> QED BY <1>2, <2>1, <2>2
<1>7. SessionTyped(ss') /\ Prepared(ss') /\ RunTyped'
  BY <1>1, <1>4, <1>6, RerunTyped DEF w
<1>8. faults' \in 0..MaxFaults
  BY <1>1, WizardAssumption DEF Reached, Stopped, TypedInv, Reset
<1> QED BY <1>7, <1>8 DEF TypedInv, Reset, stores

LEMMA TypedStep == TypedInv /\ WizardInv /\ [Next]_wizardVars => TypedInv'
<1> SUFFICES ASSUME TypedInv, WizardInv, [Next]_wizardVars PROVE TypedInv'
  OBVIOUS
<1>1. CASE \/ \E i \in Setups : ChooseInventory(i)
           \/ \E p \in Photos : AddPhoto(p) \/ RemovePhoto(p) \/ ShowPhoto(p)
           \/ SetupNext \/ PhotosBack \/ AnalyzeBack \/ ReviewBack \/ RunningNext
           \/ \E m \in Models : ShowModel(m)
           \/ \E e \in 0..latest : Edit(e)
  BY <1>1, PagesTyped
<1>2. CASE PhotosNext \/ RerunAnalysis \/ RunningBack
  BY <1>2, ClearedTyped
<1>3. CASE \E sel \in Selections(Selectable) : GoToRunning(sel) \/ RunAnalysis(sel)
  BY <1>3, LaunchTyped
<1>4. CASE Analysis
  BY <1>4, StartTyped, AnalysingTyped, FinishTyped DEF Analysis
<1>5. CASE Nudge \/ UseThisResult \/ Save \/ Reset
  BY <1>5, NudgeTyped, UseTyped, SaveTyped, ResetTyped
<1>6. ASSUME NEW m \in Models, OtherTab(m) PROVE TypedInv'
  <2>1. asked' \in [Limited -> Nat] /\ usage' \in [Limited -> Nat]
    BY <1>6, BilledOnce DEF OtherTab, TypedInv
  <2> QED BY <1>6, <2>1 DEF OtherTab, TypedInv, Prepared, RunTyped
<1>7. CASE UNCHANGED wizardVars
  BY <1>7 DEF wizardVars, TypedInv, Prepared, RunTyped
<1> QED BY <1>1, <1>2, <1>3, <1>4, <1>5, <1>6, <1>7 DEF Next

\* The session, the analysis and the counters keep their types, wherever a
\* handler or an analysis is stopped: what is cached, accepted and analysed
\* names photos, models and an inventory type that exist.
THEOREM WizardTyped == Spec => []WizardTypeOK
<1>1. TypedInv => WizardTypeOK
  <2> SUFFICES ASSUME TypedInv PROVE WizardTypeOK
    OBVIOUS
  <2>1. /\ ss.stage \in Stages /\ ss.status \in Statuses /\ ss.ctx \in Setups \cup {None}
        /\ ss.form \in [setup : Setups \cup {None}, models : Seq(Models)]
        /\ ss.photos \in Seq(Photos) /\ IsInjective(ss.photos)
        /\ ss.results \in [run : Runs, items : Seq(Pairs), photos : Seq(Photos), setup : Setups \cup {None}]
        /\ ss.accepted \in Pairs \cup {None} /\ ss.edits \in Runs
        /\ ss.save \in {"idle", "saving", "saved"} /\ ss.savedRec \in Runs
        /\ ss.running \in BOOLEAN /\ ss.executing \in BOOLEAN
        /\ ss.cache \in SUBSET (Photos \X Models \X Setups)
    <3>1. \A f \in Fields : ss[f] \in Types[f]
      BY DEF TypedInv, SessionTyped
    <3> QED BY <3>1, TypesOf DEF Fields
  <2>2. \A T, q : q \in Seq(T) => Range(q) \subseteq T
    BY ElementOfSeq, LenProperties DEF Range
  <2>3. ss.results.items \in Seq(Pairs) /\ ss.results.run \in Runs /\ ss.form.models \in Seq(Models)
        /\ ss.form.setup \in Setups \cup {None}
    BY <2>1
  <2>4. Range(ss.form.models) \subseteq Models /\ Range(ss.photos) \subseteq Photos
        /\ Range(ss.results.items) \subseteq Pairs
    BY <2>1, <2>2, <2>3
  <2>5. (run # NoRun /\ ~At("start")) =>
           run.at \in {"next", "register", "store"} /\ run.todo \in Seq(Pairs)
    BY InProgress DEF TypedInv, RunFields
  <2> QED BY <2>1, <2>3, <2>4, <2>5 DEF WizardTypeOK, TypedInv
<1> QED BY <1>1, TypedInit, TypedStep, WizardInductive, PTL DEF Spec

----------------------------------------------------------------------------
(* How far the daily limit is exceeded.                                     *)

\* The places of the plan that may still be counted: all but the one whose
\* prediction was counted just now.
Coming == {n \in DOMAIN run.todo : n > 1 \/ ~At("store")}

\* The photos a model is still to be counted for.
Left(m) ==
  IF run \in RunFields THEN {p \in Photos : \E n \in Coming : run.todo[n] = <<p, m>>} ELSE {}

\* A model is started on when a run of it is left, and then no photo is
\* counted for it twice.
OvershootInv ==
  /\ IsInjective(ss.form.models)
  /\ run \in RunFields => IsInjective(run.todo)
  /\ \A m \in Limited : usage[m] + Cardinality(Left(m)) < Limit + Cardinality(Photos)

Limits == IsFiniteSet(Photos) /\ MaxUse < Limit

LEMMA LeftSize ==
  ASSUME Limits, NEW m
  PROVE  /\ Cardinality(Left(m)) \in 0..Cardinality(Photos) /\ IsFiniteSet(Left(m))
         /\ Cardinality(Left(m)') \in 0..Cardinality(Photos) /\ IsFiniteSet(Left(m)')
         /\ Cardinality(Photos) \in Nat
<1>1. Left(m) \subseteq Photos /\ Left(m)' \subseteq Photos
  BY DEF Left
<1> QED BY <1>1, FS_Subset, FS_CardinalityType DEF Limits

\* A step that counts nothing, and leaves no more to be counted.
LEMMA NoMoreLeft ==
  ASSUME Limits, TypedInv, OvershootInv, usage' = usage, IsInjective(ss.form.models)',
         (run \in RunFields)' => IsInjective(run.todo)',
         \A m \in Limited : Left(m)' \subseteq Left(m)
  PROVE  OvershootInv'
<1>1. ASSUME NEW m \in Limited
      PROVE  usage'[m] + Cardinality(Left(m)') < Limit + Cardinality(Photos)
  <2>1. Cardinality(Left(m)') <= Cardinality(Left(m))
    BY LeftSize, FS_Subset
  <2>2. usage[m] \in Nat /\ usage[m] + Cardinality(Left(m)) < Limit + Cardinality(Photos) /\ Limit \in Nat
    BY WizardAssumption DEF OvershootInv, TypedInv
  <2> QED BY <2>1, <2>2, LeftSize
<1> QED BY <1>1 DEF OvershootInv

\* After a handler nothing is left to be counted, and the models are those of
\* before or those just selected.
LEMMA NoneLeft ==
  ASSUME Limits, TypedInv, OvershootInv, usage' = usage, NEW s, DOMAIN s = Fields, Rerun(s),
         IsInjective(s.form.models)
  PROVE  OvershootInv'
<1>1. ss'.form = s.form /\ (run' = NoRun \/ run' = [at |-> "start"])
  BY RerunGoes DEF Fields, Drawn
<1>2. ~(run \in RunFields)'
  BY <1>1 DEF NoRun, RunFields
<1>3. \A m : Left(m)' = {}
  BY <1>2 DEF Left
<1> QED BY <1>1, <1>2, <1>3, NoMoreLeft

LEMMA HandlerOvershoot ==
  ASSUME Limits, TypedInv, OvershootInv, NEW t, NEW order, Handle(t, order), t.form = ss.form \/ IsInjective(t.form.models)
  PROVE  OvershootInv'
<1>1. PICK k \in Reached(Len(order)) : Rerun(Written(ss, t, order, k))
  BY DEF Handle
<1> DEFINE s == Written(ss, t, order, k)
<1>2. DOMAIN s = Fields /\ \A f \in Fields : s[f] \in {ss[f], t[f]}
  BY WrittenFields DEF TypedInv, SessionTyped
<1> HIDE DEF s
<1>3. IsInjective(s.form.models)
  BY <1>2 DEF OvershootInv, Fields
<1>4. usage' = usage
  BY DEF Handle, stores
<1> QED BY <1>1, <1>2, <1>3, <1>4, NoneLeft DEF s

LEMMA PagesOvershoot ==
  ASSUME Limits, TypedInv, OvershootInv,
         \/ \E i \in Setups : ChooseInventory(i)
         \/ \E p \in Photos : AddPhoto(p) \/ RemovePhoto(p) \/ ShowPhoto(p)
         \/ SetupNext \/ PhotosNext \/ PhotosBack \/ AnalyzeBack
         \/ \E sel \in Selections(Selectable) : GoToRunning(sel) \/ RunAnalysis(sel)
         \/ RunningBack \/ RunningNext \/ \E m \in Models : ShowModel(m)
         \/ \E e \in 0..latest : Edit(e)
         \/ RerunAnalysis \/ ReviewBack
  PROVE  OvershootInv'
<1>0. DOMAIN ss = Fields /\ ss.form \in [setup : Setups \cup {None}, models : Seq(Models)]
  BY TypesOf DEF TypedInv, SessionTyped, Fields
<1>1. ASSUME NEW f \in Fields \ {"form"}, NEW value, NEW order, Handle([ss EXCEPT ![f] = value], order)
      PROVE  OvershootInv'
  <2>1. [ss EXCEPT ![f] = value].form = ss.form
    BY <1>0 DEF Fields
  <2> QED BY <1>1, <2>1, HandlerOvershoot
<1>2. ASSUME NEW stage, Go(stage) PROVE OvershootInv'
  BY <1>1, <1>2 DEF Go, Fields
<1>3. CASE SetupNext \/ PhotosBack \/ AnalyzeBack \/ RunningNext \/ ReviewBack
  BY <1>2, <1>3, Zenon DEF SetupNext, PhotosBack, AnalyzeBack, RunningNext, ReviewBack
<1>4. ASSUME NEW i \in Setups, ChooseInventory(i) PROVE OvershootInv'
  <2> DEFINE t == [ss EXCEPT !.form.setup = i]
  <2>1. Handle(t, <<"form">>) /\ t.form.models = ss.form.models
    BY <1>0, <1>4 DEF ChooseInventory, Fields
  <2> HIDE DEF t
  <2>2. IsInjective(t.form.models)
    BY <2>1 DEF OvershootInv
  <2> QED BY <2>1, <2>2, HandlerOvershoot
<1>5. ASSUME NEW p \in Photos, AddPhoto(p) \/ RemovePhoto(p) \/ ShowPhoto(p) PROVE OvershootInv'
  <2>1. \/ Handle([ss EXCEPT !["photos"] = Append(ss.photos, p)], <<"photos">>)
        \/ Handle([ss EXCEPT !["photos"] = Among(ss.photos, Photos \ {p})], <<"photos">>)
        \/ Handle([ss EXCEPT !["active"] = p], <<"active">>)
    BY <1>5 DEF AddPhoto, RemovePhoto, ShowPhoto
  <2> QED BY <1>1, <2>1 DEF Fields
<1>6. ASSUME NEW m \in Models, ShowModel(m) PROVE OvershootInv'
  BY <1>1, <1>6 DEF ShowModel, Fields
<1>7. ASSUME NEW e \in 0..latest, Edit(e) PROVE OvershootInv'
  BY <1>1, <1>7 DEF Edit, Fields
<1>8. ASSUME NEW t, NEW order, Handle(t, order),
             t \in {[Cleared(ss) EXCEPT !.stage = "analyze"],
                    [Cleared(ss) EXCEPT !.cache = {}, !.stage = "analyze"],
                    [ss EXCEPT !.status = "idle", !.running = FALSE, !.stage = "analyze"]}
      PROVE  OvershootInv'
  <2>1. t.form = ss.form
    BY <1>0, <1>8 DEF Cleared, Fields
  <2> QED BY <1>8, <2>1, HandlerOvershoot
<1>9. CASE PhotosNext
  BY <1>2, <1>8, <1>9 DEF PhotosNext
<1>10. CASE RerunAnalysis
  BY <1>8, <1>10 DEF RerunAnalysis
<1>11. CASE RunningBack
  BY <1>2, <1>8, <1>11 DEF RunningBack
<1>12. ASSUME NEW sel \in Selections(Selectable), GoToRunning(sel) \/ RunAnalysis(sel) PROVE OvershootInv'
  <2>1. IsInjective(sel)
    BY DEF Selections
  <2>2. ASSUME NEW t, NEW order, Handle(t, order), t.form.models = sel PROVE OvershootInv'
    BY <2>1, <2>2, HandlerOvershoot
  <2>3. CASE GoToRunning(sel)
    <3> DEFINE t == [ss EXCEPT !.form.models = sel, !.stage = "running"]
    <3>1. Handle(t, <<"form", "stage">>) /\ t.form.models = sel
      BY <1>0, <2>3 DEF GoToRunning, Fields
    <3> HIDE DEF t
    <3> QED BY <2>2, <3>1
  <2>4. CASE RunAnalysis(sel)
    <3> DEFINE t == Launched(sel)
    <3>1. Handle(t, <<"form", "ctx", "running", "status", "executing", "stage">>) /\ t.form.models = sel
      BY <1>0, <2>4 DEF RunAnalysis, Launched, Fields
    <3> HIDE DEF t
    <3> QED BY <2>2, <3>1
  <2> QED BY <1>12, <2>3, <2>4
<1> QED BY <1>3, <1>4, <1>5, <1>6, <1>7, <1>9, <1>10, <1>11, <1>12

\* A save, a reset and the end of an analysis, whole or stopped.
LEMMA OthersOvershoot ==
  ASSUME Limits, TypedInv, OvershootInv, Nudge \/ UseThisResult \/ Save \/ Reset \/ Finish
  PROVE  OvershootInv'
<1>0. DOMAIN ss = Fields
  BY DEF TypedInv, SessionTyped
<1>1. ASSUME NEW s, DOMAIN s = Fields, NEW j
      PROVE  DOMAIN Released(s, j) = Fields /\ Released(s, j).form = s.form
  <2> DEFINE t == [s EXCEPT !.executing = FALSE, !.running = FALSE]
  <2>1. t.form = s.form
    BY <1>1 DEF Fields
  <2> HIDE DEF t
  <2> DEFINE w == Written(s, t, <<"executing", "running">>, j)
  <2>2. DOMAIN w = Fields /\ \A f \in Fields : w[f] \in {s[f], t[f]}
    BY <1>1, WrittenFields
  <2> HIDE DEF w
  <2>3. DOMAIN w = Fields /\ w.form = s.form
    BY <2>1, <2>2 DEF Fields
  <2> QED BY <2>3 DEF Released, t, w
<1>2. ASSUME NEW s \in Halted PROVE DOMAIN s = Fields /\ s.form = ss.form
  BY <1>0, <1>1 DEF Halted
<1>3. CASE Nudge
  BY <1>2, <1>3, NoneLeft DEF Nudge, stores, OvershootInv
<1>4. CASE UseThisResult
  <2> DEFINE s == [ss EXCEPT !.accepted = <<ss.active, ss.viewModel>>]
  <2>1. Rerun(s) /\ DOMAIN s = Fields /\ s.form = ss.form /\ usage' = usage
    BY <1>0, <1>4 DEF UseThisResult, Fields
  <2> HIDE DEF s
  <2> QED BY <2>1, NoneLeft DEF OvershootInv
<1>5. CASE Save
  <2>1. PICK k \in Reached(4) :
          Rerun([ss EXCEPT !.save = CASE k = 0 -> "idle" [] k = 4 -> "saved" [] OTHER -> "saving",
                           !.savedRec = IF k >= 3 THEN ss.results.run ELSE @])
    BY <1>5 DEF Save
  <2> DEFINE s == [ss EXCEPT !.save = CASE k = 0 -> "idle" [] k = 4 -> "saved" [] OTHER -> "saving",
                             !.savedRec = IF k >= 3 THEN ss.results.run ELSE @]
  <2>2. Rerun(s) /\ DOMAIN s = Fields /\ s.form = ss.form /\ usage' = usage
    BY <1>0, <1>5, <2>1 DEF Save, Fields
  <2> HIDE DEF s
  <2> QED BY <2>2, NoneLeft DEF OvershootInv
<1>6. CASE Reset
  <2> DEFINE order == <<"form", "photos", "status", "results", "accepted", "edits", "save",
                        "savedRec", "running", "executing", "cache", "active", "viewModel",
                        "ctx", "stage">>
  <2>1. PICK k \in Reached(15), h \in Halted : Rerun(Written(h, Fresh, order, k))
    BY <1>6 DEF Reset
  <2> DEFINE s == Written(h, Fresh, order, k)
  <2> HIDE DEF order
  <2>2. DOMAIN s = Fields /\ s.form \in {ss.form, Fresh.form}
    BY <1>2, WrittenFields DEF Fields
  <2>3. IsInjective(Fresh.form.models)
    BY DEF Fresh, InitSession, IsInjective
  <2>4. IsInjective(s.form.models)
    BY <2>2, <2>3 DEF OvershootInv
  <2> HIDE DEF s
  <2> QED BY <1>6, <2>1, <2>2, <2>4, NoneLeft DEF Reset, stores, s
<1>7. CASE Finish
  <2> DEFINE order == <<"results", "edits", "status", "accepted">>
  <2>1. PICK k \in Reached(4), j \in Reached(2) : Rerun(Released(Written(ss, Finished, order, k), j))
    BY <1>7 DEF Finish
  <2> DEFINE w == Written(ss, Finished, order, k)
             s == Released(w, j)
  <2>2. Finished.form = ss.form
    BY <1>0 DEF Finished, Fields
  <2> HIDE DEF order
  <2>3. DOMAIN w = Fields /\ w.form = ss.form
    BY <1>0, <2>2, WrittenFields DEF Fields
  <2> HIDE DEF w
  <2>4. DOMAIN s = Fields /\ s.form = ss.form
    BY <1>1, <2>3
  <2> HIDE DEF s
  <2> QED BY <1>7, <2>1, <2>4, NoneLeft DEF Finish, s, w, OvershootInv
<1> QED BY <1>3, <1>4, <1>5, <1>6, <1>7

\* An analysis starts on the models that have a run left, once for each photo.
LEMMA StartOvershoot ==
  ASSUME Limits, TypedInv, WizardInv, OvershootInv, Start
  PROVE  OvershootInv'
<1>0. DOMAIN ss = Fields /\ ss.form.models \in Seq(Models) /\ ss.photos \in Seq(Photos) /\ IsInjective(ss.photos)
  <2>1. DOMAIN ss = Fields /\ ss.form \in Types.form /\ ss.photos \in Types.photos
    BY DEF TypedInv, SessionTyped, Fields
  <2> QED BY <2>1, TypesOf
<1>1. usage' = usage /\ ss'.form = ss.form
  BY <1>0 DEF Start, stores, Fields
<1>2. CASE run' = NoRun
  <2>1. ~(run \in RunFields)' /\ \A m : Left(m)' = {}
    BY <1>2 DEF NoRun, RunFields, Left
  <2> QED BY <1>1, <2>1, NoMoreLeft DEF OvershootInv
<1>3. CASE run' = Begun
  <2> DEFINE models == Usable(ss.form.models)
             plan == Plan(ss.photos, models)
  <2>1. /\ models \in Seq(Models) /\ IsInjective(models)
        /\ \A k \in 1..Len(models) : models[k] \in Selectable
    BY <1>0, AmongKeeps DEF Usable, OvershootInv
  <2>2. run'.todo = plan
    BY <1>3 DEF Begun
  <2> HIDE DEF models
  <2>3. /\ IsInjective(plan)
        /\ \A n \in DOMAIN plan : \E k \in 1..Len(models) : plan[n][2] = models[k]
    BY <1>0, <2>1, PlanTyped
  <2> HIDE DEF plan
  <2>4. ASSUME NEW m \in Limited
        PROVE  usage'[m] + Cardinality(Left(m)') < Limit + Cardinality(Photos)
    <3>1. usage[m] \in Nat /\ Limit \in Nat /\ usage[m] + Cardinality(Left(m)) < Limit + Cardinality(Photos)
      BY WizardAssumption DEF TypedInv, OvershootInv
    <3>2. CASE usage[m] < Limit
      BY <1>1, <3>1, <3>2, LeftSize
    <3>3. CASE ~(usage[m] < Limit)
      <4>1. \A n \in DOMAIN plan : plan[n][2] # m
        BY <2>1, <2>3, <3>3 DEF Selectable
      <4>2. Left(m)' = {}
        BY <2>2, <4>1 DEF Left, Coming
      <4>3. Cardinality({}) = 0 /\ Cardinality(Left(m)) \in Nat
        BY LeftSize, FS_EmptySet
      <4> QED BY <1>1, <3>1, <4>2, <4>3, LeftSize
    <3> QED BY <3>2, <3>3
  <2> QED BY <1>1, <2>2, <2>3, <2>4 DEF OvershootInv
<1> QED BY <1>2, <1>3 DEF Start

\* A pair that is taken off is not to come again.
LEMMA TakenOff ==
  ASSUME run \in RunFields, run.todo # <<>>, IsInjective(run.todo)
  PROVE  /\ Tail(run.todo) \in Seq(Pairs) /\ IsInjective(Tail(run.todo))
         /\ Pair = run.todo[1] /\ Pair \in Pairs /\ 1 \in DOMAIN run.todo
         /\ \A n \in DOMAIN Tail(run.todo) : n + 1 \in DOMAIN run.todo /\ n + 1 > 1
                                             /\ Tail(run.todo)[n] = run.todo[n + 1]
<1>1. run.todo \in Seq(Pairs) /\ Len(run.todo) \in Nat /\ DOMAIN run.todo = 1..Len(run.todo)
      /\ Len(run.todo) > 0
  BY EmptySeq, LenProperties DEF RunFields
<1>2. /\ Tail(run.todo) \in Seq(Pairs) /\ Len(Tail(run.todo)) = Len(run.todo) - 1
      /\ \A n \in 1..Len(Tail(run.todo)) : Tail(run.todo)[n] = run.todo[n + 1]
      /\ Pair = run.todo[1] /\ Pair \in Pairs
  BY <1>1, HeadTailProperties DEF Pair
<1>3. DOMAIN Tail(run.todo) = 1..(Len(run.todo) - 1)
  BY <1>2, LenProperties
<1>4. \A n \in DOMAIN Tail(run.todo) : n + 1 \in DOMAIN run.todo /\ n + 1 > 1
                                       /\ Tail(run.todo)[n] = run.todo[n + 1]
  BY <1>1, <1>2, <1>3
<1>5. IsInjective(Tail(run.todo))
  <2> SUFFICES ASSUME NEW i \in DOMAIN Tail(run.todo), NEW j \in DOMAIN Tail(run.todo),
                      Tail(run.todo)[i] = Tail(run.todo)[j]
               PROVE  i = j
    BY DEF IsInjective
  <2>1. i + 1 = j + 1
    BY <1>4 DEF IsInjective
  <2> QED BY <1>3, <2>1
<1> QED BY <1>1, <1>2, <1>4, <1>5

LEMMA AnalysingOvershoot ==
  ASSUME Limits, TypedInv, OvershootInv,
         TakeCached \/ SkipPhoto \/ Predict \/ Register \/ \E ok \in BOOLEAN : Store(ok)
  PROVE  OvershootInv'
<1>0. (At("next") /\ run.todo # <<>>) \/ At("register") \/ At("store")
  BY Zenon DEF TakeCached, SkipPhoto, Predict, Register, Store
<1>1. ~At("start") /\ run # NoRun
  BY <1>0 DEF At, NoRun
<1>2. run \in RunFields /\ run.todo # <<>> /\ IsInjective(run.todo)
  BY <1>0, <1>1, InProgress DEF TypedInv, At, OvershootInv
<1>3. DOMAIN ss = Fields /\ IsInjective(ss.form.models)
  BY DEF TypedInv, SessionTyped, OvershootInv
<1>4. ss'.form = ss.form
  <2>1. ss' = ss \/ ss' = [ss EXCEPT !.cache = @ \cup {CacheKey}]
    BY DEF TakeCached, SkipPhoto, Predict, Register, Store
  <2> QED BY <1>3, <2>1 DEF Fields
<1>5. CASE TakeCached \/ \E ok \in BOOLEAN : Store(ok)
  <2>1. usage' = usage /\ run'.todo = Tail(run.todo) /\ run'.at = "next"
    BY <1>2, <1>5 DEF TakeCached, Store, stores, RunFields, At
  <2>2. ASSUME NEW m \in Limited PROVE Left(m)' \subseteq Left(m)
    BY <1>2, <2>1, TakenOff DEF Left, Coming
  <2> QED BY <1>2, <1>3, <1>4, <2>1, <2>2, TakenOff, NoMoreLeft
<1>6. CASE SkipPhoto
  <2> DEFINE rest == SubSeq(run.todo, run.models + 1, Len(run.todo))
  <2>0. run.models \in Nat /\ run.todo \in Seq(Pairs) /\ Len(run.todo) \in Nat
        /\ DOMAIN run.todo = 1..Len(run.todo)
    BY <1>2, LenProperties DEF RunFields
  <2>1. \A n \in DOMAIN rest : /\ n \in Nat /\ n + run.models \in DOMAIN run.todo
                               /\ rest[n] = run.todo[n + run.models]
    <3>1. /\ Len(run.todo) \in Int /\ run.models + 1 \in Int
          /\ \A i \in run.models + 1 .. Len(run.todo) : run.todo[i] \in Pairs
      BY <2>0
    <3>2. /\ rest \in Seq(Pairs)
          /\ Len(rest) = IF run.models + 1 <= Len(run.todo) THEN Len(run.todo) - (run.models + 1) + 1 ELSE 0
          /\ \A i \in 1..(Len(run.todo) - (run.models + 1) + 1) : rest[i] = run.todo[run.models + 1 + i - 1]
      BY <3>1, SubSeqProperties
    <3>3. DOMAIN rest = 1..Len(rest)
      BY <3>2, LenProperties
    <3> HIDE DEF rest
    <3>4. DOMAIN rest = 1..(Len(run.todo) - run.models)
      BY <2>0, <3>2, <3>3
    <3>5. ASSUME NEW n \in DOMAIN rest PROVE rest[n] = run.todo[n + run.models]
      <4>1. run.models + 1 + n - 1 = n + run.models
        BY <2>0, <3>4
      <4> QED BY <2>0, <3>2, <3>4, <4>1
    <3> QED BY <2>0, <3>4, <3>5
  <2>2. usage' = usage /\ run'.todo = rest /\ run'.at = "next" /\ At("next")
    BY <1>2, <1>6 DEF SkipPhoto, stores, RunFields, At
  <2> HIDE DEF rest
  <2>3. IsInjective(rest)
    <3> SUFFICES ASSUME NEW i \in DOMAIN rest, NEW j \in DOMAIN rest, rest[i] = rest[j] PROVE i = j
      BY DEF IsInjective
    <3>1. i + run.models = j + run.models
      BY <1>2, <2>1 DEF IsInjective
    <3> QED BY <2>0, <2>1, <3>1
  <2>4. ASSUME NEW m \in Limited PROVE Left(m)' \subseteq Left(m)
    <3>1. \A n \in DOMAIN rest : n + run.models \in Coming
      BY <2>1, <2>2 DEF Coming, At
    <3> QED BY <1>2, <2>1, <2>2, <3>1 DEF Left, Coming
  <2> QED BY <1>3, <1>4, <2>2, <2>3, <2>4, NoMoreLeft
<1>7. CASE Predict
  <2>1. usage' = usage /\ run'.todo = run.todo /\ run'.at = "register" /\ At("next")
    BY <1>2, <1>7 DEF Predict, RunFields
  <2>2. ASSUME NEW m \in Limited PROVE Left(m)' \subseteq Left(m)
    BY <1>2, <2>1 DEF Left, Coming, At
  <2> QED BY <1>2, <1>3, <1>4, <2>1, <2>2, NoMoreLeft
<1>8. CASE Register
  <2>1. /\ usage' \in {usage, Billed(usage, Pair[2])} /\ At("register")
        /\ run' = [run EXCEPT !.at = "store"]
    BY <1>8 DEF Register
  <2>2. run'.todo = run.todo /\ run'.at = "store" /\ run' \in RunFields
    BY <1>2, <2>1 DEF RunFields
  <2>3. ASSUME NEW m \in Limited
        PROVE  usage'[m] + Cardinality(Left(m)') < Limit + Cardinality(Photos)
    <3>1. /\ usage[m] \in Nat /\ Limit \in Nat
          /\ usage[m] + Cardinality(Left(m)) < Limit + Cardinality(Photos)
      BY WizardAssumption DEF TypedInv, OvershootInv
    <3>2. Left(m)' \subseteq Left(m)
      BY <1>2, <2>1, <2>2 DEF Left, Coming, At
    <3>3. CASE usage'[m] = usage[m]
      <4>1. Cardinality(Left(m)') <= Cardinality(Left(m))
        BY <3>2, LeftSize, FS_Subset
      <4> QED BY <3>1, <3>3, <4>1, LeftSize
    <3>4. CASE usage'[m] # usage[m]
      <4>1. m = Pair[2] /\ usage'[m] = usage[m] + 1
        BY <2>1, <3>4, BilledOnce DEF TypedInv
      <4>2. Pair = <<Pair[1], m>> /\ Pair[1] \in Photos /\ Pair = run.todo[1] /\ 1 \in DOMAIN run.todo
        BY <1>2, <4>1, TakenOff DEF Pairs
      <4>3. Pair[1] \in Left(m)
        BY <1>2, <2>1, <4>2 DEF Left, Coming, At
      <4>4. Pair[1] \notin Left(m)'
        <5> SUFFICES ASSUME NEW n \in DOMAIN run.todo, n > 1, run.todo[n] = <<Pair[1], m>> PROVE FALSE
          BY <2>2 DEF Left, Coming, At
        <5> QED BY <1>2, <4>2 DEF IsInjective
      <4>5. Left(m)' \subseteq Left(m) \ {Pair[1]}
        BY <3>2, <4>4
      <4>6. Cardinality(Left(m) \ {Pair[1]}) = Cardinality(Left(m)) - 1 /\ IsFiniteSet(Left(m) \ {Pair[1]})
        BY <4>3, LeftSize, FS_RemoveElement
      <4>7. Cardinality(Left(m)') <= Cardinality(Left(m)) - 1
        BY <4>5, <4>6, FS_Subset
      <4> QED BY <3>1, <4>1, <4>7, LeftSize
    <3> QED BY <3>3, <3>4
  <2> QED BY <1>2, <1>3, <1>4, <2>2, <2>3 DEF OvershootInv
<1> QED BY <1>5, <1>6, <1>7, <1>8

LEMMA OvershootStep == Limits /\ OvershootInv /\ TypedInv /\ WizardInv /\ UsageInv /\ UsageInv' /\ [Next]_wizardVars => OvershootInv'
<1> SUFFICES ASSUME Limits, OvershootInv, TypedInv, WizardInv, UsageInv, UsageInv', [Next]_wizardVars PROVE OvershootInv'
  OBVIOUS
<1>1. CASE \/ \E i \in Setups : ChooseInventory(i)
           \/ \E p \in Photos : AddPhoto(p) \/ RemovePhoto(p) \/ ShowPhoto(p)
           \/ SetupNext \/ PhotosNext \/ PhotosBack \/ AnalyzeBack
           \/ \E sel \in Selections(Selectable) : GoToRunning(sel) \/ RunAnalysis(sel)
           \/ RunningBack \/ RunningNext \/ \E m \in Models : ShowModel(m)
           \/ \E e \in 0..latest : Edit(e)
           \/ RerunAnalysis \/ ReviewBack
  BY <1>1, PagesOvershoot
<1>2. CASE Nudge \/ UseThisResult \/ Save \/ Reset \/ Finish
  BY <1>2, OthersOvershoot
<1>3. CASE Start
  BY <1>3, StartOvershoot
<1>4. CASE TakeCached \/ SkipPhoto \/ Predict \/ Register \/ \E ok \in BOOLEAN : Store(ok)
  BY <1>4, AnalysingOvershoot
<1>5. ASSUME NEW m \in Models, OtherTab(m) PROVE OvershootInv'
  <2>1. asked' = Billed(asked, m) /\ usage' = Billed(usage, m) /\ run' = run /\ ss' = ss
        /\ asked[m] < MaxUse /\ m \in Limited
    BY <1>5 DEF OtherTab
  <2>2. ASSUME NEW l \in Limited PROVE usage'[l] + Cardinality(Left(l)') < Limit + Cardinality(Photos)
    <3>1. Left(l)' = Left(l)
      BY <2>1 DEF Left, Coming, At
    <3>2. /\ usage[l] \in Nat /\ Limit \in Nat /\ MaxUse \in Nat /\ asked[l] \in Nat
          /\ usage[l] + Cardinality(Left(l)) < Limit + Cardinality(Photos)
      BY WizardAssumption DEF TypedInv, OvershootInv
    <3>3. CASE l # m
      BY <2>1, <3>1, <3>2, <3>3, BilledOnce DEF TypedInv
    <3>4. CASE l = m
      <4>1. usage'[m] <= asked'[m] /\ asked'[m] = asked[m] + 1 /\ usage'[m] \in Nat
        BY <2>1, BilledOnce DEF UsageInv, Uncounted, TypedInv
      <4> QED BY <2>1, <3>1, <3>2, <3>4, <4>1, LeftSize DEF Limits
    <3> QED BY <3>3, <3>4
  <2> QED BY <2>1, <2>2 DEF OvershootInv
<1>6. CASE UNCHANGED wizardVars
  BY <1>6 DEF wizardVars, OvershootInv, Left, Coming, At
<1> QED BY <1>1, <1>2, <1>3, <1>4, <1>5, <1>6 DEF Next, Analysis

\* A daily limit is exceeded by less than the photos of one analysis, however
\* often analyses are stopped, started again and repeated: stage_running asks
\* for the limit before each of them, and the other tab stays below it.
THEOREM OvershootIsBounded ==
  ASSUME IsFiniteSet(Photos), MaxUse < Limit
  PROVE  Spec => []OvershootBounded
<1>1. Limits
  BY DEF Limits
<1>2. Init => OvershootInv
  <2> SUFFICES ASSUME Init PROVE OvershootInv
    OBVIOUS
  <2>1. ~(run \in RunFields) /\ \A m : Left(m) = {}
    BY DEF Init, NoRun, RunFields, Left
  <2>2. IsInjective(ss.form.models) /\ \A m \in Limited : usage[m] = 0
    BY DEF Init, InitSession, IsInjective
  <2>3. Limit \in Nat /\ MaxUse \in Nat /\ Cardinality({}) = 0
    BY WizardAssumption, FS_EmptySet
  <2> QED BY <1>1, <2>1, <2>2, <2>3, LeftSize DEF OvershootInv, Limits
<1>3. Init => UsageInv
  BY DEF Init, UsageInv, RunShape, Uncounted, At, NoRun
<1>4. OvershootInv /\ TypedInv => OvershootBounded
  <2> SUFFICES ASSUME OvershootInv, TypedInv, NEW m \in Limited
               PROVE  usage[m] < Limit + Cardinality(Photos)
    BY DEF OvershootBounded
  <2>1. usage[m] \in Nat /\ Limit \in Nat /\ usage[m] + Cardinality(Left(m)) < Limit + Cardinality(Photos)
    BY WizardAssumption DEF TypedInv, OvershootInv
  <2> QED BY <1>1, <2>1, LeftSize
<1>5. OvershootInv /\ TypedInv /\ WizardInv /\ UsageInv /\ UsageInv' /\ [Next]_wizardVars => OvershootInv'
  BY <1>1, OvershootStep
<1> QED BY <1>2, <1>3, <1>4, <1>5, UsageStep, TypedInit, TypedStep, WizardInductive, PTL DEF Spec
=============================================================================
