-------------------------- MODULE BenchmarkProofs --------------------------
(***************************************************************************)
(* The benchmark, for any number of tabs, saves, photos, prompt sets and    *)
(* thresholds: no entry of the files is lost except to a save that had not  *)
(* seen it, a history shows its owner's entries only, a cached run tells what*)
(* the model answered, the matrix adds up to its runs and the recommended   *)
(* configuration is the best of the supported ones.                         *)
(***************************************************************************)
EXTENDS BenchmarkStore, BatchRuns, CountingLemmas

----------------------------------------------------------------------------
(* BenchmarkStore: the files                                                *)

\* An entry of one of the first n saves, with the owner who began that save.
Honest(e, n, by) ==
  e \in Entry /\ e.save <= n /\ e.owner = IF e.save = 0 THEN Nobody ELSE by[e.save]
SaveHonest(save, n, by) ==
  save # NoSave => Honest(save.entry, n, by) /\ \A e \in save.base : Honest(e, n, by)

EntriesHonest ==
  /\ \A f \in Files : \A e \in file[f] : Honest(e, begun, madeBy)
  /\ \A t \in Savers : SaveHonest(saving[t], begun, madeBy)

\* What a save is about to replace, it has loaded, or it is endangered.
BaseIsKnown ==
  \A t \in Savers : InSave(t, "write") =>
    written[saving[t].file] \subseteq saving[t].base \cup endangered[saving[t].file]

StoreInv == StoreTypeOK /\ EntriesHonest /\ BaseIsKnown /\ LostOnlyUnseen

LEMMA StoreInvInit == StoreInit => StoreInv
<1> SUFFICES ASSUME NEW old \in {{}, {Legacy}}, NEW who \in [Savers -> Viewers], StoreOf(old, who)
             PROVE  StoreInv
  BY DEF StoreInit
<1>1. Legacy \in Entry /\ Legacy.save = 0 /\ Legacy.owner = Nobody
  BY BenchmarkStoreAssumption DEF Legacy, Entry
<1>2. \A e \in old : Honest(e, begun, madeBy)
  BY <1>1, BenchmarkStoreAssumption DEF StoreOf, Honest
<1>3. StoreTypeOK
  BY <1>1, BenchmarkStoreAssumption DEF StoreOf, StoreTypeOK
<1>. QED
  BY <1>2, <1>3
     DEF StoreOf, StoreInv, EntriesHonest, SaveHonest, BaseIsKnown, InSave, LostOnlyUnseen

\* What is known of a save in progress.
LEMMA SaveTyped ==
  ASSUME StoreInv, NEW t \in Savers, saving[t] # NoSave
  PROVE  /\ saving[t] \in Saving /\ saving[t].file \in Files
         /\ Honest(saving[t].entry, begun, madeBy) /\ \A e \in saving[t].base : Honest(e, begun, madeBy)
BY DEF StoreInv, StoreTypeOK, EntriesHonest, SaveHonest, Saving

\* Entries stay honest while the list of saves only grows.
SavesGrow ==
  /\ begun' \in 0 .. MaxSaves /\ begun <= begun'
  /\ madeBy' \in [Saves -> Viewers \cup {Nobody}]
  /\ \A n \in 1 .. begun : madeBy'[n] = madeBy[n]

\* An entry goes on telling the truth while saves are only added.
LEMMA StaysHonest ==
  ASSUME StoreInv, SavesGrow, NEW e, Honest(e, begun, madeBy)
  PROVE  Honest(e, begun', madeBy')
BY BenchmarkStoreAssumption DEF Honest, Entry, StoreInv, StoreTypeOK, SavesGrow

\* No save begins where the histories of saves stay as they are.
LEMMA NothingBegun ==
  ASSUME StoreInv, UNCHANGED <<begun, madeBy>>
  PROVE  SavesGrow
BY BenchmarkStoreAssumption DEF SavesGrow, StoreInv, StoreTypeOK

(* A step of one tab that leaves it in an honest save, and the files honest.  *)
LEMMA OneSave ==
  ASSUME StoreInv, SavesGrow, NEW t \in Savers, NEW save,
         saving' = [saving EXCEPT ![t] = save],
         SaveHonest(save, begun', madeBy'),
         \A f \in Files : \A e \in file'[f] : e \in file[f] \/ Honest(e, begun', madeBy')
  PROVE  EntriesHonest'
<1>1. ASSUME NEW f \in Files, NEW e \in file'[f] PROVE Honest(e, begun', madeBy')
  BY <1>1, StaysHonest DEF StoreInv, EntriesHonest
<1>2. ASSUME NEW s \in Savers PROVE SaveHonest(saving'[s], begun', madeBy')
  <2>1. CASE s = t
    BY <2>1 DEF StoreInv, StoreTypeOK
  <2>2. CASE s # t
    <3>1. saving'[s] = saving[s] /\ SaveHonest(saving[s], begun, madeBy)
      BY <2>2 DEF StoreInv, StoreTypeOK, EntriesHonest
    <3>. QED
      BY <3>1, StaysHonest DEF SaveHonest
  <2>. QED
    BY <2>1, <2>2
<1>. QED
  BY <1>1, <1>2 DEF EntriesHonest

----------------------------------------------------------------------------
LEMMA BeginKeeps ==
  ASSUME StoreInv, NEW t \in Savers, SaveResult(t) \/ SaveBatch(t)
  PROVE  StoreInv'
<1>0. StoreTypeOK
  BY DEF StoreInv
<1>1. PICK f \in Files, run \in 0 .. RunsOfBatch, last \in 0 .. RunsOfBatch :
        saving' = [saving EXCEPT ![t] = SaveOf(f, OwnedRow(t, run), last)]
  <2>1. 1 \in 0 .. RunsOfBatch /\ 0 \in 0 .. RunsOfBatch /\ RunsOfBatch \in 0 .. RunsOfBatch
    BY BenchmarkStoreAssumption
  <2>. QED
    BY <2>1 DEF SaveResult, SaveBatch, Files
<1>2. /\ begun < MaxSaves /\ begun' = begun + 1 /\ madeBy' = [madeBy EXCEPT ![begun + 1] = user[t]]
      /\ saving[t] = NoSave
      /\ UNCHANGED <<file, user, written, endangered>>
  BY DEF SaveResult, SaveBatch, Beginning
<1>3. begun \in 0 .. MaxSaves /\ begun + 1 \in Saves /\ user[t] \in Viewers
  BY <1>0, <1>2, BenchmarkStoreAssumption DEF StoreTypeOK, Saves
<1>4. SavesGrow /\ madeBy'[begun + 1] = user[t]
  BY <1>0, <1>2, <1>3, BenchmarkStoreAssumption DEF SavesGrow, StoreTypeOK, Saves
<1>. DEFINE entry == OwnedRow(t, run)
            save == SaveOf(f, entry, last)
<1>5. entry \in Entry /\ entry.save = begun + 1 /\ entry.owner = user[t]
  BY <1>3, BenchmarkStoreAssumption DEF OwnedRow, Entry, Saves
<1>6. Honest(entry, begun', madeBy')
  BY <1>2, <1>3, <1>4, <1>5, BenchmarkStoreAssumption DEF Honest, Saves
<1>7. save \in Saving /\ save.entry = entry /\ save.base = {} /\ save.at = "load"
  BY <1>5 DEF SaveOf, Saving
<1>8. SaveHonest(save, begun', madeBy')
  BY <1>6, <1>7 DEF SaveHonest
<1>9. EntriesHonest'
  BY <1>1, <1>2, <1>4, <1>8, OneSave
<1>10. StoreTypeOK'
  BY <1>0, <1>1, <1>2, <1>4, <1>7 DEF StoreTypeOK, SavesGrow
<1>11. BaseIsKnown'
  BY <1>0, <1>1, <1>2, <1>7 DEF StoreInv, StoreTypeOK, BaseIsKnown, InSave
<1>12. LostOnlyUnseen'
  BY <1>2 DEF StoreInv, LostOnlyUnseen
<1>. QED
  BY <1>9, <1>10, <1>11, <1>12 DEF StoreInv

LEMMA LoadKeeps ==
  ASSUME StoreInv, NEW t \in Savers, Load(t) \/ LoadNothing(t)
  PROVE  StoreInv'
<1>. DEFINE f == saving[t].file
<1>0. StoreTypeOK /\ saving[t] # NoSave /\ UNCHANGED <<file, user, begun, madeBy, written>>
  BY DEF StoreInv, Load, LoadNothing, InSave
<1>1. saving[t] \in Saving /\ f \in Files /\ file[f] \subseteq Entry
  BY <1>0, SaveTyped DEF StoreTypeOK
<1>2. PICK base \in {file[f], {}} :
        /\ saving' = [saving EXCEPT ![t] = [saving[t] EXCEPT !.at = "write", !.base = base]]
        /\ \/ base = file[f] /\ endangered' = endangered
           \/ endangered' = [endangered EXCEPT ![f] = @ \cup file[f]]
  <2>1. CASE Load(t)
    BY <2>1, <1>0 DEF Load, StoreTypeOK
  <2>2. CASE LoadNothing(t)
    BY <2>2, <1>0 DEF LoadNothing, StoreTypeOK
  <2>. QED
    BY <2>1, <2>2
<1>. DEFINE save == [saving[t] EXCEPT !.at = "write", !.base = base]
<1>3. /\ save \in Saving /\ save.entry = saving[t].entry /\ save.base = base /\ save.file = f
      /\ save.base \in SUBSET Entry
  BY <1>1, <1>2 DEF Saving
<1>4. SavesGrow
  BY <1>0, NothingBegun
<1>5. SaveHonest(save, begun', madeBy')
  <2>1. \A e \in base : Honest(e, begun, madeBy)
    BY <1>1, <1>2 DEF StoreInv, EntriesHonest
  <2>2. Honest(save.entry, begun, madeBy)
    BY <1>0, <1>3, SaveTyped
  <2>. QED
    BY <1>0, <1>3, <2>1, <2>2 DEF SaveHonest
<1>6. EntriesHonest'
  BY <1>0, <1>2, <1>4, <1>5, OneSave
<1>7. StoreTypeOK'
  BY <1>0, <1>1, <1>2, <1>3 DEF StoreTypeOK
<1>8. \A g \in Files : endangered[g] \subseteq endangered'[g]
  BY <1>0, <1>1, <1>2 DEF StoreTypeOK
<1>9. written[f] \subseteq base \cup endangered'[f]
  BY <1>0, <1>1, <1>2 DEF StoreTypeOK, StoreInv, LostOnlyUnseen
<1>10. BaseIsKnown'
  <2>. SUFFICES ASSUME NEW s \in Savers, InSave(s, "write")'
                PROVE  written[saving'[s].file] \subseteq saving'[s].base \cup endangered'[saving'[s].file]
    BY <1>0 DEF BaseIsKnown
  <2>1. CASE s = t
    BY <2>1, <1>0, <1>2, <1>3, <1>9 DEF StoreTypeOK
  <2>2. CASE s # t
    <3>1. saving'[s] = saving[s] /\ InSave(s, "write") /\ saving[s].file \in Files
      BY <2>2, <1>0, <1>2, SaveTyped DEF StoreTypeOK, InSave
    <3>. QED
      BY <3>1, <1>8 DEF StoreInv, BaseIsKnown
  <2>. QED
    BY <2>1, <2>2
<1>11. LostOnlyUnseen'
  BY <1>0, <1>8 DEF StoreInv, LostOnlyUnseen
<1>. QED
  BY <1>6, <1>7, <1>10, <1>11 DEF StoreInv

LEMMA ReplaceKeeps ==
  ASSUME StoreInv, NEW t \in Savers, Replace(t)
  PROVE  StoreInv'
<1>. DEFINE f == saving[t].file
            e == saving[t].entry
            last == saving[t].last
            next == IF e.run >= last THEN NoSave ELSE SaveOf("results", BatchRow(e), last)
<1>0. /\ StoreTypeOK /\ InSave(t, "write") /\ saving[t] # NoSave
      /\ UNCHANGED <<user, begun, madeBy>>
  BY DEF StoreInv, Replace, InSave
<1>1. /\ saving[t] \in Saving /\ f \in Files /\ Honest(e, begun, madeBy)
      /\ saving[t].base \subseteq Entry /\ \A b \in saving[t].base : Honest(b, begun, madeBy)
  BY <1>0, SaveTyped DEF Saving
<1>2. e \in Entry /\ last \in 0 .. RunsOfBatch
  BY <1>1 DEF Honest, Saving
<1>3. /\ file' = [file EXCEPT ![f] = saving[t].base \cup {e}]
      /\ written' = [written EXCEPT ![f] = @ \cup {e}]
      /\ endangered' = IF Overlapping(t) THEN [endangered EXCEPT ![f] = @ \cup {e}] ELSE endangered
      /\ saving' = [saving EXCEPT ![t] = next]
  BY DEF Replace, Continue
<1>4. SavesGrow
  BY <1>0, NothingBegun
<1>5. next = NoSave \/ /\ next \in Saving /\ next.base = {} /\ next.at = "load"
                       /\ Honest(next.entry, begun, madeBy)
  <2>1. CASE e.run >= last
    BY <2>1
  <2>2. CASE ~ (e.run >= last)
    <3>1. e.run + 1 \in 0 .. RunsOfBatch
      BY <2>2, <1>2, BenchmarkStoreAssumption DEF Entry
    <3>2. BatchRow(e) \in Entry /\ BatchRow(e).save = e.save /\ BatchRow(e).owner = e.owner
      BY <1>2, <3>1 DEF BatchRow, Entry
    <3>3. next = SaveOf("results", BatchRow(e), last)
      BY <2>2
    <3>4. next \in Saving /\ next.base = {} /\ next.at = "load" /\ next.entry = BatchRow(e)
      BY <1>2, <3>2, <3>3 DEF SaveOf, Saving, Files
    <3>. QED
      BY <1>1, <3>2, <3>4 DEF Honest
  <2>. QED
    BY <2>1, <2>2
<1>6. EntriesHonest'
  <2>1. SaveHonest(next, begun', madeBy')
    BY <1>0, <1>5 DEF SaveHonest
  <2>2. ASSUME NEW g \in Files, NEW b \in file'[g]
        PROVE  b \in file[g] \/ Honest(b, begun', madeBy')
    BY <2>2, <1>0, <1>1, <1>3 DEF StoreTypeOK
  <2>. QED
    BY <1>3, <1>4, <2>1, <2>2, OneSave
<1>7. StoreTypeOK'
  BY <1>0, <1>1, <1>2, <1>3, <1>5 DEF StoreTypeOK
<1>8. \A g \in Files : endangered[g] \subseteq endangered'[g]
  BY <1>0, <1>1, <1>3 DEF StoreTypeOK
<1>9. BaseIsKnown'
  <2>. SUFFICES ASSUME NEW s \in Savers, InSave(s, "write")'
                PROVE  written'[saving'[s].file] \subseteq saving'[s].base \cup endangered'[saving'[s].file]
    BY DEF BaseIsKnown
  <2>1. s # t
    BY <1>0, <1>3, <1>5 DEF InSave, StoreTypeOK
  <2>2. saving'[s] = saving[s] /\ InSave(s, "write") /\ saving[s].file \in Files
    BY <2>1, <1>0, <1>3, SaveTyped DEF StoreTypeOK, InSave
  <2>3. written[saving[s].file] \subseteq saving[s].base \cup endangered[saving[s].file]
    BY <2>2 DEF StoreInv, BaseIsKnown
  <2>4. CASE saving[s].file = f
    <3>1. Overlapping(t)
      BY <2>1, <2>2, <2>4 DEF Overlapping
    <3>2. e \in endangered'[f] /\ written'[f] = written[f] \cup {e}
      BY <1>0, <1>1, <1>3, <3>1 DEF StoreTypeOK
    <3>. QED
      BY <1>8, <2>2, <2>3, <2>4, <3>2
  <2>5. CASE saving[s].file # f
    <3>1. written'[saving[s].file] = written[saving[s].file]
      BY <2>2, <2>5, <1>0, <1>3 DEF StoreTypeOK
    <3>. QED
      BY <1>8, <2>2, <2>3, <3>1
  <2>. QED
    BY <2>4, <2>5
<1>10. LostOnlyUnseen'
  <2>. SUFFICES ASSUME NEW g \in Files PROVE written'[g] \subseteq file'[g] \cup endangered'[g]
    BY DEF LostOnlyUnseen
  <2>1. CASE g = f
    <3>1. written[f] \subseteq saving[t].base \cup endangered[f]
      BY <1>0 DEF StoreInv, BaseIsKnown
    <3>2. written'[f] = written[f] \cup {e} /\ file'[f] = saving[t].base \cup {e}
      BY <1>0, <1>1, <1>3 DEF StoreTypeOK
    <3>. QED
      BY <1>8, <2>1, <3>1, <3>2
  <2>2. CASE g # f
    <3>1. written'[g] = written[g] /\ file'[g] = file[g]
      BY <2>2, <1>0, <1>3 DEF StoreTypeOK
    <3>. QED
      BY <1>8, <3>1 DEF StoreInv, LostOnlyUnseen
  <2>. QED
    BY <2>1, <2>2
<1>. QED
  BY <1>6, <1>7, <1>9, <1>10 DEF StoreInv

LEMMA StopKeeps ==
  ASSUME StoreInv, NEW t \in Savers, Stop(t)
  PROVE  StoreInv'
<1>1. /\ StoreTypeOK /\ saving' = [saving EXCEPT ![t] = NoSave]
      /\ UNCHANGED <<file, user, begun, madeBy, written, endangered>>
  BY DEF StoreInv, Stop, Untouched
<1>2. EntriesHonest'
  BY <1>1, NothingBegun, OneSave DEF SaveHonest
<1>3. StoreTypeOK'
  BY <1>1 DEF StoreTypeOK
<1>4. BaseIsKnown'
  BY <1>1 DEF StoreInv, StoreTypeOK, BaseIsKnown, InSave
<1>. QED
  BY <1>1, <1>2, <1>3, <1>4 DEF StoreInv, LostOnlyUnseen

LEMMA StoreInvNext == StoreInv /\ [StoreNext]_storeVars => StoreInv'
<1> SUFFICES ASSUME StoreInv, [StoreNext]_storeVars PROVE StoreInv'
  OBVIOUS
<1>1. ASSUME NEW t \in Savers, SaveResult(t) \/ SaveBatch(t) PROVE StoreInv'
  BY <1>1, BeginKeeps
<1>2. ASSUME NEW t \in Savers, Load(t) \/ LoadNothing(t) PROVE StoreInv'
  BY <1>2, LoadKeeps
<1>3. ASSUME NEW t \in Savers, Replace(t) PROVE StoreInv'
  BY <1>3, ReplaceKeeps
<1>4. ASSUME NEW t \in Savers, Stop(t) PROVE StoreInv'
  BY <1>4, StopKeeps
<1>5. ASSUME NEW t \in Savers, NEW u \in Viewers, SignInAs(t, u) PROVE StoreInv'
  BY <1>5 DEF SignInAs, StoreInv, StoreTypeOK, EntriesHonest, BaseIsKnown, InSave, LostOnlyUnseen
<1>6. CASE UNCHANGED storeVars
  BY <1>6 DEF storeVars, StoreInv, StoreTypeOK, EntriesHonest, BaseIsKnown, InSave, LostOnlyUnseen
<1>. QED
  BY <1>1, <1>2, <1>3, <1>4, <1>5, <1>6 DEF StoreNext

(* Whatever tabs save at once, and wherever a save fails or stops, an entry   *)
(* that a file had is still there unless it fell to a save that had loaded     *)
(* the file before, or could not read it (benchmark.py:250-267, 334-349).     *)
THEOREM OnlyTheUnseenIsLost == StoreSpec => []LostOnlyUnseen
<1>1. StoreInv => LostOnlyUnseen
  BY DEF StoreInv
<1>. QED
  BY <1>1, StoreInvInit, StoreInvNext, PTL DEF StoreSpec

(* A user's history has that user's entries, the rows of a batch too, and     *)
(* nobody else's (benchmark.py:270-304, 1390-1412).                           *)
THEOREM HistoriesAreOwn == StoreSpec => []HistoryIsOwn
<1>1. StoreInv => HistoryIsOwn
  BY DEF StoreInv, EntriesHonest, Honest, HistoryIsOwn, VisibleTo, MadeBy
<1>. QED
  BY <1>1, StoreInvInit, StoreInvNext, PTL DEF StoreSpec

(* The files of the benchmark and the saves under way keep their types.      *)
THEOREM StoreTyped == StoreSpec => []StoreTypeOK
<1>1. StoreInv => StoreTypeOK
  BY DEF StoreInv
<1>. QED
  BY <1>1, StoreInvInit, StoreInvNext, PTL DEF StoreSpec

----------------------------------------------------------------------------
(* BatchRuns: a batch, its sessions and what they recommend                 *)

----------------------------------------------------------------------------
(* The invariant: what batch holds, and what every session holds.          *)

\* The combination of the batch that a run was made for.
CombinationOf(r) == <<r.photo, <<r.set, r.level>>>>
Ran(runs)        == {CombinationOf(r) : r \in runs}
Wanted(t, sets)  == {p \in BenchPhotos : t[p].include} \X (sets \X Thresholds)

RunSound(r, t, named) ==
  /\ r \in BatchRun
  /\ r.include = TRUE
  /\ r.label = NameOf(r.set, named)
  /\ r.expected = t[r.photo].expected
  /\ r.error = Distance(r.count, r.expected)
  /\ r.evaluation = Evaluation(r.count, r.expected, r.failed)
  /\ \A m, n \in r.marks : m = n

RunHonest(r) ==
  /\ r.marks = {}
  /\ r.cached => /\ ~ r.failed
                 /\ <<CacheKey(CombinationOf(r)), [count |-> r.count, fallback |-> FALSE]>> \in answered

RunsSound(runs, t, named) ==
  /\ \A r \in runs : RunSound(r, t, named)
  /\ \A q, r \in runs : CombinationOf(q) = CombinationOf(r) => q = r

CacheSound(cache) ==
  \A k \in CacheKeys : cache[k] # Failure =>
    cache[k] \in Answer /\ ~ cache[k].fallback /\ <<k, cache[k]>> \in answered

LoopSound ==
  batch # NoBatch =>
    /\ alike \subseteq batch.sets
    /\ RunsSound(batch.runs, truth, alike) /\ \A r \in batch.runs : RunHonest(r)
    /\ Ran(batch.runs) \cup batch.left = Wanted(truth, batch.sets)
    /\ Ran(batch.runs) \cap batch.left = {}
    /\ batch.at # "loop" => batch.left = {}
    /\ CacheSound(batch.cache)

SessionSound(s) ==
  /\ DOMAIN s = {"truth", "alike", "sets", "runs", "aggregates"}
  /\ s.truth \in [BenchPhotos -> Truth] /\ s.sets \subseteq PromptSets
  /\ s.alike \subseteq s.sets
  /\ RunsSound(s.runs, s.truth, s.alike)
  /\ Ran(s.runs) = Wanted(s.truth, s.sets)
  /\ s.aggregates = Aggregated(s.runs, s.sets, s.alike)

BatchTyped ==
  /\ truth \in [BenchPhotos -> Truth] /\ alike \subseteq PromptSets
  /\ batch \in Batch \cup {NoBatch}
  /\ runCache \in [CacheKeys -> Answer \cup {Failure}]
  /\ started \in 0 .. MaxBatches /\ reviews \in 0 .. MaxReviews
  /\ answered \subseteq CacheKeys \X Answer

SessionsSound ==
  /\ \A s \in sessions : SessionSound(s) /\ \A r \in s.runs : RunHonest(r)
  /\ opened # NoSession => SessionSound(opened)

BatchInv == BatchTyped /\ CacheSound(runCache) /\ LoopSound /\ SessionsSound

----------------------------------------------------------------------------
(* Runs and their combinations.                                            *)

\* A combination is a photo, a prompt set and a threshold, and has a key in the cache.
LEMMA CombinationIsCombo ==
  ASSUME NEW c \in Combos
  PROVE  /\ c = <<c[1], <<c[2][1], c[2][2]>>>>
         /\ c[1] \in BenchPhotos /\ c[2] \in Cells /\ c[2][1] \in PromptSets /\ c[2][2] \in Thresholds
         /\ CacheKey(c) \in CacheKeys
BY DEF Combos, Cells, CacheKeys

\* The run made of an answer is sound, and honest when the cache gave the answer.
LEMMA NewRun ==
  ASSUME BatchTyped, NEW c \in Combos, truth[c[1]].include,
         NEW answer \in Answer \cup {Failure}, NEW cached \in BOOLEAN,
         cached => answer # Failure /\ ~ answer.fallback /\ <<CacheKey(c), answer>> \in answered
  PROVE  /\ RunSound(RunOf(c, answer, cached), truth, alike)
         /\ RunHonest(RunOf(c, answer, cached))
         /\ CombinationOf(RunOf(c, answer, cached)) = c
<1>. DEFINE count == IF answer = Failure THEN 0 ELSE answer.count
            failed == answer = Failure
            fallback == ~ (answer = Failure) /\ answer.fallback
            t == truth[c[1]]
            run == [photo |-> c[1], set |-> c[2][1], label |-> NameOf(c[2][1], alike), level |-> c[2][2], include |-> t.include,
                    expected |-> t.expected, count |-> count, failed |-> failed,
                    fallback |-> fallback, cached |-> cached,
                    error |-> Distance(count, t.expected), marks |-> {},
                    evaluation |-> Evaluation(count, t.expected, failed)]
<1>1. RunOf(c, answer, cached) = run
  BY DEF RunOf
<1>2. t \in Truth /\ t.include = TRUE /\ t.expected \in 0 .. MaxCount
  BY CombinationIsCombo DEF BatchTyped, Truth
<1>3. count \in 0 .. MaxCount /\ failed \in BOOLEAN /\ fallback \in BOOLEAN
  BY BatchAssumption DEF Answer
<1>4. Distance(count, t.expected) \in 0 .. MaxCount
  BY <1>2, <1>3, BatchAssumption DEF Distance
<1>5. Evaluation(count, t.expected, failed) \in
        {"execution_failed", "successful_zero_detections", "exact_count_match", "undercount", "overcount"}
  BY DEF Evaluation
<1>6. cached => ~ failed /\ answer = [count |-> count, fallback |-> FALSE]
  BY DEF Answer
<1>. HIDE DEF t, count, failed, fallback
<1>12. NameOf(c[2][1], alike) \in SUBSET PromptSets
  BY CombinationIsCombo DEF BatchTyped, NameOf
<1>7. run \in BatchRun
  BY <1>2, <1>3, <1>4, <1>5, <1>12, CombinationIsCombo DEF BatchRun
<1>8. /\ run.photo = c[1] /\ run.set = c[2][1] /\ run.label = NameOf(run.set, alike) /\ run.level = c[2][2] /\ run.include = TRUE
      /\ run.expected = t.expected /\ run.count = count /\ run.failed = failed /\ run.cached = cached
      /\ run.error = Distance(count, t.expected) /\ run.marks = {}
      /\ run.evaluation = Evaluation(count, t.expected, failed)
  BY <1>2
<1>. HIDE DEF run
<1>9. CombinationOf(run) = c
  BY <1>8, CombinationIsCombo DEF CombinationOf
<1>10. RunSound(run, truth, alike)
  BY <1>7, <1>8 DEF RunSound, t
<1>11. RunHonest(run)
  BY <1>6, <1>8, <1>9 DEF RunHonest
<1>. QED
  BY <1>1, <1>9, <1>10, <1>11

\* Another answer of the model takes nothing away from what was found sound.
LEMMA HonestyStays ==
  ASSUME answered \subseteq answered'
  PROVE  /\ \A r : RunHonest(r) => RunHonest(r)'
         /\ \A c : CacheSound(c) => CacheSound(c)'
BY DEF RunHonest, CacheSound

LEMMA SoundFromTheStart == BatchInit => BatchInv
<1>. SUFFICES ASSUME NEW cache \in [CacheKeys -> Cacheable \cup {Failure}], BatchFrom(cache)
     PROVE BatchInv
  BY DEF BatchInit
<1>1. /\ truth = [p \in BenchPhotos |-> [expected |-> 0, include |-> TRUE]] /\ alike = {}
      /\ batch = NoBatch /\ runCache = cache /\ opened = NoSession /\ sessions = {}
      /\ started = 0 /\ reviews = 0
      /\ answered = {<<k, cache[k]>> : k \in {j \in CacheKeys : cache[j] # Failure}}
  BY DEF BatchFrom
<1>2. \A k \in CacheKeys : cache[k] # Failure => cache[k] \in Answer /\ ~ cache[k].fallback
  BY DEF Cacheable
<1>3. truth \in [BenchPhotos -> Truth]
  BY <1>1, BatchAssumption DEF Truth
<1>4. answered \subseteq CacheKeys \X Answer
  BY <1>1, <1>2
<1>5. runCache \in [CacheKeys -> Answer \cup {Failure}]
  BY <1>1 DEF Cacheable
<1>6. started \in 0 .. MaxBatches /\ reviews \in 0 .. MaxReviews
  BY <1>1, BatchAssumption
<1>7. CacheSound(runCache)
  BY <1>1, <1>2 DEF CacheSound
<1>8. LoopSound /\ SessionsSound
  BY <1>1 DEF LoopSound, SessionsSound
<1>. QED
  BY <1>1, <1>3, <1>4, <1>5, <1>6, <1>7, <1>8 DEF BatchInv, BatchTyped
----------------------------------------------------------------------------
(* The loop: a combination is recorded once, taken from the cache or not.  *)

LEMMA RecordKeeps ==
  ASSUME BatchInv, Looping, NEW c \in batch.left,
         NEW answer \in Answer \cup {Failure}, NEW cached \in BOOLEAN,
         Record(c, answer, cached),
         answered \subseteq answered', answered' \subseteq CacheKeys \X Answer,
         cached => answer = batch.cache[CacheKey(c)] /\ answer # Failure,
         ~ cached /\ answer # Failure => <<CacheKey(c), answer>> \in answered',
         UNCHANGED <<truth, alike, runCache, opened, sessions, started, reviews>>
  PROVE  BatchInv'
<1>. DEFINE run == RunOf(c, answer, cached)
            key == CacheKey(c)
            held == IF cached \/ answer = Failure \/ answer.fallback THEN batch.cache[key] ELSE answer
            next == [batch EXCEPT !.left = batch.left \ {c}, !.runs = batch.runs \cup {run},
                                  !.cache = [batch.cache EXCEPT ![key] = held]]
<1>1. batch \in Batch /\ batch # NoBatch /\ batch.at = "loop"
  BY DEF Looping, BatchInv, BatchTyped
<1>2. /\ RunsSound(batch.runs, truth, alike) /\ \A r \in batch.runs : RunHonest(r)
      /\ Ran(batch.runs) \cup batch.left = Wanted(truth, batch.sets)
      /\ Ran(batch.runs) \cap batch.left = {}
      /\ CacheSound(batch.cache)
  BY <1>1 DEF BatchInv, LoopSound
<1>3. c \in Combos /\ c \in Wanted(truth, batch.sets) /\ truth[c[1]].include
  BY <1>1, <1>2 DEF Batch, Wanted
<1>4. key \in CacheKeys /\ batch.cache \in [CacheKeys -> Answer \cup {Failure}]
  BY <1>1, <1>3, CombinationIsCombo DEF Batch
<1>5. /\ cached => answer # Failure /\ ~ answer.fallback /\ <<key, answer>> \in answered
      /\ held \in Answer \cup {Failure}
      /\ held # Failure => held \in Answer /\ ~ held.fallback /\ <<key, held>> \in answered'
  BY <1>2, <1>4, Zenon DEF CacheSound
<1>6. /\ RunSound(run, truth, alike) /\ RunHonest(run) /\ CombinationOf(run) = c
  BY <1>3, <1>5, NewRun DEF BatchInv
<1>7. batch' = next
  BY DEF Record
<1>. HIDE DEF run, key, held
<1>8. /\ next \in Batch
      /\ next.runs = batch.runs \cup {run} /\ next.left = batch.left \ {c} /\ next.at = "loop"
      /\ next.cache = [batch.cache EXCEPT ![key] = held] /\ next.sets = batch.sets
  <2>1. run \in BatchRun
    BY <1>6 DEF RunSound
  <2>2. [batch.cache EXCEPT ![key] = held] \in [CacheKeys -> Answer \cup {Failure}]
    BY <1>4, <1>5
  <2>. QED
    BY <1>1, <2>1, <2>2 DEF Batch
<1>. HIDE DEF next
<1>9. RunsSound(next.runs, truth, alike)
  <2>1. c \notin Ran(batch.runs)
    BY <1>2
  <2>2. \A r \in batch.runs : CombinationOf(r) # CombinationOf(run)
    BY <1>6, <2>1 DEF Ran
  <2>. QED
    BY <1>2, <1>6, <1>8, <2>2 DEF RunsSound
<1>10. Ran(next.runs) = Ran(batch.runs) \cup {c}
  BY <1>6, <1>8 DEF Ran
<1>11. \A r \in next.runs : RunHonest(r)'
  BY <1>2, <1>6, <1>8, HonestyStays
<1>12. ASSUME NEW k \in CacheKeys, next.cache[k] # Failure
       PROVE  next.cache[k] \in Answer /\ ~ next.cache[k].fallback /\ <<k, next.cache[k]>> \in answered'
  <2>1. CASE k = key
    <3>1. next.cache[k] = held
      BY <1>4, <1>8, <2>1
    <3>. QED
      BY <1>5, <1>12, <2>1, <3>1
  <2>2. CASE k # key
    <3>1. next.cache[k] = batch.cache[k]
      BY <1>4, <1>8, <2>2
    <3>. QED
      BY <1>2, <1>12, <3>1 DEF CacheSound
  <2>. QED
    BY <2>1, <2>2
<1>13. LoopSound'
  <2>1. RunsSound(batch.runs, truth, alike)'
    BY <1>7, <1>9
  <2>2. (Ran(batch.runs) \cup batch.left = Wanted(truth, batch.sets))'
    BY <1>2, <1>3, <1>7, <1>8, <1>10, Zenon
  <2>3. (Ran(batch.runs) \cap batch.left = {})'
    BY <1>2, <1>7, <1>8, <1>10
  <2>4. batch'.at = "loop"
    BY <1>7, <1>8
  <2>5. CacheSound(batch.cache)'
    BY <1>7, <1>12 DEF CacheSound
  <2>6. (alike \subseteq batch.sets)'
    BY <1>1, <1>7, <1>8 DEF BatchInv, LoopSound
  <2>. QED
    BY <1>7, <1>11, <2>1, <2>2, <2>3, <2>4, <2>5, <2>6 DEF LoopSound
<1>14. CacheSound(runCache)'
  BY HonestyStays DEF BatchInv
<1>15. SessionsSound'
  BY HonestyStays DEF BatchInv, SessionsSound
<1>16. BatchTyped'
  BY <1>7, <1>8 DEF BatchInv, BatchTyped
<1>. QED
  BY <1>13, <1>14, <1>15, <1>16 DEF BatchInv

LEMMA TakeHitKeeps ==
  ASSUME BatchInv, NEW c \in Combos, TakeHit(c)
  PROVE  BatchInv'
<1>1. /\ Looping /\ c \in batch.left /\ batch.cache[CacheKey(c)] # Failure
      /\ Record(c, batch.cache[CacheKey(c)], TRUE)
      /\ UNCHANGED <<truth, alike, runCache, opened, sessions, started, reviews, answered>>
  BY DEF TakeHit
<1>2. batch \in Batch
  BY <1>1 DEF Looping, BatchInv, BatchTyped
<1>3. batch.cache[CacheKey(c)] \in Answer \cup {Failure}
  BY <1>2, CombinationIsCombo DEF Batch
<1>4. answered \subseteq answered' /\ answered' \subseteq CacheKeys \X Answer
  BY <1>1 DEF BatchInv, BatchTyped
<1>. QED
  BY <1>1, <1>3, <1>4, RecordKeeps

LEMMA InferKeeps ==
  ASSUME BatchInv, NEW c \in Combos, NEW answer \in Answer \cup {Failure}, Infer(c, answer)
  PROVE  BatchInv'
<1>1. /\ Looping /\ c \in batch.left /\ Record(c, answer, FALSE)
      /\ answered' = IF answer = Failure THEN answered ELSE answered \cup {<<CacheKey(c), answer>>}
      /\ UNCHANGED <<truth, alike, runCache, opened, sessions, started, reviews>>
  BY DEF Infer
<1>2. /\ answered \subseteq answered' /\ answered' \subseteq CacheKeys \X Answer
      /\ answer # Failure => <<CacheKey(c), answer>> \in answered'
  BY <1>1, CombinationIsCombo DEF BatchInv, BatchTyped
<1>. QED
  BY <1>1, <1>2, RecordKeeps

----------------------------------------------------------------------------
(* What becomes of the finished loop.                                      *)

LEMMA StartBatchKeeps ==
  ASSUME BatchInv, NEW t \in [BenchPhotos -> Truth], NEW sets \in SUBSET PromptSets,
         NEW named \in SUBSET sets, NEW force \in BOOLEAN, StartBatch(t, sets, named, force)
  PROVE  BatchInv'
<1>. DEFINE left == {p \in BenchPhotos : t[p].include} \X (sets \X Thresholds)
            next == [at |-> "loop", sets |-> sets, force |-> force, runs |-> {}, left |-> left,
                     cache |-> runCache]
<1>1. /\ batch' = next /\ truth' = t /\ alike' = named /\ started < MaxBatches /\ started' = started + 1
      /\ UNCHANGED <<runCache, opened, sessions, reviews, answered>>
  BY DEF StartBatch
<1>2. left \subseteq Combos /\ left = Wanted(t, sets)
  BY DEF Combos, Cells, Wanted
<1>. HIDE DEF left
<1>3. next \in Batch /\ next.runs = {} /\ next.left = left /\ next.at = "loop" /\ next.cache = runCache
      /\ next.sets = sets
  BY <1>2 DEF Batch, BatchInv, BatchTyped
<1>. HIDE DEF next
<1>4. LoopSound'
  <2>1. Ran({}) = {} /\ RunsSound({}, t, named)
    BY DEF Ran, RunsSound
  <2>2. CacheSound(runCache)'
    BY <1>1, HonestyStays DEF BatchInv
  <2>. QED
    BY <1>1, <1>2, <1>3, <2>1, <2>2 DEF LoopSound
<1>5. BatchTyped'
  BY <1>1, <1>3, BatchAssumption DEF BatchInv, BatchTyped
<1>6. SessionsSound' /\ CacheSound(runCache)'
  BY <1>1, HonestyStays DEF BatchInv, SessionsSound
<1>. QED
  BY <1>4, <1>5, <1>6 DEF BatchInv

\* A step that leaves the loop where it is, and what the model answered.
LEMMA LoopStays ==
  ASSUME BatchInv, UNCHANGED <<truth, alike, answered>>,
         \/ batch' = NoBatch
         \/ /\ batch # NoBatch /\ batch.left = {}
            /\ \E at \in {"save", "show"} : batch' = [batch EXCEPT !.at = at]
  PROVE  LoopSound' /\ batch' \in Batch \cup {NoBatch}
<1>1. CASE batch' = NoBatch
  BY <1>1 DEF LoopSound
<1>2. ASSUME NEW at \in {"save", "show"}, batch # NoBatch, batch.left = {},
             batch' = [batch EXCEPT !.at = at]
      PROVE  LoopSound' /\ batch' \in Batch
  <2>1. batch \in Batch
    BY <1>2 DEF BatchInv, BatchTyped
  <2>2. /\ batch' \in Batch /\ batch'.runs = batch.runs /\ batch'.left = {} /\ batch'.sets = batch.sets
        /\ batch'.cache = batch.cache
    BY <1>2, <2>1 DEF Batch
  <2>3. /\ RunsSound(batch.runs, truth, alike) /\ \A r \in batch.runs : RunHonest(r)
        /\ Ran(batch.runs) \cup {} = Wanted(truth, batch.sets)
        /\ CacheSound(batch.cache) /\ alike \subseteq batch.sets
    BY <1>2 DEF BatchInv, LoopSound
  <2>4. (\A r \in batch.runs : RunHonest(r)') /\ CacheSound(batch.cache)'
    BY <2>2, <2>3 DEF RunHonest, CacheSound
  <2>. QED
    BY <2>2, <2>3, <2>4 DEF LoopSound
<1>. QED
  BY <1>1, <1>2

LEMMA KeepCacheKeeps == BatchInv /\ KeepCache => BatchInv'
<1>. SUFFICES ASSUME BatchInv, KeepCache PROVE BatchInv'
  OBVIOUS
<1>1. /\ batch # NoBatch /\ batch.left = {} /\ runCache' = batch.cache
      /\ batch' = [batch EXCEPT !.at = "save"]
      /\ UNCHANGED <<truth, alike, opened, sessions, started, reviews, answered>>
  BY DEF KeepCache, Looping
<1>2. LoopSound' /\ batch' \in Batch \cup {NoBatch}
  BY <1>1, LoopStays
<1>3. CacheSound(batch.cache) /\ batch.cache \in [CacheKeys -> Answer \cup {Failure}]
  BY <1>1 DEF BatchInv, BatchTyped, LoopSound, Batch
<1>4. CacheSound(runCache)'
  BY <1>1, <1>3 DEF CacheSound
<1>5. BatchTyped'
  BY <1>1, <1>2, <1>3 DEF BatchInv, BatchTyped
<1>6. SessionsSound'
  BY <1>1, HonestyStays DEF BatchInv, SessionsSound
<1>. QED
  BY <1>2, <1>4, <1>5, <1>6 DEF BatchInv

\* A loop with nothing left makes a sound session.
LEMMA FinishedSession ==
  ASSUME BatchInv, batch # NoBatch, batch.at # "loop"
  PROVE  SessionSound(BatchSession) /\ \A r \in BatchSession.runs : RunHonest(r)
<1>1. batch \in Batch
  BY DEF BatchInv, BatchTyped
<1>2. /\ RunsSound(batch.runs, truth, alike) /\ Ran(batch.runs) = Wanted(truth, batch.sets)
      /\ \A r \in batch.runs : RunHonest(r)
  BY DEF BatchInv, LoopSound
<1>. DEFINE aggregates == Aggregated(batch.runs, batch.sets, alike)
<1>3. BatchSession = [truth |-> truth, alike |-> alike, sets |-> batch.sets, runs |-> batch.runs, aggregates |-> aggregates]
  BY DEF BatchSession
<1>4. truth \in [BenchPhotos -> Truth] /\ batch.sets \subseteq PromptSets /\ alike \subseteq batch.sets
  BY <1>1 DEF BatchInv, BatchTyped, Batch, LoopSound
<1>5. aggregates = Aggregated(batch.runs, batch.sets, alike)
  OBVIOUS
<1>. HIDE DEF aggregates
<1>6. /\ DOMAIN BatchSession = {"truth", "alike", "sets", "runs", "aggregates"}
      /\ BatchSession.truth = truth /\ BatchSession.alike = alike /\ BatchSession.sets = batch.sets /\ BatchSession.runs = batch.runs
      /\ BatchSession.aggregates = aggregates
  BY <1>3
<1>. QED
  BY <1>2, <1>4, <1>5, <1>6 DEF SessionSound

LEMMA SaveSessionKeeps == BatchInv /\ SaveSession => BatchInv'
<1>. SUFFICES ASSUME BatchInv, SaveSession PROVE BatchInv'
  OBVIOUS
<1>1. /\ batch # NoBatch /\ batch.at = "save" /\ batch.at # "loop"
      /\ sessions' = sessions \cup {BatchSession} /\ batch' = [batch EXCEPT !.at = "show"]
      /\ UNCHANGED <<truth, alike, runCache, opened, started, reviews, answered>>
  BY DEF SaveSession
<1>2. batch.left = {}
  BY <1>1 DEF BatchInv, LoopSound
<1>3. LoopSound' /\ batch' \in Batch \cup {NoBatch}
  BY <1>1, <1>2, LoopStays
<1>4. SessionSound(BatchSession) /\ \A r \in BatchSession.runs : RunHonest(r)
  BY <1>1, FinishedSession
<1>5. SessionsSound'
  BY <1>1, <1>4, HonestyStays DEF BatchInv, SessionsSound
<1>6. CacheSound(runCache)'
  BY <1>1, HonestyStays DEF BatchInv
<1>7. BatchTyped'
  BY <1>1, <1>3 DEF BatchInv, BatchTyped
<1>. QED
  BY <1>3, <1>5, <1>6, <1>7 DEF BatchInv

LEMMA ShowSessionKeeps == BatchInv /\ ShowSession => BatchInv'
<1>. SUFFICES ASSUME BatchInv, ShowSession PROVE BatchInv'
  OBVIOUS
<1>1. /\ batch # NoBatch /\ batch.at # "loop" /\ opened' = BatchSession /\ batch' = NoBatch
      /\ UNCHANGED <<truth, alike, runCache, sessions, started, reviews, answered>>
  BY DEF ShowSession
<1>2. LoopSound' /\ batch' \in Batch \cup {NoBatch}
  BY <1>1, LoopStays
<1>3. SessionSound(BatchSession)
  BY <1>1, FinishedSession
<1>4. SessionsSound' /\ CacheSound(runCache)'
  BY <1>1, <1>3, HonestyStays DEF BatchInv, SessionsSound
<1>5. BatchTyped'
  BY <1>1, <1>2 DEF BatchInv, BatchTyped
<1>. QED
  BY <1>2, <1>4, <1>5 DEF BatchInv

LEMMA StopBatchKeeps == BatchInv /\ StopBatch => BatchInv'
<1>. SUFFICES ASSUME BatchInv, StopBatch PROVE BatchInv'
  OBVIOUS
<1>1. batch' = NoBatch /\ UNCHANGED <<truth, alike, runCache, opened, sessions, started, reviews, answered>>
  BY DEF StopBatch
<1>2. LoopSound' /\ batch' \in Batch \cup {NoBatch}
  BY <1>1, LoopStays
<1>3. SessionsSound' /\ CacheSound(runCache)'
  BY <1>1, HonestyStays DEF BatchInv, SessionsSound
<1>4. BatchTyped'
  BY <1>1, <1>2 DEF BatchInv, BatchTyped
<1>. QED
  BY <1>2, <1>3, <1>4 DEF BatchInv

LEMMA OpenSessionKeeps ==
  ASSUME BatchInv, NEW s \in sessions, OpenSession(s)
  PROVE  BatchInv'
<1>1. batch = NoBatch /\ opened' = s
      /\ UNCHANGED <<truth, alike, batch, runCache, sessions, started, reviews, answered>>
  BY DEF OpenSession
<1>2. LoopSound'
  BY <1>1 DEF LoopSound
<1>3. SessionsSound' /\ CacheSound(runCache)'
  BY <1>1, HonestyStays DEF BatchInv, SessionsSound
<1>4. BatchTyped'
  BY <1>1 DEF BatchInv, BatchTyped
<1>. QED
  BY <1>2, <1>3, <1>4 DEF BatchInv
\* A review marks one run and aggregates anew: what was run stays the same.
LEMMA ReviewRunKeeps ==
  ASSUME BatchInv, NEW marks \in MarkSet, NEW r \in opened.runs, ReviewRun(r, marks)
  PROVE  BatchInv'
<1>. DEFINE new == [r EXCEPT !.marks = {marks}]
            runs == (opened.runs \ {r}) \cup {new}
            aggregates == Aggregated(runs, opened.sets, opened.alike)
            next == [opened EXCEPT !.runs = runs, !.aggregates = aggregates]
<1>1. /\ batch = NoBatch /\ opened # NoSession /\ reviews < MaxReviews
      /\ opened' = next /\ reviews' = reviews + 1
      /\ UNCHANGED <<truth, alike, batch, runCache, sessions, started, answered>>
  BY DEF ReviewRun
<1>2. SessionSound(opened)
  BY <1>1 DEF BatchInv, SessionsSound
<1>3. RunSound(r, opened.truth, opened.alike)
  BY <1>2 DEF SessionSound, RunsSound
<1>4. /\ new \in BatchRun /\ new.photo = r.photo /\ new.set = r.set /\ new.label = r.label /\ new.level = r.level
      /\ new.include = r.include /\ new.expected = r.expected /\ new.count = r.count
      /\ new.failed = r.failed /\ new.error = r.error /\ new.evaluation = r.evaluation
      /\ new.marks = {marks}
  BY <1>3 DEF RunSound, BatchRun
<1>. HIDE DEF new
<1>5. RunSound(new, opened.truth, opened.alike) /\ CombinationOf(new) = CombinationOf(r)
  <2>1. \A m, n \in new.marks : m = n
    BY <1>4
  <2>. QED
    BY <1>3, <1>4, <2>1 DEF RunSound, CombinationOf
<1>6. RunsSound(runs, opened.truth, opened.alike)
  BY <1>2, <1>5 DEF SessionSound, RunsSound
<1>7. Ran(runs) = Ran(opened.runs)
  <2>1. ASSUME NEW q \in runs PROVE CombinationOf(q) \in Ran(opened.runs)
    BY <1>5 DEF Ran
  <2>2. ASSUME NEW q \in opened.runs PROVE CombinationOf(q) \in Ran(runs)
    <3>1. CASE q = r
      BY <1>5, <3>1 DEF Ran
    <3>2. CASE q # r
      BY <3>2 DEF Ran
    <3>. QED
      BY <3>1, <3>2
  <2>. QED
    BY <2>1, <2>2 DEF Ran
<1>8. aggregates = Aggregated(runs, opened.sets, opened.alike)
  OBVIOUS
<1>. HIDE DEF runs, aggregates
<1>9. /\ DOMAIN next = {"truth", "alike", "sets", "runs", "aggregates"}
      /\ next.truth = opened.truth /\ next.alike = opened.alike /\ next.sets = opened.sets /\ next.runs = runs
      /\ next.aggregates = aggregates
  BY <1>2 DEF SessionSound
<1>. HIDE DEF next
<1>10. SessionSound(next)
  BY <1>2, <1>6, <1>7, <1>8, <1>9 DEF SessionSound
<1>11. SessionSound(opened)'
  BY <1>1, <1>10
<1>12. (\A s \in sessions : SessionSound(s) /\ \A q \in s.runs : RunHonest(q))'
  BY <1>1, HonestyStays DEF BatchInv, SessionsSound
<1>13. SessionsSound'
  BY <1>11, <1>12 DEF SessionsSound
<1>14. CacheSound(runCache)' /\ LoopSound'
  BY <1>1, HonestyStays DEF BatchInv, LoopSound
<1>15. BatchTyped'
  BY <1>1, BatchAssumption DEF BatchInv, BatchTyped
<1>. QED
  BY <1>13, <1>14, <1>15 DEF BatchInv

LEMMA BatchStep == BatchInv /\ [BatchNext]_batchVars => BatchInv'
<1>. SUFFICES ASSUME BatchInv, [BatchNext]_batchVars PROVE BatchInv'
  OBVIOUS
<1>1. ASSUME NEW t \in [BenchPhotos -> Truth], NEW sets \in SUBSET PromptSets, NEW force \in BOOLEAN,
             NEW named \in {n \in SUBSET sets : Cardinality(n) # 1}, StartBatch(t, sets, named, force)
      PROVE  BatchInv'
  BY <1>1, StartBatchKeeps
<1>2. ASSUME NEW c \in Combos, TakeHit(c) PROVE BatchInv'
  BY <1>2, TakeHitKeeps
<1>3. ASSUME NEW c \in Combos, NEW answer \in Answer \cup {Failure}, Infer(c, answer) PROVE BatchInv'
  BY <1>3, InferKeeps
<1>4. CASE KeepCache \/ SaveSession \/ ShowSession \/ StopBatch
  BY <1>4, KeepCacheKeeps, SaveSessionKeeps, ShowSessionKeeps, StopBatchKeeps
<1>5. ASSUME NEW p \in BenchPhotos, NEW m \in MarkSet,
             opened # NoSession /\ \E r \in {q \in opened.runs : q.photo = p} : ReviewRun(r, m)
      PROVE  BatchInv'
  BY <1>5, ReviewRunKeeps
<1>6. ASSUME NEW s \in sessions, OpenSession(s) PROVE BatchInv'
  BY <1>6, OpenSessionKeeps
<1>7. CASE UNCHANGED batchVars
  <2>1. UNCHANGED <<truth, alike, batch, runCache, opened, sessions, started, reviews, answered>>
    BY <1>7 DEF batchVars
  <2>2. BatchTyped'
    BY <2>1 DEF BatchInv, BatchTyped
  <2>3. LoopSound' /\ CacheSound(runCache)'
    BY <2>1, HonestyStays DEF BatchInv, LoopSound
  <2>4. SessionsSound'
    BY <2>1, HonestyStays DEF BatchInv, SessionsSound
  <2>. QED
    BY <2>2, <2>3, <2>4 DEF BatchInv
<1>. QED
  BY <1>1, <1>2, <1>3, <1>4, <1>5, <1>6, <1>7, Zenon DEF BatchNext

LEMMA BatchInvAlways == BatchSpec => []BatchInv
BY SoundFromTheStart, BatchStep, PTL DEF BatchSpec

\* A run taken from the cache carries what the model answered to this very
\* input, whatever was cached, forced, stopped or reviewed before.
THEOREM CacheTellsTheTruth == BatchSpec => []CachedRunsHonest
<1>1. ASSUME BatchInv PROVE CachedRunsHonest
  <2>. SUFFICES ASSUME NEW s \in sessions, NEW r \in s.runs, r.cached
       PROVE  /\ <<CacheKey(<<r.photo, <<r.set, r.level>>>>),
                   [count |-> r.count, fallback |-> FALSE]>> \in answered
              /\ ~r.failed /\ r.marks = {}
              /\ r.expected = s.truth[r.photo].expected
              /\ r.evaluation = "overcount" <=> r.count > s.truth[r.photo].expected
              /\ r.evaluation = "undercount" <=> r.count < s.truth[r.photo].expected
    BY DEF CachedRunsHonest
  <2>1. RunSound(r, s.truth, s.alike) /\ RunHonest(r)
    BY <1>1 DEF BatchInv, SessionsSound, SessionSound, RunsSound
  <2>2. ~ r.failed /\ r.marks = {}
        /\ <<CacheKey(<<r.photo, <<r.set, r.level>>>>), [count |-> r.count, fallback |-> FALSE]>> \in answered
    BY <2>1 DEF RunHonest, CombinationOf
  <2>3. /\ r.expected = s.truth[r.photo].expected
        /\ r.evaluation = Evaluation(r.count, r.expected, r.failed)
        /\ r.count \in Nat /\ r.expected \in Nat
    BY <2>1, BatchAssumption DEF RunSound, BatchRun
  <2>4. r.evaluation = "overcount" <=> r.count > r.expected
    BY <2>2, <2>3 DEF Evaluation
  <2>5. r.evaluation = "undercount" <=> r.count < r.expected
    BY <2>2, <2>3 DEF Evaluation
  <2>. QED
    BY <2>2, <2>3, <2>4, <2>5
<1>. QED
  BY <1>1, BatchInvAlways, PTL

\* Each aggregate is of the prompt set and threshold it names.
LEMMA LabelOfAggregate ==
  \A runs, l, v : AggregateOf(runs, l, v).label = l /\ AggregateOf(runs, l, v).level = v
BY DEF AggregateOf

LEMMA AggregatesOfCells ==
  ASSUME NEW runs, NEW sets, NEW named
  PROVE  {<<a.label, a.level>> : a \in Aggregated(runs, sets, named)} =
           {NameOf(x, named) : x \in sets} \X Thresholds
<1>. DEFINE labels == {NameOf(x, named) : x \in sets}
<1>1. \A l, v : AggregateOf(runs, l, v).label = l /\ AggregateOf(runs, l, v).level = v
  BY LabelOfAggregate
<1>2. ASSUME NEW a \in Aggregated(runs, sets, named) PROVE <<a.label, a.level>> \in labels \X Thresholds
  <2>1. PICK c \in sets \X Thresholds : a = AggregateOf(runs, NameOf(c[1], named), c[2])
    BY DEF Aggregated
  <2>. QED
    BY <1>1, <2>1
<1>3. ASSUME NEW c \in labels \X Thresholds
      PROVE  \E a \in Aggregated(runs, sets, named) : <<a.label, a.level>> = c
  <2>1. PICK x \in sets : c[1] = NameOf(x, named)
    OBVIOUS
  <2>2. <<x, c[2]>> \in sets \X Thresholds /\ <<x, c[2]>>[1] = x /\ <<x, c[2]>>[2] = c[2]
    OBVIOUS
  <2>3. AggregateOf(runs, NameOf(x, named), c[2]) \in Aggregated(runs, sets, named)
    BY <2>2, Zenon DEF Aggregated
  <2>4. c = <<c[1], c[2]>>
    OBVIOUS
  <2>. QED
    BY <1>1, <2>1, <2>3, <2>4
<1>. HIDE DEF labels
<1>4. {<<a.label, a.level>> : a \in Aggregated(runs, sets, named)} = labels \X Thresholds
  BY <1>2, <1>3
<1>. QED
  BY <1>4 DEF labels

\* Sessions, the cache and the runs in them keep their types, and every session
\* has the aggregates of its plan (benchmark.py).
THEOREM BatchesTyped == BatchSpec => []BatchTypeOK
<1>1. ASSUME BatchInv PROVE BatchTypeOK
  <2>1. ASSUME NEW s, SessionSound(s) PROVE SessionOK(s)
    BY <2>1, AggregatesOfCells DEF SessionSound, RunsSound, RunSound, SessionOK
  <2>2. \A s \in sessions \cup ({opened} \ {NoSession}) : SessionOK(s)
    BY <1>1, <2>1 DEF BatchInv, SessionsSound
  <2>. QED
    BY <1>1, <2>2 DEF BatchInv, BatchTyped, BatchTypeOK
<1>. QED
  BY <1>1, BatchInvAlways, PTL
----------------------------------------------------------------------------
(* Sums and cells.                                                         *)

Errors(runs)       == SumOver(LAMBDA r : r.error, runs)
CorrectMarks(runs) == SumOver(LAMBDA r : TruePositives(MarksOf(r)), runs)
WrongMarks(runs)   == SumOver(LAMBDA r : FalsePositives(MarksOf(r)), runs)
MissedMarks(runs)  == SumOver(LAMBDA r : FalseNegatives(MarksOf(r)), runs)

LEMMA SumOfErrors ==
  ASSUME NEW runs, IsFiniteSet(runs), \A r \in runs : r.error \in Nat
  PROVE  Errors(runs) \in Nat /\ Errors(runs) >= Cardinality({r \in runs : r.error > 0})
<1>. DEFINE F == [r \in runs |-> r.error]
            things == UNION {{r} \X (1 .. r.error) : r \in runs}
<1>1. F \in [runs -> Nat] /\ \A r \in runs : F[r] = r.error
  OBVIOUS
<1>2. things = UNION {{r} \X (1 .. F[r]) : r \in runs}
  BY <1>1
<1>3. {r \in runs : r.error > 0} = {r \in runs : F[r] > 0}
  BY <1>1
<1>4. Errors(runs) = Cardinality(things)
  BY DEF Errors, SumOver
<1>. HIDE DEF F, things
<1>. QED
  BY <1>1, <1>2, <1>3, <1>4, SumCounted
LEMMA SumOfMarks ==
  ASSUME NEW runs, IsFiniteSet(runs), \A r \in runs : MarksOf(r) \in MarkSet
  PROVE  /\ CorrectMarks(runs) \in Nat /\ WrongMarks(runs) \in Nat /\ MissedMarks(runs) \in Nat
         /\ CorrectMarks(runs) > 0 <=> \E r \in runs : MarksOf(r).correct > 0
         /\ WrongMarks(runs) > 0 <=> \E r \in runs : MarksOf(r).wrong > 0
<1>. DEFINE T == [r \in runs |-> MarksOf(r).correct]
            P == [r \in runs |-> MarksOf(r).wrong]
            N == [r \in runs |-> MarksOf(r).missed]
            truePositives == UNION {{r} \X (1 .. MarksOf(r).correct) : r \in runs}
            falsePositives == UNION {{r} \X (1 .. MarksOf(r).wrong) : r \in runs}
            falseNegatives == UNION {{r} \X (1 .. MarksOf(r).missed) : r \in runs}
<1>1. T \in [runs -> Nat] /\ P \in [runs -> Nat] /\ N \in [runs -> Nat]
  BY BatchAssumption DEF MarkSet
<1>2. /\ truePositives = UNION {{r} \X (1 .. T[r]) : r \in runs}
      /\ falsePositives = UNION {{r} \X (1 .. P[r]) : r \in runs}
      /\ falseNegatives = UNION {{r} \X (1 .. N[r]) : r \in runs}
  OBVIOUS
<1>3. \A r \in runs : T[r] = MarksOf(r).correct /\ P[r] = MarksOf(r).wrong
  OBVIOUS
<1>4. /\ CorrectMarks(runs) = Cardinality(truePositives)
      /\ WrongMarks(runs) = Cardinality(falsePositives)
      /\ MissedMarks(runs) = Cardinality(falseNegatives)
  BY DEF CorrectMarks, WrongMarks, MissedMarks, SumOver, TruePositives, FalsePositives, FalseNegatives
<1>. HIDE DEF T, P, N, truePositives, falsePositives, falseNegatives
<1>5. /\ Cardinality(truePositives) \in Nat
      /\ Cardinality(truePositives) > 0 <=> \E r \in runs : T[r] > 0
  BY <1>1, <1>2, SumCounted
<1>6. /\ Cardinality(falsePositives) \in Nat
      /\ Cardinality(falsePositives) > 0 <=> \E r \in runs : P[r] > 0
  BY <1>1, <1>2, SumCounted
<1>7. Cardinality(falseNegatives) \in Nat
  BY <1>1, <1>2, SumCounted
<1>. QED
  BY <1>3, <1>4, <1>5, <1>6, <1>7

\* The photos of a cell are the photos of the session, one run for each.
CellRuns(runs, l, v) == {r \in runs : r.label = l /\ r.level = v}
FineRuns(runs, l, v) == {r \in CellRuns(runs, l, v) : ~ r.failed}
SeenRuns(runs, l, v) == {r \in FineRuns(runs, l, v) : r.marks # {}}

LEMMA RunsAreFinite ==
  ASSUME NEW t, NEW sets \in SUBSET PromptSets, NEW runs,
         NEW named, RunsSound(runs, t, named), Ran(runs) = Wanted(t, sets)
  PROVE  /\ IsFiniteSet(runs)
         /\ Cardinality(runs) = Cardinality(Wanted(t, sets))
<1>. DEFINE f == [r \in runs |-> CombinationOf(r)]
            photos == {p \in BenchPhotos : t[p].include}
<1>1. f \in Injection(runs, Ran(runs))
  BY DEF Injection, IsInjective, Ran, RunsSound
<1>2. f \in Surjection(runs, Ran(runs))
  BY DEF Surjection, Ran
<1>3. IsFiniteSet(photos) /\ IsFiniteSet(sets)
  BY FS_Subset, BatchAssumption
<1>4. IsFiniteSet(sets \X Thresholds)
  BY <1>3, FS_Product, BatchAssumption
<1>5. IsFiniteSet(photos \X (sets \X Thresholds))
  BY <1>3, <1>4, FS_Product
<1>6. IsFiniteSet(Ran(runs))
  BY <1>5 DEF Wanted
<1>. HIDE DEF f
<1>7. IsFiniteSet(runs)
  BY <1>1, <1>6, FS_Injection
<1>8. Cardinality(runs) = Cardinality(Ran(runs))
  BY <1>1, <1>2, <1>6, FS_Injection
<1>. QED
  BY <1>7, <1>8

\* The sets of one name have it, and no other set has.
LEMMA SetsOfAName ==
  ASSUME NEW named, NEW x, NEW y
  PROVE  NameOf(y, named) = NameOf(x, named) <=> y \in NameOf(x, named)
BY DEF NameOf

LEMMA CellHasEveryPhoto ==
  ASSUME NEW t, NEW sets \in SUBSET PromptSets, NEW named \in SUBSET sets, NEW runs,
         RunsSound(runs, t, named), Ran(runs) = Wanted(t, sets),
         NEW x \in sets, NEW l, l = NameOf(x, named), NEW v \in Thresholds
  PROVE  /\ IsFiniteSet(CellRuns(runs, l, v))
         /\ Cardinality(CellRuns(runs, l, v)) = Cardinality({p \in BenchPhotos : t[p].include} \X l)
<1>. DEFINE cell == CellRuns(runs, l, v)
            photos == {p \in BenchPhotos : t[p].include}
            f == [r \in cell |-> <<r.photo, r.set>>]
<1>1. IsFiniteSet(cell)
  BY RunsAreFinite, FS_Subset DEF CellRuns
<1>2. ASSUME NEW r \in cell PROVE r.photo \in photos /\ r.set \in l
  <2>1. CombinationOf(r) \in Wanted(t, sets)
    BY DEF CellRuns, Ran
  <2>2. NameOf(r.set, named) = NameOf(x, named)
    BY DEF CellRuns, RunsSound, RunSound
  <2>. QED
    BY <2>1, <2>2, SetsOfAName DEF Wanted, CombinationOf
<1>3. ASSUME NEW q \in cell, NEW r \in cell, q.photo = r.photo, q.set = r.set PROVE q = r
  BY <1>3 DEF CellRuns, CombinationOf, RunsSound
<1>4. ASSUME NEW p \in photos, NEW y \in l PROVE \E r \in cell : r.photo = p /\ r.set = y
  <2>0. y \in sets /\ NameOf(y, named) = l
    BY SetsOfAName DEF NameOf
  <2>1. <<p, <<y, v>>>> \in Ran(runs)
    BY <2>0 DEF Wanted
  <2>2. PICK r \in runs : CombinationOf(r) = <<p, <<y, v>>>>
    BY <2>1 DEF Ran
  <2>3. r.photo = p /\ r.set = y /\ r.level = v
    BY <2>2 DEF CombinationOf
  <2>4. r.label = NameOf(r.set, named)
    BY DEF RunsSound, RunSound
  <2>. QED
    BY <2>0, <2>3, <2>4 DEF CellRuns
<1>. HIDE DEF cell, photos
<1>5. f \in Injection(cell, photos \X l)
  BY <1>2, <1>3 DEF Injection, IsInjective
<1>6. f \in Surjection(cell, photos \X l)
  BY <1>2, <1>4 DEF Surjection
<1>7. Cardinality(cell) = Cardinality(photos \X l)
  BY <1>1, <1>5, <1>6, FS_Surjection, Zenon
<1>. QED
  BY <1>1, <1>7 DEF cell, photos

\* The counts of an aggregate, in terms of the runs of its cell.
IsOfCell(a, cell, ok, seen) ==
  LET tp == CorrectMarks(seen)
      fp == WrongMarks(seen)
      fn == MissedMarks(seen)
  IN  /\ a.images = Cardinality(ok) /\ a.total = Cardinality(cell)
      /\ a.failed = Cardinality(cell \ ok)
      /\ a.over = Cardinality({r \in ok : r.count > r.expected})
      /\ a.under = Cardinality({r \in ok : r.count < r.expected})
      /\ a.exact = Rate(Cardinality({r \in ok : r.evaluation = "exact_count_match"}), Cardinality(ok))
      /\ a.mae = Rate(Errors(ok), Cardinality(ok))
      /\ a.reviewed = Cardinality(seen)
      /\ a.precision = Rate(tp, tp + fp) /\ a.recall = Rate(tp, tp + fn)
      /\ a.f1 = IF tp = 0 THEN Rate(0, 0) ELSE Rate(2 * tp, 2 * tp + fp + fn)

LEMMA CellOfAggregate ==
  ASSUME NEW runs, NEW t, NEW named, RunsSound(runs, t, named), NEW l, NEW v
  PROVE  IsOfCell(AggregateOf(runs, l, v), CellRuns(runs, l, v), FineRuns(runs, l, v), SeenRuns(runs, l, v))
<1>1. Included(runs, l, v) = CellRuns(runs, l, v)
  BY DEF Included, CellRuns, RunsSound, RunSound
<1>2. Sound(CellRuns(runs, l, v)) = FineRuns(runs, l, v)
      /\ Reviewed(CellRuns(runs, l, v)) = SeenRuns(runs, l, v)
  BY DEF Sound, Reviewed, FineRuns, SeenRuns
<1>. QED
  BY <1>1, <1>2 DEF AggregateOf, IsOfCell, Errors, CorrectMarks, WrongMarks, MissedMarks

LEMMA MarksOfReviewed ==
  ASSUME NEW r, NEW t, NEW named, RunSound(r, t, named), r.marks # {}
  PROVE  MarksOf(r) \in MarkSet /\ r.marks = {MarksOf(r)}
<1>1. r.marks \subseteq MarkSet /\ \A m, n \in r.marks : m = n
  BY DEF RunSound, BatchRun
<1>2. MarksOf(r) \in r.marks
  BY DEF MarksOf
<1>. QED
  BY <1>1, <1>2

\* The numbers in one cell of the matrix.
CellRight(a, cell, rows) ==
  LET Marked == {r \in cell : r.marks # {} /\ r.evaluation # "execution_failed"}
  IN  /\ a.total = Cardinality(rows) /\ a.images + a.failed = a.total
      /\ a.over + a.under = Cardinality({r \in cell : r.evaluation \in {"overcount", "undercount"}})
      /\ a.images - a.over - a.under = Cardinality({r \in cell : ~r.failed /\ r.count = r.expected})
      /\ a.mae.num >= a.over + a.under
      /\ a.reviewed = Cardinality(Marked)
      /\ Known(a.precision) <=> \E r \in Marked, m \in MarkSet :
                                   m \in r.marks /\ m.correct + m.wrong > 0
      /\ Above(a.recall, Rate(0, 1)) => Above(a.precision, Rate(0, 1))

LEMMA CellAddsUp ==
  ASSUME NEW t \in [BenchPhotos -> Truth], NEW sets \in SUBSET PromptSets,
         NEW named \in SUBSET sets, NEW runs,
         RunsSound(runs, t, named), Ran(runs) = Wanted(t, sets), NEW x \in sets,
         NEW l, l = NameOf(x, named), NEW v \in Thresholds, NEW a, a = AggregateOf(runs, l, v)
  PROVE  CellRight(a, CellRuns(runs, l, v), {p \in BenchPhotos : t[p].include} \X l)
<1>. DEFINE cell == CellRuns(runs, l, v)
            ok == FineRuns(runs, l, v)
            seen == SeenRuns(runs, l, v)
            over == {r \in ok : r.count > r.expected}
            under == {r \in ok : r.count < r.expected}
            right == {r \in ok : r.count = r.expected}
            off == over \cup under
            bad == cell \ ok
            tp == CorrectMarks(seen)
            fp == WrongMarks(seen)
            fn == MissedMarks(seen)
            errors == Errors(ok)
<1>1. /\ a.images = Cardinality(ok) /\ a.total = Cardinality(cell)
      /\ a.failed = Cardinality(bad)
      /\ a.over = Cardinality(over) /\ a.under = Cardinality(under)
      /\ a.mae = Rate(errors, Cardinality(ok))
      /\ a.reviewed = Cardinality(seen)
      /\ a.precision = Rate(tp, tp + fp) /\ a.recall = Rate(tp, tp + fn)
  <2>1. IsOfCell(a, cell, ok, seen)
    BY CellOfAggregate
  <2>. HIDE DEF cell, ok, seen
  <2>. QED
    BY <2>1 DEF IsOfCell
<1>. USE DEF FineRuns, SeenRuns
<1>2. IsFiniteSet(cell) /\ Cardinality(cell) = Cardinality({p \in BenchPhotos : t[p].include} \X l)
  BY CellHasEveryPhoto
<1>3. ASSUME NEW r \in cell
      PROVE  /\ RunSound(r, t, named) /\ r.failed \in BOOLEAN /\ r.count \in Nat /\ r.expected \in Nat
             /\ r.error = Distance(r.count, r.expected)
             /\ r.evaluation = Evaluation(r.count, r.expected, r.failed)
  BY BatchAssumption DEF CellRuns, RunsSound, RunSound, BatchRun
<1>4. ASSUME NEW r \in cell
      PROVE  /\ r.evaluation = "execution_failed" <=> r.failed
             /\ r.evaluation = "overcount" <=> ~ r.failed /\ r.count > r.expected
             /\ r.evaluation = "undercount" <=> ~ r.failed /\ r.count < r.expected
             /\ r.error \in Nat /\ (r.error > 0 <=> r.count # r.expected)
  BY <1>3 DEF Evaluation, Distance
<1>5. {r \in cell : r.evaluation \in {"overcount", "undercount"}} = off
  BY <1>4
<1>6. {r \in cell : ~ r.failed /\ r.count = r.expected} = right
  OBVIOUS
<1>7. {r \in cell : r.marks # {} /\ r.evaluation # "execution_failed"} = seen
  BY <1>4
<1>8. {r \in ok : r.error > 0} = off
  BY <1>3, <1>4
<1>9. \A r \in seen : MarksOf(r) \in MarkSet /\ r.marks = {MarksOf(r)}
  BY <1>3, MarksOfReviewed
<1>10. ok = off \cup right /\ off \cap right = {} /\ over \cap under = {}
  BY <1>3
<1>11. /\ ok \subseteq cell /\ off \subseteq ok /\ seen \subseteq ok
       /\ cell = ok \cup bad /\ ok \cap bad = {} /\ off = over \cup under
  OBVIOUS
<1>12. \A r \in ok : r.error \in Nat
  BY <1>4
<1>13. errors \in Nat /\ errors >= Cardinality({r \in ok : r.error > 0})
  <2>1. IsFiniteSet(ok)
    BY <1>2, <1>11, FS_Subset
  <2>. HIDE DEF ok
  <2>. QED
    BY <2>1, <1>12, SumOfErrors
<1>14. /\ tp \in Nat /\ fp \in Nat /\ fn \in Nat
       /\ tp > 0 <=> \E r \in seen : MarksOf(r).correct > 0
       /\ fp > 0 <=> \E r \in seen : MarksOf(r).wrong > 0
  <2>1. IsFiniteSet(seen)
    BY <1>2, <1>11, FS_Subset
  <2>. HIDE DEF seen
  <2>. QED
    BY <2>1, <1>9, SumOfMarks
<1>. HIDE DEF cell, ok, over, under, right, off, bad, seen, tp, fp, fn, errors
<1>15. IsFiniteSet(ok) /\ IsFiniteSet(off)
  <2>1. IsFiniteSet(ok)
    BY <1>2, <1>11, FS_Subset
  <2>. QED
    BY <1>11, <2>1, FS_Subset
<1>16. Cardinality(cell) = Cardinality(ok) + Cardinality(bad)
  <2>1. Splits(cell, ok, bad)
    BY <1>11 DEF Splits
  <2>. QED
    BY <1>2, <2>1, TwoParts
<1>17. Cardinality(off) = Cardinality(over) + Cardinality(under)
       /\ Cardinality(over) \in Nat /\ Cardinality(under) \in Nat
  <2>1. Splits(off, over, under)
    BY <1>10, <1>11 DEF Splits
  <2>. QED
    BY <1>15, <2>1, TwoParts
<1>18. Cardinality(ok) = Cardinality(off) + Cardinality(right) /\ Cardinality(right) \in Nat
  <2>1. Splits(ok, off, right)
    BY <1>10 DEF Splits
  <2>. QED
    BY <1>15, <2>1, TwoParts
<1>19. Known(a.precision) <=> tp + fp > 0
  BY <1>1, <1>14 DEF Known, Rate
<1>20. tp + fp > 0 <=> \E r \in seen, m \in MarkSet : m \in r.marks /\ m.correct + m.wrong > 0
  <2>1. \A m \in MarkSet : m.correct \in Nat /\ m.wrong \in Nat
    BY BatchAssumption DEF MarkSet
  <2>2. tp + fp > 0 <=> tp > 0 \/ fp > 0
    BY <1>14
  <2>3. \A r \in seen : MarksOf(r).correct + MarksOf(r).wrong > 0
                          <=> MarksOf(r).correct > 0 \/ MarksOf(r).wrong > 0
    BY <1>9, <2>1
  <2>. QED
    BY <1>9, <1>14, <2>2, <2>3
<1>21. Above(a.recall, Rate(0, 1)) => Above(a.precision, Rate(0, 1))
  BY <1>1, <1>14 DEF Above, Rate
<1>22. a.mae.num = errors
  BY <1>1 DEF Rate
<1>23. a.total = Cardinality({p \in BenchPhotos : t[p].include} \X l) /\ a.images + a.failed = a.total
  BY <1>1, <1>2, <1>16
<1>24. a.over + a.under = Cardinality(off) /\ a.mae.num >= a.over + a.under
  BY <1>1, <1>8, <1>13, <1>17, <1>22
<1>25. a.images - a.over - a.under = Cardinality(right)
  BY <1>1, <1>17, <1>18
<1>. QED
  BY <1>1, <1>5, <1>6, <1>7, <1>19, <1>20, <1>21, <1>23, <1>24, <1>25 DEF cell, CellRight

\* The matrix that is shown is about the runs next to it: every planned
\* combination was run once, every set has its cell, and the counts of a cell add
\* up to the runs of the sets of its name.
THEOREM MatrixIsOfItsRuns == BatchSpec => []MatrixAddsUp
<1>1. ASSUME BatchInv, opened # NoSession PROVE MatrixAddsUp
  <2>. DEFINE photos == {p \in BenchPhotos : opened.truth[p].include}
              Runs(a) == {r \in opened.runs : r.set \in a.label /\ r.level = a.level}
  <2>1. SessionSound(opened)
    BY <1>1 DEF BatchInv, SessionsSound
  <2>2. {<<r.photo, <<r.set, r.level>>>> : r \in opened.runs} = photos \X (opened.sets \X Thresholds)
    BY <2>1 DEF SessionSound, Ran, Wanted, CombinationOf
  <2>3. Cardinality(opened.runs) = Cardinality(photos \X (opened.sets \X Thresholds))
    <3>1. /\ opened.sets \in SUBSET PromptSets
          /\ RunsSound(opened.runs, opened.truth, opened.alike)
          /\ Ran(opened.runs) = Wanted(opened.truth, opened.sets)
      BY <2>1 DEF SessionSound
    <3>2. Cardinality(opened.runs) = Cardinality(Wanted(opened.truth, opened.sets))
      BY <3>1, RunsAreFinite
    <3>. QED
      BY <3>2, Zenon DEF Wanted
  <2>4. ASSUME NEW a \in opened.aggregates
        PROVE  CellRight(a, Runs(a), photos \X a.label)
    <3>1. PICK c \in opened.sets \X Thresholds :
            a = AggregateOf(opened.runs, NameOf(c[1], opened.alike), c[2])
      BY <2>1 DEF SessionSound, Aggregated
    <3>2. /\ a.label = NameOf(c[1], opened.alike) /\ a.level = c[2]
          /\ c[1] \in opened.sets /\ c[2] \in Thresholds
      BY <3>1, LabelOfAggregate
    <3>3. \A r \in opened.runs : r.label = NameOf(r.set, opened.alike)
      BY <2>1 DEF SessionSound, RunsSound, RunSound
    <3>4. Runs(a) = CellRuns(opened.runs, a.label, c[2])
      BY <3>2, <3>3, SetsOfAName DEF CellRuns
    <3>. HIDE DEF Runs
    <3>. QED
      BY <2>1, <3>1, <3>2, <3>4, CellAddsUp DEF SessionSound
  <2>5. ASSUME NEW s \in opened.sets, NEW v \in Thresholds
        PROVE  \E a \in opened.aggregates : s \in a.label /\ a.level = v
    <3>1. <<NameOf(s, opened.alike), v>> \in {<<a.label, a.level>> : a \in opened.aggregates}
      <4>1. {<<a.label, a.level>> : a \in opened.aggregates} =
              {NameOf(x, opened.alike) : x \in opened.sets} \X Thresholds
        BY <2>1, AggregatesOfCells DEF SessionSound
      <4>2. <<NameOf(s, opened.alike), v>> \in {NameOf(x, opened.alike) : x \in opened.sets} \X Thresholds
        BY <2>5
      <4>. QED
        BY <4>1, <4>2
    <3>2. s \in NameOf(s, opened.alike)
      BY DEF NameOf
    <3>. QED
      BY <3>1, <3>2
  <2>. QED
    BY <2>2, <2>3, <2>4, <2>5, Zenon DEF MatrixAddsUp, CellRight
<1>2. BatchInv => MatrixAddsUp
  BY <1>1 DEF MatrixAddsUp
<1>. QED
  BY <1>2, BatchInvAlways, PTL
----------------------------------------------------------------------------
(* Rates are compared by multiplying out, and a rate with a denominator is *)
(* at least another one or at most.                                        *)

Rates == [num : Nat, den : Nat]

LEMMA TimesKeepsOrder == ASSUME NEW m \in Nat, NEW n \in Nat, NEW k \in Nat, m <= n PROVE m * k <= n * k
OBVIOUS
LEMMA TimesCancels == ASSUME NEW m \in Nat, NEW n \in Nat, NEW k \in Nat \ {0}, m * k <= n * k PROVE m <= n
<1>1. ASSUME m > n PROVE FALSE
  <2>1. m >= n + 1
    BY <1>1
  <2>2. (n + 1) * k <= m * k
    BY <2>1, TimesKeepsOrder
  <2>3. (n + 1) * k = n * k + k
    OBVIOUS
  <2>4. n * k \in Nat /\ m * k \in Nat
    OBVIOUS
  <2>. QED
    BY <2>2, <2>3, <2>4
<1>. QED
  BY <1>1
LEMMA TimesTurns == ASSUME NEW m \in Nat, NEW n \in Nat, NEW k \in Nat
                    PROVE m * n * k = m * k * n /\ m * n * k = n * k * m /\ m * n \in Nat
OBVIOUS

\* x is at least y, and y at least z.
LEMMA AtLeastIsTransitive ==
  ASSUME NEW x \in Rates, NEW y \in Rates, NEW z \in Rates, Known(y), ~ Above(y, x), ~ Above(z, y)
  PROVE  ~ Above(z, x)
<1>1. /\ x.num \in Nat /\ x.den \in Nat /\ y.num \in Nat /\ y.den \in Nat \ {0}
      /\ z.num \in Nat /\ z.den \in Nat
  BY DEF Rates, Known
<1>. DEFINE xn == x.num  xd == x.den  yn == y.num  yd == y.den  zn == z.num  zd == z.den
<1>2. xn \in Nat /\ xd \in Nat /\ yn \in Nat /\ yd \in Nat \ {0} /\ zn \in Nat /\ zd \in Nat
  BY <1>1
<1>3. ~ (yn * xd > xn * yd) /\ ~ (zn * yd > yn * zd) /\ (Above(z, x) <=> zn * xd > xn * zd)
  BY DEF Above
<1>. HIDE DEF xn, xd, yn, yd, zn, zd
<1>4. /\ yn * xd \in Nat /\ xn * yd \in Nat /\ zn * yd \in Nat /\ yn * zd \in Nat
      /\ zn * xd \in Nat /\ xn * zd \in Nat
  BY <1>2
<1>5. yn * xd <= xn * yd /\ zn * yd <= yn * zd
  BY <1>3, <1>4
<1>6. zn * yd * xd <= yn * zd * xd
  BY <1>2, <1>4, <1>5, TimesKeepsOrder
<1>7. yn * xd * zd <= xn * yd * zd
  BY <1>2, <1>4, <1>5, TimesKeepsOrder
<1>8. /\ zn * yd * xd = zn * xd * yd /\ yn * zd * xd = yn * xd * zd
      /\ xn * yd * zd = xn * zd * yd
  BY <1>2, TimesTurns
<1>9. zn * yd * xd \in Nat /\ yn * zd * xd \in Nat /\ xn * yd * zd \in Nat
  BY <1>2, <1>4
<1>10. zn * xd * yd <= xn * zd * yd
  BY <1>6, <1>7, <1>8, <1>9
<1>11. zn * xd <= xn * zd
  BY <1>2, <1>4, <1>10, TimesCancels
<1>. QED
  BY <1>3, <1>4, <1>11

LEMMA AboveIsAsymmetric ==
  ASSUME NEW x \in Rates, NEW y \in Rates, Above(x, y)
  PROVE  ~ Above(y, x)
<1>1. /\ x.num \in Nat /\ x.den \in Nat /\ y.num \in Nat /\ y.den \in Nat
  BY DEF Rates
<1>2. x.num * y.den \in Nat /\ y.num * x.den \in Nat
  BY <1>1
<1>. QED
  BY <1>2 DEF Above
----------------------------------------------------------------------------
(* The sort of recommend_configuration: a total order up to ties, of which *)
(* a finite set of candidates has a first.                                 *)

\* The first component of the key, on rates.
LeadsRate(x, y, low) ==
  /\ Known(x)
  /\ Known(y) => IF low THEN Above(y, x) ELSE Above(x, y)

LEMMA LeadsByRate ==
  \A a, b, o : Leads(a, b, o) <=> LeadsRate(Measure(a, o), Measure(b, o), o = "lowest_mae")
BY DEF Leads, LeadsRate

LEMMA LeadsRateIsAsymmetric ==
  ASSUME NEW x \in Rates, NEW y \in Rates, NEW low \in BOOLEAN, LeadsRate(x, y, low)
  PROVE  ~ LeadsRate(y, x, low)
<1>1. CASE ~ Known(y)
  BY <1>1 DEF LeadsRate
<1>2. CASE Known(y) /\ low
  BY <1>2, AboveIsAsymmetric DEF LeadsRate
<1>3. CASE Known(y) /\ ~ low
  BY <1>3, AboveIsAsymmetric DEF LeadsRate
<1>. QED
  BY <1>1, <1>2, <1>3

LEMMA NotLedIsTransitive ==
  ASSUME NEW x \in Rates, NEW y \in Rates, NEW z \in Rates, NEW low \in BOOLEAN,
         ~ LeadsRate(y, x, low), ~ LeadsRate(z, y, low)
  PROVE  ~ LeadsRate(z, x, low)
<1>1. CASE ~ Known(z)
  BY <1>1 DEF LeadsRate
<1>2. CASE Known(z) /\ low
  <2>1. Known(y) /\ Known(x) /\ ~ Above(x, y) /\ ~ Above(y, z)
    BY <1>2 DEF LeadsRate
  <2>2. ~ Above(x, z)
    BY <2>1, AtLeastIsTransitive
  <2>. QED
    BY <1>2, <2>1, <2>2 DEF LeadsRate
<1>3. CASE Known(z) /\ ~ low
  <2>1. Known(y) /\ Known(x) /\ ~ Above(y, x) /\ ~ Above(z, y)
    BY <1>3 DEF LeadsRate
  <2>2. ~ Above(z, x)
    BY <2>1, AtLeastIsTransitive
  <2>. QED
    BY <1>3, <2>1, <2>2 DEF LeadsRate
<1>. QED
  BY <1>1, <1>2, <1>3

\* An aggregate that is a candidate: its rates over images are known.
CellTyped(a) ==
  /\ a.images \in Nat /\ a.failed \in Nat /\ a.total = a.images + a.failed
  /\ a.mae \in Rates /\ a.exact \in Rates /\ a.mae.den = a.images /\ a.exact.den = a.images
  /\ a.recall \in Rates /\ a.precision \in Rates /\ a.f1 \in Rates

Supported(a) == CellTyped(a) /\ a.images >= MinImages

LEMMA MeasuresAreRates ==
  ASSUME NEW a, CellTyped(a), NEW o \in Objectives
  PROVE  Measure(a, o) \in Rates
<1>1. CASE o = "lowest_mae"
  BY <1>1 DEF Measure, CellTyped
<1>2. CASE o = "highest_exact_match"
  BY <1>2 DEF Measure, CellTyped
<1>3. CASE o = "highest_recall"
  BY <1>3 DEF Measure, CellTyped
<1>4. CASE o = "highest_precision"
  BY <1>4 DEF Measure, CellTyped
<1>5. CASE o = "balanced_f1"
  BY <1>5 DEF Measure, CellTyped
<1>. QED
  BY <1>1, <1>2, <1>3, <1>4, <1>5 DEF Objectives

LEMMA SupportedRatesKnown ==
  ASSUME NEW a, Supported(a)
  PROVE  a.mae \in Rates /\ a.exact \in Rates /\ Known(a.mae) /\ Known(a.exact) /\ a.failed \in Nat
BY MetricsAssumption DEF Supported, CellTyped, Known

LEMMA LeadsIsAsymmetric ==
  ASSUME NEW a, NEW b, Supported(a), Supported(b), NEW o \in Objectives, Leads(a, b, o)
  PROVE  ~ Leads(b, a, o)
<1>1. Measure(a, o) \in Rates /\ Measure(b, o) \in Rates
  BY MeasuresAreRates DEF Supported
<1>. QED
  BY <1>1, LeadsByRate, LeadsRateIsAsymmetric

LEMMA NotAheadIsTransitive ==
  ASSUME NEW a, NEW b, NEW c, Supported(a), Supported(b), Supported(c), NEW o \in Objectives,
         ~ Leads(b, a, o), ~ Leads(c, b, o)
  PROVE  ~ Leads(c, a, o)
<1>1. Measure(a, o) \in Rates /\ Measure(b, o) \in Rates /\ Measure(c, o) \in Rates
  BY MeasuresAreRates DEF Supported
<1>2. (o = "lowest_mae") \in BOOLEAN
  OBVIOUS
<1>. QED
  BY <1>1, <1>2, LeadsByRate, NotLedIsTransitive

\* The rest of the key, which decides between ties.
ByMatches(o)    == o = "lowest_mae"
LeftOpen(a, o)  == o \in {"highest_recall", "highest_precision", "balanced_f1"} /\ ~ Known(Measure(a, o))
SecondKey(a, b, o) ==
  \/ ByMatches(o) /\ ~ Above(b.exact, a.exact)
  \/ ~ ByMatches(o) /\ (LeftOpen(a, o) \/ ~ Above(a.mae, b.mae))
LowerKey(a, b, o) == a.failed < b.failed \/ (a.failed = b.failed /\ SecondKey(a, b, o))

LEMMA SortedBy ==
  ASSUME NEW a, NEW b, NEW o \in Objectives
  PROVE  Sorted(a, b, o) <=> Leads(a, b, o) \/ (Ties(a, b, o) /\ LowerKey(a, b, o))
<1>1. CASE o = "lowest_mae"
  BY <1>1 DEF Sorted, LowerKey, SecondKey, ByMatches
<1>2. CASE o # "lowest_mae" /\ LeftOpen(a, o)
  BY <1>2 DEF Sorted, LowerKey, SecondKey, ByMatches, LeftOpen
<1>3. CASE o # "lowest_mae" /\ ~ LeftOpen(a, o)
  BY <1>3 DEF Sorted, LowerKey, SecondKey, ByMatches, LeftOpen
<1>. QED
  BY <1>1, <1>2, <1>3

LEMMA TiesLeaveOpenAlike ==
  ASSUME NEW a, NEW b, NEW o, Ties(a, b, o)
  PROVE  LeftOpen(a, o) <=> LeftOpen(b, o)
BY DEF Ties, Leads, LeftOpen

LEMMA SecondKeyIsTotal ==
  ASSUME NEW a, NEW b, Supported(a), Supported(b), NEW o, ~ SecondKey(a, b, o)
  PROVE  SecondKey(b, a, o)
<1>1. /\ a.mae \in Rates /\ b.mae \in Rates /\ a.exact \in Rates /\ b.exact \in Rates
  BY SupportedRatesKnown
<1>2. Above(b.exact, a.exact) => ~ Above(a.exact, b.exact)
  BY <1>1, AboveIsAsymmetric
<1>3. Above(a.mae, b.mae) => ~ Above(b.mae, a.mae)
  BY <1>1, AboveIsAsymmetric
<1>. QED
  BY <1>2, <1>3 DEF SecondKey

LEMMA SecondKeyIsTransitive ==
  ASSUME NEW a, NEW b, NEW c, Supported(a), Supported(b), Supported(c), NEW o,
         Ties(a, b, o), SecondKey(a, b, o), SecondKey(b, c, o)
  PROVE  SecondKey(a, c, o)
<1>1. /\ a.mae \in Rates /\ b.mae \in Rates /\ a.exact \in Rates /\ b.exact \in Rates
      /\ c.mae \in Rates /\ c.exact \in Rates /\ Known(b.mae) /\ Known(b.exact)
  BY SupportedRatesKnown
<1>2. ~ Above(b.exact, a.exact) /\ ~ Above(c.exact, b.exact) => ~ Above(c.exact, a.exact)
  BY <1>1, AtLeastIsTransitive
<1>3. ~ Above(a.mae, b.mae) /\ ~ Above(b.mae, c.mae) => ~ Above(a.mae, c.mae)
  BY <1>1, AtLeastIsTransitive
<1>. QED
  BY <1>2, <1>3, TiesLeaveOpenAlike DEF SecondKey
LEMMA SortedIsTotal ==
  ASSUME NEW a, NEW b, Supported(a), Supported(b), NEW o \in Objectives, ~ Sorted(a, b, o)
  PROVE  Sorted(b, a, o)
<1>1. CASE Leads(b, a, o)
  BY <1>1, SortedBy
<1>2. CASE ~ Leads(b, a, o)
  <2>1. ~ Leads(a, b, o) /\ ~ LowerKey(a, b, o) /\ Ties(b, a, o)
    BY <1>2, SortedBy DEF Ties
  <2>2. a.failed \in Nat /\ b.failed \in Nat
    BY SupportedRatesKnown
  <2>3. b.failed < a.failed \/ (b.failed = a.failed /\ ~ SecondKey(a, b, o))
    BY <2>1, <2>2 DEF LowerKey
  <2>4. LowerKey(b, a, o)
    BY <2>3, SecondKeyIsTotal DEF LowerKey
  <2>. QED
    BY <2>1, <2>4, SortedBy
<1>. QED
  BY <1>1, <1>2

LEMMA SortedIsTransitive ==
  ASSUME NEW a, NEW b, NEW c, Supported(a), Supported(b), Supported(c), NEW o \in Objectives,
         Sorted(a, b, o), Sorted(b, c, o)
  PROVE  Sorted(a, c, o)
<1>1. ~ Leads(b, a, o) /\ ~ Leads(c, b, o)
  <2>1. Leads(a, b, o) => ~ Leads(b, a, o)
    BY LeadsIsAsymmetric
  <2>2. Leads(b, c, o) => ~ Leads(c, b, o)
    BY LeadsIsAsymmetric
  <2>. QED
    BY <2>1, <2>2, SortedBy DEF Ties
<1>2. CASE Leads(a, c, o)
  BY <1>2, SortedBy
<1>3. CASE ~ Leads(a, c, o)
  <2>1. ~ Leads(c, a, o)
    BY <1>1, NotAheadIsTransitive
  <2>2. ~ Leads(a, b, o)
    BY <1>1, <1>3, NotAheadIsTransitive
  <2>3. ~ Leads(b, c, o)
    BY <1>1, <1>3, NotAheadIsTransitive
  <2>4. Ties(a, b, o) /\ Ties(a, c, o) /\ LowerKey(a, b, o) /\ LowerKey(b, c, o)
    BY <1>1, <1>3, <2>1, <2>2, <2>3, SortedBy DEF Ties
  <2>5. a.failed \in Nat /\ b.failed \in Nat /\ c.failed \in Nat
    BY SupportedRatesKnown
  <2>6. SecondKey(a, b, o) /\ SecondKey(b, c, o) => SecondKey(a, c, o)
    BY <2>4, SecondKeyIsTransitive
  <2>7. LowerKey(a, c, o)
    BY <2>4, <2>5, <2>6 DEF LowerKey
  <2>. QED
    BY <2>4, <2>7, SortedBy
<1>. QED
  BY <1>2, <1>3

\* A finite set of aggregates with a candidate has a recommended one.
LEMMA SomethingIsRecommended ==
  ASSUME NEW aggregates, IsFiniteSet(aggregates), \A a \in aggregates : CellTyped(a),
         NEW o \in Objectives, Candidates(aggregates) # {}
  PROVE  Recommended(aggregates, o) # {}
<1>. DEFINE S == Candidates(aggregates)
            R == {p \in S \X S : Sorted(p[1], p[2], o)}
<1>1. IsFiniteSet(S)
  BY FS_Subset DEF Candidates
<1>2. \A a \in S : Supported(a)
  BY DEF Candidates, Supported
<1>3. \A a, b \in S : <<a, b>> \in R <=> Sorted(a, b, o)
  OBVIOUS
<1>. HIDE DEF S, R
<1>4. \A a, b \in S : <<a, b>> \in R \/ <<b, a>> \in R
  BY <1>2, <1>3, SortedIsTotal
<1>5. \A a, b, c \in S : <<a, b>> \in R /\ <<b, c>> \in R => <<a, c>> \in R
  BY <1>2, <1>3, SortedIsTransitive
<1>6. \E a \in S : \A b \in S : <<a, b>> \in R
  BY <1>1, <1>4, <1>5, FirstOfTotalOrder DEF S
<1>. QED
  BY <1>3, <1>6 DEF S, Recommended

\* By the objective nothing is ahead of what sorts first.
LEMMA NothingAhead ==
  ASSUME NEW aggregates, \A a \in aggregates : CellTyped(a), NEW o \in Objectives,
         NEW a \in Recommended(aggregates, o), NEW b \in Candidates(aggregates)
  PROVE  ~ LeadsRate(Measure(b, o), Measure(a, o), o = "lowest_mae")
<1>1. a \in Candidates(aggregates) /\ Sorted(a, b, o)
  BY DEF Recommended
<1>2. Supported(a) /\ Supported(b)
  BY <1>1 DEF Candidates, Supported
<1>3. Leads(a, b, o) => ~ Leads(b, a, o)
  BY <1>2, LeadsIsAsymmetric
<1>. QED
  BY <1>1, <1>3, SortedBy, LeadsByRate DEF Ties

\* What the aggregates of a session are made of.
LEMMA CellIsTyped ==
  ASSUME NEW t \in [BenchPhotos -> Truth], NEW sets \in SUBSET PromptSets,
         NEW named \in SUBSET sets, NEW runs,
         RunsSound(runs, t, named), Ran(runs) = Wanted(t, sets), NEW x \in sets,
         NEW l, l = NameOf(x, named), NEW v \in Thresholds, NEW a, a = AggregateOf(runs, l, v)
  PROVE  CellTyped(a)
<1>. DEFINE cell == CellRuns(runs, l, v)
            ok == FineRuns(runs, l, v)
            seen == SeenRuns(runs, l, v)
            bad == cell \ ok
            matches == {r \in ok : r.evaluation = "exact_count_match"}
            tp == CorrectMarks(seen)
            fp == WrongMarks(seen)
            fn == MissedMarks(seen)
            errors == Errors(ok)
<1>1. /\ a.images = Cardinality(ok) /\ a.total = Cardinality(cell) /\ a.failed = Cardinality(bad)
      /\ a.exact = Rate(Cardinality(matches), Cardinality(ok))
      /\ a.mae = Rate(errors, Cardinality(ok))
      /\ a.precision = Rate(tp, tp + fp) /\ a.recall = Rate(tp, tp + fn)
      /\ a.f1 = IF tp = 0 THEN Rate(0, 0) ELSE Rate(2 * tp, 2 * tp + fp + fn)
  <2>1. IsOfCell(a, cell, ok, seen)
    BY CellOfAggregate
  <2>. HIDE DEF cell, ok, seen
  <2>. QED
    BY <2>1 DEF IsOfCell
<1>2. IsFiniteSet(cell)
  BY CellHasEveryPhoto
<1>3. ASSUME NEW r \in cell PROVE RunSound(r, t, named) /\ r.error \in Nat
  <2>1. RunSound(r, t, named) /\ r.count \in Nat /\ r.expected \in Nat
    BY BatchAssumption DEF CellRuns, RunsSound, RunSound, BatchRun
  <2>. QED
    BY <2>1 DEF RunSound, Distance
<1>4. ok \subseteq cell /\ seen \subseteq ok /\ matches \subseteq ok /\ Splits(cell, ok, bad)
  BY DEF FineRuns, SeenRuns, Splits
<1>5. \A r \in seen : MarksOf(r) \in MarkSet
  BY <1>3, <1>4, MarksOfReviewed DEF SeenRuns
<1>. HIDE DEF cell, ok, seen, bad, matches, tp, fp, fn, errors
<1>6. IsFiniteSet(ok) /\ IsFiniteSet(seen) /\ IsFiniteSet(matches)
  <2>1. IsFiniteSet(ok)
    BY <1>2, <1>4, FS_Subset
  <2>. QED
    BY <1>4, <2>1, FS_Subset
<1>7. Cardinality(cell) = Cardinality(ok) + Cardinality(bad)
      /\ Cardinality(ok) \in Nat /\ Cardinality(bad) \in Nat
  BY <1>2, <1>4, TwoParts
<1>8. Cardinality(matches) \in Nat
  BY <1>6, FS_CardinalityType
<1>9. errors \in Nat
  BY <1>3, <1>4, <1>6, SumOfErrors DEF errors
<1>10. tp \in Nat /\ fp \in Nat /\ fn \in Nat
  BY <1>5, <1>6, SumOfMarks DEF tp, fp, fn
<1>11. \A n, d \in Nat : Rate(n, d) \in Rates /\ Rate(n, d).den = d
  BY DEF Rate, Rates
<1>12. a.f1 \in Rates
  <2>1. 2 * tp \in Nat /\ 2 * tp + fp + fn \in Nat
    BY <1>10
  <2>. QED
    BY <1>1, <1>11, <2>1
<1>13. a.precision \in Rates /\ a.recall \in Rates
  BY <1>1, <1>10, <1>11
<1>. QED
  BY <1>1, <1>7, <1>8, <1>9, <1>11, <1>12, <1>13 DEF CellTyped

LEMMA AggregatesOfSession ==
  ASSUME NEW s, SessionSound(s)
  PROVE  IsFiniteSet(s.aggregates) /\ \A a \in s.aggregates : CellTyped(a)
<1>1. /\ s.truth \in [BenchPhotos -> Truth] /\ s.sets \in SUBSET PromptSets
      /\ s.alike \in SUBSET s.sets /\ RunsSound(s.runs, s.truth, s.alike) /\ Ran(s.runs) = Wanted(s.truth, s.sets)
      /\ s.aggregates = Aggregated(s.runs, s.sets, s.alike)
  BY DEF SessionSound
<1>. DEFINE cells == s.sets \X Thresholds
            f == [c \in cells |-> AggregateOf(s.runs, NameOf(c[1], s.alike), c[2])]
<1>2. IsFiniteSet(cells)
  <2>1. IsFiniteSet(s.sets)
    BY <1>1, FS_Subset, BatchAssumption
  <2>. QED
    BY <2>1, FS_Product, BatchAssumption
<1>3. f \in Surjection(cells, s.aggregates)
  BY <1>1 DEF Surjection, Aggregated
<1>4. IsFiniteSet(s.aggregates)
  <2>. HIDE DEF f, cells
  <2>. QED
    BY <1>2, <1>3, FS_Surjection
<1>5. ASSUME NEW a \in s.aggregates PROVE CellTyped(a)
  <2>1. PICK c \in cells : a = AggregateOf(s.runs, NameOf(c[1], s.alike), c[2])
    BY <1>1 DEF Aggregated
  <2>2. c[1] \in s.sets /\ c[2] \in Thresholds
    BY <2>1
  <2>. QED
    BY <1>1, <2>1, <2>2, CellIsTyped
<1>. QED
  BY <1>4, <1>5

\* Whatever the objective, a session with a supported cell has one to be
\* recommended, and no supported cell is better than it by that objective.
THEOREM RecommendationIsBest == BatchSpec => []NothingBetter
<1>1. ASSUME BatchInv, opened # NoSession, NEW o \in Objectives
      PROVE  LET supported == {a \in opened.aggregates : a.images >= MinImages}
                 best      == Recommended(opened.aggregates, o)
             IN /\ supported # {} => best # {}
                /\ \A a \in best, b \in supported :
                     /\ a \in supported
                     /\ o = "lowest_mae" => ~Above(a.mae, b.mae)
                     /\ o = "highest_exact_match" => ~Above(b.exact, a.exact)
                     /\ o = "highest_recall" /\ Known(b.recall)
                          => Known(a.recall) /\ ~Above(b.recall, a.recall)
                     /\ o = "highest_precision" /\ Known(b.precision)
                          => Known(a.precision) /\ ~Above(b.precision, a.precision)
                     /\ o = "balanced_f1" /\ Known(b.f1) => Known(a.f1) /\ ~Above(b.f1, a.f1)
  <2>. DEFINE aggregates == opened.aggregates
              supported  == {a \in aggregates : a.images >= MinImages}
              best       == Recommended(aggregates, o)
  <2>1. IsFiniteSet(aggregates) /\ \A a \in aggregates : CellTyped(a)
    BY <1>1, AggregatesOfSession DEF BatchInv, SessionsSound
  <2>2. supported = Candidates(aggregates)
    BY <2>1, MetricsAssumption DEF Candidates, CellTyped
  <2>3. supported # {} => best # {}
    BY <2>1, <2>2, SomethingIsRecommended
  <2>4. ASSUME NEW a \in best, NEW b \in supported
        PROVE  /\ a \in supported
               /\ o = "lowest_mae" => ~Above(a.mae, b.mae)
               /\ o = "highest_exact_match" => ~Above(b.exact, a.exact)
               /\ o = "highest_recall" /\ Known(b.recall)
                    => Known(a.recall) /\ ~Above(b.recall, a.recall)
               /\ o = "highest_precision" /\ Known(b.precision)
                    => Known(a.precision) /\ ~Above(b.precision, a.precision)
               /\ o = "balanced_f1" /\ Known(b.f1) => Known(a.f1) /\ ~Above(b.f1, a.f1)
    <3>1. a \in supported
      BY <2>2 DEF Recommended
    <3>2. ~ LeadsRate(Measure(b, o), Measure(a, o), o = "lowest_mae")
      BY <2>1, <2>2, NothingAhead
    <3>3. Known(a.mae) /\ Known(b.mae) /\ Known(b.exact) /\ Known(a.exact)
      BY <2>1, <3>1, SupportedRatesKnown DEF Supported
    <3>4. CASE o = "lowest_mae"
      BY <3>1, <3>2, <3>3, <3>4 DEF LeadsRate, Measure
    <3>5. CASE o = "highest_exact_match"
      BY <3>1, <3>2, <3>3, <3>5 DEF LeadsRate, Measure
    <3>6. CASE o = "highest_recall"
      BY <3>1, <3>2, <3>6 DEF LeadsRate, Measure
    <3>7. CASE o = "highest_precision"
      BY <3>1, <3>2, <3>7 DEF LeadsRate, Measure
    <3>8. CASE o = "balanced_f1"
      BY <3>1, <3>2, <3>8 DEF LeadsRate, Measure
    <3>. QED
      BY <3>4, <3>5, <3>6, <3>7, <3>8 DEF Objectives
  <2>. QED
    BY <2>3, <2>4
<1>2. BatchInv => NothingBetter
  BY <1>1, Zenon DEF NothingBetter
<1>. QED
  BY <1>2, BatchInvAlways, PTL
=============================================================================
