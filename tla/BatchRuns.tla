------------------------------ MODULE BatchRuns ------------------------------
(***************************************************************************)
(* The batch benchmark of one tab (benchmark_batch_ui.py over              *)
(* benchmark.py): every image is run with every prompt set at every        *)
(* threshold, runs of the same input are taken from a cache, the session   *)
(* is saved and shown, its runs can be reviewed.                           *)
(*                                                                         *)
(* batch holds the locals of execute_batch_runs.  They reach session_state *)
(* and the file at the end only, so that a click during the loop, which    *)
(* stops the script, loses every run so far: also a click on Cancel        *)
(* Remaining Runs, whose flag the loop would test.                         *)
(***************************************************************************)
EXTENDS BenchmarkMetrics

CONSTANTS
  BenchPhotos,
  PromptSets,     \* the sets of the form, whose names need not differ
  SameTerms,      \* the prompt sets whose terms are the same but for their order
  Thresholds,
  Failure, NoBatch, NoSession,
  MaxCount,       \* bound: objects expected and found in a photo
  MaxMissed,      \* bound: missed objects a reviewer enters
  MaxBatches,     \* bound: batches started
  MaxReviews      \* bound: reviews saved

ASSUME BatchAssumption ==
  /\ MaxCount \in Nat /\ MaxMissed \in Nat /\ MaxBatches \in Nat /\ MaxReviews \in Nat
  /\ SameTerms \subseteq PromptSets /\ Thresholds \subseteq Nat
  /\ IsFiniteSet(BenchPhotos) /\ IsFiniteSet(PromptSets) /\ IsFiniteSet(Thresholds)

VARIABLES
  truth,      \* truth[p]: expected count and inclusion of the last batch
  alike,      \* the prompt sets of the last batch that were given one name
  batch,
  runCache,   \* batch_run_cache: what the model answered, by input
  opened,     \* batch_session
  sessions,   \* benchmark_sessions.json
  started, reviews,
  answered    \* history: the results of the model that are no failures

batchVars == <<truth, alike, batch, runCache, opened, sessions, started, reviews, answered>>

Truth  == [expected : 0..MaxCount, include : BOOLEAN]
Answer == [count : 0..MaxCount, fallback : BOOLEAN]
Cells  == PromptSets \X Thresholds
Combos == BenchPhotos \X Cells

\* build_cache_key sorts the terms; the user and the model stay the same.
Terms(s)     == IF s \in SameTerms THEN SameTerms ELSE {s}
CacheKey(c)  == <<c[1], Terms(c[2][1]), c[2][2]>>
CacheKeys    == {CacheKey(c) : c \in Combos}

\* A name is told by the sets that have it; names are free text, and nothing
\* refuses one that another set has (parse_named_prompt_sets).
NameOf(s, named) == IF s \in named THEN named ELSE {s}

MarkSet == [correct : 0..MaxCount, wrong : 0..MaxCount, missed : 0..MaxMissed]
BatchRun == [photo : BenchPhotos, set : PromptSets, label : SUBSET PromptSets, level : Thresholds,
             include : BOOLEAN, expected : 0..MaxCount, count : 0..MaxCount,
             failed : BOOLEAN, fallback : BOOLEAN, cached : BOOLEAN,
             error : 0..MaxCount, marks : SUBSET MarkSet,
             evaluation : {"execution_failed", "successful_zero_detections",
                           "exact_count_match", "undercount", "overcount"}]

Batch == [at : {"loop", "save", "show"}, sets : SUBSET PromptSets, force : BOOLEAN,
          runs : SUBSET BatchRun, left : SUBSET Combos,
          cache : [CacheKeys -> Answer \cup {Failure}]]

SessionOK(s) ==
  /\ s.truth \in [BenchPhotos -> Truth]
  /\ s.sets \subseteq PromptSets /\ s.alike \subseteq s.sets
  /\ \A r \in s.runs : r \in BatchRun
  /\ {<<a.label, a.level>> : a \in s.aggregates} =
       {NameOf(x, s.alike) : x \in s.sets} \X Thresholds

BatchTypeOK ==
  /\ truth \in [BenchPhotos -> Truth] /\ alike \subseteq PromptSets
  /\ batch \in Batch \cup {NoBatch}
  /\ runCache \in [CacheKeys -> Answer \cup {Failure}]
  /\ \A s \in sessions \cup ({opened} \ {NoSession}) : SessionOK(s)
  /\ started \in 0..MaxBatches /\ reviews \in 0..MaxReviews
  /\ answered \subseteq (CacheKeys \X Answer)

\* The cache holds what earlier batches of the tab have left in it.
Cacheable == {a \in Answer : ~a.fallback}

BatchFrom(cache) ==
  /\ truth = [p \in BenchPhotos |-> [expected |-> 0, include |-> TRUE]] /\ alike = {}
  /\ batch = NoBatch
  /\ runCache = cache
  /\ opened = NoSession /\ sessions = {}
  /\ started = 0 /\ reviews = 0
  /\ answered = {<<k, cache[k]>> : k \in {j \in CacheKeys : cache[j] # Failure}}

BatchInit == \E cache \in [CacheKeys -> Cacheable \cup {Failure}] : BatchFrom(cache)

----------------------------------------------------------------------------
\* enumerate_batch_combinations, in any order, with the ground truth and the
\* names that the editors show; validate_batch_ground_truth wants an image.
StartBatch(t, sets, named, force) ==
  /\ batch = NoBatch /\ started < MaxBatches
  /\ sets # {} /\ named \subseteq sets /\ \E p \in BenchPhotos : t[p].include
  /\ started' = started + 1
  /\ truth' = t /\ alike' = named
  /\ batch' = [at |-> "loop", sets |-> sets, force |-> force, runs |-> {},
               left |-> {p \in BenchPhotos : t[p].include} \X (sets \X Thresholds),
               cache |-> runCache]
  /\ UNCHANGED <<runCache, opened, sessions, reviews, answered>>

\* outcome_to_run_dict for an answer, and its counterpart for a failure.
RunOf(c, answer, cached) ==
  LET t == truth[c[1]]
      failed == answer = Failure
      count  == IF failed THEN 0 ELSE answer.count
  IN  [photo |-> c[1], set |-> c[2][1], label |-> NameOf(c[2][1], alike), level |-> c[2][2], include |-> t.include,
       expected |-> t.expected, count |-> count, failed |-> failed,
       fallback |-> ~failed /\ answer.fallback, cached |-> cached,
       error |-> Distance(count, t.expected), marks |-> {},
       evaluation |-> Evaluation(count, t.expected, failed)]

RecordAll(c, answer, cached) ==
  batch' = [batch EXCEPT !.left = @ \ {c}, !.runs = @ \cup {RunOf(c, answer, cached)},
                         !.cache[CacheKey(c)] = IF cached THEN @ ELSE answer]

\* BenchmarkRunCache.put ignores what is_cacheable_success refuses.
Record(c, answer, cached) ==
  batch' = [batch EXCEPT !.left = @ \ {c}, !.runs = @ \cup {RunOf(c, answer, cached)},
                         !.cache[CacheKey(c)] = IF cached \/ answer = Failure \/ answer.fallback
                                                THEN @ ELSE answer]

Looping == batch # NoBatch /\ batch.at = "loop"

\* A hit is evaluated anew against the expected count of this batch.
TakeHit(c) ==
  /\ Looping /\ c \in batch.left
  /\ ~batch.force /\ batch.cache[CacheKey(c)] # Failure
  /\ Record(c, batch.cache[CacheKey(c)], TRUE)
  /\ UNCHANGED <<truth, alike, runCache, opened, sessions, started, reviews, answered>>

\* The model answers, falls back to the unmodified workflow, or fails, as
\* does a photo whose bytes are missing.
Infer(c, answer) ==
  /\ Looping /\ c \in batch.left
  /\ batch.force \/ batch.cache[CacheKey(c)] = Failure
  /\ Record(c, answer, FALSE)
  /\ answered' = IF answer = Failure THEN answered ELSE answered \cup {<<CacheKey(c), answer>>}
  /\ UNCHANGED <<truth, alike, runCache, opened, sessions, started, reviews>>

\* The locals reach session_state one by one.
KeepCache ==
  /\ Looping /\ batch.left = {}
  /\ runCache' = batch.cache
  /\ batch' = [batch EXCEPT !.at = "save"]
  /\ UNCHANGED <<truth, alike, opened, sessions, started, reviews, answered>>

\* build_batch_session and, on review, the same loop again.
AggregatedOnce(runs, sets, named) ==
  IF opened # NoSession THEN opened.aggregates
  ELSE {AggregateOf(runs, NameOf(c[1], named), c[2]) : c \in sets \X Thresholds}

Aggregated(runs, sets, named) ==
  {AggregateOf(runs, NameOf(c[1], named), c[2]) : c \in sets \X Thresholds}

BatchSession == [truth |-> truth, alike |-> alike, sets |-> batch.sets, runs |-> batch.runs,
                 aggregates |-> Aggregated(batch.runs, batch.sets, alike)]

SaveSession ==
  /\ batch # NoBatch /\ batch.at = "save"
  /\ sessions' = sessions \cup {BatchSession}
  /\ batch' = [batch EXCEPT !.at = "show"]
  /\ UNCHANGED <<truth, alike, runCache, opened, started, reviews, answered>>

ShowSession ==
  /\ batch # NoBatch /\ batch.at = "show"
  /\ opened' = BatchSession
  /\ batch' = NoBatch
  /\ UNCHANGED <<truth, alike, runCache, sessions, started, reviews, answered>>

\* A click anywhere: the script stops at its next access to session_state.
StopBatch ==
  /\ batch # NoBatch
  /\ batch' = NoBatch
  /\ UNCHANGED <<truth, alike, runCache, opened, sessions, started, reviews, answered>>

\* apply_visual_review_to_run: of the detections of r, so many are marked
\* correct and wrong, the rest is ignored.  The copy in the file stays.
ReviewRun(r, marks) ==
  /\ batch = NoBatch /\ opened # NoSession /\ reviews < MaxReviews
  /\ r \in opened.runs
  /\ marks.correct + marks.wrong <= r.count
  /\ LET runs == (opened.runs \ {r}) \cup {[r EXCEPT !.marks = {marks}]}
     IN  opened' = [opened EXCEPT !.runs = runs,
                             !.aggregates = Aggregated(runs, opened.sets, opened.alike)]
  /\ reviews' = reviews + 1
  /\ UNCHANGED <<truth, alike, batch, runCache, sessions, started, answered>>

\* Open session: the selected row of the history replaces what is open.
OpenSession(s) ==
  /\ batch = NoBatch /\ s \in sessions /\ s # opened
  /\ opened' = s
  /\ UNCHANGED <<truth, alike, batch, runCache, sessions, started, reviews, answered>>

----------------------------------------------------------------------------
BatchNext ==
  \/ \E t \in [BenchPhotos -> Truth], sets \in SUBSET PromptSets, force \in BOOLEAN :
       \E named \in {n \in SUBSET sets : Cardinality(n) # 1} : StartBatch(t, sets, named, force)
  \/ \E c \in Combos : TakeHit(c)
  \/ \E c \in Combos, answer \in Answer \cup {Failure} : Infer(c, answer)
  \/ KeepCache \/ SaveSession \/ ShowSession \/ StopBatch
  \/ \E p \in BenchPhotos, m \in MarkSet :
       opened # NoSession /\ \E r \in {q \in opened.runs : q.photo = p} : ReviewRun(r, m)
  \/ \E s \in sessions : OpenSession(s)

BatchSpec == BatchInit /\ [][BatchNext]_batchVars

----------------------------------------------------------------------------
\* The matrix is about the runs next to it, whatever was cached, failed,
\* reviewed or reopened: every planned combination of image, set and threshold
\* was run exactly once, and a cell has the runs of every set of its name, whose
\* images under, over and as expected, failures and reviews add up: of one set,
\* unless another was given the same name (enumerate_batch_combinations,
\* aggregate_prompt_threshold, _render_batch_visual_review).
MatrixAddsUp ==
  opened # NoSession =>
    LET photos == {p \in BenchPhotos : opened.truth[p].include}
        Runs(a) == {r \in opened.runs : r.set \in a.label /\ r.level = a.level}
        Marked(a) == {r \in Runs(a) : r.marks # {} /\ r.evaluation # "execution_failed"}
    IN /\ {<<r.photo, <<r.set, r.level>>>> : r \in opened.runs} = photos \X (opened.sets \X Thresholds)
       /\ Cardinality(opened.runs) = Cardinality(photos \X (opened.sets \X Thresholds))
       /\ \A s \in opened.sets, v \in Thresholds : \E a \in opened.aggregates : s \in a.label /\ a.level = v
       /\ \A a \in opened.aggregates :
            /\ a.total = Cardinality(photos \X a.label) /\ a.images + a.failed = a.total
            /\ a.over + a.under = Cardinality({r \in Runs(a) : r.evaluation \in {"overcount", "undercount"}})
            /\ a.images - a.over - a.under =
                 Cardinality({r \in Runs(a) : ~r.failed /\ r.count = r.expected})
            /\ a.mae.num >= a.over + a.under
            /\ a.reviewed = Cardinality(Marked(a))
            /\ Known(a.precision) <=> \E r \in Marked(a), m \in MarkSet :
                                         m \in r.marks /\ m.correct + m.wrong > 0
            /\ Above(a.recall, Rate(0, 1)) => Above(a.precision, Rate(0, 1))

\* A run taken from the cache has the count that the model gave for this photo,
\* these terms and this threshold, never a failure's or a fallback's, starts
\* without the review of an earlier session, and is judged by the expected
\* count of its own session (execute_batch_runs, is_cacheable_success).
CachedRunsHonest ==
  \A s \in sessions : \A r \in s.runs :
    r.cached =>
      /\ <<CacheKey(<<r.photo, <<r.set, r.level>>>>),
           [count |-> r.count, fallback |-> FALSE]>> \in answered
      /\ ~r.failed /\ r.marks = {}
      /\ r.expected = s.truth[r.photo].expected
      /\ r.evaluation = "overcount" <=> r.count > s.truth[r.photo].expected
      /\ r.evaluation = "undercount" <=> r.count < s.truth[r.photo].expected

\* Whatever the objective, the cell (a name and a threshold) that is recommended
\* rests on enough runs, and no other supported cell does better by it
\* (recommend_configuration).
NothingBetter ==
  opened # NoSession =>
    \A o \in Objectives :
      LET supported == {a \in opened.aggregates : a.images >= MinImages}
          best      == Recommended(opened.aggregates, o)
      IN /\ supported # {} => best # {}
         /\ \A a \in best, b \in supported :
              /\ a \in supported
              /\ o = "lowest_mae" => ~Above(a.mae, b.mae)
              /\ o = "highest_exact_match" => ~Above(b.exact, a.exact)
              /\ o = "highest_recall" /\ Known(b.recall) => Known(a.recall) /\ ~Above(b.recall, a.recall)
              /\ o = "highest_precision" /\ Known(b.precision)
                   => Known(a.precision) /\ ~Above(b.precision, a.precision)
              /\ o = "balanced_f1" /\ Known(b.f1) => Known(a.f1) /\ ~Above(b.f1, a.f1)
============================================================================
