-------------------------- MODULE BenchmarkMetrics --------------------------
(***************************************************************************)
(* The arithmetic of benchmark.py: the metrics of one run, the aggregate   *)
(* of the runs of one prompt set at one threshold, and the choice among    *)
(* aggregates.  A rate is kept as a numerator over a denominator, which    *)
(* is zero where the code has None; rates are compared by multiplying out. *)
(***************************************************************************)
EXTENDS Integers, FiniteSets, FiniteSetsExt

CONSTANT MinImages    \* MIN_RECOMMENDATION_RUNS
ASSUME MetricsAssumption == MinImages \in Nat \ {0}

Distance(a, b) == IF a < b THEN b - a ELSE a - b

Rate(n, d)  == [num |-> n, den |-> d]
Known(rate) == rate.den # 0
Above(a, b) == a.num * b.den > b.num * a.den
Alike(a, b) == a.num * b.den = b.num * a.den

----------------------------------------------------------------------------
(* compute_benchmark_metrics, with an expected count                       *)

Evaluation(count, expected, failed) ==
  IF failed THEN "execution_failed"
  ELSE IF expected = 0 /\ count = 0 THEN "successful_zero_detections"
  ELSE IF count = expected THEN "exact_count_match"
  ELSE IF count < expected THEN "undercount" ELSE "overcount"

\* compute_detection_counts: an ignored detection counts as neither.
TruePositives(marks)  == marks.correct
FalsePositives(marks) == marks.wrong
FalseNegatives(marks) == marks.missed

Precision(marks) == Rate(TruePositives(marks), TruePositives(marks) + FalsePositives(marks))
Recall(marks)    == Rate(TruePositives(marks), TruePositives(marks) + FalseNegatives(marks))

----------------------------------------------------------------------------
(* aggregate_prompt_threshold                                              *)

Included(runs, label, level) ==
  {r \in runs : r.label = label /\ r.level = level /\ r.include}

Sound(runs)    == {r \in runs : ~r.failed}
Reviewed(runs) == {r \in Sound(runs) : r.marks # {}}

\* r.marks is the singleton of the marks of a reviewed run.
MarksOf(r) == CHOOSE m \in r.marks : TRUE

\* The sum of whole numbers, as the number of things counted.
SumOver(Of(_), runs) == Cardinality(UNION {{r} \X (1 .. Of(r)) : r \in runs})

\* The median is the middle of the sorted values, or the mean of the two.
MedianRate(Of(_), runs) ==
  LET n        == Cardinality(runs)
      Below(v) == Cardinality({r \in runs : Of(r) <= v})
      Nth(k)   == Min({Of(r) : r \in {q \in runs : Below(Of(q)) >= k}})
  IN  IF n = 0 THEN Rate(0, 0)
      ELSE IF n % 2 = 1 THEN Rate(Nth(n \div 2 + 1), 1)
      ELSE Rate(Nth(n \div 2) + Nth(n \div 2 + 1), 2)

AggregateOf(runs, label, level) ==
  LET subset   == Included(runs, label, level)
      ok       == Sound(subset)
      reviewed == Reviewed(subset)
      exact    == {r \in ok : r.evaluation = "exact_count_match"}
      tp == SumOver(LAMBDA r : TruePositives(MarksOf(r)), reviewed)
      fp == SumOver(LAMBDA r : FalsePositives(MarksOf(r)), reviewed)
      fn == SumOver(LAMBDA r : FalseNegatives(MarksOf(r)), reviewed)
  IN  [label |-> label, level |-> level,
       images   |-> Cardinality(ok),
       total    |-> Cardinality(subset),
       failed   |-> Cardinality(subset \ ok),
       exact    |-> Rate(Cardinality(exact), Cardinality(ok)),
       mae      |-> Rate(SumOver(LAMBDA r : r.error, ok), Cardinality(ok)),
       median   |-> MedianRate(LAMBDA r : r.error, ok),
       over     |-> Cardinality({r \in ok : r.count > r.expected}),
       under    |-> Cardinality({r \in ok : r.count < r.expected}),
       zero     |-> Cardinality({r \in ok : r.count = 0}),
       reviewed |-> Cardinality(reviewed),
       precision |-> Rate(tp, tp + fp),
       recall    |-> Rate(tp, tp + fn),
       f1        |-> IF tp = 0 THEN Rate(0, 0) ELSE Rate(2 * tp, 2 * tp + fp + fn)]

----------------------------------------------------------------------------
(* recommend_configuration                                                 *)

Objectives == {"lowest_mae", "highest_exact_match", "highest_recall",
               "highest_precision", "balanced_f1"}

Candidates(aggregates) == {a \in aggregates : a.images >= MinImages /\ a.failed < a.total}

Measure(a, objective) ==
  CASE objective = "lowest_mae"          -> a.mae
    [] objective = "highest_exact_match" -> a.exact
    [] objective = "highest_recall"      -> a.recall
    [] objective = "highest_precision"   -> a.precision
    [] objective = "balanced_f1"         -> a.f1

\* With every objective taken for one to be maximised.
LeadsUp(a, b, objective) ==
  LET x == Measure(a, objective) y == Measure(b, objective)
  IN  Known(x) /\ (Known(y) => Above(x, y))

\* The first component of the sort key; 1e9 stands for a missing rate.
Leads(a, b, objective) ==
  LET x == Measure(a, objective) y == Measure(b, objective) IN
  /\ Known(x)
  /\ Known(y) => IF objective = "lowest_mae" THEN Above(y, x) ELSE Above(x, y)

Ties(a, b, objective) == ~Leads(a, b, objective) /\ ~Leads(b, a, objective)

\* The rest of the key: fewer failures, then the other of error and match rate.
Sorted(a, b, objective) ==
  \/ Leads(a, b, objective)
  \/ /\ Ties(a, b, objective)
     /\ \/ a.failed < b.failed
        \/ /\ a.failed = b.failed
           /\ CASE objective = "lowest_mae" -> ~Above(b.exact, a.exact)
                [] objective \in {"highest_recall", "highest_precision", "balanced_f1"}
                     /\ ~Known(Measure(a, objective)) -> TRUE
                [] OTHER -> ~Above(a.mae, b.mae)

\* The keys that sort first; the code takes the first of them in list order.
Recommended(aggregates, objective) ==
  {a \in Candidates(aggregates) : \A b \in Candidates(aggregates) : Sorted(a, b, objective)}
============================================================================
