------------------------------- MODULE Overlap -------------------------------
(***************************************************************************)
(* Duplicate removal (overlap.py), for boxes that stand in one row: they     *)
(* have the same top and the same height, so that every measure of the code  *)
(* is a ratio of whole numbers.  A detection is a record with its ends l and *)
(* r, its height high, its confidence conf (in per cent), its class cls, the *)
(* model, tile and scale it comes from, and its place id in the list the     *)
(* code is given.                                                            *)
(***************************************************************************)
EXTENDS Integers, Sequences, FiniteSets, FiniteSetsExt

BoxWidth(d) == d.r - d.l
Shared(a, b) == Max({0, Min({a.r, b.r}) - Max({a.l, b.l})})

\* num / den >= pct %, with the code's 0 for an empty denominator
Reaches(num, den, pct) == IF num <= 0 \/ den <= 0 THEN pct <= 0 ELSE 100 * num >= pct * den

IouAtLeast(a, b, pct) == Reaches(Shared(a, b), BoxWidth(a) + BoxWidth(b) - Shared(a, b), pct)
IosAtLeast(a, b, pct) == Reaches(Shared(a, b), Min({BoxWidth(a), BoxWidth(b)}), pct)

\* normalized_center_distance <= limit / 1000
CentresWithin(a, b, limit) ==
  LET apart == (a.l + a.r) - (b.l + b.r)
  IN 1000 * (IF apart < 0 THEN -apart ELSE apart) <= limit * (BoxWidth(a) + BoxWidth(b))

AspectsAlike(a, b, pct) ==
  100 * Min({BoxWidth(a), BoxWidth(b)}) >= pct * Max({BoxWidth(a), BoxWidth(b)})
NarrowBox(d) == BoxWidth(d) > 4 * d.high \/ 4 * BoxWidth(d) < d.high

\* _has_cross_source_signal; "" is the code's None
CrossSource(a, b) == a.tile # b.tile \/ a.scale # b.scale \/ a.model # b.model

\* The elements of S, each after those that `before`, a set of pairs, puts before it.
InOrder(S, before) ==
  [n \in 1 .. Cardinality(S) |-> CHOOSE x \in S : Cardinality({y \in S : <<y, x>> \in before}) = n - 1]

\* sorted(..., key = confidence, reverse = True), which is stable
Better(a, b) == a.conf > b.conf \/ (a.conf = b.conf /\ a.id < b.id)
BestFirst(dets) == InOrder(dets, {p \in dets \X dets : Better(p[1], p[2])})

\* _merge_group: the weighted mean of the ends (to the pixel), the best one's class
Weight(d) == Max({d.conf, 1})
MeanEnd(group, end) ==
  MapThenSumSet(LAMBDA d : d[end] * Weight(d), group) \div MapThenSumSet(Weight, group)
Merged(group) ==
  [BestFirst(group)[1] EXCEPT !.l = MeanEnd(group, "l"), !.r = MeanEnd(group, "r"),
                              !.from = UNION {d.from : d \in group}]

\* apply_nms, per class: what is kept of the first n detections
Suppresses(k, d, iou) == k.cls = d.cls /\ IouAtLeast(k, d, iou)
KeepBest(before, d, iou) ==
  IF \E k \in before : Suppresses(k, d, iou) THEN before ELSE before \cup {d}
Kept(dets, iou) ==
  LET ordered == BestFirst(dets)
      kept[n \in 0 .. Len(ordered)] ==
        IF n = 0 THEN {} ELSE KeepBest(kept[n - 1], ordered[n], iou)
  IN kept
Nms(dets, iou) == Kept(dets, iou)[Cardinality(dets)]

\* apply_conservative_dedup: several signals, all of them against the seed
LikelyDuplicate(seed, d, iou) ==
  LET limit == IF NarrowBox(seed) \/ NarrowBox(d) THEN 245 ELSE 350
  IN /\ seed.cls = d.cls
     /\ IouAtLeast(seed, d, iou)
     /\ CentresWithin(seed, d, limit)
     /\ AspectsAlike(seed, d, 70) \/ IosAtLeast(seed, d, 85)
     /\ CrossSource(seed, d) \/ IouAtLeast(seed, d, Max({iou, 65})) \/ IosAtLeast(seed, d, 90)

\* apply_nmm: a box joins by any member of the cluster
Joins(strategy, seed, group, d, iou) ==
  CASE strategy = "nmm" -> seed.cls = d.cls /\ \E m \in group : IouAtLeast(m, d, iou)
    [] strategy = "conservative" -> LikelyDuplicate(seed, d, iou)

(* The greedy scan the merging strategies share: the best detection left is *)
(* a seed, and of those left takes the ones that join its cluster.          *)
Taking(strategy, seed, group, d, taken, iou) ==
  IF d \notin taken /\ Joins(strategy, seed, group, d, iou) THEN group \cup {d} ELSE group
Growing(seed, ordered, taken, strategy, iou) ==
  LET group[n \in 0 .. Len(ordered)] ==
        IF n = 0 THEN {seed} ELSE Taking(strategy, seed, group[n - 1], ordered[n], taken, iou)
  IN group
ClusterOf(seed, ordered, taken, strategy, iou) ==
  Growing(seed, ordered, taken, strategy, iou)[Len(ordered)]

AddCluster(done, seed, ordered, strategy, iou) ==
  IF seed \in UNION done THEN done
  ELSE done \cup {ClusterOf(seed, ordered, UNION done, strategy, iou)}
Clustering(dets, strategy, iou) ==
  LET ordered == BestFirst(dets)
      done[n \in 0 .. Len(ordered)] ==
        IF n = 0 THEN {} ELSE AddCluster(done[n - 1], ordered[n], ordered, strategy, iou)
  IN done
Clusters(dets, strategy, iou) == Clustering(dets, strategy, iou)[Cardinality(dets)]

Nmm(dets, iou)          == {Merged(g) : g \in Clusters(dets, "nmm", iou)}
Conservative(dets, iou) == {Merged(g) : g \in Clusters(dets, "conservative", iou)}

Strategies == {"none", "nms", "nmm", "conservative"}
Deduplicated(dets, strategy, iou) ==
  CASE strategy = "none" -> dets
    [] strategy = "nms" -> Nms(dets, iou)
    [] strategy = "nmm" -> Nmm(dets, iou)
    [] OTHER -> Conservative(dets, iou)

\* cluster_for_consensus: what is linked, directly or through others
Linked(a, b, iou) ==
  /\ a.cls = b.cls
  /\ IouAtLeast(a, b, iou) \/ IosAtLeast(a, b, 70)
  /\ CentresWithin(a, b, 400)
LinkedTo(some, dets, iou) == {e \in dets : \E m \in some : m = e \/ Linked(m, e, iou)}
ConsensusClusters(dets, iou) ==
  LET Around(d) ==
        LET near[n \in 0 .. Cardinality(dets)] ==
              IF n = 0 THEN {d} ELSE LinkedTo(near[n - 1], dets, iou)
        IN near[Cardinality(dets)]
  IN {Around(d) : d \in dets}

ModelsOf(group) == {d.model : d \in group}
MoreThan(dets, agreement, iou) ==
  {g \in ConsensusClusters(dets, iou) : Cardinality(ModelsOf(g)) > agreement}
\* build_consensus_detections: the clusters enough models agree on
Consensus(dets, agreement, iou) ==
  {g \in ConsensusClusters(dets, iou) : Cardinality(ModelsOf(g)) >= agreement}
=============================================================================
