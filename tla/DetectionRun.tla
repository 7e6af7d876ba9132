----------------------------- MODULE DetectionRun -----------------------------
(***************************************************************************)
(* One photo analysed by the selected models (detector.py,                  *)
(* model_adapters.py): the photo is asked about whole, in tiles, or both;    *)
(* the answers are put back into the photo's coordinates, duplicates are     *)
(* removed, the adapter decides whether the result counts as a success, and  *)
(* the consensus is taken over the models that succeeded.  The photo is one  *)
(* row of items; an item is seen through the part of it inside the tile.     *)
(***************************************************************************)
EXTENDS Overlap, Tiling

CONSTANTS Layouts,        \* the rows of items: sets of records with ends l, r and class cls
          RowLength,      \* the width of the picture the models are given
          RowHeight,      \* the height of every item in it
          UserTile,       \* tile size and overlap of the tiled mode
          LargeTile, SmallTile,     \* those of the two tiled passes of the thorough mode
          Detectors,      \* the models, in the order they are run
          ClassesOf,      \* a model's allowed_classes; none of them: every class
          Levels,         \* the confidences a model may report, in per cent
          Threshold,      \* confidence_threshold
          IouThreshold,
          MaxCalls,       \* MAX_API_CALLS_PER_IMAGE
          ManyModelModes  \* the modes in which more than one model is run (a bound)

\* Numbers are numbers, percentages percentages, and no two items of a row are
\* in the same place.
ASSUME DetectionAssumption ==
  /\ {RowLength, UserTile, LargeTile, SmallTile} \subseteq Nat \ {0}
  /\ IouThreshold \in 0 .. 100 /\ Levels \subseteq 0 .. 100
  /\ Len(Detectors) \in Nat
  /\ \A row \in Layouts :
       /\ IsFiniteSet(row)
       /\ \A i \in row : i.l \in Nat /\ i.r \in Nat /\ i.l < i.r /\ i.r <= RowLength
       /\ \A i, j \in row : i.l = j.l /\ i.r = j.r => i = j

Modes == {"whole", "tiled", "thorough"}
Kinds == {"dynamic", "published", "direct"}

VARIABLES photo,    \* [items, scale]: scale is 2 when the models are given a smaller copy
          setup,    \* [mode, kind, strategy]: the options, and the kind of the models
          turn,     \* the position in Detectors of the model that runs
          asked,    \* what run_inference_on_prepared_image has gathered so far
          results,  \* the result of each model that has run
          agreed    \* the consensus: <<>> until taken, then <<clusters, agreement>>
detectionVars == <<photo, setup, turn, asked, results, agreed>>

Frame(start, size, scale) == [start |-> start, size |-> size, scale |-> scale]
WholeFrame(scale) == <<Frame(0, RowLength, scale)>>
TileFrames(size, overlap, scale) ==
  LET grown == GrownSize(RowLength, size, overlap)
      starts == AxisStarts(RowLength, grown, Stride(grown, overlap))
      ordered == InOrder(starts, {p \in starts \X starts : p[1] < p[2]})
  IN [i \in 1 .. Smaller(Len(ordered), MaxTiles) |->
        Frame(ordered[i], Smaller(grown, RowLength - ordered[i]), scale)]
\* the requests one model is to be sent for the photo
Frames(mode) ==
  CASE mode = "whole" -> WholeFrame("whole")
    [] mode = "tiled" -> TileFrames(UserTile, 25, "tile")
    [] OTHER -> WholeFrame("scale_whole") \o TileFrames(LargeTile, 25, "scale_1024_25")
                  \o TileFrames(SmallTile, 30, "scale_640_30")

Plans == [mode \in Modes |-> Frames(mode)]

Nothing == [next |-> 1, calls |-> 0, raw |-> {}, found |-> 0, empty |-> FALSE, lists |-> 0,
            errors |-> FALSE, trouble |-> "", capped |-> FALSE]

DetectionInit ==
  /\ photo \in [items : Layouts, scale : {1, 2}]
  /\ setup \in [mode : Modes, kind : Kinds, strategy : Strategies]
  /\ turn = 1 /\ asked = Nothing /\ results = <<>> /\ agreed = <<>>

Todo == Plans[setup.mode]
Running == turn <= Len(Detectors) /\ asked.next <= Len(Todo) /\ ~ asked.capped
Current == Todo[asked.next]
IsTile == Current.scale \notin {"whole", "scale_whole"}

(* What a model may see of the row in one request: the part of each item    *)
(* inside the picture it is sent, in that picture's coordinates.            *)
Visible ==
  {i \in photo.items : i.l < Current.start + Current.size /\ i.r > Current.start}
View(item) == [l |-> Larger(item.l - Current.start, 0),
               r |-> Smaller(item.r - Current.start, Current.size)]

TileLocal(view) == [l |-> view.l * photo.scale, r |-> view.r * photo.scale]
\* normalize_predictions and translate_tile_detections: back to the original photo
Placed(view) == [l |-> (view.l + Current.start) * photo.scale,
                 r |-> (view.r + Current.start) * photo.scale]

LeftOf(a, b) == a.l < b.l \/ (a.l = b.l /\ a.r < b.r)
\* normalize_predictions keeps what is sure enough and of a class the model may report.
Passes(item, confidence) ==
  LET allowed == ClassesOf[Detectors[turn]]
  IN confidence >= Threshold /\ (allowed = {} \/ item.cls \in allowed)
\* An item seen in the current picture, as a detection in the photo's coordinates.
DetectionOf(item, confidence, id) ==
  LET placed == Placed(View(item))
  IN [id |-> id, from |-> {id}, item |-> item, cls |-> item.cls, conf |-> confidence,
      l |-> placed.l, r |-> placed.r, high |-> RowHeight * photo.scale, model |-> Detectors[turn], scale |-> Current.scale,
      tile |-> IF IsTile THEN <<Current.start, Current.size>> ELSE <<>>]
\* The detections made of one answer: conf gives the confidence each item is seen with.
DetectionsOf(conf) ==
  LET passing == {i \in DOMAIN conf : Passes(i, conf[i])}
      order == InOrder(passing, {p \in passing \X passing : LeftOf(p[1], p[2])})
  IN {DetectionOf(order[n], conf[order[n]], Cardinality(asked.raw) + n) : n \in 1 .. Len(order)}

\* MAX_API_CALLS_PER_IMAGE stops the tiles; the whole picture is always asked about.
MayAsk == Running /\ (IsTile => asked.calls < MaxCalls)
StopAtCap ==
  /\ Running /\ IsTile /\ asked.calls >= MaxCalls
  /\ asked' = [asked EXCEPT !.capped = TRUE]
  /\ UNCHANGED <<photo, setup, turn, results, agreed>>

FailedQuietly(run) == [run EXCEPT !.next = @ + 1, !.errors = @ \/ ~ IsTile]
\* A request fails: the whole picture's failure is an error, a tile's is passed over.
Failed(run) ==
  [run EXCEPT !.next = @ + 1, !.errors = @ \/ ~ IsTile,
              !.trouble = IF @ = "" THEN "api_error" ELSE @]
\* A request is answered by a list of predictions, or by an empty draft.
Answered(run, conf) ==
  [run EXCEPT !.next = @ + 1, !.calls = @ + 1, !.raw = @ \cup DetectionsOf(conf),
              !.found = @ + Cardinality(DOMAIN conf), !.lists = @ + 1]
DraftOnly(run) == [run EXCEPT !.next = @ + 1, !.calls = @ + 1, !.empty = TRUE]

Sightings == UNION {[seen -> Levels] : seen \in SUBSET Visible}
KeepAsked(run) == asked' = run /\ UNCHANGED <<photo, setup, turn, results, agreed>>

\* One request fails, brings an empty draft, or a list of predictions.
Requested ==
  \/ KeepAsked(Failed(asked))
  \/ \E conf \in Sightings : KeepAsked(Answered(asked, conf))
Drafted == KeepAsked(DraftOnly(asked))

(* run_workflow with the user's classes: the published specification must be *)
(* fetched and have a step that takes them, and nothing else is ever run.    *)
Injects(spec) == spec = "yolo_world"
AskDynamic ==
  /\ MayAsk /\ setup.kind = "dynamic"
  /\ \E spec \in {"none", "other_steps", "yolo_world"} :
       IF Injects(spec) THEN Requested \/ Drafted ELSE KeepAsked(Failed(asked))

(* run_workflow without classes: an empty draft is asked again with the     *)
(* published specification, and stays one when that cannot be fetched.      *)
AskPublished ==
  /\ MayAsk /\ setup.kind = "published"
  /\ Requested \/ Drafted

\* run_direct_model and run_local have no drafts.
AskDirect == MayAsk /\ setup.kind = "direct" /\ Requested

(* The end of run_inference_on_prepared_image, and what the adapter makes   *)
(* of it: a result with an error, or with no answer at all, is a failure.   *)
Trouble(run) ==
  IF run.trouble # "" THEN run.trouble
  ELSE IF run.empty /\ run.found = 0 THEN "empty_workflow_output"
  ELSE IF run.raw = {} /\ ~ run.errors /\ run.calls > 0 /\ run.found > 0 THEN "filtered_to_zero"
  ELSE ""
Succeeds(run) ==
  ~ run.errors /\ Trouble(run) \notin {"api_error", "empty_workflow_output"} /\ run.calls > 0

Conclude ==
  /\ turn <= Len(Detectors) /\ ~ Running
  /\ results' = Append(results,
        [ok |-> Succeeds(asked), asked |-> asked,
         dets |-> IF Succeeds(asked) THEN Deduplicated(asked.raw, setup.strategy, IouThreshold) ELSE {}])
  /\ turn' = IF setup.mode \in ManyModelModes THEN turn + 1 ELSE Len(Detectors) + 1
  /\ asked' = Nothing
  /\ UNCHANGED <<photo, setup, agreed>>

\* Experimental Consensus, over the detections of the models that succeeded
Successes == {i \in DOMAIN results : results[i].ok}
Flattened == UNION {results[i].dets : i \in Successes}
TakeConsensus ==
  /\ turn > Len(Detectors) /\ Successes # {} /\ agreed = <<>>
  /\ \E agreement \in 1 .. Len(Detectors) :
       agreed' = <<Consensus(Flattened, agreement, IouThreshold), agreement>>
  /\ UNCHANGED <<photo, setup, turn, asked, results>>

DetectionNext == AskDynamic \/ AskPublished \/ AskDirect \/ StopAtCap \/ Conclude \/ TakeConsensus
DetectionSpec == DetectionInit /\ [][DetectionNext]_detectionVars
-----------------------------------------------------------------------------
DetectionTypeOK ==
  /\ photo \in [items : Layouts, scale : {1, 2}]
  /\ setup \in [mode : Modes, kind : Kinds, strategy : Strategies]
  /\ turn \in 1 .. Len(Detectors) + 1
  /\ asked.calls \in 0 .. Len(Todo) /\ asked.next \in 1 .. Len(Todo) + 1
  /\ Len(results) <= Len(Detectors)

(* Different items that the models' boxes keep apart: no box of one overlaps *)
(* a box of the other as much as the boxes of one item do.                   *)
Apart(dets) ==
  \A a, b \in dets : a.item # b.item /\ a.cls = b.cls => ~ IouAtLeast(a, b, IouThreshold)

SeenWhole(item, dets) ==
  \A d \in dets : d.item = item /\ d.tile # <<>> =>
    d.tile[1] <= item.l /\ item.r <= d.tile[1] + d.tile[2]
StandsFor(final, raw, item) == \E d \in raw : d.id \in final.from /\ d.item = item

(* Of items kept apart, each one that was found is counted: no final        *)
(* detection stands for two of them, none is dropped, and an item every     *)
(* request saw whole is counted once although several tiles and passes saw  *)
(* it - the promise of translating tiles and removing duplicates            *)
(* (image_processing.py:267, overlap.py:196-265).  An item that some tile    *)
(* cut may be counted more than once; of items whose boxes overlap as much   *)
(* as boxes of one item do, or through a chain of others, nothing is said.   *)
EachItemOnce ==
  \A i \in Successes :
    LET raw == results[i].asked.raw
        final == results[i].dets
    IN Apart(raw) =>
         /\ \A f \in final : \A d, e \in raw : {d.id, e.id} \subseteq f.from => d.item = e.item
         /\ \A d \in raw :
              LET same == {f \in final : StandsFor(f, raw, d.item)}
              IN /\ same # {}
                 /\ SeenWhole(d.item, raw) /\ setup.strategy # "none" => Cardinality(same) = 1

(* A result that counts as a success rests on an answer to every request    *)
(* that was sent, at least one of them a list of predictions; what was not  *)
(* asked was left out by the cap alone, which the result says.  So a tile    *)
(* that failed never passes for a part of the yard without items            *)
(* (detector.py:1674-1760, model_adapters.py:97-113).                       *)
SuccessSawAll ==
  \A i \in Successes :
    LET run == results[i].asked
    IN /\ run.calls = run.next - 1
       /\ run.lists > 0
       /\ run.next <= Len(Todo) => run.capped /\ run.calls >= MaxCalls

\* What the models that succeeded found, before duplicates were removed.
Found == UNION {results[i].asked.raw : i \in Successes}
FarApart(dets) ==
  \A a, b \in dets : a.item # b.item => ~ Linked(a, b, IouThreshold)

(* Of photos looked at whole, in which a model sees an item's own box and no  *)
(* cut of it: the consensus counts an item once when enough of the models     *)
(* that succeeded found it, and not at all otherwise, as long as the boxes    *)
(* of different items stay apart.  Boxes of one item that differ, the tiled   *)
(* modes, and items linked by a chain of overlaps are not covered             *)
(* (overlap.py:400-462).                                                      *)
ConsensusCountsItems ==
  agreed # <<>> /\ setup.mode = "whole" /\ Apart(Found) /\ FarApart(Found) =>
    LET finders(item) == {d.model : d \in {f \in Found : f.item = item}}
        enough == {item \in photo.items : Cardinality(finders(item)) >= agreed[2]}
    IN Cardinality(agreed[1]) = Cardinality(enough)
=============================================================================
