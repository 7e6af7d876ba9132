------------------------------ MODULE ShapeRuns ------------------------------
(***************************************************************************)
(* The Shape Detection page (shape_detection_ui.py) in one browser session,  *)
(* and the shape tests it saves (shape_detection_storage.py).  Every click   *)
(* runs the whole script: Setup first, then Results, Review and History, so  *)
(* what a click does is done to the state Setup leaves.                      *)
(***************************************************************************)
EXTENDS Integers, FiniteSets, Sequences

CONSTANTS ShapePictures,  \* pictures somebody may upload or photograph
          SamplePicture,  \* the built-in synthetic sample
          ShapeSettings,  \* shape and settings: what the cache key has besides the hash
          FoundCounts,    \* how many shapes a detection may find
          CacheLimit,     \* results kept in the session (8 in the code)
          MaxAdded,       \* largest "additional missed circles" (a bound)
          MaxSaved,       \* shape tests saved (a bound)
          MaxFiles        \* annotated pictures written (a bound)

ASSUME ShapeAssumption ==
  /\ SamplePicture \notin ShapePictures /\ CacheLimit \in Nat \ {0}
  /\ FoundCounts \subseteq Nat /\ ShapeSettings # {}
  /\ MaxAdded \in Nat /\ MaxSaved \in Nat /\ MaxFiles \in Nat

VARIABLES page,       \* the shape_detection_* keys of the session
          savingTest, \* a save under way, with what its open transaction has written
          shapeTests, \* the committed runs with their items, oldest first
          files       \* the annotated pictures written, and whether they are still there
shapeVars == <<page, savingTest, shapeTests, files>>
savedVars == <<savingTest, shapeTests, files>>

NoPicture == [of |-> "none", drawn |-> FALSE]
Photo(p) == [of |-> p, drawn |-> FALSE]
Drawn(picture) == [picture EXCEPT !.drawn = TRUE]   \* the annotated copy of a picture

(* A result is an object of the process: who holds the same object sees every *)
(* write to it.  No more are held at a time than the page's result and the    *)
(* cache's, and a detection makes two.                                        *)
Objects == 1 .. CacheLimit + 3
NoShapeResult == [object |-> 0, hash |-> NoPicture, marks |-> <<>>, given |-> FALSE]
ShapeResult(object, picture, marks) ==
  [object |-> object, hash |-> picture, marks |-> marks, given |-> TRUE]
SameObject(result, object) == result   \* as it would be without the copy
Copied(result, object) == [result EXCEPT !.object = object]   \* copy.deepcopy
Held(p) == {p.result.object} \cup {p.cache[i].result.object : i \in DOMAIN p.cache}
NewObject(held) == CHOOSE o \in Objects : o \notin held

FreshPage == [source |-> "upload", up |-> NoPicture, picture |-> NoPicture, hash |-> NoPicture,
              settings |-> CHOOSE s \in ShapeSettings : TRUE, result |-> NoShapeResult,
              cache |-> <<>>, added |-> 0]
NotSaving == [at |-> "idle", file |-> 0, rows |-> <<>>]
ShapeInit == page = FreshPage /\ savingTest = NotSaving /\ shapeTests = <<>> /\ files = <<>>

Given(p, picture) ==
  [p EXCEPT !.picture = picture, !.hash = picture, !.result = NoShapeResult]
(* Setup takes the file that is in the uploader (or the camera) as a new      *)
(* picture, in every run of the script.                                      *)
AfterSetup == IF page.up # NoPicture THEN Given(page, page.up) ELSE page

\* A radio button of Setup; an uploader that is no longer shown forgets its file.
ChooseSource(source) ==
  /\ source # page.source
  /\ page' = [page EXCEPT !.source = source, !.up = NoPicture]
  /\ UNCHANGED savedVars

GivePicture(p) ==
  /\ page.source = "upload" /\ page.up # Photo(p)
  /\ page' = Given([page EXCEPT !.up = Photo(p)], Photo(p))
  /\ UNCHANGED savedVars
TakeFileAway ==
  /\ page.up # NoPicture
  /\ page' = [page EXCEPT !.up = NoPicture]
  /\ UNCHANGED savedVars

LoadSample ==
  /\ page.source = "sample"
  /\ page' = Given(page, Photo(SamplePicture))
  /\ UNCHANGED savedVars

ChangeSettings(s) ==
  /\ page' = [AfterSetup EXCEPT !.settings = s]
  /\ UNCHANGED savedVars

Fresh(n) == [i \in 1 .. n |-> "included"]
ShapeKey(p) == <<p.hash, p.settings>>
CachedEntries(p) == {i \in DOMAIN p.cache : p.cache[i].key = ShapeKey(p)}
\* the oldest entries go when there are too many
Remember(cache, entry) ==
  LET all == Append(cache, entry)
  IN SubSeq(all, 1 + (IF Len(all) > CacheLimit THEN Len(all) - CacheLimit ELSE 0), Len(all))

(* _execute_detection: a copy of the session's cached result, else a new      *)
(* result with a copy of it for the cache; or an error, which keeps what      *)
(* there was.                                                                 *)
Detect ==
  /\ AfterSetup.picture # NoPicture
  /\ LET found == NewObject(Held(AfterSetup))
         kept == NewObject(Held(AfterSetup) \cup {found})
     IN \/ \E i \in CachedEntries(AfterSetup) :
             page' = [AfterSetup EXCEPT !.result = Copied(AfterSetup.cache[i].result, found)]
        \/ /\ CachedEntries(AfterSetup) = {}
           /\ \E n \in FoundCounts :
                LET result == ShapeResult(found, AfterSetup.picture, Fresh(n))
                IN page' = [AfterSetup EXCEPT
                     !.result = result,
                     !.cache = Remember(@, [key |-> ShapeKey(AfterSetup), result |-> Copied(result, kept)])]
        \/ page' = AfterSetup
  /\ UNCHANGED savedVars

\* The review writes into the page's result, whoever else holds that object.
Marked(result, object, marks) ==
  IF result.object = object THEN [result EXCEPT !.marks = marks] ELSE result
PageReviewed(p, marks) ==
  [p EXCEPT !.result.marks = marks,
            !.cache = [i \in DOMAIN p.cache |->
                         [p.cache[i] EXCEPT !.result = Marked(p.cache[i].result, p.result.object, marks)]]]

(* One edit of the review table, if the table is still there in this run.    *)
Marks == {"included", "excluded", "false_positive"}
EditRow(i, mark) ==
  /\ i \in DOMAIN page.result.marks
  /\ page' = IF ~ AfterSetup.result.given THEN AfterSetup
             ELSE PageReviewed(AfterSetup, [AfterSetup.result.marks EXCEPT ![i] = mark])
  /\ UNCHANGED savedVars

\* The number of missed circles belongs to the session, not to the result.
AddMissed(n) ==
  /\ page.result.given
  /\ page' = IF ~ AfterSetup.result.given THEN AfterSetup ELSE [AfterSetup EXCEPT !.added = n]
  /\ UNCHANGED savedVars

IncludedRows(marks) == {k \in DOMAIN marks : marks[k] = "included"}
\* The row of a test, before its items.
RunRow(p, file) ==
  LET marks == p.result.marks
  IN [hash |-> p.result.hash, items |-> <<>>, detected |-> Len(marks),
      excluded |-> Cardinality(DOMAIN marks \ IncludedRows(marks)), manual |-> p.added,
      final |-> Cardinality(IncludedRows(marks)) + p.added, file |-> file]

(* Save Shape Test, in the script that drew the page: the annotated picture,  *)
(* if one can be drawn.  Nothing is saved when the policy forbids it or when  *)
(* the table was gone in this run.                                           *)
BeginSave ==
  /\ savingTest.at = "idle" /\ page.result.given /\ Len(shapeTests) < MaxSaved
  /\ page' = AfterSetup
  /\ \/ /\ AfterSetup.result.given
        /\ savingTest' = [savingTest EXCEPT !.at = IF AfterSetup.picture # NoPicture THEN "file" ELSE "row"]
     \/ UNCHANGED savingTest
  /\ UNCHANGED <<shapeTests, files>>

WriteFile ==
  /\ savingTest.at = "file" /\ Len(files) < MaxFiles
  /\ files' = Append(files, [of |-> Drawn(page.picture), there |-> TRUE])
  /\ savingTest' = [savingTest EXCEPT !.at = "row", !.file = Len(files) + 1]
  /\ UNCHANGED <<page, shapeTests>>

\* The row committed on its own, before its items.
InsertRunAlone ==
  /\ savingTest.at = "row"
  /\ LET row == RunRow(page, savingTest.file)
     IN /\ shapeTests' = Append(shapeTests, row)
        /\ savingTest' = [savingTest EXCEPT !.at = "items", !.rows = <<row>>]
  /\ UNCHANGED <<page, files>>
\* The first INSERT opens the transaction.
InsertRun ==
  /\ savingTest.at = "row"
  /\ savingTest' = [savingTest EXCEPT !.at = "items", !.rows = <<RunRow(page, savingTest.file)>>]
  /\ UNCHANGED <<page, shapeTests, files>>

InsertItem ==
  /\ savingTest.at = "items" /\ Len(savingTest.rows[1].items) < Len(page.result.marks)
  /\ savingTest' = [savingTest EXCEPT !.rows[1].items =
                  Append(@, page.result.marks[Len(@) + 1])]
  /\ UNCHANGED <<page, shapeTests, files>>

\* After the last item the connection commits.
CommitSave ==
  /\ savingTest.at = "items" /\ Len(savingTest.rows[1].items) = Len(page.result.marks)
  /\ shapeTests' = shapeTests \o savingTest.rows
  /\ savingTest' = NotSaving
  /\ UNCHANGED <<page, files>>

(* An error at any of these steps, the commit included: the connection rolls  *)
(* its transaction back; a file that was written stays.                      *)
SaveFails ==
  /\ savingTest.at # "idle"
  /\ savingTest' = NotSaving
  /\ UNCHANGED <<page, shapeTests, files>>

\* The process stops, in a save or not: the session and the open transaction are lost.
ProcessStops ==
  /\ page' = FreshPage /\ savingTest' = NotSaving
  /\ UNCHANGED <<shapeTests, files>>

(* Open Result: the saved rows, and the saved picture, if it is there, in     *)
(* place of the session's.                                                    *)
OpenSaved(test) ==
  LET loaded == ShapeResult(NewObject(Held(AfterSetup)), test.hash, test.items)
      opened == [AfterSetup EXCEPT !.result = loaded]
  IN /\ page' = IF test.file # 0 /\ files[test.file].there
                THEN [opened EXCEPT !.picture = files[test.file].of, !.hash = test.hash]
                ELSE opened
     /\ UNCHANGED savedVars

\* The file of a saved picture is lost.
LosePicture(i) ==
  LET f == shapeTests[i].file
  IN /\ f # 0 /\ files[f].there
     /\ files' = [files EXCEPT ![f].there = FALSE]
     /\ UNCHANGED <<page, savingTest, shapeTests>>

\* Reset, and signing out: every key of the page; the browser may keep its file.
ResetPage ==
  /\ page' \in {FreshPage, [FreshPage EXCEPT !.up = page.up, !.source = page.source]}
  /\ UNCHANGED savedVars

(* A click during a save takes effect after it: save_shape_test calls nothing *)
(* of streamlit, where a script stops for a click.                           *)
Click ==
  \/ \E source \in {"upload", "sample"} : ChooseSource(source)
  \/ \E p \in ShapePictures : GivePicture(p)
  \/ \E s \in ShapeSettings : ChangeSettings(s)
  \/ TakeFileAway \/ LoadSample \/ Detect \/ ResetPage
  \/ \E i \in DOMAIN page.result.marks, mark \in Marks : EditRow(i, mark)
  \/ \E n \in 0 .. MaxAdded : AddMissed(n)
  \/ \E i \in DOMAIN shapeTests : OpenSaved(shapeTests[i])

ShapeNext ==
  \/ savingTest.at = "idle" /\ Click
  \/ BeginSave \/ WriteFile \/ InsertRun \/ InsertItem \/ CommitSave \/ SaveFails \/ ProcessStops
  \/ \E i \in DOMAIN shapeTests : LosePicture(i)
ShapeSpec == ShapeInit /\ [][ShapeNext]_shapeVars
-----------------------------------------------------------------------------
Pictures == [of : ShapePictures \cup {SamplePicture, "none"}, drawn : BOOLEAN]
ShapeResults == [object : {0} \cup Objects, hash : Pictures, marks : Seq(Marks), given : BOOLEAN]
CacheEntries == [key : Pictures \X ShapeSettings, result : ShapeResults]
ShapeFiles == [of : Pictures, there : BOOLEAN]
ShapeTests == [hash : Pictures, items : Seq(Marks), detected : Nat, excluded : Nat, manual : Nat,
               final : Nat, file : Nat]

ShapeTypeOK ==
  /\ page \in [source : {"upload", "sample"}, up : Pictures, picture : Pictures, hash : Pictures,
               settings : ShapeSettings, result : ShapeResults, cache : Seq(CacheEntries),
               added : 0 .. MaxAdded]
  /\ savingTest \in [at : {"idle", "file", "row", "items"}, file : Nat, rows : Seq(ShapeTests)]
  /\ savingTest.at = "items" <=> Len(savingTest.rows) = 1
  /\ Len(savingTest.rows) <= 1
  /\ shapeTests \in Seq(ShapeTests) /\ files \in Seq(ShapeFiles)
  /\ Len(page.cache) <= CacheLimit /\ Len(shapeTests) <= MaxSaved /\ Len(files) <= MaxFiles
  /\ page.up # NoPicture => page.source = "upload"

(* A repeated detection starts from an unreviewed result, although the review *)
(* writes into the result's own object: whatever was excluded in a review,    *)
(* then detected again, opened from the history or saved, the session's cache *)
(* holds the detector's own results (shape_detection_ui.py:515-528).          *)
CacheUnreviewed ==
  \A i \in DOMAIN page.cache : \A k \in DOMAIN page.cache[i].result.marks :
    page.cache[i].result.marks[k] = "included"

(* A test is saved as a whole or not at all, over errors and stops between    *)
(* the writes of the file, the row and each item: a test that appears has     *)
(* every row of the review as it was marked, counts that follow from its      *)
(* items and from the number of missed circles, and no picture but one that   *)
(* was written, of what the page showed; an earlier test is never touched     *)
(* (shape_detection_storage.py:206-306).                                      *)
SavedIsTheReview ==
  [][/\ Len(shapeTests') >= Len(shapeTests)
     /\ \A i \in DOMAIN shapeTests : shapeTests'[i] = shapeTests[i]
     /\ \A i \in DOMAIN shapeTests' \ DOMAIN shapeTests :
          LET test == shapeTests'[i]
              counted == Cardinality(IncludedRows(test.items))
          IN /\ test.hash = page.result.hash /\ test.items = page.result.marks
             /\ test.detected = counted + test.excluded
             /\ test.final = counted + page.added
             /\ test.file # 0 => /\ test.file \in DOMAIN files
                                 /\ files[test.file].of = Drawn(page.picture)]_shapeVars

(* "New image - clear prior result but keep settings" (shape_detection_ui.py, *)
(* at the uploader): a result goes away only for a new picture, or with the   *)
(* whole page.  In the code it goes with the next click, because the file in  *)
(* the uploader is taken for a new one in every run.                          *)
ResultUntilNewImage ==
  [][page.result.given /\ ~ page'.result.given =>
       \/ ResetPage \/ ProcessStops \/ LoadSample
       \/ \E p \in ShapePictures : GivePicture(p)]_shapeVars
=============================================================================
