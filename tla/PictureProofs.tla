-------------------------- MODULE PictureProofs --------------------------
(***************************************************************************)
(* What happens to a picture, for any items, tiles, models and caps, and    *)
(* for any number of administrators and samples: a registered sample has    *)
(* its file; tiles leave no gap, a detection that counts as a success saw   *)
(* all it says it saw, each item kept apart is counted once, by one model   *)
(* and by the consensus of several; in shape mode no review reaches the     *)
(* cache, and a saved test is its review.                                   *)
(***************************************************************************)
EXTENDS SampleLibrary, DetectionRun, ShapeRuns, CountingLemmas

----------------------------------------------------------------------------
(* SampleLibrary: files and registrations                                   *)

Working(c) == task[c] # NoTask
Adding(c)  == Working(c) /\ task[c].at \in {"write", "rename", "register", "discard"}

\* Ids are handed out before anything is known of them.
IdsAreSpent ==
  /\ \A s \in SampleIds : samples[s] # NoSample => s \in spent
  /\ \A c \in Curators : Working(c) => task[c].sample \in spent

\* A sample that is being added is nobody else's and has no row yet.
AddedAlone ==
  \A c \in Curators : Adding(c) =>
    /\ samples[task[c].sample] = NoSample
    /\ \A d \in Curators \ {c} : Working(d) => task[d].sample # task[c].sample

\* What the next step of a task relies on.
TasksInStep ==
  \A c \in Curators : Working(c) =>
    /\ task[c].at = "register" => disk[task[c].sample] = "whole"
    /\ task[c].at = "unlink" => samples[task[c].sample] = NoSample

SampleInv == SampleTypeOK /\ IdsAreSpent /\ AddedAlone /\ TasksInStep /\ RegisteredHasFile

\* What one tab of the console does in a step.
CuratorStep(c) ==
  \/ \E s \in SampleIds, row \in SampleRow : AddSample(c, s, row)
  \/ \E s \in SampleIds, b \in BOOLEAN : ToggleSample(c, s, b)
  \/ \E s \in SampleIds : DeleteSample(c, s)
  \/ WriteTemporary(c) \/ RenameTemporary(c) \/ WriteFails(c) \/ Register(c)
  \/ RegisterFails(c) \/ Discard(c) \/ DeleteRow(c) \/ DeleteFile(c) \/ TaskStops(c)

LEMMA SampleInvInit == SampleInit => SampleInv
BY SampleAssumption DEF SampleInit, SampleInv, SampleTypeOK, IdsAreSpent, AddedAlone, TasksInStep,
   RegisteredHasFile, Working, Adding

\* Every task is a record of Task; what one tab does leaves the others' alone.
LEMMA TaskTyped ==
  ASSUME SampleInv, NEW c \in Curators, Working(c)
  PROVE  task[c] \in Task /\ task[c].sample \in SampleIds
BY DEF SampleInv, SampleTypeOK, Working, Task

LEMMA TypeStep ==
  ASSUME SampleInv, NEW c \in Curators, CuratorStep(c)
  PROVE  SampleTypeOK'
<1>1. SampleTypeOK /\ (Working(c) => task[c] \in Task /\ task[c].sample \in SampleIds)
  BY TaskTyped DEF SampleInv
<1>2. ASSUME NEW s \in SampleIds, NEW row \in SampleRow, AddSample(c, s, row) PROVE SampleTypeOK'
  BY <1>1, <1>2 DEF AddSample, SampleTypeOK, Task
<1>3. ASSUME NEW s \in SampleIds, NEW b \in BOOLEAN, ToggleSample(c, s, b) PROVE SampleTypeOK'
  BY <1>1, <1>3 DEF ToggleSample, SampleTypeOK, SampleRow
<1>4. ASSUME NEW s \in SampleIds, DeleteSample(c, s) PROVE SampleTypeOK'
  BY <1>1, <1>4 DEF DeleteSample, RowFirst, SampleTypeOK, Task
<1>5. CASE WriteTemporary(c) \/ RenameTemporary(c)
  BY <1>1, <1>5 DEF WriteTemporary, RenameTemporary, TaskAt, TaskGoesTo, Working, SampleTypeOK, Task
<1>6. CASE WriteFails(c) \/ Discard(c) \/ DeleteFile(c) \/ TaskStops(c)
  BY <1>1, <1>6 DEF WriteFails, Discard, DeleteFile, TaskStops, Unlink, TaskAt, TaskEnds, Working, SampleTypeOK
<1>7. CASE Register(c)
  BY <1>1, <1>7 DEF Register, TaskAt, TaskEnds, Working, SampleTypeOK, Task
<1>8. CASE RegisterFails(c) \/ DeleteRow(c)
  BY <1>1, <1>8 DEF RegisterFails, DeleteRow, TaskAt, TaskGoesTo, Working, SampleTypeOK, Task
<1>. QED
  BY <1>2, <1>3, <1>4, <1>5, <1>6, <1>7, <1>8 DEF CuratorStep

Parts == IdsAreSpent /\ AddedAlone /\ TasksInStep /\ RegisteredHasFile

(* A step of a task on its sample s keeps the invariant, when it leaves s as  *)
(* its next step needs it: the other tasks on s are removals at most.         *)
LEMMA OwnSample ==
  ASSUME SampleInv, SampleTypeOK', NEW c \in Curators, Working(c), spent' = spent,
         NEW s \in SampleIds, s = task[c].sample,
         \A d \in Curators \ {c} : task'[d] = task[d],
         \A r \in SampleIds \ {s} : samples'[r] = samples[r] /\ disk'[r] = disk[r],
         Working(c)' => task'[c].sample = s,
         Adding(c)' => Adding(c) /\ samples'[s] = NoSample,
         Adding(c) \/ samples'[s] = NoSample \/ samples'[s] = samples[s],
         Working(c)' /\ task'[c].at = "register" => disk'[s] = "whole",
         Working(c)' /\ task'[c].at = "unlink" => samples'[s] = NoSample,
         samples'[s] # NoSample => disk'[s] = "whole"
  PROVE  Parts'
<1>. USE DEF Working, Adding
<1>0. Parts /\ SampleTypeOK
  BY DEF SampleInv, Parts
<1>1. \A d \in Curators : Working(d) => task[d].sample \in SampleIds
  BY TaskTyped
<1>2. IdsAreSpent'
  BY <1>0, <1>1 DEF Parts, IdsAreSpent
<1>3. AddedAlone'
  <2>. SUFFICES ASSUME NEW e \in Curators, Adding(e)'
                PROVE  /\ samples'[task'[e].sample] = NoSample
                       /\ \A d \in Curators \ {e} : Working(d)' => task'[d].sample # task'[e].sample
    BY DEF AddedAlone
  <2>1. CASE e = c
    <3>1. \A d \in Curators \ {c} : Working(d) => task[d].sample # s
      BY <2>1, <1>0 DEF Parts, AddedAlone
    <3>. QED
      BY <2>1, <3>1
  <2>2. CASE e # c
    <3>1. Adding(e) /\ task'[e] = task[e]
      BY <2>2
    <3>2. task[e].sample # s /\ task[e].sample \in SampleIds /\ samples[task[e].sample] = NoSample
      BY <3>1, <2>2, <1>0, <1>1 DEF Parts, AddedAlone
    <3>3. \A d \in Curators \ {e} : Working(d) => task[d].sample # task[e].sample
      BY <3>1, <1>0 DEF Parts, AddedAlone
    <3>. QED
      BY <3>1, <3>2, <3>3
  <2>. QED
    BY <2>1, <2>2
<1>4. TasksInStep'
  <2>. SUFFICES ASSUME NEW e \in Curators, Working(e)'
                PROVE  /\ task'[e].at = "register" => disk'[task'[e].sample] = "whole"
                       /\ task'[e].at = "unlink" => samples'[task'[e].sample] = NoSample
    BY DEF TasksInStep
  <2>1. CASE e = c
    BY <2>1
  <2>2. CASE e # c
    <3>1. Working(e) /\ task'[e] = task[e] /\ task[e].sample \in SampleIds
      BY <2>2, <1>1
    <3>2. /\ task[e].at = "register" => disk[task[e].sample] = "whole" /\ task[e].sample # s
          /\ task[e].at = "unlink" => samples[task[e].sample] = NoSample
      BY <3>1, <2>2, <1>0 DEF Parts, TasksInStep, AddedAlone
    <3>3. Adding(c) => task[e].sample # s
      BY <3>1, <2>2, <1>0 DEF Parts, AddedAlone
    <3>. QED
      BY <3>1, <3>2, <3>3
  <2>. QED
    BY <2>1, <2>2
<1>5. RegisteredHasFile'
  BY <1>0 DEF Parts, RegisteredHasFile
<1>. QED
  BY <1>2, <1>3, <1>4, <1>5 DEF Parts

\* What TaskGoesTo and TaskEnds do to the tasks.
LEMMA TaskMoves ==
  ASSUME SampleInv, NEW c \in Curators, Working(c), NEW step, TaskGoesTo(c, step)
  PROVE  /\ \A d \in Curators \ {c} : task'[d] = task[d]
         /\ Working(c)' => task'[c].sample = task[c].sample /\ task'[c].at = step
<1>1. task \in [Curators -> Task \cup {NoTask}] /\ task[c] \in Task
  BY TaskTyped DEF SampleInv, SampleTypeOK
<1>. QED
  BY <1>1, SampleAssumption DEF TaskGoesTo, Task, Working

LEMMA TaskOver ==
  ASSUME SampleInv, NEW c \in Curators, TaskEnds(c)
  PROVE  (\A d \in Curators \ {c} : task'[d] = task[d]) /\ ~ Working(c)'
BY DEF TaskEnds, Working, SampleInv, SampleTypeOK

LEMMA SafeStep ==
  ASSUME SampleInv, NEW c \in Curators, CuratorStep(c)
  PROVE  SampleInv'
<1>. USE DEF Working, Adding
<1>0. SampleTypeOK'
  BY TypeStep
<1>1. \A d \in Curators : Working(d) => task[d] \in Task /\ task[d].sample \in SampleIds
  BY TaskTyped
<1>2. SampleTypeOK /\ Parts
  BY DEF SampleInv, Parts
<1>. DEFINE s == task[c].sample
<1>3. ASSUME NEW r \in SampleIds, NEW row \in SampleRow, AddSample(c, r, row) PROVE Parts'
  BY <1>1, <1>2, <1>3, SampleAssumption
     DEF AddSample, SampleTypeOK, Parts, IdsAreSpent, AddedAlone, TasksInStep, RegisteredHasFile, Task
<1>4. ASSUME NEW r \in SampleIds, NEW b \in BOOLEAN, ToggleSample(c, r, b) PROVE Parts'
  <2>1. samples'[r] # NoSample /\ samples[r] # NoSample /\ \A q \in SampleIds \ {r} : samples'[q] = samples[q]
    BY <1>0, <1>2, <1>4, SampleAssumption DEF ToggleSample, SampleTypeOK, SampleRow
  <2>. QED
    BY <1>1, <1>2, <1>4, <2>1
       DEF ToggleSample, SampleTypeOK, Parts, IdsAreSpent, AddedAlone, TasksInStep, RegisteredHasFile
<1>5. ASSUME NEW r \in SampleIds, DeleteSample(c, r) PROVE Parts'
  BY <1>1, <1>2, <1>5, SampleAssumption
     DEF DeleteSample, RowFirst, SampleTypeOK, Parts, IdsAreSpent, AddedAlone, TasksInStep,
         RegisteredHasFile, Task
<1>6. ASSUME WriteTemporary(c) PROVE Parts'
  <2>1. Working(c) /\ Adding(c) /\ TaskGoesTo(c, "rename") /\ samples[s] = NoSample
    BY <1>2, <1>6 DEF WriteTemporary, TaskAt, Parts, AddedAlone
  <2>2. UNCHANGED <<samples, spent>> /\ \A r \in SampleIds \ {s} : disk'[r] = disk[r]
    BY <1>2, <1>6 DEF WriteTemporary, SampleTypeOK
  <2>. QED
    BY <1>0, <1>1, <2>1, <2>2, TaskMoves, OwnSample
<1>7. ASSUME RenameTemporary(c) PROVE Parts'
  <2>1. Working(c) /\ Adding(c) /\ TaskGoesTo(c, "register") /\ samples[s] = NoSample
    BY <1>2, <1>7 DEF RenameTemporary, TaskAt, Parts, AddedAlone
  <2>2. UNCHANGED <<samples, spent>> /\ disk'[s] = "whole" /\ \A r \in SampleIds \ {s} : disk'[r] = disk[r]
    BY <1>1, <1>2, <1>7, <2>1 DEF RenameTemporary, SampleTypeOK
  <2>. QED
    BY <1>0, <1>1, <2>1, <2>2, TaskMoves, OwnSample
<1>8. ASSUME WriteFails(c) \/ Discard(c) \/ DeleteFile(c) PROVE Parts'
  <2>1. Working(c) /\ TaskEnds(c) /\ samples[s] = NoSample
    BY <1>2, <1>8 DEF WriteFails, Discard, DeleteFile, Unlink, TaskAt, Parts, AddedAlone, TasksInStep
  <2>2. UNCHANGED <<samples, spent>> /\ \A r \in SampleIds \ {s} : disk'[r] = disk[r]
    BY <1>2, <1>8 DEF WriteFails, Discard, DeleteFile, Unlink, SampleTypeOK
  <2>. QED
    BY <1>0, <1>1, <2>1, <2>2, TaskOver, OwnSample
<1>9. ASSUME TaskStops(c) PROVE Parts'
  <2>1. Working(c) /\ TaskEnds(c) /\ UNCHANGED <<samples, disk, spent>>
    BY <1>9 DEF TaskStops
  <2>2. samples[s] # NoSample => disk[s] = "whole"
    BY <1>1, <1>2, <2>1 DEF Parts, RegisteredHasFile
  <2>. QED
    BY <1>0, <1>1, <2>1, <2>2, TaskOver, OwnSample
<1>10. ASSUME Register(c) PROVE Parts'
  <2>1. Working(c) /\ Adding(c) /\ TaskEnds(c) /\ disk[s] = "whole"
    BY <1>2, <1>10 DEF Register, TaskAt, Parts, TasksInStep
  <2>2. UNCHANGED <<disk, spent>> /\ \A r \in SampleIds \ {s} : samples'[r] = samples[r]
    BY <1>2, <1>10 DEF Register, SampleTypeOK
  <2>. QED
    BY <1>0, <1>1, <2>1, <2>2, TaskOver, OwnSample
<1>11. ASSUME RegisterFails(c) PROVE Parts'
  <2>1. Working(c) /\ Adding(c) /\ TaskGoesTo(c, "discard") /\ samples[s] = NoSample
    BY <1>2, <1>11 DEF RegisterFails, TaskAt, Parts, AddedAlone
  <2>2. UNCHANGED <<samples, disk, spent>>
    BY <1>11 DEF RegisterFails
  <2>. QED
    BY <1>0, <1>1, <2>1, <2>2, TaskMoves, OwnSample
<1>12. ASSUME DeleteRow(c) PROVE Parts'
  <2>1. Working(c) /\ TaskGoesTo(c, "unlink")
    BY <1>12 DEF DeleteRow, TaskAt
  <2>2. UNCHANGED <<disk, spent>> /\ samples'[s] = NoSample /\ \A r \in SampleIds \ {s} : samples'[r] = samples[r]
    BY <1>1, <1>2, <1>12, <2>1 DEF DeleteRow, SampleTypeOK
  <2>3. Working(c)' => task'[c].at = "unlink"
    BY <2>1, TaskMoves
  <2>. QED
    BY <1>0, <1>1, <2>1, <2>2, <2>3, TaskMoves, OwnSample
<1>. QED
  BY <1>0, <1>3, <1>4, <1>5, <1>6, <1>7, <1>8, <1>9, <1>10, <1>11, <1>12 DEF CuratorStep, SampleInv, Parts

LEMMA SampleInvNext == SampleInv /\ [SampleNext]_sampleVars => SampleInv'
<1> SUFFICES ASSUME SampleInv, [SampleNext]_sampleVars PROVE SampleInv'
  OBVIOUS
<1>1. ASSUME NEW c \in Curators, CuratorStep(c) PROVE SampleInv'
  BY <1>1, SafeStep
<1>2. ASSUME NEW g \in Galleries, DrawGallery(g) \/ \E s \in SampleIds : AddFromGallery(g, s) PROVE SampleInv'
  <2>1. UNCHANGED <<samples, disk, spent, task>>
    BY <1>2 DEF DrawGallery, AddFromGallery
  <2>2. gallery' \in [Galleries -> SUBSET SampleIds] /\ photos' \in [Galleries -> SUBSET SampleIds]
    BY <1>2 DEF DrawGallery, AddFromGallery, Offered, SampleInv, SampleTypeOK
  <2>. QED
    BY <2>1, <2>2 DEF SampleInv, SampleTypeOK, IdsAreSpent, AddedAlone, TasksInStep, RegisteredHasFile, Working, Adding
<1>3. CASE UNCHANGED sampleVars
  BY <1>3 DEF sampleVars, SampleInv, SampleTypeOK, IdsAreSpent, AddedAlone, TasksInStep, RegisteredHasFile, Working, Adding
<1>. QED
  BY <1>1, <1>2, <1>3 DEF SampleNext, CuratorStep

(* The state of the library is always of its types (admin_samples.py).        *)
THEOREM LibraryTyped == SampleSpec => []SampleTypeOK
<1>1. SampleInv => SampleTypeOK
  BY DEF SampleInv
<1>. QED
  BY <1>1, SampleInvInit, SampleInvNext, PTL DEF SampleSpec

(* However many administrators add and remove samples at once, and wherever   *)
(* their calls fail or stop, a row without a whole file is never there         *)
(* (admin_samples.py:124-214, 320-331).                                        *)
THEOREM NoRowWithoutFile == SampleSpec => []RegisteredHasFile
<1>1. SampleInv => RegisteredHasFile
  BY DEF SampleInv
<1>. QED
  BY <1>1, SampleInvInit, SampleInvNext, PTL DEF SampleSpec

----------------------------------------------------------------------------
(* DetectionRun: the requests of a photo                                    *)

AskedFields == {"next", "calls", "raw", "found", "empty", "lists", "errors", "trouble", "capped"}

\* What run_inference_on_prepared_image has gathered after some requests: until
\* one failed each was answered, and without a list of predictions all that
\* was answered is empty drafts.
Counts(next, calls, found, empty, lists, errors, untroubled) ==
  /\ next \in Nat /\ calls \in Nat /\ lists \in Nat
  /\ errors \in BOOLEAN /\ empty \in BOOLEAN /\ untroubled \in BOOLEAN
  /\ ~ errors /\ untroubled => calls = next - 1
  /\ lists = 0 => found = 0 /\ (calls > 0 => empty)
Untroubled(run) == run.trouble = ""
Gathered(run) ==
  /\ DOMAIN run = AskedFields
  /\ Counts(run.next, run.calls, run.found, run.empty, run.lists, run.errors, Untroubled(run))
  /\ Untroubled(run) \/ run.trouble = "api_error"
  /\ run.capped => run.calls >= MaxCalls

SawAll(run) ==
  /\ run.calls = run.next - 1
  /\ run.lists > 0
  /\ run.next <= Len(Todo) => run.capped /\ run.calls >= MaxCalls

SawInv ==
  /\ Gathered(asked)
  /\ results \in Seq({results[i] : i \in DOMAIN results})
  /\ SuccessSawAll

LEMMA NothingGathered == Gathered(Nothing)
BY DEF Gathered, Nothing, Counts, AskedFields, Untroubled

LEMMA CountsAfterFailure ==
  ASSUME NEW n, NEW c, NEW f, NEW e, NEW l, NEW r, NEW u, Counts(n, c, f, e, l, r, u), NEW w \in BOOLEAN
  PROVE  Counts(n + 1, c, f, e, l, w, FALSE)
BY DEF Counts

LEMMA CountsAfterList ==
  ASSUME NEW n, NEW c, NEW f, NEW e, NEW l, NEW r, NEW u, Counts(n, c, f, e, l, r, u), NEW g
  PROVE  Counts(n + 1, c + 1, g, e, l + 1, r, u)
BY DEF Counts

LEMMA CountsAfterDraft ==
  ASSUME NEW n, NEW c, NEW f, NEW e, NEW l, NEW r, NEW u, Counts(n, c, f, e, l, r, u)
  PROVE  Counts(n + 1, c + 1, f, TRUE, l, r, u)
BY DEF Counts

LEMMA FailedGathered ==
  ASSUME Gathered(asked), ~ asked.capped
  PROVE  Gathered(Failed(asked))
<1>. DEFINE run == Failed(asked)
<1>1. DOMAIN asked = AskedFields
  BY DEF Gathered
<1>2. /\ DOMAIN run = AskedFields /\ run.capped = asked.capped
      /\ run.next = asked.next + 1 /\ run.calls = asked.calls /\ run.lists = asked.lists
      /\ run.empty = asked.empty /\ run.found = asked.found
      /\ run.errors = (asked.errors \/ ~ IsTile)
  BY <1>1 DEF AskedFields, Failed
<1>7. run.trouble = (IF asked.trouble = "" THEN "api_error" ELSE asked.trouble)
  BY <1>1 DEF AskedFields, Failed
<1>. HIDE DEF run
<1>3. Untroubled(run) = FALSE /\ run.trouble = "api_error"
  BY <1>7, Zenon DEF Untroubled, Gathered
<1>4. Counts(asked.next, asked.calls, asked.found, asked.empty, asked.lists, asked.errors, Untroubled(asked))
  BY Zenon DEF Gathered
<1>5. Counts(asked.next + 1, asked.calls, asked.found, asked.empty, asked.lists, run.errors, FALSE)
  <2>1. run.errors \in BOOLEAN
    BY <1>2
  <2>. QED
    BY <1>4, <2>1, CountsAfterFailure
<1>6. Counts(run.next, run.calls, run.found, run.empty, run.lists, run.errors, Untroubled(run))
  BY <1>2, <1>3, <1>5
<1>. QED
  BY <1>2, <1>3, <1>6, Zenon DEF Gathered, run

LEMMA AnsweredGathered ==
  ASSUME NEW conf, Gathered(asked), ~ asked.capped
  PROVE  Gathered(Answered(asked, conf))
<1>. DEFINE run == Answered(asked, conf)
<1>1. DOMAIN asked = AskedFields
  BY DEF Gathered
<1>2. /\ DOMAIN run = AskedFields /\ run.capped = asked.capped
      /\ run.next = asked.next + 1 /\ run.calls = asked.calls + 1 /\ run.lists = asked.lists + 1
      /\ run.empty = asked.empty /\ run.found = asked.found + Cardinality(DOMAIN conf)
      /\ run.errors = asked.errors
  BY <1>1 DEF AskedFields, Answered
<1>7. run.trouble = asked.trouble
  BY <1>1 DEF AskedFields, Answered
<1>. HIDE DEF run
<1>3. /\ Untroubled(run) = Untroubled(asked)
      /\ Untroubled(run) \/ run.trouble = "api_error"
  BY <1>7, Zenon DEF Untroubled, Gathered
<1>4. Counts(asked.next, asked.calls, asked.found, asked.empty, asked.lists, asked.errors, Untroubled(asked))
  BY Zenon DEF Gathered
<1>5. Counts(asked.next + 1, asked.calls + 1, asked.found + Cardinality(DOMAIN conf), asked.empty, asked.lists + 1, asked.errors, Untroubled(asked))
  BY <1>4, CountsAfterList, Zenon
<1>6. Counts(run.next, run.calls, run.found, run.empty, run.lists, run.errors, Untroubled(run))
  BY <1>2, <1>3, <1>5
<1>. QED
  BY <1>2, <1>3, <1>6, Zenon DEF Gathered, run

LEMMA DraftGathered ==
  ASSUME Gathered(asked), ~ asked.capped
  PROVE  Gathered(DraftOnly(asked))
<1>. DEFINE run == DraftOnly(asked)
<1>1. DOMAIN asked = AskedFields
  BY DEF Gathered
<1>2. /\ DOMAIN run = AskedFields /\ run.capped = asked.capped
      /\ run.next = asked.next + 1 /\ run.calls = asked.calls + 1 /\ run.lists = asked.lists
      /\ run.empty = TRUE /\ run.found = asked.found
      /\ run.errors = asked.errors
  BY <1>1 DEF AskedFields, DraftOnly
<1>7. run.trouble = asked.trouble
  BY <1>1 DEF AskedFields, DraftOnly
<1>. HIDE DEF run
<1>3. /\ Untroubled(run) = Untroubled(asked)
      /\ Untroubled(run) \/ run.trouble = "api_error"
  BY <1>7, Zenon DEF Untroubled, Gathered
<1>4. Counts(asked.next, asked.calls, asked.found, asked.empty, asked.lists, asked.errors, Untroubled(asked))
  BY Zenon DEF Gathered
<1>5. Counts(asked.next + 1, asked.calls + 1, asked.found, TRUE, asked.lists, asked.errors, Untroubled(asked))
  BY <1>4, CountsAfterDraft, Zenon
<1>6. Counts(run.next, run.calls, run.found, run.empty, run.lists, run.errors, Untroubled(run))
  BY <1>2, <1>3, <1>5
<1>. QED
  BY <1>2, <1>3, <1>6, Zenon DEF Gathered, run

LEMMA CappedGathered ==
  ASSUME Gathered(asked), asked.calls >= MaxCalls
  PROVE  Gathered([asked EXCEPT !.capped = TRUE])
BY DEF Gathered, AskedFields, Untroubled

\* An adapter's success rests on an answer to all that was asked.
LEMMA SuccessHasSeen ==
  ASSUME Gathered(asked), Succeeds(asked), ~ Running, turn <= Len(Detectors)
  PROVE  SawAll(asked)
<1>0. Counts(asked.next, asked.calls, asked.found, asked.empty, asked.lists, asked.errors, Untroubled(asked))
  BY DEF Gathered
<1>1. ~ asked.errors /\ Untroubled(asked) /\ asked.calls > 0
  BY Zenon DEF Gathered, Untroubled, Succeeds, Trouble
<1>2. asked.calls = asked.next - 1
  BY <1>0, <1>1 DEF Counts
<1>3. asked.lists # 0
  <2>1. asked.lists = 0 => asked.empty /\ asked.found = 0
    BY <1>0, <1>1, Zenon DEF Counts
  <2>2. ~ (asked.empty /\ asked.found = 0)
    BY <1>1, Zenon DEF Succeeds, Trouble, Untroubled
  <2>. QED
    BY <2>1, <2>2
<1>4. asked.next <= Len(Todo) => asked.capped
  BY DEF Running
<1>5. asked.lists > 0
  BY <1>0, <1>3 DEF Counts
<1>6. asked.next <= Len(Todo) => asked.calls >= MaxCalls
  BY <1>4 DEF Gathered
<1>. QED
  BY <1>2, <1>4, <1>5, <1>6 DEF SawAll

LEMMA SawAllFromTheStart == DetectionInit => SawInv
<1>. SUFFICES ASSUME DetectionInit PROVE SawInv
  OBVIOUS
<1>1. asked = Nothing /\ results = <<>> /\ DOMAIN results = {}
  BY DEF DetectionInit
<1>2. results \in Seq({results[i] : i \in DOMAIN results})
  BY <1>1
<1>3. SuccessSawAll
  BY <1>1 DEF SuccessSawAll, Successes
<1>. QED
  BY <1>1, <1>2, <1>3, NothingGathered DEF SawInv

\* A request changes what was gathered, and nothing that was concluded.
LEMMA RequestKeepsSeen ==
  ASSUME SawInv, NEW run, Gathered(run), KeepAsked(run)
  PROVE  SawInv'
<1>1. asked' = run /\ UNCHANGED <<results, setup>>
  BY DEF KeepAsked
<1>2. Gathered(asked)'
  BY <1>1 DEF Gathered
<1>3. SuccessSawAll'
  BY <1>1 DEF SawInv, SuccessSawAll, Successes, Todo
<1>. QED
  BY <1>1, <1>2, <1>3 DEF SawInv

LEMMA RequestedKeepsSeen ==
  ASSUME SawInv, MayAsk, Requested
  PROVE  SawInv'
<1>1. Gathered(asked) /\ ~ asked.capped
  BY DEF SawInv, MayAsk, Running
<1>2. CASE KeepAsked(Failed(asked))
  BY <1>1, <1>2, FailedGathered, RequestKeepsSeen
<1>3. ASSUME NEW conf \in Sightings, KeepAsked(Answered(asked, conf)) PROVE SawInv'
  BY <1>1, <1>3, AnsweredGathered, RequestKeepsSeen
<1>. QED
  BY <1>2, <1>3 DEF Requested

LEMMA DraftedKeepsSeen ==
  ASSUME SawInv, MayAsk, Drafted
  PROVE  SawInv'
<1>1. Gathered(asked) /\ ~ asked.capped
  BY DEF SawInv, MayAsk, Running
<1>. QED
  BY <1>1, DraftGathered, RequestKeepsSeen DEF Drafted

LEMMA ConcludeKeepsSeen ==
  ASSUME SawInv, Conclude
  PROVE  SawInv'
<1>. DEFINE dets == IF Succeeds(asked) THEN Deduplicated(asked.raw, setup.strategy, IouThreshold) ELSE {}
            result == [ok |-> Succeeds(asked), asked |-> asked, dets |-> dets]
<1>1. /\ results' = Append(results, result)
      /\ result.ok = Succeeds(asked) /\ result.asked = asked
      /\ asked' = Nothing /\ setup' = setup
      /\ ~ Running /\ turn <= Len(Detectors)
  BY DEF Conclude
<1>. HIDE DEF result
<1>2. /\ results' \in Seq({results'[i] : i \in DOMAIN results'})
      /\ DOMAIN results' = DOMAIN results \cup {Len(results) + 1}
      /\ results'[Len(results) + 1] = result
      /\ \A i \in DOMAIN results : results'[i] = results[i]
  BY <1>1, ASequenceGrows DEF SawInv
<1>3. Gathered(asked)'
  BY <1>1, NothingGathered DEF Gathered
<1>4. Todo' = Todo
  BY <1>1 DEF Todo
<1>5. ASSUME NEW i \in DOMAIN results', results'[i].ok
      PROVE  /\ results'[i].asked.calls = results'[i].asked.next - 1
             /\ results'[i].asked.lists > 0
             /\ results'[i].asked.next <= Len(Todo) =>
                  results'[i].asked.capped /\ results'[i].asked.calls >= MaxCalls
  <2>1. CASE i \in DOMAIN results
    BY <1>2, <1>5, <2>1 DEF SawInv, SuccessSawAll, Successes
  <2>2. CASE i = Len(results) + 1
    <3>1. Gathered(asked) /\ Succeeds(asked)
      BY <1>1, <1>2, <1>5, <2>2 DEF SawInv
    <3>2. SawAll(asked)
      BY <1>1, <3>1, SuccessHasSeen
    <3>. QED
      BY <1>1, <1>2, <2>2, <3>2 DEF SawAll
  <2>. QED
    BY <1>2, <2>1, <2>2
<1>6. SuccessSawAll'
  BY <1>4, <1>5 DEF SuccessSawAll, Successes
<1>. QED
  BY <1>2, <1>3, <1>6 DEF SawInv

LEMMA SawStep == SawInv /\ [DetectionNext]_detectionVars => SawInv'
<1>. SUFFICES ASSUME SawInv, [DetectionNext]_detectionVars PROVE SawInv'
  OBVIOUS
<1>0. Gathered(asked)
  BY DEF SawInv
<1>1. CASE AskDynamic
  <2>0. MayAsk /\ ~ asked.capped
    BY <1>1 DEF AskDynamic, MayAsk, Running
  <2>1. CASE Requested \/ Drafted
    BY <2>0, <2>1, RequestedKeepsSeen, DraftedKeepsSeen
  <2>2. CASE KeepAsked(Failed(asked))
    BY <1>0, <2>0, <2>2, FailedGathered, RequestKeepsSeen
  <2>. QED
    BY <1>1, <2>1, <2>2 DEF AskDynamic
<1>2. CASE AskPublished
  BY <1>2, RequestedKeepsSeen, DraftedKeepsSeen DEF AskPublished
<1>3. CASE AskDirect
  BY <1>3, RequestedKeepsSeen DEF AskDirect
<1>4. CASE StopAtCap
  <2>1. asked.calls >= MaxCalls /\ KeepAsked([asked EXCEPT !.capped = TRUE])
    BY <1>4 DEF StopAtCap, KeepAsked
  <2>. QED
    BY <1>0, <2>1, CappedGathered, RequestKeepsSeen
<1>5. CASE Conclude
  BY <1>5, ConcludeKeepsSeen
<1>6. CASE TakeConsensus \/ UNCHANGED detectionVars
  <2>1. UNCHANGED <<setup, asked, results>>
    BY <1>6 DEF TakeConsensus, detectionVars
  <2>. QED
    BY <2>1 DEF SawInv, Gathered, SuccessSawAll, Successes, Todo
<1>. QED
  BY <1>1, <1>2, <1>3, <1>4, <1>5, <1>6 DEF DetectionNext

\* A result that counts as a success rests on an answer to every request
\* that was sent and on at least one list of predictions, whatever the items,
\* the tiles, the models and the cap, and however requests fail between.
THEOREM SuccessesSawAll == DetectionSpec => []SuccessSawAll
<1>1. SawInv => SuccessSawAll
  BY DEF SawInv
<1>. QED
  BY <1>1, SawAllFromTheStart, SawStep, PTL DEF DetectionSpec

----------------------------------------------------------------------------
(* Overlap: one list of detections                                          *)

DetectionFields == {"id", "from", "high", "item", "cls", "conf", "l", "r", "model", "scale", "tile"}

\* Detections as the code is given them: finitely many, each with a place of its own.
Listed(dets) ==
  /\ IsFiniteSet(dets)
  /\ \A d \in dets : d.id \in Int /\ d.conf \in Int
  /\ \A d, e \in dets : d.id = e.id => d = e

LEMMA PartListed ==
  ASSUME NEW dets, Listed(dets), NEW some \in SUBSET dets
  PROVE  Listed(some)
BY FS_Subset DEF Listed

\* Sorting by confidence puts every detection in the list once.
LEMMA BestFirstListsAll ==
  ASSUME NEW dets, Listed(dets), NEW row, row = BestFirst(dets)
  PROVE  /\ Cardinality(dets) \in Nat /\ Len(row) = Cardinality(dets)
         /\ row \in [1 .. Cardinality(dets) -> dets]
         /\ \A d \in dets : \E n \in 1 .. Cardinality(dets) : row[n] = d
<1>. DEFINE before == {p \in dets \X dets : Better(p[1], p[2])}
<1>1. \A a, b \in dets : <<a, b>> \in before <=> Better(a, b)
  OBVIOUS
<1>2. \A a, b \in dets : a.conf \in Int /\ a.id \in Int /\ (a # b => a.id # b.id)
  BY DEF Listed
<1>3. InARow(dets, before)
  <2>. HIDE DEF before
  <2>1. \A x \in dets : <<x, x>> \notin before
    BY <1>1, <1>2 DEF Better
  <2>2. \A x, y \in dets : x # y => <<x, y>> \in before \/ <<y, x>> \in before
    BY <1>1, <1>2 DEF Better
  <2>3. ASSUME NEW x \in dets, NEW y \in dets, NEW z \in dets, <<x, y>> \in before, <<y, z>> \in before
        PROVE  <<x, z>> \in before
    <3>1. Better(x, y) /\ Better(y, z)
      BY <1>1, <2>3
    <3>2. Better(x, z)
      BY <1>2, <3>1 DEF Better
    <3>. QED
      BY <1>1, <3>2
  <2>. QED
    BY <2>1, <2>2, <2>3 DEF InARow
<1>4. row = EachPlace(dets, before)
  BY Zenon DEF BestFirst, InOrder, EachPlace
<1>. HIDE DEF before
<1>. QED
  BY <1>3, <1>4, RowOfAll DEF Listed

\* The scan of apply_nms, detection by detection.
LEMMA KeptStepByStep ==
  ASSUME NEW dets, Listed(dets), NEW iou, NEW row, row = BestFirst(dets), NEW N, N = Cardinality(dets)
  PROVE  /\ Kept(dets, iou)[0] = {}
         /\ \A n \in 1 .. N : Kept(dets, iou)[n] = KeepBest(Kept(dets, iou)[n - 1], row[n], iou)
<1>. DEFINE Scan(k) == k = [n \in 0 .. N |-> IF n = 0 THEN {} ELSE KeepBest(k[n - 1], row[n], iou)]
            V == SUBSET dets
            Step == [p \in V \X (1 .. N) |-> KeepBest(p[1], row[p[2]], iou)]
<1>1. N \in Nat /\ Len(row) = N /\ row \in [1 .. N -> dets]
  BY BestFirstListsAll
<1>2. Kept(dets, iou) = CHOOSE k : Scan(k)
  BY <1>1, Zenon DEF Kept
<1>3. {} \in V /\ StepIn(N, V, Step)
  BY <1>1 DEF KeepBest, StepIn
<1>4. \A p \in V \X (1 .. N) : Step[p] = KeepBest(p[1], row[p[2]], iou)
  OBVIOUS
<1>5. PICK f : Follows(f, N, V, {}, Step)
  <2>. HIDE DEF V, Step
  <2>. QED
    BY <1>1, <1>3, Recursion
<1>6. ASSUME NEW n \in 1 .. N PROVE f[n] = KeepBest(f[n - 1], row[n], iou)
  <2>1. n - 1 \in 0 .. N /\ <<f[n - 1], n>> \in V \X (1 .. N)
    BY <1>1, <1>5 DEF Follows
  <2>. HIDE DEF Step, V
  <2>. QED
    BY <1>4, <1>5, <2>1 DEF Follows
<1>7. Scan(f)
  <2>1. f = [n \in 0 .. N |-> f[n]]
    BY <1>5 DEF Follows
  <2>2. \A n \in 0 .. N : f[n] = IF n = 0 THEN {} ELSE KeepBest(f[n - 1], row[n], iou)
    BY <1>1, <1>5, <1>6 DEF Follows
  <2>. HIDE DEF V, Step
  <2>. QED
    BY <2>1, <2>2
<1>8. Scan(Kept(dets, iou))
  <2>. HIDE DEF Scan
  <2>. QED
    BY <1>2, <1>7
<1>. HIDE DEF V, Step
<1>9. 0 \in 0 .. N /\ \A n \in 1 .. N : n \in 0 .. N /\ n # 0
  BY <1>1
<1>. QED
  BY <1>8, <1>9

\* What apply_nms keeps are detections of the list; each detection is kept or
\* suppressed by one that is kept; and of two that are kept one at least does
\* not suppress the other.
KeptSound(kept, dets, seen, iou) ==
  /\ kept \subseteq dets
  /\ \A d \in seen : d \in kept \/ \E k \in kept : Suppresses(k, d, iou)
  /\ \A k, m \in kept : k # m => ~ (Suppresses(k, m, iou) /\ Suppresses(m, k, iou))

LEMMA NmsKeeps ==
  ASSUME NEW dets, Listed(dets), NEW iou
  PROVE  KeptSound(Nms(dets, iou), dets, dets, iou)
<1>. DEFINE N == Cardinality(dets)
            row == BestFirst(dets)
            kept == Kept(dets, iou)
            Seen(n) == {d \in dets : \E m \in 1 .. n : row[m] = d}
            Good == {n \in 0 .. N : KeptSound(kept[n], dets, Seen(n), iou)}
<1>1. N \in Nat /\ row \in [1 .. N -> dets] /\ \A d \in dets : \E n \in 1 .. N : row[n] = d
  BY BestFirstListsAll
<1>2. kept[0] = {} /\ \A n \in 1 .. N : kept[n] = KeepBest(kept[n - 1], row[n], iou)
  BY KeptStepByStep
<1>3. Nms(dets, iou) = kept[N]
  BY DEF Nms
<1>4. Seen(0) = {} /\ Seen(N) = dets
  BY <1>1
<1>5. ASSUME NEW n \in 1 .. N PROVE Seen(n) = Seen(n - 1) \cup {row[n]} /\ row[n] \in dets
  BY <1>1
<1>. HIDE DEF N, row, kept, Seen
<1>6. 0 \in Good
  BY <1>1, <1>2, <1>4 DEF KeptSound
<1>7. ASSUME NEW n \in 1 .. N, n - 1 \in Good PROVE n \in Good
  <2>. DEFINE old == kept[n - 1]
              d == row[n]
  <2>1. KeptSound(old, dets, Seen(n - 1), iou) /\ kept[n] = KeepBest(old, d, iou)
    BY <1>2, <1>7
  <2>2. Seen(n) = Seen(n - 1) \cup {d} /\ d \in dets
    BY <1>5
  <2>. HIDE DEF old, d
  <2>3. KeptSound(kept[n], dets, Seen(n), iou)
    <3>1. CASE \E k \in old : Suppresses(k, d, iou)
      BY <2>1, <2>2, <3>1, Zenon DEF KeepBest, KeptSound
    <3>2. CASE ~ \E k \in old : Suppresses(k, d, iou)
      <4>1. kept[n] = old \cup {d}
        BY <2>1, <3>2, Zenon DEF KeepBest
      <4>. QED
        BY <2>1, <2>2, <3>2, <4>1 DEF KeptSound
    <3>. QED
      BY <3>1, <3>2
  <2>. QED
    BY <1>1, <2>3
<1>8. N \in 0 .. N
  BY <1>1
<1>9. N \in Good
  <2>. HIDE DEF Good
  <2>. QED
    BY <1>1, <1>6, <1>7, <1>8, StepByStep
<1>. QED
  BY <1>3, <1>4, <1>9

----------------------------------------------------------------------------
(* Overlap: clusters                                                        *)

Row(row, N, dets) == N \in Nat /\ row \in [1 .. N -> dets] /\ Len(row) = N
GrownFrom(grown, N, seed, row, taken, strategy, iou) ==
  /\ grown[0] = {seed}
  /\ \A n \in 1 .. N : grown[n] = Taking(strategy, seed, grown[n - 1], row[n], taken, iou)

\* The cluster of a seed, detection by detection.
LEMMA GrowsStepByStep ==
  ASSUME NEW dets, NEW N, NEW row, Row(row, N, dets), NEW seed \in dets, NEW taken, NEW strategy, NEW iou
  PROVE  GrownFrom(Growing(seed, row, taken, strategy, iou), N, seed, row, taken, strategy, iou)
<1>1. N \in Nat /\ row \in [1 .. N -> dets] /\ Len(row) = N
  BY DEF Row
<1>. DEFINE grown == Growing(seed, row, taken, strategy, iou)
<1>. DEFINE Scan(k) == k = [n \in 0 .. N |->
                              IF n = 0 THEN {seed} ELSE Taking(strategy, seed, k[n - 1], row[n], taken, iou)]
            V == SUBSET dets
            Step == [p \in V \X (1 .. N) |-> Taking(strategy, seed, p[1], row[p[2]], taken, iou)]
<1>2. grown = CHOOSE k : Scan(k)
  BY <1>1, Zenon DEF Growing
<1>3. {seed} \in V /\ StepIn(N, V, Step)
  BY <1>1 DEF Taking, StepIn
<1>4. \A p \in V \X (1 .. N) : Step[p] = Taking(strategy, seed, p[1], row[p[2]], taken, iou)
  OBVIOUS
<1>5. PICK f : Follows(f, N, V, {seed}, Step)
  <2>. HIDE DEF V, Step
  <2>. QED
    BY <1>1, <1>3, Recursion
<1>6. ASSUME NEW n \in 1 .. N PROVE f[n] = Taking(strategy, seed, f[n - 1], row[n], taken, iou)
  <2>1. n - 1 \in 0 .. N /\ <<f[n - 1], n>> \in V \X (1 .. N)
    BY <1>1, <1>5 DEF Follows
  <2>. HIDE DEF Step, V
  <2>. QED
    BY <1>4, <1>5, <2>1 DEF Follows
<1>7. Scan(f)
  <2>1. f = [n \in 0 .. N |-> f[n]]
    BY <1>1, <1>5 DEF Follows
  <2>2. \A n \in 0 .. N : f[n] = IF n = 0 THEN {seed} ELSE Taking(strategy, seed, f[n - 1], row[n], taken, iou)
    BY <1>1, <1>5, <1>6 DEF Follows
  <2>. HIDE DEF V, Step
  <2>. QED
    BY <2>1, <2>2
<1>8. Scan(grown)
  <2>. HIDE DEF Scan, grown
  <2>. QED
    BY <1>2, <1>7
<1>. HIDE DEF V, Step
<1>9. 0 \in 0 .. N /\ \A n \in 1 .. N : n \in 0 .. N /\ n # 0
  BY <1>1
<1>. HIDE DEF grown
<1>10. GrownFrom(grown, N, seed, row, taken, strategy, iou)
  BY <1>8, <1>9 DEF GrownFrom
<1>. QED
  BY <1>10 DEF grown

(* A set of detections that is closed under joining: whatever joins a group *)
(* of its members, by the strategy, is a member.                            *)
Closed(some, dets, strategy, iou) ==
  \A seed \in some : \A group \in SUBSET some : \A d \in dets :
    seed \in group /\ Joins(strategy, seed, group, d, iou) => d \in some

(* Detections that all join one another, whatever the group they find.       *)
Mutual(twins, dets, strategy, iou) ==
  \A seed \in twins : \A group \in SUBSET dets : \A d \in twins :
    seed \in group => Joins(strategy, seed, group, d, iou)

\* A cluster has its seed, takes nothing that is taken, and stays in any closed
\* set; and of detections that join one another it takes all that are left.
GrownAround(cluster, seed, taken, dets, strategy, iou) ==
  /\ seed \in cluster /\ cluster \subseteq dets
  /\ \A d \in cluster : d = seed \/ d \notin taken
  /\ \A some \in SUBSET dets :
       seed \in some /\ Closed(some, dets, strategy, iou) => cluster \subseteq some
  /\ \A twins \in SUBSET dets :
       seed \in twins /\ Mutual(twins, dets, strategy, iou) => twins \ taken \subseteq cluster

LEMMA ClusterGrown ==
  ASSUME NEW dets, Listed(dets), NEW row, row = BestFirst(dets), NEW seed \in dets, NEW taken,
         NEW strategy, NEW iou, NEW cluster, cluster = ClusterOf(seed, row, taken, strategy, iou)
  PROVE  GrownAround(cluster, seed, taken, dets, strategy, iou)
<1>. DEFINE N == Cardinality(dets)
            grown == Growing(seed, row, taken, strategy, iou)
            Seen(n) == {d \in dets : \E m \in 1 .. n : row[m] = d}
<1>1. N \in Nat /\ row \in [1 .. N -> dets] /\ Len(row) = N /\ \A d \in dets : \E n \in 1 .. N : row[n] = d
  BY BestFirstListsAll
<1>. HIDE DEF N
<1>2. grown[0] = {seed} /\ \A n \in 1 .. N : grown[n] = Taking(strategy, seed, grown[n - 1], row[n], taken, iou)
  <2>1. Row(row, N, dets)
    BY <1>1 DEF Row
  <2>2. GrownFrom(grown, N, seed, row, taken, strategy, iou)
    BY <2>1, GrowsStepByStep
  <2>. HIDE DEF grown
  <2>. QED
    BY <2>2 DEF GrownFrom
<1>3. cluster = grown[N]
  BY <1>1 DEF ClusterOf
<1>4. Seen(0) = {} /\ Seen(N) = dets
  BY <1>1
<1>5. ASSUME NEW n \in 1 .. N PROVE Seen(n) = Seen(n - 1) \cup {row[n]} /\ row[n] \in dets
  BY <1>1
<1>6. N \in 0 .. N
  BY <1>1
<1>. HIDE DEF grown, Seen
<1>7. \A n \in 0 .. N : /\ seed \in grown[n] /\ grown[n] \subseteq dets
                        /\ \A d \in grown[n] : d = seed \/ d \notin taken
  <2>. DEFINE Good == {n \in 0 .. N : /\ seed \in grown[n] /\ grown[n] \subseteq dets
                                      /\ \A d \in grown[n] : d = seed \/ d \notin taken}
  <2>1. 0 \in Good
    BY <1>1, <1>2
  <2>2. ASSUME NEW n \in 1 .. N, n - 1 \in Good PROVE n \in Good
    <3>1. grown[n] = Taking(strategy, seed, grown[n - 1], row[n], taken, iou) /\ row[n] \in dets
      BY <1>2, <1>5
    <3>2. grown[n] = grown[n - 1] \/ (grown[n] = grown[n - 1] \cup {row[n]} /\ row[n] \notin taken)
      BY <3>1, Zenon DEF Taking
    <3>. QED
      BY <1>1, <2>2, <3>1, <3>2
  <2>3. \A n \in 0 .. N : n \in Good
    <3>. HIDE DEF Good
    <3>. QED
      BY <1>1, <2>1, <2>2, StepByStep
  <2>. QED
    BY <2>3
<1>8. ASSUME NEW some \in SUBSET dets, seed \in some, Closed(some, dets, strategy, iou)
      PROVE  cluster \subseteq some
  <2>. DEFINE Good == {n \in 0 .. N : grown[n] \subseteq some}
  <2>1. 0 \in Good
    BY <1>1, <1>2, <1>8
  <2>2. ASSUME NEW n \in 1 .. N, n - 1 \in Good PROVE n \in Good
    <3>1. grown[n] = Taking(strategy, seed, grown[n - 1], row[n], taken, iou) /\ row[n] \in dets
      BY <1>2, <1>5
    <3>2. grown[n - 1] \in SUBSET some /\ seed \in grown[n - 1]
      BY <1>1, <1>7, <2>2
    <3>3. \/ grown[n] = grown[n - 1]
          \/ grown[n] = grown[n - 1] \cup {row[n]} /\ Joins(strategy, seed, grown[n - 1], row[n], iou)
      BY <3>1, Zenon DEF Taking
    <3>4. Joins(strategy, seed, grown[n - 1], row[n], iou) => row[n] \in some
      BY <1>8, <3>1, <3>2, Zenon DEF Closed
    <3>. QED
      BY <1>1, <3>2, <3>3, <3>4
  <2>3. N \in Good
    <3>. HIDE DEF Good
    <3>. QED
      BY <1>1, <1>6, <2>1, <2>2, StepByStep
  <2>. QED
    BY <1>3, <2>3
<1>9. ASSUME NEW twins \in SUBSET dets, seed \in twins, Mutual(twins, dets, strategy, iou)
      PROVE  twins \ taken \subseteq cluster
  <2>. DEFINE Good == {n \in 0 .. N : (twins \cap Seen(n)) \ taken \subseteq grown[n]}
  <2>1. 0 \in Good
    BY <1>1, <1>4
  <2>2. ASSUME NEW n \in 1 .. N, n - 1 \in Good PROVE n \in Good
    <3>1. grown[n] = Taking(strategy, seed, grown[n - 1], row[n], taken, iou) /\ row[n] \in dets
      BY <1>2, <1>5
    <3>2. grown[n - 1] \in SUBSET dets /\ seed \in grown[n - 1]
      BY <1>1, <1>7
    <3>3. grown[n - 1] \subseteq grown[n]
      BY <3>1, Zenon DEF Taking
    <3>4. row[n] \in twins \ taken => row[n] \in grown[n]
      <4>1. row[n] \in twins => Joins(strategy, seed, grown[n - 1], row[n], iou)
        BY <1>9, <3>2, Zenon DEF Mutual
      <4>2. row[n] \in grown[n - 1] \cup {row[n]}
        OBVIOUS
      <4>. QED
        BY <3>1, <4>1, <4>2, Zenon DEF Taking
    <3>5. Seen(n) = Seen(n - 1) \cup {row[n]}
      BY <1>5
    <3>. QED
      BY <1>1, <2>2, <3>3, <3>4, <3>5
  <2>3. N \in Good
    <3>. HIDE DEF Good
    <3>. QED
      BY <1>1, <1>6, <2>1, <2>2, StepByStep
  <2>. QED
    BY <1>3, <1>4, <2>3
<1>. QED
  BY <1>3, <1>6, <1>7, <1>8, <1>9 DEF GrownAround

\* The clusters, seed by seed.
ClusteredFrom(done, N, row, strategy, iou) ==
  /\ done[0] = {}
  /\ \A n \in 1 .. N : done[n] = AddCluster(done[n - 1], row[n], row, strategy, iou)

LEMMA ClustersStepByStep ==
  ASSUME NEW dets, Listed(dets), NEW row, row = BestFirst(dets), NEW N, N = Cardinality(dets),
         NEW strategy, NEW iou
  PROVE  ClusteredFrom(Clustering(dets, strategy, iou), N, row, strategy, iou)
<1>1. N \in Nat /\ row \in [1 .. N -> dets] /\ Len(row) = N
  BY BestFirstListsAll
<1>. DEFINE done == Clustering(dets, strategy, iou)
            Scan(k) == k = [n \in 0 .. N |-> IF n = 0 THEN {} ELSE AddCluster(k[n - 1], row[n], row, strategy, iou)]
            V == SUBSET (SUBSET dets)
            Step == [p \in V \X (1 .. N) |-> AddCluster(p[1], row[p[2]], row, strategy, iou)]
<1>2. done = CHOOSE k : Scan(k)
  BY <1>1, Zenon DEF Clustering
<1>3. {} \in V /\ StepIn(N, V, Step)
  <2>1. ASSUME NEW old \in V, NEW n \in 1 .. N
        PROVE  AddCluster(old, row[n], row, strategy, iou) \in V
    <3>1. row[n] \in dets
      BY <1>1
    <3>2. ClusterOf(row[n], row, UNION old, strategy, iou) \subseteq dets
      BY <3>1, ClusterGrown DEF GrownAround
    <3>3. AddCluster(old, row[n], row, strategy, iou)
            \in {old, old \cup {ClusterOf(row[n], row, UNION old, strategy, iou)}}
      BY Zenon DEF AddCluster
    <3>. QED
      BY <3>2, <3>3
  <2>. HIDE DEF V
  <2>2. \A p \in V \X (1 .. N) : AddCluster(p[1], row[p[2]], row, strategy, iou) \in V
    BY <2>1
  <2>3. {} \in V
    BY DEF V
  <2>. QED
    BY <2>2, <2>3 DEF StepIn
<1>4. \A p \in V \X (1 .. N) : Step[p] = AddCluster(p[1], row[p[2]], row, strategy, iou)
  OBVIOUS
<1>5. PICK f : Follows(f, N, V, {}, Step)
  <2>. HIDE DEF V, Step
  <2>. QED
    BY <1>1, <1>3, Recursion
<1>6. ASSUME NEW n \in 1 .. N PROVE f[n] = AddCluster(f[n - 1], row[n], row, strategy, iou)
  <2>1. n - 1 \in 0 .. N /\ <<f[n - 1], n>> \in V \X (1 .. N)
    BY <1>1, <1>5 DEF Follows
  <2>. HIDE DEF Step, V
  <2>. QED
    BY <1>4, <1>5, <2>1 DEF Follows
<1>7. Scan(f)
  <2>1. f = [n \in 0 .. N |-> f[n]]
    BY <1>5 DEF Follows
  <2>2. \A n \in 0 .. N : f[n] = IF n = 0 THEN {} ELSE AddCluster(f[n - 1], row[n], row, strategy, iou)
    BY <1>1, <1>5, <1>6 DEF Follows
  <2>. HIDE DEF V, Step
  <2>. QED
    BY <2>1, <2>2
<1>8. Scan(done)
  <2>. HIDE DEF Scan, done
  <2>. QED
    BY <1>2, <1>7
<1>. HIDE DEF V, Step
<1>9. 0 \in 0 .. N /\ \A n \in 1 .. N : n \in 0 .. N /\ n # 0
  BY <1>1
<1>. HIDE DEF done
<1>10. ClusteredFrom(done, N, row, strategy, iou)
  BY <1>8, <1>9 DEF ClusteredFrom
<1>. QED
  BY <1>10 DEF done

\* Each cluster grew from a seed, and what is closed around the seed holds it.
Seeded(cluster, dets, strategy, iou) ==
  /\ cluster \subseteq dets
  /\ \E seed \in cluster : \A some \in SUBSET dets :
       seed \in some /\ Closed(some, dets, strategy, iou) => cluster \subseteq some

\* What does not belong to the twins is closed around something without them.
Separate(twins, dets, strategy, iou) ==
  \A d \in dets \ twins : \E some \in SUBSET (dets \ twins) :
    d \in some /\ Closed(some, dets, strategy, iou)

\* Of the clusters only one has any of the twins, and it has them all.
OneHolds(done, twins) ==
  \E g \in done : twins \subseteq g /\ \A h \in done : h \cap twins # {} => h = g

ClustersSound(done, seen, dets, strategy, iou) ==
  /\ \A g \in done : Seeded(g, dets, strategy, iou)
  /\ seen \subseteq UNION done
  /\ \A twins \in SUBSET dets :
       Mutual(twins, dets, strategy, iou) /\ Separate(twins, dets, strategy, iou)
       => twins \cap UNION done = {} \/ OneHolds(done, twins)

LEMMA ClusterAdded ==
  ASSUME NEW dets, Listed(dets), NEW row, row = BestFirst(dets), NEW strategy, NEW iou,
         NEW done, NEW seen, ClustersSound(done, seen, dets, strategy, iou), NEW seed \in dets,
         NEW next, next = AddCluster(done, seed, row, strategy, iou)
  PROVE  ClustersSound(next, seen \cup {seed}, dets, strategy, iou)
<1>1. CASE seed \in UNION done
  <2>1. next = done
    BY <1>1 DEF AddCluster
  <2>. QED
    BY <1>1, <2>1, Zenon DEF ClustersSound
<1>2. CASE seed \notin UNION done
  <2>. DEFINE taken == UNION done
              c == ClusterOf(seed, row, taken, strategy, iou)
  <2>1. next = done \cup {c} /\ seed \notin taken
    BY <1>2 DEF AddCluster
  <2>2. /\ seed \in c /\ c \subseteq dets
        /\ \A some \in SUBSET dets : seed \in some /\ Closed(some, dets, strategy, iou) => c \subseteq some
        /\ \A twins \in SUBSET dets :
             seed \in twins /\ Mutual(twins, dets, strategy, iou) => twins \ taken \subseteq c
    <3>1. c = ClusterOf(seed, row, taken, strategy, iou)
      OBVIOUS
    <3>. HIDE DEF c, taken
    <3>2. GrownAround(c, seed, taken, dets, strategy, iou)
      BY <3>1, ClusterGrown
    <3>. QED
      BY <3>2, Zenon DEF GrownAround
  <2>. HIDE DEF c
  <2>3. Seeded(c, dets, strategy, iou)
    BY <2>2, Zenon DEF Seeded
  <2>4. ASSUME NEW twins \in SUBSET dets, Mutual(twins, dets, strategy, iou), Separate(twins, dets, strategy, iou)
        PROVE  twins \cap UNION next = {} \/ OneHolds(next, twins)
    <3>1. twins \cap taken = {} \/ OneHolds(done, twins)
      BY <2>4 DEF ClustersSound
    <3>2. CASE seed \in twins
      <4>1. twins \cap taken = {}
        BY <2>1, <3>1, <3>2 DEF OneHolds
      <4>2. twins \subseteq c
        BY <2>2, <2>4, <3>2, <4>1
      <4>3. \A h \in next : h \cap twins # {} => h = c
        BY <2>1, <4>1
      <4>. QED
        BY <2>1, <4>2, <4>3 DEF OneHolds
    <3>3. CASE seed \notin twins
      <4>1. PICK some \in SUBSET (dets \ twins) : seed \in some /\ Closed(some, dets, strategy, iou)
        BY <2>4, <3>3 DEF Separate
      <4>2. c \subseteq dets \ twins
        BY <2>2, <4>1
      <4>3. twins \cap taken = {} => twins \cap UNION next = {}
        BY <2>1, <4>2
      <4>4. OneHolds(done, twins) => OneHolds(next, twins)
        BY <2>1, <4>2 DEF OneHolds
      <4>. QED
        BY <3>1, <4>3, <4>4
    <3>. QED
      BY <3>2, <3>3
  <2>5. \A g \in next : Seeded(g, dets, strategy, iou)
    BY <2>1, <2>3 DEF ClustersSound
  <2>6. seen \cup {seed} \subseteq UNION next
    BY <2>1, <2>2 DEF ClustersSound
  <2>. QED
    BY <2>4, <2>5, <2>6 DEF ClustersSound
<1>. QED
  BY <1>1, <1>2

LEMMA ClustersAreSound ==
  ASSUME NEW dets, Listed(dets), NEW strategy, NEW iou
  PROVE  ClustersSound(Clusters(dets, strategy, iou), dets, dets, strategy, iou)
<1>. DEFINE N == Cardinality(dets)
            row == BestFirst(dets)
            done == Clustering(dets, strategy, iou)
            Seen(n) == {d \in dets : \E m \in 1 .. n : row[m] = d}
            Good == {n \in 0 .. N : ClustersSound(done[n], Seen(n), dets, strategy, iou)}
<1>1. N \in Nat /\ row \in [1 .. N -> dets] /\ \A d \in dets : \E n \in 1 .. N : row[n] = d
  BY BestFirstListsAll
<1>2. done[0] = {} /\ \A n \in 1 .. N : done[n] = AddCluster(done[n - 1], row[n], row, strategy, iou)
  <2>1. ClusteredFrom(done, N, row, strategy, iou)
    BY ClustersStepByStep
  <2>. HIDE DEF done, N, row
  <2>. QED
    BY <2>1 DEF ClusteredFrom
<1>3. Clusters(dets, strategy, iou) = done[N]
  BY DEF Clusters
<1>4. Seen(0) = {} /\ Seen(N) = dets
  BY <1>1
<1>5. ASSUME NEW n \in 1 .. N PROVE Seen(n) = Seen(n - 1) \cup {row[n]} /\ row[n] \in dets
  BY <1>1
<1>6. row = BestFirst(dets)
  OBVIOUS
<1>. HIDE DEF N, row, done, Seen
<1>7. 0 \in Good
  BY <1>1, <1>2, <1>4 DEF ClustersSound
<1>8. ASSUME NEW n \in 1 .. N, n - 1 \in Good PROVE n \in Good
  <2>1. ClustersSound(done[n - 1], Seen(n - 1), dets, strategy, iou) /\ n \in 0 .. N
    BY <1>1, <1>8
  <2>2. ClustersSound(done[n], Seen(n - 1) \cup {row[n]}, dets, strategy, iou)
    BY <1>2, <1>5, <1>6, <2>1, ClusterAdded
  <2>3. ClustersSound(done[n], Seen(n), dets, strategy, iou)
    BY <1>5, <2>2
  <2>. QED
    BY <2>1, <2>3
<1>9. N \in Good
  <2>1. N \in 0 .. N
    BY <1>1
  <2>. HIDE DEF Good
  <2>. QED
    BY <1>1, <1>7, <1>8, <2>1, StepByStep
<1>. QED
  BY <1>3, <1>4, <1>9

----------------------------------------------------------------------------
(* Overlap: boxes                                                           *)

LEMMA GreatestOfTwo ==
  ASSUME NEW a \in Int, NEW b \in Int
  PROVE  Max({a, b}) = (IF a >= b THEN a ELSE b) /\ Min({a, b}) = (IF a <= b THEN a ELSE b)
BY DEF Max, Min

\* Two boxes that are the same overlap as much as anyone can ask.
LEMMA SameBox ==
  ASSUME NEW a, NEW b, NEW x \in Int, NEW y \in Int, x < y,
         a.l = x, b.l = x, a.r = y, b.r = y, NEW pct \in 0 .. 100
  PROVE  IouAtLeast(a, b, pct) /\ IosAtLeast(a, b, pct)
<1>. DEFINE w == y - x
<1>1. w \in Int /\ w > 0
  OBVIOUS
<1>2. BoxWidth(a) = w /\ BoxWidth(b) = w
  BY DEF BoxWidth
<1>3. Shared(a, b) = w
  <2>1. Min({y, y}) = y /\ Max({x, x}) = x
    BY GreatestOfTwo
  <2>2. Max({0, w}) = w
    BY <1>1, GreatestOfTwo
  <2>. QED
    BY <2>1, <2>2 DEF Shared
<1>4. Min({w, w}) = w
  BY <1>1, GreatestOfTwo
<1>. HIDE DEF w
<1>5. w + w - w = w
  BY <1>1
<1>6. Reaches(w, w, pct)
  <2>1. (100 - pct) * w >= 0
    BY <1>1
  <2>2. 100 * w >= pct * w
    BY <1>1, <2>1
  <2>. QED
    BY <1>1, <2>2 DEF Reaches
<1>. QED
  BY <1>2, <1>3, <1>4, <1>5, <1>6 DEF IouAtLeast, IosAtLeast

LEMMA SameCentre ==
  ASSUME NEW a, NEW b, NEW x \in Int, NEW y \in Int, x < y,
         a.l = x, b.l = x, a.r = y, b.r = y, NEW limit \in Nat
  PROVE  CentresWithin(a, b, limit)
<1>1. limit * ((y - x) + (y - x)) >= 0
  OBVIOUS
<1>2. (x + y) - (x + y) = 0
  OBVIOUS
<1>. QED
  BY <1>1, <1>2 DEF CentresWithin, BoxWidth

\* So boxes of one class that are the same join whatever the group.
LEMMA SameBoxJoins ==
  ASSUME NEW a, NEW b, NEW x \in Int, NEW y \in Int, x < y,
         a.l = x, b.l = x, a.r = y, b.r = y, a.cls = b.cls, NEW iou \in 0 .. 100,
         NEW group, a \in group, NEW strategy \in {"nmm", "conservative"}
  PROVE  Joins(strategy, a, group, b, iou) /\ Suppresses(a, b, iou)
<1>1. IouAtLeast(a, b, iou) /\ IosAtLeast(a, b, 85) /\ IosAtLeast(a, b, 90)
  BY SameBox
<1>2. CentresWithin(a, b, 245) /\ CentresWithin(a, b, 350)
  BY SameCentre
<1>3. LikelyDuplicate(a, b, iou)
  BY <1>1, <1>2, Zenon DEF LikelyDuplicate
<1>4. Joins("nmm", a, group, b, iou) /\ Joins("conservative", a, group, b, iou)
  BY <1>1, <1>3 DEF Joins
<1>. QED
  BY <1>1, <1>4 DEF Suppresses

\* A final detection stands for what it was merged from.
LEMMA MergedFrom ==
  ASSUME NEW group, Listed(group), group # {}, \A d \in group : DOMAIN d = DetectionFields
  PROVE  Merged(group).from = UNION {d.from : d \in group}
<1>1. BestFirst(group)[1] \in group
  <2>1. Cardinality(group) \in Nat /\ BestFirst(group) \in [1 .. Cardinality(group) -> group]
    BY BestFirstListsAll
  <2>2. Cardinality(group) # 0
    BY FS_EmptySet DEF Listed
  <2>. QED
    BY <2>1, <2>2
<1>2. "from" \in DOMAIN BestFirst(group)[1]
  BY <1>1 DEF DetectionFields
<1>. QED
  BY <1>2 DEF Merged

----------------------------------------------------------------------------
(* DetectionRun: duplicates among the detections of one photo               *)

\* Every request whose picture cut nothing of the item off shows it where it is.
Uncut(d) == d.tile # <<>> => d.tile[1] <= d.item.l /\ d.item.r <= d.tile[1] + d.tile[2]
InPlace(d, scale) ==
  /\ d.item.l * scale \in Int /\ d.item.r * scale \in Int /\ d.item.l * scale < d.item.r * scale
  /\ Uncut(d) => d.l = d.item.l * scale /\ d.r = d.item.r * scale

\* The detections gathered for a photo, before duplicates are removed.
RawSound(raw, scale) ==
  /\ Listed(raw)
  /\ \A d \in raw : /\ DOMAIN d = DetectionFields
                    /\ d.from = {d.id} /\ d.cls = d.item.cls
                    /\ InPlace(d, scale)

\* What EachItemOnce says of one result.
Once(raw, final, strategy) ==
  /\ \A f \in final : \A d, e \in raw : {d.id, e.id} \subseteq f.from => d.item = e.item
  /\ \A d \in raw :
       LET same == {f \in final : StandsFor(f, raw, d.item)}
       IN /\ same # {}
          /\ SeenWhole(d.item, raw) /\ strategy # "none" => Cardinality(same) = 1

\* f was made of the detections of group, and all of them show one item.
MadeOf(f, group) ==
  /\ f.from = {d.id : d \in group}
  /\ \A d, e \in group : d.item = e.item

LEMMA OnceWhen ==
  ASSUME NEW raw, Listed(raw), NEW final, NEW strategy,
         \A f \in final : \E group \in SUBSET raw : MadeOf(f, group),
         \A d \in raw : \E f \in final : StandsFor(f, raw, d.item),
         strategy # "none" => \A d \in raw : SeenWhole(d.item, raw) =>
           \A f, h \in final : StandsFor(f, raw, d.item) /\ StandsFor(h, raw, d.item) => f = h
  PROVE  Once(raw, final, strategy)
<1>1. ASSUME NEW f \in final, NEW d \in raw, NEW e \in raw, {d.id, e.id} \subseteq f.from PROVE d.item = e.item
  <2>1. PICK group \in SUBSET raw : MadeOf(f, group)
    OBVIOUS
  <2>2. d \in group /\ e \in group
    BY <1>1, <2>1 DEF MadeOf, Listed
  <2>. QED
    BY <2>1, <2>2 DEF MadeOf
<1>2. ASSUME NEW d \in raw
      PROVE  LET same == {f \in final : StandsFor(f, raw, d.item)}
             IN /\ same # {}
                /\ SeenWhole(d.item, raw) /\ strategy # "none" => Cardinality(same) = 1
  <2>. DEFINE same == {f \in final : StandsFor(f, raw, d.item)}
  <2>1. PICK f \in final : StandsFor(f, raw, d.item)
    OBVIOUS
  <2>2. f \in same
    BY <2>1
  <2>3. ASSUME SeenWhole(d.item, raw), strategy # "none" PROVE Cardinality(same) = 1
    <3>1. same = {f}
      BY <2>1, <2>3
    <3>. QED
      BY <3>1, FS_Singleton
  <2>. QED
    BY <2>2, <2>3
<1>. QED
  BY <1>1, <1>2 DEF Once

\* Detections that the strategy joins show one item.
LEMMA JoinedIsOneItem ==
  ASSUME NEW raw, NEW scale, RawSound(raw, scale), Apart(raw), NEW i,
         NEW strategy \in {"nmm", "conservative"}, NEW some, some = {d \in raw : d.item = i}
  PROVE  Closed(some, raw, strategy, IouThreshold)
<1>. SUFFICES ASSUME NEW seed \in some, NEW group \in SUBSET some, NEW d \in raw, seed \in group,
                     Joins(strategy, seed, group, d, IouThreshold)
              PROVE  d \in some
  BY DEF Closed
<1>1. \A a \in some : a \in raw /\ a.item = i /\ a.cls = i.cls
  BY DEF RawSound
<1>2. \E m \in some : m.cls = d.cls /\ IouAtLeast(m, d, IouThreshold)
  <2>1. CASE strategy = "nmm"
    <3>1. seed.cls = d.cls /\ \E m \in group : IouAtLeast(m, d, IouThreshold)
      BY <2>1 DEF Joins
    <3>. QED
      BY <1>1, <3>1
  <2>2. CASE strategy = "conservative"
    <3>1. LikelyDuplicate(seed, d, IouThreshold)
      BY <2>2 DEF Joins
    <3>2. seed.cls = d.cls /\ IouAtLeast(seed, d, IouThreshold)
      BY <3>1, Zenon DEF LikelyDuplicate
    <3>. QED
      BY <3>2
  <2>. QED
    BY <2>1, <2>2
<1>3. PICK m \in some : m.cls = d.cls /\ IouAtLeast(m, d, IouThreshold)
  BY <1>2
<1>4. m.item = d.item
  BY <1>1, <1>3 DEF Apart
<1>. QED
  BY <1>1, <1>4

\* The detections of an item that every request saw whole are in the same place.
LEMMA SeenInOnePlace ==
  ASSUME NEW raw, NEW scale, RawSound(raw, scale), NEW i, SeenWhole(i, raw),
         NEW a \in raw, NEW b \in raw, a.item = i, b.item = i, IouThreshold \in 0 .. 100
  PROVE  /\ Suppresses(a, b, IouThreshold)
         /\ \A strategy \in {"nmm", "conservative"} : \A group : a \in group => Joins(strategy, a, group, b, IouThreshold)
<1>. DEFINE x == i.l * scale
            y == i.r * scale
<1>1. x \in Int /\ y \in Int /\ x < y /\ a.l = x /\ b.l = x /\ a.r = y /\ b.r = y /\ a.cls = b.cls
  BY DEF RawSound, InPlace, SeenWhole, Uncut
<1>. HIDE DEF x, y
<1>2. ASSUME NEW strategy \in {"nmm", "conservative"}, NEW group, a \in group
      PROVE  Joins(strategy, a, group, b, IouThreshold)
  BY <1>1, <1>2, SameBoxJoins
<1>3. Suppresses(a, b, IouThreshold)
  BY <1>1, SameBox DEF Suppresses
<1>. QED
  BY <1>2, <1>3

LEMMA OnceWithNone ==
  ASSUME NEW raw, NEW scale, RawSound(raw, scale)
  PROVE  Once(raw, raw, "none")
<1>1. ASSUME NEW f \in raw PROVE MadeOf(f, {f})
  BY DEF RawSound, MadeOf
<1>2. ASSUME NEW d \in raw PROVE StandsFor(d, raw, d.item)
  BY DEF RawSound, StandsFor
<1>. QED
  BY <1>1, <1>2, OnceWhen DEF RawSound

LEMMA OnceWithNms ==
  ASSUME NEW raw, NEW scale, RawSound(raw, scale), Apart(raw), IouThreshold \in 0 .. 100
  PROVE  Once(raw, Nms(raw, IouThreshold), "nms")
<1>. DEFINE final == Nms(raw, IouThreshold)
<1>1. KeptSound(final, raw, raw, IouThreshold) /\ Listed(raw)
  BY NmsKeeps DEF RawSound
<1>. HIDE DEF final
<1>2. final \subseteq raw
  BY <1>1 DEF KeptSound
<1>3. ASSUME NEW f \in final PROVE \E group \in SUBSET raw : MadeOf(f, group)
  <2>1. MadeOf(f, {f}) /\ {f} \in SUBSET raw
    BY <1>2 DEF RawSound, MadeOf
  <2>. QED
    BY <2>1
<1>4. \A f \in final : \A i : StandsFor(f, raw, i) <=> f.item = i
  BY <1>2 DEF RawSound, Listed, StandsFor
<1>5. ASSUME NEW d \in raw PROVE \E f \in final : StandsFor(f, raw, d.item)
  <2>1. d \in final \/ \E k \in final : Suppresses(k, d, IouThreshold)
    BY <1>1 DEF KeptSound
  <2>2. \A k \in final : Suppresses(k, d, IouThreshold) => k.item = d.item
    BY <1>2 DEF Suppresses, Apart
  <2>. QED
    BY <1>4, <2>1, <2>2
<1>6. ASSUME NEW d \in raw, SeenWhole(d.item, raw), NEW f \in final, NEW h \in final,
             StandsFor(f, raw, d.item), StandsFor(h, raw, d.item)
      PROVE  f = h
  <2>1. f \in raw /\ h \in raw /\ f.item = d.item /\ h.item = d.item
    BY <1>2, <1>4, <1>6
  <2>2. Suppresses(f, h, IouThreshold) /\ Suppresses(h, f, IouThreshold)
    BY <1>6, <2>1, SeenInOnePlace
  <2>. QED
    BY <1>1, <2>2 DEF KeptSound
<1>. QED
  BY <1>1, <1>3, <1>5, <1>6, OnceWhen DEF final

LEMMA OnceWithClusters ==
  ASSUME NEW raw, NEW scale, RawSound(raw, scale), Apart(raw), IouThreshold \in 0 .. 100,
         NEW strategy \in {"nmm", "conservative"}, NEW final,
         final = {Merged(g) : g \in Clusters(raw, strategy, IouThreshold)}
  PROVE  Once(raw, final, strategy)
<1>. DEFINE clusters == Clusters(raw, strategy, IouThreshold)
<1>1. Listed(raw) /\ ClustersSound(clusters, raw, raw, strategy, IouThreshold)
  BY ClustersAreSound DEF RawSound
<1>2. final = {Merged(g) : g \in clusters}
  OBVIOUS
<1>. HIDE DEF clusters
<1>3. ASSUME NEW g \in clusters
      PROVE  /\ g \subseteq raw /\ g # {} /\ \A d, e \in g : d.item = e.item
  <2>1. PICK seed \in g : \A some \in SUBSET raw :
                            seed \in some /\ Closed(some, raw, strategy, IouThreshold) => g \subseteq some
    BY <1>1 DEF ClustersSound, Seeded
  <2>2. g \subseteq raw
    BY <1>1 DEF ClustersSound, Seeded
  <2>. DEFINE some == {d \in raw : d.item = seed.item}
  <2>3. some \in SUBSET raw /\ seed \in some
    BY <2>2
  <2>4. Closed(some, raw, strategy, IouThreshold)
    BY JoinedIsOneItem
  <2>5. g \subseteq some
    <3>. HIDE DEF some
    <3>. QED
      BY <2>1, <2>3, <2>4
  <2>. QED
    BY <2>2, <2>5
<1>4. ASSUME NEW g \in clusters PROVE Merged(g).from = {d.id : d \in g}
  <2>1. Listed(g) /\ g # {} /\ \A d \in g : DOMAIN d = DetectionFields /\ d.from = {d.id}
    BY <1>1, <1>3, PartListed DEF RawSound
  <2>2. Merged(g).from = UNION {d.from : d \in g}
    BY <2>1, MergedFrom
  <2>. QED
    BY <2>1, <2>2
<1>5. ASSUME NEW f \in final PROVE \E group \in SUBSET raw : MadeOf(f, group)
  <2>1. PICK g \in clusters : f = Merged(g)
    BY <1>2
  <2>2. MadeOf(f, g)
    BY <1>3, <1>4, <2>1 DEF MadeOf
  <2>. QED
    BY <1>3, <2>2
<1>6. \A g \in clusters : \A i : StandsFor(Merged(g), raw, i) <=> \E d \in g : d.item = i
  <2>. SUFFICES ASSUME NEW g \in clusters, NEW i
                PROVE  StandsFor(Merged(g), raw, i) <=> \E d \in g : d.item = i
    OBVIOUS
  <2>1. \A d \in raw : d.id \in Merged(g).from <=> d \in g
    BY <1>1, <1>3, <1>4 DEF Listed
  <2>. QED
    BY <1>3, <2>1 DEF StandsFor
<1>7. ASSUME NEW d \in raw PROVE \E f \in final : StandsFor(f, raw, d.item)
  <2>1. PICK g \in clusters : d \in g
    BY <1>1 DEF ClustersSound
  <2>2. StandsFor(Merged(g), raw, d.item)
    BY <1>6, <2>1
  <2>. QED
    BY <1>2, <2>2
<1>8. ASSUME NEW d \in raw, SeenWhole(d.item, raw), NEW f \in final, NEW h \in final,
             StandsFor(f, raw, d.item), StandsFor(h, raw, d.item)
      PROVE  f = h
  <2>. DEFINE twins == {e \in raw : e.item = d.item}
  <2>1. PICK g \in clusters, k \in clusters : f = Merged(g) /\ h = Merged(k)
    BY <1>2
  <2>2. g \cap twins # {} /\ k \cap twins # {} /\ twins \in SUBSET raw
    BY <1>3, <1>6, <1>8, <2>1
  <2>3. Mutual(twins, raw, strategy, IouThreshold)
    BY <1>8, SeenInOnePlace DEF Mutual
  <2>4. Separate(twins, raw, strategy, IouThreshold)
    <3>1. ASSUME NEW e \in raw \ twins
          PROVE  \E some \in SUBSET (raw \ twins) : e \in some /\ Closed(some, raw, strategy, IouThreshold)
      <4>. DEFINE some == {c \in raw : c.item = e.item}
      <4>1. some \in SUBSET (raw \ twins) /\ e \in some
        OBVIOUS
      <4>2. Closed(some, raw, strategy, IouThreshold)
        BY JoinedIsOneItem
      <4>. QED
        BY <4>1, <4>2
    <3>. HIDE DEF twins
    <3>. QED
      BY <3>1 DEF Separate
  <2>. HIDE DEF twins
  <2>5. twins \cap UNION clusters = {} \/ OneHolds(clusters, twins)
    BY <1>1, <2>2, <2>3, <2>4 DEF ClustersSound
  <2>6. OneHolds(clusters, twins)
    BY <2>2, <2>5
  <2>7. g = k
    BY <2>2, <2>6 DEF OneHolds
  <2>. QED
    BY <2>1, <2>7
<1>. QED
  BY <1>1, <1>5, <1>7, <1>8, OnceWhen

\* Whatever the strategy, duplicates are removed as EachItemOnce has it.
LEMMA OnceDeduplicated ==
  ASSUME NEW raw, NEW scale, RawSound(raw, scale), Apart(raw), IouThreshold \in 0 .. 100,
         NEW strategy \in Strategies
  PROVE  Once(raw, Deduplicated(raw, strategy, IouThreshold), strategy)
<1>1. CASE strategy = "none"
  BY <1>1, OnceWithNone DEF Deduplicated
<1>2. CASE strategy = "nms"
  BY <1>2, OnceWithNms DEF Deduplicated
<1>3. CASE strategy = "nmm"
  BY <1>3, OnceWithClusters DEF Deduplicated, Nmm
<1>4. CASE strategy = "conservative"
  BY <1>4, OnceWithClusters DEF Deduplicated, Conservative
<1>. QED
  BY <1>1, <1>2, <1>3, <1>4 DEF Strategies

----------------------------------------------------------------------------
(* DetectionRun: the pictures a photo is cut into                           *)

\* Tiles start inside the picture, and there are finitely many.
LEMMA StartsAreNumbers ==
  ASSUME NEW length \in Nat, NEW size \in Nat, NEW stride
  PROVE  /\ AxisStarts(length, size, stride) \subseteq 0 .. length
         /\ IsFiniteSet(AxisStarts(length, size, stride))
<1>1. AxisStarts(length, size, stride) \subseteq 0 .. length
  <2>1. CASE length <= size
    BY <2>1 DEF AxisStarts
  <2>2. CASE ~ (length <= size)
    <3>1. length - size \in 0 .. length /\ 0 .. length - size \subseteq 0 .. length
      BY <2>2
    <3>. QED
      BY <2>2, <3>1, Zenon DEF AxisStarts
  <2>. QED
    BY <2>1, <2>2
<1>2. IsFiniteSet(0 .. length)
  BY FS_Interval
<1>. QED
  BY <1>1, <1>2, FS_Subset

\* A tile that is enlarged gains a pixel at least, or is as wide as the picture.
Settled(length, s, overlap) == s >= length \/ TileCount(length, s, overlap) <= MaxTiles

LEMMA EnlargedGains ==
  ASSUME NEW length \in Nat, NEW s \in Nat, NEW overlap, NEW t, t = Enlarged(length, s, overlap)
  PROVE  /\ t \in Nat /\ t >= s
         /\ IF Settled(length, s, overlap) THEN t = s ELSE t >= length \/ t >= s + 1
<1>. DEFINE count == TileCount(length, s, overlap)
<1>1. count \in Nat
  BY StartsAreNumbers, FS_CardinalityType DEF TileCount
<1>2. t = IF count > MaxTiles /\ s < length THEN Smaller(length, (5 * s) \div 4 + TileGrowth) ELSE s
  BY DEF Enlarged
<1>3. Settled(length, s, overlap) <=> s >= length \/ count <= MaxTiles
  BY DEF Settled
<1>. HIDE DEF count
<1>4. (5 * s) \div 4 \in Nat /\ (5 * s) \div 4 >= s
  OBVIOUS
<1>5. MaxTiles \in Nat /\ TileGrowth \in Nat /\ TileGrowth >= 1
  BY TilingAssumption
<1>6. CASE Settled(length, s, overlap)
  BY <1>1, <1>2, <1>3, <1>5, <1>6
<1>7. CASE ~ Settled(length, s, overlap)
  <2>1. t = Smaller(length, (5 * s) \div 4 + TileGrowth) /\ s < length
    BY <1>1, <1>2, <1>3, <1>5, <1>7
  <2>. QED
    BY <1>4, <1>5, <1>7, <2>1 DEF Smaller
<1>. QED
  BY <1>6, <1>7

\* So in the end there are not too many tiles, or one tile is all.
LEMMA GrownSettles ==
  ASSUME NEW length \in Nat, NEW size \in Nat, NEW overlap
  PROVE  /\ GrownSize(length, size, overlap) \in Nat /\ GrownSize(length, size, overlap) >= size
         /\ Settled(length, GrownSize(length, size, overlap), overlap)
<1>. DEFINE grown == Grown(length, size, overlap)
            Scan(k) == k = [n \in 0 .. length |-> IF n = 0 THEN size ELSE Enlarged(length, k[n - 1], overlap)]
            Step == [p \in Nat \X (1 .. length) |-> Enlarged(length, p[1], overlap)]
<1>1. \A s \in Nat : Enlarged(length, s, overlap) \in Nat
  BY EnlargedGains
<1>2. grown = CHOOSE k : Scan(k)
  BY Zenon DEF Grown
<1>3. StepIn(length, Nat, Step)
  BY <1>1 DEF StepIn
<1>4. \A p \in Nat \X (1 .. length) : Step[p] = Enlarged(length, p[1], overlap)
  OBVIOUS
<1>. HIDE DEF Step
<1>5. PICK f : Follows(f, length, Nat, size, Step)
  BY <1>3, Recursion
<1>6. ASSUME NEW n \in 1 .. length PROVE f[n] = Enlarged(length, f[n - 1], overlap)
  <2>1. n - 1 \in 0 .. length /\ <<f[n - 1], n>> \in Nat \X (1 .. length)
    BY <1>5 DEF Follows
  <2>. QED
    BY <1>4, <1>5, <2>1 DEF Follows
<1>7. Scan(f)
  <2>1. f = [n \in 0 .. length |-> f[n]]
    BY <1>5 DEF Follows
  <2>2. \A n \in 0 .. length : f[n] = IF n = 0 THEN size ELSE Enlarged(length, f[n - 1], overlap)
    BY <1>5, <1>6 DEF Follows
  <2>. QED
    BY <2>1, <2>2
<1>8. Scan(grown)
  <2>. HIDE DEF Scan, grown
  <2>. QED
    BY <1>2, <1>7
<1>. HIDE DEF grown
<1>9. grown[0] = size /\ \A n \in 1 .. length : grown[n] = Enlarged(length, grown[n - 1], overlap)
  <2>1. 0 \in 0 .. length /\ \A n \in 1 .. length : n \in 0 .. length /\ n # 0
    OBVIOUS
  <2>. QED
    BY <1>8, <2>1
<1>. DEFINE Good == {n \in 0 .. length : /\ grown[n] \in Nat /\ grown[n] >= size
                                         /\ Settled(length, grown[n], overlap) \/ grown[n] >= n}
<1>10. 0 \in Good
  BY <1>9
<1>11. ASSUME NEW n \in 1 .. length, n - 1 \in Good PROVE n \in Good
  <2>. DEFINE s == grown[n - 1]
              t == grown[n]
  <2>1. /\ s \in Nat /\ s >= size
        /\ Settled(length, s, overlap) \/ s >= n - 1
    BY <1>11
  <2>2. t = Enlarged(length, s, overlap)
    BY <1>9
  <2>. HIDE DEF s, t
  <2>3. /\ t \in Nat /\ t >= s
        /\ IF Settled(length, s, overlap) THEN t = s ELSE t >= length \/ t >= s + 1
    BY <2>1, <2>2, EnlargedGains
  <2>4. Settled(length, t, overlap) \/ t >= n
    BY <2>1, <2>3 DEF Settled
  <2>. QED
    BY <2>1, <2>3, <2>4 DEF t
<1>12. length \in Good
  <2>1. length \in 0 .. length
    OBVIOUS
  <2>. HIDE DEF Good
  <2>. QED
    BY <1>10, <1>11, <2>1, StepByStep
<1>. QED
  BY <1>12 DEF GrownSize, grown, Settled

\* Whatever is no wider than two neighbouring tiles share, and a pixel more, is
\* whole in one of the tiles.
LEMMA AxisIsCovered ==
  ASSUME NEW length \in Nat, NEW size \in Nat, NEW stride \in Nat \ {0}, stride <= size,
         NEW l \in Nat, NEW r \in Nat, l < r, r <= length,
         length <= size \/ r - l <= size - stride + 1
  PROVE  \E s \in AxisStarts(length, size, stride) :
            s <= l /\ r <= s + size /\ (length > size => s + size <= length)
<1>1. CASE length <= size
  BY <1>1 DEF AxisStarts
<1>2. CASE length > size
  <2>. DEFINE k == l \div stride
              s == k * stride
  <2>1. k \in Nat /\ s <= l /\ l < s + stride /\ k <= l
    OBVIOUS
  <2>2. s \in Nat
    BY <2>1
  <2>3. s = k * stride
    OBVIOUS
  <2>4. AxisStarts(length, size, stride) =
          {x \in 0 .. length - size : \E j \in 0 .. length : x = j * stride} \cup {length - size}
    <3>1. ~ (length <= size)
      BY <1>2
    <3>. QED
      BY <3>1, Zenon DEF AxisStarts
  <2>. HIDE DEF k, s
  <2>5. CASE s <= length - size
    <3>1. s \in AxisStarts(length, size, stride)
      <4>1. s \in 0 .. length - size /\ k \in 0 .. length
        BY <2>1, <2>2, <2>5
      <4>. QED
        BY <2>3, <2>4, <4>1
    <3>. QED
      BY <1>2, <2>1, <2>2, <2>5, <3>1
  <2>6. CASE s > length - size
    <3>1. length - size \in AxisStarts(length, size, stride)
      BY <2>4
    <3>. QED
      BY <1>2, <2>1, <2>2, <2>6, <3>1
  <2>. QED
    BY <2>2, <2>5, <2>6
<1>. QED
  BY <1>1, <1>2

LEMMA StrideFits ==
  ASSUME NEW size \in Nat \ {0}, NEW overlap \in 0 .. 100
  PROVE  Stride(size, overlap) \in Nat \ {0} /\ Stride(size, overlap) <= size
<1>1. size * (100 - overlap) \in Nat /\ size * (100 - overlap) <= size * 100
  OBVIOUS
<1>2. (size * (100 - overlap)) \div 100 \in Nat /\ (size * (100 - overlap)) \div 100 <= size
  BY <1>1
<1>. QED
  BY <1>2 DEF Stride, Larger

\* The tiles of a photo: one for every start, for there are not too many.
TileOf(start, grown, scale) == Frame(start, Smaller(grown, RowLength - start), scale)
TilesAt(tiles, starts, grown, scale) ==
  /\ Len(tiles) \in Nat /\ tiles \in Seq({TileOf(s, grown, scale) : s \in starts})
  /\ \A s \in starts : \E n \in 1 .. Len(tiles) : tiles[n] = TileOf(s, grown, scale)

LEMMA TilesOfStarts ==
  ASSUME NEW size \in Nat, NEW overlap, NEW scale,
         NEW grown, grown = GrownSize(RowLength, size, overlap),
         NEW starts, starts = AxisStarts(RowLength, grown, Stride(grown, overlap))
  PROVE  TilesAt(TileFrames(size, overlap, scale), starts, grown, scale)
<1>. DEFINE before == {p \in starts \X starts : p[1] < p[2]}
            ordered == InOrder(starts, before)
<1>1. grown \in Nat /\ RowLength \in Nat /\ Settled(RowLength, grown, overlap)
  BY DetectionAssumption, GrownSettles
<1>2. starts \subseteq 0 .. RowLength /\ IsFiniteSet(starts)
  BY <1>1, StartsAreNumbers
<1>3. InARow(starts, before)
  <2>1. \A a, b \in starts : <<a, b>> \in before <=> a < b
    OBVIOUS
  <2>2. \A a \in starts : a \in Int
    BY <1>2
  <2>. HIDE DEF before
  <2>. QED
    BY <2>1, <2>2 DEF InARow
<1>4. ordered = EachPlace(starts, before)
  BY Zenon DEF InOrder, EachPlace
<1>. HIDE DEF before
<1>5. /\ Len(ordered) = Cardinality(starts) /\ Len(ordered) \in Nat
      /\ ordered \in [1 .. Len(ordered) -> starts]
      /\ \A s \in starts : \E n \in 1 .. Len(ordered) : ordered[n] = s
  <2>. HIDE DEF ordered
  <2>. QED
    BY <1>2, <1>3, <1>4, RowOfAll
<1>6. Cardinality(starts) <= MaxTiles
  <2>1. MaxTiles \in Nat /\ MaxTiles >= 1
    BY TilingAssumption
  <2>2. CASE RowLength <= grown
    <3>1. starts = {0}
      BY <2>2 DEF AxisStarts
    <3>. QED
      BY <2>1, <3>1, FS_Singleton
  <2>3. CASE ~ (RowLength <= grown)
    BY <1>1, <2>3 DEF Settled, TileCount
  <2>. QED
    BY <2>2, <2>3
<1>. DEFINE N == Smaller(Len(ordered), MaxTiles)
            tiles == [i \in 1 .. N |-> TileOf(ordered[i], grown, scale)]
<1>7. TileFrames(size, overlap, scale) = tiles
  BY Zenon DEF TileFrames, TileOf, before
<1>. HIDE DEF ordered
<1>8. N = Len(ordered)
  BY <1>5, <1>6 DEF Smaller
<1>9. tiles \in [1 .. Len(ordered) -> {TileOf(s, grown, scale) : s \in starts}]
  BY <1>5, <1>8
<1>10. \A s \in starts : \E n \in 1 .. Len(ordered) : tiles[n] = TileOf(s, grown, scale)
  BY <1>5, <1>8
<1>. HIDE DEF tiles
<1>11. tiles \in Seq({TileOf(s, grown, scale) : s \in starts}) /\ Len(tiles) = Len(ordered)
  BY <1>5, <1>9, FunctionIsRow
<1>. QED
  BY <1>5, <1>7, <1>10, <1>11 DEF TilesAt

\* A request: where its picture starts and how wide it is; the whole picture is whole.
Crops ==
  {f \in [start : Int, size : Int, scale : {"whole", "scale_whole", "tile", "scale_1024_25", "scale_640_30"}] :
     f.scale \in {"whole", "scale_whole"} => f.start = 0 /\ f.size = RowLength}

LEMMA WholeIsPicture ==
  ASSUME NEW scale \in {"whole", "scale_whole"}
  PROVE  WholeFrame(scale) \in Seq(Crops)
<1>1. Frame(0, RowLength, scale) \in Crops
  BY DetectionAssumption DEF Frame, Crops
<1>. QED
  BY <1>1 DEF WholeFrame

LEMMA TilesArePictures ==
  ASSUME NEW size \in Nat, NEW overlap, NEW scale \in {"tile", "scale_1024_25", "scale_640_30"}
  PROVE  TileFrames(size, overlap, scale) \in Seq(Crops)
<1>. DEFINE grown == GrownSize(RowLength, size, overlap)
            starts == AxisStarts(RowLength, grown, Stride(grown, overlap))
            tiles == TileFrames(size, overlap, scale)
<1>1. grown \in Nat /\ RowLength \in Nat
  BY DetectionAssumption, GrownSettles
<1>2. tiles \in Seq({TileOf(s, grown, scale) : s \in starts})
  BY TilesOfStarts DEF TilesAt
<1>3. starts \subseteq 0 .. RowLength
  BY <1>1, StartsAreNumbers
<1>. HIDE DEF grown, starts, tiles
<1>4. ASSUME NEW s \in starts PROVE TileOf(s, grown, scale) \in Crops
  BY <1>1, <1>3 DEF TileOf, Frame, Crops, Smaller
<1>5. {TileOf(s, grown, scale) : s \in starts} \subseteq Crops
  BY <1>4
<1>. QED
  BY <1>2, <1>5 DEF tiles

\* Every plan is a list of pictures.
LEMMA PlansArePictures ==
  ASSUME NEW mode \in Modes
  PROVE  Plans[mode] \in Seq(Crops)
<1>0. UserTile \in Nat /\ LargeTile \in Nat /\ SmallTile \in Nat
  BY DetectionAssumption
<1>1. CASE mode = "whole"
  BY <1>1, WholeIsPicture DEF Plans, Frames
<1>2. CASE mode = "tiled"
  BY <1>0, <1>2, TilesArePictures DEF Plans, Frames
<1>3. CASE mode = "thorough"
  <2>. DEFINE a == WholeFrame("scale_whole")
              b == TileFrames(LargeTile, 25, "scale_1024_25")
              c == TileFrames(SmallTile, 30, "scale_640_30")
  <2>1. a \in Seq(Crops) /\ b \in Seq(Crops) /\ c \in Seq(Crops)
    BY <1>0, WholeIsPicture, TilesArePictures
  <2>2. Plans[mode] = a \o b \o c
    BY <1>3 DEF Plans, Frames
  <2>. HIDE DEF a, b, c
  <2>3. a \o b \in Seq(Crops)
    BY <2>1, ConcatProperties
  <2>4. (a \o b) \o c \in Seq(Crops)
    BY <2>1, <2>3, ConcatProperties
  <2>. QED
    BY <2>2, <2>4
<1>. QED
  BY <1>1, <1>2, <1>3 DEF Modes

----------------------------------------------------------------------------
(* DetectionRun: the detections gathered for a photo                        *)

\* What is gathered is numbered from 1 on.
Numbered(raw) == \A d \in raw : d.id \in 1 .. Cardinality(raw)
RawInv ==
  /\ photo \in [items : Layouts, scale : {1, 2}]
  /\ setup \in [mode : Modes, kind : Kinds, strategy : Strategies]
  /\ asked.next \in Nat \ {0}
  /\ RawSound(asked.raw, photo.scale) /\ Numbered(asked.raw)
  /\ \A i \in DOMAIN results :
       /\ RawSound(results[i].asked.raw, photo.scale)
       /\ results[i].ok => results[i].dets = Deduplicated(results[i].asked.raw, setup.strategy, IouThreshold)

LEMMA RawIsOnce == RawInv => EachItemOnce
<1>. SUFFICES ASSUME RawInv, NEW i \in Successes, Apart(results[i].asked.raw)
              PROVE  Once(results[i].asked.raw, results[i].dets, setup.strategy)
  BY Zenon DEF EachItemOnce, Once
<1>1. /\ RawSound(results[i].asked.raw, photo.scale)
      /\ results[i].dets = Deduplicated(results[i].asked.raw, setup.strategy, IouThreshold)
      /\ setup.strategy \in Strategies
  BY DEF RawInv, Successes
<1>2. IouThreshold \in 0 .. 100
  BY DetectionAssumption
<1>. QED
  BY <1>1, <1>2, OnceDeduplicated

\* An item seen in the current picture is a detection of it, and where nothing of
\* the item is cut off the detection is where the item is.
LEMMA DetectionInPlace ==
  ASSUME RawInv, Running, NEW item \in photo.items, NEW confidence, NEW id, NEW d,
         d = DetectionOf(item, confidence, id)
  PROVE  /\ DOMAIN d = DetectionFields
         /\ d.id = id /\ d.from = {id} /\ d.conf = confidence
         /\ d.item = item /\ d.cls = d.item.cls /\ InPlace(d, photo.scale)
<1>1. Current \in Crops
  <2>1. Todo \in Seq(Crops)
    BY PlansArePictures DEF Todo, RawInv
  <2>2. asked.next \in Nat \ {0} /\ asked.next <= Len(Todo)
    BY DEF RawInv, Running
  <2>3. asked.next \in 1 .. Len(Todo)
    BY <2>1, <2>2, LenProperties
  <2>. QED
    BY <2>1, <2>3, LenProperties DEF Current
<1>2. /\ DOMAIN d = DetectionFields
      /\ d.id = id /\ d.from = {id} /\ d.conf = confidence
      /\ d.item = item /\ d.cls = item.cls
      /\ d.l = Placed(View(item)).l /\ d.r = Placed(View(item)).r
      /\ d.tile = IF IsTile THEN <<Current.start, Current.size>> ELSE <<>>
  BY DEF DetectionOf, DetectionFields
<1>3. /\ Current.start \in Int /\ Current.size \in Int
      /\ ~ IsTile => Current.start = 0 /\ Current.size = RowLength
  BY <1>1 DEF Crops, IsTile
<1>4. /\ item.l \in Nat /\ item.r \in Nat /\ item.l < item.r /\ item.r <= RowLength
      /\ RowLength \in Nat /\ photo.scale \in {1, 2}
  BY DetectionAssumption DEF RawInv
<1>5. Uncut(d) => Current.start <= item.l /\ item.r <= Current.start + Current.size
  <2>1. CASE IsTile
    <3>1. d.tile = <<Current.start, Current.size>> /\ d.tile # <<>>
      BY <1>2, <2>1
    <3>2. d.tile[1] = Current.start /\ d.tile[2] = Current.size
      BY <3>1
    <3>. QED
      BY <1>2, <3>1, <3>2 DEF Uncut
  <2>2. CASE ~ IsTile
    BY <1>3, <1>4, <2>2
  <2>. QED
    BY <2>1, <2>2
<1>6. Uncut(d) => d.l = item.l * photo.scale /\ d.r = item.r * photo.scale
  <2>. SUFFICES ASSUME Uncut(d) PROVE d.l = item.l * photo.scale /\ d.r = item.r * photo.scale
    OBVIOUS
  <2>. DEFINE view == View(item)
  <2>1. view.l = item.l - Current.start /\ view.r = item.r - Current.start
    BY <1>3, <1>4, <1>5 DEF View, Larger, Smaller
  <2>. HIDE DEF view
  <2>2. view.l + Current.start = item.l /\ view.r + Current.start = item.r
    BY <1>3, <1>4, <2>1
  <2>. QED
    BY <1>2, <2>2 DEF Placed, view
<1>7. /\ item.l * photo.scale \in Int /\ item.r * photo.scale \in Int
      /\ item.l * photo.scale < item.r * photo.scale
  BY <1>4
<1>. QED
  BY <1>2, <1>6, <1>7 DEF InPlace

\* The detections of one answer are numbered on from those gathered before.
LEMMA AnswerInPlace ==
  ASSUME RawInv, Running, NEW conf \in Sightings,
         NEW raw, raw = asked.raw \cup DetectionsOf(conf)
  PROVE  RawSound(raw, photo.scale) /\ Numbered(raw)
<1>. DEFINE C == Cardinality(asked.raw)
            passing == {i \in DOMAIN conf : Passes(i, conf[i])}
            before == {p \in passing \X passing : LeftOf(p[1], p[2])}
            order == InOrder(passing, before)
            N == Cardinality(passing)
            New(n) == DetectionOf(order[n], conf[order[n]], C + n)
            new == {New(n) : n \in 1 .. N}
<1>1. /\ IsFiniteSet(photo.items)
      /\ \A i \in photo.items : i.l \in Int /\ i.r \in Int
      /\ \A i, j \in photo.items : i.l = j.l /\ i.r = j.r => i = j
  BY DetectionAssumption DEF RawInv
<1>2. DOMAIN conf \subseteq photo.items /\ \A i \in DOMAIN conf : conf[i] \in Int
  <2>1. PICK seen \in SUBSET Visible : conf \in [seen -> Levels]
    BY DEF Sightings
  <2>2. seen \subseteq photo.items /\ DOMAIN conf = seen /\ \A i \in seen : conf[i] \in Levels
    BY <2>1 DEF Visible
  <2>3. \A level \in Levels : level \in Int
    BY DetectionAssumption
  <2>. QED
    BY <2>2, <2>3
<1>3. passing \subseteq photo.items /\ IsFiniteSet(passing) /\ \A i \in passing : conf[i] \in Int
  <2>1. passing \subseteq photo.items /\ \A i \in passing : conf[i] \in Int
    BY <1>2
  <2>. HIDE DEF passing
  <2>. QED
    BY <1>1, <2>1, FS_Subset
<1>. HIDE DEF passing
<1>4. InARow(passing, before)
  <2>1. \A a, b \in passing : <<a, b>> \in before <=> LeftOf(a, b)
    OBVIOUS
  <2>2. \A a \in passing : a.l \in Int /\ a.r \in Int
    BY <1>1, <1>3
  <2>3. \A a, b \in passing : a.l = b.l /\ a.r = b.r => a = b
    BY <1>1, <1>3
  <2>. HIDE DEF before
  <2>. QED
    BY <2>1, <2>2, <2>3 DEF InARow, LeftOf
<1>5. order = EachPlace(passing, before)
  BY Zenon DEF InOrder, EachPlace
<1>. HIDE DEF before
<1>6. N \in Nat /\ Len(order) = N /\ order \in [1 .. N -> passing]
  <2>. HIDE DEF order
  <2>. QED
    BY <1>3, <1>4, <1>5, RowOfAll
<1>7. raw = asked.raw \cup new
  <2>1. DetectionsOf(conf) = new
    BY <1>6, Zenon DEF DetectionsOf, passing, before
  <2>. QED
    BY <2>1
<1>8. /\ Listed(asked.raw) /\ IsFiniteSet(asked.raw) /\ C \in Nat
      /\ \A d \in asked.raw : d.id \in 1 .. C
  <2>1. Listed(asked.raw) /\ IsFiniteSet(asked.raw)
    BY DEF RawInv, RawSound, Listed
  <2>. QED
    BY <2>1, FS_CardinalityType DEF RawInv, Numbered
<1>. HIDE DEF order, N, C
<1>9. ASSUME NEW n \in 1 .. N
      PROVE  /\ DOMAIN New(n) = DetectionFields
             /\ New(n).id = C + n /\ New(n).from = {C + n} /\ New(n).conf \in Int
             /\ New(n).cls = New(n).item.cls /\ InPlace(New(n), photo.scale)
  <2>1. order[n] \in photo.items /\ conf[order[n]] \in Int
    BY <1>3, <1>6
  <2>2. New(n) = DetectionOf(order[n], conf[order[n]], C + n)
    OBVIOUS
  <2>. HIDE DEF New
  <2>. QED
    BY <2>1, <2>2, DetectionInPlace
<1>. HIDE DEF New
<1>10. IsFiniteSet(new) /\ Cardinality(new) = N
  <2>. DEFINE f == [n \in 1 .. N |-> New(n)]
  <2>1. f \in Surjection(1 .. N, new)
    BY DEF Surjection
  <2>2. f \in Injection(1 .. N, new)
    <3>1. f \in [1 .. N -> new]
      OBVIOUS
    <3>2. ASSUME NEW m \in 1 .. N, NEW n \in 1 .. N, m # n PROVE f[m] # f[n]
      <4>1. C + m # C + n
        BY <1>6, <1>8, <3>2
      <4>. QED
        BY <1>9, <4>1
    <3>. HIDE DEF f, new
    <3>. QED
      BY <3>1, <3>2 DEF Injection, IsInjective
  <2>3. IsFiniteSet(1 .. N) /\ Cardinality(1 .. N) = N
    BY <1>6, FS_Interval
  <2>. HIDE DEF f, new
  <2>. QED
    BY <2>1, <2>2, <2>3, FS_Surjection
<1>11. \A d \in new : d.id \in C + 1 .. C + N
  BY <1>6, <1>8, <1>9
<1>12. \A d, e \in new : d.id = e.id => d = e
  <2>. SUFFICES ASSUME NEW d \in new, NEW e \in new, d.id = e.id PROVE d = e
    OBVIOUS
  <2>1. PICK m \in 1 .. N, n \in 1 .. N : d = New(m) /\ e = New(n)
    OBVIOUS
  <2>2. C + m = C + n
    BY <1>9, <2>1
  <2>. QED
    BY <1>6, <1>8, <2>1, <2>2
<1>13. \A d \in new : /\ DOMAIN d = DetectionFields
                      /\ d.from = {d.id} /\ d.conf \in Int /\ d.cls = d.item.cls
                      /\ InPlace(d, photo.scale)
  BY <1>9
<1>. HIDE DEF new
<1>14. \A d \in new, e \in asked.raw : d.id # e.id
  BY <1>6, <1>8, <1>11
<1>15. IsFiniteSet(raw) /\ Cardinality(raw) = C + N
  <2>1. Splits(raw, asked.raw, new)
    BY <1>7, <1>14 DEF Splits
  <2>2. IsFiniteSet(raw)
    BY <1>7, <1>8, <1>10, FS_Union
  <2>. QED
    BY <1>10, <2>1, <2>2, TwoParts DEF C
<1>16. Listed(raw)
  <2>1. \A d \in asked.raw : d.id \in Int /\ d.conf \in Int
    BY <1>8 DEF Listed
  <2>2. \A d \in new : d.id \in Int /\ d.conf \in Int
    BY <1>6, <1>8, <1>11, <1>13
  <2>3. \A d, e \in asked.raw : d.id = e.id => d = e
    BY <1>8 DEF Listed
  <2>. QED
    BY <1>7, <1>12, <1>14, <1>15, <2>1, <2>2, <2>3 DEF Listed
<1>17. RawSound(raw, photo.scale)
  BY <1>7, <1>13, <1>16 DEF RawSound, RawInv
<1>18. Numbered(raw)
  BY <1>6, <1>7, <1>8, <1>11, <1>15 DEF Numbered
<1>. QED
  BY <1>17, <1>18

LEMMA RawFromTheStart == DetectionInit => RawInv
<1>. SUFFICES ASSUME DetectionInit PROVE RawInv
  OBVIOUS
<1>1. /\ photo \in [items : Layouts, scale : {1, 2}]
      /\ setup \in [mode : Modes, kind : Kinds, strategy : Strategies]
      /\ asked.next = 1 /\ asked.raw = {} /\ results = <<>>
  BY DEF DetectionInit, Nothing
<1>2. RawSound({}, photo.scale) /\ Numbered({})
  BY FS_EmptySet DEF RawSound, Listed, Numbered
<1>. QED
  BY <1>1, <1>2 DEF RawInv

LEMMA RequestKeepsRaw ==
  ASSUME RawInv, NEW run, KeepAsked(run), run.next \in Nat \ {0},
         RawSound(run.raw, photo.scale), Numbered(run.raw)
  PROVE  RawInv'
<1>1. asked' = run /\ UNCHANGED <<photo, setup, results>>
  BY DEF KeepAsked
<1>. QED
  BY <1>1 DEF RawInv, RawSound, Numbered, InPlace, Uncut, Listed

LEMMA RequestedKeepsRaw ==
  ASSUME RawInv, Gathered(asked), Running, Requested
  PROVE  RawInv'
<1>1. DOMAIN asked = AskedFields /\ asked.next \in Nat \ {0}
  BY DEF Gathered, RawInv
<1>2. CASE KeepAsked(Failed(asked))
  <2>. DEFINE run == Failed(asked)
  <2>1. run.next = asked.next + 1 /\ run.raw = asked.raw
    BY <1>1 DEF Failed, AskedFields
  <2>. HIDE DEF run
  <2>2. KeepAsked(run)
    BY <1>2 DEF run
  <2>. QED
    BY <1>1, <2>1, <2>2, RequestKeepsRaw DEF RawInv
<1>3. ASSUME NEW conf \in Sightings, KeepAsked(Answered(asked, conf)) PROVE RawInv'
  <2>. DEFINE run == Answered(asked, conf)
  <2>1. run.next = asked.next + 1 /\ run.raw = asked.raw \cup DetectionsOf(conf)
    BY <1>1 DEF Answered, AskedFields
  <2>. HIDE DEF run
  <2>2. KeepAsked(run)
    BY <1>3 DEF run
  <2>3. RawSound(run.raw, photo.scale) /\ Numbered(run.raw)
    BY <2>1, AnswerInPlace
  <2>4. run.next \in Nat \ {0}
    BY <1>1, <2>1
  <2>. QED
    BY <2>2, <2>3, <2>4, RequestKeepsRaw
<1>. QED
  BY <1>2, <1>3 DEF Requested

LEMMA OtherAskedKeepsRaw ==
  ASSUME RawInv, Gathered(asked),
         NEW run \in {Failed(asked), DraftOnly(asked), [asked EXCEPT !.capped = TRUE]}, KeepAsked(run)
  PROVE  RawInv'
<1>1. DOMAIN asked = AskedFields /\ asked.next \in Nat \ {0}
  BY DEF Gathered, RawInv
<1>2. run.next \in Nat \ {0} /\ run.raw = asked.raw
  <2>1. CASE run = Failed(asked)
    BY <1>1, <2>1 DEF Failed, AskedFields
  <2>2. CASE run = DraftOnly(asked)
    BY <1>1, <2>2 DEF DraftOnly, AskedFields
  <2>3. CASE run = [asked EXCEPT !.capped = TRUE]
    BY <1>1, <2>3 DEF AskedFields
  <2>. QED
    BY <2>1, <2>2, <2>3
<1>. QED
  BY <1>2, RequestKeepsRaw DEF RawInv

LEMMA ConcludeKeepsRaw ==
  ASSUME RawInv, SawInv, Conclude
  PROVE  RawInv'
<1>. DEFINE dets == IF Succeeds(asked) THEN Deduplicated(asked.raw, setup.strategy, IouThreshold) ELSE {}
            result == [ok |-> Succeeds(asked), asked |-> asked, dets |-> dets]
<1>1. /\ results' = Append(results, result)
      /\ result.asked = asked
      /\ result.ok => result.dets = Deduplicated(asked.raw, setup.strategy, IouThreshold)
      /\ asked' = Nothing /\ setup' = setup /\ photo' = photo
  BY DEF Conclude
<1>. HIDE DEF result
<1>2. /\ DOMAIN results' = DOMAIN results \cup {Len(results) + 1}
      /\ results'[Len(results) + 1] = result
      /\ \A i \in DOMAIN results : results'[i] = results[i]
  BY <1>1, ASequenceGrows DEF SawInv
<1>3. asked'.next = 1 /\ asked'.raw = {}
  BY <1>1 DEF Nothing
<1>4. RawSound({}, photo.scale) /\ Numbered({})
  BY FS_EmptySet DEF RawSound, Listed, Numbered
<1>5. ASSUME NEW i \in DOMAIN results'
      PROVE  /\ RawSound(results'[i].asked.raw, photo.scale)
             /\ results'[i].ok =>
                  results'[i].dets = Deduplicated(results'[i].asked.raw, setup.strategy, IouThreshold)
  <2>1. CASE i \in DOMAIN results
    BY <1>2, <2>1 DEF RawInv
  <2>2. CASE i = Len(results) + 1
    BY <1>1, <1>2, <2>2 DEF RawInv
  <2>. QED
    BY <1>2, <2>1, <2>2
<1>. QED
  BY <1>1, <1>3, <1>4, <1>5 DEF RawInv

LEMMA RawStep == RawInv /\ SawInv /\ [DetectionNext]_detectionVars => RawInv'
<1>. SUFFICES ASSUME RawInv, SawInv, [DetectionNext]_detectionVars PROVE RawInv'
  OBVIOUS
<1>0. Gathered(asked)
  BY DEF SawInv
<1>1. CASE AskDynamic \/ AskPublished \/ AskDirect
  <2>1. Running
    BY <1>1 DEF AskDynamic, AskPublished, AskDirect, MayAsk
  <2>2. Requested \/ Drafted \/ KeepAsked(Failed(asked))
    BY <1>1 DEF AskDynamic, AskPublished, AskDirect
  <2>. QED
    BY <1>0, <2>1, <2>2, RequestedKeepsRaw, OtherAskedKeepsRaw DEF Drafted
<1>2. CASE StopAtCap
  <2>1. KeepAsked([asked EXCEPT !.capped = TRUE])
    BY <1>2 DEF StopAtCap, KeepAsked
  <2>. QED
    BY <1>0, <2>1, OtherAskedKeepsRaw
<1>3. CASE Conclude
  BY <1>3, ConcludeKeepsRaw
<1>4. CASE TakeConsensus \/ UNCHANGED detectionVars
  <2>1. UNCHANGED <<photo, setup, asked, results>>
    BY <1>4 DEF TakeConsensus, detectionVars
  <2>. QED
    BY <2>1 DEF RawInv, RawSound, Numbered, InPlace, Uncut, Listed
<1>. QED
  BY <1>1, <1>2, <1>3, <1>4 DEF DetectionNext

(* However the items of a photo stand, and however tiles and passes cut them: *)
(* of items that the boxes keep apart none is dropped and no two are counted  *)
(* as one, and one that every request saw whole is counted once, with every   *)
(* strategy that removes duplicates (overlap.py:113-277).                     *)
THEOREM ItemsCountedOnce == DetectionSpec => []EachItemOnce
<1>1. RawInv /\ SawInv => EachItemOnce
  BY RawIsOnce
<1>2. RawInv /\ SawInv /\ [DetectionNext]_detectionVars => (RawInv /\ SawInv)'
  BY RawStep, SawStep
<1>. QED
  BY <1>1, <1>2, RawFromTheStart, SawAllFromTheStart, PTL DEF DetectionSpec

----------------------------------------------------------------------------
(* Overlap and DetectionRun: the consensus of the models                    *)

\* One answer shows an item once.
LEMMA AnswerShowsOnce ==
  ASSUME RawInv, Running, NEW conf \in Sightings,
         NEW d \in DetectionsOf(conf), NEW e \in DetectionsOf(conf), d.item = e.item
  PROVE  d = e /\ d.item \in photo.items /\ (~ IsTile => d.tile = <<>>)
<1>. DEFINE passing == {i \in DOMAIN conf : Passes(i, conf[i])}
            before == {p \in passing \X passing : LeftOf(p[1], p[2])}
            order == InOrder(passing, before)
            N == Cardinality(passing)
            New(n) == DetectionOf(order[n], conf[order[n]], Cardinality(asked.raw) + n)
<1>1. /\ IsFiniteSet(photo.items)
      /\ \A i \in photo.items : i.l \in Int /\ i.r \in Int
      /\ \A i, j \in photo.items : i.l = j.l /\ i.r = j.r => i = j
  BY DetectionAssumption DEF RawInv
<1>2. DOMAIN conf \subseteq photo.items
  BY DEF Sightings, Visible
<1>3. passing \subseteq photo.items
  BY <1>2
<1>. HIDE DEF passing
<1>4. IsFiniteSet(passing)
  BY <1>1, <1>3, FS_Subset
<1>5. InARow(passing, before)
  <2>1. \A a, b \in passing : <<a, b>> \in before <=> LeftOf(a, b)
    OBVIOUS
  <2>2. \A a \in passing : a.l \in Int /\ a.r \in Int
    BY <1>1, <1>3
  <2>3. \A a, b \in passing : a.l = b.l /\ a.r = b.r => a = b
    BY <1>1, <1>3
  <2>. HIDE DEF before
  <2>. QED
    BY <2>1, <2>2, <2>3 DEF InARow, LeftOf
<1>6. order = EachPlace(passing, before)
  BY Zenon DEF InOrder, EachPlace
<1>. HIDE DEF before
<1>7. /\ N \in Nat /\ Len(order) = N /\ order \in [1 .. N -> passing]
      /\ \A m, n \in 1 .. N : order[m] = order[n] => m = n
  <2>. HIDE DEF order
  <2>. QED
    BY <1>4, <1>5, <1>6, RowOfAll
<1>8. DetectionsOf(conf) = {New(n) : n \in 1 .. N}
  BY <1>7, Zenon DEF DetectionsOf, passing, before
<1>. HIDE DEF order, N
<1>9. PICK m \in 1 .. N, n \in 1 .. N : d = New(m) /\ e = New(n)
  BY <1>8
<1>10. d.item = order[m] /\ e.item = order[n] /\ (~ IsTile => d.tile = <<>>)
  BY <1>9 DEF DetectionOf
<1>. QED
  BY <1>3, <1>7, <1>9, <1>10

\* The sums over one detection.
LEMMA SumOfOne ==
  ASSUME NEW d, Weight(d) \in Int, d.l * Weight(d) \in Int, d.r * Weight(d) \in Int
  PROVE  /\ MapThenSumSet(Weight, {d}) = Weight(d)
         /\ MapThenSumSet(LAMBDA e : e["l"] * Weight(e), {d}) = d.l * Weight(d)
         /\ MapThenSumSet(LAMBDA e : e["r"] * Weight(e), {d}) = d.r * Weight(d)
<1>. DEFINE Some(s) == CHOOSE x \in s : TRUE
            Weights(g) == g = [s \in SUBSET {d} |-> IF s = {} THEN 0 ELSE Weight(Some(s)) + g[s \ {Some(s)}]]
            Lefts(g) == g = [s \in SUBSET {d} |-> IF s = {} THEN 0
                               ELSE Some(s)["l"] * Weight(Some(s)) + g[s \ {Some(s)}]]
            Rights(g) == g = [s \in SUBSET {d} |-> IF s = {} THEN 0
                                ELSE Some(s)["r"] * Weight(Some(s)) + g[s \ {Some(s)}]]
<1>1. /\ MapThenSumSet(Weight, {d}) = (CHOOSE g : Weights(g))[{d}]
      /\ MapThenSumSet(LAMBDA e : e["l"] * Weight(e), {d}) = (CHOOSE g : Lefts(g))[{d}]
      /\ MapThenSumSet(LAMBDA e : e["r"] * Weight(e), {d}) = (CHOOSE g : Rights(g))[{d}]
  BY DEF MapThenSumSet, MapThenFoldSet
<1>2. Weights([s \in SUBSET {d} |-> IF s = {} THEN 0 ELSE Weight(d)])
  OBVIOUS
<1>3. Lefts([s \in SUBSET {d} |-> IF s = {} THEN 0 ELSE d.l * Weight(d)])
  OBVIOUS
<1>4. Rights([s \in SUBSET {d} |-> IF s = {} THEN 0 ELSE d.r * Weight(d)])
  OBVIOUS
<1>5. Weights(CHOOSE g : Weights(g)) /\ Lefts(CHOOSE g : Lefts(g)) /\ Rights(CHOOSE g : Rights(g))
  <2>. HIDE DEF Weights, Lefts, Rights
  <2>. QED
    BY <1>2, <1>3, <1>4
<1>0. Some({d}) = d /\ {d} \ {d} = {} /\ {} \in SUBSET {d} /\ {d} \in SUBSET {d} /\ {d} # {}
  OBVIOUS
<1>. HIDE DEF Some
<1>6. ASSUME NEW g, Weights(g) PROVE g[{d}] = Weight(d)
  <2>1. g[{}] = 0 /\ g[{d}] = Weight(d) + g[{}]
    BY <1>0, <1>6
  <2>. QED
    BY <2>1
<1>7. ASSUME NEW g, Lefts(g) PROVE g[{d}] = d.l * Weight(d)
  <2>1. g[{}] = 0 /\ g[{d}] = d.l * Weight(d) + g[{}]
    BY <1>0, <1>7
  <2>. QED
    BY <2>1
<1>8. ASSUME NEW g, Rights(g) PROVE g[{d}] = d.r * Weight(d)
  <2>1. g[{}] = 0 /\ g[{d}] = d.r * Weight(d) + g[{}]
    BY <1>0, <1>8
  <2>. QED
    BY <2>1
<1>. HIDE DEF Weights, Lefts, Rights
<1>. QED
  BY <1>1, <1>5, <1>6, <1>7, <1>8

\* A weighted mean of one number is that number.
LEMMA MeanOfOne ==
  ASSUME NEW a \in Int, NEW w \in Nat \ {0}
  PROVE  (a * w) \div w = a
OBVIOUS

\* What stands for one detection is where it is.
Alike(f, d) == f.item = d.item /\ f.model = d.model /\ f.cls = d.cls /\ f.l = d.l /\ f.r = d.r

\* A detection merged with no other stays where it is.
LEMMA MergedAlone ==
  ASSUME NEW d, Listed({d}), DOMAIN d = DetectionFields, d.l \in Int, d.r \in Int
  PROVE  Alike(Merged({d}), d)
<1>1. BestFirst({d})[1] = d
  <2>1. Cardinality({d}) = 1
    BY FS_Singleton
  <2>2. BestFirst({d}) \in [1 .. 1 -> {d}]
    BY <2>1, BestFirstListsAll
  <2>. QED
    BY <2>2
<1>2. d.conf \in Int
  BY DEF Listed
<1>3. Weight(d) \in Nat \ {0}
  BY <1>2, GreatestOfTwo DEF Weight
<1>4. d.l * Weight(d) \in Int /\ d.r * Weight(d) \in Int /\ Weight(d) \in Int
  BY <1>3
<1>5. MeanEnd({d}, "l") = d.l /\ MeanEnd({d}, "r") = d.r
  BY <1>3, <1>4, SumOfOne, MeanOfOne DEF MeanEnd
<1>. QED
  BY <1>1, <1>5 DEF Merged, Alike, DetectionFields

\* In one request no item is seen twice, and nothing is cut off.
OneEach(raw, items) ==
  /\ \A d \in raw : d.item \in items /\ d.tile = <<>>
  /\ \A d, e \in raw : d.item = e.item => d = e

\* Nothing is merged, moved or dropped then.
AsTheyWere(raw, final) ==
  /\ IsFiniteSet(final)
  /\ \A f \in final : \E d \in raw : Alike(f, d)
  /\ \A d \in raw : \E f \in final : Alike(f, d)

\* When a request lists each item once and the items stay apart, nothing is removed.
LEMMA NothingMerged ==
  ASSUME NEW raw, NEW scale, RawSound(raw, scale), Apart(raw), NEW items, OneEach(raw, items),
         IouThreshold \in 0 .. 100, NEW strategy \in Strategies
  PROVE  AsTheyWere(raw, Deduplicated(raw, strategy, IouThreshold))
<1>0. Listed(raw) /\ IsFiniteSet(raw)
  BY DEF RawSound, Listed
<1>1. CASE strategy = "none"
  BY <1>0, <1>1 DEF AsTheyWere, Deduplicated, Alike
<1>2. CASE strategy = "nms"
  <2>. DEFINE final == Nms(raw, IouThreshold)
  <2>1. KeptSound(final, raw, raw, IouThreshold)
    BY <1>0, NmsKeeps
  <2>2. Deduplicated(raw, strategy, IouThreshold) = final
    BY <1>2 DEF Deduplicated
  <2>. HIDE DEF final
  <2>3. final \subseteq raw
    BY <2>1 DEF KeptSound
  <2>4. ASSUME NEW d \in raw PROVE d \in final
    <3>1. d \in final \/ \E k \in final : Suppresses(k, d, IouThreshold)
      BY <2>1 DEF KeptSound
    <3>2. \A k \in final : Suppresses(k, d, IouThreshold) => k.item = d.item
      BY <2>3 DEF Suppresses, Apart
    <3>. QED
      BY <2>3, <3>1, <3>2 DEF OneEach
  <2>5. final = raw
    BY <2>3, <2>4
  <2>. QED
    BY <1>0, <2>2, <2>5 DEF AsTheyWere, Alike
<1>3. ASSUME strategy \in {"nmm", "conservative"} PROVE AsTheyWere(raw, Deduplicated(raw, strategy, IouThreshold))
  <2>. DEFINE clusters == Clusters(raw, strategy, IouThreshold)
              final == Deduplicated(raw, strategy, IouThreshold)
  <2>1. ClustersSound(clusters, raw, raw, strategy, IouThreshold)
    BY <1>0, <1>3, ClustersAreSound
  <2>2. final = {Merged(g) : g \in clusters}
    BY <1>3 DEF Deduplicated, Nmm, Conservative
  <2>. HIDE DEF clusters, final
  <2>3. ASSUME NEW g \in clusters PROVE \E d \in raw : g = {d}
    <3>1. PICK seed \in g : \A some \in SUBSET raw :
                              seed \in some /\ Closed(some, raw, strategy, IouThreshold) => g \subseteq some
      BY <2>1 DEF ClustersSound, Seeded
    <3>2. g \subseteq raw
      BY <2>1 DEF ClustersSound, Seeded
    <3>. DEFINE some == {d \in raw : d.item = seed.item}
    <3>3. some \in SUBSET raw /\ seed \in some
      BY <3>2
    <3>4. Closed(some, raw, strategy, IouThreshold)
      BY <1>3, JoinedIsOneItem
    <3>5. g \subseteq some
      <4>. HIDE DEF some
      <4>. QED
        BY <3>1, <3>3, <3>4
    <3>6. some = {seed}
      BY <3>3 DEF OneEach
    <3>. QED
      BY <3>2, <3>5, <3>6
  <2>4. ASSUME NEW d \in raw PROVE {d} \in clusters
    <3>1. PICK g \in clusters : d \in g
      BY <2>1 DEF ClustersSound
    <3>. QED
      BY <2>3, <3>1
  <2>5. ASSUME NEW d \in raw PROVE Alike(Merged({d}), d)
    <3>1. Listed({d})
      BY <1>0, PartListed
    <3>2. DOMAIN d = DetectionFields /\ d.l \in Int /\ d.r \in Int
      BY DEF RawSound, InPlace, Uncut, OneEach
    <3>. QED
      BY <3>1, <3>2, MergedAlone
  <2>6. final = {Merged({d}) : d \in raw}
    <3>1. clusters = {{d} : d \in raw}
      BY <2>3, <2>4
    <3>2. {Merged(g) : g \in {{d} : d \in raw}} = {Merged({d}) : d \in raw}
      OBVIOUS
    <3>. QED
      BY <2>2, <3>1, <3>2
  <2>7. IsFiniteSet(final)
    <3>. DEFINE f == [d \in raw |-> Merged({d})]
    <3>1. f \in Surjection(raw, final)
      BY <2>6 DEF Surjection
    <3>. HIDE DEF f
    <3>. QED
      BY <1>0, <3>1, FS_Surjection
  <2>. QED
    BY <2>5, <2>6, <2>7 DEF AsTheyWere, final
<1>. QED
  BY <1>1, <1>2, <1>3 DEF Strategies

\* Detections of one item, and no others, are linked: every cluster is then all
\* there is of one item.
LinkedByItem(dets) == \A a, b \in dets : Linked(a, b, IouThreshold) <=> a.item = b.item
OfItem(dets, i) == {e \in dets : e.item = i}

\* When linked means of the same item, the neighbours of a cluster are its item.
LEMMA LinkedToItem ==
  ASSUME NEW dets, LinkedByItem(dets), NEW d \in dets,
         NEW some \in SUBSET OfItem(dets, d.item), d \in some
  PROVE  LinkedTo(some, dets, IouThreshold) = OfItem(dets, d.item)
<1>1. \A e \in dets : (\E m \in some : m = e \/ Linked(m, e, IouThreshold)) <=> e.item = d.item
  BY DEF OfItem, LinkedByItem
<1>. QED
  BY <1>1 DEF OfItem, LinkedTo

\* So each cluster grows to all detections of its item,
LEMMA ClusterOfItem ==
  ASSUME NEW dets, IsFiniteSet(dets), LinkedByItem(dets), NEW N, N = Cardinality(dets), NEW d \in dets, NEW near,
         near = [n \in 0 .. N |-> IF n = 0 THEN {d}
                                  ELSE LinkedTo(near[n - 1], dets, IouThreshold)]
  PROVE  near[N] = OfItem(dets, d.item)
<1>. DEFINE Good == {n \in 0 .. N : near[n] \subseteq OfItem(dets, d.item) /\ d \in near[n]
                                    /\ (n > 0 => near[n] = OfItem(dets, d.item))}
<1>1. N \in Nat /\ N > 0
  <2>1. N \in Nat
    BY FS_CardinalityType
  <2>2. N # 0
    BY FS_EmptySet
  <2>. QED
    BY <2>1, <2>2
<1>2. near[0] = {d}
  BY <1>1
<1>3. \A n \in 1 .. N :
        near[n] = LinkedTo(near[n - 1], dets, IouThreshold)
  <2>1. \A n \in 1 .. N : n \in 0 .. N /\ n # 0
    BY <1>1
  <2>. QED
    BY <2>1
<1>4. 0 \in Good
  BY <1>1, <1>2 DEF OfItem
<1>5. ASSUME NEW n \in 1 .. N, n - 1 \in Good PROVE n \in Good
  <2>1. near[n - 1] \subseteq OfItem(dets, d.item) /\ d \in near[n - 1]
    BY <1>5
  <2>2. near[n] = OfItem(dets, d.item)
    BY <1>3, <2>1, LinkedToItem
  <2>3. d \in OfItem(dets, d.item) /\ n \in 0 .. N
    BY <1>1 DEF OfItem
  <2>. QED
    BY <2>2, <2>3
<1>6. \A n \in 0 .. N : n \in Good
  <2>. HIDE DEF Good
  <2>. QED
    BY <1>1, <1>4, <1>5, StepByStep
<1>. QED
  BY <1>1, <1>6

\* and the clusters are the items that were found.
LEMMA ClustersAreItems ==
  ASSUME NEW dets, IsFiniteSet(dets), LinkedByItem(dets)
  PROVE  ConsensusClusters(dets, IouThreshold) = {OfItem(dets, d.item) : d \in dets}
<1>. DEFINE N == Cardinality(dets)
            Near(d, near) ==
              near = [n \in 0 .. N |->
                        IF n = 0 THEN {d}
                        ELSE LinkedTo(near[n - 1], dets, IouThreshold)]
            Around(d) == (CHOOSE near : Near(d, near))[N]
<1>1. ConsensusClusters(dets, IouThreshold) = {Around(d) : d \in dets}
  BY Zenon DEF ConsensusClusters
<1>2. ASSUME NEW d \in dets PROVE Around(d) = OfItem(dets, d.item)
  <2>. DEFINE V == SUBSET dets
              Step == [p \in V \X (1 .. N) |->
                         LinkedTo(p[1], dets, IouThreshold)]
  <2>1. N \in Nat /\ {d} \in V /\ StepIn(N, V, Step)
    BY FS_CardinalityType DEF StepIn, LinkedTo
  <2>2. \A p \in V \X (1 .. N) :
          Step[p] = LinkedTo(p[1], dets, IouThreshold)
    OBVIOUS
  <2>. HIDE DEF V, Step, N
  <2>3. PICK f : Follows(f, N, V, {d}, Step)
    BY <2>1, Recursion
  <2>4. ASSUME NEW n \in 1 .. N
        PROVE  f[n] = LinkedTo(f[n - 1], dets, IouThreshold)
    <3>1. n - 1 \in 0 .. N /\ <<f[n - 1], n>> \in V \X (1 .. N)
      BY <2>1, <2>3 DEF Follows
    <3>. QED
      BY <2>2, <2>3, <3>1 DEF Follows
  <2>5. Near(d, f)
    <3>1. f = [n \in 0 .. N |-> f[n]]
      BY <2>3 DEF Follows
    <3>2. \A n \in 0 .. N : f[n] = IF n = 0 THEN {d}
                                  ELSE LinkedTo(f[n - 1], dets, IouThreshold)
      BY <2>1, <2>3, <2>4 DEF Follows
    <3>. QED
      BY <3>1, <3>2
  <2>6. Near(d, CHOOSE near : Near(d, near))
    <3>. HIDE DEF Near
    <3>. QED
      BY <2>5
  <2>. QED
    BY <2>6, ClusterOfItem DEF N
<1>. HIDE DEF Around
<1>3. {Around(d) : d \in dets} = {OfItem(dets, d.item) : d \in dets}
  BY <1>2
<1>. QED
  BY <1>1, <1>3

\* So the clusters with enough models are the items with enough finders.
LEMMA AgreedAreItems ==
  ASSUME NEW dets, IsFiniteSet(dets), LinkedByItem(dets), NEW agreement \in Nat \ {0},
         NEW items, IsFiniteSet(items), \A d \in dets : d.item \in items
  PROVE  Cardinality(Consensus(dets, agreement, IouThreshold)) =
           Cardinality({i \in items : Cardinality(ModelsOf(OfItem(dets, i))) >= agreement})
<1>. DEFINE enough == {i \in items : Cardinality(ModelsOf(OfItem(dets, i))) >= agreement}
            agreed_ == Consensus(dets, agreement, IouThreshold)
            f == [i \in enough |-> OfItem(dets, i)]
<1>1. agreed_ = {g \in {OfItem(dets, d.item) : d \in dets} : Cardinality(ModelsOf(g)) >= agreement}
  BY ClustersAreItems DEF Consensus
<1>2. ASSUME NEW i \in enough PROVE OfItem(dets, i) # {}
  <2>. SUFFICES ASSUME OfItem(dets, i) = {} PROVE FALSE
    OBVIOUS
  <2>1. ModelsOf(OfItem(dets, i)) = {}
    BY DEF ModelsOf
  <2>2. Cardinality(ModelsOf(OfItem(dets, i))) = 0
    BY <2>1, FS_EmptySet
  <2>. QED
    BY <2>2
<1>3. ASSUME NEW i \in enough PROVE f[i] \in agreed_
  <2>1. PICK d \in OfItem(dets, i) : TRUE
    BY <1>2
  <2>2. d \in dets /\ d.item = i
    BY DEF OfItem
  <2>. QED
    BY <1>1, <2>2
<1>4. ASSUME NEW g \in agreed_ PROVE \E i \in enough : f[i] = g
  <2>1. PICK d \in dets : g = OfItem(dets, d.item)
    BY <1>1
  <2>2. d.item \in enough
    BY <1>1, <2>1
  <2>. QED
    BY <2>1, <2>2
<1>5. ASSUME NEW i \in enough, NEW j \in enough, f[i] = f[j] PROVE i = j
  <2>1. PICK d \in OfItem(dets, i) : TRUE
    BY <1>2
  <2>. QED
    BY <1>5, <2>1 DEF OfItem
<1>6. f \in Surjection(enough, agreed_) /\ f \in Injection(enough, agreed_)
  <2>1. f \in [enough -> agreed_]
    BY <1>3
  <2>. HIDE DEF f, enough, agreed_
  <2>. QED
    BY <1>4, <1>5, <2>1 DEF Surjection, Injection, IsInjective
<1>7. IsFiniteSet(enough)
  BY FS_Subset
<1>. HIDE DEF f, enough, agreed_
<1>8. Cardinality(agreed_) = Cardinality(enough)
  BY <1>6, <1>7, FS_Surjection
<1>. QED
  BY <1>8 DEF enough, agreed_

\* Detections in the same places are linked alike.
LEMMA AlikeAreLinked ==
  ASSUME NEW a, NEW b, NEW d, NEW e, Alike(a, d), Alike(b, e), NEW iou
  PROVE  Linked(a, b, iou) <=> Linked(d, e, iou)
<1>1. BoxWidth(a) = BoxWidth(d) /\ BoxWidth(b) = BoxWidth(e) /\ Shared(a, b) = Shared(d, e)
  BY DEF Alike, BoxWidth, Shared
<1>2. IouAtLeast(a, b, iou) = IouAtLeast(d, e, iou) /\ IosAtLeast(a, b, 70) = IosAtLeast(d, e, 70)
  BY <1>1, Zenon DEF IouAtLeast, IosAtLeast
<1>3. CentresWithin(a, b, 400) = CentresWithin(d, e, 400)
  BY <1>1 DEF Alike, CentresWithin
<1>. QED
  BY <1>2, <1>3, Zenon DEF Alike, Linked

\* Whose turn it is, what is asked in one request and what was agreed on.
TurnInv ==
  /\ turn \in 1 .. Len(Detectors) + 1 /\ Len(results) <= turn - 1
  /\ asked.next \in 1 .. Len(Todo) + 1 /\ asked.calls \in 0 .. asked.next - 1
  /\ \A i \in DOMAIN results : results[i].asked.next \in 1 .. Len(Todo) + 1
  /\ setup.mode = "whole" =>
       /\ asked.next = 1 => asked.raw = {}
       /\ OneEach(asked.raw, photo.items)
       /\ \A i \in DOMAIN results : OneEach(results[i].asked.raw, photo.items)
  /\ agreed # <<>> =>
       /\ turn > Len(Detectors)
       /\ \E k \in 1 .. Len(Detectors) : agreed = <<Consensus(Flattened, k, IouThreshold), k>>

\* A photo that is asked about whole takes one request.
LEMMA PlanLength ==
  ASSUME RawInv
  PROVE  Len(Todo) \in Nat /\ (setup.mode = "whole" => Len(Todo) = 1)
<1>1. Todo \in Seq(Crops)
  BY PlansArePictures DEF RawInv, Todo
<1>2. setup.mode = "whole" => Todo = <<Frame(0, RowLength, "whole")>>
  BY DEF Todo, Plans, Frames, WholeFrame, Modes
<1>. QED
  BY <1>1, <1>2, LenProperties

LEMMA TurnFromTheStart == DetectionInit => TurnInv
<1>. SUFFICES ASSUME DetectionInit PROVE TurnInv
  OBVIOUS
<1>1. Len(Todo) \in Nat
  BY RawFromTheStart, PlanLength
<1>2. /\ asked.next = 1 /\ asked.calls = 0 /\ asked.raw = {} /\ turn = 1 /\ agreed = <<>>
      /\ results = <<>> /\ Len(results) = 0
  BY DEF DetectionInit, Nothing
<1>3. Len(Detectors) \in Nat
  BY DetectionAssumption
<1>. QED
  BY <1>1, <1>2, <1>3 DEF TurnInv, OneEach

LEMMA RequestKeepsTurn ==
  ASSUME RawInv, TurnInv, turn <= Len(Detectors), NEW run, KeepAsked(run),
         run.next \in 1 .. Len(Todo) + 1, run.calls \in 0 .. run.next - 1,
         setup.mode = "whole" => (run.next = 1 => run.raw = {}) /\ OneEach(run.raw, photo.items)
  PROVE  TurnInv'
<1>1. asked' = run /\ UNCHANGED <<photo, setup, turn, results, agreed>>
  BY DEF KeepAsked
<1>2. Todo' = Todo
  BY <1>1 DEF Todo
<1>3. agreed = <<>>
  BY DetectionAssumption DEF TurnInv
<1>. QED
  BY <1>1, <1>2, <1>3 DEF TurnInv, OneEach

LEMMA RequestedKeepsTurn ==
  ASSUME RawInv, TurnInv, Gathered(asked), Running, Requested \/ Drafted
  PROVE  TurnInv'
<1>1. /\ DOMAIN asked = AskedFields /\ turn <= Len(Detectors) /\ Len(Todo) \in Nat
      /\ asked.next \in 1 .. Len(Todo) /\ asked.calls \in 0 .. asked.next - 1
  BY PlanLength DEF Gathered, Running, TurnInv
<1>2. ASSUME NEW run \in {Failed(asked), DraftOnly(asked)}, KeepAsked(run) PROVE TurnInv'
  <2>1. run.next = asked.next + 1 /\ run.raw = asked.raw /\ run.calls \in {asked.calls, asked.calls + 1}
    <3>1. CASE run = Failed(asked)
      BY <1>1, <3>1 DEF Failed, AskedFields
    <3>2. CASE run = DraftOnly(asked)
      BY <1>1, <3>2 DEF DraftOnly, AskedFields
    <3>. QED
      BY <3>1, <3>2
  <2>2. run.next \in 1 .. Len(Todo) + 1 /\ run.calls \in 0 .. run.next - 1 /\ run.next # 1
    BY <1>1, <2>1
  <2>3. setup.mode = "whole" => OneEach(run.raw, photo.items)
    BY <2>1 DEF TurnInv
  <2>. QED
    BY <1>1, <1>2, <2>2, <2>3, RequestKeepsTurn
<1>3. ASSUME NEW conf \in Sightings, KeepAsked(Answered(asked, conf)) PROVE TurnInv'
  <2>. DEFINE run == Answered(asked, conf)
  <2>1. run.next = asked.next + 1 /\ run.raw = asked.raw \cup DetectionsOf(conf) /\ run.calls = asked.calls + 1
    BY <1>1 DEF Answered, AskedFields
  <2>. HIDE DEF run
  <2>2. run.next \in 1 .. Len(Todo) + 1 /\ run.calls \in 0 .. run.next - 1 /\ run.next # 1
    BY <1>1, <2>1
  <2>3. ASSUME setup.mode = "whole" PROVE OneEach(run.raw, photo.items)
    <3>1. asked.next = 1 /\ asked.raw = {}
      <4>1. Len(Todo) = 1
        BY <2>3, PlanLength
      <4>2. asked.next = 1
        BY <1>1, <4>1
      <4>. QED
        BY <2>3, <4>2 DEF TurnInv
    <3>2. ~ IsTile
      <4>1. Todo = <<Frame(0, RowLength, "whole")>>
        BY <2>3 DEF Todo, Plans, Frames, WholeFrame, Modes
      <4>. QED
        BY <3>1, <4>1 DEF IsTile, Current, Frame
    <3>. QED
      BY <2>1, <3>1, <3>2, AnswerShowsOnce DEF OneEach
  <2>4. KeepAsked(run)
    BY <1>3 DEF run
  <2>. QED
    BY <1>1, <2>2, <2>3, <2>4, RequestKeepsTurn
<1>. QED
  BY <1>2, <1>3 DEF Requested, Drafted

LEMMA ConcludeKeepsTurn ==
  ASSUME RawInv, SawInv, TurnInv, Conclude
  PROVE  TurnInv'
<1>. DEFINE result == [ok |-> Succeeds(asked), asked |-> asked,
                       dets |-> IF Succeeds(asked) THEN Deduplicated(asked.raw, setup.strategy, IouThreshold) ELSE {}]
<1>1. /\ results' = Append(results, result) /\ result.asked = asked
      /\ turn <= Len(Detectors) /\ turn' \in {turn + 1, Len(Detectors) + 1}
      /\ asked' = Nothing /\ UNCHANGED <<photo, setup, agreed>>
  BY DEF Conclude
<1>. HIDE DEF result
<1>2. /\ results' \in Seq({results'[i] : i \in DOMAIN results'})
      /\ DOMAIN results' = DOMAIN results \cup {Len(results) + 1}
      /\ results'[Len(results) + 1] = result
      /\ \A i \in DOMAIN results : results'[i] = results[i]
  BY <1>1, ASequenceGrows DEF SawInv
<1>3. asked'.next = 1 /\ asked'.calls = 0 /\ asked'.raw = {} /\ Len(Todo') \in Nat
  BY <1>1, PlanLength DEF Nothing, Todo
<1>4. Len(results') = Len(results) + 1 /\ Len(results) \in Nat
  <2>1. results \in Seq({results[i] : i \in DOMAIN results} \cup {result})
    BY DEF SawInv
  <2>. QED
    BY <1>1, <2>1, LenProperties, AppendProperties
<1>5. turn' \in 1 .. Len(Detectors) + 1 /\ Len(results') <= turn' - 1
  BY <1>1, <1>4, DetectionAssumption DEF TurnInv
<1>6. agreed' = <<>>
  BY <1>1, DetectionAssumption DEF TurnInv
<1>7. ASSUME setup'.mode = "whole", NEW i \in DOMAIN results' PROVE OneEach(results'[i].asked.raw, photo'.items)
  BY <1>1, <1>2, <1>7 DEF TurnInv
<1>8. OneEach(asked'.raw, photo'.items)
  BY <1>3 DEF OneEach
<1>9. ASSUME NEW i \in DOMAIN results' PROVE results'[i].asked.next \in 1 .. Len(Todo') + 1
  <2>1. Todo' = Todo
    BY <1>1 DEF Todo
  <2>. QED
    BY <1>1, <1>2, <1>9, <2>1 DEF TurnInv
<1>. QED
  BY <1>3, <1>5, <1>6, <1>7, <1>8, <1>9 DEF TurnInv

LEMMA TurnStep == RawInv /\ SawInv /\ TurnInv /\ [DetectionNext]_detectionVars => TurnInv'
<1>. SUFFICES ASSUME RawInv, SawInv, TurnInv, [DetectionNext]_detectionVars PROVE TurnInv'
  OBVIOUS
<1>0. Gathered(asked)
  BY DEF SawInv
<1>1. CASE AskDynamic \/ AskPublished \/ AskDirect
  <2>1. Running
    BY <1>1 DEF AskDynamic, AskPublished, AskDirect, MayAsk
  <2>2. Requested \/ Drafted
    BY <1>1 DEF AskDynamic, AskPublished, AskDirect, Requested
  <2>. QED
    BY <1>0, <2>1, <2>2, RequestedKeepsTurn
<1>2. CASE StopAtCap
  <2>. DEFINE run == [asked EXCEPT !.capped = TRUE]
  <2>1. KeepAsked(run) /\ turn <= Len(Detectors)
    BY <1>2 DEF StopAtCap, KeepAsked, Running
  <2>2. run.next = asked.next /\ run.raw = asked.raw /\ run.calls = asked.calls
    BY <1>0 DEF Gathered, AskedFields
  <2>. HIDE DEF run
  <2>. QED
    BY <2>1, <2>2, RequestKeepsTurn DEF TurnInv
<1>3. CASE Conclude
  BY <1>3, ConcludeKeepsTurn
<1>4. CASE TakeConsensus
  <2>1. /\ UNCHANGED <<photo, setup, turn, asked, results>> /\ turn > Len(Detectors)
        /\ \E k \in 1 .. Len(Detectors) : agreed' = <<Consensus(Flattened, k, IouThreshold), k>>
    BY <1>4 DEF TakeConsensus
  <2>2. Flattened' = Flattened /\ Todo' = Todo
    BY <2>1 DEF Flattened, Successes, Todo
  <2>. QED
    BY <2>1, <2>2 DEF TurnInv, OneEach
<1>5. CASE UNCHANGED detectionVars
  <2>1. UNCHANGED <<photo, setup, turn, asked, results, agreed>>
    BY <1>5 DEF detectionVars
  <2>2. Flattened' = Flattened /\ Todo' = Todo
    BY <2>1 DEF Flattened, Successes, Todo
  <2>. QED
    BY <2>1, <2>2 DEF TurnInv, OneEach
<1>. QED
  BY <1>1, <1>2, <1>3, <1>4, <1>5 DEF DetectionNext

\* What every success found, as far as the consensus is about it.
LEMMA FoundAreKept ==
  ASSUME RawInv, TurnInv, setup.mode = "whole", Apart(Found), NEW i \in Successes
  PROVE  /\ RawSound(results[i].asked.raw, photo.scale) /\ OneEach(results[i].asked.raw, photo.items)
         /\ AsTheyWere(results[i].asked.raw, results[i].dets)
<1>. DEFINE raw == results[i].asked.raw
<1>1. i \in DOMAIN results /\ results[i].ok
  BY DEF Successes
<1>2. /\ RawSound(raw, photo.scale) /\ OneEach(raw, photo.items) /\ setup.strategy \in Strategies
      /\ results[i].dets = Deduplicated(raw, setup.strategy, IouThreshold)
  BY <1>1 DEF RawInv, TurnInv
<1>3. Apart(raw)
  BY DEF Found, Apart
<1>. HIDE DEF raw
<1>4. AsTheyWere(raw, results[i].dets)
  BY <1>2, <1>3, NothingMerged, DetectionAssumption
<1>. QED
  BY <1>2, <1>4 DEF raw

\* The models together found finitely many detections.
LEMMA FlattenedIsFinite ==
  ASSUME RawInv, SawInv, TurnInv, setup.mode = "whole", Apart(Found)
  PROVE  IsFiniteSet(Flattened)
<1>. DEFINE parts == {results[i].dets : i \in Successes}
            f == [i \in Successes |-> results[i].dets]
<1>1. IsFiniteSet(Successes)
  <2>1. DOMAIN results = 1 .. Len(results) /\ Len(results) \in Nat
    BY LenProperties DEF SawInv
  <2>2. IsFiniteSet(DOMAIN results)
    BY <2>1, FS_Interval
  <2>. QED
    BY <2>2, FS_Subset DEF Successes
<1>2. f \in Surjection(Successes, parts)
  BY DEF Surjection
<1>. HIDE DEF f
<1>3. IsFiniteSet(parts)
  BY <1>1, <1>2, FS_Surjection
<1>4. \A part \in parts : IsFiniteSet(part)
  BY FoundAreKept DEF AsTheyWere
<1>5. Flattened = UNION parts
  BY DEF Flattened
<1>. HIDE DEF parts
<1>. QED
  BY <1>3, <1>4, <1>5, FS_UNION

\* Two detections of one item are linked wherever the item is.
LEMMA SameItemIsLinked ==
  ASSUME NEW d, NEW e, NEW scale, InPlace(d, scale), InPlace(e, scale), d.item = e.item,
         d.tile = <<>>, e.tile = <<>>, d.cls = d.item.cls, e.cls = e.item.cls
  PROVE  Linked(d, e, IouThreshold)
<1>. DEFINE x == d.item.l * scale
            y == d.item.r * scale
<1>1. x \in Int /\ y \in Int /\ x < y /\ d.l = x /\ e.l = x /\ d.r = y /\ e.r = y
  BY DEF InPlace, Uncut
<1>. HIDE DEF x, y
<1>2. IouAtLeast(d, e, IouThreshold) /\ CentresWithin(d, e, 400)
  <2>1. IouThreshold \in 0 .. 100 /\ 400 \in Nat
    BY DetectionAssumption
  <2>2. IouAtLeast(d, e, IouThreshold)
    BY <1>1, <2>1, SameBox
  <2>3. CentresWithin(d, e, 400)
    BY <1>1, <2>1, SameCentre
  <2>. QED
    BY <2>2, <2>3
<1>. QED
  BY <1>2 DEF Linked

\* The consensus has as many clusters as items that enough models found.
LEMMA ConsensusIsOfItems ==
  ASSUME RawInv, SawInv, TurnInv
  PROVE  ConsensusCountsItems
<1>. SUFFICES ASSUME agreed # <<>>, setup.mode = "whole", Apart(Found), FarApart(Found)
              PROVE  LET finders(item) == {d.model : d \in {f \in Found : f.item = item}}
                         enough == {item \in photo.items : Cardinality(finders(item)) >= agreed[2]}
                     IN Cardinality(agreed[1]) = Cardinality(enough)
  BY DEF ConsensusCountsItems
<1>. DEFINE finders(item) == {d.model : d \in {f \in Found : f.item = item}}
<1>1. PICK k \in 1 .. Len(Detectors) : agreed = <<Consensus(Flattened, k, IouThreshold), k>>
  BY DEF TurnInv
<1>2. k \in Nat \ {0} /\ agreed[1] = Consensus(Flattened, k, IouThreshold) /\ agreed[2] = k
  BY <1>1, DetectionAssumption
<1>3. ASSUME NEW d \in Found
      PROVE  d.item \in photo.items /\ d.tile = <<>> /\ d.cls = d.item.cls /\ InPlace(d, photo.scale)
  <2>1. PICK i \in Successes : d \in results[i].asked.raw
    BY DEF Found
  <2>. QED
    BY <2>1, FoundAreKept DEF RawSound, OneEach
<1>4. ASSUME NEW f \in Flattened PROVE \E d \in Found : Alike(f, d)
  <2>1. PICK i \in Successes : f \in results[i].dets
    BY DEF Flattened
  <2>2. PICK d \in results[i].asked.raw : Alike(f, d)
    BY <2>1, FoundAreKept DEF AsTheyWere
  <2>. QED
    BY <2>2 DEF Found
<1>5. ASSUME NEW d \in Found PROVE \E f \in Flattened : Alike(f, d)
  <2>1. PICK i \in Successes : d \in results[i].asked.raw
    BY DEF Found
  <2>2. PICK f \in results[i].dets : Alike(f, d)
    BY <2>1, FoundAreKept DEF AsTheyWere
  <2>. QED
    BY <2>2 DEF Flattened
<1>6. LinkedByItem(Flattened)
  <2>. SUFFICES ASSUME NEW a \in Flattened, NEW b \in Flattened
                PROVE  Linked(a, b, IouThreshold) <=> a.item = b.item
    BY DEF LinkedByItem
  <2>1. PICK d \in Found, e \in Found : Alike(a, d) /\ Alike(b, e)
    BY <1>4
  <2>2. Linked(a, b, IouThreshold) <=> Linked(d, e, IouThreshold)
    BY <2>1, AlikeAreLinked
  <2>3. Linked(d, e, IouThreshold) <=> d.item = e.item
    BY <1>3, SameItemIsLinked DEF FarApart
  <2>. QED
    BY <2>1, <2>2, <2>3 DEF Alike
<1>7. IsFiniteSet(photo.items) /\ \A f \in Flattened : f.item \in photo.items
  <2>1. IsFiniteSet(photo.items)
    BY DetectionAssumption DEF RawInv
  <2>2. ASSUME NEW f \in Flattened PROVE f.item \in photo.items
    BY <1>3, <1>4 DEF Alike
  <2>. QED
    BY <2>1, <2>2
<1>8. Cardinality(agreed[1]) =
        Cardinality({i \in photo.items : Cardinality(ModelsOf(OfItem(Flattened, i))) >= k})
  BY <1>2, <1>6, <1>7, FlattenedIsFinite, AgreedAreItems
<1>9. ASSUME NEW i \in photo.items PROVE ModelsOf(OfItem(Flattened, i)) = finders(i)
  <2>1. ASSUME NEW f \in Flattened, f.item = i PROVE f.model \in finders(i)
    BY <1>4, <2>1 DEF Alike
  <2>2. ASSUME NEW d \in Found, d.item = i PROVE d.model \in ModelsOf(OfItem(Flattened, i))
    BY <1>5, <2>2 DEF Alike, ModelsOf, OfItem
  <2>. QED
    BY <2>1, <2>2 DEF ModelsOf, OfItem
<1>. HIDE DEF finders
<1>10. {i \in photo.items : Cardinality(ModelsOf(OfItem(Flattened, i))) >= k}
         = {i \in photo.items : Cardinality(finders(i)) >= agreed[2]}
  BY <1>2, <1>9
<1>. QED
  BY <1>8, <1>10 DEF finders

\* Detection keeps its types: a model has its turn after the other, and is
\* asked no more often than the photo has pictures.
THEOREM DetectionTyped == DetectionSpec => []DetectionTypeOK
<1>1. ASSUME RawInv, SawInv, TurnInv PROVE DetectionTypeOK
  <2>1. Len(Todo) \in Nat /\ Len(Detectors) \in Nat
    BY <1>1, PlanLength, DetectionAssumption
  <2>2. asked.calls \in 0 .. Len(Todo) /\ Len(results) <= Len(Detectors)
    <3>1. results \in Seq({results[i] : i \in DOMAIN results})
      BY <1>1 DEF SawInv
    <3>2. Len(results) \in Nat
      BY <3>1, LenProperties
    <3>. QED
      BY <1>1, <2>1, <3>2 DEF TurnInv
  <2>. QED
    BY <1>1, <2>2 DEF DetectionTypeOK, RawInv, TurnInv
<1>2. RawInv /\ SawInv /\ TurnInv /\ [DetectionNext]_detectionVars => (RawInv /\ SawInv /\ TurnInv)'
  BY RawStep, SawStep, TurnStep
<1>. QED
  BY <1>1, <1>2, RawFromTheStart, SawAllFromTheStart, TurnFromTheStart, PTL DEF DetectionSpec

(* However many models are run on however many items, and whatever they see  *)
(* or fail to see: when the photo is asked about whole, so that every box of *)
(* an item is the item's own, and different items stay apart, the consensus  *)
(* counts the items that enough of the models that succeeded found, with     *)
(* every strategy that removes duplicates (overlap.py:400-462).              *)
THEOREM ConsensusIsTheItems == DetectionSpec => []ConsensusCountsItems
<1>1. RawInv /\ SawInv /\ TurnInv => ConsensusCountsItems
  BY ConsensusIsOfItems
<1>2. RawInv /\ SawInv /\ TurnInv /\ [DetectionNext]_detectionVars => (RawInv /\ SawInv /\ TurnInv)'
  BY RawStep, SawStep, TurnStep
<1>. QED
  BY <1>1, <1>2, RawFromTheStart, SawAllFromTheStart, TurnFromTheStart, PTL DEF DetectionSpec

----------------------------------------------------------------------------
(* Tiling and DetectionRun: what the pictures show                          *)

\* One of the pictures shows what stands between l and r whole.
Shows(pictures, l, r) ==
  \E n \in 1 .. Len(pictures) :
    pictures[n].start <= l /\ r <= pictures[n].start + pictures[n].size

(* Tiles leave no gap, however often they had to grow (create_tiles): what is  *)
(* no wider than the overlap of two neighbours is whole in one of them, and so *)
(* is every pixel, whatever the overlap.                                       *)
THEOREM TilesShowAll ==
  ASSUME NEW size \in Nat \ {0}, NEW overlap \in 0 .. 100, NEW scale,
         NEW grown, grown = GrownSize(RowLength, size, overlap),
         NEW l \in Nat, NEW r \in Nat, l < r, r <= RowLength,
         RowLength <= grown \/ r - l <= grown - Stride(grown, overlap) + 1
  PROVE  Shows(TileFrames(size, overlap, scale), l, r)
<1>. DEFINE starts == AxisStarts(RowLength, grown, Stride(grown, overlap))
            tiles == TileFrames(size, overlap, scale)
<1>1. grown \in Nat \ {0} /\ RowLength \in Nat
  BY DetectionAssumption, GrownSettles
<1>2. PICK s \in starts : s <= l /\ r <= s + grown /\ (RowLength > grown => s + grown <= RowLength)
  BY <1>1, StrideFits, AxisIsCovered
<1>3. s \in 0 .. RowLength
  BY <1>1, StartsAreNumbers
<1>4. TilesAt(tiles, starts, grown, scale)
  BY TilesOfStarts
<1>. HIDE DEF starts, tiles
<1>5. PICK n \in 1 .. Len(tiles) : tiles[n] = TileOf(s, grown, scale)
  BY <1>4 DEF TilesAt
<1>6. tiles[n].start = s /\ tiles[n].size = Smaller(grown, RowLength - s)
  BY <1>5 DEF TileOf, Frame
<1>7. r <= s + Smaller(grown, RowLength - s)
  BY <1>1, <1>2, <1>3 DEF Smaller
<1>8. Shows(tiles, l, r)
  BY <1>2, <1>6, <1>7 DEF Shows
<1>. QED
  BY <1>8 DEF tiles

\* Every pixel of the photo is in one of the pictures a model is sent.
LEMMA PlansShowAll ==
  ASSUME NEW mode \in Modes, NEW x \in Nat, x < RowLength
  PROVE  Shows(Plans[mode], x, x + 1)
<1>1. /\ UserTile \in Nat \ {0} /\ LargeTile \in Nat \ {0} /\ SmallTile \in Nat \ {0}
      /\ RowLength \in Nat /\ x + 1 <= RowLength
  BY DetectionAssumption
<1>2. Shows(WholeFrame("whole"), x, x + 1) /\ Shows(WholeFrame("scale_whole"), x, x + 1)
  <2>. SUFFICES ASSUME NEW scale PROVE Shows(WholeFrame(scale), x, x + 1)
    OBVIOUS
  <2>1. WholeFrame(scale) = <<Frame(0, RowLength, scale)>>
    BY DEF WholeFrame
  <2>2. Len(<<Frame(0, RowLength, scale)>>) = 1 /\ <<Frame(0, RowLength, scale)>>[1] = Frame(0, RowLength, scale)
    OBVIOUS
  <2>. QED
    BY <1>1, <2>1, <2>2 DEF Shows, Frame
<1>3. ASSUME NEW size \in Nat \ {0}, NEW overlap \in 0 .. 100, NEW scale
      PROVE  Shows(TileFrames(size, overlap, scale), x, x + 1)
  <2>. DEFINE grown == GrownSize(RowLength, size, overlap)
  <2>1. grown \in Nat \ {0}
    BY <1>1, GrownSettles
  <2>. HIDE DEF grown
  <2>2. Stride(grown, overlap) \in Nat /\ Stride(grown, overlap) <= grown
    BY <2>1, StrideFits
  <2>3. (x + 1) - x <= grown - Stride(grown, overlap) + 1
    BY <2>1, <2>2
  <2>4. x + 1 \in Nat /\ x < x + 1
    OBVIOUS
  <2>. QED
    BY <1>1, <2>3, <2>4, TilesShowAll DEF grown
<1>4. CASE mode = "whole"
  BY <1>2, <1>4 DEF Plans, Frames
<1>5. CASE mode = "tiled"
  <2>1. Plans[mode] = TileFrames(UserTile, 25, "tile")
    BY <1>5 DEF Plans, Frames
  <2>. QED
    BY <1>1, <1>3, <2>1
<1>6. CASE mode = "thorough"
  <2>. DEFINE a == WholeFrame("scale_whole")
              b == TileFrames(LargeTile, 25, "scale_1024_25")
              c == TileFrames(SmallTile, 30, "scale_640_30")
  <2>1. /\ a \in Seq(Crops) /\ b \in Seq(Crops) /\ c \in Seq(Crops)
        /\ Len(a) = 1 /\ a[1] = Frame(0, RowLength, "scale_whole")
    BY <1>1, WholeIsPicture, TilesArePictures DEF WholeFrame
  <2>2. Plans[mode] = a \o b \o c
    BY <1>6 DEF Plans, Frames
  <2>. HIDE DEF a, b, c
  <2>3. a \o b \in Seq(Crops) /\ Len(a \o b) = Len(a) + Len(b) /\ (a \o b)[1] = a[1] /\ Len(b) \in Nat
    BY <2>1, ConcatProperties, LenProperties
  <2>4. /\ Len((a \o b) \o c) = Len(a \o b) + Len(c) /\ ((a \o b) \o c)[1] = (a \o b)[1]
        /\ Len(c) \in Nat
    BY <2>1, <2>3, ConcatProperties, LenProperties
  <2>5. 1 \in 1 .. Len(Plans[mode]) /\ Plans[mode][1] = Frame(0, RowLength, "scale_whole")
    BY <2>1, <2>2, <2>3, <2>4
  <2>. QED
    BY <1>1, <2>5 DEF Shows, Frame
<1>. QED
  BY <1>4, <1>5, <1>6 DEF Modes

\* The pictures of the first n requests show a part of the item.
Looked(n, item) ==
  \E k \in 1 .. n : Todo[k].start < item.r /\ item.l < Todo[k].start + Todo[k].size

(* A success that the cap did not cut short has an answer about every item of *)
(* the photo: each stands at least in part in a picture that was asked about  *)
(* and answered, whatever the mode, the tiles and the items.                  *)
THEOREM EveryItemLookedAt ==
  DetectionSpec => [](\A i \in Successes : \A item \in photo.items :
                        results[i].asked.capped \/ Looked(results[i].asked.calls, item))
<1>. DEFINE All == \A i \in Successes : \A item \in photo.items :
                     results[i].asked.capped \/ Looked(results[i].asked.calls, item)
<1>1. ASSUME RawInv, SawInv, TurnInv PROVE All
  <2>. SUFFICES ASSUME NEW i \in Successes, NEW item \in photo.items, ~ results[i].asked.capped
                PROVE  Looked(results[i].asked.calls, item)
    OBVIOUS
  <2>1. results[i].asked.calls = results[i].asked.next - 1 /\ ~ (results[i].asked.next <= Len(Todo))
    BY <1>1 DEF SawInv, SuccessSawAll
  <2>2. item.l \in Nat /\ item.r \in Nat /\ item.l < item.r /\ item.r <= RowLength /\ RowLength \in Nat
    BY <1>1, DetectionAssumption DEF RawInv
  <2>3. Shows(Todo, item.l, item.l + 1)
    BY <1>1, <2>2, PlansShowAll DEF RawInv, Todo
  <2>4. Len(Todo) \in Nat /\ \A n \in 1 .. Len(Todo) : Todo[n] \in Crops
    <3>1. Todo \in Seq(Crops)
      BY <1>1, PlansArePictures DEF RawInv, Todo
    <3>. QED
      BY <3>1, LenProperties
  <2>5. results[i].asked.calls = Len(Todo)
    BY <1>1, <2>1, <2>4 DEF TurnInv, Successes
  <2>6. PICK n \in 1 .. Len(Todo) : Todo[n].start <= item.l /\ item.l + 1 <= Todo[n].start + Todo[n].size
    BY <2>3 DEF Shows
  <2>7. Todo[n].start \in Int /\ Todo[n].size \in Int
    BY <2>4 DEF Crops
  <2>8. Todo[n].start < item.r /\ item.l < Todo[n].start + Todo[n].size
    BY <2>2, <2>6, <2>7
  <2>. QED
    BY <2>5, <2>8 DEF Looked
<1>2. RawInv /\ SawInv /\ TurnInv /\ [DetectionNext]_detectionVars => (RawInv /\ SawInv /\ TurnInv)'
  BY RawStep, SawStep, TurnStep
<1>. HIDE DEF All
<1>3. DetectionSpec => []All
  BY <1>1, <1>2, RawFromTheStart, SawAllFromTheStart, TurnFromTheStart, PTL DEF DetectionSpec
<1>. QED
  BY <1>3 DEF All

----------------------------------------------------------------------------
(* ShapeRuns: reviews, the cache, and the save of a test                    *)

\* The object of the page's result is nobody else's: the review writes into it.
OwnResult ==
  page.result.given =>
    \A i \in DOMAIN page.cache : page.cache[i].result.object # page.result.object
\* What a save under way has written: a picture of what the page shows, the row of
\* the review, and the first of its items.
SaveInv ==
  /\ savingTest.at = "idle" => savingTest = NotSaving
  /\ savingTest.at # "idle" => page.result.given /\ Len(shapeTests) < MaxSaved
  /\ savingTest.file # 0 => /\ savingTest.file \in DOMAIN files
                           /\ files[savingTest.file].of = Drawn(page.picture)
  /\ savingTest.at = "items" =>
       LET row == savingTest.rows[1]
           counted == Cardinality(IncludedRows(page.result.marks))
       IN /\ row.hash = page.result.hash /\ row.file = savingTest.file
          /\ row.detected = counted + row.excluded /\ row.final = counted + page.added
          /\ Len(row.items) <= Len(page.result.marks)
          /\ \A k \in 1 .. Len(row.items) : row.items[k] = page.result.marks[k]
\* A saved test names no file that was never written.
FilesWritten ==
  \A i \in DOMAIN shapeTests : shapeTests[i].file # 0 => shapeTests[i].file \in DOMAIN files
ShapeInv == ShapeTypeOK /\ CacheUnreviewed /\ OwnResult /\ SaveInv /\ FilesWritten

PageType == [source : {"upload", "sample"}, up : Pictures, picture : Pictures, hash : Pictures,
             settings : ShapeSettings, result : ShapeResults, cache : Seq(CacheEntries),
             added : 0 .. MaxAdded]

\* What every run of the script may have done before the click is handled.
LEMMA SetupTyped ==
  ASSUME ShapeTypeOK
  PROVE  /\ AfterSetup \in PageType
         /\ AfterSetup.cache = page.cache /\ AfterSetup.source = page.source /\ AfterSetup.up = page.up
         /\ AfterSetup.added = page.added
         /\ AfterSetup.result.given => AfterSetup = page
<1>. page \in PageType
  BY DEF ShapeTypeOK, PageType
<1>1. NoShapeResult \in ShapeResults /\ ~NoShapeResult.given
  BY DEF NoShapeResult, ShapeResults, NoPicture, Pictures
<1>2. CASE page.up = NoPicture
  BY <1>2 DEF AfterSetup, PageType
<1>3. CASE page.up # NoPicture
  <2>1. AfterSetup = [page EXCEPT !.picture = page.up, !.hash = page.up, !.result = NoShapeResult]
    BY <1>3 DEF AfterSetup, Given
  <2>. QED
    BY <1>1, <2>1 DEF PageType
<1>. QED
  BY <1>2, <1>3

LEMMA FreshPageTyped ==
  /\ FreshPage \in PageType /\ FreshPage.cache = <<>> /\ FreshPage.up = NoPicture
  /\ FreshPage.source = "upload" /\ ~FreshPage.result.given
<1>1. NoPicture \in Pictures /\ NoShapeResult \in ShapeResults /\ ~NoShapeResult.given
  BY DEF NoShapeResult, ShapeResults, NoPicture, Pictures
<1>2. (CHOOSE s \in ShapeSettings : TRUE) \in ShapeSettings
  BY ShapeAssumption
<1>. QED
  BY <1>1, <1>2, ShapeAssumption DEF FreshPage, PageType

LEMMA ShapeInvInit == ShapeInit => ShapeInv
<1>. SUFFICES ASSUME ShapeInit PROVE ShapeInv
  OBVIOUS
<1>1. page \in PageType /\ page.cache = <<>> /\ page.up = NoPicture /\ ~page.result.given
  BY FreshPageTyped DEF ShapeInit
<1>2. savingTest = [at |-> "idle", file |-> 0, rows |-> <<>>]
  BY DEF ShapeInit, NotSaving
<1>3. shapeTests = <<>> /\ files = <<>>
  BY DEF ShapeInit
<1>4. ShapeTypeOK
  BY <1>1, <1>2, <1>3, ShapeAssumption DEF ShapeTypeOK, PageType
<1>5. CacheUnreviewed /\ OwnResult
  BY <1>1 DEF CacheUnreviewed, OwnResult
<1>6. SaveInv /\ FilesWritten
  BY <1>2, <1>3 DEF SaveInv, NotSaving, FilesWritten
<1>. QED
  BY <1>4, <1>5, <1>6 DEF ShapeInv

\* A page whose cache is as it was or empty, and whose result is gone, the old one,
\* or an object the cache does not hold.
LEMMA PageStep ==
  ASSUME ShapeInv, savingTest.at = "idle", UNCHANGED savedVars,
         page' \in PageType,
         page'.cache = page.cache \/ page'.cache = <<>>,
         \/ ~page'.result.given
         \/ page'.result.object = page.result.object /\ page.result.given
         \/ page'.result.object \notin {page.cache[i].result.object : i \in DOMAIN page.cache},
         page'.up # NoPicture => page'.source = "upload"
  PROVE  ShapeInv'
<1>1. ShapeTypeOK'
  BY ShapeAssumption DEF ShapeInv, ShapeTypeOK, PageType, savedVars
<1>2. CacheUnreviewed'
  BY DEF ShapeInv, CacheUnreviewed
<1>3. OwnResult'
  BY DEF ShapeInv, OwnResult
<1>4. savingTest' = NotSaving
  BY DEF ShapeInv, SaveInv, savedVars
<1>5. SaveInv' /\ FilesWritten'
  BY <1>4 DEF SaveInv, NotSaving, ShapeInv, FilesWritten, savedVars
<1>. QED
  BY <1>1, <1>2, <1>3, <1>5 DEF ShapeInv

\* The cache with the newest result: no longer than its limit, and nothing in it but
\* what was there and that result.
LEMMA RememberKeeps ==
  ASSUME NEW cache \in Seq(CacheEntries), Len(cache) <= CacheLimit, NEW entry \in CacheEntries
  PROVE  /\ Remember(cache, entry) \in Seq(CacheEntries)
         /\ Len(Remember(cache, entry)) <= CacheLimit
         /\ \A i \in DOMAIN Remember(cache, entry) :
              \/ Remember(cache, entry)[i] = entry
              \/ \E k \in DOMAIN cache : Remember(cache, entry)[i] = cache[k]
<1>. DEFINE all == Append(cache, entry)
            first == 1 + (IF Len(all) > CacheLimit THEN Len(all) - CacheLimit ELSE 0)
<1>1. all \in Seq(CacheEntries) /\ Len(all) = Len(cache) + 1
      /\ \A k \in 1 .. Len(all) : all[k] = IF k <= Len(cache) THEN cache[k] ELSE entry
  OBVIOUS
<1>2. first \in 1 .. Len(all) + 1 /\ Len(all) - first + 1 <= CacheLimit /\ Len(all) \in Nat
  BY <1>1, ShapeAssumption
<1>3. Remember(cache, entry) = SubSeq(all, first, Len(all))
  BY DEF Remember
<1>. HIDE DEF all, first
<1>4. /\ SubSeq(all, first, Len(all)) \in Seq(CacheEntries)
      /\ Len(SubSeq(all, first, Len(all))) = Len(all) - first + 1
      /\ \A i \in 1 .. Len(all) - first + 1 : SubSeq(all, first, Len(all))[i] = all[first + i - 1]
  BY <1>1, <1>2
<1>5. DOMAIN Remember(cache, entry) = 1 .. Len(all) - first + 1 /\ DOMAIN cache = 1 .. Len(cache)
  BY <1>3, <1>4
<1>. QED
  BY <1>1, <1>2, <1>3, <1>4, <1>5

\* There is an object that nobody holds: the cache holds no more than its limit.
LEMMA ObjectsSuffice ==
  ASSUME NEW held, IsFiniteSet(held), Cardinality(held) <= CacheLimit + 2
  PROVE  NewObject(held) \in Objects /\ NewObject(held) \notin held
<1>1. IsFiniteSet(Objects) /\ Cardinality(Objects) = CacheLimit + 3
  BY ShapeAssumption, FS_Interval DEF Objects
<1>2. Cardinality(held) \in Nat /\ CacheLimit \in Nat
  BY ShapeAssumption, FS_CardinalityType
<1>3. ~(Objects \subseteq held)
  BY <1>1, <1>2, FS_Subset
<1>. QED
  BY <1>3 DEF NewObject

LEMMA HeldAreFew ==
  ASSUME NEW p \in PageType, Len(p.cache) <= CacheLimit
  PROVE  IsFiniteSet(Held(p)) /\ Cardinality(Held(p)) <= CacheLimit + 1
<1>. DEFINE kept == {p.cache[i].result.object : i \in DOMAIN p.cache}
            place == [i \in DOMAIN p.cache |-> p.cache[i].result.object]
<1>1. DOMAIN p.cache = 1 .. Len(p.cache) /\ Len(p.cache) \in Nat
  BY DEF PageType
<1>2. IsFiniteSet(DOMAIN p.cache) /\ Cardinality(DOMAIN p.cache) = Len(p.cache)
  BY <1>1, FS_Interval
<1>3. place \in Surjection(DOMAIN p.cache, kept)
  BY DEF Surjection
<1>. HIDE DEF place, kept
<1>4. IsFiniteSet(kept) /\ Cardinality(kept) <= Len(p.cache) /\ Cardinality(kept) \in Nat
  BY <1>2, <1>3, FS_Surjection, FS_CardinalityType
<1>5. Held(p) = kept \cup {p.result.object}
  BY DEF Held, kept
<1>6. /\ IsFiniteSet(kept \cup {p.result.object})
      /\ Cardinality(kept \cup {p.result.object})
           = IF p.result.object \in kept THEN Cardinality(kept) ELSE Cardinality(kept) + 1
  BY <1>4, FS_AddElement
<1>7. Len(p.cache) <= CacheLimit /\ CacheLimit \in Nat
  BY ShapeAssumption
<1>. QED
  BY <1>1, <1>4, <1>5, <1>6, <1>7

\* The two objects a detection or an opened result may need.
LEMMA NewObjectsAreNew ==
  ASSUME NEW p \in PageType, Len(p.cache) <= CacheLimit
  PROVE  LET first == NewObject(Held(p))
             second == NewObject(Held(p) \cup {first})
         IN /\ first \in Objects /\ first \notin Held(p)
            /\ second \in Objects /\ second \notin Held(p) /\ second # first
<1>. DEFINE first == NewObject(Held(p))
<1>1. /\ IsFiniteSet(Held(p)) /\ Cardinality(Held(p)) <= CacheLimit + 1
      /\ Cardinality(Held(p)) \in Nat /\ CacheLimit \in Nat
  BY HeldAreFew, FS_CardinalityType, ShapeAssumption
<1>2. first \in Objects /\ first \notin Held(p)
  BY <1>1, ObjectsSuffice
<1>. HIDE DEF first
<1>3. IsFiniteSet(Held(p) \cup {first}) /\ Cardinality(Held(p) \cup {first}) <= CacheLimit + 2
  <2>1. /\ IsFiniteSet(Held(p) \cup {first})
        /\ Cardinality(Held(p) \cup {first})
             = IF first \in Held(p) THEN Cardinality(Held(p)) ELSE Cardinality(Held(p)) + 1
    BY <1>1, FS_AddElement
  <2>. QED
    BY <1>1, <2>1
<1>4. NewObject(Held(p) \cup {first}) \in Objects /\ NewObject(Held(p) \cup {first}) \notin Held(p) \cup {first}
  BY <1>3, ObjectsSuffice
<1>. QED
  BY <1>2, <1>4 DEF first

LEMMA DetectKeeps == ASSUME ShapeInv, savingTest.at = "idle", Detect PROVE ShapeInv'
<1>. ShapeTypeOK /\ CacheUnreviewed
  BY DEF ShapeInv
<1>. DEFINE p == AfterSetup
            first == NewObject(Held(p))
            second == NewObject(Held(p) \cup {first})
<1>1. p \in PageType /\ p.cache = page.cache /\ p.source = page.source /\ p.up = page.up
      /\ (p.result.given => p = page)
  BY SetupTyped
<1>2. UNCHANGED savedVars /\ Len(p.cache) <= CacheLimit
      /\ (p.up # NoPicture => p.source = "upload")
  BY <1>1 DEF Detect, ShapeTypeOK
<1>3. /\ first \in Objects /\ first \notin Held(p)
      /\ second \in Objects /\ second \notin Held(p) /\ second # first
  BY <1>1, <1>2, NewObjectsAreNew
<1>4. \/ page' = p
      \/ \E i \in CachedEntries(p) : page' = [p EXCEPT !.result = Copied(p.cache[i].result, first)]
      \/ \E n \in FoundCounts :
           page' = [p EXCEPT !.result = ShapeResult(first, p.picture, Fresh(n)),
                     !.cache = Remember(p.cache, [key |-> ShapeKey(p),
                                 result |-> Copied(ShapeResult(first, p.picture, Fresh(n)), second)])]
  BY DEF Detect
<1>. HIDE DEF p, first, second
<1>5. CASE page' = p
  <2>1. ~p.result.given \/ (page.result.given /\ p.result.object = page.result.object)
    BY <1>1
  <2>. QED
    BY <1>1, <1>2, <1>5, <2>1, PageStep
<1>6. ASSUME NEW i \in CachedEntries(p), page' = [p EXCEPT !.result = Copied(p.cache[i].result, first)]
      PROVE  ShapeInv'
  <2>1. p.cache[i] \in CacheEntries
    BY <1>1 DEF CachedEntries, PageType
  <2>2. Copied(p.cache[i].result, first) \in ShapeResults /\ Copied(p.cache[i].result, first).object = first
    BY <1>3, <2>1 DEF CacheEntries, ShapeResults, Copied
  <2>3. page' \in PageType /\ page'.cache = page.cache /\ page'.result.object = first
        /\ page'.up = p.up /\ page'.source = p.source
    BY <1>1, <1>6, <2>2 DEF PageType
  <2>4. first \notin {page.cache[k].result.object : k \in DOMAIN page.cache}
    BY <1>1, <1>3 DEF Held
  <2>. QED
    BY <1>2, <2>3, <2>4, PageStep
<1>7. ASSUME NEW n \in FoundCounts,
             page' = [p EXCEPT !.result = ShapeResult(first, p.picture, Fresh(n)),
                       !.cache = Remember(p.cache, [key |-> ShapeKey(p),
                                   result |-> Copied(ShapeResult(first, p.picture, Fresh(n)), second)])]
      PROVE  ShapeInv'
  <2>. DEFINE found == ShapeResult(first, p.picture, Fresh(n))  copy == Copied(found, second)
              entry == [key |-> ShapeKey(p), result |-> copy]
              newCache == Remember(p.cache, entry)
  <2>1. n \in Nat /\ Fresh(n) \in Seq(Marks) /\ \A k \in DOMAIN Fresh(n) : Fresh(n)[k] = "included"
    BY ShapeAssumption DEF Fresh, Marks
  <2>2. /\ found \in ShapeResults /\ found.object = first
        /\ copy \in ShapeResults /\ copy.marks = Fresh(n) /\ copy.object = second
    BY <1>1, <1>3, <2>1 DEF ShapeResult, ShapeResults, Copied, PageType
  <2>. HIDE DEF found, copy
  <2>3. entry \in CacheEntries /\ entry.result = copy
    BY <1>1, <2>2 DEF ShapeKey, CacheEntries, PageType
  <2>4. page' = [p EXCEPT !.result = found, !.cache = newCache]
    BY <1>7 DEF found, copy
  <2>. HIDE DEF entry
  <2>5. /\ newCache \in Seq(CacheEntries) /\ Len(newCache) <= CacheLimit
        /\ \A i \in DOMAIN newCache : \/ newCache[i] = entry
                                      \/ \E k \in DOMAIN p.cache : newCache[i] = p.cache[k]
    BY <1>1, <1>2, <2>3, RememberKeeps DEF PageType
  <2>. HIDE DEF newCache
  <2>6. /\ page' \in PageType /\ page'.cache = newCache /\ page'.result = found
        /\ page'.up = p.up /\ page'.source = p.source
    BY <1>1, <2>2, <2>4, <2>5 DEF PageType
  <2>7. ShapeTypeOK'
    BY <1>2, <2>5, <2>6 DEF ShapeTypeOK, PageType, savedVars
  <2>8. CacheUnreviewed'
    <3>. SUFFICES ASSUME NEW i \in DOMAIN newCache, NEW k \in DOMAIN newCache[i].result.marks
                  PROVE  newCache[i].result.marks[k] = "included"
      BY <2>6 DEF CacheUnreviewed
    <3>1. CASE newCache[i] = entry
      BY <3>1, <2>1, <2>2, <2>3
    <3>2. CASE \E m \in DOMAIN p.cache : newCache[i] = p.cache[m]
      BY <3>2, <1>1 DEF CacheUnreviewed
    <3>. QED
      BY <3>1, <3>2, <2>5
  <2>9. OwnResult'
    <3>. SUFFICES ASSUME NEW i \in DOMAIN newCache PROVE newCache[i].result.object # first
      BY <2>2, <2>6 DEF OwnResult
    <3>1. CASE newCache[i] = entry
      BY <3>1, <1>3, <2>2, <2>3
    <3>2. CASE \E m \in DOMAIN p.cache : newCache[i] = p.cache[m]
      BY <3>2, <1>3 DEF Held
    <3>. QED
      BY <3>1, <3>2, <2>5
  <2>10. savingTest' = NotSaving
    BY <1>2 DEF ShapeInv, SaveInv, savedVars
  <2>11. SaveInv' /\ FilesWritten'
    BY <1>2, <2>10 DEF SaveInv, NotSaving, ShapeInv, FilesWritten, savedVars
  <2>. QED
    BY <2>7, <2>8, <2>9, <2>11 DEF ShapeInv
<1>. QED
  BY <1>4, <1>5, <1>6, <1>7

\* Clicks that leave the cache alone or clear the page.
LEMMA PageKeeps ==
  ASSUME ShapeInv, savingTest.at = "idle",
         \/ \E source \in {"upload", "sample"} : ChooseSource(source)
         \/ \E q \in ShapePictures : GivePicture(q)
         \/ \E s \in ShapeSettings : ChangeSettings(s)
         \/ TakeFileAway \/ LoadSample \/ ResetPage
         \/ \E n \in 0 .. MaxAdded : AddMissed(n)
  PROVE  ShapeInv'
<1>. ShapeTypeOK
  BY DEF ShapeInv
<1>. page \in PageType /\ (page.up # NoPicture => page.source = "upload")
  BY DEF ShapeTypeOK, PageType
<1>0. /\ NoPicture \in Pictures /\ NoShapeResult \in ShapeResults /\ Photo(SamplePicture) \in Pictures
      /\ ~NoShapeResult.given
      /\ \A q \in ShapePictures : Photo(q) \in Pictures
  BY DEF NoShapeResult, ShapeResults, NoPicture, Pictures, Photo
<1>1. ASSUME NEW source \in {"upload", "sample"}, ChooseSource(source) PROVE ShapeInv'
  <2>1. page' = [page EXCEPT !.source = source, !.up = NoPicture] /\ UNCHANGED savedVars
    BY <1>1 DEF ChooseSource
  <2>2. page' \in PageType /\ page'.cache = page.cache /\ page'.result = page.result /\ page'.up = NoPicture
    BY <1>0, <2>1 DEF PageType
  <2>. QED
    BY <2>1, <2>2, PageStep
<1>2. ASSUME NEW q \in ShapePictures, GivePicture(q) PROVE ShapeInv'
  <2>1. page' = [page EXCEPT !.up = Photo(q), !.picture = Photo(q), !.hash = Photo(q), !.result = NoShapeResult]
    BY <1>2 DEF GivePicture, Given, PageType
  <2>2. page.source = "upload" /\ UNCHANGED savedVars /\ Photo(q) \in Pictures
    BY <1>0, <1>2 DEF GivePicture
  <2>3. page' \in PageType /\ page'.cache = page.cache /\ ~page'.result.given /\ page'.source = "upload"
    BY <1>0, <2>1, <2>2 DEF PageType
  <2>. QED
    BY <2>2, <2>3, PageStep
<1>3. AfterSetup \in PageType /\ AfterSetup.cache = page.cache /\ AfterSetup.source = page.source
      /\ AfterSetup.up = page.up /\ (AfterSetup.result.given => AfterSetup = page)
  BY SetupTyped
<1>4. ASSUME NEW p \in PageType, p.result = AfterSetup.result, p.cache = page.cache, p.source = page.source,
             p.up = page.up, page' = p, UNCHANGED savedVars
      PROVE  ShapeInv'
  BY <1>3, <1>4, PageStep
<1>5. ASSUME NEW s \in ShapeSettings, ChangeSettings(s) PROVE ShapeInv'
  BY <1>3, <1>4, <1>5 DEF ChangeSettings, PageType
<1>6. CASE TakeFileAway
  <2>1. page' = [page EXCEPT !.up = NoPicture] /\ UNCHANGED savedVars
    BY <1>6 DEF TakeFileAway
  <2>2. page' \in PageType /\ page'.cache = page.cache /\ page'.result = page.result /\ page'.up = NoPicture
    BY <1>0, <2>1 DEF PageType
  <2>. QED
    BY <2>1, <2>2, PageStep
<1>7. CASE LoadSample
  <2>1. page' = [page EXCEPT !.picture = Photo(SamplePicture), !.hash = Photo(SamplePicture),
                             !.result = NoShapeResult] /\ UNCHANGED savedVars
    BY <1>7 DEF LoadSample, Given
  <2>2. page' \in PageType /\ page'.cache = page.cache /\ ~page'.result.given
        /\ page'.up = page.up /\ page'.source = page.source
    BY <1>0, <2>1 DEF PageType
  <2>. QED
    BY <2>1, <2>2, PageStep
<1>8. CASE ResetPage
  <2>1. /\ UNCHANGED savedVars
        /\ \/ page' = FreshPage
           \/ page' = [FreshPage EXCEPT !.up = page.up, !.source = page.source]
    BY <1>8 DEF ResetPage
  <2>2. page' \in PageType /\ page'.cache = <<>> /\ ~page'.result.given
        /\ (page'.up # NoPicture => page'.source = "upload")
    BY <2>1, FreshPageTyped DEF PageType
  <2>. QED
    BY <2>1, <2>2, PageStep
<1>9. ASSUME NEW n \in 0 .. MaxAdded, AddMissed(n) PROVE ShapeInv'
  <2>1. UNCHANGED savedVars /\ (page' = AfterSetup \/ page' = [AfterSetup EXCEPT !.added = n])
    BY <1>9 DEF AddMissed
  <2>2. [AfterSetup EXCEPT !.added = n] \in PageType
    BY <1>3 DEF PageType
  <2>. QED
    BY <1>3, <1>4, <2>1, <2>2 DEF PageType
<1>. QED
  BY <1>1, <1>2, <1>5, <1>6, <1>7, <1>8, <1>9

\* An edit of the review reaches the result, never the cache, which holds other objects.
LEMMA EditKeeps ==
  ASSUME ShapeInv, savingTest.at = "idle",
         NEW i \in DOMAIN page.result.marks, NEW mark \in Marks, EditRow(i, mark)
  PROVE  ShapeInv'
<1>. ShapeTypeOK
  BY DEF ShapeInv
<1>0. page \in PageType /\ (page.up # NoPicture => page.source = "upload") /\ UNCHANGED savedVars
  BY DEF ShapeTypeOK, PageType, EditRow
<1>1. CASE ~AfterSetup.result.given
  BY <1>0, <1>1, SetupTyped, PageStep DEF EditRow
<1>2. CASE AfterSetup.result.given
  <2>. DEFINE marks == [page.result.marks EXCEPT ![i] = mark]
              cache == [n \in DOMAIN page.cache |->
                          [page.cache[n] EXCEPT !.result = Marked(page.cache[n].result, page.result.object, marks)]]
  <2>1. AfterSetup = page /\ page.result.given
    BY <1>2, SetupTyped
  <2>2. page.result \in ShapeResults /\ page.result.marks \in Seq(Marks) /\ page.cache \in Seq(CacheEntries)
    BY <1>0 DEF PageType, ShapeResults
  <2>3. marks \in Seq(Marks)
    BY <2>2, ExceptSeq
  <2>. HIDE DEF marks
  <2>4. page' = [page EXCEPT !.result.marks = marks, !.cache = cache]
    BY <1>2, <2>1 DEF EditRow, PageReviewed, marks
  <2>5. \A n \in DOMAIN page.cache : cache[n] = page.cache[n]
    <3>. SUFFICES ASSUME NEW n \in DOMAIN page.cache PROVE cache[n] = page.cache[n]
      OBVIOUS
    <3>1. page.cache[n].result.object # page.result.object
      BY <2>1 DEF ShapeInv, OwnResult
    <3>2. Marked(page.cache[n].result, page.result.object, marks) = page.cache[n].result
      BY <3>1 DEF Marked
    <3>3. page.cache[n] \in CacheEntries
      BY <2>2
    <3>. QED
      BY <3>2, <3>3 DEF CacheEntries
  <2>6. cache = page.cache
    <3>1. page.cache = [n \in DOMAIN page.cache |-> page.cache[n]]
      BY <2>2
    <3>. QED
      BY <2>5, <3>1
  <2>7. [page.result EXCEPT !.marks = marks] \in ShapeResults
        /\ [page.result EXCEPT !.marks = marks].object = page.result.object
    BY <2>2, <2>3 DEF ShapeResults
  <2>. HIDE DEF cache
  <2>8. page' = [page EXCEPT !.result = [page.result EXCEPT !.marks = marks], !.cache = page.cache]
    BY <2>4, <2>6
  <2>9. /\ page' \in PageType /\ page'.cache = page.cache /\ page'.result.object = page.result.object
        /\ page'.up = page.up /\ page'.source = page.source
    BY <1>0, <2>7, <2>8 DEF PageType
  <2>. QED
    BY <1>0, <2>1, <2>9, PageStep
<1>. QED
  BY <1>1, <1>2

\* A row is counted once, as included or as excluded.
LEMMA RowsCounted ==
  ASSUME NEW marks \in Seq(Marks)
  PROVE  /\ Cardinality(IncludedRows(marks)) \in Nat
         /\ Cardinality(DOMAIN marks \ IncludedRows(marks)) \in Nat
         /\ Len(marks) = Cardinality(IncludedRows(marks)) + Cardinality(DOMAIN marks \ IncludedRows(marks))
<1>1. DOMAIN marks = 1 .. Len(marks) /\ Len(marks) \in Nat
  OBVIOUS
<1>2. IsFiniteSet(DOMAIN marks) /\ Cardinality(DOMAIN marks) = Len(marks)
  BY <1>1, FS_Interval
<1>3. IncludedRows(marks) \subseteq DOMAIN marks
  BY DEF IncludedRows
<1>4. IsFiniteSet(IncludedRows(marks)) /\ Cardinality(IncludedRows(marks)) \in Nat
  BY <1>2, <1>3, FS_Subset, FS_CardinalityType
<1>5. DOMAIN marks \cap IncludedRows(marks) = IncludedRows(marks)
  BY <1>3
<1>6. /\ IsFiniteSet(DOMAIN marks \ IncludedRows(marks))
      /\ Cardinality(DOMAIN marks \ IncludedRows(marks))
           = Cardinality(DOMAIN marks) - Cardinality(DOMAIN marks \cap IncludedRows(marks))
  BY <1>2, FS_Difference
<1>7. Cardinality(DOMAIN marks \ IncludedRows(marks)) \in Nat
  BY <1>6, FS_CardinalityType
<1>8. Cardinality(DOMAIN marks \ IncludedRows(marks)) = Len(marks) - Cardinality(IncludedRows(marks))
  BY <1>2, <1>5, <1>6
<1>. QED
  BY <1>1, <1>4, <1>7, <1>8

LEMMA OpenKeeps ==
  ASSUME ShapeInv, savingTest.at = "idle", NEW i \in DOMAIN shapeTests, OpenSaved(shapeTests[i])
  PROVE  ShapeInv'
<1>. ShapeTypeOK
  BY DEF ShapeInv
<1>. DEFINE p == AfterSetup  test == shapeTests[i]
            first == NewObject(Held(p))
            loaded == ShapeResult(first, test.hash, test.items)
            opened == [p EXCEPT !.result = loaded]
<1>1. test \in ShapeTests
  BY DEF ShapeTypeOK
<1>2. p \in PageType /\ p.cache = page.cache /\ p.source = page.source /\ p.up = page.up
  BY SetupTyped
<1>3. Len(p.cache) <= CacheLimit /\ (p.up # NoPicture => p.source = "upload")
  BY <1>2 DEF ShapeTypeOK
<1>4. first \in Objects /\ first \notin Held(p)
  BY <1>2, <1>3, NewObjectsAreNew
<1>5. /\ UNCHANGED savedVars
      /\ \/ page' = opened
         \/ \E f \in Pictures : page' = [opened EXCEPT !.picture = f, !.hash = test.hash]
  <2>1. test.file # 0 /\ files[test.file].there =>
           [opened EXCEPT !.picture = files[test.file].of, !.hash = test.hash] = page'
    BY DEF OpenSaved
  <2>2. UNCHANGED savedVars /\ (~(test.file # 0 /\ files[test.file].there) => page' = opened)
    BY DEF OpenSaved
  <2>3. CASE test.file # 0 /\ files[test.file].there
    <3>1. test.file \in DOMAIN files
      BY <2>3 DEF ShapeInv, FilesWritten
    <3>. HIDE DEF opened, test
    <3>2. files[test.file].of \in Pictures
      <4>1. files \in Seq(ShapeFiles)
        BY DEF ShapeTypeOK
      <4>2. files[test.file] \in ShapeFiles
        BY <3>1, <4>1
      <4>. QED
        BY <4>2 DEF ShapeFiles
    <3>. QED
      BY <2>1, <2>2, <2>3, <3>2
  <2>. QED
    BY <2>2, <2>3
<1>. HIDE DEF p, first
<1>6. loaded \in ShapeResults /\ loaded.object = first
  BY <1>1, <1>4 DEF ShapeResult, ShapeResults, ShapeTests
<1>. HIDE DEF loaded
<1>7. /\ page' \in PageType /\ page'.result = loaded /\ page'.cache = page.cache
      /\ page'.up = page.up /\ page'.source = page.source
  BY <1>1, <1>2, <1>5, <1>6 DEF PageType, ShapeTests
<1>8. first \notin {page.cache[k].result.object : k \in DOMAIN page.cache}
  BY <1>2, <1>4 DEF Held
<1>. QED
  BY <1>2, <1>3, <1>5, <1>6, <1>7, <1>8, PageStep

\* The row of a test: its counts follow from the review, before any item is written.
LEMMA RowTyped ==
  ASSUME ShapeTypeOK, NEW file \in Nat
  PROVE  LET row == RunRow(page, file)
             counted == Cardinality(IncludedRows(page.result.marks))
         IN /\ row \in ShapeTests /\ row.items = <<>> /\ row.hash = page.result.hash
            /\ row.file = file /\ row.detected = counted + row.excluded /\ row.final = counted + page.added
<1>. DEFINE marks == page.result.marks  counted == Cardinality(IncludedRows(marks))
            others == Cardinality(DOMAIN marks \ IncludedRows(marks))
<1>1. marks \in Seq(Marks) /\ page.result.hash \in Pictures /\ page.added \in Nat
  BY ShapeAssumption DEF ShapeTypeOK, ShapeResults
<1>2. RunRow(page, file) = [hash |-> page.result.hash, items |-> <<>>, detected |-> Len(marks), excluded |-> others,
                            manual |-> page.added, final |-> counted + page.added, file |-> file]
  BY DEF RunRow
<1>3. page.result.marks = marks
  OBVIOUS
<1>. HIDE DEF marks
<1>4. Len(marks) \in Nat /\ counted \in Nat /\ others \in Nat /\ Len(marks) = counted + others
  BY <1>1, RowsCounted
<1>. HIDE DEF counted, others
<1>5. RunRow(page, file) \in ShapeTests
  BY <1>1, <1>2, <1>4 DEF ShapeTests
<1>. QED
  BY <1>2, <1>3, <1>4, <1>5 DEF counted

\* The steps of a save, whole or not, and the loss of a picture.
LEMMA BeginKeeps == ASSUME ShapeInv, BeginSave PROVE ShapeInv'
<1>. ShapeTypeOK
  BY DEF ShapeInv
<1>1. savingTest = NotSaving /\ page' = AfterSetup /\ UNCHANGED <<shapeTests, files>> /\ Len(shapeTests) < MaxSaved
  BY DEF BeginSave, ShapeInv, SaveInv
<1>2. \/ savingTest' = savingTest
      \/ AfterSetup.result.given /\ \E at \in {"file", "row"} : savingTest' = [NotSaving EXCEPT !.at = at]
  BY <1>1 DEF BeginSave
<1>3. AfterSetup \in PageType /\ AfterSetup.cache = page.cache /\ AfterSetup.source = page.source
      /\ AfterSetup.up = page.up /\ (AfterSetup.result.given => AfterSetup = page)
  BY SetupTyped
<1>4. ShapeTypeOK'
  BY <1>1, <1>2, <1>3 DEF ShapeTypeOK, PageType, NotSaving
<1>5. CacheUnreviewed' /\ OwnResult'
  BY <1>1, <1>3 DEF ShapeInv, CacheUnreviewed, OwnResult
<1>6. SaveInv' /\ FilesWritten'
  BY <1>1, <1>2, <1>3 DEF SaveInv, NotSaving, ShapeInv, FilesWritten
<1>. QED
  BY <1>4, <1>5, <1>6 DEF ShapeInv

LEMMA WriteKeeps == ASSUME ShapeInv, WriteFile PROVE ShapeInv'
<1>. ShapeTypeOK
  BY DEF ShapeInv
<1>. DEFINE file == [of |-> Drawn(page.picture), there |-> TRUE]
<1>1. /\ savingTest.at = "file" /\ files' = Append(files, file) /\ Len(files) < MaxFiles
      /\ savingTest' = [savingTest EXCEPT !.at = "row", !.file = Len(files) + 1]
      /\ UNCHANGED <<page, shapeTests>>
  BY DEF WriteFile
<1>2. file \in ShapeFiles /\ file.of = Drawn(page.picture)
  BY DEF ShapeTypeOK, Drawn, Pictures, ShapeFiles
<1>. HIDE DEF file
<1>3. /\ files' \in Seq(ShapeFiles) /\ Len(files') = Len(files) + 1
      /\ Len(files) \in Nat /\ DOMAIN files = 1 .. Len(files) /\ DOMAIN files' = 1 .. Len(files) + 1
      /\ files'[Len(files) + 1] = file
  BY <1>1, <1>2 DEF ShapeTypeOK
<1>4. ShapeTypeOK'
  <2>1. savingTest' \in [at : {"idle", "file", "row", "items"}, file : Nat, rows : Seq(ShapeTests)]
        /\ savingTest'.at = "row" /\ savingTest'.rows = savingTest.rows
    <3>1. savingTest \in [at : {"idle", "file", "row", "items"}, file : Nat, rows : Seq(ShapeTests)]
      BY DEF ShapeTypeOK
    <3>2. Len(files) + 1 \in Nat
      BY <1>3
    <3>. QED
      BY <1>1, <3>1, <3>2
  <2>2. Len(files') <= MaxFiles
    BY <1>1, <1>3, ShapeAssumption
  <2>. QED
    BY <1>1, <1>3, <2>1, <2>2 DEF ShapeTypeOK
<1>5. CacheUnreviewed' /\ OwnResult'
  BY <1>1 DEF ShapeInv, CacheUnreviewed, OwnResult
<1>6. savingTest'.at = "row" /\ savingTest'.file = Len(files) + 1
  BY <1>1 DEF ShapeTypeOK
<1>7. SaveInv'
  BY <1>1, <1>2, <1>3, <1>6 DEF SaveInv, ShapeInv
<1>8. FilesWritten'
  BY <1>1, <1>3 DEF ShapeInv, FilesWritten
<1>. QED
  BY <1>4, <1>5, <1>7, <1>8 DEF ShapeInv

LEMMA RowKeeps == ASSUME ShapeInv, InsertRun PROVE ShapeInv'
<1>. ShapeTypeOK
  BY DEF ShapeInv
<1>. DEFINE row == RunRow(page, savingTest.file)  counted == Cardinality(IncludedRows(page.result.marks))
<1>1. /\ savingTest.at = "row" /\ savingTest' = [savingTest EXCEPT !.at = "items", !.rows = <<row>>]
      /\ UNCHANGED <<page, shapeTests, files>>
  BY DEF InsertRun
<1>2. /\ row \in ShapeTests /\ row.items = <<>> /\ row.hash = page.result.hash
      /\ row.file = savingTest.file /\ row.detected = counted + row.excluded /\ row.final = counted + page.added
  BY RowTyped DEF ShapeTypeOK
<1>. HIDE DEF row, counted
<1>3. /\ savingTest'.at = "items" /\ savingTest'.rows = <<row>> /\ savingTest'.file = savingTest.file
      /\ savingTest' \in [at : {"idle", "file", "row", "items"}, file : Nat, rows : Seq(ShapeTests)]
  <2>1. <<row>> \in Seq(ShapeTests)
    BY <1>2
  <2>2. savingTest \in [at : {"idle", "file", "row", "items"}, file : Nat, rows : Seq(ShapeTests)]
    BY DEF ShapeTypeOK
  <2>. QED
    BY <1>1, <2>1, <2>2
<1>4. ShapeTypeOK'
  BY <1>1, <1>3 DEF ShapeTypeOK
<1>5. CacheUnreviewed' /\ OwnResult' /\ FilesWritten'
  BY <1>1 DEF ShapeInv, CacheUnreviewed, OwnResult, FilesWritten
<1>6. page.result.marks \in Seq(Marks)
  BY DEF ShapeTypeOK, ShapeResults
<1>7. SaveInv'
  BY <1>1, <1>2, <1>3, <1>6 DEF SaveInv, ShapeInv, counted
<1>. QED
  BY <1>4, <1>5, <1>7 DEF ShapeInv

LEMMA ItemKeeps == ASSUME ShapeInv, InsertItem PROVE ShapeInv'
<1>. ShapeTypeOK /\ SaveInv
  BY DEF ShapeInv
<1>. DEFINE row == savingTest.rows[1]  marks == page.result.marks  mark == marks[Len(row.items) + 1]
            items == Append(row.items, mark)  longer == [row EXCEPT !.items = items]
<1>1. savingTest.at = "items" /\ Len(row.items) < Len(marks) /\ UNCHANGED <<page, shapeTests, files>>
  BY DEF InsertItem
<1>2. savingTest.rows \in Seq(ShapeTests) /\ Len(savingTest.rows) = 1 /\ marks \in Seq(Marks)
  BY <1>1 DEF ShapeTypeOK, ShapeResults
<1>3. row \in ShapeTests /\ row.items \in Seq(Marks)
  <2>1. row \in ShapeTests
    BY <1>2
  <2>. HIDE DEF row
  <2>. QED
    BY <2>1 DEF ShapeTests
<1>4. mark \in Marks
  BY <1>1, <1>2, <1>3
<1>5. savingTest' = [savingTest EXCEPT !.rows = [savingTest.rows EXCEPT ![1] = longer]]
  BY DEF InsertItem
<1>6. \A k \in 1 .. Len(row.items) : row.items[k] = marks[k]
  BY <1>1 DEF SaveInv
<1>. HIDE DEF row, marks, mark
<1>7. /\ items \in Seq(Marks) /\ Len(items) = Len(row.items) + 1 /\ Len(items) <= Len(marks)
      /\ \A k \in 1 .. Len(items) : items[k] = IF k <= Len(row.items) THEN row.items[k] ELSE mark
  BY <1>1, <1>2, <1>3, <1>4
<1>8. \A k \in 1 .. Len(items) : items[k] = marks[k]
  BY <1>3, <1>6, <1>7 DEF mark
<1>. HIDE DEF items
<1>9. longer \in ShapeTests /\ longer.items = items /\ longer.hash = row.hash /\ longer.file = row.file
      /\ longer.detected = row.detected /\ longer.excluded = row.excluded /\ longer.final = row.final
  BY <1>3, <1>7 DEF ShapeTests
<1>. HIDE DEF longer
<1>10. /\ savingTest' \in [at : {"idle", "file", "row", "items"}, file : Nat, rows : Seq(ShapeTests)]
       /\ savingTest'.at = "items" /\ savingTest'.file = savingTest.file
       /\ Len(savingTest'.rows) = 1 /\ savingTest'.rows[1] = longer
  <2>1. [savingTest.rows EXCEPT ![1] = longer] \in Seq(ShapeTests)
        /\ Len([savingTest.rows EXCEPT ![1] = longer]) = 1 /\ [savingTest.rows EXCEPT ![1] = longer][1] = longer
    BY <1>2, <1>9, ExceptSeq
  <2>. QED
    BY <1>1, <1>5, <2>1 DEF ShapeTypeOK
<1>11. ShapeTypeOK'
  BY <1>1, <1>10 DEF ShapeTypeOK
<1>12. CacheUnreviewed' /\ OwnResult' /\ FilesWritten'
  BY <1>1 DEF ShapeInv, CacheUnreviewed, OwnResult, FilesWritten
<1>13. SaveInv'
  BY <1>1, <1>7, <1>8, <1>9, <1>10 DEF SaveInv, row, marks
<1>. QED
  BY <1>11, <1>12, <1>13 DEF ShapeInv

\* What is committed: the review of the page, whole.
NewTest(test) ==
  LET counted == Cardinality(IncludedRows(test.items))
  IN /\ test.hash = page.result.hash /\ test.items = page.result.marks
     /\ test.detected = counted + test.excluded
     /\ test.final = counted + page.added
     /\ test.file # 0 => /\ test.file \in DOMAIN files
                         /\ files[test.file].of = Drawn(page.picture)

LEMMA CommittedIsWhole ==
  ASSUME ShapeInv, CommitSave
  PROVE  \E test \in ShapeTests : NewTest(test) /\ shapeTests' = Append(shapeTests, test)
<1>. ShapeTypeOK /\ SaveInv
  BY DEF ShapeInv
<1>. DEFINE row == savingTest.rows[1]  marks == page.result.marks
<1>1. savingTest.at = "items" /\ Len(row.items) = Len(marks) /\ shapeTests' = shapeTests \o savingTest.rows
  BY DEF CommitSave
<1>2. savingTest.rows \in Seq(ShapeTests) /\ Len(savingTest.rows) = 1 /\ marks \in Seq(Marks)
  BY <1>1 DEF ShapeTypeOK, ShapeResults
<1>3. row \in ShapeTests /\ row.items \in Seq(Marks)
  <2>1. row \in ShapeTests
    BY <1>2
  <2>. HIDE DEF row
  <2>. QED
    BY <2>1 DEF ShapeTests
<1>4. /\ row.hash = page.result.hash /\ row.file = savingTest.file
      /\ row.detected = Cardinality(IncludedRows(marks)) + row.excluded
      /\ row.final = Cardinality(IncludedRows(marks)) + page.added
      /\ \A k \in 1 .. Len(row.items) : row.items[k] = marks[k]
      /\ row.file # 0 => row.file \in DOMAIN files /\ files[row.file].of = Drawn(page.picture)
  BY <1>1 DEF SaveInv
<1>5. row.items = marks
  <2>. HIDE DEF row, marks
  <2>. QED
    BY <1>1, <1>2, <1>3, <1>4
<1>6. NewTest(row)
  BY <1>4, <1>5 DEF NewTest
<1>7. shapeTests' = Append(shapeTests, row)
  <2>1. shapeTests \in Seq(ShapeTests)
    BY DEF ShapeTypeOK
  <2>2. savingTest.rows = <<row>>
    BY <1>2
  <2>. HIDE DEF row
  <2>3. shapeTests \o <<row>> = Append(shapeTests, row)
    BY <1>3, <2>1
  <2>. QED
    BY <1>1, <2>2, <2>3
<1>. QED
  BY <1>3, <1>6, <1>7

LEMMA OverKeeps == ASSUME ShapeInv, CommitSave \/ SaveFails \/ ProcessStops PROVE ShapeInv'
<1>. ShapeTypeOK
  BY DEF ShapeInv
<1>1. savingTest' = NotSaving /\ UNCHANGED files /\ (page' = page \/ page' = FreshPage)
  BY DEF CommitSave, SaveFails, ProcessStops
<1>2. \/ UNCHANGED shapeTests
      \/ /\ Len(shapeTests) < MaxSaved
         /\ \E test \in ShapeTests : NewTest(test) /\ shapeTests' = Append(shapeTests, test)
  BY CommittedIsWhole DEF SaveFails, ProcessStops, CommitSave, ShapeInv, SaveInv
<1>3. /\ shapeTests' \in Seq(ShapeTests) /\ Len(shapeTests') <= MaxSaved
      /\ \A i \in DOMAIN shapeTests' : \/ i \in DOMAIN shapeTests /\ shapeTests'[i] = shapeTests[i]
                                       \/ NewTest(shapeTests'[i])
  <2>1. CASE UNCHANGED shapeTests
    BY <2>1 DEF ShapeTypeOK
  <2>2. ASSUME NEW test \in ShapeTests, NewTest(test), shapeTests' = Append(shapeTests, test),
               Len(shapeTests) < MaxSaved
        PROVE  /\ shapeTests' \in Seq(ShapeTests) /\ Len(shapeTests') <= MaxSaved
               /\ \A i \in DOMAIN shapeTests' : \/ i \in DOMAIN shapeTests /\ shapeTests'[i] = shapeTests[i]
                                                \/ NewTest(shapeTests'[i])
    <3>1. /\ shapeTests' \in Seq(ShapeTests) /\ Len(shapeTests') = Len(shapeTests) + 1
          /\ DOMAIN shapeTests' = 1 .. Len(shapeTests) + 1 /\ DOMAIN shapeTests = 1 .. Len(shapeTests)
          /\ Len(shapeTests) \in Nat
          /\ \A i \in DOMAIN shapeTests : shapeTests'[i] = shapeTests[i]
          /\ shapeTests'[Len(shapeTests) + 1] = test
      BY <2>2 DEF ShapeTypeOK
    <3>2. \A i \in DOMAIN shapeTests' : i \in DOMAIN shapeTests \/ i = Len(shapeTests) + 1
      BY <3>1
    <3>. QED
      BY <2>2, <3>1, <3>2, ShapeAssumption
  <2>. QED
    BY <1>2, <2>1, <2>2
<1>4. page' \in PageType /\ (page' = page \/ (page'.cache = <<>> /\ ~page'.result.given /\ page'.up = NoPicture))
  BY <1>1, FreshPageTyped DEF ShapeTypeOK, PageType
<1>5. ShapeTypeOK'
  BY <1>1, <1>3, <1>4, ShapeAssumption DEF ShapeTypeOK, PageType, NotSaving
<1>6. CacheUnreviewed' /\ OwnResult'
  BY <1>4 DEF ShapeInv, CacheUnreviewed, OwnResult
<1>7. SaveInv'
  BY <1>1 DEF SaveInv, NotSaving
<1>8. FilesWritten'
  BY <1>1, <1>3 DEF ShapeInv, FilesWritten, NewTest
<1>. QED
  BY <1>5, <1>6, <1>7, <1>8 DEF ShapeInv

LEMMA LossKeeps ==
  ASSUME ShapeInv, NEW i \in DOMAIN shapeTests, LosePicture(i)
  PROVE  ShapeInv'
<1>. ShapeTypeOK
  BY DEF ShapeInv
<1>. DEFINE f == shapeTests[i].file
<1>1. /\ f # 0 /\ files' = [files EXCEPT ![f].there = FALSE] /\ UNCHANGED <<page, savingTest, shapeTests>>
      /\ files \in Seq(ShapeFiles)
  BY DEF LosePicture, ShapeTypeOK
<1>2. f \in DOMAIN files
  BY <1>1 DEF ShapeInv, FilesWritten
<1>. HIDE DEF f
<1>3. [files[f] EXCEPT !.there = FALSE] \in ShapeFiles
      /\ [files[f] EXCEPT !.there = FALSE].of = files[f].of
  <2>1. files[f] \in ShapeFiles
    BY <1>1, <1>2
  <2>. QED
    BY <2>1 DEF ShapeFiles
<1>4. files' = [files EXCEPT ![f] = [files[f] EXCEPT !.there = FALSE]]
  BY <1>1
<1>5. files' \in Seq(ShapeFiles) /\ Len(files') = Len(files)
  BY <1>1, <1>2, <1>3, <1>4, ExceptSeq
<1>6. DOMAIN files' = DOMAIN files /\ \A n \in DOMAIN files : files'[n].of = files[n].of
  BY <1>1, <1>3, <1>4
<1>7. ShapeTypeOK'
  BY <1>1, <1>5 DEF ShapeTypeOK
<1>8. CacheUnreviewed' /\ OwnResult' /\ FilesWritten'
  BY <1>1, <1>6 DEF ShapeInv, CacheUnreviewed, OwnResult, FilesWritten
<1>9. SaveInv'
  BY <1>1, <1>6 DEF ShapeInv, SaveInv
<1>. QED
  BY <1>7, <1>8, <1>9 DEF ShapeInv

LEMMA ShapeInvNext == ShapeInv /\ [ShapeNext]_shapeVars => ShapeInv'
<1>. SUFFICES ASSUME ShapeInv, [ShapeNext]_shapeVars PROVE ShapeInv'
  OBVIOUS
<1>1. CASE UNCHANGED shapeVars
  BY <1>1 DEF shapeVars, ShapeInv, ShapeTypeOK, CacheUnreviewed, OwnResult, SaveInv, FilesWritten
<1>2. CASE savingTest.at = "idle" /\ Click
  BY <1>2, PageKeeps, DetectKeeps, EditKeeps, OpenKeeps DEF Click
<1>3. CASE BeginSave \/ WriteFile \/ InsertRun \/ InsertItem
  BY <1>3, BeginKeeps, WriteKeeps, RowKeeps, ItemKeeps
<1>4. CASE CommitSave \/ SaveFails \/ ProcessStops
  BY <1>4, OverKeeps
<1>5. CASE \E i \in DOMAIN shapeTests : LosePicture(i)
  BY <1>5, LossKeeps
<1>. QED
  BY <1>1, <1>2, <1>3, <1>4, <1>5 DEF ShapeNext

\* The page of shape detection and its saved tests keep their types.
THEOREM ShapesTyped == ShapeSpec => []ShapeTypeOK
<1>1. ShapeInv => ShapeTypeOK
  BY DEF ShapeInv
<1>. QED
  BY <1>1, ShapeInvInit, ShapeInvNext, PTL DEF ShapeSpec

\* Whatever is detected, reviewed, opened and saved, for any number of pictures,
\* settings and results kept: no review reaches the cache, although it writes into the
\* result's own object, because what the cache holds are other objects (_execute_detection).
THEOREM ReviewsStayOut == ShapeSpec => []CacheUnreviewed
<1>1. ShapeInv => CacheUnreviewed
  BY DEF ShapeInv
<1>. QED
  BY <1>1, ShapeInvInit, ShapeInvNext, PTL DEF ShapeSpec

\* Over errors and stops between any two writes of a save: a test that appears is the
\* review, whole, with the counts of its items and a picture that was written, and no
\* saved test ever changes (save_shape_test).
THEOREM TestsAreReviews == ShapeSpec => SavedIsTheReview
<1>. DEFINE Honest ==
       /\ Len(shapeTests') >= Len(shapeTests)
       /\ \A i \in DOMAIN shapeTests : shapeTests'[i] = shapeTests[i]
       /\ \A i \in DOMAIN shapeTests' \ DOMAIN shapeTests : NewTest(shapeTests'[i])
<1>1. ASSUME ShapeInv, [ShapeNext]_shapeVars PROVE [Honest]_shapeVars
  <2>. ShapeTypeOK
    BY <1>1 DEF ShapeInv
  <2>1. CASE UNCHANGED shapeTests
    BY <2>1 DEF ShapeTypeOK
  <2>2. CASE CommitSave
    <3>1. PICK test \in ShapeTests : NewTest(test) /\ shapeTests' = Append(shapeTests, test)
      BY <1>1, <2>2, CommittedIsWhole
    <3>2. /\ Len(shapeTests') = Len(shapeTests) + 1 /\ Len(shapeTests) \in Nat
          /\ DOMAIN shapeTests' = 1 .. Len(shapeTests) + 1 /\ DOMAIN shapeTests = 1 .. Len(shapeTests)
          /\ \A i \in DOMAIN shapeTests : shapeTests'[i] = shapeTests[i]
          /\ shapeTests'[Len(shapeTests) + 1] = test
      BY <3>1 DEF ShapeTypeOK
    <3>. QED
      BY <3>1, <3>2
  <2>. HIDE DEF Honest
  <2>3. CASE UNCHANGED shapeVars
    BY <2>3
  <2>4. ShapeNext => UNCHANGED shapeTests \/ CommitSave
    BY DEF ShapeNext, Click, ChooseSource, GivePicture, ChangeSettings, TakeFileAway, LoadSample, Detect,
       ResetPage, EditRow, AddMissed, OpenSaved, BeginSave, WriteFile, InsertRun, InsertItem, SaveFails,
       ProcessStops, LosePicture, savedVars
  <2>. QED
    BY <1>1, <2>1, <2>2, <2>3, <2>4
<1>2. ShapeSpec => []ShapeInv
  BY ShapeInvInit, ShapeInvNext, PTL DEF ShapeSpec
<1>3. [][Honest]_shapeVars => SavedIsTheReview
  BY PTL DEF SavedIsTheReview, NewTest
<1>. QED
  BY <1>1, <1>2, <1>3, PTL DEF ShapeSpec
=============================================================================
