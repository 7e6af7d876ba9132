--------------------------- MODULE SampleLibrary ---------------------------
(***************************************************************************)
(* The samples that administrators upload (admin_samples.py) and that the  *)
(* gallery of Add Photos offers (sample_images.py): a row of admin_samples *)
(* and a file each.  The file is written under a temporary name, renamed,  *)
(* and then registered; a removal deletes the row and then the file.       *)
(* Failures and restarts can come between any two of these.                *)
(***************************************************************************)
EXTENDS Integers, FiniteSets

CONSTANTS
  Curators,       \* tabs of the administration console
  Galleries,      \* tabs showing Add Photos
  SampleIds,      \* sample_id has a random part and is never used twice
  NoSample, NoTask

SampleKinds == {"inventory", "shape_detection"}
SampleRow   == [kind : SampleKinds, enabled : BOOLEAN]
Task == [at : {"write", "rename", "register", "discard", "delete", "unlink"},
         sample : SampleIds, row : SampleRow]

ASSUME SampleAssumption == NoSample \notin SampleRow /\ NoTask \notin Task

VARIABLES
  samples,   \* samples[s]: the row of s
  disk,      \* disk[s]: what is in the directory for s
  spent,     \* the ids handed out
  task,      \* task[c]: the call that tab c is in
  gallery,   \* gallery[g]: the cards that tab g has drawn
  photos     \* photos[g]: the samples that were added to the photos

sampleVars == <<samples, disk, spent, task, gallery, photos>>

SampleTypeOK ==
  /\ samples \in [SampleIds -> SampleRow \cup {NoSample}]
  /\ disk \in [SampleIds -> {"nothing", "temporary", "whole"}]
  /\ spent \subseteq SampleIds
  /\ task \in [Curators -> Task \cup {NoTask}]
  /\ gallery \in [Galleries -> SUBSET SampleIds]
  /\ photos \in [Galleries -> SUBSET SampleIds]

SampleInit ==
  /\ samples = [s \in SampleIds |-> NoSample]
  /\ disk = [s \in SampleIds |-> "nothing"]
  /\ spent = {}
  /\ task = [c \in Curators |-> NoTask]
  /\ gallery = [g \in Galleries |-> {}]
  /\ photos = [g \in Galleries |-> {}]

----------------------------------------------------------------------------
TaskAt(c, step)   == task[c] # NoTask /\ task[c].at = step
TaskGoesTo(c, step) == task' = [task EXCEPT ![c].at = step]
TaskEnds(c)       == task' = [task EXCEPT ![c] = NoTask]

\* add_sample, from an upload that validate_image_bytes has accepted.
AddSample(c, s, row) ==
  /\ task[c] = NoTask /\ s \notin spent
  /\ spent' = spent \cup {s}
  /\ task' = [task EXCEPT ![c] = [at |-> "write", sample |-> s, row |-> row]]
  /\ UNCHANGED <<samples, disk, gallery, photos>>

WriteTemporary(c) ==
  /\ TaskAt(c, "write")
  /\ disk' = [disk EXCEPT ![task[c].sample] = "temporary"]
  /\ TaskGoesTo(c, "rename")
  /\ UNCHANGED <<samples, spent, gallery, photos>>

RenameTemporary(c) ==
  /\ TaskAt(c, "rename")
  /\ disk' = [disk EXCEPT ![task[c].sample] = "whole"]
  /\ TaskGoesTo(c, "register")
  /\ UNCHANGED <<samples, spent, gallery, photos>>

\* OSError: the temporary file is removed, if that works.
WriteFails(c) ==
  /\ TaskAt(c, "rename")
  /\ \/ disk' = [disk EXCEPT ![task[c].sample] = "nothing"]
     \/ UNCHANGED disk
  /\ TaskEnds(c)
  /\ UNCHANGED <<samples, spent, gallery, photos>>

Register(c) ==
  /\ TaskAt(c, "register")
  /\ samples' = [samples EXCEPT ![task[c].sample] = task[c].row]
  /\ TaskEnds(c)
  /\ UNCHANGED <<disk, spent, gallery, photos>>

\* The transaction fails: the file goes again.
RegisterFails(c) ==
  /\ TaskAt(c, "register") /\ TaskGoesTo(c, "discard")
  /\ UNCHANGED <<samples, disk, spent, gallery, photos>>

\* unlink(missing_ok=True), whose OSError is ignored.
Unlink(c, step) ==
  /\ TaskAt(c, step)
  /\ \/ disk' = [disk EXCEPT ![task[c].sample] = "nothing"]
     \/ UNCHANGED disk
  /\ TaskEnds(c)
  /\ UNCHANGED <<samples, spent, gallery, photos>>

Discard(c) == Unlink(c, "discard")

\* delete_sample: the row that get_sample has found, and then its file.
FileFirst(c, s) == disk' = [disk EXCEPT ![s] = "nothing"]
RowFirst(c, s)  == UNCHANGED disk

DeleteSample(c, s) ==
  /\ task[c] = NoTask /\ samples[s] # NoSample
  /\ RowFirst(c, s)
  /\ task' = [task EXCEPT ![c] = [at |-> "delete", sample |-> s, row |-> samples[s]]]
  /\ UNCHANGED <<samples, spent, gallery, photos>>

DeleteRow(c) ==
  /\ TaskAt(c, "delete")
  /\ samples' = [samples EXCEPT ![task[c].sample] = NoSample]
  /\ TaskGoesTo(c, "unlink")
  /\ UNCHANGED <<disk, spent, gallery, photos>>

DeleteFile(c) == Unlink(c, "unlink")

\* update_sample, with the flag that the page has drawn.
ToggleSample(c, s, enabled) ==
  /\ task[c] = NoTask /\ samples[s] # NoSample
  /\ samples' = [samples EXCEPT ![s].enabled = enabled]
  /\ UNCHANGED <<disk, spent, task, gallery, photos>>

\* A restart: what is on the disk and in the database stays.
TaskStops(c) ==
  /\ task[c] # NoTask /\ TaskEnds(c)
  /\ UNCHANGED <<samples, disk, spent, gallery, photos>>

----------------------------------------------------------------------------
\* list_enabled_samples: inventory samples that are enabled and have a file.
Offered == {s \in SampleIds : /\ samples[s] # NoSample
                              /\ samples[s].kind = "inventory" /\ samples[s].enabled
                              /\ disk[s] = "whole"}

DrawGallery(g) ==
  /\ gallery' = [gallery EXCEPT ![g] = Offered]
  /\ UNCHANGED <<samples, disk, spent, task, photos>>

\* Add on a card: get_sample_by_id finds disabled samples as well, and says
\* so when the sample is gone.
AddFromGallery(g, s) ==
  /\ s \in gallery[g]
  /\ photos' = IF samples[s] # NoSample /\ disk[s] = "whole"
               THEN [photos EXCEPT ![g] = @ \cup {s}] ELSE photos
  /\ UNCHANGED <<samples, disk, spent, task, gallery>>

----------------------------------------------------------------------------
SampleNext ==
  \/ \E c \in Curators :
       \/ \E s \in SampleIds, row \in SampleRow : AddSample(c, s, row)
       \/ \E s \in SampleIds, b \in BOOLEAN : ToggleSample(c, s, b)
       \/ \E s \in SampleIds : DeleteSample(c, s)
       \/ WriteTemporary(c) \/ RenameTemporary(c) \/ WriteFails(c) \/ Register(c)
       \/ RegisterFails(c) \/ Discard(c) \/ DeleteRow(c) \/ DeleteFile(c) \/ TaskStops(c)
  \/ \E g \in Galleries : DrawGallery(g) \/ \E s \in SampleIds : AddFromGallery(g, s)

SampleSpec == SampleInit /\ [][SampleNext]_sampleVars

----------------------------------------------------------------------------
\* A sample that is registered has its file, whole, however uploads and
\* removals overlap, fail and stop half way: a stopped removal leaves a file
\* without a row, never a card without an image (add_sample, delete_sample).
RegisteredHasFile ==
  \A s \in SampleIds : samples[s] # NoSample => disk[s] = "whole"
============================================================================
