--------------------------- MODULE BenchmarkStore ---------------------------
(***************************************************************************)
(* The two JSON files of the benchmarks (benchmark.py): results, one entry *)
(* per run that was saved, and sessions, one per batch.  A save loads the  *)
(* file, appends and replaces it by a temporary file that it has written   *)
(* before; nothing is locked, so a save of another tab can fall in         *)
(* between.  A batch saves its session first and then a row for each run.  *)
(*                                                                         *)
(* saving[t] holds the locals of the save that tab t is in.  An entry is   *)
(* told by the save that made it and by its run; run 0 is the session.     *)
(***************************************************************************)
EXTENDS Integers, FiniteSets

CONSTANTS
  Savers,        \* tabs
  Viewers,       \* accounts
  Administrators,
  Nobody,        \* owner of what was saved before entries had owners
  NoSave,
  RunsOfBatch,   \* runs of one batch
  MaxSaves       \* bound: saves begun

Files == {"results", "sessions"}
Saves == 1..MaxSaves
Entry == [save : 0..MaxSaves, run : 0..RunsOfBatch, owner : Viewers \cup {Nobody}]
Saving == [file : Files, at : {"load", "write"}, base : SUBSET Entry,
           entry : Entry, last : 0..RunsOfBatch]

ASSUME BenchmarkStoreAssumption ==
  /\ RunsOfBatch \in Nat \ {0} /\ MaxSaves \in Nat
  /\ Administrators \subseteq Viewers /\ Nobody \notin Viewers
  /\ NoSave \notin Saving

VARIABLES
  file,        \* the entries of each file
  user,        \* who is signed in to each tab
  saving,
  begun,       \* saves begun; madeBy[n]: by whom
  madeBy,
  written,     \* history: the entries that a replace has put into their file
  endangered   \* history: those which a save did not see when it loaded the file

storeVars == <<file, user, saving, begun, madeBy, written, endangered>>

StoreTypeOK ==
  /\ file \in [Files -> SUBSET Entry]
  /\ user \in [Savers -> Viewers]
  /\ saving \in [Savers -> Saving \cup {NoSave}]
  /\ begun \in 0..MaxSaves
  /\ madeBy \in [Saves -> Viewers \cup {Nobody}]
  /\ written \in [Files -> SUBSET Entry]
  /\ endangered \in [Files -> SUBSET Entry]

\* A file of an earlier release has entries without an owner.
Legacy == [save |-> 0, run |-> 0, owner |-> Nobody]

StoreOf(old, who) ==
  /\ file = [f \in Files |-> old]
  /\ user = who
  /\ saving = [t \in Savers |-> NoSave]
  /\ begun = 0 /\ madeBy = [n \in Saves |-> Nobody]
  /\ written = [f \in Files |-> old]
  /\ endangered = [f \in Files |-> {}]

StoreInit == \E old \in {{}, {Legacy}}, who \in [Savers -> Viewers] : StoreOf(old, who)

----------------------------------------------------------------------------
Beginning(t) ==
  /\ saving[t] = NoSave /\ begun < MaxSaves
  /\ begun' = begun + 1
  /\ madeBy' = [madeBy EXCEPT ![begun + 1] = user[t]]

\* One entry to save, and the last run of which there is one.
SaveOf(f, entry, last) ==
  [file |-> f, at |-> "load", base |-> {}, entry |-> entry, last |-> last]

\* stamp_owner, by the user of the tab.
OwnedRow(t, run) == [save |-> begun + 1, run |-> run, owner |-> user[t]]

\* Save this prompt-set result: save_benchmark_result.
SaveResult(t) ==
  /\ Beginning(t)
  /\ saving' = [saving EXCEPT ![t] = SaveOf("results", OwnedRow(t, 1), 1)]
  /\ UNCHANGED <<file, user, written, endangered>>

\* The rows of a batch take the owner of its session: a run has none.
UnownedRow(entry) == [entry EXCEPT !.run = @ + 1, !.owner = Nobody]
BatchRow(entry)   == [entry EXCEPT !.run = @ + 1]

\* save_batch_session
SaveBatch(t) ==
  /\ Beginning(t)
  /\ saving' = [saving EXCEPT ![t] = SaveOf("sessions", OwnedRow(t, 0), RunsOfBatch)]
  /\ UNCHANGED <<file, user, written, endangered>>

InSave(t, at) == saving[t] # NoSave /\ saving[t].at = at

\* load_benchmark_results
Load(t) ==
  /\ InSave(t, "load")
  /\ saving' = [saving EXCEPT ![t].at = "write", ![t].base = file[saving[t].file]]
  /\ UNCHANGED <<file, user, begun, madeBy, written, endangered>>

\* A file that cannot be read counts as an empty one.
LoadNothing(t) ==
  /\ InSave(t, "load")
  /\ saving' = [saving EXCEPT ![t].at = "write", ![t].base = {}]
  /\ endangered' = [endangered EXCEPT ![saving[t].file] = @ \cup file[saving[t].file]]
  /\ UNCHANGED <<file, user, begun, madeBy, written>>

\* The rows of a batch follow its session one by one.
Continue(t) ==
  LET save == saving[t]
  IN saving' = [saving EXCEPT ![t] =
       IF save.entry.run >= save.last THEN NoSave
       ELSE SaveOf("results", BatchRow(save.entry), save.last)]

Overlapping(t) == \E s \in Savers \ {t} : InSave(s, "write") /\ saving[s].file = saving[t].file

\* os.replace of a temporary file that is complete.
Replace(t) ==
  /\ InSave(t, "write")
  /\ LET f == saving[t].file e == saving[t].entry IN
     /\ file' = [file EXCEPT ![f] = saving[t].base \cup {e}]
     /\ written' = [written EXCEPT ![f] = @ \cup {e}]
     /\ endangered' = IF Overlapping(t) THEN [endangered EXCEPT ![f] = @ \cup {e}] ELSE endangered
  /\ Continue(t)
  /\ UNCHANGED <<user, begun, madeBy>>

\* The write fails, or the server stops, and the temporary file is all that
\* was touched.
InPlace(t)  == file' = [file EXCEPT ![saving[t].file] = {}]
Untouched(t) == UNCHANGED file

Stop(t) ==
  /\ saving[t] # NoSave
  /\ IF InSave(t, "write") THEN Untouched(t) ELSE UNCHANGED file
  /\ saving' = [saving EXCEPT ![t] = NoSave]
  /\ UNCHANGED <<user, begun, madeBy, written, endangered>>

\* Another user signs in: no save is in progress in this tab.
SignInAs(t, u) ==
  /\ saving[t] = NoSave /\ user[t] # u
  /\ user' = [user EXCEPT ![t] = u]
  /\ UNCHANGED <<file, saving, begun, madeBy, written, endangered>>

StoreNext ==
  \E t \in Savers :
    \/ SaveResult(t) \/ SaveBatch(t) \/ Load(t) \/ LoadNothing(t) \/ Replace(t) \/ Stop(t)
    \/ \E u \in Viewers : SignInAs(t, u)

StoreSpec == StoreInit /\ [][StoreNext]_storeVars

----------------------------------------------------------------------------
\* owned_by_user
VisibleTo(u, f) == IF u \in Administrators THEN file[f] ELSE {e \in file[f] : e.owner = u}

MadeBy(e) == IF e.save = 0 THEN Nobody ELSE madeBy[e.save]

\* No locks, failing writes and restarts: an entry that reached its file is
\* still in it, unless a save loaded the file before it was there and replaced
\* it afterwards, or could not read it (save_benchmark_result,
\* save_batch_session, _atomic_write_json).
LostOnlyUnseen == \A f \in Files : written[f] \subseteq file[f] \cup endangered[f]

\* Everyone finds their own runs in the history, those of a batch as well,
\* and nobody but an administrator finds another's or an unowned one
\* (stamp_owner, owned_by_user).
HistoryIsOwn ==
  \A f \in Files, u \in Viewers \ Administrators :
    /\ \A e \in VisibleTo(u, f) : MadeBy(e) = u
    /\ \A e \in file[f] : MadeBy(e) = u => e \in VisibleTo(u, f)
============================================================================
