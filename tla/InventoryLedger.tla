--------------------------- MODULE InventoryLedger ---------------------------
(***************************************************************************)
(* What the analysis wizard promises about the inventory history: a record *)
(* is made of the analysis the user has in front of him, at most once for  *)
(* each analysis, and an analysis that was given up never comes back.      *)
(***************************************************************************)
EXTENDS Integers, Sequences, Functions

VARIABLES
  latest,    \* number of analyses finished so far; they are numbered from 1
  current,   \* the analysis open for review, or 0
  recorded   \* the analyses recorded in the history, oldest first

ledger == <<latest, current, recorded>>

LInit == latest = 0 /\ current = 0 /\ recorded = <<>>

\* An analysis finishes: with results to review, or with none.
Analyse ==
  /\ current = 0
  /\ latest' = latest + 1
  /\ current' \in {0, latest'}
  /\ UNCHANGED recorded

\* The results are dropped for another analysis.
Discard == current # 0 /\ current' = 0 /\ UNCHANGED <<latest, recorded>>

Record ==
  /\ current # 0
  /\ current \notin Range(recorded)
  /\ recorded' = Append(recorded, current)
  /\ UNCHANGED <<latest, current>>

LNext == Analyse \/ Discard \/ Record

LSpec == LInit /\ [][LNext]_ledger
==============================================================================
