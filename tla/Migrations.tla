----------------------------- MODULE Migrations -----------------------------
(***************************************************************************)
(* The versioned schema of database.py.  Every function of the store calls *)
(* initialize_database first, so that script threads and processes that    *)
(* start together all find the same migrations pending: apply_migrations   *)
(* reads the version in one transaction, copies the file, and applies in   *)
(* another.  Of the data, the model keeps the accounts, which migration 8  *)
(* classifies; upgrade[p] is where thread p is in apply_migrations.        *)
(***************************************************************************)
EXTENDS Integers

CONSTANTS
  Threads,
  Owners,            \* the people that have, or will have, an account
  SchemaVersion,     \* MIGRATIONS[-1].version
  UsersMigration,    \* the migration that creates `users`
  StatusMigration,   \* the one that adds account_status
  NoRow

Versions == 1..SchemaVersion

\* status "none": the column does not exist yet.
AccountRow == [active : BOOLEAN, status : {"none", "active", "pending", "disabled"}]

ASSUME MigrationsAssumption ==
  /\ SchemaVersion \in Nat
  /\ UsersMigration \in Versions /\ StatusMigration \in Versions
  /\ UsersMigration < StatusMigration
  /\ NoRow \notin AccountRow

VARIABLES
  recorded,   \* the versions in schema_migrations
  built,      \* the migrations whose tables and columns exist
  people,     \* the rows of `users`
  upgrade     \* upgrade[p]: [at, pending]

migrationVars == <<recorded, built, people, upgrade>>

Upgrade == [at : {"outside", "copy", "apply", "inside"}, pending : SUBSET Versions]
Outside == [at |-> "outside", pending |-> {}]

MigrationsTypeOK ==
  /\ recorded \in SUBSET Versions
  /\ built \in SUBSET Versions
  /\ people \in [Owners -> AccountRow \cup {NoRow}]
  /\ upgrade \in [Threads -> Upgrade]

\* A database left by an earlier release, with or without accounts.
DatabaseOfRelease(v, rows) ==
  /\ recorded = 1..v /\ built = 1..v
  /\ people = rows
  /\ upgrade = [p \in Threads |-> Outside]

RowsBefore(v) ==
  IF v < UsersMigration THEN {NoRow}
  ELSE IF v < StatusMigration THEN {NoRow} \cup [active : BOOLEAN, status : {"none"}]
  ELSE {NoRow, [active |-> TRUE, status |-> "active"],
        [active |-> FALSE, status |-> "pending"], [active |-> FALSE, status |-> "disabled"]}

MigrationsInit ==
  \E v \in {0} \cup Versions :
    \E rows \in [Owners -> RowsBefore(v)] : DatabaseOfRelease(v, rows)

----------------------------------------------------------------------------
\* SELECT MAX(version) FROM schema_migrations
CurrentVersion == IF recorded = {} THEN 0 ELSE CHOOSE v \in recorded : \A w \in recorded : w <= v

Upgrading(p, step) == upgrade[p].at = step

ReadVersion(p) ==
  /\ Upgrading(p, "outside")
  /\ LET pending == {v \in Versions : v > CurrentVersion} IN
     upgrade' = [upgrade EXCEPT ![p] =
       [at |-> IF pending = {} THEN "inside" ELSE IF CurrentVersion > 0 THEN "copy" ELSE "apply",
        pending |-> pending]]
  /\ UNCHANGED <<recorded, built, people>>

\* _backup_database: a copy that fails is no reason to stop.
Backup(p) ==
  /\ Upgrading(p, "copy")
  /\ upgrade' = [upgrade EXCEPT ![p].at = "apply"]
  /\ UNCHANGED <<recorded, built, people>>

\* What running migration 8 over classified accounts might do.
ClassifiedAgain(row) ==
  [row EXCEPT !.status = IF row.active THEN "active" ELSE "disabled"]

\* _migration_008: the column with its default, then the inactive accounts.
Classified(row) ==
  LET status == IF row.status = "none" THEN "active" ELSE row.status
  IN  [row EXCEPT !.status =
         IF ~row.active /\ status = "active" THEN "disabled" ELSE status]

\* The other migrations add tables, columns and indexes where there are none;
\* of the rows, migration 6 updates model_access_policies and no account.
Migrated(done) ==
  [o \in Owners |-> IF people[o] # NoRow /\ StatusMigration \in done
                    THEN Classified(people[o]) ELSE people[o]]

\* One transaction: also when another thread has applied the same list since.
Apply(p) ==
  /\ Upgrading(p, "apply")
  /\ built' = built \cup upgrade[p].pending
  /\ recorded' = recorded \cup upgrade[p].pending
  /\ people' = Migrated(upgrade[p].pending)
  /\ upgrade' = [upgrade EXCEPT ![p].at = "inside"]

\* What is left behind when each migration commits by itself.
LeavePart(p) ==
  /\ Upgrading(p, "apply")
  /\ built' = built \cup {v \in upgrade[p].pending : \A w \in upgrade[p].pending : v <= w}
  /\ upgrade' = [upgrade EXCEPT ![p] = Outside]
  /\ UNCHANGED <<recorded, people>>

\* One of the migrations fails, SQLite reports a snapshot that another commit
\* has overtaken, or the process ends: ROLLBACK, and the call raises.
RollBack(p) ==
  /\ Upgrading(p, "apply")
  /\ upgrade' = [upgrade EXCEPT ![p] = Outside]
  /\ UNCHANGED <<recorded, built, people>>

\* What the function that called initialize_database goes on to do.
Inside(p) == Upgrading(p, "inside") /\ upgrade' = [upgrade EXCEPT ![p] = Outside]

SignsUp(p, o) ==
  /\ Inside(p) /\ people[o] = NoRow
  /\ people' = [people EXCEPT ![o] = [active |-> FALSE, status |-> "pending"]]
  /\ UNCHANGED <<recorded, built>>

Activated(p, o) ==
  /\ Inside(p) /\ people[o] # NoRow
  /\ people' = [people EXCEPT ![o] = [active |-> TRUE, status |-> "active"]]
  /\ UNCHANGED <<recorded, built>>

Deactivated(p, o) ==
  /\ Inside(p) /\ people[o] # NoRow
  /\ people' = [people EXCEPT ![o] = [active |-> FALSE, status |-> "disabled"]]
  /\ UNCHANGED <<recorded, built>>

OtherUse(p) == Inside(p) /\ UNCHANGED <<recorded, built, people>>

----------------------------------------------------------------------------
MigrationsNext ==
  \E p \in Threads :
    \/ ReadVersion(p) \/ Backup(p) \/ Apply(p) \/ RollBack(p) \/ OtherUse(p)
    \/ \E o \in Owners : SignsUp(p, o) \/ Activated(p, o) \/ Deactivated(p, o)

MigrationsSpec == MigrationsInit /\ [][MigrationsNext]_migrationVars

----------------------------------------------------------------------------
\* Each migration is applied as a whole or not at all, and what is applied is
\* recorded: a failed or interrupted upgrade leaves a database whose version
\* says what its schema is, and no version is skipped (apply_migrations).
SchemaMatchesVersion == built = recorded /\ recorded = 1..CurrentVersion

\* A thread may apply the list it read when another has applied it and people
\* have signed up or been deactivated since: that changes nobody's status.
\* An account which migration 8 finds is classified by is_active alone.
UpgradeKeepsAccounts ==
  [][\A p \in Threads, o \in Owners :
       Upgrading(p, "apply") /\ upgrade'[p].at = "inside" /\ people[o] # NoRow /\ people'[o] # people[o]
         => /\ people[o].status = "none"
            /\ people'[o] = [active |-> people[o].active,
                             status |-> IF people[o].active THEN "active" ELSE "disabled"]
     ]_migrationVars
============================================================================
