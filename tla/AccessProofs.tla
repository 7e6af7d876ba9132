----------------------------- MODULE AccessProofs -----------------------------
(***************************************************************************)
(* Four parts that decide who gets in and to what, for any number of       *)
(* accounts, tabs and processes: how long a session lives, what an upgrade *)
(* of the database does to the accounts, whom an answered reset request    *)
(* reaches, and which edits of a model policy stay in force.  The four     *)
(* share no variable; each has its own specification.                      *)
(***************************************************************************)
EXTENDS SessionLifetime, Migrations, ResetRequests, ModelPolicies, TLAPS

----------------------------------------------------------------------------
(* Session lifetime                                                        *)

\* The session is as old, or was idle as long, as no session may.
Stale == now - session.start >= AbsoluteLimit \/ now - session.active >= IdleLimit

\* auth_user, when it is there, is of this session, and the activity it tells
\* of is the last one, unless the session was already to end when a click
\* stopped it being wiped.
LifetimeInv ==
  /\ LifetimeTypeOK
  /\ session.start <= session.active /\ session.active <= now
  /\ since # Never => /\ since = session.start /\ LastSeen <= session.active
                      /\ LastSeen = session.active \/ session.leaving \/ Stale
  /\ doing = "ending" => session.leaving \/ Stale
  /\ doing = "gate" => since # Never

LEMMA LifetimeInvInit == LifetimeInit => LifetimeInv
BY LifetimeAssumption DEF LifetimeInit, LifetimeInv, LifetimeTypeOK, Time, Doings

LEMMA LifetimeInvStep == LifetimeInv /\ [LifetimeNext]_lifetimeVars => LifetimeInv'
<1> SUFFICES ASSUME LifetimeInv, [LifetimeNext]_lifetimeVars PROVE LifetimeInv'
  OBVIOUS
<1> USE LifetimeAssumption DEF LifetimeInv, LifetimeTypeOK, Time, Doings, LastSeen, Stale
<1>1. CASE Elapses
  BY <1>1 DEF Elapses
<1>2. CASE Interact
  BY <1>2 DEF Interact
<1>3. CASE SignIn
  BY <1>3 DEF SignIn
<1>4. CASE Pass \/ PassStopped
  BY <1>4 DEF Pass, PassStopped, KeepsSince
<1>5. CASE TimeOut
  BY <1>5 DEF TimeOut, Expired, TooOld, TooIdle
<1>6. CASE ChangePassword \/ LogOut
  BY <1>6 DEF ChangePassword, LogOut, KeepsSince
<1>7. CASE Wipe \/ WipeStopped
  BY <1>7 DEF Wipe, WipeStopped
<1>8. CASE UNCHANGED lifetimeVars
  BY <1>8 DEF lifetimeVars
<1> QED BY <1>1, <1>2, <1>3, <1>4, <1>5, <1>6, <1>7, <1>8 DEF LifetimeNext

\* enforce_session draws a page only for a session within both limits, whatever
\* a stopped sign-in, gate or wipe left behind.
THEOREM LimitsHold == LifetimeSpec => PagesWithinLimits
<1>1. LifetimeInv /\ [LifetimeNext]_lifetimeVars =>
        [doing = "gate" /\ doing' = "page"
           => /\ now - session.start < AbsoluteLimit
              /\ now - session.active < IdleLimit]_lifetimeVars
  <2> SUFFICES ASSUME LifetimeInv, LifetimeNext, doing = "gate", doing' = "page"
               PROVE  now - session.start < AbsoluteLimit /\ now - session.active < IdleLimit
    OBVIOUS
  <2>1. Pass
    BY DEF LifetimeNext, Elapses, Interact, SignIn, PassStopped, TimeOut, ChangePassword,
           LogOut, Wipe, WipeStopped
  <2> QED BY <2>1, LifetimeAssumption
       DEF Pass, Expired, TooOld, TooIdle, LifetimeInv, LifetimeTypeOK, Time, LastSeen
<1> QED BY <1>1, LifetimeInvInit, LifetimeInvStep, PTL DEF LifetimeSpec, PagesWithinLimits

\* enforce_session signs nobody out who is within both limits and did not ask
\* for it.
THEOREM WorkersStay == LifetimeSpec => WorkingUserStays
<1>1. LifetimeInv /\ [LifetimeNext]_lifetimeVars =>
        [doing = "gate" /\ doing' = "ending" /\ ~session'.leaving
           => \/ now - session.start >= AbsoluteLimit
              \/ now - session.active >= IdleLimit]_lifetimeVars
  <2> SUFFICES ASSUME LifetimeInv, LifetimeNext, doing = "gate", doing' = "ending", ~session'.leaving
               PROVE  Stale
    BY DEF Stale
  <2>1. TimeOut
    BY DEF LifetimeNext, Elapses, Interact, SignIn, Pass, PassStopped, ChangePassword,
           LogOut, Wipe, WipeStopped, LifetimeInv, LifetimeTypeOK
  <2> QED BY <2>1, LifetimeAssumption
       DEF TimeOut, Expired, TooOld, TooIdle, LifetimeInv, LifetimeTypeOK, Time, Stale
<1> QED BY <1>1, LifetimeInvInit, LifetimeInvStep, PTL DEF LifetimeSpec, WorkingUserStays

\* The clocks of a session and what the page is doing keep their types,
\* wherever a pass of the page is stopped (auth_session.py).
THEOREM LifetimeTyped == LifetimeSpec => []LifetimeTypeOK
<1>1. LifetimeInv => LifetimeTypeOK
  BY DEF LifetimeInv
<1> QED BY <1>1, LifetimeInvInit, LifetimeInvStep, PTL DEF LifetimeSpec

----------------------------------------------------------------------------
(* Migrations                                                              *)

\* An account that was classified is active in both columns or in neither.
Consistent(row) == row.status # "none" => (row.status = "active" <=> row.active)

\* At version v: a thread that is about to apply its list read it at a version
\* not above v, and whoever uses the store is past the upgrade.
AtVersion(v) ==
  /\ recorded = 1..v /\ built = 1..v
  /\ \A p \in Threads :
       /\ upgrade[p].at \in {"copy", "apply"} => \E w \in 0..v : upgrade[p].pending = (w + 1)..SchemaVersion
       /\ upgrade[p].at = "inside" => v = SchemaVersion

MigrationInv ==
  /\ people \in [Owners -> AccountRow \cup {NoRow}]
  /\ \A o \in Owners : people[o] # NoRow => Consistent(people[o])
  /\ upgrade \in [Threads -> Upgrade]
  /\ \E v \in 0..SchemaVersion : AtVersion(v)

\* The recorded versions are those up to the newest.
LEMMA VersionOf ==
  ASSUME NEW v \in Nat, recorded = 1..v
  PROVE  CurrentVersion = v
<1>1. CASE v = 0
  BY <1>1 DEF CurrentVersion
<1>2. CASE v # 0
  <2>1. v \in recorded /\ \A w \in recorded : w <= v
    BY <1>2
  <2>2. CurrentVersion \in recorded /\ \A w \in recorded : w <= CurrentVersion
    BY <2>1 DEF CurrentVersion
  <2> QED BY <2>1, <2>2
<1> QED BY <1>1, <1>2

LEMMA MigrationInvInit == MigrationsInit => MigrationInv
<1> SUFFICES ASSUME NEW v \in {0} \cup Versions, NEW rows \in [Owners -> RowsBefore(v)],
                    DatabaseOfRelease(v, rows)
             PROVE  MigrationInv
  BY DEF MigrationsInit
<1>1. v \in 0..SchemaVersion
  BY MigrationsAssumption DEF Versions
<1>2. ASSUME NEW o \in Owners
      PROVE  rows[o] \in AccountRow \cup {NoRow} /\ (rows[o] # NoRow => Consistent(rows[o]))
  <2>1. rows[o] \in RowsBefore(v)
    OBVIOUS
  <2>2. rows[o] = NoRow \/ rows[o] \in [active : BOOLEAN, status : {"none"}]
          \/ rows[o] \in {[active |-> TRUE, status |-> "active"],
                          [active |-> FALSE, status |-> "pending"],
                          [active |-> FALSE, status |-> "disabled"]}
    BY <2>1 DEF RowsBefore
  <2>3. CASE rows[o] \in [active : BOOLEAN, status : {"none"}]
    BY <2>3 DEF AccountRow, Consistent
  <2>4. CASE rows[o] \in {[active |-> TRUE, status |-> "active"],
                          [active |-> FALSE, status |-> "pending"],
                          [active |-> FALSE, status |-> "disabled"]}
    <3>1. /\ [active |-> TRUE, status |-> "active"] \in AccountRow
          /\ [active |-> FALSE, status |-> "pending"] \in AccountRow
          /\ [active |-> FALSE, status |-> "disabled"] \in AccountRow
      BY DEF AccountRow
    <3>2. /\ Consistent([active |-> TRUE, status |-> "active"])
          /\ Consistent([active |-> FALSE, status |-> "pending"])
          /\ Consistent([active |-> FALSE, status |-> "disabled"])
      BY DEF Consistent
    <3> QED BY <2>4, <3>1, <3>2
  <2> QED BY <2>2, <2>3, <2>4
<1>3. AtVersion(v) /\ upgrade \in [Threads -> Upgrade]
  BY <1>1 DEF DatabaseOfRelease, AtVersion, Outside, Upgrade
<1> QED BY <1>1, <1>2, <1>3 DEF DatabaseOfRelease, MigrationInv

\* A thread that moves on while the database stays as it is.
LEMMA OneThread ==
  ASSUME MigrationInv, NEW v \in 0..SchemaVersion, AtVersion(v), NEW p \in Threads, NEW u \in Upgrade,
         upgrade' = [upgrade EXCEPT ![p] = u], recorded' = recorded, built' = built,
         people' \in [Owners -> AccountRow \cup {NoRow}],
         \A o \in Owners : people'[o] # NoRow => Consistent(people'[o]),
         u.at \in {"copy", "apply"} => \E w \in 0..v : u.pending = (w + 1)..SchemaVersion,
         u.at = "inside" => v = SchemaVersion
  PROVE  MigrationInv'
<1>1. AtVersion(v)'
  BY DEF AtVersion, MigrationInv
<1>2. upgrade' \in [Threads -> Upgrade]
  BY DEF MigrationInv
<1> QED BY <1>1, <1>2 DEF MigrationInv

\* Migration 8 leaves what is classified as it is.
LEMMA ClassifiedOnce ==
  ASSUME NEW row \in AccountRow, Consistent(row)
  PROVE  /\ Classified(row) \in AccountRow /\ Consistent(Classified(row))
         /\ row.status # "none" => Classified(row) = row
         /\ row.status = "none" =>
              Classified(row) = [active |-> row.active, status |-> IF row.active THEN "active" ELSE "disabled"]
BY DEF AccountRow, Consistent, Classified

LEMMA MigrationInvStep == MigrationInv /\ [MigrationsNext]_migrationVars => MigrationInv'
<1> SUFFICES ASSUME MigrationInv, [MigrationsNext]_migrationVars PROVE MigrationInv'
  OBVIOUS
<1>1. PICK v \in 0..SchemaVersion : AtVersion(v)
  BY DEF MigrationInv
<1>2. CurrentVersion = v /\ SchemaVersion \in Nat
  BY <1>1, VersionOf, MigrationsAssumption DEF AtVersion
<1>3. ASSUME NEW p \in Threads, ReadVersion(p) PROVE MigrationInv'
  <2> DEFINE pending == {w \in Versions : w > v}
             u == [at |-> IF pending = {} THEN "inside" ELSE IF v > 0 THEN "copy" ELSE "apply",
                   pending |-> pending]
  <2>1. pending = (v + 1)..SchemaVersion /\ pending \subseteq Versions
    BY <1>2 DEF Versions
  <2>2. pending = {} => v = SchemaVersion
    BY <1>2, <2>1
  <2>3. upgrade' = [upgrade EXCEPT ![p] = u]
    BY <1>2, <1>3 DEF ReadVersion
  <2> HIDE DEF pending
  <2>4. u \in Upgrade
    BY <2>1 DEF Upgrade
  <2>5. u.at = "inside" => v = SchemaVersion
    BY <2>2
  <2>6. u.at \in {"copy", "apply"} => \E w \in 0..v : u.pending = (w + 1)..SchemaVersion
    BY <1>2, <2>1
  <2> QED BY <1>1, <1>3, <2>3, <2>4, <2>5, <2>6, OneThread DEF ReadVersion, MigrationInv
<1>4. ASSUME NEW p \in Threads, Backup(p) PROVE MigrationInv'
  <2> DEFINE u == [upgrade[p] EXCEPT !.at = "apply"]
  <2>1. u \in Upgrade /\ u.pending = upgrade[p].pending /\ u.at = "apply"
    BY DEF MigrationInv, Upgrade
  <2>2. upgrade' = [upgrade EXCEPT ![p] = u] /\ upgrade[p].at = "copy"
    BY <1>4 DEF Backup, Upgrading
  <2>3. \E w \in 0..v : u.pending = (w + 1)..SchemaVersion
    BY <1>1, <2>1, <2>2 DEF AtVersion
  <2>4. /\ recorded' = recorded /\ built' = built
        /\ people' \in [Owners -> AccountRow \cup {NoRow}]
        /\ \A o \in Owners : people'[o] # NoRow => Consistent(people'[o])
    BY <1>4 DEF Backup, MigrationInv
  <2> HIDE DEF u
  <2> QED BY <1>1, <2>1, <2>2, <2>3, <2>4, OneThread
<1>5. ASSUME NEW p \in Threads, Apply(p) PROVE MigrationInv'
  <2>1. PICK w \in 0..v : upgrade[p].pending = (w + 1)..SchemaVersion
    BY <1>1, <1>5 DEF Apply, Upgrading, AtVersion
  <2>2. recorded' = 1..SchemaVersion /\ built' = 1..SchemaVersion
    BY <1>1, <1>2, <1>5, <2>1 DEF Apply, AtVersion
  <2> DEFINE u == [upgrade[p] EXCEPT !.at = "inside"]
  <2>3. u \in Upgrade /\ u.at = "inside" /\ upgrade' = [upgrade EXCEPT ![p] = u]
    BY <1>5 DEF Apply, MigrationInv, Upgrade
  <2>4. AtVersion(SchemaVersion)'
    <3> SUFFICES ASSUME NEW q \in Threads, upgrade'[q].at \in {"copy", "apply"}
                 PROVE  \E x \in 0..SchemaVersion : upgrade'[q].pending = (x + 1)..SchemaVersion
      BY <2>2 DEF AtVersion
    <3>1. q # p /\ upgrade'[q] = upgrade[q]
      BY <2>3 DEF MigrationInv
    <3> QED BY <1>1, <1>2, <3>1 DEF AtVersion
  <2>5. people' \in [Owners -> AccountRow \cup {NoRow}]
        /\ \A o \in Owners : people'[o] # NoRow => Consistent(people'[o])
    BY <1>5, ClassifiedOnce DEF Apply, Migrated, MigrationInv
  <2> QED BY <1>2, <2>3, <2>4, <2>5 DEF MigrationInv
<1>6. ASSUME NEW p \in Threads, RollBack(p) \/ OtherUse(p) PROVE MigrationInv'
  <2>1. Outside \in Upgrade /\ Outside.at = "outside"
    BY DEF Outside, Upgrade
  <2> QED BY <1>1, <1>6, <2>1, OneThread DEF RollBack, OtherUse, Inside, MigrationInv
<1>7. ASSUME NEW p \in Threads, NEW o \in Owners, SignsUp(p, o) \/ Activated(p, o) \/ Deactivated(p, o)
      PROVE  MigrationInv'
  <2>1. Outside \in Upgrade /\ Outside.at = "outside"
    BY DEF Outside, Upgrade
  <2>2. PICK row \in AccountRow : Consistent(row) /\ people' = [people EXCEPT ![o] = row]
    BY <1>7 DEF SignsUp, Activated, Deactivated, AccountRow, Consistent
  <2>3. people' \in [Owners -> AccountRow \cup {NoRow}]
        /\ \A x \in Owners : people'[x] # NoRow => Consistent(people'[x])
    BY <2>2 DEF MigrationInv
  <2> QED BY <1>1, <1>7, <2>1, <2>3, OneThread DEF SignsUp, Activated, Deactivated, Inside
<1>8. CASE UNCHANGED migrationVars
  BY <1>8 DEF migrationVars, MigrationInv, AtVersion
<1> QED BY <1>3, <1>4, <1>5, <1>6, <1>7, <1>8 DEF MigrationsNext

\* Each migration is applied and recorded as a whole, and none is skipped
\* (apply_migrations), however many processes start at once.
THEOREM SchemaIsItsVersion == MigrationsSpec => []SchemaMatchesVersion
<1>1. MigrationInv => SchemaMatchesVersion
  BY VersionOf DEF MigrationInv, AtVersion, SchemaMatchesVersion
<1> QED BY <1>1, MigrationInvInit, MigrationInvStep, PTL DEF MigrationsSpec

\* A list of migrations that another process has applied since it was read
\* changes nobody's status (_migration_008_signup_and_reset_requests).
THEOREM UpgradesKeepAccounts == MigrationsSpec => UpgradeKeepsAccounts
<1> DEFINE Kept == \A p \in Threads, o \in Owners :
       Upgrading(p, "apply") /\ upgrade'[p].at = "inside" /\ people[o] # NoRow /\ people'[o] # people[o]
         => /\ people[o].status = "none"
            /\ people'[o] = [active |-> people[o].active,
                             status |-> IF people[o].active THEN "active" ELSE "disabled"]
<1>1. MigrationInv /\ [MigrationsNext]_migrationVars => [Kept]_migrationVars
  <2> SUFFICES ASSUME MigrationInv, MigrationsNext, NEW p \in Threads, NEW o \in Owners,
                      Upgrading(p, "apply"), upgrade'[p].at = "inside",
                      people[o] # NoRow, people'[o] # people[o]
               PROVE  /\ people[o].status = "none"
                      /\ people'[o] = [active |-> people[o].active,
                                       status |-> IF people[o].active THEN "active" ELSE "disabled"]
    BY DEF migrationVars
  <2>1. PICK q \in Threads : Apply(q)
    <3>1. ASSUME NEW q \in Threads, Inside(q) PROVE FALSE
      BY <3>1 DEF Inside, Upgrading, Outside, MigrationInv, Upgrade
    <3> QED BY <3>1 DEF MigrationsNext, ReadVersion, Backup, RollBack, OtherUse, SignsUp,
                       Activated, Deactivated
  <2>2. people'[o] = Classified(people[o]) /\ people[o] \in AccountRow /\ Consistent(people[o])
    BY <2>1 DEF Apply, Migrated, MigrationInv
  <2> QED BY <2>2, ClassifiedOnce
<1> QED BY <1>1, MigrationInvInit, MigrationInvStep, PTL DEF MigrationsSpec, UpgradeKeepsAccounts

\* Whatever release left the database and however many processes start on it,
\* only versions of the code are recorded and built (database.py).
THEOREM MigrationsTyped == MigrationsSpec => []MigrationsTypeOK
<1>1. MigrationInv => MigrationsTypeOK
  BY MigrationsAssumption DEF MigrationInv, AtVersion, MigrationsTypeOK, Versions
<1> QED BY <1>1, MigrationInvInit, MigrationInvStep, PTL DEF MigrationsSpec
----------------------------------------------------------------------------
(* Reset requests                                                          *)

\* The id stands for an account of that name, or for none: an account that was
\* deleted leaves its id unused for ever.
Means(i, name) ==
  /\ i < nextAccount
  /\ i \in AccountIds /\ accounts[i] # NoAccount => accounts[i].name = name

\* A call and the request that it answers speak of the same name.
Answers(c, call) ==
  call # NoCall =>
    /\ Means(call.account, call.name)
    /\ c \in ResetAdmins => call.at \notin {"ask", "insert"}
    /\ call.at \notin {"ask", "insert"} =>
         /\ call.request \in RequestIds /\ requests[call.request] # NoRequest
         /\ requests[call.request].name = call.name
         /\ call.answer \in {"fulfilled", "rejected"}
    /\ call.answer = "fulfilled" /\ call.at # "byName" => call.account # NoId
    /\ call.at \in {"byId", "byName", "lookup", "set", "show"} => call.answer = "fulfilled"

ReachInv ==
  /\ ResetTypeOK
  /\ \A i \in AccountIds : accounts[i] # NoAccount => i < nextAccount
  /\ \A r \in RequestIds : requests[r] # NoRequest =>
       r < nextRequest /\ Means(requests[r].account, requests[r].name)
  /\ \A c \in ResetTabs : Answers(c, resetJob[c])

LEMMA ReachInvInit == ResetInit => ReachInv
BY ResetAssumption DEF ResetInit, ReachInv, ResetTypeOK, Answers, AccountIds, RequestIds

\* Ids are handed out in order, and accounts and requests keep their names.
AccountsKept ==
  /\ nextAccount <= nextAccount'
  /\ \A i \in AccountIds : accounts'[i] # NoAccount =>
       /\ i < nextAccount'
       /\ i < nextAccount => accounts[i] # NoAccount /\ accounts'[i].name = accounts[i].name

RequestsKept ==
  /\ \A r \in RequestIds : requests[r] # NoRequest =>
       /\ requests'[r] # NoRequest /\ r < nextRequest'
       /\ requests'[r].name = requests[r].name
       /\ requests'[r].account \in {requests[r].account, NoId}
  /\ \A r \in RequestIds : requests[r] = NoRequest /\ requests'[r] # NoRequest =>
       r < nextRequest' /\ Means(requests'[r].account, requests'[r].name)

\* An id found for a name keeps its meaning while no other account gets it.
LEMMA MeansKept ==
  ASSUME ReachInv, ResetTypeOK', AccountsKept,
         NEW i \in AccountIds \cup {NoId}, NEW name, Means(i, name)
  PROVE  Means(i, name)'
<1>1. i \in Int /\ nextAccount \in Int /\ nextAccount' \in Int
  BY ResetAssumption DEF ReachInv, ResetTypeOK, AccountIds, NoId
<1> QED BY <1>1 DEF AccountsKept, Means

\* No id means any name: a name that was not found.
LEMMA MeansNone ==
  ASSUME ReachInv, NEW name
  PROVE  Means(NoId, name)
BY ResetAssumption DEF ReachInv, ResetTypeOK, Means, NoId, AccountIds

\* The invariant holds after a step that keeps accounts and requests, if it
\* holds of the calls that the step moves on.
LEMMA ReachStep ==
  ASSUME ReachInv, ResetTypeOK', AccountsKept, RequestsKept,
         \A c \in ResetTabs : resetJob'[c] = resetJob[c] \/ Answers(c, resetJob'[c])
  PROVE  ReachInv'
<1>1. \A i \in AccountIds : accounts'[i] # NoAccount => i < nextAccount'
  BY DEF AccountsKept
<1>2. ASSUME NEW r \in RequestIds, requests'[r] # NoRequest
      PROVE  r < nextRequest' /\ Means(requests[r].account, requests[r].name)'
  <2>1. PICK i, name : i = requests'[r].account /\ name = requests'[r].name
    OBVIOUS
  <2>2. i \in AccountIds \cup {NoId}
    BY <1>2, <2>1 DEF ResetTypeOK, Request
  <2>3. CASE requests[r] = NoRequest
    BY <1>2, <2>1, <2>2, <2>3, MeansKept DEF RequestsKept
  <2>4. CASE requests[r] # NoRequest
    <3>1. name = requests[r].name /\ i \in {requests[r].account, NoId} /\ r < nextRequest'
      BY <2>1, <2>4 DEF RequestsKept
    <3>2. Means(requests[r].account, requests[r].name)
      BY <2>4 DEF ReachInv
    <3>3. Means(i, name)
      BY <3>1, <3>2, MeansNone
    <3> QED BY <2>1, <2>2, <3>1, <3>3, MeansKept
  <2> QED BY <2>3, <2>4
<1>3. ASSUME NEW c \in ResetTabs PROVE Answers(c, resetJob[c])'
  <2>1. PICK call : call = resetJob'[c]
    OBVIOUS
  <2>2. Answers(c, call)
    BY <2>1 DEF ReachInv
  <2> SUFFICES ASSUME call # NoCall PROVE Answers(c, resetJob[c])'
    BY <2>1 DEF Answers
  <2>3. call.account \in AccountIds \cup {NoId}
    BY <2>1 DEF ResetTypeOK, Call
  <2>4. Means(call.account, call.name)'
    BY <2>2, <2>3, MeansKept DEF Answers
  <2>5. call.at \notin {"ask", "insert"} =>
          /\ call.request \in RequestIds /\ requests'[call.request] # NoRequest
          /\ requests'[call.request].name = call.name
          /\ call.answer \in {"fulfilled", "rejected"}
    BY <2>2 DEF Answers, RequestsKept
  <2> QED BY <2>1, <2>2, <2>4, <2>5 DEF Answers
<1> QED BY <1>1, <1>2, <1>3 DEF ReachInv

\* A step that leaves the tables alone keeps accounts and requests.
LEMMA TablesAlone ==
  ASSUME ReachInv, TablesKept
  PROVE  AccountsKept /\ RequestsKept
BY ResetAssumption DEF ReachInv, ResetTypeOK, TablesKept, AccountsKept, RequestsKept

\* A call that moves on, or ends, without touching the tables.
LEMMA CallStep ==
  ASSUME ReachInv, TablesKept, NEW c \in ResetTabs, NEW call \in Call \cup {NoCall},
         resetJob' = [resetJob EXCEPT ![c] = call], Answers(c, call),
         issued' \in 0..MaxIssued,
         shown' \in [ResetAdmins -> [account : AccountIds, temporary : 0..MaxIssued] \cup {NothingShown}]
  PROVE  ReachInv'
<1>1. ResetTypeOK'
  BY DEF ReachInv, ResetTypeOK, TablesKept
<1>2. \A d \in ResetTabs : resetJob'[d] = resetJob[d] \/ Answers(d, resetJob'[d])
  BY DEF ReachInv, ResetTypeOK
<1> QED BY <1>1, <1>2, TablesAlone, ReachStep

\* Approving or changing a password leaves an account well typed and its name.
LEMMA AccountChanges ==
  ASSUME NEW row \in Account
  PROVE  /\ [row EXCEPT !.pending = FALSE] \in Account /\ [row EXCEPT !.pending = FALSE].name = row.name
         /\ \A x \in 0..MaxIssued :
              [row EXCEPT !.password = x] \in Account /\ [row EXCEPT !.password = x].name = row.name
         /\ 0 \in 0..MaxIssued
<1>1. \A b \in BOOLEAN : [row EXCEPT !.pending = b] \in Account /\ [row EXCEPT !.pending = b].name = row.name
  BY DEF Account
<1>2. ASSUME NEW x \in 0..MaxIssued
      PROVE  [row EXCEPT !.password = x] \in Account /\ [row EXCEPT !.password = x].name = row.name
  BY DEF Account
<1>3. 0 \in 0..MaxIssued
  BY ResetAssumption
<1> QED BY <1>1, <1>2, <1>3

LEMMA AccountsStep == ASSUME ReachInv, AccountsChange PROVE ReachInv'
<1> USE ResetAssumption
<1>1. ASSUME NEW name \in AccountNames, NEW pending \in BOOLEAN, NewAccount(name, pending)
      PROVE  ReachInv'
  <2>1. [name |-> name, pending |-> pending, password |-> 0] \in Account
    BY DEF Account
  <2>2. ResetTypeOK'
    BY <1>1, <2>1 DEF NewAccount, FreshAccount, ReachInv, ResetTypeOK, AccountIds
  <2>3. AccountsKept
    BY <1>1 DEF NewAccount, FreshAccount, AccountsKept, ReachInv, ResetTypeOK, AccountIds
  <2>4. RequestsKept /\ resetJob' = resetJob
    BY <1>1 DEF NewAccount, RequestsKept, ReachInv
  <2> QED BY <2>2, <2>3, <2>4, ReachStep
<1>2. ASSUME NEW i \in AccountIds, RemoveAccount(i) PROVE ReachInv'
  <2>1. ResetTypeOK'
    <3>1. accounts' \in [AccountIds -> Account \cup {NoAccount}]
      BY <1>2 DEF RemoveAccount, ReachInv, ResetTypeOK
    <3>2. \A r \in RequestIds : requests[r] \in Request => [requests[r] EXCEPT !.account = NoId] \in Request
      BY DEF Request
    <3>3. requests' \in [RequestIds -> Request \cup {NoRequest}]
      BY <1>2, <3>2 DEF RemoveAccount, ReachInv, ResetTypeOK
    <3> QED BY <1>2, <3>1, <3>3 DEF RemoveAccount, ReachInv, ResetTypeOK
  <2>2. AccountsKept
    BY <1>2 DEF RemoveAccount, AccountsKept, ReachInv, ResetTypeOK
  <2>3. RequestsKept
    <3> SUFFICES ASSUME NEW r \in RequestIds
                 PROVE  /\ requests[r] # NoRequest =>
                             /\ requests'[r] # NoRequest /\ r < nextRequest'
                             /\ requests'[r].name = requests[r].name
                             /\ requests'[r].account \in {requests[r].account, NoId}
                        /\ requests[r] = NoRequest => requests'[r] = NoRequest
      BY DEF RequestsKept
    <3>1. requests'[r] = IF requests[r] # NoRequest /\ requests[r].account = i
                         THEN [requests[r] EXCEPT !.account = NoId] ELSE requests[r]
      BY <1>2 DEF RemoveAccount
    <3>2. requests[r] # NoRequest => requests[r] \in Request /\ r < nextRequest'
      BY <1>2 DEF RemoveAccount, ReachInv, ResetTypeOK
    <3>3. requests[r] \in Request => [requests[r] EXCEPT !.account = NoId] \in Request
      BY DEF Request
    <3> QED BY <3>1, <3>2, <3>3 DEF Request
  <2> QED BY <1>2, <2>1, <2>2, <2>3, ReachStep DEF RemoveAccount
<1>3. ASSUME NEW i \in AccountIds, ApproveAccount(i) \/ OwnerChanges(i) PROVE ReachInv'
  <2>1. PICK row \in Account : /\ row.name = accounts[i].name /\ accounts[i] # NoAccount
                               /\ accounts' = [accounts EXCEPT ![i] = row]
    <3>1. accounts[i] \in Account
      BY <1>3 DEF ApproveAccount, OwnerChanges, ReachInv, ResetTypeOK
    <3>2. CASE ApproveAccount(i)
      <4> DEFINE row == [accounts[i] EXCEPT !.pending = FALSE]
      <4>1. row \in Account /\ row.name = accounts[i].name
        BY <3>1, AccountChanges
      <4>2. accounts' = [accounts EXCEPT ![i] = row] /\ accounts[i] # NoAccount
        BY <3>2 DEF ApproveAccount
      <4> HIDE DEF row
      <4> QED BY <4>1, <4>2
    <3>3. CASE OwnerChanges(i)
      <4> DEFINE row == [accounts[i] EXCEPT !.password = 0]
      <4>1. row \in Account /\ row.name = accounts[i].name
        BY <3>1, AccountChanges
      <4>2. accounts' = [accounts EXCEPT ![i] = row] /\ accounts[i] # NoAccount
        BY <3>3 DEF OwnerChanges
      <4> HIDE DEF row
      <4> QED BY <4>1, <4>2
    <3> QED BY <1>3, <3>2, <3>3
  <2>2. /\ UNCHANGED <<nextAccount, requests, nextRequest, issued, resetJob, shown>>
    BY <1>3 DEF ApproveAccount, OwnerChanges
  <2>3. ResetTypeOK' /\ AccountsKept /\ RequestsKept
    BY <2>1, <2>2 DEF ReachInv, ResetTypeOK, AccountsKept, RequestsKept
  <2> QED BY <2>2, <2>3, ReachStep
<1> QED BY <1>1, <1>2, <1>3 DEF AccountsChange
\* A call of the sign-in page or the console is at one of its steps.
LEMMA InCall ==
  ASSUME ReachInv, NEW c \in ResetTabs, NEW at, Stands(c, at)
  PROVE  /\ resetJob[c] \in Call /\ resetJob[c].at = at /\ Answers(c, resetJob[c])
         /\ Means(resetJob[c].account, resetJob[c].name)
         /\ at \notin {"ask", "insert"} =>
              /\ resetJob[c].request \in RequestIds /\ requests[resetJob[c].request] # NoRequest
              /\ requests[resetJob[c].request].name = resetJob[c].name
BY DEF ReachInv, ResetTypeOK, Stands, Answers

LEMMA LeaveStep ==
  ASSUME ReachInv, TablesKept, NEW c \in ResetTabs, Leave(c), issued' = issued, shown' = shown
  PROVE  ReachInv'
<1>1. Answers(c, NoCall)
  BY DEF Answers
<1>2. shown' \in [ResetAdmins -> [account : AccountIds, temporary : 0..MaxIssued] \cup {NothingShown}]
  BY DEF ReachInv, ResetTypeOK
<1> QED BY <1>1, <1>2, CallStep DEF Leave, ReachInv, ResetTypeOK

\* The call goes on to a later step of its own.
LEMMA GoesOn ==
  ASSUME ReachInv, TablesKept, NEW c \in ResetTabs, NEW at, Stands(c, at),
         NEW next \in {"byName", "set", "answer", "insert"}, Step(c, next),
         at \in {"ask", "insert"} <=> next = "insert", at # "byName", next \in {"byName", "set"} => at \in {"byId", "lookup"},
         issued' = issued, shown' = shown
  PROVE  ReachInv'
<1> DEFINE call == [resetJob[c] EXCEPT !.at = next]
<1>1. call \in Call /\ call.at = next /\ call.account = resetJob[c].account
      /\ call.name = resetJob[c].name /\ call.request = resetJob[c].request
      /\ call.answer = resetJob[c].answer
  BY InCall DEF Call
<1>2. resetJob' = [resetJob EXCEPT ![c] = call]
  BY DEF Step
<1> HIDE DEF call
<1>3. Answers(c, call)
  <2>1. resetJob[c] # NoCall /\ resetJob[c].at = at /\ Answers(c, resetJob[c])
    BY InCall DEF Stands
  <2>2. call.at \in {"ask", "insert"} <=> at \in {"ask", "insert"}
    BY <1>1
  <2> QED BY <1>1, <2>1, <2>2 DEF Answers
<1> QED BY <1>1, <1>2, <1>3, CallStep DEF ReachInv, ResetTypeOK

LEMMA AskingStep == ASSUME ReachInv, NEW c \in ResetTabs, Asking(c) PROVE ReachInv'
<1> USE ResetAssumption
<1>1. ASSUME NEW i \in AccountIds, AskForReset(c, i) PROVE ReachInv'
  <2> DEFINE call == [at |-> "ask", answer |-> "none", request |-> NoId, name |-> accounts[i].name,
                      account |-> i, temporary |-> 0]
  <2>1. accounts[i] \in Account /\ i < nextAccount /\ c \notin ResetAdmins
    BY <1>1 DEF AskForReset, ReachInv, ResetTypeOK
  <2>2. call \in Call
    BY <2>1 DEF Call, Account
  <2>3. Answers(c, call)
    BY <2>1 DEF Answers, Means
  <2> HIDE DEF call
  <2> QED BY <1>1, <2>2, <2>3, CallStep DEF AskForReset, ReachInv, ResetTypeOK, call
<1>2. ASSUME LookForPending(c) PROVE ReachInv'
  <2>1. CASE Leave(c)
    BY <1>2, <2>1, LeaveStep DEF LookForPending
  <2>2. CASE Step(c, "insert")
    BY <1>2, <2>2, GoesOn DEF LookForPending
  <2> QED BY <1>2, <2>1, <2>2 DEF LookForPending
<1>3. ASSUME InsertRequest(c) PROVE ReachInv'
  <2>1. /\ Stands(c, "insert") /\ nextRequest \in RequestIds /\ Leave(c)
        /\ UNCHANGED <<accounts, nextAccount, issued, shown>>
    BY <1>3 DEF InsertRequest
  <2>2. CASE accounts[resetJob[c].account] = NoAccount
    BY <1>3, <2>1, <2>2, LeaveStep DEF InsertRequest, TablesKept
  <2>3. CASE accounts[resetJob[c].account] # NoAccount
    <3> DEFINE row == [name |-> resetJob[c].name, account |-> resetJob[c].account, status |-> "pending"]
    <3>1. row \in Request /\ Means(row.account, row.name)
      BY <2>1, InCall DEF Call, Request
    <3>2. requests' = [requests EXCEPT ![nextRequest] = row] /\ nextRequest' = nextRequest + 1
      BY <1>3, <2>3 DEF InsertRequest
    <3> HIDE DEF row
    <3>3. ResetTypeOK'
      <4>1. requests' \in [RequestIds -> Request \cup {NoRequest}]
        BY <3>1, <3>2 DEF ReachInv, ResetTypeOK
      <4>2. nextRequest' \in 1..(MaxRequests + 1)
        BY <2>1, <3>2 DEF RequestIds
      <4> QED BY <2>1, <4>1, <4>2 DEF ReachInv, ResetTypeOK, Leave
    <3>4. AccountsKept
      BY <2>1 DEF ReachInv, ResetTypeOK, AccountsKept
    <3>5. RequestsKept
      BY <2>1, <3>1, <3>2 DEF ReachInv, ResetTypeOK, RequestsKept, RequestIds
    <3>6. \A d \in ResetTabs : resetJob'[d] = resetJob[d] \/ Answers(d, resetJob'[d])
      BY <2>1 DEF Leave, Answers, ReachInv, ResetTypeOK
    <3> QED BY <3>3, <3>4, <3>5, <3>6, ReachStep
  <2> QED BY <2>2, <2>3
<1> QED BY <1>1, <1>2, <1>3 DEF Asking

LEMMA AuthoriseStep ==
  ASSUME ReachInv, NEW c \in ResetTabs, NEW r \in RequestIds, Authorise(c, r) \/ Reject(c, r)
  PROVE  ReachInv'
<1>1. /\ requests[r] \in Request /\ requests[r] # NoRequest
      /\ Means(requests[r].account, requests[r].name) /\ Means(NoId, requests[r].name)
      /\ c \in ResetAdmins
  BY MeansNone DEF Authorise, Reject, Pending, ReachInv, ResetTypeOK
<1>2. shown' \in [ResetAdmins -> [account : AccountIds, temporary : 0..MaxIssued] \cup {NothingShown}]
  BY DEF Authorise, Reject, Consumed, ReachInv, ResetTypeOK
<1>3. TablesKept /\ issued' \in 0..MaxIssued
  BY DEF Authorise, Reject, ReachInv, ResetTypeOK
<1>4. CASE Authorise(c, r)
  <2> DEFINE call == [at |-> IF requests[r].account = NoId THEN "byName" ELSE "byId",
                      answer |-> "fulfilled", request |-> r, name |-> requests[r].name,
                      account |-> requests[r].account, temporary |-> 0]
  <2>1. call \in Call
    BY <1>1, ResetAssumption DEF Call, Request
  <2>2. Answers(c, call)
    BY <1>1 DEF Answers
  <2>3. resetJob' = [resetJob EXCEPT ![c] = call]
    BY <1>4 DEF Authorise
  <2> HIDE DEF call
  <2> QED BY <1>2, <1>3, <2>1, <2>2, <2>3, CallStep
<1>5. CASE Reject(c, r)
  <2> DEFINE call == [at |-> "resolve", answer |-> "rejected", request |-> r,
                      name |-> requests[r].name, account |-> NoId, temporary |-> 0]
  <2>1. call \in Call
    BY <1>1, ResetAssumption DEF Call, Request
  <2>2. Answers(c, call)
    BY <1>1 DEF Answers
  <2>3. resetJob' = [resetJob EXCEPT ![c] = call]
    BY <1>5 DEF Reject
  <2> HIDE DEF call
  <2> QED BY <1>2, <1>3, <2>1, <2>2, <2>3, CallStep
<1> QED BY <1>4, <1>5

\* An account is found by its id, or else by the name of the request.
LEMMA FindStep ==
  ASSUME ReachInv, NEW c \in ResetTabs, FindById(c) \/ FindByName(c)
  PROVE  ReachInv'
<1>1. PICK at \in {"byId", "byName"} : Stands(c, at)
  BY DEF FindById, FindByName
<1>2. TablesKept /\ shown' = shown
  BY DEF FindById, FindByName
<1>3. CASE Stands(c, "byId") /\ Step(c, "byName") /\ issued' = issued
  BY <1>2, <1>3, GoesOn
<1>4. CASE Leave(c) /\ issued' = issued
  BY <1>2, <1>4, LeaveStep
<1>5. ASSUME NEW i \in AccountIds, Means(i, resetJob[c].name), issued < MaxIssued,
             issued' = issued + 1,
             resetJob' = [resetJob EXCEPT ![c] =
               [resetJob[c] EXCEPT !.at = "lookup", !.account = i, !.temporary = issued + 1]]
      PROVE  ReachInv'
  <2> DEFINE call == [resetJob[c] EXCEPT !.at = "lookup", !.account = i, !.temporary = issued + 1]
  <2>1. issued + 1 \in 0..MaxIssued
    BY <1>5, ResetAssumption DEF ReachInv, ResetTypeOK
  <2>2. /\ call \in Call /\ call.at = "lookup" /\ call.account = i
        /\ call.name = resetJob[c].name /\ call.request = resetJob[c].request
        /\ call.answer = resetJob[c].answer
    BY <1>1, <2>1, InCall DEF Call
  <2>3. resetJob' = [resetJob EXCEPT ![c] = call] /\ issued' \in 0..MaxIssued
    BY <1>5, <2>1
  <2> HIDE DEF call
  <2>4. /\ resetJob[c] # NoCall /\ resetJob[c].at \in {"byId", "byName"}
        /\ Answers(c, resetJob[c]) /\ i # NoId
    BY <1>1, InCall DEF Stands, AccountIds, NoId
  <2>5. Answers(c, call)
    BY <1>5, <2>2, <2>4 DEF Answers
  <2> QED BY <1>2, <2>2, <2>3, <2>5, CallStep DEF ReachInv, ResetTypeOK
<1>6. CASE FindById(c)
  <2>1. CASE accounts[resetJob[c].account] = NoAccount
    BY <1>3, <1>6, <2>1 DEF FindById
  <2>2. CASE accounts[resetJob[c].account] # NoAccount
    <3>1. /\ resetJob[c].account \in AccountIds /\ resetJob[c] \in Call
          /\ Means(resetJob[c].account, resetJob[c].name)
      <4>1. Stands(c, "byId") /\ resetJob[c] # NoCall
        BY <1>6 DEF FindById, Stands
      <4> QED BY <4>1, InCall DEF Call, Answers
    <3>2. [resetJob[c] EXCEPT !.at = "lookup", !.temporary = issued + 1] =
            [resetJob[c] EXCEPT !.at = "lookup", !.account = resetJob[c].account, !.temporary = issued + 1]
      BY <3>1 DEF Call
    <3>3. /\ issued < MaxIssued /\ issued' = issued + 1
          /\ resetJob' = [resetJob EXCEPT ![c] =
               [resetJob[c] EXCEPT !.at = "lookup", !.temporary = issued + 1]]
      BY <1>6, <2>2 DEF FindById
    <3> QED BY <1>5, <3>1, <3>2, <3>3
  <2> QED BY <2>1, <2>2
<1>7. CASE FindByName(c)
  <2>1. CASE Leave(c) /\ issued' = issued
    BY <1>4, <2>1
  <2>2. CASE ~(Leave(c) /\ issued' = issued)
    <3>1. PICK i \in Named(resetJob[c].name) :
            /\ issued < MaxIssued /\ issued' = issued + 1
            /\ resetJob' = [resetJob EXCEPT ![c].at = "lookup", ![c].account = i,
                                            ![c].temporary = issued + 1]
      BY <1>7, <2>2 DEF FindByName
    <3>2. i \in AccountIds /\ Means(i, resetJob[c].name)
      BY DEF Named, Accounts, Means, ReachInv
    <3>3. resetJob' = [resetJob EXCEPT ![c] =
            [resetJob[c] EXCEPT !.at = "lookup", !.account = i, !.temporary = issued + 1]]
      BY <3>1
    <3> QED BY <1>5, <3>1, <3>2, <3>3
  <2> QED BY <2>1, <2>2
<1> QED BY <1>6, <1>7

LEMMA SetStep ==
  ASSUME ReachInv, NEW c \in ResetTabs, SetTemporary(c)
  PROVE  ReachInv'
<1> DEFINE i == resetJob[c].account
           call == [resetJob[c] EXCEPT !.at = "resolve"]
<1>1. /\ resetJob[c] \in Call /\ resetJob[c] # NoCall /\ Answers(c, resetJob[c]) /\ resetJob[c].at = "set"
      /\ resetJob[c].temporary \in 0..MaxIssued
  BY InCall DEF SetTemporary, Stands, Call
<1>2. /\ call \in Call /\ call.at = "resolve" /\ call.account = resetJob[c].account
      /\ call.name = resetJob[c].name /\ call.request = resetJob[c].request
      /\ call.answer = resetJob[c].answer
  BY <1>1 DEF Call
<1>3. /\ resetJob' = [resetJob EXCEPT ![c] = call]
      /\ UNCHANGED <<nextAccount, requests, nextRequest, issued, shown>>
      /\ accounts' = IF accounts[i] = NoAccount THEN accounts
                     ELSE [accounts EXCEPT ![i].password = resetJob[c].temporary]
  BY DEF SetTemporary, Step
<1> HIDE DEF call
<1>4. Answers(c, call)
  BY <1>1, <1>2 DEF Answers
<1>5. /\ accounts' \in [AccountIds -> Account \cup {NoAccount}]
      /\ \A k \in AccountIds :
           accounts'[k] # NoAccount => accounts[k] # NoAccount /\ accounts'[k].name = accounts[k].name
  <2>1. CASE accounts[i] = NoAccount
    BY <1>3, <2>1 DEF ReachInv, ResetTypeOK
  <2>2. CASE accounts[i] # NoAccount
    <3> DEFINE row == [accounts[i] EXCEPT !.password = resetJob[c].temporary]
    <3>1. accounts' = [accounts EXCEPT ![i] = row]
      BY <1>3, <2>2
    <3>2. i \in AccountIds => row \in Account /\ row.name = accounts[i].name
      <4> SUFFICES ASSUME i \in AccountIds PROVE row \in Account /\ row.name = accounts[i].name
        OBVIOUS
      <4>1. accounts[i] \in Account
        BY <2>2 DEF ReachInv, ResetTypeOK
      <4> QED BY <1>1, <4>1, AccountChanges
    <3> HIDE DEF row, i
    <3> QED BY <2>2, <3>1, <3>2 DEF ReachInv, ResetTypeOK
  <2> QED BY <2>1, <2>2
<1>6. ResetTypeOK'
  BY <1>2, <1>3, <1>5 DEF ReachInv, ResetTypeOK
<1>7. AccountsKept /\ RequestsKept
  BY <1>3, <1>5 DEF AccountsKept, RequestsKept, ReachInv, ResetTypeOK
<1>8. \A d \in ResetTabs : resetJob'[d] = resetJob[d] \/ Answers(d, resetJob'[d])
  BY <1>3, <1>4 DEF ReachInv, ResetTypeOK
<1> QED BY <1>6, <1>7, <1>8, ReachStep
LEMMA ResolveStep ==
  ASSUME ReachInv, NEW c \in ResetTabs, LookUpAccount(c) \/ CheckPending(c) \/ ShowTemporary(c)
  PROVE  ReachInv'
<1>1. CASE LookUpAccount(c)
  <2>1. CASE Leave(c)
    BY <1>1, <2>1, LeaveStep DEF LookUpAccount
  <2>2. CASE Step(c, "set")
    BY <1>1, <2>2, GoesOn DEF LookUpAccount
  <2> QED BY <1>1, <2>1, <2>2 DEF LookUpAccount
<1>2. CASE CheckPending(c)
  <2>1. CASE Leave(c)
    BY <1>2, <2>1, LeaveStep DEF CheckPending
  <2>2. CASE Step(c, "answer")
    BY <1>2, <2>2, GoesOn DEF CheckPending
  <2> QED BY <1>2, <2>1, <2>2 DEF CheckPending
<1>3. CASE ShowTemporary(c)
  <2>1. /\ TablesKept /\ Leave(c) /\ issued' = issued
        /\ Stands(c, "show") /\ resetJob[c] # NoCall
    BY <1>3 DEF ShowTemporary, Stands
  <2>2. Answers(c, NoCall) /\ issued \in 0..MaxIssued
    BY DEF Answers, ReachInv, ResetTypeOK
  <2>3. resetJob[c].account \in AccountIds /\ resetJob[c].temporary \in 0..MaxIssued
    BY <2>1, InCall DEF Answers, Call
  <2>4. shown' \in [ResetAdmins -> [account : AccountIds, temporary : 0..MaxIssued] \cup {NothingShown}]
    BY <1>3, <2>3 DEF ShowTemporary, ReachInv, ResetTypeOK
  <2> QED BY <2>1, <2>2, <2>4, CallStep DEF Leave, ReachInv, ResetTypeOK
<1> QED BY <1>1, <1>2, <1>3

LEMMA AnswerStep ==
  ASSUME ReachInv, NEW c \in ResetTabs, AnswerRequest(c)
  PROVE  ReachInv'
<1> DEFINE r == resetJob[c].request
           row == [requests[r] EXCEPT !.status = resetJob[c].answer]
           call == [resetJob[c] EXCEPT !.at = "show"]
<1>1. /\ resetJob[c] \in Call /\ resetJob[c] # NoCall /\ Answers(c, resetJob[c])
      /\ resetJob[c].at = "answer" /\ r \in RequestIds /\ requests[r] \in Request
      /\ resetJob[c].answer \in {"fulfilled", "rejected"}
  BY InCall DEF AnswerRequest, Stands, ReachInv, ResetTypeOK, Answers
<1>2. /\ call \in Call /\ call.at = "show" /\ call.account = resetJob[c].account
      /\ call.name = resetJob[c].name /\ call.request = resetJob[c].request
      /\ call.answer = resetJob[c].answer
  BY <1>1 DEF Call
<1>3. row \in Request /\ row.name = requests[r].name /\ row.account = requests[r].account
  BY <1>1 DEF Request
<1>4. /\ requests' = [requests EXCEPT ![r] = row]
      /\ UNCHANGED <<accounts, nextAccount, nextRequest, issued, shown>>
      /\ IF resetJob[c].answer = "fulfilled"
         THEN resetJob' = [resetJob EXCEPT ![c] = call]
         ELSE resetJob' = [resetJob EXCEPT ![c] = NoCall]
  BY DEF AnswerRequest, Step, Leave
<1> HIDE DEF row, call, r
<1>5. Answers(c, NoCall) /\ (resetJob[c].answer = "fulfilled" => Answers(c, call))
  BY <1>1, <1>2 DEF Answers
<1>6. ResetTypeOK'
  BY <1>1, <1>2, <1>3, <1>4 DEF ReachInv, ResetTypeOK
<1>7. AccountsKept
  BY <1>4 DEF AccountsKept, ReachInv, ResetTypeOK
<1>8. RequestsKept
  <2>1. row # NoRequest /\ requests[r] # NoRequest
    BY <1>1, <1>3, ResetAssumption
  <2> QED BY <1>1, <1>3, <1>4, <2>1 DEF RequestsKept, ReachInv, ResetTypeOK
<1>9. \A d \in ResetTabs : resetJob'[d] = resetJob[d] \/ Answers(d, resetJob'[d])
  BY <1>4, <1>5 DEF ReachInv, ResetTypeOK
<1> QED BY <1>6, <1>7, <1>8, <1>9, ReachStep

LEMMA ReachInvStep == ReachInv /\ [ResetNext]_resetVars => ReachInv'
<1> SUFFICES ASSUME ReachInv, [ResetNext]_resetVars PROVE ReachInv'
  OBVIOUS
<1>1. ASSUME NEW c \in ResetTabs, Asking(c) PROVE ReachInv'
  BY <1>1, AskingStep
<1>2. ASSUME NEW c \in ResetTabs, Answering(c) PROVE ReachInv'
  BY <1>2, AuthoriseStep, FindStep, SetStep, ResolveStep, AnswerStep DEF Answering
<1>3. ASSUME NEW c \in ResetTabs, Abandon(c) PROVE ReachInv'
  BY <1>3, LeaveStep DEF Abandon
<1>4. CASE AccountsChange
  BY <1>4, AccountsStep
<1>5. CASE UNCHANGED resetVars
  BY <1>5 DEF resetVars, ReachInv, ResetTypeOK, Answers, Means
<1> QED BY <1>1, <1>2, <1>3, <1>4, <1>5 DEF ResetNext

\* An authorised request replaces the password of an account that has the name
\* the request shows, or of none (_handle_authorize_reset_request), whatever is
\* deleted and created between its transactions.
THEOREM ResetsReachTheirName == ResetSpec => []ResetReachesItsName
<1>1. ReachInv => ResetReachesItsName
  BY DEF ReachInv, ResetReachesItsName, Answers, Means, Accounts, ResetTabs
<1> QED BY <1>1, ReachInvInit, ReachInvStep, PTL DEF ResetSpec

\* Accounts, requests and the calls of the tabs keep their types.
THEOREM ResetsTyped == ResetSpec => []ResetTypeOK
<1>1. ReachInv => ResetTypeOK
  BY DEF ReachInv
<1> QED BY <1>1, ReachInvInit, ReachInvStep, PTL DEF ResetSpec
----------------------------------------------------------------------------
(* The password that is shown                                              *)

\* One administrator answers requests.
OneAnswers == \A a, b \in ResetAdmins : a = b

\* The new password is stored; the console will show it.
HasSet(c) ==
  /\ resetJob[c] # NoCall /\ resetJob[c].at \in {"resolve", "answer", "show"}
  /\ resetJob[c].answer = "fulfilled"

Opens(i, temporary) == i \in Accounts => accounts[i].password \in {0, temporary}

\* Nothing is shown while the next request is being answered, and from the
\* moment a password is stored until it is shown it opens the account.
ShownInv ==
  /\ ReachInv
  /\ \A c \in ResetTabs : resetJob[c] # NoCall /\ resetJob[c].at \notin {"ask", "insert"} => c \in ResetAdmins
  /\ \A c \in ResetAdmins :
       /\ shown[c] # NothingShown => resetJob[c] = NoCall /\ Opens(shown[c].account, shown[c].temporary)
       /\ HasSet(c) => Opens(resetJob[c].account, resetJob[c].temporary)

LEMMA ShownInvInit == ResetInit => ShownInv
<1> SUFFICES ASSUME ResetInit PROVE ShownInv
  OBVIOUS
<1>1. ReachInv
  BY ReachInvInit
<1> QED BY <1>1, ResetAssumption DEF ResetInit, ShownInv, HasSet, ResetTabs

\* Passwords change to ones their owners chose.
PasswordsKept ==
  \A i \in AccountIds : accounts'[i] # NoAccount =>
    \/ accounts'[i].password = 0
    \/ accounts[i] # NoAccount /\ accounts'[i].password = accounts[i].password

OpensNext(i, temporary) ==
  i \in AccountIds /\ accounts'[i] # NoAccount => accounts'[i].password \in {0, temporary}

\* A temporary password goes on opening its account while passwords only change to 0.
LEMMA OpensKept ==
  ASSUME PasswordsKept, NEW i, NEW temporary, Opens(i, temporary)
  PROVE  OpensNext(i, temporary)
BY DEF PasswordsKept, Opens, OpensNext, Accounts

\* A tab that stores no password.
LEMMA ShownStep ==
  ASSUME OneAnswers, ShownInv, ReachInv', PasswordsKept, NEW c \in ResetTabs,
         \A d \in ResetTabs \ {c} : resetJob'[d] = resetJob[d],
         resetJob'[c] # NoCall /\ resetJob'[c].at \notin {"ask", "insert"} => c \in ResetAdmins,
         \A d \in ResetAdmins \ {c} : shown'[d] = shown[d],
         c \in ResetAdmins /\ shown'[c] # NothingShown =>
           /\ resetJob'[c] = NoCall
           /\ \/ shown'[c] = shown[c]
              \/ HasSet(c) /\ shown'[c] = [account |-> resetJob[c].account, temporary |-> resetJob[c].temporary],
         HasSet(c)' => /\ HasSet(c) /\ resetJob'[c].account = resetJob[c].account
                       /\ resetJob'[c].temporary = resetJob[c].temporary
  PROVE  ShownInv'
<1>1. ASSUME NEW d \in ResetTabs, resetJob'[d] # NoCall, resetJob'[d].at \notin {"ask", "insert"}
      PROVE  d \in ResetAdmins
  BY <1>1 DEF ShownInv
<1>2. ASSUME NEW d \in ResetAdmins, shown'[d] # NothingShown
      PROVE  resetJob'[d] = NoCall /\ OpensNext(shown'[d].account, shown'[d].temporary)
  <2>1. CASE d = c
    <3>1. d \in ResetAdmins /\ resetJob'[c] = NoCall
      BY <1>2, <2>1
    <3>2. Opens(shown'[c].account, shown'[c].temporary)
      <4>1. CASE shown'[c] = shown[c]
        BY <1>2, <2>1, <4>1 DEF ShownInv
      <4>2. CASE HasSet(c) /\ shown'[c] = [account |-> resetJob[c].account, temporary |-> resetJob[c].temporary]
        <5>1. Opens(resetJob[c].account, resetJob[c].temporary)
          BY <2>1, <4>2 DEF ShownInv
        <5>2. shown'[c].account = resetJob[c].account /\ shown'[c].temporary = resetJob[c].temporary
          BY <4>2
        <5> QED BY <5>1, <5>2
      <4> QED BY <1>2, <2>1, <4>1, <4>2
    <3> QED BY <2>1, <3>1, <3>2, OpensKept
  <2>2. CASE d # c
    <3>1. d \in ResetTabs /\ resetJob'[d] = resetJob[d] /\ shown'[d] = shown[d]
      BY <1>2, <2>2 DEF ResetTabs
    <3>2. resetJob'[d] = NoCall /\ Opens(shown'[d].account, shown'[d].temporary)
      BY <1>2, <3>1 DEF ShownInv
    <3> QED BY <3>2, OpensKept
  <2> QED BY <2>1, <2>2
<1>3. ASSUME NEW d \in ResetAdmins, HasSet(d)'
      PROVE  OpensNext(resetJob'[d].account, resetJob'[d].temporary)
  <2>1. d \in ResetTabs
    BY DEF ResetTabs
  <2>2. HasSet(d) /\ resetJob'[d].account = resetJob[d].account
                  /\ resetJob'[d].temporary = resetJob[d].temporary
    BY <1>3, <2>1 DEF HasSet
  <2>3. Opens(resetJob'[d].account, resetJob'[d].temporary)
    BY <2>2 DEF ShownInv
  <2> QED BY <2>3, OpensKept
<1> QED BY <1>1, <1>2, <1>3 DEF ShownInv, Opens, OpensNext, HasSet, Accounts

\* A call that ends, or begins, and shows nothing.
LEMMA ShownMove ==
  ASSUME OneAnswers, ShownInv, ReachInv', NEW c \in ResetTabs, NEW call,
         PasswordsKept,
         resetJob' = [resetJob EXCEPT ![c] = call],
         shown' = shown \/ (c \in ResetAdmins /\ shown' = [shown EXCEPT ![c] = NothingShown]),
         resetJob[c] # NoCall \/ shown' # shown \/ c \notin ResetAdmins,
         call # NoCall /\ call.at \notin {"ask", "insert"} => c \in ResetAdmins,
         call # NoCall /\ call.at \in {"resolve", "answer", "show"} /\ call.answer = "fulfilled" =>
           /\ HasSet(c) /\ call.account = resetJob[c].account
           /\ call.temporary = resetJob[c].temporary
  PROVE  ShownInv'
<1>1. ResetTypeOK
  BY DEF ShownInv, ReachInv
<1>2. resetJob'[c] = call /\ \A d \in ResetTabs \ {c} : resetJob'[d] = resetJob[d]
  BY <1>1 DEF ResetTypeOK
<1>3. \A d \in ResetAdmins \ {c} : shown'[d] = shown[d]
  BY <1>1 DEF ResetTypeOK
<1>4. c \in ResetAdmins => shown'[c] = NothingShown
  BY <1>1 DEF ResetTypeOK, ShownInv
<1>5. HasSet(c)' => /\ HasSet(c) /\ resetJob'[c].account = resetJob[c].account
                    /\ resetJob'[c].temporary = resetJob[c].temporary
  BY <1>2 DEF HasSet
<1> QED BY <1>2, <1>3, <1>4, <1>5, ShownStep

\* Its next step, with the answer and the account it has.
LEMMA ShownGoesOn ==
  ASSUME OneAnswers, ShownInv, ReachInv', NEW c \in ResetTabs, NEW at,
         PasswordsKept, resetJob[c] # NoCall,
         resetJob[c].at \notin {"ask", "insert"} \/ at \in {"ask", "insert"},
         at \in {"resolve", "answer", "show"} =>
           resetJob[c].at \in {"resolve", "answer", "show"} \/ resetJob[c].answer # "fulfilled",
         Step(c, at), shown' = shown
  PROVE  ShownInv'
<1> DEFINE call == [resetJob[c] EXCEPT !.at = at]
<1>1. resetJob[c] \in Call
  BY DEF ShownInv, ReachInv, ResetTypeOK
<1>2. /\ call.at = at /\ call.answer = resetJob[c].answer
      /\ call.account = resetJob[c].account /\ call.temporary = resetJob[c].temporary
  BY <1>1 DEF Call
<1>3. resetJob' = [resetJob EXCEPT ![c] = call]
  BY DEF Step
<1> HIDE DEF call
<1>4. call # NoCall /\ call.at \notin {"ask", "insert"} => c \in ResetAdmins
  BY <1>2 DEF ShownInv
<1>5. call # NoCall /\ call.at \in {"resolve", "answer", "show"} /\ call.answer = "fulfilled" => HasSet(c)
  BY <1>2 DEF HasSet
<1> QED BY <1>2, <1>3, <1>4, <1>5, ShownMove

LEMMA ShownLeaves ==
  ASSUME OneAnswers, ShownInv, ReachInv', NEW c \in ResetTabs, PasswordsKept,
         resetJob[c] # NoCall, Leave(c), shown' = shown
  PROVE  ShownInv'
BY ShownMove DEF Leave

\* The new password reaches the table; no other tab is answering a request.
LEMMA ShownSet ==
  ASSUME OneAnswers, ShownInv, ReachInv', NEW c \in ResetTabs, SetTemporary(c)
  PROVE  ShownInv'
<1> DEFINE i == resetJob[c].account
           call == [resetJob[c] EXCEPT !.at = "resolve"]
<1>0. ReachInv /\ ResetTypeOK /\ resetJob[c] # NoCall /\ resetJob[c].at = "set" /\ c \in ResetAdmins
  BY DEF ShownInv, ReachInv, SetTemporary, Stands
<1>1. /\ ResetTypeOK /\ resetJob[c] # NoCall /\ resetJob[c].at = "set" /\ resetJob[c] \in Call
      /\ i \in AccountIds /\ c \in ResetAdmins
  <2>1. resetJob[c] \in Call /\ Answers(c, resetJob[c])
    BY <1>0 DEF ReachInv, ResetTypeOK
  <2>2. i \in AccountIds \cup {NoId} /\ i # NoId
    BY <1>0, <2>1 DEF Answers, Call
  <2> QED BY <1>0, <2>1, <2>2
<1>2. call.account = i /\ call.temporary = resetJob[c].temporary /\ call.at = "resolve"
  BY <1>1 DEF Call
<1>3. resetJob' = [resetJob EXCEPT ![c] = call] /\ shown' = shown
  BY DEF SetTemporary, Step
<1> HIDE DEF call
<1>4. \A d \in ResetAdmins : d = c
  BY <1>1 DEF OneAnswers
<1>5. shown'[c] = NothingShown /\ resetJob'[c] = call
  BY <1>1, <1>3 DEF ShownInv, ResetTypeOK
<1>6. OpensNext(i, resetJob[c].temporary)
  <2>1. CASE accounts[i] = NoAccount
    BY <2>1 DEF SetTemporary, OpensNext
  <2>2. CASE accounts[i] # NoAccount
    <3>1. accounts[i] \in Account /\ i \in DOMAIN accounts
      BY <1>1, <2>2 DEF ResetTypeOK
    <3>2. accounts' = [accounts EXCEPT ![i] = [accounts[i] EXCEPT !.password = resetJob[c].temporary]]
      BY <2>2 DEF SetTemporary
    <3>3. [accounts[i] EXCEPT !.password = resetJob[c].temporary].password = resetJob[c].temporary
      BY <3>1 DEF Account
    <3> QED BY <3>1, <3>2, <3>3 DEF OpensNext
  <2> QED BY <2>1, <2>2
<1>7. ASSUME NEW d \in ResetTabs, resetJob'[d] # NoCall, resetJob'[d].at \notin {"ask", "insert"}
      PROVE  d \in ResetAdmins
  BY <1>1, <1>3, <1>7 DEF ShownInv, ResetTypeOK
<1> QED BY <1>2, <1>4, <1>5, <1>6, <1>7 DEF ShownInv, Opens, OpensNext, HasSet, Accounts

\* What is done to accounts meanwhile sets no temporary password.
LEMMA AccountsChangePasswords ==
  ASSUME ResetTypeOK, AccountsChange
  PROVE  PasswordsKept /\ resetJob' = resetJob /\ shown' = shown
<1>1. ASSUME NEW name \in AccountNames, NEW pending \in BOOLEAN, NewAccount(name, pending)
      PROVE  PasswordsKept
  BY <1>1 DEF NewAccount, PasswordsKept, ResetTypeOK, FreshAccount
<1>2. ASSUME NEW i \in AccountIds, RemoveAccount(i) PROVE PasswordsKept
  BY <1>2 DEF RemoveAccount, PasswordsKept, ResetTypeOK
<1>3. ASSUME NEW i \in AccountIds, ApproveAccount(i) PROVE PasswordsKept
  BY <1>3 DEF ApproveAccount, PasswordsKept, ResetTypeOK, Account
<1>4. ASSUME NEW i \in AccountIds, OwnerChanges(i) PROVE PasswordsKept
  BY <1>4 DEF OwnerChanges, PasswordsKept, ResetTypeOK, Account
<1>5. resetJob' = resetJob /\ shown' = shown
  BY DEF AccountsChange, NewAccount, RemoveAccount, ApproveAccount, OwnerChanges
<1> QED BY <1>1, <1>2, <1>3, <1>4, <1>5 DEF AccountsChange

LEMMA ShownAuthorise ==
  ASSUME OneAnswers, ShownInv, ReachInv', NEW c \in ResetTabs, NEW r \in RequestIds,
         Authorise(c, r) \/ Reject(c, r)
  PROVE  ShownInv'
<1>1. ResetTypeOK /\ PasswordsKept
  BY DEF ShownInv, ReachInv, Authorise, Reject, TablesKept, PasswordsKept
<1>2. c \in ResetAdmins /\ Consumed(c)
  BY DEF Authorise, Reject
<1>3. PICK call :
        /\ resetJob' = [resetJob EXCEPT ![c] = call]
        /\ call.at \notin {"resolve", "answer", "show"} \/ call.answer # "fulfilled"
  <2>1. CASE Authorise(c, r)
    <3> DEFINE call == [at |-> IF requests[r].account = NoId THEN "byName" ELSE "byId",
                        answer |-> "fulfilled", request |-> r, name |-> requests[r].name,
                        account |-> requests[r].account, temporary |-> 0]
    <3>1. resetJob' = [resetJob EXCEPT ![c] = call] /\ call.at \notin {"resolve", "answer", "show"}
      BY <2>1 DEF Authorise
    <3> QED BY <3>1
  <2>2. CASE Reject(c, r)
    <3> DEFINE call == [at |-> "resolve", answer |-> "rejected", request |-> r,
                        name |-> requests[r].name, account |-> NoId, temporary |-> 0]
    <3>1. resetJob' = [resetJob EXCEPT ![c] = call] /\ call.answer # "fulfilled"
      BY <2>2 DEF Reject
    <3> QED BY <3>1
  <2> QED BY <2>1, <2>2
<1>4. /\ resetJob'[c] = call /\ shown'[c] = NothingShown
      /\ \A d \in ResetTabs \ {c} : resetJob'[d] = resetJob[d]
      /\ \A d \in ResetAdmins \ {c} : shown'[d] = shown[d]
  BY <1>1, <1>2, <1>3 DEF ResetTypeOK, Consumed
<1>5. ~HasSet(c)'
  BY <1>3, <1>4 DEF HasSet
<1> QED BY <1>1, <1>2, <1>4, <1>5, ShownStep

LEMMA ShownFind ==
  ASSUME OneAnswers, ShownInv, ReachInv', NEW c \in ResetTabs,
         FindById(c) \/ FindByName(c) \/ LookUpAccount(c)
  PROVE  ShownInv'
<1>1. /\ ResetTypeOK /\ PasswordsKept /\ shown' = shown /\ resetJob[c] # NoCall
      /\ resetJob[c].at \in {"byId", "byName", "lookup"} /\ c \in ResetAdmins /\ resetJob[c] \in Call
  BY DEF ShownInv, ReachInv, ResetTypeOK, FindById, FindByName, LookUpAccount, Stands, TablesKept, PasswordsKept
<1>2. PICK call :
        /\ resetJob' = [resetJob EXCEPT ![c] = call]
        /\ call = NoCall \/ call.at \in {"byName", "lookup", "set"}
  <2>1. CASE Leave(c)
    BY <2>1 DEF Leave
  <2>2. ASSUME NEW at \in {"byName", "set"}, Step(c, at)
        PROVE  \E call : /\ resetJob' = [resetJob EXCEPT ![c] = call]
                         /\ call = NoCall \/ call.at \in {"byName", "lookup", "set"}
    <3>1. [resetJob[c] EXCEPT !.at = at].at = at
      BY <1>1 DEF Call
    <3> QED BY <2>2, <3>1 DEF Step
  <2>3. ASSUME resetJob' = [resetJob EXCEPT ![c].at = "lookup", ![c].temporary = issued + 1]
        PROVE  \E call : /\ resetJob' = [resetJob EXCEPT ![c] = call]
                         /\ call = NoCall \/ call.at \in {"byName", "lookup", "set"}
    <3>1. [resetJob[c] EXCEPT !.at = "lookup", !.temporary = issued + 1].at = "lookup"
      BY <1>1 DEF Call
    <3> QED BY <2>3, <3>1
  <2>4. ASSUME NEW i, resetJob' = [resetJob EXCEPT ![c].at = "lookup", ![c].account = i,
                                                   ![c].temporary = issued + 1]
        PROVE  \E call : /\ resetJob' = [resetJob EXCEPT ![c] = call]
                         /\ call = NoCall \/ call.at \in {"byName", "lookup", "set"}
    <3>1. [resetJob[c] EXCEPT !.at = "lookup", !.account = i, !.temporary = issued + 1].at = "lookup"
      BY <1>1 DEF Call
    <3> QED BY <2>4, <3>1
  <2> QED BY <2>1, <2>2, <2>3, <2>4 DEF FindById, FindByName, LookUpAccount
<1> QED BY <1>1, <1>2, ShownMove

LEMMA ShownResolve ==
  ASSUME OneAnswers, ShownInv, ReachInv', NEW c \in ResetTabs,
         CheckPending(c) \/ AnswerRequest(c) \/ ShowTemporary(c)
  PROVE  ShownInv'
<1>1. /\ ResetTypeOK /\ PasswordsKept /\ resetJob[c] # NoCall /\ c \in ResetAdmins
      /\ resetJob[c].at \in {"resolve", "answer", "show"}
  BY DEF ShownInv, ReachInv, ResetTypeOK, CheckPending, AnswerRequest, ShowTemporary, Stands, TablesKept,
         PasswordsKept
<1>2. CASE shown' = shown /\ Leave(c)
  BY <1>1, <1>2, ShownLeaves
<1>3. ASSUME NEW at \in {"answer", "show"}, shown' = shown, Step(c, at) PROVE ShownInv'
  BY <1>1, <1>3, ShownGoesOn
<1>4. CASE ShowTemporary(c)
  <2>1. /\ HasSet(c) /\ resetJob[c].at = "show"
    BY <1>1, <1>4, InCall DEF ShowTemporary, Stands, HasSet, Answers, ShownInv
  <2>2. /\ shown'[c] = [account |-> resetJob[c].account, temporary |-> resetJob[c].temporary]
        /\ \A d \in ResetAdmins \ {c} : shown'[d] = shown[d]
        /\ resetJob'[c] = NoCall
        /\ \A d \in ResetTabs \ {c} : resetJob'[d] = resetJob[d]
    BY <1>1, <1>4 DEF ShowTemporary, Leave, ResetTypeOK
  <2>3. ~HasSet(c)'
    BY <2>2 DEF HasSet
  <2> QED BY <1>1, <2>1, <2>2, <2>3, ShownStep
<1> QED BY <1>2, <1>3, <1>4 DEF CheckPending, AnswerRequest

LEMMA ShownAsking ==
  ASSUME OneAnswers, ShownInv, ReachInv', NEW c \in ResetTabs, Asking(c)
  PROVE  ShownInv'
<1>1. ResetTypeOK /\ PasswordsKept /\ shown' = shown
  BY DEF ShownInv, ReachInv, Asking, AskForReset, LookForPending, InsertRequest, TablesKept, PasswordsKept
<1>2. ASSUME NEW i \in AccountIds, AskForReset(c, i) PROVE ShownInv'
  <2>1. c \notin ResetAdmins
    BY <1>2, ResetAssumption DEF AskForReset
  <2> DEFINE call == [at |-> "ask", answer |-> "none", request |-> NoId, name |-> accounts[i].name,
                      account |-> i, temporary |-> 0]
  <2>2. call.at = "ask" /\ resetJob' = [resetJob EXCEPT ![c] = call]
    BY <1>2 DEF AskForReset
  <2> HIDE DEF call
  <2> QED BY <1>1, <2>1, <2>2, ShownMove
<1>3. CASE LookForPending(c)
  <2>1. resetJob[c] # NoCall /\ resetJob[c].at = "ask"
    BY <1>3 DEF LookForPending, Stands
  <2>2. CASE Leave(c)
    BY <1>1, <2>1, <2>2, ShownLeaves
  <2>3. CASE Step(c, "insert")
    BY <1>1, <2>1, <2>3, ShownGoesOn
  <2> QED BY <1>3, <2>2, <2>3 DEF LookForPending
<1>4. CASE InsertRequest(c)
  BY <1>1, <1>4, ShownLeaves DEF InsertRequest, Stands
<1> QED BY <1>2, <1>3, <1>4 DEF Asking

LEMMA ShownInvNext == OneAnswers /\ ShownInv /\ [ResetNext]_resetVars => ShownInv'
<1> SUFFICES ASSUME OneAnswers, ShownInv, [ResetNext]_resetVars PROVE ShownInv'
  OBVIOUS
<1>1. ReachInv /\ ReachInv' /\ ResetTypeOK
  BY ReachInvStep DEF ShownInv, ReachInv
<1>2. ASSUME NEW c \in ResetTabs, Asking(c) PROVE ShownInv'
  BY <1>1, <1>2, ShownAsking
<1>3. ASSUME NEW c \in ResetTabs, Answering(c) PROVE ShownInv'
  BY <1>1, <1>3, ShownAuthorise, ShownFind, ShownSet, ShownResolve DEF Answering
<1>4. ASSUME NEW c \in ResetTabs, Abandon(c) PROVE ShownInv'
  BY <1>1, <1>4, ShownLeaves DEF Abandon, TablesKept, PasswordsKept
<1>5. CASE AccountsChange
  <2>1. PasswordsKept /\ resetJob' = resetJob /\ shown' = shown
    BY <1>1, <1>5, AccountsChangePasswords
  <2>2. \A c \in ResetAdmins :
          /\ shown[c] # NothingShown => OpensNext(shown[c].account, shown[c].temporary)
          /\ HasSet(c) => OpensNext(resetJob[c].account, resetJob[c].temporary)
    BY <2>1, OpensKept DEF ShownInv
  <2> QED BY <1>1, <2>1, <2>2 DEF ShownInv, HasSet, Opens, OpensNext, Accounts
<1>6. CASE UNCHANGED resetVars
  BY <1>1, <1>6 DEF resetVars, ShownInv, HasSet, Opens, Accounts
<1> QED BY <1>2, <1>3, <1>4, <1>5, <1>6 DEF ResetNext

\* With one administrator answering, the temporary password the console shows
\* opens its account until the owner chooses another
\* (_handle_authorize_reset_request), whatever requests were repeated, given up
\* half way or outlived by their accounts.
THEOREM ShownPasswordOpens ==
  ASSUME OneAnswers
  PROVE  ResetSpec => []ShownPasswordWorks
<1>1. ShownInv => ShownPasswordWorks
  BY DEF ShownInv, Opens, ShownPasswordWorks
<1>2. ShownInv /\ [ResetNext]_resetVars => ShownInv'
  BY ShownInvNext
<1> QED BY <1>1, <1>2, ShownInvInit, PTL DEF ResetSpec
----------------------------------------------------------------------------
(* Model policies                                                          *)

\* The policy in force is the last form or of the seed; a seeding under way
\* carries its seed, and is to write an edited policy only where it was contested.
PolicyInv ==
  /\ PolicyTypeOK
  /\ FormOrSeed
  /\ \A k \in SeededModels : edited[k] # NoPolicy =>
       edited[k].limit \in limits[k] /\ (k \in contested \/ ~Seeding(k))
  /\ \A t \in PolicyTabs :
       policyJob[t] # NoPolicyJob /\ policyJob[t].doing = "seed"
         => policyJob[t].key \in policyJob[t].left /\ OfSeed(policyJob[t].values, policyJob[t].key)

LEMMA PolicyInvInit == PolicyInit => PolicyInv
BY PolicyAssumption DEF PolicyInit, PolicyInv, PolicyTypeOK, FormOrSeed

\* A seeding or form in progress is well typed.
LEMMA JobTyped ==
  ASSUME PolicyInv, NEW t \in PolicyTabs, policyJob[t] # NoPolicyJob
  PROVE  policyJob[t] \in PolicyJob
BY DEF PolicyInv, PolicyTypeOK

\* What follows when a call goes on or ends and leaves the table alone.
LEMMA JobStep ==
  ASSUME PolicyInv, NEW t \in PolicyTabs, NEW job \in PolicyJob \cup {NoPolicyJob},
         policyJob' = [policyJob EXCEPT ![t] = job],
         job # NoPolicyJob /\ job.doing = "seed" =>
           /\ job.key \in job.left /\ OfSeed(job.values, job.key)
           /\ \A k \in job.left \ contested :
                \/ edited[k] = NoPolicy
                \/ /\ policyJob[t] # NoPolicyJob /\ policyJob[t].doing = "seed"
                   /\ k \in policyJob[t].left,
         submitted' \in 0..MaxPolicySaves,
         UNCHANGED <<policy, edited, limits, contested>>
  PROVE  PolicyInv'
<1>1. PolicyTypeOK'
  BY DEF PolicyInv, PolicyTypeOK
<1>2. \A s \in PolicyTabs : policyJob'[s] = IF s = t THEN job ELSE policyJob[s]
  BY DEF PolicyInv, PolicyTypeOK
<1>3. FormOrSeed'
  BY DEF PolicyInv, FormOrSeed, OfSeed
<1>4. ASSUME NEW k \in SeededModels, edited[k] # NoPolicy
      PROVE  edited[k].limit \in limits[k] /\ (k \in contested \/ ~Seeding(k)')
  BY <1>2, <1>4 DEF PolicyInv, Seeding
<1>5. ASSUME NEW s \in PolicyTabs, policyJob'[s] # NoPolicyJob, policyJob'[s].doing = "seed"
      PROVE  policyJob'[s].key \in policyJob'[s].left /\ OfSeed(policyJob[s].values, policyJob[s].key)'
  BY <1>2, <1>5 DEF PolicyInv, OfSeed
<1> QED BY <1>1, <1>3, <1>4, <1>5 DEF PolicyInv

LEMMA BeginStep ==
  ASSUME PolicyInv, NEW t \in PolicyTabs, BeginSeeding(t)
  PROVE  PolicyInv'
<1>1. PICK k \in Unseeded :
        policyJob' = [policyJob EXCEPT ![t] =
          [doing |-> "seed", at |-> "read", left |-> Unseeded, key |-> k, values |-> Seeds[k]]]
  BY DEF BeginSeeding
<1> DEFINE job == [doing |-> "seed", at |-> "read", left |-> Unseeded, key |-> k,
                   values |-> Seeds[k]]
<1>2. job \in PolicyJob /\ job.key \in job.left /\ job.left = Unseeded
  BY PolicyAssumption DEF Unseeded, PolicyJob
<1>3. \A j \in Unseeded : edited[j] = NoPolicy
  BY DEF Unseeded, PolicyInv, FormOrSeed
<1>4. policyJob' = [policyJob EXCEPT ![t] = job] /\ submitted' \in 0..MaxPolicySaves
      /\ UNCHANGED <<policy, edited, limits, contested>>
  BY <1>1 DEF BeginSeeding, PolicyInv, PolicyTypeOK
<1>5. OfSeed(job.values, job.key)
  BY DEF OfSeed
<1> HIDE DEF job
<1> QED BY <1>2, <1>3, <1>4, <1>5, JobStep

\* Where a seed gives no limit, the one that is found is unlimited or a form's.
LEMMA FoundLimit ==
  ASSUME PolicyInv, NEW k \in SeededModels, Seeds[k].limit = 0
  PROVE  BaseLimit(k) \in 0..MaxLimit /\ BaseLimit(k) \in {0} \cup limits[k]
<1>1. CASE policy[k] = NoPolicy
  BY <1>1, PolicyAssumption DEF BaseLimit
<1>2. CASE policy[k] # NoPolicy
  <2>1. BaseLimit(k) = policy[k].limit /\ BaseLimit(k) \in 0..MaxLimit
    BY <1>2 DEF BaseLimit, PolicyInv, PolicyTypeOK, Policy
  <2> QED BY <1>2, <2>1 DEF PolicyInv, FormOrSeed, OfSeed
<1> QED BY <1>1, <1>2

LEMMA MergeStep ==
  ASSUME PolicyInv, NEW t \in PolicyTabs, Merge(t)
  PROVE  PolicyInv'
<1> DEFINE key == policyJob[t].key
           old == policyJob[t].values
           limit == IF old.limit = 0 THEN BaseLimit(key) ELSE old.limit
           job == [policyJob[t] EXCEPT !.at = "write", !.values.limit = limit]
<1>1. policyJob[t] \in PolicyJob /\ policyJob[t] # NoPolicyJob /\ policyJob[t].doing = "seed"
      /\ key \in policyJob[t].left /\ OfSeed(old, key)
  BY JobTyped DEF Merge, PolicyStep, PolicyInv
<1>2. key \in SeededModels /\ old \in Policy /\ old.limit \in 0..MaxLimit /\ Seeds[key] \in Policy
  BY <1>1, PolicyAssumption DEF PolicyJob, Policy
<1>3. old.limit = 0 => Seeds[key].limit = 0
  BY <1>1 DEF OfSeed
<1>4. limit \in 0..MaxLimit /\ limit \in IF Seeds[key].limit # 0 THEN {Seeds[key].limit} ELSE {0} \cup limits[key]
  BY <1>1, <1>2, <1>3, FoundLimit DEF OfSeed
<1>5. /\ job \in PolicyJob /\ job.left = policyJob[t].left /\ job.key = key
      /\ job.values = [old EXCEPT !.limit = limit]
  BY <1>1, <1>2, <1>4 DEF PolicyJob, Policy
<1>6. job.values.enabled = old.enabled /\ job.values.roles = old.roles /\ job.values.limit = limit
  BY <1>2, <1>5 DEF Policy
<1>7. OfSeed(job.values, job.key)
  BY <1>1, <1>4, <1>5, <1>6 DEF OfSeed
<1>8. policyJob' = [policyJob EXCEPT ![t] = job] /\ submitted' \in 0..MaxPolicySaves
      /\ UNCHANGED <<policy, edited, limits, contested>>
  BY <1>1 DEF Merge, PolicyInv, PolicyTypeOK
<1> HIDE DEF job
<1> QED BY <1>1, <1>5, <1>7, <1>8, JobStep

\* What follows when a call writes a row.
LEMMA WriteSeedStep ==
  ASSUME PolicyInv, NEW t \in PolicyTabs, WriteSeed(t)
  PROVE  PolicyInv'
<1> DEFINE key == policyJob[t].key
           values == policyJob[t].values
           left == policyJob[t].left \ {key}
<1>1. policyJob[t] \in PolicyJob /\ policyJob[t] # NoPolicyJob /\ policyJob[t].doing = "seed"
      /\ key \in policyJob[t].left /\ OfSeed(values, key)
  BY JobTyped DEF WriteSeed, PolicyStep, PolicyInv
<1>2. PICK job \in PolicyJob \cup {NoPolicyJob} :
        /\ policyJob' = [policyJob EXCEPT ![t] = job]
        /\ job # NoPolicyJob => job.key \in job.left /\ job.left = left /\ job.values = Seeds[job.key]
  <2>1. CASE left = {}
    BY <2>1 DEF WriteSeed
  <2>2. CASE left # {}
    <3>1. PICK k \in left :
            policyJob' = [policyJob EXCEPT ![t] =
              [doing |-> "seed", at |-> "read", left |-> left, key |-> k, values |-> Seeds[k]]]
      BY <2>2 DEF WriteSeed
    <3> DEFINE next == [doing |-> "seed", at |-> "read", left |-> left, key |-> k,
                        values |-> Seeds[k]]
    <3>2. next \in PolicyJob /\ next.key \in next.left /\ next.left = left /\ next.values = Seeds[next.key]
      BY <1>1, PolicyAssumption DEF PolicyJob
    <3>3. policyJob' = [policyJob EXCEPT ![t] = next]
      BY <3>1
    <3> HIDE DEF next
    <3> QED BY <3>2, <3>3
  <2> QED BY <2>1, <2>2
<1>3. /\ policy' = [policy EXCEPT ![key] = values]
      /\ UNCHANGED <<submitted, edited, limits, contested>>
      /\ values \in Policy /\ key \in SeededModels
  BY <1>1 DEF WriteSeed, PolicyJob
<1>4. edited[key] # NoPolicy => key \in contested
  BY <1>1, <1>3 DEF PolicyInv, Seeding
<1>5. \A k \in left : k \in policyJob[t].left
  OBVIOUS
<1> HIDE DEF key, left, values
<1>6. PolicyTypeOK'
  BY <1>2, <1>3 DEF PolicyInv, PolicyTypeOK
<1>7. \A s \in PolicyTabs : policyJob'[s] = IF s = t THEN job ELSE policyJob[s]
  BY <1>2 DEF PolicyInv, PolicyTypeOK
<1>8. ASSUME NEW s \in PolicyTabs, policyJob'[s] # NoPolicyJob, policyJob'[s].doing = "seed"
      PROVE  policyJob'[s].key \in policyJob'[s].left /\ OfSeed(policyJob[s].values, policyJob[s].key)'
  <2>1. CASE s = t
    <3>1. policyJob'[s] = job /\ job # NoPolicyJob /\ job.key \in job.left /\ job.values = Seeds[job.key]
      BY <1>2, <1>7, <1>8, <2>1
    <3>2. OfSeed(policyJob[s].values, policyJob[s].key)'
      BY <3>1 DEF OfSeed
    <3> QED BY <3>1, <3>2
  <2>2. CASE s # t
    BY <1>3, <1>7, <1>8, <2>2 DEF PolicyInv, OfSeed
  <2> QED BY <2>1, <2>2
<1>9. ASSUME NEW k \in SeededModels, edited[k] # NoPolicy, k \notin contested PROVE ~Seeding(k)'
  <2>1. ~Seeding(k)
    BY <1>9 DEF PolicyInv
  <2> QED BY <1>1, <1>2, <1>5, <1>7, <2>1 DEF Seeding
<1>10. FormOrSeed'
  <2> SUFFICES ASSUME NEW k \in SeededModels
               PROVE  \/ policy'[k] = edited[k]
                      \/ /\ policy'[k] # NoPolicy /\ OfSeed(policy[k], k)'
                         /\ (edited[k] # NoPolicy => k \in contested)
    BY <1>3 DEF FormOrSeed
  <2>1. CASE k = key
    <3>1. policy'[k] = values /\ values # NoPolicy
      BY <1>3, <2>1, PolicyAssumption DEF PolicyInv, PolicyTypeOK
    <3> QED BY <1>1, <1>3, <1>4, <2>1, <3>1 DEF OfSeed
  <2>2. CASE k # key
    <3>1. policy'[k] = policy[k]
      BY <1>3, <2>2 DEF PolicyInv, PolicyTypeOK
    <3> QED BY <1>3, <3>1 DEF PolicyInv, FormOrSeed, OfSeed
  <2> QED BY <2>1, <2>2
<1>11. \A k \in SeededModels : edited[k] # NoPolicy => edited[k].limit \in limits[k]
  BY DEF PolicyInv
<1> QED BY <1>3, <1>6, <1>8, <1>9, <1>10, <1>11 DEF PolicyInv

LEMMA SubmitStep ==
  ASSUME PolicyInv, NEW t \in PolicyTabs, NEW k \in SeededModels, NEW values \in Policy,
         SubmitForm(t, k, values)
  PROVE  PolicyInv'
<1> DEFINE job == [doing |-> "save", at |-> "read", left |-> {k}, key |-> k, values |-> values]
<1>1. job \in PolicyJob /\ job.doing = "save"
  BY DEF PolicyJob
<1>2. policyJob' = [policyJob EXCEPT ![t] = job] /\ submitted' \in 0..MaxPolicySaves
      /\ UNCHANGED <<policy, edited, limits, contested>>
  BY PolicyAssumption DEF SubmitForm, PolicyInv, PolicyTypeOK
<1> HIDE DEF job
<1> QED BY <1>1, <1>2, JobStep

LEMMA ReadStep ==
  ASSUME PolicyInv, NEW t \in PolicyTabs, ReadForForm(t)
  PROVE  PolicyInv'
<1> DEFINE job == [policyJob[t] EXCEPT !.at = "write"]
<1>1. policyJob[t] \in PolicyJob /\ policyJob[t].doing = "save"
  BY JobTyped DEF ReadForForm, PolicyStep
<1>2. job \in PolicyJob /\ job.doing = "save"
  BY <1>1 DEF PolicyJob
<1>3. policyJob' = [policyJob EXCEPT ![t] = job] /\ submitted' \in 0..MaxPolicySaves
      /\ UNCHANGED <<policy, edited, limits, contested>>
  BY DEF ReadForForm, PolicyInv, PolicyTypeOK
<1> HIDE DEF job
<1> QED BY <1>2, <1>3, JobStep

LEMMA WriteFormStep ==
  ASSUME PolicyInv, NEW t \in PolicyTabs, WriteForm(t)
  PROVE  PolicyInv'
<1> DEFINE key == policyJob[t].key
           values == policyJob[t].values
<1>1. policyJob[t] \in PolicyJob /\ policyJob[t].doing = "save"
  BY JobTyped DEF WriteForm, PolicyStep
<1>2. key \in SeededModels /\ values \in Policy /\ values.limit \in 0..MaxLimit
  BY <1>1 DEF PolicyJob, Policy
<1>3. /\ policy' = [policy EXCEPT ![key] = values] /\ edited' = [edited EXCEPT ![key] = values]
      /\ limits' = [limits EXCEPT ![key] = @ \cup {values.limit}]
      /\ contested' = IF Seeding(key) THEN contested \cup {key} ELSE contested
      /\ policyJob' = [policyJob EXCEPT ![t] = NoPolicyJob] /\ submitted' = submitted
  BY DEF WriteForm
<1> HIDE DEF key, values
<1>4. PolicyTypeOK'
  <2>1. limits' \in [SeededModels -> SUBSET (0..MaxLimit)]
    BY <1>2, <1>3 DEF PolicyInv, PolicyTypeOK
  <2> QED BY <1>2, <1>3, <2>1 DEF PolicyInv, PolicyTypeOK
<1>5. \A s \in PolicyTabs : policyJob'[s] = IF s = t THEN NoPolicyJob ELSE policyJob[s]
  BY <1>3 DEF PolicyInv, PolicyTypeOK
<1>6. \A k \in SeededModels :
        /\ policy'[k] = (IF k = key THEN values ELSE policy[k])
        /\ edited'[k] = (IF k = key THEN values ELSE edited[k])
        /\ limits'[k] = (IF k = key THEN limits[k] \cup {values.limit} ELSE limits[k])
        /\ k \in contested => k \in contested'
  BY <1>3 DEF PolicyInv, PolicyTypeOK
<1>7. ASSUME NEW s \in PolicyTabs, policyJob'[s] # NoPolicyJob, policyJob'[s].doing = "seed"
      PROVE  policyJob'[s].key \in policyJob'[s].left /\ OfSeed(policyJob[s].values, policyJob[s].key)'
  <2>1. /\ policyJob'[s] = policyJob[s] /\ policyJob[s].key \in SeededModels
        /\ policyJob[s].key \in policyJob[s].left /\ OfSeed(policyJob[s].values, policyJob[s].key)
    BY <1>5, <1>7, JobTyped DEF PolicyInv, PolicyJob
  <2> QED BY <1>6, <2>1 DEF OfSeed
<1>8. FormOrSeed'
  <2> SUFFICES ASSUME NEW k \in SeededModels, k # key
               PROVE  \/ policy'[k] = edited'[k]
                      \/ /\ policy'[k] # NoPolicy /\ OfSeed(policy[k], k)'
                         /\ (edited'[k] # NoPolicy => k \in contested')
    BY <1>6 DEF FormOrSeed
  <2> QED BY <1>6 DEF PolicyInv, FormOrSeed, OfSeed
<1>9. ASSUME NEW k \in SeededModels, edited'[k] # NoPolicy
      PROVE  edited'[k].limit \in limits'[k] /\ (k \in contested' \/ ~Seeding(k)')
  <2>1. Seeding(k)' => Seeding(k)
    BY <1>5 DEF Seeding
  <2>2. CASE k = key
    BY <1>3, <1>6, <2>1, <2>2
  <2>3. CASE k # key
    BY <1>6, <1>9, <2>1, <2>3 DEF PolicyInv
  <2> QED BY <2>2, <2>3
<1> QED BY <1>4, <1>7, <1>8, <1>9 DEF PolicyInv

LEMMA PolicyInvStep == PolicyInv /\ [PolicyNext]_policyVars => PolicyInv'
<1> SUFFICES ASSUME PolicyInv, [PolicyNext]_policyVars PROVE PolicyInv'
  OBVIOUS
<1>1. ASSUME NEW t \in PolicyTabs, BeginSeeding(t) \/ Merge(t) \/ WriteSeed(t) PROVE PolicyInv'
  BY <1>1, BeginStep, MergeStep, WriteSeedStep
<1>2. ASSUME NEW t \in PolicyTabs, NEW k \in SeededModels, NEW values \in Policy,
             SubmitForm(t, k, values)
      PROVE  PolicyInv'
  BY <1>2, SubmitStep
<1>3. ASSUME NEW t \in PolicyTabs, ReadForForm(t) \/ WriteForm(t) PROVE PolicyInv'
  BY <1>3, ReadStep, WriteFormStep
<1>4. ASSUME NEW t \in PolicyTabs, GiveUpPolicy(t) PROVE PolicyInv'
  <2>1. policyJob' = [policyJob EXCEPT ![t] = NoPolicyJob] /\ submitted' \in 0..MaxPolicySaves
        /\ UNCHANGED <<policy, edited, limits, contested>>
    BY <1>4 DEF GiveUpPolicy, PolicyInv, PolicyTypeOK
  <2> QED BY <2>1, JobStep
<1>5. CASE UNCHANGED policyVars
  BY <1>5 DEF policyVars, PolicyInv, PolicyTypeOK, FormOrSeed, OfSeed, Seeding
<1> QED BY <1>1, <1>2, <1>3, <1>4, <1>5 DEF PolicyNext

\* The policy in force is the form that was saved last or, whole, the seed; and
\* only a seeding that had read the table before the policy was there, and was
\* still at work as the form was saved, can have put the seed in the place of
\* the form (ensure_default_policies, upsert_model_policy), for any number of
\* tabs, models and edits.
THEOREM PoliciesFormOrSeed == PolicySpec => []FormOrSeed
<1>1. PolicyInv => FormOrSeed
  BY DEF PolicyInv
<1> QED BY <1>1, PolicyInvInit, PolicyInvStep, PTL DEF PolicySpec

\* The policies and the calls on them keep their types.
THEOREM PoliciesTyped == PolicySpec => []PolicyTypeOK
<1>1. PolicyInv => PolicyTypeOK
  BY DEF PolicyInv
<1> QED BY <1>1, PolicyInvInit, PolicyInvStep, PTL DEF PolicySpec
=============================================================================
