-------------------------- MODULE SchemaMigration --------------------------
(***************************************************************************)
(* Bringing a database to the current schema: store.init_db, which the web *)
(* server runs when it starts and at every upload, and the command line at *)
(* every import.  Python opens a transaction only before a statement that  *)
(* changes rows, so each CREATE and ALTER up to the first INSERT is        *)
(* committed by itself, between the steps of other processes, and survives *)
(* a crash; what follows is one transaction up to the version stamp.       *)
(***************************************************************************)
EXTENDS Integers, Sequences, FiniteSets, SequencesExt

CONSTANTS
    Processes,      \* processes that open the database
    NoWriter,       \* no process has the right to write
    Current,        \* CURRENT_SCHEMA_VERSION
    Tables,         \* the tables, in the order they are created
    BornWith,       \* for each table, those of the columns below its CREATE names
    EarlyColumns,   \* the columns added before the first INSERT, in order
    LateColumns,    \* the columns added after it
    Origins,        \* the databases there may be before the first start
    MaxCrashes      \* bound: processes that die while they migrate

\* What is kept of a database; spare is coverage_gap_new, the copy of the table
\* of gaps with the new key, and register the table the event log replaces.
Parts == {"version", "tables", "columns", "gapKey", "gaps", "spare", "spareGaps",
          "findings", "register", "log"}

ASSUME MigrationAssumption ==
    /\ NoWriter \notin Processes
    /\ Current \in Nat /\ MaxCrashes \in Nat
    /\ EarlyColumns \in Seq(STRING)
    /\ "coverage_gap" \in Range(Tables)
    /\ \A o \in Origins : /\ o = [x \in Parts |-> o[x]]
                          /\ o.version \in Int
                          /\ o.spareGaps = {}
                          /\ o.log \in Seq(Range(o.log)) /\ IsFiniteSet(o.register)
                          /\ \A r \in o.register : r.at \in Int /\ r.id \in Int
                          /\ \A r, s \in o.register : r.id = s.id => r = s

VARIABLES
    db,             \* the committed database
    origin,         \* history: the database before the first start
    writer,         \* the process with an open transaction
    pending,        \* the database as that transaction has left it
    starter,        \* where each process is in init_db
    crashes         \* bound

migrationVars == <<db, origin, writer, pending, starter, crashes>>

View(p) == IF writer = p THEN pending ELSE db
Unlocked(p) == writer \in {NoWriter, p}
At(p, step) == starter[p].at = step
GoTo(p, step) == starter' = [starter EXCEPT ![p].at = step]
Missing == {n \in DOMAIN Tables : Tables[n] \notin db.tables}

\* _column_exists: PRAGMA table_info, as this connection sees the table.
ColumnExists(p, column) == column \in View(p).columns

\* _coverage_gap_pk_has_kind: a table that is not there needs no new key.
GapKeyHasKind(p) == "coverage_gap" \in View(p).tables => View(p).gapKey = "kind"

(* A row of the retired register as an event of the log.                   *)
EventOf(row) ==
    [finding |-> row.finding, at |-> row.at, note |-> row.note,
     action |-> IF row.status = "open" THEN "reopened" ELSE row.status,
     rationale |-> CASE row.status # "accepted_risk" -> ""
                     [] row.rationale # "" -> row.rationale
                     [] OTHER -> row.note]

\* ORDER BY timestamp, id.
Earlier(r, s) == r.at < s.at \/ (r.at = s.at /\ r.id < s.id)
Chronological(rows) ==
    CHOOSE order \in SetToSeqs(rows) :
        \A i, j \in DOMAIN order : i < j => Earlier(order[i], order[j])

\* Mutant: the backfill without its NOT EXISTS.
RepeatedBackfill(d) ==
    LET rows == {r \in d.register : r.finding \in d.findings}
    IN [d EXCEPT !.log = @ \o [n \in 1..Cardinality(rows) |-> EventOf(Chronological(rows)[n])]]

\* The rows whose finding is there and whose event is not, oldest first.
Backfilled(d) ==
    LET rows == {r \in d.register : r.finding \in d.findings /\ ~ Contains(d.log, EventOf(r))}
    IN [d EXCEPT !.log = @ \o [n \in 1..Cardinality(rows) |-> EventOf(Chronological(rows)[n])]]

----------------------------------------------------------------------------
\* A database from a newer release is refused before anything is written.
Start(p) ==
    /\ At(p, "down")
    /\ starter' = [starter EXCEPT ![p] =
           [at |-> IF db.version > Current THEN "refused" ELSE "create", next |-> 1]]
    /\ UNCHANGED <<db, origin, writer, pending, crashes>>

CreateTable(p) ==
    /\ At(p, "create") /\ Missing # {} /\ Unlocked(p)
    /\ LET table == Tables[Min(Missing)]
       IN db' = [db EXCEPT !.tables = @ \cup {table}, !.columns = @ \cup BornWith[table]]
    /\ UNCHANGED <<origin, writer, pending, starter, crashes>>

\* _migrate_schema reads the version again.
ReadVersion(p) ==
    /\ At(p, "create") /\ Missing = {}
    /\ GoTo(p, IF db.version < Current THEN "column" ELSE "stamp")
    /\ UNCHANGED <<db, origin, writer, pending, crashes>>

\* Mutant: a column is added without being looked for.
NeverThere(p, column) == FALSE

Present(p, column) == ColumnExists(p, column)

CheckColumn(p) ==
    /\ At(p, "column") /\ starter[p].next <= Len(EarlyColumns)
    /\ IF Present(p, EarlyColumns[starter[p].next])
       THEN starter' = [starter EXCEPT ![p].next = @ + 1]
       ELSE GoTo(p, "alter")
    /\ UNCHANGED <<db, origin, writer, pending, crashes>>

\* ALTER TABLE fails when another process has added the column since the check.
AlterTable(p) ==
    LET column == EarlyColumns[starter[p].next]
    IN /\ At(p, "alter") /\ Unlocked(p)
       /\ \/ /\ column \notin db.columns
             /\ db' = [db EXCEPT !.columns = @ \cup {column}]
             /\ starter' = [starter EXCEPT ![p] = [at |-> "column", next |-> @.next + 1]]
          \/ /\ column \in db.columns
             /\ GoTo(p, "failed")
             /\ UNCHANGED db
       /\ UNCHANGED <<origin, writer, pending, crashes>>

CheckGapKey(p) ==
    /\ At(p, "column") /\ starter[p].next > Len(EarlyColumns)
    /\ GoTo(p, IF GapKeyHasKind(p) THEN "backfill" ELSE "spare")
    /\ UNCHANGED <<db, origin, writer, pending, crashes>>

CreateSpare(p) ==
    /\ At(p, "spare") /\ (db.spare \/ Unlocked(p))
    /\ db' = [db EXCEPT !.spare = TRUE]
    /\ GoTo(p, "copy")
    /\ UNCHANGED <<origin, writer, pending, crashes>>

\* The first INSERT opens the transaction; it fails when another process has
\* renamed the new table away.
CopyGaps(p) ==
    /\ At(p, "copy") /\ Unlocked(p)
    /\ \/ /\ db.spare
          /\ writer' = p /\ pending' = [db EXCEPT !.spareGaps = @ \cup db.gaps]
          /\ GoTo(p, "drop")
       \/ /\ ~ db.spare
          /\ GoTo(p, "failed")
          /\ UNCHANGED <<writer, pending>>
    /\ UNCHANGED <<db, origin, crashes>>

DropGaps(p) ==
    /\ At(p, "drop")
    /\ pending' = [pending EXCEPT !.tables = @ \ {"coverage_gap"}, !.gaps = {}]
    /\ GoTo(p, "rename")
    /\ UNCHANGED <<db, origin, writer, crashes>>

RenameSpare(p) ==
    /\ At(p, "rename")
    /\ pending' = [pending EXCEPT !.tables = @ \cup {"coverage_gap"}, !.gapKey = "kind",
                      !.gaps = pending.spareGaps, !.spare = FALSE, !.spareGaps = {}]
    /\ GoTo(p, "backfill")
    /\ UNCHANGED <<db, origin, writer, crashes>>

BackfillLog(p) ==
    /\ At(p, "backfill") /\ Unlocked(p)
    /\ writer' = p /\ pending' = Backfilled(View(p))
    /\ GoTo(p, "late")
    /\ UNCHANGED <<db, origin, crashes>>

AddLateColumns(p) ==
    /\ At(p, "late")
    /\ pending' = [pending EXCEPT !.columns = @ \cup LateColumns]
    /\ GoTo(p, "stamp")
    /\ UNCHANGED <<db, origin, writer, crashes>>

\* In the transaction, when there is one; by itself on a current database.
StampVersion(p) ==
    /\ At(p, "stamp") /\ Unlocked(p)
    /\ IF writer = p
       THEN /\ pending' = [pending EXCEPT !.version = Current] /\ UNCHANGED db
       ELSE /\ db' = [db EXCEPT !.version = Current] /\ UNCHANGED pending
    /\ GoTo(p, "commit")
    /\ UNCHANGED <<origin, writer, crashes>>

\* The last statement of init_db, after the indexes.
CommitMigration(p) ==
    /\ At(p, "commit")
    /\ db' = View(p)
    /\ writer' = IF writer = p THEN NoWriter ELSE writer
    /\ GoTo(p, "ready")
    /\ UNCHANGED <<origin, pending, crashes>>

Writes(p) ==
    \/ At(p, "create") /\ Missing # {}
    \/ At(p, "spare") /\ ~ db.spare
    \/ starter[p].at \in {"alter", "copy", "backfill", "stamp"}

\* busy_timeout is over before the other transaction is.
Locked(p) ==
    /\ Writes(p) /\ ~ Unlocked(p)
    /\ GoTo(p, "failed")
    /\ UNCHANGED <<db, origin, writer, pending, crashes>>

\* The process dies, and what it has not committed is rolled back.
Crash(p) ==
    /\ starter[p].at \notin {"down", "ready", "refused", "failed"}
    /\ crashes < MaxCrashes
    /\ crashes' = crashes + 1
    /\ writer' = IF writer = p THEN NoWriter ELSE writer
    /\ GoTo(p, "down")
    /\ UNCHANGED <<db, origin, pending>>

\* The exception ends the process; it is started again.
Restart(p) ==
    /\ At(p, "failed")
    /\ GoTo(p, "down")
    /\ UNCHANGED <<db, origin, writer, pending, crashes>>

----------------------------------------------------------------------------
MigrationInit ==
    /\ origin \in Origins /\ db = origin /\ pending = origin
    /\ writer = NoWriter
    /\ starter = [p \in Processes |-> [at |-> "down", next |-> 1]]
    /\ crashes = 0

Proceed(p) ==
    \/ Start(p) \/ CreateTable(p) \/ ReadVersion(p) \/ CheckColumn(p) \/ AlterTable(p)
    \/ CheckGapKey(p) \/ CreateSpare(p) \/ CopyGaps(p) \/ DropGaps(p)
    \/ RenameSpare(p) \/ BackfillLog(p) \/ AddLateColumns(p) \/ StampVersion(p)
    \/ CommitMigration(p) \/ Restart(p)

MigrationNext == \E p \in Processes : Proceed(p) \/ Locked(p) \/ Crash(p)

(* A process that runs goes on, and one that failed is started again.      *)
MigrationFairness == \A p \in Processes : WF_migrationVars(Proceed(p))

MigrationSpec == MigrationInit /\ [][MigrationNext]_migrationVars /\ MigrationFairness

----------------------------------------------------------------------------
Steps == {"down", "create", "column", "alter", "spare", "copy", "drop", "rename",
          "backfill", "late",
          "stamp", "commit", "ready", "refused", "failed"}

MigrationTypeOK ==
    /\ writer \in Processes \cup {NoWriter}
    /\ \A p \in Processes : /\ starter[p].at \in Steps
                            /\ starter[p].next \in 1..(Len(EarlyColumns) + 1)
    /\ crashes \in 0..MaxCrashes

Count(log, e) == Cardinality({n \in DOMAIN log : log[n] = e})

Linked == {r \in origin.register : r.finding \in origin.findings}

(* One event for each decision of the old register whose finding is there, *)
(* unless the log had it, and none of the events that were there moved.    *)
CarriedOver(log) ==
    LET carried(e) == Cardinality({r \in Linked : EventOf(r) = e})
        before(e) == Count(origin.log, e)
    IN /\ IsPrefix(origin.log, log)
       /\ \A e \in Range(log) \cup {EventOf(r) : r \in Linked} :
              Count(log, e) = IF before(e) > 0 THEN before(e) ELSE carried(e)

LogCarriedOver == CarriedOver(db.log)

(* Until the version is current, nobody sees a part of the last            *)
(* transaction; and no row is ever lost.                                   *)
NothingLost ==
    /\ db.gaps = origin.gaps /\ db.register = origin.register
    /\ db.version # Current => db.log = origin.log /\ db.gapKey = origin.gapKey

Migrated == db.version = Current /\ origin.version # Current

(* A database migrated to the current version has all of its schema.       *)
SchemaWhole ==
    Migrated => /\ Range(Tables) \subseteq db.tables
                /\ Range(EarlyColumns) \cup LateColumns \subseteq db.columns
                /\ db.gapKey = "kind"

(* MigratedWhole: whatever processes migrate together and wherever one of  *)
(* them dies, a database that says it is current has every table, every    *)
(* column and the new key, all its rows and each of the register's         *)
(* decisions once in the event log; one that does not has lost nothing and *)
(* shows no part of the backfill.                                          *)
MigratedWhole == NothingLost /\ SchemaWhole /\ (Migrated => LogCarriedOver)

(* MigrationCompletes: a crash between two ALTERs leaves a schema of       *)
(* neither version, and another process may add a column after it was      *)
(* looked for; still, every process started often enough ends init_db, or  *)
(* has refused the database.                                               *)
MigrationCompletes ==
    \A p \in Processes : <>[](starter[p].at \in {"ready", "refused"})
=============================================================================
