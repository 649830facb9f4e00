---------------------------- MODULE ServerProofs ----------------------------
(***************************************************************************)
(* Proofs about what a server of many processes stands on: the migration   *)
(* of its database (SchemaMigration) and the rate limiter in front of its  *)
(* pages (WebServer).                                                      *)
(***************************************************************************)
EXTENDS SchemaMigration, WebServer, ProofBasics

----------------------------------------------------------------------------
(* SchemaMigration, for any processes, tables, columns and number of       *)
(* crashes: what init_db leaves is a whole schema, nothing that was stored *)
(* is lost on the way, and the register is in the log once.                *)
(*                                                                         *)
(* Most of the schema is committed statement by statement between the      *)
(* statements of others, so the invariant says of each process what it may *)
(* rely on at its step.  That is never taken back: tables and columns are  *)
(* only added, and the key only changes to the new one.                    *)

IsDatabase(d) == d = [x \in Parts |-> d[x]] /\ d.version \in Int

AllEarly == Range(EarlyColumns)

\* A process looks at its n-th column: those before it are there.
ColumnsUpTo(n) == \A k \in DOMAIN EarlyColumns : k < n => EarlyColumns[k] \in db.columns

MigrationTypes ==
    /\ IsDatabase(db) /\ IsDatabase(pending)
    /\ writer \in Processes \cup {NoWriter}
    /\ starter \in [Processes -> [at : Steps, next : Int]]

\* The committed database at any time.
Committed ==
    /\ NothingLost
    /\ db.version \in {origin.version, Current}
    /\ origin.version =< Current => db.spareGaps = {}
    /\ origin.version > Current => db.version = origin.version
    /\ SchemaWhole

Past(p, steps) == starter[p].at \in steps

\* What a process may rely on at its step.
Established(p) ==
    /\ ~ Past(p, {"down", "refused"}) => origin.version =< Current
    /\ Past(p, {"column", "alter", "spare", "copy", "drop", "rename", "backfill", "late",
                "stamp", "commit", "ready"}) => Range(Tables) \subseteq db.tables
    /\ Past(p, {"create"}) => starter[p].next = 1
    /\ Past(p, {"column", "alter"}) => ColumnsUpTo(starter[p].next)
    /\ Past(p, {"spare", "copy", "drop", "rename", "backfill", "late"}) =>
          AllEarly \subseteq db.columns
    /\ Past(p, {"backfill"}) /\ writer # p => db.gapKey = "kind"
    /\ Past(p, {"stamp", "commit"}) /\ writer # p => db.version = Current
    /\ Past(p, {"drop", "rename", "late"}) => writer = p

\* What the open transaction has made of the committed database.
Transaction(p) ==
    writer = p =>
        /\ Past(p, {"drop", "rename", "backfill", "late", "stamp", "commit"})
        /\ AllEarly \subseteq pending.columns
        /\ db.columns \subseteq pending.columns
        /\ pending.register = db.register
        /\ Past(p, {"drop", "rename"}) => pending.spareGaps = db.gaps
        /\ Past(p, {"drop"}) => db.tables \subseteq pending.tables
        /\ Past(p, {"rename"}) => db.tables \ {"coverage_gap"} \subseteq pending.tables
        /\ Past(p, {"backfill", "late", "stamp", "commit"}) =>
              /\ pending.gaps = db.gaps /\ pending.spareGaps = {}
              /\ pending.gapKey = "kind"
              /\ db.tables \subseteq pending.tables
        /\ Past(p, {"stamp", "commit"}) => LateColumns \subseteq pending.columns
        /\ Past(p, {"commit"}) => pending.version = Current

MInv ==
    /\ MigrationTypes /\ origin \in Origins /\ Committed
    /\ \A p \in Processes : Established(p) /\ Transaction(p)

(* A step of p takes nothing from the others: what has been added stays,   *)
(* and nothing is committed beside an open transaction.                    *)
Grows(p) ==
    /\ \A q \in Processes \ {p} : /\ starter'[q] = starter[q]
                                  /\ writer' = q <=> writer = q
                                  /\ writer = q => UNCHANGED <<db, pending>>
    /\ db.tables \subseteq db'.tables
    /\ db.columns \subseteq db'.columns
    /\ db.gapKey = "kind" => db'.gapKey = "kind"
    /\ db.version = Current => db'.version = Current

\* What there is to show of a step of p.
Keeps(p) ==
    /\ MigrationTypes' /\ Committed' /\ UNCHANGED origin
    /\ Grows(p) /\ Established(p)' /\ Transaction(p)'

----------------------------------------------------------------------------
\* What the others rely on outlives a step that only adds.
LEMMA Others ==
    ASSUME MInv, NEW p \in Processes, Keeps(p)
    PROVE  MInv'
<1>1. ASSUME NEW q \in Processes, q # p
      PROVE  Established(q)' /\ Transaction(q)'
  <2>1. Established(q) /\ Transaction(q)
    BY <1>1 DEF MInv
  <2>2. /\ starter'[q] = starter[q] /\ (writer' = q <=> writer = q)
        /\ writer = q => db' = db /\ pending' = pending
        /\ db.tables \subseteq db'.tables /\ db.columns \subseteq db'.columns
        /\ db.gapKey = "kind" => db'.gapKey = "kind"
        /\ db.version = Current => db'.version = Current
        /\ origin' = origin
    BY <1>1 DEF Keeps, Grows
  <2>3. Established(q)'
    BY <2>1, <2>2 DEF Established, Past, ColumnsUpTo
  <2>4. Transaction(q)'
    <3> SUFFICES ASSUME writer' = q PROVE Transaction(q)'
      BY DEF Transaction
    <3>1. writer = q /\ db' = db /\ pending' = pending /\ starter'[q] = starter[q]
      BY <2>2
    <3> QED BY <2>1, <3>1 DEF Transaction, Past
  <2> QED BY <2>3, <2>4
<1>2. Established(p)' /\ Transaction(p)' /\ MigrationTypes' /\ Committed' /\ origin' \in Origins
  BY DEF Keeps, MInv
<1> QED BY <1>1, <1>2 DEF MInv

\* A step that leaves the tables, the transaction and the others alone keeps
\* everything, if p may go where it goes.
LEMMA Moves ==
    ASSUME MInv, NEW p \in Processes, NEW s \in [at : Steps, next : Int],
           starter' = [starter EXCEPT ![p] = s],
           UNCHANGED <<db, origin, writer, pending>>,
           Established(p)', Transaction(p)'
    PROVE  MInv'
<1>1. MigrationTypes'
  BY DEF MInv, MigrationTypes, IsDatabase
<1>2. Committed'
  BY DEF MInv, Committed, NothingLost, SchemaWhole, Migrated
<1>3. Grows(p)
  BY DEF MInv, MigrationTypes, Grows
<1> QED BY <1>1, <1>2, <1>3, Others DEF Keeps

\* The record of p after GoTo.
LEMMA WhereTo ==
    ASSUME MInv, NEW p \in Processes, NEW step \in Steps, GoTo(p, step)
    PROVE  /\ starter' = [starter EXCEPT ![p] = [at |-> step, next |-> starter[p].next]]
           /\ [at |-> step, next |-> starter[p].next] \in [at : Steps, next : Int]
           /\ starter'[p] = [at |-> step, next |-> starter[p].next]
           /\ starter'[p].at = step /\ starter'[p].next = starter[p].next
<1>1. starter \in [Processes -> [at : Steps, next : Int]]
  BY DEF MInv, MigrationTypes
<1>2. starter[p] \in [at : Steps, next : Int]
  BY <1>1
<1>3. [starter[p] EXCEPT !.at = step] = [at |-> step, next |-> starter[p].next]
  BY <1>2
<1>4. starter' = [starter EXCEPT ![p] = [at |-> step, next |-> starter[p].next]]
  BY <1>1, <1>3, Zenon DEF GoTo
<1>5. [at |-> step, next |-> starter[p].next] \in [at : Steps, next : Int]
  BY <1>2
<1> QED BY <1>1, <1>4, <1>5

----------------------------------------------------------------------------
\* A process without a transaction may fail, or be started again, at any step.
LEMMA FailedStep ==
    ASSUME MInv, NEW p \in Processes, NEW step \in {"failed", "down"}, GoTo(p, step),
           writer # p, step = "failed" => origin.version =< Current,
           UNCHANGED <<db, origin, writer, pending>>
    PROVE  MInv'
<1>1. step \in Steps
  BY DEF Steps
<1>2. /\ starter' = [starter EXCEPT ![p] = [at |-> step, next |-> starter[p].next]]
      /\ [at |-> step, next |-> starter[p].next] \in [at : Steps, next : Int]
      /\ starter'[p].at = step
  BY <1>1, WhereTo
<1>3. Established(p)' /\ Transaction(p)'
  BY <1>2 DEF Established, Transaction, Past
<1> QED BY <1>2, <1>3, Moves

\* A database of a newer release is refused.
LEMMA StartStep ==
    ASSUME MInv, NEW p \in Processes, Start(p)
    PROVE  MInv'
<1> DEFINE s == [at |-> IF db.version > Current THEN "refused" ELSE "create", next |-> 1]
<1>1. /\ s \in [at : Steps, next : Int] /\ starter' = [starter EXCEPT ![p] = s]
      /\ UNCHANGED <<db, origin, writer, pending>> /\ starter'[p] = s
      /\ starter[p].at = "down"
  BY DEF Start, Steps, MInv, MigrationTypes, At
<1>2. origin.version > Current => s.at = "refused"
  BY DEF MInv, Committed
<1>3. origin.version \in Int /\ Current \in Int
  BY MigrationAssumption DEF MInv
<1>4. Established(p)'
  BY <1>1, <1>2, <1>3 DEF Established, Past
<1>5. Transaction(p)'
  BY <1>1 DEF MInv, Transaction, Past
<1> QED BY <1>1, <1>4, <1>5, Moves

\* A table more, beside no other process's transaction.
LEMMA CreateTableStep ==
    ASSUME MInv, NEW p \in Processes, CreateTable(p)
    PROVE  MInv'
<1> DEFINE table == Tables[Min(Missing)]
<1>1. /\ db' = [db EXCEPT !.tables = db.tables \cup {table},
                          !.columns = db.columns \cup BornWith[table]]
      /\ UNCHANGED <<origin, writer, pending, starter>>
      /\ writer \in {NoWriter, p} /\ starter[p].at = "create"
  BY DEF CreateTable, Unlocked, At
<1>2. IsDatabase(db)
  BY DEF MInv, MigrationTypes
<1>3. /\ IsDatabase(db') /\ db.tables \subseteq db'.tables /\ db.columns \subseteq db'.columns
      /\ db'.gapKey = db.gapKey /\ db'.version = db.version /\ db'.log = db.log
      /\ db'.gaps = db.gaps /\ db'.register = db.register /\ db'.spareGaps = db.spareGaps
  BY <1>1, <1>2 DEF IsDatabase, Parts
<1>4. MigrationTypes'
  BY <1>1, <1>3 DEF MInv, MigrationTypes, IsDatabase
<1>5. Committed'
  BY <1>1, <1>3 DEF MInv, Committed, NothingLost, SchemaWhole, Migrated
<1>6. Grows(p)
  BY <1>1, <1>3, MigrationAssumption DEF Grows
<1>7. Established(p)'
  BY <1>1, <1>3 DEF MInv, Established, Past
<1>8. Transaction(p)'
  BY <1>1, <1>3 DEF MInv, Transaction, Past
<1> QED BY <1>1, <1>4, <1>5, <1>6, <1>7, <1>8, Others DEF Keeps

\* Every table is there when the version is read.
LEMMA ReadVersionStep ==
    ASSUME MInv, NEW p \in Processes, ReadVersion(p)
    PROVE  MInv'
<1>1. PICK step \in Steps :
          /\ step = IF db.version < Current THEN "column" ELSE "stamp"
          /\ GoTo(p, step)
  BY DEF ReadVersion, Steps
<1>2. UNCHANGED <<db, origin, writer, pending>> /\ starter[p].at = "create" /\ Missing = {}
  BY DEF ReadVersion, At
<1>3. Range(Tables) \subseteq db.tables
  BY <1>2 DEF Missing, Range
<1>4. starter[p].at = "create" /\ writer # p /\ origin.version =< Current
  BY <1>2 DEF MInv, Established, Transaction, Past
<1>5. step = "stamp" => db.version = Current
  <2>1. db.version \in {origin.version, Current} /\ origin.version \in Int /\ Current \in Int
    BY MigrationAssumption DEF MInv, Committed
  <2> QED BY <2>1, <1>1, <1>4
<1>6. starter[p].next = 1 /\ \A k \in DOMAIN EarlyColumns : ~ (k < 1)
  BY <1>4, MigrationAssumption DEF MInv, Established, Past
<1>7. /\ starter' = [starter EXCEPT ![p] = [at |-> step, next |-> starter[p].next]]
      /\ [at |-> step, next |-> starter[p].next] \in [at : Steps, next : Int]
      /\ starter'[p].at = step /\ starter'[p].next = starter[p].next
  BY <1>1, WhereTo
<1>8. Established(p)'
  BY <1>1, <1>2, <1>3, <1>4, <1>5, <1>6, <1>7 DEF Established, Past, ColumnsUpTo
<1>9. Transaction(p)'
  BY <1>2, <1>4 DEF Transaction
<1> QED BY <1>2, <1>7, <1>8, <1>9, Moves

\* A column that is there is passed over, another is to be added.
LEMMA CheckColumnStep ==
    ASSUME MInv, NEW p \in Processes, CheckColumn(p)
    PROVE  MInv'
<1> DEFINE n == starter[p].next
<1>1. /\ starter[p].at = "column" /\ n <= Len(EarlyColumns) /\ n \in Int
      /\ starter \in [Processes -> [at : Steps, next : Int]]
      /\ UNCHANGED <<db, origin, writer, pending>>
  BY DEF CheckColumn, At, MInv, MigrationTypes
<1>2. /\ writer # p /\ origin.version =< Current /\ Range(Tables) \subseteq db.tables
      /\ ColumnsUpTo(n)
  BY <1>1 DEF MInv, Established, Transaction, Past
<1>3. Transaction(p)'
  BY <1>1, <1>2 DEF Transaction
<1>4. CASE Present(p, EarlyColumns[n])
  <2>1. starter' = [starter EXCEPT ![p] = [at |-> "column", next |-> n + 1]]
    BY <1>1, <1>4 DEF CheckColumn
  <2>2. EarlyColumns[n] \in db.columns
    BY <1>2, <1>4 DEF Present, ColumnExists, View
  <2>3. ColumnsUpTo(n + 1)
    <3> SUFFICES ASSUME NEW k \in DOMAIN EarlyColumns, k < n + 1
                 PROVE  EarlyColumns[k] \in db.columns
      BY DEF ColumnsUpTo
    <3>1. k \in Int
      BY MigrationAssumption
    <3>2. k < n \/ k = n
      BY <3>1, <1>1
    <3> QED BY <3>2, <2>2, <1>2 DEF ColumnsUpTo
  <2>4. /\ [at |-> "column", next |-> n + 1] \in [at : Steps, next : Int]
        /\ starter'[p] = [at |-> "column", next |-> n + 1]
    BY <1>1, <2>1 DEF Steps
  <2>5. Established(p)'
    BY <1>1, <1>2, <2>3, <2>4 DEF Established, Past, ColumnsUpTo
  <2> QED BY <1>1, <1>3, <2>1, <2>4, <2>5, Moves
<1>5. CASE ~ Present(p, EarlyColumns[n])
  <2>1. GoTo(p, "alter") /\ "alter" \in Steps
    BY <1>5 DEF CheckColumn, Steps
  <2>2. /\ starter' = [starter EXCEPT ![p] = [at |-> "alter", next |-> n]]
        /\ [at |-> "alter", next |-> n] \in [at : Steps, next : Int]
        /\ starter'[p].at = "alter" /\ starter'[p].next = n
    BY <2>1, WhereTo
  <2>3. Established(p)'
    BY <1>1, <1>2, <2>2 DEF Established, Past, ColumnsUpTo
  <2> QED BY <1>1, <1>3, <2>2, <2>3, Moves
<1> QED BY <1>4, <1>5

\* The column is added, or was by another process, and this one fails.
LEMMA AlterTableStep ==
    ASSUME MInv, NEW p \in Processes, AlterTable(p)
    PROVE  MInv'
<1> DEFINE n == starter[p].next
           column == EarlyColumns[n]
<1>1. /\ starter[p].at = "alter" /\ n \in Int /\ writer \in {NoWriter, p}
      /\ starter \in [Processes -> [at : Steps, next : Int]]
      /\ UNCHANGED <<origin, writer, pending>>
  BY DEF AlterTable, At, Unlocked, MInv, MigrationTypes
<1>2. /\ writer # p /\ origin.version =< Current /\ Range(Tables) \subseteq db.tables
      /\ ColumnsUpTo(n) /\ IsDatabase(db)
  BY <1>1 DEF MInv, MigrationTypes, Established, Transaction, Past
<1>3. Transaction(p)'
  BY <1>1, <1>2 DEF Transaction
<1>4. CASE /\ db' = [db EXCEPT !.columns = db.columns \cup {column}]
           /\ starter' = [starter EXCEPT ![p] = [at |-> "column", next |-> n + 1]]
  <2>1. /\ IsDatabase(db') /\ db'.tables = db.tables /\ db'.columns = db.columns \cup {column}
        /\ db'.gapKey = db.gapKey /\ db'.version = db.version /\ db'.log = db.log
        /\ db'.gaps = db.gaps /\ db'.register = db.register /\ db'.spareGaps = db.spareGaps
    BY <1>2, <1>4 DEF IsDatabase, Parts
  <2>2. starter'[p] = [at |-> "column", next |-> n + 1] /\ starter' \in [Processes -> [at : Steps, next : Int]]
    BY <1>1, <1>4 DEF Steps
  <2>3. MigrationTypes'
    BY <1>1, <2>1, <2>2 DEF MInv, MigrationTypes, IsDatabase
  <2>4. Committed'
    BY <1>1, <2>1 DEF MInv, Committed, NothingLost, SchemaWhole, Migrated
  <2>5. Grows(p)
    BY <1>1, <1>4, <2>1, MigrationAssumption DEF Grows
  <2>6. ASSUME NEW k \in DOMAIN EarlyColumns, k < n + 1
        PROVE  EarlyColumns[k] \in db'.columns
    <3>1. k \in Int
      BY MigrationAssumption
    <3>2. k < n \/ k = n
      BY <3>1, <2>6, <1>1
    <3> QED BY <3>2, <2>1, <1>2 DEF ColumnsUpTo
  <2>7. Established(p)'
    BY <1>1, <1>2, <2>1, <2>2, <2>6 DEF Established, Past, ColumnsUpTo
  <2> QED BY <1>1, <1>3, <2>3, <2>4, <2>5, <2>7, Others DEF Keeps
<1>5. CASE GoTo(p, "failed") /\ UNCHANGED db
  BY <1>1, <1>2, <1>3, <1>5, FailedStep
<1> QED BY <1>4, <1>5 DEF AlterTable

\* Every column is there when the key of the gaps is looked at.
LEMMA CheckGapKeyStep ==
    ASSUME MInv, NEW p \in Processes, CheckGapKey(p)
    PROVE  MInv'
<1>1. /\ starter[p].at = "column" /\ starter[p].next > Len(EarlyColumns)
      /\ starter[p].next \in Int /\ UNCHANGED <<db, origin, writer, pending>>
  BY DEF CheckGapKey, At, MInv, MigrationTypes
<1>2. /\ writer # p /\ origin.version =< Current /\ Range(Tables) \subseteq db.tables
      /\ ColumnsUpTo(starter[p].next)
  BY <1>1 DEF MInv, Established, Transaction, Past
<1>3. AllEarly \subseteq db.columns
  <2> SUFFICES ASSUME NEW k \in DOMAIN EarlyColumns PROVE EarlyColumns[k] \in db.columns
    BY DEF AllEarly, Range
  <2>1. k < starter[p].next
    BY <1>1, MigrationAssumption
  <2> QED BY <2>1, <1>2 DEF ColumnsUpTo
<1>4. PICK step \in Steps : /\ GoTo(p, step)
                            /\ step = IF GapKeyHasKind(p) THEN "backfill" ELSE "spare"
  BY DEF CheckGapKey, Steps
<1>5. step = "backfill" => db.gapKey = "kind"
  BY <1>2, <1>4, MigrationAssumption DEF GapKeyHasKind, View
<1>6. /\ starter' = [starter EXCEPT ![p] = [at |-> step, next |-> starter[p].next]]
      /\ [at |-> step, next |-> starter[p].next] \in [at : Steps, next : Int]
      /\ starter'[p].at = step
  BY <1>4, WhereTo
<1>7. Established(p)'
  BY <1>1, <1>2, <1>3, <1>4, <1>5, <1>6 DEF Established, Past
<1>8. Transaction(p)'
  BY <1>1, <1>2 DEF Transaction
<1> QED BY <1>1, <1>6, <1>7, <1>8, Moves

\* The empty copy of the table of gaps, if there is none.
LEMMA CreateSpareStep ==
    ASSUME MInv, NEW p \in Processes, CreateSpare(p)
    PROVE  MInv'
<1>1. /\ starter[p].at = "spare" /\ (db.spare \/ writer \in {NoWriter, p})
      /\ db' = [db EXCEPT !.spare = TRUE]
      /\ UNCHANGED <<origin, writer, pending>> /\ GoTo(p, "copy") /\ "copy" \in Steps
  BY DEF CreateSpare, At, Unlocked, Steps
<1>2. /\ writer # p /\ origin.version =< Current /\ Range(Tables) \subseteq db.tables
      /\ AllEarly \subseteq db.columns /\ IsDatabase(db)
  BY <1>1 DEF MInv, MigrationTypes, Established, Transaction, Past
<1>3. /\ IsDatabase(db') /\ db'.tables = db.tables /\ db'.columns = db.columns
      /\ db'.gapKey = db.gapKey /\ db'.version = db.version /\ db'.log = db.log
      /\ db'.gaps = db.gaps /\ db'.register = db.register /\ db'.spareGaps = db.spareGaps
  BY <1>1, <1>2 DEF IsDatabase, Parts
<1>4. db.spare => db' = db
  BY <1>1, <1>2 DEF IsDatabase
<1>5. /\ starter' = [starter EXCEPT ![p] = [at |-> "copy", next |-> starter[p].next]]
      /\ [at |-> "copy", next |-> starter[p].next] \in [at : Steps, next : Int]
      /\ starter'[p].at = "copy"
  BY <1>1, WhereTo
<1>6. MigrationTypes'
  BY <1>1, <1>3, <1>5 DEF MInv, MigrationTypes, IsDatabase
<1>7. Committed'
  BY <1>1, <1>3 DEF MInv, Committed, NothingLost, SchemaWhole, Migrated
<1>8. Grows(p)
  BY <1>1, <1>3, <1>4, <1>5, MigrationAssumption DEF Grows
<1>9. Established(p)' /\ Transaction(p)'
  BY <1>1, <1>2, <1>3, <1>5 DEF Established, Transaction, Past
<1> QED BY <1>1, <1>6, <1>7, <1>8, <1>9, Others DEF Keeps

\* A step that writes to the transaction of p only, or opens it.
LEMMA Writing ==
    ASSUME MInv, NEW p \in Processes, NEW step \in Steps, GoTo(p, step),
           UNCHANGED <<db, origin>>, writer \in {NoWriter, p}, writer' = p,
           IsDatabase(pending'), Established(p)', Transaction(p)'
    PROVE  MInv'
<1>1. /\ starter' = [starter EXCEPT ![p] = [at |-> step, next |-> starter[p].next]]
      /\ [at |-> step, next |-> starter[p].next] \in [at : Steps, next : Int]
  BY WhereTo
<1>2. MigrationTypes'
  BY <1>1 DEF MInv, MigrationTypes, IsDatabase
<1>3. Committed'
  BY DEF MInv, Committed, NothingLost, SchemaWhole, Migrated
<1>4. Grows(p)
  BY <1>1, MigrationAssumption DEF Grows
<1> QED BY <1>2, <1>3, <1>4, Others DEF Keeps

\* The first row is written: the copy holds the gaps.
LEMMA CopyGapsStep ==
    ASSUME MInv, NEW p \in Processes, CopyGaps(p)
    PROVE  MInv'
<1>1. /\ starter[p].at = "copy" /\ writer \in {NoWriter, p} /\ UNCHANGED <<db, origin>>
      /\ "drop" \in Steps
  BY DEF CopyGaps, At, Unlocked, Steps
<1>2. /\ writer # p /\ origin.version =< Current /\ Range(Tables) \subseteq db.tables
      /\ AllEarly \subseteq db.columns /\ IsDatabase(db) /\ db.spareGaps = {}
  BY <1>1 DEF MInv, MigrationTypes, Committed, Established, Transaction, Past
<1>3. CASE /\ writer' = p /\ pending' = [db EXCEPT !.spareGaps = db.spareGaps \cup db.gaps]
           /\ GoTo(p, "drop")
  <2>1. /\ IsDatabase(pending') /\ pending'.spareGaps = db.gaps /\ pending'.tables = db.tables
        /\ pending'.columns = db.columns /\ pending'.register = db.register
    BY <1>2, <1>3 DEF IsDatabase, Parts
  <2>2. starter'[p].at = "drop"
    BY <1>1, <1>3, WhereTo
  <2>3. Established(p)' /\ Transaction(p)'
    BY <1>1, <1>2, <1>3, <2>1, <2>2 DEF Established, Transaction, Past
  <2> QED BY <1>1, <1>3, <2>1, <2>3, Writing
<1>4. CASE GoTo(p, "failed") /\ UNCHANGED <<writer, pending>>
  BY <1>1, <1>2, <1>4, FailedStep
<1> QED BY <1>3, <1>4 DEF CopyGaps

\* The old table of gaps goes; its rows are in the copy.
LEMMA DropGapsStep ==
    ASSUME MInv, NEW p \in Processes, DropGaps(p)
    PROVE  MInv'
<1>1. /\ starter[p].at = "drop" /\ GoTo(p, "rename") /\ "rename" \in Steps
      /\ pending' = [pending EXCEPT !.tables = pending.tables \ {"coverage_gap"}, !.gaps = {}]
      /\ UNCHANGED <<db, origin, writer>>
  BY DEF DropGaps, At, Steps
<1>2. Established(p) /\ Transaction(p) /\ IsDatabase(pending)
  BY DEF MInv, MigrationTypes
<1>3. writer = p
  BY <1>1, <1>2 DEF Established, Past
<1>4. /\ IsDatabase(pending') /\ pending'.tables = pending.tables \ {"coverage_gap"}
      /\ pending'.spareGaps = pending.spareGaps /\ pending'.columns = pending.columns
      /\ pending'.register = pending.register
  BY <1>1, <1>2 DEF IsDatabase, Parts
<1>5. starter'[p].at = "rename"
  BY <1>1, WhereTo
<1>6. Established(p)'
  BY <1>1, <1>2, <1>3, <1>5 DEF Established, Past
<1>7. Transaction(p)'
  BY <1>1, <1>2, <1>3, <1>4, <1>5 DEF Transaction, Past
<1> QED BY <1>1, <1>3, <1>4, <1>6, <1>7, Writing

\* The copy takes its place, with every row and the new key.
LEMMA RenameSpareStep ==
    ASSUME MInv, NEW p \in Processes, RenameSpare(p)
    PROVE  MInv'
<1>1. /\ starter[p].at = "rename" /\ GoTo(p, "backfill") /\ "backfill" \in Steps
      /\ pending' = [pending EXCEPT !.tables = pending.tables \cup {"coverage_gap"},
                        !.gapKey = "kind", !.gaps = pending.spareGaps, !.spare = FALSE,
                        !.spareGaps = {}]
      /\ UNCHANGED <<db, origin, writer>>
  BY DEF RenameSpare, At, Steps
<1>2. Established(p) /\ Transaction(p) /\ IsDatabase(pending)
  BY DEF MInv, MigrationTypes
<1>3. writer = p
  BY <1>1, <1>2 DEF Established, Past
<1>4. /\ IsDatabase(pending') /\ pending'.tables = pending.tables \cup {"coverage_gap"}
      /\ pending'.spareGaps = {} /\ pending'.columns = pending.columns
      /\ pending'.register = pending.register /\ pending'.gaps = pending.spareGaps
      /\ pending'.gapKey = "kind"
  BY <1>1, <1>2 DEF IsDatabase, Parts
<1>5. starter'[p].at = "backfill"
  BY <1>1, WhereTo
<1>6. Established(p)'
  BY <1>1, <1>2, <1>3, <1>5 DEF Established, Past
<1>7. Transaction(p)'
  BY <1>1, <1>2, <1>3, <1>4, <1>5 DEF Transaction, Past
<1> QED BY <1>1, <1>3, <1>4, <1>6, <1>7, Writing

\* The backfill adds to the event log and to nothing else.
LEMMA BackfillStep ==
    ASSUME MInv, NEW p \in Processes, BackfillLog(p)
    PROVE  MInv'
<1> DEFINE old == View(p)
<1>1. /\ starter[p].at = "backfill" /\ GoTo(p, "late") /\ "late" \in Steps
      /\ writer \in {NoWriter, p} /\ writer' = p /\ pending' = Backfilled(old)
      /\ UNCHANGED <<db, origin>>
  BY DEF BackfillLog, At, Unlocked, Steps
<1>2. Established(p) /\ Transaction(p) /\ IsDatabase(pending) /\ IsDatabase(db) /\ Committed
  BY DEF MInv, MigrationTypes
<1>3. /\ origin.version =< Current /\ Range(Tables) \subseteq db.tables
      /\ AllEarly \subseteq db.columns /\ (writer # p => db.gapKey = "kind")
  BY <1>1, <1>2 DEF Established, Past
<1>4. /\ IsDatabase(old) /\ old.gaps = db.gaps /\ old.spareGaps = {} /\ old.gapKey = "kind"
      /\ db.tables \subseteq old.tables /\ db.columns \subseteq old.columns
      /\ old.register = db.register
  <2>1. CASE writer = p
    BY <2>1, <1>1, <1>2 DEF View, Transaction, Past
  <2>2. CASE writer # p
    BY <2>2, <1>2, <1>3 DEF View, Committed
  <2> QED BY <2>1, <2>2
<1>5. \E log : pending' = [old EXCEPT !.log = log]
  BY <1>1 DEF Backfilled
<1> HIDE DEF old
<1>6. /\ IsDatabase(pending') /\ pending'.tables = old.tables /\ pending'.columns = old.columns
      /\ pending'.spareGaps = old.spareGaps /\ pending'.gaps = old.gaps
      /\ pending'.register = old.register /\ pending'.gapKey = old.gapKey
  BY <1>4, <1>5 DEF IsDatabase, Parts
<1>7. starter'[p].at = "late"
  BY <1>1, WhereTo
<1>8. Established(p)'
  BY <1>1, <1>3, <1>7 DEF Established, Past
<1>9. Transaction(p)'
  BY <1>1, <1>3, <1>4, <1>6, <1>7 DEF Transaction, Past
<1> QED BY <1>1, <1>6, <1>8, <1>9, Writing

\* The last columns, in the transaction.
LEMMA AddLateColumnsStep ==
    ASSUME MInv, NEW p \in Processes, AddLateColumns(p)
    PROVE  MInv'
<1>1. /\ starter[p].at = "late" /\ GoTo(p, "stamp") /\ "stamp" \in Steps
      /\ pending' = [pending EXCEPT !.columns = pending.columns \cup LateColumns]
      /\ UNCHANGED <<db, origin, writer>>
  BY DEF AddLateColumns, At, Steps
<1>2. Established(p) /\ Transaction(p) /\ IsDatabase(pending)
  BY DEF MInv, MigrationTypes
<1>3. writer = p
  BY <1>1, <1>2 DEF Established, Past
<1>4. /\ IsDatabase(pending') /\ pending'.columns = pending.columns \cup LateColumns
      /\ pending'.spareGaps = pending.spareGaps /\ pending'.tables = pending.tables
      /\ pending'.register = pending.register /\ pending'.gaps = pending.gaps
      /\ pending'.gapKey = pending.gapKey
  BY <1>1, <1>2 DEF IsDatabase, Parts
<1>5. starter'[p].at = "stamp"
  BY <1>1, WhereTo
<1>6. Established(p)'
  BY <1>1, <1>2, <1>3, <1>5 DEF Established, Past
<1>7. Transaction(p)'
  BY <1>1, <1>2, <1>3, <1>4, <1>5 DEF Transaction, Past
<1> QED BY <1>1, <1>3, <1>4, <1>6, <1>7, Writing

\* The version, in the transaction or on a database that has it.
LEMMA StampVersionStep ==
    ASSUME MInv, NEW p \in Processes, StampVersion(p)
    PROVE  MInv'
<1>1. /\ starter[p].at = "stamp" /\ GoTo(p, "commit") /\ "commit" \in Steps
      /\ UNCHANGED <<origin, writer>> /\ writer \in {NoWriter, p}
  BY DEF StampVersion, At, Unlocked, Steps
<1>2. /\ Established(p) /\ Transaction(p) /\ IsDatabase(pending) /\ IsDatabase(db)
  BY DEF MInv, MigrationTypes
<1>3. /\ starter' = [starter EXCEPT ![p] = [at |-> "commit", next |-> starter[p].next]]
      /\ [at |-> "commit", next |-> starter[p].next] \in [at : Steps, next : Int]
      /\ starter'[p].at = "commit"
  BY <1>1, WhereTo
<1>4. CASE writer = p
  <2>1. pending' = [pending EXCEPT !.version = Current] /\ UNCHANGED db
    BY <1>4 DEF StampVersion
  <2>2. Current \in Int
    BY MigrationAssumption
  <2>3. /\ IsDatabase(pending') /\ pending'.columns = pending.columns
        /\ pending'.spareGaps = pending.spareGaps /\ pending'.tables = pending.tables
        /\ pending'.register = pending.register /\ pending'.gaps = pending.gaps
        /\ pending'.gapKey = pending.gapKey /\ pending'.version = Current
    BY <1>2, <2>1, <2>2 DEF IsDatabase, Parts
  <2>4. Established(p)'
    BY <1>1, <1>2, <1>3, <1>4, <2>1 DEF Established, Past
  <2>5. Transaction(p)'
    BY <1>1, <1>2, <1>3, <1>4, <2>1, <2>3 DEF Transaction, Past
  <2> QED BY <1>1, <1>4, <2>1, <2>3, <2>4, <2>5, Writing
<1>5. CASE writer # p
  <2>1. db' = [db EXCEPT !.version = Current] /\ UNCHANGED pending
    BY <1>5 DEF StampVersion
  <2>2. db.version = Current
    BY <1>1, <1>2, <1>5 DEF Established, Past
  <2>3. db' = db
    BY <1>2, <2>1, <2>2 DEF IsDatabase
  <2>4. Established(p)'
    BY <1>1, <1>2, <1>3, <1>5, <2>2, <2>3 DEF Established, Past
  <2>5. Transaction(p)'
    BY <1>1, <1>5 DEF Transaction
  <2> QED BY <1>1, <1>3, <2>1, <2>3, <2>4, <2>5, Moves
<1> QED BY <1>4, <1>5

\* What is committed is a whole schema, with everything that was stored.
LEMMA CommitStep ==
    ASSUME MInv, NEW p \in Processes, CommitMigration(p)
    PROVE  MInv'
<1>1. /\ starter[p].at = "commit" /\ GoTo(p, "ready") /\ "ready" \in Steps
      /\ UNCHANGED <<origin, pending>> /\ db' = View(p)
      /\ writer' = IF writer = p THEN NoWriter ELSE writer
  BY DEF CommitMigration, At, Steps
<1>2. /\ Established(p) /\ Transaction(p) /\ IsDatabase(pending) /\ IsDatabase(db)
      /\ Committed /\ NoWriter # p /\ MigrationTypes
  BY MigrationAssumption DEF MInv, MigrationTypes
<1>3. /\ starter' = [starter EXCEPT ![p] = [at |-> "ready", next |-> starter[p].next]]
      /\ [at |-> "ready", next |-> starter[p].next] \in [at : Steps, next : Int]
      /\ starter'[p].at = "ready"
  BY <1>1, WhereTo
<1>4. origin.version =< Current /\ Range(Tables) \subseteq db.tables
  BY <1>1, <1>2 DEF Established, Past
<1>5. CASE writer # p
  <2>1. db' = db /\ writer' = writer
    BY <1>1, <1>5 DEF View
  <2>2. Established(p)'
    BY <1>3, <1>4, <1>1, <2>1 DEF Established, Past
  <2>3. Transaction(p)'
    BY <1>5, <2>1 DEF Transaction
  <2> QED BY <1>1, <1>3, <2>1, <2>2, <2>3, Moves
<1>6. CASE writer = p
  <2>1. db' = pending /\ writer' = NoWriter
    BY <1>1, <1>6 DEF View
  <2>2. /\ db'.gaps = db.gaps /\ db'.register = db.register /\ db'.spareGaps = {}
        /\ db'.gapKey = "kind" /\ db'.version = Current
        /\ db.tables \subseteq db'.tables /\ db.columns \subseteq db'.columns
        /\ AllEarly \subseteq db'.columns /\ LateColumns \subseteq db'.columns
    BY <1>1, <1>2, <1>6, <2>1 DEF Transaction, Past
  <2>3. Range(Tables) \subseteq db'.tables
    BY <1>4, <2>2
  <2>4. MigrationTypes'
    BY <1>1, <1>2, <1>3, <2>1 DEF MigrationTypes, IsDatabase
  <2>5. Current \in Int /\ origin.version \in Int
    BY MigrationAssumption DEF MInv
  <2>6. Committed'
    BY <1>1, <1>2, <1>4, <2>2, <2>3, <2>5
       DEF Committed, NothingLost, SchemaWhole, Migrated, AllEarly
  <2>7. Grows(p)
    BY <1>2, <1>3, <1>6, <2>1, <2>2, MigrationAssumption DEF Grows, MigrationTypes
  <2>8. Established(p)' /\ Transaction(p)'
    BY <1>1, <1>2, <1>3, <1>4, <2>1, <2>3 DEF Established, Transaction, Past
  <2> QED BY <1>1, <2>4, <2>6, <2>7, <2>8, Others DEF Keeps
<1> QED BY <1>5, <1>6

\* A process that waited in vain for another's transaction has none.
LEMMA LockedStep ==
    ASSUME MInv, NEW p \in Processes, Locked(p)
    PROVE  MInv'
<1>1. writer # p /\ GoTo(p, "failed") /\ UNCHANGED <<db, origin, writer, pending>>
  BY DEF Locked, Unlocked
<1>2. ~ Past(p, {"down", "refused"})
  BY DEF Locked, Writes, At, Past
<1> QED BY <1>1, <1>2, FailedStep DEF MInv, Established

\* A crash takes the transaction of its process and nothing committed.
LEMMA CrashStep ==
    ASSUME MInv, NEW p \in Processes, Crash(p)
    PROVE  MInv'
<1>1. /\ GoTo(p, "down") /\ "down" \in Steps /\ UNCHANGED <<db, origin, pending>>
      /\ writer' = IF writer = p THEN NoWriter ELSE writer
  BY DEF Crash, Steps
<1>2. /\ starter' = [starter EXCEPT ![p] = [at |-> "down", next |-> starter[p].next]]
      /\ [at |-> "down", next |-> starter[p].next] \in [at : Steps, next : Int]
      /\ starter'[p].at = "down"
  BY <1>1, WhereTo
<1>3. MigrationTypes'
  BY <1>1, <1>2 DEF MInv, MigrationTypes, IsDatabase
<1>4. Committed'
  BY <1>1 DEF MInv, Committed, NothingLost, SchemaWhole, Migrated
<1>5. Grows(p)
  BY <1>1, <1>2, MigrationAssumption DEF Grows
<1>6. writer' # p
  BY <1>1, MigrationAssumption
<1>7. Established(p)' /\ Transaction(p)'
  BY <1>2, <1>6 DEF Established, Transaction, Past
<1> QED BY <1>1, <1>3, <1>4, <1>5, <1>7, Others DEF Keeps

\* A process whose init_db raised is started again.
LEMMA RestartStep ==
    ASSUME MInv, NEW p \in Processes, Restart(p)
    PROVE  MInv'
<1>1. /\ starter[p].at = "failed" /\ GoTo(p, "down")
      /\ UNCHANGED <<db, origin, writer, pending>>
  BY DEF Restart, At
<1>2. writer # p
  BY <1>1 DEF MInv, Transaction, Past
<1> QED BY <1>1, <1>2, FailedStep

----------------------------------------------------------------------------
\* The invariant holds of any database a release has left.
LEMMA InitMInv ==
    ASSUME MigrationInit
    PROVE  MInv
<1>1. /\ origin \in Origins /\ db = origin /\ pending = origin /\ writer = NoWriter
      /\ starter = [p \in Processes |-> [at |-> "down", next |-> 1]]
  BY DEF MigrationInit
<1>2. MigrationTypes
  BY <1>1, MigrationAssumption DEF MigrationTypes, IsDatabase, Steps
<1>3. Committed
  BY <1>1, MigrationAssumption DEF Committed, NothingLost, SchemaWhole, Migrated
<1>4. ASSUME NEW p \in Processes PROVE Established(p) /\ Transaction(p)
  BY <1>1, MigrationAssumption DEF Established, Transaction, Past
<1> QED BY <1>1, <1>2, <1>3, <1>4 DEF MInv

\* Every statement, crash and restart keeps the invariant.
THEOREM MigrationInvariance == MigrationSpec => []MInv
<1>1. MigrationInit => MInv
  BY InitMInv
<1>2. MInv /\ [MigrationNext]_migrationVars => MInv'
  <2> SUFFICES ASSUME MInv, [MigrationNext]_migrationVars PROVE MInv'
    OBVIOUS
  <2>1. ASSUME NEW p \in Processes, Proceed(p)
        PROVE  MInv'
    BY <2>1, StartStep, CreateTableStep, ReadVersionStep, CheckColumnStep, AlterTableStep,
       CheckGapKeyStep, CreateSpareStep, CopyGapsStep, DropGapsStep, RenameSpareStep,
       BackfillStep, AddLateColumnsStep, StampVersionStep, CommitStep, RestartStep, Zenon
       DEF Proceed
  <2>2. ASSUME NEW p \in Processes, Locked(p) \/ Crash(p)
        PROVE  MInv'
    BY <2>2, LockedStep, CrashStep
  <2>3. CASE UNCHANGED migrationVars
    <3>1. UNCHANGED <<db, origin, writer, pending, starter>>
      BY <2>3 DEF migrationVars
    <3>2. MigrationTypes' /\ Committed' /\ origin' \in Origins
      BY <3>1 DEF MInv, MigrationTypes, IsDatabase, Committed, NothingLost, SchemaWhole, Migrated
    <3>3. ASSUME NEW p \in Processes
          PROVE  Established(p)' /\ Transaction(p)'
      <4>1. Established(p) /\ Transaction(p)
        BY DEF MInv
      <4>2. Established(p)'
        BY <3>1, <4>1 DEF Established, Past, ColumnsUpTo
      <4>3. Transaction(p)'
        BY <3>1, <4>1 DEF Transaction, Past
      <4> QED BY <4>2, <4>3
    <3> QED BY <3>2, <3>3 DEF MInv
  <2> QED BY <2>1, <2>2, <2>3 DEF MigrationNext
<1> QED BY <1>1, <1>2, PTL DEF MigrationSpec

----------------------------------------------------------------------------
\* An enumeration without repetition hits every element.
LEMMA EnumerationOnto ==
    ASSUME NEW S, IsFiniteSet(S), NEW f \in SetToSeqs(S)
    PROVE  f \in Bijection(1..Cardinality(S), S)
<1> DEFINE D == 1..Cardinality(S)
<1>1. Cardinality(S) \in Nat
  BY FS_CardinalityType
<1>2. f \in [D -> S] /\ \A i, j \in D : i # j => f[i] # f[j]
  BY DEF SetToSeqs
<1>3. f \in Injection(D, S)
  BY <1>2 DEF Injection, IsInjective
<1>4. Cardinality(D) = Cardinality(S)
  <2>1. 1 \in Int /\ Cardinality(S) \in Int
    BY <1>1
  <2>2. Cardinality(D) = IF 1 > Cardinality(S) THEN 0 ELSE Cardinality(S) - 1 + 1
    BY <2>1, FS_Interval
  <2> QED BY <1>1, <2>2
<1>5. f \in Surjection(D, S)
  BY <1>3, <1>4, FS_Injection
<1> QED BY <1>3, <1>5 DEF Bijection

\* Events of two logs, one after the other.
LEMMA CountConcat ==
    ASSUME NEW E, NEW a \in Seq(E), NEW b \in Seq(E), NEW e
    PROVE  Count(a \o b, e) = Count(a, e) + Count(b, e)
<1> DEFINE A == {n \in 1..Len(a) : a[n] = e}
           B == {n \in 1..Len(b) : b[n] = e}
           C == {n \in (Len(a) + 1)..(Len(a) + Len(b)) : b[n - Len(a)] = e}
           whole == a \o b
           W == {n \in DOMAIN whole : whole[n] = e}
           g == [n \in B |-> Len(a) + n]
<1>1. /\ Len(a) \in Nat /\ Len(b) \in Nat /\ DOMAIN a = 1..Len(a) /\ DOMAIN b = 1..Len(b)
      /\ DOMAIN whole = 1..(Len(a) + Len(b))
      /\ \A n \in 1..Len(a) : whole[n] = a[n]
      /\ \A n \in (Len(a) + 1)..(Len(a) + Len(b)) : whole[n] = b[n - Len(a)]
  OBVIOUS
<1>2. /\ IsFiniteSet(1..Len(a)) /\ IsFiniteSet(1..Len(b))
      /\ A \in SUBSET (1..Len(a)) /\ B \in SUBSET (1..Len(b))
  <2>1. 1 \in Int /\ Len(a) \in Int /\ Len(b) \in Int
    BY <1>1
  <2> QED BY <2>1, FS_Interval
<1>3. IsFiniteSet(A) /\ IsFiniteSet(B)
  BY <1>2, FS_Subset
<1>4. g \in Bijection(B, C)
  <2>1. \A n \in B : Len(a) + n \in C
    BY <1>1
  <2>2. \A n \in C : n - Len(a) \in B /\ Len(a) + (n - Len(a)) = n
    BY <1>1
  <2>3. \A m, n \in B : Len(a) + m = Len(a) + n => m = n
    BY <1>1
  <2> HIDE DEF B, C
  <2>4. g \in Injection(B, C)
    BY <2>1, <2>3 DEF Injection, IsInjective
  <2>5. g \in Surjection(B, C)
    BY <2>1, <2>2 DEF Surjection
  <2> QED BY <2>4, <2>5 DEF Bijection
<1>5. IsFiniteSet(C) /\ Cardinality(C) = Cardinality(B)
  BY <1>3, <1>4, FS_Bijection DEF ExistsBijection
<1>6. W = A \cup C /\ A \cap C = {}
  <2> HIDE DEF whole
  <2>1. \A n \in 1..(Len(a) + Len(b)) :
           n \in 1..Len(a) \/ n \in (Len(a) + 1)..(Len(a) + Len(b))
    BY <1>1
  <2>2. /\ 1..Len(a) \subseteq 1..(Len(a) + Len(b))
        /\ (Len(a) + 1)..(Len(a) + Len(b)) \subseteq 1..(Len(a) + Len(b))
        /\ \A n \in (Len(a) + 1)..(Len(a) + Len(b)) : n \notin 1..Len(a)
    BY <1>1
  <2>3. W = A \cup C
    BY <1>1, <2>1, <2>2
  <2> QED BY <2>2, <2>3
<1>7. Cardinality(W) = Cardinality(A) + Cardinality(C) - Cardinality(A \cap C)
  BY <1>3, <1>5, <1>6, FS_Union
<1>8. /\ Cardinality(A \cap C) = 0 /\ Cardinality(A) \in Nat /\ Cardinality(C) \in Nat
  BY <1>3, <1>5, <1>6, FS_EmptySet, FS_CardinalityType
<1>9. Count(whole, e) = Cardinality(W) /\ Count(a, e) = Cardinality(A) /\ Count(b, e) = Cardinality(B)
  BY <1>1 DEF Count
<1> HIDE DEF A, B, C, W, whole
<1>10. Cardinality(W) = Cardinality(A) + Cardinality(C)
  BY <1>7, <1>8
<1> QED BY <1>5, <1>9, <1>10 DEF whole

\* What the backfill appends has one event for each row.
LEMMA CountTail ==
    ASSUME NEW rows, IsFiniteSet(rows), NEW f \in Bijection(1..Cardinality(rows), rows), NEW e
    PROVE  Count([n \in 1..Cardinality(rows) |-> EventOf(f[n])], e)
              = Cardinality({r \in rows : EventOf(r) = e})
<1> DEFINE D == 1..Cardinality(rows)
           A == {n \in D : EventOf(f[n]) = e}
           B == {r \in rows : EventOf(r) = e}
           g == [n \in A |-> f[n]]
           tail == [n \in D |-> EventOf(f[n])]
<1>1. f \in [D -> rows] /\ \A m, n \in D : f[m] = f[n] => m = n
  BY DEF Bijection, Injection, IsInjective
<1>2. \A r \in rows : \E n \in D : f[n] = r
  BY DEF Bijection, Surjection
<1>3. IsFiniteSet(A)
  <2>1. 1 \in Int /\ Cardinality(rows) \in Int
    BY FS_CardinalityType
  <2>2. IsFiniteSet(D) /\ A \in SUBSET D
    BY <2>1, FS_Interval
  <2> QED BY <2>2, FS_Subset
<1> HIDE DEF D
<1>4. g \in Injection(A, B)
  BY <1>1 DEF Injection, IsInjective
<1>5. g \in Surjection(A, B)
  <2>1. g \in [A -> B]
    BY <1>1
  <2>2. \A r \in B : \E n \in A : g[n] = r
    BY <1>2
  <2> QED BY <2>1, <2>2 DEF Surjection
<1>6. Cardinality(B) = Cardinality(A)
  BY <1>3, <1>4, <1>5, FS_Bijection DEF ExistsBijection, Bijection
<1>7. Count(tail, e) = Cardinality(A)
  <2>1. DOMAIN tail = D /\ \A n \in D : tail[n] = EventOf(f[n])
    OBVIOUS
  <2>2. {n \in DOMAIN tail : tail[n] = e} = A
    BY <2>1
  <2> QED BY <2>2 DEF Count
<1> QED BY <1>6, <1>7 DEF D

\* The rows of a register are enumerated in the order of their times and ids.
LEMMA ChronologicalIs ==
    ASSUME NEW rows, IsFiniteSet(rows), \A r \in rows : r.at \in Int /\ r.id \in Int,
           \A r, s \in rows : r.id = s.id => r = s
    PROVE  Chronological(rows) \in Bijection(1..Cardinality(rows), rows)
<1> DEFINE R == {p \in rows \X rows : Earlier(p[1], p[2])}
           D == 1..Cardinality(rows)
<1>1. \A r, s \in rows : <<r, s>> \in R <=> Earlier(r, s)
  OBVIOUS
<1>2. \A r, s \in rows : r = s \/ Earlier(r, s) \/ Earlier(s, r)
  BY DEF Earlier
<1>3. \A r, s, t \in rows : Earlier(r, s) /\ Earlier(s, t) => Earlier(r, t)
  BY DEF Earlier
<1>4. \A r \in rows : ~ Earlier(r, r)
  BY DEF Earlier
<1> HIDE DEF R
<1>5. \E f \in [D -> rows] : \A i, j \in D : i < j => <<f[i], f[j]>> \in R
  <2>1. \A r, s \in rows : r = s \/ <<r, s>> \in R \/ <<s, r>> \in R
    BY <1>1, <1>2
  <2>2. \A r, s, t \in rows : <<r, s>> \in R /\ <<s, t>> \in R => <<r, t>> \in R
    BY <1>1, <1>3
  <2> QED BY <2>1, <2>2, SortedExists
<1>6. PICK f \in [D -> rows] : \A i, j \in D : i < j => Earlier(f[i], f[j])
  BY <1>1, <1>5
<1>7. f \in SetToSeqs(rows)
  <2>1. ASSUME NEW i \in D, NEW j \in D, i # j
        PROVE  f[i] # f[j]
    <3>1. i < j \/ j < i
      BY <2>1
    <3>2. Earlier(f[i], f[j]) \/ Earlier(f[j], f[i])
      BY <1>6, <3>1
    <3> QED BY <1>4, <1>6, <3>2
  <2> QED BY <1>6, <2>1 DEF SetToSeqs
<1>8. DOMAIN f = D
  BY <1>6
<1>9. Chronological(rows) \in SetToSeqs(rows)
  BY <1>6, <1>7, <1>8 DEF Chronological
<1> QED BY <1>9, EnumerationOnto

----------------------------------------------------------------------------
\* The events there can be.
EventsSeen == {EventOf(r) : r \in origin.register} \cup Range(origin.log)

\* A log as it is stored: as it was, or with the register carried over.
Logged(log) == log \in Seq(EventsSeen) /\ (log = origin.log \/ CarriedOver(log))

\* What there is of the register when the log begins.
LEMMA Registered ==
    ASSUME origin \in Origins
    PROVE  /\ IsFiniteSet(origin.register) /\ IsFiniteSet(Linked)
           /\ \A r \in origin.register : r.at \in Int /\ r.id \in Int
           /\ \A r, s \in origin.register : r.id = s.id => r = s
           /\ Linked \subseteq origin.register
           /\ origin.log \in Seq(EventsSeen)
<1>1. Linked \subseteq origin.register
  BY DEF Linked
<1>2. IsFiniteSet(origin.register) /\ origin.log \in Seq(Range(origin.log))
  BY MigrationAssumption
<1>3. Range(origin.log) \subseteq EventsSeen
  BY DEF EventsSeen
<1>4. origin.log \in Seq(EventsSeen)
  BY <1>2, <1>3
<1> QED BY <1>1, <1>2, <1>4, FS_Subset, MigrationAssumption

\* An event is in a log when it is counted there.
LEMMA CountedIsThere ==
    ASSUME NEW E, NEW log \in Seq(E), NEW e
    PROVE  /\ Count(log, e) \in Nat
           /\ Count(log, e) > 0 <=> Contains(log, e)
<1> DEFINE A == {n \in DOMAIN log : log[n] = e}
<1>1. Len(log) \in Nat /\ DOMAIN log = 1..Len(log)
  OBVIOUS
<1>2. IsFiniteSet(A)
  <2>1. 1 \in Int /\ Len(log) \in Int
    BY <1>1
  <2>2. IsFiniteSet(1..Len(log)) /\ A \in SUBSET (1..Len(log))
    BY <1>1, <2>1, FS_Interval
  <2> QED BY <2>2, FS_Subset
<1>3. Cardinality(A) \in Nat /\ (Cardinality(A) = 0 <=> A = {})
  BY <1>2, FS_EmptySet, FS_CardinalityType
<1>4. A # {} <=> Contains(log, e)
  BY <1>1 DEF Contains
<1> HIDE DEF A
<1>5. Cardinality(A) > 0 <=> A # {}
  BY <1>3
<1> QED BY <1>3, <1>4, <1>5 DEF A, Count

\* A register whose events are all in the log has nothing left to write.
LEMMA NothingLeft ==
    ASSUME origin \in Origins, NEW log \in Seq(EventsSeen), CarriedOver(log), NEW r \in Linked
    PROVE  Contains(log, EventOf(r))
<1> DEFINE e == EventOf(r)
           same == {s \in Linked : EventOf(s) = e}
<1>1. IsFiniteSet(Linked) /\ origin.log \in Seq(EventsSeen)
  BY Registered
<1>2. IsFiniteSet(same) /\ r \in same
  BY <1>1, FS_Subset
<1>3. Cardinality(same) \in Nat /\ Cardinality(same) # 0
  BY <1>2, FS_CardinalityType, FS_EmptySet
<1>4. Count(origin.log, e) \in Nat
  BY <1>1, CountedIsThere
<1>5. Count(log, e) = IF Count(origin.log, e) > 0 THEN Count(origin.log, e) ELSE Cardinality(same)
  BY DEF CarriedOver
<1> HIDE DEF same, e
<1>6. Count(log, e) > 0
  BY <1>3, <1>4, <1>5
<1>7. Contains(log, e)
  BY <1>6, CountedIsThere
<1> QED BY <1>7 DEF e

\* Nothing is appended for no rows.
LEMMA NoRows ==
    ASSUME NEW E, NEW log \in Seq(E), NEW f
    PROVE  log \o [n \in 1..Cardinality({}) |-> EventOf(f[n])] = log
<1> DEFINE tail == [n \in 1..Cardinality({}) |-> EventOf(f[n])]
<1>1. tail = <<>>
  <2>1. 1..Cardinality({}) = {}
    BY FS_EmptySet
  <2> QED BY <2>1
<1> HIDE DEF tail
<1>2. log \o tail = log
  BY <1>1
<1> QED BY <1>2 DEF tail

\* The first backfill carries every decision over, and the second adds none.
LEMMA BackfillCarries ==
    ASSUME origin \in Origins, NEW d, IsDatabase(d), d.findings = origin.findings,
           d.register = origin.register, Logged(d.log)
    PROVE  Backfilled(d).log \in Seq(EventsSeen) /\ CarriedOver(Backfilled(d).log)
<1> DEFINE log == d.log
           rows == {r \in Linked : ~ Contains(log, EventOf(r))}
           order == Chronological(rows)
           tail == [n \in 1..Cardinality(rows) |-> EventOf(order[n])]
<1>1. Backfilled(d).log = log \o tail
  <2>1. rows = {r \in d.register : r.finding \in d.findings /\ ~ Contains(d.log, EventOf(r))}
    BY DEF Linked
  <2>2. Backfilled(d) = [d EXCEPT !.log = log \o tail]
    BY <2>1 DEF Backfilled
  <2>3. \A x : [d EXCEPT !.log = x].log = x
    BY DEF IsDatabase, Parts
  <2> HIDE DEF tail
  <2> QED BY <2>2, <2>3
<1>2. log \in Seq(EventsSeen) /\ (log = origin.log \/ CarriedOver(log))
  BY DEF Logged
<1>3. /\ IsFiniteSet(rows) /\ rows \subseteq origin.register /\ rows \subseteq Linked
      /\ \A r \in rows : r.at \in Int /\ r.id \in Int
      /\ \A r, s \in rows : r.id = s.id => r = s
  BY Registered, FS_Subset
<1>4. order \in Bijection(1..Cardinality(rows), rows)
  <2> HIDE DEF rows
  <2> QED BY <1>3, ChronologicalIs
<1>5. Cardinality(rows) \in Nat
  BY <1>3, FS_CardinalityType
<1>6. tail \in Seq(EventsSeen)
  <2>1. \A n \in 1..Cardinality(rows) : order[n] \in rows
    BY <1>4 DEF Bijection, Injection
  <2>2. \A n \in 1..Cardinality(rows) : EventOf(order[n]) \in EventsSeen
    BY <1>3, <2>1 DEF EventsSeen
  <2> HIDE DEF rows, order
  <2> QED BY <1>5, <2>2
<1> HIDE DEF log
<1>7. log \o tail \in Seq(EventsSeen)
  BY <1>2, <1>6
<1>8. CASE CarriedOver(log)
  <2>1. rows = {}
    BY <1>2, <1>8, NothingLeft
  <2>2. log \o tail = log
    BY <1>2, <2>1, NoRows
  <2> QED BY <1>1, <1>7, <1>8, <2>2
<1>9. CASE log = origin.log
  <2>1. IsPrefix(origin.log, log \o tail)
    <3> HIDE DEF tail
    <3>1. /\ Len(log \o tail) = Len(log) + Len(tail) /\ Len(log) \in Nat /\ Len(tail) \in Nat
          /\ \A n \in 1..Len(log) : (log \o tail)[n] = log[n]
      BY <1>2, <1>6
    <3>2. SubSeq(log, 1, Len(log)) = SubSeq(log \o tail, 1, Len(log))
      BY <1>2, <1>7, <3>1
    <3> QED BY <1>9, <3>1, <3>2 DEF IsPrefix
  <2>2. ASSUME NEW e
        PROVE  Count(log \o tail, e) =
                  IF Count(origin.log, e) > 0 THEN Count(origin.log, e)
                  ELSE Cardinality({r \in Linked : EventOf(r) = e})
    <3> DEFINE mine == {r \in rows : EventOf(r) = e}
               all == {r \in Linked : EventOf(r) = e}
    <3>1. Count(log \o tail, e) = Count(log, e) + Count(tail, e)
      <4> HIDE DEF tail
      <4> QED BY <1>2, <1>6, CountConcat
    <3>2. Count(tail, e) = Cardinality(mine)
      <4> HIDE DEF rows, order
      <4> QED BY <1>3, <1>4, CountTail
    <3>3. Count(log, e) \in Nat /\ (Count(log, e) > 0 <=> Contains(log, e))
      BY <1>2, CountedIsThere
    <3>4. Cardinality(mine) \in Nat /\ Cardinality({}) = 0
      <4>1. IsFiniteSet(mine)
        BY <1>3, FS_Subset
      <4> QED BY <4>1, FS_CardinalityType, FS_EmptySet
    <3>5. CASE Contains(log, e)
      <4>1. mine = {}
        BY <3>5
      <4> HIDE DEF mine, all, tail
      <4>2. Count(log \o tail, e) = Count(log, e)
        BY <3>1, <3>2, <3>3, <3>4, <4>1
      <4> QED BY <1>9, <3>3, <3>5, <4>2
    <3>6. CASE ~ Contains(log, e)
      <4>1. mine = all
        BY <3>6
      <4> HIDE DEF mine, tail
      <4>2. Count(log, e) = 0
        BY <3>3, <3>6
      <4>3. Count(log \o tail, e) = Cardinality(mine)
        BY <3>1, <3>2, <3>4, <4>2
      <4> QED BY <1>9, <4>1, <4>2, <4>3
    <3> QED BY <3>5, <3>6
  <2> HIDE DEF tail
  <2>3. CarriedOver(log \o tail)
    BY <2>1, <2>2 DEF CarriedOver
  <2> QED BY <1>1, <1>7, <2>3
<1> QED BY <1>2, <1>8, <1>9

----------------------------------------------------------------------------
\* What p has made of the log in its transaction.
OpenLog(p) ==
    writer = p =>
        /\ pending.findings = origin.findings
        /\ Past(p, {"drop", "rename", "backfill"}) => pending.log = db.log
        /\ Past(p, {"late", "stamp", "commit"}) =>
              pending.log \in Seq(EventsSeen) /\ CarriedOver(pending.log)

LogInv ==
    /\ db.findings = origin.findings /\ Logged(db.log)
    /\ Migrated => CarriedOver(db.log)
    /\ \A p \in Processes : OpenLog(p)

\* A step outside a transaction, or the end of one, leaves the log alone.
LEMMA OutsideStep ==
    ASSUME LogInv, NEW p \in Processes, writer' # p, writer' \in {writer, NoWriter},
           \A q \in Processes \ {p} : starter'[q] = starter[q],
           UNCHANGED <<origin, pending>>, db'.log = db.log, db'.findings = db.findings,
           db'.version = db.version
    PROVE  LogInv'
<1>1. /\ CarriedOver(db.log) => CarriedOver(db.log)'
      /\ Logged(db.log) => Logged(db.log)'
  BY DEF CarriedOver, Linked, Logged, EventsSeen
<1>2. ASSUME NEW q \in Processes
      PROVE  OpenLog(q)'
  <2> SUFFICES ASSUME writer' = q PROVE OpenLog(q)'
    BY DEF OpenLog
  <2>1. q # p /\ writer = q /\ starter'[q] = starter[q] /\ OpenLog(q)
    BY MigrationAssumption DEF LogInv
  <2> QED BY <2>1 DEF OpenLog, Past, CarriedOver, Linked, EventsSeen
<1> QED BY <1>1, <1>2 DEF LogInv, Migrated

\* So does a step in one, but for what it has made of the log itself.
LEMMA InsideStep ==
    ASSUME LogInv, NEW p \in Processes, writer' = p, UNCHANGED <<db, origin>>, OpenLog(p)'
    PROVE  LogInv'
<1>1. /\ CarriedOver(db.log) => CarriedOver(db.log)'
      /\ Logged(db.log) => Logged(db.log)'
  BY DEF CarriedOver, Linked, Logged, EventsSeen
<1>2. ASSUME NEW q \in Processes
      PROVE  OpenLog(q)'
  BY DEF OpenLog
<1> QED BY <1>1, <1>2 DEF LogInv, Migrated

\* A step that begins when p has no transaction.
LEMMA NoTransaction ==
    ASSUME MInv, NEW p \in Processes,
           ~ Past(p, {"drop", "rename", "backfill", "late", "stamp", "commit"})
    PROVE  writer # p
BY DEF MInv, Transaction

\* Only p moves.
LEMMA OnlyMoves ==
    ASSUME MInv, NEW p \in Processes, NEW step, GoTo(p, step)
    PROVE  /\ \A q \in Processes \ {p} : starter'[q] = starter[q]
           /\ starter'[p].at = step
<1>1. starter \in [Processes -> [at : Steps, next : Int]]
  BY DEF MInv, MigrationTypes
<1>2. starter[p] \in [at : Steps, next : Int]
  BY <1>1
<1>3. [starter[p] EXCEPT !.at = step].at = step
  BY <1>2
<1>4. starter' = [starter EXCEPT ![p] = [starter[p] EXCEPT !.at = step]]
  BY DEF GoTo
<1> QED BY <1>1, <1>3, <1>4, Zenon

\* The steps before the transaction and after it, and those that fail.
LEMMA OutsideSteps ==
    ASSUME MInv, LogInv, NEW p \in Processes,
           \/ Start(p) \/ CreateTable(p) \/ ReadVersion(p) \/ CheckColumn(p) \/ AlterTable(p)
           \/ CheckGapKey(p) \/ CreateSpare(p) \/ Locked(p) \/ Crash(p) \/ Restart(p)
    PROVE  LogInv'
<1>1. /\ IsDatabase(db) /\ starter \in [Processes -> [at : Steps, next : Int]]
      /\ p # NoWriter /\ writer \in Processes \cup {NoWriter}
  BY MigrationAssumption DEF MInv, MigrationTypes
<1>2. CASE Start(p)
  <2>1. writer # p
    BY <1>2, NoTransaction DEF Start, At, Past
  <2> QED BY <1>1, <1>2, <2>1, OutsideStep DEF Start
<1>3. CASE CreateTable(p)
  <2>1. writer # p
    BY <1>3, NoTransaction DEF CreateTable, At, Past
  <2>2. /\ db'.log = db.log /\ db'.findings = db.findings /\ db'.version = db.version
        /\ UNCHANGED <<origin, writer, pending, starter>>
    BY <1>1, <1>3 DEF CreateTable, IsDatabase, Parts
  <2> QED BY <2>1, <2>2, OutsideStep
<1>4. CASE ReadVersion(p)
  <2>1. writer # p
    BY <1>4, NoTransaction DEF ReadVersion, At, Past
  <2> QED BY <1>4, <2>1, OnlyMoves, OutsideStep DEF ReadVersion
<1>5. CASE CheckColumn(p)
  <2>1. writer # p
    BY <1>5, NoTransaction DEF CheckColumn, At, Past
  <2>2. \A q \in Processes \ {p} : starter'[q] = starter[q]
    BY <1>1, <1>5 DEF CheckColumn, GoTo
  <2> QED BY <1>5, <2>1, <2>2, OutsideStep DEF CheckColumn
<1>6. CASE AlterTable(p)
  <2>1. writer # p
    BY <1>6, NoTransaction DEF AlterTable, At, Past
  <2>2. \A q \in Processes \ {p} : starter'[q] = starter[q]
    BY <1>1, <1>6 DEF AlterTable, GoTo
  <2>3. db'.log = db.log /\ db'.findings = db.findings /\ db'.version = db.version
    BY <1>1, <1>6 DEF AlterTable, IsDatabase, Parts
  <2>4. UNCHANGED <<origin, writer, pending>>
    BY <1>6 DEF AlterTable
  <2> QED BY <2>1, <2>2, <2>3, <2>4, OutsideStep
<1>7. CASE CheckGapKey(p)
  <2>1. writer # p
    BY <1>7, NoTransaction DEF CheckGapKey, At, Past
  <2> QED BY <1>7, <2>1, OnlyMoves, OutsideStep DEF CheckGapKey
<1>8. CASE CreateSpare(p)
  <2>1. writer # p
    BY <1>8, NoTransaction DEF CreateSpare, At, Past
  <2>2. /\ db'.log = db.log /\ db'.findings = db.findings /\ db'.version = db.version
        /\ UNCHANGED <<origin, writer, pending>> /\ GoTo(p, "copy")
    BY <1>1, <1>8 DEF CreateSpare, IsDatabase, Parts
  <2> QED BY <2>1, <2>2, OnlyMoves, OutsideStep
<1>9. CASE Locked(p)
  <2>1. writer # p
    BY <1>9 DEF Locked, Unlocked
  <2> QED BY <1>9, <2>1, OnlyMoves, OutsideStep DEF Locked
<1>10. CASE Crash(p)
  BY <1>1, <1>10, OnlyMoves, OutsideStep DEF Crash
<1>11. CASE Restart(p)
  <2>1. writer # p
    BY <1>11, NoTransaction DEF Restart, At, Past
  <2> QED BY <1>11, <2>1, OnlyMoves, OutsideStep DEF Restart
<1> QED BY <1>2, <1>3, <1>4, <1>5, <1>6, <1>7, <1>8, <1>9, <1>10, <1>11

\* The steps of the transaction before its end.
LEMMA InsideSteps ==
    ASSUME MInv, LogInv, NEW p \in Processes,
           \/ CopyGaps(p) \/ DropGaps(p) \/ RenameSpare(p) \/ BackfillLog(p)
           \/ AddLateColumns(p) \/ StampVersion(p)
    PROVE  LogInv'
<1>1. /\ IsDatabase(db) /\ IsDatabase(pending) /\ starter \in [Processes -> [at : Steps, next : Int]]
      /\ origin \in Origins /\ db.register = origin.register /\ Established(p) /\ Transaction(p)
  BY DEF MInv, MigrationTypes, Committed, NothingLost
<1>2. db.findings = origin.findings /\ Logged(db.log) /\ OpenLog(p)
  BY DEF LogInv
<1>3. CASE CopyGaps(p)
  <2>1. writer # p
    BY <1>3, NoTransaction DEF CopyGaps, At, Past
  <2>2. CASE db.spare
    <3>1. /\ writer' = p /\ UNCHANGED <<db, origin>> /\ GoTo(p, "drop")
          /\ pending'.findings = db.findings /\ pending'.log = db.log
      BY <1>1, <1>3, <2>2 DEF CopyGaps, IsDatabase, Parts
    <3>2. starter'[p].at = "drop"
      BY <3>1, OnlyMoves
    <3> QED BY <1>2, <3>1, <3>2, InsideStep DEF OpenLog, Past
  <2>3. CASE ~ db.spare
    BY <1>3, <2>1, <2>3, OnlyMoves, OutsideStep DEF CopyGaps
  <2> QED BY <2>2, <2>3
<1>4. CASE DropGaps(p)
  <2>1. writer = p /\ starter[p].at = "drop"
    BY <1>1, <1>4 DEF DropGaps, At, Established, Past
  <2>2. /\ writer' = p /\ UNCHANGED <<db, origin>> /\ GoTo(p, "rename")
        /\ pending'.findings = pending.findings /\ pending'.log = pending.log
    BY <1>1, <1>4, <2>1 DEF DropGaps, IsDatabase, Parts
  <2>3. starter'[p].at = "rename"
    BY <2>2, OnlyMoves
  <2> QED BY <1>2, <2>1, <2>2, <2>3, InsideStep DEF OpenLog, Past
<1>5. CASE RenameSpare(p)
  <2>1. writer = p /\ starter[p].at = "rename"
    BY <1>1, <1>5 DEF RenameSpare, At, Established, Past
  <2>2. /\ writer' = p /\ UNCHANGED <<db, origin>> /\ GoTo(p, "backfill")
        /\ pending'.findings = pending.findings /\ pending'.log = pending.log
    BY <1>1, <1>5, <2>1 DEF RenameSpare, IsDatabase, Parts
  <2>3. starter'[p].at = "backfill"
    BY <2>2, OnlyMoves
  <2> QED BY <1>2, <2>1, <2>2, <2>3, InsideStep DEF OpenLog, Past
<1>6. CASE BackfillLog(p)
  <2> DEFINE old == View(p)
  <2>1. /\ starter[p].at = "backfill" /\ writer' = p /\ pending' = Backfilled(old)
        /\ UNCHANGED <<db, origin>> /\ GoTo(p, "late")
    BY <1>6 DEF BackfillLog, At
  <2>2. /\ IsDatabase(old) /\ old.findings = origin.findings /\ old.register = origin.register
        /\ old.log = db.log
    <3>1. CASE writer = p
      BY <1>1, <1>2, <2>1, <3>1 DEF View, OpenLog, Transaction, Past
    <3>2. CASE writer # p
      BY <1>1, <1>2, <3>2 DEF View
    <3> QED BY <3>1, <3>2
  <2> HIDE DEF old
  <2>3. pending'.log \in Seq(EventsSeen) /\ CarriedOver(pending'.log)
    BY <1>1, <1>2, <2>1, <2>2, BackfillCarries
  <2>4. pending'.findings = origin.findings
    <3>1. \E log : pending' = [old EXCEPT !.log = log]
      BY <2>1 DEF Backfilled
    <3> QED BY <2>2, <3>1 DEF IsDatabase, Parts
  <2>5. starter'[p].at = "late"
    BY <2>1, OnlyMoves
  <2>6. (pending.log \in Seq(EventsSeen))' /\ CarriedOver(pending.log)'
    <3>1. origin' = origin
      BY <2>1
    <3> QED BY <2>3, <3>1 DEF CarriedOver, Linked, EventsSeen
  <2> QED BY <2>1, <2>4, <2>5, <2>6, InsideStep DEF OpenLog, Past
<1>7. CASE AddLateColumns(p)
  <2>1. writer = p /\ starter[p].at = "late"
    BY <1>1, <1>7 DEF AddLateColumns, At, Established, Past
  <2>2. /\ writer' = p /\ UNCHANGED <<db, origin>> /\ GoTo(p, "stamp")
        /\ pending'.findings = pending.findings /\ pending'.log = pending.log
    BY <1>1, <1>7, <2>1 DEF AddLateColumns, IsDatabase, Parts
  <2>3. starter'[p].at = "stamp"
    BY <2>2, OnlyMoves
  <2>4. (pending.log \in Seq(EventsSeen))' /\ CarriedOver(pending.log)'
    BY <1>2, <2>1, <2>2 DEF OpenLog, Past, CarriedOver, Linked, EventsSeen
  <2> QED BY <1>2, <2>1, <2>2, <2>3, <2>4, InsideStep DEF OpenLog, Past
<1>8. CASE StampVersion(p)
  <2>1. starter[p].at = "stamp" /\ UNCHANGED <<origin, writer>> /\ GoTo(p, "commit")
    BY <1>8 DEF StampVersion, At
  <2>2. starter'[p].at = "commit"
    BY <2>1, OnlyMoves
  <2>3. CASE writer = p
    <3>1. /\ UNCHANGED db /\ pending'.findings = pending.findings
          /\ pending'.log = pending.log
      BY <1>1, <1>8, <2>3 DEF StampVersion, IsDatabase, Parts
    <3>2. (pending.log \in Seq(EventsSeen))' /\ CarriedOver(pending.log)'
      BY <1>2, <2>1, <2>3, <3>1 DEF OpenLog, Past, CarriedOver, Linked, EventsSeen
    <3> QED BY <1>2, <2>1, <2>2, <2>3, <3>1, <3>2, InsideStep DEF OpenLog, Past
  <2>4. CASE writer # p
    <3>1. db.version = Current
      BY <1>1, <2>1, <2>4 DEF Established, Past
    <3>2. /\ db'.log = db.log /\ db'.findings = db.findings /\ db'.version = db.version
          /\ UNCHANGED pending
      BY <1>1, <1>8, <2>4, <3>1 DEF StampVersion, IsDatabase, Parts
    <3> QED BY <2>1, <2>4, <3>2, OnlyMoves, OutsideStep
  <2> QED BY <2>3, <2>4
<1> QED BY <1>3, <1>4, <1>5, <1>6, <1>7, <1>8

\* What is committed has the register carried over.
LEMMA CommitLog ==
    ASSUME MInv, LogInv, NEW p \in Processes, CommitMigration(p)
    PROVE  LogInv'
<1>1. /\ starter[p].at = "commit" /\ UNCHANGED <<origin, pending>> /\ GoTo(p, "ready")
      /\ db' = View(p) /\ writer' = IF writer = p THEN NoWriter ELSE writer
  BY DEF CommitMigration, At
<1>2. p # NoWriter /\ OpenLog(p)
  BY MigrationAssumption DEF LogInv
<1>3. CASE writer # p
  BY <1>1, <1>3, OnlyMoves, OutsideStep DEF View
<1>4. CASE writer = p
  <2>1. /\ db' = pending /\ pending.findings = origin.findings
        /\ pending.log \in Seq(EventsSeen) /\ CarriedOver(pending.log)
    BY <1>1, <1>2, <1>4 DEF View, OpenLog, Past
  <2>2. (db.log \in Seq(EventsSeen))' /\ CarriedOver(db.log)'
    BY <1>1, <2>1 DEF CarriedOver, Linked, EventsSeen
  <2>3. ASSUME NEW q \in Processes
        PROVE  OpenLog(q)'
    BY <1>1, <1>4, MigrationAssumption DEF OpenLog
  <2> QED BY <1>1, <2>1, <2>2, <2>3 DEF LogInv, Logged
<1> QED BY <1>3, <1>4

\* Whatever processes migrate one database together, and wherever they die: no
\* row is lost and no part of the last transaction is seen before the version
\* is current, and a database migrated to it has its whole schema and each of
\* the old register's decisions once in the event log.
THEOREM MigrationWhole == MigrationSpec => []MigratedWhole
<1>1. MigrationInit => LogInv
  <2> SUFFICES ASSUME MigrationInit PROVE LogInv
    OBVIOUS
  <2>1. db = origin /\ origin \in Origins /\ writer = NoWriter
    BY DEF MigrationInit
  <2> QED BY <2>1, Registered, MigrationAssumption DEF LogInv, Logged, Migrated, OpenLog
<1>2. MInv /\ LogInv /\ [MigrationNext]_migrationVars => LogInv'
  <2> SUFFICES ASSUME MInv, LogInv, [MigrationNext]_migrationVars PROVE LogInv'
    OBVIOUS
  <2>1. ASSUME NEW p \in Processes, Proceed(p) \/ Locked(p) \/ Crash(p)
        PROVE  LogInv'
    BY <2>1, OutsideSteps, InsideSteps, CommitLog, Zenon DEF Proceed
  <2>2. CASE UNCHANGED migrationVars
    <3>1. UNCHANGED <<db, origin, writer, pending, starter>>
      BY <2>2 DEF migrationVars
    <3>2. /\ CarriedOver(db.log) => CarriedOver(db.log)'
          /\ Logged(db.log) => Logged(db.log)'
      BY <3>1 DEF CarriedOver, Linked, Logged, EventsSeen
    <3>3. ASSUME NEW q \in Processes
          PROVE  OpenLog(q)'
      <4>1. OpenLog(q)
        BY DEF LogInv
      <4>2. /\ CarriedOver(pending.log) => CarriedOver(pending.log)'
            /\ pending.log \in Seq(EventsSeen) => (pending.log \in Seq(EventsSeen))'
        BY <3>1 DEF CarriedOver, Linked, EventsSeen
      <4> QED BY <3>1, <4>1, <4>2 DEF OpenLog, Past
    <3> QED BY <3>1, <3>2, <3>3 DEF LogInv, Migrated
  <2> QED BY <2>1, <2>2 DEF MigrationNext
<1>3. MInv /\ LogInv => MigratedWhole
  BY DEF MInv, Committed, LogInv, MigratedWhole, LogCarriedOver
<1> QED BY <1>1, <1>2, <1>3, MigrationInvariance, PTL DEF MigrationSpec

----------------------------------------------------------------------------
(* WebServer, for any limits, windows, requests and interval of the        *)
(* cleaning up: the limiter is the sliding window it stands for.           *)
(*                                                                         *)
(* What the limiter keeps of a client is the end of what it let through,   *)
(* and the rest is too old to count: an eviction and a filtering take off  *)
(* nothing else, and neither the clock nor another client bring it back.   *)

\* The times in ascending order, and s what is left of whole after its first m.
Ascending(s) == \A i, j \in 1..Len(s) : i =< j => s[i] =< s[j]

IsTail(s, whole, m) ==
    /\ m \in 0..Len(whole) /\ Len(s) = Len(whole) - m
    /\ \A i \in 1..Len(s) : s[i] = whole[m + i]

TimesOf(l, c) == IF c \in DOMAIN times[l] THEN times[l][c] ELSE <<>>

\* s has the last of the times that are kept for c; those before it are stale.
Covers(s, l, c) ==
    /\ s \in Seq(Nat) /\ Len(s) =< Limits[l].max
    /\ \E m \in 0..Len(admitted[l][c]) :
          /\ IsTail(s, admitted[l][c], m)
          /\ \A i \in 1..m : admitted[l][c][i] =< now - Limits[l].window

ServerTypes ==
    /\ now \in 0..MaxTicks
    /\ admitted \in [DOMAIN Limits -> [Clients -> Seq(Nat)]]
    /\ checks \in [DOMAIN Limits -> 0..(CleanupInterval - 1)]
    /\ times = [l \in DOMAIN Limits |-> times[l]]
    /\ \A l \in DOMAIN Limits :
          DOMAIN times[l] \subseteq Clients /\ times[l] = [c \in DOMAIN times[l] |-> times[l][c]]

\* Those let through in the window that ends at t.
Window(l, c, t) ==
    {n \in DOMAIN admitted[l][c] : admitted[l][c][n] \in (t - Limits[l].window + 1)..t}

Passed(l, c) ==
    /\ Ascending(admitted[l][c])
    /\ \A i \in 1..Len(admitted[l][c]) : admitted[l][c][i] =< now
    /\ \A t \in 0..now : Cardinality(Window(l, c, t)) =< Limits[l].max

\* A refusal: the m-th was the oldest in the window, and the limit is reached.
RefusedBy(l, c, m) ==
    LET a == admitted[l][c]
    IN /\ Len(a) - m + 1 = Limits[l].max
       /\ a[m] > last.at - Limits[l].window
       /\ \A i \in 1..m - 1 : a[i] =< last.at - Limits[l].window
       /\ last.retry = (a[m] + Limits[l].window - last.at) \div TicksPerSecond + 1

Refused(l, c) ==
    last.status = 429 /\ LimiterOf(last.req) = l /\ last.req.client = c =>
        /\ last.at \in 0..now
        /\ \E m \in 1..Len(admitted[l][c]) : RefusedBy(l, c, m)

LInv ==
    /\ ServerTypes
    /\ \A l \in DOMAIN Limits, c \in Clients :
          Covers(TimesOf(l, c), l, c) /\ Passed(l, c) /\ Refused(l, c)

----------------------------------------------------------------------------
\* What a sequence of numbers is made of.
LEMMA Times ==
    ASSUME NEW s \in Seq(Nat)
    PROVE  DOMAIN s = 1..Len(s) /\ Len(s) \in Nat /\ \A i \in 1..Len(s) : s[i] \in Nat
OBVIOUS

\* The largest of some numbers is one of them.
LEMMA MaxChosen ==
    ASSUME NEW n \in Nat, NEW T \in SUBSET (1..n), T # {}
    PROVE  Max(T) \in T /\ \A y \in T : y =< Max(T)
<1>1. \E x \in T : \A y \in T : x >= y
  BY HighestExists
<1>2. Max(T) \in T /\ \A y \in T : Max(T) >= y
  BY <1>1 DEF Max
<1>3. \A y \in T : y \in Int
  OBVIOUS
<1> QED BY <1>2, <1>3

\* The filtering takes the times one by one, from the first to the last.
LEMMA FreshFolds ==
    ASSUME NEW s \in Seq(Nat), NEW cutoff \in Int
    PROVE  \E f \in [SUBSET (1..Len(s)) -> Seq(Nat)] :
              /\ f[1..Len(s)] = Fresh(s, cutoff)
              /\ f[{}] = <<>>
              /\ \A T \in SUBSET (1..Len(s)) :
                    T # {} => f[T] = IF s[Max(T)] > cutoff THEN Append(f[T \ {Max(T)}], s[Max(T)])
                                     ELSE f[T \ {Max(T)}]
<1> DEFINE S == 1..Len(s)
           choose == [T \in SUBSET S |-> Max(T)]
           After(x, i) == IF s[i] > cutoff THEN Append(x, s[i]) ELSE x
           step == [i \in S |-> [x \in Seq(Nat) |-> After(x, i)]]
           Equation(f) == f = [T \in SUBSET S |-> IF T = {} THEN <<>>
                                 ELSE After(f[T \ {Max(T)}], Max(T))]
<1>1. IsFiniteSet(S) /\ Len(s) \in Nat /\ DOMAIN s = S
  BY FS_Interval
<1>2. Chooses(choose, S)
  BY <1>1, MaxChosen DEF Chooses
<1>3. step \in [S -> [Seq(Nat) -> Seq(Nat)]]
  OBVIOUS
<1>4. <<>> \in Seq(Nat)
  OBVIOUS
<1>5. PICK f \in [SUBSET S -> Seq(Nat)] : IsFold(f, S, <<>>, choose, step)
  <2> HIDE DEF S, choose, step, Equation
  <2> QED BY <1>1, <1>2, <1>3, <1>4, FoldExists, Zenon
<1>6. \A T \in SUBSET S : f[T] = IF T = {} THEN <<>> ELSE After(f[T \ {Max(T)}], Max(T))
  <2> SUFFICES ASSUME NEW T \in SUBSET S, T # {}
               PROVE  f[T] = After(f[T \ {Max(T)}], Max(T))
    BY <1>5 DEF IsFold
  <2>1. choose[T] = Max(T) /\ Max(T) \in S /\ f[T \ {Max(T)}] \in Seq(Nat)
    BY <1>2 DEF Chooses
  <2>2. f[T] = step[Max(T)][f[T \ {Max(T)}]]
    BY <1>5, <2>1 DEF IsFold
  <2> HIDE DEF S, choose, After
  <2> QED BY <2>1, <2>2
<1>7. \E g : Equation(g)
  <2>1. Equation(f)
    BY <1>6
  <2> QED BY <2>1
<1> DEFINE iter == CHOOSE g : Equation(g)
<1>8. Equation(iter)
  BY <1>7
<1>9. Fresh(s, cutoff) = iter[S]
  BY <1>1 DEF Fresh, FoldLeft, MapThenFoldSet
<1>10. iter[S] = f[S]
  <2> DEFINE Good == {T \in SUBSET S : iter[T] = f[T]}
  <2>1. {} \in Good
    BY <1>6, <1>8
  <2>2. ASSUME NEW T \in SUBSET S, T # {}, T \ {choose[T]} \in Good
        PROVE  T \in Good
    <3>1. choose[T] = Max(T) /\ iter[T \ {Max(T)}] = f[T \ {Max(T)}]
      BY <2>2
    <3> HIDE DEF iter, choose, After
    <3> QED BY <1>6, <1>8, <2>2, <3>1
  <2>3. S \in Good
    <3> HIDE DEF Good, S, choose, Equation
    <3> QED BY <1>1, <1>2, <2>1, <2>2, SubsetInduction
  <2> QED BY <2>3
<1>11. S \in SUBSET S /\ {} \in SUBSET S
  OBVIOUS
<1> HIDE DEF iter
<1> QED BY <1>6, <1>9, <1>10, <1>11

\* What an element is appended to stays in front of it.
LEMMA Appended ==
    ASSUME NEW s \in Seq(Nat), NEW e \in Nat
    PROVE  /\ Append(s, e) \in Seq(Nat) /\ Len(Append(s, e)) = Len(s) + 1
           /\ \A i \in 1..Len(s) : Append(s, e)[i] = s[i]
           /\ Append(s, e)[Len(s) + 1] = e
OBVIOUS

\* What is fresh of ascending times is a tail of them.
LEMMA FreshIsTail ==
    ASSUME NEW s \in Seq(Nat), Ascending(s), NEW cutoff \in Int
    PROVE  /\ Fresh(s, cutoff) \in Seq(Nat)
           /\ \E m \in 0..Len(s) :
                 /\ IsTail(Fresh(s, cutoff), s, m)
                 /\ \A i \in 1..m : s[i] =< cutoff
                 /\ \A i \in m + 1..Len(s) : s[i] > cutoff
<1>1. PICK f \in [SUBSET (1..Len(s)) -> Seq(Nat)] :
         /\ f[1..Len(s)] = Fresh(s, cutoff)
         /\ f[{}] = <<>>
         /\ \A T \in SUBSET (1..Len(s)) :
               T # {} => f[T] = IF s[Max(T)] > cutoff THEN Append(f[T \ {Max(T)}], s[Max(T)])
                                ELSE f[T \ {Max(T)}]
  BY FreshFolds
<1>2. Len(s) \in Nat /\ \A i \in 1..Len(s) : s[i] \in Nat
  OBVIOUS
<1> DEFINE Splits(k, m) ==
              /\ Len(f[1..k]) = k - m
              /\ \A i \in 1..k - m : f[1..k][i] = s[m + i]
              /\ \A i \in 1..m : s[i] =< cutoff
              /\ \A i \in m + 1..k : s[i] > cutoff
           G == {k \in Nat : k =< Len(s) => \E m \in 0..k : Splits(k, m)}
<1>3. 0 \in G
  <2>1. 1..0 = {}
    OBVIOUS
  <2>2. Splits(0, 0)
    BY <1>1, <2>1
  <2>3. 0 \in 0..0
    OBVIOUS
  <2> HIDE DEF Splits
  <2> QED BY <2>2, <2>3
<1>4. ASSUME NEW k \in Nat, k \in G
      PROVE  k + 1 \in G
  <2> SUFFICES ASSUME k + 1 =< Len(s)
               PROVE  \E m \in 0..k + 1 : Splits(k + 1, m)
    <3> HIDE DEF Splits
    <3> QED OBVIOUS
  <2>1. PICK m \in 0..k : Splits(k, m)
    <3> HIDE DEF Splits
    <3> QED BY <1>2, <1>4
  <2>2. Max(1..k + 1) = k + 1
    <3>1. 1..k + 1 \in SUBSET (1..k + 1) /\ 1..k + 1 # {} /\ k + 1 \in 1..k + 1 /\ k + 1 \in Nat
      OBVIOUS
    <3>2. Max(1..k + 1) \in 1..k + 1 /\ k + 1 =< Max(1..k + 1)
      BY <3>1, MaxChosen
    <3> QED BY <3>2
  <2>3. (1..k + 1) \ {k + 1} = 1..k /\ 1..k + 1 \in SUBSET (1..Len(s)) /\ 1..k \in SUBSET (1..Len(s))
    BY <1>2
  <2>4. f[1..k + 1] = IF s[k + 1] > cutoff THEN Append(f[1..k], s[k + 1]) ELSE f[1..k]
    <3>1. 1..k + 1 # {}
      <4>1. k + 1 \in 1..k + 1
        OBVIOUS
      <4> QED BY <4>1
    <3>2. f[1..k + 1] = IF s[Max(1..k + 1)] > cutoff
                        THEN Append(f[(1..k + 1) \ {Max(1..k + 1)}], s[Max(1..k + 1)])
                        ELSE f[(1..k + 1) \ {Max(1..k + 1)}]
      BY <1>1, <2>3, <3>1, Zenon
    <3> QED BY <2>2, <2>3, <3>2
  <2>5. f[1..k] \in Seq(Nat) /\ s[k + 1] \in Nat
    <3>1. k + 1 \in 1..Len(s)
      BY <1>2
    <3>2. f[1..k] \in Seq(Nat)
      BY <2>3
    <3> QED BY <1>2, <3>1, <3>2
  <2>6. CASE s[k + 1] > cutoff
    <3>1. f[1..k + 1] = Append(f[1..k], s[k + 1])
      BY <2>4, <2>6
    <3>2. Len(f[1..k + 1]) = k + 1 - m
      <4>1. Len(f[1..k]) = k - m
        BY <2>1
      <4>2. Len(Append(f[1..k], s[k + 1])) = Len(f[1..k]) + 1
        BY <2>5
      <4>3. Len(f[1..k + 1]) = (k - m) + 1
        BY <3>1, <4>1, <4>2, Zenon
      <4> QED BY <4>3
    <3>3. ASSUME NEW i \in 1..k + 1 - m PROVE f[1..k + 1][i] = s[m + i]
      <4>1. CASE i = k + 1 - m
        <5>1. i = Len(f[1..k]) + 1 /\ m + i = k + 1
          BY <2>1, <4>1
        <5>2. Append(f[1..k], s[k + 1])[i] = s[k + 1]
          BY <2>5, <5>1, Appended
        <5> QED BY <3>1, <5>1, <5>2
      <4>2. CASE i # k + 1 - m
        <5>1. i \in 1..k - m
          BY <4>2
        <5>2. f[1..k + 1][i] = f[1..k][i]
          <6>1. i \in 1..Len(f[1..k])
            BY <2>1, <5>1
          <6>2. Append(f[1..k], s[k + 1])[i] = f[1..k][i]
            BY <2>5, <6>1, Appended
          <6> QED BY <3>1, <6>2
        <5> QED BY <2>1, <5>1, <5>2
      <4> QED BY <4>1, <4>2
    <3>4. Splits(k + 1, m)
      <4>1. \A i \in m + 1..k + 1 : i = k + 1 \/ i \in m + 1..k
        OBVIOUS
      <4>2. \A i \in m + 1..k + 1 : s[i] > cutoff
        BY <2>1, <2>6, <4>1
      <4> QED BY <2>1, <3>2, <3>3, <4>2
    <3> QED BY <3>4
  <2>7. CASE ~ (s[k + 1] > cutoff)
    <3>1. f[1..k + 1] = f[1..k]
      BY <2>4, <2>7
    <3>2. \A i \in 1..k + 1 : s[i] =< cutoff
      BY <1>2, <2>7 DEF Ascending
    <3>3. m = k
      <4> SUFFICES ASSUME m # k PROVE FALSE
        OBVIOUS
      <4>1. k \in m + 1..k /\ k \in 1..k + 1
        OBVIOUS
      <4> QED BY <1>2, <2>1, <3>2, <4>1
    <3>4. Splits(k + 1, k + 1)
      BY <2>1, <3>1, <3>2, <3>3
    <3> QED BY <3>4
  <2> QED BY <2>6, <2>7
<1>5. Nat \subseteq G
  <2> HIDE DEF G
  <2> QED BY <1>3, <1>4, NatSetInduction
<1>6. PICK m \in 0..Len(s) : Splits(Len(s), m)
  <2>1. Len(s) \in G
    BY <1>2, <1>5
  <2> HIDE DEF Splits
  <2> QED BY <1>2, <2>1
<1>7. 1..Len(s) \in SUBSET (1..Len(s))
  OBVIOUS
<1>8. Fresh(s, cutoff) \in Seq(Nat)
  <2>1. f[1..Len(s)] \in Seq(Nat) /\ f[1..Len(s)] = Fresh(s, cutoff)
    BY <1>1, <1>7
  <2> QED BY <2>1, Zenon
<1>9. IsTail(Fresh(s, cutoff), s, m)
  BY <1>1, <1>2, <1>6 DEF IsTail
<1> QED BY <1>6, <1>8, <1>9

\* How many come after the first m.
LEMMA TailCount ==
    ASSUME NEW n \in Nat, NEW m \in 0..n
    PROVE  IsFiniteSet(m + 1..n) /\ Cardinality(m + 1..n) = n - m
<1>1. m + 1 \in Int /\ n \in Int
  OBVIOUS
<1>2. /\ IsFiniteSet(m + 1..n)
      /\ Cardinality(m + 1..n) = IF m + 1 > n THEN 0 ELSE n - (m + 1) + 1
  BY <1>1, FS_Interval
<1> QED BY <1>2

\* The clients a check starts from, and what it finds fresh of one of them.
KnownBy(l) ==
    IF checks[l] + 1 >= CleanupInterval THEN Evicted(times[l], now - Limits[l].window)
    ELSE times[l]

FreshOf(l, c) ==
    IF c \in DOMAIN KnownBy(l) THEN Fresh(KnownBy(l)[c], now - Limits[l].window) ELSE <<>>

\* What a client has in a table of times: nothing, if it is not there.
In(known, c) == IF c \in DOMAIN known THEN known[c] ELSE <<>>

\* The m-th and those before it are stale, the later ones are fresh.
SplitAt(l, c, m) ==
    /\ \A i \in 1..m : admitted[l][c][i] =< now - Limits[l].window
    /\ \A i \in m + 1..Len(admitted[l][c]) : admitted[l][c][i] > now - Limits[l].window

\* The limits are positive.
LEMMA Constants ==
    ASSUME NEW l \in DOMAIN Limits
    PROVE  /\ Limits[l].max \in Nat /\ Limits[l].max > 0
           /\ Limits[l].window \in Nat /\ Limits[l].window > 0
BY ServerAssumption

\* Who is evicted had nothing fresh.
LEMMA EvictionCovers ==
    ASSUME LInv, NEW l \in DOMAIN Limits, NEW c \in Clients
    PROVE  Covers(In(KnownBy(l), c), l, c)
<1> DEFINE a == admitted[l][c]
           k == TimesOf(l, c)
           cutoff == now - Limits[l].window
<1>1. /\ a \in Seq(Nat) /\ Ascending(a) /\ Covers(k, l, c) /\ now \in Nat
      /\ Limits[l].window \in Nat /\ cutoff \in Int /\ Limits[l].max \in Nat
  BY Constants, ServerAssumption DEF LInv, ServerTypes, Passed
<1>2. In(KnownBy(l), c) = k \/ (In(KnownBy(l), c) = <<>> /\ (k = <<>> \/ k[Len(k)] =< cutoff))
  <2>1. CASE checks[l] + 1 >= CleanupInterval
    <3>1. KnownBy(l) = Evicted(times[l], cutoff)
      BY <2>1 DEF KnownBy
    <3> HIDE DEF cutoff
    <3>2. CASE c \in DOMAIN times[l] /\ times[l][c] # <<>> /\ times[l][c][Len(times[l][c])] > cutoff
      BY <3>1, <3>2 DEF Evicted, Restrict, In, TimesOf
    <3>3. CASE ~ (c \in DOMAIN times[l])
      BY <3>1, <3>3 DEF Evicted, Restrict, In, TimesOf
    <3>4. CASE c \in DOMAIN times[l] /\ (times[l][c] = <<>> \/ ~ (times[l][c][Len(times[l][c])] > cutoff))
      <4>1. In(KnownBy(l), c) = <<>> /\ k = times[l][c]
        BY <3>1, <3>4 DEF Evicted, Restrict, In, TimesOf
      <4>2. k \in Seq(Nat)
        BY <1>1 DEF Covers
      <4>3. k # <<>> => k[Len(k)] \in Nat
        BY <4>2
      <4> HIDE DEF k
      <4>4. k = <<>> \/ ~ (k[Len(k)] > cutoff)
        BY <3>4, <4>1
      <4> QED BY <1>1, <4>1, <4>3, <4>4
    <3> QED BY <3>2, <3>3, <3>4
  <2>2. CASE ~ (checks[l] + 1 >= CleanupInterval)
    BY <2>2 DEF KnownBy, In, TimesOf
  <2> QED BY <2>1, <2>2
<1>3. PICK m \in 0..Len(a) : IsTail(k, a, m) /\ \A i \in 1..m : a[i] =< cutoff
  BY <1>1 DEF Covers
<1>4. k \in Seq(Nat) /\ Len(a) \in Nat /\ \A i \in 1..Len(a) : a[i] \in Nat
  <2>1. k \in Seq(Nat)
    BY <1>1 DEF Covers
  <2> QED BY <1>1, <2>1, Times
<1> HIDE DEF k, cutoff
<1>5. ASSUME k = <<>> \/ k[Len(k)] =< cutoff
      PROVE  Covers(<<>>, l, c)
  <2>1. \A i \in 1..Len(a) : a[i] =< cutoff
    <3>1. CASE k = <<>>
      <4>1. m = Len(a)
        BY <1>3, <1>4, <3>1 DEF IsTail
      <4> QED BY <1>3, <4>1
    <3>2. CASE k # <<>>
      <4>1. Len(k) > 0 /\ Len(k) = Len(a) - m
        BY <1>3, <1>4, <3>2 DEF IsTail
      <4>2. k[Len(k)] = a[m + Len(k)] /\ m + Len(k) = Len(a)
        <5>1. Len(k) \in 1..Len(k) /\ m + Len(k) = Len(a)
          BY <1>3, <1>4, <4>1
        <5>2. \A i \in 1..Len(k) : k[i] = a[m + i]
          BY <1>3 DEF IsTail
        <5> QED BY <5>1, <5>2
      <4>3. a[Len(a)] =< cutoff /\ Len(a) \in 1..Len(a)
        <5>1. a[Len(a)] =< cutoff
          BY <1>5, <3>2, <4>2
        <5>2. Len(a) > 0
          BY <1>3, <1>4, <4>1
        <5> QED BY <1>4, <5>1, <5>2
      <4>4. \A i \in 1..Len(a) : a[i] =< a[Len(a)]
        BY <1>1, <4>3 DEF Ascending
      <4> SUFFICES ASSUME NEW i \in 1..Len(a) PROVE a[i] =< cutoff
        OBVIOUS
      <4>5. a[i] \in Nat /\ a[Len(a)] \in Nat /\ a[i] =< a[Len(a)]
        BY <1>4, <4>3, <4>4
      <4> HIDE DEF a
      <4> QED BY <1>1, <4>3, <4>5
    <3> QED BY <3>1, <3>2
  <2>2. IsTail(<<>>, a, Len(a))
    BY <1>4 DEF IsTail
  <2>3. <<>> \in Seq(Nat) /\ Len(<<>>) =< Limits[l].max
    BY <1>1
  <2>4. Len(a) \in 0..Len(a)
    BY <1>4
  <2> QED BY <2>1, <2>2, <2>3, <2>4 DEF Covers, cutoff
<1> QED BY <1>1, <1>2, <1>5

\* What is fresh of what is kept is all that is fresh of what was let through.
LEMMA FreshCovers ==
    ASSUME LInv, NEW l \in DOMAIN Limits, NEW c \in Clients
    PROVE  /\ FreshOf(l, c) \in Seq(Nat) /\ Len(FreshOf(l, c)) =< Limits[l].max
           /\ \E m \in 0..Len(admitted[l][c]) :
                 IsTail(FreshOf(l, c), admitted[l][c], m) /\ SplitAt(l, c, m)
<1> DEFINE a == admitted[l][c]
           k == In(KnownBy(l), c)
           f == FreshOf(l, c)
           cutoff == now - Limits[l].window
<1>1. /\ a \in Seq(Nat) /\ Ascending(a) /\ Covers(k, l, c) /\ now \in Nat
      /\ Limits[l].window \in Nat /\ cutoff \in Int /\ Limits[l].max \in Nat
  BY Constants, ServerAssumption, EvictionCovers DEF LInv, ServerTypes, Passed
<1>2. PICK m \in 0..Len(a) : IsTail(k, a, m) /\ \A i \in 1..m : a[i] =< cutoff
  BY <1>1 DEF Covers
<1>3. k \in Seq(Nat) /\ Len(a) \in Nat /\ \A i \in 1..Len(a) : a[i] \in Nat
  <2>1. k \in Seq(Nat)
    BY <1>1 DEF Covers
  <2> QED BY <1>1, <2>1, Times
<1>4. Len(k) =< Limits[l].max /\ Len(k) = Len(a) - m /\ \A i \in 1..Len(k) : k[i] = a[m + i]
  BY <1>1, <1>2 DEF Covers, IsTail
<1>5. (f = <<>> /\ k = <<>>) \/ f = Fresh(k, cutoff)
  BY DEF FreshOf, In
<1> HIDE DEF f, k, cutoff
<1>6. /\ f \in Seq(Nat)
      /\ \E j \in 0..Len(k) :
            /\ IsTail(f, k, j)
            /\ \A i \in 1..j : k[i] =< cutoff
            /\ \A i \in j + 1..Len(k) : k[i] > cutoff
  <2>1. CASE f = Fresh(k, cutoff)
    <3>1. Ascending(k)
      <4> SUFFICES ASSUME NEW i \in 1..Len(k), NEW n \in 1..Len(k), i =< n
                   PROVE  k[i] =< k[n]
        BY DEF Ascending
      <4>1. k[i] = a[m + i] /\ k[n] = a[m + n]
        BY <1>4
      <4>2. m + i \in 1..Len(a) /\ m + n \in 1..Len(a) /\ m + i =< m + n
        BY <1>3, <1>4
      <4>3. a[m + i] =< a[m + n]
        BY <1>1, <4>2 DEF Ascending
      <4> QED BY <4>1, <4>3
    <3> QED BY <1>1, <1>3, <2>1, <3>1, FreshIsTail
  <2>2. CASE f = <<>> /\ k = <<>>
    <3>1. IsTail(<<>>, <<>>, 0) /\ Len(<<>>) = 0
      BY DEF IsTail
    <3> QED BY <2>2, <3>1
  <2> QED BY <1>5, <2>1, <2>2
<1>7. PICK j \in 0..Len(k) :
         /\ IsTail(f, k, j)
         /\ \A i \in 1..j : k[i] =< cutoff
         /\ \A i \in j + 1..Len(k) : k[i] > cutoff
  BY <1>6
<1>8. m + j \in 0..Len(a) /\ Len(f) =< Limits[l].max
  <2>1. Len(k) \in Nat /\ Len(f) \in Nat
    BY <1>3, <1>6
  <2>2. j \in 0..Len(k) /\ Len(f) = Len(k) - j
    BY <1>7 DEF IsTail
  <2>3. Len(k) =< Limits[l].max /\ Len(k) = Len(a) - m /\ Len(a) \in Nat
    BY <1>3, <1>4
  <2> HIDE DEF a, k, f
  <2>4. m + j \in 0..Len(a)
    BY <1>2, <2>1, <2>2, <2>3
  <2>5. Len(f) =< Limits[l].max
    BY <1>1, <2>1, <2>2, <2>3
  <2> QED BY <2>4, <2>5
<1>9. IsTail(f, a, m + j)
  <2>1. Len(f) = Len(k) - j /\ \A i \in 1..Len(f) : f[i] = k[j + i] /\ j + i \in 1..Len(k)
    <3>1. Len(f) = Len(k) - j /\ \A i \in 1..Len(f) : f[i] = k[j + i]
      BY <1>7 DEF IsTail
    <3>2. \A i \in 1..Len(f) : j + i \in 1..Len(k)
      BY <1>3, <3>1
    <3> QED BY <3>1, <3>2
  <2>2. ASSUME NEW i \in 1..Len(f) PROVE f[i] = a[m + j + i]
    <3>1. j + i \in 1..Len(k) /\ f[i] = k[j + i]
      BY <2>1
    <3>2. k[j + i] = a[m + (j + i)]
      BY <1>4, <3>1
    <3>3. m + (j + i) = m + j + i
      BY <1>3, <1>6
    <3> QED BY <3>1, <3>2, <3>3
  <2>3. Len(f) = Len(a) - (m + j)
    BY <1>3, <1>4, <2>1
  <2> QED BY <1>8, <2>2, <2>3 DEF IsTail
<1>10. SplitAt(l, c, m + j)
  <2>1. ASSUME NEW i \in 1..m + j PROVE a[i] =< cutoff
    <3>1. CASE i =< m
      BY <1>2, <3>1
    <3>2. CASE ~ (i =< m)
      <4>1. i - m \in 1..j /\ i - m \in 1..Len(k) /\ m + (i - m) = i
        BY <1>3, <3>2
      <4> QED BY <1>4, <1>7, <4>1
    <3> QED BY <3>1, <3>2
  <2>2. ASSUME NEW i \in m + j + 1..Len(a) PROVE a[i] > cutoff
    <3>1. i - m \in j + 1..Len(k) /\ i - m \in 1..Len(k) /\ m + (i - m) = i
      BY <1>3, <1>4
    <3> QED BY <1>4, <1>7, <3>1
  <2> QED BY <2>1, <2>2 DEF SplitAt, cutoff
<1> QED BY <1>6, <1>8, <1>9, <1>10 DEF f

\* Rounded up past the next whole unit, and by at most one unit.
LEMMA Quotient ==
    ASSUME NEW x \in Nat, NEW d \in Nat \ {0}
    PROVE  /\ x \div d \in Nat
           /\ (x \div d + 1) * d \in Nat
           /\ (x \div d + 1) * d - d =< x /\ x < (x \div d + 1) * d
<1>1. x \div d \in Nat /\ d * (x \div d) =< x /\ x < d * (x \div d) + d
  OBVIOUS
<1> DEFINE q == x \div d
<1> HIDE DEF q
<1>2. q \in Nat => (q + 1) * d = d * q + d /\ (q + 1) * d \in Nat
  OBVIOUS
<1> QED BY <1>1, <1>2 DEF q

\* What a check lets through, how long a refused client is to wait, and what
\* the limiter has then of every client.
LEMMA CheckOf ==
    ASSUME LInv, NEW l \in DOMAIN Limits, NEW c \in Clients
    PROVE  /\ Check(l, c).checks \in 0..(CleanupInterval - 1)
           /\ DOMAIN Check(l, c).known = DOMAIN KnownBy(l) \cup {c}
           /\ Check(l, c).known = [d \in DOMAIN KnownBy(l) \cup {c} |-> Check(l, c).known[d]]
           /\ \A d \in Clients \ {c} : In(Check(l, c).known, d) = In(KnownBy(l), d)
           /\ In(Check(l, c).known, c) = IF Check(l, c).allowed THEN Append(FreshOf(l, c), now)
                                         ELSE FreshOf(l, c)
           /\ Check(l, c).allowed <=> Len(FreshOf(l, c)) < Limits[l].max
           /\ ~ Check(l, c).allowed =>
                 Check(l, c).retry =
                    LET retry == RetryAfter(FreshOf(l, c)[1], Limits[l].window)
                    IN IF retry > 1 THEN retry ELSE 1
<1> DEFINE cutoff == now - Limits[l].window
           due == checks[l] + 1 >= CleanupInterval
           known == KnownBy(l)
           fresh == FreshOf(l, c)
           allowed == c \notin DOMAIN known \/ Len(fresh) < Limits[l].max
           retry == RetryAfter(fresh[1], Limits[l].window)
<1>1. Check(l, c) = [allowed |-> allowed,
                     retry |-> IF allowed THEN 0 ELSE IF retry > 1 THEN retry ELSE 1,
                     known |-> [d \in DOMAIN known \cup {c} |->
                        IF d # c THEN known[d] ELSE IF allowed THEN Append(fresh, now) ELSE fresh],
                     checks |-> IF due THEN 0 ELSE checks[l] + 1]
  BY Zenon DEF Check, KnownBy, FreshOf
<1>2. c \notin DOMAIN known => fresh = <<>> /\ Len(fresh) < Limits[l].max
  BY Constants DEF FreshOf
<1>3. (IF due THEN 0 ELSE checks[l] + 1) \in 0..(CleanupInterval - 1)
  BY ServerAssumption DEF LInv, ServerTypes
<1> HIDE DEF due, known, fresh, retry
<1>4. Check(l, c).checks \in 0..(CleanupInterval - 1)
  BY <1>1, <1>3
<1>5. allowed <=> Len(fresh) < Limits[l].max
  BY <1>2
<1>6. Check(l, c).allowed = allowed
  BY <1>1
<1> HIDE DEF allowed
<1>7. Check(l, c).known = [d \in DOMAIN known \cup {c} |->
         IF d # c THEN known[d] ELSE IF allowed THEN Append(fresh, now) ELSE fresh]
  BY <1>1
<1>8. ~ allowed => Check(l, c).retry = IF retry > 1 THEN retry ELSE 1
  BY <1>1
<1> HIDE DEF Check
<1>9. /\ DOMAIN Check(l, c).known = DOMAIN known \cup {c}
      /\ Check(l, c).known = [d \in DOMAIN known \cup {c} |-> Check(l, c).known[d]]
  BY <1>7
<1>10. \A d \in Clients \ {c} : In(Check(l, c).known, d) = In(known, d)
  BY <1>7 DEF In
<1>11. In(Check(l, c).known, c) = IF allowed THEN Append(fresh, now) ELSE fresh
  BY <1>7 DEF In
<1> QED BY <1>4, <1>5, <1>6, <1>8, <1>9, <1>10, <1>11 DEF known, fresh, retry

\* Of the times up to now those in the window that ends now are the fresh ones.
LEMMA WindowOf ==
    ASSUME LInv, NEW l \in DOMAIN Limits, NEW c \in Clients,
           NEW m \in 0..Len(admitted[l][c]), SplitAt(l, c, m)
    PROVE  /\ Window(l, c, now) = m + 1..Len(admitted[l][c])
           /\ IsFiniteSet(Window(l, c, now))
           /\ Cardinality(Window(l, c, now)) = Len(admitted[l][c]) - m
<1> DEFINE a == admitted[l][c]
<1>1. /\ a \in Seq(Nat) /\ now \in Nat /\ Limits[l].window \in Nat
      /\ \A i \in 1..Len(a) : a[i] =< now
  BY Constants, ServerAssumption DEF LInv, ServerTypes, Passed
<1>2. DOMAIN a = 1..Len(a) /\ Len(a) \in Nat /\ \A i \in 1..Len(a) : a[i] \in Nat
  BY <1>1, Times
<1>3. \A i \in 1..Len(a) : a[i] \in (now - Limits[l].window + 1)..now <=> i \in m + 1..Len(a)
  <2> SUFFICES ASSUME NEW i \in 1..Len(a)
               PROVE  a[i] \in (now - Limits[l].window + 1)..now <=> i \in m + 1..Len(a)
    OBVIOUS
  <2>1. CASE i =< m
    <3>1. a[i] =< now - Limits[l].window
      BY <1>2, <2>1 DEF SplitAt
    <3>2. ~ (i \in m + 1..Len(a)) /\ a[i] \in Nat
      BY <1>2, <2>1
    <3> HIDE DEF a
    <3> QED BY <1>1, <3>1, <3>2
  <2>2. CASE ~ (i =< m)
    <3>1. i \in m + 1..Len(a)
      BY <1>2, <2>2
    <3>2. a[i] > now - Limits[l].window /\ a[i] =< now
      BY <1>1, <3>1 DEF SplitAt
    <3>3. a[i] \in Nat
      BY <1>2
    <3> HIDE DEF a
    <3> QED BY <1>1, <3>1, <3>2, <3>3
  <2> QED BY <2>1, <2>2
<1>4. Window(l, c, now) = m + 1..Len(a)
  BY <1>2, <1>3 DEF Window
<1> QED BY <1>2, <1>4, TailCount

----------------------------------------------------------------------------
\* What is let through now was never more than the limit before.
LEMMA AppendPassed ==
    ASSUME LInv, NEW l \in DOMAIN Limits, NEW c \in Clients,
           Len(FreshOf(l, c)) < Limits[l].max,
           now' = now, admitted'[l][c] = Append(admitted[l][c], now)
    PROVE  Passed(l, c)'
<1> DEFINE a == admitted[l][c]
           b == admitted'[l][c]
           w == Limits[l].window
<1>1. /\ a \in Seq(Nat) /\ now \in Nat /\ Len(a) \in Nat /\ Limits[l].max \in Nat /\ w \in Nat
      /\ Ascending(a) /\ \A i \in 1..Len(a) : a[i] =< now
      /\ \A t \in 0..now : Cardinality(Window(l, c, t)) =< Limits[l].max
  BY Constants, ServerAssumption DEF LInv, ServerTypes, Passed
<1>2. /\ b \in Seq(Nat) /\ Len(b) = Len(a) + 1 /\ b[Len(a) + 1] = now
      /\ \A i \in 1..Len(a) : b[i] = a[i]
  BY <1>1, Appended
<1>3. PICK m \in 0..Len(a) : IsTail(FreshOf(l, c), a, m) /\ SplitAt(l, c, m)
  BY FreshCovers
<1>4. /\ IsFiniteSet(Window(l, c, now))
      /\ Cardinality(Window(l, c, now)) = Len(a) - m
      /\ Len(a) - m < Limits[l].max
      /\ Window(l, c, now) = m + 1..Len(a)
  BY <1>3, WindowOf DEF IsTail
<1> HIDE DEF a, b, w
<1>5. DOMAIN a = 1..Len(a) /\ DOMAIN b = 1..Len(a) + 1 /\ \A i \in 1..Len(a) : a[i] \in Nat
  <2>1. a \in Seq(Nat) /\ b \in Seq(Nat)
    BY <1>1, <1>2
  <2>2. DOMAIN a = 1..Len(a) /\ \A i \in 1..Len(a) : a[i] \in Nat
    BY <2>1, Times
  <2>3. DOMAIN b = 1..Len(b)
    BY <2>1, Times
  <2> QED BY <1>2, <2>2, <2>3
<1>6. Ascending(b) /\ \A i \in 1..Len(b) : b[i] =< now
  <2>1. \A i \in 1..Len(b) : i \in 1..Len(a) \/ i = Len(a) + 1
    BY <1>1, <1>2
  <2>2. ASSUME NEW i \in 1..Len(b) PROVE b[i] =< now
    <3>1. CASE i \in 1..Len(a)
      BY <1>1, <1>2, <3>1
    <3>2. CASE i = Len(a) + 1
      BY <1>1, <1>2, <3>2
    <3> QED BY <2>1, <3>1, <3>2
  <2>3. ASSUME NEW i \in 1..Len(b), NEW j \in 1..Len(b), i =< j PROVE b[i] =< b[j]
    <3>1. CASE j = Len(a) + 1
      BY <1>2, <2>2, <3>1
    <3>2. CASE j # Len(a) + 1
      <4>1. j \in 1..Len(a) /\ i \in 1..Len(a)
        BY <1>1, <2>1, <2>3, <3>2
      <4> QED BY <1>1, <1>2, <2>3, <4>1 DEF Ascending
    <3> QED BY <3>1, <3>2
  <2> QED BY <2>2, <2>3 DEF Ascending
<1>7. ASSUME NEW t \in 0..now
      PROVE  Cardinality({n \in DOMAIN b : b[n] \in (t - w + 1)..t}) =< Limits[l].max
  <2>1. CASE t # now
    <3>1. ~ (b[Len(a) + 1] \in (t - w + 1)..t)
      BY <1>1, <1>2, <2>1
    <3>2. {n \in DOMAIN b : b[n] \in (t - w + 1)..t} = {n \in DOMAIN a : a[n] \in (t - w + 1)..t}
      <4>1. \A n \in 1..Len(a) + 1 : n \in 1..Len(a) \/ n = Len(a) + 1
        BY <1>1
      <4>2. \A n \in 1..Len(a) : n \in 1..Len(a) + 1
        BY <1>1
      <4> QED BY <1>2, <1>5, <3>1, <4>1, <4>2
    <3>3. {n \in DOMAIN a : a[n] \in (t - w + 1)..t} = Window(l, c, t)
      BY DEF Window, a, w
    <3> QED BY <1>1, <3>2, <3>3
  <2>2. CASE t = now
    <3>1. b[Len(a) + 1] \in (t - w + 1)..t
      BY <1>1, <1>2, <2>2, Constants DEF w
    <3>2. {n \in DOMAIN b : b[n] \in (t - w + 1)..t}
          = {n \in DOMAIN a : a[n] \in (t - w + 1)..t} \cup {Len(a) + 1}
      <4>1. \A n : n \in 1..Len(a) + 1 <=> n \in 1..Len(a) \/ n = Len(a) + 1
        BY <1>1
      <4> QED BY <1>2, <1>5, <3>1, <4>1
    <3>3. {n \in DOMAIN a : a[n] \in (t - w + 1)..t} = Window(l, c, now)
      BY <2>2 DEF Window, a, w
    <3>4. Len(a) + 1 \notin Window(l, c, now)
      BY <1>1, <1>4
    <3>5. Cardinality(Window(l, c, now) \cup {Len(a) + 1}) = Len(a) - m + 1
      BY <1>4, <3>4, FS_AddElement
    <3>6. Len(a) - m + 1 =< Limits[l].max
      BY <1>1, <1>4
    <3> QED BY <3>2, <3>3, <3>5, <3>6
  <2> QED BY <2>1, <2>2
<1> QED BY <1>6, <1>7 DEF Passed, Window, b, w

\* The fresh ones and the new one are the last of those let through.
LEMMA AppendCovers ==
    ASSUME LInv, NEW l \in DOMAIN Limits, NEW c \in Clients,
           Len(FreshOf(l, c)) < Limits[l].max,
           now' = now, admitted'[l][c] = Append(admitted[l][c], now),
           TimesOf(l, c)' = Append(FreshOf(l, c), now)
    PROVE  Covers(TimesOf(l, c), l, c)'
<1> DEFINE a == admitted[l][c]
           b == admitted'[l][c]
           f == FreshOf(l, c)
           g == Append(f, now)
<1>1. /\ a \in Seq(Nat) /\ now \in Nat /\ Len(a) \in Nat /\ Limits[l].max \in Nat
      /\ Limits[l].window \in Nat /\ f \in Seq(Nat)
  BY Constants, ServerAssumption, FreshCovers DEF LInv, ServerTypes
<1>2. /\ b \in Seq(Nat) /\ Len(b) = Len(a) + 1 /\ b[Len(a) + 1] = now
      /\ \A i \in 1..Len(a) : b[i] = a[i]
  BY <1>1, Appended
<1>3. /\ g \in Seq(Nat) /\ Len(g) = Len(f) + 1 /\ g[Len(f) + 1] = now
      /\ \A i \in 1..Len(f) : g[i] = f[i]
  BY <1>1, Appended
<1>4. PICK m \in 0..Len(a) : IsTail(f, a, m) /\ SplitAt(l, c, m)
  BY FreshCovers
<1>5. TimesOf(l, c)' = g /\ Len(f) < Limits[l].max
  OBVIOUS
<1>6. \A i \in 1..m : a[i] =< now - Limits[l].window
  BY <1>4 DEF SplitAt
<1> HIDE DEF a, b, f, g
<1>7. Len(f) = Len(a) - m /\ \A i \in 1..Len(f) : f[i] = a[m + i]
  BY <1>4 DEF IsTail
<1>8. IsTail(g, b, m)
  <2>1. ASSUME NEW i \in 1..Len(g) PROVE g[i] = b[m + i]
    <3>1. CASE i = Len(f) + 1
      <4>1. m + i = Len(a) + 1
        BY <1>1, <1>7, <3>1
      <4> QED BY <1>2, <1>3, <3>1, <4>1
    <3>2. CASE i # Len(f) + 1
      <4>1. i \in 1..Len(f) /\ m + i \in 1..Len(a)
        <5>1. Len(g) = Len(f) + 1 /\ Len(f) = Len(a) - m /\ Len(a) \in Nat
          BY <1>1, <1>3, <1>7
        <5>2. Len(f) \in Nat
          BY <1>1
        <5>3. i \in 1..Len(f)
          BY <2>1, <3>2, <5>1, <5>2
        <5>4. m + i \in 1..Len(a)
          BY <5>1, <5>3
        <5> QED BY <5>3, <5>4
      <4> QED BY <1>2, <1>3, <1>7, <4>1
    <3> QED BY <3>1, <3>2
  <2> QED BY <1>1, <1>2, <1>3, <1>7, <2>1 DEF IsTail
<1>9. Len(g) =< Limits[l].max
  BY <1>1, <1>3, <1>5
<1>10. \A i \in 1..m : b[i] =< now - Limits[l].window
  <2>1. \A i \in 1..m : i \in 1..Len(a)
    BY <1>1
  <2> QED BY <1>2, <1>6, <2>1
<1>11. m \in 0..Len(b)
  BY <1>1, <1>2
<1> QED BY <1>3, <1>5, <1>8, <1>9, <1>10, <1>11 DEF Covers, b

\* A refusal is in order, and the wait it asks for counts from the oldest.
LEMMA RefusalStep ==
    ASSUME LInv, NEW l \in DOMAIN Limits, NEW c \in Clients,
           ~ (Len(FreshOf(l, c)) < Limits[l].max),
           now' = now, admitted'[l][c] = admitted[l][c],
           last'.at = now,
           last'.retry = LET retry == RetryAfter(FreshOf(l, c)[1], Limits[l].window)
                         IN IF retry > 1 THEN retry ELSE 1
    PROVE  Refused(l, c)'
<1> DEFINE a == admitted[l][c]
           f == FreshOf(l, c)
           w == Limits[l].window
<1>1. /\ a \in Seq(Nat) /\ now \in Nat /\ Len(a) \in Nat /\ w \in Nat
      /\ Limits[l].max \in Nat /\ Limits[l].max > 0 /\ TicksPerSecond \in Nat \ {0}
      /\ f \in Seq(Nat) /\ Len(f) = Limits[l].max
  BY Constants, ServerAssumption, FreshCovers DEF LInv, ServerTypes
<1>2. PICK m \in 0..Len(a) : IsTail(f, a, m) /\ SplitAt(l, c, m)
  BY FreshCovers
<1>3. /\ \A i \in 1..m : a[i] =< now - w
      /\ \A i \in m + 1..Len(a) : a[i] > now - w
  BY <1>2 DEF SplitAt
<1> HIDE DEF a, f, w
<1>4. Len(f) = Len(a) - m /\ f[1] = a[m + 1] /\ m + 1 \in 1..Len(a) /\ m + 1 \in m + 1..Len(a)
  <2>1. Len(f) = Len(a) - m /\ \A i \in 1..Len(f) : f[i] = a[m + i]
    BY <1>2 DEF IsTail
  <2>2. 1 \in 1..Len(f)
    BY <1>1
  <2>3. m + 1 \in 1..Len(a) /\ m + 1 \in m + 1..Len(a)
    BY <1>1, <2>1
  <2> QED BY <2>1, <2>2, <2>3
<1>5. a[m + 1] > now - w /\ a[m + 1] \in Nat /\ a[m + 1] + w - now \in Nat
  <2>1. a[m + 1] > now - w
    BY <1>3, <1>4
  <2>2. a[m + 1] \in Nat
    BY <1>1, <1>4, Times
  <2> QED BY <1>1, <2>1, <2>2
<1>6. (a[m + 1] + w - now) \div TicksPerSecond \in Nat
  BY <1>1, <1>5, Quotient
<1>7. last'.retry = (a[m + 1] + w - now) \div TicksPerSecond + 1
  <2>1. RetryAfter(f[1], w) = (a[m + 1] + w - now) \div TicksPerSecond + 1
    BY <1>4 DEF RetryAfter
  <2>2. last'.retry = IF RetryAfter(f[1], w) > 1 THEN RetryAfter(f[1], w) ELSE 1
    BY DEF f, w
  <2> QED BY <1>6, <2>1, <2>2
<1>8. Len(a) - (m + 1) + 1 = Limits[l].max /\ (m + 1) - 1 = m
  BY <1>1, <1>4
<1>9. RefusedBy(l, c, m + 1)'
  BY <1>3, <1>5, <1>7, <1>8 DEF RefusedBy, a, w
<1> QED BY <1>1, <1>4, <1>9 DEF Refused, a

\* A client about whom nothing changes, while the clock stands.
LEMMA Frame ==
    ASSUME LInv, NEW l \in DOMAIN Limits, NEW c \in Clients,
           now' = now, admitted'[l][c] = admitted[l][c]
    PROVE  /\ Passed(l, c)'
           /\ TimesOf(l, c)' \in {TimesOf(l, c), In(KnownBy(l), c), FreshOf(l, c)} => Covers(TimesOf(l, c), l, c)'
           /\ last' = last => Refused(l, c)'
<1>1. Passed(l, c)'
  BY DEF LInv, Passed, Window
<1>2. ASSUME NEW s, Covers(s, l, c), TimesOf(l, c)' = s
      PROVE  Covers(TimesOf(l, c), l, c)'
  BY <1>2 DEF Covers
<1>3. Covers(TimesOf(l, c), l, c) /\ Covers(In(KnownBy(l), c), l, c)
  BY EvictionCovers DEF LInv
<1>4. Covers(FreshOf(l, c), l, c)
  BY FreshCovers DEF Covers, SplitAt
<1>5. last' = last => Refused(l, c)'
  BY DEF LInv, Refused, RefusedBy
<1> QED BY <1>1, <1>2, <1>3, <1>4, <1>5

\* Status never answers for the limiter.
LEMMA OtherStatus == \A req : Status(req) # 429
BY DEF Status

\* The host is refused, or no limiter is asked.
LEMMA UnlimitedStep ==
    ASSUME LInv, NEW req \in Requests, RejectHost(req) \/ ServeExempt(req)
    PROVE  LInv'
<1>1. UNCHANGED <<now, times, checks, admitted>> /\ last'.status # 429
  BY OtherStatus DEF RejectHost, ServeExempt, Answer
<1>2. ServerTypes'
  BY <1>1 DEF LInv, ServerTypes
<1>3. ASSUME NEW l \in DOMAIN Limits, NEW c \in Clients
      PROVE  (Covers(TimesOf(l, c), l, c) /\ Passed(l, c) /\ Refused(l, c))'
  <2>1. TimesOf(l, c)' = TimesOf(l, c)
    BY <1>1 DEF TimesOf
  <2>2. Refused(l, c)'
    BY <1>1 DEF Refused
  <2> QED BY <1>1, <2>1, <2>2, Frame
<1> QED BY <1>2, <1>3 DEF LInv

\* The limiter lets a request through or refuses it.
LEMMA LimitedStep ==
    ASSUME LInv, NEW req \in Requests, ServeLimited(req)
    PROVE  LInv'
<1> DEFINE l == LimiterOf(req)
           c == req.client
           check == Check(l, c)
<1>1. /\ c \in Clients /\ now' = now
      /\ times' = [times EXCEPT ![l] = check.known]
      /\ checks' = [checks EXCEPT ![l] = check.checks]
      /\ last'.req = req /\ last'.at = now
  BY DEF ServeLimited, Clients, Answer
<1>2. \/ /\ check.allowed /\ last'.status # 429
         /\ admitted' = [admitted EXCEPT ![l][c] = Append(@, now)]
      \/ /\ ~ check.allowed /\ last'.retry = check.retry
         /\ admitted' = admitted
  BY OtherStatus DEF ServeLimited, Answer
<1>3. /\ now \in 0..MaxTicks
      /\ admitted \in [DOMAIN Limits -> [Clients -> Seq(Nat)]]
      /\ checks \in [DOMAIN Limits -> 0..(CleanupInterval - 1)]
      /\ times = [k \in DOMAIN Limits |-> times[k]]
      /\ \A k \in DOMAIN Limits :
            DOMAIN times[k] \subseteq Clients /\ times[k] = [d \in DOMAIN times[k] |-> times[k][d]]
  BY DEF LInv, ServerTypes
<1>4. now \in Nat
  BY <1>3, ServerAssumption
<1> HIDE DEF l, c, check
<1>5. ASSUME NEW k \in DOMAIN Limits, NEW d \in Clients, k # l \/ d # c
      PROVE  admitted'[k][d] = admitted[k][d]
  BY <1>2, <1>3, <1>5
<1>6. ASSUME NEW k \in DOMAIN Limits, k # l, NEW d \in Clients
      PROVE  (Covers(TimesOf(k, d), k, d) /\ Passed(k, d) /\ Refused(k, d))'
  <2>1. TimesOf(k, d)' = TimesOf(k, d)
    BY <1>1, <1>3, <1>6 DEF TimesOf
  <2>2. Refused(k, d)'
    BY <1>1, <1>6 DEF Refused, l
  <2> QED BY <1>1, <1>5, <1>6, <2>1, <2>2, Frame
<1>7. CASE l \notin DOMAIN Limits
  <2>1. times' = times /\ checks' = checks /\ admitted' = admitted
    <3>1. times' = times
      BY <1>1, <1>3, <1>7
    <3>2. checks' = checks
      BY <1>1, <1>3, <1>7
    <3>3. admitted' = admitted
      BY <1>2, <1>3, <1>7
    <3> QED BY <3>1, <3>2, <3>3
  <2>2. ServerTypes'
    BY <1>1, <1>3, <2>1 DEF ServerTypes
  <2> QED BY <1>6, <1>7, <2>2 DEF LInv
<1>8. CASE l \in DOMAIN Limits
  <2>1. /\ check.checks \in 0..(CleanupInterval - 1)
        /\ DOMAIN check.known = DOMAIN KnownBy(l) \cup {c}
        /\ check.known = [d \in DOMAIN KnownBy(l) \cup {c} |-> check.known[d]]
        /\ \A d \in Clients \ {c} : In(check.known, d) = In(KnownBy(l), d)
        /\ In(check.known, c) = IF check.allowed THEN Append(FreshOf(l, c), now) ELSE FreshOf(l, c)
        /\ check.allowed <=> Len(FreshOf(l, c)) < Limits[l].max
        /\ ~ check.allowed =>
              check.retry = LET retry == RetryAfter(FreshOf(l, c)[1], Limits[l].window)
                            IN IF retry > 1 THEN retry ELSE 1
    <3>1. c \in Clients /\ l \in DOMAIN Limits
      BY <1>1, <1>8
    <3> QED BY <3>1, CheckOf DEF check
  <2>2. times'[l] = check.known /\ \A d \in Clients : TimesOf(l, d)' = In(check.known, d)
    <3>1. times'[l] = check.known
      BY <1>1, <1>3, <1>8
    <3> QED BY <3>1 DEF TimesOf, In
  <2>3. ServerTypes'
    <3>1. DOMAIN KnownBy(l) \subseteq DOMAIN times[l]
      BY DEF KnownBy, Evicted, Restrict
    <3>2. DOMAIN check.known \subseteq Clients
      BY <1>1, <1>3, <1>8, <2>1, <3>1
    <3>3. check.known = [d \in DOMAIN check.known |-> check.known[d]]
      BY <2>1
    <3>4. /\ times' = [k \in DOMAIN Limits |-> times'[k]]
          /\ \A k \in DOMAIN Limits :
                DOMAIN times'[k] \subseteq Clients
                /\ times'[k] = [d \in DOMAIN times'[k] |-> times'[k][d]]
      BY <1>1, <1>3, <1>8, <3>2, <3>3
    <3>5. checks' \in [DOMAIN Limits -> 0..(CleanupInterval - 1)]
      BY <1>1, <1>3, <2>1
    <3>6. admitted' \in [DOMAIN Limits -> [Clients -> Seq(Nat)]]
      <4>1. CASE admitted' = admitted
        BY <1>3, <4>1
      <4>2. CASE admitted' = [admitted EXCEPT ![l][c] = Append(@, now)]
        <5>1. Append(admitted[l][c], now) \in Seq(Nat)
          BY <1>1, <1>3, <1>4, <1>8
        <5> QED BY <1>3, <4>2, <5>1
      <4> QED BY <1>2, <4>1, <4>2
    <3> QED BY <1>1, <1>3, <3>4, <3>5, <3>6 DEF ServerTypes
  <2>4. ASSUME NEW d \in Clients, d # c
        PROVE  (Covers(TimesOf(l, d), l, d) /\ Passed(l, d) /\ Refused(l, d))'
    <3>1. TimesOf(l, d)' = In(KnownBy(l), d)
      BY <2>1, <2>2, <2>4
    <3>2. Refused(l, d)'
      BY <1>1, <2>4 DEF Refused, c
    <3> QED BY <1>1, <1>5, <1>8, <2>4, <3>1, <3>2, Frame
  <2>5. (Covers(TimesOf(l, c), l, c) /\ Passed(l, c) /\ Refused(l, c))'
    <3>1. CASE check.allowed
      <4>1. TimesOf(l, c)' = Append(FreshOf(l, c), now) /\ Len(FreshOf(l, c)) < Limits[l].max
        BY <1>1, <2>1, <2>2, <3>1
      <4>2. admitted'[l][c] = Append(admitted[l][c], now) /\ last'.status # 429
        BY <1>1, <1>2, <1>3, <1>8, <3>1
      <4>3. Covers(TimesOf(l, c), l, c)' /\ Passed(l, c)'
        <5>1. Covers(TimesOf(l, c), l, c)'
          BY <1>1, <1>8, <4>1, <4>2, AppendCovers
        <5>2. Passed(l, c)'
          BY <1>1, <1>8, <4>1, <4>2, AppendPassed
        <5> QED BY <5>1, <5>2
      <4>4. Refused(l, c)'
        BY <4>2 DEF Refused
      <4> QED BY <4>3, <4>4
    <3>2. CASE ~ check.allowed
      <4>1. TimesOf(l, c)' = FreshOf(l, c) /\ ~ (Len(FreshOf(l, c)) < Limits[l].max)
        BY <1>1, <2>1, <2>2, <3>2
      <4>2. admitted'[l][c] = admitted[l][c] /\ last'.retry = check.retry
        BY <1>2, <3>2
      <4>3. Refused(l, c)'
        BY <1>1, <1>8, <2>1, <3>2, <4>1, <4>2, RefusalStep
      <4> QED BY <1>1, <1>8, <4>1, <4>2, <4>3, Frame
    <3> QED BY <3>1, <3>2
  <2> QED BY <1>6, <2>3, <2>4, <2>5 DEF LInv
<1> QED BY <1>7, <1>8

\* As time passes more of the kept times are stale, and none is later.
LEMMA TickStep ==
    ASSUME LInv, Tick
    PROVE  LInv'
<1>1. now' = now + 1 /\ now < MaxTicks /\ UNCHANGED <<times, checks, admitted, last>>
  BY DEF Tick
<1>2. ServerTypes' /\ now \in Nat /\ MaxTicks \in Nat
  BY <1>1, ServerAssumption DEF LInv, ServerTypes
<1>3. ASSUME NEW l \in DOMAIN Limits, NEW c \in Clients
      PROVE  (Covers(TimesOf(l, c), l, c) /\ Passed(l, c) /\ Refused(l, c))'
  <2> DEFINE a == admitted[l][c]
             w == Limits[l].window
  <2>1. /\ a \in Seq(Nat) /\ w \in Nat /\ Limits[l].max \in Nat /\ admitted'[l][c] = a
        /\ Covers(TimesOf(l, c), l, c) /\ Passed(l, c) /\ Refused(l, c)
    BY <1>1, Constants DEF LInv, ServerTypes
  <2>2. DOMAIN a = 1..Len(a) /\ Len(a) \in Nat /\ \A i \in 1..Len(a) : a[i] \in Nat
    BY <2>1, Times
  <2>3. TimesOf(l, c)' = TimesOf(l, c)
    BY <1>1 DEF TimesOf
  <2>4. Covers(TimesOf(l, c), l, c)'
    <3> DEFINE s == TimesOf(l, c)
    <3>1. PICK m \in 0..Len(a) : IsTail(s, a, m) /\ \A i \in 1..m : a[i] =< now - w
      BY <2>1 DEF Covers
    <3>2. \A i \in 1..m : a[i] =< now + 1 - w
      <4> SUFFICES ASSUME NEW i \in 1..m PROVE a[i] =< now + 1 - w
        OBVIOUS
      <4>1. a[i] \in Nat /\ a[i] =< now - w
        BY <2>2, <3>1
      <4> HIDE DEF a, w
      <4> QED BY <1>2, <2>1, <4>1
    <3>3. s \in Seq(Nat) /\ Len(s) =< Limits[l].max
      BY <2>1 DEF Covers
    <3>4. TimesOf(l, c)' = s
      BY <2>3
    <3>5. \E j \in 0..Len(admitted'[l][c]) :
             IsTail(s, admitted'[l][c], j) /\ \A i \in 1..j : admitted'[l][c][i] =< now' - w
      <4>1. \A i \in 1..m : a[i] =< now' - w
        <5> SUFFICES ASSUME NEW i \in 1..m PROVE a[i] =< now' - w
          OBVIOUS
        <5>1. a[i] =< now + 1 - w /\ now' = now + 1 /\ a[i] \in Nat
          BY <1>1, <2>2, <3>1, <3>2
        <5> HIDE DEF a, w
        <5> QED BY <1>2, <2>1, <5>1
      <4> HIDE DEF a, s, w
      <4> QED BY <2>1, <3>1, <4>1
    <3> HIDE DEF s
    <3> QED BY <3>3, <3>4, <3>5 DEF Covers
  <2>5. Passed(l, c)'
    <3>1. Ascending(a) /\ \A i \in 1..Len(a) : a[i] =< now
      BY <2>1 DEF Passed
    <3>2. \A i \in 1..Len(a) : a[i] =< now + 1
      BY <1>2, <2>2, <3>1
    <3>3. ASSUME NEW t \in 0..now + 1
          PROVE  Cardinality(Window(l, c, t)) =< Limits[l].max
      <4>1. CASE t \in 0..now
        BY <2>1, <4>1 DEF Passed
      <4>2. CASE t = now + 1
        <5>1. Window(l, c, t) \subseteq Window(l, c, now)
          <6>1. ASSUME NEW i \in DOMAIN a, a[i] \in (t - w + 1)..t
                PROVE  a[i] \in (now - w + 1)..now
            <7>1. a[i] \in Nat /\ a[i] =< now
              BY <2>2, <3>1
            <7>2. a[i] \in (t - w + 1)..t /\ t = now + 1
              BY <4>2, <6>1
            <7> HIDE DEF a, w
            <7> QED BY <1>2, <2>1, <7>1, <7>2
          <6> QED BY <6>1 DEF Window
        <5>2. IsFiniteSet(Window(l, c, now)) /\ Cardinality(Window(l, c, now)) =< Limits[l].max
          <6>1. IsFiniteSet(Window(l, c, now))
            BY FreshCovers, WindowOf
          <6>2. now \in 0..now
            BY <1>2
          <6> QED BY <2>1, <6>1, <6>2 DEF Passed
        <5>3. /\ Cardinality(Window(l, c, t)) =< Cardinality(Window(l, c, now))
              /\ Cardinality(Window(l, c, t)) \in Nat /\ Cardinality(Window(l, c, now)) \in Nat
          BY <5>1, <5>2, FS_Subset, FS_CardinalityType
        <5> QED BY <2>1, <5>2, <5>3
      <4> QED BY <1>2, <4>1, <4>2
    <3>4. \A t : Window(l, c, t)' = Window(l, c, t)
      BY <2>1 DEF Window
    <3>5. \A t \in 0..now + 1 : Cardinality(Window(l, c, t))' =< Limits[l].max
      BY <3>3, <3>4
    <3> QED BY <1>1, <2>1, <3>1, <3>2, <3>5 DEF Passed
  <2>6. Refused(l, c)'
    <3> SUFFICES ASSUME last.status = 429, LimiterOf(last.req) = l, last.req.client = c
                 PROVE  /\ last.at \in 0..now + 1
                        /\ \E m \in 1..Len(a) : RefusedBy(l, c, m)'
      BY <1>1 DEF Refused
    <3>1. last.at \in 0..now /\ \E m \in 1..Len(a) : RefusedBy(l, c, m)
      BY <2>1 DEF Refused
    <3>2. \A m \in 1..Len(a) : RefusedBy(l, c, m)' <=> RefusedBy(l, c, m)
      BY <1>1 DEF RefusedBy
    <3> QED BY <1>2, <3>1, <3>2
  <2> QED BY <2>4, <2>5, <2>6
<1> QED BY <1>2, <1>3 DEF LInv

\* Nothing has been let through yet.
LEMMA InitLInv == ServerInit => LInv
<1> SUFFICES ASSUME ServerInit PROVE LInv
  OBVIOUS
<1>1. /\ now = 0 /\ times = [l \in DOMAIN Limits |-> <<>>]
      /\ checks = [l \in DOMAIN Limits |-> 0]
      /\ admitted = [l \in DOMAIN Limits |-> [c \in Clients |-> <<>>]]
      /\ last = [status |-> 0]
  BY DEF ServerInit
<1>2. ServerTypes
  <2>1. <<>> \in Seq(Nat) /\ DOMAIN <<>> = {} /\ 0 \in 0..MaxTicks /\ 0 \in 0..(CleanupInterval - 1)
    BY ServerAssumption
  <2>2. <<>> = [c \in DOMAIN <<>> |-> <<>>[c]]
    OBVIOUS
  <2> QED BY <1>1, <2>1, <2>2 DEF ServerTypes
<1>3. ASSUME NEW l \in DOMAIN Limits, NEW c \in Clients
      PROVE  Covers(TimesOf(l, c), l, c) /\ Passed(l, c) /\ Refused(l, c)
  <2>1. admitted[l][c] = <<>> /\ TimesOf(l, c) = <<>> /\ Len(<<>>) = 0 /\ DOMAIN <<>> = {}
    BY <1>1 DEF TimesOf
  <2>2. Limits[l].max \in Nat
    BY Constants
  <2>3. Covers(TimesOf(l, c), l, c)
    BY <2>1, <2>2 DEF Covers, IsTail
  <2>4. Passed(l, c)
    <3>1. \A t : Window(l, c, t) = {}
      BY <2>1 DEF Window
    <3>2. \A t : Cardinality(Window(l, c, t)) = 0
      BY <3>1, FS_EmptySet
    <3>3. Ascending(<<>>)
      BY <2>1 DEF Ascending
    <3>4. \A i \in 1..Len(admitted[l][c]) : admitted[l][c][i] =< now
      BY <2>1
    <3>5. \A t \in 0..now : Cardinality(Window(l, c, t)) =< Limits[l].max
      BY <2>2, <3>2
    <3> QED BY <2>1, <3>3, <3>4, <3>5 DEF Passed
  <2>5. Refused(l, c)
    BY <1>1 DEF Refused
  <2> QED BY <2>3, <2>4, <2>5
<1> QED BY <1>2, <1>3 DEF LInv

\* The invariant of the limiter is inductive.
THEOREM LimiterInvariance == ServerSpec => []LInv
<1>1. LInv /\ [ServerNext]_serverVars => LInv'
  <2> SUFFICES ASSUME LInv, [ServerNext]_serverVars PROVE LInv'
    OBVIOUS
  <2>1. ASSUME NEW req \in Requests, RejectHost(req) \/ ServeExempt(req)
        PROVE  LInv'
    BY <2>1, UnlimitedStep
  <2>2. ASSUME NEW req \in Requests, ServeLimited(req)
        PROVE  LInv'
    BY <2>2, LimitedStep
  <2>3. CASE Tick
    BY <2>3, TickStep
  <2>4. CASE UNCHANGED serverVars
    <3>1. UNCHANGED <<now, times, checks, admitted, last>>
      BY <2>4 DEF serverVars
    <3>2. ServerTypes'
      BY <3>1 DEF LInv, ServerTypes
    <3>3. ASSUME NEW l \in DOMAIN Limits, NEW c \in Clients
          PROVE  (Covers(TimesOf(l, c), l, c) /\ Passed(l, c) /\ Refused(l, c))'
      <4>1. TimesOf(l, c)' = TimesOf(l, c)
        BY <3>1 DEF TimesOf
      <4> QED BY <3>1, <4>1, Frame
    <3> QED BY <3>2, <3>3 DEF LInv
  <2> QED BY <2>1, <2>2, <2>3, <2>4 DEF ServerNext
<1> QED BY <1>1, InitLInv, PTL DEF ServerSpec

\* When a client is refused the window is full, and the wait lasts until its
\* oldest request leaves it, and at most a second longer.
LEMMA RefusalExact ==
    ASSUME LInv, NEW l \in DOMAIN Limits, NEW c \in Clients,
           last.status = 429, LimiterOf(last.req) = l, last.req.client = c
    PROVE  LET wait == last.retry * TicksPerSecond
           IN /\ InWindow(l, c, last.at) = Limits[l].max
              /\ InWindow(l, c, last.at + wait) < Limits[l].max
              /\ InWindow(l, c, last.at + wait - TicksPerSecond - 1) >= Limits[l].max
<1> DEFINE a == admitted[l][c]
           w == Limits[l].window
           max == Limits[l].max
           T == TicksPerSecond
           wait == last.retry * T
           at == last.at
           After(t) == {n \in DOMAIN a : a[n] > t - w}
<1>1. /\ a \in Seq(Nat) /\ Ascending(a) /\ w \in Nat /\ max \in Nat /\ max > 0
      /\ T \in Nat \ {0} /\ now \in Nat /\ at \in 0..now
  BY Constants, ServerAssumption DEF LInv, ServerTypes, Passed, Refused
<1>2. PICK m \in 1..Len(a) : RefusedBy(l, c, m)
  BY DEF LInv, Refused
<1>3. /\ Len(a) - m + 1 = max
      /\ a[m] > at - w
      /\ \A i \in 1..m - 1 : a[i] =< at - w
      /\ last.retry = (a[m] + w - at) \div T + 1
  BY <1>2 DEF RefusedBy
<1>4. DOMAIN a = 1..Len(a) /\ Len(a) \in Nat /\ \A i \in 1..Len(a) : a[i] \in Nat
  BY <1>1, Times
<1>5. \A t : InWindow(l, c, t) = Cardinality(After(t))
  BY DEF InWindow
<1>6. at \in Nat /\ a[m] \in Nat
  BY <1>1, <1>4
<1> HIDE DEF a, w, max, T, wait, at
<1>7. a[m] + w - at \in Nat
  <2> DEFINE e == a[m]
  <2>1. e \in Nat /\ e > at - w
    BY <1>3, <1>6
  <2> HIDE DEF e
  <2>2. e + w - at \in Nat
    BY <1>1, <1>6, <2>1
  <2> QED BY <2>2 DEF e
<1>8. /\ wait \in Nat
      /\ at + wait - w > a[m]
      /\ at + wait - T - 1 - w < a[m]
  <2> DEFINE x == a[m] + w - at
  <2>1. wait = (x \div T + 1) * T
    BY <1>3 DEF wait
  <2>2. x \in Nat /\ x = a[m] + w - at
    BY <1>7
  <2> HIDE DEF x
  <2>3. wait \in Nat /\ wait - T =< x /\ x < wait
    BY <1>1, <2>1, <2>2, Quotient
  <2> QED BY <1>1, <1>6, <2>2, <2>3
<1>9. IsFiniteSet(m..Len(a)) /\ Cardinality(m..Len(a)) = max
  <2>1. m - 1 \in 0..Len(a) /\ (m - 1) + 1 = m /\ Len(a) - (m - 1) = max
    BY <1>1, <1>3, <1>4
  <2>2. (m - 1) + 1..Len(a) = m..Len(a)
    BY <2>1
  <2>3. /\ IsFiniteSet((m - 1) + 1..Len(a))
        /\ Cardinality((m - 1) + 1..Len(a)) = Len(a) - (m - 1)
    BY <1>4, <2>1, TailCount, Zenon
  <2> QED BY <2>1, <2>2, <2>3
<1>10. After(at) = m..Len(a)
  <2>1. ASSUME NEW i \in 1..Len(a)
        PROVE  a[i] > at - w <=> i \in m..Len(a)
    <3>1. CASE i \in 1..m - 1
      <4>1. a[i] =< at - w /\ a[i] \in Nat
        BY <1>3, <1>4, <3>1
      <4> QED BY <1>1, <1>6, <3>1, <4>1
    <3>2. CASE i \in m..Len(a)
      <4>1. a[m] =< a[i] /\ a[i] \in Nat
        BY <1>1, <1>4, <3>2 DEF Ascending
      <4> QED BY <1>1, <1>3, <1>6, <3>2, <4>1
    <3> QED BY <1>4, <3>1, <3>2
  <2> QED BY <1>4, <2>1
<1>11. After(at + wait) \subseteq m + 1..Len(a)
  <2> DEFINE t == at + wait
  <2>1. ASSUME NEW i \in DOMAIN a, a[i] > t - w
        PROVE  i \in m + 1..Len(a)
    <3>1. CASE i =< m
      <4>1. a[i] =< a[m] /\ a[i] \in Nat
        BY <1>1, <1>4, <3>1 DEF Ascending
      <4> QED BY <1>1, <1>6, <1>8, <2>1, <4>1
    <3> QED BY <1>4, <3>1
  <2> HIDE DEF t
  <2>3. After(t) \subseteq m + 1..Len(a)
    BY <2>1
  <2> QED BY <2>3 DEF t
<1>12. m..Len(a) \subseteq After(at + wait - T - 1)
  <2> DEFINE t == at + wait - T - 1
  <2>3. ASSUME NEW i \in m..Len(a)
        PROVE  i \in DOMAIN a /\ a[i] > t - w
    <3>1. i \in 1..Len(a)
      BY <1>4
    <3>2. a[m] =< a[i] /\ a[i] \in Nat
      BY <1>1, <1>4, <3>1 DEF Ascending
    <3> QED BY <1>1, <1>4, <1>6, <1>8, <3>1, <3>2
  <2> HIDE DEF t
  <2>4. m..Len(a) \subseteq After(t)
    BY <2>3
  <2> QED BY <2>4 DEF t
<1>13. Cardinality(After(at + wait)) < max
  <2>1. IsFiniteSet(m + 1..Len(a)) /\ Cardinality(m + 1..Len(a)) = Len(a) - m
    BY <1>4, TailCount
  <2>2. /\ Cardinality(After(at + wait)) =< Len(a) - m
        /\ Cardinality(After(at + wait)) \in Nat
    BY <1>11, <2>1, FS_Subset, FS_CardinalityType
  <2> QED BY <1>1, <1>3, <1>4, <2>2
<1>14. Cardinality(After(at + wait - T - 1)) >= max
  <2>1. IsFiniteSet(After(at + wait - T - 1))
    <3>1. IsFiniteSet(0 + 1..Len(a))
      BY <1>4, TailCount
    <3>2. After(at + wait - T - 1) \subseteq 0 + 1..Len(a)
      BY <1>4
    <3> HIDE DEF After
    <3> QED BY <3>1, <3>2, FS_Subset
  <2> HIDE DEF After
  <2>2. max =< Cardinality(After(at + wait - T - 1))
    BY <1>9, <1>12, <2>1, FS_Subset
  <2> QED BY <1>1, <2>1, <2>2, FS_CardinalityType
<1> HIDE DEF After
<1>15. InWindow(l, c, at) = max
  BY <1>5, <1>9, <1>10
<1>16. InWindow(l, c, at + wait) < max
  BY <1>5, <1>13
<1>17. InWindow(l, c, at + wait - T - 1) >= max
  BY <1>5, <1>14
<1> QED BY <1>15, <1>16, <1>17 DEF max, T, wait, at

\* The limiter is a sliding window, and Retry-After is enough and not too much,
\* for any limits, clients, clock and interval of the cleaning up.
THEOREM SlidingWindow == ServerSpec => []LimiterIsSlidingWindow
<1>1. LInv => LimiterIsSlidingWindow
  <2> SUFFICES ASSUME LInv, NEW l \in DOMAIN Limits, NEW c \in Clients
               PROVE  LET max == Limits[l].max
                          answered == last.status \notin {0, 400} /\ LimiterOf(last.req) = l
                                      /\ last.req.client = c
                          refused == answered /\ last.status = 429
                          wait == last.retry * TicksPerSecond
                      IN /\ \A t \in 0..now : Cardinality({n \in DOMAIN admitted[l][c] :
                                admitted[l][c][n] \in (t - Limits[l].window + 1)..t}) <= max
                         /\ refused => /\ InWindow(l, c, last.at) = max
                                       /\ InWindow(l, c, last.at + wait) < max
                                       /\ InWindow(l, c, last.at + wait - TicksPerSecond - 1) >= max
    BY DEF LimiterIsSlidingWindow
  <2>1. \A t \in 0..now : Cardinality(Window(l, c, t)) =< Limits[l].max
    BY DEF LInv, Passed
  <2>2. last.status = 429 /\ LimiterOf(last.req) = l /\ last.req.client = c =>
          LET wait == last.retry * TicksPerSecond
          IN /\ InWindow(l, c, last.at) = Limits[l].max
             /\ InWindow(l, c, last.at + wait) < Limits[l].max
             /\ InWindow(l, c, last.at + wait - TicksPerSecond - 1) >= Limits[l].max
    BY RefusalExact
  <2> QED BY <2>1, <2>2 DEF Window
<1> QED BY <1>1, LimiterInvariance, PTL
=============================================================================
