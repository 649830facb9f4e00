----------------------------- MODULE EventChain -----------------------------
(***************************************************************************)
(* The event store: rows that are only appended, each carrying a hash over *)
(* its content and the hash of the row before it, written by connections   *)
(* of several processes.  append_event and append_events read the last     *)
(* hash and then insert; between the two no other row may be committed.    *)
(* Some callers are inside a transaction of their own (an import, a        *)
(* deletion) and may roll it back after the append.                        *)
(***************************************************************************)
EXTENDS Integers, Sequences

CONSTANTS
    Connections,    \* connections that append
    NoOne,          \* no connection has the right to write
    Data,           \* what a row's hash covers: its time, type and payload
    MaxOldRows,     \* bound: rows older than the prev_hash column
    MaxBatch,       \* bound: the events of one append_events
    MaxRows         \* bound: the rows of the store when a call begins, with its own

ASSUME NoOneAssumption == NoOne \notin Connections
ASSUME ChainBoundsAssumption == MaxOldRows \in Nat /\ MaxBatch \in Nat /\ MaxRows \in Nat

\* A hash stands for all it depends on, the data of the rows chained up to it:
\* _compute_hash, as free of collisions as SHA-256 is taken to be.
Hash(prev, data) == Append(prev, data)

\* A column that is NULL, which _compute_hash takes as the empty string.
NoHash == <<>>

Row == [data : Data, hash : Seq(Data)]

VARIABLES
    log,            \* the committed rows of events, by id
    tail,           \* the rows the writer has inserted and not committed
    holder,         \* the connection that has the right to write
    call            \* each connection's call

chainVars == <<log, tail, holder, call>>

Idle == [step |-> "idle"]

\* The last row's hash, as the connection p sees the table.
LastHash(p) ==
    LET rows == IF holder = p THEN log \o tail ELSE log
    IN IF rows = <<>> THEN NoHash ELSE rows[Len(rows)].hash

ClientState ==
    {Idle} \cup [step : {"called", "begun"}, batch : Seq(Data)]
           \cup [step : {"read"}, batch : Seq(Data), prev : Seq(Data)]

\* Rows are pending only for the writer, and reading the last hash is done with
\* the right to write.
ChainTypeOK ==
    /\ log \in Seq(Row) /\ tail \in Seq(Row)
    /\ holder \in Connections \cup {NoOne}
    /\ call \in [Connections -> ClientState]
    /\ holder = NoOne => tail = <<>>
    /\ \A p \in Connections :
          /\ holder = p => call[p].step # "idle"
          /\ call[p].step \in {"begun", "read"} => holder = p

-----------------------------------------------------------------------------
\* A caller stamps its events and calls: outside any transaction, or inside
\* its own, which has written something and so has the right to write.
Call(p, batch, inside) ==
    /\ call[p] = Idle
    /\ Len(log) + Len(batch) =< MaxRows
    /\ inside => holder = NoOne
    /\ holder' = IF inside THEN p ELSE holder
    /\ call' = [call EXCEPT ![p] = [step |-> "called", batch |-> batch]]
    /\ UNCHANGED <<log, tail>>

\* Mutant: no BEGIN IMMEDIATE; the right to write is taken by the INSERT.
BeginWrite_Deferred(p) ==
    /\ call[p].step = "called"
    /\ holder' = holder
    /\ call' = [call EXCEPT ![p].step = "begun"]
    /\ UNCHANGED <<log, tail>>

\* BEGIN IMMEDIATE, unless the connection is in a transaction.
BeginWrite(p) ==
    /\ call[p].step = "called"
    /\ holder \in {p, NoOne}
    /\ holder' = p
    /\ call' = [call EXCEPT ![p].step = "begun"]
    /\ UNCHANGED <<log, tail>>

ReadLast(p) ==
    /\ call[p].step = "begun"
    /\ call' = [call EXCEPT ![p] =
          [step |-> "read", batch |-> call[p].batch, prev |-> LastHash(p)]]
    /\ UNCHANGED <<log, tail, holder>>

\* The INSERT of the next event, chained to the one before it.
InsertNext(p) ==
    LET c   == call[p]
        new == Hash(c.prev, Head(c.batch))
    IN /\ c.step = "read" /\ c.batch # <<>>
       /\ holder \in {p, NoOne}
       /\ holder' = p
       /\ tail' = Append(tail, [data |-> Head(c.batch), hash |-> new])
       /\ call' = [call EXCEPT ![p] =
             [step |-> "read", batch |-> Tail(c.batch), prev |-> new]]
       /\ UNCHANGED log

\* The commit, of append_event or of the caller.
Commit(p) ==
    /\ call[p].step = "read" /\ call[p].batch = <<>>
    /\ holder \in {p, NoOne}
    /\ log' = log \o tail
    /\ tail' = <<>> /\ holder' = NoOne
    /\ call' = [call EXCEPT ![p] = Idle]

\* Mutant: the rows of a failed caller stay in the connection's transaction.
Pending_Kept == tail

\* What is left of the writer's rows when its transaction is rolled back.
Pending == <<>>

\* The call or its caller fails, or the process stops.
Fail(p) ==
    /\ call[p] # Idle
    /\ IF holder = p
         THEN tail' = Pending /\ holder' = NoOne
         ELSE UNCHANGED <<tail, holder>>
    /\ call' = [call EXCEPT ![p] = Idle]
    /\ UNCHANGED log

-----------------------------------------------------------------------------
\* A new store, or one with rows from before the hash column.
ChainInit ==
    /\ \E n \in 0 .. MaxOldRows, d \in Data : log = [i \in 1 .. n |-> [data |-> d, hash |-> NoHash]]
    /\ tail = <<>>
    /\ holder = NoOne
    /\ call = [p \in Connections |-> Idle]

Batches == UNION {[1 .. n -> Data] : n \in 0 .. MaxBatch}

ChainNext ==
    \E p \in Connections :
        \/ \E batch \in Batches, inside \in BOOLEAN : Call(p, batch, inside)
        \/ BeginWrite(p) \/ ReadLast(p) \/ InsertNext(p) \/ Commit(p) \/ Fail(p)

ChainSpec == ChainInit /\ [][ChainNext]_chainVars

-----------------------------------------------------------------------------
(* Properties.                                                             *)

PrevHash(n) == IF n = 1 THEN NoHash ELSE log[n - 1].hash

\* verify_event_chain: the rows it reports.  Rows without a hash are skipped.
BrokenRows ==
    {n \in 1 .. Len(log) :
        /\ log[n].hash # NoHash
        /\ log[n].hash # Hash(PrevHash(n), log[n].data)}

\* verify_event_chain reports nothing that the program itself wrote, whatever
\* connections appended, in whatever order, and whichever of them failed.
ChainVerifies == BrokenRows = {}

=============================================================================
