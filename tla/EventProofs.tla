---------------------------- MODULE EventProofs ----------------------------
(***************************************************************************)
(* Proofs about the event store and its export, EventChain and             *)
(* EventExport, which share no state: for any connections, data and        *)
(* bounds every row of the store verifies against the row before it; for   *)
(* any store, limit and number of attempts what an export reports as sent  *)
(* has arrived.                                                            *)
(***************************************************************************)
EXTENDS EventChain, EventExport, FiniteSetTheorems, SequenceTheorems, TLAPS

----------------------------------------------------------------------------
(* The store.  The inductive invariant says of the rows the writer sees,   *)
(* committed or not, what ChainVerifies says of the committed ones, and    *)
(* that a connection which has read the last hash still holds it.          *)
LastOf(rows) == IF rows = <<>> THEN NoHash ELSE rows[Len(rows)].hash

Chained(rows) ==
    \A n \in 1 .. Len(rows) :
        \/ rows[n].hash = NoHash
        \/ rows[n].hash = Hash(IF n = 1 THEN NoHash ELSE rows[n - 1].hash, rows[n].data)

HoldsLast == \A p \in Connections : call[p].step = "read" => call[p].prev = LastOf(log \o tail)

IInv == ChainTypeOK /\ Chained(log \o tail) /\ HoldsLast

-----------------------------------------------------------------------------
\* A row hashed over the last hash extends a chained sequence.
LEMMA ChainedAppend ==
    ASSUME NEW rows \in Seq(Row), NEW d \in Data, Chained(rows)
    PROVE  LET row == [data |-> d, hash |-> Hash(LastOf(rows), d)]
           IN /\ Append(rows, row) \in Seq(Row)
              /\ Chained(Append(rows, row))
              /\ LastOf(Append(rows, row)) = row.hash
<1> DEFINE row == [data |-> d, hash |-> Hash(LastOf(rows), d)]
           more == Append(rows, row)
<1>1. LastOf(rows) \in Seq(Data)
  <2>1. CASE rows = <<>>
    BY <2>1 DEF LastOf, NoHash
  <2>2. CASE rows # <<>>
    <3>1. Len(rows) \in 1 .. Len(rows)
      BY <2>2
    <3>2. rows[Len(rows)] \in Row
      BY <3>1
    <3> QED BY <2>2, <3>2 DEF LastOf, Row
  <2> QED BY <2>1, <2>2
<1>2. row \in Row
  BY <1>1 DEF Row, Hash
<1>3. more \in Seq(Row) /\ Len(more) = Len(rows) + 1 /\ more[Len(more)] = row
  BY <1>2
<1>4. \A n \in 1 .. Len(rows) : more[n] = rows[n]
  BY <1>2
<1>5. ASSUME NEW n \in 1 .. Len(more)
      PROVE  \/ more[n].hash = NoHash
             \/ more[n].hash = Hash(IF n = 1 THEN NoHash ELSE more[n - 1].hash, more[n].data)
  <2>1. CASE n \in 1 .. Len(rows)
    <3>1. more[n] = rows[n] /\ (n # 1 => more[n - 1] = rows[n - 1])
      BY <1>4, <2>1
    <3> QED BY <3>1, <2>1 DEF Chained
  <2>2. CASE n = Len(rows) + 1
    <3>1. more[n] = row
      BY <1>3, <2>2
    <3>2. CASE rows = <<>>
      <4>1. n = 1 /\ LastOf(rows) = NoHash
        BY <2>2, <3>2 DEF LastOf
      <4> QED BY <3>1, <4>1
    <3>3. CASE rows # <<>>
      <4>1. n # 1 /\ more[n - 1] = rows[Len(rows)] /\ LastOf(rows) = rows[Len(rows)].hash
        BY <1>4, <2>2, <3>3 DEF LastOf
      <4> QED BY <3>1, <4>1
    <3> QED BY <3>2, <3>3
  <2> QED BY <1>3, <2>1, <2>2
<1>6. Chained(more)
  BY <1>5 DEF Chained
<1>7. LastOf(more) = row.hash
  <2>1. more # <<>>
    BY <1>3
  <2> QED BY <1>3, <2>1 DEF LastOf
<1> QED BY <1>3, <1>6, <1>7

\* What is chained to the end is chained up to any point.
LEMMA ChainedPrefix ==
    ASSUME NEW a \in Seq(Row), NEW b \in Seq(Row), Chained(a \o b)
    PROVE  Chained(a)
<1>1. \A n \in 1 .. Len(a) : n \in 1 .. Len(a \o b) /\ (a \o b)[n] = a[n]
  OBVIOUS
<1>2. ASSUME NEW n \in 1 .. Len(a)
      PROVE  \/ a[n].hash = NoHash
             \/ a[n].hash = Hash(IF n = 1 THEN NoHash ELSE a[n - 1].hash, a[n].data)
  <2>1. n \in 1 .. Len(a \o b) /\ (a \o b)[n] = a[n]
    BY <1>1
  <2>2. n # 1 => (a \o b)[n - 1] = a[n - 1]
    <3>1. n # 1 => n - 1 \in 1 .. Len(a)
      OBVIOUS
    <3> QED BY <1>1, <3>1
  <2> QED BY <2>1, <2>2 DEF Chained
<1> QED BY <1>2 DEF Chained

-----------------------------------------------------------------------------
THEOREM ChainInitIInv == ChainInit => IInv
<1> SUFFICES ASSUME ChainInit PROVE IInv
  OBVIOUS
<1>1. PICK n \in 0 .. MaxOldRows, d \in Data : log = [i \in 1 .. n |-> [data |-> d, hash |-> NoHash]]
  BY DEF ChainInit
<1>2. n \in Nat /\ [data |-> d, hash |-> NoHash] \in Row
  BY ChainBoundsAssumption DEF Row, NoHash
<1>3. log \in Seq(Row) /\ Len(log) = n /\ \A i \in 1 .. n : log[i].hash = NoHash
  BY <1>1, <1>2
<1>4. tail = <<>> /\ log \o tail = log
  BY <1>3 DEF ChainInit
<1>5. ChainTypeOK
  BY NoOneAssumption, <1>3, <1>4 DEF ChainInit, ChainTypeOK, ClientState, Idle
<1>6. Chained(log \o tail)
  BY <1>3, <1>4 DEF Chained
<1>7. HoldsLast
  BY DEF ChainInit, HoldsLast, Idle
<1> QED BY <1>5, <1>6, <1>7 DEF IInv

\* The rows a connection sees are those of the writer, when it is the writer.
LEMMA WriterSees ==
    ASSUME ChainTypeOK, NEW p \in Connections, call[p].step = "begun"
    PROVE  LastHash(p) = LastOf(log \o tail) /\ LastHash(p) \in Seq(Data)
<1>1. holder = p
  BY DEF ChainTypeOK
<1>2. log \o tail \in Seq(Row)
  BY DEF ChainTypeOK
<1>3. LastHash(p) = LastOf(log \o tail)
  BY <1>1 DEF LastHash, LastOf
<1>4. CASE log \o tail = <<>>
  BY <1>3, <1>4 DEF LastOf, NoHash
<1>5. CASE log \o tail # <<>>
  <2> DEFINE rows == log \o tail
  <2>1. Len(rows) \in 1 .. Len(rows)
    BY <1>2, <1>5
  <2>2. rows[Len(rows)] \in Row
    BY <1>2, <2>1
  <2> QED BY <1>3, <1>5, <2>2 DEF LastOf, Row
<1> QED BY <1>3, <1>4, <1>5

LEMMA ChainStep == IInv /\ [ChainNext]_chainVars => IInv'
<1> SUFFICES ASSUME IInv, [ChainNext]_chainVars PROVE IInv'
  OBVIOUS
<1> USE NoOneAssumption DEF IInv
<1>1. ASSUME NEW p \in Connections, NEW batch \in Batches, NEW inside \in BOOLEAN, Call(p, batch, inside)
      PROVE  IInv'
  <2>1. batch \in Seq(Data)
    BY DEF Batches
  <2>2. ChainTypeOK'
    BY <1>1, <2>1 DEF Call, ChainTypeOK, ClientState, Idle
  <2>3. HoldsLast'
    BY <1>1 DEF Call, HoldsLast, ChainTypeOK
  <2>4. Chained(log \o tail)'
    BY <1>1 DEF Call
  <2> QED BY <2>2, <2>3, <2>4
<1>2. ASSUME NEW p \in Connections, BeginWrite(p) PROVE IInv'
  <2>1. call[p] \in ClientState /\ call[p].batch \in Seq(Data)
    BY <1>2 DEF BeginWrite, ChainTypeOK, ClientState, Idle
  <2>2. [call[p] EXCEPT !.step = "begun"] = [step |-> "begun", batch |-> call[p].batch]
    BY <1>2, <2>1 DEF BeginWrite, ClientState, Idle
  <2>3. ChainTypeOK'
    BY <1>2, <2>1, <2>2 DEF BeginWrite, ChainTypeOK, ClientState
  <2>4. HoldsLast'
    BY <1>2, <2>2 DEF BeginWrite, HoldsLast, ChainTypeOK
  <2>5. Chained(log \o tail)'
    BY <1>2 DEF BeginWrite
  <2> QED BY <2>3, <2>4, <2>5
<1>3. ASSUME NEW p \in Connections, ReadLast(p) PROVE IInv'
  <2>1. call[p].step = "begun" /\ call[p].batch \in Seq(Data)
    BY <1>3 DEF ReadLast, ChainTypeOK, ClientState, Idle
  <2>2. LastHash(p) = LastOf(log \o tail) /\ LastHash(p) \in Seq(Data)
    BY <2>1, WriterSees
  <2>3. ChainTypeOK'
    BY <1>3, <2>1, <2>2 DEF ReadLast, ChainTypeOK, ClientState
  <2>4. HoldsLast'
    BY <1>3, <2>2 DEF ReadLast, HoldsLast, ChainTypeOK
  <2>5. Chained(log \o tail)'
    BY <1>3 DEF ReadLast
  <2> QED BY <2>3, <2>4, <2>5
<1>4. ASSUME NEW p \in Connections, InsertNext(p) PROVE IInv'
  <2> DEFINE d    == Head(call[p].batch)
             rows == log \o tail
             row  == [data |-> d, hash |-> Hash(call[p].prev, d)]
  <2>1. /\ call[p].step = "read" /\ holder = p
        /\ call[p].batch \in Seq(Data) /\ call[p].batch # <<>>
        /\ call[p].prev \in Seq(Data)
    BY <1>4 DEF InsertNext, ChainTypeOK, ClientState, Idle
  <2>2. d \in Data /\ Tail(call[p].batch) \in Seq(Data)
    BY <2>1
  <2>3. call[p].prev = LastOf(rows) /\ rows \in Seq(Row)
    BY <2>1 DEF HoldsLast, ChainTypeOK
  <2>4. /\ Append(rows, row) \in Seq(Row)
        /\ Chained(Append(rows, row))
        /\ LastOf(Append(rows, row)) = row.hash
    BY <2>2, <2>3, ChainedAppend
  <2>5. row \in Row
    BY <2>1, <2>2 DEF Row, Hash
  <2>6. tail' = Append(tail, row) /\ log' = log /\ holder' = p
    BY <1>4, <2>1 DEF InsertNext
  <2>7. (log \o tail)' = Append(rows, row)
    BY <2>5, <2>6 DEF ChainTypeOK
  <2>8. call' = [call EXCEPT ![p] =
            [step |-> "read", batch |-> Tail(call[p].batch), prev |-> row.hash]]
    BY <1>4 DEF InsertNext
  <2>9. row.hash \in Seq(Data)
    BY <2>5 DEF Row
  <2>10. ChainTypeOK'
    <3>1. log' \in Seq(Row) /\ tail' \in Seq(Row)
      BY <2>5, <2>6 DEF ChainTypeOK
    <3>2. call' \in [Connections -> ClientState]
      BY <2>2, <2>8, <2>9 DEF ChainTypeOK, ClientState
    <3> QED BY <2>1, <2>6, <2>8, <3>1, <3>2 DEF ChainTypeOK
  <2>11. HoldsLast'
    <3>1. ASSUME NEW q \in Connections, call'[q].step = "read"
          PROVE  call'[q].prev = LastOf(Append(rows, row))
      <4>1. CASE q = p
        BY <2>4, <2>8, <4>1 DEF ChainTypeOK
      <4>2. CASE q # p
        BY <2>1, <2>8, <3>1, <4>2 DEF ChainTypeOK
      <4> QED BY <4>1, <4>2
    <3> QED BY <2>7, <3>1 DEF HoldsLast
  <2> QED BY <2>4, <2>7, <2>10, <2>11
<1>5. ASSUME NEW p \in Connections, Commit(p) PROVE IInv'
  <2>1. holder = p /\ log' = log \o tail /\ tail' = <<>> /\ holder' = NoOne
    BY <1>5 DEF Commit, ChainTypeOK
  <2>2. log' \in Seq(Row) /\ tail' \in Seq(Row) /\ (log \o tail)' = log \o tail
    BY <2>1 DEF ChainTypeOK
  <2>3. ChainTypeOK'
    BY <1>5, <2>1, <2>2 DEF Commit, ChainTypeOK, ClientState, Idle
  <2>4. HoldsLast'
    BY <1>5, <2>2 DEF Commit, HoldsLast, ChainTypeOK, Idle
  <2> QED BY <2>2, <2>3, <2>4
<1>6. ASSUME NEW p \in Connections, Fail(p) PROVE IInv'
  <2>1. log' = log /\ call' = [call EXCEPT ![p] = Idle]
    BY <1>6 DEF Fail
  <2>2. CASE holder = p
    <3>1. tail' = <<>> /\ holder' = NoOne
      BY <1>6, <2>2 DEF Fail, Pending
    <3>2. (log \o tail)' = log /\ Chained(log)
      BY <2>1, <3>1, ChainedPrefix DEF ChainTypeOK
    <3>3. ChainTypeOK'
      BY <2>1, <2>2, <3>1 DEF ChainTypeOK, ClientState, Idle
    <3>4. HoldsLast'
      BY <2>1, <2>2 DEF HoldsLast, ChainTypeOK, Idle
    <3> QED BY <3>2, <3>3, <3>4
  <2>3. CASE holder # p
    <3>1. tail' = tail /\ holder' = holder
      BY <1>6, <2>3 DEF Fail
    <3>2. ChainTypeOK'
      BY <2>1, <2>3, <3>1 DEF ChainTypeOK, ClientState, Idle
    <3>3. HoldsLast'
      BY <2>1, <3>1 DEF HoldsLast, ChainTypeOK, Idle
    <3>4. Chained(log \o tail)'
      BY <2>1, <3>1
    <3> QED BY <3>2, <3>3, <3>4
  <2> QED BY <2>2, <2>3
<1>7. CASE UNCHANGED chainVars
  BY <1>7 DEF chainVars, ChainTypeOK, HoldsLast
<1> QED BY <1>1, <1>2, <1>3, <1>4, <1>5, <1>6, <1>7 DEF ChainNext

THEOREM ChainInvariance == ChainSpec => []IInv
BY ChainInitIInv, ChainStep, PTL DEF ChainSpec

\* ChainTypeOK in every reachable state: while anyone is between reading the
\* last hash and committing, it alone has the right to write.
THEOREM ChainTypeCorrect == ChainSpec => []ChainTypeOK
<1>1. IInv => ChainTypeOK
  BY DEF IInv
<1> QED BY <1>1, ChainInvariance, PTL

\* ChainVerifies in every reachable state: verify_event_chain never reports a
\* row this program wrote.
THEOREM Verifies == ChainSpec => []ChainVerifies
<1>1. IInv => ChainVerifies
  <2> SUFFICES ASSUME IInv PROVE ChainVerifies
    OBVIOUS
  <2>1. Chained(log)
    BY ChainedPrefix DEF IInv, ChainTypeOK
  <2> QED BY <2>1 DEF Chained, ChainVerifies, BrokenRows, PrevHash
<1> QED BY <1>1, ChainInvariance, PTL

----------------------------------------------------------------------------
(* The export.                                                             *)
Export ==
    [step : {"done", "file", "hec", "exit"}, batch : Seq(Nat), toFile : BOOLEAN,
     toHec : BOOLEAN, ndjson : BOOLEAN, hec : BOOLEAN, attempt : 1..MaxRetries,
     written : Nat, posted : Nat, code : {0, 1}, wasTorn : BOOLEAN]

Types ==
    /\ export \in Export
    /\ file \in Seq(Nat) /\ torn \in BOOLEAN
    /\ collector \in Seq(Seq(Nat))
    /\ exports \in 0..MaxExports

\* The whole batch is in the file, behind at most one torn line.
Written ==
    /\ Len(file) = export.written + Len(export.batch)
    /\ \A n \in 1..Len(export.batch) :
          file[export.written + n] = export.batch[n] \/ (n = 1 /\ export.wasTorn)

Posted == Len(collector) - export.posted

\* What has been sent at each step of the export.
Sent ==
    /\ export.step = "file" =>
          Len(file) = export.written /\ torn = export.wasTorn /\ export.attempt = 1
    /\ export.step \in {"file", "hec"} => ~ export.hec /\ Posted < export.attempt
    /\ Posted \in 0..MaxRetries
    /\ export.ndjson => export.step # "file" /\ Written
    /\ export.hec /\ export.batch # <<>> => Posted > 0
    /\ \A n \in 1..Posted : collector[export.posted + n] = export.batch
    /\ export.step = "done" /\ export.code = 0 /\ export.toFile => export.ndjson

EInv == Types /\ Sent

----------------------------------------------------------------------------
\* What the query returns is a sequence of ids.
LEMMA QueriedType ==
    ASSUME NEW since, NEW batch \in Queried(since)
    PROVE  batch \in Seq(Nat)
<1> DEFINE ids == {n \in DOMAIN Events : Events[n] >= since}
           rows == IF Cardinality(ids) < ExportLimit THEN Cardinality(ids) ELSE ExportLimit
<1>1. ids \subseteq 1..Len(Events) /\ Len(Events) \in Nat
  BY ExportAssumption
<1>2. IsFiniteSet(ids)
  BY <1>1, FS_Interval, FS_Subset
<1>3. rows \in Nat
  <2>1. Cardinality(ids) \in Nat
    BY <1>2, FS_CardinalityType
  <2> QED BY <2>1, ExportAssumption
<1>4. batch \in [1..rows -> ids]
  BY DEF Queried
<1>5. batch \in [1..rows -> Nat]
  BY <1>1, <1>4
<1> HIDE DEF rows
<1> QED BY <1>3, <1>5

\* A torn file changes the first line of a batch and nothing else.
LEMMA Lines ==
    ASSUME NEW batch \in Seq(Nat), torn \in BOOLEAN
    PROVE  /\ LinesOf(batch) \in Seq(Nat)
           /\ Len(LinesOf(batch)) = Len(batch)
           /\ \A n \in 1..Len(batch) : LinesOf(batch)[n] = batch[n] \/ (n = 1 /\ torn)
<1>1. CASE torn /\ batch # <<>>
  <2>1. LinesOf(batch) = <<Garbage>> \o Tail(batch)
    BY <1>1 DEF LinesOf
  <2>2. Tail(batch) \in Seq(Nat) /\ Len(Tail(batch)) = Len(batch) - 1 /\ Len(batch) > 0
    BY <1>1
  <2>3. \A n \in 1..Len(Tail(batch)) : Tail(batch)[n] = batch[n + 1]
    BY <1>1
  <2>4. <<Garbage>> \in Seq(Nat) /\ Len(<<Garbage>>) = 1
    BY DEF Garbage
  <2>5. LinesOf(batch) \in Seq(Nat) /\ Len(LinesOf(batch)) = Len(batch)
    BY <2>1, <2>2, <2>4
  <2>6. ASSUME NEW n \in 1..Len(batch), n # 1
        PROVE  LinesOf(batch)[n] = batch[n]
    <3>1. LinesOf(batch)[n] = Tail(batch)[n - 1]
      BY <2>1, <2>2, <2>4, <2>6
    <3> QED BY <3>1, <2>2, <2>3, <2>6
  <2> QED BY <1>1, <2>5, <2>6
<1>2. CASE ~ (torn /\ batch # <<>>)
  BY <1>2 DEF LinesOf
<1> QED BY <1>1, <1>2

\* Where the elements of a concatenation come from.
LEMMA Concat ==
    ASSUME NEW S, NEW s \in Seq(S), NEW t \in Seq(S)
    PROVE  /\ s \o t \in Seq(S)
           /\ Len(s \o t) = Len(s) + Len(t)
           /\ \A i \in 1..Len(s) + Len(t) :
                 (s \o t)[i] = IF i <= Len(s) THEN s[i] ELSE t[i - Len(s)]
BY ConcatProperties, Zenon

\* What a sequence has after its first n elements.
LEMMA Rest ==
    ASSUME NEW S, NEW s \in Seq(S), NEW n \in Nat, n =< Len(s)
    PROVE  /\ Len(SubSeq(s, n + 1, Len(s))) = Len(s) - n
           /\ DOMAIN SubSeq(s, n + 1, Len(s)) = 1..Len(s) - n
           /\ \A k \in 1..Len(s) - n : SubSeq(s, n + 1, Len(s))[k] = s[n + k]
<1> DEFINE rest == SubSeq(s, n + 1, Len(s))
<1>1. Len(s) \in Nat /\ \A k \in n + 1..Len(s) : s[k] \in S
  BY LenProperties
<1>2. /\ rest \in Seq(S)
      /\ Len(rest) = IF n + 1 =< Len(s) THEN Len(s) - (n + 1) + 1 ELSE 0
      /\ \A k \in 1..Len(s) - (n + 1) + 1 : rest[k] = s[n + 1 + k - 1]
  BY <1>1, SubSeqProperties
<1>3. Len(rest) = Len(s) - n
  BY <1>1, <1>2
<1>4. DOMAIN rest = 1..Len(s) - n
  BY <1>2, <1>3, LenProperties
<1>5. ASSUME NEW k \in 1..Len(s) - n PROVE rest[k] = s[n + k]
  <2>1. k \in 1..Len(s) - (n + 1) + 1 /\ n + 1 + k - 1 = n + k
    BY <1>1
  <2> QED BY <1>2, <2>1
<1> QED BY <1>3, <1>4, <1>5

\* Nothing has been exported yet.
LEMMA InitEInv ==
    ASSUME ExportInit
    PROVE  EInv
<1>1. Types
  <2>1. <<>> \in Seq(Nat) /\ <<>> \in Seq(Seq(Nat))
    OBVIOUS
  <2>2. 1 \in 1..MaxRetries /\ 0 \in 0..MaxExports
    BY ExportAssumption
  <2> QED BY <2>1, <2>2 DEF ExportInit, Types, Export
<1>2. Sent
  BY ExportAssumption DEF ExportInit, Sent, Posted
<1> QED BY <1>1, <1>2 DEF EInv

\* An export starts at the end of what the file and the collector have.
LEMMA StartStep ==
    ASSUME EInv, NEW since, NEW batch \in Queried(since), NEW toFile \in BOOLEAN,
           NEW toHec \in BOOLEAN, StartExport(batch, toFile, toHec)
    PROVE  EInv'
<1>1. batch \in Seq(Nat)
  BY QueriedType
<1>2. Types'
  BY <1>1, ExportAssumption DEF EInv, Types, Export, StartExport
<1>3. Sent'
  BY <1>1, ExportAssumption DEF EInv, Types, Export, Sent, Posted, StartExport
<1> QED BY <1>2, <1>3 DEF EInv

\* The whole batch is appended to the file.
LEMMA WriteStep ==
    ASSUME EInv, WriteFile
    PROVE  EInv'
<1> DEFINE batch == export.batch
           lines == LinesOf(batch)
<1>1. /\ export \in Export /\ file \in Seq(Nat) /\ batch \in Seq(Nat) /\ torn \in BOOLEAN
      /\ export.step = "file" /\ Len(file) = export.written /\ torn = export.wasTorn
  BY DEF EInv, Types, Export, Sent, WriteFile
<1>2. /\ lines \in Seq(Nat) /\ Len(lines) = Len(batch)
      /\ \A n \in 1..Len(batch) : lines[n] = batch[n] \/ (n = 1 /\ torn)
  BY <1>1, Lines
<1>3. /\ file' = file \o lines /\ torn' \in BOOLEAN
      /\ export' = [export EXCEPT !.step = "hec", !.ndjson = TRUE]
      /\ UNCHANGED <<collector, exports>>
  BY <1>1 DEF WriteFile
<1> HIDE DEF lines
<1>4. /\ file \o lines \in Seq(Nat)
      /\ Len(file \o lines) = Len(file) + Len(lines)
      /\ \A i \in 1..Len(file) + Len(lines) :
            (file \o lines)[i] = IF i <= Len(file) THEN file[i] ELSE lines[i - Len(file)]
  <2>1. file \in Seq(Nat) /\ lines \in Seq(Nat)
    BY <1>1, <1>2
  <2> QED BY <2>1, Concat, Zenon
<1>5. file' \in Seq(Nat) /\ Len(file') = Len(file) + Len(batch)
  BY <1>2, <1>3, <1>4
<1>6. \A n \in 1..Len(batch) : file'[export.written + n] = lines[n]
  <2> SUFFICES ASSUME NEW n \in 1..Len(batch)
               PROVE  (file \o lines)[Len(file) + n] = lines[n]
    BY <1>1, <1>3
  <2>1. Len(file) \in Nat /\ Len(batch) \in Nat
    BY <1>1, LenProperties
  <2>2. Len(file) + n \in 1..Len(file) + Len(lines) /\ ~ (Len(file) + n <= Len(file))
        /\ Len(file) + n - Len(file) = n
    BY <2>1, <1>2
  <2> QED BY <2>2, <1>4
<1>7. Types'
  BY <1>1, <1>3, <1>5 DEF EInv, Types, Export
<1>8. Written'
  BY <1>1, <1>2, <1>3, <1>5, <1>6 DEF Written, Export
<1>9. Sent'
  BY <1>1, <1>3, <1>8 DEF EInv, Types, Export, Sent, Posted
<1> QED BY <1>7, <1>9 DEF EInv

\* A part of it is, and the export does not report the file.
LEMMA WriteFailsStep ==
    ASSUME EInv, NEW n \in 0..ExportLimit, NEW piece \in BOOLEAN, WriteFails(n, piece)
    PROVE  EInv'
<1> DEFINE lines == LinesOf(export.batch)
           part == SubSeq(lines, 1, n)
<1>1. /\ export \in Export /\ file \in Seq(Nat) /\ export.batch \in Seq(Nat) /\ torn \in BOOLEAN
      /\ export.step = "file" /\ ~ export.ndjson /\ n =< Len(export.batch) /\ n \in Nat
  BY ExportAssumption DEF EInv, Types, Export, Sent, WriteFails
<1>2. lines \in Seq(Nat) /\ Len(lines) = Len(export.batch)
  BY <1>1, Lines
<1>3. /\ file' = file \o part /\ torn' \in BOOLEAN
      /\ export' = [export EXCEPT !.step = "hec"]
      /\ UNCHANGED <<collector, exports>>
  BY <1>1 DEF WriteFails
<1> HIDE DEF lines
<1>4. part \in Seq(Nat)
  BY <1>1, <1>2
<1> HIDE DEF part
<1>5. file' \in Seq(Nat)
  BY <1>1, <1>3, <1>4, Concat
<1>6. Types'
  BY <1>1, <1>3, <1>5 DEF EInv, Types, Export
<1>7. Sent'
  BY <1>1, <1>3 DEF EInv, Types, Export, Sent, Posted
<1> QED BY <1>6, <1>7 DEF EInv

\* Nothing is to be posted.
LEMMA SkipStep ==
    ASSUME EInv, SkipPost
    PROVE  EInv'
<1>1. Types'
  BY DEF EInv, Types, Export, SkipPost
<1>2. Sent'
  BY DEF EInv, Types, Export, Sent, Posted, Written, SkipPost
<1> QED BY <1>1, <1>2 DEF EInv

\* One attempt: it reports the batch as sent only if the collector took it.
LEMMA PostStep ==
    ASSUME EInv, NEW outcome \in Outcomes, Post(outcome)
    PROVE  EInv'
<1> DEFINE verdict == Verdict(outcome, export.attempt)
<1>1. /\ export \in Export /\ collector \in Seq(Seq(Nat)) /\ export.batch \in Seq(Nat)
      /\ export.step = "hec" /\ Posted < export.attempt /\ Posted \in Nat /\ ~ export.hec
      /\ export.attempt \in 1..MaxRetries /\ export.posted \in Nat
      /\ \A k \in 1..Posted : collector[export.posted + k] = export.batch
  BY DEF EInv, Types, Export, Sent, Post
<1>2. /\ UNCHANGED <<file, torn, exports>>
      /\ export' = IF verdict = "again" THEN [export EXCEPT !.attempt = export.attempt + 1]
                   ELSE [export EXCEPT !.step = "exit", !.hec = (verdict = "sent")]
  BY DEF Post
<1>3. /\ collector' \in Seq(Seq(Nat))
      /\ Posted' = IF Taken(outcome) THEN Posted + 1 ELSE Posted
      /\ \A k \in 1..Posted' : collector'[export.posted + k] = export.batch
  <2>1. export'.posted = export.posted
    BY <1>1, <1>2 DEF Export
  <2>2. CASE Taken(outcome)
    <3>1. collector' = Append(collector, export.batch)
      BY <2>2 DEF Post
    <3>2. collector' \in Seq(Seq(Nat)) /\ Len(collector') = Len(collector) + 1
      BY <3>1, <1>1
    <3>3. Posted' = Posted + 1
      BY <3>2, <2>1, <1>1 DEF Posted
    <3>4. Len(collector) = export.posted + Posted /\ Len(collector) \in Nat
      BY <1>1 DEF Posted
    <3>5. ASSUME NEW k \in 1..Posted + 1
          PROVE  collector'[export.posted + k] = export.batch
      <4>1. CASE k = Posted + 1
        BY <4>1, <3>1, <3>4, <1>1
      <4>2. CASE k # Posted + 1
        <5>1. k \in 1..Posted /\ export.posted + k \in 1..Len(collector)
          BY <4>2, <3>4, <3>5, <1>1
        <5> QED BY <5>1, <3>1, <1>1
      <4> QED BY <4>1, <4>2
    <3> QED BY <2>2, <3>2, <3>3, <3>5
  <2>3. CASE ~ Taken(outcome)
    BY <2>1, <2>3, <1>1 DEF Post, Posted
  <2> QED BY <2>2, <2>3
<1>4. verdict = "again" => export.attempt < MaxRetries
  BY DEF Verdict
<1>5. verdict = "sent" => Taken(outcome)
  BY DEF Verdict, Taken, Outcomes
<1> HIDE DEF verdict
<1>6. Types'
  <2>1. export' \in Export
    <3>1. CASE verdict = "again"
      <4>1. export.attempt + 1 \in 1..MaxRetries
        BY <3>1, <1>1, <1>4, ExportAssumption
      <4> QED BY <3>1, <4>1, <1>1, <1>2 DEF Export
    <3>2. CASE verdict # "again"
      BY <3>2, <1>1, <1>2, Zenon DEF Export
    <3> QED BY <3>1, <3>2
  <2> QED BY <2>1, <1>2, <1>3 DEF EInv, Types
<1>7. Sent'
  <2>1. Posted' \in 0..MaxRetries
    BY <1>1, <1>3, ExportAssumption
  <2>2. CASE verdict = "again"
    BY <1>1, <1>2, <1>3, <1>4, <2>1, <2>2 DEF EInv, Types, Export, Sent, Written
  <2>3. CASE verdict # "again"
    BY <1>1, <1>2, <1>3, <1>5, <2>1, <2>3 DEF EInv, Types, Export, Sent, Written
  <2> QED BY <2>2, <2>3
<1> QED BY <1>6, <1>7 DEF EInv

\* The exit code is set, and nothing is sent.
LEMMA ExitStep ==
    ASSUME EInv, Exit
    PROVE  EInv'
<1>1. Types'
  BY DEF EInv, Types, Export, Exit
<1>2. Sent'
  BY DEF EInv, Types, Export, Sent, Posted, Written, Exit
<1> QED BY <1>1, <1>2 DEF EInv

----------------------------------------------------------------------------
\* The invariant of an export is inductive.
THEOREM ExportInvariance == ExportSpec => []EInv
<1>1. ExportInit => EInv
  BY InitEInv
<1>2. EInv /\ [ExportNext]_exportVars => EInv'
  <2> SUFFICES ASSUME EInv, [ExportNext]_exportVars PROVE EInv'
    OBVIOUS
  <2>1. ASSUME NEW since \in Sinces, NEW toFile \in BOOLEAN, NEW toHec \in BOOLEAN,
               NEW batch \in Queried(since), StartExport(batch, toFile, toHec)
        PROVE  EInv'
    BY <2>1, StartStep
  <2>2. CASE WriteFile
    BY <2>2, WriteStep
  <2>3. ASSUME NEW n \in 0..ExportLimit, NEW piece \in BOOLEAN, WriteFails(n, piece)
        PROVE  EInv'
    BY <2>3, WriteFailsStep
  <2>4. CASE SkipPost
    BY <2>4, SkipStep
  <2>5. ASSUME NEW outcome \in Outcomes, Post(outcome)
        PROVE  EInv'
    BY <2>5, PostStep
  <2>6. CASE Exit
    BY <2>6, ExitStep
  <2>7. CASE UNCHANGED exportVars
    BY <2>7 DEF exportVars, EInv, Types, Sent, Posted, Written
  <2> QED BY <2>1, <2>2, <2>3, <2>4, <2>5, <2>6, <2>7 DEF ExportNext
<1> QED BY <1>1, <1>2, PTL DEF ExportSpec

\* Whatever an export reports as sent has arrived, whole and in order, and no
\* batch more often than it was tried, for any events, limit and retries.
THEOREM TellsTruth == ExportSpec => []SinkTellsTruth
<1>1. EInv => SinkTellsTruth
  <2> SUFFICES ASSUME EInv PROVE SinkTellsTruth
    OBVIOUS
  <2> DEFINE lines == SubSeq(file, export.written + 1, Len(file))
             copies == SubSeq(collector, export.posted + 1, Len(collector))
  <2>1. /\ export \in Export /\ file \in Seq(Nat) /\ collector \in Seq(Seq(Nat))
        /\ export.batch \in Seq(Nat) /\ export.written \in Nat /\ export.posted \in Nat
        /\ Posted \in 0..MaxRetries /\ Posted \in Nat
    BY ExportAssumption DEF EInv, Types, Export, Sent
  <2>2. export.step = "done" /\ export.ndjson =>
            /\ Len(lines) = Len(export.batch)
            /\ \A n \in DOMAIN lines : lines[n] = export.batch[n] \/ (n = 1 /\ export.wasTorn)
    <3> SUFFICES ASSUME export.ndjson
                 PROVE  /\ Len(lines) = Len(export.batch)
                        /\ \A n \in DOMAIN lines :
                              lines[n] = export.batch[n] \/ (n = 1 /\ export.wasTorn)
      OBVIOUS
    <3>1. Written
      BY DEF EInv, Sent
    <3>2. /\ Len(lines) = Len(export.batch) /\ DOMAIN lines = 1..Len(export.batch)
          /\ \A n \in 1..Len(export.batch) : lines[n] = file[export.written + n]
      <4>1. export.written =< Len(file) /\ Len(file) - export.written = Len(export.batch)
        <5>1. Len(file) \in Nat /\ Len(export.batch) \in Nat
          BY <2>1, LenProperties
        <5>2. Len(file) = export.written + Len(export.batch)
          BY <3>1 DEF Written
        <5> HIDE DEF lines
        <5> QED BY <5>1, <5>2, <2>1
      <4>2. /\ Len(lines) = Len(file) - export.written
            /\ DOMAIN lines = 1..Len(file) - export.written
            /\ \A n \in 1..Len(file) - export.written : lines[n] = file[export.written + n]
        BY <4>1, <2>1, Rest, Zenon
      <4> QED BY <4>1, <4>2
    <3> QED BY <3>1, <3>2 DEF Written
  <2>3. /\ Len(copies) = Posted /\ DOMAIN copies = 1..Posted
        /\ \A n \in 1..Posted : copies[n] = collector[export.posted + n]
    <3>1. export.posted =< Len(collector)
      BY <2>1, LenProperties DEF Posted
    <3> QED BY <3>1, <2>1, Rest, Zenon DEF Posted
  <2>4. \A n \in DOMAIN copies : copies[n] = export.batch
    BY <2>3 DEF EInv, Sent
  <2>5. export.step = "done" /\ export.hec /\ export.batch # <<>> => copies # <<>>
    <3>1. export.hec /\ export.batch # <<>> => Posted > 0
      BY DEF EInv, Sent
    <3>2. Len(copies) # 0 => copies # <<>>
      <4> HIDE DEF copies
      <4> QED OBVIOUS
    <3>3. Posted > 0 => Len(copies) # 0
      <4> HIDE DEF copies
      <4> QED BY <2>1, <2>3
    <3> QED BY <3>1, <3>2, <3>3
  <2>6. Len(copies) <= MaxRetries
    BY <2>1, <2>3, ExportAssumption
  <2>7. export.step = "done" /\ export.code = 0 /\ export.toFile => export.ndjson
    BY DEF EInv, Sent
  <2> QED BY <2>2, <2>4, <2>5, <2>6, <2>7 DEF SinkTellsTruth
<1> QED BY <1>1, ExportInvariance, PTL
=============================================================================
