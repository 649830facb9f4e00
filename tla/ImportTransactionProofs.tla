---------------------- MODULE ImportTransactionProofs ----------------------
(***************************************************************************)
(* Proofs about ImportTransaction, for any connections, fingerprints, GPOs *)
(* and bounds: the statements of an import add up to one step of           *)
(* FindingLifecycle, and no failure in between is ever visible.            *)
(*                                                                         *)
(* The invariant says what the transaction has made of the committed       *)
(* tables at each statement.  It needs the invariant of the lifecycle for  *)
(* the committed tables: only because a fingerprint has one open row does  *)
(* updating the row that was loaded update every open row of it.           *)
(***************************************************************************)
EXTENDS ImportTransaction, FiniteSetTheorems, TLAPS

\* FindingLifecycle on the committed tables, with what is proved about it.
LP == INSTANCE FindingLifecycleProofs WITH
    snapshot <- db.snapshot, run <- db.run, finding <- db.finding,
    observation <- db.observation, nextSnapshot <- db.nextSnapshot,
    nextRun <- db.nextRun, nextFinding <- db.nextFinding, openAfter <- db.openAfter

TableNames == {"snapshot", "run", "finding", "observation", "openAfter",
               "nextSnapshot", "nextRun", "nextFinding"}
IsTables(t) == t = [x \in TableNames |-> t[x]]

Job ==
    {Idle}
    \cup [step : {"begun", "saved"}, estate : Lifecycle!Estate,
          candidates : SUBSET Fingerprints, duplicates : BOOLEAN]
    \cup [step : {"evaluating", "evaluated"}, run : Nat, snapshot : Nat,
          estate : Lifecycle!Estate, candidates : SUBSET Fingerprints, duplicates : BOOLEAN,
          active : SUBSET Nat, todo : SUBSET Fingerprints]
    \cup [step : {"rolledback"}, run : Nat]
    \cup [step : {"marking"}]

(* What the tables t of the transaction are, at each statement of job j,   *)
(* beside the committed ones.                                              *)

WithSnapshot(t, estate) ==
    /\ t.snapshot = [x \in DOMAIN db.snapshot \cup {db.nextSnapshot} |->
                        IF x = db.nextSnapshot THEN estate ELSE db.snapshot[x]]
    /\ t.nextSnapshot = db.nextSnapshot + 1

WithRun(t, status) ==
    /\ t.run = [x \in DOMAIN db.run \cup {db.nextRun} |->
                   IF x = db.nextRun THEN [snapshot |-> db.nextSnapshot, status |-> status]
                   ELSE db.run[x]]
    /\ t.nextRun = db.nextRun + 1

\* The rows inserted so far.
NewIds(t) == db.nextFinding .. t.nextFinding - 1

\* The candidates in done have been seen again or inserted, and the rows in
\* resolved have been resolved.
Written(t, done, resolved) ==
    /\ t.nextFinding = db.nextFinding + Cardinality(done \ Lifecycle!ActiveKeys)
    /\ t.finding = [i \in DOMAIN db.finding \cup NewIds(t) |-> t.finding[i]]
    /\ \A i \in NewIds(t) :
          /\ t.finding[i].key \in done \ Lifecycle!ActiveKeys
          /\ t.finding[i] = Lifecycle!NewFinding(t.finding[i].key, db.nextRun, db.nextSnapshot)
    /\ \A i, k \in NewIds(t) : t.finding[i].key = t.finding[k].key => i = k
    /\ \A i \in DOMAIN db.finding :
          t.finding[i] = Lifecycle!AfterEvaluation(i, Lifecycle!Persisting(done), resolved,
                                                   db.nextRun, db.nextSnapshot)
    /\ t.observation =
          db.observation \cup ({db.nextRun} \X (Lifecycle!Persisting(done) \cup NewIds(t)))

\* The rows a completed run of this import resolves.
Gone(j) == Lifecycle!Resolving(j.candidates, "completed", j.estate)

Loaded(t, j) ==
    /\ j.run = db.nextRun /\ j.snapshot = db.nextSnapshot
    /\ j.active = Lifecycle!ActiveFindings
    /\ WithSnapshot(t, j.estate)
    /\ t.openAfter = db.openAfter

Saved(t, j) ==
    /\ WithSnapshot(t, j.estate)
    /\ \A x \in TableNames \ {"snapshot", "nextSnapshot"} : t[x] = db[x]

\* Nothing is resolved before the last candidate is dealt with.
Evaluating(t, j) ==
    /\ Loaded(t, j)
    /\ WithRun(t, "partial")
    /\ j.todo \subseteq j.candidates
    /\ \E resolved \in SUBSET Gone(j) :
          /\ resolved # {} => j.todo = {} /\ ~j.duplicates
          /\ Written(t, j.candidates \ j.todo, resolved)

Evaluated(t, j) ==
    LET status == Lifecycle!StatusOf(j.duplicates)
    IN /\ Loaded(t, j)
       /\ WithRun(t, status)
       /\ Written(t, j.candidates, Lifecycle!Resolving(j.candidates, status, j.estate))

Marking(t) ==
    /\ t.observation = db.observation
    /\ DOMAIN t.run = DOMAIN db.run
    /\ t.finding = db.finding

Progress(t, j) ==
    /\ j.step \in Steps => db.nextRun =< MaxRuns
    /\ j.step = "begun" => t = db
    /\ j.step = "saved" => Saved(t, j)
    /\ j.step = "evaluating" => Evaluating(t, j)
    /\ j.step = "evaluated" => Evaluated(t, j)
    /\ j.step = "marking" => Marking(t)

TransactionInv ==
    /\ IsTables(db) /\ IsTables(tx)
    /\ writer \in Importers \cup {NoOne}
    /\ writer = NoOne => tx = db
    /\ job \in [Importers -> Job]
    /\ \A p \in Importers : job[p].step \in Steps \cup {"marking"} <=> writer = p
    /\ \A p \in Importers : writer = p => Progress(tx, job[p])

TInv == LP!IInv /\ TransactionInv

-----------------------------------------------------------------------------
(* The two instances of FindingLifecycle on the committed tables are one.  *)

\* FindingLifecycle's cardinality, seen through the instance, is the same operator.
LEMMA SameCardinality ==
    \A S : LP!Cardinality(S) = Cardinality(S) /\ Lifecycle!Cardinality(S) = Cardinality(S)
BY DEF LP!Cardinality, Lifecycle!Cardinality, Cardinality

\* So is its finiteness, of any set.
LEMMA SameFiniteSets ==
    \A S : LP!IsFiniteSet(S) <=> IsFiniteSet(S)
BY Zenon DEF LP!IsFiniteSet, IsFiniteSet

\* What the instances show of rows and runs is what this module's tables hold.
LEMMA SameRows ==
    /\ LP!ActiveFindings = Lifecycle!ActiveFindings
    /\ LP!ActiveKeys = Lifecycle!ActiveKeys
    /\ LP!TypeOK <=> Lifecycle!TypeOK
    /\ LP!Estate = Lifecycle!Estate
<1>1. LP!ActiveFindings = Lifecycle!ActiveFindings
  BY DEF LP!ActiveFindings, Lifecycle!ActiveFindings, LP!Unresolved, Lifecycle!Unresolved,
         LP!NULL, Lifecycle!NULL
<1>2. LP!ActiveKeys = Lifecycle!ActiveKeys
  BY <1>1 DEF LP!ActiveKeys, Lifecycle!ActiveKeys
<1>3. LP!Estate = Lifecycle!Estate /\ LP!Run = Lifecycle!Run /\ LP!Finding = Lifecycle!Finding
  BY DEF LP!Estate, Lifecycle!Estate, LP!Run, Lifecycle!Run, LP!RunStatus, Lifecycle!RunStatus,
         LP!Finding, Lifecycle!Finding
<1>4. LP!TypeOK <=> Lifecycle!TypeOK
  BY <1>3 DEF LP!TypeOK, Lifecycle!TypeOK, LP!NULL, Lifecycle!NULL
<1> QED BY <1>1, <1>2, <1>3, <1>4

\* The two instances of the lifecycle evaluate an estate in the same way.
LEMMA SameImport ==
    ASSUME NEW estate, NEW candidates, NEW duplicates,
           Lifecycle!SaveEvaluatedEstate(estate, candidates, duplicates)
    PROVE  LP!SaveEvaluatedEstate(estate, candidates, duplicates)
<1>1. ASSUME NEW r, NEW s, Lifecycle!RunEvaluation(r, s, candidates, duplicates, estate)
      PROVE  LP!RunEvaluation(r, s, candidates, duplicates, estate)
  BY <1>1, Zenon
     DEF LP!RunEvaluation, Lifecycle!RunEvaluation, LP!StatusOf, Lifecycle!StatusOf,
         LP!Persisting, Lifecycle!Persisting, LP!Resolving, Lifecycle!Resolving,
         LP!NewFinding, Lifecycle!NewFinding, LP!AfterEvaluation, Lifecycle!AfterEvaluation,
         LP!LatestResolved, Lifecycle!LatestResolved, LP!ActiveKeys, Lifecycle!ActiveKeys,
         LP!ActiveFindings, Lifecycle!ActiveFindings, LP!Unresolved, Lifecycle!Unresolved,
         LP!AbsenceIsMeaningful, Lifecycle!AbsenceIsMeaningful, LP!NULL, Lifecycle!NULL,
         LP!Cardinality, Lifecycle!Cardinality
<1> QED BY <1>1 DEF LP!SaveEvaluatedEstate, Lifecycle!SaveEvaluatedEstate

\* They delete a snapshot in the same way, too.
LEMMA SameDeletion ==
    ASSUME NEW s, Lifecycle!DeleteSnapshot(s)
    PROVE  LP!DeleteSnapshot(s)
BY DEF LP!DeleteSnapshot, Lifecycle!DeleteSnapshot, LP!SurvivingRuns, Lifecycle!SurvivingRuns,
       LP!SurvivingFindings, Lifecycle!SurvivingFindings, LP!AfterDelete, Lifecycle!AfterDelete,
       LP!NULL, Lifecycle!NULL

\* What is read from the committed tables is the same while they are.
LEMMA DbKept ==
    ASSUME UNCHANGED db
    PROVE  /\ LP!IInv' <=> LP!IInv
           /\ \A t, j : Progress(t, j)' <=> Progress(t, j)
<1>1. LP!IInv' <=> LP!IInv
  BY DEF LP!IInv, LP!TypeOK, LP!RunsOrdered, LP!ResolvedHasRun, LP!AtMostOneOpen,
         LP!PredecessorsFormChains, LP!ActiveFindings, LP!Unresolved
<1>2. Lifecycle!ActiveFindings' = Lifecycle!ActiveFindings
  BY DEF Lifecycle!ActiveFindings, Lifecycle!Unresolved
<1>3. Lifecycle!ActiveKeys' = Lifecycle!ActiveKeys
  BY <1>2 DEF Lifecycle!ActiveKeys
<1>4. \A done : Lifecycle!Persisting(done)' = Lifecycle!Persisting(done)
  BY <1>2 DEF Lifecycle!Persisting
<1>5. \A candidates, status, estate :
        Lifecycle!Resolving(candidates, status, estate)' =
            Lifecycle!Resolving(candidates, status, estate)
  BY <1>2 DEF Lifecycle!Resolving, Lifecycle!AbsenceIsMeaningful
<1>6. \A key, r, s : Lifecycle!NewFinding(key, r, s)' = Lifecycle!NewFinding(key, r, s)
  BY DEF Lifecycle!NewFinding, Lifecycle!LatestResolved, Lifecycle!Unresolved
<1>7. \A i, seen, resolved, r, s :
        Lifecycle!AfterEvaluation(i, seen, resolved, r, s)' =
           Lifecycle!AfterEvaluation(i, seen, resolved, r, s)
  BY DEF Lifecycle!AfterEvaluation
<1>8. \A t, done, resolved : Written(t, done, resolved)' <=> Written(t, done, resolved)
  BY <1>3, <1>4, <1>6, <1>7 DEF Written, NewIds
<1>9. \A t, j : Loaded(t, j)' <=> Loaded(t, j)
  BY <1>2 DEF Loaded, WithSnapshot
<1>10. \A t, status : WithRun(t, status)' <=> WithRun(t, status)
  BY DEF WithRun
<1>11. \A t, j : Evaluating(t, j)' <=> Evaluating(t, j)
  BY <1>5, <1>8, <1>9, <1>10 DEF Evaluating, Gone
<1>12. \A t, j : Evaluated(t, j)' <=> Evaluated(t, j)
  BY <1>5, <1>8, <1>9, <1>10 DEF Evaluated, Lifecycle!StatusOf
<1>13. \A t, j : Progress(t, j)' <=> Progress(t, j)
  BY <1>11, <1>12 DEF Progress, Saved, WithSnapshot, Marking
<1> QED BY <1>1, <1>13

-----------------------------------------------------------------------------
(* One connection's step.                                                  *)

\* What a step of a connection that leaves the committed tables alone has to
\* show, whether it keeps the right to write or gives it up.
LEMMA WriterStep ==
    ASSUME TInv, NEW p \in Importers, UNCHANGED db, IsTables(tx'),
           job' = [job EXCEPT ![p] = job'[p]], job'[p] \in Job, writer \in {p, NoOne},
           \/ /\ writer' = p /\ job'[p].step \in Steps \cup {"marking"}
              /\ Progress(tx', job'[p])
           \/ /\ writer' = NoOne /\ job'[p].step \notin Steps \cup {"marking"}
              /\ tx' = db
    PROVE  TInv'
<1>1. LP!IInv' /\ \A t, j : Progress(t, j)' <=> Progress(t, j)
  BY DbKept DEF TInv
<1>2. job' \in [Importers -> Job] /\ \A q \in Importers : q = p \/ job'[q] = job[q]
  BY DEF TInv, TransactionInv
<1>3. \A q \in Importers : job'[q].step \in Steps \cup {"marking"} <=> writer' = q
  BY <1>2, NoOneAssumption DEF TInv, TransactionInv
<1>4. IsTables(db)'
  BY DEF TInv, TransactionInv, IsTables
<1>5. writer' = NoOne => tx' = db'
  BY NoOneAssumption
<1>6. ASSUME NEW q \in Importers, writer' = q
      PROVE  Progress(tx, job[q])'
  <2>1. q = p /\ Progress(tx', job'[p])
    BY <1>6, NoOneAssumption
  <2> QED BY <1>1, <2>1
<1>7. IsTables(tx)'
  BY DEF IsTables
<1> QED BY <1>1, <1>2, <1>3, <1>4, <1>5, <1>6, <1>7 DEF TInv, TransactionInv

\* The writer is where its job says, with the fields that step has.
LEMMA AtStep ==
    ASSUME TInv, NEW p \in Importers
    PROVE  /\ job[p] \in Job
           /\ job[p].step \in Steps \cup {"marking"} => writer = p /\ Progress(tx, job[p])
           /\ job[p].step \notin Steps \cup {"marking"} => writer # p
           /\ IsTables(tx) /\ IsTables(db)
           /\ job \in [Importers -> Job]
BY DEF TInv, TransactionInv

\* BEGIN IMMEDIATE: the transaction starts from the committed tables.
LEMMA BeginStep ==
    ASSUME TInv, NEW p \in Importers, NEW estate \in Lifecycle!Estate,
           NEW candidates \in SUBSET Fingerprints, NEW duplicates \in BOOLEAN,
           Begin(p, estate, candidates, duplicates)
    PROVE  TInv'
<1> DEFINE j == [step |-> "begun", estate |-> estate, candidates |-> candidates,
                 duplicates |-> duplicates]
<1>1. /\ writer = NoOne /\ writer' = p /\ db.nextRun =< MaxRuns
      /\ job' = [job EXCEPT ![p] = j] /\ UNCHANGED <<db, tx>>
  BY DEF Begin
<1>2. tx = db /\ IsTables(tx)
  BY <1>1 DEF TInv, TransactionInv
<1>3. job'[p] = j
  BY <1>1, AtStep
<1>4. j \in Job /\ j.step = "begun"
  BY DEF Job
<1>5. Progress(tx', j)
  BY <1>1, <1>2 DEF Progress, Steps
<1>6. IsTables(tx')
  BY <1>1, <1>2
<1> HIDE DEF j
<1> QED BY <1>1, <1>3, <1>4, <1>5, <1>6, WriterStep DEF Steps

\* Saving the estate's own rows keeps the invariant.
LEMMA SaveEstateStep ==
    ASSUME TInv, NEW p \in Importers, SaveEstate(p)
    PROVE  TInv'
<1> DEFINE j == job[p]
<1>1. j.step = "begun" /\ writer = p /\ j \in Job /\ tx = db /\ db.nextRun =< MaxRuns
  BY AtStep DEF SaveEstate, Steps, Progress
<1>2. UNCHANGED <<db, writer>> /\ job' = [job EXCEPT ![p].step = "saved"]
  BY DEF SaveEstate
<1>3. tx' = [tx EXCEPT !.nextSnapshot = tx.nextSnapshot + 1,
                 !.snapshot = [x \in DOMAIN tx.snapshot \cup {tx.nextSnapshot} |->
                     IF x = tx.nextSnapshot THEN j.estate ELSE tx.snapshot[x]]]
  BY DEF SaveEstate
<1>4. IsTables(tx') /\ Saved(tx', j)
  BY <1>1, <1>3, AtStep DEF IsTables, TableNames, Saved, WithSnapshot
<1>5. job'[p] = [j EXCEPT !.step = "saved"]
  BY <1>2, AtStep
<1>6. job'[p] \in Job /\ job'[p].step = "saved" /\ job'[p].estate = j.estate
  BY <1>1, <1>5 DEF Job, Idle
<1>7. Progress(tx', job'[p])
  BY <1>1, <1>4, <1>6 DEF Progress, Saved, WithSnapshot
<1> QED BY <1>1, <1>2, <1>4, <1>5, <1>6, <1>7, WriterStep DEF Steps

\* So does the INSERT of the run, which is partial until it is complete.
LEMMA CreateRunStep ==
    ASSUME TInv, NEW p \in Importers, CreateRun(p)
    PROVE  TInv'
<1> DEFINE j == job[p]
           r == tx.nextRun
           s == tx.nextSnapshot - 1
           k == [step |-> "evaluating", run |-> r, snapshot |-> s, estate |-> j.estate,
                 candidates |-> j.candidates, duplicates |-> j.duplicates,
                 active |-> Tx!ActiveFindings, todo |-> j.candidates]
<1>1. /\ j.step = "saved" /\ writer = p /\ j \in Job /\ Saved(tx, j) /\ db.nextRun =< MaxRuns
      /\ IsTables(tx)
  BY AtStep DEF CreateRun, Steps, Progress
<1>2. UNCHANGED <<db, writer>> /\ job' = [job EXCEPT ![p] = k]
  BY DEF CreateRun
<1>3. tx' = [tx EXCEPT !.nextRun = r + 1,
                !.run = [x \in DOMAIN tx.run \cup {r} |->
                    IF x = r THEN [snapshot |-> s, status |-> "partial"] ELSE tx.run[x]]]
  BY DEF CreateRun
<1>4. /\ db.nextRun \in Nat /\ db.nextSnapshot \in Nat /\ db.nextFinding \in Nat
      /\ DOMAIN db.finding \subseteq Nat
      /\ db.finding = [i \in DOMAIN db.finding |-> db.finding[i]]
  BY DEF TInv, LP!IInv, LP!TypeOK
<1>5. r = db.nextRun /\ s = db.nextSnapshot /\ tx.run = db.run /\ tx.finding = db.finding
  BY <1>1, <1>4 DEF Saved, WithSnapshot, TableNames
<1>6. /\ IsTables(tx') /\ WithRun(tx', "partial") /\ WithSnapshot(tx', j.estate)
      /\ tx'.openAfter = db.openAfter /\ tx'.finding = db.finding
      /\ tx'.nextFinding = db.nextFinding /\ tx'.observation = db.observation
  BY <1>1, <1>3, <1>5 DEF IsTables, TableNames, Saved, WithSnapshot, WithRun
<1>7. Tx!ActiveFindings = Lifecycle!ActiveFindings
  BY <1>5 DEF Tx!ActiveFindings, Lifecycle!ActiveFindings, Tx!Unresolved, Lifecycle!Unresolved,
              Tx!NULL, Lifecycle!NULL
<1>8. Lifecycle!ActiveFindings \subseteq Nat
  BY <1>4 DEF Lifecycle!ActiveFindings
<1>9. /\ k \in Job /\ k.step = "evaluating" /\ k.todo = j.candidates /\ k.candidates = j.candidates
      /\ k.run = r /\ k.snapshot = s /\ k.active = Tx!ActiveFindings /\ k.estate = j.estate
  BY <1>1, <1>4, <1>5, <1>7, <1>8 DEF Job, Idle
<1>10. Written(tx', {}, {})
  <2>1. NewIds(tx') = {} /\ Lifecycle!Persisting({}) = {}
    BY <1>4, <1>6 DEF NewIds, Lifecycle!Persisting
  <2>2. tx'.nextFinding = db.nextFinding + Cardinality({} \ Lifecycle!ActiveKeys)
    BY <1>4, <1>6, FS_EmptySet
  <2>3. \A i \in DOMAIN db.finding :
          db.finding[i] = Lifecycle!AfterEvaluation(i, {}, {}, db.nextRun, db.nextSnapshot)
    BY DEF Lifecycle!AfterEvaluation
  <2> QED BY <1>4, <1>6, <2>1, <2>2, <2>3 DEF Written
<1> HIDE DEF k
<1>11. Evaluating(tx', k)
  <2>1. k.candidates \ k.todo = {}
    BY <1>9
  <2> QED BY <1>5, <1>6, <1>7, <1>9, <1>10, <2>1 DEF Evaluating, Loaded
<1>12. job'[p] = k
  BY <1>2, AtStep
<1>13. Progress(tx', k)
  BY <1>1, <1>9, <1>11 DEF Progress
<1> QED BY <1>1, <1>2, <1>6, <1>9, <1>12, <1>13, WriterStep DEF Steps

\* The facts of the committed tables the statements rely on.
LEMMA Committed ==
    ASSUME TInv
    PROVE  /\ db.nextRun \in Nat \ {0} /\ db.nextSnapshot \in Nat \ {0}
           /\ db.nextFinding \in Nat \ {0}
           /\ DOMAIN db.finding \subseteq 1 .. db.nextFinding - 1
           /\ db.finding \in [DOMAIN db.finding -> LP!Finding]
           /\ db.openAfter \in [DOMAIN db.run -> SUBSET Nat]
           /\ \A i \in DOMAIN db.finding : Lifecycle!Unresolved(i) <=> db.finding[i].resolvedRun = 0
           /\ \A i, k \in Lifecycle!ActiveFindings :
                 db.finding[i].key = db.finding[k].key => i = k
<1>1. LP!TypeOK /\ LP!ResolvedHasRun /\ LP!AtMostOneOpen
  BY DEF TInv, LP!IInv
<1>2. \A i \in DOMAIN db.finding : Lifecycle!Unresolved(i) <=> db.finding[i].resolvedRun = 0
  BY <1>1 DEF LP!ResolvedHasRun, LP!NULL, Lifecycle!Unresolved, Lifecycle!NULL
<1>3. \A i, k \in Lifecycle!ActiveFindings : db.finding[i].key = db.finding[k].key => i = k
  BY <1>1, SameRows DEF LP!AtMostOneOpen
<1> QED BY <1>1, <1>2, <1>3 DEF LP!TypeOK

\* Adding a row to those a run observes adds one observation.
LEMMA OneMore ==
    \A r, S, i : {r} \X (S \cup {i}) = ({r} \X S) \cup {<<r, i>>}
OBVIOUS

\* A candidate whose open row is there already: the row is seen again.
LEMMA SeenAgain ==
    ASSUME TInv, NEW t, NEW u, NEW done \in SUBSET Fingerprints, NEW key \in Fingerprints \ done,
           NEW i \in Lifecycle!ActiveFindings, db.finding[i].key = key,
           Written(t, done, {}),
           u.nextFinding = t.nextFinding,
           u.finding = [t.finding EXCEPT ![i].lastRun = db.nextRun,
                                         ![i].lastSnapshot = db.nextSnapshot],
           u.observation = t.observation \cup {<<db.nextRun, i>>}
    PROVE  Written(u, done \cup {key}, {})
<1> DEFINE seen == Lifecycle!Persisting(done)
           seen2 == Lifecycle!Persisting(done \cup {key})
<1>1. i \in DOMAIN db.finding /\ db.finding[i] \in LP!Finding
  BY Committed DEF Lifecycle!ActiveFindings
<1>2. seen2 = seen \cup {i} /\ i \notin seen
  BY Committed DEF Lifecycle!Persisting
<1>3. (done \cup {key}) \ Lifecycle!ActiveKeys = done \ Lifecycle!ActiveKeys
  BY DEF Lifecycle!ActiveKeys
<1>4. NewIds(u) = NewIds(t) /\ i \notin NewIds(t) /\ NewIds(t) \cap DOMAIN db.finding = {}
  BY Committed, <1>1 DEF NewIds
<1>5. t.finding = [x \in DOMAIN db.finding \cup NewIds(t) |-> t.finding[x]]
  BY DEF Written
<1>6. /\ u.finding = [x \in DOMAIN db.finding \cup NewIds(t) |-> u.finding[x]]
      /\ \A x \in DOMAIN db.finding \cup NewIds(t) : x # i => u.finding[x] = t.finding[x]
      /\ u.finding[i] = [t.finding[i] EXCEPT !.lastRun = db.nextRun,
                                             !.lastSnapshot = db.nextSnapshot]
  BY <1>1, <1>5
<1>7. t.finding[i] = db.finding[i]
  BY <1>1, <1>2 DEF Written, Lifecycle!AfterEvaluation
<1>8. \A x \in DOMAIN db.finding :
        u.finding[x] = Lifecycle!AfterEvaluation(x, seen2, {}, db.nextRun, db.nextSnapshot)
  <2> TAKE x \in DOMAIN db.finding
  <2>1. CASE x = i
    BY <1>2, <1>6, <1>7, <2>1 DEF Lifecycle!AfterEvaluation
  <2>2. CASE x # i
    BY <1>2, <1>6, <2>2 DEF Written, Lifecycle!AfterEvaluation
  <2> QED BY <2>1, <2>2
<1>9. u.observation = db.observation \cup ({db.nextRun} \X (seen2 \cup NewIds(u)))
  <2>1. t.observation = db.observation \cup ({db.nextRun} \X (seen \cup NewIds(t)))
    BY DEF Written
  <2>2. {db.nextRun} \X (seen2 \cup NewIds(u)) =
        ({db.nextRun} \X (seen \cup NewIds(t))) \cup {<<db.nextRun, i>>}
    <3>1. seen2 \cup NewIds(u) = (seen \cup NewIds(t)) \cup {i}
      BY <1>2, <1>4
    <3>2. {db.nextRun} \X ((seen \cup NewIds(t)) \cup {i}) =
          ({db.nextRun} \X (seen \cup NewIds(t))) \cup {<<db.nextRun, i>>}
      BY OneMore
    <3> HIDE DEF seen, seen2
    <3> QED BY <3>1, <3>2
  <2> QED BY <2>1, <2>2
<1>10. \A x \in NewIds(u) : u.finding[x] = t.finding[x]
  BY <1>4, <1>6
<1>11. /\ t.nextFinding = db.nextFinding + Cardinality(done \ Lifecycle!ActiveKeys)
       /\ \A x \in NewIds(t) :
            /\ t.finding[x].key \in done \ Lifecycle!ActiveKeys
            /\ t.finding[x] = Lifecycle!NewFinding(t.finding[x].key, db.nextRun, db.nextSnapshot)
       /\ \A x, y \in NewIds(t) : t.finding[x].key = t.finding[y].key => x = y
  BY DEF Written
<1> QED BY <1>3, <1>4, <1>6, <1>8, <1>9, <1>10, <1>11 DEF Written

\* A candidate with no open row: a row is inserted, the row the lifecycle
\* would create.
LEMMA Inserted ==
    ASSUME TInv, NEW t, NEW u, NEW done \in SUBSET Fingerprints, NEW key \in Fingerprints \ done,
           key \notin Lifecycle!ActiveKeys,
           Written(t, done, {}),
           u.nextFinding = t.nextFinding + 1,
           u.finding = [x \in DOMAIN t.finding \cup {t.nextFinding} |->
                           IF x = t.nextFinding
                           THEN Lifecycle!NewFinding(key, db.nextRun, db.nextSnapshot)
                           ELSE t.finding[x]],
           u.observation = t.observation \cup {<<db.nextRun, t.nextFinding>>}
    PROVE  Written(u, done \cup {key}, {})
<1> DEFINE id == t.nextFinding
           fresh == done \ Lifecycle!ActiveKeys
<1>1. /\ t.nextFinding = db.nextFinding + Cardinality(fresh)
      /\ t.finding = [i \in DOMAIN db.finding \cup NewIds(t) |-> t.finding[i]]
      /\ \A x \in NewIds(t) :
           /\ t.finding[x].key \in fresh
           /\ t.finding[x] = Lifecycle!NewFinding(t.finding[x].key, db.nextRun, db.nextSnapshot)
      /\ \A x, y \in NewIds(t) : t.finding[x].key = t.finding[y].key => x = y
      /\ \A i \in DOMAIN db.finding :
            t.finding[i] = Lifecycle!AfterEvaluation(i, Lifecycle!Persisting(done), {},
                                                     db.nextRun, db.nextSnapshot)
      /\ t.observation =
            db.observation \cup ({db.nextRun} \X (Lifecycle!Persisting(done) \cup NewIds(t)))
  BY DEF Written
<1>2. IsFiniteSet(fresh) /\ Cardinality(fresh) \in Nat
  BY LifecycleAssumption, FS_Subset, FS_CardinalityType
<1>3. (done \cup {key}) \ Lifecycle!ActiveKeys = fresh \cup {key} /\ key \notin fresh
  OBVIOUS
<1>4. Cardinality(fresh \cup {key}) = Cardinality(fresh) + 1
  BY <1>2, <1>3, FS_AddElement
<1>5. id \in Nat /\ db.nextFinding \in Nat /\ db.nextFinding =< id
  BY Committed, <1>1, <1>2
<1>6. NewIds(u) = NewIds(t) \cup {id} /\ id \notin NewIds(t) /\ id \notin DOMAIN db.finding
      /\ NewIds(t) \cap DOMAIN db.finding = {}
  BY Committed, <1>5 DEF NewIds
<1>7. Lifecycle!Persisting(done \cup {key}) = Lifecycle!Persisting(done)
  BY DEF Lifecycle!Persisting, Lifecycle!ActiveKeys
<1>8. /\ u.finding = [i \in DOMAIN db.finding \cup NewIds(u) |-> u.finding[i]]
      /\ \A i \in DOMAIN db.finding \cup NewIds(t) : u.finding[i] = t.finding[i]
      /\ u.finding[id] = Lifecycle!NewFinding(key, db.nextRun, db.nextSnapshot)
  BY <1>1, <1>6
<1>9. u.finding[id].key = key
  BY <1>8 DEF Lifecycle!NewFinding
<1>10. /\ \A x \in NewIds(u) :
            /\ u.finding[x].key \in fresh \cup {key}
            /\ u.finding[x] = Lifecycle!NewFinding(u.finding[x].key, db.nextRun, db.nextSnapshot)
       /\ \A x, y \in NewIds(u) : u.finding[x].key = u.finding[y].key => x = y
  <2>1. \A x \in NewIds(t) : u.finding[x] = t.finding[x]
    BY <1>8
  <2> HIDE DEF id, fresh
  <2> QED BY <1>1, <1>3, <1>6, <1>8, <1>9, <2>1
<1>11. u.observation =
         db.observation \cup ({db.nextRun} \X (Lifecycle!Persisting(done) \cup NewIds(u)))
  <2>1. {db.nextRun} \X (Lifecycle!Persisting(done) \cup NewIds(u)) =
        ({db.nextRun} \X (Lifecycle!Persisting(done) \cup NewIds(t))) \cup {<<db.nextRun, id>>}
    BY <1>6
  <2> QED BY <1>1, <1>7, <2>1
<1>12. u.nextFinding = db.nextFinding + Cardinality((done \cup {key}) \ Lifecycle!ActiveKeys)
  <2>1. Cardinality((done \cup {key}) \ Lifecycle!ActiveKeys) = Cardinality(fresh) + 1
    BY <1>3, <1>4
  <2> HIDE DEF fresh
  <2> QED BY <1>1, <1>2, <1>5, <2>1
<1>13. \A i \in DOMAIN db.finding :
         u.finding[i] = Lifecycle!AfterEvaluation(i, Lifecycle!Persisting(done \cup {key}), {},
                                                  db.nextRun, db.nextSnapshot)
  BY <1>1, <1>7, <1>8
<1> QED BY <1>3, <1>7, <1>8, <1>10, <1>11, <1>12, <1>13 DEF Written

\* Until a row is resolved, the transaction finds the same predecessor as the
\* committed tables: the rows it has inserted are open.
LEMMA SamePredecessor ==
    ASSUME TInv, NEW done \in SUBSET Fingerprints, Written(tx, done, {}), NEW key
    PROVE  Tx!LatestResolved(key) = Lifecycle!LatestResolved(key)
<1>1. \A i \in DOMAIN db.finding :
        /\ tx.finding[i].key = db.finding[i].key
        /\ tx.finding[i].resolvedRun = db.finding[i].resolvedRun
        /\ Tx!Unresolved(i) <=> Lifecycle!Unresolved(i)
  <2> TAKE i \in DOMAIN db.finding
  <2>1. db.finding[i] \in LP!Finding
    BY Committed
  <2>2. tx.finding[i] = Lifecycle!AfterEvaluation(i, Lifecycle!Persisting(done), {},
                                                  db.nextRun, db.nextSnapshot)
    BY DEF Written
  <2>3. /\ tx.finding[i].key = db.finding[i].key
        /\ tx.finding[i].resolvedRun = db.finding[i].resolvedRun
        /\ tx.finding[i].resolvedSnapshot = db.finding[i].resolvedSnapshot
    BY <2>1, <2>2 DEF Lifecycle!AfterEvaluation, LP!Finding
  <2> QED BY <2>3 DEF Tx!Unresolved, Lifecycle!Unresolved, Tx!NULL, Lifecycle!NULL
<1>2. \A i \in NewIds(tx) : Tx!Unresolved(i)
  <2> TAKE i \in NewIds(tx)
  <2>1. tx.finding[i] = Lifecycle!NewFinding(tx.finding[i].key, db.nextRun, db.nextSnapshot)
    BY DEF Written
  <2>2. \A k, r, s : /\ Lifecycle!NewFinding(k, r, s).resolvedRun = 0
                    /\ Lifecycle!NewFinding(k, r, s).resolvedSnapshot = 0
    BY DEF Lifecycle!NewFinding, Lifecycle!NULL
  <2>3. tx.finding[i].resolvedRun = 0 /\ tx.finding[i].resolvedSnapshot = 0
    BY <2>1, <2>2
  <2> QED BY <2>3 DEF Tx!Unresolved, Tx!NULL
<1>3. DOMAIN tx.finding = DOMAIN db.finding \cup NewIds(tx)
  BY DEF Written
<1> DEFINE C == {i \in DOMAIN db.finding : db.finding[i].key = key /\ ~Lifecycle!Unresolved(i)}
<1>4. {i \in DOMAIN tx.finding : tx.finding[i].key = key /\ ~Tx!Unresolved(i)} = C
  BY <1>1, <1>2, <1>3
<1>5. Tx!LatestResolved(key) =
        IF C = {} THEN 0
        ELSE CHOOSE i \in C : \A k \in C : tx.finding[k].resolvedRun =< tx.finding[i].resolvedRun
  <2> DEFINE D == {i \in DOMAIN tx.finding : tx.finding[i].key = key /\ ~Tx!Unresolved(i)}
  <2>1. Tx!LatestResolved(key) =
          IF D = {} THEN 0
          ELSE CHOOSE i \in D : \A k \in D : tx.finding[k].resolvedRun =< tx.finding[i].resolvedRun
    BY DEF Tx!LatestResolved, Tx!NULL
  <2> HIDE DEF C, D
  <2> QED BY <1>4, <2>1 DEF D
<1>6. Lifecycle!LatestResolved(key) =
        IF C = {} THEN 0
        ELSE CHOOSE i \in C : \A k \in C : db.finding[k].resolvedRun =< db.finding[i].resolvedRun
  BY DEF Lifecycle!LatestResolved, Lifecycle!NULL
<1>7. \A i \in C : tx.finding[i].resolvedRun = db.finding[i].resolvedRun
  BY <1>1
<1> HIDE DEF C
<1> QED BY <1>5, <1>6, <1>7

\* One turn of the candidates' loop, whichever of the two it is.
LEMMA CandidateStep ==
    ASSUME TInv, NEW p \in Importers, EvaluateCandidate(p)
    PROVE  TInv'
<1> DEFINE j == job[p]
           done == j.candidates \ j.todo
<1>1. /\ j.step = "evaluating" /\ writer = p /\ j \in Job /\ IsTables(tx)
      /\ Evaluating(tx, j) /\ db.nextRun =< MaxRuns
  BY AtStep DEF EvaluateCandidate, Steps, Progress
<1>2. /\ j.todo \subseteq j.candidates /\ j.candidates \subseteq Fingerprints
      /\ j.run = db.nextRun /\ j.snapshot = db.nextSnapshot
      /\ j.active = Lifecycle!ActiveFindings
  BY <1>1 DEF Evaluating, Loaded, Job, Idle
<1>3. PICK key \in j.todo :
        LET existing == {x \in j.active : tx.finding[x].key = key}
            i        == IF existing = {} THEN tx.nextFinding
                        ELSE CHOOSE x \in existing : \A y \in existing : y =< x
        IN /\ tx' = IF existing = {}
                    THEN [tx EXCEPT
                           !.nextFinding = i + 1,
                           !.finding = [x \in DOMAIN tx.finding \cup {i} |->
                               IF x = i THEN Tx!NewFinding(key, j.run, j.snapshot)
                               ELSE tx.finding[x]],
                           !.observation = tx.observation \cup {<<j.run, i>>}]
                    ELSE [tx EXCEPT
                           !.finding[i].lastRun = j.run, !.finding[i].lastSnapshot = j.snapshot,
                           !.observation = tx.observation \cup {<<j.run, i>>}]
           /\ job' = [job EXCEPT ![p].todo = j.todo \ {key}]
  BY DEF EvaluateCandidate
<1>4. UNCHANGED <<db, writer>>
  BY DEF EvaluateCandidate
<1>5. Written(tx, done, {})
  BY <1>1 DEF Evaluating
<1>6. key \in Fingerprints \ done /\ done \in SUBSET Fingerprints
      /\ j.candidates \ (j.todo \ {key}) = done \cup {key}
  BY <1>2
<1> DEFINE existing == {x \in Lifecycle!ActiveFindings : db.finding[x].key = key}
<1>7. \A x \in Lifecycle!ActiveFindings :
        x \in DOMAIN db.finding /\ tx.finding[x].key = db.finding[x].key
  <2> TAKE x \in Lifecycle!ActiveFindings
  <2>1. x \in DOMAIN db.finding /\ db.finding[x] \in LP!Finding
    BY Committed DEF Lifecycle!ActiveFindings
  <2> QED BY <1>5, <2>1 DEF Written, Lifecycle!AfterEvaluation, LP!Finding
<1>8. existing = {x \in j.active : tx.finding[x].key = key}
  BY <1>2, <1>7
<1>9. /\ tx'.snapshot = tx.snapshot /\ tx'.nextSnapshot = tx.nextSnapshot
      /\ tx'.run = tx.run /\ tx'.nextRun = tx.nextRun /\ tx'.openAfter = tx.openAfter
      /\ IsTables(tx')
      /\ Written(tx', done \cup {key}, {})
  <2>1. CASE existing = {}
    <3>1. tx' = [tx EXCEPT
              !.nextFinding = tx.nextFinding + 1,
              !.finding = [x \in DOMAIN tx.finding \cup {tx.nextFinding} |->
                  IF x = tx.nextFinding THEN Tx!NewFinding(key, j.run, j.snapshot)
                  ELSE tx.finding[x]],
              !.observation = tx.observation \cup {<<j.run, tx.nextFinding>>}]
      BY <1>3, <1>8, <2>1
    <3>2. key \notin Lifecycle!ActiveKeys
      BY <2>1 DEF Lifecycle!ActiveKeys
    <3>3. Tx!NewFinding(key, j.run, j.snapshot) =
          Lifecycle!NewFinding(key, db.nextRun, db.nextSnapshot)
      BY <1>2, <1>5, <1>6, SamePredecessor
         DEF Tx!NewFinding, Lifecycle!NewFinding, Tx!NULL, Lifecycle!NULL
    <3>4. /\ tx'.nextFinding = tx.nextFinding + 1
          /\ tx'.finding = [x \in DOMAIN tx.finding \cup {tx.nextFinding} |->
                 IF x = tx.nextFinding
                 THEN Lifecycle!NewFinding(key, db.nextRun, db.nextSnapshot)
                 ELSE tx.finding[x]]
          /\ tx'.observation = tx.observation \cup {<<db.nextRun, tx.nextFinding>>}
      BY <1>1, <1>2, <3>1, <3>3 DEF IsTables, TableNames
    <3>5. /\ tx'.snapshot = tx.snapshot /\ tx'.nextSnapshot = tx.nextSnapshot
          /\ tx'.run = tx.run /\ tx'.nextRun = tx.nextRun /\ tx'.openAfter = tx.openAfter
          /\ IsTables(tx')
      BY <1>1, <3>1 DEF IsTables, TableNames
    <3>6. Written(tx', done \cup {key}, {})
      <4> HIDE DEF done
      <4> QED BY <1>5, <1>6, <3>2, <3>4, Inserted
    <3> QED BY <3>5, <3>6
  <2>2. CASE existing # {}
    <3> DEFINE i == CHOOSE x \in existing : \A y \in existing : y =< x
    <3>1. PICK x \in existing : TRUE
      BY <2>2
    <3>2. \A y \in existing : y = x
      BY Committed, <3>1
    <3>3. x \in Nat
      BY Committed, <1>7
    <3>4. i \in existing
      <4>1. \E z \in existing : \A y \in existing : y =< z
        BY <3>1, <3>2, <3>3
      <4> HIDE DEF existing
      <4> QED BY <4>1
    <3>5. i \in Lifecycle!ActiveFindings /\ db.finding[i].key = key
      BY <3>4
    <3>6. tx' = [tx EXCEPT
              !.finding[i].lastRun = j.run, !.finding[i].lastSnapshot = j.snapshot,
              !.observation = tx.observation \cup {<<j.run, i>>}]
      BY <1>3, <1>8, <2>2
    <3> HIDE DEF i
    <3>7. /\ tx'.nextFinding = tx.nextFinding
          /\ tx'.finding = [tx.finding EXCEPT ![i].lastRun = db.nextRun,
                                              ![i].lastSnapshot = db.nextSnapshot]
          /\ tx'.observation = tx.observation \cup {<<db.nextRun, i>>}
      BY <1>1, <1>2, <3>6 DEF IsTables, TableNames
    <3>8. /\ tx'.snapshot = tx.snapshot /\ tx'.nextSnapshot = tx.nextSnapshot
          /\ tx'.run = tx.run /\ tx'.nextRun = tx.nextRun /\ tx'.openAfter = tx.openAfter
          /\ IsTables(tx')
      <4>1. DOMAIN tx = TableNames
        BY <1>1 DEF IsTables
      <4>2. tx' = [y \in TableNames |-> tx'[y]]
        BY <3>6, <4>1
      <4>3. \A y \in TableNames \ {"finding", "observation"} : tx'[y] = tx[y]
        BY <3>6, <4>1 DEF TableNames
      <4> QED BY <4>2, <4>3 DEF IsTables, TableNames
    <3>9. Written(tx', done \cup {key}, {})
      <4> HIDE DEF done
      <4> QED BY <1>5, <1>6, <3>5, <3>7, SeenAgain
    <3> QED BY <3>8, <3>9
  <2> QED BY <2>1, <2>2
<1>10. job'[p] = [j EXCEPT !.todo = j.todo \ {key}]
  BY <1>3, AtStep
<1>11. /\ job'[p] \in Job /\ job'[p].step = "evaluating" /\ job'[p].todo = j.todo \ {key}
       /\ job'[p].candidates = j.candidates /\ job'[p].run = j.run
       /\ job'[p].snapshot = j.snapshot /\ job'[p].estate = j.estate
       /\ job'[p].active = j.active
  BY <1>1, <1>10 DEF Job, Idle
<1>12. Evaluating(tx', job'[p])
  <2>1. Loaded(tx', job'[p]) /\ WithRun(tx', "partial")
    BY <1>1, <1>9, <1>11 DEF Evaluating, Loaded, WithSnapshot, WithRun
  <2>2. Written(tx', job'[p].candidates \ job'[p].todo, {})
    BY <1>6, <1>9, <1>11
  <2>3. job'[p].todo \subseteq job'[p].candidates
    BY <1>2, <1>11
  <2> QED BY <2>1, <2>2, <2>3 DEF Evaluating
<1>13. Progress(tx', job'[p])
  BY <1>1, <1>11, <1>12 DEF Progress
<1>14. job' = [job EXCEPT ![p] = job'[p]]
  BY <1>3, <1>10, AtStep
<1> QED BY <1>1, <1>4, <1>9, <1>11, <1>13, <1>14, WriterStep DEF Steps

\* The rows the transaction still has to resolve are the lifecycle's.
LEMMA AbsentRows ==
    ASSUME TInv, NEW j \in Job, j.active = Lifecycle!ActiveFindings,
           NEW resolved \in SUBSET Gone(j), Written(tx, j.candidates, resolved)
    PROVE  /\ Absent(j) = Gone(j)
           /\ \A i \in Gone(j) : /\ i \in DOMAIN db.finding
                                 /\ i \notin Lifecycle!Persisting(j.candidates)
                                 /\ tx.finding[i].resolvedRun # 0 <=> i \in resolved
<1>1. \A i \in Lifecycle!ActiveFindings :
        /\ i \in DOMAIN db.finding
        /\ tx.finding[i].key = db.finding[i].key
        /\ i \notin resolved => tx.finding[i].resolvedRun = 0
        /\ i \in resolved /\ i \notin Lifecycle!Persisting(j.candidates) =>
              tx.finding[i].resolvedRun # 0
  <2> TAKE i \in Lifecycle!ActiveFindings
  <2>1. i \in DOMAIN db.finding /\ db.finding[i] \in LP!Finding /\ db.finding[i].resolvedRun = 0
    BY Committed DEF Lifecycle!ActiveFindings
  <2>2. tx.finding[i] = Lifecycle!AfterEvaluation(i, Lifecycle!Persisting(j.candidates), resolved,
                                                  db.nextRun, db.nextSnapshot)
    BY <2>1 DEF Written
  <2>3. db.nextRun # 0
    BY Committed
  <2> QED BY <2>1, <2>2, <2>3 DEF Lifecycle!AfterEvaluation, LP!Finding
<1>2. Gone(j) \subseteq Lifecycle!ActiveFindings
      /\ \A i \in Gone(j) : i \notin Lifecycle!Persisting(j.candidates)
  BY DEF Gone, Lifecycle!Resolving, Lifecycle!Persisting
<1>3. Absent(j) = Gone(j)
  BY <1>1 DEF Absent, Gone, Lifecycle!Resolving, Tx!AbsenceIsMeaningful,
              Lifecycle!AbsenceIsMeaningful
<1> QED BY <1>1, <1>2, <1>3

\* One turn of the loop that resolves what was not seen.
LEMMA ResolveStep ==
    ASSUME TInv, NEW p \in Importers, ResolveAbsent(p)
    PROVE  TInv'
<1> DEFINE j == job[p]
<1>1. /\ j.step = "evaluating" /\ writer = p /\ j \in Job /\ IsTables(tx)
      /\ Evaluating(tx, j) /\ db.nextRun =< MaxRuns
      /\ j.todo = {} /\ ~j.duplicates /\ UNCHANGED <<db, writer, job>>
  BY AtStep DEF ResolveAbsent, Steps, Progress
<1>2. /\ j.run = db.nextRun /\ j.snapshot = db.nextSnapshot /\ j.candidates \ j.todo = j.candidates
      /\ j.active = Lifecycle!ActiveFindings
  BY <1>1 DEF Evaluating, Loaded
<1>3. PICK resolved \in SUBSET Gone(j) : Written(tx, j.candidates, resolved)
  BY <1>1, <1>2 DEF Evaluating
<1>4. PICK i \in Absent(j) :
        /\ tx.finding[i].resolvedRun = 0
        /\ tx' = [tx EXCEPT !.finding[i].resolvedRun = j.run,
                            !.finding[i].resolvedSnapshot = j.snapshot]
  BY DEF ResolveAbsent, Tx!NULL
<1>5. /\ i \in Gone(j) /\ i \in DOMAIN db.finding /\ i \notin resolved
      /\ i \notin Lifecycle!Persisting(j.candidates)
  BY <1>1, <1>2, <1>3, <1>4, AbsentRows
<1>6. /\ \A y \in TableNames \ {"finding"} : tx'[y] = tx[y]
      /\ IsTables(tx')
      /\ tx'.finding = [tx.finding EXCEPT ![i].resolvedRun = db.nextRun,
                                          ![i].resolvedSnapshot = db.nextSnapshot]
  <2>1. DOMAIN tx = TableNames
    BY <1>1 DEF IsTables
  <2>2. tx' = [y \in TableNames |-> tx'[y]]
    BY <1>4, <2>1
  <2>3. \A y \in TableNames \ {"finding"} : tx'[y] = tx[y]
    BY <1>4, <2>1 DEF TableNames
  <2>4. tx'.finding = [tx.finding EXCEPT ![i].resolvedRun = db.nextRun,
                                         ![i].resolvedSnapshot = db.nextSnapshot]
    BY <1>2, <1>4, <2>1 DEF TableNames
  <2> QED BY <2>2, <2>3, <2>4 DEF IsTables
<1>7. Written(tx', j.candidates, resolved \cup {i})
  <2>1. tx.finding = [x \in DOMAIN db.finding \cup NewIds(tx) |-> tx.finding[x]]
    BY <1>3 DEF Written
  <2>2. tx'.nextFinding = tx.nextFinding /\ tx'.observation = tx.observation
    BY <1>6 DEF TableNames
  <2>3. NewIds(tx') = NewIds(tx) /\ i \notin NewIds(tx)
    BY Committed, <1>5, <2>2 DEF NewIds
  <2>4. /\ tx'.finding = [x \in DOMAIN db.finding \cup NewIds(tx) |-> tx'.finding[x]]
        /\ \A x \in DOMAIN db.finding \cup NewIds(tx) : x # i => tx'.finding[x] = tx.finding[x]
        /\ tx'.finding[i] = [tx.finding[i] EXCEPT !.resolvedRun = db.nextRun,
                                                  !.resolvedSnapshot = db.nextSnapshot]
    BY <1>5, <1>6, <2>1
  <2>5. \A x \in DOMAIN db.finding :
          tx'.finding[x] = Lifecycle!AfterEvaluation(x, Lifecycle!Persisting(j.candidates),
                               resolved \cup {i}, db.nextRun, db.nextSnapshot)
    <3> TAKE x \in DOMAIN db.finding
    <3>1. tx.finding[x] = Lifecycle!AfterEvaluation(x, Lifecycle!Persisting(j.candidates),
                               resolved, db.nextRun, db.nextSnapshot)
      BY <1>3 DEF Written
    <3>2. CASE x = i
      BY <1>5, <2>4, <3>1, <3>2 DEF Lifecycle!AfterEvaluation
    <3>3. CASE x # i
      BY <2>4, <3>1, <3>3 DEF Lifecycle!AfterEvaluation
    <3> QED BY <3>2, <3>3
  <2>6. \A x \in NewIds(tx) : tx'.finding[x] = tx.finding[x]
    BY <2>3, <2>4
  <2>7. /\ tx.nextFinding = db.nextFinding + Cardinality(j.candidates \ Lifecycle!ActiveKeys)
        /\ \A x \in NewIds(tx) :
             /\ tx.finding[x].key \in j.candidates \ Lifecycle!ActiveKeys
             /\ tx.finding[x] = Lifecycle!NewFinding(tx.finding[x].key, db.nextRun, db.nextSnapshot)
        /\ \A x, y \in NewIds(tx) : tx.finding[x].key = tx.finding[y].key => x = y
        /\ tx.observation = db.observation
              \cup ({db.nextRun} \X (Lifecycle!Persisting(j.candidates) \cup NewIds(tx)))
    BY <1>3 DEF Written
  <2> QED BY <2>2, <2>3, <2>4, <2>5, <2>6, <2>7 DEF Written
<1>8. Evaluating(tx', j)
  <2>1. Loaded(tx', j) /\ WithRun(tx', "partial")
    BY <1>1, <1>6 DEF Evaluating, Loaded, WithSnapshot, WithRun, TableNames
  <2>2. resolved \cup {i} \in SUBSET Gone(j)
    BY <1>3, <1>5
  <2> QED BY <1>1, <1>2, <1>7, <2>1, <2>2 DEF Evaluating
<1>9. Progress(tx', job'[p])
  BY <1>1, <1>8 DEF Progress
<1>10. job' = [job EXCEPT ![p] = job'[p]]
  BY <1>1, AtStep
<1> QED BY <1>1, <1>6, <1>9, <1>10, WriterStep DEF Steps

\* When the loops are through, the transaction is the whole evaluation.
LEMMA CompleteStep ==
    ASSUME TInv, NEW p \in Importers, CompleteRun(p)
    PROVE  TInv'
<1> DEFINE j == job[p]
           status == Lifecycle!StatusOf(j.duplicates)
<1>1. /\ j.step = "evaluating" /\ writer = p /\ j \in Job /\ IsTables(tx)
      /\ Evaluating(tx, j) /\ db.nextRun =< MaxRuns
      /\ j.todo = {} /\ UNCHANGED <<db, writer>>
      /\ j.duplicates \/ \A i \in Absent(j) : tx.finding[i].resolvedRun # 0
      /\ job' = [job EXCEPT ![p].step = "evaluated"]
  BY AtStep DEF CompleteRun, Steps, Progress, Tx!NULL
<1>2. /\ j.run = db.nextRun /\ j.snapshot = db.nextSnapshot /\ j.candidates \ j.todo = j.candidates
      /\ j.active = Lifecycle!ActiveFindings /\ WithRun(tx, "partial")
  BY <1>1 DEF Evaluating, Loaded
<1>3. PICK resolved \in SUBSET Gone(j) :
        /\ Written(tx, j.candidates, resolved)
        /\ resolved # {} => ~j.duplicates
  BY <1>1, <1>2 DEF Evaluating
<1>4. resolved = Lifecycle!Resolving(j.candidates, status, j.estate)
  <2>1. CASE j.duplicates
    BY <1>3, <2>1 DEF Lifecycle!StatusOf, Lifecycle!Resolving
  <2>2. CASE ~j.duplicates
    <3>1. Gone(j) \subseteq resolved
      BY <1>1, <1>2, <1>3, <2>2, AbsentRows
    <3> QED BY <1>3, <2>2, <3>1 DEF Lifecycle!StatusOf, Gone
  <2> QED BY <2>1, <2>2
<1>5. tx' = [tx EXCEPT !.run[j.run].status = status]
  BY DEF CompleteRun, Tx!StatusOf, Lifecycle!StatusOf
<1>6. /\ \A y \in TableNames \ {"run"} : tx'[y] = tx[y]
      /\ IsTables(tx')
      /\ tx'.run = [tx.run EXCEPT ![db.nextRun].status = status]
  <2>1. DOMAIN tx = TableNames
    BY <1>1 DEF IsTables
  <2>2. tx' = [y \in TableNames |-> tx'[y]]
    BY <1>5, <2>1
  <2>3. \A y \in TableNames \ {"run"} : tx'[y] = tx[y]
    BY <1>5, <2>1 DEF TableNames
  <2>4. tx'.run = [tx.run EXCEPT ![db.nextRun].status = status]
    BY <1>2, <1>5, <2>1 DEF TableNames
  <2> QED BY <2>2, <2>3, <2>4 DEF IsTables
<1>7. WithRun(tx', status)
  <2> HIDE DEF status
  <2>1. tx'.nextRun = tx.nextRun
    BY <1>6 DEF TableNames
  <2>2. /\ tx.run = [x \in DOMAIN db.run \cup {db.nextRun} |-> tx.run[x]]
        /\ tx.run[db.nextRun] = [snapshot |-> db.nextSnapshot, status |-> "partial"]
        /\ \A x \in DOMAIN db.run : x # db.nextRun => tx.run[x] = db.run[x]
    BY <1>2 DEF WithRun
  <2>3. /\ tx'.run = [x \in DOMAIN db.run \cup {db.nextRun} |-> tx'.run[x]]
        /\ tx'.run[db.nextRun] = [tx.run[db.nextRun] EXCEPT !.status = status]
        /\ \A x \in DOMAIN db.run : x # db.nextRun => tx'.run[x] = tx.run[x]
    BY <1>6, <2>2
  <2>4. tx'.run[db.nextRun] = [snapshot |-> db.nextSnapshot, status |-> status]
    BY <2>2, <2>3
  <2>5. tx'.run = [x \in DOMAIN db.run \cup {db.nextRun} |->
                     IF x = db.nextRun THEN [snapshot |-> db.nextSnapshot, status |-> status]
                     ELSE db.run[x]]
    BY <2>2, <2>3, <2>4
  <2> QED BY <1>2, <2>1, <2>5 DEF WithRun
<1>8. job'[p] = [j EXCEPT !.step = "evaluated"]
  BY <1>1, AtStep
<1>9. /\ job'[p] \in Job /\ job'[p].step = "evaluated" /\ job'[p].duplicates = j.duplicates
      /\ job'[p].candidates = j.candidates /\ job'[p].run = j.run
      /\ job'[p].snapshot = j.snapshot /\ job'[p].estate = j.estate
      /\ job'[p].active = j.active
  BY <1>1, <1>8 DEF Job, Idle
<1>10. Written(tx', j.candidates, resolved)
  BY <1>3, <1>6 DEF Written, NewIds, TableNames
<1>11. Evaluated(tx', job'[p])
  <2>1. Loaded(tx', job'[p])
    BY <1>1, <1>6, <1>9 DEF Evaluating, Loaded, WithSnapshot, TableNames
  <2> QED BY <1>4, <1>7, <1>9, <1>10, <2>1 DEF Evaluated
<1>12. Progress(tx', job'[p])
  BY <1>1, <1>9, <1>11 DEF Progress
<1>13. job' = [job EXCEPT ![p] = job'[p]]
  BY <1>1, <1>8, AtStep
<1> QED BY <1>1, <1>6, <1>9, <1>12, <1>13, WriterStep DEF Steps

-----------------------------------------------------------------------------
(* The steps that commit.                                                  *)

\* After a commit nobody has the right to write.
LEMMA CommittedStep ==
    ASSUME TransactionInv, LP!IInv', IsTables(db'), tx' = db', writer' = NoOne,
           job' \in [Importers -> Job],
           \A q \in Importers : job'[q].step \notin Steps \cup {"marking"}
    PROVE  TInv'
<1>1. IsTables(db)' /\ IsTables(tx)'
  BY DEF IsTables
<1> QED BY <1>1, NoOneAssumption DEF TInv, TransactionInv

\* The commit of an import is one SaveEvaluatedEstate.
LEMMA CommitImports ==
    ASSUME TInv, NEW p \in Importers, Commit(p)
    PROVE  /\ job[p].estate \in Lifecycle!Estate /\ job[p].candidates \in SUBSET Fingerprints
           /\ job[p].duplicates \in BOOLEAN
           /\ Lifecycle!SaveEvaluatedEstate(job[p].estate, job[p].candidates, job[p].duplicates)
           /\ IsTables(db')
<1> DEFINE j == job[p]
           status == Lifecycle!StatusOf(j.duplicates)
           gone == Lifecycle!Resolving(j.candidates, status, j.estate)
           fresh == j.candidates \ Lifecycle!ActiveKeys
           new == NewIds(tx)
           r == db.nextRun
           s == db.nextSnapshot
<1>1. /\ j.step = "evaluated" /\ writer = p /\ j \in Job /\ IsTables(tx)
      /\ Evaluated(tx, j) /\ db.nextRun =< MaxRuns
  BY AtStep DEF Commit, Steps, Progress
<1>2. /\ j.estate \in Lifecycle!Estate /\ j.candidates \in SUBSET Fingerprints
      /\ j.duplicates \in BOOLEAN
  BY <1>1 DEF Job, Idle
<1>3. /\ j.run = r /\ WithSnapshot(tx, j.estate) /\ WithRun(tx, status)
      /\ tx.openAfter = db.openAfter /\ Written(tx, j.candidates, gone)
  BY <1>1 DEF Evaluated, Loaded
<1>4. db' = [tx EXCEPT !.openAfter = [x \in DOMAIN db.openAfter \cup {r} |->
                IF x = r THEN Tx!ActiveFindings ELSE db.openAfter[x]]]
  BY <1>1, <1>3 DEF Commit, IsTables, TableNames
<1>5. /\ IsTables(db')
      /\ \A y \in TableNames \ {"openAfter"} : db'[y] = tx[y]
      /\ db'.openAfter = [x \in DOMAIN db.run \cup {r} |->
             IF x = r THEN Tx!ActiveFindings ELSE db.openAfter[x]]
  <2>1. DOMAIN tx = TableNames
    BY <1>1 DEF IsTables
  <2>2. DOMAIN db.openAfter = DOMAIN db.run
    BY Committed
  <2> QED BY <1>4, <2>1, <2>2 DEF IsTables, TableNames
<1>6. /\ db'.snapshot = tx.snapshot /\ db'.run = tx.run /\ db'.finding = tx.finding
      /\ db'.observation = tx.observation /\ db'.nextSnapshot = tx.nextSnapshot
      /\ db'.nextRun = tx.nextRun /\ db'.nextFinding = tx.nextFinding
  BY <1>5 DEF TableNames
<1>7. /\ tx.nextFinding = db.nextFinding + Cardinality(fresh)
      /\ tx.finding = [i \in DOMAIN db.finding \cup new |-> tx.finding[i]]
      /\ \A i \in new :
            /\ tx.finding[i].key \in fresh
            /\ tx.finding[i] = Lifecycle!NewFinding(tx.finding[i].key, r, s)
      /\ \A i, k \in new : tx.finding[i].key = tx.finding[k].key => i = k
      /\ \A i \in DOMAIN db.finding :
            tx.finding[i] =
               Lifecycle!AfterEvaluation(i, Lifecycle!Persisting(j.candidates), gone, r, s)
      /\ tx.observation =
            db.observation \cup ({r} \X (Lifecycle!Persisting(j.candidates) \cup new))
  BY <1>3 DEF Written
<1>8. new = db.nextFinding .. db.nextFinding + Cardinality(fresh) - 1
  <2>1. fresh \subseteq Fingerprints
    BY <1>2
  <2>2. Cardinality(fresh) \in Nat /\ db.nextFinding \in Nat
    <3>1. IsFiniteSet(fresh)
      BY <2>1, LifecycleAssumption, FS_Subset
    <3> QED BY <3>1, Committed, FS_CardinalityType
  <2>3. tx.nextFinding = db.nextFinding + Cardinality(fresh)
    BY <1>7
  <2>4. new = db.nextFinding .. tx.nextFinding - 1
    BY DEF NewIds
  <2> HIDE DEF new, fresh
  <2> QED BY <2>2, <2>3, <2>4
<1>9. new \cap DOMAIN db.finding = {}
  BY Committed DEF NewIds
<1>10. Tx!ActiveFindings = (Lifecycle!ActiveFindings \ gone) \cup new
  <2>1. \A i \in DOMAIN db.finding : Tx!Unresolved(i) <=> Lifecycle!Unresolved(i) /\ i \notin gone
    <3> TAKE i \in DOMAIN db.finding
    <3>1. db.finding[i] \in LP!Finding /\ r # 0
      BY Committed
    <3>2. gone \cap Lifecycle!Persisting(j.candidates) = {}
      BY DEF Lifecycle!Resolving, Lifecycle!Persisting
    <3> HIDE DEF gone
    <3>3. tx.finding[i] =
            Lifecycle!AfterEvaluation(i, Lifecycle!Persisting(j.candidates), gone, r, s)
      BY <1>7
    <3>4. CASE i \in gone
      <4>1. tx.finding[i].resolvedRun = r
        BY <3>1, <3>2, <3>3, <3>4 DEF Lifecycle!AfterEvaluation, LP!Finding
      <4> QED BY <3>1, <3>4, <4>1 DEF Tx!Unresolved, Tx!NULL
    <3>5. CASE i \notin gone
      <4>1. /\ tx.finding[i].resolvedRun = db.finding[i].resolvedRun
            /\ tx.finding[i].resolvedSnapshot = db.finding[i].resolvedSnapshot
        BY <3>1, <3>3, <3>5 DEF Lifecycle!AfterEvaluation, LP!Finding
      <4> QED BY <3>5, <4>1 DEF Tx!Unresolved, Lifecycle!Unresolved, Tx!NULL, Lifecycle!NULL
    <3> QED BY <3>4, <3>5
  <2>2. \A i \in new : Tx!Unresolved(i)
    <3> TAKE i \in new
    <3>1. tx.finding[i] = Lifecycle!NewFinding(tx.finding[i].key, r, s)
      BY <1>7
    <3>2. \A k, q, t : /\ Lifecycle!NewFinding(k, q, t).resolvedRun = 0
                       /\ Lifecycle!NewFinding(k, q, t).resolvedSnapshot = 0
      BY DEF Lifecycle!NewFinding, Lifecycle!NULL
    <3>3. tx.finding[i].resolvedRun = 0 /\ tx.finding[i].resolvedSnapshot = 0
      BY <3>1, <3>2
    <3> QED BY <3>3 DEF Tx!Unresolved, Tx!NULL
  <2>3. DOMAIN tx.finding = DOMAIN db.finding \cup new
    BY <1>7
  <2> HIDE DEF new, gone
  <2> QED BY <1>9, <2>1, <2>2, <2>3 DEF Tx!ActiveFindings, Lifecycle!ActiveFindings
<1> DEFINE keyOf == [i \in new |-> tx.finding[i].key]
<1>11. /\ keyOf \in [new -> fresh]
       /\ \A i, k \in new : i # k => keyOf[i] # keyOf[k]
       /\ tx.finding = [i \in DOMAIN db.finding \cup new |->
             IF i \in new THEN Lifecycle!NewFinding(keyOf[i], r, s)
             ELSE Lifecycle!AfterEvaluation(i, Lifecycle!Persisting(j.candidates), gone, r, s)]
  <2> HIDE DEF new, fresh, gone, r, s
  <2> QED BY <1>7
<1>12. Lifecycle!RunEvaluation(r, s, j.candidates, j.duplicates, j.estate)
  <2> DEFINE ids == db.nextFinding .. db.nextFinding + Lifecycle!Cardinality(fresh) - 1
             Effect(k) ==
                /\ \A x, y \in ids : x # y => k[x] # k[y]
                /\ db.run' = [x \in DOMAIN db.run \cup {r} |->
                                IF x = r THEN [snapshot |-> s, status |-> status] ELSE db.run[x]]
                /\ db.finding' = [i \in DOMAIN db.finding \cup ids |->
                       IF i \in ids THEN Lifecycle!NewFinding(k[i], r, s)
                       ELSE Lifecycle!AfterEvaluation(i, Lifecycle!Persisting(j.candidates),
                                                      gone, r, s)]
                /\ db.observation' = db.observation
                       \cup ({r} \X (Lifecycle!Persisting(j.candidates) \cup ids))
                /\ db.nextFinding' = db.nextFinding + Lifecycle!Cardinality(fresh)
                /\ db.openAfter' = [x \in DOMAIN db.run \cup {r} |->
                       IF x = r THEN (Lifecycle!ActiveFindings \ gone) \cup ids
                       ELSE db.openAfter[x]]
  <2>1. Lifecycle!Cardinality(fresh) = Cardinality(fresh)
    BY SameCardinality
  <2>2. ids = new
    <3> HIDE DEF fresh, new
    <3> QED BY <1>8, <2>1
  <2>3. /\ db.run' = [x \in DOMAIN db.run \cup {r} |->
                         IF x = r THEN [snapshot |-> s, status |-> status] ELSE db.run[x]]
        /\ db.openAfter' = [x \in DOMAIN db.run \cup {r} |->
                         IF x = r THEN (Lifecycle!ActiveFindings \ gone) \cup new
                         ELSE db.openAfter[x]]
        /\ db.finding' = tx.finding
        /\ db.observation' = tx.observation
        /\ db.nextFinding' = tx.nextFinding
    BY <1>3, <1>5, <1>6, <1>10 DEF WithRun
  <2>4. Effect(keyOf) /\ keyOf \in [ids -> fresh]
    <3> HIDE DEF keyOf, ids, new, fresh, gone, status, r, s, j
    <3> QED BY <1>7, <1>11, <2>1, <2>2, <2>3
  <2>5. \E k \in [ids -> fresh] : Effect(k)
    <3> HIDE DEF Effect, keyOf, ids, fresh
    <3> QED BY <2>4
  <2> QED BY <2>5 DEF Lifecycle!RunEvaluation
<1> QED BY <1>1, <1>2, <1>3, <1>5, <1>6, <1>12
        DEF Lifecycle!SaveEvaluatedEstate, WithSnapshot, WithRun

\* A commit leaves the committed tables as the invariant has them.
LEMMA CommitStep ==
    ASSUME TInv, NEW p \in Importers, Commit(p)
    PROVE  TInv'
<1>1. /\ job[p].estate \in LP!Estate /\ job[p].candidates \in SUBSET Fingerprints
      /\ job[p].duplicates \in BOOLEAN
      /\ LP!SaveEvaluatedEstate(job[p].estate, job[p].candidates, job[p].duplicates)
      /\ IsTables(db')
  BY CommitImports, SameImport, SameRows
<1>2. LP!IInv'
  BY <1>1, LP!ImportStep, LifecycleAssumption, SameFiniteSets DEF TInv
<1>3. /\ tx' = db' /\ writer' = NoOne /\ job' = [job EXCEPT ![p] = Idle] /\ writer = p
  BY AtStep DEF Commit, Steps
<1>4. job' \in [Importers -> Job] /\ \A q \in Importers : job'[q].step \notin Steps \cup {"marking"}
  BY <1>3, AtStep DEF Job, Idle, Steps, TInv, TransactionInv
<1> QED BY <1>1, <1>2, <1>3, <1>4, CommittedStep DEF TInv

\* A deletion between two transactions is one DeleteSnapshot.
LEMMA DeletionIsOne ==
    ASSUME TInv, NEW s \in DOMAIN db.snapshot, Delete(s)
    PROVE  Lifecycle!DeleteSnapshot(s) /\ IsTables(db')
<1> DEFINE runs     == Lifecycle!SurvivingRuns(s)
           findings == Lifecycle!SurvivingFindings(s)
<1>1. db' = [db EXCEPT
           !.snapshot    = [x \in DOMAIN db.snapshot \ {s} |-> db.snapshot[x]],
           !.run         = [r \in runs |-> db.run[r]],
           !.finding     = [i \in findings |-> Lifecycle!AfterDelete(i, s)],
           !.observation = db.observation \cap (runs \X findings),
           !.openAfter   = [r \in runs |-> db.openAfter[r]]]
  BY DEF Delete, AfterDeletion
<1>2. DOMAIN db = TableNames
  BY AtStep DEF TInv, TransactionInv, IsTables
<1>3. /\ db'.snapshot    = [x \in DOMAIN db.snapshot \ {s} |-> db.snapshot[x]]
      /\ db'.run         = [r \in runs |-> db.run[r]]
      /\ db'.finding     = [i \in findings |-> Lifecycle!AfterDelete(i, s)]
      /\ db'.observation = db.observation \cap (runs \X findings)
      /\ db'.openAfter   = [r \in runs |-> db.openAfter[r]]
      /\ db'.nextSnapshot = db.nextSnapshot
      /\ db'.nextRun = db.nextRun /\ db'.nextFinding = db.nextFinding
  <2> HIDE DEF runs, findings
  <2> QED BY <1>1, <1>2 DEF TableNames
<1>4. IsTables(db')
  BY <1>1, <1>2 DEF IsTables
<1> QED BY <1>3, <1>4 DEF Lifecycle!DeleteSnapshot

\* A deletion, between transactions, keeps the invariant.
LEMMA DeletionStep ==
    ASSUME TInv, NEW s \in DOMAIN db.snapshot, Delete(s)
    PROVE  TInv'
<1>1. LP!DeleteSnapshot(s) /\ IsTables(db')
  BY DeletionIsOne, SameDeletion
<1>2. LP!IInv'
  BY <1>1, LP!DeleteStep, LifecycleAssumption, SameFiniteSets DEF TInv
<1>3. tx' = db' /\ writer = NoOne /\ UNCHANGED <<writer, job>>
  BY DEF Delete
<1>4. job' \in [Importers -> Job] /\ \A q \in Importers : job'[q].step \notin Steps \cup {"marking"}
  BY <1>3, NoOneAssumption DEF TInv, TransactionInv
<1> QED BY <1>1, <1>2, <1>3, <1>4, CommittedStep DEF TInv

-----------------------------------------------------------------------------
(* The failures.                                                           *)

\* A rollback, or the end of the process, leaves no transaction behind.
LEMMA RollbackStep ==
    ASSUME TInv, NEW p \in Importers, Rollback(p) \/ EvaluationFails(p)
    PROVE  TInv'
<1>1. /\ writer = p /\ job[p] \in Job /\ tx' = db /\ writer' = NoOne /\ UNCHANGED db
      /\ IsTables(db)
  BY AtStep DEF Rollback, EvaluationFails, Steps
<1>2. PICK k \in Job : job' = [job EXCEPT ![p] = k] /\ k.step \in {"idle", "rolledback"}
  <2>1. CASE Rollback(p)
    <3>1. Idle \in Job /\ Idle.step = "idle"
      BY DEF Job, Idle
    <3> HIDE DEF Idle
    <3> QED BY <2>1, <3>1 DEF Rollback
  <2>2. CASE EvaluationFails(p)
    <3>1. job[p].run \in Nat
      BY <1>1, <2>2 DEF EvaluationFails, Job, Idle
    <3> DEFINE k == [step |-> "rolledback", run |-> job[p].run]
    <3>2. k \in Job /\ k.step = "rolledback"
      BY <3>1 DEF Job
    <3>3. job' = [job EXCEPT ![p] = k]
      BY <2>2 DEF EvaluationFails
    <3> HIDE DEF k
    <3> QED BY <3>2, <3>3
  <2> QED BY <2>1, <2>2
<1>3. job'[p] = k
  BY <1>2, AtStep
<1> QED BY <1>1, <1>2, <1>3, WriterStep DEF Steps

\* The run it marks, if any, is another import's, but in its own transaction.
LEMMA MarkStep ==
    ASSUME TInv, NEW p \in Importers, MarkFailed(p)
    PROVE  TInv'
<1> DEFINE r == job[p].run
           k == [step |-> "marking"]
<1>1. /\ writer = NoOne /\ writer' = p /\ UNCHANGED db /\ job' = [job EXCEPT ![p] = k]
      /\ tx' = IF r \in DOMAIN db.run THEN [db EXCEPT !.run[r].status = "failed"] ELSE db
  BY DEF MarkFailed
<1>2. DOMAIN db = TableNames /\ IsTables(db)
  BY AtStep DEF IsTables
<1>3. IsTables(tx') /\ Marking(tx')
  <2>1. CASE r \in DOMAIN db.run
    <3>1. tx' = [db EXCEPT !.run[r].status = "failed"]
      BY <1>1, <2>1
    <3>2. tx' = [y \in TableNames |-> tx'[y]]
      BY <1>2, <3>1
    <3>3. tx'.run = [db.run EXCEPT ![r].status = "failed"]
      BY <1>2, <3>1 DEF TableNames
    <3>4. tx'.observation = db.observation /\ tx'.finding = db.finding
      BY <1>2, <3>1 DEF TableNames
    <3> QED BY <3>2, <3>3, <3>4 DEF IsTables, Marking
  <2>2. CASE r \notin DOMAIN db.run
    BY <1>1, <1>2, <2>2 DEF Marking
  <2> QED BY <2>1, <2>2
<1>4. job'[p] = k
  BY <1>1, AtStep
<1>5. k \in Job /\ k.step = "marking"
  BY DEF Job
<1>6. Progress(tx', k)
  BY <1>3, <1>5 DEF Progress, Steps
<1> HIDE DEF k
<1> QED BY <1>1, <1>3, <1>4, <1>5, <1>6, WriterStep

\* What the failed call has left open is rolled back: nothing is committed.
LEMMA AbandonStep ==
    ASSUME TInv, NEW p \in Importers, Abandon(p)
    PROVE  TInv'
<1>1. /\ writer = p /\ tx' = db /\ db' = db /\ writer' = NoOne /\ job' = [job EXCEPT ![p] = Idle]
      /\ IsTables(db)
  BY AtStep DEF Abandon, Abandoned
<1>2. job'[p] = Idle /\ Idle \in Job /\ Idle.step = "idle"
  BY <1>1, AtStep DEF Job, Idle
<1> HIDE DEF Idle
<1> QED BY <1>1, <1>2, WriterStep DEF Steps

\* A connection that never gets to mark its run gives up, whoever writes.
LEMMA MarkingFailsStep ==
    ASSUME TInv, NEW p \in Importers, MarkingFails(p)
    PROVE  TInv'
<1>1. /\ job[p].step = "rolledback" /\ job' = [job EXCEPT ![p] = Idle] /\ UNCHANGED <<db, tx, writer>>
      /\ writer # p
  BY AtStep DEF MarkingFails, Steps
<1>2. LP!IInv' /\ \A t, j : Progress(t, j)' <=> Progress(t, j)
  BY <1>1, DbKept DEF TInv
<1>3. Idle \in Job /\ Idle.step = "idle"
  BY DEF Job, Idle
<1>4. job' \in [Importers -> Job] /\ job'[p] = Idle /\ \A q \in Importers : q = p \/ job'[q] = job[q]
  BY <1>1, <1>3, AtStep
<1>5. \A q \in Importers : job'[q].step \in Steps \cup {"marking"} <=> writer' = q
  BY <1>1, <1>3, <1>4 DEF TInv, TransactionInv, Steps
<1>6. ASSUME NEW q \in Importers, writer' = q
      PROVE  Progress(tx, job[q])'
  <2>1. q # p /\ Progress(tx, job[q]) /\ job'[q] = job[q] /\ tx' = tx
    BY <1>1, <1>4, <1>6 DEF TInv, TransactionInv
  <2>2. Progress(tx', job'[q])
    BY <2>1
  <2> QED BY <1>2, <2>2
<1>7. IsTables(db)' /\ IsTables(tx)' /\ (writer' = NoOne => tx' = db')
  BY <1>1 DEF TInv, TransactionInv, IsTables
<1> QED BY <1>1, <1>2, <1>4, <1>5, <1>6, <1>7 DEF TInv, TransactionInv

-----------------------------------------------------------------------------

\* A fresh store, or one from before runs were recorded.
LEMMA InitTInv ==
    ASSUME ImportInit
    PROVE  TInv /\ Lifecycle!Init
<1>1. PICK n \in 0 .. OldSnapshots :
        db = [snapshot |-> [s \in 1 .. n |-> [collected |-> Gpos, gaps |-> FALSE]],
              run |-> Empty, finding |-> Empty, observation |-> {}, openAfter |-> Empty,
              nextSnapshot |-> n + 1, nextRun |-> 1, nextFinding |-> 1]
  BY DEF ImportInit
<1>2. IsTables(db)
  BY <1>1 DEF IsTables, TableNames
<1>3. /\ db.snapshot = [s \in 1 .. n |-> [collected |-> Gpos, gaps |-> FALSE]]
      /\ db.run = Empty /\ db.finding = Empty /\ db.openAfter = Empty /\ db.observation = {}
      /\ db.nextSnapshot = n + 1 /\ db.nextRun = 1 /\ db.nextFinding = 1
  BY <1>1
<1>4. db.snapshot \in [1 .. n -> [collected : {Gpos}, gaps : {FALSE}]]
  BY <1>3
<1>5. Lifecycle!Init
  BY <1>3, <1>4 DEF Lifecycle!Init, Lifecycle!NULL, Empty
<1>6. LP!Init
  BY <1>3, <1>4 DEF LP!Init, LP!NULL, Empty
<1>7. LP!IInv
  BY <1>6, LP!InitIInv, LifecycleAssumption, SameFiniteSets
<1>8. Idle \in Job /\ Idle.step = "idle"
  BY DEF Job, Idle
<1>9. tx = db /\ writer = NoOne /\ job = [p \in Importers |-> Idle]
  BY DEF ImportInit
<1>10. TransactionInv
  <2> HIDE DEF Idle
  <2> QED BY <1>2, <1>8, <1>9, NoOneAssumption DEF TransactionInv, Steps
<1> QED BY <1>5, <1>7, <1>10 DEF TInv

\* Every statement, failure and deletion keeps the invariant.
LEMMA NextTInv ==
    ASSUME TInv, [ImportNext]_importVars
    PROVE  TInv'
<1>1. ASSUME NEW s \in DOMAIN db.snapshot, Delete(s)
      PROVE  TInv'
  BY <1>1, DeletionStep
<1>2. ASSUME NEW p \in Importers, NEW estate \in Lifecycle!Estate,
             NEW candidates \in SUBSET Fingerprints, NEW duplicates \in BOOLEAN,
             Begin(p, estate, candidates, duplicates)
      PROVE  TInv'
  BY <1>2, BeginStep
<1>3. ASSUME NEW p \in Importers,
             SaveEstate(p) \/ CreateRun(p) \/ EvaluateCandidate(p) \/ ResolveAbsent(p)
      PROVE  TInv'
  BY <1>3, SaveEstateStep, CreateRunStep, CandidateStep, ResolveStep
<1>4. ASSUME NEW p \in Importers, CompleteRun(p) \/ Commit(p)
      PROVE  TInv'
  BY <1>4, CompleteStep, CommitStep
<1>5. ASSUME NEW p \in Importers,
             Rollback(p) \/ EvaluationFails(p) \/ MarkFailed(p) \/ MarkingFails(p) \/ Abandon(p)
      PROVE  TInv'
  BY <1>5, RollbackStep, MarkStep, MarkingFailsStep, AbandonStep
<1>6. CASE UNCHANGED importVars
  <2>1. db' = db /\ tx' = tx /\ writer' = writer /\ job' = job
    BY <1>6 DEF importVars
  <2>2. LP!IInv' /\ \A t, j : Progress(t, j)' <=> Progress(t, j)
    BY <2>1, DbKept DEF TInv
  <2>3. \A p \in Importers : writer' = p => Progress(tx, job[p])'
    <3> TAKE p \in Importers
    <3>1. writer' = p => Progress(tx', job'[p])
      BY <2>1 DEF TInv, TransactionInv
    <3> QED BY <2>2, <3>1
  <2>4. IsTables(db)' /\ IsTables(tx)'
    BY <2>1 DEF TInv, TransactionInv, IsTables
  <2> QED BY <2>1, <2>2, <2>3, <2>4 DEF TInv, TransactionInv
<1> QED BY <1>1, <1>2, <1>3, <1>4, <1>5, <1>6 DEF ImportNext

\* The invariant of the transactions is inductive.
THEOREM TransactionInvariance == ImportSpec => []TInv
<1>1. ImportInit => TInv
  BY InitTInv
<1>2. TInv /\ [ImportNext]_importVars => TInv'
  BY NextTInv
<1> QED BY <1>1, <1>2, PTL DEF ImportSpec

\* The committed tables are typed and their keys hold, only the writer sees
\* anything else, and what it sees dangles nowhere either.
THEOREM ImportTypeCorrect == ImportSpec => []ImportTypeOK
<1>1. TInv => ImportTypeOK
  <2> SUFFICES ASSUME TInv PROVE ImportTypeOK
    OBVIOUS
  <2>1. Lifecycle!TypeOK
    BY SameRows DEF TInv, LP!IInv
  <2>2. \A p \in Importers :
          /\ job[p].step \in Steps \cup {"idle", "rolledback", "marking"}
          /\ job[p].step \in Steps \cup {"marking"} <=> writer = p
    BY DEF TInv, TransactionInv, Job, Idle, Steps
  <2>3. db.observation \subseteq (DOMAIN db.run) \X (DOMAIN db.finding)
    BY <2>1 DEF Lifecycle!TypeOK
  <2>4. ASSUME NEW done, NEW resolved, NEW status, WithRun(tx, status), Written(tx, done, resolved)
        PROVE  tx.observation \subseteq (DOMAIN tx.run) \X (DOMAIN tx.finding)
    <3>1. /\ DOMAIN tx.run = DOMAIN db.run \cup {db.nextRun}
          /\ DOMAIN tx.finding = DOMAIN db.finding \cup NewIds(tx)
          /\ tx.observation =
                db.observation \cup ({db.nextRun} \X (Lifecycle!Persisting(done) \cup NewIds(tx)))
      BY <2>4 DEF WithRun, Written
    <3>2. Lifecycle!Persisting(done) \subseteq DOMAIN db.finding
      BY DEF Lifecycle!Persisting, Lifecycle!ActiveFindings
    <3> QED BY <2>3, <3>1, <3>2
  <2>5. tx.observation \subseteq (DOMAIN tx.run) \X (DOMAIN tx.finding)
    <3>1. CASE writer = NoOne
      BY <2>3, <3>1 DEF TInv, TransactionInv
    <3>2. CASE writer \in Importers
      <4> DEFINE j == job[writer]
      <4>1. Progress(tx, j) /\ j.step \in Steps \cup {"marking"}
        BY <3>2 DEF TInv, TransactionInv
      <4>2. CASE j.step \in {"begun", "saved", "marking"}
        BY <2>3, <4>1, <4>2 DEF Progress, Saved, Marking, TableNames
      <4>3. CASE j.step = "evaluating"
        BY <2>4, <4>1, <4>3 DEF Progress, Evaluating
      <4>4. CASE j.step = "evaluated"
        BY <2>4, <4>1, <4>4 DEF Progress, Evaluated
      <4> QED BY <4>1, <4>2, <4>3, <4>4 DEF Steps
    <3> QED BY <3>1, <3>2 DEF TInv, TransactionInv
  <2> QED BY <2>1, <2>2, <2>5 DEF ImportTypeOK, TInv, TransactionInv
<1> QED BY <1>1, TransactionInvariance, PTL

\* No committed run is ever marked as failed.
THEOREM NobodyMarked == ImportSpec => []FailureMarksNobody
<1>1. TInv => FailureMarksNobody
  BY DEF TInv, LP!IInv, LP!TypeOK, LP!Run, LP!RunStatus, FailureMarksNobody
<1> QED BY <1>1, TransactionInvariance, PTL

\* Statement by statement, beside other connections and with any failure, the
\* committed tables still behave as FindingLifecycle says.
THEOREM Atomic == ImportSpec => ImportsAreAtomic
<1> DEFINE tables == <<db.snapshot, db.run, db.finding, db.observation,
                       db.nextSnapshot, db.nextRun, db.nextFinding, db.openAfter>>
<1>1. ImportInit => Lifecycle!Init
  BY InitTInv
<1>2. TInv /\ [ImportNext]_importVars => [Lifecycle!Next]_tables
  <2> SUFFICES ASSUME TInv, [ImportNext]_importVars
               PROVE  Lifecycle!Next \/ UNCHANGED tables
    OBVIOUS
  <2>1. ASSUME NEW s \in DOMAIN db.snapshot, Delete(s)
        PROVE  Lifecycle!Next
    <3>1. Lifecycle!DeleteSnapshot(s)
      BY <2>1, DeletionIsOne
    <3> QED BY <3>1 DEF Lifecycle!Next, Lifecycle!Delete
  <2>2. ASSUME NEW p \in Importers, Commit(p)
        PROVE  Lifecycle!Next
    BY <2>2, CommitImports DEF Lifecycle!Next, Lifecycle!Import
  <2>3. ASSUME UNCHANGED db
        PROVE  UNCHANGED tables
    BY <2>3
  <2>4. CASE ImportNext
    BY <2>1, <2>2, <2>3, <2>4
       DEF ImportNext, Begin, SaveEstate, CreateRun, EvaluateCandidate, ResolveAbsent,
           CompleteRun, Rollback, EvaluationFails, MarkFailed, MarkingFails, Abandon, Abandoned
  <2>5. CASE UNCHANGED importVars
    BY <2>3, <2>5 DEF importVars
  <2> QED BY <2>4, <2>5
<1>3. UNCHANGED tables <=> UNCHANGED Lifecycle!vars
  BY DEF Lifecycle!vars
<1>4. TInv /\ [ImportNext]_importVars => [Lifecycle!Next]_(Lifecycle!vars)
  BY <1>2, <1>3
<1> QED BY <1>1, <1>4, TransactionInvariance, PTL DEF ImportSpec, ImportsAreAtomic, Lifecycle!Spec

=============================================================================
