----------------------- MODULE FindingLifecycleProofs -----------------------
(***************************************************************************)
(* Proofs about FindingLifecycle, for any fingerprints, GPOs and bounds.   *)
(*                                                                         *)
(* The inductive invariant IInv strengthens the properties with the order  *)
(* of an occurrence's run ids and with the fact that a resolution always   *)
(* writes resolved_run_id, the column no deletion clears.                  *)
(***************************************************************************)
EXTENDS FindingLifecycle, FiniteSetTheorems, WellFoundedInduction, TLAPS

\* An occurrence is first seen, last seen and resolved in that order, by runs
\* that have been allocated.
RunsOrdered ==
    \A i \in DOMAIN finding :
        /\ finding[i].firstRun =< finding[i].lastRun
        /\ finding[i].lastRun < nextRun
        /\ finding[i].resolvedRun < nextRun
        /\ finding[i].resolvedRun # NULL => finding[i].lastRun < finding[i].resolvedRun

\* A resolution is recorded in the column that has no foreign key.
ResolvedHasRun ==
    \A i \in DOMAIN finding :
        finding[i].resolvedSnapshot # NULL => finding[i].resolvedRun # NULL

IInv ==
    /\ TypeOK
    /\ RunsOrdered
    /\ ResolvedHasRun
    /\ AtMostOneOpen
    /\ PredecessorsFormChains

-----------------------------------------------------------------------------

\* A bounded, non-empty set of naturals has a largest element.
LEMMA BoundedSetHasMax ==
    ASSUME NEW T, T \subseteq Nat, T # {}, NEW n \in Nat, \A t \in T : t =< n
    PROVE  \E m \in T : \A t \in T : t =< m
<1> DEFINE Below == {n - t : t \in T}
<1>1. Below \subseteq Nat /\ Below # {}
  <2>1. \A t \in T : n - t \in Nat
    OBVIOUS
  <2>2. PICK t \in T : TRUE
    OBVIOUS
  <2>3. n - t \in Below
    OBVIOUS
  <2> QED BY <2>1, <2>3
<1>2. PICK x \in Below : \A y \in Below : ~ (<<y, x>> \in OpToRel(<, Nat))
  <2> HIDE DEF Below
  <2> QED BY <1>1, NatLessThanWellFounded, WFMin
<1>3. \A y \in Below : ~ (y < x)
  BY <1>1, <1>2 DEF OpToRel
<1>4. PICK m \in T : x = n - m
  OBVIOUS
<1>5. \A t \in T : t =< m
  <2> TAKE t \in T
  <2>1. n - t \in Below
    OBVIOUS
  <2>2. ~ (n - t < n - m)
    BY <2>1, <1>3, <1>4
  <2> QED BY <2>2
<1> QED BY <1>5

\* What the SELECT for a predecessor returns: no row, if no occurrence of the
\* key is resolved, and otherwise the one resolved last.
LEMMA LatestResolvedIsLatest ==
    ASSUME IInv, NEW key
    PROVE  LET p == LatestResolved(key)
           IN \/ /\ p = NULL
                 /\ \A j \in DOMAIN finding : finding[j].key = key => Unresolved(j)
              \/ /\ p \in DOMAIN finding
                 /\ finding[p].key = key
                 /\ ~Unresolved(p)
                 /\ \A j \in DOMAIN finding : finding[j].key = key /\ ~Unresolved(j)
                        => finding[j].resolvedRun =< finding[p].resolvedRun
<1> DEFINE C == {i \in DOMAIN finding : finding[i].key = key /\ ~Unresolved(i)}
           Late(i) == \A j \in C : finding[j].resolvedRun =< finding[i].resolvedRun
<1>1. CASE C = {}
  BY <1>1 DEF LatestResolved
<1>2. CASE C # {}
  <2> DEFINE T == {finding[i].resolvedRun : i \in C}
  <2>1. T \subseteq Nat /\ T # {} /\ nextRun \in Nat /\ \A t \in T : t =< nextRun
    BY <1>2 DEF IInv, TypeOK, RunsOrdered, Finding
  <2>2. PICK m \in T : \A t \in T : t =< m
    <3> HIDE DEF T
    <3> QED BY <2>1, BoundedSetHasMax
  <2>3. \E i \in C : Late(i)
    <3>1. PICK i \in C : m = finding[i].resolvedRun
      OBVIOUS
    <3> QED BY <3>1, <2>2
  <2>4. LatestResolved(key) = CHOOSE i \in C : Late(i)
    BY <1>2 DEF LatestResolved
  <2>5. LatestResolved(key) \in C /\ Late(LatestResolved(key))
    <3> HIDE DEF C, Late
    <3> QED BY <2>3, <2>4
  <2> QED BY <2>5
<1> QED BY <1>1, <1>2

-----------------------------------------------------------------------------

\* The new rows of an import get ids no row has.
LEMMA FreshIds ==
    ASSUME IInv, NEW fresh \in SUBSET Fingerprints, NEW n, n = Cardinality(fresh)
    PROVE  LET newIds == nextFinding .. nextFinding + n - 1
           IN /\ n \in Nat
              /\ newIds \subseteq Nat \ {0}
              /\ newIds \cap DOMAIN finding = {}
              /\ DOMAIN finding \cup newIds \subseteq 1 .. nextFinding + n - 1
<1>1. n \in Nat
  BY FingerprintsAssumption, FS_Subset, FS_CardinalityType
<1>2. nextFinding \in Nat \ {0} /\ DOMAIN finding \subseteq 1 .. nextFinding - 1
  BY DEF IInv, TypeOK
<1> QED BY <1>1, <1>2

\* What an import does to the rows, newIds being those it inserts.
Imported(estate, candidates, duplicates, newIds) ==
    /\ snapshot' = [x \in DOMAIN snapshot \cup {nextSnapshot} |->
                       IF x = nextSnapshot THEN estate ELSE snapshot[x]]
    /\ run' = [x \in DOMAIN run \cup {nextRun} |->
                  IF x = nextRun
                  THEN [snapshot |-> nextSnapshot, status |-> StatusOf(duplicates)] ELSE run[x]]
    /\ observation' = observation \cup ({nextRun} \X (Persisting(candidates) \cup newIds))
    /\ openAfter' = [x \in DOMAIN run \cup {nextRun} |->
                        IF x = nextRun
                        THEN (ActiveFindings \ Resolving(candidates, StatusOf(duplicates), estate))
                             \cup newIds
                        ELSE openAfter[x]]
    /\ nextSnapshot' = nextSnapshot + 1 /\ nextRun' = nextRun + 1
    /\ nextFinding' \in Nat \ {0} /\ nextFinding' >= nextFinding
    /\ newIds \subseteq nextFinding .. nextFinding' - 1
    /\ newIds \cap DOMAIN finding = {}
    /\ DOMAIN finding' = DOMAIN finding \cup newIds
    /\ finding' = [i \in DOMAIN finding' |-> finding'[i]]
    /\ \A i, j \in newIds : finding'[i].key = finding'[j].key => i = j
    /\ \A i \in newIds :
          /\ finding'[i] = NewFinding(finding'[i].key, nextRun, nextSnapshot)
          /\ finding'[i].key \in candidates \ ActiveKeys
    /\ \A i \in DOMAIN finding :
          finding'[i] = AfterEvaluation(i, Persisting(candidates),
                            Resolving(candidates, StatusOf(duplicates), estate),
                            nextRun, nextSnapshot)

LEMMA ImportEffect ==
    ASSUME IInv, NEW estate \in Estate, NEW candidates \in SUBSET Fingerprints,
           NEW duplicates \in BOOLEAN, SaveEvaluatedEstate(estate, candidates, duplicates)
    PROVE  \E newIds \in SUBSET (Nat \ {0}) : Imported(estate, candidates, duplicates, newIds)
<1> DEFINE r == nextRun
           s == nextSnapshot
           fresh == candidates \ ActiveKeys
           n == Cardinality(fresh)
           newIds == nextFinding .. nextFinding + n - 1
           persisting == Persisting(candidates)
           resolving == Resolving(candidates, StatusOf(duplicates), estate)
           OldRow(i) == AfterEvaluation(i, persisting, resolving, r, s)
<1>1. PICK keyOf \in [newIds -> fresh] :
        /\ \A i, j \in newIds : i # j => keyOf[i] # keyOf[j]
        /\ run' = [x \in DOMAIN run \cup {r} |->
                      IF x = r THEN [snapshot |-> s, status |-> StatusOf(duplicates)]
                      ELSE run[x]]
        /\ finding' = [i \in DOMAIN finding \cup newIds |->
                          IF i \in newIds THEN NewFinding(keyOf[i], r, s) ELSE OldRow(i)]
        /\ observation' = observation \cup ({r} \X (persisting \cup newIds))
        /\ nextFinding' = nextFinding + n
        /\ openAfter' = [x \in DOMAIN run \cup {r} |->
                            IF x = r THEN (ActiveFindings \ resolving) \cup newIds
                            ELSE openAfter[x]]
  BY DEF SaveEvaluatedEstate, RunEvaluation
<1>2. /\ snapshot' = [x \in DOMAIN snapshot \cup {s} |->
                         IF x = s THEN estate ELSE snapshot[x]]
      /\ nextSnapshot' = s + 1
      /\ nextRun' = r + 1
  BY DEF SaveEvaluatedEstate
<1>3. /\ n \in Nat
      /\ newIds \subseteq Nat \ {0}
      /\ newIds \cap DOMAIN finding = {}
  <2>1. fresh \in SUBSET Fingerprints
    OBVIOUS
  <2> QED BY <2>1, FreshIds
<1> HIDE DEF n
<1>4. nextFinding' \in Nat \ {0} /\ nextFinding' >= nextFinding
      /\ newIds \subseteq nextFinding .. nextFinding' - 1
  BY <1>1, <1>3 DEF IInv, TypeOK
<1>5. DOMAIN finding' = DOMAIN finding \cup newIds /\ finding' = [i \in DOMAIN finding' |-> finding'[i]]
  BY <1>1
<1>6. \A i \in newIds : /\ finding'[i] = NewFinding(keyOf[i], r, s)
                        /\ finding'[i].key = keyOf[i]
                        /\ keyOf[i] \in fresh
  BY <1>1 DEF NewFinding
<1>7. \A i \in DOMAIN finding : finding'[i] = OldRow(i)
  BY <1>1, <1>3
<1>8. \A i, j \in newIds : finding'[i].key = finding'[j].key => i = j
  <2> HIDE DEF newIds
  <2> QED BY <1>1, <1>6
<1>9. Imported(estate, candidates, duplicates, newIds)
  <2> HIDE DEF newIds
  <2> QED BY <1>1, <1>2, <1>3, <1>4, <1>5, <1>6, <1>7, <1>8 DEF Imported
<1> QED BY <1>3, <1>9

\* What an import sees again and what it resolves were open, and are apart.
LEMMA ImportSets ==
    ASSUME NEW candidates, NEW status, NEW estate
    PROVE  /\ Persisting(candidates) \subseteq ActiveFindings
           /\ Resolving(candidates, status, estate) \subseteq ActiveFindings
           /\ Persisting(candidates) \cap Resolving(candidates, status, estate) = {}
           /\ ActiveFindings \subseteq DOMAIN finding
  BY DEF Persisting, Resolving, ActiveFindings

\* The effect of an import, column by column.
LEMMA ImportRows ==
    ASSUME IInv, NEW estate \in Estate, NEW candidates \in SUBSET Fingerprints,
           NEW duplicates \in BOOLEAN, NEW newIds \in SUBSET (Nat \ {0}),
           Imported(estate, candidates, duplicates, newIds),
           NEW persisting, persisting = Persisting(candidates),
           NEW resolving, resolving = Resolving(candidates, StatusOf(duplicates), estate)
    PROVE  /\ persisting \subseteq ActiveFindings /\ resolving \subseteq ActiveFindings
           /\ persisting \cap resolving = {} /\ ActiveFindings \subseteq DOMAIN finding
           /\ \A i \in newIds :
                 /\ finding'[i].key \in candidates \ ActiveKeys
                 /\ finding'[i].firstRun = nextRun /\ finding'[i].lastRun = nextRun
                 /\ finding'[i].firstSnapshot = nextSnapshot
                 /\ finding'[i].lastSnapshot = nextSnapshot
                 /\ finding'[i].resolvedRun = NULL /\ finding'[i].resolvedSnapshot = NULL
                 /\ finding'[i].predecessor = LatestResolved(finding'[i].key)
           /\ \A i \in DOMAIN finding :
                 /\ finding'[i] \in Finding
                 /\ finding'[i].key = finding[i].key
                 /\ finding'[i].firstRun = finding[i].firstRun
                 /\ finding'[i].firstSnapshot = finding[i].firstSnapshot
                 /\ finding'[i].predecessor = finding[i].predecessor
                 /\ finding'[i].lastRun = IF i \in persisting THEN nextRun ELSE finding[i].lastRun
                 /\ finding'[i].lastSnapshot =
                       IF i \in persisting THEN nextSnapshot ELSE finding[i].lastSnapshot
                 /\ finding'[i].resolvedRun =
                       IF i \in resolving THEN nextRun ELSE finding[i].resolvedRun
                 /\ finding'[i].resolvedSnapshot =
                       IF i \in resolving THEN nextSnapshot ELSE finding[i].resolvedSnapshot
<1>1. nextRun \in Nat \ {0} /\ nextSnapshot \in Nat \ {0}
  BY DEF IInv, TypeOK
<1>2. /\ persisting \subseteq ActiveFindings /\ resolving \subseteq ActiveFindings
      /\ persisting \cap resolving = {} /\ ActiveFindings \subseteq DOMAIN finding
  BY ImportSets
<1>3. ASSUME NEW i \in newIds
      PROVE  /\ finding'[i].key \in candidates \ ActiveKeys
             /\ finding'[i].firstRun = nextRun /\ finding'[i].lastRun = nextRun
             /\ finding'[i].firstSnapshot = nextSnapshot
             /\ finding'[i].lastSnapshot = nextSnapshot
             /\ finding'[i].resolvedRun = NULL /\ finding'[i].resolvedSnapshot = NULL
             /\ finding'[i].predecessor = LatestResolved(finding'[i].key)
  BY DEF Imported, NewFinding
<1>4. ASSUME NEW i \in DOMAIN finding
      PROVE  /\ finding'[i] \in Finding
             /\ finding'[i].key = finding[i].key
             /\ finding'[i].firstRun = finding[i].firstRun
             /\ finding'[i].firstSnapshot = finding[i].firstSnapshot
             /\ finding'[i].predecessor = finding[i].predecessor
             /\ finding'[i].lastRun = IF i \in persisting THEN nextRun ELSE finding[i].lastRun
             /\ finding'[i].lastSnapshot =
                   IF i \in persisting THEN nextSnapshot ELSE finding[i].lastSnapshot
             /\ finding'[i].resolvedRun =
                   IF i \in resolving THEN nextRun ELSE finding[i].resolvedRun
             /\ finding'[i].resolvedSnapshot =
                   IF i \in resolving THEN nextSnapshot ELSE finding[i].resolvedSnapshot
  <2>1. finding'[i] = AfterEvaluation(i, persisting, resolving, nextRun, nextSnapshot)
    BY DEF Imported
  <2>2. finding[i] \in Finding
    BY DEF IInv, TypeOK
  <2> QED BY <1>1, <1>2, <2>1, <2>2 DEF AfterEvaluation, Finding
<1> QED BY <1>2, <1>3, <1>4

THEOREM InitIInv == Init => IInv
<1> SUFFICES ASSUME Init PROVE IInv
  OBVIOUS
<1>1. PICK n \in 0 .. OldSnapshots :
        /\ nextSnapshot = n + 1
        /\ snapshot \in [1 .. n -> [collected : {Gpos}, gaps : {FALSE}]]
  BY DEF Init
<1>2. n \in Nat
  BY BoundsAssumption
<1>3. snapshot \in [DOMAIN snapshot -> Estate] /\ DOMAIN snapshot \subseteq 1 .. nextSnapshot - 1
  <2>1. DOMAIN snapshot = 1 .. n
    BY <1>1
  <2>2. \A s \in 1 .. n : snapshot[s] \in Estate
    BY <1>1 DEF Estate
  <2>3. snapshot = [s \in DOMAIN snapshot |-> snapshot[s]]
    BY <1>1
  <2> QED BY <1>1, <1>2, <2>1, <2>2, <2>3
<1>4. DOMAIN finding = {} /\ DOMAIN run = {} /\ DOMAIN openAfter = {}
  BY DEF Init
<1>5. TypeOK
  BY <1>1, <1>2, <1>3, <1>4 DEF TypeOK, Init
<1>6. RunsOrdered /\ ResolvedHasRun /\ AtMostOneOpen /\ PredecessorsFormChains
  BY <1>4 DEF RunsOrdered, ResolvedHasRun, AtMostOneOpen, ActiveFindings, PredecessorsFormChains
<1> QED BY <1>5, <1>6 DEF IInv

-----------------------------------------------------------------------------

\* An import preserves the invariant.
LEMMA ImportStep ==
    ASSUME IInv, NEW estate \in Estate, NEW candidates \in SUBSET Fingerprints,
           NEW duplicates \in BOOLEAN, SaveEvaluatedEstate(estate, candidates, duplicates)
    PROVE  IInv'
<1> DEFINE r == nextRun
           s == nextSnapshot
           persisting == Persisting(candidates)
           resolving == Resolving(candidates, StatusOf(duplicates), estate)
<1>1. PICK newIds \in SUBSET (Nat \ {0}) : Imported(estate, candidates, duplicates, newIds)
  BY ImportEffect
<1>2. /\ snapshot' = [x \in DOMAIN snapshot \cup {s} |-> IF x = s THEN estate ELSE snapshot[x]]
      /\ run' = [x \in DOMAIN run \cup {r} |->
                    IF x = r THEN [snapshot |-> s, status |-> StatusOf(duplicates)] ELSE run[x]]
      /\ observation' = observation \cup ({r} \X (persisting \cup newIds))
      /\ openAfter' = [x \in DOMAIN run \cup {r} |->
                          IF x = r THEN (ActiveFindings \ resolving) \cup newIds
                          ELSE openAfter[x]]
      /\ nextSnapshot' = s + 1 /\ nextRun' = r + 1
  BY <1>1 DEF Imported
<1>3. /\ nextFinding' \in Nat \ {0} /\ nextFinding' >= nextFinding
      /\ newIds \subseteq nextFinding .. nextFinding' - 1
      /\ newIds \cap DOMAIN finding = {}
      /\ \A i, j \in newIds : finding'[i].key = finding'[j].key => i = j
  BY <1>1 DEF Imported
<1>4. r \in Nat \ {0} /\ s \in Nat \ {0} /\ nextFinding \in Nat \ {0}
  BY DEF IInv, TypeOK
<1>5. finding \in [DOMAIN finding -> Finding]
  BY DEF IInv, TypeOK
<1>6. /\ persisting \subseteq ActiveFindings /\ resolving \subseteq ActiveFindings
      /\ persisting \cap resolving = {} /\ ActiveFindings \subseteq DOMAIN finding
  BY <1>1, ImportRows
<1>7. DOMAIN finding' = DOMAIN finding \cup newIds /\ finding' = [i \in DOMAIN finding' |-> finding'[i]]
  BY <1>1 DEF Imported
<1>8. \A i \in newIds :
        /\ finding'[i].key \in candidates \ ActiveKeys
        /\ finding'[i].firstRun = r /\ finding'[i].lastRun = r
        /\ finding'[i].firstSnapshot = s /\ finding'[i].lastSnapshot = s
        /\ finding'[i].resolvedRun = NULL /\ finding'[i].resolvedSnapshot = NULL
        /\ finding'[i].predecessor = LatestResolved(finding'[i].key)
  BY <1>1, ImportRows
<1>8a. \A i \in newIds : finding'[i] = NewFinding(finding'[i].key, r, s)
  BY <1>1 DEF Imported
<1>9. \A i \in DOMAIN finding :
        /\ finding'[i] \in Finding
        /\ finding'[i].key = finding[i].key
        /\ finding'[i].firstRun = finding[i].firstRun
        /\ finding'[i].firstSnapshot = finding[i].firstSnapshot
        /\ finding'[i].predecessor = finding[i].predecessor
        /\ finding'[i].lastRun = IF i \in persisting THEN r ELSE finding[i].lastRun
        /\ finding'[i].lastSnapshot = IF i \in persisting THEN s ELSE finding[i].lastSnapshot
        /\ finding'[i].resolvedRun = IF i \in resolving THEN r ELSE finding[i].resolvedRun
        /\ finding'[i].resolvedSnapshot =
              IF i \in resolving THEN s ELSE finding[i].resolvedSnapshot
  BY <1>1, ImportRows
<1> HIDE DEF persisting, resolving
<1>10. \A i \in DOMAIN finding : i \in ActiveFindings <=>
          finding[i].resolvedRun = NULL /\ finding[i].resolvedSnapshot = NULL
  BY DEF ActiveFindings, Unresolved
<1>11. \A i \in newIds :
          LET p == finding'[i].predecessor
          IN \/ p = NULL /\ \A j \in DOMAIN finding : finding[j].key = finding'[i].key => Unresolved(j)
             \/ /\ p \in DOMAIN finding
                /\ finding[p].key = finding'[i].key
                /\ ~Unresolved(p)
                /\ \A j \in DOMAIN finding : finding[j].key = finding'[i].key /\ ~Unresolved(j)
                       => finding[j].resolvedRun =< finding[p].resolvedRun
  BY <1>8, LatestResolvedIsLatest
\* Nothing keeps a new id from being taken for an old one but <1>3.
<1>12. TypeOK'
  <2>1. snapshot' \in [DOMAIN snapshot' -> Estate] /\ DOMAIN snapshot' \subseteq 1 .. nextSnapshot' - 1
    BY <1>2, <1>4 DEF IInv, TypeOK
  <2>2. /\ DOMAIN run' \subseteq 1 .. nextRun' - 1
        /\ run' \in [DOMAIN run' -> Run]
        /\ \A q \in DOMAIN run' : run'[q].snapshot \in DOMAIN snapshot'
    BY <1>2, <1>4 DEF IInv, TypeOK, Run, RunStatus, StatusOf
  <2>3. DOMAIN finding' \subseteq 1 .. nextFinding' - 1
    BY <1>3, <1>4, <1>7 DEF IInv, TypeOK
  <2>4. \A i \in newIds : finding'[i] \in Finding
    <3> TAKE i \in newIds
    <3>1. LatestResolved(finding'[i].key) \in Nat
      BY <1>8, <1>11 DEF IInv, TypeOK, NULL
    <3>2. finding'[i].key \in Fingerprints
      BY <1>8
    <3>3. finding'[i] = NewFinding(finding'[i].key, r, s)
      BY <1>8a
    <3> HIDE DEF r, s
    <3> QED BY <1>4, <3>1, <3>2, <3>3 DEF NewFinding, Finding, NULL
  <2>5. finding' \in [DOMAIN finding' -> Finding]
    BY <1>7, <1>9, <2>4
  <2>6. \A i \in DOMAIN finding' :
          /\ {finding'[i].firstSnapshot, finding'[i].lastSnapshot} \subseteq DOMAIN snapshot'
          /\ finding'[i].resolvedSnapshot \in DOMAIN snapshot' \cup {NULL}
          /\ finding'[i].predecessor \in DOMAIN finding' \cup {NULL}
    <3>1. \A i \in newIds :
          /\ {finding'[i].firstSnapshot, finding'[i].lastSnapshot} \subseteq DOMAIN snapshot'
          /\ finding'[i].resolvedSnapshot \in DOMAIN snapshot' \cup {NULL}
          /\ finding'[i].predecessor \in DOMAIN finding' \cup {NULL}
      BY <1>2, <1>7, <1>8, <1>11
    <3>2. \A i \in DOMAIN finding :
          /\ {finding'[i].firstSnapshot, finding'[i].lastSnapshot} \subseteq DOMAIN snapshot'
          /\ finding'[i].resolvedSnapshot \in DOMAIN snapshot' \cup {NULL}
          /\ finding'[i].predecessor \in DOMAIN finding' \cup {NULL}
      <4> TAKE i \in DOMAIN finding
      <4>1. /\ {finding[i].firstSnapshot, finding[i].lastSnapshot} \subseteq DOMAIN snapshot
            /\ finding[i].resolvedSnapshot \in DOMAIN snapshot \cup {NULL}
            /\ finding[i].predecessor \in DOMAIN finding \cup {NULL}
        BY DEF IInv, TypeOK
      <4>2. DOMAIN snapshot' = DOMAIN snapshot \cup {s}
        BY <1>2
      <4> QED BY <1>7, <1>9, <4>1, <4>2
    <3> QED BY <1>7, <3>1, <3>2
  <2>7. observation' \subseteq (DOMAIN run') \X (DOMAIN finding')
    BY <1>2, <1>6, <1>7 DEF IInv, TypeOK
  <2>8. openAfter' \in [DOMAIN run' -> SUBSET Nat]
    <3>1. ActiveFindings \subseteq Nat
      BY <1>6 DEF IInv, TypeOK
    <3> QED BY <1>2, <3>1 DEF IInv, TypeOK
  <2>9. nextSnapshot' \in Nat \ {0} /\ nextRun' \in Nat \ {0} /\ nextFinding' \in Nat \ {0}
    BY <1>2, <1>3, <1>4
  <2> QED BY <2>1, <2>2, <2>3, <2>5, <2>6, <2>7, <2>8, <2>9 DEF TypeOK
<1>13. RunsOrdered'
  <2>1. \A i \in newIds : /\ finding'[i].firstRun =< finding'[i].lastRun
                          /\ finding'[i].lastRun < nextRun'
                          /\ finding'[i].resolvedRun < nextRun'
                          /\ finding'[i].resolvedRun = NULL
    BY <1>2, <1>4, <1>8 DEF NULL
  <2>2. \A i \in DOMAIN finding :
          /\ finding'[i].firstRun =< finding'[i].lastRun
          /\ finding'[i].lastRun < nextRun'
          /\ finding'[i].resolvedRun < nextRun'
          /\ finding'[i].resolvedRun # NULL => finding'[i].lastRun < finding'[i].resolvedRun
    <3> TAKE i \in DOMAIN finding
    <3>1. /\ finding[i] \in Finding
          /\ finding[i].firstRun =< finding[i].lastRun
          /\ finding[i].lastRun < r
          /\ finding[i].resolvedRun < r
          /\ finding[i].resolvedRun # NULL => finding[i].lastRun < finding[i].resolvedRun
      BY <1>5 DEF IInv, RunsOrdered
    <3>2. i \in persisting => finding[i].resolvedRun = NULL /\ i \notin resolving
      BY <1>6, <1>10
    <3> QED BY <1>2, <1>4, <1>9, <3>1, <3>2 DEF Finding, NULL
  <2> QED BY <1>7, <2>1, <2>2 DEF RunsOrdered
<1>14. ResolvedHasRun'
  BY <1>4, <1>7, <1>8, <1>9 DEF IInv, ResolvedHasRun, NULL
<1>15. AtMostOneOpen'
  <2> SUFFICES ASSUME NEW i \in ActiveFindings', NEW j \in ActiveFindings',
                      finding'[i].key = finding'[j].key
               PROVE  i = j
    BY DEF AtMostOneOpen
  <2>1. \A k \in ActiveFindings' : k \in newIds \/ k \in ActiveFindings
    BY <1>4, <1>7, <1>9, <1>10 DEF ActiveFindings, Unresolved, NULL
  <2>2. \A k \in ActiveFindings : finding'[k].key \in ActiveKeys
    BY <1>6, <1>9 DEF ActiveKeys
  <2>3. \A k \in newIds : finding'[k].key \notin ActiveKeys
    BY <1>8
  <2>4. CASE i \in newIds /\ j \in newIds
    BY <1>3, <2>4
  <2>5. CASE i \in ActiveFindings /\ j \in ActiveFindings
    BY <1>6, <1>9, <2>5 DEF IInv, AtMostOneOpen
  <2> QED BY <2>1, <2>2, <2>3, <2>4, <2>5
<1>16. PredecessorsFormChains'
  <2>1. \A p \in DOMAIN finding : ~Unresolved(p) =>
          /\ finding[p].resolvedRun # NULL
          /\ finding'[p].key = finding[p].key
          /\ finding'[p].firstRun = finding[p].firstRun
          /\ finding'[p].lastRun = finding[p].lastRun
          /\ finding'[p].resolvedRun = finding[p].resolvedRun
          /\ finding[p].firstRun =< finding[p].lastRun
          /\ finding[p].lastRun < finding[p].resolvedRun
          /\ finding[p].resolvedRun < r
    BY <1>6, <1>9, <1>10 DEF IInv, RunsOrdered, ResolvedHasRun, Unresolved
  <2>2. \A i \in DOMAIN finding : finding[i].predecessor # NULL =>
          LET p == finding[i].predecessor
          IN /\ p \in DOMAIN finding
             /\ ~Unresolved(p)
             /\ finding[p].key = finding[i].key
             /\ finding[p].lastRun < finding[p].resolvedRun
             /\ finding[p].resolvedRun < finding[i].firstRun
    <3> SUFFICES ASSUME NEW i \in DOMAIN finding, finding[i].predecessor # NULL
                 PROVE  LET p == finding[i].predecessor
                        IN /\ p \in DOMAIN finding
                           /\ ~Unresolved(p)
                           /\ finding[p].key = finding[i].key
                           /\ finding[p].lastRun < finding[p].resolvedRun
                           /\ finding[p].resolvedRun < finding[i].firstRun
      OBVIOUS
    <3> DEFINE p == finding[i].predecessor
    <3>1. p \in DOMAIN finding
      BY DEF IInv, TypeOK
    <3>2. /\ finding[p].key = finding[i].key
          /\ finding[p].lastRun < finding[p].resolvedRun
          /\ finding[p].resolvedRun < finding[i].firstRun
      BY DEF IInv, PredecessorsFormChains
    <3>3. finding[p].lastRun \in Nat \ {0} /\ finding[p].resolvedRun \in Nat
      BY <1>5, <3>1 DEF Finding
    <3> QED BY <3>1, <3>2, <3>3 DEF Unresolved, NULL
  <2>3. \A i \in newIds : finding'[i].predecessor # NULL =>
          LET p == finding'[i].predecessor
          IN /\ p \in DOMAIN finding
             /\ ~Unresolved(p)
             /\ finding[p].key = finding'[i].key
             /\ finding[p].resolvedRun < finding'[i].firstRun
             /\ \A j \in DOMAIN finding : finding[j].key = finding'[i].key /\ ~Unresolved(j)
                       => finding[j].resolvedRun =< finding[p].resolvedRun
    BY <1>8, <1>11, <2>1
  <2>4. ASSUME NEW i \in DOMAIN finding', finding'[i].predecessor # NULL
        PROVE  LET p == finding'[finding'[i].predecessor]
               IN /\ p.key = finding'[i].key
                  /\ p.lastRun < p.resolvedRun
                  /\ p.resolvedRun < finding'[i].firstRun
    <3>1. CASE i \in newIds
      BY <3>1, <2>1, <2>3, <2>4
    <3>2. CASE i \in DOMAIN finding
      BY <3>2, <1>9, <2>1, <2>2, <2>4
    <3> QED BY <1>7, <3>1, <3>2
  <2>5. ASSUME NEW i \in newIds, NEW j \in DOMAIN finding,
               finding'[i].predecessor = finding[j].predecessor, finding[j].predecessor # NULL
        PROVE  FALSE
    <3> DEFINE p == finding[j].predecessor
    <3>1. /\ p \in DOMAIN finding /\ finding[p].key = finding[j].key
          /\ finding[p].resolvedRun < finding[j].firstRun
      BY <2>2, <2>5
    <3>2. finding[j].key = finding'[i].key
      BY <2>3, <2>5, <3>1
    <3>3. ~Unresolved(j)
      BY <1>8, <3>2 DEF ActiveKeys, ActiveFindings
    <3>4. finding[j].resolvedRun =< finding[p].resolvedRun
      BY <2>3, <2>5, <3>2, <3>3
    <3>5. finding[j].firstRun < finding[j].resolvedRun
      <4>1. finding[j] \in Finding
        BY <1>5
      <4> QED BY <2>1, <3>3, <4>1 DEF Finding
    <3>6. finding[j].firstRun \in Nat /\ finding[j].resolvedRun \in Nat /\ finding[p].resolvedRun \in Nat
      BY <1>5, <3>1 DEF Finding
    <3> QED BY <3>1, <3>4, <3>5, <3>6
  <2>6. ASSUME NEW i \in DOMAIN finding', NEW j \in DOMAIN finding',
               finding'[i].predecessor = finding'[j].predecessor, finding'[i].predecessor # NULL
        PROVE  i = j
    <3>1. CASE i \in newIds /\ j \in newIds
      <4>1. finding'[i].key = finding'[j].key
        BY <2>3, <2>6, <3>1
      <4> QED BY <1>8, <1>3, <3>1, <4>1
    <3>2. CASE i \in newIds /\ j \in DOMAIN finding
      BY <1>9, <2>5, <2>6, <3>2
    <3>3. CASE i \in DOMAIN finding /\ j \in newIds
      BY <1>9, <2>5, <2>6, <3>3
    <3>4. CASE i \in DOMAIN finding /\ j \in DOMAIN finding
      BY <1>9, <2>6, <3>4 DEF IInv, PredecessorsFormChains
    <3> QED BY <1>7, <3>1, <3>2, <3>3, <3>4
  <2> QED BY <2>4, <2>6 DEF PredecessorsFormChains
<1> QED BY <1>12, <1>13, <1>14, <1>15, <1>16 DEF IInv

-----------------------------------------------------------------------------

\* What a deletion leaves of the rows, column by column.
LEMMA DeleteRows ==
    ASSUME IInv, NEW s, DeleteSnapshot(s), NEW Left, Left = SurvivingFindings(s)
    PROVE  /\ Left \subseteq DOMAIN finding /\ DOMAIN finding' = Left
           /\ \A i \in Left :
                 /\ finding'[i] \in Finding
                 /\ finding'[i].key = finding[i].key
                 /\ finding'[i].firstSnapshot = finding[i].firstSnapshot
                 /\ finding'[i].lastSnapshot = finding[i].lastSnapshot
                 /\ finding'[i].firstRun = finding[i].firstRun
                 /\ finding'[i].lastRun = finding[i].lastRun
                 /\ finding'[i].resolvedRun = finding[i].resolvedRun
                 /\ finding'[i].resolvedSnapshot =
                       IF finding[i].resolvedSnapshot = s THEN NULL ELSE finding[i].resolvedSnapshot
                 /\ finding'[i].predecessor =
                       IF finding[i].predecessor \in Left THEN finding[i].predecessor ELSE NULL
<1>1. finding' = [i \in Left |-> AfterDelete(i, s)]
  BY DEF DeleteSnapshot
<1>2. Left \subseteq DOMAIN finding
  BY DEF SurvivingFindings
<1>3. DOMAIN finding' = Left
  BY <1>1
<1>4. \A i \in Left :
        /\ finding'[i] \in Finding
        /\ finding'[i].key = finding[i].key
        /\ finding'[i].firstSnapshot = finding[i].firstSnapshot
        /\ finding'[i].lastSnapshot = finding[i].lastSnapshot
        /\ finding'[i].firstRun = finding[i].firstRun
        /\ finding'[i].lastRun = finding[i].lastRun
        /\ finding'[i].resolvedRun = finding[i].resolvedRun
        /\ finding'[i].resolvedSnapshot =
              IF finding[i].resolvedSnapshot = s THEN NULL ELSE finding[i].resolvedSnapshot
        /\ finding'[i].predecessor =
              IF finding[i].predecessor \in Left THEN finding[i].predecessor ELSE NULL
  <2> TAKE i \in Left
  <2>1. finding[i] \in Finding
    BY <1>2 DEF IInv, TypeOK
  <2>2. finding'[i] = AfterDelete(i, s)
    BY <1>1
  <2> DEFINE resolvedIn == IF finding[i].resolvedSnapshot = s THEN NULL
                            ELSE finding[i].resolvedSnapshot
             follows == IF finding[i].predecessor \in Left THEN finding[i].predecessor
                        ELSE NULL
  <2>3. finding'[i] = [finding[i] EXCEPT !.resolvedSnapshot = resolvedIn,
                                         !.predecessor = follows]
    BY <2>2 DEF AfterDelete
  <2>4. resolvedIn \in Nat /\ follows \in Nat
    BY <2>1 DEF Finding, NULL
  <2>5. /\ finding'[i] \in Finding
        /\ finding'[i].key = finding[i].key
        /\ finding'[i].firstSnapshot = finding[i].firstSnapshot
        /\ finding'[i].lastSnapshot = finding[i].lastSnapshot
        /\ finding'[i].firstRun = finding[i].firstRun
        /\ finding'[i].lastRun = finding[i].lastRun
        /\ finding'[i].resolvedRun = finding[i].resolvedRun
        /\ finding'[i].resolvedSnapshot = resolvedIn
        /\ finding'[i].predecessor = follows
    <3> HIDE DEF resolvedIn, follows
    <3> QED BY <2>1, <2>3, <2>4 DEF Finding
  <2> QED BY <2>5
<1> QED BY <1>2, <1>3, <1>4

\* A deletion preserves the invariant: a row that survives keeps its own run
\* ids, and loses only links to rows that do not.
LEMMA DeleteStep ==
    ASSUME IInv, NEW s, DeleteSnapshot(s)
    PROVE  IInv'
<1> DEFINE Left == SurvivingFindings(s)
<1>1. /\ s \in DOMAIN snapshot
      /\ snapshot' = [x \in DOMAIN snapshot \ {s} |-> snapshot[x]]
      /\ run' = [r \in SurvivingRuns(s) |-> run[r]]
      /\ finding' = [i \in Left |-> AfterDelete(i, s)]
      /\ observation' = observation \cap (SurvivingRuns(s) \X Left)
      /\ openAfter' = [r \in SurvivingRuns(s) |-> openAfter[r]]
      /\ UNCHANGED <<nextSnapshot, nextRun, nextFinding>>
  BY DEF DeleteSnapshot
<1>2. SurvivingRuns(s) \subseteq DOMAIN run /\ Left \subseteq DOMAIN finding
  BY DEF SurvivingRuns, SurvivingFindings
<1>3. DOMAIN finding' = Left
  BY <1>1
<1>4. \A i \in Left :
        /\ finding'[i] \in Finding
        /\ finding'[i].key = finding[i].key
        /\ finding'[i].firstSnapshot = finding[i].firstSnapshot
        /\ finding'[i].lastSnapshot = finding[i].lastSnapshot
        /\ finding'[i].firstRun = finding[i].firstRun
        /\ finding'[i].lastRun = finding[i].lastRun
        /\ finding'[i].resolvedRun = finding[i].resolvedRun
        /\ finding'[i].resolvedSnapshot =
              IF finding[i].resolvedSnapshot = s THEN NULL ELSE finding[i].resolvedSnapshot
        /\ finding'[i].predecessor =
              IF finding[i].predecessor \in Left THEN finding[i].predecessor ELSE NULL
  BY DeleteRows
<1>5. TypeOK'
  <2>1. snapshot' \in [DOMAIN snapshot' -> Estate] /\ DOMAIN snapshot' \subseteq 1 .. nextSnapshot' - 1
    BY <1>1 DEF IInv, TypeOK
  <2>2. /\ DOMAIN run' \subseteq 1 .. nextRun' - 1
        /\ run' \in [DOMAIN run' -> Run]
        /\ \A r \in DOMAIN run' : run'[r].snapshot \in DOMAIN snapshot'
    BY <1>1, <1>2 DEF IInv, TypeOK, SurvivingRuns
  <2>3. DOMAIN finding' \subseteq 1 .. nextFinding' - 1
    BY <1>1, <1>2, <1>3 DEF IInv, TypeOK
  <2>4. finding' \in [DOMAIN finding' -> Finding]
    BY <1>1, <1>3, <1>4
  <2>5. \A i \in DOMAIN finding' :
          /\ {finding'[i].firstSnapshot, finding'[i].lastSnapshot} \subseteq DOMAIN snapshot'
          /\ finding'[i].resolvedSnapshot \in DOMAIN snapshot' \cup {NULL}
          /\ finding'[i].predecessor \in DOMAIN finding' \cup {NULL}
    <3> TAKE i \in DOMAIN finding'
    <3>1. /\ {finding[i].firstSnapshot, finding[i].lastSnapshot} \subseteq DOMAIN snapshot
          /\ finding[i].resolvedSnapshot \in DOMAIN snapshot \cup {NULL}
      BY <1>2, <1>3 DEF IInv, TypeOK
    <3>2. finding[i].firstSnapshot # s /\ finding[i].lastSnapshot # s
      BY <1>3 DEF SurvivingFindings
    <3>3. DOMAIN snapshot' = DOMAIN snapshot \ {s}
      BY <1>1
    <3> QED BY <1>3, <1>4, <3>1, <3>2, <3>3
  <2>6. observation' \subseteq (DOMAIN run') \X (DOMAIN finding')
    BY <1>1, <1>3
  <2>7. openAfter' \in [DOMAIN run' -> SUBSET Nat]
    BY <1>1, <1>2 DEF IInv, TypeOK
  <2>8. nextSnapshot' \in Nat \ {0} /\ nextRun' \in Nat \ {0} /\ nextFinding' \in Nat \ {0}
    BY <1>1 DEF IInv, TypeOK
  <2> QED BY <2>1, <2>2, <2>3, <2>4, <2>5, <2>6, <2>7, <2>8 DEF TypeOK
<1>6. RunsOrdered'
  BY <1>1, <1>2, <1>3, <1>4 DEF IInv, RunsOrdered
<1>7. ResolvedHasRun'
  BY <1>2, <1>3, <1>4 DEF IInv, ResolvedHasRun
<1>8. AtMostOneOpen'
  <2>1. \A i \in ActiveFindings' : i \in Left /\ i \in ActiveFindings
    BY <1>2, <1>3, <1>4 DEF IInv, ResolvedHasRun, ActiveFindings, Unresolved
  <2> QED BY <1>4, <2>1 DEF IInv, AtMostOneOpen
<1>9. PredecessorsFormChains'
  <2>1. \A i \in Left : finding'[i].predecessor # NULL =>
          finding'[i].predecessor = finding[i].predecessor /\ finding[i].predecessor \in Left
    BY <1>4
  <2> QED BY <1>2, <1>3, <1>4, <2>1 DEF IInv, PredecessorsFormChains
<1> QED BY <1>5, <1>6, <1>7, <1>8, <1>9 DEF IInv

-----------------------------------------------------------------------------

\* The invariant is inductive.
THEOREM Invariance == Spec => []IInv
<1>1. Init => IInv
  BY InitIInv
<1>2. IInv /\ [Next]_vars => IInv'
  <2> SUFFICES ASSUME IInv, [Next]_vars PROVE IInv'
    OBVIOUS
  <2>1. CASE Import
    BY <2>1, ImportStep DEF Import
  <2>2. CASE Delete
    BY <2>2, DeleteStep DEF Delete
  <2>3. CASE UNCHANGED vars
    BY <2>3 DEF vars, IInv, TypeOK, RunsOrdered, ResolvedHasRun, AtMostOneOpen,
               PredecessorsFormChains, ActiveFindings, Unresolved
  <2> QED BY <2>1, <2>2, <2>3 DEF Next
<1> QED BY <1>1, <1>2, PTL DEF Spec

\* The rows always have their types and the declared foreign keys hold.
THEOREM TypeCorrect == Spec => []TypeOK
<1>1. IInv => TypeOK
  BY DEF IInv
<1> QED BY <1>1, Invariance, PTL

\* No sequence of imports and deletions opens two occurrences of a fingerprint.
THEOREM OneOpen == Spec => []AtMostOneOpen
<1>1. IInv => AtMostOneOpen
  BY DEF IInv
<1> QED BY <1>1, Invariance, PTL

\* The occurrences of a fingerprint always form chains in time order.
THEOREM Chains == Spec => []PredecessorsFormChains
<1>1. IInv => PredecessorsFormChains
  BY DEF IInv
<1> QED BY <1>1, Invariance, PTL

\* A resolved occurrence is never reopened, whatever is deleted.
THEOREM Final == Spec => ResolvedIsFinal
<1> DEFINE Left == \A i \in DOMAIN finding \cap DOMAIN finding' :
                      finding[i].resolvedRun # NULL =>
                          /\ finding'[i].resolvedRun = finding[i].resolvedRun
                          /\ finding'[i].lastRun = finding[i].lastRun
<1>1. IInv /\ [Next]_vars => [Left]_vars
  <2> SUFFICES ASSUME IInv, [Next]_vars, NEW i \in DOMAIN finding \cap DOMAIN finding',
                      finding[i].resolvedRun # NULL
               PROVE  /\ finding'[i].resolvedRun = finding[i].resolvedRun
                      /\ finding'[i].lastRun = finding[i].lastRun
    OBVIOUS
  <2>1. finding[i] \in Finding
    BY DEF IInv, TypeOK
  <2>2. ASSUME NEW estate \in Estate, NEW candidates \in SUBSET Fingerprints,
               NEW duplicates \in BOOLEAN,
               SaveEvaluatedEstate(estate, candidates, duplicates)
        PROVE  finding'[i] = finding[i]
    <3>0. PICK newIds \in SUBSET (Nat \ {0}) : Imported(estate, candidates, duplicates, newIds)
      BY <2>2, ImportEffect
    <3>1. finding'[i] = AfterEvaluation(i, Persisting(candidates),
                             Resolving(candidates, StatusOf(duplicates), estate),
                             nextRun, nextSnapshot)
      BY <3>0 DEF Imported
    <3>2. i \notin ActiveFindings
      BY DEF ActiveFindings, Unresolved
    <3> QED BY <3>1, <3>2 DEF AfterEvaluation, Persisting, Resolving
  <2>3. ASSUME NEW s, DeleteSnapshot(s)
        PROVE  /\ finding'[i].resolvedRun = finding[i].resolvedRun
               /\ finding'[i].lastRun = finding[i].lastRun
    <3>1. finding'[i] = AfterDelete(i, s)
      BY <2>3 DEF DeleteSnapshot
    <3> QED BY <2>1, <3>1 DEF AfterDelete, Finding
  <2>4. CASE UNCHANGED vars
    BY <2>4 DEF vars
  <2> QED BY <2>2, <2>3, <2>4 DEF Next, Import, Delete
<1> QED BY <1>1, Invariance, PTL DEF Spec, ResolvedIsFinal

-----------------------------------------------------------------------------
(* What the rows say of the past.  HInv is inductive beside IInv: the      *)
(* references a deletion must not break, why a row was resolved, why it    *)
(* was not, what every complete run accounts for, and that the ids a past  *)
(* run recorded are never given out again.  CompleteDeltaIsTrue follows    *)
(* from what complete runs account for and from the order of the run ids.  *)


\* A complete run has observed every occurrence that had been opened by then,
\* unless the occurrence was resolved, by that run or before it.
CompleteRunsAccount ==
    \A i \in DOMAIN finding, r \in DOMAIN run :
        Complete(r) /\ finding[i].firstRun =< r =>
            \/ <<r, i>> \in observation
            \/ finding[i].resolvedRun \in 1 .. r

\* The findings that were open when a run committed have ids given out by then.
OpenIdsAllocated ==
    \A r \in DOMAIN run : \A i \in openAfter[r] : i < nextFinding

HInv ==
    /\ RunIdsNeverDangle
    /\ ResolutionIsJustified
    /\ NothingGoneStaysOpen
    /\ CompleteRunsAccount
    /\ OpenIdsAllocated
    /\ PastRunsStayTrue

-----------------------------------------------------------------------------
\* New ids lie between the old counter and the new one.
LEMMA Within ==
    ASSUME NEW low \in Nat \ {0}, NEW high \in Nat \ {0}, high >= low,
           NEW ids, ids \subseteq low .. high - 1
    PROVE  /\ high \in Nat /\ low =< high
           /\ \A i \in ids : i \in Nat /\ low =< i /\ i < high
<1>1. \A i \in ids : i \in low .. high - 1
  OBVIOUS
<1>2. \A i \in low .. high - 1 : i \in Nat /\ low =< i /\ i < high
  OBVIOUS
<1> QED BY <1>1, <1>2

\* An import, with the rows it inserts and those it sees again or resolves.
LEMMA ImportHistory ==
    ASSUME IInv, HInv, NEW estate \in Estate, NEW candidates \in SUBSET Fingerprints,
           NEW duplicates \in BOOLEAN, SaveEvaluatedEstate(estate, candidates, duplicates)
    PROVE  HInv'
<1>a. PICK r, s : r = nextRun /\ s = nextSnapshot
  OBVIOUS
<1> DEFINE persisting == Persisting(candidates)
           resolving == Resolving(candidates, StatusOf(duplicates), estate)
<1>1. PICK newIds \in SUBSET (Nat \ {0}) : Imported(estate, candidates, duplicates, newIds)
  BY ImportEffect
<1>2. /\ snapshot' = [x \in DOMAIN snapshot \cup {s} |-> IF x = s THEN estate ELSE snapshot[x]]
      /\ run' = [x \in DOMAIN run \cup {r} |->
                    IF x = r THEN [snapshot |-> s, status |-> StatusOf(duplicates)] ELSE run[x]]
      /\ observation' = observation \cup ({r} \X (persisting \cup newIds))
      /\ openAfter' = [x \in DOMAIN run \cup {r} |->
                          IF x = r THEN (ActiveFindings \ resolving) \cup newIds
                          ELSE openAfter[x]]
      /\ DOMAIN finding' = DOMAIN finding \cup newIds
  BY <1>a, <1>1 DEF Imported
<1>3. /\ nextFinding' \in Nat \ {0} /\ nextFinding' >= nextFinding
      /\ newIds \subseteq nextFinding .. nextFinding' - 1
      /\ newIds \cap DOMAIN finding = {}
  BY <1>1 DEF Imported
<1>4. /\ r \in Nat \ {0} /\ s \in Nat \ {0} /\ nextFinding \in Nat \ {0}
      /\ \A q \in DOMAIN run : q \in Nat \ {0} /\ q < r /\ run[q].snapshot \in DOMAIN snapshot
      /\ s \notin DOMAIN snapshot
      /\ observation \subseteq (DOMAIN run) \X (DOMAIN finding)
      /\ \A i \in DOMAIN finding : finding[i] \in Finding /\ i \in Nat /\ i < nextFinding
  BY <1>a DEF IInv, TypeOK
<1>b. PICK next : next = nextFinding'
  OBVIOUS
<1>4a. /\ next \in Nat /\ nextFinding =< next
       /\ \A i \in newIds : i \in Nat /\ nextFinding =< i /\ i < next
  <2>1. next \in Nat \ {0} /\ next >= nextFinding /\ newIds \subseteq nextFinding .. next - 1
    BY <1>b, <1>3, Zenon
  <2>2. nextFinding \in Nat \ {0}
    BY <1>4, Zenon
  <2> QED BY <2>1, <2>2, Within, Zenon
<1>5. /\ persisting \subseteq ActiveFindings /\ resolving \subseteq ActiveFindings
      /\ persisting \cap resolving = {} /\ ActiveFindings \subseteq DOMAIN finding
  BY ImportSets, Zenon
<1>6. \A i \in newIds :
        /\ finding'[i].key \in candidates
        /\ finding'[i].firstRun = r /\ finding'[i].lastRun = r
        /\ finding'[i].firstSnapshot = s /\ finding'[i].lastSnapshot = s
        /\ finding'[i].resolvedRun = NULL /\ finding'[i].resolvedSnapshot = NULL
  <2>1. \A i \in newIds :
          /\ finding'[i].key \in candidates
          /\ finding'[i].firstRun = nextRun /\ finding'[i].lastRun = nextRun
          /\ finding'[i].firstSnapshot = nextSnapshot /\ finding'[i].lastSnapshot = nextSnapshot
          /\ finding'[i].resolvedRun = NULL /\ finding'[i].resolvedSnapshot = NULL
    BY <1>1, ImportRows
  <2> QED BY <1>a, <2>1
<1>7. \A i \in DOMAIN finding :
        /\ finding'[i].key = finding[i].key
        /\ finding'[i].firstRun = finding[i].firstRun
        /\ finding'[i].firstSnapshot = finding[i].firstSnapshot
        /\ finding'[i].lastRun = IF i \in persisting THEN r ELSE finding[i].lastRun
        /\ finding'[i].lastSnapshot = IF i \in persisting THEN s ELSE finding[i].lastSnapshot
        /\ finding'[i].resolvedRun = IF i \in resolving THEN r ELSE finding[i].resolvedRun
        /\ finding'[i].resolvedSnapshot =
              IF i \in resolving THEN s ELSE finding[i].resolvedSnapshot
  <2>1. \A i \in DOMAIN finding :
          /\ finding'[i].key = finding[i].key
          /\ finding'[i].firstRun = finding[i].firstRun
          /\ finding'[i].firstSnapshot = finding[i].firstSnapshot
          /\ finding'[i].lastRun = IF i \in persisting THEN nextRun ELSE finding[i].lastRun
          /\ finding'[i].lastSnapshot =
                IF i \in persisting THEN nextSnapshot ELSE finding[i].lastSnapshot
          /\ finding'[i].resolvedRun = IF i \in resolving THEN nextRun ELSE finding[i].resolvedRun
          /\ finding'[i].resolvedSnapshot =
                IF i \in resolving THEN nextSnapshot ELSE finding[i].resolvedSnapshot
    BY <1>1, ImportRows
  <2> HIDE DEF persisting, resolving
  <2> QED BY <1>a, <2>1
<1>8. /\ \A i \in persisting : finding[i].key \in candidates
      /\ \A i \in ActiveFindings : finding[i].key \in candidates => i \in persisting
      /\ \A i \in ActiveFindings :
            i \in resolving <=> /\ StatusOf(duplicates) = "completed"
                                /\ finding[i].key \notin candidates
                                /\ AbsenceIsMeaningful(GpoOf[finding[i].key], estate)
  BY DEF Persisting, Resolving
<1>9. \A i \in DOMAIN finding : i \in ActiveFindings <=> finding[i].resolvedRun = NULL
  BY DEF IInv, ResolvedHasRun, ActiveFindings, Unresolved
<1>10. \A i \in DOMAIN finding :
        /\ finding[i].firstRun \in Nat \ {0} /\ finding[i].lastRun \in Nat \ {0}
        /\ finding[i].resolvedRun \in Nat
        /\ finding[i].firstRun =< finding[i].lastRun
        /\ finding[i].lastRun < r /\ finding[i].resolvedRun < r
  BY <1>a, <1>4 DEF IInv, RunsOrdered, Finding
<1> HIDE DEF persisting, resolving
<1>c. r \in Nat /\ \A q \in DOMAIN run : q \in Nat /\ q < r
  BY <1>4, Zenon
\* What was observed, by old runs and by the new one.
<1>11. \A q \in DOMAIN run : \A i : <<q, i>> \in observation' <=> <<q, i>> \in observation
  BY <1>2, <1>4
<1>12. \A i : <<r, i>> \in observation' <=> i \in persisting \cup newIds
  BY <1>2, <1>4
<1>13. /\ DOMAIN run' = DOMAIN run \cup {r}
       /\ run'[r].snapshot = s /\ run'[r].status = StatusOf(duplicates)
       /\ snapshot'[s] = estate
       /\ \A q \in DOMAIN run : run'[q] = run[q] /\ q # r
       /\ \A x \in DOMAIN snapshot : snapshot'[x] = snapshot[x]
  BY <1>2, <1>4
<1>14. \A q \in DOMAIN run : ObservedIn(q)' = ObservedIn(q)
  <2> TAKE q \in DOMAIN run
  <2>1. {j \in DOMAIN finding' : <<q, j>> \in observation'}
          = {j \in DOMAIN finding : <<q, j>> \in observation}
    BY <1>2, <1>4, <1>11
  <2>2. \A j \in {j \in DOMAIN finding : <<q, j>> \in observation} :
          finding'[j].key = finding[j].key
    BY <1>7
  <2> QED BY <2>1, <2>2 DEF ObservedIn
<1>15. ObservedIn(r)' \subseteq candidates
  <2>1. \A j \in persisting \cup newIds : finding'[j].key \in candidates
    BY <1>5, <1>6, <1>7, <1>8
  <2>2. ObservedIn(r)' = {finding'[j].key : j \in {i \in DOMAIN finding' : <<r, i>> \in observation'}}
    BY DEF ObservedIn
  <2> QED BY <1>12, <2>1, <2>2
<1>16. RunIdsNeverDangle'
  <2>1. ASSUME NEW i \in newIds
        PROVE  /\ {finding'[i].firstRun, finding'[i].lastRun} \X {i} \subseteq observation'
               /\ run'[finding'[i].firstRun].snapshot = finding'[i].firstSnapshot
               /\ run'[finding'[i].lastRun].snapshot = finding'[i].lastSnapshot
               /\ \A q \in DOMAIN run' : <<q, i>> \in observation' =>
                     q \in finding'[i].firstRun .. finding'[i].lastRun
    <3>1. <<r, i>> \in observation'
      BY <1>12
    <3>2. \A q \in DOMAIN run : <<q, i>> \notin observation'
      BY <1>3, <1>4, <1>11
    <3>3. /\ finding'[i].firstRun = r /\ finding'[i].lastRun = r
          /\ finding'[i].firstSnapshot = s /\ finding'[i].lastSnapshot = s
      BY <1>6
    <3>4. \A q \in DOMAIN run' : <<q, i>> \in observation' => q = r
      BY <1>13, <3>2
    <3>5. r \in r .. r
      BY <1>c
    <3> QED BY <1>13, <3>1, <3>3, <3>4, <3>5
  <2>2. ASSUME NEW i \in DOMAIN finding
        PROVE  /\ {finding'[i].firstRun, finding'[i].lastRun} \X {i} \subseteq observation'
               /\ run'[finding'[i].firstRun].snapshot = finding'[i].firstSnapshot
               /\ run'[finding'[i].lastRun].snapshot = finding'[i].lastSnapshot
               /\ \A q \in DOMAIN run' : <<q, i>> \in observation' =>
                     q \in finding'[i].firstRun .. finding'[i].lastRun
    <3>1. /\ <<finding[i].firstRun, i>> \in observation /\ <<finding[i].lastRun, i>> \in observation
          /\ run[finding[i].firstRun].snapshot = finding[i].firstSnapshot
          /\ run[finding[i].lastRun].snapshot = finding[i].lastSnapshot
          /\ \A q \in DOMAIN run : <<q, i>> \in observation =>
                q \in finding[i].firstRun .. finding[i].lastRun
      BY DEF HInv, RunIdsNeverDangle
    <3>2. finding[i].firstRun \in DOMAIN run /\ finding[i].lastRun \in DOMAIN run
      BY <1>4, <3>1
    <3>3. <<finding'[i].firstRun, i>> \in observation' /\ <<finding'[i].lastRun, i>> \in observation'
      BY <1>7, <1>11, <1>12, <3>1, <3>2
    <3>4. /\ run'[finding'[i].firstRun].snapshot = finding'[i].firstSnapshot
          /\ run'[finding'[i].lastRun].snapshot = finding'[i].lastSnapshot
      BY <1>7, <1>13, <3>1, <3>2
    <3>5. ASSUME NEW q \in DOMAIN run', <<q, i>> \in observation'
          PROVE  q \in finding'[i].firstRun .. finding'[i].lastRun
      <4>1. CASE q = r
        BY <1>3, <1>4, <1>7, <1>10, <1>12, <3>5, <4>1
      <4>2. CASE q \in DOMAIN run
        BY <1>4, <1>7, <1>10, <1>11, <3>1, <3>5, <4>2
      <4> QED BY <1>13, <4>1, <4>2
    <3> QED BY <3>3, <3>4, <3>5
  <2> QED BY <1>2, <2>1, <2>2 DEF RunIdsNeverDangle
<1>17. ResolutionIsJustified'
  <2> SUFFICES ASSUME NEW i \in DOMAIN finding', finding'[i].resolvedSnapshot # NULL,
                      NEW q, q = finding'[i].resolvedRun
               PROVE  /\ q \in DOMAIN run'
                      /\ run'[q].snapshot = finding'[i].resolvedSnapshot
                      /\ run'[q].status = "completed"
                      /\ finding'[i].key \notin ObservedIn(q)'
                      /\ AbsenceIsMeaningful(GpoOf[finding'[i].key], snapshot'[run'[q].snapshot])
    BY DEF ResolutionIsJustified, ObservedIn, AbsenceIsMeaningful
  <2>1. i \in DOMAIN finding
    BY <1>2, <1>6
  <2>2. CASE i \in resolving
    <3>1. finding'[i].resolvedRun = r /\ finding'[i].resolvedSnapshot = s
      BY <1>7, <2>1, <2>2
    <3>2. /\ StatusOf(duplicates) = "completed" /\ finding[i].key \notin candidates
          /\ AbsenceIsMeaningful(GpoOf[finding[i].key], estate)
      BY <1>5, <1>8, <2>2
    <3> QED BY <1>7, <1>13, <1>15, <2>1, <3>1, <3>2
  <2>3. CASE i \notin resolving
    <3>1. /\ finding'[i].resolvedRun = finding[i].resolvedRun
          /\ finding'[i].resolvedSnapshot = finding[i].resolvedSnapshot
          /\ finding'[i].key = finding[i].key
      BY <1>7, <2>1, <2>3
    <3>2. /\ finding[i].resolvedRun \in DOMAIN run
          /\ run[finding[i].resolvedRun].snapshot = finding[i].resolvedSnapshot
          /\ run[finding[i].resolvedRun].status = "completed"
          /\ finding[i].key \notin ObservedIn(finding[i].resolvedRun)
          /\ AbsenceIsMeaningful(GpoOf[finding[i].key],
                                 snapshot[run[finding[i].resolvedRun].snapshot])
      BY <2>1, <3>1 DEF HInv, ResolutionIsJustified
    <3> QED BY <1>4, <1>13, <1>14, <3>1, <3>2
  <2> QED BY <2>2, <2>3
<1>18. NothingGoneStaysOpen'
  <2> SUFFICES ASSUME NEW i \in ActiveFindings', NEW q \in DOMAIN run',
                      run'[q].status = "completed",
                      AbsenceIsMeaningful(GpoOf[finding'[i].key], snapshot'[run'[q].snapshot])
               PROVE  q =< finding'[i].lastRun
    BY DEF NothingGoneStaysOpen, AbsenceIsMeaningful
  <2>1. CASE i \in newIds
    BY <1>4, <1>6, <1>13, <2>1
  <2>2. CASE i \in DOMAIN finding
    <3>1. i \in ActiveFindings /\ i \notin resolving
      BY <1>4, <1>7, <1>9, <2>2 DEF ActiveFindings, Unresolved, NULL
    <3>2. CASE q = r
      <4>1. i \in persisting
        BY <1>7, <1>8, <1>13, <2>2, <3>1, <3>2
      <4> QED BY <1>4, <1>7, <2>2, <3>2, <4>1
    <3>3. CASE q \in DOMAIN run
      <4>1. q =< finding[i].lastRun
        BY <1>4, <1>7, <1>13, <2>2, <3>1, <3>3 DEF HInv, NothingGoneStaysOpen
      <4> QED BY <1>4, <1>7, <1>10, <2>2, <3>3, <4>1
    <3> QED BY <1>13, <3>2, <3>3
  <2> QED BY <1>2, <2>1, <2>2 DEF ActiveFindings
<1>19. CompleteRunsAccount'
  <2> SUFFICES ASSUME NEW i \in DOMAIN finding', NEW q \in DOMAIN run', Complete(q)',
                      finding'[i].firstRun =< q
               PROVE  <<q, i>> \in observation' \/ finding'[i].resolvedRun \in 1 .. q
    BY DEF CompleteRunsAccount
  <2>1. CASE i \in newIds
    <3>1. q = r
      <4>1. r =< q
        BY <1>6, <2>1
      <4> QED BY <1>c, <1>13, <4>1
    <3> QED BY <1>12, <2>1, <3>1
  <2>2. CASE i \in DOMAIN finding /\ q = r
    <3>1. CASE i \in ActiveFindings
      <4>1. StatusOf(duplicates) = "completed" /\ ~estate.gaps
        BY <1>13, <2>2 DEF Complete
      <4>2. i \in persisting \/ i \in resolving
        BY <1>8, <3>1, <4>1 DEF AbsenceIsMeaningful
      <4> QED BY <1>4, <1>7, <1>12, <2>2, <4>2
    <3>2. CASE i \notin ActiveFindings
      BY <1>4, <1>5, <1>7, <1>9, <1>10, <2>2, <3>2 DEF NULL
    <3> QED BY <3>1, <3>2
  <2>3. CASE i \in DOMAIN finding /\ q \in DOMAIN run
    <3>1. Complete(q)
      BY <1>4, <1>13, <2>3 DEF Complete
    <3>2. <<q, i>> \in observation \/ finding[i].resolvedRun \in 1 .. q
      BY <1>7, <2>3, <3>1 DEF HInv, CompleteRunsAccount
    <3>3. finding[i].resolvedRun \in 1 .. q => i \notin resolving
      BY <1>5, <1>9, <2>3 DEF NULL
    <3> QED BY <1>7, <1>11, <2>3, <3>2, <3>3
  <2> QED BY <1>2, <1>13, <2>1, <2>2, <2>3
<1>20. OpenIdsAllocated'
  <2> SUFFICES ASSUME NEW q \in DOMAIN run', NEW i \in openAfter'[q]
               PROVE  i < nextFinding'
    BY DEF OpenIdsAllocated
  <2>1. CASE q = r
    <3>1. i \in DOMAIN finding \/ i \in newIds
      BY <1>2, <1>5, <2>1
    <3>2. i < next
      BY <1>4, <1>4a, <3>1
    <3> QED BY <1>b, <3>2
  <2>2. CASE q \in DOMAIN run
    <3>1. i \in openAfter[q] /\ i \in Nat
      BY <1>2, <1>13, <2>2 DEF IInv, TypeOK
    <3>2. i < next
      BY <1>4, <1>4a, <2>2, <3>1 DEF HInv, OpenIdsAllocated
    <3> QED BY <1>b, <3>2
  <2> QED BY <1>13, <2>1, <2>2
<1>21. PastRunsStayTrue'
  <2>1. ASSUME NEW q \in DOMAIN run, NEW i
        PROVE  i \in ActiveAsOf(q)' <=> i \in openAfter'[q] /\ i \in DOMAIN finding'
    <3>1. openAfter'[q] = openAfter[q] /\ q < r
      BY <1>2, <1>4
    <3>2. CASE i \in newIds
      <4>1. i \notin ActiveAsOf(q)'
        BY <1>4, <1>6, <3>1, <3>2 DEF ActiveAsOf
      <4>2. i \notin openAfter[q]
        <5>1. ~(i < nextFinding)
          BY <1>4, <1>4a, <3>2
        <5> QED BY <5>1 DEF HInv, OpenIdsAllocated
      <4> QED BY <3>1, <4>1, <4>2
    <3>3. CASE i \in DOMAIN finding
      <4>1. (\E x \in DOMAIN run' : x =< q /\ <<x, i>> \in observation')
              <=> (\E x \in DOMAIN run : x =< q /\ <<x, i>> \in observation)
        <5>1. ~(r =< q)
          BY <1>4, <3>1
        <5> QED BY <1>11, <1>13, <5>1
      <4>2. (finding'[i].resolvedRun = NULL \/ finding'[i].resolvedRun > q)
              <=> (finding[i].resolvedRun = NULL \/ finding[i].resolvedRun > q)
        BY <1>5, <1>7, <1>9, <3>1, <3>3
      <4>3. i \in ActiveAsOf(q)' <=> i \in ActiveAsOf(q)
        BY <1>2, <1>7, <3>3, <4>1, <4>2 DEF ActiveAsOf
      <4> QED BY <1>2, <3>1, <3>3, <4>3 DEF HInv, PastRunsStayTrue
    <3>4. CASE i \notin DOMAIN finding'
      BY <3>4 DEF ActiveAsOf
    <3> QED BY <1>2, <3>2, <3>3, <3>4
  <2>2. ASSUME NEW i
        PROVE  i \in ActiveAsOf(r)' <=> i \in openAfter'[r] /\ i \in DOMAIN finding'
    <3>1. openAfter'[r] = (ActiveFindings \ resolving) \cup newIds
      BY <1>2
    <3>2. CASE i \in newIds
      BY <1>2, <1>4, <1>6, <1>12, <1>13, <3>1, <3>2 DEF ActiveAsOf
    <3>3. CASE i \in DOMAIN finding
      <4>1. i \notin newIds
        BY <1>3, <3>3
      <4>2. /\ <<finding[i].firstRun, i>> \in observation /\ finding[i].firstRun \in DOMAIN run
        <5>1. <<finding[i].firstRun, i>> \in observation
          BY <3>3 DEF HInv, RunIdsNeverDangle
        <5> QED BY <1>4, <5>1
      <4>3. \E x \in DOMAIN run' : x =< r /\ <<x, i>> \in observation'
        BY <1>4, <1>11, <1>13, <4>2
      <4>4. finding'[i].firstRun =< r
        BY <1>4, <1>7, <1>10, <3>3
      <4>5. i \in ActiveAsOf(r)' <=> finding'[i].resolvedRun = NULL \/ finding'[i].resolvedRun > r
        BY <1>2, <3>3, <4>3, <4>4 DEF ActiveAsOf
      <4>6. (finding'[i].resolvedRun = NULL \/ finding'[i].resolvedRun > r)
              <=> i \in ActiveFindings /\ i \notin resolving
        BY <1>4, <1>7, <1>9, <1>10, <3>3 DEF NULL
      <4> QED BY <1>2, <3>1, <3>3, <4>1, <4>5, <4>6
    <3>4. CASE i \notin DOMAIN finding'
      BY <3>4 DEF ActiveAsOf
    <3> QED BY <1>2, <3>2, <3>3, <3>4
  <2>3. \A q \in DOMAIN run' : ActiveAsOf(q)' = openAfter'[q] \cap DOMAIN finding'
    BY <1>13, <2>1, <2>2
  <2> QED BY <2>3 DEF PastRunsStayTrue
<1> QED BY <1>16, <1>17, <1>18, <1>19, <1>20, <1>21 DEF HInv

-----------------------------------------------------------------------------
\* A deletion: a row that survives keeps the runs it names, because each of
\* them is the run of a snapshot that was not deleted.
LEMMA DeleteHistory ==
    ASSUME IInv, HInv, NEW s, DeleteSnapshot(s)
    PROVE  HInv'
<1> DEFINE Left == SurvivingFindings(s)
           KeptRuns == SurvivingRuns(s)
<1>1. /\ snapshot' = [x \in DOMAIN snapshot \ {s} |-> snapshot[x]]
      /\ run' = [r \in KeptRuns |-> run[r]]
      /\ observation' = observation \cap (KeptRuns \X Left)
      /\ openAfter' = [r \in KeptRuns |-> openAfter[r]]
      /\ nextFinding' = nextFinding
  BY DEF DeleteSnapshot
<1>2. /\ Left \subseteq DOMAIN finding /\ DOMAIN finding' = Left
      /\ \A i \in Left :
            /\ finding'[i].key = finding[i].key
            /\ finding'[i].firstSnapshot = finding[i].firstSnapshot
            /\ finding'[i].lastSnapshot = finding[i].lastSnapshot
            /\ finding'[i].firstRun = finding[i].firstRun
            /\ finding'[i].lastRun = finding[i].lastRun
            /\ finding'[i].resolvedRun = finding[i].resolvedRun
            /\ finding'[i].resolvedSnapshot =
                  IF finding[i].resolvedSnapshot = s THEN NULL ELSE finding[i].resolvedSnapshot
  BY DeleteRows
<1>3. /\ KeptRuns \subseteq DOMAIN run /\ \A r \in KeptRuns : run[r].snapshot # s
      /\ \A r \in DOMAIN run : run[r].snapshot # s => r \in KeptRuns
  BY DEF SurvivingRuns
<1>4. \A i \in Left : finding[i].firstSnapshot # s /\ finding[i].lastSnapshot # s
  BY DEF SurvivingFindings
<1>5. /\ observation \subseteq (DOMAIN run) \X (DOMAIN finding)
      /\ \A r \in DOMAIN run : run[r].snapshot \in DOMAIN snapshot
  BY DEF IInv, TypeOK
<1>6. \A i \in DOMAIN finding : i \in ActiveFindings <=> finding[i].resolvedRun = NULL
  BY DEF IInv, ResolvedHasRun, ActiveFindings, Unresolved
<1> HIDE DEF Left, KeptRuns
<1>7. /\ DOMAIN run' = KeptRuns
      /\ \A r \in KeptRuns :
            /\ run'[r] = run[r] /\ openAfter'[r] = openAfter[r]
            /\ snapshot'[run'[r].snapshot] = snapshot[run[r].snapshot]
  BY <1>1, <1>3, <1>5
<1>8. \A r \in KeptRuns : \A i \in Left : <<r, i>> \in observation' <=> <<r, i>> \in observation
  BY <1>1
<1>9. \A r \in KeptRuns : ObservedIn(r)' \subseteq ObservedIn(r)
  <2> TAKE r \in KeptRuns
  <2>1. \A j \in DOMAIN finding' : <<r, j>> \in observation' =>
          j \in DOMAIN finding /\ <<r, j>> \in observation /\ finding'[j].key = finding[j].key
    BY <1>2, <1>8
  <2> QED BY <2>1 DEF ObservedIn
<1>10. RunIdsNeverDangle'
  <2> SUFFICES ASSUME NEW i \in Left
               PROVE  /\ {finding'[i].firstRun, finding'[i].lastRun} \X {i} \subseteq observation'
                      /\ run'[finding'[i].firstRun].snapshot = finding'[i].firstSnapshot
                      /\ run'[finding'[i].lastRun].snapshot = finding'[i].lastSnapshot
                      /\ \A r \in DOMAIN run' : <<r, i>> \in observation' =>
                            r \in finding'[i].firstRun .. finding'[i].lastRun
    BY <1>2 DEF RunIdsNeverDangle
  <2>1. /\ <<finding[i].firstRun, i>> \in observation /\ <<finding[i].lastRun, i>> \in observation
        /\ run[finding[i].firstRun].snapshot = finding[i].firstSnapshot
        /\ run[finding[i].lastRun].snapshot = finding[i].lastSnapshot
        /\ \A r \in DOMAIN run : <<r, i>> \in observation =>
              r \in finding[i].firstRun .. finding[i].lastRun
    BY <1>2 DEF HInv, RunIdsNeverDangle
  <2>2. finding[i].firstRun \in KeptRuns /\ finding[i].lastRun \in KeptRuns
    BY <1>3, <1>4, <1>5, <2>1
  <2>3. <<finding[i].firstRun, i>> \in observation' /\ <<finding[i].lastRun, i>> \in observation'
    BY <1>8, <2>1, <2>2
  <2> QED BY <1>2, <1>3, <1>7, <1>8, <2>1, <2>2, <2>3
<1>11. ResolutionIsJustified'
  <2> SUFFICES ASSUME NEW i \in Left, finding'[i].resolvedSnapshot # NULL,
                      NEW r, r = finding'[i].resolvedRun
               PROVE  /\ r \in DOMAIN run'
                      /\ run'[r].snapshot = finding'[i].resolvedSnapshot
                      /\ run'[r].status = "completed"
                      /\ finding'[i].key \notin ObservedIn(r)'
                      /\ AbsenceIsMeaningful(GpoOf[finding'[i].key], snapshot'[run'[r].snapshot])
    BY <1>2 DEF ResolutionIsJustified, ObservedIn, AbsenceIsMeaningful
  <2>1. /\ finding[i].resolvedSnapshot # NULL /\ finding[i].resolvedSnapshot # s
        /\ finding'[i].resolvedSnapshot = finding[i].resolvedSnapshot
        /\ finding[i].resolvedRun = r
    BY <1>2
  <2>2. /\ r \in DOMAIN run
        /\ run[r].snapshot = finding[i].resolvedSnapshot
        /\ run[r].status = "completed"
        /\ finding[i].key \notin ObservedIn(r)
        /\ AbsenceIsMeaningful(GpoOf[finding[i].key], snapshot[run[r].snapshot])
    BY <1>2, <2>1 DEF HInv, ResolutionIsJustified
  <2>3. r \in KeptRuns
    BY <1>3, <2>1, <2>2
  <2> QED BY <1>2, <1>7, <1>9, <2>1, <2>2, <2>3
<1>12. NothingGoneStaysOpen'
  <2>1. ASSUME NEW i \in ActiveFindings', NEW r \in DOMAIN run',
               run'[r].status = "completed",
               AbsenceIsMeaningful(GpoOf[finding'[i].key], snapshot'[run'[r].snapshot])
        PROVE  r =< finding'[i].lastRun
    <3>1. i \in Left /\ finding'[i].resolvedRun = NULL
      BY <1>2 DEF ActiveFindings, Unresolved
    <3>2. i \in ActiveFindings
      BY <1>2, <1>6, <3>1
    <3> QED BY <1>2, <1>3, <1>7, <2>1, <3>1, <3>2 DEF HInv, NothingGoneStaysOpen
  <2> QED BY <2>1 DEF NothingGoneStaysOpen, AbsenceIsMeaningful
<1>13. CompleteRunsAccount'
  <2>1. ASSUME NEW i \in DOMAIN finding', NEW r \in DOMAIN run', Complete(r)',
               finding'[i].firstRun =< r
        PROVE  <<r, i>> \in observation' \/ finding'[i].resolvedRun \in 1 .. r
    <3>1. Complete(r)
      BY <1>7, <2>1 DEF Complete
    <3> QED BY <1>2, <1>3, <1>7, <1>8, <2>1, <3>1 DEF HInv, CompleteRunsAccount
  <2> QED BY <2>1 DEF CompleteRunsAccount
<1>14. OpenIdsAllocated'
  BY <1>1, <1>3, <1>7 DEF HInv, OpenIdsAllocated
<1>15. PastRunsStayTrue'
  <2>1. ASSUME NEW r \in KeptRuns, NEW i \in Left
        PROVE  i \in ActiveAsOf(r)' <=> i \in ActiveAsOf(r)
    <3>1. /\ <<finding[i].firstRun, i>> \in observation
          /\ run[finding[i].firstRun].snapshot = finding[i].firstSnapshot
      BY <1>2 DEF HInv, RunIdsNeverDangle
    <3>2. finding[i].firstRun \in KeptRuns
      BY <1>3, <1>4, <1>5, <3>1
    <3>3. <<finding[i].firstRun, i>> \in observation'
      BY <1>8, <3>1, <3>2
    <3>4. i \in ActiveAsOf(r) <=>
            /\ finding[i].firstRun =< r
            /\ finding[i].resolvedRun = NULL \/ finding[i].resolvedRun > r
      BY <1>2, <1>3, <3>1, <3>2 DEF ActiveAsOf
    <3>5. i \in ActiveAsOf(r)' <=>
            /\ finding[i].firstRun =< r
            /\ finding[i].resolvedRun = NULL \/ finding[i].resolvedRun > r
      BY <1>2, <1>7, <3>2, <3>3 DEF ActiveAsOf
    <3> QED BY <3>4, <3>5
  <2>2. ASSUME NEW r \in KeptRuns
        PROVE  ActiveAsOf(r)' = openAfter'[r] \cap DOMAIN finding'
    <3>1. ActiveAsOf(r)' \subseteq Left
      BY <1>2 DEF ActiveAsOf
    <3>2. ActiveAsOf(r) = openAfter[r] \cap DOMAIN finding
      BY <1>3 DEF HInv, PastRunsStayTrue
    <3> QED BY <1>2, <1>7, <2>1, <3>1, <3>2
  <2> QED BY <1>7, <2>2 DEF PastRunsStayTrue
<1> QED BY <1>10, <1>11, <1>12, <1>13, <1>14, <1>15 DEF HInv

-----------------------------------------------------------------------------
\* The history is an invariant beside IInv.
THEOREM HistoryInvariance == Spec => [](IInv /\ HInv)
<1>1. Init => HInv
  BY DEF Init, HInv, RunIdsNeverDangle, ResolutionIsJustified, NothingGoneStaysOpen,
         CompleteRunsAccount, OpenIdsAllocated, PastRunsStayTrue, ActiveFindings
<1>2. IInv /\ HInv /\ [Next]_vars => HInv'
  <2> SUFFICES ASSUME IInv, HInv, [Next]_vars PROVE HInv'
    OBVIOUS
  <2>1. CASE Import
    BY <2>1, ImportHistory DEF Import
  <2>2. CASE Delete
    BY <2>2, DeleteHistory DEF Delete
  <2>3. CASE UNCHANGED vars
    BY <2>3 DEF vars, HInv, RunIdsNeverDangle, ResolutionIsJustified, NothingGoneStaysOpen,
               CompleteRunsAccount, OpenIdsAllocated, PastRunsStayTrue, ActiveFindings,
               Unresolved, ActiveAsOf, ObservedIn, Complete, AbsenceIsMeaningful
  <2> QED BY <2>1, <2>2, <2>3 DEF Next
<1> QED BY <1>1, <1>2, Invariance, PTL DEF Spec

\* The run ids without a foreign key never dangle, whatever is deleted.
THEOREM NoDanglingRun == Spec => []RunIdsNeverDangle
<1>1. HInv => RunIdsNeverDangle
  BY DEF HInv
<1> QED BY <1>1, HistoryInvariance, PTL

\* A failed or incomplete analysis never resolves a finding.
THEOREM Justified == Spec => []ResolutionIsJustified
<1>1. HInv => ResolutionIsJustified
  BY DEF HInv
<1> QED BY <1>1, HistoryInvariance, PTL

\* Nothing a completed run could tell was gone stays open.
THEOREM NothingGone == Spec => []NothingGoneStaysOpen
<1>1. HInv => NothingGoneStaysOpen
  BY DEF HInv
<1> QED BY <1>1, HistoryInvariance, PTL

\* A past run still counts what was open when it committed.
THEOREM PastRuns == Spec => []PastRunsStayTrue
<1>1. HInv => PastRunsStayTrue
  BY DEF HInv
<1> QED BY <1>1, HistoryInvariance, PTL

\* The delta of two complete runs tells the truth about both.
THEOREM DeltaIsTrue == Spec => []CompleteDeltaIsTrue
<1>1. IInv /\ HInv => CompleteDeltaIsTrue
  <2> SUFFICES ASSUME IInv, HInv, NEW a \in DOMAIN run, NEW b \in DOMAIN run,
                      NEW i \in DOMAIN finding, a < b
               PROVE  /\ Complete(b) /\ <<a, i>> \in observation
                         /\ finding[i].key \in DeltaResolved(a, b)
                             => finding[i].resolvedRun \in a + 1 .. b
                      /\ Complete(a) /\ <<b, i>> \in observation
                         /\ finding[i].key \in DeltaNew(a, b)
                             => finding[i].firstRun > a
    BY DEF CompleteDeltaIsTrue
  <2>1. /\ a \in Nat /\ b \in Nat
        /\ finding[i].firstRun \in Nat /\ finding[i].lastRun \in Nat /\ finding[i].resolvedRun \in Nat
        /\ finding[i].resolvedRun # NULL => finding[i].lastRun < finding[i].resolvedRun
    BY DEF IInv, TypeOK, RunsOrdered, Finding
  <2>2. \A r \in DOMAIN run : <<r, i>> \in observation =>
          r \in finding[i].firstRun .. finding[i].lastRun /\ finding[i].key \in ObservedIn(r)
    BY DEF HInv, RunIdsNeverDangle, ObservedIn
  <2>3. \A r \in DOMAIN run : Complete(r) /\ finding[i].firstRun =< r =>
          <<r, i>> \in observation \/ finding[i].resolvedRun \in 1 .. r
    BY DEF HInv, CompleteRunsAccount
  <2>4. ASSUME Complete(b), <<a, i>> \in observation, finding[i].key \notin ObservedIn(b)
        PROVE  finding[i].resolvedRun \in a + 1 .. b
    <3>1. finding[i].resolvedRun \in 1 .. b
      <4>1. finding[i].firstRun =< b
        BY <2>1, <2>2, <2>4
      <4>2. <<b, i>> \notin observation
        BY <2>2, <2>4
      <4> QED BY <2>3, <2>4, <4>1, <4>2
    <3>2. finding[i].lastRun < finding[i].resolvedRun /\ a =< finding[i].lastRun
      BY <2>1, <2>2, <2>4, <3>1 DEF NULL
    <3> QED BY <2>1, <3>1, <3>2
  <2>5. ASSUME Complete(a), <<b, i>> \in observation, finding[i].key \notin ObservedIn(a)
        PROVE  finding[i].firstRun > a
    <3>1. CASE finding[i].firstRun =< a
      <4>1. finding[i].resolvedRun \in 1 .. a
        BY <2>2, <2>3, <2>5, <3>1
      <4>2. finding[i].lastRun < finding[i].resolvedRun /\ b =< finding[i].lastRun
        BY <2>1, <2>2, <2>5, <4>1 DEF NULL
      <4> QED BY <2>1, <4>1, <4>2
    <3> QED BY <2>1, <3>1
  <2> QED BY <2>4, <2>5 DEF DeltaResolved, DeltaNew
<1> QED BY <1>1, HistoryInvariance, PTL

=============================================================================
