--------------------------- MODULE PipelineProofs ---------------------------
(***************************************************************************)
(* Proofs about Pipeline, for any collections, principals and rules.  The  *)
(* invariant is where estates come from: every one that is imported,       *)
(* stored or open was made by load_estate of a collection that was found.  *)
(* What an answer owes to its collection is then a matter of functions,    *)
(* one part each: that a token is closed under membership; that what could *)
(* not be collected is a gap; that the spelling of a trustee decides       *)
(* nothing; that a blocked setting is one that was resolved whole; that    *)
(* the roll-up of conflicts says what each container does; that the merge  *)
(* loses no key; that loopback lets the computer win; that the comparisons *)
(* of two snapshots agree with one another; and that an estate read back   *)
(* from the store answers everything as the parsed one does.               *)
(***************************************************************************)
EXTENDS Pipeline, ProofBasics

\* The collections a snapshot may come from, in the order they may be found.
FoundAs(coll, stored) ==
    coll \in IF stored = <<>> THEN FirstImports ELSE LaterImports(stored[1].coll)

\* A snapshot is what was parsed of its collection, and was fit to be stored.
Faithful(snapshot) ==
    /\ snapshot.coll \in Collections /\ ~LoadEstateFails(snapshot.coll)
    /\ snapshot.est = LoadEstate(snapshot.coll) /\ ~SaveEstateFails(snapshot.est)

Phases == {"idle", "collected", "loaded", "open"}

\* What the operator's directory may hold: nothing yet, or a collector's copy.
Copies == {NoSysvol} \cup {coll.sysvol : coll \in Collections}

\* Where every estate of a state comes from, and what lies in the directory.
Provenance ==
    /\ phase \in Phases /\ directory \in Copies
    /\ IsSequence(snapshots)
    /\ \A n \in DOMAIN snapshots : Faithful(snapshots[n])
    /\ snapshots # <<>> => snapshots[1].coll \in FirstImports
    /\ phase \in {"collected", "loaded"} => FoundAs(incoming, snapshots)
    /\ phase = "loaded" => estate = LoadEstate(incoming) /\ ~LoadEstateFails(incoming)
    /\ phase = "open" =>
          /\ opened.of \in DOMAIN snapshots
          /\ \E flip \in BOOLEAN : opened.est = LoadStored(snapshots[opened.of].est, flip)

\* The first snapshot says where the others come from.
LEMMA FoundInCollections ==
    ASSUME Provenance, NEW coll, FoundAs(coll, snapshots)
    PROVE  coll \in Collections
BY DEF Provenance, FoundAs, Collections

\* What is appended to a sequence is its last element; the others stay.
LEMMA Extended ==
    ASSUME NEW s, IsSequence(s), NEW e
    PROVE  /\ IsSequence(Append(s, e))
           /\ DOMAIN s = 1..Len(s) /\ DOMAIN Append(s, e) = 1..Len(s) + 1 /\ Len(s) \in Nat
           /\ \A n \in DOMAIN s : Append(s, e)[n] = s[n]
           /\ Append(s, e)[Len(s) + 1] = e
<1> DEFINE T == Range(s) \cup {e}
<1>1. s \in Seq(T) /\ Len(s) \in Nat /\ DOMAIN s = 1..Len(s)
  BY DEF IsSequence
<1>2. Append(s, e) \in Seq(T) /\ Len(Append(s, e)) = Len(s) + 1
  BY <1>1
<1> HIDE DEF T
<1>3. DOMAIN Append(s, e) = 1..Len(s) + 1
  BY <1>1, <1>2
<1>4. \A n \in 1..Len(s) : Append(s, e)[n] = s[n]
  BY <1>1
<1>5. Append(s, e)[Len(s) + 1] = e
  BY <1>1
<1>6. Append(s, e) \in Seq(Range(Append(s, e)))
  <2>1. \A n \in 1..Len(Append(s, e)) : Append(s, e)[n] \in Range(Append(s, e))
    BY <1>2, <1>3 DEF Range
  <2> QED BY <1>2, <2>1
<1> QED BY <1>1, <1>3, <1>4, <1>5, <1>6 DEF IsSequence

\* Nothing is stored before the first import.
LEMMA InitProvenance == PipelineInit => Provenance
<1> SUFFICES ASSUME PipelineInit PROVE Provenance
  OBVIOUS
<1>1. DOMAIN snapshots = {}
  BY DEF PipelineInit
<1>2. IsSequence(snapshots)
  BY DEF PipelineInit, IsSequence
<1> QED BY <1>1, <1>2 DEF PipelineInit, Provenance, Phases, Copies

\* Every operation of the import and of the readers keeps it.
LEMMA NextProvenance == Provenance /\ [PipelineNext]_vars => Provenance'
<1> SUFFICES ASSUME Provenance, [PipelineNext]_vars
             PROVE  Provenance'
  OBVIOUS
<1>1. ASSUME NEW how \in Channels, Collect(how)
      PROVE  Provenance'
  <2>1. FoundAs(incoming', snapshots) /\ directory' \in {directory, incoming'.sysvol}
    BY <1>1 DEF Collect, FoundAs
  <2>2. directory' \in Copies
    BY <2>1, FoundInCollections DEF Copies, Provenance
  <2> QED BY <1>1, <2>1, <2>2 DEF Collect, Provenance, FoundAs, Faithful, Phases
<1>2. CASE Load
  BY <1>2 DEF Load, Provenance, FoundAs, Faithful, Phases
<1>3. CASE LoadFailed
  BY <1>3 DEF LoadFailed, Provenance, FoundAs, Faithful, Phases
<1>4. CASE Save
  <2> DEFINE new == [est |-> estate, coll |-> incoming, channel |-> channel]
  <2>1. /\ snapshots' = Append(snapshots, new) /\ phase' = "idle"
        /\ phase = "loaded" /\ ~SaveEstateFails(estate)
    BY <1>4 DEF Save
  <2>2. incoming \in Collections
    BY <2>1, FoundInCollections DEF Provenance
  <2>3. Faithful(new)
    BY <2>1, <2>2 DEF Faithful, Provenance
  <2>4. IsSequence(snapshots) /\ \A n \in DOMAIN snapshots : Faithful(snapshots[n])
    BY DEF Provenance
  <2> HIDE DEF new
  <2>5. IsSequence(snapshots') /\ \A n \in DOMAIN snapshots' : Faithful(snapshots'[n])
    <3>1. IsSequence(snapshots') /\ DOMAIN snapshots' = 1..Len(snapshots) + 1 /\ DOMAIN snapshots = 1..Len(snapshots)
      BY <2>1, <2>4, Extended
    <3>2. \A n \in DOMAIN snapshots : snapshots'[n] = snapshots[n]
      BY <2>1, <2>4, Extended
    <3>3. snapshots'[Len(snapshots) + 1] = new /\ Len(snapshots) \in Nat
      BY <2>1, <2>4, Extended
    <3>4. \A n \in 1..Len(snapshots) + 1 : n = Len(snapshots) + 1 \/ n \in 1..Len(snapshots)
      BY <3>3
    <3> QED BY <2>3, <2>4, <3>1, <3>2, <3>3, <3>4
  <2>6. snapshots'[1].coll \in FirstImports
    <3>1. CASE snapshots = <<>>
      <4>1. snapshots' = <<new>>
        BY <2>1, <3>1
      <4>2. incoming \in FirstImports
        BY <2>1, <3>1 DEF Provenance, FoundAs
      <4> QED BY <4>1, <4>2 DEF new
    <3>2. CASE snapshots # <<>>
      <4>1. 1 \in DOMAIN snapshots
        BY <2>4, <3>2 DEF IsSequence
      <4>2. snapshots'[1] = snapshots[1]
        BY <2>1, <2>4, <4>1, Extended
      <4> QED BY <3>2, <4>2 DEF Provenance
    <3> QED BY <3>1, <3>2
  <2>7. directory' = directory
    BY <1>4 DEF Save
  <2> QED BY <2>1, <2>5, <2>6, <2>7 DEF Provenance, Phases
<1>5. CASE SaveFailed
  BY <1>5 DEF SaveFailed, Provenance, FoundAs, Faithful, Phases
<1>6. ASSUME NEW n \in DOMAIN snapshots, NEW flip \in BOOLEAN, Open(n, flip)
      PROVE  Provenance'
  BY <1>6 DEF Open, Provenance, FoundAs, Faithful, Phases
<1>7. CASE Close
  BY <1>7 DEF Close, Provenance, FoundAs, Faithful, Phases
<1>8. CASE UNCHANGED vars
  BY <1>8 DEF vars, Provenance, FoundAs, Faithful, Phases
<1> QED BY <1>1, <1>2, <1>3, <1>4, <1>5, <1>6, <1>7, <1>8 DEF PipelineNext

\* Every estate of a state is what was made of a collection that was found:
\* the one being stored, those stored, and the one a reader has open.
THEOREM ImportInvariance == PipelineSpec => []Provenance
BY InitProvenance, NextProvenance, PTL DEF PipelineSpec

----------------------------------------------------------------------------
(* The token of a principal is the closure of membership.                  *)

\* The tokens one round of the search after another finds.
IsSearch(rounds, groups, from, n) ==
    rounds = [k \in 0..n |-> IF k = 0 THEN from
                ELSE rounds[k - 1] \cup {g \in DOMAIN groups : groups[g] \cap rounds[k - 1] # {}}]

\* The rounds of the search are well defined, however many there are.
LEMMA SearchExists ==
    ASSUME NEW groups, NEW from, NEW n \in Nat
    PROVE  \E rounds : IsSearch(rounds, groups, from, n)
<1> DEFINE G == {m \in Nat : \E rounds : IsSearch(rounds, groups, from, m)}
<1>1. 0 \in G
  <2>1. IsSearch([k \in 0..0 |-> from], groups, from, 0)
    BY DEF IsSearch
  <2> QED BY <2>1
<1>2. ASSUME NEW m \in Nat, m \in G
      PROVE  m + 1 \in G
  <2>1. PICK r : IsSearch(r, groups, from, m)
    BY <1>2
  <2> DEFINE more(X) == X \cup {g \in DOMAIN groups : groups[g] \cap X # {}}
             s == [k \in 0..m + 1 |-> IF k = m + 1 THEN more(r[m]) ELSE r[k]]
  <2>2. \A k \in 0..m : r[k] = IF k = 0 THEN from ELSE more(r[k - 1])
    BY <2>1 DEF IsSearch
  <2>3. \A k \in 0..m : s[k] = r[k]
    OBVIOUS
  <2>4. s[m + 1] = more(r[m])
    OBVIOUS
  <2>5. ASSUME NEW k \in 0..m + 1
        PROVE  s[k] = IF k = 0 THEN from ELSE more(s[k - 1])
    <3> HIDE DEF s, more
    <3>1. CASE k = m + 1
      <4>1. k # 0 /\ k - 1 = m /\ m \in 0..m
        BY <3>1
      <4> QED BY <2>3, <2>4, <3>1, <4>1
    <3>2. CASE k # m + 1
      <4>1. k \in 0..m /\ (k # 0 => k - 1 \in 0..m)
        BY <3>2
      <4> QED BY <2>2, <2>3, <4>1
    <3> QED BY <3>1, <3>2
  <2>6. s = [k \in 0..m + 1 |-> s[k]]
    OBVIOUS
  <2>7. s = [k \in 0..m + 1 |-> IF k = 0 THEN from ELSE more(s[k - 1])]
    <3> HIDE DEF s, more
    <3> QED BY <2>5, <2>6
  <2>8. IsSearch(s, groups, from, m + 1)
    <3> HIDE DEF s
    <3> QED BY <2>7 DEF IsSearch
  <2> QED BY <2>8
<1>3. Nat \subseteq G
  <2> HIDE DEF G
  <2> QED BY <1>1, <1>2, NatSetInduction
<1> QED BY <1>3

\* What the search finds is what its last round has.
LEMMA SearchOfGroups ==
    ASSUME NEW est, NEW from, IsFiniteSet(DOMAIN est.groups)
    PROVE  \E rounds :
              /\ IsSearch(rounds, est.groups, from, Cardinality(DOMAIN est.groups))
              /\ GroupsOf(est, from) = rounds[Cardinality(DOMAIN est.groups)]
<1> DEFINE N == Cardinality(DOMAIN est.groups)
           Equation(r) == r = [k \in 0..N |-> IF k = 0 THEN from
                ELSE r[k - 1] \cup {g \in DOMAIN est.groups : est.groups[g] \cap r[k - 1] # {}}]
           rounds == CHOOSE r : Equation(r)
<1>1. N \in Nat
  BY FS_CardinalityType
<1>2. \E r : Equation(r)
  <2>1. PICK r : IsSearch(r, est.groups, from, N)
    <3> HIDE DEF N
    <3> QED BY <1>1, SearchExists
  <2>2. Equation(r)
    BY <2>1 DEF IsSearch
  <2> QED BY <2>2
<1>3. Equation(rounds)
  BY <1>2
<1>4. GroupsOf(est, from) = rounds[N]
  BY DEF GroupsOf
<1> HIDE DEF rounds
<1> QED BY <1>3, <1>4 DEF IsSearch

\* What one round adds is in the next; a token that a round leaves alone is
\* closed, and one that is not has grown by a group.
LEMMA SearchGrows ==
    ASSUME NEW est, NEW from, NEW n \in Nat, NEW rounds, IsSearch(rounds, est.groups, from, n),
           IsFiniteSet(DOMAIN est.groups)
    PROVE  \A k \in 0..n :
              /\ from \subseteq rounds[k]
              /\ \/ Closed(est, rounds[k])
                 \/ Cardinality(rounds[k] \cap DOMAIN est.groups) >= k
<1> DEFINE D == DOMAIN est.groups
           more(X) == X \cup {g \in D : est.groups[g] \cap X # {}}
           Held(k) == /\ from \subseteq rounds[k]
                      /\ Closed(est, rounds[k]) \/ Cardinality(rounds[k] \cap D) >= k
           G == {k \in Nat : k =< n => Held(k)}
<1>1. \A k \in 0..n : rounds[k] = IF k = 0 THEN from ELSE more(rounds[k - 1])
  BY DEF IsSearch
<1>2. \A X : IsFiniteSet(X \cap D) /\ Cardinality(X \cap D) \in Nat
  BY FS_Subset, FS_CardinalityType
<1>3. 0 \in G
  <2>1. 0 \in 0..n /\ rounds[0] = from
    <3> HIDE DEF more
    <3> QED BY <1>1
  <2>2. Cardinality(rounds[0] \cap D) >= 0
    BY <1>2
  <2> QED BY <2>1, <2>2
<1>4. ASSUME NEW k \in Nat, k \in G
      PROVE  k + 1 \in G
  <2> SUFFICES ASSUME k + 1 =< n
               PROVE  Held(k + 1)
    <3> HIDE DEF Held
    <3> QED OBVIOUS
  <2>1. Held(k) /\ rounds[k + 1] = more(rounds[k])
    <3>1. k + 1 \in 0..n /\ k + 1 # 0 /\ (k + 1) - 1 = k /\ k =< n
      OBVIOUS
    <3> HIDE DEF more, Held
    <3> QED BY <1>1, <1>4, <3>1
  <2>2. CASE Closed(est, rounds[k])
    <3>1. rounds[k + 1] = rounds[k]
      BY <2>1, <2>2 DEF Closed
    <3> QED BY <2>1, <2>2, <3>1
  <2>3. CASE ~Closed(est, rounds[k])
    <3>1. PICK g \in D : est.groups[g] \cap rounds[k] # {} /\ g \notin rounds[k]
      BY <2>3 DEF Closed
    <3> DEFINE old == rounds[k] \cap D
    <3>2. old \cup {g} \subseteq rounds[k + 1] \cap D
      BY <2>1, <3>1
    <3>3. Cardinality(old \cup {g}) = Cardinality(old) + 1
      <4>1. g \notin old /\ IsFiniteSet(old)
        BY <1>2, <3>1
      <4> HIDE DEF old
      <4> QED BY <4>1, FS_AddElement
    <3>4. Cardinality(old \cup {g}) =< Cardinality(rounds[k + 1] \cap D)
      <4>1. IsFiniteSet(rounds[k + 1] \cap D)
        BY <1>2
      <4> QED BY <3>2, <4>1, FS_Subset
    <3>5. Cardinality(old) >= k /\ Cardinality(old) \in Nat
      BY <1>2, <2>1, <2>3
    <3>6. Cardinality(rounds[k + 1] \cap D) \in Nat
      BY <1>2
    <3>7. Cardinality(rounds[k + 1] \cap D) >= k + 1
      BY <3>3, <3>4, <3>5, <3>6
    <3> QED BY <2>1, <3>7
  <2> QED BY <2>2, <2>3
<1>5. Nat \subseteq G
  <2> HIDE DEF G
  <2> QED BY <1>3, <1>4, NatSetInduction
<1> QED BY <1>5

\* A closed set that holds what the search starts from holds every round.
LEMMA SearchIsLeast ==
    ASSUME NEW est, NEW from, NEW n \in Nat, NEW rounds, IsSearch(rounds, est.groups, from, n),
           NEW X, from \subseteq X, Closed(est, X)
    PROVE  rounds[n] \subseteq X
<1> DEFINE D == DOMAIN est.groups
           more(Y) == Y \cup {g \in D : est.groups[g] \cap Y # {}}
           G == {k \in Nat : k =< n => rounds[k] \subseteq X}
<1>1. \A k \in 0..n : rounds[k] = IF k = 0 THEN from ELSE more(rounds[k - 1])
  BY DEF IsSearch
<1>2. 0 \in G
  <2>1. rounds[0] = from
    <3> HIDE DEF more
    <3> QED BY <1>1
  <2> QED BY <2>1
<1>3. ASSUME NEW k \in Nat, k \in G
      PROVE  k + 1 \in G
  <2> SUFFICES ASSUME k + 1 =< n
               PROVE  rounds[k + 1] \subseteq X
    OBVIOUS
  <2>1. rounds[k] \subseteq X /\ rounds[k + 1] = more(rounds[k])
    <3>1. k + 1 \in 0..n /\ k + 1 # 0 /\ (k + 1) - 1 = k /\ k =< n
      OBVIOUS
    <3> HIDE DEF more
    <3> QED BY <1>1, <1>3, <3>1
  <2> QED BY <2>1 DEF Closed
<1>4. Nat \subseteq G
  <2> HIDE DEF G
  <2> QED BY <1>2, <1>3, NatSetInduction
<1> QED BY <1>4

\* The search of finitely many groups ends with the least closed token.
LEMMA SearchCloses ==
    ASSUME NEW est, NEW from, IsFiniteSet(DOMAIN est.groups)
    PROVE  /\ from \subseteq GroupsOf(est, from) /\ Closed(est, GroupsOf(est, from))
           /\ \A X : from \subseteq X /\ Closed(est, X) => GroupsOf(est, from) \subseteq X
<1> DEFINE D == DOMAIN est.groups
           N == Cardinality(D)
<1>1. N \in Nat /\ N \in 0..N
  <2>1. N \in Nat
    BY FS_CardinalityType
  <2> HIDE DEF N
  <2> QED BY <2>1
<1>2. PICK rounds : IsSearch(rounds, est.groups, from, N) /\ GroupsOf(est, from) = rounds[N]
  BY SearchOfGroups
<1>3. /\ from \subseteq rounds[N]
      /\ Closed(est, rounds[N]) \/ Cardinality(rounds[N] \cap D) >= N
  <2> HIDE DEF N
  <2> QED BY <1>1, <1>2, SearchGrows
<1>4. Closed(est, rounds[N])
  <2>1. CASE Cardinality(rounds[N] \cap D) >= N
    <3>1. rounds[N] \cap D \subseteq D /\ Cardinality(rounds[N] \cap D) =< N
      BY FS_Subset
    <3>2. Cardinality(rounds[N] \cap D) \in Nat
      BY FS_Subset, FS_CardinalityType
    <3>3. Cardinality(rounds[N] \cap D) = Cardinality(D)
      BY <1>1, <2>1, <3>1, <3>2
    <3>4. rounds[N] \cap D = D
      BY <3>1, <3>3, FS_Subset
    <3> QED BY <3>4 DEF Closed
  <2> QED BY <1>3, <2>1
<1>5. \A X : from \subseteq X /\ Closed(est, X) => rounds[N] \subseteq X
  <2> HIDE DEF N
  <2> QED BY <1>1, <1>2, SearchIsLeast
<1> QED BY <1>2, <1>3, <1>4, <1>5

\* The groups of an estate are those of its collection, stored or not.
LEMMA GroupsKept ==
    ASSUME NEW coll, NEW flip
    PROVE  /\ LoadEstate(coll).groups = TryLoad(coll.groups, Empty)
           /\ LoadStored(LoadEstate(coll), flip).groups = TryLoad(coll.groups, Empty)
<1>1. LoadEstate(coll).groups = TryLoad(coll.groups, Empty) /\ "groups" \in DOMAIN LoadEstate(coll)
  BY DEF LoadEstate
<1>2. LoadStored(LoadEstate(coll), flip).groups = LoadEstate(coll).groups
  BY <1>1 DEF LoadStored
<1> QED BY <1>1, <1>2

\* An open estate is one of a collection that was found, stored and loaded.
LEMMA OpenedFrom ==
    ASSUME Provenance, phase = "open"
    PROVE  /\ opened.of \in DOMAIN snapshots /\ Faithful(snapshots[opened.of])
           /\ snapshots[opened.of].coll \in Collections /\ IsCollection(snapshots[opened.of].coll)
           /\ \E flip \in BOOLEAN :
                 opened.est = LoadStored(LoadEstate(snapshots[opened.of].coll), flip)
BY PipelineAssumption DEF Provenance, Faithful

\* A principal's token, nested and cyclic groups included, is the least set
\* that holds its base and every group of a member it holds.
THEOREM TokensClose == PipelineSpec => []TokenIsClosure
<1>1. Provenance => TokenIsClosure
  <2> SUFFICES ASSUME Provenance, phase = "open", NEW w \in Principals \cup Computers
               PROVE  /\ BaseToken(opened.est, w) \subseteq BuildToken(opened.est, w)
                      /\ Closed(opened.est, BuildToken(opened.est, w))
                      /\ \A smaller \in SUBSET (BuildToken(opened.est, w) \ BaseToken(opened.est, w)) :
                            Closed(opened.est, BaseToken(opened.est, w) \cup smaller) =>
                               BaseToken(opened.est, w) \cup smaller = BuildToken(opened.est, w)
    BY DEF TokenIsClosure
  <2>1. IsFiniteSet(DOMAIN opened.est.groups)
    BY OpenedFrom, GroupsKept DEF IsCollection
  <2> DEFINE base == BaseToken(opened.est, w)
  <2>2. BuildToken(opened.est, w) = GroupsOf(opened.est, base)
    BY DEF BuildToken
  <2> HIDE DEF base
  <2>3. /\ base \subseteq GroupsOf(opened.est, base) /\ Closed(opened.est, GroupsOf(opened.est, base))
        /\ \A X : base \subseteq X /\ Closed(opened.est, X) => GroupsOf(opened.est, base) \subseteq X
    BY <2>1, SearchCloses
  <2> QED BY <2>2, <2>3 DEF base
<1> QED BY <1>1, ImportInvariance, PTL

----------------------------------------------------------------------------
(* What parsing makes of a report: every GPO of the estate is one of the   *)
(* report's, with what the side files and the copied folders add to it.    *)

GpoFields == {"id", "name", "computerEnabled", "userEnabled", "versions", "delegation", "sddl",
              "wmi", "links", "settings", "attached", "ilt", "cpassword", "localGroups",
              "paths", "tree"}
IsGpo(g) == g = [x \in GpoFields |-> g[x]]

Parsed(records) == {ParseGpo(records[i]) : i \in DOMAIN records}

\* What is parsed of a report is a sequence of its GPOs.
LEMMA ReportParsed ==
    ASSUME NEW records, IsSequence(records)
    PROVE  ParseReport(records) \in Seq(Parsed(records))
<1> DEFINE S == 1..Len(records)
           Typ == Seq(Parsed(records))
           choose == [T \in SUBSET S |-> Max(T)]
           After(gpos, i) ==
               IF records[i].id = None THEN gpos ELSE Append(gpos, ParseGpo(records[i]))
           step == [i \in S |-> [x \in Typ |-> After(x, i)]]
           Equation(f) == f = [T \in SUBSET S |-> IF T = {} THEN <<>>
                                 ELSE After(f[T \ {Max(T)}], Max(T))]
           iter == CHOOSE g : Equation(g)
<1>1. IsFiniteSet(S) /\ Len(records) \in Nat /\ DOMAIN records = S
  <2>1. Len(records) \in Nat /\ DOMAIN records = S
    BY DEF IsSequence
  <2>2. 1 \in Int /\ Len(records) \in Int
    BY <2>1
  <2> QED BY <2>1, <2>2, FS_Interval
<1>2. Chooses(choose, S)
  <2> SUFFICES ASSUME NEW T \in SUBSET S, T # {}
               PROVE  Max(T) \in T
    BY DEF Chooses
  <2>1. \E x \in T : \A y \in T : x >= y
    BY <1>1, HighestExists
  <2> QED BY <2>1 DEF Max
<1>3. <<>> \in Typ
  OBVIOUS
<1>4. step \in [S -> [Typ -> Typ]]
  <2> SUFFICES ASSUME NEW i \in S, NEW x \in Typ
               PROVE  After(x, i) \in Typ
    OBVIOUS
  <2>1. ParseGpo(records[i]) \in Parsed(records)
    BY <1>1 DEF Parsed
  <2> QED BY <2>1
<1>5. PICK f \in [SUBSET S -> Typ] : IsFold(f, S, <<>>, choose, step)
  <2> HIDE DEF S, Typ, choose, step
  <2> QED BY <1>1, <1>2, <1>3, <1>4, FoldExists, Zenon
<1>6. Equation(f)
  <2> SUFFICES ASSUME NEW T \in SUBSET S, T # {}
               PROVE  f[T] = After(f[T \ {Max(T)}], Max(T))
    BY <1>5 DEF IsFold
  <2>1. choose[T] = Max(T) /\ Max(T) \in S /\ f[T \ {Max(T)}] \in Typ
    BY <1>2 DEF Chooses
  <2>2. f[T] = step[Max(T)][f[T \ {Max(T)}]]
    BY <1>5, <2>1 DEF IsFold
  <2> HIDE DEF S, Typ, choose, After
  <2> QED BY <2>1, <2>2
<1>7. Equation(iter)
  <2>1. \E g : Equation(g)
    BY <1>6
  <2> QED BY <2>1
<1>8. ParseReport(records) = iter[S]
  BY <1>1 DEF ParseReport, FoldLeft, MapThenFoldSet
<1> DEFINE Good == {T \in SUBSET S : iter[T] = f[T]}
<1>9. {} \in Good
  <2> HIDE DEF iter, After
  <2> QED BY <1>6, <1>7
<1>10. ASSUME NEW T \in SUBSET S, T # {}, T \ {choose[T]} \in Good
       PROVE  T \in Good
  <2>1. choose[T] = Max(T) /\ iter[T \ {Max(T)}] = f[T \ {Max(T)}]
    BY <1>10
  <2> HIDE DEF iter, choose, After, S
  <2>2. f[T] = After(f[T \ {Max(T)}], Max(T))
    BY <1>6, <1>10
  <2>3. iter[T] = After(iter[T \ {Max(T)}], Max(T))
    BY <1>7, <1>10
  <2> QED BY <1>10, <2>1, <2>2, <2>3
<1>11. S \in Good
  <2> HIDE DEF Good, S, choose, Equation
  <2> QED BY <1>1, <1>2, <1>9, <1>10, SubsetInduction
<1> HIDE DEF iter, Equation
<1> QED BY <1>8, <1>11

\* The metadata changes nothing of a GPO but its WMI filter and its versions.
LEMMA MetadataKeeps ==
    ASSUME NEW gpos, NEW n \in DOMAIN gpos, IsGpo(gpos[n]), NEW records, IsSequence(records)
    PROVE  /\ IsGpo(MergeMetadata(gpos, records)[n])
           /\ \A x \in GpoFields \ {"wmi", "versions"} :
                 MergeMetadata(gpos, records)[n][x] = gpos[n][x]
<1> DEFINE S == 1..Len(records)
           g0 == gpos[n]
           Filters == {g0.wmi} \cup {records[i].wmi : i \in S}
           Ds == {g0.versions[side].ds : side \in Sides}
                 \cup {records[i].versions[side].ds : i \in S, side \in Sides}
           Sysvol == {g0.versions[side].sysvol : side \in Sides}
                     \cup {records[i].versions[side].sysvol : i \in S, side \in Sides}
           Numbers == {g0.versions} \cup [Sides -> [ds : Ds, sysvol : Sysvol]]
           Merged(w, v) == [g0 EXCEPT !.wmi = w, !.versions = v]
           Typ == {Merged(w, v) : w \in Filters, v \in Numbers}
           choose == [T \in SUBSET S |-> Max(T)]
           fill(old, new) == IF old = None THEN new ELSE old
           versions(old, new) == [side \in Sides |->
              [ds |-> fill(old[side].ds, new[side].ds), sysvol |-> fill(old[side].sysvol, new[side].sysvol)]]
           After(g, i) ==
              IF records[i].id # g.id THEN g
              ELSE [g EXCEPT !.wmi = IF records[i].wmi = "missing" THEN @ ELSE records[i].wmi,
                             !.versions = versions(@, records[i].versions)]
           step == [i \in S |-> [x \in Typ |-> After(x, i)]]
           Equation(f) == f = [T \in SUBSET S |-> IF T = {} THEN g0
                                 ELSE After(f[T \ {Max(T)}], Max(T))]
           iter == CHOOSE g : Equation(g)
<1> HIDE DEF S, g0, Filters, Ds, Sysvol, Numbers, Merged, Typ, choose, fill, versions, After, step,
             Equation, iter
<1>1. IsFiniteSet(S) /\ Len(records) \in Nat /\ DOMAIN records = S
  <2>1. Len(records) \in Nat /\ DOMAIN records = S
    BY DEF IsSequence, S
  <2>2. 1 \in Int /\ Len(records) \in Int
    BY <2>1
  <2> QED BY <2>1, <2>2, FS_Interval DEF S
<1>2. Chooses(choose, S) /\ \A T \in SUBSET S : choose[T] = Max(T) /\ (T # {} => Max(T) \in S)
  <2>1. ASSUME NEW T \in SUBSET S, T # {}
        PROVE  Max(T) \in T
    <3>1. \E x \in T : \A y \in T : x >= y
      BY <1>1, <2>1, HighestExists DEF S
    <3> QED BY <3>1 DEF Max
  <2> QED BY <2>1 DEF Chooses, choose
<1>3. g0 = [x \in GpoFields |-> g0[x]]
  BY DEF IsGpo, g0
<1>4. \A w, v : /\ IsGpo(Merged(w, v)) /\ Merged(w, v).wmi = w /\ Merged(w, v).versions = v
                /\ \A x \in GpoFields \ {"wmi", "versions"} : Merged(w, v)[x] = g0[x]
  <2>1. "wmi" \in GpoFields /\ "versions" \in GpoFields
    BY DEF GpoFields
  <2> TAKE w, v
  <2>2. Merged(w, v) = [x \in GpoFields |-> IF x = "versions" THEN v ELSE IF x = "wmi" THEN w ELSE g0[x]]
    BY <1>3 DEF Merged
  <2> QED BY <2>1, <2>2 DEF IsGpo
<1>5. g0 \in Typ
  <2>1. g0 = Merged(g0.wmi, g0.versions)
    BY <1>3 DEF GpoFields, Merged
  <2>2. g0.wmi \in Filters /\ g0.versions \in Numbers
    BY DEF Filters, Numbers
  <2> QED BY <2>1, <2>2 DEF Typ
<1>6. ASSUME NEW i \in S, NEW x \in Typ
      PROVE  After(x, i) \in Typ
  <2>1. PICK w \in Filters, v \in Numbers : x = Merged(w, v)
    BY DEF Typ
  <2> DEFINE wnew == IF records[i].wmi = "missing" THEN w ELSE records[i].wmi
             vnew == versions(v, records[i].versions)
  <2>2. wnew \in Filters
    BY DEF Filters
  <2>3. ASSUME NEW side \in Sides
        PROVE  /\ v[side].ds \in Ds /\ v[side].sysvol \in Sysvol
               /\ records[i].versions[side].ds \in Ds /\ records[i].versions[side].sysvol \in Sysvol
    <3>1. v[side].ds \in Ds /\ v[side].sysvol \in Sysvol
      BY <2>3 DEF Numbers, Ds, Sysvol
    <3>2. records[i].versions[side].ds \in Ds
      BY DEF Ds
    <3>3. records[i].versions[side].sysvol \in Sysvol
      BY DEF Sysvol
    <3> QED BY <3>1, <3>2, <3>3
  <2>4. vnew \in Numbers
    <3>1. ASSUME NEW side \in Sides
          PROVE  /\ fill(v[side].ds, records[i].versions[side].ds) \in Ds
                 /\ fill(v[side].sysvol, records[i].versions[side].sysvol) \in Sysvol
      BY <2>3 DEF fill
    <3> QED BY <3>1 DEF versions, Numbers
  <2>5. [Merged(w, v) EXCEPT !.wmi = wnew, !.versions = vnew] = Merged(wnew, vnew)
    <3> HIDE DEF wnew, vnew
    <3> QED BY <1>3 DEF GpoFields, Merged
  <2>6. After(x, i) \in {x, [x EXCEPT !.wmi = wnew, !.versions = vnew]}
    BY <1>4, <2>1 DEF After
  <2> HIDE DEF wnew, vnew
  <2>7. Merged(wnew, vnew) \in Typ
    BY <2>2, <2>4 DEF Typ
  <2> QED BY <2>1, <2>5, <2>6, <2>7
<1>7. step \in [S -> [Typ -> Typ]] /\ \A i \in S, x \in Typ : step[i][x] = After(x, i)
  BY <1>6 DEF step
<1>8. PICK f \in [SUBSET S -> Typ] : IsFold(f, S, g0, choose, step)
  BY <1>1, <1>2, <1>5, <1>7, FoldExists, Zenon
<1>9. Equation(f)
  <2>1. ASSUME NEW T \in SUBSET S, T # {}
        PROVE  f[T] = After(f[T \ {Max(T)}], Max(T))
    <3>1. choose[T] = Max(T) /\ Max(T) \in S /\ f[T \ {Max(T)}] \in Typ
      BY <1>2, <2>1
    <3>2. f[T] = step[Max(T)][f[T \ {Max(T)}]]
      BY <1>8, <2>1, <3>1 DEF IsFold
    <3> QED BY <1>7, <3>1, <3>2
  <2>2. f[{}] = g0
    BY <1>8 DEF IsFold
  <2> QED BY <2>1, <2>2 DEF Equation
<1>10. Equation(iter)
  BY <1>9, Zenon DEF iter
<1>11. MergeMetadata(gpos, records)[n] = iter[S]
  BY <1>1 DEF MergeMetadata, FoldLeft, MapThenFoldSet, iter, Equation, After, versions, fill, g0
<1> DEFINE Good == {T \in SUBSET S : iter[T] = f[T]}
<1>12. {} \in Good
  BY <1>9, <1>10 DEF Equation
<1>13. ASSUME NEW T \in SUBSET S, T # {}, T \ {choose[T]} \in Good
       PROVE  T \in Good
  <2>1. iter[T \ {Max(T)}] = f[T \ {Max(T)}]
    BY <1>2, <1>13
  <2> QED BY <1>9, <1>10, <1>13, <2>1 DEF Equation
<1>14. S \in Good
  <2> HIDE DEF Good
  <2> QED BY <1>1, <1>2, <1>12, <1>13, SubsetInduction
<1>15. MergeMetadata(gpos, records)[n] \in Typ
  BY <1>11, <1>14
<1>16. PICK w, v : MergeMetadata(gpos, records)[n] = Merged(w, v)
  BY <1>15 DEF Typ
<1> QED BY <1>4, <1>16 DEF g0

\* What the copied folders add to a GPO is in its settings, and whether there
\* is a folder for it is a matter of its identifier; the paths its preference
\* files name are not kept.
LEMMA GposLoaded ==
    ASSUME NEW coll, IsCollection(coll)
    PROVE  /\ DOMAIN LoadGpos(coll) = 1..Len(LoadGpos(coll)) /\ Len(LoadGpos(coll)) \in Nat
           /\ \A i \in DOMAIN LoadGpos(coll) :
                 LET g == LoadGpos(coll)[i]
                 IN  /\ IsGpo(g) /\ g.paths = {}
                     /\ g.attached = (g.id \in DOMAIN coll.sysvol /\ ~coll.sysvol[g.id].escapes)
                     /\ \E k \in DOMAIN coll.report.records : g.sddl = coll.report.records[k].sddl
<1> DEFINE records == coll.report.records
           reported == ParseReport(records)
           merged == MergeMetadata(reported, TryLoad(coll.metadata, <<>>))
           attached == AttachSysvolPaths(coll.sysvol, merged)
           registry == AugmentRegistry(coll.sysvol, attached)
           gpos == AugmentAudit(coll.sysvol, registry)
           Sound(g) == /\ IsGpo(g) /\ g.paths = {}
                       /\ \E k \in DOMAIN records : g.sddl = records[k].sddl
           Attached(g) == g.attached = (g.id \in DOMAIN coll.sysvol /\ ~coll.sysvol[g.id].escapes)
<1> HIDE DEF reported, merged, attached, registry, gpos, Sound, Attached
<1>1. IsSequence(records) /\ IsSequence(TryLoad(coll.metadata, <<>>))
  BY DEF IsCollection
<1>2. reported \in Seq(Parsed(records))
  BY <1>1, ReportParsed DEF reported
<1>3. \A i \in DOMAIN reported : Sound(reported[i])
  <2> SUFFICES ASSUME NEW k \in DOMAIN records
               PROVE  Sound(ParseGpo(records[k]))
    BY <1>2 DEF Parsed
  <2>1. IsGpo(ParseGpo(records[k])) /\ ParseGpo(records[k]).sddl = records[k].sddl /\ ParseGpo(records[k]).paths = {}
    BY DEF IsGpo, GpoFields, ParseGpo
  <2> QED BY <2>1 DEF Sound
<1>4. DOMAIN merged = DOMAIN reported /\ \A i \in DOMAIN reported : Sound(merged[i])
  <2>1. DOMAIN merged = DOMAIN reported
    BY DEF merged, MergeMetadata
  <2>2. ASSUME NEW i \in DOMAIN reported
        PROVE  Sound(merged[i])
    <3>1. IsGpo(reported[i])
      BY <1>3 DEF Sound
    <3>2. IsGpo(merged[i]) /\ \A x \in GpoFields \ {"wmi", "versions"} : merged[i][x] = reported[i][x]
      BY <1>1, <3>1, MetadataKeeps DEF merged
    <3>3. merged[i].sddl = reported[i].sddl /\ merged[i].paths = reported[i].paths
      BY <3>2 DEF GpoFields
    <3> QED BY <1>3, <3>2, <3>3 DEF Sound
  <2> QED BY <2>1, <2>2
<1>5. ASSUME NEW g, IsGpo(g), NEW there
      PROVE  /\ IsGpo([g EXCEPT !.attached = there]) /\ [g EXCEPT !.attached = there].id = g.id
             /\ [g EXCEPT !.attached = there].sddl = g.sddl /\ [g EXCEPT !.attached = there].attached = there
             /\ [g EXCEPT !.attached = there].paths = g.paths
  BY <1>5 DEF IsGpo, GpoFields
<1>6. /\ DOMAIN attached = DOMAIN reported
      /\ \A i \in DOMAIN reported : Sound(attached[i]) /\ Attached(attached[i])
  <2>1. ASSUME NEW i \in DOMAIN reported
        PROVE  Sound(attached[i]) /\ Attached(attached[i])
    <3> DEFINE there == merged[i].id \in DOMAIN coll.sysvol /\ ~coll.sysvol[merged[i].id].escapes
    <3>1. attached[i] = [merged[i] EXCEPT !.attached = there]
      BY <1>4 DEF attached, AttachSysvolPaths
    <3>2. IsGpo(merged[i]) /\ merged[i].paths = {} /\ \E k \in DOMAIN records : merged[i].sddl = records[k].sddl
      BY <1>4 DEF Sound
    <3>3. /\ IsGpo(attached[i]) /\ attached[i].id = merged[i].id
          /\ attached[i].sddl = merged[i].sddl /\ attached[i].attached = there
          /\ attached[i].paths = merged[i].paths
      <4> HIDE DEF there
      <4> QED BY <1>5, <3>1, <3>2
    <3> QED BY <3>2, <3>3 DEF Sound, Attached
  <2> QED BY <1>4, <2>1 DEF attached, AttachSysvolPaths
<1>7. ASSUME NEW g, Sound(g), Attached(g), NEW settings
      PROVE  Sound([g EXCEPT !.settings = settings]) /\ Attached([g EXCEPT !.settings = settings])
  <2>1. /\ IsGpo([g EXCEPT !.settings = settings]) /\ [g EXCEPT !.settings = settings].id = g.id
        /\ [g EXCEPT !.settings = settings].sddl = g.sddl
        /\ [g EXCEPT !.settings = settings].attached = g.attached
        /\ [g EXCEPT !.settings = settings].paths = g.paths
    BY <1>7 DEF Sound, IsGpo, GpoFields
  <2> QED BY <1>7, <2>1 DEF Sound, Attached
<1>8. /\ DOMAIN registry = DOMAIN reported
      /\ \A i \in DOMAIN reported : Sound(registry[i]) /\ Attached(registry[i])
  <2>1. DOMAIN registry = DOMAIN attached
    BY DEF registry, AugmentRegistry
  <2>2. ASSUME NEW i \in DOMAIN reported
        PROVE  registry[i] = attached[i] \/ \E settings : registry[i] = [attached[i] EXCEPT !.settings = settings]
    BY <1>6 DEF registry, AugmentRegistry
  <2> QED BY <1>6, <1>7, <2>1, <2>2
<1>9. /\ DOMAIN gpos = DOMAIN reported
      /\ \A i \in DOMAIN reported : Sound(gpos[i]) /\ Attached(gpos[i])
  <2>1. DOMAIN gpos = DOMAIN registry
    BY DEF gpos, AugmentAudit
  <2>2. ASSUME NEW i \in DOMAIN reported
        PROVE  \E settings : gpos[i] = [registry[i] EXCEPT !.settings = settings]
    BY <1>8 DEF gpos, AugmentAudit
  <2> QED BY <1>7, <1>8, <2>1, <2>2
<1>10. LoadGpos(coll) = gpos
  BY DEF LoadGpos, gpos, registry, attached, merged, reported
<1>11. DOMAIN gpos = 1..Len(gpos) /\ Len(gpos) \in Nat
  <2>1. DOMAIN gpos = 1..Len(reported) /\ Len(reported) \in Nat
    BY <1>2, <1>9
  <2>2. gpos = [i \in 1..Len(reported) |-> gpos[i]]
    <3>1. gpos = [i \in DOMAIN gpos |-> gpos[i]]
      BY DEF gpos, AugmentAudit
    <3> QED BY <2>1, <3>1
  <2>3. gpos \in Seq({gpos[i] : i \in DOMAIN gpos})
    BY <2>1, <2>2
  <2> QED BY <2>3
<1> QED BY <1>9, <1>10, <1>11 DEF Sound, Attached

\* The GPOs of an estate by identifier: each is one that was loaded.
LEMMA EstateGpos ==
    ASSUME NEW coll, IsCollection(coll)
    PROVE  LET gpos == LoadGpos(coll)
               est == LoadEstate(coll)
           IN  /\ GpoIds(est) = {gpos[i].id : i \in DOMAIN gpos}
               /\ \A id \in GpoIds(est) : \E i \in DOMAIN gpos : gpos[i].id = id /\ est.gpos[id] = gpos[i]
<1> DEFINE gpos == LoadGpos(coll)
           ids == {gpos[i].id : i \in DOMAIN gpos}
           last(id) == SelectLastInSeq(gpos, LAMBDA g : g.id = id)
<1> HIDE DEF gpos
<1>1. DOMAIN gpos = 1..Len(gpos) /\ Len(gpos) \in Nat
  BY GposLoaded DEF gpos
<1>2. LoadEstate(coll).gpos = [id \in ids |-> gpos[last(id)]]
  BY DEF LoadEstate, gpos
<1>3. ASSUME NEW id \in ids
      PROVE  last(id) \in DOMAIN gpos /\ gpos[last(id)].id = id
  <2> DEFINE I == {i \in 1..Len(gpos) : gpos[i].id = id}
  <2>1. I \in SUBSET (1..Len(gpos)) /\ I # {}
    BY <1>1
  <2>2. last(id) = Max(I)
    BY <2>1 DEF SelectLastInSeq
  <2>3. Max(I) \in I
    <3> HIDE DEF I
    <3>1. \E x \in I : \A y \in I : x >= y
      BY <1>1, <2>1, HighestExists
    <3> QED BY <3>1 DEF Max
  <2> QED BY <1>1, <2>2, <2>3
<1> HIDE DEF last
<1> QED BY <1>2, <1>3 DEF GpoIds, gpos

\* The store gives back the GPOs it was given, their settings in some order,
\* and the gaps.
LEMMA StoredKeeps ==
    ASSUME NEW coll, IsCollection(coll), NEW flip
    PROVE  LET est == LoadEstate(coll)
               stored == LoadStored(est, flip)
           IN  /\ GpoIds(stored) = GpoIds(est) /\ stored.gaps = est.gaps
               /\ \A id \in GpoIds(est) :
                     /\ IsGpo(est.gpos[id]) /\ IsGpo(stored.gpos[id])
                     /\ \A x \in GpoFields \ {"settings"} : stored.gpos[id][x] = est.gpos[id][x]
<1> DEFINE est == LoadEstate(coll)
           stored == LoadStored(est, flip)
<1>1. "gpos" \in DOMAIN est /\ "gaps" \in DOMAIN est
  BY DEF LoadEstate
<1> HIDE DEF est
<1>2. /\ stored.gpos = [id \in DOMAIN est.gpos |-> LoadedGpo(est.gpos[id], flip)]
      /\ stored.gaps = est.gaps
  BY <1>1 DEF LoadStored
<1> HIDE DEF stored
<1>3. ASSUME NEW id \in DOMAIN est.gpos
      PROVE  /\ IsGpo(est.gpos[id]) /\ IsGpo(stored.gpos[id])
             /\ \A x \in GpoFields \ {"settings"} : stored.gpos[id][x] = est.gpos[id][x]
  <2>1. IsGpo(est.gpos[id])
    BY <1>3, EstateGpos, GposLoaded DEF est, GpoIds
  <2>2. PICK settings : stored.gpos[id] = [est.gpos[id] EXCEPT !.settings = settings]
    BY <1>2 DEF LoadedGpo
  <2> QED BY <2>1, <2>2 DEF IsGpo, GpoFields
<1> QED BY <1>2, <1>3 DEF GpoIds, est, stored

\* Of the files of one name and side that can be opened one is read, if all of
\* them parse.
LEMMA OneIsRead ==
    ASSUME NEW folder, IsFolder(folder), \A h \in ReachableFiles(folder) : h.wellFormed,
           NEW f \in ReachableFiles(folder)
    PROVE  \E h \in WalkGppXml(folder) : h.side = f.side /\ h.name = f.name
<1> DEFINE S == {h \in ReachableFiles(folder) : h.side = f.side /\ h.name = f.name}
           Before(x, y) == y.depth > x.depth \/ (y.depth = x.depth /\ y.rank =< x.rank)
           R == {p \in S \X S : Before(p[1], p[2])}
<1>1. IsFiniteSet(S) /\ S # {}
  <2>1. S \subseteq folder.files /\ f \in S
    BY DEF ReachableFiles
  <2> QED BY <2>1, FS_Subset DEF IsFolder
<1>2. \A h \in S : h.depth \in Nat /\ h.rank \in Nat
  BY DEF ReachableFiles, IsFolder
<1>3. \A x, y \in S : <<x, y>> \in R <=> Before(x, y)
  OBVIOUS
<1> HIDE DEF R, S
<1>4. \A x, y \in S : x = y \/ <<x, y>> \in R \/ <<y, x>> \in R
  <2> SUFFICES ASSUME NEW x \in S, NEW y \in S
               PROVE  Before(x, y) \/ Before(y, x)
    BY <1>3
  <2>1. x.depth \in Nat /\ x.rank \in Nat /\ y.depth \in Nat /\ y.rank \in Nat
    BY <1>2
  <2> QED BY <2>1
<1>5. \A x, y, z \in S : <<x, y>> \in R /\ <<y, z>> \in R => <<x, z>> \in R
  BY <1>2, <1>3
<1>6. PICK x \in S : \A y \in S : y = x \/ <<y, x>> \in R
  BY <1>1, <1>4, <1>5, GreatestExists
<1>7. ASSUME NEW y \in S
      PROVE  y.depth < x.depth \/ (y.depth = x.depth /\ x.rank =< y.rank)
  <2>1. x.depth \in Nat /\ x.rank \in Nat /\ y.depth \in Nat /\ y.rank \in Nat
    BY <1>2
  <2>2. y = x \/ Before(y, x)
    BY <1>3, <1>6
  <2> QED BY <2>1, <2>2
<1>8. x \in WalkGppXml(folder) /\ x.side = f.side /\ x.name = f.name
  BY <1>7 DEF WalkGppXml, S
<1> QED BY <1>8

\* What the collector or the copy could not reach is said in the gaps of every
\* estate that is opened.
THEOREM GapsAreSaid == PipelineSpec => []CoverageHonest
<1>1. ASSUME Provenance, phase = "open"
      PROVE  LET coll == snapshots[opened.of].coll
                 est == opened.est
                 gapped == {gap.gpo : gap \in est.gaps}
                 listed == {r.id : r \in TryLoad(coll.inventory, {}) \cup TryLoad(coll.errors, {})} \ {None}
                 attached == {id \in GpoIds(est) : est.gpos[id].attached}
                 blind(id) == \E f \in coll.sysvol[id].files :
                     ~\E h \in WalkGppXml(coll.sysvol[id]) : h.side = f.side /\ h.name = f.name
             IN  /\ listed \subseteq GpoIds(est) \cup gapped
                 /\ \A id \in attached : blind(id) => id \in gapped
                 /\ attached = {} /\ GpoIds(est) # {} => None \in gapped
  <2> DEFINE coll == snapshots[opened.of].coll
             est == opened.est
             inventory == TryLoad(coll.inventory, {})
             errors == TryLoad(coll.errors, {})
             gapped == {gap.gpo : gap \in est.gaps}
             attached == {id \in GpoIds(est) : est.gpos[id].attached}
             gpos == LoadGpos(coll)
             ids == {gpos[i].id : i \in DOMAIN gpos}
  <2>1. IsCollection(coll)
    BY <1>1, OpenedFrom
  <2>2. PICK flip : est = LoadStored(LoadEstate(coll), flip)
    BY <1>1, OpenedFrom
  <2> HIDE DEF coll, est, gpos
  <2>3. GpoIds(est) = ids
    BY <2>1, <2>2, StoredKeeps, EstateGpos DEF gpos
  <2>4. est.gaps = ParseCoverageGaps(inventory, errors, ids)
                   \cup ScanSysvolGaps(coll.sysvol, gpos) \cup ScanMissingSysvol(gpos)
    <3>1. est.gaps = LoadEstate(coll).gaps
      BY <2>1, <2>2, StoredKeeps
    <3> QED BY <3>1 DEF LoadEstate, gpos
  <2>5. \A i \in DOMAIN gpos : gpos[i].attached = (gpos[i].id \in DOMAIN coll.sysvol
                                                     /\ ~coll.sysvol[gpos[i].id].escapes)
    BY <2>1, GposLoaded DEF gpos
  <2>6. ASSUME NEW id \in GpoIds(est)
        PROVE  \E i \in DOMAIN gpos : gpos[i].id = id /\ est.gpos[id].attached = gpos[i].attached
    <3>1. est.gpos[id].attached = LoadEstate(coll).gpos[id].attached /\ id \in GpoIds(LoadEstate(coll))
      BY <2>1, <2>2, <2>6, StoredKeeps DEF GpoFields
    <3> QED BY <2>1, <3>1, EstateGpos DEF gpos
  <2>7. {r.id : r \in inventory \cup errors} \ {None} \subseteq GpoIds(est) \cup gapped
    <3> SUFFICES ASSUME NEW r \in inventory \cup errors, r.id # None, r.id \notin ids
                 PROVE  \E gap \in est.gaps : gap.gpo = r.id
      BY <2>3
    <3> DEFINE hidden == {x.id : x \in inventory} \ (ids \cup {None})
               failed == {x.id : x \in errors} \ (ids \cup hidden \cup {None})
    <3>1. r.id \in hidden \/ r.id \in failed
      OBVIOUS
    <3>2. \/ [gpo |-> r.id, kind |-> "inaccessible"] \in ParseCoverageGaps(inventory, errors, ids)
          \/ [gpo |-> r.id, kind |-> "collection_error"] \in ParseCoverageGaps(inventory, errors, ids)
      BY <3>1 DEF ParseCoverageGaps
    <3> QED BY <2>4, <3>2
  <2>8. ASSUME NEW id \in attached, NEW f \in coll.sysvol[id].files,
               ~\E h \in WalkGppXml(coll.sysvol[id]) : h.side = f.side /\ h.name = f.name
        PROVE  id \in gapped
    <3> DEFINE folder == coll.sysvol[id]
               copied == {gpos[i].id : i \in {j \in DOMAIN gpos : gpos[j].attached}}
    <3>1. id \in copied /\ IsFolder(folder)
      <4>1. PICK i \in DOMAIN gpos : gpos[i].id = id /\ gpos[i].attached
        BY <2>6
      <4>2. id \in DOMAIN coll.sysvol
        BY <2>5, <4>1
      <4> QED BY <2>1, <4>1, <4>2 DEF IsCollection
    <3>2. \/ folder.lockedSides # {} \/ \E h \in folder.files : h.locked
          \/ \E h \in ReachableFiles(folder) : ~h.wellFormed
      <4>1. CASE f \in ReachableFiles(folder)
        <5> HIDE DEF folder
        <5> QED BY <2>8, <3>1, <4>1, OneIsRead DEF folder
      <4>2. CASE f \notin ReachableFiles(folder)
        BY <4>2 DEF ReachableFiles
      <4> QED BY <4>1, <4>2
    <3>3. \/ [gpo |-> id, kind |-> "unreadable_sysvol"] \in ScanSysvolGaps(coll.sysvol, gpos)
          \/ [gpo |-> id, kind |-> "corrupt_gpp_xml"] \in ScanSysvolGaps(coll.sysvol, gpos)
      BY <3>1, <3>2 DEF ScanSysvolGaps
    <3> QED BY <2>4, <3>3
  <2>9. ASSUME attached = {}, GpoIds(est) # {}
        PROVE  None \in gapped
    <3>1. \A i \in DOMAIN gpos : ~gpos[i].attached
      <4> SUFFICES ASSUME NEW i \in DOMAIN gpos, gpos[i].attached
                   PROVE  FALSE
        OBVIOUS
      <4>1. gpos[i].id \in GpoIds(est)
        BY <2>3
      <4>2. PICK j \in DOMAIN gpos : gpos[j].id = gpos[i].id /\ est.gpos[gpos[i].id].attached = gpos[j].attached
        BY <2>6, <4>1
      <4>3. est.gpos[gpos[i].id].attached
        BY <2>5, <4>2
      <4> QED BY <2>9, <4>1, <4>3
    <3>2. gpos # <<>>
      BY <2>3, <2>9
    <3>3. [gpo |-> None, kind |-> "missing_sysvol"] \in ScanMissingSysvol(gpos)
      BY <3>1, <3>2 DEF ScanMissingSysvol
    <3> QED BY <2>4, <3>3
  <2> QED BY <2>7, <2>8, <2>9 DEF coll, est
<1>2. Provenance => CoverageHonest
  BY <1>1 DEF CoverageHonest
<1> QED BY <1>2, ImportInvariance, PTL

----------------------------------------------------------------------------
(* The spelling of a trustee.                                              *)

Respelt(ace, form) ==
    IF ace.sid.who \in Absolute \cup DomainRelative THEN [ace EXCEPT !.sid.form = form] ELSE ace

\* Spelt otherwise, an entry of an access list keeps its kind, its rights and,
\* once the domain is known, the account it is about.
LEMMA RespeltAlike ==
    ASSUME NEW sddl, IsAcl(sddl), NEW ace \in sddl.dacl, NEW form \in {"sid", "alias"},
           NEW known \in BOOLEAN, known
    PROVE  LET other == Respelt(ace, form)
           IN  /\ other.type = ace.type /\ other.fields = ace.fields /\ other.rights = ace.rights
               /\ CanonicalSddlSid(other.sid, known) = CanonicalSddlSid(ace.sid, known)
<1>1. ace = [x \in {"type", "fields", "rights", "sid"} |-> ace[x]]
  BY DEF IsAcl
<1>2. ace.sid = Sid(ace.sid.who) \/ ace.sid = Alias(ace.sid.who)
  BY DEF IsAcl
<1>3. CASE ace.sid.who \notin Absolute \cup DomainRelative
  BY <1>3 DEF Respelt
<1>4. CASE ace.sid.who \in Absolute \cup DomainRelative
  <2> DEFINE who == ace.sid.who
  <2>1. Respelt(ace, form) = [ace EXCEPT !.sid = [form |-> form, who |-> who]]
    <3>1. [ace.sid EXCEPT !.form = form] = [form |-> form, who |-> who]
      BY <1>2 DEF Sid, Alias
    <3>2. Respelt(ace, form) = [ace EXCEPT !.sid = [ace.sid EXCEPT !.form = form]]
      BY <1>4 DEF Respelt
    <3> QED BY <3>1, <3>2
  <2>2. Respelt(ace, form).sid = [form |-> form, who |-> who]
    BY <1>1, <2>1
  <2>3. CanonicalSddlSid(Respelt(ace, form).sid, known) = Sid(who)
    BY <1>4, <2>2 DEF CanonicalSddlSid, Sid
  <2>4. CanonicalSddlSid(ace.sid, known) = Sid(who)
    BY <1>2, <1>4 DEF CanonicalSddlSid, Sid, Alias
  <2>5. /\ Respelt(ace, form).type = ace.type /\ Respelt(ace, form).fields = ace.fields
        /\ Respelt(ace, form).rights = ace.rights
    BY <1>1, <2>1
  <2> QED BY <2>3, <2>4, <2>5
<1> QED BY <1>3, <1>4

\* What an access list gives and takes does not depend on the spelling.
LEMMA SpeltAlike ==
    ASSUME NEW g, IsGpo(g), IsAcl(g.sddl), NEW form \in {"sid", "alias"},
           NEW known \in BOOLEAN, known, NEW est
    PROVE  LET other == [g EXCEPT !.sddl = Spelt(@, form)]
           IN  /\ ApplyTrustees(other, est, known) = ApplyTrustees(g, est, known)
               /\ other.delegation = g.delegation
               /\ (other.sddl = NoSddl) = (g.sddl = NoSddl)
<1> DEFINE other == [g EXCEPT !.sddl = Spelt(@, form)]
           spelt == Spelt(g.sddl, form)
           spell(ace) == Respelt(ace, form)
           dacl == ParseSddl(g.sddl).dacl
           dacl2 == ParseSddl(spelt).dacl
           sid(ace) == CanonicalSddlSid(ace.sid, known)
<1>1. other.delegation = g.delegation /\ other.sddl = spelt
  BY DEF IsGpo, GpoFields
<1>2. spelt = [g.sddl EXCEPT !.dacl = {spell(ace) : ace \in g.sddl.dacl}]
  BY DEF Spelt, Respelt
<1>3. g.sddl = [x \in {"oversized", "absent", "owner", "dacl", "sacl"} |-> g.sddl[x]]
  BY DEF IsAcl, NoSddl
<1>4. /\ spelt.oversized = g.sddl.oversized /\ spelt.dacl = {spell(ace) : ace \in g.sddl.dacl}
      /\ spelt.absent = g.sddl.absent /\ spelt.owner = g.sddl.owner /\ spelt.sacl = g.sddl.sacl
  BY <1>2, <1>3
<1>5. \A ace \in g.sddl.dacl :
         /\ spell(ace).type = ace.type /\ spell(ace).fields = ace.fields
         /\ spell(ace).rights = ace.rights /\ sid(spell(ace)) = sid(ace)
  BY RespeltAlike
<1> HIDE DEF spell, sid, spelt, other
<1>6. dacl \subseteq g.sddl.dacl /\ dacl2 = {spell(ace) : ace \in dacl}
  <2>1. CASE g.sddl.oversized
    BY <1>4, <2>1 DEF ParseSddl
  <2>2. CASE ~g.sddl.oversized
    <3>1. dacl = {ace \in g.sddl.dacl : ace.fields >= 6 /\ ace.type \in KnownTypes}
      BY <2>2 DEF ParseSddl
    <3>2. dacl2 = {ace \in spelt.dacl : ace.fields >= 6 /\ ace.type \in KnownTypes}
      BY <1>4, <2>2 DEF ParseSddl
    <3> HIDE DEF dacl, dacl2
    <3> QED BY <1>4, <1>5, <3>1, <3>2
  <2> QED BY <2>1, <2>2
<1> HIDE DEF dacl, dacl2
<1>7. {sid(ace) : ace \in dacl2} = {sid(ace) : ace \in dacl}
  BY <1>5, <1>6
<1>8. ASSUME NEW s
      PROVE  /\ AceRights({a \in dacl2 : IsAllow(a)}, known, s) = AceRights({a \in dacl : IsAllow(a)}, known, s)
             /\ AceRights({a \in dacl2 : IsDeny(a)}, known, s) = AceRights({a \in dacl : IsDeny(a)}, known, s)
  <2>1. \A a \in dacl : (IsAllow(spell(a)) <=> IsAllow(a)) /\ (IsDeny(spell(a)) <=> IsDeny(a))
    BY <1>5, <1>6 DEF IsAllow, IsDeny
  <2>2. {ParseSddlRights(a.rights) : a \in {x \in {y \in dacl2 : IsAllow(y)} : sid(x) = s}}
         = {ParseSddlRights(a.rights) : a \in {x \in {y \in dacl : IsAllow(y)} : sid(x) = s}}
    BY <1>5, <1>6, <2>1
  <2>3. {ParseSddlRights(a.rights) : a \in {x \in {y \in dacl2 : IsDeny(y)} : sid(x) = s}}
         = {ParseSddlRights(a.rights) : a \in {x \in {y \in dacl : IsDeny(y)} : sid(x) = s}}
    BY <1>5, <1>6, <2>1
  <2> QED BY <2>2, <2>3 DEF AceRights, sid
<1>9. ApplyTrustees(other, est, known) = ApplyTrustees(g, est, known)
  <2> DEFINE sids == {sid(ace) : ace \in dacl}
             allow(s) == AceRights({a \in dacl : IsAllow(a)}, known, s)
             deny(s) == AceRights({a \in dacl : IsDeny(a)}, known, s)
             sids2 == {sid(ace) : ace \in dacl2}
             allow2(s) == AceRights({a \in dacl2 : IsAllow(a)}, known, s)
             deny2(s) == AceRights({a \in dacl2 : IsDeny(a)}, known, s)
  <2>1. CASE g.delegation # {}
    BY <1>1, <2>1 DEF ApplyTrustees
  <2>2. CASE g.delegation = {}
    <3>1. ApplyTrustees(g, est, known) =
            [allow |-> {s \in sids : (allow(s) \ deny(s)) \cap ApplyRights # {}},
             deny |-> {s \in sids : deny(s) \cap ReadOrApplyRights # {}}]
      BY <2>2 DEF ApplyTrustees, dacl, sid
    <3>2. ApplyTrustees(other, est, known) =
            [allow |-> {s \in sids2 : (allow2(s) \ deny2(s)) \cap ApplyRights # {}},
             deny |-> {s \in sids2 : deny2(s) \cap ReadOrApplyRights # {}}]
      BY <1>1, <2>2 DEF ApplyTrustees, dacl2, sid
    <3>3. sids2 = sids /\ \A s : allow2(s) = allow(s) /\ deny2(s) = deny(s)
      BY <1>7, <1>8
    <3> HIDE DEF sids, allow, deny, sids2, allow2, deny2
    <3>4. {s \in sids2 : (allow2(s) \ deny2(s)) \cap ApplyRights # {}}
            = {s \in sids : (allow(s) \ deny(s)) \cap ApplyRights # {}}
      BY <3>3
    <3>5. {s \in sids2 : deny2(s) \cap ReadOrApplyRights # {}} = {s \in sids : deny(s) \cap ReadOrApplyRights # {}}
      BY <3>3
    <3> QED BY <3>1, <3>2, <3>4, <3>5
  <2> QED BY <2>1, <2>2
<1>10. (other.sddl = NoSddl) = (g.sddl = NoSddl)
  <2>1. ASSUME g.sddl = NoSddl
        PROVE  spelt = NoSddl
    <3>1. {spell(ace) : ace \in g.sddl.dacl} = g.sddl.dacl
      BY <2>1 DEF NoSddl
    <3> QED BY <1>2, <1>3, <2>1, <3>1 DEF NoSddl
  <2>2. ASSUME spelt = NoSddl
        PROVE  g.sddl = NoSddl
    <3>1. {spell(ace) : ace \in g.sddl.dacl} = {}
      BY <1>4, <2>2 DEF NoSddl
    <3>2. g.sddl.dacl = {}
      BY <3>1
    <3>3. /\ g.sddl.oversized = FALSE /\ g.sddl.absent = TRUE
          /\ g.sddl.owner = Nobody /\ g.sddl.sacl = {}
      BY <1>4, <2>2 DEF NoSddl
    <3> QED BY <1>3, <3>2, <3>3 DEF NoSddl
  <2> QED BY <1>1, <2>1, <2>2
<1> QED BY <1>1, <1>9, <1>10 DEF other

\* Who gets a GPO does not depend on how its access list spells a trustee.
THEOREM SpellingIsIdle == PipelineSpec => []TrusteeFormIrrelevant
<1>1. Provenance => TrusteeFormIrrelevant
  <2> SUFFICES ASSUME Provenance, phase = "open", NEW id \in GpoIds(opened.est), NEW w \in Principals,
                      NEW form \in {"sid", "alias"}, DomainKnown(opened.est, w)
               PROVE  LET g == opened.est.gpos[id]
                          token == BuildToken(opened.est, w)
                          gate(x) == PassesGate(x, token, opened.est, DomainKnown(opened.est, w))
                      IN  gate(g) = gate([g EXCEPT !.sddl = Spelt(@, form)])
    BY DEF TrusteeFormIrrelevant
  <2> DEFINE coll == snapshots[opened.of].coll
             est == opened.est
             g == est.gpos[id]
             known == DomainKnown(est, w)
  <2>1. IsCollection(coll)
    BY OpenedFrom
  <2>2. PICK flip : est = LoadStored(LoadEstate(coll), flip)
    BY OpenedFrom
  <2> HIDE DEF coll, est
  <2>3. IsGpo(g) /\ id \in GpoIds(LoadEstate(coll)) /\ g.sddl = LoadEstate(coll).gpos[id].sddl
    <3>1. id \in GpoIds(LoadEstate(coll))
      BY <2>1, <2>2, StoredKeeps DEF est
    <3> QED BY <2>1, <2>2, <3>1, StoredKeeps DEF GpoFields
  <2>4. IsAcl(g.sddl)
    <3>1. \E k \in DOMAIN coll.report.records : g.sddl = coll.report.records[k].sddl
      BY <2>1, <2>3, EstateGpos, GposLoaded
    <3> QED BY <2>1, <3>1 DEF IsCollection
  <2>5. known \in BOOLEAN /\ known
    BY DEF DomainKnown, EstateDomainKnown, est
  <2> DEFINE other == [g EXCEPT !.sddl = Spelt(@, form)]
  <2>6. /\ ApplyTrustees(other, est, known) = ApplyTrustees(g, est, known)
        /\ other.delegation = g.delegation /\ (other.sddl = NoSddl) = (g.sddl = NoSddl)
    <3> HIDE DEF known, g
    <3> QED BY <2>3, <2>4, <2>5, SpeltAlike
  <2> HIDE DEF other, g, known
  <2>7. PassesGate(g, BuildToken(est, w), est, known) = PassesGate(other, BuildToken(est, w), est, known)
    BY <2>6 DEF PassesGate, Admits
  <2> QED BY <2>7 DEF other, g, known, est
<1> QED BY <1>1, ImportInvariance, PTL

-----------------------------------------------------------------------------
(* What parsing makes of the settings of a GPO: those of its report, with  *)
(* what the side files of its folder resolve and add; and what is blocked. *)

\* The settings of a side of a report.
LEMMA SideParsed ==
    ASSUME NEW part, IsSequence(part.blocks), NEW side
    PROVE  /\ IsSequence(ParseSide(part, side))
           /\ \A s \in Range(ParseSide(part, side)) : s.side = side /\ s.blocked \in BOOLEAN
<1> DEFINE blocks == part.blocks
           setting(i) ==
            [cse |-> part.blocks[i].cse, side |-> side, id |-> Identity(part.blocks, i),
             value |-> part.blocks[i].value, action |-> part.blocks[i].action,
             loop |-> part.blocks[i].loop, off |-> ~part.enabled,
             blocked |-> part.blocks[i].kind \in {"blocked", "unclassified"}]
           all == [i \in DOMAIN part.blocks |-> setting(i)]
<1>1. \A i \in DOMAIN part.blocks : setting(i).side = side /\ setting(i).blocked \in BOOLEAN
  OBVIOUS
<1>2. ParseSide(part, side) = IF part.present THEN Kept(all, EmittedBlocks(part.blocks)) ELSE <<>>
  BY DEF ParseSide
<1> HIDE DEF setting
<1>3. IsSequence(all) /\ DOMAIN all = DOMAIN part.blocks
  BY MappedShape
<1>4. \A i \in DOMAIN all : all[i].side = side /\ all[i].blocked \in BOOLEAN
  BY <1>1
<1> HIDE DEF all
<1>5. /\ IsSequence(Kept(all, EmittedBlocks(part.blocks)))
      /\ Range(Kept(all, EmittedBlocks(part.blocks))) = {all[i] : i \in DOMAIN all \cap EmittedBlocks(part.blocks)}
  BY <1>3, KeptShape
<1> QED BY <1>2, <1>4, <1>5, EmptyShape

\* The settings of a GPO of a report.
LEMMA SettingsParsed ==
    ASSUME NEW r, \A side \in Sides : IsSequence(r.sides[side].blocks)
    PROVE  /\ IsSequence(ParseSettings(r))
           /\ \A s \in Range(ParseSettings(r)) : s.side \in Sides /\ s.blocked \in BOOLEAN
<1>1. /\ IsSequence(ParseSide(r.sides["Computer"], "Computer"))
      /\ IsSequence(ParseSide(r.sides["User"], "User"))
  BY SideParsed DEF Sides
<1>2. IsConcat(ParseSettings(r), ParseSide(r.sides["Computer"], "Computer"), ParseSide(r.sides["User"], "User"))
  BY <1>1, ConcatShape DEF ParseSettings
<1> QED BY <1>2, SideParsed DEF IsConcat, Sides

\* What a copied Registry.pol gives for a side: its records before the first
\* torn one.
WholeRecords(chunks) ==
    {n \in DOMAIN chunks : chunks[n].kind = "record" /\ \A m \in 1..n : chunks[m].kind # "torn"}
PolSetting(side, c) == [cse |-> "registry", side |-> side, id |-> c.id, value |-> c.value,
                        action |-> "U", loop |-> NoLoop, off |-> FALSE, blocked |-> FALSE]
PolSettings(chunks, side) == {PolSetting(side, chunks[n]) : n \in WholeRecords(chunks)}

\* What is read of a file of registry records.
LEMMA PolParsed ==
    ASSUME NEW chunks, IsSequence(chunks)
    PROVE  /\ IsSequence(ParseRegistryPol(chunks))
           /\ Range(ParseRegistryPol(chunks)) = {chunks[n] : n \in WholeRecords(chunks)}
<1> DEFINE N == Len(chunks)
           torn == {i \in DOMAIN chunks : chunks[i].kind = "torn"}
           read == IF torn = {} THEN chunks ELSE SubSeq(chunks, 1, Min(torn) - 1)
<1>1. N \in Nat /\ DOMAIN chunks = 1..N
  BY ListShape
<1>2. ParseRegistryPol(chunks) = Kept(read, {i \in DOMAIN read : read[i].kind = "record"})
  BY DEF ParseRegistryPol
<1>3. /\ IsSequence(read) /\ \A i \in DOMAIN read : i \in DOMAIN chunks /\ read[i] = chunks[i]
      /\ DOMAIN read = {n \in DOMAIN chunks : \A m \in 1..n : chunks[m].kind # "torn"}
  <2>1. CASE torn = {}
    <3>1. \A n \in DOMAIN chunks : \A m \in 1..n : m \in DOMAIN chunks
      BY <1>1
    <3> QED BY <2>1, <3>1
  <2>2. CASE torn # {}
    <3> DEFINE first == Min(torn)
    <3>1. first \in torn /\ \A x \in torn : first =< x
      <4>1. torn \in SUBSET Nat
        BY <1>1
      <4> HIDE DEF torn
      <4> QED BY <2>2, <4>1, MinOf
    <3> HIDE DEF first
    <3>2. first \in 1..N /\ chunks[first].kind = "torn" /\ first - 1 \in Nat /\ first - 1 =< N
      BY <1>1, <3>1
    <3>3. read = SubSeq(chunks, 1, first - 1)
      BY <2>2 DEF first
    <3>4. /\ IsSequence(read) /\ DOMAIN read = 1..(first - 1)
          /\ \A i \in 1..(first - 1) : i \in DOMAIN chunks /\ read[i] = chunks[i]
      <4> HIDE DEF read
      <4> QED BY <3>2, <3>3, PrefixShape
    <3>5. ASSUME NEW n \in 1..(first - 1), NEW m \in 1..n
          PROVE  chunks[m].kind # "torn"
      <4>1. m \in DOMAIN chunks /\ ~(first =< m)
        BY <1>1, <3>2
      <4> QED BY <3>1, <4>1
    <3>6. ASSUME NEW n \in DOMAIN chunks, \A m \in 1..n : chunks[m].kind # "torn"
          PROVE  n \in 1..(first - 1)
      <4>1. first \notin 1..n
        BY <3>2, <3>6
      <4> QED BY <1>1, <3>2, <4>1
    <3> HIDE DEF read
    <3> QED BY <3>4, <3>5, <3>6
  <2> QED BY <2>1, <2>2
<1> HIDE DEF read, N
<1>4. /\ IsSequence(ParseRegistryPol(chunks))
      /\ Range(ParseRegistryPol(chunks)) =
            {read[i] : i \in DOMAIN read \cap {j \in DOMAIN read : read[j].kind = "record"}}
  BY <1>2, <1>3, KeptShape
<1> QED BY <1>3, <1>4 DEF WholeRecords

\* The sides of a GPO whose placeholder gives way.
ResolvedSides(sysvol, g) ==
    {side \in Sides : /\ g.attached /\ \E s \in SettingsOf(g) : BlockedRegistry(s) /\ s.side = side
                      /\ WholeRecords(sysvol[g.id].pol[side]) # {}}

\* A GPO's settings with the placeholders of some sides resolved.
Resolved(sysvol, g) ==
    {s \in SettingsOf(g) : ~(BlockedRegistry(s) /\ s.side \in ResolvedSides(sysvol, g))}
    \cup UNION {PolSettings(sysvol[g.id].pol[side], side) : side \in ResolvedSides(sysvol, g)}

\* What the registry files of the folders make of a GPO's settings.
LEMMA RegistryAugmented ==
    ASSUME NEW sysvol, NEW gpos, NEW i \in DOMAIN gpos, IsGpo(gpos[i]), IsSequence(gpos[i].settings),
           gpos[i].attached => gpos[i].id \in DOMAIN sysvol /\ IsFolder(sysvol[gpos[i].id])
    PROVE  LET g == AugmentRegistry(sysvol, gpos)[i]
           IN  /\ IsSequence(g.settings) /\ SettingsOf(g) = Resolved(sysvol, gpos[i])
               /\ \A x \in GpoFields \ {"settings"} : g[x] = gpos[i][x]
<1> DEFINE old == gpos[i]
           record(side, c) == [cse |-> "registry", side |-> side, id |-> c.id, value |-> c.value,
                               action |-> "U", loop |-> NoLoop, off |-> FALSE, blocked |-> FALSE]
           pol(side) == ParseRegistryPol(sysvol[old.id].pol[side])
           records(side) == [k \in DOMAIN pol(side) |-> record(side, pol(side)[k])]
           sides == {side \in Sides :
                        /\ \E k \in DOMAIN old.settings : BlockedRegistry(old.settings[k]) /\ old.settings[k].side = side
                        /\ records(side) # <<>>}
           lists == [k \in 1..Cardinality(sides) |-> records(SetToSeq(sides)[k])]
           keep == {k \in DOMAIN old.settings : ~(BlockedRegistry(old.settings[k]) /\ old.settings[k].side \in sides)}
           new == Kept(old.settings, keep) \o FlattenSeq(lists)
<1>1. CASE ~old.attached
  <2>1. AugmentRegistry(sysvol, gpos)[i] = old
    BY <1>1 DEF AugmentRegistry
  <2>2. ResolvedSides(sysvol, old) = {}
    BY <1>1 DEF ResolvedSides
  <2>3. Resolved(sysvol, old) = SettingsOf(old)
    BY <2>2 DEF Resolved
  <2> QED BY <2>1, <2>3
<1>2. CASE old.attached
  <2>1. AugmentRegistry(sysvol, gpos)[i] = [old EXCEPT !.settings = new]
    BY <1>2 DEF AugmentRegistry
  <2>2. ASSUME NEW side \in Sides
        PROVE  /\ IsSequence(records(side)) /\ Range(records(side)) = PolSettings(sysvol[old.id].pol[side], side)
               /\ records(side) # <<>> <=> WholeRecords(sysvol[old.id].pol[side]) # {}
    <3> DEFINE chunks == sysvol[old.id].pol[side]
    <3>1. IsSequence(chunks)
      BY <1>2 DEF IsFolder
    <3>2. IsSequence(pol(side)) /\ Range(pol(side)) = {chunks[n] : n \in WholeRecords(chunks)}
      BY <3>1, PolParsed
    <3> HIDE DEF pol, chunks
    <3>3. IsSequence(records(side)) /\ DOMAIN records(side) = DOMAIN pol(side)
      BY <3>2, MappedShape
    <3>4. \A k \in DOMAIN pol(side) : records(side)[k] = PolSetting(side, pol(side)[k])
      BY DEF PolSetting
    <3> HIDE DEF records
    <3>5. Range(records(side)) = {PolSetting(side, c) : c \in Range(pol(side))}
      BY <3>3, <3>4 DEF Range
    <3>6. Range(records(side)) = PolSettings(chunks, side)
      BY <3>2, <3>5 DEF PolSettings
    <3>7. records(side) # <<>> <=> Range(records(side)) # {}
      <4>1. DOMAIN records(side) = 1..Len(records(side)) /\ Len(records(side)) \in Nat
        BY <3>3, ListShape
      <4>2. records(side) = <<>> => Range(records(side)) = {}
        BY EmptyShape
      <4>3. ASSUME Range(records(side)) = {}
            PROVE  records(side) = <<>>
        <5>1. DOMAIN records(side) = {}
          BY <4>3 DEF Range
        <5> QED BY <3>3, <5>1 DEF IsSequence
      <4> QED BY <4>2, <4>3
    <3>8. PolSettings(chunks, side) # {} <=> WholeRecords(chunks) # {}
      BY DEF PolSettings
    <3> QED BY <3>3, <3>6, <3>7, <3>8 DEF chunks
  <2> HIDE DEF pol, records
  <2>3. sides = ResolvedSides(sysvol, old)
    BY <1>2, <2>2 DEF ResolvedSides, SettingsOf
  <2>4. IsFiniteSet(sides)
    <3>1. IsFiniteSet({"Computer", "User"})
      <4>1. IsFiniteSet({"Computer"} \cup {"User"})
        BY FS_Singleton, FS_AddElement
      <4>2. {"Computer"} \cup {"User"} = {"Computer", "User"}
        OBVIOUS
      <4> QED BY <4>1, <4>2
    <3>2. sides \subseteq {"Computer", "User"}
      BY DEF Sides
    <3> HIDE DEF sides
    <3> QED BY <3>1, <3>2, FS_Subset
  <2>5. /\ DOMAIN SetToSeq(sides) = 1..Cardinality(sides) /\ Cardinality(sides) \in Nat
        /\ Range(SetToSeq(sides)) = sides
    <3> HIDE DEF sides
    <3> QED BY <2>4, SetListed
  <2>6. sides \subseteq Sides
    OBVIOUS
  <2>7. keep = {k \in DOMAIN old.settings : ~(BlockedRegistry(old.settings[k]) /\ old.settings[k].side \in sides)}
    OBVIOUS
  <2> HIDE DEF sides, keep
  <2>8. IsSequence(lists) /\ DOMAIN lists = 1..Cardinality(sides)
    <3>1. lists = [k \in 1..Cardinality(sides) |-> lists[k]]
      OBVIOUS
    <3> HIDE DEF lists
    <3> QED BY <2>5, <3>1, IsList
  <2>9. \A k \in 1..Cardinality(sides) : SetToSeq(sides)[k] \in sides /\ lists[k] = records(SetToSeq(sides)[k])
    BY <2>5 DEF Range
  <2>10. \A side \in sides : \E k \in 1..Cardinality(sides) : SetToSeq(sides)[k] = side
    BY <2>5 DEF Range
  <2> HIDE DEF lists
  <2>11. IsLists(lists)
    BY <2>2, <2>6, <2>8, <2>9 DEF IsLists
  <2>12. IsSequence(FlattenSeq(lists)) /\ Range(FlattenSeq(lists)) = UNION {Range(records(side)) : side \in sides}
    <3>1. /\ IsSequence(FlattenSeq(lists))
          /\ Range(FlattenSeq(lists)) = UNION {Range(lists[k]) : k \in 1..Cardinality(sides)}
      BY <2>8, <2>11, FlatRange
    <3>2. {Range(lists[k]) : k \in 1..Cardinality(sides)} = {Range(records(side)) : side \in sides}
      BY <2>9, <2>10
    <3> QED BY <3>1, <3>2
  <2>13. /\ IsSequence(Kept(old.settings, keep))
         /\ Range(Kept(old.settings, keep)) = {old.settings[k] : k \in DOMAIN old.settings \cap keep}
    BY KeptShape
  <2>14. IsConcat(new, Kept(old.settings, keep), FlattenSeq(lists))
    BY <2>12, <2>13, ConcatShape
  <2>15. IsSequence(new) /\ Range(new) = Resolved(sysvol, old)
    <3>1. Range(new) = Range(Kept(old.settings, keep)) \cup Range(FlattenSeq(lists))
      BY <2>14 DEF IsConcat
    <3>2. Range(Kept(old.settings, keep)) = {s \in SettingsOf(old) : ~(BlockedRegistry(s) /\ s.side \in sides)}
      BY <2>7, <2>13 DEF SettingsOf
    <3>3. Range(FlattenSeq(lists)) = UNION {PolSettings(sysvol[old.id].pol[side], side) : side \in sides}
      BY <2>2, <2>6, <2>12
    <3> QED BY <2>3, <2>14, <3>1, <3>2, <3>3 DEF Resolved, IsConcat
  <2> HIDE DEF new
  <2>16. [old EXCEPT !.settings = new].settings = new /\ \A x \in GpoFields \ {"settings"} : [old EXCEPT !.settings = new][x] = old[x]
    BY DEF IsGpo, GpoFields
  <2>17. SettingsOf([old EXCEPT !.settings = new]) = Range(new)
    BY <2>16 DEF SettingsOf, Range
  <2> QED BY <2>1, <2>15, <2>16, <2>17
<1> QED BY <1>1, <1>2

\* Settings of the audit file, and placeholders for what it does not give.
LEMMA AuditAugmented ==
    ASSUME NEW sysvol, NEW gpos, NEW i \in DOMAIN gpos, IsGpo(gpos[i]), IsSequence(gpos[i].settings),
           gpos[i].attached => gpos[i].id \in DOMAIN sysvol /\ IsFolder(sysvol[gpos[i].id])
    PROVE  LET g == AugmentAudit(sysvol, gpos)[i]
           IN  /\ IsSequence(g.settings) /\ SettingsOf(gpos[i]) \subseteq SettingsOf(g)
               /\ \A s \in SettingsOf(g) \ SettingsOf(gpos[i]) : s.cse = "audit"
               /\ \A x \in GpoFields \ {"settings"} : g[x] = gpos[i][x]
<1> DEFINE old == gpos[i]
           csv == sysvol[old.id].audit
           added == CASE ~old.attached \/ csv.state = "absent" -> <<>>
                      [] old.attached /\ csv.state = "corrupt" ->
                            <<AuditSetting(old, "audit.csv unreadable", NoNumber, TRUE)>>
                      [] OTHER -> AuditRows(old, csv.records)
           new == old.settings \o added
<1>1. AugmentAudit(sysvol, gpos)[i] = [old EXCEPT !.settings = new]
  BY DEF AugmentAudit
<1>2. IsSequence(added) /\ \A s \in Range(added) : s.cse = "audit"
  <2>1. CASE added = <<>>
    BY <2>1, EmptyShape
  <2>2. CASE added = <<AuditSetting(old, "audit.csv unreadable", NoNumber, TRUE)>>
    <3> DEFINE row == AuditSetting(old, "audit.csv unreadable", NoNumber, TRUE)
    <3>1. row.cse = "audit"
      BY DEF AuditSetting
    <3> HIDE DEF row
    <3>2. <<row>> = [k \in 1..1 |-> <<row>>[k]] /\ Range(<<row>>) = {row}
      BY DEF Range
    <3> QED BY <2>2, <3>1, <3>2, IsList DEF row
  <2>3. CASE old.attached /\ added = AuditRows(old, csv.records)
    <3> DEFINE rows == csv.records
               xml == {old.settings[k].id : k \in {j \in DOMAIN old.settings :
                          old.settings[j].cse = "audit" /\ old.settings[j].side = "Computer"}}
               id(n) == IF rows[n].valid THEN rows[n].id ELSE "row " \o ToString(n)
               new1 == {n \in DOMAIN rows : id(n) \notin xml \cup {id(m) : m \in 1..(n - 1)}}
               all == [n \in DOMAIN rows |-> AuditSetting(old, id(n), rows[n].value, ~rows[n].valid)]
    <3>1. IsSequence(rows)
      BY <2>3 DEF IsFolder
    <3>2. AuditRows(old, rows) = Kept(all, new1)
      BY DEF AuditRows
    <3>3. \A n \in DOMAIN rows : all[n].cse = "audit"
      BY DEF AuditSetting
    <3> HIDE DEF rows, id, new1
    <3>4. IsSequence(all) /\ DOMAIN all = DOMAIN rows
      BY <3>1, MappedShape
    <3> HIDE DEF all
    <3>5. IsSequence(Kept(all, new1)) /\ Range(Kept(all, new1)) = {all[n] : n \in DOMAIN all \cap new1}
      BY <3>4, KeptShape
    <3>6. added = Kept(all, new1)
      BY <2>3, <3>2 DEF rows
    <3> HIDE DEF added
    <3> QED BY <3>3, <3>4, <3>5, <3>6
  <2>4. \/ added = <<>> \/ added = <<AuditSetting(old, "audit.csv unreadable", NoNumber, TRUE)>>
        \/ old.attached /\ added = AuditRows(old, csv.records)
    <3> HIDE DEF csv
    <3>1. CASE ~old.attached \/ csv.state = "absent"
      BY <3>1
    <3>2. CASE ~(~old.attached \/ csv.state = "absent") /\ csv.state = "corrupt"
      BY <3>2
    <3>3. CASE ~(~old.attached \/ csv.state = "absent") /\ csv.state # "corrupt"
      BY <3>3
    <3> QED BY <3>1, <3>2, <3>3
  <2> QED BY <2>1, <2>2, <2>3, <2>4
<1> HIDE DEF added
<1>3. IsConcat(new, old.settings, added)
  BY <1>2, ConcatShape
<1>4. IsSequence(new) /\ Range(new) = SettingsOf(old) \cup Range(added)
  BY <1>3 DEF IsConcat, SettingsOf, Range
<1> HIDE DEF new
<1>5. /\ [old EXCEPT !.settings = new].settings = new
      /\ \A x \in GpoFields \ {"settings"} : [old EXCEPT !.settings = new][x] = old[x]
  BY DEF IsGpo, GpoFields
<1>6. SettingsOf([old EXCEPT !.settings = new]) = Range(new)
  BY <1>5 DEF SettingsOf, Range
<1> QED BY <1>1, <1>2, <1>4, <1>5, <1>6

\* The reported GPOs keep their identifiers and settings through the side
\* files; what the copied folders make of the settings is as above.
LEMMA LoadedSettings ==
    ASSUME NEW coll, IsCollection(coll)
    PROVE  LET reported == ParseReport(coll.report.records)
               gpos == LoadGpos(coll)
           IN  /\ reported \in Seq(Parsed(coll.report.records)) /\ DOMAIN gpos = DOMAIN reported
               /\ \A i \in DOMAIN reported :
                     /\ IsSequence(reported[i].settings)
                     /\ \A s \in SettingsOf(reported[i]) : s.side \in Sides /\ s.blocked \in BOOLEAN
                     /\ IsSequence(gpos[i].settings) /\ gpos[i].id = reported[i].id
                     /\ \E there \in BOOLEAN :
                           LET g == [reported[i] EXCEPT !.attached = there]
                           IN  /\ there = gpos[i].attached /\ Resolved(coll.sysvol, g) \subseteq SettingsOf(gpos[i])
                               /\ \A s \in SettingsOf(gpos[i]) \ Resolved(coll.sysvol, g) : s.cse = "audit"
<1> DEFINE records == coll.report.records
           reported == ParseReport(records)
           merged == MergeMetadata(reported, TryLoad(coll.metadata, <<>>))
           attached == AttachSysvolPaths(coll.sysvol, merged)
           registry == AugmentRegistry(coll.sysvol, attached)
           gpos == AugmentAudit(coll.sysvol, registry)
<1> HIDE DEF reported, merged, attached, registry, gpos
<1>1. IsSequence(records) /\ IsSequence(TryLoad(coll.metadata, <<>>))
  BY DEF IsCollection
<1>2. reported \in Seq(Parsed(records))
  BY <1>1, ReportParsed DEF reported
<1>3. ASSUME NEW i \in DOMAIN reported
      PROVE  /\ IsGpo(reported[i]) /\ IsSequence(reported[i].settings)
             /\ \A s \in SettingsOf(reported[i]) : s.side \in Sides /\ s.blocked \in BOOLEAN
  <2>1. PICK k \in DOMAIN records : reported[i] = ParseGpo(records[k])
    BY <1>2 DEF Parsed
  <2>2. IsGpo(ParseGpo(records[k])) /\ ParseGpo(records[k]).settings = ParseSettings(records[k])
    BY DEF IsGpo, GpoFields, ParseGpo
  <2>3. \A side \in Sides : IsSequence(records[k].sides[side].blocks)
    BY DEF IsCollection
  <2>4. SettingsOf(reported[i]) = Range(ParseSettings(records[k]))
    BY <2>1, <2>2 DEF SettingsOf, Range
  <2> QED BY <2>1, <2>2, <2>3, <2>4, SettingsParsed
<1>4. DOMAIN merged = DOMAIN reported
  BY DEF merged, MergeMetadata
<1>5. ASSUME NEW i \in DOMAIN reported
      PROVE  IsGpo(merged[i]) /\ merged[i].settings = reported[i].settings /\ merged[i].id = reported[i].id
  <2>1. IsGpo(merged[i]) /\ \A x \in GpoFields \ {"wmi", "versions"} : merged[i][x] = reported[i][x]
    BY <1>1, <1>3, MetadataKeeps DEF merged
  <2> QED BY <2>1 DEF GpoFields
<1>6. ASSUME NEW i \in DOMAIN reported
      PROVE  LET there == merged[i].id \in DOMAIN coll.sysvol /\ ~coll.sysvol[merged[i].id].escapes
             IN  /\ IsGpo(attached[i]) /\ attached[i].settings = reported[i].settings
                 /\ attached[i].id = reported[i].id /\ attached[i].attached = there
  <2> DEFINE there == merged[i].id \in DOMAIN coll.sysvol /\ ~coll.sysvol[merged[i].id].escapes
  <2>1. attached[i] = [merged[i] EXCEPT !.attached = there]
    BY <1>4 DEF attached, AttachSysvolPaths
  <2> HIDE DEF there
  <2>2. /\ IsGpo([merged[i] EXCEPT !.attached = there]) /\ [merged[i] EXCEPT !.attached = there].attached = there
        /\ [merged[i] EXCEPT !.attached = there].settings = merged[i].settings
        /\ [merged[i] EXCEPT !.attached = there].id = merged[i].id
    BY <1>5 DEF IsGpo, GpoFields
  <2> QED BY <1>5, <2>1, <2>2 DEF there
<1>7. DOMAIN attached = DOMAIN reported
  BY <1>4 DEF attached, AttachSysvolPaths
<1>8. ASSUME NEW i \in DOMAIN reported
      PROVE  /\ attached[i].attached \in BOOLEAN
             /\ attached[i].attached => attached[i].id \in DOMAIN coll.sysvol /\ IsFolder(coll.sysvol[attached[i].id])
             /\ IsSequence(attached[i].settings) /\ IsGpo(attached[i])
  BY <1>3, <1>5, <1>6 DEF IsCollection
<1>9. /\ DOMAIN registry = DOMAIN reported /\ DOMAIN gpos = DOMAIN reported
      /\ \A i \in DOMAIN reported : \E settings : registry[i] = [attached[i] EXCEPT !.settings = settings]
  <2>1. \A i \in DOMAIN reported : [attached[i] EXCEPT !.settings = attached[i].settings] = attached[i]
    BY <1>8 DEF IsGpo, GpoFields
  <2> QED BY <1>7, <2>1 DEF registry, gpos, AugmentRegistry, AugmentAudit
<1>10. ASSUME NEW i \in DOMAIN reported
       PROVE  /\ IsSequence(registry[i].settings) /\ SettingsOf(registry[i]) = Resolved(coll.sysvol, attached[i])
              /\ registry[i].id = reported[i].id /\ registry[i].attached = attached[i].attached
              /\ IsGpo(registry[i])
  <2>1. /\ IsSequence(registry[i].settings) /\ SettingsOf(registry[i]) = Resolved(coll.sysvol, attached[i])
        /\ \A x \in GpoFields \ {"settings"} : registry[i][x] = attached[i][x]
    BY <1>7, <1>8, RegistryAugmented DEF registry
  <2>2. PICK settings : registry[i] = [attached[i] EXCEPT !.settings = settings]
    BY <1>9
  <2>3. IsGpo([attached[i] EXCEPT !.settings = settings])
    BY <1>8 DEF IsGpo, GpoFields
  <2> QED BY <1>6, <2>1, <2>2, <2>3 DEF GpoFields
<1>11. ASSUME NEW i \in DOMAIN reported
       PROVE  /\ IsSequence(gpos[i].settings) /\ SettingsOf(registry[i]) \subseteq SettingsOf(gpos[i])
              /\ \A s \in SettingsOf(gpos[i]) \ SettingsOf(registry[i]) : s.cse = "audit"
              /\ gpos[i].id = reported[i].id /\ gpos[i].attached = attached[i].attached
  <2>1. registry[i].attached => registry[i].id \in DOMAIN coll.sysvol /\ IsFolder(coll.sysvol[registry[i].id])
    BY <1>6, <1>8, <1>10
  <2>2. /\ IsSequence(gpos[i].settings) /\ SettingsOf(registry[i]) \subseteq SettingsOf(gpos[i])
        /\ \A s \in SettingsOf(gpos[i]) \ SettingsOf(registry[i]) : s.cse = "audit"
        /\ \A x \in GpoFields \ {"settings"} : gpos[i][x] = registry[i][x]
    BY <1>9, <1>10, <2>1, AuditAugmented DEF gpos
  <2> QED BY <1>10, <2>2 DEF GpoFields
<1>12. ASSUME NEW i \in DOMAIN reported
       PROVE  LET there == attached[i].attached
                  g == [reported[i] EXCEPT !.attached = there]
              IN  /\ there = gpos[i].attached /\ Resolved(coll.sysvol, g) \subseteq SettingsOf(gpos[i])
                  /\ \A s \in SettingsOf(gpos[i]) \ Resolved(coll.sysvol, g) : s.cse = "audit"
  <2> DEFINE there == attached[i].attached
             g == [reported[i] EXCEPT !.attached = there]
  <2>1. g.id = attached[i].id /\ g.settings = attached[i].settings /\ g.attached = attached[i].attached
    BY <1>3, <1>6 DEF IsGpo, GpoFields
  <2> HIDE DEF g
  <2>2. Resolved(coll.sysvol, g) = Resolved(coll.sysvol, attached[i])
    BY <2>1 DEF Resolved, ResolvedSides, SettingsOf
  <2> QED BY <1>10, <1>11, <2>2 DEF g
<1>13. LoadGpos(coll) = gpos
  BY DEF LoadGpos, gpos, registry, attached, merged, reported
<1> HIDE DEF records
<1> QED BY <1>2, <1>3, <1>8, <1>9, <1>11, <1>12, <1>13 DEF reported, records

\* The store gives back the settings of a GPO, in some order.
LEMMA GpoReordered ==
    ASSUME NEW g, IsGpo(g), IsSequence(g.settings), NEW flip \in BOOLEAN
    PROVE  /\ IsSequence(LoadedGpo(g, flip).settings)
           /\ SettingsOf(LoadedGpo(g, flip)) = SettingsOf(g)
           /\ DOMAIN LoadedGpo(g, flip).settings = DOMAIN g.settings
<1> DEFINE named == [i \in DOMAIN g.settings |-> Key(g.settings[i])]
           keys == SetToSeq({Key(s) : s \in SettingsOf(g)})
           rank == [i \in DOMAIN g.settings |-> CHOOSE k \in DOMAIN keys : keys[k] = Key(g.settings[i])]
           rows == OrderedBy(g.settings, rank, flip)
<1>1. IsSequence(named)
  BY MappedShape
<1>2. {Key(s) : s \in SettingsOf(g)} = Range(named)
  BY DEF SettingsOf, Range
<1>3. IsSequence(keys) /\ Range(keys) = {Key(s) : s \in SettingsOf(g)}
  <2>1. IsFiniteSet({Key(s) : s \in SettingsOf(g)})
    <3> HIDE DEF named
    <3> QED BY <1>1, <1>2, RangeFinite
  <2> QED BY <2>1, SetListed
<1> HIDE DEF keys
<1>4. rank \in [DOMAIN g.settings -> Int]
  <2>1. ASSUME NEW i \in DOMAIN g.settings
        PROVE  (CHOOSE k \in DOMAIN keys : keys[k] = Key(g.settings[i])) \in DOMAIN keys
    <3>1. \E k \in DOMAIN keys : keys[k] = Key(g.settings[i])
      BY <1>3 DEF SettingsOf, Range
    <3> QED BY <3>1
  <2>2. DOMAIN keys \subseteq Int
    BY <1>3, ListShape
  <2> QED BY <2>1, <2>2
<1> HIDE DEF rank
<1>5. IsSequence(rows) /\ Range(rows) = Range(g.settings) /\ DOMAIN rows = DOMAIN g.settings
  BY <1>4, OrderedShape
<1>6. LoadedGpo(g, flip) = [g EXCEPT !.settings = [i \in DOMAIN rows |-> rows[i]]]
  BY DEF LoadedGpo, StoredSetting, rank, keys
<1> HIDE DEF rows
<1>7. rows = [i \in DOMAIN rows |-> rows[i]]
  BY <1>5, ListShape
<1>8. LoadedGpo(g, flip).settings = rows
  BY <1>6, <1>7 DEF IsGpo, GpoFields
<1> QED BY <1>5, <1>8 DEF SettingsOf, Range

\* No two GPOs of an estate that can be stored have one identifier.
LEMMA IdsDistinct ==
    ASSUME NEW coll, IsCollection(coll), ~SaveEstateFails(LoadEstate(coll))
    PROVE  \A i, j \in DOMAIN LoadGpos(coll) : LoadGpos(coll)[i].id = LoadGpos(coll)[j].id => i = j
<1> DEFINE gpos == LoadGpos(coll)
           ids == {gpos[i].id : i \in DOMAIN gpos}
           f == [i \in 1..Len(gpos) |-> gpos[i].id]
<1>1. Cardinality(ids) = Len(gpos)
  <2>1. LoadEstate(coll).repeated = (Cardinality(ids) # Len(gpos))
    BY DEF LoadEstate
  <2>2. ~LoadEstate(coll).repeated
    BY DEF SaveEstateFails
  <2> QED BY <2>1, <2>2
<1> HIDE DEF gpos
<1>2. DOMAIN gpos = 1..Len(gpos) /\ Len(gpos) \in Nat
  BY GposLoaded DEF gpos
<1>3. IsFiniteSet(1..Len(gpos)) /\ Cardinality(1..Len(gpos)) = Len(gpos)
  <2> DEFINE n == Len(gpos)
  <2>1. 1 \in Int /\ n \in Int /\ n \in Nat
    BY <1>2
  <2> HIDE DEF n
  <2>2. IsFiniteSet(1..n) /\ Cardinality(1..n) = n
    BY <2>1, FS_Interval
  <2> QED BY <2>2 DEF n
<1>4. f \in Surjection(1..Len(gpos), ids)
  BY <1>2 DEF Surjection
<1>5. f \in Injection(1..Len(gpos), ids)
  <2> HIDE DEF f, ids
  <2> QED BY <1>1, <1>3, <1>4, FS_SurjSameCardinalityImpliesInj
<1> QED BY <1>2, <1>5 DEF Injection, IsInjective, gpos

\* A GPO of an estate that is open: its settings are those of its report as the
\* copied folders resolve them, and audit settings.
LEMMA OpenedSettings ==
    ASSUME NEW coll, IsCollection(coll), ~SaveEstateFails(LoadEstate(coll)), NEW flip \in BOOLEAN,
           NEW i \in DOMAIN ParseReport(coll.report.records)
    PROVE  LET r == ParseReport(coll.report.records)[i]
               g == LoadStored(LoadEstate(coll), flip).gpos[r.id]
           IN  /\ g.id = r.id
               /\ \E there \in BOOLEAN :
                     LET from == [r EXCEPT !.attached = there]
                     IN  /\ there = g.attached /\ Resolved(coll.sysvol, from) \subseteq SettingsOf(g)
                         /\ \A s \in SettingsOf(g) \ Resolved(coll.sysvol, from) : s.cse = "audit"
<1> DEFINE est == LoadEstate(coll)
           gpos == LoadGpos(coll)
           r == ParseReport(coll.report.records)[i]
           stored == LoadStored(est, flip)
           g == stored.gpos[r.id]
<1>1. /\ DOMAIN gpos = DOMAIN ParseReport(coll.report.records)
      /\ IsSequence(gpos[i].settings) /\ gpos[i].id = r.id
      /\ \E there \in BOOLEAN :
            LET from == [r EXCEPT !.attached = there]
            IN  /\ there = gpos[i].attached /\ Resolved(coll.sysvol, from) \subseteq SettingsOf(gpos[i])
                /\ \A s \in SettingsOf(gpos[i]) \ Resolved(coll.sysvol, from) : s.cse = "audit"
  BY LoadedSettings
<1>2. r.id \in GpoIds(est) /\ est.gpos[r.id] = gpos[i]
  <2>1. r.id \in GpoIds(est)
    BY <1>1, EstateGpos
  <2>2. PICK j \in DOMAIN gpos : gpos[j].id = r.id /\ est.gpos[r.id] = gpos[j]
    BY <2>1, EstateGpos
  <2>3. j = i
    <3> HIDE DEF est
    <3> QED BY <1>1, <2>2, IdsDistinct DEF est
  <2> QED BY <2>1, <2>2, <2>3
<1>3. stored.gpos[r.id] = LoadedGpo(est.gpos[r.id], flip)
  <2>1. "gpos" \in DOMAIN est
    BY DEF LoadEstate
  <2> HIDE DEF est
  <2> QED BY <1>2, <2>1 DEF LoadStored, GpoIds
<1>4. IsGpo(gpos[i]) /\ IsGpo(g) /\ \A x \in GpoFields \ {"settings"} : g[x] = gpos[i][x]
  BY <1>2, StoredKeeps
<1>5. g.id = r.id /\ g.attached = gpos[i].attached
  BY <1>1, <1>4 DEF GpoFields
<1>6. SettingsOf(g) = SettingsOf(gpos[i])
  BY <1>1, <1>2, <1>3, <1>4, GpoReordered
<1> HIDE DEF est, gpos, stored, r
<1> QED BY <1>1, <1>5, <1>6 DEF r, est, stored

\* A blocked registry extension keeps its placeholder, or gives way to exactly
\* the whole records of its side before the first torn one.
THEOREM BlockedNeverEmpty == PipelineSpec => []BlockedIsResolvedWhole
<1>1. ASSUME Provenance, phase = "open"
      PROVE  BlockedIsResolvedWhole
  <2> DEFINE coll == snapshots[opened.of].coll
             reported == ParseReport(coll.report.records)
             registry(g, side) == {x \in SettingsOf(g) : x.cse = "registry" /\ x.side = side}
  <2>1. IsCollection(coll) /\ ~SaveEstateFails(LoadEstate(coll))
    BY <1>1, OpenedFrom DEF Faithful
  <2>2. PICK flip \in BOOLEAN : opened.est = LoadStored(LoadEstate(coll), flip)
    BY <1>1, OpenedFrom
  <2> HIDE DEF coll
  <2>3. ASSUME NEW i \in DOMAIN reported, NEW s \in SettingsOf(reported[i]), BlockedRegistry(s)
        PROVE  LET g == opened.est.gpos[reported[i].id]
                   chunks == IF g.attached THEN coll.sysvol[g.id].pol[s.side] ELSE <<>>
                   whole == {n \in DOMAIN chunks : chunks[n].kind = "record"
                               /\ \A m \in 1..n : chunks[m].kind # "torn"}
               IN  IF whole = {} THEN s \in SettingsOf(g)
                   ELSE /\ s \notin SettingsOf(g)
                        /\ {<<x.id, x.value>> : x \in registry(g, s.side)} =
                             {<<x.id, x.value>> : x \in {y \in registry(reported[i], s.side) : ~y.blocked}}
                             \cup {<<chunks[n].id, chunks[n].value>> : n \in whole}
    <3> DEFINE g == opened.est.gpos[reported[i].id]
               chunks == IF g.attached THEN coll.sysvol[g.id].pol[s.side] ELSE <<>>
               r == reported[i]
    <3>1. PICK there \in BOOLEAN :
             LET from == [r EXCEPT !.attached = there]
             IN  /\ g.id = r.id /\ there = g.attached /\ Resolved(coll.sysvol, from) \subseteq SettingsOf(g)
                 /\ \A x \in SettingsOf(g) \ Resolved(coll.sysvol, from) : x.cse = "audit"
      <4>1. i \in DOMAIN ParseReport(coll.report.records) /\ g = LoadStored(LoadEstate(coll), flip).gpos[r.id]
        BY <2>2 DEF reported
      <4>2. /\ g.id = r.id
            /\ \E there \in BOOLEAN :
                  LET from == [r EXCEPT !.attached = there]
                  IN  /\ there = g.attached /\ Resolved(coll.sysvol, from) \subseteq SettingsOf(g)
                      /\ \A s2 \in SettingsOf(g) \ Resolved(coll.sysvol, from) : s2.cse = "audit"
        <5>1. flip \in BOOLEAN /\ g = LoadStored(LoadEstate(coll), flip).gpos[r.id]
          BY <2>2
        <5> HIDE DEF g
        <5> QED BY <2>1, <4>1, <5>1, OpenedSettings, SMTT(60) DEF reported
      <4> HIDE DEF g, r
      <4> QED BY <4>2
    <3>2. /\ IsGpo(r) /\ \A x \in SettingsOf(r) : x.side \in Sides /\ x.blocked \in BOOLEAN
      <4>1. reported \in Seq(Parsed(coll.report.records)) /\ \A x \in SettingsOf(r) : x.side \in Sides /\ x.blocked \in BOOLEAN
        BY <2>1, LoadedSettings
      <4>2. \A p \in Parsed(coll.report.records) : IsGpo(p)
        BY DEF Parsed, IsGpo, GpoFields, ParseGpo
      <4> QED BY <4>1, <4>2
    <3> DEFINE from == [r EXCEPT !.attached = there]
               sides == ResolvedSides(coll.sysvol, from)
               polled == PolSettings(coll.sysvol[g.id].pol[s.side], s.side)
    <3>3. from.id = g.id /\ from.attached = g.attached /\ SettingsOf(from) = SettingsOf(r)
      BY <3>1, <3>2 DEF IsGpo, GpoFields, SettingsOf
    <3> HIDE DEF g, r
    <3>4. /\ Resolved(coll.sysvol, from) \subseteq SettingsOf(g)
          /\ \A x \in SettingsOf(g) \ Resolved(coll.sysvol, from) : x.cse = "audit"
      BY <3>1
    <3>5. Resolved(coll.sysvol, from) =
             {x \in SettingsOf(r) : ~(BlockedRegistry(x) /\ x.side \in sides)}
             \cup UNION {PolSettings(coll.sysvol[g.id].pol[side], side) : side \in sides}
      BY <3>3 DEF Resolved
    <3>6. \A side : \A x \in PolSettings(coll.sysvol[g.id].pol[side], side) :
             x.side = side /\ x.cse = "registry" /\ x.blocked = FALSE
      BY DEF PolSettings, PolSetting
    <3>7. s \in SettingsOf(r) /\ s.blocked /\ s.cse = "registry" /\ s.side \in Sides
      BY <2>3, <3>2 DEF BlockedRegistry, r
    <3>8. s.side \in sides <=> g.attached /\ WholeRecords(coll.sysvol[g.id].pol[s.side]) # {}
      BY <2>3, <3>3, <3>7 DEF ResolvedSides
    <3>9. WholeRecords(chunks) # {} <=> s.side \in sides
      <4>1. CASE g.attached
        BY <3>8, <4>1
      <4>2. CASE ~g.attached
        <5>1. WholeRecords(<<>>) = {}
          BY DEF WholeRecords
        <5> QED BY <3>8, <4>2, <5>1
      <4> QED BY <4>1, <4>2
    <3> HIDE DEF from, sides
    <3>10. ASSUME WholeRecords(chunks) = {}
           PROVE  s \in SettingsOf(g)
      BY <3>4, <3>5, <3>7, <3>9, <3>10
    <3>11. ASSUME WholeRecords(chunks) # {}
           PROVE  /\ s \notin SettingsOf(g)
                  /\ {<<x.id, x.value>> : x \in registry(g, s.side)} =
                       {<<x.id, x.value>> : x \in {y \in registry(r, s.side) : ~y.blocked}}
                       \cup {<<chunks[n].id, chunks[n].value>> : n \in WholeRecords(chunks)}
      <4>1. s.side \in sides /\ chunks = coll.sysvol[g.id].pol[s.side]
        BY <3>8, <3>9, <3>11
      <4>2. s \notin SettingsOf(g)
        <5>1. s \notin Resolved(coll.sysvol, from)
          BY <2>3, <3>5, <3>6, <3>7, <4>1
        <5> QED BY <3>4, <3>7, <5>1
      <4>3. \A x : x \in registry(g, s.side) <=> x \in Resolved(coll.sysvol, from) /\ x.cse = "registry" /\ x.side = s.side
        BY <3>4
      <4>4. registry(g, s.side) = {y \in registry(r, s.side) : ~y.blocked} \cup polled
        <5>1. ASSUME NEW x \in registry(g, s.side)
              PROVE  x \in {y \in registry(r, s.side) : ~y.blocked} \cup polled
          <6>1. x \in Resolved(coll.sysvol, from) /\ x.cse = "registry" /\ x.side = s.side
            BY <4>3
          <6>2. CASE x \in SettingsOf(r) /\ ~(BlockedRegistry(x) /\ x.side \in sides)
            BY <4>1, <6>1, <6>2 DEF BlockedRegistry
          <6>3. CASE \E side \in sides : x \in PolSettings(coll.sysvol[g.id].pol[side], side)
            BY <3>6, <6>1, <6>3
          <6> HIDE DEF registry, polled
          <6> QED BY <3>5, <6>1, <6>2, <6>3
        <5>2. ASSUME NEW x \in {y \in registry(r, s.side) : ~y.blocked}
              PROVE  x \in registry(g, s.side)
          <6>1. x \in Resolved(coll.sysvol, from)
            BY <3>5 DEF BlockedRegistry
          <6> QED BY <4>3, <6>1
        <5>3. ASSUME NEW x \in polled
              PROVE  x \in registry(g, s.side)
          <6>1. x \in Resolved(coll.sysvol, from) /\ x.cse = "registry" /\ x.side = s.side
            BY <3>5, <3>6, <4>1
          <6> QED BY <4>3, <6>1
        <5> HIDE DEF registry, polled
        <5> QED BY <5>1, <5>2, <5>3
      <4>5. {<<x.id, x.value>> : x \in polled} = {<<chunks[n].id, chunks[n].value>> : n \in WholeRecords(chunks)}
        <5>1. polled = {PolSetting(s.side, chunks[n]) : n \in WholeRecords(chunks)}
          BY <4>1 DEF PolSettings
        <5>2. \A c : PolSetting(s.side, c).id = c.id /\ PolSetting(s.side, c).value = c.value
          BY DEF PolSetting
        <5> HIDE DEF polled, chunks
        <5> QED BY <5>1, <5>2
      <4> HIDE DEF registry, polled, chunks
      <4> QED BY <4>2, <4>4, <4>5
    <3> HIDE DEF registry, chunks
    <3> QED BY <3>10, <3>11 DEF WholeRecords, g, r, chunks
  <2> HIDE DEF reported
  <2> QED BY <1>1, <2>3 DEF BlockedIsResolvedWhole, coll, reported
<1>2. Provenance => BlockedIsResolvedWhole
  BY <1>1 DEF BlockedIsResolvedWhole
<1> QED BY <1>2, ImportInvariance, PTL

-----------------------------------------------------------------------------
(* The shape of an estate: that of every one made by load_estate, scanned  *)
(* from a disk, or read back from the store.                               *)

\* What every estate is, fresh from a collection, loaded back, or with its
\* preference files read again.
EstateFields == {"gpos", "repeated", "soms", "wmiFilters", "principals", "groups", "gaps"}
IsSom(som) ==
    /\ som = [x \in {"path", "kind", "links"} |-> som[x]] /\ IsSequence(som.links)
    /\ \A k \in DOMAIN som.links : som.links[k].order \in Nat
IsEstate(est) ==
    /\ est = [x \in EstateFields |-> est[x]]
    /\ est.gpos = [id \in GpoIds(est) |-> est.gpos[id]] /\ IsSequence(est.soms)
    /\ \A i \in DOMAIN est.soms : IsSom(est.soms[i])
    /\ \A i, j \in DOMAIN est.soms : est.soms[i].path = est.soms[j].path => i = j
    /\ \A id \in GpoIds(est) : /\ IsGpo(est.gpos[id]) /\ est.gpos[id].id = id
                              /\ IsSequence(est.gpos[id].settings)

\* The containers of the inheritance file: links with a number for an order.
LEMMA InheritanceParsed ==
    ASSUME NEW records, IsSequence(records), \A i \in DOMAIN records : IsContainer(records[i])
    PROVE  /\ IsSequence(ParseInheritance(records))
           /\ \A i \in DOMAIN ParseInheritance(records) : IsSom(ParseInheritance(records)[i])
<1> DEFINE links(raw) == Kept(raw, {i \in DOMAIN raw : raw[i].gpo # None})
           order(o) == IF o = NoNumber THEN 0 ELSE o
           all == ParseInheritance(records)
<1>1. all = [i \in DOMAIN records |->
            [path |-> records[i].path, kind |-> records[i].kind,
             links |-> [k \in DOMAIN links(records[i].links) |->
                          [links(records[i].links)[k] EXCEPT !.order = order(@)]]]]
  BY DEF ParseInheritance
<1>2. IsSequence(all) /\ DOMAIN all = DOMAIN records
  BY <1>1, MappedShape
<1>3. ASSUME NEW i \in DOMAIN records
      PROVE  IsSom(all[i])
  <2> DEFINE raw == records[i].links
             kept == links(raw)
             mapped == [k \in DOMAIN kept |-> [kept[k] EXCEPT !.order = order(@)]]
  <2>1. all[i] = [path |-> records[i].path, kind |-> records[i].kind, links |-> mapped]
    BY <1>1
  <2>2. IsSequence(raw) /\ \A k \in DOMAIN raw : /\ raw[k] = [x \in {"gpo", "order", "enabled", "enforced", "target"} |-> raw[k][x]]
                                                 /\ raw[k].order \in Nat \cup {NoNumber}
    BY DEF IsContainer
  <2> HIDE DEF raw
  <2>3. /\ IsSequence(kept)
        /\ \E at : IsPick(at, kept, raw, {k \in DOMAIN raw : raw[k].gpo # None})
    BY <2>2, KeptShape
  <2>4. ASSUME NEW k \in DOMAIN kept
        PROVE  \E j \in DOMAIN raw : kept[k] = raw[j]
    BY <2>3 DEF IsPick
  <2> HIDE DEF kept
  <2>5. IsSequence(mapped) /\ DOMAIN mapped = DOMAIN kept
    BY <2>3, MappedShape
  <2>6. ASSUME NEW k \in DOMAIN mapped
        PROVE  mapped[k].order \in Nat
    <3>1. PICK j \in DOMAIN raw : kept[k] = raw[j]
      BY <2>4, <2>5
    <3>2. mapped[k] = [raw[j] EXCEPT !.order = order(@)]
      BY <3>1, <2>5
    <3>3. mapped[k].order = order(raw[j].order)
      BY <3>2, <2>2
    <3> QED BY <3>3, <2>2 DEF NoNumber
  <2> HIDE DEF mapped
  <2> QED BY <2>1, <2>5, <2>6 DEF IsSom
<1> QED BY <1>2, <1>3

\* The sites of the sites file: links numbered from 1.
LEMMA SitesParsed ==
    ASSUME NEW records, IsSequence(records), \A i \in DOMAIN records : IsContainer(records[i])
    PROVE  /\ IsSequence(ParseSites(records))
           /\ \A i \in DOMAIN ParseSites(records) : IsSom(ParseSites(records)[i])
<1> DEFINE links(raw) == Kept(raw, {i \in DOMAIN raw : raw[i].gpo # None})
           all == ParseSites(records)
<1>1. all = [i \in DOMAIN records |->
            [path |-> records[i].path, kind |-> "site",
             links |-> [k \in DOMAIN links(records[i].links) |->
                          [links(records[i].links)[k] EXCEPT !.order = k]]]]
  BY DEF ParseSites
<1>2. IsSequence(all) /\ DOMAIN all = DOMAIN records
  BY <1>1, MappedShape
<1>3. ASSUME NEW i \in DOMAIN records
      PROVE  IsSom(all[i])
  <2> DEFINE raw == records[i].links
             kept == links(raw)
             mapped == [k \in DOMAIN kept |-> [kept[k] EXCEPT !.order = k]]
  <2>1. all[i] = [path |-> records[i].path, kind |-> "site", links |-> mapped]
    BY <1>1
  <2>2. IsSequence(raw) /\ \A k \in DOMAIN raw : raw[k] = [x \in {"gpo", "order", "enabled", "enforced", "target"} |-> raw[k][x]]
    BY DEF IsContainer
  <2> HIDE DEF raw
  <2>3. /\ IsSequence(kept)
        /\ \E at : IsPick(at, kept, raw, {k \in DOMAIN raw : raw[k].gpo # None})
    BY <2>2, KeptShape
  <2>4. ASSUME NEW k \in DOMAIN kept
        PROVE  \E j \in DOMAIN raw : kept[k] = raw[j]
    BY <2>3 DEF IsPick
  <2> HIDE DEF kept
  <2>5. IsSequence(mapped) /\ DOMAIN mapped = DOMAIN kept /\ DOMAIN kept \subseteq Nat
    <3>1. DOMAIN kept = 1..Len(kept) /\ Len(kept) \in Nat
      BY <2>3, ListShape
    <3> QED BY <2>3, <3>1, MappedShape
  <2>6. ASSUME NEW k \in DOMAIN mapped
        PROVE  mapped[k].order \in Nat
    <3>1. PICK j \in DOMAIN raw : kept[k] = raw[j]
      BY <2>4, <2>5
    <3>2. mapped[k] = [raw[j] EXCEPT !.order = k]
      BY <3>1, <2>5
    <3>3. mapped[k].order = k
      BY <3>2, <2>2
    <3> QED BY <3>3, <2>5
  <2> HIDE DEF mapped
  <2> QED BY <2>1, <2>5, <2>6 DEF IsSom
<1> QED BY <1>2, <1>3

\* A collection that can be stored makes an estate.
LEMMA FreshShape ==
    ASSUME NEW coll, IsCollection(coll), ~SaveEstateFails(LoadEstate(coll))
    PROVE  IsEstate(LoadEstate(coll))
<1> DEFINE est == LoadEstate(coll)
           ous == ParseInheritance(TryLoad(coll.inheritance, <<>>))
           sites == ParseSites(TryLoad(coll.sites, <<>>))
<1>1. est = [x \in EstateFields |-> est[x]] /\ est.soms = ous \o sites
  BY DEF LoadEstate, EstateFields
<1>2. est.gpos = [id \in GpoIds(est) |-> est.gpos[id]]
  BY DEF LoadEstate, GpoIds
<1>3. /\ IsSequence(ous) /\ \A i \in DOMAIN ous : IsSom(ous[i])
      /\ IsSequence(sites) /\ \A i \in DOMAIN sites : IsSom(sites[i])
  BY InheritanceParsed, SitesParsed DEF IsCollection
<1>4. \A id \in GpoIds(est) : IsGpo(est.gpos[id]) /\ est.gpos[id].id = id /\ IsSequence(est.gpos[id].settings)
  <2>1. ASSUME NEW id \in GpoIds(est)
        PROVE  IsGpo(est.gpos[id]) /\ est.gpos[id].id = id /\ IsSequence(est.gpos[id].settings)
    <3>1. PICK i \in DOMAIN LoadGpos(coll) : LoadGpos(coll)[i].id = id /\ est.gpos[id] = LoadGpos(coll)[i]
      BY EstateGpos
    <3>2. IsGpo(LoadGpos(coll)[i])
      BY GposLoaded
    <3>3. IsSequence(LoadGpos(coll)[i].settings)
      BY LoadedSettings
    <3> QED BY <3>1, <3>2, <3>3
  <2> QED BY <2>1
<1>5. \A i, j \in DOMAIN est.soms : est.soms[i].path = est.soms[j].path => i = j
  <2> DEFINE paths == [i \in DOMAIN est.soms |-> est.soms[i].path]
  <2>1. Distinct(paths)
    BY DEF SaveEstateFails
  <2> QED BY <2>1 DEF Distinct
<1> HIDE DEF est, ous, sites
<1>6. IsConcat(ous \o sites, ous, sites)
  BY <1>3, ConcatShape
<1> DEFINE soms == ous \o sites
<1>7. IsSequence(soms) /\ \A i \in DOMAIN soms : IsSom(soms[i])
  <2>1. IsSequence(soms) /\ \A i \in DOMAIN soms : soms[i] \in Range(soms)
    BY <1>6 DEF IsConcat, Range
  <2>2. Range(soms) = Range(ous) \cup Range(sites)
    BY <1>6 DEF IsConcat
  <2> HIDE DEF soms
  <2> QED BY <2>1, <2>2, <1>3 DEF Range
<1> HIDE DEF soms
<1>8. IsSequence(est.soms) /\ \A i \in DOMAIN est.soms : IsSom(est.soms[i])
  BY <1>1, <1>7 DEF soms
<1>9. IsEstate(est)
  BY <1>1, <1>2, <1>4, <1>5, <1>8 DEF IsEstate
<1> QED BY <1>9 DEF est

\* A container as the store gives it back.
SortedSom(som, flip) == [som EXCEPT !.links = OrderedBy(@, [i \in DOMAIN @ |-> @[i].order], flip)]

\* The store gives an estate back.
LEMMA StoredShape ==
    ASSUME NEW est, IsEstate(est), NEW flip \in BOOLEAN
    PROVE  /\ IsEstate(LoadStored(est, flip)) /\ GpoIds(LoadStored(est, flip)) = GpoIds(est)
           /\ SomsOf(LoadStored(est, flip)) = {SortedSom(som, flip) : som \in SomsOf(est)}
<1> DEFINE stored == LoadStored(est, flip)
           byOrder(som) == SortedSom(som, flip)
           S == {byOrder(som) : som \in SomsOf(est)}
           listed == SetToSeq(S)
           soms == LoadedSoms(est, flip)
<1>1. soms = IF flip THEN Reverse(listed) ELSE listed
  BY DEF LoadedSoms, SortedSom
<1>2. /\ est = [x \in EstateFields |-> est[x]] /\ IsSequence(est.soms)
      /\ \A i \in DOMAIN est.soms : IsSom(est.soms[i])
  BY DEF IsEstate
<1>3. /\ stored = [x \in EstateFields |-> stored[x]] /\ stored.soms = soms
      /\ stored.gpos = [id \in GpoIds(est) |-> LoadedGpo(est.gpos[id], flip)]
  <2> HIDE DEF soms
  <2>1. stored = [est EXCEPT !.gpos = [id \in DOMAIN @ |-> LoadedGpo(@[id], flip)], !.soms = soms]
    BY DEF LoadStored, soms
  <2>2. DOMAIN est = EstateFields /\ "gpos" \in EstateFields /\ "soms" \in EstateFields
    BY <1>2 DEF EstateFields
  <2> HIDE DEF stored
  <2>3. stored = [x \in EstateFields |-> stored[x]] /\ stored.soms = soms
    BY <2>1, <2>2 DEF EstateFields
  <2>4. stored.gpos = [id \in DOMAIN est.gpos |-> LoadedGpo(est.gpos[id], flip)]
    BY <2>1, <2>2
  <2> QED BY <2>3, <2>4 DEF GpoIds
<1>4. ASSUME NEW som, IsSom(som)
      PROVE  IsSom(byOrder(som)) /\ byOrder(som).path = som.path
  <2> DEFINE rank == [i \in DOMAIN som.links |-> som.links[i].order]
             links == OrderedBy(som.links, rank, flip)
  <2>1. rank \in [DOMAIN som.links -> Int] /\ IsSequence(som.links)
    BY <1>4 DEF IsSom
  <2>2. IsSequence(links) /\ DOMAIN links = DOMAIN som.links /\ Range(links) = Range(som.links)
    <3> HIDE DEF rank
    <3> QED BY <2>1, OrderedShape
  <2>3. byOrder(som) = [som EXCEPT !.links = links]
    BY DEF SortedSom
  <2> HIDE DEF links, byOrder
  <2>4. \A k \in DOMAIN links : links[k].order \in Nat
    <3>1. ASSUME NEW k \in DOMAIN links
          PROVE  \E j \in DOMAIN som.links : links[k] = som.links[j]
      BY <2>2 DEF Range
    <3> QED BY <1>4, <3>1 DEF IsSom
  <2>5. /\ byOrder(som) = [x \in {"path", "kind", "links"} |-> byOrder(som)[x]]
        /\ byOrder(som).links = links /\ byOrder(som).path = som.path
    BY <1>4, <2>3 DEF IsSom
  <2> QED BY <2>2, <2>4, <2>5 DEF IsSom
<1> HIDE DEF byOrder
<1>5. /\ \A som \in S : IsSom(som)
      /\ \A s, t \in S : s.path = t.path => s = t
  <2>1. ASSUME NEW i \in DOMAIN est.soms
        PROVE  IsSom(byOrder(est.soms[i])) /\ byOrder(est.soms[i]).path = est.soms[i].path
    BY <1>2, <1>4
  <2>2. S = {byOrder(est.soms[i]) : i \in DOMAIN est.soms}
    BY DEF SomsOf
  <2> HIDE DEF S
  <2> QED BY <2>1, <2>2 DEF IsEstate
<1>6. IsFiniteSet(S)
  <2>1. IsFiniteSet(Range(est.soms)) /\ Range(est.soms) = SomsOf(est)
    BY <1>2, RangeFinite DEF Range, SomsOf
  <2>2. S = {byOrder(som) : som \in Range(est.soms)}
    BY <2>1
  <2> DEFINE R == Range(est.soms)
             f == [som \in R |-> byOrder(som)]
  <2>3. f \in Surjection(R, S)
    BY <2>2 DEF Surjection
  <2> HIDE DEF R, f, S
  <2> QED BY <2>1, <2>3, FS_Surjection DEF R
<1>7. /\ IsSequence(listed) /\ Range(listed) = S
      /\ \A i, j \in DOMAIN listed : listed[i] = listed[j] => i = j
  <2> HIDE DEF S
  <2> QED BY <1>6, SetListed
<1> HIDE DEF S, listed
<1>8. /\ IsSequence(soms) /\ Range(soms) = S
      /\ \A i, j \in DOMAIN soms : soms[i] = soms[j] => i = j
  <2>1. /\ IsSequence(Reverse(listed)) /\ Range(Reverse(listed)) = S
        /\ \A i, j \in DOMAIN Reverse(listed) : Reverse(listed)[i] = Reverse(listed)[j] => i = j
    <3>1. IsSequence(Reverse(listed)) /\ DOMAIN Reverse(listed) = DOMAIN listed /\ Range(Reverse(listed)) = S
      BY <1>7, ReverseShape
    <3>2. DOMAIN listed = 1..Len(listed) /\ Len(listed) \in Nat
      BY <1>7, ListShape
    <3>3. Reverse(listed) = [i \in 1..Len(listed) |-> listed[(Len(listed) - i) + 1]]
      BY DEF Reverse
    <3>4. ASSUME NEW i \in DOMAIN listed
          PROVE  /\ Reverse(listed)[i] = listed[(Len(listed) - i) + 1]
                 /\ (Len(listed) - i) + 1 \in DOMAIN listed
      BY <3>2, <3>3
    <3> QED BY <3>1, <3>2, <3>4, <1>7
  <2> QED BY <1>1, <1>7, <2>1
<1> HIDE DEF soms
<1>9. \A i \in DOMAIN soms : IsSom(soms[i]) /\ \A j \in DOMAIN soms : soms[i].path = soms[j].path => i = j
  BY <1>5, <1>8 DEF Range
<1>10. \A id \in GpoIds(est) : /\ IsGpo(LoadedGpo(est.gpos[id], flip)) /\ LoadedGpo(est.gpos[id], flip).id = id
                              /\ IsSequence(LoadedGpo(est.gpos[id], flip).settings)
  <2>1. ASSUME NEW id \in GpoIds(est)
        PROVE  /\ IsGpo(LoadedGpo(est.gpos[id], flip)) /\ LoadedGpo(est.gpos[id], flip).id = id
               /\ IsSequence(LoadedGpo(est.gpos[id], flip).settings)
    <3> DEFINE g == est.gpos[id]
    <3>1. IsGpo(g) /\ g.id = id /\ IsSequence(g.settings)
      BY DEF IsEstate
    <3> HIDE DEF g
    <3>2. \E rows : LoadedGpo(g, flip) = [g EXCEPT !.settings = rows]
      BY DEF LoadedGpo
    <3>3. IsGpo(LoadedGpo(g, flip)) /\ LoadedGpo(g, flip).id = id
      BY <3>1, <3>2 DEF IsGpo, GpoFields
    <3> QED BY <3>1, <3>3, GpoReordered DEF g
  <2> QED BY <2>1
<1> HIDE DEF stored
<1>11. GpoIds(stored) = GpoIds(est)
  BY <1>3 DEF GpoIds
<1>12. IsEstate(stored)
  BY <1>3, <1>8, <1>9, <1>10, <1>11 DEF IsEstate
<1>13. SomsOf(stored) = S
  BY <1>3, <1>8 DEF SomsOf, Range
<1> QED BY <1>11, <1>12, <1>13 DEF stored, S, byOrder

\* What reading the files changes of a GPO.
Rescanned(g, h) ==
    \E i, c, l, p, t :
        h = [g EXCEPT !.ilt = i, !.cpassword = c, !.localGroups = l, !.paths = p, !.tree = t]

\* Reading the preference files again leaves an estate.
LEMMA DiskShape ==
    ASSUME NEW est, IsEstate(est), NEW disk
    PROVE  /\ IsEstate(WithDisk(est, disk)) /\ GpoIds(WithDisk(est, disk)) = GpoIds(est)
           /\ \A id \in GpoIds(est) : WithDisk(est, disk).gpos[id].settings = est.gpos[id].settings
           /\ WithDisk(est, disk).soms = est.soms
<1> DEFINE other == WithDisk(est, disk)
<1>1. PICK scanned \in [GpoIds(est) -> {other.gpos[id] : id \in GpoIds(est)}] :
         /\ other = [est EXCEPT !.gpos = scanned]
         /\ \A id \in GpoIds(est) : Rescanned(est.gpos[id], scanned[id])
  <2> DEFINE files(g) == IF g.attached /\ g.id \in DOMAIN disk THEN WalkGppXml(disk[g.id]) ELSE {}
             tree(g) == IF g.attached /\ g.id \in DOMAIN disk THEN disk[g.id].tree ELSE NoTree
             scan(g) == [g EXCEPT !.ilt = \E f \in files(g) : f.filters,
                                 !.cpassword = \E f \in files(g) : f.known /\ f.cpassword,
                                 !.localGroups = UNION {f.groups : f \in {x \in files(g) : x.known}},
                                 !.paths = UNION {f.refs : f \in files(g)}, !.tree = tree(g)]
             scanned == [id \in DOMAIN est.gpos |-> scan(est.gpos[id])]
  <2>1. other = [est EXCEPT !.gpos = scanned]
    BY DEF WithDisk
  <2>2. DOMAIN est = EstateFields /\ "gpos" \in EstateFields
    BY DEF IsEstate, EstateFields
  <2>3. \A id \in GpoIds(est) : Rescanned(est.gpos[id], scan(est.gpos[id]))
    BY ZenonT(60) DEF Rescanned
  <2> HIDE DEF other, scan
  <2>4. scanned \in [GpoIds(est) -> {other.gpos[id] : id \in GpoIds(est)}]
    <3>1. other.gpos = scanned
      BY <2>1, <2>2
    <3>2. scanned = [id \in GpoIds(est) |-> scanned[id]]
      BY DEF GpoIds
    <3> HIDE DEF scanned
    <3> QED BY <3>1, <3>2
  <2>5. \A id \in GpoIds(est) : Rescanned(est.gpos[id], scanned[id])
    <3>1. \A id \in GpoIds(est) : scanned[id] = scan(est.gpos[id])
      BY DEF GpoIds
    <3> HIDE DEF scanned
    <3> QED BY <2>3, <3>1
  <2> HIDE DEF scanned
  <2> QED BY <2>1, <2>4, <2>5
<1> HIDE DEF other
<1>2. est = [x \in EstateFields |-> est[x]] /\ "gpos" \in EstateFields /\ "soms" \in EstateFields
  BY DEF IsEstate, EstateFields
<1>3. other = [x \in EstateFields |-> other[x]] /\ other.soms = est.soms /\ other.gpos = scanned
  BY <1>1, <1>2 DEF EstateFields
<1>4. \A id \in GpoIds(est) : /\ IsGpo(scanned[id]) /\ scanned[id].id = id /\ IsSequence(scanned[id].settings)
                             /\ scanned[id].settings = est.gpos[id].settings
  <2>1. ASSUME NEW id \in GpoIds(est)
        PROVE  /\ IsGpo(scanned[id]) /\ scanned[id].id = id /\ IsSequence(scanned[id].settings)
               /\ scanned[id].settings = est.gpos[id].settings
    <3> DEFINE g == est.gpos[id]
    <3>1. IsGpo(g) /\ g.id = id /\ IsSequence(g.settings)
      BY DEF IsEstate
    <3> HIDE DEF g
    <3>2. PICK i, c, l, p, t : scanned[id] =
              [g EXCEPT !.ilt = i, !.cpassword = c, !.localGroups = l, !.paths = p, !.tree = t]
      BY <1>1 DEF g, Rescanned
    <3>3. IsGpo(scanned[id]) /\ scanned[id].id = g.id /\ scanned[id].settings = g.settings
      BY <3>1, <3>2 DEF IsGpo, GpoFields
    <3> QED BY <3>1, <3>3 DEF g
  <2> QED BY <2>1
<1>5. GpoIds(other) = GpoIds(est)
  BY <1>1, <1>3 DEF GpoIds
<1>6. IsEstate(other)
  <2>1. /\ other.gpos = [id \in GpoIds(other) |-> other.gpos[id]] /\ IsSequence(other.soms)
        /\ \A i \in DOMAIN other.soms : IsSom(other.soms[i])
        /\ \A i, j \in DOMAIN other.soms : other.soms[i].path = other.soms[j].path => i = j
    <3>1. scanned = [id \in GpoIds(est) |-> scanned[id]]
      BY <1>1
    <3> QED BY <1>3, <1>5, <3>1 DEF IsEstate
  <2>2. \A id \in GpoIds(other) : /\ IsGpo(other.gpos[id]) /\ other.gpos[id].id = id
                                  /\ IsSequence(other.gpos[id].settings)
    BY <1>3, <1>4, <1>5
  <2> QED BY <1>3, <2>1, <2>2 DEF IsEstate
<1> QED BY <1>3, <1>4, <1>5, <1>6 DEF other

\* Every stored estate is one, and so is the open one, with or without the disk.
LEMMA Estates ==
    ASSUME Provenance
    PROVE  /\ \A n \in DOMAIN snapshots : IsEstate(snapshots[n].est)
           /\ phase = "open" => IsEstate(opened.est) /\ IsEstate(Live)
<1>1. \A n \in DOMAIN snapshots : IsEstate(snapshots[n].est)
  BY FreshShape, PipelineAssumption DEF Provenance, Faithful
<1>2. ASSUME phase = "open"
      PROVE  IsEstate(opened.est) /\ IsEstate(Live)
  <2>1. PICK flip \in BOOLEAN : opened.est = LoadStored(snapshots[opened.of].est, flip)
    BY <1>2 DEF Provenance
  <2>2. IsEstate(snapshots[opened.of].est)
    BY <1>1, <1>2 DEF Provenance
  <2>3. IsEstate(opened.est)
    BY <2>1, <2>2, StoredShape
  <2> QED BY <2>3, DiskShape DEF Live
<1> QED BY <1>1, <1>2

-----------------------------------------------------------------------------
(* Chains of links and the conflicts along them: a container is resolved as *)
(* any other of its signature is.                                          *)

\* Of the elements with numbers for orders one is the first of the highest.
IsHighest(w, entries) ==
    /\ w \in DOMAIN entries
    /\ \A j \in DOMAIN entries :
          \/ entries[j].order < entries[w].order
          \/ entries[j].order = entries[w].order /\ w =< j

\* Where orders are numbers, the search for the highest finds it.
LEMMA HighestShape ==
    ASSUME NEW entries, IsSequence(entries), DOMAIN entries # {},
           \A i \in DOMAIN entries : entries[i].order \in Int
    PROVE  IsHighest(HighestOrder(entries), entries)
<1> DEFINE n == Len(entries)
           Lower(j, i) == \/ entries[j].order < entries[i].order
                          \/ entries[j].order = entries[i].order /\ i =< j
           R == {p \in (1..n) \X (1..n) : Lower(p[1], p[2])}
<1>1. n \in Nat /\ DOMAIN entries = 1..n
  BY ListShape
<1>2. IsFiniteSet(1..n)
  <2>1. 1 \in Int /\ n \in Int
    BY <1>1
  <2> QED BY <2>1, FS_Interval
<1> HIDE DEF n
<1>3. \A i, j \in 1..n : <<i, j>> \in R <=> Lower(i, j)
  OBVIOUS
<1> HIDE DEF R
<1>4. \A i, j \in 1..n : i = j \/ <<i, j>> \in R \/ <<j, i>> \in R
  <2> SUFFICES ASSUME NEW i \in 1..n, NEW j \in 1..n
               PROVE  Lower(i, j) \/ Lower(j, i)
    BY <1>3
  <2>1. i \in Nat /\ j \in Nat /\ entries[i].order \in Int /\ entries[j].order \in Int
    BY <1>1
  <2> QED BY <2>1
<1>5. \A i, j, k \in 1..n : <<i, j>> \in R /\ <<j, k>> \in R => <<i, k>> \in R
  <2> SUFFICES ASSUME NEW i \in 1..n, NEW j \in 1..n, NEW k \in 1..n, Lower(i, j), Lower(j, k)
               PROVE  Lower(i, k)
    BY <1>3
  <2>1. /\ i \in Nat /\ j \in Nat /\ k \in Nat
        /\ entries[i].order \in Int /\ entries[j].order \in Int /\ entries[k].order \in Int
    BY <1>1
  <2> QED BY <2>1
<1>6. PICK w \in 1..n : \A j \in 1..n : j = w \/ <<j, w>> \in R
  <2>1. 1..n # {}
    BY <1>1
  <2> QED BY <1>2, <1>4, <1>5, <2>1, GreatestExists
<1>7. ASSUME NEW j \in DOMAIN entries
      PROVE  Lower(j, w)
  <2>1. w \in Nat /\ w =< w
    OBVIOUS
  <2> QED BY <1>1, <1>3, <1>6, <2>1
<1>8. \E v \in DOMAIN entries : \A j \in DOMAIN entries :
         \/ entries[j].order < entries[v].order
         \/ entries[j].order = entries[v].order /\ v =< j
  BY <1>1, <1>7
<1> QED BY <1>8 DEF HighestOrder, IsHighest

\* A container is found by its path: no two have the same.
LEMMA SomFound ==
    ASSUME NEW est, IsEstate(est), NEW i \in DOMAIN est.soms
    PROVE  FindSom(est, est.soms[i].path) = est.soms[i]
<1> DEFINE found == {j \in DOMAIN est.soms : est.soms[j].path = est.soms[i].path}
<1>1. IsSequence(est.soms) /\ found \in SUBSET DOMAIN est.soms /\ i \in found
  BY DEF IsEstate
<1>2. \A j \in found : j = i
  BY DEF IsEstate
<1> HIDE DEF found
<1>3. FirstOr(est.soms, found, NoSom) = est.soms[i]
  BY <1>1, <1>2, FirstShape
<1> QED BY <1>3 DEF FindSom, found

\* The entries of one key keep what they are; a key that is used has some.
LEMMA BucketShape ==
    ASSUME NEW all, IsSequence(all), NEW key
    PROVE  /\ IsSequence(Bucket(all, key))
           /\ Range(Bucket(all, key)) = {e \in Range(all) : e.key = key}
           /\ key \in BucketKeys(all) => DOMAIN Bucket(all, key) # {}
           /\ BucketKeys(all) = {e.key : e \in Range(all)}
<1> DEFINE keep == {i \in DOMAIN all : all[i].key = key}
           b == Bucket(all, key)
<1>1. b = Kept(all, keep)
  BY DEF Bucket
<1> HIDE DEF keep, b
<1>2. IsSequence(b) /\ Range(b) = {all[i] : i \in DOMAIN all \cap keep}
  BY <1>1, KeptShape
<1>3. Range(b) = {e \in Range(all) : e.key = key}
  BY <1>2 DEF keep, Range
<1>4. BucketKeys(all) = {e.key : e \in Range(all)}
  BY DEF BucketKeys, Range
<1>5. key \in BucketKeys(all) => DOMAIN b # {}
  BY <1>3, <1>4 DEF Range
<1> QED BY <1>2, <1>3, <1>4, <1>5 DEF b

\* What a link contributes is decided by its GPO, its order and its enforcement.
LEMMA SameLink ==
    ASSUME NEW est, NEW l, NEW m, l.gpo = m.gpo, l.order = m.order, l.enforced = m.enforced
    PROVE  EntriesOf(est, l) = EntriesOf(est, m)
BY DEF EntriesOf

\* The entries of a link: one GPO's name, the link's order.
LEMMA LinkEntries ==
    ASSUME NEW est, IsEstate(est), NEW l
    PROVE  /\ IsSequence(EntriesOf(est, l))
           /\ \A e \in Range(EntriesOf(est, l)) : e.order = l.order /\ e.name = est.gpos[l.gpo].name
<1>1. CASE l.gpo \notin GpoIds(est)
  BY <1>1, EmptyShape DEF EntriesOf
<1>2. CASE l.gpo \in GpoIds(est)
  <2> DEFINE g == est.gpos[l.gpo]
             live == Kept(g.settings, {i \in DOMAIN g.settings : ~g.settings[i].off})
             all == [i \in DOMAIN live |->
                [key |-> Key(live[i]), gpo |-> g.id, name |-> g.name, value |-> live[i].value,
                 order |-> l.order, enforced |-> l.enforced]]
  <2>1. EntriesOf(est, l) = all
    BY <1>2 DEF EntriesOf
  <2>2. IsSequence(live)
    BY <1>2, KeptShape DEF IsEstate
  <2> HIDE DEF live
  <2>3. IsSequence(all) /\ DOMAIN all = DOMAIN live
    BY <2>2, MappedShape
  <2>4. \A i \in DOMAIN all : all[i].order = l.order /\ all[i].name = g.name
    BY <2>3
  <2> HIDE DEF all
  <2> QED BY <2>1, <2>3, <2>4 DEF Range
<1> QED BY <1>1, <1>2

\* An entry has the order of a link and the name of that link's GPO.
IsLinked(e, est, som) == \E i \in DOMAIN som.links :
    LET l == som.links[i] IN e.order = l.order /\ e.name = est.gpos[l.gpo].name

\* The entries of a container's chain, as a set.
EnabledOf(links) == {i \in DOMAIN links : links[i].enabled}
EntriesAt(est, som) == UNION {Range(EntriesOf(est, som.links[i])) : i \in EnabledOf(som.links)}

\* The entries of a container's chain are a list, in some order, of that set;
\* each has the order of a link of the chain and the name of its GPO.
LEMMA ChainEntries ==
    ASSUME NEW est, IsEstate(est), NEW n \in DOMAIN est.soms
    PROVE  /\ IsSequence(ChainEntriesOf(est, est.soms[n].path))
           /\ Range(ChainEntriesOf(est, est.soms[n].path)) = EntriesAt(est, est.soms[n])
           /\ \A e \in EntriesAt(est, est.soms[n]) : e.order \in Nat /\ IsLinked(e, est, est.soms[n])
<1> DEFINE som == est.soms[n]
           chain == SomChain(est, som.path)
           seqs == [i \in DOMAIN chain |-> EntriesOf(est, chain[i])]
           all == ChainEntriesOf(est, som.path)
<1>1. all = FlattenSeq(seqs)
  BY DEF ChainEntriesOf
<1>2. chain = Kept(som.links, EnabledOf(som.links))
  BY SomFound DEF SomChain, EnabledOf
<1>3. IsSom(som)
  BY DEF IsEstate
<1> HIDE DEF som, chain
<1>4. /\ IsSequence(chain) /\ Range(chain) = {som.links[i] : i \in EnabledOf(som.links)}
  <2>1. IsSequence(som.links) /\ EnabledOf(som.links) \subseteq DOMAIN som.links
    BY <1>3 DEF IsSom, EnabledOf
  <2>2. Range(chain) = {som.links[i] : i \in DOMAIN som.links \cap EnabledOf(som.links)}
    BY <1>2, <2>1, KeptShape
  <2> QED BY <1>2, <2>1, <2>2, KeptShape
<1>5. IsLists(seqs) /\ DOMAIN seqs = DOMAIN chain
  BY <1>4, MappedShape, LinkEntries DEF IsLists
<1>6. UNION {Range(seqs[i]) : i \in DOMAIN seqs} = EntriesAt(est, som)
  <2>1. UNION {Range(seqs[i]) : i \in DOMAIN seqs} = UNION {Range(EntriesOf(est, l)) : l \in Range(chain)}
    BY <1>5 DEF Range
  <2> QED BY <2>1, <1>4 DEF EntriesAt
<1> HIDE DEF seqs
<1>7. IsSequence(all) /\ Range(all) = EntriesAt(est, som)
  BY <1>1, <1>5, <1>6, FlatRange
<1>8. ASSUME NEW e \in EntriesAt(est, som)
      PROVE  e.order \in Nat /\ IsLinked(e, est, som)
  <2>1. PICK i \in EnabledOf(som.links) : e \in Range(EntriesOf(est, som.links[i]))
    BY DEF EntriesAt
  <2>2. i \in DOMAIN som.links /\ som.links[i].order \in Nat
    BY <1>3 DEF IsSom, EnabledOf
  <2>3. e.order = som.links[i].order /\ e.name = est.gpos[som.links[i].gpo].name
    BY <2>1, LinkEntries
  <2> QED BY <2>2, <2>3 DEF IsLinked
<1> QED BY <1>7, <1>8 DEF som

\* Chains that enable the same links in the same orders have the same entries.
LEMMA SameSignature ==
    ASSUME NEW est, NEW s, NEW t, ChainSignature(s) = ChainSignature(t)
    PROVE  EntriesAt(est, s) \subseteq EntriesAt(est, t)
<1> SUFFICES ASSUME NEW e \in EntriesAt(est, s)
             PROVE  e \in EntriesAt(est, t)
  OBVIOUS
<1>1. PICK i \in EnabledOf(s.links) : e \in Range(EntriesOf(est, s.links[i]))
  BY DEF EntriesAt
<1>2. <<s.links[i].gpo, s.links[i].order, s.links[i].enforced>> \in ChainSignature(t)
  BY DEF ChainSignature, EnabledOf
<1>3. PICK j \in EnabledOf(t.links) :
         <<s.links[i].gpo, s.links[i].order, s.links[i].enforced>> =
         <<t.links[j].gpo, t.links[j].order, t.links[j].enforced>>
  BY <1>2 DEF ChainSignature, EnabledOf
<1>4. EntriesOf(est, s.links[i]) = EntriesOf(est, t.links[j])
  BY <1>3, SameLink
<1> QED BY <1>1, <1>3, <1>4 DEF EntriesAt

\* The conflict of one key in a list of entries, and whether there is one.
ConflictOf(b, key) ==
    LET winner == b[HighestOrder(b)].name
    IN  [key |-> key, winner |-> winner,
         entries |-> {<<e.name, e.value, e.name = winner>> : e \in Range(b)}]
IsContested(b) ==
    Cardinality({e.name : e \in Range(b)}) > 1 /\ Cardinality({e.value : e \in Range(b)}) > 1

\* The conflicts of a container are those of its contested keys.
LEMMA ConflictsRead ==
    ASSUME NEW est, NEW path
    PROVE  LET all == ChainEntriesOf(est, path)
           IN  SomConflicts(est, path) =
                 {ConflictOf(Bucket(all, key), key) :
                    key \in {k \in BucketKeys(all) : IsContested(Bucket(all, k))}}
<1> DEFINE all == ChainEntriesOf(est, path)
           names(b) == {b[i].name : i \in DOMAIN b}
           values(b) == {b[i].value : i \in DOMAIN b}
           contested == {key \in BucketKeys(all) : Cardinality(names(Bucket(all, key))) > 1
                                                  /\ Cardinality(values(Bucket(all, key))) > 1}
           conflict(key) ==
            LET b == Bucket(all, key)
                winner == b[HighestOrder(b)].name
            IN  [key |-> key, winner |-> winner,
                 entries |-> {<<b[i].name, b[i].value, b[i].name = winner>> : i \in DOMAIN b}]
<1>1. SomConflicts(est, path) = {conflict(key) : key \in contested}
  BY DEF SomConflicts
<1>2. ASSUME NEW b
      PROVE  names(b) = {e.name : e \in Range(b)} /\ values(b) = {e.value : e \in Range(b)}
  BY DEF Range
<1>3. contested = {k \in BucketKeys(all) : IsContested(Bucket(all, k))}
  <2> HIDE DEF names, values, all
  <2> QED BY <1>2 DEF IsContested
<1>4. ASSUME NEW key
      PROVE  conflict(key) = ConflictOf(Bucket(all, key), key)
  BY DEF ConflictOf, Range
<1> HIDE DEF conflict, contested, all
<1>5. SomConflicts(est, path) = {ConflictOf(Bucket(all, key), key) : key \in contested}
  BY <1>1, <1>4
<1> QED BY <1>3, <1>5 DEF all

\* Two lists with the same entries have the same conflicts, when an order
\* belongs to one name.
LEMMA SameConflict ==
    ASSUME NEW a, NEW b, IsSequence(a), IsSequence(b), Range(a) = Range(b), DOMAIN a # {},
           \A e \in Range(a) : e.order \in Nat,
           \A e, f \in Range(a) : e.order = f.order => e.name = f.name, NEW key
    PROVE  ConflictOf(a, key) = ConflictOf(b, key) /\ IsContested(a) = IsContested(b)
<1>1. /\ \A i \in DOMAIN a : a[i] \in Range(a) /\ a[i].order \in Int
      /\ \A i \in DOMAIN b : b[i] \in Range(a) /\ b[i].order \in Int
      /\ DOMAIN b # {}
  BY DEF Range
<1> DEFINE v == HighestOrder(a)
           w == HighestOrder(b)
<1>2. IsHighest(v, a) /\ IsHighest(w, b)
  BY <1>1, HighestShape
<1> HIDE DEF v, w
<1>3. \A e \in Range(a) : e.order =< a[v].order /\ e.order =< b[w].order
  <2>1. \A i \in DOMAIN a : a[i].order =< a[v].order
    BY <1>1, <1>2 DEF IsHighest
  <2>2. \A i \in DOMAIN b : b[i].order =< b[w].order
    BY <1>1, <1>2 DEF IsHighest
  <2>3. \A e \in Range(a) : (\E i \in DOMAIN a : e = a[i]) /\ (\E i \in DOMAIN b : e = b[i])
    <3>1. \A e \in Range(a) : \E i \in DOMAIN a : e = a[i]
      BY DEF Range
    <3>2. \A e \in Range(b) : \E i \in DOMAIN b : e = b[i]
      BY DEF Range
    <3> QED BY <3>1, <3>2
  <2> QED BY <2>1, <2>2, <2>3
<1>4. a[v] \in Range(a) /\ b[w] \in Range(a)
  BY <1>1, <1>2 DEF IsHighest
<1>5. a[v].order = b[w].order
  BY <1>3, <1>4
<1>6. a[v].name = b[w].name
  BY <1>4, <1>5
<1>7. ConflictOf(a, key) = ConflictOf(b, key)
  BY <1>6 DEF ConflictOf, v, w
<1> QED BY <1>7 DEF IsContested

\* One order per link of every chain.
OrdersDistinct(est) ==
    \A n \in DOMAIN est.soms : \A i, j \in DOMAIN est.soms[n].links :
        est.soms[n].links[i].order = est.soms[n].links[j].order => i = j

\* Containers of one signature have the same conflicts, whatever the order in
\* which each of them lists its links.
LEMMA SameConflicts ==
    ASSUME NEW est, IsEstate(est), OrdersDistinct(est), NEW m \in DOMAIN est.soms, NEW n \in DOMAIN est.soms,
           ChainSignature(est.soms[m]) = ChainSignature(est.soms[n])
    PROVE  SomConflicts(est, est.soms[m].path) = SomConflicts(est, est.soms[n].path)
<1> DEFINE a == ChainEntriesOf(est, est.soms[m].path)
           b == ChainEntriesOf(est, est.soms[n].path)
<1>1. IsSequence(a) /\ IsSequence(b) /\ Range(a) = Range(b)
  <2>1. EntriesAt(est, est.soms[m]) = EntriesAt(est, est.soms[n])
    <3> DEFINE s == est.soms[m]
               t == est.soms[n]
    <3>1. ChainSignature(s) = ChainSignature(t)
      OBVIOUS
    <3> HIDE DEF s, t
    <3>2. EntriesAt(est, s) \subseteq EntriesAt(est, t)
      BY <3>1, SameSignature
    <3>3. EntriesAt(est, t) \subseteq EntriesAt(est, s)
      BY <3>1, SameSignature
    <3> QED BY <3>2, <3>3 DEF s, t
  <2> QED BY <2>1, ChainEntries
<1>2. \A e \in Range(a) : e.order \in Nat
  BY ChainEntries
<1>3. ASSUME NEW e \in Range(a), NEW f \in Range(a), e.order = f.order
      PROVE  e.name = f.name
  <2>0. \A x \in Range(a) : IsLinked(x, est, est.soms[m])
    BY ChainEntries
  <2> HIDE DEF a
  <2>1. PICK i \in DOMAIN est.soms[m].links : LET l == est.soms[m].links[i]
                                             IN  e.order = l.order /\ e.name = est.gpos[l.gpo].name
    BY <2>0 DEF IsLinked
  <2>2. PICK j \in DOMAIN est.soms[m].links : LET l == est.soms[m].links[j]
                                             IN  f.order = l.order /\ f.name = est.gpos[l.gpo].name
    BY <2>0 DEF IsLinked
  <2>3. i = j
    BY <1>3, <2>1, <2>2 DEF OrdersDistinct
  <2> QED BY <2>1, <2>2, <2>3
<1>4. BucketKeys(a) = BucketKeys(b)
  <2> HIDE DEF a, b
  <2> QED BY <1>1, BucketShape
<1>5. ASSUME NEW key \in BucketKeys(a)
      PROVE  /\ ConflictOf(Bucket(a, key), key) = ConflictOf(Bucket(b, key), key)
             /\ IsContested(Bucket(a, key)) = IsContested(Bucket(b, key))
  <2> DEFINE p == Bucket(a, key)
             q == Bucket(b, key)
  <2> HIDE DEF a, b
  <2>1. /\ IsSequence(p) /\ IsSequence(q) /\ Range(p) = Range(q) /\ DOMAIN p # {}
        /\ Range(p) \subseteq Range(a)
    <3>1. IsSequence(p) /\ Range(p) = {e \in Range(a) : e.key = key} /\ DOMAIN p # {}
      BY <1>1, BucketShape
    <3>2. IsSequence(q) /\ Range(q) = {e \in Range(b) : e.key = key}
      BY <1>1, BucketShape
    <3> QED BY <1>1, <3>1, <3>2
  <2> HIDE DEF p, q
  <2>2. /\ \A e \in Range(p) : e.order \in Nat
        /\ \A e, f \in Range(p) : e.order = f.order => e.name = f.name
    BY <1>2, <1>3, <2>1
  <2>3. ConflictOf(p, key) = ConflictOf(q, key) /\ IsContested(p) = IsContested(q)
    BY <2>1, <2>2, SameConflict
  <2> QED BY <2>3 DEF p, q
<1>6. /\ SomConflicts(est, est.soms[m].path) = {ConflictOf(Bucket(a, key), key) :
                    key \in {k \in BucketKeys(a) : IsContested(Bucket(a, k))}}
      /\ SomConflicts(est, est.soms[n].path) = {ConflictOf(Bucket(b, key), key) :
                    key \in {k \in BucketKeys(b) : IsContested(Bucket(b, k))}}
  BY ConflictsRead
<1> HIDE DEF a, b
<1> QED BY <1>4, <1>5, <1>6

\* A container that enables no link has no conflict.
LEMMA NoConflict ==
    ASSUME NEW est, IsEstate(est), NEW n \in DOMAIN est.soms, ChainSignature(est.soms[n]) = {}
    PROVE  SomConflicts(est, est.soms[n].path) = {}
<1> DEFINE a == ChainEntriesOf(est, est.soms[n].path)
<1>1. EnabledOf(est.soms[n].links) = {}
  BY DEF ChainSignature, EnabledOf
<1>2. IsSequence(a) /\ Range(a) = {}
  <2>1. EntriesAt(est, est.soms[n]) = {}
    BY <1>1 DEF EntriesAt
  <2> QED BY <2>1, ChainEntries
<1>3. SomConflicts(est, est.soms[n].path) = {ConflictOf(Bucket(a, key), key) :
                    key \in {k \in BucketKeys(a) : IsContested(Bucket(a, k))}}
  BY ConflictsRead
<1> HIDE DEF a
<1>4. BucketKeys(a) = {}
  BY <1>2, BucketShape
<1> QED BY <1>3, <1>4

\* Resolving each distinct chain once, at the first container that has it,
\* says of every container what resolving its own chain says.
LEMMA RollupOfEstate ==
    ASSUME NEW est, IsEstate(est), OrdersDistinct(est)
    PROVE  UNION {{[path |-> p, conflict |-> r.conflict] : p \in r.scopes}
                     : r \in PrecedenceConflictRollup(est)} = PrecedenceConflicts(est)
<1> DEFINE signatures == {ChainSignature(s) : s \in LinkedSoms(est)} \ {{}}
           sharing(sig) == {i \in DOMAIN est.soms :
                               est.soms[i] \in LinkedSoms(est) /\ ChainSignature(est.soms[i]) = sig}
           found(sig) == SomConflicts(est, est.soms[Min(sharing(sig))].path)
           scopes(sc) == UNION {{est.soms[i].path : i \in sharing(sig)}
                                   : sig \in {t \in signatures : sc \in found(t)}}
           rolled == PrecedenceConflictRollup(est)
           each == UNION {{[path |-> p, conflict |-> r.conflict] : p \in r.scopes} : r \in rolled}
<1>1. rolled = {[conflict |-> sc, scopes |-> scopes(sc)] : sc \in UNION {found(sig) : sig \in signatures}}
  BY DEF PrecedenceConflictRollup
<1>2. ASSUME NEW s \in LinkedSoms(est)
      PROVE  \E i \in DOMAIN est.soms : s = est.soms[i]
  BY DEF LinkedSoms, SomsOf
<1>3. ASSUME NEW sig, NEW i \in sharing(sig)
      PROVE  found(sig) = SomConflicts(est, est.soms[i].path)
  <2> DEFINE S == sharing(sig)
  <2>1. S \in SUBSET Nat /\ S # {} /\ S \subseteq DOMAIN est.soms
    <3>1. IsSequence(est.soms)
      BY DEF IsEstate
    <3> QED BY <3>1, ListShape
  <2>2. \A k \in S : ChainSignature(est.soms[k]) = sig
    OBVIOUS
  <2>3. i \in S
    OBVIOUS
  <2> HIDE DEF S, LinkedSoms
  <2>4. Min(S) \in S
    BY <2>1, MinOf
  <2>5. SomConflicts(est, est.soms[Min(S)].path) = SomConflicts(est, est.soms[i].path)
    BY <2>1, <2>2, <2>3, <2>4, SameConflicts
  <2> QED BY <2>5 DEF S
<1>4. rolled = {[conflict |-> sc, scopes |-> scopes(sc)] : sc \in UNION {found(sig) : sig \in signatures}}
  BY <1>1
<1>5. ASSUME NEW x
      PROVE  x \in each <=> \E sig \in signatures : \E c \in found(sig) : \E i \in sharing(sig) :
                                x = [path |-> est.soms[i].path, conflict |-> c]
  <2> HIDE DEF signatures, sharing, found
  <2>1. x \in each <=> \E sc \in UNION {found(sig) : sig \in signatures} : \E p \in scopes(sc) :
                           x = [path |-> p, conflict |-> sc]
    <3> HIDE DEF scopes, rolled
    <3>1. \A r \in rolled : \E sc \in UNION {found(sig) : sig \in signatures} :
              r.conflict = sc /\ r.scopes = scopes(sc)
      BY <1>4
    <3>2. \A sc \in UNION {found(sig) : sig \in signatures} : \E r \in rolled :
              r.conflict = sc /\ r.scopes = scopes(sc)
      <4>1. ASSUME NEW sc \in UNION {found(sig) : sig \in signatures}
            PROVE  \E r \in rolled : r.conflict = sc /\ r.scopes = scopes(sc)
        <5> DEFINE r == [conflict |-> sc, scopes |-> scopes(sc)]
        <5>1. r \in rolled /\ r.conflict = sc /\ r.scopes = scopes(sc)
          BY <1>4
        <5> QED BY <5>1
      <4> QED BY <4>1
    <3> QED BY <3>1, <3>2
  <2>2. ASSUME NEW sc, NEW p
        PROVE  p \in scopes(sc) <=> \E sig \in signatures : sc \in found(sig) /\ \E i \in sharing(sig) :
                                         p = est.soms[i].path
    OBVIOUS
  <2> HIDE DEF each, scopes
  <2> QED BY <2>1, <2>2
<1>6. ASSUME NEW x
      PROVE  x \in PrecedenceConflicts(est) <=>
                \E s \in LinkedSoms(est) : \E c \in SomConflicts(est, s.path) : x = [path |-> s.path, conflict |-> c]
  BY DEF PrecedenceConflicts
<1> HIDE DEF each, rolled, found
<1>7. ASSUME NEW x \in each
      PROVE  x \in PrecedenceConflicts(est)
  <2>1. PICK sig \in signatures : \E c \in found(sig) : \E i \in sharing(sig) :
            x = [path |-> est.soms[i].path, conflict |-> c]
    BY <1>5
  <2> PICK c \in found(sig) : \E i \in sharing(sig) : x = [path |-> est.soms[i].path, conflict |-> c]
    BY <2>1
  <2> PICK i \in sharing(sig) : x = [path |-> est.soms[i].path, conflict |-> c]
    OBVIOUS
  <2>2. c \in SomConflicts(est, est.soms[i].path)
    BY <1>3, <2>1
  <2>3. est.soms[i] \in LinkedSoms(est)
    OBVIOUS
  <2> QED BY <1>6, <2>1, <2>2, <2>3
<1>8. ASSUME NEW x \in PrecedenceConflicts(est)
      PROVE  x \in each
  <2>1. PICK s \in LinkedSoms(est) : \E c \in SomConflicts(est, s.path) : x = [path |-> s.path, conflict |-> c]
    BY <1>6
  <2>2. PICK c \in SomConflicts(est, s.path) : x = [path |-> s.path, conflict |-> c]
    BY <2>1
  <2>3. PICK i \in DOMAIN est.soms : s = est.soms[i]
    BY <1>2
  <2> DEFINE sig == ChainSignature(s)
  <2>4. sig # {}
    BY <2>2, <2>3, NoConflict
  <2>5. sig \in signatures /\ i \in sharing(sig)
    BY <2>3, <2>4
  <2>6. c \in found(sig)
    BY <1>3, <2>2, <2>3, <2>5
  <2> HIDE DEF sig, signatures, sharing
  <2> QED BY <1>5, <2>2, <2>3, <2>5, <2>6
<1>9. each = PrecedenceConflicts(est)
  BY <1>7, <1>8
<1> QED BY <1>9 DEF each, rolled

\* The roll-up of precedence conflicts, which groups containers by signature and
\* resolves one of each group, says of every container what resolving it says.
THEOREM RollupSaysTheSame == PipelineSpec => []RollupIsNaive
<1>1. ASSUME Provenance, phase = "open", Unambiguous(opened.est)
      PROVE  UNION {{[path |-> p, conflict |-> r.conflict] : p \in r.scopes}
                  : r \in PrecedenceConflictRollup(opened.est)} = PrecedenceConflicts(opened.est)
  <2> DEFINE est == opened.est
  <2>1. IsEstate(est)
    BY <1>1, Estates
  <2>2. OrdersDistinct(est)
    <3>1. ASSUME NEW n \in DOMAIN est.soms
          PROVE  Distinct([i \in DOMAIN est.soms[n].links |-> est.soms[n].links[i].order])
      BY <1>1 DEF Unambiguous, SomsOf
    <3> QED BY <3>1 DEF OrdersDistinct, Distinct
  <2> HIDE DEF est
  <2>3. UNION {{[path |-> p, conflict |-> r.conflict] : p \in r.scopes}
                  : r \in PrecedenceConflictRollup(est)} = PrecedenceConflicts(est)
    BY <2>1, <2>2, RollupOfEstate
  <2> QED BY <2>3 DEF est
<1>2. Provenance => RollupIsNaive
  BY <1>1 DEF RollupIsNaive
<1> QED BY <1>2, ImportInvariance, PTL

-----------------------------------------------------------------------------
(* The merge of a chain: every key that some link gives is in the answer,  *)
(* or its absence is an item that deletes it.                              *)

\* The slot of the action resolver before any item.
EmptySlot == [item |-> NoItem, deleted |-> FALSE]

\* What the action resolver leaves of a list of items: one of them or nothing,
\* and something as long as no item has an action other than the three that
\* fill a slot.
LEMMA ActionsResolved ==
    ASSUME NEW items, IsSequence(items), \A i \in DOMAIN items : items[i].order \in Nat
    PROVE  LET slot == FoldLeft(GppStep, EmptySlot, items)
           IN  /\ slot.item \in Range(items) \cup {NoItem} /\ slot.deleted \in BOOLEAN
               /\ DOMAIN items # {} /\ (\A i \in DOMAIN items : items[i].action \in {"C", "R", "U"}) =>
                     slot.item # NoItem /\ ~slot.deleted
<1> DEFINE n == Len(items)
           S == 1..n
           Slots == [item : Range(items) \cup {NoItem}, deleted : BOOLEAN]
           choose == [T \in SUBSET S |-> Max(T)]
           step == [i \in S |-> [x \in Slots |-> GppStep(x, items[i])]]
           Equation(f) == f = [T \in SUBSET S |-> IF T = {} THEN EmptySlot
                                 ELSE GppStep(f[T \ {Max(T)}], items[Max(T)])]
           iter == CHOOSE g : Equation(g)
<1>1. n \in Nat /\ DOMAIN items = 1..n
  BY ListShape
<1>2. \A i \in S : items[i] \in Range(items) /\ items[i].order \in Nat /\ items[i] # NoItem
  <2>1. \A i \in S : items[i] \in Range(items) /\ items[i].order \in Nat
    BY <1>1 DEF Range
  <2>2. NoItem.order \notin Nat
    BY DEF NoItem
  <2> QED BY <2>1, <2>2
<1>3. FoldLeft(GppStep, EmptySlot, items) = iter[S]
  BY <1>1 DEF FoldLeft, MapThenFoldSet
<1> HIDE DEF n, Slots
<1>4. IsFiniteSet(S)
  <2>1. 1 \in Int /\ n \in Int
    BY <1>1
  <2> QED BY <2>1, FS_Interval
<1>5. Chooses(choose, S) /\ \A T \in SUBSET S : choose[T] = Max(T) /\ (T # {} => Max(T) \in T)
  <2>1. \A T \in SUBSET S : T # {} => Max(T) \in T
    BY <1>1, MaxOf
  <2> QED BY <2>1 DEF Chooses
<1>6. EmptySlot \in Slots
  BY DEF EmptySlot, Slots
<1>7. step \in [S -> [Slots -> Slots]]
  <2> SUFFICES ASSUME NEW i \in S, NEW x \in Slots
               PROVE  GppStep(x, items[i]) \in Slots
    OBVIOUS
  <2>1. items[i] \in Range(items)
    BY <1>2
  <2> QED BY <2>1 DEF GppStep, Slots
<1>8. PICK f \in [SUBSET S -> Slots] : IsFold(f, S, EmptySlot, choose, step)
  <2> HIDE DEF S, choose, step, EmptySlot
  <2> QED BY <1>4, <1>5, <1>6, <1>7, FoldExists, Zenon
<1>9. f[{}] = EmptySlot /\ \A T \in SUBSET S : T # {} => f[T] = GppStep(f[T \ {Max(T)}], items[Max(T)])
  <2>1. f[{}] = EmptySlot
    BY <1>8 DEF IsFold
  <2>2. ASSUME NEW T \in SUBSET S, T # {}
        PROVE  f[T] = GppStep(f[T \ {Max(T)}], items[Max(T)])
    <3>1. choose[T] = Max(T) /\ Max(T) \in S /\ f[T \ {Max(T)}] \in Slots
      BY <1>5, <2>2
    <3>2. f[T] = step[Max(T)][f[T \ {Max(T)}]]
      BY <1>8, <2>2, <3>1 DEF IsFold
    <3> HIDE DEF S, choose
    <3> QED BY <3>1, <3>2
  <2> QED BY <2>1, <2>2
<1>10. Equation(f)
  <2> HIDE DEF S, choose, step
  <2> QED BY <1>8, <1>9
<1>11. Equation(iter)
  <2>1. \E g : Equation(g)
    BY <1>10
  <2> QED BY <2>1
<1>12. iter[{}] = EmptySlot
       /\ \A T \in SUBSET S : T # {} => iter[T] = GppStep(iter[T \ {Max(T)}], items[Max(T)])
  <2> HIDE DEF iter, S
  <2> QED BY <1>11
<1> HIDE DEF iter, Equation, step, S, choose
<1>13. iter[S] = f[S]
  <2> DEFINE Good == {T \in SUBSET S : iter[T] = f[T]}
  <2>1. {} \in Good
    BY <1>9, <1>12
  <2>2. ASSUME NEW T \in SUBSET S, T # {}, T \ {choose[T]} \in Good
        PROVE  T \in Good
    <3>1. choose[T] = Max(T) /\ iter[T \ {Max(T)}] = f[T \ {Max(T)}]
      BY <1>5, <2>2
    <3> QED BY <1>9, <1>12, <2>2, <3>1
  <2> HIDE DEF Good
  <2>3. S \in Good
    BY <1>4, <1>5, <2>1, <2>2, SubsetInduction
  <2> QED BY <2>3 DEF Good
<1>14. f[S].item \in Range(items) \cup {NoItem} /\ f[S].deleted \in BOOLEAN
  BY <1>8 DEF Slots
<1>15. ASSUME DOMAIN items # {}, \A i \in DOMAIN items : items[i].action \in {"C", "R", "U"}
       PROVE  f[S].item # NoItem /\ ~f[S].deleted
  <2> DEFINE Good == {T \in SUBSET S : ~f[T].deleted /\ (T # {} => f[T].item # NoItem)}
  <2>1. {} \in Good
    BY <1>9 DEF EmptySlot
  <2>2. ASSUME NEW T \in SUBSET S, T # {}, T \ {choose[T]} \in Good
        PROVE  T \in Good
    <3> DEFINE it == items[Max(T)]
               slot == f[T \ {Max(T)}]
    <3>1. choose[T] = Max(T) /\ Max(T) \in S
      BY <1>5, <2>2
    <3>2. it.action \in {"C", "R", "U"} /\ it # NoItem
      BY <1>1, <1>2, <1>15, <3>1 DEF S
    <3>3. ~slot.deleted
      BY <2>2, <3>1
    <3>4. f[T] = GppStep(slot, it)
      BY <1>9, <2>2
    <3> HIDE DEF it, slot
    <3>5. ~f[T].deleted /\ f[T].item # NoItem
      <4>1. CASE it.action \in {"R", "U"}
        BY <3>2, <3>3, <3>4, <4>1 DEF GppStep
      <4>2. CASE it.action = "C" /\ slot.item = NoItem
        BY <3>2, <3>3, <3>4, <4>2 DEF GppStep
      <4>3. CASE it.action = "C" /\ slot.item # NoItem
        BY <3>2, <3>3, <3>4, <4>3 DEF GppStep
      <4> QED BY <3>2, <4>1, <4>2, <4>3
    <3> QED BY <3>5
  <2> HIDE DEF Good
  <2>3. S \in Good
    BY <1>4, <1>5, <2>1, <2>2, SubsetInduction
  <2>4. S # {}
    BY <1>1, <1>15 DEF S
  <2> QED BY <2>3, <2>4 DEF Good
<1> QED BY <1>3, <1>13, <1>14, <1>15

\* What is left of a bucket is one of its items, or nothing when a preference
\* of it has an action that does not fill its slot.
LEMMA SurvivorShape ==
    ASSUME NEW items, IsSequence(items), DOMAIN items # {}, \A i \in DOMAIN items : items[i].order \in Nat
    PROVE  /\ Survivor(items) \in Range(items) \cup {NoItem}
           /\ items[1].mode # "accumulate" => Survivor(items) # NoItem
           /\ Survivor(items) = NoItem =>
                 \E i \in DOMAIN items : items[i].action \notin {"C", "R", "U"}
<1>1. \A i \in DOMAIN items : items[i] # NoItem
  <2>1. NoItem.order \notin Nat
    BY DEF NoItem
  <2> QED BY <2>1
<1>2. CASE items[1].mode # "accumulate"
  <2>1. HighestOrder(items) \in DOMAIN items
    BY HighestShape DEF IsHighest
  <2>2. Survivor(items) = items[HighestOrder(items)]
    BY <1>2 DEF Survivor
  <2> QED BY <1>1, <2>1, <2>2 DEF Range
<1>3. CASE items[1].mode = "accumulate"
  <2> DEFINE rank == [i \in DOMAIN items |-> items[i].order]
             sorted == ByOrder(items)
             slot == FoldLeft(GppStep, EmptySlot, sorted)
  <2>1. /\ IsSequence(sorted) /\ DOMAIN sorted = DOMAIN items /\ Range(sorted) = Range(items)
    <3>1. rank \in [DOMAIN items -> Int]
      OBVIOUS
    <3>2. sorted = OrderedBy(items, rank, FALSE)
      BY DEF ByOrder
    <3> HIDE DEF rank, sorted
    <3>3. PICK flip \in BOOLEAN : flip = FALSE
      OBVIOUS
    <3>4. sorted = OrderedBy(items, rank, flip)
      BY <3>2, <3>3
    <3>5. IsSequence(sorted) /\ DOMAIN sorted = DOMAIN items /\ Range(sorted) = Range(items)
      BY <3>1, <3>4, OrderedShape
    <3> QED BY <3>5
  <2>2. Survivor(items) = IF slot.deleted THEN NoItem ELSE slot.item
    BY <1>3 DEF Survivor, ResolveGppActions, EmptySlot
  <2> HIDE DEF sorted
  <2>3. /\ \A k \in DOMAIN sorted : sorted[k].order \in Nat
        /\ (\A i \in DOMAIN items : items[i].action \in {"C", "R", "U"}) =>
              \A k \in DOMAIN sorted : sorted[k].action \in {"C", "R", "U"}
    <3>1. \A k \in DOMAIN sorted : \E i \in DOMAIN items : sorted[k] = items[i]
      BY <2>1 DEF Range
    <3> QED BY <3>1
  <2>4. /\ slot.item \in Range(sorted) \cup {NoItem} /\ slot.deleted \in BOOLEAN
        /\ DOMAIN sorted # {} /\ (\A k \in DOMAIN sorted : sorted[k].action \in {"C", "R", "U"}) =>
              slot.item # NoItem /\ ~slot.deleted
    BY <2>1, <2>3, ActionsResolved
  <2> HIDE DEF slot
  <2> QED BY <1>3, <2>1, <2>2, <2>3, <2>4
<1> QED BY <1>2, <1>3

\* The settings of one side that are in force.
LEMMA LiveShape ==
    ASSUME NEW g, IsSequence(g.settings), NEW side
    PROVE  /\ IsSequence(LiveSettings(g, side))
           /\ Range(LiveSettings(g, side)) = {s \in SettingsOf(g) : s.side = side /\ ~s.off}
           /\ LiveSettings(g, side) = <<>> => Range(LiveSettings(g, side)) = {}
<1> DEFINE keep == {i \in DOMAIN g.settings : g.settings[i].side = side /\ ~g.settings[i].off}
           live == LiveSettings(g, side)
<1>1. live = Kept(g.settings, keep)
  BY DEF LiveSettings
<1> HIDE DEF keep, live
<1>2. IsSequence(live) /\ Range(live) = {g.settings[i] : i \in DOMAIN g.settings \cap keep}
  BY <1>1, KeptShape
<1>3. Range(live) = {s \in SettingsOf(g) : s.side = side /\ ~s.off}
  BY <1>2 DEF keep, SettingsOf
<1>4. live = <<>> => Range(live) = {}
  BY EmptyShape
<1> QED BY <1>2, <1>3, <1>4 DEF live

\* A chain of links.
IsChain(links) == IsSequence(links) /\ \A i \in DOMAIN links : links[i].order \in Nat

\* The links of any container's chain, its own or an ancestor's, are one.
LEMMA LinksShape ==
    ASSUME NEW est, IsEstate(est), NEW path
    PROVE  IsChain(SomEffectiveGpos(est, path))
<1> DEFINE found == {i \in DOMAIN est.soms : est.soms[i].path = path}
           exact == FindSom(est, path)
           up == FindParentSom(est, path)
<1>1. /\ IsSequence(est.soms) /\ \A i \in DOMAIN est.soms : IsSom(est.soms[i])
  BY DEF IsEstate
<1>2. IsSom(NoSom)
  <2>1. NoSom = [x \in {"path", "kind", "links"} |-> NoSom[x]] /\ NoSom.links = <<>>
    BY DEF NoSom
  <2> QED BY <2>1, EmptyShape DEF IsSom
<1>3. IsSom(exact)
  <2>1. exact = FirstOr(est.soms, found, NoSom) /\ found \in SUBSET DOMAIN est.soms
    BY DEF FindSom
  <2> HIDE DEF exact, found
  <2> QED BY <1>1, <1>2, <2>1, FirstShape
<1>4. IsSom(up)
  <2> DEFINE last == Reverse(est.soms)
             Found(p) == {i \in DOMAIN last : last[i].kind # "site" /\ last[i].path = p}
             som(p) == FirstOr(last, Found(p), NoSom)
             above == Ancestors(path, 1)
             nearest == FirstOr(above, {i \in DOMAIN above : som(above[i]) # NoSom}, <<>>)
  <2>1. up = IF nearest = <<>> THEN NoSom ELSE som(nearest)
    BY DEF FindParentSom
  <2>2. IsSequence(last) /\ \A i \in DOMAIN last : IsSom(last[i])
    <3>1. IsSequence(last) /\ Range(last) = Range(est.soms)
      BY <1>1, ReverseShape
    <3> HIDE DEF last
    <3>2. \A i \in DOMAIN last : \E j \in DOMAIN est.soms : last[i] = est.soms[j]
      BY <3>1 DEF Range
    <3> QED BY <1>1, <3>1, <3>2
  <2>3. ASSUME NEW p
        PROVE  IsSom(som(p))
    <3>1. Found(p) \in SUBSET DOMAIN last
      OBVIOUS
    <3> HIDE DEF last, Found
    <3> QED BY <1>2, <2>2, <3>1, FirstShape
  <2> HIDE DEF nearest, som
  <2> QED BY <1>2, <2>1, <2>3
<1>5. SomEffectiveGpos(est, path) = exact.links \/ SomEffectiveGpos(est, path) = up.links
  BY DEF SomEffectiveGpos
<1> QED BY <1>3, <1>4, <1>5 DEF IsSom, IsChain

\* The entry a link becomes.
EntryOf(est, link, side) ==
    [gpo |-> link.gpo, order |-> link.order, settings |-> LiveSettings(est.gpos[link.gpo], side)]

\* What a chain collects: exclusions for its side, and entries made of its
\* enabled links to known GPOs, one for each such link whose GPO is neither
\* skipped nor excluded and has something on the side.
LEMMA ChainCollected ==
    ASSUME NEW est, IsEstate(est), NEW links, IsChain(links), NEW side, NEW token, NEW known, NEW already
    PROVE  LET chain == CollectChain(est, links, side, token, known, already)
           IN  /\ IsSequence(chain.entries) /\ \A e \in chain.excluded : e.side = side
               /\ \A e \in Range(chain.entries) : \E i \in DOMAIN links :
                     /\ links[i].enabled /\ links[i].gpo \in GpoIds(est) /\ links[i].gpo \notin already
                     /\ e = EntryOf(est, links[i], side)
               /\ \A i \in DOMAIN links :
                     /\ links[i].enabled /\ links[i].gpo \in GpoIds(est) /\ links[i].gpo \notin already
                     /\ links[i].gpo \notin {e.gpo : e \in chain.excluded}
                     /\ LiveSettings(est.gpos[links[i].gpo], side) # <<>>
                     => EntryOf(est, links[i], side) \in Range(chain.entries)
<1> DEFINE keep == {i \in DOMAIN links :
                       links[i].enabled /\ links[i].gpo \in GpoIds(est) /\ links[i].gpo \notin already}
           live == Kept(links, keep)
           verdict == Verdicts(est, {live[i].gpo : i \in DOMAIN live}, token, known)
           kept == {i \in DOMAIN live :
                       verdict[live[i].gpo] = "pass" /\ LiveSettings(est.gpos[live[i].gpo], side) # <<>>}
           passed == Kept(live, kept)
           entries == [i \in DOMAIN passed |-> EntryOf(est, passed[i], side)]
           excluded == {[gpo |-> id, kind |-> verdict[id], side |-> side] :
                           id \in {x \in DOMAIN verdict : verdict[x] # "pass"}}
           chain == CollectChain(est, links, side, token, known, already)
<1>1. chain = [entries |-> entries, excluded |-> excluded]
  BY DEF CollectChain, Gated, EntryOf
<1>2. DOMAIN verdict = {live[i].gpo : i \in DOMAIN live}
  BY DEF Verdicts
<1> HIDE DEF chain, keep, live, verdict
<1>3. IsSequence(links) /\ keep \subseteq DOMAIN links
  BY DEF IsChain, keep
<1>4. IsSequence(live) /\ Range(live) = {links[i] : i \in keep}
  <2>1. Range(live) = {links[i] : i \in DOMAIN links \cap keep}
    BY <1>3, KeptShape DEF live
  <2> QED BY <1>3, <2>1, KeptShape DEF live
<1>5. IsSequence(passed) /\ Range(passed) = {live[i] : i \in kept}
  <2>1. kept \subseteq DOMAIN live
    OBVIOUS
  <2> HIDE DEF kept
  <2>2. Range(passed) = {live[i] : i \in DOMAIN live \cap kept}
    BY <1>4, KeptShape
  <2> QED BY <1>4, <2>1, <2>2, KeptShape
<1> HIDE DEF passed
<1>6. IsSequence(entries) /\ Range(entries) = {EntryOf(est, l, side) : l \in Range(passed)}
  <2>1. IsSequence(entries) /\ DOMAIN entries = DOMAIN passed
    BY <1>5, MappedShape
  <2> QED BY <2>1 DEF Range
<1> HIDE DEF entries
<1>7. ASSUME NEW e \in Range(entries)
      PROVE  \E i \in DOMAIN links :
                /\ links[i].enabled /\ links[i].gpo \in GpoIds(est) /\ links[i].gpo \notin already
                /\ e = EntryOf(est, links[i], side)
  <2>1. PICK l \in Range(passed) : e = EntryOf(est, l, side)
    BY <1>6
  <2>2. l \in Range(live)
    BY <1>5 DEF Range
  <2>3. PICK i \in keep : l = links[i]
    BY <1>4, <2>2
  <2> QED BY <1>3, <2>1, <2>3 DEF keep
<1>8. ASSUME NEW i \in DOMAIN links,
             links[i].enabled, links[i].gpo \in GpoIds(est), links[i].gpo \notin already,
             links[i].gpo \notin {e.gpo : e \in excluded},
             LiveSettings(est.gpos[links[i].gpo], side) # <<>>
      PROVE  EntryOf(est, links[i], side) \in Range(entries)
  <2>1. PICK k \in DOMAIN live : live[k] = links[i]
    BY <1>4, <1>8 DEF keep, Range
  <2>2. links[i].gpo \in DOMAIN verdict
    BY <1>2, <2>1
  <2>3. verdict[links[i].gpo] = "pass"
    <3> DEFINE id == links[i].gpo
               out == [gpo |-> id, kind |-> verdict[id], side |-> side]
    <3>1. out.gpo = id
      OBVIOUS
    <3>2. verdict[id] # "pass" => out \in excluded
      BY <2>2
    <3> HIDE DEF out, excluded
    <3> QED BY <1>8, <3>1, <3>2
  <2>4. k \in kept
    BY <1>8, <2>1, <2>3
  <2>5. links[i] \in Range(passed)
    BY <1>5, <2>1, <2>4
  <2> QED BY <1>6, <2>5
<1>9. \A e \in excluded : e.side = side
  OBVIOUS
<1> HIDE DEF excluded
<1>10. chain.entries = entries /\ chain.excluded = excluded
  BY <1>1
<1> QED BY <1>6, <1>7, <1>8, <1>9, <1>10 DEF chain

\* The item a setting of an entry becomes; entries; and the items of each.
ItemOf(e, s) == [key |-> Key(s), gpo |-> e.gpo, order |-> e.order, value |-> s.value, mode |-> MergeMode(s),
                 action |-> IF s.cse \in GppCses THEN s.action ELSE "U"]
IsEntries(entries) ==
    /\ IsSequence(entries)
    /\ \A i \in DOMAIN entries : entries[i].order \in Nat /\ IsSequence(entries[i].settings)
ItemLists(entries) == [i \in DOMAIN entries |-> ItemsOf(entries[i])]

\* The items of the entries: every setting of every entry, with its order.
LEMMA ItemsShape ==
    ASSUME NEW entries, IsEntries(entries)
    PROVE  /\ IsLists(ItemLists(entries)) /\ IsSequence(FlattenSeq(ItemLists(entries)))
           /\ \A it : it \in Range(FlattenSeq(ItemLists(entries))) <=>
                 \E i \in DOMAIN entries : \E s \in Range(entries[i].settings) : it = ItemOf(entries[i], s)
           /\ \A it \in Range(FlattenSeq(ItemLists(entries))) : it.order \in Nat
<1> DEFINE seqs == ItemLists(entries)
           all == FlattenSeq(seqs)
<1>1. ASSUME NEW i \in DOMAIN entries
      PROVE  /\ IsSequence(ItemsOf(entries[i]))
             /\ Range(ItemsOf(entries[i])) = {ItemOf(entries[i], s) : s \in Range(entries[i].settings)}
  <2> DEFINE e == entries[i]
             items == ItemsOf(e)
  <2>1. items = [k \in DOMAIN e.settings |-> ItemOf(e, e.settings[k])]
    BY DEF ItemsOf, ItemOf
  <2>2. IsSequence(e.settings)
    BY DEF IsEntries
  <2> HIDE DEF e, items
  <2>3. IsSequence(items) /\ DOMAIN items = DOMAIN e.settings
    BY <2>1, <2>2, MappedShape
  <2>4. Range(items) = {ItemOf(e, s) : s \in Range(e.settings)}
    BY <2>1, <2>3 DEF Range
  <2> QED BY <2>3, <2>4 DEF e, items
<1>2. IsLists(seqs) /\ DOMAIN seqs = DOMAIN entries /\ \A i \in DOMAIN entries : seqs[i] = ItemsOf(entries[i])
  <2>1. seqs = [i \in DOMAIN entries |-> ItemsOf(entries[i])]
    BY DEF ItemLists
  <2>2. IsSequence(seqs) /\ DOMAIN seqs = DOMAIN entries
    BY <2>1, MappedShape DEF IsEntries
  <2> HIDE DEF seqs
  <2>3. \A i \in DOMAIN entries : seqs[i] = ItemsOf(entries[i])
    BY <2>1
  <2> QED BY <1>1, <2>2, <2>3 DEF IsLists
<1> HIDE DEF seqs
<1>3. IsSequence(all) /\ Range(all) = UNION {Range(seqs[i]) : i \in DOMAIN seqs}
  BY <1>2, FlatRange
<1> HIDE DEF all
<1>4. \A it : it \in Range(all) <=>
         \E i \in DOMAIN entries : \E s \in Range(entries[i].settings) : it = ItemOf(entries[i], s)
  <2>1. \A it : it \in Range(all) <=> \E i \in DOMAIN entries : it \in Range(seqs[i])
    BY <1>2, <1>3
  <2> QED BY <1>1, <1>2, <2>1
<1>5. \A it \in Range(all) : it.order \in Nat
  BY <1>4 DEF ItemOf, IsEntries
<1> QED BY <1>2, <1>3, <1>4, <1>5 DEF all, seqs

\* A bucket that keeps a survivor is merged under its own key.
LEMMA BucketKeyKept ==
    ASSUME NEW all, IsSequence(all), \A it \in Range(all) : it.order \in Nat, NEW key \in BucketKeys(all)
    PROVE  LET b == Bucket(all, key)
           IN  /\ Survivor(b) # NoItem => MergeBucket(b).key = key
               /\ Survivor(b) = NoItem =>
                     \E it \in Range(all) : it.key = key /\ it.action \notin {"C", "R", "U"}
<1> DEFINE b == Bucket(all, key)
<1>1. /\ IsSequence(b) /\ Range(b) = {e \in Range(all) : e.key = key} /\ DOMAIN b # {}
  BY BucketShape
<1> HIDE DEF b
<1>2. \A i \in DOMAIN b : b[i] \in Range(all) /\ b[i].key = key /\ b[i].order \in Nat
  <2>1. \A i \in DOMAIN b : b[i] \in Range(b)
    BY DEF Range
  <2> QED BY <1>1, <2>1
<1>3. /\ Survivor(b) \in Range(b) \cup {NoItem}
      /\ Survivor(b) = NoItem => \E i \in DOMAIN b : b[i].action \notin {"C", "R", "U"}
  BY <1>1, <1>2, SurvivorShape
<1>4. ASSUME Survivor(b) # NoItem
      PROVE  MergeBucket(b).key = key
  <2>1. Survivor(b).key = key
    BY <1>1, <1>3, <1>4
  <2> QED BY <2>1 DEF MergeBucket
<1> QED BY <1>2, <1>3, <1>4 DEF b

\* The entries a chain collects can be merged.
LEMMA EntriesShape ==
    ASSUME NEW est, IsEstate(est), NEW links, IsChain(links), NEW side, NEW token, NEW known, NEW already
    PROVE  IsEntries(CollectChain(est, links, side, token, known, already).entries)
<1> DEFINE entries == CollectChain(est, links, side, token, known, already).entries
<1>1. /\ IsSequence(entries)
      /\ \A e \in Range(entries) : \E i \in DOMAIN links :
            links[i].gpo \in GpoIds(est) /\ e = EntryOf(est, links[i], side)
  BY ChainCollected
<1> HIDE DEF entries
<1>2. ASSUME NEW k \in DOMAIN entries
      PROVE  entries[k].order \in Nat /\ IsSequence(entries[k].settings)
  <2>1. PICK i \in DOMAIN links : links[i].gpo \in GpoIds(est) /\ entries[k] = EntryOf(est, links[i], side)
    BY <1>1 DEF Range
  <2>2. links[i].order \in Nat
    BY DEF IsChain
  <2>3. IsSequence(LiveSettings(est.gpos[links[i].gpo], side))
    BY <2>1, LiveShape DEF IsEstate
  <2> QED BY <2>1, <2>2, <2>3 DEF EntryOf
<1>3. IsEntries(entries)
  BY <1>1, <1>2 DEF IsEntries
<1> QED BY <1>3 DEF entries

-----------------------------------------------------------------------------
(* Who wins a key, and what loopback does to it: entries of the computer's *)
(* chain are raised above the user's.                                      *)

\* The entries that give a key something, and the first of the highest order.
Givers(entries, key) == {i \in DOMAIN entries : \E s \in Range(entries[i].settings) : Key(s) = key}
IsWinner(i, entries, key) ==
    /\ i \in Givers(entries, key)
    /\ \A m \in Givers(entries, key) :
          \/ entries[m].order < entries[i].order
          \/ entries[m].order = entries[i].order /\ i =< m

\* The keys of the items are those some entry gives.
LEMMA GiversShape ==
    ASSUME NEW entries, IsEntries(entries)
    PROVE  \A key : key \in BucketKeys(FlattenSeq(ItemLists(entries))) <=> Givers(entries, key) # {}
<1> DEFINE all == FlattenSeq(ItemLists(entries))
<1>1. /\ IsSequence(all)
      /\ \A it : it \in Range(all) <=>
            \E i \in DOMAIN entries : \E s \in Range(entries[i].settings) : it = ItemOf(entries[i], s)
  BY ItemsShape
<1> HIDE DEF all
<1>2. BucketKeys(all) = {it.key : it \in Range(all)}
  BY <1>1, BucketShape
<1>3. \A e, s : ItemOf(e, s).key = Key(s)
  BY DEF ItemOf
<1>4. \A key : key \in BucketKeys(all) <=> Givers(entries, key) # {}
  <2>1. ASSUME NEW key
        PROVE  key \in BucketKeys(all) <=>
                  \E i \in DOMAIN entries : \E s \in Range(entries[i].settings) : Key(s) = key
    <3>1. key \in BucketKeys(all) <=> \E it \in Range(all) : it.key = key
      BY <1>2
    <3>2. (\E it \in Range(all) : it.key = key) =>
             \E i \in DOMAIN entries : \E s \in Range(entries[i].settings) : Key(s) = key
      BY <1>1, <1>3
    <3>3. ASSUME NEW i \in DOMAIN entries, NEW s \in Range(entries[i].settings), Key(s) = key
          PROVE  \E it \in Range(all) : it.key = key
      <4>1. ItemOf(entries[i], s) \in Range(all)
        BY <1>1
      <4> QED BY <1>3, <3>3, <4>1
    <3> QED BY <3>1, <3>2, <3>3
  <2>2. ASSUME NEW key
        PROVE  Givers(entries, key) # {} <=>
                  \E i \in DOMAIN entries : \E s \in Range(entries[i].settings) : Key(s) = key
    BY DEF Givers
  <2> QED BY <2>1, <2>2
<1> QED BY <1>4 DEF all

\* The item of a bucket that wins is of the winning entry.
LEMMA WinnerShape ==
    ASSUME NEW entries, IsEntries(entries), NEW key, Givers(entries, key) # {}
    PROVE  LET b == Bucket(FlattenSeq(ItemLists(entries)), key)
           IN  \E i : IsWinner(i, entries, key) /\ b[HighestOrder(b)].gpo = entries[i].gpo
<1> DEFINE seqs == ItemLists(entries)
           all == FlattenSeq(seqs)
           b == Bucket(all, key)
           keep == {n \in DOMAIN all : all[n].key = key}
           w == HighestOrder(b)
<1>1. IsLists(seqs) /\ IsSequence(all) /\ \A it \in Range(all) : it.order \in Nat
  BY ItemsShape
<1>2. key \in BucketKeys(all)
  BY GiversShape
<1>3. ASSUME NEW i \in DOMAIN entries
      PROVE  /\ DOMAIN seqs[i] = DOMAIN entries[i].settings
             /\ \A j \in DOMAIN seqs[i] : seqs[i][j] = ItemOf(entries[i], entries[i].settings[j])
  BY DEF ItemLists, ItemsOf, ItemOf
<1>4. DOMAIN seqs = DOMAIN entries /\ DOMAIN seqs = 1..Len(seqs) /\ Len(seqs) \in Nat
  <2>1. DOMAIN seqs = DOMAIN entries
    BY DEF ItemLists
  <2> HIDE DEF seqs
  <2> QED BY <1>1, <2>1, ListShape DEF IsLists
<1> HIDE DEF seqs
<1>5. PICK at : IsLayout(at, all, seqs, Len(seqs))
  BY <1>1, Flattened
<1> HIDE DEF all
<1>6. b = Kept(all, keep)
  BY DEF Bucket
<1>7. PICK pick : IsPick(pick, b, all, keep)
  <2> HIDE DEF keep, b
  <2> QED BY <1>1, <1>6, KeptShape
<1>8. IsSequence(b) /\ DOMAIN b # {} /\ Range(b) = {e \in Range(all) : e.key = key}
  BY <1>1, <1>2, BucketShape
<1> HIDE DEF b, keep
<1>9. \A k \in DOMAIN b : b[k].order \in Int
  BY <1>1, <1>8 DEF Range
<1>10. IsHighest(w, b)
  BY <1>8, <1>9, HighestShape
<1> HIDE DEF w
<1>11. ASSUME NEW k \in DOMAIN b
       PROVE  /\ pick[k] \in DOMAIN all /\ b[k] = all[pick[k]] /\ b[k].key = key
              /\ at[pick[k]][1] \in DOMAIN entries /\ at[pick[k]][2] \in DOMAIN entries[at[pick[k]][1]].settings
              /\ b[k] = ItemOf(entries[at[pick[k]][1]], entries[at[pick[k]][1]].settings[at[pick[k]][2]])
  <2>1. pick[k] \in DOMAIN all /\ b[k] = all[pick[k]] /\ all[pick[k]].key = key
    BY <1>7 DEF IsPick, keep
  <2> DEFINE p == at[pick[k]]
  <2>2. p \in Places(seqs, Len(seqs)) /\ all[pick[k]] = seqs[p[1]][p[2]]
    BY <1>5, <2>1 DEF IsLayout
  <2> HIDE DEF p
  <2>3. p[1] \in DOMAIN entries /\ p[2] \in DOMAIN seqs[p[1]]
    BY <1>4, <2>2 DEF Places
  <2>4. p[2] \in DOMAIN entries[p[1]].settings /\ seqs[p[1]][p[2]] = ItemOf(entries[p[1]], entries[p[1]].settings[p[2]])
    BY <1>3, <2>3
  <2> QED BY <2>1, <2>2, <2>3, <2>4 DEF p
<1>12. ASSUME NEW k \in DOMAIN b
       PROVE  /\ at[pick[k]][1] \in Givers(entries, key)
              /\ b[k].order = entries[at[pick[k]][1]].order /\ b[k].gpo = entries[at[pick[k]][1]].gpo
  <2> DEFINE i == at[pick[k]][1]
             s == entries[i].settings[at[pick[k]][2]]
  <2>1. i \in DOMAIN entries /\ s \in Range(entries[i].settings) /\ b[k] = ItemOf(entries[i], s) /\ b[k].key = key
    BY <1>11 DEF Range
  <2> HIDE DEF i, s
  <2>2. Key(s) = key /\ b[k].order = entries[i].order /\ b[k].gpo = entries[i].gpo
    BY <2>1 DEF ItemOf
  <2>3. i \in Givers(entries, key)
    BY <2>1, <2>2 DEF Givers
  <2> QED BY <2>2, <2>3 DEF i
<1>13. ASSUME NEW m \in Givers(entries, key)
       PROVE  \E k \in DOMAIN b : at[pick[k]][1] = m
  <2>1. PICK t \in DOMAIN entries[m].settings : Key(entries[m].settings[t]) = key
    BY DEF Givers, Range
  <2>2. m \in DOMAIN entries /\ t \in DOMAIN seqs[m] /\ seqs[m][t].key = key
    <3>1. m \in DOMAIN entries
      BY DEF Givers
    <3>2. t \in DOMAIN seqs[m] /\ seqs[m][t] = ItemOf(entries[m], entries[m].settings[t])
      BY <1>3, <2>1, <3>1
    <3>3. ItemOf(entries[m], entries[m].settings[t]).key = key
      BY <2>1 DEF ItemOf
    <3> QED BY <3>1, <3>2, <3>3
  <2>3. t \in Nat
    <3>1. IsSequence(entries[m].settings)
      BY <2>2 DEF IsEntries
    <3> QED BY <2>1, <3>1, ListShape
  <2>4. <<m, t>> \in Places(seqs, Len(seqs))
    BY <1>4, <2>2, <2>3 DEF Places
  <2>5. PICK n \in DOMAIN all : at[n] = <<m, t>>
    BY <1>5, <2>4 DEF IsLayout
  <2>6. all[n].key = key
    BY <1>5, <2>2, <2>5 DEF IsLayout
  <2>7. PICK k \in DOMAIN b : pick[k] = n
    BY <1>7, <2>6 DEF IsPick, keep
  <2> QED BY <2>5, <2>7
<1> DEFINE i == at[pick[w]][1]
<1>14. w \in DOMAIN b /\ i \in Givers(entries, key) /\ b[w].gpo = entries[i].gpo
  BY <1>10, <1>12 DEF IsHighest
<1>15. ASSUME NEW m \in Givers(entries, key)
       PROVE  \/ entries[m].order < entries[i].order
              \/ entries[m].order = entries[i].order /\ i =< m
  <2>1. PICK k \in DOMAIN b : at[pick[k]][1] = m
    BY <1>13
  <2>2. b[k].order = entries[m].order /\ b[w].order = entries[i].order
    BY <1>12, <1>14, <2>1
  <2>3. b[k].order < b[w].order \/ (b[k].order = b[w].order /\ w =< k)
    BY <1>10 DEF IsHighest
  <2>4. ASSUME w =< k
        PROVE  i =< m
    <3>1. CASE w = k
      <4>1. i = m /\ m \in Nat
        BY <1>4, <2>1, <3>1 DEF Givers
      <4> QED BY <4>1
    <3>2. CASE w # k
      <4>1. w \in Int /\ k \in Int
        BY <1>8, <1>14, ListShape
      <4>2. w < k
        BY <2>4, <3>2, <4>1
      <4>3. pick[w] < pick[k] /\ pick[w] \in DOMAIN all /\ pick[k] \in DOMAIN all
        BY <1>7, <1>11, <1>14, <4>2 DEF IsPick
      <4>4. Ahead(at[pick[w]], at[pick[k]])
        BY <1>5, <4>3 DEF IsLayout
      <4>5. i < m \/ i = m
        BY <2>1, <4>4 DEF Ahead
      <4>6. i \in Nat /\ m \in Nat
        BY <1>4, <1>14 DEF Givers
      <4> QED BY <4>5, <4>6
    <3> QED BY <3>1, <3>2
  <2> HIDE DEF i
  <2> QED BY <2>2, <2>3, <2>4
<1> HIDE DEF i
<1>16. IsWinner(i, entries, key)
  BY <1>14, <1>15 DEF IsWinner
<1>17. b[w].gpo = entries[i].gpo
  BY <1>14
<1> QED BY <1>16, <1>17 DEF w, b, all, seqs

\* There is one winner.
LEMMA WinnerUnique ==
    ASSUME NEW entries, IsEntries(entries), NEW key, NEW i, IsWinner(i, entries, key),
           NEW m, IsWinner(m, entries, key)
    PROVE  i = m
<1>1. i \in DOMAIN entries /\ m \in DOMAIN entries
  BY DEF IsWinner, Givers
<1>2. entries[i].order \in Nat /\ entries[m].order \in Nat /\ i \in Nat /\ m \in Nat
  BY <1>1, ListShape DEF IsEntries
<1> QED BY <1>2 DEF IsWinner

\* Two lists of entries, one after the other.
LEMMA EntriesJoined ==
    ASSUME NEW a, IsEntries(a), NEW b, IsEntries(b)
    PROVE  /\ IsEntries(a \o b) /\ IsConcat(a \o b, a, b) /\ Len(a) \in Nat /\ Len(b) \in Nat
           /\ \A k \in DOMAIN (a \o b) : \/ k \in DOMAIN a
                                        \/ \E m \in DOMAIN b : k = Len(a) + m
<1> DEFINE c == a \o b
<1>1. IsConcat(c, a, b)
  BY ConcatShape DEF IsEntries
<1> HIDE DEF c
<1>2. DOMAIN a = 1..Len(a) /\ Len(a) \in Nat /\ DOMAIN b = 1..Len(b) /\ Len(b) \in Nat
  BY ListShape DEF IsEntries
<1>3. ASSUME NEW k \in DOMAIN c
      PROVE  k \in DOMAIN a \/ \E m \in DOMAIN b : k = Len(a) + m
  <2>1. k \in 1..(Len(a) + Len(b))
    BY <1>1 DEF IsConcat
  <2>2. CASE k =< Len(a)
    BY <1>2, <2>1, <2>2
  <2>3. CASE k > Len(a)
    <3>1. k - Len(a) \in 1..Len(b) /\ k = Len(a) + (k - Len(a))
      BY <1>2, <2>1, <2>3
    <3> QED BY <1>2, <3>1
  <2> QED BY <1>2, <2>1, <2>2, <2>3
<1>4. IsEntries(c)
  <2>1. \A k \in DOMAIN c : c[k].order \in Nat /\ IsSequence(c[k].settings)
    BY <1>1, <1>3 DEF IsConcat, IsEntries
  <2> QED BY <1>1, <2>1 DEF IsEntries, IsConcat
<1> QED BY <1>1, <1>2, <1>3, <1>4 DEF c

\* An entry has these fields and no other.
IsEntryRecord(e) == e = [x \in {"gpo", "order", "settings"} |-> e[x]]

\* Raised entries keep all but their orders, which exceed all orders below.
LEMMA Raised ==
    ASSUME NEW below, IsEntries(below), NEW entries, IsEntries(entries),
           \A i \in DOMAIN entries : IsEntryRecord(entries[i])
    PROVE  LET up == ShiftAbove(below, entries)
           IN  /\ IsEntries(up) /\ DOMAIN up = DOMAIN entries
               /\ \E offset \in Nat :
                     /\ \A i \in DOMAIN entries : /\ up[i].order = entries[i].order + offset
                                                  /\ up[i].gpo = entries[i].gpo
                                                  /\ up[i].settings = entries[i].settings
                     /\ \A u \in DOMAIN below : below[u].order < offset
<1> DEFINE orders == {below[i].order : i \in DOMAIN below}
           offset == IF below = <<>> THEN 0 ELSE Max(orders) + 1
           up == ShiftAbove(below, entries)
<1>1. up = [i \in DOMAIN entries |-> [entries[i] EXCEPT !.order = @ + offset]]
  BY DEF ShiftAbove
<1>2. offset \in Nat /\ \A u \in DOMAIN below : below[u].order < offset
  <2>1. CASE below = <<>>
    <3>1. DOMAIN below = {}
      BY <2>1, EmptyShape
    <3> QED BY <2>1, <3>1
  <2>2. CASE below # <<>>
    <3> DEFINE list == [i \in DOMAIN below |-> below[i].order]
    <3>1. IsSequence(list) /\ Range(list) = orders
      <4>1. IsSequence(list)
        BY MappedShape DEF IsEntries
      <4> QED BY <4>1 DEF Range
    <3> HIDE DEF list
    <3>2. IsFiniteSet(orders)
      BY <3>1, RangeFinite
    <3>3. orders \subseteq Nat
      BY DEF IsEntries
    <3>4. orders # {}
      <4>1. DOMAIN below = 1..Len(below) /\ Len(below) \in Nat /\ below = [i \in 1..Len(below) |-> below[i]]
        BY ListShape DEF IsEntries
      <4>2. DOMAIN below = {} => below = <<>>
        <5>1. ASSUME DOMAIN below = {}
              PROVE  below = <<>>
          <6>1. below \in Seq(Range(below)) /\ Len(below) = 0
            BY <4>1, <5>1 DEF IsEntries, IsSequence
          <6> QED BY <6>1
        <5> QED BY <5>1
      <4> QED BY <2>2, <4>2
    <3> HIDE DEF orders
    <3>5. orders \in SUBSET Int
      BY <3>3
    <3>6. Max(orders) \in orders /\ \A x \in orders : Max(orders) >= x
      BY <3>2, <3>4, <3>5, FiniteMax
    <3>7. \A u \in DOMAIN below : below[u].order \in orders
      BY DEF orders
    <3>8. Max(orders) \in Nat /\ offset = Max(orders) + 1
      BY <2>2, <3>3, <3>6
    <3> HIDE DEF offset
    <3>9. ASSUME NEW u \in DOMAIN below
          PROVE  below[u].order < offset
      <4>1. below[u].order \in Nat /\ Max(orders) >= below[u].order
        BY <3>3, <3>6, <3>7
      <4> QED BY <3>8, <4>1
    <3> QED BY <3>8, <3>9
  <2> QED BY <2>1, <2>2
<1> HIDE DEF offset
<1>3. ASSUME NEW i \in DOMAIN entries
      PROVE  /\ up[i].order = entries[i].order + offset /\ up[i].gpo = entries[i].gpo
             /\ up[i].settings = entries[i].settings
  <2> DEFINE e == entries[i]
  <2>1. up[i] = [e EXCEPT !.order = @ + offset] /\ IsEntryRecord(e)
    BY <1>1
  <2> HIDE DEF e, up
  <2>2. up[i].order = e.order + offset /\ up[i].gpo = e.gpo /\ up[i].settings = e.settings
    BY <2>1 DEF IsEntryRecord
  <2> QED BY <2>2 DEF e
<1>4. IsSequence(up) /\ DOMAIN up = DOMAIN entries
  BY <1>1, MappedShape DEF IsEntries
<1> HIDE DEF up
<1>5. IsEntries(up)
  BY <1>2, <1>3, <1>4 DEF IsEntries
<1> QED BY <1>2, <1>3, <1>4, <1>5 DEF up

\* The i-th of the computer's entries wins a key where they follow the user's.
IsLifted(all, own, theirs, key, i) ==
    /\ IsEntries(all) /\ IsWinner(Len(own) + i, all, key)
    /\ all[Len(own) + i].gpo = theirs[i].gpo

\* The winner of the computer's entries wins above the user's own, when the
\* entries that follow do not give the key.
LEMMA WinnerLifts ==
    ASSUME NEW own, IsEntries(own), NEW theirs, IsEntries(theirs), NEW machine, IsEntries(machine),
           \A i \in DOMAIN theirs : IsEntryRecord(theirs[i]),
           NEW key, Givers(machine, key) = {}, NEW i, IsWinner(i, theirs, key)
    PROVE  IsLifted((own \o ShiftAbove(own, theirs)) \o machine, own, theirs, key, i)
<1> DEFINE up == ShiftAbove(own, theirs)
           user == own \o up
           all == user \o machine
           n == Len(own)
<1>1. PICK offset \in Nat :
         /\ IsEntries(up) /\ DOMAIN up = DOMAIN theirs
         /\ \A t \in DOMAIN theirs : /\ up[t].order = theirs[t].order + offset /\ up[t].gpo = theirs[t].gpo
                                     /\ up[t].settings = theirs[t].settings
         /\ \A u \in DOMAIN own : own[u].order < offset
  BY Raised
<1> HIDE DEF up
<1>2. /\ IsEntries(user) /\ IsConcat(user, own, up) /\ n \in Nat /\ Len(up) \in Nat
      /\ \A k \in DOMAIN user : k \in DOMAIN own \/ \E t \in DOMAIN up : k = n + t
  BY <1>1, EntriesJoined
<1> HIDE DEF user
<1>3. /\ IsEntries(all) /\ IsConcat(all, user, machine)
      /\ \A k \in DOMAIN all : k \in DOMAIN user \/ \E m \in DOMAIN machine : k = Len(user) + m
  BY <1>2, EntriesJoined
<1> HIDE DEF all, n
<1>4. \A k \in DOMAIN user : k \in DOMAIN all /\ all[k] = user[k]
  <2>1. DOMAIN user = 1..Len(user) /\ DOMAIN machine = 1..Len(machine) /\ Len(user) \in Nat /\ Len(machine) \in Nat
    BY <1>2, ListShape DEF IsEntries
  <2> QED BY <1>3, <2>1 DEF IsConcat
<1>5. DOMAIN own = 1..n /\ DOMAIN theirs = 1..Len(up)
  <2>1. DOMAIN own = 1..n
    BY ListShape DEF IsEntries, n
  <2>2. DOMAIN up = 1..Len(up)
    BY <1>1, ListShape DEF IsEntries
  <2> QED BY <1>1, <2>1, <2>2
<1>6. ASSUME NEW t \in DOMAIN theirs
      PROVE  /\ n + t \in DOMAIN all /\ all[n + t].order = theirs[t].order + offset
             /\ all[n + t].gpo = theirs[t].gpo /\ all[n + t].settings = theirs[t].settings
  <2>1. n + t \in DOMAIN user
    <3>1. DOMAIN user = 1..(n + Len(up))
      BY <1>2 DEF IsConcat, n
    <3> QED BY <1>2, <1>5, <3>1
  <2>2. user[n + t] = up[t]
    BY <1>1, <1>2 DEF IsConcat, n
  <2> QED BY <1>1, <1>4, <2>1, <2>2
<1>7. ASSUME NEW u \in DOMAIN own
      PROVE  all[u] = own[u]
  <2>1. u \in DOMAIN user
    <3>1. DOMAIN user = 1..(n + Len(up))
      BY <1>2 DEF IsConcat, n
    <3> QED BY <1>2, <1>5, <3>1
  <2> QED BY <1>2, <1>4, <2>1 DEF IsConcat
<1>8. ASSUME NEW m \in DOMAIN machine, NEW s \in Range(all[Len(user) + m].settings)
      PROVE  Key(s) # key
  <2>1. all[Len(user) + m] = machine[m]
    BY <1>3 DEF IsConcat
  <2> QED BY <2>1 DEF Givers
<1>9. i \in DOMAIN theirs /\ i \in Givers(theirs, key) /\ theirs[i].order \in Nat
  BY DEF IsWinner, Givers, IsEntries
<1>10. n + i \in Givers(all, key)
  BY <1>6, <1>9 DEF Givers
<1>11. ASSUME NEW k \in Givers(all, key)
       PROVE  \/ all[k].order < all[n + i].order
              \/ all[k].order = all[n + i].order /\ n + i =< k
  <2>1. k \in DOMAIN all /\ \E s \in Range(all[k].settings) : Key(s) = key
    BY DEF Givers
  <2>2. k \in DOMAIN user
    BY <1>3, <1>8, <2>1
  <2>3. CASE k \in DOMAIN own
    <3>1. all[k].order < offset /\ all[k].order \in Nat
      BY <1>1, <1>7, <2>3 DEF IsEntries
    <3> QED BY <1>6, <1>9, <3>1
  <2>4. ASSUME NEW t \in DOMAIN theirs, k = n + t
        PROVE  \/ all[k].order < all[n + i].order
               \/ all[k].order = all[n + i].order /\ n + i =< k
    <3>1. t \in Givers(theirs, key)
      BY <1>6, <2>1, <2>4 DEF Givers
    <3>2. theirs[t].order < theirs[i].order \/ (theirs[t].order = theirs[i].order /\ i =< t)
      BY <3>1 DEF IsWinner
    <3>3. theirs[t].order \in Nat /\ t \in Nat /\ i \in Nat
      BY <1>5, <1>9 DEF IsEntries
    <3> QED BY <1>2, <1>6, <1>9, <2>4, <3>2, <3>3
  <2> QED BY <1>1, <1>2, <2>2, <2>3, <2>4
<1>12. IsWinner(n + i, all, key)
  BY <1>10, <1>11 DEF IsWinner
<1>13. all[n + i].gpo = theirs[i].gpo
  BY <1>6, <1>9
<1>14. IsLifted(all, own, theirs, key, i)
  BY <1>3, <1>12, <1>13 DEF n, IsLifted
<1> QED BY <1>14 DEF all, user, up

\* The entries of a chain are of its side.
LEMMA OneSided ==
    ASSUME NEW est, IsEstate(est), NEW links, IsChain(links), NEW side, NEW token, NEW known, NEW already
    PROVE  LET entries == CollectChain(est, links, side, token, known, already).entries
           IN  \A k \in DOMAIN entries :
                  IsEntryRecord(entries[k]) /\ \A s \in Range(entries[k].settings) : s.side = side
<1> DEFINE entries == CollectChain(est, links, side, token, known, already).entries
<1>1. /\ IsSequence(entries)
      /\ \A e \in Range(entries) : \E i \in DOMAIN links :
            links[i].gpo \in GpoIds(est) /\ e = EntryOf(est, links[i], side)
  BY ChainCollected
<1> HIDE DEF entries
<1>2. ASSUME NEW k \in DOMAIN entries
      PROVE  IsEntryRecord(entries[k]) /\ \A s \in Range(entries[k].settings) : s.side = side
  <2>1. PICK i \in DOMAIN links : links[i].gpo \in GpoIds(est) /\ entries[k] = EntryOf(est, links[i], side)
    BY <1>1 DEF Range
  <2> DEFINE live == LiveSettings(est.gpos[links[i].gpo], side)
  <2>2. \A s \in Range(live) : s.side = side
    BY <2>1, LiveShape DEF IsEstate
  <2> HIDE DEF live
  <2>3. entries[k] = [gpo |-> links[i].gpo, order |-> links[i].order, settings |-> live]
    BY <2>1 DEF EntryOf, live
  <2>4. IsEntryRecord(entries[k]) /\ entries[k].settings = live
    BY <2>3 DEF IsEntryRecord
  <2> QED BY <2>2, <2>4
<1> QED BY <1>2 DEF entries

\* The mode of a policy setting is decided by its key.
LEMMA LastWriter ==
    ASSUME NEW s, NEW t, Key(s) = Key(t), MergeMode(s) = "last writer wins"
    PROVE  MergeMode(t) = "last writer wins"
<1>1. s.cse = t.cse
  BY DEF Key
<1>2. s.cse \in {"registry", "security"}
  <2>1. CASE s.cse = "scripts"
    BY <2>1 DEF MergeMode
  <2>2. CASE s.cse \in GppCses \cup {"software"}
    BY <2>2 DEF MergeMode, GppCses
  <2>3. CASE s.cse = "restricted"
    BY <2>3 DEF MergeMode, GppCses
  <2>4. CASE s.cse = "folders"
    BY <2>4 DEF MergeMode, GppCses
  <2>5. CASE s.cse = "ipsec"
    BY <2>5 DEF MergeMode, GppCses
  <2>6. CASE s.cse \notin {"registry", "security", "scripts", "restricted", "folders", "ipsec", "software"} \cup GppCses
    BY <2>6 DEF MergeMode, GppCses
  <2> QED BY <2>1, <2>2, <2>3, <2>4, <2>5, <2>6
<1> QED BY <1>1, <1>2 DEF MergeMode

\* What is merged is merged under a key that some entry gives.
LEMMA MergedFrom ==
    ASSUME NEW entries, IsEntries(entries), NEW ilt, NEW s \in MergeSettings(entries, ilt).settings
    PROVE  /\ Givers(entries, s.key) # {}
           /\ s = MergeBucket(Bucket(FlattenSeq(ItemLists(entries)), s.key))
<1> DEFINE all == FlattenSeq(ItemLists(entries))
           targeted(k) == k[1] \in GppCses /\ \E n \in DOMAIN all : all[n].key = k /\ all[n].gpo \in ilt
           merged == {k \in BucketKeys(all) : ~targeted(k) /\ Survivor(Bucket(all, k)) # NoItem}
<1>1. MergeSettings(entries, ilt).settings = {MergeBucket(Bucket(all, k)) : k \in merged}
  BY DEF MergeSettings, ItemLists
<1>2. IsSequence(all) /\ \A it \in Range(all) : it.order \in Nat
  BY ItemsShape
<1>3. \A key : key \in BucketKeys(all) <=> Givers(entries, key) # {}
  BY GiversShape
<1> HIDE DEF all
<1>4. PICK k \in merged : s = MergeBucket(Bucket(all, k))
  BY <1>1
<1>5. k \in BucketKeys(all) /\ Survivor(Bucket(all, k)) # NoItem
  BY <1>4
<1>6. s.key = k
  BY <1>2, <1>4, <1>5, BucketKeyKept
<1> QED BY <1>3, <1>4, <1>5, <1>6 DEF all

\* A bucket has a first item, one of the list under its key.
LEMMA FirstOfBucket ==
    ASSUME NEW all, IsSequence(all), NEW key \in BucketKeys(all), NEW b, b = Bucket(all, key)
    PROVE  b[1] \in Range(all) /\ b[1].key = key
<1>1. /\ IsSequence(Bucket(all, key)) /\ Range(Bucket(all, key)) = {e \in Range(all) : e.key = key}
      /\ DOMAIN Bucket(all, key) # {}
  BY BucketShape
<1>2. IsSequence(b) /\ Range(b) = {e \in Range(all) : e.key = key} /\ DOMAIN b # {}
  BY <1>1
<1>3. DOMAIN b = 1..Len(b) /\ Len(b) \in Nat
  BY <1>2, ListShape
<1>4. PICK x : x \in DOMAIN b
  BY <1>2
<1>5. 1 \in DOMAIN b
  BY <1>3, <1>4
<1>6. b[1] \in Range(b)
  BY <1>5 DEF Range
<1> QED BY <1>2, <1>6

\* A key of policy settings goes to the GPO of the winning entry.
LEMMA WriterWins ==
    ASSUME NEW entries, IsEntries(entries), NEW key, NEW i, IsWinner(i, entries, key),
           NEW t, Key(t) = key, MergeMode(t) = "last writer wins"
    PROVE  MergeBucket(Bucket(FlattenSeq(ItemLists(entries)), key)).gpo = entries[i].gpo
<1> DEFINE all == FlattenSeq(ItemLists(entries))
           b == Bucket(all, key)
<1>1. Givers(entries, key) # {}
  BY DEF IsWinner
<1>2. PICK m : IsWinner(m, entries, key) /\ b[HighestOrder(b)].gpo = entries[m].gpo
  BY <1>1, WinnerShape
<1>3. i = m
  BY <1>2, WinnerUnique
<1>4. \A it : it \in Range(all) <=>
         \E k \in DOMAIN entries : \E s \in Range(entries[k].settings) : it = ItemOf(entries[k], s)
  BY ItemsShape
<1>11. IsSequence(all)
  BY ItemsShape
<1>5. key \in BucketKeys(all)
  BY <1>1, GiversShape
<1>6. b[1] \in Range(all) /\ b[1].key = key
  BY <1>5, <1>11, FirstOfBucket
<1> HIDE DEF all, b
<1>8. b[1].mode = "last writer wins"
  <2>2. PICK k \in DOMAIN entries : \E s \in Range(entries[k].settings) : b[1] = ItemOf(entries[k], s)
    BY <1>4, <1>6
  <2>3. PICK s \in Range(entries[k].settings) : b[1] = ItemOf(entries[k], s)
    BY <2>2
  <2>4. Key(s) = key /\ b[1].mode = MergeMode(s)
    <3>1. ItemOf(entries[k], s).key = Key(s) /\ ItemOf(entries[k], s).mode = MergeMode(s)
      BY DEF ItemOf
    <3> QED BY <1>6, <2>3, <3>1
  <2> QED BY <2>4, LastWriter
<1>9. Survivor(b) = b[HighestOrder(b)]
  BY <1>8 DEF Survivor
<1>10. MergeBucket(b).gpo = b[HighestOrder(b)].gpo
  BY <1>9 DEF MergeBucket
<1> QED BY <1>2, <1>3, <1>10 DEF b, all

\* The terms of OutranksUser.
Outranks(mode, settings, theirs) ==
    OutranksUser([loopback |-> mode, settings |-> settings], theirs)

\* What loopback makes of the two chains: where the computer's chain has a user
\* setting, the answer has it from one of its GPOs.
LEMMA PairOutranks ==
    ASSUME NEW est, IsEstate(est), NEW links, IsChain(links), NEW compLinks, IsChain(compLinks),
           NEW mode, NEW own, NEW comp, NEW known, NEW ilt
    PROVE  LET settings == MergeSettings(PairChain(est, links, compLinks, mode, own, comp, known).entries, ilt).settings
               theirs == FlattenSeq(ItemLists(CollectChain(est, compLinks, "User", comp, known, {}).entries))
           IN  Outranks(mode, settings, theirs)
<1> DEFINE mine == CollectChain(est, links, "User", own \cup comp, known, {})
           yours == CollectChain(est, compLinks, "User", comp, known, {})
           skipped == IF mode = "replace" THEN {} ELSE {e.gpo : e \in mine.excluded}
           machine == CollectChain(est, compLinks, "Computer", own \cup comp, known, skipped)
           U == mine.entries
           T == yours.entries
           M == machine.entries
           all == PairChain(est, links, compLinks, mode, own, comp, known).entries
           settings == MergeSettings(all, ilt).settings
           theirs == FlattenSeq(ItemLists(T))
           strict(key) == \A i \in DOMAIN theirs :
                              theirs[i].key = key => theirs[i].mode = "last writer wins"
<1>1. PairChain(est, links, compLinks, mode, own, comp, known) = Joined(mode, mine, yours, machine)
  BY DEF PairChain, PairEntries
<1>2. /\ mode = "merge" => all = (U \o ShiftAbove(U, T)) \o M
      /\ mode = "replace" => all = T \o M
  <2> HIDE DEF mine, yours, machine
  <2>1. all = Joined(mode, mine, yours, machine).entries
    BY <1>1
  <2>2. mode = "merge" => all = (U \o ShiftAbove(U, T)) \o M
    BY <2>1 DEF Joined
  <2>3. mode = "replace" => all = T \o M
    BY <2>1 DEF Joined
  <2> QED BY <2>2, <2>3
<1>3. IsEntries(U) /\ IsEntries(T) /\ IsEntries(M)
  BY EntriesShape
<1>4. /\ \A k \in DOMAIN T : IsEntryRecord(T[k]) /\ \A s \in Range(T[k].settings) : s.side = "User"
      /\ \A k \in DOMAIN M : \A s \in Range(M[k].settings) : s.side = "Computer"
  <2>1. \A k \in DOMAIN T : IsEntryRecord(T[k]) /\ \A s \in Range(T[k].settings) : s.side = "User"
    BY OneSided
  <2>2. \A k \in DOMAIN M : \A s \in Range(M[k].settings) : s.side = "Computer"
    BY OneSided
  <2> QED BY <2>1, <2>2
<1> HIDE DEF U, T, M, all
<1>5. \A key : key \in BucketKeys(theirs) <=> Givers(T, key) # {}
  BY <1>3, GiversShape
<1>6. ASSUME NEW key, key[2] = "User"
      PROVE  Givers(M, key) = {}
  <2>1. ASSUME NEW k \in DOMAIN M, NEW s \in Range(M[k].settings)
        PROVE  Key(s) # key
    <3>1. Key(s)[2] = "Computer"
      BY <1>4 DEF Key
    <3> QED BY <1>6, <3>1
  <2> QED BY <2>1 DEF Givers
<1>7. ASSUME mode = "merge", NEW s \in settings, s.key \in BucketKeys(theirs), strict(s.key)
      PROVE  LET b == Bucket(theirs, s.key) IN s.gpo = b[HighestOrder(b)].gpo
  <2> DEFINE key == s.key
             b == Bucket(theirs, key)
  <2>1. Givers(T, key) # {}
    BY <1>5, <1>7
  <2>2. PICK k \in DOMAIN T : \E t \in Range(T[k].settings) : Key(t) = key
    BY <2>1 DEF Givers
  <2>3. PICK t \in Range(T[k].settings) : Key(t) = key
    BY <2>2
  <2>4. MergeMode(t) = "last writer wins"
    <3>1. ItemOf(T[k], t) \in Range(theirs)
      BY <1>3, ItemsShape
    <3> HIDE DEF theirs
    <3>2. PICK n \in DOMAIN theirs : theirs[n] = ItemOf(T[k], t)
      BY <3>1 DEF Range
    <3>3. theirs[n].key = key /\ theirs[n].mode = MergeMode(t)
      BY <2>3, <3>2 DEF ItemOf
    <3> QED BY <1>7, <3>3
  <2>5. key[2] = "User"
    BY <1>4, <2>3 DEF Key
  <2>6. Givers(M, key) = {}
    BY <1>6, <2>5
  <2>7. PICK i : IsWinner(i, T, key) /\ b[HighestOrder(b)].gpo = T[i].gpo
    BY <1>3, <2>1, WinnerShape
  <2> HIDE DEF b, key
  <2>8. /\ IsEntries(all) /\ IsWinner(Len(U) + i, all, key) /\ all[Len(U) + i].gpo = T[i].gpo
    <3>1. \A n \in DOMAIN T : IsEntryRecord(T[n])
      BY <1>4
    <3>2. IsWinner(i, T, key) /\ Givers(M, key) = {} /\ IsEntries(U) /\ IsEntries(T) /\ IsEntries(M)
      BY <1>3, <2>6, <2>7
    <3> HIDE DEF settings, theirs, mine, yours, machine, skipped
    <3>3. IsLifted((U \o ShiftAbove(U, T)) \o M, U, T, key, i)
      BY <3>1, <3>2, WinnerLifts
    <3>4. all = (U \o ShiftAbove(U, T)) \o M
      BY <1>2, <1>7
    <3>5. IsLifted(all, U, T, key, i)
      BY <3>3, <3>4
    <3> QED BY <3>5 DEF IsLifted
  <2>9. s = MergeBucket(Bucket(FlattenSeq(ItemLists(all)), key))
    <3>1. IsEntries(all) /\ s \in MergeSettings(all, ilt).settings
      BY <2>8
    <3> HIDE DEF all
    <3> QED BY <3>1, MergedFrom DEF key
  <2>10. s.gpo = all[Len(U) + i].gpo
    <3> DEFINE j == Len(U) + i
    <3>1. IsEntries(all) /\ IsWinner(j, all, key)
      BY <2>8
    <3> HIDE DEF j, settings
    <3>2. MergeBucket(Bucket(FlattenSeq(ItemLists(all)), key)).gpo = all[j].gpo
      BY <2>3, <2>4, <3>1, WriterWins, ZenonT(60)
    <3> QED BY <2>9, <3>2 DEF j
  <2> QED BY <2>7, <2>8, <2>10 DEF b, key
<1>8. ASSUME mode = "replace", NEW s \in settings, s.key[2] = "User"
      PROVE  s.key \in BucketKeys(theirs)
  <2> DEFINE key == s.key
  <2>1. /\ IsEntries(all) /\ IsConcat(all, T, M)
        /\ \A k \in DOMAIN all : k \in DOMAIN T \/ \E m \in DOMAIN M : k = Len(T) + m
    <3> DEFINE joined == T \o M
    <3>1. /\ IsEntries(joined) /\ IsConcat(joined, T, M)
          /\ \A k \in DOMAIN joined : k \in DOMAIN T \/ \E m \in DOMAIN M : k = Len(T) + m
      BY <1>3, EntriesJoined
    <3>2. all = joined
      BY <1>2, <1>8
    <3> QED BY <3>1, <3>2
  <2>2. Givers(all, key) # {}
    BY <2>1, MergedFrom
  <2>3. Givers(M, key) = {}
    BY <1>6, <1>8
  <2> HIDE DEF key
  <2>4. PICK k \in DOMAIN all : \E t \in Range(all[k].settings) : Key(t) = key
    BY <2>2 DEF Givers
  <2>5. ASSUME NEW m \in DOMAIN M, k = Len(T) + m
        PROVE  FALSE
    <3>1. all[k] = M[m]
      BY <2>1, <2>5 DEF IsConcat
    <3> QED BY <2>3, <2>4, <3>1 DEF Givers
  <2>6. k \in DOMAIN T /\ all[k] = T[k]
    BY <2>1, <2>5 DEF IsConcat
  <2>7. Givers(T, key) # {}
    BY <2>4, <2>6 DEF Givers
  <2> QED BY <1>5, <2>7 DEF key
<1> HIDE DEF settings, theirs
<1>9. Outranks(mode, settings, theirs)
  BY <1>7, <1>8 DEF Outranks, OutranksUser
<1> QED BY <1>9 DEF settings, theirs, all, T

\* The computer's user policy outranks the user's own under merge, and stands
\* alone under replace.
THEOREM ComputerOutranks == PipelineSpec => []LoopbackComputerWins
<1>1. ASSUME Provenance, phase = "open", NEW w \in Principals, NEW c \in Computers,
             DomainKnown(Live, w), PrincipalType(Live, w) # "Computer"
      PROVE  OutranksUser(PrincipalResultant(Live, w, Homes[w], c, Homes[c], {}),
                          UserEntries(Live, SomPathFor(Live, Homes[c]), BuildToken(Live, c)))
  <2> DEFINE est == Live
             r == PrincipalResultant(est, w, Homes[w], c, Homes[c], {})
             own == BuildToken(est, w)
             comp == BuildToken(est, c)
             links == SomEffectiveGpos(est, SomPathFor(est, Homes[w]))
             compLinks == SomEffectiveGpos(est, SomPathFor(est, Homes[c]))
             mode == ActiveLoopback(est, compLinks)
             to(loopback) == [side |-> "User", loopback |-> loopback, caveats |-> TokenCaveats(est, w)]
             theirs == UserEntries(est, SomPathFor(est, Homes[c]), comp)
             known == DomainKnown(est, w)
             chain == PairChain(est, links, compLinks, mode, own, comp, known)
             settings == MergeSettings(chain.entries, IltGpos(est)).settings
  <2>1. IsEstate(est)
    BY <1>1, Estates
  <2>2. known = TRUE
    BY <1>1 DEF DomainKnown
  <2>3. Homes[c] # <<>>
    BY PipelineAssumption
  <2>4. theirs = FlattenSeq(ItemLists(CollectChain(est, compLinks, "User", comp, TRUE, {}).entries))
    BY DEF UserEntries, ItemLists
  <2>5. CASE c # None
    <3>1. r = PolicyOf(est, to(mode), chain, {})
      BY <1>1, <2>3, <2>5 DEF PrincipalResultant
    <3> HIDE DEF est, own, comp, links, compLinks, mode, r, theirs, known
    <3>2. theirs = FlattenSeq(ItemLists(CollectChain(est, compLinks, "User", comp, known, {}).entries))
      BY <2>2, <2>4
    <3> HIDE DEF chain
    <3>3. r.loopback = mode /\ r.settings = settings
      BY <3>1 DEF PolicyOf, Policy
    <3>4. IsChain(links) /\ IsChain(compLinks)
      BY <2>1, LinksShape DEF links, compLinks
    <3> DEFINE ilt == IltGpos(est)
    <3> HIDE DEF ilt
    <3>5. Outranks(mode, settings, theirs)
      BY <2>1, <3>2, <3>4, PairOutranks DEF chain, ilt
    <3> HIDE DEF settings
    <3>6. OutranksUser(r, theirs)
      BY <3>3, <3>5 DEF Outranks, OutranksUser
    <3> QED BY <3>6 DEF r, theirs, est, comp
  <2>6. CASE c = None
    <3> DEFINE alone == [side |-> "User", loopback |-> None, caveats |-> TokenCaveats(est, w)]
    <3>1. \E other : r = PolicyOf(est, alone, other, {})
      BY <1>1, <2>6 DEF PrincipalResultant
    <3> HIDE DEF r, est, theirs
    <3>2. r.loopback = None
      BY <3>1 DEF PolicyOf, Policy
    <3>3. OutranksUser(r, theirs)
      BY <3>2 DEF OutranksUser, None
    <3> QED BY <3>3 DEF r, theirs, est
  <2> QED BY <2>5, <2>6
<1>2. Provenance => LoopbackComputerWins
  BY <1>1 DEF LoopbackComputerWins
<1> QED BY <1>2, ImportInvariance, PTL

-----------------------------------------------------------------------------
(* Nothing disappears without a word: what an answer consults is listed as *)
(* excluded or becomes an entry, and the merge tells of every entry's keys.*)

\* What a merge of entries tells of.
MergeOf(entries, ilt) ==
    LET merge == MergeSettings(entries, ilt)
    IN  [settings |-> merge.settings, excludedSettings |-> merge.excludedSettings, entries |-> entries]

\* A bucket with a survivor tells of every GPO in it: it wins, is of the
\* winner's order, or is overridden.
LEMMA BucketTells ==
    ASSUME NEW b, IsSequence(b), \A k \in DOMAIN b : b[k].order \in Nat,
           NEW it \in Range(b), Survivor(b) # NoItem
    PROVE  /\ Survivor(b) \in Range(b) /\ MergeBucket(b).gpo = Survivor(b).gpo
           /\ it.order = Survivor(b).order \/ it.gpo \in MergeBucket(b).overridden
<1> DEFINE w == Survivor(b)
           strict == b[1].mode \in {"last writer wins", "replace", "single winner", "approximate"}
           lost(k) == IF strict THEN b[k].order < w.order ELSE b[k].order # w.order
<1>1. DOMAIN b # {} /\ w \in Range(b)
  <2>1. DOMAIN b # {}
    BY DEF Range
  <2> QED BY <2>1, SurvivorShape
<1>2. MergeBucket(b).gpo = w.gpo /\ MergeBucket(b).overridden = {b[k].gpo : k \in {j \in DOMAIN b : lost(j)}}
  BY DEF MergeBucket
<1>3. PICK k \in DOMAIN b : b[k] = it
  BY DEF Range
<1>4. strict => w = b[HighestOrder(b)]
  <2>1. strict => b[1].mode # "accumulate"
    BY Zenon
  <2> HIDE DEF strict
  <2> QED BY <2>1 DEF Survivor
<1> HIDE DEF w, strict
<1>5. ASSUME it.order # w.order
      PROVE  lost(k)
  <2>1. CASE strict
    <3>1. w = b[HighestOrder(b)] /\ IsHighest(HighestOrder(b), b)
      BY <1>1, <1>4, <2>1, HighestShape
    <3>2. b[k].order < w.order \/ b[k].order = w.order
      BY <3>1 DEF IsHighest
    <3> QED BY <1>3, <1>5, <2>1, <3>2
  <2>2. CASE ~strict
    BY <1>3, <1>5, <2>2
  <2> QED BY <2>1, <2>2
<1> HIDE DEF lost
<1>6. it.order # w.order => it.gpo \in MergeBucket(b).overridden
  BY <1>2, <1>3, <1>5
<1> QED BY <1>1, <1>2, <1>6 DEF w

\* The merge of entries tells of the GPO of each entry under each of its keys.
LEMMA MergeTells ==
    ASSUME NEW entries, IsEntries(entries), NEW ilt, NEW i \in DOMAIN entries,
           NEW s \in Range(entries[i].settings)
    PROVE  Told(MergeOf(entries, ilt), ilt, entries[i].gpo, Key(s))
<1> DEFINE all == FlattenSeq(ItemLists(entries))
           gpo == entries[i].gpo
           key == Key(s)
           it == ItemOf(entries[i], s)
           b == Bucket(all, key)
           targeted(k) == k[1] \in GppCses /\ \E n \in DOMAIN all : all[n].key = k /\ all[n].gpo \in ilt
           merged == {k \in BucketKeys(all) : ~targeted(k) /\ Survivor(Bucket(all, k)) # NoItem}
           left == {n \in DOMAIN all : targeted(all[n].key) /\ all[n].gpo \in ilt}
           policy == MergeOf(entries, ilt)
           won == {m \in policy.settings : m.key = key}
           held == {x.gpo : x \in {y \in policy.excludedSettings : y.key = key}}
<1>1. /\ policy.settings = {MergeBucket(Bucket(all, k)) : k \in merged}
      /\ policy.excludedSettings = {[key |-> all[n].key, gpo |-> all[n].gpo] : n \in left}
      /\ policy.entries = entries
  BY DEF MergeOf, MergeSettings, ItemLists
<1>2. /\ IsSequence(all) /\ \A x \in Range(all) : x.order \in Nat
      /\ \A x : x \in Range(all) <=>
            \E j \in DOMAIN entries : \E t \in Range(entries[j].settings) : x = ItemOf(entries[j], t)
  BY ItemsShape
<1> HIDE DEF all, policy
<1>3. it \in Range(all) /\ it.key = key /\ it.gpo = gpo /\ it.order = entries[i].order
  BY <1>2 DEF ItemOf
<1> HIDE DEF it
<1>4. key \in BucketKeys(all)
  BY <1>2, <1>3, BucketShape
<1>5. ASSUME NEW x \in Range(all), x.key = key
      PROVE  \E j \in DOMAIN entries : \E n \in DOMAIN entries[j].settings :
                /\ Key(entries[j].settings[n]) = key /\ entries[j].gpo = x.gpo /\ entries[j].order = x.order
                /\ x.action \notin {"C", "R", "U"} =>
                      entries[j].settings[n].cse \in GppCses /\ entries[j].settings[n].action = x.action
  <2>1. PICK j \in DOMAIN entries : \E t \in Range(entries[j].settings) : x = ItemOf(entries[j], t)
    BY <1>2, <1>5
  <2>2. PICK t \in Range(entries[j].settings) : x = ItemOf(entries[j], t)
    BY <2>1
  <2>3. PICK n \in DOMAIN entries[j].settings : t = entries[j].settings[n]
    BY DEF Range
  <2>4. /\ Key(t) = key /\ entries[j].gpo = x.gpo /\ entries[j].order = x.order
        /\ x.action = IF t.cse \in GppCses THEN t.action ELSE "U"
    BY <1>5, <2>2 DEF ItemOf
  <2>5. x.action \notin {"C", "R", "U"} => t.cse \in GppCses /\ t.action = x.action
    BY <2>4
  <2> QED BY <2>3, <2>4, <2>5
<1>6. ASSUME targeted(key)
      PROVE  gpo \in held \/ (held # {} /\ gpo \notin ilt)
  <2>1. PICK n \in DOMAIN all : all[n].key = key /\ all[n].gpo \in ilt
    BY <1>6
  <2>2. PICK m \in DOMAIN all : all[m] = it
    BY <1>3 DEF Range
  <2>3. ASSUME NEW k \in DOMAIN all, all[k].key = key, all[k].gpo \in ilt
        PROVE  all[k].gpo \in held
    <3> DEFINE x == [key |-> all[k].key, gpo |-> all[k].gpo]
    <3>1. k \in left
      BY <1>6, <2>3
    <3> HIDE DEF left, targeted
    <3>2. x \in policy.excludedSettings
      BY <1>1, <3>1
    <3>3. x.key = key /\ x.gpo = all[k].gpo
      BY <2>3
    <3> HIDE DEF x
    <3> QED BY <3>2, <3>3
  <2> HIDE DEF held
  <2>4. held # {}
    BY <2>1, <2>3
  <2>5. gpo \in ilt => gpo \in held
    BY <1>3, <2>2, <2>3
  <2> QED BY <2>4, <2>5
<1> DEFINE tied(m) == TiedWith(m, policy.entries, gpo)
<1>7. ASSUME ~targeted(key), Survivor(b) # NoItem
      PROVE  \E m \in won : m.gpo = gpo \/ gpo \in m.overridden \/ tied(m)
  <2> DEFINE m == MergeBucket(b)
             w == Survivor(b)
  <2>1. m.key = key
    BY <1>2, <1>4, <1>7, BucketKeyKept
  <2>2. m \in won
    <3>1. key \in merged
      BY <1>4, <1>7
    <3> HIDE DEF merged
    <3> QED BY <1>1, <2>1, <3>1
  <2>3. IsSequence(b) /\ Range(b) = {e \in Range(all) : e.key = key}
    BY <1>2, BucketShape
  <2> HIDE DEF b, won
  <2>4. \A k \in DOMAIN b : b[k].order \in Nat
    BY <1>2, <2>3 DEF Range
  <2>5. it \in Range(b)
    BY <1>3, <2>3
  <2>6. /\ w \in Range(b) /\ m.gpo = w.gpo
        /\ it.order = w.order \/ it.gpo \in m.overridden
    BY <1>7, <2>3, <2>4, <2>5, BucketTells
  <2> HIDE DEF m, w
  <2>7. ASSUME it.order = w.order
        PROVE  tied(m)
    <3>1. PICK j \in DOMAIN entries : \E n \in DOMAIN entries[j].settings :
              Key(entries[j].settings[n]) = key /\ entries[j].gpo = w.gpo /\ entries[j].order = w.order
      BY <1>5, <2>3, <2>6
    <3>2. PICK n \in DOMAIN entries[i].settings : s = entries[i].settings[n]
      BY DEF Range
    <3>3. Gives(entries[j], m.key) /\ Gives(entries[i], m.key)
      BY <2>1, <3>1, <3>2 DEF Gives
    <3> QED BY <1>1, <1>3, <2>6, <2>7, <3>1, <3>3 DEF TiedWith
  <2> HIDE DEF tied
  <2> QED BY <1>3, <2>2, <2>6, <2>7
<1>8. ASSUME ~targeted(key), Survivor(b) = NoItem
      PROVE  won = {} /\ held = {} /\ Deleted(policy.entries, key)
  <2>1. ASSUME NEW m \in won
        PROVE  FALSE
    <3>1. PICK k \in merged : m = MergeBucket(Bucket(all, k))
      BY <1>1, <2>1
    <3>2. MergeBucket(Bucket(all, k)).key = k
      BY <1>2, <3>1, BucketKeyKept
    <3> QED BY <1>8, <3>1, <3>2
  <2>2. ASSUME NEW x \in policy.excludedSettings, x.key = key
        PROVE  FALSE
    <3>1. PICK n \in left : x = [key |-> all[n].key, gpo |-> all[n].gpo]
      BY <1>1, <2>2
    <3>2. all[n].key = key /\ targeted(all[n].key)
      BY <2>2, <3>1
    <3> HIDE DEF targeted
    <3> QED BY <1>8, <3>2
  <2>3. PICK x \in Range(all) : x.key = key /\ x.action \notin {"C", "R", "U"}
    BY <1>2, <1>4, <1>8, BucketKeyKept
  <2>4. PICK j \in DOMAIN entries : \E n \in DOMAIN entries[j].settings :
            /\ Key(entries[j].settings[n]) = key /\ entries[j].settings[n].cse \in GppCses
            /\ entries[j].settings[n].action \notin {"C", "R", "U"}
    BY <1>5, <2>3
  <2>5. key[1] \in GppCses
    BY <2>4 DEF Key
  <2> HIDE DEF key
  <2>6. Deleted(policy.entries, key)
    BY <1>1, <2>4, <2>5 DEF Deleted
  <2> QED BY <2>1, <2>2, <2>6
<1> HIDE DEF won, held, targeted, b, tied
<1>9. \/ \E m \in won : m.gpo = gpo \/ gpo \in m.overridden \/ tied(m)
      \/ gpo \in held
      \/ held # {} /\ gpo \notin ilt
      \/ won = {} /\ held = {} /\ Deleted(policy.entries, key)
  BY <1>6, <1>7, <1>8
<1> QED BY <1>9 DEF Told, won, held, tied, policy

\* What becomes of a linked GPO for one side: it is listed, it has nothing
\* there, or an entry has what it has.
Covered(chain, est, gpo, side) ==
    \/ \E e \in chain.excluded : e.gpo = gpo /\ e.side \in {side, "User"}
    \/ LiveSettings(est.gpos[gpo], side) = <<>>
    \/ \E k \in DOMAIN chain.entries :
          chain.entries[k].gpo = gpo /\ chain.entries[k].settings = LiveSettings(est.gpos[gpo], side)
Covers(chain, est, links, side) ==
    \A i \in DOMAIN links : links[i].enabled /\ links[i].gpo \in GpoIds(est) =>
        Covered(chain, est, links[i].gpo, side)

\* A chain covers every link that it does not skip.
LEMMA ChainCovers ==
    ASSUME NEW est, IsEstate(est), NEW links, IsChain(links), NEW side, NEW token, NEW known, NEW already
    PROVE  LET chain == CollectChain(est, links, side, token, known, already)
           IN  /\ \A e \in chain.excluded : e.side = side
               /\ \A i \in DOMAIN links :
                     links[i].enabled /\ links[i].gpo \in GpoIds(est) /\ links[i].gpo \notin already =>
                        Covered(chain, est, links[i].gpo, side)
<1> DEFINE chain == CollectChain(est, links, side, token, known, already)
<1>1. /\ \A e \in chain.excluded : e.side = side
      /\ \A i \in DOMAIN links :
            /\ links[i].enabled /\ links[i].gpo \in GpoIds(est) /\ links[i].gpo \notin already
            /\ links[i].gpo \notin {e.gpo : e \in chain.excluded}
            /\ LiveSettings(est.gpos[links[i].gpo], side) # <<>>
            => EntryOf(est, links[i], side) \in Range(chain.entries)
  BY ChainCollected
<1> HIDE DEF chain
<1>2. ASSUME NEW i \in DOMAIN links,
             links[i].enabled, links[i].gpo \in GpoIds(est), links[i].gpo \notin already
      PROVE  Covered(chain, est, links[i].gpo, side)
  <2> DEFINE id == links[i].gpo
             live == LiveSettings(est.gpos[id], side)
  <2>1. CASE id \in {e.gpo : e \in chain.excluded}
    <3>1. PICK e \in chain.excluded : e.gpo = id
      BY <2>1
    <3> QED BY <1>1, <3>1 DEF Covered
  <2>2. CASE live = <<>>
    BY <2>2 DEF Covered
  <2>3. CASE id \notin {e.gpo : e \in chain.excluded} /\ live # <<>>
    <3>1. EntryOf(est, links[i], side) \in Range(chain.entries)
      BY <1>1, <1>2, <2>3
    <3>2. PICK k \in DOMAIN chain.entries : chain.entries[k] = EntryOf(est, links[i], side)
      BY <3>1 DEF Range
    <3>3. chain.entries[k].gpo = id /\ chain.entries[k].settings = live
      BY <3>2 DEF EntryOf
    <3> QED BY <3>3 DEF Covered
  <2> QED BY <2>1, <2>2, <2>3
<1> QED BY <1>1, <1>2 DEF chain

\* A chain that is part of another: the other has its exclusions, and its
\* entries but for their orders.
Within(chain, big) ==
    /\ chain.excluded \subseteq big.excluded
    /\ \A k \in DOMAIN chain.entries : \E j \in DOMAIN big.entries :
          /\ big.entries[j].gpo = chain.entries[k].gpo
          /\ big.entries[j].settings = chain.entries[k].settings

\* What a chain covers, a larger one does.
LEMMA CoveredWithin ==
    ASSUME NEW chain, NEW big, Within(chain, big), NEW est, NEW gpo, NEW side, Covered(chain, est, gpo, side)
    PROVE  Covered(big, est, gpo, side)
<1> DEFINE live == LiveSettings(est.gpos[gpo], side)
<1>1. CASE \E e \in chain.excluded : e.gpo = gpo /\ e.side \in {side, "User"}
  BY <1>1 DEF Covered, Within
<1>2. CASE live = <<>>
  BY <1>2 DEF Covered
<1>3. ASSUME NEW k \in DOMAIN chain.entries,
             chain.entries[k].gpo = gpo, chain.entries[k].settings = live
      PROVE  Covered(big, est, gpo, side)
  <2>1. PICK j \in DOMAIN big.entries : /\ big.entries[j].gpo = chain.entries[k].gpo
                                        /\ big.entries[j].settings = chain.entries[k].settings
    BY DEF Within
  <2> QED BY <1>3, <2>1 DEF Covered
<1> QED BY <1>1, <1>2, <1>3 DEF Covered

\* A list that has the entries of each of two.
HasBoth(c, a, b) ==
    /\ IsEntries(c)
    /\ \A k \in DOMAIN a : \E j \in DOMAIN c : c[j] = a[k]
    /\ \A k \in DOMAIN b : \E j \in DOMAIN c : c[j] = b[k]

\* Two lists of entries, one after the other, are one.
LEMMA BothWithin ==
    ASSUME NEW a, IsEntries(a), NEW b, IsEntries(b)
    PROVE  HasBoth(a \o b, a, b)
<1> DEFINE c == a \o b
<1>1. IsEntries(c) /\ IsConcat(c, a, b)
  BY EntriesJoined
<1> HIDE DEF c
<1>2. /\ DOMAIN a = 1..Len(a) /\ Len(a) \in Nat /\ DOMAIN b = 1..Len(b) /\ Len(b) \in Nat
      /\ DOMAIN c = 1..(Len(a) + Len(b))
  BY <1>1, ListShape DEF IsEntries, IsConcat
<1>3. ASSUME NEW k \in DOMAIN a
      PROVE  k \in DOMAIN c /\ c[k] = a[k]
  BY <1>1, <1>2 DEF IsConcat
<1>4. ASSUME NEW k \in DOMAIN b
      PROVE  Len(a) + k \in DOMAIN c /\ c[Len(a) + k] = b[k]
  BY <1>1, <1>2 DEF IsConcat
<1>5. HasBoth(c, a, b)
  BY <1>1, <1>3, <1>4 DEF HasBoth
<1> QED BY <1>5 DEF c

\* A chain of collected entries.
IsCollected(chain) == IsEntries(chain.entries) /\ \A k \in DOMAIN chain.entries : IsEntryRecord(chain.entries[k])

\* What loopback joins has each of its parts: the computer side, the user's own
\* chain unless it is replaced, and the computer's when loopback is in force.
LEMMA JoinedWithin ==
    ASSUME NEW mode, NEW own, IsCollected(own), NEW theirs, IsCollected(theirs), NEW machine, IsCollected(machine)
    PROVE  LET all == Joined(mode, own, theirs, machine)
           IN  /\ IsEntries(all.entries) /\ Within(machine, all)
               /\ mode # "replace" => Within(own, all)
               /\ mode \in {"merge", "replace"} => Within(theirs, all)
<1> DEFINE all == Joined(mode, own, theirs, machine)
           up == ShiftAbove(own.entries, theirs.entries)
           both == own.entries \o up
           user == CASE mode = "replace" -> theirs.entries
                     [] mode = "merge" -> both
                     [] OTHER -> own.entries
           left == CASE mode = "replace" -> theirs.excluded
                     [] mode = "merge" -> own.excluded \cup theirs.excluded
                     [] OTHER -> own.excluded
           joined == user \o machine.entries
<1>1. all.entries = joined /\ all.excluded = left \cup machine.excluded
  BY DEF Joined
<1>2. /\ IsEntries(up) /\ DOMAIN up = DOMAIN theirs.entries
      /\ \A t \in DOMAIN theirs.entries : /\ up[t].gpo = theirs.entries[t].gpo
                                          /\ up[t].settings = theirs.entries[t].settings
  BY Raised DEF IsCollected
<1> HIDE DEF all, up
<1>3. HasBoth(both, own.entries, up)
  <2>1. IsEntries(own.entries) /\ IsEntries(up)
    BY <1>2 DEF IsCollected
  <2> QED BY <2>1, BothWithin
<1> HIDE DEF both
<1>4. IsEntries(user)
  BY <1>3 DEF IsCollected, HasBoth
<1>5. mode # "replace" => /\ own.excluded \subseteq left
                          /\ \A k \in DOMAIN own.entries : \E j \in DOMAIN user : user[j] = own.entries[k]
  BY <1>3 DEF HasBoth
<1>6. mode \in {"merge", "replace"} =>
         /\ theirs.excluded \subseteq left
         /\ \A k \in DOMAIN theirs.entries : \E j \in DOMAIN user :
               user[j].gpo = theirs.entries[k].gpo /\ user[j].settings = theirs.entries[k].settings
  <2>1. CASE mode = "merge"
    <3>1. user = both /\ left = own.excluded \cup theirs.excluded
      BY <2>1
    <3> QED BY <1>2, <1>3, <3>1 DEF HasBoth
  <2>2. CASE mode = "replace"
    <3>1. user = theirs.entries /\ left = theirs.excluded
      BY <2>2
    <3> QED BY <3>1
  <2> QED BY <2>1, <2>2
<1> HIDE DEF user, left
<1>7. HasBoth(joined, user, machine.entries)
  <2>1. IsEntries(user) /\ IsEntries(machine.entries)
    BY <1>4 DEF IsCollected
  <2> QED BY <2>1, BothWithin
<1> HIDE DEF joined
<1>8. Within(machine, all)
  BY <1>1, <1>7 DEF Within, HasBoth
<1>9. mode # "replace" => Within(own, all)
  <2>1. ASSUME mode # "replace", NEW k \in DOMAIN own.entries
        PROVE  \E j \in DOMAIN joined : joined[j] = own.entries[k]
    <3>1. PICK j \in DOMAIN user : user[j] = own.entries[k]
      BY <1>5, <2>1
    <3> QED BY <1>7, <3>1 DEF HasBoth
  <2> QED BY <1>1, <1>5, <2>1 DEF Within
<1>10. mode \in {"merge", "replace"} => Within(theirs, all)
  <2>1. ASSUME mode \in {"merge", "replace"}, NEW k \in DOMAIN theirs.entries
        PROVE  \E j \in DOMAIN joined :
                  joined[j].gpo = theirs.entries[k].gpo /\ joined[j].settings = theirs.entries[k].settings
    <3>1. PICK j \in DOMAIN user :
              user[j].gpo = theirs.entries[k].gpo /\ user[j].settings = theirs.entries[k].settings
      BY <1>6, <2>1
    <3>2. PICK n \in DOMAIN joined : joined[n] = user[j]
      BY <1>7 DEF HasBoth
    <3> QED BY <3>1, <3>2
  <2> QED BY <1>1, <1>6, <2>1 DEF Within
<1> QED BY <1>1, <1>7, <1>8, <1>9, <1>10 DEF all, HasBoth

\* The chains of a pair are covered: the computer's for its side, the user's
\* unless it is replaced, and the computer's for its users under loopback.
LEMMA PairCovers ==
    ASSUME NEW est, IsEstate(est), NEW links, IsChain(links), NEW compLinks, IsChain(compLinks),
           NEW mode, NEW own, NEW comp, NEW known
    PROVE  LET chain == PairChain(est, links, compLinks, mode, own, comp, known)
           IN  /\ IsEntries(chain.entries) /\ Covers(chain, est, compLinks, "Computer")
               /\ mode # "replace" => Covers(chain, est, links, "User")
               /\ mode \in {"merge", "replace"} => Covers(chain, est, compLinks, "User")
<1> DEFINE mine == CollectChain(est, links, "User", own \cup comp, known, {})
           yours == CollectChain(est, compLinks, "User", comp, known, {})
           skipped == IF mode = "replace" THEN {} ELSE {e.gpo : e \in mine.excluded}
           machine == CollectChain(est, compLinks, "Computer", own \cup comp, known, skipped)
           chain == PairChain(est, links, compLinks, mode, own, comp, known)
<1>1. chain = Joined(mode, mine, yours, machine)
  BY DEF PairChain, PairEntries
<1>2. IsCollected(mine) /\ IsCollected(yours) /\ IsCollected(machine)
  <2>1. IsEntries(mine.entries) /\ IsEntries(yours.entries) /\ IsEntries(machine.entries)
    BY EntriesShape
  <2>2. \A k \in DOMAIN mine.entries : IsEntryRecord(mine.entries[k])
    BY OneSided
  <2>3. \A k \in DOMAIN yours.entries : IsEntryRecord(yours.entries[k])
    BY OneSided
  <2>4. \A k \in DOMAIN machine.entries : IsEntryRecord(machine.entries[k])
    BY OneSided
  <2> HIDE DEF mine, yours, machine
  <2> QED BY <2>1, <2>2, <2>3, <2>4 DEF IsCollected
<1>3. /\ \A e \in mine.excluded : e.side = "User"
      /\ \A i \in DOMAIN links : links[i].enabled /\ links[i].gpo \in GpoIds(est) =>
            Covered(mine, est, links[i].gpo, "User")
  <2>1. \A i \in DOMAIN links :
            links[i].enabled /\ links[i].gpo \in GpoIds(est) /\ links[i].gpo \notin {} =>
               Covered(mine, est, links[i].gpo, "User")
    BY ChainCovers
  <2>2. \A e \in mine.excluded : e.side = "User"
    BY ChainCovers
  <2> HIDE DEF mine
  <2> QED BY <2>1, <2>2
<1>4. \A i \in DOMAIN compLinks : compLinks[i].enabled /\ compLinks[i].gpo \in GpoIds(est) =>
            Covered(yours, est, compLinks[i].gpo, "User")
  <2>1. \A i \in DOMAIN compLinks :
            compLinks[i].enabled /\ compLinks[i].gpo \in GpoIds(est) /\ compLinks[i].gpo \notin {} =>
               Covered(yours, est, compLinks[i].gpo, "User")
    BY ChainCovers
  <2> HIDE DEF yours
  <2> QED BY <2>1
<1>5. \A i \in DOMAIN compLinks :
         compLinks[i].enabled /\ compLinks[i].gpo \in GpoIds(est) /\ compLinks[i].gpo \notin skipped =>
            Covered(machine, est, compLinks[i].gpo, "Computer")
  <2> HIDE DEF skipped
  <2> QED BY ChainCovers
<1> HIDE DEF chain, mine, yours, machine
<1>6. /\ IsEntries(chain.entries) /\ Within(machine, chain)
      /\ mode # "replace" => Within(mine, chain)
      /\ mode \in {"merge", "replace"} => Within(yours, chain)
  BY <1>1, <1>2, JoinedWithin
<1>7. mode # "replace" => Covers(chain, est, links, "User")
  BY <1>3, <1>6, CoveredWithin DEF Covers
<1>8. mode \in {"merge", "replace"} => Covers(chain, est, compLinks, "User")
  BY <1>4, <1>6, CoveredWithin DEF Covers
<1>9. ASSUME NEW i \in DOMAIN compLinks, compLinks[i].enabled, compLinks[i].gpo \in GpoIds(est)
      PROVE  Covered(chain, est, compLinks[i].gpo, "Computer")
  <2>1. CASE compLinks[i].gpo \notin skipped
    <3>1. Covered(machine, est, compLinks[i].gpo, "Computer")
      BY <1>5, <1>9, <2>1
    <3> QED BY <1>6, <3>1, CoveredWithin
  <2>2. CASE compLinks[i].gpo \in skipped
    <3>1. mode # "replace"
      BY <2>2
    <3>2. PICK e \in mine.excluded : e.gpo = compLinks[i].gpo
      BY <2>2, <3>1
    <3>3. e \in chain.excluded /\ e.side = "User"
      BY <1>3, <1>6, <3>1 DEF Within
    <3> QED BY <3>2, <3>3 DEF Covered
  <2> QED BY <2>1, <2>2
<1> HIDE DEF skipped
<1>10. Covers(chain, est, compLinks, "Computer")
  BY <1>9 DEF Covers
<1> QED BY <1>6, <1>7, <1>8, <1>10 DEF chain

\* An answer is the merge of a chain, and every link and side it consults is
\* covered by that chain.
IsMergeOf(p, chain, est) ==
    /\ IsEntries(chain.entries) /\ p.entries = chain.entries /\ p.excluded = chain.excluded
    /\ p.settings = MergeSettings(chain.entries, IltGpos(est)).settings
    /\ p.excludedSettings = MergeSettings(chain.entries, IltGpos(est)).excludedSettings
CoversConsulted(chain, est, who, with, policy) ==
    \A c \in Consulted(est, who, with, policy) :
        c.link.enabled /\ c.link.gpo \in GpoIds(est) => Covered(chain, est, c.link.gpo, c.side)

\* What policy makes of a chain.
LEMMA PolicyRead ==
    ASSUME NEW est, NEW to, NEW chain, IsEntries(chain.entries), NEW dangers
    PROVE  LET p == PolicyOf(est, to, chain, dangers)
           IN  IsMergeOf(p, chain, est) /\ p.side = to.side /\ p.loopback = to.loopback
<1> DEFINE p == PolicyOf(est, to, chain, dangers)
           merge == MergeSettings(chain.entries, IltGpos(est))
<1>1. p = Policy(to, chain, merge, dangers)
  BY DEF PolicyOf
<1> HIDE DEF p, merge
<1>2. /\ p.entries = chain.entries /\ p.excluded = chain.excluded /\ p.settings = merge.settings
      /\ p.excludedSettings = merge.excludedSettings /\ p.side = to.side /\ p.loopback = to.loopback
  BY <1>1 DEF Policy
<1> QED BY <1>2 DEF IsMergeOf, merge, p

\* Every answer is such a merge.
LEMMA AnswersCover ==
    ASSUME NEW est, IsEstate(est), NEW r \in Resultants(est)
    PROVE  \E chain : IsMergeOf(r.policy, chain, est) /\ CoversConsulted(chain, est, r.who, r.with, r.policy)
<1>1. PICK w \in Principals, c \in Computers \cup {None} :
         r = [who |-> w, with |-> c,
              policy |-> PrincipalResultant(est, w, Homes[w], c, IF c = None THEN <<>> ELSE Homes[c], Dangers(est))]
  BY DEF Resultants
<1> DEFINE dangers == Dangers(est)
           home == IF c = None THEN <<>> ELSE Homes[c]
           p == PrincipalResultant(est, w, Homes[w], c, home, dangers)
           own == BuildToken(est, w)
           comp == IF c = None THEN {} ELSE BuildToken(est, c)
           known == DomainKnown(est, w)
           side == IF PrincipalType(est, w) = "Computer" THEN "Computer" ELSE "User"
           chainOf(x) == SomEffectiveGpos(est, SomPathFor(est, Homes[x]))
           links == chainOf(w)
           to(loopback) == [side |-> side, loopback |-> loopback, caveats |-> TokenCaveats(est, w)]
           sides(x, on) == {[link |-> chainOf(x)[i], side |-> on] : i \in DOMAIN chainOf(x)}
           consulted == Consulted(est, w, c, p)
<1>2. r.who = w /\ r.with = c /\ r.policy = p
  BY <1>1
<1>3. IsChain(links)
  BY LinksShape
<1>4. CASE c = None \/ side = "Computer"
  <2> DEFINE chain == CollectChain(est, links, side, own \cup comp, known, {})
  <2>1. p = PolicyOf(est, to(None), chain, dangers)
    BY <1>4 DEF PrincipalResultant
  <2>2. IsEntries(chain.entries)
    BY <1>3, EntriesShape
  <2>3. \A i \in DOMAIN links :
            links[i].enabled /\ links[i].gpo \in GpoIds(est) /\ links[i].gpo \notin {} =>
               Covered(chain, est, links[i].gpo, side)
    BY <1>3, ChainCovers
  <2> HIDE DEF chain, p, side, dangers
  <2>4. IsMergeOf(p, chain, est) /\ p.side = side
    <3>1. to(None).side = side
      OBVIOUS
    <3> HIDE DEF to
    <3> QED BY <2>1, <2>2, <3>1, PolicyRead
  <2>5. consulted = sides(w, side)
    BY <1>4, <2>4 DEF Consulted
  <2> HIDE DEF consulted
  <2>6. ASSUME NEW x \in consulted, x.link.enabled, x.link.gpo \in GpoIds(est)
        PROVE  Covered(chain, est, x.link.gpo, x.side)
    <3>1. PICK i \in DOMAIN links : x = [link |-> links[i], side |-> side]
      BY <2>5
    <3> HIDE DEF links
    <3>2. x.link = links[i] /\ x.side = side
      BY <3>1
    <3> QED BY <2>3, <2>6, <3>2
  <2>7. CoversConsulted(chain, est, w, c, p)
    BY <2>6 DEF CoversConsulted, consulted
  <2> QED BY <1>2, <2>4, <2>7
<1>5. CASE c # None /\ side = "User"
  <2> DEFINE compLinks == chainOf(c)
             mode == ActiveLoopback(est, compLinks)
             chain == PairChain(est, links, compLinks, mode, own, comp, known)
  <2>1. home = Homes[c] /\ Homes[c] # <<>>
    <3>1. c \in Computers
      BY <1>5
    <3> QED BY <1>5, <3>1, PipelineAssumption
  <2>2. p = PolicyOf(est, to(mode), chain, dangers)
    BY <1>5, <2>1 DEF PrincipalResultant
  <2>3. IsChain(compLinks)
    BY LinksShape
  <2> HIDE DEF mode
  <2>4. /\ IsEntries(chain.entries) /\ Covers(chain, est, compLinks, "Computer")
        /\ mode # "replace" => Covers(chain, est, links, "User")
        /\ mode \in {"merge", "replace"} => Covers(chain, est, compLinks, "User")
    <3> HIDE DEF links, compLinks, own, comp, known
    <3> QED BY <1>3, <2>3, PairCovers
  <2> HIDE DEF chain, p, side, dangers
  <2>5. IsMergeOf(p, chain, est) /\ p.side = side /\ p.loopback = mode
    <3>1. to(mode).side = side /\ to(mode).loopback = mode
      OBVIOUS
    <3> HIDE DEF to
    <3> QED BY <2>2, <2>4, <3>1, PolicyRead
  <2>6. consulted = sides(c, "Computer")
            \cup (IF mode = "replace" THEN {} ELSE sides(w, "User"))
            \cup (IF mode \in {"merge", "replace"} THEN sides(c, "User") ELSE {})
    <3>1. p.side # "Computer"
      BY <1>5, <2>5
    <3> QED BY <1>5, <2>5, <3>1 DEF Consulted
  <2> HIDE DEF consulted
  <2>7. ASSUME NEW x \in consulted, x.link.enabled, x.link.gpo \in GpoIds(est)
        PROVE  Covered(chain, est, x.link.gpo, x.side)
    <3>1. ASSUME NEW list, NEW on, Covers(chain, est, list, on),
                 x \in {[link |-> list[i], side |-> on] : i \in DOMAIN list}
          PROVE  Covered(chain, est, x.link.gpo, x.side)
      <4>1. PICK i \in DOMAIN list : x = [link |-> list[i], side |-> on]
        BY <3>1
      <4>2. x.link = list[i] /\ x.side = on
        BY <4>1
      <4> QED BY <2>7, <3>1, <4>2 DEF Covers
    <3>2. CASE x \in sides(c, "Computer")
      <4>1. x \in {[link |-> compLinks[i], side |-> "Computer"] : i \in DOMAIN compLinks}
        BY <3>2
      <4> HIDE DEF compLinks
      <4> QED BY <2>4, <3>1, <4>1
    <3>3. CASE mode # "replace" /\ x \in sides(w, "User")
      <4>1. x \in {[link |-> links[i], side |-> "User"] : i \in DOMAIN links}
        BY <3>3
      <4> HIDE DEF links
      <4> QED BY <2>4, <3>1, <3>3, <4>1
    <3>4. CASE mode \in {"merge", "replace"} /\ x \in sides(c, "User")
      <4>1. x \in {[link |-> compLinks[i], side |-> "User"] : i \in DOMAIN compLinks}
        BY <3>4
      <4> HIDE DEF compLinks
      <4> QED BY <2>4, <3>1, <3>4, <4>1
    <3> HIDE DEF sides
    <3> QED BY <2>6, <3>2, <3>3, <3>4
  <2>8. CoversConsulted(chain, est, w, c, p)
    BY <2>7 DEF CoversConsulted, consulted
  <2> QED BY <1>2, <2>5, <2>8
<1> QED BY <1>4, <1>5

\* No policy an answer consults disappears without a word: what the chain does
\* not list as excluded has an entry, and of every key of an entry the merge
\* says what became of it, but for the three exceptions of NothingVanishes.
THEOREM NothingIsLost == PipelineSpec => []NothingVanishes
<1>1. ASSUME Provenance, phase = "open", NEW r \in Resultants(Live),
             NEW c \in Consulted(Live, r.who, r.with, r.policy), c.link.enabled, c.link.gpo \in GpoIds(Live)
      PROVE  \/ \E e \in r.policy.excluded : e.gpo = c.link.gpo /\ e.side \in {c.side, "User"}
             \/ \A s \in SettingsOf(Live.gpos[c.link.gpo]) : s.side = c.side /\ ~s.off =>
                   Told(r.policy, IltGpos(Live), c.link.gpo, Key(s))
  <2> DEFINE est == Live
             p == r.policy
             id == c.link.gpo
             ilt == IltGpos(est)
             live == LiveSettings(est.gpos[id], c.side)
  <2>1. IsEstate(est)
    BY <1>1, Estates
  <2> HIDE DEF est
  <2>2. PICK chain : IsMergeOf(p, chain, est) /\ CoversConsulted(chain, est, r.who, r.with, p)
    BY <1>1, <2>1, AnswersCover DEF est
  <2>3. Covered(chain, est, id, c.side)
    BY <1>1, <2>2 DEF CoversConsulted, est
  <2> HIDE DEF ilt
  <2>4. /\ IsEntries(chain.entries) /\ p.excluded = chain.excluded /\ p.entries = chain.entries
        /\ p.settings = MergeSettings(chain.entries, ilt).settings
        /\ p.excludedSettings = MergeSettings(chain.entries, ilt).excludedSettings
    BY <2>2 DEF IsMergeOf, ilt
  <2>5. Range(live) = {s \in SettingsOf(est.gpos[id]) : s.side = c.side /\ ~s.off}
        /\ (live = <<>> => Range(live) = {})
    <3>1. IsSequence(est.gpos[id].settings)
      BY <1>1, <2>1 DEF IsEstate, est
    <3> QED BY <3>1, LiveShape
  <2> HIDE DEF live, p, id
  <2>6. ASSUME NEW k \in DOMAIN chain.entries, chain.entries[k].gpo = id, chain.entries[k].settings = live,
               NEW s \in Range(live)
        PROVE  Told(p, ilt, id, Key(s))
    <3> DEFINE told == MergeOf(chain.entries, ilt)
    <3>1. Told(told, ilt, chain.entries[k].gpo, Key(s))
      BY <2>4, <2>6, MergeTells
    <3>2. told.settings = p.settings /\ told.excludedSettings = p.excludedSettings /\ told.entries = p.entries
      BY <2>4 DEF MergeOf
    <3> HIDE DEF told
    <3> QED BY <2>6, <3>1, <3>2 DEF Told
  <2>7. \/ \E e \in p.excluded : e.gpo = id /\ e.side \in {c.side, "User"}
        \/ \A s \in Range(live) : Told(p, ilt, id, Key(s))
    <3>1. CASE \E e \in chain.excluded : e.gpo = id /\ e.side \in {c.side, "User"}
      BY <2>4, <3>1
    <3>2. CASE live = <<>>
      BY <2>5, <3>2
    <3>3. CASE \E k \in DOMAIN chain.entries : chain.entries[k].gpo = id /\ chain.entries[k].settings = live
      BY <2>6, <3>3
    <3> QED BY <2>3, <3>1, <3>2, <3>3 DEF Covered, live
  <2> HIDE DEF ilt
  <2>8. \/ \E e \in p.excluded : e.gpo = id /\ e.side \in {c.side, "User"}
        \/ \A s \in SettingsOf(est.gpos[id]) : s.side = c.side /\ ~s.off => Told(p, ilt, id, Key(s))
    BY <2>5, <2>7
  <2> QED BY <2>8 DEF p, id, ilt, est
<1>2. Provenance => NothingVanishes
  BY <1>1 DEF NothingVanishes
<1> QED BY <1>2, ImportInvariance, PTL

-----------------------------------------------------------------------------
(* Comparing two snapshots: the changelog, the dumps, the golden and the   *)
(* baseline comparison, drift and the trend are of one accord.             *)

\* A GPO of an unambiguous estate has one setting of a key.
LEMMA OnePerKey ==
    ASSUME NEW est, Unambiguous(est), NEW id \in GpoIds(est),
           NEW s \in SettingsOf(est.gpos[id]), NEW t \in SettingsOf(est.gpos[id]), Key(s) = Key(t)
    PROVE  s = t
<1> DEFINE settings == est.gpos[id].settings
           keys == [i \in DOMAIN settings |-> Key(settings[i])]
<1>1. Distinct(keys)
  BY DEF Unambiguous
<1>2. PICK i, j \in DOMAIN settings : s = settings[i] /\ t = settings[j]
  BY DEF SettingsOf
<1> HIDE DEF settings
<1>3. i = j
  BY <1>1, <1>2 DEF Distinct
<1> QED BY <1>2, <1>3

\* What a row of the settings table reads: the value of that setting.
LEMMA RowRead ==
    ASSUME NEW est, IsEstate(est), Unambiguous(est), NEW id \in GpoIds(est),
           NEW s \in SettingsOf(est.gpos[id])
    PROVE  RowValue(est, <<id, Key(s)>>) = s.value
<1> DEFINE settings == est.gpos[id].settings
           found == {i \in DOMAIN settings : Key(settings[i]) = Key(s)}
<1>1. IsSequence(settings)
  BY DEF IsEstate
<1>2. PICK n \in DOMAIN settings : s = settings[n]
  BY DEF SettingsOf
<1>3. \A i \in found : settings[i] = s
  BY OnePerKey DEF SettingsOf
<1>4. RowValue(est, <<id, Key(s)>>) = settings[Max(found)].value
  BY DEF RowValue
<1>5. DOMAIN settings \subseteq Int /\ IsFiniteSet(DOMAIN settings)
  <2> HIDE DEF settings
  <2> QED BY <1>1, ListShape, RangeFinite
<1>6. found \in SUBSET Int /\ IsFiniteSet(found) /\ found # {}
  <2>1. found \subseteq DOMAIN settings /\ n \in found
    BY <1>2
  <2> HIDE DEF found, settings
  <2> QED BY <1>5, <2>1, FS_Subset
<1> HIDE DEF found
<1>7. Max(found) \in found
  BY <1>6, FiniteMax
<1> QED BY <1>3, <1>4, <1>7

\* The keys of the settings tables are those of the settings.
LEMMA KeysRead ==
    ASSUME NEW est
    PROVE  \A k : k \in KeyedRows(est) <=>
                \E id \in GpoIds(est) : \E s \in SettingsOf(est.gpos[id]) : k = <<id, Key(s)>>
BY DEF KeyedRows

----------------------------------------------------------------------------
(* The differences, key by key.                                            *)

ChangeOf(a, b, k) ==
    IF k \notin KeyedRows(a) THEN "added"
    ELSE IF k \notin KeyedRows(b) THEN "removed"
    ELSE IF RowValue(a, k) # RowValue(b, k) THEN "modified" ELSE "same"
RowOf(k, change) == [gpo |-> k[1], key |-> k[2], change |-> change]
IsChange(r, a, b) ==
    \E k \in KeyedRows(a) \cup KeyedRows(b) : ChangeOf(a, b, k) # "same" /\ r = RowOf(k, ChangeOf(a, b, k))

\* The settings diff of two snapshots has a row per key that changed.
LEMMA DiffRows ==
    ASSUME NEW a, NEW b
    PROVE  \A r : r \in SnapshotSettingsDiff(a, b) <=> IsChange(r, a, b)
<1> DEFINE A == KeyedRows(a)
           B == KeyedRows(b)
           D == SnapshotSettingsDiff(a, b)
           kept == {x \in A \cap B : RowValue(a, x) # RowValue(b, x)}
<1>1. D = {RowOf(k, "added") : k \in B \ A} \cup {RowOf(k, "removed") : k \in A \ B}
             \cup {RowOf(k, "modified") : k \in kept}
  BY DEF SnapshotSettingsDiff, RowOf
<1>2. ASSUME NEW r
      PROVE  r \in D <=> \/ \E k \in B \ A : r = RowOf(k, "added")
                         \/ \E k \in A \ B : r = RowOf(k, "removed")
                         \/ \E k \in kept : r = RowOf(k, "modified")
  <2> HIDE DEF A, B, D, kept
  <2> QED BY <1>1
<1>3. /\ \A k \in B \ A : ChangeOf(a, b, k) = "added"
      /\ \A k \in A \ B : ChangeOf(a, b, k) = "removed"
      /\ \A k \in kept : ChangeOf(a, b, k) = "modified"
      /\ \A k \in A \cup B : ChangeOf(a, b, k) # "same" => k \in B \ A \/ k \in A \ B \/ k \in kept
  BY DEF ChangeOf
<1>4. B \ A \subseteq A \cup B /\ A \ B \subseteq A \cup B /\ kept \subseteq A \cup B
  OBVIOUS
<1>5. ASSUME NEW r
      PROVE  r \in D <=> IsChange(r, a, b)
  <2>1. IsChange(r, a, b) <=> \E k \in A \cup B : ChangeOf(a, b, k) # "same" /\ r = RowOf(k, ChangeOf(a, b, k))
    BY DEF IsChange
  <2> HIDE DEF A, B, D, kept
  <2>2. ASSUME r \in D
        PROVE  IsChange(r, a, b)
    <3>1. CASE \E k \in B \ A : r = RowOf(k, "added")
      BY <1>3, <1>4, <2>1, <3>1
    <3>2. CASE \E k \in A \ B : r = RowOf(k, "removed")
      BY <1>3, <1>4, <2>1, <3>2
    <3>3. CASE \E k \in kept : r = RowOf(k, "modified")
      BY <1>3, <1>4, <2>1, <3>3
    <3> QED BY <1>2, <2>2, <3>1, <3>2, <3>3
  <2>3. ASSUME IsChange(r, a, b)
        PROVE  r \in D
    <3>1. PICK k \in A \cup B : ChangeOf(a, b, k) # "same" /\ r = RowOf(k, ChangeOf(a, b, k))
      BY <2>1, <2>3
    <3>2. k \in B \ A \/ k \in A \ B \/ k \in kept
      BY <1>3, <3>1
    <3> QED BY <1>2, <1>3, <3>1, <3>2
  <2> QED BY <2>2, <2>3
<1> QED BY <1>5

\* A GPO that both snapshots have changed its settings exactly when one of its
\* keys did.
LEMMA SettingsMoved ==
    ASSUME NEW a, IsEstate(a), Unambiguous(a), NEW b, IsEstate(b), Unambiguous(b), NEW id \in Common(a, b)
    PROVE  SettingRows(a.gpos[id]) # SettingRows(b.gpos[id])
              <=> \E r \in SnapshotSettingsDiff(a, b) : r.gpo = id
<1> DEFINE S == SettingsOf(a.gpos[id])
           T == SettingsOf(b.gpos[id])
<1>1. id \in GpoIds(a) /\ id \in GpoIds(b)
  BY DEF Common
<1>2. /\ \A s \in S : <<id, Key(s)>> \in KeyedRows(a) /\ RowValue(a, <<id, Key(s)>>) = s.value
      /\ \A t \in T : <<id, Key(t)>> \in KeyedRows(b) /\ RowValue(b, <<id, Key(t)>>) = t.value
      /\ \A key : <<id, key>> \in KeyedRows(a) => \E s \in S : Key(s) = key
      /\ \A key : <<id, key>> \in KeyedRows(b) => \E t \in T : Key(t) = key
  <2>1. \A s \in S : <<id, Key(s)>> \in KeyedRows(a) /\ RowValue(a, <<id, Key(s)>>) = s.value
    BY <1>1, KeysRead, RowRead
  <2>2. \A t \in T : <<id, Key(t)>> \in KeyedRows(b) /\ RowValue(b, <<id, Key(t)>>) = t.value
    BY <1>1, KeysRead, RowRead
  <2>3. \A key : <<id, key>> \in KeyedRows(a) => \E s \in S : Key(s) = key
    BY KeysRead
  <2>4. \A key : <<id, key>> \in KeyedRows(b) => \E t \in T : Key(t) = key
    BY KeysRead
  <2> QED BY <2>1, <2>2, <2>3, <2>4
<1>3. /\ SettingRows(a.gpos[id]) = {<<Key(s), s.value>> : s \in S}
      /\ SettingRows(b.gpos[id]) = {<<Key(s), s.value>> : s \in T}
  BY DEF SettingRows
<1> HIDE DEF S, T
<1>4. ASSUME NEW key, ChangeOf(a, b, <<id, key>>) # "same",
             <<id, key>> \in KeyedRows(a) \cup KeyedRows(b)
      PROVE  \E r \in SnapshotSettingsDiff(a, b) : r.gpo = id
  <2> DEFINE r == RowOf(<<id, key>>, ChangeOf(a, b, <<id, key>>))
  <2>1. IsChange(r, a, b)
    BY <1>4 DEF IsChange
  <2>2. r.gpo = id
    BY DEF RowOf
  <2> QED BY <2>1, <2>2, DiffRows
<1>5. ASSUME NEW s \in S, \A t \in T : <<Key(t), t.value>> # <<Key(s), s.value>>
      PROVE  \E r \in SnapshotSettingsDiff(a, b) : r.gpo = id
  <2> DEFINE k == <<id, Key(s)>>
  <2>1. k \in KeyedRows(a) /\ RowValue(a, k) = s.value
    BY <1>2
  <2>2. k \in KeyedRows(b) => RowValue(b, k) # s.value
    BY <1>2, <1>5
  <2>3. ChangeOf(a, b, k) # "same"
    BY <2>1, <2>2 DEF ChangeOf
  <2> QED BY <1>4, <2>1, <2>3
<1>6. ASSUME NEW t \in T, \A s \in S : <<Key(s), s.value>> # <<Key(t), t.value>>
      PROVE  \E r \in SnapshotSettingsDiff(a, b) : r.gpo = id
  <2> DEFINE k == <<id, Key(t)>>
  <2>1. k \in KeyedRows(b) /\ RowValue(b, k) = t.value
    BY <1>2
  <2>2. k \in KeyedRows(a) => RowValue(a, k) # t.value
    BY <1>2, <1>6
  <2>3. ChangeOf(a, b, k) # "same"
    BY <2>1, <2>2 DEF ChangeOf
  <2> QED BY <1>4, <2>1, <2>3
<1>7. ASSUME SettingRows(a.gpos[id]) # SettingRows(b.gpos[id])
      PROVE  \E r \in SnapshotSettingsDiff(a, b) : r.gpo = id
  <2>1. \/ \E s \in S : \A t \in T : <<Key(t), t.value>> # <<Key(s), s.value>>
        \/ \E t \in T : \A s \in S : <<Key(s), s.value>> # <<Key(t), t.value>>
    BY <1>3, <1>7
  <2> QED BY <1>5, <1>6, <2>1
<1>8. ASSUME NEW r \in SnapshotSettingsDiff(a, b), r.gpo = id
      PROVE  SettingRows(a.gpos[id]) # SettingRows(b.gpos[id])
  <2>1. PICK k \in KeyedRows(a) \cup KeyedRows(b) :
           ChangeOf(a, b, k) # "same" /\ r = RowOf(k, ChangeOf(a, b, k))
    BY DiffRows DEF IsChange
  <2>2. k = <<id, k[2]>>
    <3>1. k[1] = id
      BY <1>8, <2>1 DEF RowOf
    <3>2. k = <<k[1], k[2]>>
      BY <2>1, KeysRead
    <3> QED BY <3>1, <3>2
  <2>3. ASSUME SettingRows(a.gpos[id]) = SettingRows(b.gpos[id])
        PROVE  ChangeOf(a, b, k) = "same"
    <3> DEFINE row(s) == <<Key(s), s.value>>
    <3>0. {row(s) : s \in S} = {row(s) : s \in T} /\ \A s, t : row(s) = row(t) => Key(s) = Key(t) /\ s.value = t.value
      BY <1>3, <2>3
    <3> HIDE DEF row
    <3>1. \A s \in S : \E t \in T : Key(s) = Key(t) /\ s.value = t.value
      BY <3>0
    <3>2. \A t \in T : \E s \in S : Key(s) = Key(t) /\ s.value = t.value
      BY <3>0
    <3>3. k \in KeyedRows(a)
      BY <1>2, <2>1, <2>2, <3>2
    <3>4. PICK s \in S : Key(s) = k[2]
      BY <1>2, <2>2, <3>3
    <3>5. PICK t \in T : Key(t) = k[2] /\ s.value = t.value
      BY <3>1, <3>4
    <3>6. k \in KeyedRows(b) /\ RowValue(a, k) = s.value /\ RowValue(b, k) = t.value
      BY <1>2, <2>2, <3>4, <3>5
    <3> QED BY <3>3, <3>5, <3>6 DEF ChangeOf
  <2> QED BY <2>1, <2>3
<1> QED BY <1>7, <1>8

\* What a change is, seen the other way round.
Reversed(change) == CASE change = "added" -> "removed" [] change = "removed" -> "added" [] OTHER -> change

\* Comparing the other way round swaps what was added and what was removed.
LEMMA DiffReversed ==
    ASSUME NEW a, NEW b
    PROVE  SnapshotSettingsDiff(b, a) =
              {[r EXCEPT !.change = CASE @ = "added" -> "removed" [] @ = "removed" -> "added"
                                      [] OTHER -> @] : r \in SnapshotSettingsDiff(a, b)}
<1> DEFINE turn(r) == [r EXCEPT !.change = CASE @ = "added" -> "removed" [] @ = "removed" -> "added"
                                             [] OTHER -> @]
           D == SnapshotSettingsDiff(a, b)
           E == SnapshotSettingsDiff(b, a)
<1>1. \A k, change : turn(RowOf(k, change)) = RowOf(k, Reversed(change))
  BY DEF RowOf, Reversed
<1>2. \A k \in KeyedRows(a) \cup KeyedRows(b) : ChangeOf(b, a, k) = Reversed(ChangeOf(a, b, k))
  BY DEF ChangeOf, Reversed
<1>3. \A k \in KeyedRows(a) \cup KeyedRows(b) : ChangeOf(b, a, k) # "same" <=> ChangeOf(a, b, k) # "same"
  BY DEF ChangeOf
<1>4. (\A r : r \in D <=> IsChange(r, a, b)) /\ \A r : r \in E <=> IsChange(r, b, a)
  BY DiffRows
<1> HIDE DEF D, E, turn
<1>5. ASSUME NEW r \in D
      PROVE  turn(r) \in E
  <2>1. PICK k \in KeyedRows(a) \cup KeyedRows(b) :
           ChangeOf(a, b, k) # "same" /\ r = RowOf(k, ChangeOf(a, b, k))
    BY <1>4 DEF IsChange
  <2>2. turn(r) = RowOf(k, ChangeOf(b, a, k)) /\ ChangeOf(b, a, k) # "same"
    BY <1>1, <1>2, <1>3, <2>1
  <2>3. k \in KeyedRows(b) \cup KeyedRows(a)
    OBVIOUS
  <2> QED BY <1>4, <2>2, <2>3 DEF IsChange
<1>6. ASSUME NEW e \in E
      PROVE  \E r \in D : e = turn(r)
  <2>1. PICK k \in KeyedRows(b) \cup KeyedRows(a) :
           ChangeOf(b, a, k) # "same" /\ e = RowOf(k, ChangeOf(b, a, k))
    BY <1>4 DEF IsChange
  <2>2. k \in KeyedRows(a) \cup KeyedRows(b)
    OBVIOUS
  <2>3. e = turn(RowOf(k, ChangeOf(a, b, k))) /\ ChangeOf(a, b, k) # "same"
    BY <1>1, <1>2, <1>3, <2>1, <2>2
  <2>4. RowOf(k, ChangeOf(a, b, k)) \in D
    BY <1>4, <2>2, <2>3 DEF IsChange
  <2> QED BY <2>3, <2>4
<1>7. E = {turn(r) : r \in D}
  BY <1>5, <1>6
<1> QED BY <1>7 DEF E, D, turn

\* Two settings dumps are compared as the two snapshots are.
LEMMA DumpsCompared ==
    ASSUME NEW a, IsEstate(a), Unambiguous(a), NEW b, IsEstate(b), Unambiguous(b)
    PROVE  SettingsDiff(SettingsDump(a), SettingsDump(b)) = SnapshotSettingsDiff(a, b)
<1> DEFINE keys(rows) == {<<r.gpo, r.key>> : r \in rows}
           last(rows, k) == CHOOSE r \in rows : /\ <<r.gpo, r.key>> = k
                               /\ \A q \in rows : <<q.gpo, q.key>> = k => q.n <= r.n
           change(k) == CASE k \notin keys(SettingsDump(a)) -> "added"
                          [] k \notin keys(SettingsDump(b)) -> "removed" [] OTHER -> "modified"
           A == SettingsDump(a)
           B == SettingsDump(b)
           changed == {x \in keys(A) \cup keys(B) : change(x) = "modified" => last(A, x).value # last(B, x).value}
<1>1. SettingsDiff(A, B) = {[gpo |-> k[1], key |-> k[2], change |-> change(k)] : k \in changed}
  BY DEF SettingsDiff
<1>2. ASSUME NEW est, IsEstate(est), Unambiguous(est)
      PROVE  /\ keys(SettingsDump(est)) = KeyedRows(est)
             /\ \A k \in KeyedRows(est) : last(SettingsDump(est), k).value = RowValue(est, k)
  <2> DEFINE rows == SettingsDump(est)
             row(id, n) == [gpo |-> id, n |-> n, key |-> Key(est.gpos[id].settings[n]),
                            value |-> est.gpos[id].settings[n].value]
  <2>1. \A r : r \in rows <=> \E id \in GpoIds(est) : \E n \in DOMAIN est.gpos[id].settings : r = row(id, n)
    BY DEF SettingsDump
  <2> HIDE DEF rows
  <2>2. \A id, n : /\ row(id, n).gpo = id /\ row(id, n).n = n /\ row(id, n).key = Key(est.gpos[id].settings[n])
                   /\ row(id, n).value = est.gpos[id].settings[n].value
    OBVIOUS
  <2> HIDE DEF row
  <2>3. \A k : k \in keys(rows) <=>
                  \E id \in GpoIds(est) : \E n \in DOMAIN est.gpos[id].settings :
                     k = <<id, Key(est.gpos[id].settings[n])>>
    BY <2>1, <2>2
  <2> HIDE DEF keys
  <2>4. \A k : k \in KeyedRows(est) <=>
                  \E id \in GpoIds(est) : \E n \in DOMAIN est.gpos[id].settings :
                     k = <<id, Key(est.gpos[id].settings[n])>>
    <3>2. \A k : k \in KeyedRows(est) <=>
                    \E id \in GpoIds(est) : \E s \in SettingsOf(est.gpos[id]) : k = <<id, Key(s)>>
      BY KeysRead
    <3>3. ASSUME NEW id, NEW k
          PROVE  (\E s \in SettingsOf(est.gpos[id]) : k = <<id, Key(s)>>)
                    <=> \E n \in DOMAIN est.gpos[id].settings : k = <<id, Key(est.gpos[id].settings[n])>>
      <4> DEFINE settings == est.gpos[id].settings
      <4>1. SettingsOf(est.gpos[id]) = {settings[n] : n \in DOMAIN settings}
        BY DEF SettingsOf
      <4> HIDE DEF settings
      <4>2. (\E s \in SettingsOf(est.gpos[id]) : k = <<id, Key(s)>>)
                <=> \E n \in DOMAIN settings : k = <<id, Key(settings[n])>>
        BY <4>1
      <4> QED BY <4>2 DEF settings
    <3> QED BY <3>2, <3>3
  <2>5. keys(rows) = KeyedRows(est)
    BY <2>3, <2>4
  <2>6. ASSUME NEW k \in KeyedRows(est)
        PROVE  last(rows, k).value = RowValue(est, k)
    <3>1. PICK id \in GpoIds(est) : \E n \in DOMAIN est.gpos[id].settings :
                                       k = <<id, Key(est.gpos[id].settings[n])>>
      BY <2>4
    <3> DEFINE settings == est.gpos[id].settings
    <3>2. PICK n \in DOMAIN settings : k = <<id, Key(settings[n])>>
      BY <3>1
    <3>3. IsSequence(settings) /\ settings[n] \in SettingsOf(est.gpos[id])
      BY <1>2 DEF IsEstate, SettingsOf
    <3>4. RowValue(est, k) = settings[n].value
      BY <1>2, <3>2, <3>3, RowRead
    <3>5. n \in Int
      <4> HIDE DEF settings
      <4> QED BY <3>3, ListShape
    <3>6. Distinct([i \in DOMAIN settings |-> Key(settings[i])])
      BY <1>2 DEF Unambiguous
    <3>7. \A m \in DOMAIN settings : Key(settings[m]) = Key(settings[n]) => m = n
      <4> HIDE DEF settings
      <4> QED BY <3>6 DEF Distinct
    <3>8. \A q \in rows : <<q.gpo, q.key>> = k => q = row(id, n)
      <4>1. ASSUME NEW q \in rows, <<q.gpo, q.key>> = k
            PROVE  q = row(id, n)
        <5>1. PICK g \in GpoIds(est) : \E m \in DOMAIN est.gpos[g].settings : q = row(g, m)
          BY <2>1
        <5>2. PICK m \in DOMAIN est.gpos[g].settings : q = row(g, m)
          BY <5>1
        <5>3. g = id /\ Key(est.gpos[g].settings[m]) = Key(settings[n])
          <6>1. <<g, Key(est.gpos[g].settings[m])>> = <<id, Key(settings[n])>>
            BY <2>2, <3>2, <4>1, <5>2
          <6> QED BY <6>1
        <5> QED BY <3>7, <5>2, <5>3
      <4> QED BY <4>1
    <3>9. row(id, n) \in rows /\ <<row(id, n).gpo, row(id, n).key>> = k /\ row(id, n).n =< row(id, n).n
      BY <2>1, <2>2, <3>2, <3>5
    <3>10. last(rows, k) = row(id, n)
      BY <3>8, <3>9
    <3>11. row(id, n).value = settings[n].value
      BY <2>2
    <3> HIDE DEF settings, last
    <3> QED BY <3>4, <3>10, <3>11
  <2> QED BY <2>5, <2>6 DEF rows
<1>3. /\ keys(A) = KeyedRows(a) /\ \A k \in KeyedRows(a) : last(A, k).value = RowValue(a, k)
      /\ keys(B) = KeyedRows(b) /\ \A k \in KeyedRows(b) : last(B, k).value = RowValue(b, k)
  BY <1>2
<1> HIDE DEF keys, last, A, B
<1>4. \A k \in KeyedRows(a) \cup KeyedRows(b) :
         /\ k \in changed <=> ChangeOf(a, b, k) # "same"
         /\ k \in changed => change(k) = ChangeOf(a, b, k)
  BY <1>3 DEF ChangeOf, A, B
<1>5. changed \subseteq KeyedRows(a) \cup KeyedRows(b)
  BY <1>3
<1>6. \A r : r \in SettingsDiff(A, B) <=> \E k \in changed : r = RowOf(k, change(k))
  BY <1>1 DEF RowOf
<1> HIDE DEF changed, change
<1>7. \A r : r \in SettingsDiff(A, B) <=> IsChange(r, a, b)
  BY <1>4, <1>5, <1>6 DEF IsChange
<1>8. \A r : r \in SettingsDiff(A, B) <=> r \in SnapshotSettingsDiff(a, b)
  BY <1>7, DiffRows
<1> QED BY <1>8 DEF A, B, SettingsDiff, SnapshotSettingsDiff

\* The changelog lists the settings of no GPO whose settings did not move.
LEMMA ChangelogMoved ==
    ASSUME NEW a, IsEstate(a), Unambiguous(a), NEW b, IsEstate(b), Unambiguous(b),
           NEW e \in SnapshotChangelog(a, b), e.kind = "settings_detail"
    PROVE  e.gpo \in Common(a, b) /\ SettingRows(a.gpos[e.gpo]) # SettingRows(b.gpos[e.gpo])
<1> DEFINE changes == SnapshotSettingsDiff(a, b)
           entry(id, side) ==
               [gpo |-> id, side |-> side, changes |-> {c \in changes : c.gpo = id /\ c.key[2] = side},
                kind |-> IF \E c \in changes : c.gpo = id THEN "settings_detail" ELSE "metadata_only"]
<1>1. \/ e.kind \in {"gpo_added", "gpo_removed"}
      \/ \E id \in Common(a, b), side \in {"Computer", "User"} : e = entry(id, side)
  BY DEF SnapshotChangelog
<1>2. PICK id \in Common(a, b), side \in {"Computer", "User"} : e = entry(id, side)
  BY <1>1
<1> HIDE DEF changes
<1>3. e.gpo = id /\ \E c \in changes : c.gpo = id
  BY <1>2
<1> QED BY <1>3, SettingsMoved DEF changes

\* The GPO that a name finds, and the values a GPO has in force for a key.
LEMMA NameFound ==
    ASSUME NEW est, NEW id \in GpoIds(est)
    PROVE  /\ est.gpos[id].name \in NamesIn(est)
           /\ \A name \in NamesIn(est) : \E other \in GpoIds(est) : /\ est.gpos[other].name = name
                                                                    /\ Named(est, name) = est.gpos[other]
           /\ SoleName(est, id) => Named(est, est.gpos[id].name) = est.gpos[id]
<1>1. \A name : name \in NamesIn(est) <=> \E other \in GpoIds(est) : est.gpos[other].name = name
  BY DEF NamesIn, GposOf
<1>2. ASSUME NEW name \in NamesIn(est)
      PROVE  \E other \in GpoIds(est) : est.gpos[other].name = name /\ Named(est, name) = est.gpos[other]
  <2>1. \E other \in GpoIds(est) : est.gpos[other].name = name
    BY <1>1
  <2> QED BY <2>1 DEF Named
<1>3. ASSUME SoleName(est, id)
      PROVE  Named(est, est.gpos[id].name) = est.gpos[id]
  <2>1. \A other \in GpoIds(est) : est.gpos[other].name = est.gpos[id].name => other = id
    BY <1>3 DEF SoleName
  <2>2. PICK other \in GpoIds(est) : /\ est.gpos[other].name = est.gpos[id].name
                                     /\ Named(est, est.gpos[id].name) = est.gpos[other]
    BY <1>1, <1>2
  <2> QED BY <2>1, <2>2
<1> QED BY <1>1, <1>2, <1>3

\* A setting in force is the only value its GPO has at its baseline key.
LEMMA InForce ==
    ASSUME NEW est, Unambiguous(est), NEW id \in GpoIds(est), NEW s \in EffectiveSettings(est.gpos[id])
    PROVE  ValuesAt(est.gpos[id], BaselineKey(s)) = {s.value}
<1> DEFINE S == EffectiveSettings(est.gpos[id])
           at == {x \in S : BaselineKey(x) = BaselineKey(s)}
<1>1. \A x \in S : BaselineKey(x) = BaselineKey(s) => x = s
  <2>1. ASSUME NEW x \in S, BaselineKey(x) = BaselineKey(s)
        PROVE  x = s
    <3>1. Key(x) = Key(s)
      BY <2>1 DEF BaselineKey, Key
    <3>2. x \in SettingsOf(est.gpos[id]) /\ s \in SettingsOf(est.gpos[id])
      BY DEF EffectiveSettings
    <3> QED BY <3>1, <3>2, OnePerKey
  <2> QED BY <2>1
<1>2. at = {s}
  <2> HIDE DEF S
  <2> QED BY <1>1 DEF S
<1>3. ValuesAt(est.gpos[id], BaselineKey(s)) = {x.value : x \in at}
  BY DEF ValuesAt
<1> QED BY <1>2, <1>3

\* A key in force in both GPOs of a name, with other values.
IsDrift(e, a, b) ==
    \E name \in NamesIn(a) \cap NamesIn(b) :
       \E k \in EffectiveKeys(Named(a, name)) \cap EffectiveKeys(Named(b, name)) :
          /\ \/ ValuesAt(Named(b, name), k) # ValuesAt(Named(a, name), k)
             \/ Cardinality(ValuesAt(Named(b, name), k)) # 1
          /\ e = [status |-> "changed", name |-> name, key |-> k]

\* The changes of the golden comparison are those.
LEMMA GoldenChanged ==
    ASSUME NEW a, NEW b
    PROVE  \A e : e \in GoldenDiff(b, a) /\ e.status = "changed" <=> IsDrift(e, a, b)
<1> DEFINE only(x, y, status) == {[status |-> status, name |-> g.name, key |-> g.id] :
                                     g \in {z \in GposOf(x) : z.name \notin NamesIn(y)}}
           entry(name, k) == [status |-> GoldenStatus(Named(b, name), Named(a, name), k), name |-> name, key |-> k]
           keys(name) == EffectiveKeys(Named(b, name)) \cup EffectiveKeys(Named(a, name))
           compared(name) == {entry(name, k) : k \in keys(name)}
<1>1. GoldenDiff(b, a) = only(a, b, "gpo_removed") \cup only(b, a, "gpo_added")
                            \cup UNION {compared(name) : name \in NamesIn(b) \cap NamesIn(a)}
  BY DEF GoldenDiff
<1>2. /\ \A e \in only(a, b, "gpo_removed") : e.status # "changed"
      /\ \A e \in only(b, a, "gpo_added") : e.status # "changed"
  OBVIOUS
<1> HIDE DEF only
<1>3. \A e : e \in GoldenDiff(b, a) /\ e.status = "changed" <=>
                \E name \in NamesIn(b) \cap NamesIn(a) : \E k \in keys(name) :
                   e = entry(name, k) /\ e.status = "changed"
  <2> HIDE DEF entry, keys
  <2> QED BY <1>1, <1>2
<1>4. ASSUME NEW name, NEW k \in keys(name)
      PROVE  GoldenStatus(Named(b, name), Named(a, name), k) = "changed" <=>
                /\ k \in EffectiveKeys(Named(a, name)) \cap EffectiveKeys(Named(b, name))
                /\ \/ ValuesAt(Named(b, name), k) # ValuesAt(Named(a, name), k)
                   \/ Cardinality(ValuesAt(Named(b, name), k)) # 1
  <2>1. k \in EffectiveKeys(Named(b, name)) \/ k \in EffectiveKeys(Named(a, name))
    OBVIOUS
  <2> HIDE DEF keys
  <2> QED BY <2>1 DEF GoldenStatus
<1>5. ASSUME NEW e, e \in GoldenDiff(b, a), e.status = "changed"
      PROVE  IsDrift(e, a, b)
  <2>1. PICK name \in NamesIn(b) \cap NamesIn(a) : \E k \in keys(name) : e = entry(name, k) /\ e.status = "changed"
    BY <1>3, <1>5
  <2>2. PICK k \in keys(name) : e = entry(name, k) /\ e.status = "changed"
    BY <2>1
  <2>3. GoldenStatus(Named(b, name), Named(a, name), k) = "changed"
    BY <2>2
  <2>4. e = [status |-> "changed", name |-> name, key |-> k]
    BY <2>2, <2>3
  <2> QED BY <1>4, <2>3, <2>4 DEF IsDrift
<1>6. ASSUME NEW e, IsDrift(e, a, b)
      PROVE  e \in GoldenDiff(b, a) /\ e.status = "changed"
  <2>1. PICK name \in NamesIn(a) \cap NamesIn(b) :
           \E k \in EffectiveKeys(Named(a, name)) \cap EffectiveKeys(Named(b, name)) :
              /\ \/ ValuesAt(Named(b, name), k) # ValuesAt(Named(a, name), k)
                 \/ Cardinality(ValuesAt(Named(b, name), k)) # 1
              /\ e = [status |-> "changed", name |-> name, key |-> k]
    BY <1>6 DEF IsDrift
  <2>2. PICK k \in EffectiveKeys(Named(a, name)) \cap EffectiveKeys(Named(b, name)) :
           /\ \/ ValuesAt(Named(b, name), k) # ValuesAt(Named(a, name), k)
              \/ Cardinality(ValuesAt(Named(b, name), k)) # 1
           /\ e = [status |-> "changed", name |-> name, key |-> k]
    BY <2>1
  <2>3. k \in keys(name)
    OBVIOUS
  <2>4. e = entry(name, k) /\ e.status = "changed"
    BY <1>4, <2>2, <2>3
  <2>5. name \in NamesIn(b) \cap NamesIn(a)
    OBVIOUS
  <2> HIDE DEF entry, keys
  <2> QED BY <1>3, <2>3, <2>4, <2>5
<1> QED BY <1>5, <1>6

\* Of a GPO that kept its name the golden comparison changes what the settings
\* diff modifies, where both are in force.
LEMMA PairAgrees ==
    ASSUME NEW a, IsEstate(a), Unambiguous(a), NEW b, IsEstate(b), Unambiguous(b), NEW id \in Common(a, b),
           a.gpos[id].name = b.gpos[id].name, SoleName(a, id), SoleName(b, id)
    PROVE  {e.key : e \in {x \in GoldenDiff(b, a) : x.status = "changed" /\ x.name = a.gpos[id].name}} =
           {<<r.key[2], r.key[1], r.key[3]>> :
               r \in {x \in SnapshotSettingsDiff(a, b) : /\ x.gpo = id /\ x.change = "modified"
                                                         /\ EffectiveIn(a, id, x.key) /\ EffectiveIn(b, id, x.key)}}
<1> DEFINE ga == a.gpos[id]
           gb == b.gpos[id]
           n == ga.name
           changed == {x \in GoldenDiff(b, a) : x.status = "changed" /\ x.name = n}
           modified == {x \in SnapshotSettingsDiff(a, b) : /\ x.gpo = id /\ x.change = "modified"
                                                           /\ EffectiveIn(a, id, x.key) /\ EffectiveIn(b, id, x.key)}
           goldenKey(key) == <<key[2], key[1], key[3]>>
<1>1. id \in GpoIds(a) /\ id \in GpoIds(b)
  BY DEF Common
<1>2. Named(a, n) = ga /\ Named(b, n) = gb /\ n \in NamesIn(a) \cap NamesIn(b)
  <2>1. Named(a, n) = ga /\ n \in NamesIn(a)
    BY <1>1, NameFound
  <2>2. Named(b, gb.name) = gb /\ gb.name \in NamesIn(b)
    BY <1>1, NameFound
  <2> QED BY <2>1, <2>2
<1>3. \A s : goldenKey(Key(s)) = BaselineKey(s)
  BY DEF Key, BaselineKey
<1>4. ASSUME NEW est, IsEstate(est), Unambiguous(est), id \in GpoIds(est)
      PROVE  /\ \A key : EffectiveIn(est, id, key) <=> \E s \in EffectiveSettings(est.gpos[id]) : Key(s) = key
             /\ \A s \in EffectiveSettings(est.gpos[id]) :
                   /\ <<id, Key(s)>> \in KeyedRows(est) /\ RowValue(est, <<id, Key(s)>>) = s.value
                   /\ ValuesAt(est.gpos[id], BaselineKey(s)) = {s.value}
  <2>1. \A s : s \in EffectiveSettings(est.gpos[id]) <=> s \in SettingsOf(est.gpos[id]) /\ Effective(s)
    BY DEF EffectiveSettings
  <2>2. \A key : EffectiveIn(est, id, key) <=> \E s \in EffectiveSettings(est.gpos[id]) : Key(s) = key
    BY <2>1 DEF EffectiveIn
  <2>3. ASSUME NEW s \in EffectiveSettings(est.gpos[id])
        PROVE  /\ <<id, Key(s)>> \in KeyedRows(est) /\ RowValue(est, <<id, Key(s)>>) = s.value
               /\ ValuesAt(est.gpos[id], BaselineKey(s)) = {s.value}
    <3>1. <<id, Key(s)>> \in KeyedRows(est)
      BY <1>4, <2>1, KeysRead
    <3>2. RowValue(est, <<id, Key(s)>>) = s.value
      BY <1>4, <2>1, RowRead
    <3>3. ValuesAt(est.gpos[id], BaselineKey(s)) = {s.value}
      BY <1>4, InForce
    <3> QED BY <3>1, <3>2, <3>3
  <2> QED BY <2>2, <2>3
<1>5. \A v : Cardinality({v}) = 1
  BY FS_Singleton
<1> DEFINE Sa == EffectiveSettings(ga)
           Sb == EffectiveSettings(gb)
<1>6. /\ \A key : EffectiveIn(a, id, key) <=> \E s \in Sa : Key(s) = key
      /\ \A s \in Sa : /\ <<id, Key(s)>> \in KeyedRows(a) /\ RowValue(a, <<id, Key(s)>>) = s.value
                       /\ ValuesAt(ga, BaselineKey(s)) = {s.value}
  BY <1>1, <1>4
<1>7. /\ \A key : EffectiveIn(b, id, key) <=> \E s \in Sb : Key(s) = key
      /\ \A s \in Sb : /\ <<id, Key(s)>> \in KeyedRows(b) /\ RowValue(b, <<id, Key(s)>>) = s.value
                       /\ ValuesAt(gb, BaselineKey(s)) = {s.value}
  BY <1>1, <1>4
<1>8. /\ \A k : k \in EffectiveKeys(ga) <=> \E s \in Sa : BaselineKey(s) = k
      /\ \A k : k \in EffectiveKeys(gb) <=> \E s \in Sb : BaselineKey(s) = k
  BY DEF EffectiveKeys
<1>9. \A s, t : BaselineKey(s) = BaselineKey(t) <=> Key(s) = Key(t)
  BY DEF BaselineKey, Key
<1> HIDE DEF ga, gb, Sa, Sb, goldenKey, n
<1>10. ASSUME NEW e \in changed
       PROVE  \E r \in modified : e.key = goldenKey(r.key)
  <2>1. IsDrift(e, a, b) /\ e.name = n
    BY GoldenChanged
  <2>2. PICK name \in NamesIn(a) \cap NamesIn(b) :
           \E k \in EffectiveKeys(Named(a, name)) \cap EffectiveKeys(Named(b, name)) :
              /\ \/ ValuesAt(Named(b, name), k) # ValuesAt(Named(a, name), k)
                 \/ Cardinality(ValuesAt(Named(b, name), k)) # 1
              /\ e = [status |-> "changed", name |-> name, key |-> k]
    BY <2>1 DEF IsDrift
  <2>3. name = n
    BY <2>1, <2>2
  <2>4. PICK k \in EffectiveKeys(ga) \cap EffectiveKeys(gb) :
           /\ ValuesAt(gb, k) # ValuesAt(ga, k) \/ Cardinality(ValuesAt(gb, k)) # 1
           /\ e = [status |-> "changed", name |-> name, key |-> k]
    BY <1>2, <2>2, <2>3
  <2>5. PICK s \in Sa, t \in Sb : BaselineKey(s) = k /\ BaselineKey(t) = k
    BY <1>8
  <2>6. s.value # t.value
    <3>1. ValuesAt(ga, k) = {s.value} /\ ValuesAt(gb, k) = {t.value}
      BY <1>6, <1>7, <2>5
    <3> QED BY <1>5, <2>4, <3>1
  <2>7. Key(s) = Key(t)
    BY <1>9, <2>5
  <2> DEFINE key == Key(s)
             x == <<id, key>>
             r == RowOf(x, "modified")
  <2>8. x \in KeyedRows(a) /\ x \in KeyedRows(b) /\ RowValue(a, x) # RowValue(b, x)
    <3>1. x \in KeyedRows(a) /\ RowValue(a, x) = s.value
      BY <1>6
    <3>2. x \in KeyedRows(b) /\ RowValue(b, x) = t.value
      BY <1>7, <2>7
    <3> QED BY <2>6, <3>1, <3>2
  <2>9. EffectiveIn(a, id, key) /\ EffectiveIn(b, id, key)
    BY <1>6, <1>7, <2>7
  <2> HIDE DEF key
  <2>10. IsChange(r, a, b)
    BY <2>8 DEF IsChange, ChangeOf
  <2>11. r.gpo = id /\ r.change = "modified" /\ r.key = key
    BY DEF RowOf
  <2> HIDE DEF r
  <2>12. r \in modified
    BY <2>9, <2>10, <2>11, DiffRows
  <2>13. e.key = goldenKey(r.key)
    BY <1>3, <2>4, <2>5, <2>11 DEF key
  <2> QED BY <2>12, <2>13
<1>11. ASSUME NEW r \in modified
       PROVE  \E e \in changed : e.key = goldenKey(r.key)
  <2>1. /\ IsChange(r, a, b) /\ r.gpo = id /\ r.change = "modified"
        /\ EffectiveIn(a, id, r.key) /\ EffectiveIn(b, id, r.key)
    BY DiffRows
  <2>2. PICK s \in Sa : Key(s) = r.key
    BY <1>6, <2>1
  <2>3. PICK t \in Sb : Key(t) = r.key
    BY <1>7, <2>1
  <2>4. PICK k \in KeyedRows(a) \cup KeyedRows(b) :
           ChangeOf(a, b, k) # "same" /\ r = RowOf(k, ChangeOf(a, b, k))
    BY <2>1 DEF IsChange
  <2>5. k = <<id, r.key>>
    <3>1. k[1] = id /\ k[2] = r.key
      BY <2>1, <2>4 DEF RowOf
    <3>2. k = <<k[1], k[2]>>
      BY <2>4, KeysRead
    <3> QED BY <3>1, <3>2
  <2>6. ChangeOf(a, b, k) = "modified"
    BY <2>1, <2>4 DEF RowOf
  <2>7. s.value # t.value
    <3>1. RowValue(a, k) # RowValue(b, k)
      BY <2>6 DEF ChangeOf
    <3> QED BY <1>6, <1>7, <2>2, <2>3, <2>5, <3>1
  <2> DEFINE g == BaselineKey(s)
             e == [status |-> "changed", name |-> n, key |-> g]
  <2>8. g = BaselineKey(t) /\ g = goldenKey(r.key)
    BY <1>3, <1>9, <2>2, <2>3
  <2>9. ValuesAt(gb, g) # ValuesAt(ga, g)
    <3>1. ValuesAt(ga, g) = {s.value} /\ ValuesAt(gb, g) = {t.value}
      BY <1>6, <1>7, <2>8
    <3> QED BY <2>7, <3>1
  <2>10. g \in EffectiveKeys(ga) \cap EffectiveKeys(gb)
    BY <1>8, <2>8
  <2> HIDE DEF g
  <2>11. IsDrift(e, a, b)
    BY <1>2, <2>9, <2>10 DEF IsDrift
  <2>12. e \in changed /\ e.key = g
    BY <2>11, GoldenChanged
  <2> QED BY <2>8, <2>12
<1> HIDE DEF changed, modified
<1>12. {e.key : e \in changed} = {goldenKey(r.key) : r \in modified}
  <2>1. \A e \in changed : \E r \in modified : e.key = goldenKey(r.key)
    BY <1>10
  <2>2. \A r \in modified : \E e \in changed : e.key = goldenKey(r.key)
    BY <1>11
  <2> QED BY <2>1, <2>2
<1> QED BY <1>12 DEF changed, modified, goldenKey, n, ga

\* An estate that meets another as its baseline changes none of its settings.
LEMMA CompliantKeeps ==
    ASSUME NEW a, Unambiguous(a), NEW b, Unambiguous(b),
           \A e \in BaselineDiff(b, LoadBaseline(a)) : e.status = "compliant"
    PROVE  GoldenSummary(GoldenDiff(b, a)).changed = 0
<1> DEFINE changed == {e \in GoldenDiff(b, a) : e.status = "changed"}
           base == LoadBaseline(a)
           values(k) == {x[2] : x \in ActualsOf(b, k)}
           status(e) == CASE values(e.key) = {} -> "missing" [] values(e.key) = {e.value} -> "compliant"
                          [] OTHER -> "drift"
<1>1. \A e \in base : status(e) = "compliant"
  <2>1. {[status |-> status(e), key |-> e.key, expected |-> e.value, actual |-> ActualsOf(b, e.key)] : e \in base}
           \subseteq BaselineDiff(b, base)
    BY DEF BaselineDiff
  <2> HIDE DEF status, base
  <2>2. ASSUME NEW e \in base
        PROVE  [status |-> status(e), key |-> e.key, expected |-> e.value, actual |-> ActualsOf(b, e.key)]
                  \in BaselineDiff(b, base)
    BY <2>1
  <2> QED BY <2>2 DEF base
<1>2. \A e \in base : values(e.key) = {e.value}
  BY <1>1
<1>3. ASSUME NEW id \in GpoIds(a), NEW s \in EffectiveSettings(a.gpos[id])
      PROVE  [key |-> BaselineKey(s), value |-> s.value] \in base
  BY DEF LoadBaseline, GposOf
<1>4. ASSUME NEW id \in GpoIds(b), NEW t \in EffectiveSettings(b.gpos[id])
      PROVE  t.value \in values(BaselineKey(t))
  <2>1. <<b.gpos[id].id, t.value>> \in ActualsOf(b, BaselineKey(t))
    BY DEF ActualsOf, GposOf
  <2>2. <<b.gpos[id].id, t.value>>[2] = t.value
    OBVIOUS
  <2> QED BY <2>1, <2>2
<1> HIDE DEF base, values, status
<1>5. ASSUME NEW e \in changed
      PROVE  FALSE
  <2>1. IsDrift(e, a, b)
    BY GoldenChanged
  <2>2. PICK name \in NamesIn(a) \cap NamesIn(b) :
           \E k \in EffectiveKeys(Named(a, name)) \cap EffectiveKeys(Named(b, name)) :
              \/ ValuesAt(Named(b, name), k) # ValuesAt(Named(a, name), k)
              \/ Cardinality(ValuesAt(Named(b, name), k)) # 1
    BY <2>1 DEF IsDrift
  <2>3. PICK k \in EffectiveKeys(Named(a, name)) \cap EffectiveKeys(Named(b, name)) :
           \/ ValuesAt(Named(b, name), k) # ValuesAt(Named(a, name), k)
           \/ Cardinality(ValuesAt(Named(b, name), k)) # 1
    BY <2>2
  <2>4. PICK i \in GpoIds(a) : Named(a, name) = a.gpos[i]
    <3>1. \E id \in GpoIds(a) : a.gpos[id].name = name
      BY DEF NamesIn, GposOf
    <3> QED BY <3>1, NameFound
  <2>5. PICK j \in GpoIds(b) : Named(b, name) = b.gpos[j]
    <3>1. \E id \in GpoIds(b) : b.gpos[id].name = name
      BY DEF NamesIn, GposOf
    <3> QED BY <3>1, NameFound
  <2>6. PICK s \in EffectiveSettings(a.gpos[i]) : BaselineKey(s) = k
    BY <2>3, <2>4 DEF EffectiveKeys
  <2>7. PICK t \in EffectiveSettings(b.gpos[j]) : BaselineKey(t) = k
    BY <2>3, <2>5 DEF EffectiveKeys
  <2>8. ValuesAt(a.gpos[i], k) = {s.value} /\ ValuesAt(b.gpos[j], k) = {t.value}
    BY <2>6, <2>7, InForce
  <2>9. s.value # t.value
    <3>1. Cardinality({t.value}) = 1
      BY FS_Singleton
    <3> QED BY <2>3, <2>4, <2>5, <2>8, <3>1
  <2>10. values(k) = {s.value}
    <3> DEFINE e0 == [key |-> BaselineKey(s), value |-> s.value]
    <3>1. e0 \in base /\ e0.key = k /\ e0.value = s.value
      BY <1>3, <2>6
    <3> HIDE DEF e0
    <3> QED BY <1>2, <3>1
  <2>11. t.value \in values(k)
    BY <1>4, <2>7
  <2> QED BY <2>9, <2>10, <2>11
<1>6. changed = {}
  BY <1>5
<1>7. GoldenSummary(GoldenDiff(b, a)).changed = Cardinality(changed)
  BY DEF GoldenSummary
<1> HIDE DEF changed
<1> QED BY <1>6, <1>7, FS_EmptySet

\* A list of two points keeps only the first when the second repeats it.
LEMMA TwoPoints ==
    ASSUME NEW p, NEW q, Len(ChangesOnly(<<p, q>>)) = 1
    PROVE  p = q
<1> DEFINE points == <<p, q>>
           keep == {i \in DOMAIN points : i = 1 \/ points[i] # points[i - 1]}
           kept == Kept(points, keep)
<1>1. IsSequence(points) /\ DOMAIN points = {1, 2} /\ points[1] = p /\ points[2] = q
  <2>1. points \in Seq({p, q})
    OBVIOUS
  <2>2. points = [i \in 1..2 |-> points[i]]
    OBVIOUS
  <2>3. 1..2 = {1, 2}
    OBVIOUS
  <2>4. IsSequence(points)
    BY <2>2, IsList
  <2> QED BY <2>3, <2>4
<1>2. Len(kept) = 1
  BY DEF ChangesOnly
<1> HIDE DEF points, keep
<1>3. IsSequence(kept) /\ \E pick : IsPick(pick, kept, points, keep)
  <2>1. keep \subseteq DOMAIN points
    BY DEF keep
  <2> QED BY <1>1, <2>1, KeptShape
<1> HIDE DEF kept
<1>4. PICK pick : IsPick(pick, kept, points, keep)
  BY <1>3
<1>5. DOMAIN kept = {1}
  <2>1. DOMAIN kept = 1..1
    BY <1>2, <1>3, ListShape
  <2> QED BY <2>1
<1>6. ASSUME p # q
      PROVE  FALSE
  <2>1. 1 \in keep /\ 2 \in keep
    BY <1>1, <1>6 DEF keep
  <2>2. /\ 1 \in DOMAIN points \cap keep /\ 2 \in DOMAIN points \cap keep
        /\ \A i \in DOMAIN points \cap keep : \E k \in DOMAIN kept : pick[k] = i
    BY <1>1, <1>4, <2>1 DEF IsPick
  <2>3. pick[1] = 1 /\ pick[1] = 2
    BY <1>5, <2>2
  <2> QED BY <2>3
<1> QED BY <1>6

\* Two finite sets of one size lose to each other equally many.
LEMMA SameLoss ==
    ASSUME NEW A, IsFiniteSet(A), NEW B, IsFiniteSet(B), Cardinality(A) = Cardinality(B)
    PROVE  Cardinality(B \ A) = Cardinality(A \ B)
<1>1. /\ Cardinality(A \ B) = Cardinality(A) - Cardinality(A \cap B)
      /\ Cardinality(B \ A) = Cardinality(B) - Cardinality(B \cap A)
  BY FS_Difference
<1>2. A \cap B = B \cap A
  OBVIOUS
<1> QED BY <1>1, <1>2

\* A trend point counts the GPOs.
LEMMA PointCounts ==
    ASSUME NEW est, NEW rules
    PROVE  TrendPoint(est, rules).gpos = Cardinality(GpoIds(est))
<1> DEFINE all == EstateSummary(est, DangerFindings(est, rules, Empty))
<1>1. all["gpos"] = Cardinality(GpoIds(est))
  BY DEF EstateSummary
<1> HIDE DEF all
<1> QED BY <1>1 DEF TrendPoint, all

\* The GPOs of a stored estate are finitely many.
LEMMA FewGpos ==
    ASSUME Provenance, NEW n \in DOMAIN snapshots
    PROVE  IsFiniteSet(GpoIds(snapshots[n].est))
<1> DEFINE coll == snapshots[n].coll
           gpos == LoadGpos(coll)
           ids == [i \in DOMAIN gpos |-> gpos[i].id]
<1>1. IsCollection(coll) /\ snapshots[n].est = LoadEstate(coll)
  BY PipelineAssumption DEF Provenance, Faithful
<1>2. /\ DOMAIN gpos = 1..Len(gpos) /\ Len(gpos) \in Nat
      /\ GpoIds(LoadEstate(coll)) = {gpos[i].id : i \in DOMAIN gpos}
  <2>1. DOMAIN gpos = 1..Len(gpos) /\ Len(gpos) \in Nat
    BY <1>1, GposLoaded
  <2>2. GpoIds(LoadEstate(coll)) = {gpos[i].id : i \in DOMAIN gpos}
    BY <1>1, EstateGpos
  <2> QED BY <2>1, <2>2
<1> HIDE DEF gpos
<1>3. IsSequence(ids) /\ Range(ids) = GpoIds(LoadEstate(coll))
  <2>1. IsSequence(ids)
    <3>1. ids = [i \in 1..Len(gpos) |-> ids[i]]
      BY <1>2
    <3> HIDE DEF ids
    <3> QED BY <1>2, <3>1, IsList
  <2>2. Range(ids) = {gpos[i].id : i \in DOMAIN gpos}
    BY DEF Range
  <2> QED BY <1>2, <2>1, <2>2
<1> HIDE DEF ids
<1> QED BY <1>1, <1>3, RangeFinite

\* The comparisons of two estates say the same.
LEMMA ComparisonsAgree ==
    ASSUME Provenance, Len(snapshots) = 2, Unambiguous(snapshots[1].est), Unambiguous(snapshots[2].est)
    PROVE  DiffsAgree
<1> DEFINE a == snapshots[1].est
           b == snapshots[2].est
           diff == SnapshotDiff(a, b)
           rows == SnapshotSettingsDiff(a, b)
           golden == GoldenDiff(b, a)
           paired == {id \in Common(a, b) : /\ a.gpos[id].name = b.gpos[id].name
                                            /\ SoleName(a, id) /\ SoleName(b, id)}
           goldenKey(key) == <<key[2], key[1], key[3]>>
           points == <<TrendPoint(a, Rules), TrendPoint(b, Rules)>>
<1>1. 1 \in DOMAIN snapshots /\ 2 \in DOMAIN snapshots
  BY ListShape DEF Provenance
<1>2. IsEstate(a) /\ IsEstate(b) /\ IsFiniteSet(GpoIds(a)) /\ IsFiniteSet(GpoIds(b))
  BY <1>1, Estates, FewGpos
<1> HIDE DEF a, b
<1>3. Unambiguous(a) /\ Unambiguous(b)
  BY DEF a, b
<1>4. /\ diff.settings = {id \in Common(a, b) : SettingRows(a.gpos[id]) # SettingRows(b.gpos[id])}
      /\ diff.added = GpoIds(b) \ GpoIds(a) /\ diff.removed = GpoIds(a) \ GpoIds(b)
  BY DEF SnapshotDiff, Differing
<1> HIDE DEF diff
<1>5. diff.settings = {r.gpo : r \in rows} \cap Common(a, b)
  <2>1. ASSUME NEW id \in Common(a, b)
        PROVE  id \in diff.settings <=> \E r \in rows : r.gpo = id
    BY <1>2, <1>3, <1>4, SettingsMoved
  <2>2. diff.settings \subseteq Common(a, b)
    BY <1>4
  <2> HIDE DEF rows
  <2> QED BY <2>1, <2>2
<1>6. \A e \in SnapshotChangelog(a, b) : e.kind = "settings_detail" => e.gpo \in diff.settings
  BY <1>2, <1>3, <1>4, ChangelogMoved
<1>7. SnapshotSettingsDiff(b, a) =
         {[r EXCEPT !.change = CASE @ = "added" -> "removed" [] @ = "removed" -> "added" [] OTHER -> @] : r \in rows}
  BY DiffReversed
<1>8. SettingsDiff(SettingsDump(a), SettingsDump(b)) = rows
  BY <1>2, <1>3, DumpsCompared
<1>9. \A id \in paired :
         {e.key : e \in {x \in golden : x.status = "changed" /\ x.name = a.gpos[id].name}} =
         {goldenKey(r.key) : r \in {x \in rows : /\ x.gpo = id /\ x.change = "modified"
                                                  /\ EffectiveIn(a, id, x.key) /\ EffectiveIn(b, id, x.key)}}
  BY <1>2, <1>3, PairAgrees
<1>10. (\A e \in BaselineDiff(b, LoadBaseline(a)) : e.status = "compliant") => GoldenSummary(golden).changed = 0
  BY <1>3, CompliantKeeps
<1>11. Len(ChangesOnly(points)) = 1 => Cardinality(diff.added) = Cardinality(diff.removed)
  <2>1. ASSUME Len(ChangesOnly(points)) = 1
        PROVE  Cardinality(GpoIds(a)) = Cardinality(GpoIds(b))
    <3>1. TrendPoint(a, Rules) = TrendPoint(b, Rules)
      BY <2>1, TwoPoints
    <3> QED BY <3>1, PointCounts
  <2> QED BY <1>2, <1>4, <2>1, SameLoss
<1> HIDE DEF rows, golden, paired, points, goldenKey
<1> QED BY <1>5, <1>6, <1>7, <1>8, <1>9, <1>10, <1>11 DEF DiffsAgree, a, b, diff, rows, golden,
     paired, points, goldenKey

\* Whatever is asked of two snapshots, the comparisons agree.
THEOREM ComparisonsSayTheSame == PipelineSpec => []DiffsAgree
<1>1. Provenance => DiffsAgree
  <2>1. ASSUME ~(Len(snapshots) = 2 /\ Unambiguous(snapshots[1].est) /\ Unambiguous(snapshots[2].est))
        PROVE  DiffsAgree
    BY <2>1 DEF DiffsAgree
  <2> QED BY <2>1, ComparisonsAgree
<1> QED BY <1>1, ImportInvariance, PTL

-----------------------------------------------------------------------------
(* Two readings of one estate: the same GPOs, with their settings in some  *)
(* order, and the same containers, with their links in some order.  What   *)
(* a report says of the GPOs and of the links is the same of both.         *)

(* Two records of one GPO: only the order of the settings may differ.      *)
SameGpo(g, h) ==
    /\ IsSequence(g.settings) /\ IsSequence(h.settings)
    /\ SettingsOf(g) = SettingsOf(h) /\ DOMAIN g.settings = DOMAIN h.settings
    /\ \A x \in GpoFields \ {"settings"} : g[x] = h[x]

(* Two readings of one chain: the same links, each with an order no other  *)
(* link of the chain has.                                                  *)
OneOrderEach(links) == \A i, j \in DOMAIN links : links[i].order = links[j].order => i = j
SameLinks(k, l) ==
    /\ IsChain(k) /\ IsChain(l) /\ Range(k) = Range(l) /\ OneOrderEach(k) /\ OneOrderEach(l)
SameSom(s, t) == IsSom(s) /\ IsSom(t) /\ s.path = t.path /\ s.kind = t.kind /\ SameLinks(s.links, t.links)

(* Two readings of one estate.                                             *)
Alike(a, b) ==
    /\ IsEstate(a) /\ IsEstate(b)
    /\ GpoIds(a) = GpoIds(b) /\ \A id \in GpoIds(a) : SameGpo(a.gpos[id], b.gpos[id])
    /\ a.wmiFilters = b.wmiFilters /\ a.principals = b.principals /\ a.groups = b.groups /\ a.gaps = b.gaps
    /\ \A s \in SomsOf(a) : \E t \in SomsOf(b) : SameSom(s, t)
    /\ \A t \in SomsOf(b) : \E s \in SomsOf(a) : SameSom(s, t)

\* Which of the two is read first does not matter.
LEMMA AlikeSymmetric ==
    ASSUME NEW a, NEW b, Alike(a, b)
    PROVE  Alike(b, a)
<1>1. \A g, h : SameGpo(g, h) => SameGpo(h, g)
  BY DEF SameGpo
<1>2. \A s, t : SameSom(s, t) => SameSom(t, s)
  BY DEF SameSom, SameLinks
<1> QED BY <1>1, <1>2 DEF Alike

\* The fields in which two records of one GPO agree.
LEMMA SameFields ==
    ASSUME NEW g, NEW h, SameGpo(g, h)
    PROVE  /\ g.id = h.id /\ g.name = h.name /\ g.sddl = h.sddl /\ g.delegation = h.delegation
           /\ g.computerEnabled = h.computerEnabled /\ g.userEnabled = h.userEnabled
           /\ g.versions = h.versions /\ g.wmi = h.wmi /\ g.links = h.links /\ g.attached = h.attached
           /\ g.ilt = h.ilt /\ g.cpassword = h.cpassword /\ g.localGroups = h.localGroups
           /\ g.paths = h.paths /\ g.tree = h.tree /\ SettingsOf(g) = SettingsOf(h)
BY DEF SameGpo, GpoFields

\* Every GPO of one reading is in the other.
LEMMA GposAlike ==
    ASSUME NEW a, NEW b, Alike(a, b), NEW g \in GposOf(a)
    PROVE  \E h \in GposOf(b) : SameGpo(g, h)
BY DEF Alike, GposOf

\* What the danger detectors find in one reading they find in the other.
LEMMA DangersWithin ==
    ASSUME NEW a, NEW b, Alike(a, b), NEW rules, NEW admx
    PROVE  DangerFindings(a, rules, admx) \subseteq DangerFindings(b, rules, admx)
<1>0. Alike(b, a)
  BY AlikeSymmetric
<1>1. GpoWritableByNonadmin(a) \subseteq GpoWritableByNonadmin(b)
  BY GposAlike, SameFields DEF GpoWritableByNonadmin
<1>2. LocalAdminPush(a) \subseteq LocalAdminPush(b)
  BY GposAlike, SameFields DEF LocalAdminPush
<1>3. OverbroadApplyGroupPolicy(a) \subseteq OverbroadApplyGroupPolicy(b)
  <2>1. ASSUME NEW g, NEW h, SameGpo(g, h)
        PROVE  Overbroad(g) = Overbroad(h)
    <3>1. g.sddl = h.sddl /\ g.delegation = h.delegation
      BY <2>1, SameFields
    <3> QED BY <3>1 DEF Overbroad
  <2> QED BY <2>1, GposAlike, SameFields DEF OverbroadApplyGroupPolicy
<1>4. EvaluateDangerRules(a, rules, admx) \subseteq EvaluateDangerRules(b, rules, admx)
  <2>1. \A g, h : SameGpo(g, h) => Evaluated(g) = Evaluated(h)
    BY SameFields DEF Evaluated
  <2> QED BY <1>0, <2>1, GposAlike, SameFields DEF EvaluateDangerRules
<1>5. AuditSubcategoryOverride(a) \subseteq AuditSubcategoryOverride(b)
  BY GposAlike, SameFields DEF AuditSubcategoryOverride
<1> QED BY <1>1, <1>2, <1>3, <1>4, <1>5 DEF DangerFindings

\* So with the access lists,
LEMMA AclAlike ==
    ASSUME NEW a, NEW b, Alike(a, b)
    PROVE  DenyAces(a) = DenyAces(b) /\ ExcessiveWriters(a) = ExcessiveWriters(b)
<1>0. Alike(b, a)
  BY AlikeSymmetric
<1>1. DenyAces(a) = DenyAces(b)
  <2>1. ASSUME NEW x, NEW y, Alike(x, y)
        PROVE  DenyAces(x) \subseteq DenyAces(y)
    <3> DEFINE denies(g) ==
                {<<g.id, CanonicalSddlSid(e.sid, FALSE), "dacl">> : e \in {z \in ParseSddl(g.sddl).dacl : IsDeny(z)}}
                \cup {<<g.id, CanonicalSddlSid(e.sid, FALSE), "sacl">> : e \in {z \in ParseSddl(g.sddl).sacl : IsDeny(z)}}
    <3>1. \A est : DenyAces(est) = UNION {denies(g) : g \in GposOf(est)}
      BY DEF DenyAces
    <3>2. \A g, h : g.id = h.id /\ g.sddl = h.sddl => denies(g) = denies(h)
      OBVIOUS
    <3> HIDE DEF denies
    <3> QED BY <2>1, <3>1, <3>2, GposAlike, SameFields
  <2> QED BY <1>0, <2>1
<1>2. ExcessiveWriters(a) = ExcessiveWriters(b)
  <2> DEFINE written(est, t) == {g.id : g \in {x \in GposOf(est) : t \in WritersOf(x)}}
  <2>1. \A g, h : SameGpo(g, h) => WritersOf(g) = WritersOf(h)
    BY SameFields DEF WritersOf
  <2>2. ASSUME NEW t
        PROVE  written(a, t) = written(b, t)
    BY <1>0, <2>1, GposAlike, SameFields
  <2>3. UNION {WritersOf(g) : g \in GposOf(a)} = UNION {WritersOf(g) : g \in GposOf(b)}
    BY <1>0, <2>1, GposAlike
  <2> DEFINE all(est) == UNION {WritersOf(g) : g \in GposOf(est)}
  <2>4. \A est : ExcessiveWriters(est) = {<<t, Cardinality(written(est, t))>> :
            t \in {x \in all(est) : ~IsDefaultWriterSid(x) /\ Cardinality(written(est, x)) >= WriterThreshold}}
    BY DEF ExcessiveWriters
  <2>5. all(a) = all(b)
    BY <2>3
  <2> HIDE DEF written, all
  <2> QED BY <2>2, <2>4, <2>5
<1> QED BY <1>1, <1>2

\* the links,
LEMMA LinksAlike ==
    ASSUME NEW a, NEW b, Alike(a, b)
    PROVE  AllLinks(a) = AllLinks(b) /\ DanglingLinks(a) = DanglingLinks(b)
           /\ EnforcedLinks(a) = EnforcedLinks(b)
<1>1. ASSUME NEW x, NEW y, Alike(x, y)
      PROVE  AllLinks(x) \subseteq AllLinks(y)
  <2> SUFFICES ASSUME NEW s \in SomsOf(x), NEW i \in DOMAIN s.links
               PROVE  <<s.path, s.links[i]>> \in AllLinks(y)
    BY DEF AllLinks
  <2>1. PICK t \in SomsOf(y) : SameSom(s, t)
    BY <1>1 DEF Alike
  <2>2. s.links[i] \in Range(t.links) /\ s.path = t.path
    BY <2>1 DEF SameSom, SameLinks, Range
  <2> QED BY <2>2 DEF AllLinks, Range
<1>2. AllLinks(a) = AllLinks(b)
  BY <1>1, AlikeSymmetric
<1> QED BY <1>2 DEF DanglingLinks, EnforcedLinks, Alike

\* the sites,
LEMMA SitesAlike ==
    ASSUME NEW a, NEW b, Alike(a, b)
    PROVE  SiteScopes(a) = SiteScopes(b)
<1>1. ASSUME NEW x, NEW y, Alike(x, y)
      PROVE  SiteScopes(x) \subseteq SiteScopes(y)
  <2> SUFFICES ASSUME NEW s \in SomsOf(x), s.kind = "site"
               PROVE  [site |-> s.path, links |-> {s.links[i] : i \in DOMAIN s.links}] \in SiteScopes(y)
    BY DEF SiteScopes
  <2>1. PICK t \in SomsOf(y) : SameSom(s, t)
    BY <1>1 DEF Alike
  <2>2. {s.links[i] : i \in DOMAIN s.links} = {t.links[i] : i \in DOMAIN t.links}
        /\ s.path = t.path /\ t.kind = "site"
    BY <2>1 DEF SameSom, SameLinks, Range
  <2> QED BY <2>2 DEF SiteScopes
<1> QED BY <1>1, AlikeSymmetric

\* and the health of each GPO.
LEMMA HygieneAlike ==
    ASSUME NEW a, NEW b, Alike(a, b)
    PROVE  /\ UnlinkedGpos(a) = UnlinkedGpos(b) /\ EmptyGpos(a) = EmptyGpos(b)
           /\ DisabledButPopulated(a) = DisabledButPopulated(b) /\ VersionSkew(a) = VersionSkew(b)
           /\ Ms16072Vulnerable(a) = Ms16072Vulnerable(b) /\ CpasswordGpos(a) = CpasswordGpos(b)
           /\ BlockedExtensions(a) = BlockedExtensions(b) /\ BrokenWmiRefs(a) = BrokenWmiRefs(b)
           /\ OrphanedWmiFilters(a) = OrphanedWmiFilters(b) /\ IltGpos(a) = IltGpos(b)
           /\ LoopbackAwareness(a) = LoopbackAwareness(b)
<1>0. Alike(b, a)
  BY AlikeSymmetric
<1>1. UnlinkedGpos(a) = UnlinkedGpos(b) /\ EmptyGpos(a) = EmptyGpos(b) /\ CpasswordGpos(a) = CpasswordGpos(b)
  BY <1>0, GposAlike, SameFields DEF UnlinkedGpos, EmptyGpos, CpasswordGpos
<1>2. DisabledButPopulated(a) = DisabledButPopulated(b)
  BY <1>0, GposAlike, SameFields DEF DisabledButPopulated, SideEnabled
<1>3. VersionSkew(a) = VersionSkew(b)
  BY <1>0, GposAlike, SameFields DEF VersionSkew
<1>4. Ms16072Vulnerable(a) = Ms16072Vulnerable(b)
  <2>1. \A g, h : SameGpo(g, h) => HasMs16072Read(g) = HasMs16072Read(h)
    BY SameFields DEF HasMs16072Read
  <2> QED BY <1>0, <2>1, GposAlike, SameFields DEF Ms16072Vulnerable
<1>5. BlockedExtensions(a) = BlockedExtensions(b)
  BY <1>0, GposAlike, SameFields DEF BlockedExtensions
<1>6. BrokenWmiRefs(a) = BrokenWmiRefs(b) /\ OrphanedWmiFilters(a) = OrphanedWmiFilters(b)
  <2>1. a.wmiFilters = b.wmiFilters
    BY DEF Alike
  <2>2. {g.wmi : g \in GposOf(a)} = {g.wmi : g \in GposOf(b)}
    BY <1>0, GposAlike, SameFields
  <2>3. BrokenWmiRefs(a) = BrokenWmiRefs(b)
    BY <1>0, <2>1, GposAlike, SameFields DEF BrokenWmiRefs, WmiScope
  <2> QED BY <2>1, <2>2, <2>3 DEF OrphanedWmiFilters
<1>7. IltGpos(a) = IltGpos(b)
  BY SameFields DEF IltGpos, Alike
<1>8. LoopbackAwareness(a) = LoopbackAwareness(b)
  <2>1. \A g : LoopbackModes(g) = {LoopbackModeOf(s.loop) : s \in SettingsOf(g)} \ {None}
    BY DEF LoopbackModes, SettingsOf
  <2>2. \A id \in GpoIds(a) : LoopbackModes(a.gpos[id]) = LoopbackModes(b.gpos[id])
    BY <2>1, SameFields DEF Alike
  <2>3. GpoIds(a) = GpoIds(b)
    BY DEF Alike
  <2> DEFINE known(est) == {i \in GpoIds(est) : LoopbackModes(est.gpos[i]) # {}}
             mode(modes) == IF Cardinality(modes) > 1 THEN "mixed" ELSE CHOOSE m \in modes : TRUE
  <2>4. \A est : LoopbackAwareness(est) = [id \in known(est) |-> mode(LoopbackModes(est.gpos[id]))]
    BY DEF LoopbackAwareness
  <2>5. known(a) = known(b) /\ known(a) \subseteq GpoIds(a)
    BY <2>2, <2>3
  <2> HIDE DEF known, mode
  <2>6. [id \in known(a) |-> mode(LoopbackModes(a.gpos[id]))] = [id \in known(b) |-> mode(LoopbackModes(b.gpos[id]))]
    BY <2>2, <2>5
  <2> QED BY <2>4, <2>6
<1> QED BY <1>1, <1>2, <1>3, <1>4, <1>5, <1>6, <1>7, <1>8

\* The queries: conflicts,
LEMMA QueriedAlike ==
    ASSUME NEW a, NEW b, Alike(a, b)
    PROVE  Conflicts(a) = Conflicts(b) /\ (\A term : Search(a, term) = Search(b, term))
<1>0. Alike(b, a)
  BY AlikeSymmetric
<1>1. Conflicts(a) = Conflicts(b)
  <2> DEFINE given(g, k) == {<<g.id, s.value>> : s \in {x \in SettingsOf(g) : Key(x) = k}}
             entries(est, k) == UNION {given(g, k) : g \in GposOf(est)}
             keys(est) == UNION {{Key(s) : s \in SettingsOf(g)} : g \in GposOf(est)}
             contested(es) == Cardinality({e[1] : e \in es}) > 1 /\ Cardinality({e[2] : e \in es}) > 1
  <2>1. \A est : Conflicts(est) =
            {[key |-> k, entries |-> entries(est, k)] : k \in {x \in keys(est) : contested(entries(est, x))}}
    BY DEF Conflicts
  <2>2. \A g, h, k : g.id = h.id /\ SettingsOf(g) = SettingsOf(h) => given(g, k) = given(h, k)
    OBVIOUS
  <2>3. keys(a) = keys(b)
    BY <1>0, GposAlike, SameFields
  <2>4. ASSUME NEW k
        PROVE  entries(a, k) = entries(b, k)
    <3> HIDE DEF given
    <3> QED BY <1>0, <2>2, GposAlike, SameFields
  <2> HIDE DEF entries, keys, contested
  <2> QED BY <2>1, <2>3, <2>4
<1>2. ASSUME NEW term
      PROVE  Search(a, term) = Search(b, term)
  <2> DEFINE hits(g) == (IF g.name = term THEN {<<"gpo_name", g.id>>} ELSE {})
                        \cup {<<"setting", g.id, Key(s)>> : s \in Matching(g, term)}
                        \cup {<<"delegation", g.id, d.who>> : d \in {x \in g.delegation : term \in {x.who, x.perm}}}
  <2>1. \A est : Search(est, term) = UNION {hits(g) : g \in GposOf(est)}
    BY DEF Search
  <2>2. ASSUME NEW g, NEW h, SameGpo(g, h)
        PROVE  hits(g) = hits(h)
    <3>1. g.name = h.name /\ g.id = h.id /\ g.delegation = h.delegation /\ Matching(g, term) = Matching(h, term)
      BY <2>2, SameFields DEF Matching
    <3> QED BY <3>1
  <2> HIDE DEF hits
  <2> QED BY <1>0, <2>1, <2>2, GposAlike
<1> QED BY <1>1, <1>2

\* delegation,
LEMMA DelegatedAlike ==
    ASSUME NEW a, NEW b, Alike(a, b)
    PROVE  /\ DelegationRollup(a) = DelegationRollup(b) /\ DelegationDeepDive(a) = DelegationDeepDive(b)
           /\ PermissionsAudit(a) = PermissionsAudit(b)
<1>0. Alike(b, a)
  BY AlikeSymmetric
<1>1. \A g, h : SameGpo(g, h) => Allowed(g) = Allowed(h)
  BY SameFields DEF Allowed
<1>2. DelegationRollup(a) = DelegationRollup(b)
  <2> DEFINE more(g) == {d \in Allowed(g) : ~IsReadOnly(d.perm)}
             key(d) == IF d.sid # Nobody THEN d.sid ELSE d.who
             held(est, k) == {g \in GposOf(est) : \E d \in more(g) : key(d) = k}
             names(est, k) == {g.name : g \in held(est, k)}
             given(g, k) == {x.perm : x \in {y \in more(g) : key(y) = k}}
             perms(est, k) == UNION {given(g, k) : g \in held(est, k)}
             row(est, d) == [key |-> key(d), gpos |-> names(est, key(d)), permissions |-> perms(est, key(d)),
                   unknown |-> IF d.sid = Nobody THEN d.label = "blank"
                               ELSE ResolvePrincipal(est.principals, d.sid).type = "Unresolved",
                   default |-> IF d.sid # Nobody THEN IsDefaultWriterSid(d.sid)
                               ELSE IsDefaultWriter(d.label)]
             all(est) == UNION {more(g) : g \in GposOf(est)}
  <2>1. \A est : DelegationRollup(est) = {row(est, d) : d \in all(est)}
    BY DEF DelegationRollup
  <2>2. ASSUME NEW g, NEW h, SameGpo(g, h)
        PROVE  more(g) = more(h) /\ g.name = h.name
    BY <1>1, <2>2, SameFields
  <2>3. ASSUME NEW g, NEW h, SameGpo(g, h), NEW k
        PROVE  given(g, k) = given(h, k)
    BY <2>2, <2>3
  <2> HIDE DEF more, key
  <2>4. all(a) = all(b)
    BY <1>0, <2>2, GposAlike
  <2>5. ASSUME NEW x, NEW y, Alike(x, y), NEW k
        PROVE  names(x, k) \subseteq names(y, k) /\ perms(x, k) \subseteq perms(y, k)
    <3>1. \A g \in held(x, k) : \E h \in held(y, k) : SameGpo(g, h)
      BY <2>2, <2>5, GposAlike
    <3> HIDE DEF held, given
    <3> QED BY <2>2, <2>3, <3>1
  <2>7. a.principals = b.principals
    BY DEF Alike
  <2> HIDE DEF all, names, perms
  <2>6. ASSUME NEW k
        PROVE  names(a, k) = names(b, k) /\ perms(a, k) = perms(b, k)
    BY <1>0, <2>5
  <2>8. ASSUME NEW d
        PROVE  row(a, d) = row(b, d)
    BY <2>6, <2>7
  <2> HIDE DEF row
  <2> QED BY <2>1, <2>4, <2>8
<1>3. DelegationDeepDive(a) = DelegationDeepDive(b)
  <2> DEFINE orphans(est) == UNION {{<<g.id, d.sid>> : d \in {x \in Allowed(g) : x.label = "blank" /\ x.sid # Nobody}}
                                     : g \in GposOf(est)}
             broad(est) == UNION {{<<g.id, d.sid>> : d \in {x \in Allowed(g) :
                                        x.perm \in {"edit", "write"} /\ ~IsDefaultWriter(x.label)}} : g \in GposOf(est)}
  <2>1. \A est : DelegationDeepDive(est) = [orphaned |-> orphans(est), broad |-> broad(est),
                                            denies |-> DenyAces(est), writers |-> ExcessiveWriters(est)]
    BY DEF DelegationDeepDive
  <2>2. ASSUME NEW x, NEW y, Alike(x, y)
        PROVE  orphans(x) \subseteq orphans(y) /\ broad(x) \subseteq broad(y)
    BY <1>1, <2>2, GposAlike, SameFields
  <2>3. orphans(a) = orphans(b) /\ broad(a) = broad(b)
    BY <1>0, <2>2
  <2> HIDE DEF orphans, broad
  <2> QED BY <2>1, <2>3, AclAlike
<1>4. PermissionsAudit(a) = PermissionsAudit(b)
  <2> DEFINE audit(g) == (IF HasMs16072Read(g) THEN {} ELSE {<<g.id, "ms16-072">>})
           \cup (IF Cardinality({d \in Allowed(g) : d.perm = "write"}) > 3 THEN {<<g.id, "writers">>} ELSE {})
           \cup (IF g.delegation = {} THEN {<<g.id, "no delegation">>} ELSE {})
  <2>1. \A est : PermissionsAudit(est) = UNION {audit(g) : g \in GposOf(est)}
    BY DEF PermissionsAudit
  <2>2. ASSUME NEW g, NEW h, SameGpo(g, h)
        PROVE  audit(g) = audit(h)
    <3>1. g.id = h.id /\ g.delegation = h.delegation
      BY <2>2, SameFields
    <3>2. HasMs16072Read(g) = HasMs16072Read(h) /\ Allowed(g) = Allowed(h)
      BY <3>1 DEF HasMs16072Read, Allowed
    <3> QED BY <3>1, <3>2
  <2> DEFINE all(est) == UNION {audit(g) : g \in GposOf(est)}
  <2> HIDE DEF audit
  <2>3. ASSUME NEW x, NEW y, Alike(x, y)
        PROVE  all(x) \subseteq all(y)
    BY <2>2, <2>3, GposAlike
  <2>4. all(a) = all(b)
    BY <1>0, <2>3
  <2> QED BY <2>1, <2>4
<1> QED BY <1>2, <1>3, <1>4

\* and templates.
LEMMA CoveredAlike ==
    ASSUME NEW a, NEW b, Alike(a, b), NEW admx
    PROVE  AdmxGaps(a, admx) = AdmxGaps(b, admx) /\ AdmxCoverage(a, admx) = AdmxCoverage(b, admx)
<1>0. Alike(b, a)
  BY AlikeSymmetric
<1>1. \A g, h : SameGpo(g, h) => RegistrySettings(g) = RegistrySettings(h)
  BY SameFields DEF RegistrySettings
<1>2. ASSUME NEW x, NEW y, Alike(x, y)
      PROVE  AdmxGaps(x, admx) \subseteq AdmxGaps(y, admx)
  BY <1>1, <1>2, GposAlike, SameFields DEF AdmxGaps
<1>3. AdmxGaps(a, admx) = AdmxGaps(b, admx)
  BY <1>0, <1>2
<1> DEFINE hit(p, s) == /\ s.side \in SidesOf(p.scope) /\ Parts(s.id)[1] = p.key
                        /\ p.value = None \/ Parts(s.id)[2] = p.value
           by(est, p) == {g.name : g \in {x \in GposOf(est) : \E s \in RegistrySettings(x) : hit(p, s)}}
<1>4. \A est : AdmxCoverage(est, admx) =
        [referenced |-> {<<p.name, by(est, p)>> : p \in {q \in Templates : by(est, q) # {}}},
         unreferenced |-> {p.name : p \in {q \in Templates : by(est, q) = {}}},
         gaps |-> AdmxGaps(est, admx)]
  BY DEF AdmxCoverage
<1> HIDE DEF hit
<1>5. ASSUME NEW p, NEW x, NEW y, Alike(x, y)
      PROVE  by(x, p) \subseteq by(y, p)
  BY <1>1, <1>5, GposAlike, SameFields
<1>6. \A p : by(a, p) = by(b, p)
  BY <1>0, <1>5
<1> HIDE DEF by
<1> QED BY <1>3, <1>4, <1>6

\* The reach of one GPO,
LEMMA ReachAlike ==
    ASSUME NEW a, NEW b, Alike(a, b)
    PROVE  {EffectiveScope(a, id) : id \in GpoIds(a)} = {EffectiveScope(b, id) : id \in GpoIds(b)}
<1>1. GpoIds(a) = GpoIds(b) /\ LoopbackAwareness(a) = LoopbackAwareness(b) /\ IltGpos(a) = IltGpos(b)
      /\ a.principals = b.principals /\ a.wmiFilters = b.wmiFilters
  BY HygieneAlike DEF Alike
<1>2. ASSUME NEW id \in GpoIds(a)
      PROVE  EffectiveScope(a, id) = EffectiveScope(b, id)
  <2> DEFINE g == a.gpos[id]
             h == b.gpos[id]
             modesA == LoopbackAwareness(a)
             modesB == LoopbackAwareness(b)
  <2>1. SameGpo(g, h)
    BY DEF Alike
  <2>2. g.delegation = h.delegation /\ g.sddl = h.sddl /\ g.wmi = h.wmi /\ g.links = h.links
    BY <2>1, SameFields
  <2> HIDE DEF g, h
  <2>3. SecurityFilteringDetail(a, g) = SecurityFilteringDetail(b, h)
    BY <1>1, <2>2 DEF SecurityFilteringDetail, IsSecurityFiltered
  <2>4. WmiScope(a, g) = WmiScope(b, h)
    BY <1>1, <2>2 DEF WmiScope
  <2>5. modesA = modesB
    BY <1>1
  <2> HIDE DEF modesA, modesB
  <2> DEFINE view(sec, wmi, modes, ilt, delegation, filter, links) ==
              [security |-> sec, wmi |-> wmi,
               loopback |-> IF id \in DOMAIN modes THEN modes[id] ELSE None,
               caveats |->
                 (IF delegation = {} THEN {"no delegation"}
                    ELSE IF sec.filtered THEN {"filtered"}
                    ELSE IF sec.auRead \/ sec.dcRead THEN {} ELSE {"ms16-072"})
                 \cup (IF filter # None THEN {"wmi"} ELSE {})
                 \cup (IF id \in DOMAIN modes THEN {"loopback"} ELSE {})
                 \cup (IF id \in ilt THEN {"ilt"} ELSE {})
                 \cup (IF links = {} THEN {"no links"} ELSE {})]
  <2>6. EffectiveScope(a, id) = view(SecurityFilteringDetail(a, g), WmiScope(a, g), modesA, IltGpos(a),
                                     g.delegation, g.wmi, g.links)
    BY DEF EffectiveScope, g, modesA
  <2>7. EffectiveScope(b, id) = view(SecurityFilteringDetail(b, h), WmiScope(b, h), modesB, IltGpos(b),
                                     h.delegation, h.wmi, h.links)
    BY DEF EffectiveScope, h, modesB
  <2> HIDE DEF view
  <2> QED BY <1>1, <2>2, <2>3, <2>4, <2>5, <2>6, <2>7
<1> QED BY <1>1, <1>2

-----------------------------------------------------------------------------
(* The paths a GPO names.                                                  *)

\* The references of a GPO: those of its preference files, in an order that is
\* a function of the set of them, and then one per setting that names a path.
NamesPath(s) == PathsIn(s.value) # NoPath /\ (PathsIn(s.value).prefix # "local" \/ DependencyType(s.cse) \in Commands)
RefOf(s) == [side |-> s.side, type |-> DependencyType(s.cse), target |-> PathsIn(s.value)]
NamedRefs(g) ==
    LET named == Kept(g.settings, {i \in DOMAIN g.settings : NamesPath(g.settings[i])})
    IN  [i \in DOMAIN named |-> RefOf(named[i])]
LEMMA NamedShape ==
    ASSUME NEW g, IsSequence(g.settings)
    PROVE  /\ PathReferences(g) = SetToSeq(g.paths) \o NamedRefs(g) /\ IsSequence(NamedRefs(g))
           /\ Range(NamedRefs(g)) = {RefOf(s) : s \in {x \in SettingsOf(g) : NamesPath(x)}}
<1> DEFINE keep == {i \in DOMAIN g.settings : NamesPath(g.settings[i])}
           named == Kept(g.settings, keep)
           refs == [i \in DOMAIN named |-> RefOf(named[i])]
<1>1. PathReferences(g) = SetToSeq(g.paths) \o refs
  BY DEF PathReferences, NamesPath, RefOf
<1>2. NamedRefs(g) = refs
  BY DEF NamedRefs
<1>3. IsSequence(named) /\ Range(named) = {g.settings[i] : i \in DOMAIN g.settings \cap keep}
  <2> HIDE DEF keep
  <2> QED BY KeptShape
<1>4. Range(named) = {x \in SettingsOf(g) : NamesPath(x)}
  BY <1>3 DEF SettingsOf
<1> HIDE DEF named
<1>5. IsSequence(refs) /\ DOMAIN refs = DOMAIN named
  BY <1>3, MappedShape
<1>6. Range(refs) = {RefOf(s) : s \in Range(named)}
  BY DEF Range
<1> HIDE DEF refs
<1> QED BY <1>1, <1>2, <1>4, <1>5, <1>6

\* The elements of a list that are bad and the first of their target.
Firsts(refs, bad) ==
    {refs[i] : i \in {k \in DOMAIN refs : /\ refs[k] \in bad
        /\ \A j \in DOMAIN refs : refs[j] \in bad /\ refs[j].target = refs[k].target => k =< j}}

\* They are the same when two lists begin alike and go on with the same
\* elements, of different targets.
LEMMA FirstsWithin ==
    ASSUME NEW p, IsSequence(p), NEW u, IsSequence(u), NEW v, IsSequence(v), Range(u) = Range(v),
           \A x, y \in Range(u) : x.target = y.target => x = y, NEW bad
    PROVE  Firsts(p \o u, bad) \subseteq Firsts(p \o v, bad)
<1> DEFINE c == p \o u
           d == p \o v
           n == Len(p)
<1>1. IsConcat(c, p, u) /\ IsConcat(d, p, v)
  BY ConcatShape
<1>2. n \in Nat /\ DOMAIN p = 1..n /\ Len(u) \in Nat /\ DOMAIN u = 1..Len(u) /\ Len(v) \in Nat /\ DOMAIN v = 1..Len(v)
  BY ListShape
<1> HIDE DEF c, d
<1>3. /\ DOMAIN c = 1..(n + Len(u)) /\ DOMAIN d = 1..(n + Len(v))
      /\ \A k \in 1..n : c[k] = p[k] /\ d[k] = p[k]
      /\ \A k \in DOMAIN c : k > n => c[k] \in Range(u)
      /\ \A k \in DOMAIN d : k > n => d[k] \in Range(u)
  <2>1. /\ DOMAIN c = 1..(n + Len(u)) /\ DOMAIN d = 1..(n + Len(v))
        /\ \A k \in 1..n : c[k] = p[k] /\ d[k] = p[k]
    BY <1>1, <1>2 DEF IsConcat
  <2>2. ASSUME NEW k \in DOMAIN c, k > n
        PROVE  c[k] \in Range(u)
    <3>1. k - n \in DOMAIN u /\ n + (k - n) = k
      BY <1>2, <2>1, <2>2
    <3>2. c[n + (k - n)] = u[k - n]
      BY <1>1, <3>1 DEF IsConcat
    <3> QED BY <3>1, <3>2 DEF Range
  <2>3. ASSUME NEW k \in DOMAIN d, k > n
        PROVE  d[k] \in Range(v)
    <3>1. k - n \in DOMAIN v /\ n + (k - n) = k
      BY <1>2, <2>1, <2>3
    <3>2. d[n + (k - n)] = v[k - n]
      BY <1>1, <3>1 DEF IsConcat
    <3> QED BY <3>1, <3>2 DEF Range
  <2> QED BY <2>1, <2>2, <2>3
<1>4. ASSUME NEW r \in Range(u)
      PROVE  \E k \in DOMAIN d : k > n /\ d[k] = r
  <2>1. PICK m \in DOMAIN v : v[m] = r
    BY DEF Range
  <2>2. d[n + m] = v[m] /\ n + m \in DOMAIN d /\ n + m > n
    BY <1>1, <1>2, <1>3, <2>1 DEF IsConcat
  <2> QED BY <2>1, <2>2
<1> SUFFICES ASSUME NEW i \in DOMAIN c, c[i] \in bad,
                    \A j \in DOMAIN c : c[j] \in bad /\ c[j].target = c[i].target => i =< j
             PROVE  \E k \in DOMAIN d : /\ d[k] = c[i] /\ d[k] \in bad
                        /\ \A j \in DOMAIN d : d[j] \in bad /\ d[j].target = d[k].target => k =< j
  BY DEF Firsts, c, d
<1>5. CASE i =< n
  <2>1. i \in 1..n /\ i \in DOMAIN d /\ d[i] = c[i]
    BY <1>2, <1>3, <1>5
  <2>2. ASSUME NEW j \in DOMAIN d, d[j] \in bad, d[j].target = c[i].target
        PROVE  i =< j
    <3>1. CASE j =< n
      <4>1. j \in DOMAIN c /\ c[j] = d[j]
        BY <1>2, <1>3, <3>1
      <4> QED BY <2>2, <4>1
    <3> QED BY <1>2, <1>3, <1>5, <2>2, <3>1
  <2> QED BY <2>1, <2>2
<1>6. CASE i > n
  <2>1. c[i] \in Range(u)
    BY <1>3, <1>6
  <2> DEFINE S == {k \in DOMAIN d : d[k] \in bad /\ d[k].target = c[i].target}
  <2>2. S \in SUBSET Nat /\ S # {}
    BY <1>2, <1>3, <1>4, <2>1
  <2>3. Min(S) \in S /\ \A j \in S : Min(S) =< j
    <3> HIDE DEF S
    <3> QED BY <2>2, MinOf
  <2>4. PICK m \in S : \A j \in S : m =< j
    BY <2>3
  <2>5. m > n
    <3> SUFFICES ASSUME m =< n
                 PROVE  FALSE
      BY <1>2, <1>3
    <3>1. m \in DOMAIN c /\ c[m] = d[m]
      BY <1>2, <1>3
    <3>2. i =< m
      BY <2>4, <3>1
    <3> QED BY <1>2, <1>3, <1>6, <3>2
  <2>6. d[m] = c[i]
    BY <1>3, <2>1, <2>4, <2>5
  <2> QED BY <2>4, <2>6
<1> QED BY <1>2, <1>3, <1>5, <1>6

\* One path per setting of a GPO that names one.
OneSettingPerPath(g) == \A s, t \in {x \in SettingsOf(g) : NamesPath(x)} :
    PathsIn(s.value) = PathsIn(t.value) => RefOf(s) = RefOf(t)
PathsClear(est) == \A id \in GpoIds(est) : IsFiniteSet(est.gpos[id].paths) /\ OneSettingPerPath(est.gpos[id])

\* Broken references and the servers GPOs depend on are those of either reading.
LEMMA PathsAlike ==
    ASSUME NEW a, NEW b, Alike(a, b), PathsClear(a)
    PROVE  BrokenRefs(a) = BrokenRefs(b) /\ ExternalDependencies(a) = ExternalDependencies(b)
<1> DEFINE Wrong(g, r) == MalformedPath(r.target) \/ MissingOwnReference(g, r)
           bad(g) == {r \in Range(PathReferences(g)) : Wrong(g, r)}
           broken(g) == {<<g.id, BrokenKind(r), r.target>> : r \in Firsts(PathReferences(g), bad(g))}
<1>0. Alike(b, a) /\ GpoIds(a) = GpoIds(b)
  BY AlikeSymmetric DEF Alike
<1>1. ASSUME NEW est
      PROVE  BrokenRefs(est) = UNION {broken(g) : g \in GposOf(est)}
  <2> DEFINE wrong(g) == LET refs == PathReferences(g)
                         IN {i \in DOMAIN refs : MalformedPath(refs[i].target) \/ MissingOwnReference(g, refs[i])}
             first(g) == LET refs == PathReferences(g)
                         IN {i \in wrong(g) : \A j \in wrong(g) : refs[j].target = refs[i].target => i <= j}
             found(g) == {<<g.id, BrokenKind(PathReferences(g)[i]), PathReferences(g)[i].target>> : i \in first(g)}
  <2>1. BrokenRefs(est) = UNION {found(g) : g \in GposOf(est)}
    BY DEF BrokenRefs
  <2>2. ASSUME NEW g
        PROVE  found(g) = broken(g)
    <3> DEFINE refs == PathReferences(g)
    <3>1. \A i \in DOMAIN refs : i \in wrong(g) <=> refs[i] \in bad(g)
      BY DEF Range
    <3>2. wrong(g) \subseteq DOMAIN refs
      OBVIOUS
    <3> HIDE DEF refs, wrong, bad
    <3>3. Firsts(refs, bad(g)) = {refs[i] : i \in first(g)}
      BY <3>1, <3>2 DEF Firsts, refs
    <3>4. found(g) = {<<g.id, BrokenKind(refs[i]), refs[i].target>> : i \in first(g)}
      BY DEF refs
    <3>5. broken(g) = {<<g.id, BrokenKind(r), r.target>> : r \in Firsts(refs, bad(g))}
      BY DEF refs
    <3> HIDE DEF found, broken, first
    <3> QED BY <3>3, <3>4, <3>5
  <2> HIDE DEF found, broken
  <2> QED BY <2>1, <2>2
<1>2. ASSUME NEW id \in GpoIds(a)
      PROVE  /\ broken(a.gpos[id]) = broken(b.gpos[id])
             /\ Range(PathReferences(a.gpos[id])) = Range(PathReferences(b.gpos[id]))
  <2> DEFINE g == a.gpos[id]
             h == b.gpos[id]
             p == SetToSeq(g.paths)
             u == NamedRefs(g)
             v == NamedRefs(h)
  <2>1. SameGpo(g, h)
    BY DEF Alike
  <2>2. IsFiniteSet(g.paths) /\ OneSettingPerPath(g)
    BY DEF PathsClear
  <2> HIDE DEF g, h
  <2>3. /\ g.id = h.id /\ g.paths = h.paths /\ SettingsOf(g) = SettingsOf(h)
        /\ g.attached = h.attached /\ g.tree = h.tree
        /\ IsSequence(g.settings) /\ IsSequence(h.settings)
    BY <2>1, SameFields DEF SameGpo
  <2>4. IsSequence(p)
    BY <2>2, SetListed
  <2>5. /\ PathReferences(g) = p \o u /\ PathReferences(h) = p \o v
        /\ IsSequence(u) /\ IsSequence(v) /\ Range(u) = Range(v)
        /\ Range(u) = {RefOf(s) : s \in {x \in SettingsOf(g) : NamesPath(x)}}
    BY <2>3, NamedShape
  <2>6. \A x, y \in Range(u) : x.target = y.target => x = y
    <3>1. \A s : RefOf(s).target = PathsIn(s.value)
      BY DEF RefOf
    <3> HIDE DEF u
    <3> QED BY <2>2, <2>5, <3>1 DEF OneSettingPerPath
  <2> HIDE DEF p, u, v
  <2>7. Range(p \o u) = Range(p \o v)
    <3>1. IsConcat(p \o u, p, u) /\ IsConcat(p \o v, p, v)
      BY <2>4, <2>5, ConcatShape
    <3> QED BY <2>5, <3>1 DEF IsConcat
  <2>8. bad(g) = bad(h)
    <3>1. \A r : MissingOwnReference(g, r) = MissingOwnReference(h, r)
      BY <2>3 DEF MissingOwnReference, OwnSysvol
    <3> QED BY <2>5, <2>7, <3>1
  <2> DEFINE wrong == bad(g)
  <2>9. Firsts(p \o u, wrong) = Firsts(p \o v, wrong)
    <3> HIDE DEF wrong
    <3>1. Firsts(p \o u, wrong) \subseteq Firsts(p \o v, wrong)
      BY <2>4, <2>5, <2>6, FirstsWithin
    <3>2. Firsts(p \o v, wrong) \subseteq Firsts(p \o u, wrong)
      BY <2>4, <2>5, <2>6, FirstsWithin
    <3> QED BY <3>1, <3>2
  <2>10. broken(g) = {<<g.id, BrokenKind(r), r.target>> : r \in Firsts(p \o u, wrong)}
    BY <2>5
  <2>11. broken(h) = {<<h.id, BrokenKind(r), r.target>> : r \in Firsts(p \o v, wrong)}
    BY <2>5, <2>8
  <2> HIDE DEF broken, wrong
  <2>12. broken(g) = broken(h) /\ Range(PathReferences(g)) = Range(PathReferences(h))
    BY <2>3, <2>5, <2>7, <2>9, <2>10, <2>11
  <2> QED BY <2>12 DEF g, h
<1>3. BrokenRefs(a) = BrokenRefs(b)
  <2> HIDE DEF broken
  <2> QED BY <1>0, <1>1, <1>2 DEF GposOf
<1>4. ExternalDependencies(a) = ExternalDependencies(b)
  <2> DEFINE to(g) == {[gpo |-> g.id, ref |-> r] : r \in ExternalOf(g)}
             all(est) == UNION {to(g) : g \in GposOf(est)}
             servers(ds) == {[server |-> host, refs |-> {d \in ds : d.ref.target.host = host}] :
                                host \in {d.ref.target.host : d \in ds}}
  <2>1. \A est : ExternalDependencies(est) = servers(all(est))
    BY DEF ExternalDependencies
  <2>2. ASSUME NEW id \in GpoIds(a)
        PROVE  to(a.gpos[id]) = to(b.gpos[id])
    <3>1. \A g : ExternalOf(g) = {r \in Range(PathReferences(g)) :
                        HasUncParts(r.target) /\ ~MalformedPath(r.target) /\ ~OwnSysvol(g, r.target)}
      BY DEF ExternalOf, Range
    <3>2. a.gpos[id].id = b.gpos[id].id
      BY SameFields DEF Alike
    <3>3. ExternalOf(a.gpos[id]) = ExternalOf(b.gpos[id])
      BY <1>2, <3>1, <3>2 DEF OwnSysvol
    <3> QED BY <3>2, <3>3
  <2> HIDE DEF to
  <2>3. all(a) = all(b)
    BY <1>0, <2>2 DEF GposOf
  <2> HIDE DEF all, servers
  <2> QED BY <2>1, <2>3
<1> QED BY <1>3, <1>4

-----------------------------------------------------------------------------
(* The doctor and the summary.                                             *)

\* As many containers that are not sites.
LEMMA SomsCounted ==
    ASSUME NEW a, NEW b, Alike(a, b)
    PROVE  Cardinality({i \in DOMAIN a.soms : a.soms[i].kind # "site"})
           = Cardinality({i \in DOMAIN b.soms : b.soms[i].kind # "site"})
<1> DEFINE I(est) == {i \in DOMAIN est.soms : est.soms[i].kind # "site"}
           P(est) == {s.path : s \in {x \in SomsOf(est) : x.kind # "site"}}
<1>1. ASSUME NEW est, IsEstate(est)
      PROVE  Cardinality(I(est)) = Cardinality(P(est))
  <2> DEFINE S == I(est)
             T == P(est)
             f == [i \in S |-> est.soms[i].path]
  <2>1. IsFiniteSet(S)
    <3>1. IsFiniteSet(DOMAIN est.soms)
      BY <1>1, RangeFinite DEF IsEstate
    <3> QED BY <3>1, FS_Subset
  <2>2. f \in [S -> T] /\ (\A t \in T : \E i \in S : f[i] = t)
    BY DEF SomsOf
  <2>3. \A i, j \in S : f[i] = f[j] => i = j
    BY <1>1 DEF IsEstate
  <2> HIDE DEF S, T, f
  <2>4. f \in Bijection(S, T)
    BY <2>2, <2>3 DEF Bijection, Injection, Surjection, IsInjective
  <2>5. Cardinality(S) = Cardinality(T)
    BY <2>1, <2>4, FS_Bijection DEF ExistsBijection
  <2> QED BY <2>5 DEF S, T
<1>2. ASSUME NEW x, NEW y, Alike(x, y)
      PROVE  P(x) \subseteq P(y)
  BY <1>2 DEF Alike, SameSom
<1>3. P(a) = P(b)
  BY <1>2, AlikeSymmetric
<1>4. IsEstate(a) /\ IsEstate(b)
  BY DEF Alike
<1> HIDE DEF I, P
<1>5. Cardinality(I(a)) = Cardinality(I(b))
  BY <1>1, <1>3, <1>4
<1> QED BY <1>5 DEF I

\* Every count of the summary is that of either reading.
LEMMA SummaryAlike ==
    ASSUME NEW a, NEW b, Alike(a, b), PathsClear(a), NEW dangers
    PROVE  EstateSummary(a, dangers) = EstateSummary(b, dangers)
<1> DEFINE total(f) == FoldFunction(+, 0, f)
           loops(est) == [id \in GpoIds(est) |-> Cardinality({s \in SettingsOf(est.gpos[id]) : s.loop # NoLoop})]
           sizes(est) == [id \in GpoIds(est) |-> Len(est.gpos[id].settings)]
           holders(est) == [id \in GpoIds(est) |-> Cardinality(est.gpos[id].delegation)]
           soms(est) == Cardinality({i \in DOMAIN est.soms : est.soms[i].kind # "site"})
           sites(est) == {sc \in SiteScopes(est) : \E l \in sc.links : l.enabled}
           filtered(est) == {id \in GpoIds(est) : est.gpos[id].wmi # None}
<1>1. GpoIds(a) = GpoIds(b) /\ a.gaps = b.gaps /\ a.wmiFilters = b.wmiFilters
  BY DEF Alike
<1>2. loops(a) = loops(b) /\ sizes(a) = sizes(b) /\ holders(a) = holders(b)
  <2>1. ASSUME NEW id \in GpoIds(a)
        PROVE  /\ SettingsOf(a.gpos[id]) = SettingsOf(b.gpos[id])
               /\ Len(a.gpos[id].settings) = Len(b.gpos[id].settings)
               /\ a.gpos[id].delegation = b.gpos[id].delegation
    <3>1. SameGpo(a.gpos[id], b.gpos[id])
      BY DEF Alike
    <3>2. Len(a.gpos[id].settings) = Len(b.gpos[id].settings)
      BY <3>1, ListShape DEF SameGpo
    <3> QED BY <3>1, <3>2, SameFields
  <2> QED BY <1>1, <2>1
<1>3. soms(a) = soms(b)
  BY SomsCounted
<1>4. sites(a) = sites(b)
  BY SitesAlike
<1>5. filtered(a) = filtered(b)
  BY SameFields DEF Alike
<1>6. ASSUME NEW est
      PROVE  EstateSummary(est, dangers) =
    [gpos |-> Cardinality(GpoIds(est)), soms |-> soms(est), linkedSites |-> Cardinality(sites(est)),
     gaps |-> Cardinality(est.gaps), wmiFilters |-> Cardinality(est.wmiFilters),
     unlinked |-> Cardinality(UnlinkedGpos(est)), empty |-> Cardinality(EmptyGpos(est)),
     disabledButPopulated |-> Cardinality(DisabledButPopulated(est)),
     conflicts |-> Cardinality(Conflicts(est)), blocked |-> Cardinality(BlockedExtensions(est)),
     skew |-> Cardinality(VersionSkew(est)), ms16072 |-> Cardinality(Ms16072Vulnerable(est)),
     cpassword |-> Cardinality(CpasswordGpos(est)), loopback |-> total(loops(est)),
     wmiFiltered |-> Cardinality(filtered(est)),
     enforced |-> Cardinality(EnforcedLinks(est)), dangling |-> Cardinality(DanglingLinks(est)),
     brokenRefs |-> Cardinality(BrokenRefs(est)), admxGaps |-> Cardinality(AdmxGaps(est, Empty)),
     brokenWmi |-> Cardinality(BrokenWmiRefs(est)), orphanedWmi |-> Cardinality(OrphanedWmiFilters(est)),
     ilt |-> Cardinality(IltGpos(est)), dangers |-> Cardinality(dangers),
     settings |-> total(sizes(est)), delegation |-> total(holders(est))]
  BY DEF EstateSummary, SumOver
<1> HIDE DEF total, loops, sizes, holders, soms, sites, filtered
<1>7. /\ DisabledButPopulated(a) = DisabledButPopulated(b) /\ VersionSkew(a) = VersionSkew(b)
      /\ UnlinkedGpos(a) = UnlinkedGpos(b) /\ EmptyGpos(a) = EmptyGpos(b)
      /\ Ms16072Vulnerable(a) = Ms16072Vulnerable(b) /\ CpasswordGpos(a) = CpasswordGpos(b)
      /\ BlockedExtensions(a) = BlockedExtensions(b) /\ BrokenWmiRefs(a) = BrokenWmiRefs(b)
      /\ OrphanedWmiFilters(a) = OrphanedWmiFilters(b) /\ IltGpos(a) = IltGpos(b)
  BY HygieneAlike
<1>8. /\ DanglingLinks(a) = DanglingLinks(b) /\ EnforcedLinks(a) = EnforcedLinks(b)
      /\ Conflicts(a) = Conflicts(b) /\ AdmxGaps(a, Empty) = AdmxGaps(b, Empty) /\ BrokenRefs(a) = BrokenRefs(b)
  BY LinksAlike, QueriedAlike, CoveredAlike, PathsAlike
<1> QED BY <1>1, <1>2, <1>3, <1>4, <1>5, <1>6, <1>7, <1>8

\* The trend of one snapshot,
LEMMA TrendAlike ==
    ASSUME NEW a, NEW b, Alike(a, b), PathsClear(a), NEW rules
    PROVE  TrendPoint(a, rules) = TrendPoint(b, rules)
<1> DEFINE da == DangerFindings(a, rules, Empty)
           db == DangerFindings(b, rules, Empty)
<1>1. da = db
  BY AlikeSymmetric, DangersWithin
<1> HIDE DEF da, db
<1>2. EstateSummary(a, da) = EstateSummary(b, db)
  BY <1>1, SummaryAlike
<1> QED BY <1>2 DEF TrendPoint, da, db

\* and the doctor's findings.
LEMMA DoctorAlike ==
    ASSUME NEW a, NEW b, Alike(a, b), PathsClear(a), NEW dangers, NEW admx
    PROVE  EstateDoctor(a, dangers, admx) = EstateDoctor(b, dangers, admx)
<1>1. CollectionFindings(a) = CollectionFindings(b)
  BY HygieneAlike DEF CollectionFindings, Alike
<1>2. GpoFindings(a, admx) = GpoFindings(b, admx)
  BY HygieneAlike, LinksAlike, CoveredAlike, PathsAlike DEF GpoFindings
<1>3. ReachFindings(a) = ReachFindings(b)
  BY HygieneAlike, LinksAlike, AclAlike DEF ReachFindings
<1> QED BY <1>1, <1>2, <1>3 DEF EstateDoctor

-----------------------------------------------------------------------------
(* Finding a container, and the chain it resolves to.                      *)

\* The empty chain is read alike, and of two readings neither is empty alone.
LEMMA EmptyLinks ==
    /\ SameSom(NoSom, NoSom)
    /\ \A k, l : SameLinks(k, l) => (k = <<>> <=> l = <<>>)
    /\ \A s, t : SameSom(s, t) => (s = NoSom <=> t = NoSom)
<1>1. SameSom(NoSom, NoSom)
  <2>1. IsSequence(<<>>) /\ DOMAIN <<>> = {} /\ Range(<<>>) = {}
    BY EmptyShape
  <2>2. NoSom.links = <<>> /\ NoSom = [x \in {"path", "kind", "links"} |-> NoSom[x]]
    BY DEF NoSom
  <2> QED BY <2>1, <2>2 DEF SameSom, SameLinks, IsSom, IsChain, OneOrderEach
<1>2. ASSUME NEW k, NEW l, SameLinks(k, l), k = <<>>
      PROVE  l = <<>>
  <2>1. IsSequence(l) /\ Range(l) = {}
    BY <1>2, EmptyShape DEF SameLinks, IsChain
  <2>2. DOMAIN l = {}
    BY <2>1 DEF Range
  <2> QED BY <2>1, <2>2, OnlyEmpty
<1>3. \A k, l : SameLinks(k, l) => SameLinks(l, k)
  BY DEF SameLinks
<1>4. \A k, l : SameLinks(k, l) => (k = <<>> <=> l = <<>>)
  BY <1>2, <1>3
<1>5. ASSUME NEW s, NEW t, SameSom(s, t), s = NoSom
      PROVE  t = NoSom
  <2>1. t.path = NoSom.path /\ t.kind = NoSom.kind /\ SameLinks(NoSom.links, t.links)
        /\ t = [x \in {"path", "kind", "links"} |-> t[x]]
    BY <1>5 DEF SameSom, IsSom
  <2>2. t.links = NoSom.links
    BY <1>4, <2>1 DEF NoSom
  <2> QED BY <2>1, <2>2 DEF NoSom
<1>6. \A s, t : SameSom(s, t) => SameSom(t, s)
  BY <1>3 DEF SameSom
<1> QED BY <1>1, <1>4, <1>5, <1>6

\* A container is found by its path, or there is none.
IsFound(som, est, path) ==
    IF \E s \in SomsOf(est) : s.path = path THEN som \in SomsOf(est) /\ som.path = path ELSE som = NoSom
LEMMA FoundOrNot ==
    ASSUME NEW est, IsEstate(est), NEW path
    PROVE  IsFound(FindSom(est, path), est, path)
<1>1. CASE \E s \in SomsOf(est) : s.path = path
  <2>1. PICK i \in DOMAIN est.soms : est.soms[i].path = path
    BY <1>1 DEF SomsOf
  <2>2. FindSom(est, path) = est.soms[i]
    BY <2>1, SomFound
  <2> QED BY <1>1, <2>1, <2>2 DEF IsFound, SomsOf
<1>2. CASE ~\E s \in SomsOf(est) : s.path = path
  <2>1. {i \in DOMAIN est.soms : est.soms[i].path = path} = {}
    BY <1>2 DEF SomsOf
  <2>2. FindSom(est, path) = NoSom
    BY <2>1 DEF FindSom, FirstOr
  <2> QED BY <1>2, <2>2 DEF IsFound
<1> QED BY <1>1, <1>2

\* No two containers of an estate have one path.
LEMMA OnePath ==
    ASSUME NEW est, IsEstate(est), NEW s \in SomsOf(est), NEW t \in SomsOf(est), s.path = t.path
    PROVE  s = t
BY DEF IsEstate, SomsOf

\* What is found in one reading is found in the other.
LEMMA FoundAlike ==
    ASSUME NEW a, NEW b, Alike(a, b), NEW path
    PROVE  SameSom(FindSom(a, path), FindSom(b, path))
<1> DEFINE s == FindSom(a, path)
           t == FindSom(b, path)
<1>1. IsFound(s, a, path) /\ IsFound(t, b, path) /\ IsEstate(a) /\ IsEstate(b)
  BY FoundOrNot DEF Alike
<1> HIDE DEF s, t
<1>2. (\E x \in SomsOf(a) : x.path = path) <=> (\E x \in SomsOf(b) : x.path = path)
  BY DEF Alike, SameSom
<1>3. CASE \E x \in SomsOf(a) : x.path = path
  <2>1. s \in SomsOf(a) /\ s.path = path /\ t \in SomsOf(b) /\ t.path = path
    BY <1>1, <1>2, <1>3 DEF IsFound
  <2>2. PICK u \in SomsOf(b) : SameSom(s, u)
    BY <2>1 DEF Alike
  <2>3. u = t
    BY <1>1, <2>1, <2>2, OnePath DEF SameSom
  <2> QED BY <2>2, <2>3 DEF s, t
<1>4. CASE ~\E x \in SomsOf(a) : x.path = path
  <2>1. s = NoSom /\ t = NoSom
    BY <1>1, <1>2, <1>4 DEF IsFound
  <2> QED BY <2>1, EmptyLinks DEF s, t
<1> QED BY <1>3, <1>4

\* The directory's containers by path, the last of each.
DirectorySom(est, path) ==
    LET last == Reverse(est.soms)
    IN  FirstOr(last, {i \in DOMAIN last : last[i].kind # "site" /\ last[i].path = path}, NoSom)
LEMMA DirectoryAlike ==
    ASSUME NEW a, NEW b, Alike(a, b), NEW path
    PROVE  SameSom(DirectorySom(a, path), DirectorySom(b, path))
<1> DEFINE Is(som, est) == IF \E s \in SomsOf(est) : s.kind # "site" /\ s.path = path
                           THEN som \in SomsOf(est) /\ som.kind # "site" /\ som.path = path ELSE som = NoSom
<1>1. ASSUME NEW est, IsEstate(est)
      PROVE  Is(DirectorySom(est, path), est)
  <2> DEFINE last == Reverse(est.soms)
             found == {i \in DOMAIN last : last[i].kind # "site" /\ last[i].path = path}
  <2>1. IsSequence(last) /\ Range(last) = SomsOf(est)
    <3>1. IsSequence(est.soms) /\ Range(est.soms) = SomsOf(est)
      BY <1>1 DEF IsEstate, SomsOf, Range
    <3> QED BY <3>1, ReverseShape
  <2>2. DirectorySom(est, path) = FirstOr(last, found, NoSom)
    BY DEF DirectorySom
  <2> HIDE DEF last
  <2>3. found # {} <=> \E s \in SomsOf(est) : s.kind # "site" /\ s.path = path
    BY <2>1 DEF Range
  <2>4. found # {} => \E i \in found : DirectorySom(est, path) = last[i]
    <3>1. found \in SUBSET DOMAIN last
      OBVIOUS
    <3> HIDE DEF found
    <3> QED BY <2>1, <2>2, <3>1, FirstShape
  <2>5. found = {} => DirectorySom(est, path) = NoSom
    BY <2>2 DEF FirstOr
  <2> QED BY <2>1, <2>3, <2>4, <2>5 DEF Range
<1> DEFINE s == DirectorySom(a, path)
           t == DirectorySom(b, path)
<1>2. Is(s, a) /\ Is(t, b) /\ IsEstate(a) /\ IsEstate(b)
  BY <1>1 DEF Alike
<1> HIDE DEF s, t
<1>3. (\E x \in SomsOf(a) : x.kind # "site" /\ x.path = path)
      <=> (\E x \in SomsOf(b) : x.kind # "site" /\ x.path = path)
  BY DEF Alike, SameSom
<1>4. CASE \E x \in SomsOf(a) : x.kind # "site" /\ x.path = path
  <2>1. s \in SomsOf(a) /\ s.path = path /\ t \in SomsOf(b) /\ t.path = path
    BY <1>2, <1>3, <1>4
  <2>2. PICK u \in SomsOf(b) : SameSom(s, u)
    BY <2>1 DEF Alike
  <2>3. u = t
    BY <1>2, <2>1, <2>2, OnePath DEF SameSom
  <2> QED BY <2>2, <2>3 DEF s, t
<1>5. CASE ~\E x \in SomsOf(a) : x.kind # "site" /\ x.path = path
  <2>1. s = NoSom /\ t = NoSom
    BY <1>2, <1>3, <1>5
  <2> QED BY <2>1, EmptyLinks DEF s, t
<1> QED BY <1>4, <1>5

\* A container's chain is that of either reading, its own or its parent's.
LEMMA EffectiveAlike ==
    ASSUME NEW a, NEW b, Alike(a, b), NEW path
    PROVE  SameLinks(SomEffectiveGpos(a, path), SomEffectiveGpos(b, path))
<1> DEFINE above == Ancestors(path, 1)
           listed(est) == {i \in DOMAIN above : DirectorySom(est, above[i]) # NoSom}
           up(est) == FirstOr(above, listed(est), <<>>)
<1>1. \A est : FindParentSom(est, path) = IF up(est) = <<>> THEN NoSom ELSE DirectorySom(est, up(est))
  BY DEF FindParentSom, DirectorySom
<1>2. listed(a) = listed(b)
  BY DirectoryAlike, EmptyLinks
<1>3. up(a) = up(b)
  BY <1>2
<1> HIDE DEF up
<1>4. SameSom(FindParentSom(a, path), FindParentSom(b, path))
  BY <1>1, <1>3, DirectoryAlike, EmptyLinks
<1>5. SameSom(FindSom(a, path), FindSom(b, path))
  BY FoundAlike
<1> DEFINE s(est) == IF FindSom(est, path) # NoSom THEN FindSom(est, path) ELSE FindParentSom(est, path)
<1>6. SameSom(s(a), s(b))
  BY <1>4, <1>5, EmptyLinks
<1>7. \A est : SomEffectiveGpos(est, path) = s(est).links
  BY DEF SomEffectiveGpos
<1> HIDE DEF s
<1> QED BY <1>6, <1>7 DEF SameSom

\* An estate of one domain.
DomainPaths(est) == {s.path : s \in {x \in SomsOf(est) : x.kind = "domain"}}

\* The container a DN leads to is that of either reading, when there is one
\* domain to fall back on.
LEMMA PathForAlike ==
    ASSUME NEW a, NEW b, Alike(a, b), NEW dn, Cardinality(DomainPaths(a)) = 1
    PROVE  SomPathFor(a, dn) = SomPathFor(b, dn)
<1> DEFINE searched(est) == Kept(est.soms, {i \in DOMAIN est.soms : est.soms[i].kind # "site"})
           paths(est) == {searched(est)[i].path : i \in DOMAIN searched(est)}
           from == Ancestors(dn, 0)
           up(ps) == FirstOr(from, {i \in DOMAIN from : from[i] \in ps}, <<>>)
           domains(est) == {i \in DOMAIN searched(est) : searched(est)[i].kind = "domain"}
           fallback(est) == FirstOr(searched(est), domains(est),
                                    IF searched(est) = <<>> THEN NoSom ELSE searched(est)[1])
<1>1. \A est : SomPathFor(est, dn) = IF up(paths(est)) # <<>> THEN up(paths(est)) ELSE fallback(est).path
  BY DEF SomPathFor
<1>2. ASSUME NEW est, IsEstate(est)
      PROVE  /\ IsSequence(searched(est))
             /\ Range(searched(est)) = {s \in SomsOf(est) : s.kind # "site"}
  <2> DEFINE keep == {i \in DOMAIN est.soms : est.soms[i].kind # "site"}
             kept == Kept(est.soms, keep)
  <2>1. IsSequence(est.soms)
    BY <1>2 DEF IsEstate
  <2>2. IsSequence(kept) /\ Range(kept) = {est.soms[i] : i \in DOMAIN est.soms \cap keep}
    <3> HIDE DEF keep
    <3> QED BY <2>1, KeptShape
  <2>3. {est.soms[i] : i \in DOMAIN est.soms \cap keep} = {s \in SomsOf(est) : s.kind # "site"}
    BY DEF SomsOf
  <2> QED BY <2>2, <2>3
<1> HIDE DEF searched
<1>3. \A est : IsEstate(est) => paths(est) = {s.path : s \in {x \in SomsOf(est) : x.kind # "site"}}
  BY <1>2 DEF Range
<1>4. ASSUME NEW x, NEW y, Alike(x, y)
      PROVE  paths(x) \subseteq paths(y) /\ DomainPaths(x) \subseteq DomainPaths(y)
  <2> HIDE DEF paths
  <2> QED BY <1>3, <1>4 DEF Alike, SameSom, DomainPaths
<1>5. paths(a) = paths(b) /\ DomainPaths(a) = DomainPaths(b) /\ IsEstate(a) /\ IsEstate(b)
  <2>1. Alike(b, a)
    BY AlikeSymmetric
  <2>2. IsEstate(a) /\ IsEstate(b)
    BY DEF Alike
  <2> HIDE DEF paths
  <2>3. paths(a) \subseteq paths(b) /\ DomainPaths(a) \subseteq DomainPaths(b)
    BY <1>4
  <2>4. paths(b) \subseteq paths(a) /\ DomainPaths(b) \subseteq DomainPaths(a)
    BY <1>4, <2>1
  <2> QED BY <2>2, <2>3, <2>4
<1>6. PICK p : DomainPaths(a) = {p}
  <2>1. IsFiniteSet(DomainPaths(a))
    <3> DEFINE I == {i \in DOMAIN a.soms : a.soms[i].kind = "domain"}
               f == [i \in I |-> a.soms[i].path]
    <3>1. IsFiniteSet(I)
      <4>1. IsFiniteSet(DOMAIN a.soms)
        BY <1>5, RangeFinite DEF IsEstate
      <4> QED BY <4>1, FS_Subset
    <3>2. f \in Surjection(I, DomainPaths(a))
      BY DEF Surjection, DomainPaths, SomsOf
    <3> HIDE DEF I, f
    <3> QED BY <3>1, <3>2, FS_Surjection
  <2> QED BY <2>1, FS_Singleton
<1>7. ASSUME NEW est, IsEstate(est), DomainPaths(est) = {p}
      PROVE  fallback(est).path = p
  <2> DEFINE list == searched(est)
             found == domains(est)
             default == IF list = <<>> THEN NoSom ELSE list[1]
  <2>1. IsSequence(list) /\ Range(list) = {s \in SomsOf(est) : s.kind # "site"}
    BY <1>2, <1>7
  <2>2. PICK s \in SomsOf(est) : s.kind = "domain"
    BY <1>7 DEF DomainPaths
  <2>3. found # {} /\ found \in SUBSET DOMAIN list
    BY <2>1, <2>2 DEF Range
  <2>4. \A i \in found : list[i].path = p
    BY <1>7, <2>1 DEF Range, DomainPaths
  <2> HIDE DEF list, found, default
  <2>5. \E i \in found : FirstOr(list, found, default) = list[i]
    BY <2>1, <2>3, FirstShape
  <2>6. fallback(est) = FirstOr(list, found, default)
    BY DEF list, found, default
  <2> HIDE DEF fallback
  <2> QED BY <2>4, <2>5, <2>6
<1>8. fallback(a).path = fallback(b).path
  BY <1>5, <1>6, <1>7
<1> HIDE DEF up, paths, fallback
<1> QED BY <1>1, <1>5, <1>8

\* Of a kept part the same holds as of the whole.
LEMMA KeptAlike ==
    ASSUME NEW k, NEW l, SameLinks(k, l), NEW p, NEW q,
           p \subseteq DOMAIN k, q \subseteq DOMAIN l,
           {k[i] : i \in p} = {l[i] : i \in q}
    PROVE  SameLinks(Kept(k, p), Kept(l, q))
<1>1. ASSUME NEW s, IsChain(s), OneOrderEach(s), NEW keep, keep \subseteq DOMAIN s
      PROVE  IsChain(Kept(s, keep)) /\ OneOrderEach(Kept(s, keep)) /\ Range(Kept(s, keep)) = {s[i] : i \in keep}
  <2> DEFINE t == Kept(s, keep)
  <2>1. IsSequence(s) /\ \A i \in DOMAIN s : s[i].order \in Nat
    BY <1>1 DEF IsChain
  <2>2. /\ IsSequence(t) /\ Range(t) = {s[i] : i \in DOMAIN s \cap keep}
        /\ \E at : IsPick(at, t, s, keep)
    BY <2>1, KeptShape
  <2> HIDE DEF t
  <2>3. PICK at : IsPick(at, t, s, keep)
    BY <2>2
  <2>4. \A i \in DOMAIN t : at[i] \in DOMAIN s /\ t[i] = s[at[i]]
    BY <2>3 DEF IsPick
  <2>5. ASSUME NEW i \in DOMAIN t, NEW j \in DOMAIN t, t[i].order = t[j].order
        PROVE  i = j
    <3>1. at[i] = at[j]
      BY <1>1, <2>4, <2>5 DEF OneOrderEach
    <3>2. i \in Nat /\ j \in Nat
      BY <2>2, ListShape
    <3>3. at[i] \in Nat /\ at[j] \in Nat
      BY <2>1, <2>4, ListShape
    <3>4. i < j => at[i] < at[j]
      BY <2>3 DEF IsPick
    <3>5. j < i => at[j] < at[i]
      BY <2>3 DEF IsPick
    <3> QED BY <3>1, <3>2, <3>3, <3>4, <3>5
  <2>6. Range(t) = {s[i] : i \in keep}
    BY <1>1, <2>2
  <2>7. IsChain(t) /\ OneOrderEach(t)
    BY <2>1, <2>2, <2>4, <2>5 DEF IsChain, OneOrderEach
  <2> QED BY <2>6, <2>7 DEF t
<1>2. IsChain(k) /\ OneOrderEach(k) /\ IsChain(l) /\ OneOrderEach(l)
  BY DEF SameLinks
<1> QED BY <1>1, <1>2 DEF SameLinks

\* The enabled links of a container.
LEMMA EnabledAlike ==
    ASSUME NEW a, NEW b, Alike(a, b), NEW path
    PROVE  SameLinks(SomChain(a, path), SomChain(b, path))
<1> DEFINE k == FindSom(a, path).links
           l == FindSom(b, path).links
           p == {i \in DOMAIN k : k[i].enabled}
           q == {i \in DOMAIN l : l[i].enabled}
<1>1. SameLinks(k, l)
  BY FoundAlike DEF SameSom
<1>2. SomChain(a, path) = Kept(k, p) /\ SomChain(b, path) = Kept(l, q)
  BY DEF SomChain
<1> HIDE DEF k, l
<1>3. {k[i] : i \in p} = {l[i] : i \in q}
  <2>1. Range(k) = Range(l)
    BY <1>1 DEF SameLinks
  <2> QED BY <2>1 DEF Range
<1>4. p \subseteq DOMAIN k /\ q \subseteq DOMAIN l
  OBVIOUS
<1> HIDE DEF p, q
<1> QED BY <1>1, <1>2, <1>3, <1>4, KeptAlike

\* Caveats and gates.
LEMMA CaveatsAlike ==
    ASSUME NEW a, NEW b, Alike(a, b), NEW path
    PROVE  ScopeCaveats(a, path) = ScopeCaveats(b, path)
<1> DEFINE ids(est) == {SomChain(est, path)[i].gpo : i \in DOMAIN SomChain(est, path)} \cap GpoIds(est)
           of(est, id) == {<<id, c>> : c \in
            (IF IsSecurityFiltered(est.gpos[id]) THEN {"filtered"} ELSE {})
            \cup (IF est.gpos[id].wmi # None THEN {"wmi"} ELSE {})
            \cup (IF id \in IltGpos(est) THEN {"ilt"} ELSE {})
            \cup (IF id \in DOMAIN LoopbackAwareness(est) THEN {"loopback"} ELSE {})}
           all(est) == UNION {of(est, id) : id \in ids(est)}
<1>1. ASSUME NEW est
      PROVE  ScopeCaveats(est, path) =
         IF SomChain(est, path) = <<>>
         THEN IF FindSom(est, path).links # <<>> THEN {<<None, "all links disabled">>} ELSE {}
         ELSE all(est) \cup (IF HasSiteLinks(est) THEN {<<None, "site links">>} ELSE {})
  BY DEF ScopeCaveats
<1>2. GpoIds(a) = GpoIds(b) /\ IltGpos(a) = IltGpos(b) /\ LoopbackAwareness(a) = LoopbackAwareness(b)
  BY HygieneAlike DEF Alike
<1>3. SameLinks(SomChain(a, path), SomChain(b, path))
  BY EnabledAlike
<1>4. ids(a) = ids(b) /\ ids(a) \subseteq GpoIds(a)
  BY <1>2, <1>3 DEF SameLinks, Range
<1>5. ASSUME NEW id \in GpoIds(a)
      PROVE  of(a, id) = of(b, id)
  <2>1. SameGpo(a.gpos[id], b.gpos[id])
    BY DEF Alike
  <2>2. a.gpos[id].delegation = b.gpos[id].delegation /\ a.gpos[id].sddl = b.gpos[id].sddl
        /\ a.gpos[id].wmi = b.gpos[id].wmi
    BY <2>1, SameFields
  <2>3. IsSecurityFiltered(a.gpos[id]) = IsSecurityFiltered(b.gpos[id])
    BY <2>2 DEF IsSecurityFiltered
  <2> QED BY <1>2, <2>2, <2>3
<1> HIDE DEF ids, of
<1>6. all(a) = all(b)
  BY <1>4, <1>5
<1> HIDE DEF all
<1>7. HasSiteLinks(a) = HasSiteLinks(b)
  BY SitesAlike DEF HasSiteLinks
<1>8. SomChain(a, path) = <<>> <=> SomChain(b, path) = <<>>
  BY <1>3, EmptyLinks
<1>9. FindSom(a, path).links = <<>> <=> FindSom(b, path).links = <<>>
  BY FoundAlike, EmptyLinks DEF SameSom
<1> QED BY <1>1, <1>6, <1>7, <1>8, <1>9

GatesOf(est, path) == {GateSummaries(est, path)[i].gates : i \in DOMAIN GateSummaries(est, path)}
LEMMA GatesAlike ==
    ASSUME NEW a, NEW b, Alike(a, b), NEW path
    PROVE  GatesOf(a, path) = GatesOf(b, path)
<1> DEFINE gates(est, id) ==
            IF id \notin GpoIds(est) THEN {}
            ELSE (IF IsSecurityFiltered(est.gpos[id]) THEN {"filtered"} ELSE {})
                     \cup (IF est.gpos[id].wmi # None THEN {"wmi"} ELSE {})
                     \cup (IF id \in IltGpos(est) THEN {"ilt"} ELSE {})
                     \cup (IF id \in DOMAIN LoopbackAwareness(est) THEN {"loopback"} ELSE {})
                     \cup (IF est.gpos[id].computerEnabled THEN {} ELSE {"computer disabled"})
                     \cup (IF est.gpos[id].userEnabled THEN {} ELSE {"user disabled"})
           links(est) == SomEffectiveGpos(est, path)
<1>1. ASSUME NEW est
      PROVE  GatesOf(est, path) = {gates(est, l.gpo) : l \in Range(links(est))}
  <2>1. GateSummaries(est, path) = [i \in DOMAIN links(est) |->
            [gpo |-> links(est)[i].gpo, enabled |-> links(est)[i].enabled, gates |-> gates(est, links(est)[i].gpo)]]
    BY DEF GateSummaries
  <2> HIDE DEF gates, links
  <2> QED BY <2>1 DEF GatesOf, Range
<1>2. GpoIds(a) = GpoIds(b) /\ IltGpos(a) = IltGpos(b) /\ LoopbackAwareness(a) = LoopbackAwareness(b)
  BY HygieneAlike DEF Alike
<1>3. Range(links(a)) = Range(links(b))
  BY EffectiveAlike DEF SameLinks
<1>4. ASSUME NEW id
      PROVE  gates(a, id) = gates(b, id)
  <2>1. CASE id \in GpoIds(a)
    <3>1. SameGpo(a.gpos[id], b.gpos[id])
      BY <2>1 DEF Alike
    <3>2. a.gpos[id].delegation = b.gpos[id].delegation /\ a.gpos[id].sddl = b.gpos[id].sddl
          /\ a.gpos[id].wmi = b.gpos[id].wmi /\ a.gpos[id].computerEnabled = b.gpos[id].computerEnabled
          /\ a.gpos[id].userEnabled = b.gpos[id].userEnabled
      BY <3>1, SameFields
    <3>3. IsSecurityFiltered(a.gpos[id]) = IsSecurityFiltered(b.gpos[id])
      BY <3>2 DEF IsSecurityFiltered
    <3> QED BY <1>2, <3>2, <3>3
  <2> QED BY <1>2, <2>1
<1> HIDE DEF gates, links
<1> QED BY <1>1, <1>3, <1>4

-----------------------------------------------------------------------------
(* Settings by key: what a container folds, its conflicts, their roll-up.  *)

\* One setting per key of a GPO, and one mode per key of an estate.
OneSettingEach(g) == \A i, j \in DOMAIN g.settings : Key(g.settings[i]) = Key(g.settings[j]) => i = j
OneModeEach(est) == \A s, t \in UNION {SettingsOf(est.gpos[id]) : id \in GpoIds(est)} :
    Key(s) = Key(t) => MergeMode(s) = MergeMode(t)
KeysClear(est) == (\A id \in GpoIds(est) : OneSettingEach(est.gpos[id])) /\ OneModeEach(est)

\* In two readings of a list of which one repeats nothing, neither does.
LEMMA SameSize ==
    ASSUME NEW s, IsSequence(s), NEW t, IsSequence(t), Range(s) = Range(t), DOMAIN s = DOMAIN t,
           \A i, j \in DOMAIN s : s[i] = s[j] => i = j
    PROVE  \A i, j \in DOMAIN t : t[i] = t[j] => i = j
<1> DEFINE D == DOMAIN s
           R == Range(s)
           f == [i \in D |-> s[i]]
           g == [i \in D |-> t[i]]
<1>1. IsFiniteSet(D) /\ IsFiniteSet(R)
  BY RangeFinite
<1>2. f \in Bijection(D, R)
  BY DEF Bijection, Injection, Surjection, IsInjective, Range
<1>3. g \in Surjection(D, R)
  BY DEF Surjection, Range
<1>4. \A i \in D : g[i] = t[i]
  OBVIOUS
<1> HIDE DEF D, R, f, g
<1>5. Cardinality(D) = Cardinality(R)
  BY <1>1, <1>2, FS_Bijection DEF ExistsBijection
<1>6. g \in Injection(D, R)
  BY <1>1, <1>3, <1>5, FS_SurjSameCardinalityImpliesInj
<1> QED BY <1>4, <1>6 DEF Injection, IsInjective, D

\* What makes keys decide in one reading makes them decide in the other.
LEMMA KeysClearAlike ==
    ASSUME NEW a, NEW b, Alike(a, b), KeysClear(a)
    PROVE  KeysClear(b)
<1>1. ASSUME NEW id \in GpoIds(b)
      PROVE  OneSettingEach(b.gpos[id])
  <2> DEFINE g == a.gpos[id]
             h == b.gpos[id]
  <2>1. SameGpo(g, h) /\ OneSettingEach(g)
    BY DEF Alike, KeysClear
  <2> HIDE DEF g, h
  <2>2. /\ IsSequence(g.settings) /\ IsSequence(h.settings) /\ Range(g.settings) = Range(h.settings)
        /\ DOMAIN g.settings = DOMAIN h.settings
    BY <2>1 DEF SameGpo, SettingsOf, Range
  <2>3. \A i, j \in DOMAIN g.settings : g.settings[i] = g.settings[j] => i = j
    BY <2>1 DEF OneSettingEach
  <2>4. \A i, j \in DOMAIN h.settings : h.settings[i] = h.settings[j] => i = j
    BY <2>2, <2>3, SameSize
  <2>5. \A i, j \in DOMAIN h.settings : Key(h.settings[i]) = Key(h.settings[j]) => h.settings[i] = h.settings[j]
    <3>1. \A s, t \in Range(g.settings) : Key(s) = Key(t) => s = t
      BY <2>1 DEF OneSettingEach, Range
    <3>2. \A i \in DOMAIN h.settings : h.settings[i] \in Range(g.settings)
      BY <2>2 DEF Range
    <3> QED BY <3>1, <3>2
  <2>6. OneSettingEach(h)
    BY <2>4, <2>5 DEF OneSettingEach
  <2> QED BY <2>6 DEF h
<1>2. OneModeEach(b)
  <2>1. \A id \in GpoIds(b) : id \in GpoIds(a) /\ SettingsOf(b.gpos[id]) = SettingsOf(a.gpos[id])
    BY SameFields DEF Alike
  <2> QED BY <2>1 DEF KeysClear, OneModeEach
<1> QED BY <1>1, <1>2 DEF KeysClear

\* The highest of a list whose elements an order tells apart is that of any
\* other list of them.
LEMMA TopAlike ==
    ASSUME NEW p, IsSequence(p), NEW q, IsSequence(q), Range(p) = Range(q), DOMAIN p # {},
           \A x \in Range(p) : x.order \in Nat, \A x, y \in Range(p) : x.order = y.order => x = y
    PROVE  /\ p[HighestOrder(p)] = q[HighestOrder(q)] /\ p[HighestOrder(p)] \in Range(p)
           /\ \A x \in Range(p) : x.order =< p[HighestOrder(p)].order
<1>1. ASSUME NEW s, IsSequence(s), Range(s) = Range(p)
      PROVE  /\ s[HighestOrder(s)] \in Range(p)
             /\ \A x \in Range(p) : x.order =< s[HighestOrder(s)].order
  <2> DEFINE w == HighestOrder(s)
  <2>1. DOMAIN s # {} /\ \A i \in DOMAIN s : s[i] \in Range(p) /\ s[i].order \in Int
    BY <1>1 DEF Range
  <2>2. IsHighest(w, s)
    BY <1>1, <2>1, HighestShape
  <2> HIDE DEF w
  <2>3. \A i \in DOMAIN s : s[i].order =< s[w].order
    BY <2>1, <2>2 DEF IsHighest
  <2>4. s[w] \in Range(p)
    BY <2>1, <2>2 DEF IsHighest
  <2>5. \A x \in Range(p) : x.order =< s[w].order
    BY <1>1, <2>3 DEF Range
  <2> QED BY <2>4, <2>5 DEF w
<1> DEFINE x == p[HighestOrder(p)]
           y == q[HighestOrder(q)]
<1>2. x \in Range(p) /\ y \in Range(p) /\ (\A z \in Range(p) : z.order =< x.order /\ z.order =< y.order)
  BY <1>1
<1> HIDE DEF x, y
<1>3. x.order = y.order
  BY <1>2
<1> QED BY <1>2, <1>3 DEF x, y

\* The entries a link gives are those of either reading, one per key.
LEMMA LinkAlike ==
    ASSUME NEW a, NEW b, Alike(a, b), KeysClear(a), NEW l
    PROVE  /\ Range(EntriesOf(a, l)) = Range(EntriesOf(b, l))
           /\ \A e, f \in Range(EntriesOf(a, l)) : e.key = f.key => e = f
<1> DEFINE entry(g, s) == [key |-> Key(s), gpo |-> g.id, name |-> g.name, value |-> s.value,
                           order |-> l.order, enforced |-> l.enforced]
           given(g) == {entry(g, s) : s \in {x \in SettingsOf(g) : ~x.off}}
<1>1. ASSUME NEW est, IsEstate(est), l.gpo \in GpoIds(est)
      PROVE  Range(EntriesOf(est, l)) = given(est.gpos[l.gpo])
  <2> DEFINE g == est.gpos[l.gpo]
             keep == {i \in DOMAIN g.settings : ~g.settings[i].off}
             live == Kept(g.settings, keep)
             all == [i \in DOMAIN live |-> entry(g, live[i])]
  <2>1. EntriesOf(est, l) = all
    BY <1>1 DEF EntriesOf
  <2>2. IsSequence(g.settings)
    BY <1>1 DEF IsEstate
  <2>3. Range(live) = {x \in SettingsOf(g) : ~x.off}
    <3>1. Range(live) = {g.settings[i] : i \in DOMAIN g.settings \cap keep}
      <4> HIDE DEF keep, g
      <4> QED BY <2>2, KeptShape
    <3> QED BY <3>1 DEF SettingsOf
  <2> HIDE DEF live, g, entry
  <2>4. Range(all) = {entry(g, s) : s \in Range(live)}
    BY DEF Range
  <2> QED BY <2>1, <2>3, <2>4 DEF g
<1>2. CASE l.gpo \notin GpoIds(a)
  <2>1. EntriesOf(a, l) = <<>> /\ EntriesOf(b, l) = <<>>
    BY <1>2 DEF EntriesOf, Alike
  <2> QED BY <2>1, EmptyShape
<1>3. CASE l.gpo \in GpoIds(a)
  <2> DEFINE g == a.gpos[l.gpo]
             h == b.gpos[l.gpo]
  <2>1. SameGpo(g, h) /\ l.gpo \in GpoIds(b) /\ IsEstate(a) /\ IsEstate(b) /\ OneSettingEach(g)
    BY <1>3 DEF Alike, KeysClear
  <2>2. g.id = h.id /\ g.name = h.name /\ SettingsOf(g) = SettingsOf(h)
    BY <2>1, SameFields
  <2>3. Range(EntriesOf(a, l)) = given(g) /\ Range(EntriesOf(b, l)) = given(h)
    BY <1>1, <1>3, <2>1
  <2> HIDE DEF g, h
  <2>4. given(g) = given(h)
    BY <2>2
  <2>5. \A s, t \in SettingsOf(g) : Key(s) = Key(t) => s = t
    BY <2>1 DEF OneSettingEach, SettingsOf
  <2>6. \A e, f \in given(g) : e.key = f.key => e = f
    BY <2>5
  <2> QED BY <2>3, <2>4, <2>6
<1> QED BY <1>2, <1>3

\* What a chain folds to is one list or another of the same entries, of which
\* an order and a key tell one.
SameFold(p, q) ==
    /\ IsSequence(p) /\ IsSequence(q) /\ Range(p) = Range(q) /\ \A e \in Range(p) : e.order \in Nat
    /\ \A e, f \in Range(p) : e.order = f.order /\ e.key = f.key => e = f
    /\ \A e, f \in Range(p) : e.order = f.order => e.name = f.name
LEMMA FoldAlike ==
    ASSUME NEW a, NEW b, Alike(a, b), KeysClear(a), NEW path
    PROVE  SameFold(ChainEntriesOf(a, path), ChainEntriesOf(b, path))
<1>1. ASSUME NEW est, IsEstate(est), IsChain(SomChain(est, path))
      PROVE  /\ IsSequence(ChainEntriesOf(est, path))
             /\ Range(ChainEntriesOf(est, path)) = UNION {Range(EntriesOf(est, l)) : l \in Range(SomChain(est, path))}
  <2> DEFINE chain == SomChain(est, path)
             seqs == [i \in DOMAIN chain |-> EntriesOf(est, chain[i])]
  <2>1. ChainEntriesOf(est, path) = FlattenSeq(seqs)
    BY DEF ChainEntriesOf
  <2>2. IsSequence(chain)
    BY <1>1 DEF IsChain
  <2> HIDE DEF chain
  <2>3. IsLists(seqs) /\ DOMAIN seqs = DOMAIN chain
    BY <1>1, <2>2, MappedShape, LinkEntries DEF IsLists
  <2>4. UNION {Range(seqs[i]) : i \in DOMAIN seqs} = UNION {Range(EntriesOf(est, l)) : l \in Range(chain)}
    BY <2>3 DEF Range
  <2> HIDE DEF seqs
  <2> QED BY <2>1, <2>3, <2>4, FlatRange DEF chain
<1> DEFINE k == SomChain(a, path)
           l == SomChain(b, path)
           p == ChainEntriesOf(a, path)
           q == ChainEntriesOf(b, path)
<1>2. SameLinks(k, l) /\ IsEstate(a) /\ IsEstate(b)
  BY EnabledAlike DEF Alike
<1>3. /\ IsSequence(p) /\ Range(p) = UNION {Range(EntriesOf(a, x)) : x \in Range(k)}
      /\ IsSequence(q) /\ Range(q) = UNION {Range(EntriesOf(b, x)) : x \in Range(l)}
  BY <1>1, <1>2 DEF SameLinks
<1> HIDE DEF k, l, p, q
<1>4. Range(p) = Range(q)
  BY <1>2, <1>3, LinkAlike DEF SameLinks
<1>5. \A x, y \in Range(k) : x.order \in Nat /\ (x.order = y.order => x = y)
  BY <1>2 DEF SameLinks, IsChain, OneOrderEach, Range
<1>6. \A e \in Range(p) : \E x \in Range(k) : e \in Range(EntriesOf(a, x)) /\ e.order = x.order
                                             /\ e.name = a.gpos[x.gpo].name
  BY <1>2, <1>3, LinkEntries
<1>7. ASSUME NEW e \in Range(p), NEW f \in Range(p), e.order = f.order
      PROVE  e.name = f.name /\ (e.key = f.key => e = f)
  <2>1. PICK x \in Range(k) : e \in Range(EntriesOf(a, x)) /\ e.order = x.order /\ e.name = a.gpos[x.gpo].name
    BY <1>6
  <2>2. PICK y \in Range(k) : f \in Range(EntriesOf(a, y)) /\ f.order = y.order /\ f.name = a.gpos[y.gpo].name
    BY <1>6
  <2>3. x = y
    BY <1>5, <1>7, <2>1, <2>2
  <2> QED BY <2>1, <2>2, <2>3, LinkAlike
<1>8. \A e \in Range(p) : e.order \in Nat
  BY <1>5, <1>6
<1> QED BY <1>3, <1>4, <1>7, <1>8 DEF SameFold, p, q

\* The bucket of a key.
LEMMA BucketAlike ==
    ASSUME NEW p, NEW q, SameFold(p, q), NEW key \in BucketKeys(p)
    PROVE  /\ SameFold(Bucket(p, key), Bucket(q, key)) /\ DOMAIN Bucket(p, key) # {}
           /\ \A e \in Range(Bucket(p, key)) : e.key = key
<1> DEFINE u == Bucket(p, key)
           v == Bucket(q, key)
<1>1. IsSequence(p) /\ IsSequence(q)
  BY DEF SameFold
<1>2. IsSequence(u) /\ Range(u) = {e \in Range(p) : e.key = key} /\ DOMAIN u # {}
  BY <1>1, BucketShape
<1>3. IsSequence(v) /\ Range(v) = {e \in Range(q) : e.key = key}
  BY <1>1, BucketShape
<1> HIDE DEF u, v
<1>4. SameFold(u, v)
  BY <1>2, <1>3 DEF SameFold
<1> QED BY <1>2, <1>4 DEF u, v

\* The winners at a container and its conflicts are those of either reading.
LEMMA AtAlike ==
    ASSUME NEW a, NEW b, Alike(a, b), KeysClear(a), NEW path
    PROVE  SettingsAtSom(a, path) = SettingsAtSom(b, path) /\ SomConflicts(a, path) = SomConflicts(b, path)
<1> DEFINE p == ChainEntriesOf(a, path)
           q == ChainEntriesOf(b, path)
           won(u, key) == LET w == u[HighestOrder(u)]
                          IN  [key |-> key, value |-> w.value, gpo |-> w.gpo, enforced |-> w.enforced,
                               overridden |-> {<<e.name, e.value>> : e \in {x \in Range(u) : x.order < w.order}}]
<1>1. SameFold(p, q)
  BY FoldAlike
<1>2. ASSUME NEW est
      PROVE  SettingsAtSom(est, path) = {won(Bucket(ChainEntriesOf(est, path), key), key) :
                                            key \in BucketKeys(ChainEntriesOf(est, path))}
  <2> DEFINE all == ChainEntriesOf(est, path)
             at(key) == LET u == Bucket(all, key)
                            w == u[HighestOrder(u)]
                        IN  [key |-> key, value |-> w.value, gpo |-> w.gpo, enforced |-> w.enforced,
                             overridden |-> {<<u[i].name, u[i].value>> :
                                                i \in {j \in DOMAIN u : u[j].order < w.order}}]
  <2>1. SettingsAtSom(est, path) = {at(key) : key \in BucketKeys(all)}
    BY DEF SettingsAtSom
  <2>2. ASSUME NEW key
        PROVE  at(key) = won(Bucket(all, key), key)
    BY DEF Range
  <2> HIDE DEF at, won
  <2> QED BY <2>1, <2>2
<1> HIDE DEF p, q
<1>3. BucketKeys(p) = BucketKeys(q)
  BY <1>1, BucketShape DEF SameFold
<1>4. ASSUME NEW key \in BucketKeys(p)
      PROVE  /\ won(Bucket(p, key), key) = won(Bucket(q, key), key)
             /\ ConflictOf(Bucket(p, key), key) = ConflictOf(Bucket(q, key), key)
             /\ IsContested(Bucket(p, key)) = IsContested(Bucket(q, key))
  <2> DEFINE u == Bucket(p, key)
             v == Bucket(q, key)
  <2>1. SameFold(u, v) /\ DOMAIN u # {} /\ \A e \in Range(u) : e.key = key
    BY <1>1, BucketAlike
  <2> HIDE DEF u, v
  <2>2. u[HighestOrder(u)] = v[HighestOrder(v)] /\ Range(u) = Range(v)
    BY <2>1, TopAlike DEF SameFold
  <2>3. won(u, key) = won(v, key)
    BY <2>2
  <2>4. ConflictOf(u, key) = ConflictOf(v, key) /\ IsContested(u) = IsContested(v)
    BY <2>1, SameConflict DEF SameFold
  <2> QED BY <2>3, <2>4 DEF u, v
<1>5. /\ SomConflicts(a, path) = {ConflictOf(Bucket(p, key), key) :
                    key \in {k \in BucketKeys(p) : IsContested(Bucket(p, k))}}
      /\ SomConflicts(b, path) = {ConflictOf(Bucket(q, key), key) :
                    key \in {k \in BucketKeys(q) : IsContested(Bucket(q, k))}}
  BY ConflictsRead DEF p, q
<1>6. /\ SettingsAtSom(a, path) = {won(Bucket(p, key), key) : key \in BucketKeys(p)}
      /\ SettingsAtSom(b, path) = {won(Bucket(q, key), key) : key \in BucketKeys(q)}
  BY <1>2 DEF p, q
<1> HIDE DEF won
<1>7. SettingsAtSom(a, path) = SettingsAtSom(b, path)
  BY <1>3, <1>4, <1>6
<1>8. SomConflicts(a, path) = SomConflicts(b, path)
  BY <1>3, <1>4, <1>5
<1> QED BY <1>7, <1>8

\* So are the conflicts of all containers,
LEMMA PrecedenceAlike ==
    ASSUME NEW a, NEW b, Alike(a, b), KeysClear(a)
    PROVE  PrecedenceConflicts(a) = PrecedenceConflicts(b)
<1>1. ASSUME NEW x, NEW y, Alike(x, y), KeysClear(x)
      PROVE  PrecedenceConflicts(x) \subseteq PrecedenceConflicts(y)
  <2>0. ASSUME NEW est, NEW z
        PROVE  z \in PrecedenceConflicts(est) <=>
                  \E s \in LinkedSoms(est) : \E c \in SomConflicts(est, s.path) : z = [path |-> s.path, conflict |-> c]
    BY DEF PrecedenceConflicts
  <2> SUFFICES ASSUME NEW s \in LinkedSoms(x), NEW c \in SomConflicts(x, s.path)
               PROVE  [path |-> s.path, conflict |-> c] \in PrecedenceConflicts(y)
    BY <2>0
  <2>1. s \in SomsOf(x) /\ s.links # <<>> /\ s.kind # "site"
    BY DEF LinkedSoms
  <2>2. PICK t \in SomsOf(y) : SameSom(s, t)
    BY <1>1, <2>1 DEF Alike
  <2>3. t \in LinkedSoms(y) /\ t.path = s.path
    BY <2>1, <2>2, EmptyLinks DEF SameSom, LinkedSoms
  <2>4. c \in SomConflicts(y, t.path)
    BY <1>1, <2>3, AtAlike
  <2> QED BY <2>0, <2>3, <2>4
<1>2. Alike(b, a) /\ KeysClear(b)
  BY AlikeSymmetric, KeysClearAlike
<1>3. PrecedenceConflicts(a) \subseteq PrecedenceConflicts(b)
  BY <1>1
<1>4. PrecedenceConflicts(b) \subseteq PrecedenceConflicts(a)
  BY <1>1, <1>2
<1> QED BY <1>3, <1>4

\* and their roll-up, which says the same as they do.
LEMMA RollupAlike ==
    ASSUME NEW a, NEW b, Alike(a, b), KeysClear(a)
    PROVE  PrecedenceConflictRollup(a) = PrecedenceConflictRollup(b)
<1> DEFINE scopes(est, sc) == {p.path : p \in {x \in PrecedenceConflicts(est) : x.conflict = sc}}
<1>1. ASSUME NEW est, IsEstate(est), OrdersDistinct(est)
      PROVE  PrecedenceConflictRollup(est) =
                {[conflict |-> sc, scopes |-> scopes(est, sc)] : sc \in {p.conflict : p \in PrecedenceConflicts(est)}}
  <2> DEFINE rolled == PrecedenceConflictRollup(est)
             each == PrecedenceConflicts(est)
  <2>1. UNION {{[path |-> p, conflict |-> r.conflict] : p \in r.scopes} : r \in rolled} = each
    BY <1>1, RollupOfEstate
  <2>2. PICK C : \E s : rolled = {[conflict |-> sc, scopes |-> s[sc]] : sc \in C} /\ \A sc \in C : s[sc] # {}
    <3> DEFINE signatures == {ChainSignature(s) : s \in LinkedSoms(est)} \ {{}}
               sharing(sig) == {i \in DOMAIN est.soms :
                            est.soms[i] \in LinkedSoms(est) /\ ChainSignature(est.soms[i]) = sig}
               found(sig) == SomConflicts(est, est.soms[Min(sharing(sig))].path)
               scopesOf(sc) == UNION {{est.soms[i].path : i \in sharing(sig)}
                                : sig \in {t \in signatures : sc \in found(t)}}
               D == UNION {found(sig) : sig \in signatures}
               f == [sc \in D |-> scopesOf(sc)]
    <3>1. rolled = {[conflict |-> sc, scopes |-> scopesOf(sc)] : sc \in D}
      BY DEF PrecedenceConflictRollup
    <3>2. ASSUME NEW sc \in D
          PROVE  scopesOf(sc) # {}
      <4>1. PICK sig \in signatures : sc \in found(sig)
        OBVIOUS
      <4>2. PICK i \in DOMAIN est.soms : i \in sharing(sig)
        BY DEF LinkedSoms, SomsOf
      <4>3. est.soms[i].path \in scopesOf(sc)
        <5> HIDE DEF found, sharing, signatures
        <5> QED BY <4>1, <4>2
      <4> QED BY <4>3
    <3> HIDE DEF rolled, scopesOf, D
    <3>3. rolled = {[conflict |-> sc, scopes |-> f[sc]] : sc \in D} /\ \A sc \in D : f[sc] # {}
      BY <3>1, <3>2
    <3> HIDE DEF f
    <3> QED BY <3>3
  <2>3. PICK s : rolled = {[conflict |-> sc, scopes |-> s[sc]] : sc \in C} /\ \A sc \in C : s[sc] # {}
    BY <2>2
  <2> HIDE DEF rolled, each
  <2>4. \A x : x \in each <=> \E sc \in C : \E p \in s[sc] : x = [path |-> p, conflict |-> sc]
    <3>1. \A x : x \in each <=> \E r \in rolled : \E p \in r.scopes : x = [path |-> p, conflict |-> r.conflict]
      BY <2>1
    <3>2. \A sc \in C : [conflict |-> sc, scopes |-> s[sc]] \in rolled
      BY <2>3
    <3>3. \A r \in rolled : \E sc \in C : r = [conflict |-> sc, scopes |-> s[sc]]
      BY <2>3
    <3>4. ASSUME NEW x, NEW sc \in C, NEW p \in s[sc], x = [path |-> p, conflict |-> sc]
          PROVE  x \in each
      <4> DEFINE r == [conflict |-> sc, scopes |-> s[sc]]
      <4>1. r \in rolled /\ p \in r.scopes /\ x = [path |-> p, conflict |-> r.conflict]
        BY <3>2, <3>4
      <4> HIDE DEF r
      <4> QED BY <3>1, <4>1
    <3>5. ASSUME NEW x \in each
          PROVE  \E sc \in C : \E p \in s[sc] : x = [path |-> p, conflict |-> sc]
      <4>1. PICK r \in rolled : \E p \in r.scopes : x = [path |-> p, conflict |-> r.conflict]
        BY <3>1
      <4>2. PICK sc \in C : r = [conflict |-> sc, scopes |-> s[sc]]
        BY <3>3
      <4>3. r.scopes = s[sc] /\ r.conflict = sc
        BY <4>2
      <4> QED BY <4>1, <4>3
    <3> QED BY <3>4, <3>5
  <2>5. C = {p.conflict : p \in each}
    <3>1. \A sc \in C : sc \in {p.conflict : p \in each}
      <4> SUFFICES ASSUME NEW sc \in C
                   PROVE  sc \in {p.conflict : p \in each}
        OBVIOUS
      <4>1. PICK p \in s[sc] : TRUE
        BY <2>3
      <4>2. [path |-> p, conflict |-> sc] \in each
        BY <2>4, <4>1
      <4> QED BY <4>2
    <3>2. \A p \in each : p.conflict \in C
      BY <2>4
    <3> QED BY <3>1, <3>2
  <2>6. \A sc \in C : s[sc] = {p.path : p \in {x \in each : x.conflict = sc}}
    <3> SUFFICES ASSUME NEW sc \in C
                 PROVE  s[sc] = {p.path : p \in {x \in each : x.conflict = sc}}
      OBVIOUS
    <3>1. ASSUME NEW p \in s[sc]
          PROVE  p \in {y.path : y \in {x \in each : x.conflict = sc}}
      <4>1. [path |-> p, conflict |-> sc] \in each
        BY <2>4
      <4> QED BY <4>1
    <3>2. ASSUME NEW x \in each, x.conflict = sc
          PROVE  x.path \in s[sc]
      BY <2>4, <3>2
    <3> QED BY <3>1, <3>2
  <2>7. rolled = {[conflict |-> sc, scopes |-> {p.path : p \in {x \in each : x.conflict = sc}}] :
                     sc \in {p.conflict : p \in each}}
    BY <2>3, <2>5, <2>6
  <2> QED BY <2>7 DEF rolled, each
<1>2. ASSUME NEW x, NEW y, Alike(x, y)
      PROVE  IsEstate(x) /\ OrdersDistinct(x)
  <2>1. IsEstate(x)
    BY <1>2 DEF Alike
  <2>2. \A n \in DOMAIN x.soms : OneOrderEach(x.soms[n].links)
    BY <1>2 DEF Alike, SomsOf, SameSom, SameLinks
  <2> QED BY <2>1, <2>2 DEF OrdersDistinct, OneOrderEach
<1>3. PrecedenceConflicts(a) = PrecedenceConflicts(b)
  BY PrecedenceAlike
<1> HIDE DEF scopes
<1>4. /\ PrecedenceConflictRollup(a) =
                {[conflict |-> sc, scopes |-> scopes(a, sc)] : sc \in {p.conflict : p \in PrecedenceConflicts(a)}}
      /\ PrecedenceConflictRollup(b) =
                {[conflict |-> sc, scopes |-> scopes(b, sc)] : sc \in {p.conflict : p \in PrecedenceConflicts(b)}}
  BY <1>1, <1>2, AlikeSymmetric
<1>5. \A sc : scopes(a, sc) = scopes(b, sc)
  BY <1>3 DEF scopes
<1> QED BY <1>3, <1>4, <1>5

-----------------------------------------------------------------------------
(* The merge of items that an order and a key tell apart.                  *)

\* Sorted by an order that tells its elements apart, a list is any other list
\* of them sorted.
LEMMA SortedAlike ==
    ASSUME NEW p, NEW q, SameLinks(p, q)
    PROVE  ByOrder(p) = ByOrder(q)
<1> DEFINE R == Range(p)
           UpTo(x) == {y \in R : y.order =< x.order}
           Rank(x) == Cardinality(UpTo(x))
<1>1. IsSequence(p) /\ IsSequence(q) /\ Range(q) = R /\ IsFiniteSet(R)
  BY RangeFinite DEF SameLinks, IsChain
<1>2. \A x, y \in R : x.order \in Nat /\ (x.order = y.order => x = y)
  BY DEF SameLinks, IsChain, OneOrderEach, Range
<1>3. ASSUME NEW x \in R
      PROVE  IsFiniteSet(UpTo(x)) /\ Rank(x) \in 1..Cardinality(R)
  <2>1. UpTo(x) \in SUBSET R /\ x \in UpTo(x)
    BY <1>2
  <2> HIDE DEF UpTo
  <2>2. IsFiniteSet(UpTo(x)) /\ Cardinality(UpTo(x)) =< Cardinality(R)
    BY <1>1, <2>1, FS_Subset
  <2>3. Cardinality(UpTo(x)) \in Nat /\ Cardinality(UpTo(x)) # 0 /\ Cardinality(R) \in Nat
    BY <1>1, <2>1, <2>2, FS_CardinalityType, FS_EmptySet
  <2> QED BY <2>2, <2>3
<1>4. ASSUME NEW x \in R, NEW y \in R, Rank(x) = Rank(y)
      PROVE  x = y
  <2>1. ASSUME NEW u \in R, NEW v \in R, u.order < v.order
        PROVE  Rank(u) # Rank(v)
    <3>1. UpTo(u) \in SUBSET UpTo(v) /\ v \in UpTo(v) /\ v \notin UpTo(u)
      BY <1>2, <2>1
    <3>2. IsFiniteSet(UpTo(v))
      BY <1>3
    <3> HIDE DEF UpTo
    <3> QED BY <3>1, <3>2, FS_Subset
  <2> HIDE DEF Rank
  <2>2. ~(x.order < y.order) /\ ~(y.order < x.order)
    BY <1>4, <2>1
  <2> QED BY <1>2, <2>2
<1> DEFINE sorted == [k \in 1..Cardinality(R) |-> CHOOSE x \in R : Rank(x) = k]
<1> HIDE DEF R, UpTo
<1>5. ASSUME NEW s, IsSequence(s), Range(s) = R, OneOrderEach(s)
      PROVE  ByOrder(s) = sorted
  <2> DEFINE n == Len(s)
             rank == [i \in DOMAIN s |-> s[i].order]
             before(j, i) == rank[j] < rank[i] \/ (rank[j] = rank[i] /\ (j < i) # FALSE)
             place == [i \in DOMAIN s |-> Cardinality({j \in DOMAIN s : j = i \/ before(j, i)})]
  <2>1. n \in Nat /\ DOMAIN s = 1..n
    BY <1>5, ListShape
  <2>2. \A i \in DOMAIN s : s[i] \in R /\ s[i].order \in Nat
    BY <1>2, <1>5 DEF Range
  <2>3. ByOrder(s) = [k \in DOMAIN s |-> s[CHOOSE i \in DOMAIN s : place[i] = k]]
    BY DEF ByOrder, OrderedBy
  <2>4. n = Cardinality(R)
    <3> DEFINE D == 1..n
               f == [i \in D |-> s[i]]
    <3>1. f \in Bijection(D, R)
      <4>1. f \in Surjection(D, R)
        BY <1>5, <2>1 DEF Surjection, Range
      <4>2. f \in Injection(D, R)
        BY <1>5, <2>1, <2>2 DEF Injection, IsInjective, OneOrderEach
      <4> QED BY <4>1, <4>2 DEF Bijection
    <3>2. IsFiniteSet(D) /\ Cardinality(D) = n
      <4>1. 1 \in Int /\ n \in Int
        BY <2>1
      <4> HIDE DEF n
      <4> QED BY <2>1, <4>1, FS_Interval
    <3> HIDE DEF D, f, n
    <3> QED BY <3>1, <3>2, FS_Bijection DEF ExistsBijection
  <2>5. ASSUME NEW i \in DOMAIN s
        PROVE  place[i] = Rank(s[i])
    <3> DEFINE J == {j \in DOMAIN s : j = i \/ before(j, i)}
               K == {j \in DOMAIN s : s[j].order =< s[i].order}
               T == UpTo(s[i])
               f == [j \in K |-> s[j]]
    <3>1. J = K
      <4>1. ASSUME NEW j \in DOMAIN s
            PROVE  (j = i \/ before(j, i)) <=> s[j].order =< s[i].order
        <5>1. rank[j] = s[j].order /\ rank[i] = s[i].order /\ s[j].order \in Nat /\ s[i].order \in Nat
          BY <2>2
        <5>2. rank[j] = rank[i] => j = i
          BY <1>5, <5>1 DEF OneOrderEach
        <5>3. before(j, i) => rank[j] < rank[i] \/ rank[j] = rank[i]
          OBVIOUS
        <5>4. rank[j] < rank[i] => before(j, i)
          OBVIOUS
        <5> HIDE DEF rank, before
        <5> QED BY <5>1, <5>2, <5>3, <5>4
      <4> QED BY <4>1
    <3>2. f \in Bijection(K, T)
      <4>1. f \in Surjection(K, T)
        BY <1>5, <2>2 DEF Surjection, Range, UpTo
      <4>2. f \in Injection(K, T)
        BY <1>5, <2>2 DEF Injection, IsInjective, OneOrderEach, UpTo
      <4> QED BY <4>1, <4>2 DEF Bijection
    <3>3. IsFiniteSet(K)
      <4>1. IsFiniteSet(DOMAIN s)
        BY <1>5, RangeFinite
      <4> QED BY <4>1, FS_Subset
    <3>4. place[i] = Cardinality(J)
      OBVIOUS
    <3> HIDE DEF J, K, T, f, place
    <3>5. Cardinality(K) = Cardinality(T)
      BY <3>2, <3>3, FS_Bijection DEF ExistsBijection
    <3> QED BY <3>1, <3>4, <3>5 DEF T
  <2> HIDE DEF before, rank
  <2>6. DOMAIN place = DOMAIN s
    OBVIOUS
  <2> HIDE DEF place, Rank
  <2>7. \A i, j \in DOMAIN s : place[i] = place[j] => i = j
    BY <1>4, <1>5, <2>2, <2>5 DEF OneOrderEach
  <2>8. \A k \in 1..n : \E i \in 1..n : place[i] = k
    <3> DEFINE f == [i \in 1..n |-> place[i]]
    <3>1. f \in [1..n -> 1..n] /\ \A i, j \in 1..n : f[i] = f[j] => i = j
      BY <1>3, <2>1, <2>2, <2>4, <2>5, <2>7
    <3> HIDE DEF f
    <3>2. \A k \in 1..n : \E i \in 1..n : f[i] = k
      BY <2>1, <3>1, Permutes
    <3> QED BY <3>2 DEF f
  <2>9. ASSUME NEW k \in DOMAIN s
        PROVE  s[CHOOSE i \in DOMAIN s : place[i] = k] = CHOOSE x \in R : Rank(x) = k
    <3> DEFINE i == CHOOSE j \in DOMAIN s : place[j] = k
    <3>1. i \in DOMAIN s /\ place[i] = k
      BY <2>1, <2>8
    <3> HIDE DEF i
    <3>2. s[i] \in R /\ Rank(s[i]) = k
      BY <2>2, <2>5, <3>1
    <3> DEFINE x == CHOOSE z \in R : Rank(z) = k
    <3>3. x \in R /\ Rank(x) = k
      BY <3>2
    <3> HIDE DEF x
    <3>4. s[i] = x
      BY <1>4, <3>2, <3>3
    <3> QED BY <3>4 DEF i, x
  <2> QED BY <2>1, <2>3, <2>4, <2>9
<1>6. ByOrder(p) = sorted /\ ByOrder(q) = sorted
  <2>1. OneOrderEach(p) /\ OneOrderEach(q) /\ Range(p) = R
    BY DEF SameLinks, R
  <2> HIDE DEF sorted
  <2> QED BY <1>1, <1>5, <2>1
<1> QED BY <1>6

\* A bucket merges to the same setting, whatever the order it is listed in.
LEMMA BucketMerged ==
    ASSUME NEW p, NEW q, SameLinks(p, q), DOMAIN p # {}, \A x, y \in Range(p) : x.mode = y.mode
    PROVE  Survivor(p) = Survivor(q) /\ MergeBucket(p) = MergeBucket(q)
<1>1. /\ IsSequence(p) /\ IsSequence(q) /\ Range(p) = Range(q)
      /\ \A x \in Range(p) : x.order \in Nat
      /\ \A x, y \in Range(p) : x.order = y.order => x = y
  BY DEF SameLinks, IsChain, OneOrderEach, Range
<1>2. p[1] \in Range(p) /\ q[1] \in Range(p)
  <2>1. ASSUME NEW s, IsSequence(s), DOMAIN s # {}
        PROVE  s[1] \in Range(s)
    <3>1. Len(s) \in Nat /\ DOMAIN s = 1..Len(s)
      BY <2>1, ListShape
    <3>2. 1 \in DOMAIN s
      BY <2>1, <3>1
    <3> QED BY <3>2 DEF Range
  <2>2. DOMAIN q # {}
    BY <1>1 DEF Range
  <2> QED BY <1>1, <2>1, <2>2
<1>3. p[1].mode = q[1].mode
  BY <1>2
<1>4. ResolveGppActions(p) = ResolveGppActions(q)
  BY SortedAlike DEF ResolveGppActions
<1>5. p[HighestOrder(p)] = q[HighestOrder(q)]
  BY <1>1, TopAlike
<1>6. Survivor(p) = Survivor(q)
  BY <1>3, <1>4, <1>5 DEF Survivor
<1> DEFINE lost(s, strict, w) == {x.gpo : x \in {y \in Range(s) : IF strict THEN y.order < w.order ELSE y.order # w.order}}
           Strict(s) == s[1].mode \in {"last writer wins", "replace", "single winner", "approximate"}
<1>7. ASSUME NEW s
      PROVE  MergeBucket(s) = [key |-> Survivor(s).key, gpo |-> Survivor(s).gpo, value |-> Survivor(s).value,
                               mode |-> s[1].mode, overridden |-> lost(s, Strict(s), Survivor(s))]
  BY DEF MergeBucket, Range
<1>8. lost(p, Strict(p), Survivor(p)) = lost(q, Strict(q), Survivor(q))
  BY <1>1, <1>3, <1>6
<1> HIDE DEF lost, Strict
<1> QED BY <1>3, <1>6, <1>7, <1>8

\* Two lists of the same items, where an order tells those of a key apart and
\* a key has one mode.
OneOrderPerKey(items) ==
    \A i, j \in DOMAIN items : items[i].key = items[j].key /\ items[i].order = items[j].order => i = j
SameItems(u, v) ==
    /\ IsChain(u) /\ IsChain(v) /\ Range(u) = Range(v) /\ OneOrderPerKey(u) /\ OneOrderPerKey(v)
    /\ \A x, y \in Range(u) : x.key = y.key => x.mode = y.mode

\* Their buckets.
LEMMA ItemBuckets ==
    ASSUME NEW u, NEW v, SameItems(u, v), NEW key \in BucketKeys(u)
    PROVE  /\ SameLinks(Bucket(u, key), Bucket(v, key)) /\ DOMAIN Bucket(u, key) # {}
           /\ \A x, y \in Range(Bucket(u, key)) : x.mode = y.mode
<1>1. ASSUME NEW s, IsChain(s), OneOrderPerKey(s)
      PROVE  /\ IsChain(Bucket(s, key)) /\ OneOrderEach(Bucket(s, key))
             /\ Range(Bucket(s, key)) = {x \in Range(s) : x.key = key}
  <2> DEFINE t == Bucket(s, key)
             keep == {i \in DOMAIN s : s[i].key = key}
  <2>1. IsSequence(s) /\ \A i \in DOMAIN s : s[i].order \in Nat
    BY <1>1 DEF IsChain
  <2>2. t = Kept(s, keep)
    BY DEF Bucket
  <2> HIDE DEF t, keep
  <2>3. IsSequence(t) /\ Range(t) = {x \in Range(s) : x.key = key}
    BY <2>1, BucketShape DEF t
  <2>4. PICK at : IsPick(at, t, s, keep)
    BY <2>1, <2>2, KeptShape
  <2>5. \A i \in DOMAIN t : at[i] \in DOMAIN s /\ t[i] = s[at[i]]
    BY <2>4 DEF IsPick
  <2>6. \A i \in DOMAIN t : t[i].key = key
    BY <2>3 DEF Range
  <2>7. ASSUME NEW i \in DOMAIN t, NEW j \in DOMAIN t, t[i].order = t[j].order
        PROVE  i = j
    <3>1. at[i] = at[j]
      BY <1>1, <2>5, <2>6, <2>7 DEF OneOrderPerKey
    <3>2. i \in Nat /\ j \in Nat
      BY <2>3, ListShape
    <3>3. at[i] \in Nat /\ at[j] \in Nat
      BY <2>1, <2>5, ListShape
    <3>4. i < j => at[i] < at[j]
      BY <2>4 DEF IsPick
    <3>5. j < i => at[j] < at[i]
      BY <2>4 DEF IsPick
    <3> QED BY <3>1, <3>2, <3>3, <3>4, <3>5
  <2>8. IsChain(t) /\ OneOrderEach(t)
    BY <2>1, <2>3, <2>5, <2>7 DEF IsChain, OneOrderEach
  <2> QED BY <2>3, <2>8 DEF t
<1> DEFINE p == Bucket(u, key)
           q == Bucket(v, key)
<1>2. IsChain(u) /\ OneOrderPerKey(u) /\ IsChain(v) /\ OneOrderPerKey(v) /\ Range(u) = Range(v)
  BY DEF SameItems
<1>3. /\ IsChain(p) /\ OneOrderEach(p) /\ Range(p) = {x \in Range(u) : x.key = key}
      /\ IsChain(q) /\ OneOrderEach(q) /\ Range(q) = {x \in Range(v) : x.key = key}
  BY <1>1, <1>2
<1>4. DOMAIN p # {}
  BY <1>2, BucketShape DEF IsChain
<1> HIDE DEF p, q
<1>5. SameLinks(p, q) /\ \A x, y \in Range(p) : x.mode = y.mode
  BY <1>2, <1>3 DEF SameLinks, SameItems
<1> QED BY <1>4, <1>5 DEF p, q

\* What they merge to.
LEMMA MergeAlike ==
    ASSUME NEW x, NEW y, SameItems(FlattenSeq(ItemLists(x)), FlattenSeq(ItemLists(y))), NEW ilt
    PROVE  MergeSettings(x, ilt) = MergeSettings(y, ilt)
<1> DEFINE u == FlattenSeq(ItemLists(x))
           v == FlattenSeq(ItemLists(y))
           targeted(items, key) == key[1] \in GppCses /\ \E it \in Range(items) : it.key = key /\ it.gpo \in ilt
           merged(items) == {k \in BucketKeys(items) : ~targeted(items, k) /\ Survivor(Bucket(items, k)) # NoItem}
           won(items) == {MergeBucket(Bucket(items, k)) : k \in merged(items)}
           left(items) == {[key |-> it.key, gpo |-> it.gpo] :
                              it \in {z \in Range(items) : targeted(items, z.key) /\ z.gpo \in ilt}}
<1>1. ASSUME NEW entries
      PROVE  MergeSettings(entries, ilt) = [settings |-> won(FlattenSeq(ItemLists(entries))),
                                            excludedSettings |-> left(FlattenSeq(ItemLists(entries)))]
  <2> DEFINE all == FlattenSeq(ItemLists(entries))
             Targeted(key) == key[1] \in GppCses /\ \E i \in DOMAIN all : all[i].key = key /\ all[i].gpo \in ilt
             Merged == {k \in BucketKeys(all) : ~Targeted(k) /\ Survivor(Bucket(all, k)) # NoItem}
             Held == {i \in DOMAIN all : Targeted(all[i].key) /\ all[i].gpo \in ilt}
             Left == {[key |-> all[i].key, gpo |-> all[i].gpo] : i \in Held}
  <2>1. MergeSettings(entries, ilt) = [settings |-> {MergeBucket(Bucket(all, k)) : k \in Merged},
                                       excludedSettings |-> Left]
    BY DEF MergeSettings, ItemLists
  <2> HIDE DEF all
  <2>2. \A key : Targeted(key) <=> targeted(all, key)
    BY DEF Range
  <2> HIDE DEF Targeted, targeted
  <2>3. Merged = merged(all)
    BY <2>2
  <2>4. Left = left(all)
    BY <2>2 DEF Range
  <2> HIDE DEF Merged, Left, merged, left
  <2> QED BY <2>1, <2>3, <2>4 DEF all
<1>2. SameItems(u, v)
  OBVIOUS
<1> HIDE DEF u, v
<1>3. Range(u) = Range(v) /\ IsSequence(u) /\ IsSequence(v)
  BY <1>2 DEF SameItems, IsChain
<1>4. BucketKeys(u) = BucketKeys(v)
  BY <1>3, BucketShape
<1>5. \A k \in BucketKeys(u) : /\ Survivor(Bucket(u, k)) = Survivor(Bucket(v, k))
                              /\ MergeBucket(Bucket(u, k)) = MergeBucket(Bucket(v, k))
  BY <1>2, ItemBuckets, BucketMerged
<1>6. \A key : targeted(u, key) <=> targeted(v, key)
  BY <1>3
<1> HIDE DEF targeted
<1>7. left(u) = left(v)
  BY <1>3, <1>6
<1>8. merged(u) = merged(v) /\ merged(u) \subseteq BucketKeys(u)
  BY <1>4, <1>5, <1>6
<1> HIDE DEF merged, left
<1>9. won(u) = won(v)
  BY <1>5, <1>8
<1> HIDE DEF won
<1> QED BY <1>1, <1>7, <1>9 DEF u, v

-----------------------------------------------------------------------------
(* The entries of a chain.                                                 *)

\* Entries of which an order and a key tell one setting.
ClearEntries(x) ==
    /\ IsEntries(x) /\ \A i \in DOMAIN x : IsEntryRecord(x[i])
    /\ \A i, j \in DOMAIN x : x[i].order = x[j].order =>
          \A m \in DOMAIN x[i].settings : \A n \in DOMAIN x[j].settings :
              Key(x[i].settings[m]) = Key(x[j].settings[n]) => i = j /\ m = n

\* Two readings of a chain's entries: the settings of an entry may be in
\* another order, and the entries too.
SameEntry(e, f) == e.gpo = f.gpo /\ e.order = f.order /\ Range(e.settings) = Range(f.settings)
SameEntries(x, y) ==
    /\ ClearEntries(x) /\ ClearEntries(y)
    /\ \A i \in DOMAIN x : \E j \in DOMAIN y : SameEntry(x[i], y[j])
    /\ \A j \in DOMAIN y : \E i \in DOMAIN x : SameEntry(x[i], y[j])

\* Entries made of an estate's settings.
AllSettings(est) == UNION {SettingsOf(est.gpos[id]) : id \in GpoIds(est)}
MadeOf(x, est) == \A i \in DOMAIN x : Range(x[i].settings) \subseteq AllSettings(est)

\* Of such entries an order and a key tell one item.
LEMMA ItemsTold ==
    ASSUME NEW x, ClearEntries(x)
    PROVE  IsChain(FlattenSeq(ItemLists(x))) /\ OneOrderPerKey(FlattenSeq(ItemLists(x)))
<1> DEFINE seqs == ItemLists(x)
           all == FlattenSeq(seqs)
<1>1. IsEntries(x) /\ IsLists(seqs) /\ IsSequence(all) /\ \A it \in Range(all) : it.order \in Nat
  BY ItemsShape DEF ClearEntries
<1>2. DOMAIN seqs = DOMAIN x
  BY DEF ItemLists
<1>3. ASSUME NEW i \in DOMAIN x
      PROVE  /\ DOMAIN seqs[i] = DOMAIN x[i].settings
             /\ \A m \in DOMAIN x[i].settings : /\ seqs[i][m].key = Key(x[i].settings[m])
                                                /\ seqs[i][m].order = x[i].order
  BY DEF ItemLists, ItemsOf
<1> HIDE DEF seqs, all
<1>4. PICK at : IsLayout(at, all, seqs, Len(seqs))
  BY <1>1, Flattened DEF all
<1>5. ASSUME NEW k \in DOMAIN all
      PROVE  /\ at[k][1] \in DOMAIN x /\ at[k][2] \in DOMAIN x[at[k][1]].settings
             /\ at[k][1] \in Nat /\ at[k][2] \in Nat
             /\ all[k].key = Key(x[at[k][1]].settings[at[k][2]]) /\ all[k].order = x[at[k][1]].order
  <2>1. at[k] \in Places(seqs, Len(seqs)) /\ all[k] = seqs[at[k][1]][at[k][2]]
    BY <1>4 DEF IsLayout
  <2>2. DOMAIN seqs = 1..Len(seqs) /\ Len(seqs) \in Nat
    BY <1>1, ListShape DEF IsLists
  <2>3. at[k][1] \in DOMAIN seqs /\ at[k][2] \in DOMAIN seqs[at[k][1]] /\ at[k][1] \in Nat /\ at[k][2] \in Nat
    BY <2>1, <2>2 DEF Places
  <2> QED BY <1>2, <1>3, <2>1, <2>3
<1>6. ASSUME NEW j \in DOMAIN all, NEW k \in DOMAIN all, all[j].key = all[k].key, all[j].order = all[k].order
      PROVE  j = k
  <2>1. at[j][1] = at[k][1] /\ at[j][2] = at[k][2]
    BY <1>5, <1>6 DEF ClearEntries
  <2>2. j \in Nat /\ k \in Nat
    BY <1>1, ListShape
  <2>3. ~Ahead(at[j], at[k]) /\ ~Ahead(at[k], at[j])
    BY <1>5, <2>1 DEF Ahead
  <2>4. (j < k => Ahead(at[j], at[k])) /\ (k < j => Ahead(at[k], at[j]))
    BY <1>4 DEF IsLayout
  <2> QED BY <2>2, <2>3, <2>4
<1>7. \A k \in DOMAIN all : all[k].order \in Nat
  BY <1>1 DEF Range
<1> QED BY <1>1, <1>6, <1>7 DEF IsChain, OneOrderPerKey, all, seqs

\* Two readings of the entries have the same items.
LEMMA ItemsAlike ==
    ASSUME NEW x, NEW y, SameEntries(x, y), NEW est, MadeOf(x, est), OneModeEach(est)
    PROVE  SameItems(FlattenSeq(ItemLists(x)), FlattenSeq(ItemLists(y)))
<1> DEFINE u == FlattenSeq(ItemLists(x))
           v == FlattenSeq(ItemLists(y))
<1>1. IsChain(u) /\ OneOrderPerKey(u) /\ IsChain(v) /\ OneOrderPerKey(v) /\ IsEntries(x) /\ IsEntries(y)
  BY ItemsTold DEF SameEntries, ClearEntries
<1>2. \A it : it \in Range(u) <=> \E i \in DOMAIN x : \E s \in Range(x[i].settings) : it = ItemOf(x[i], s)
  BY <1>1, ItemsShape
<1>3. \A it : it \in Range(v) <=> \E i \in DOMAIN y : \E s \in Range(y[i].settings) : it = ItemOf(y[i], s)
  BY <1>1, ItemsShape
<1> HIDE DEF u, v
<1>4. \A e, f, s : SameEntry(e, f) => ItemOf(e, s) = ItemOf(f, s)
  BY DEF SameEntry, ItemOf
<1>5. Range(u) \subseteq Range(v)
  <2> SUFFICES ASSUME NEW it \in Range(u)
               PROVE  it \in Range(v)
    OBVIOUS
  <2>1. PICK i \in DOMAIN x : \E s \in Range(x[i].settings) : it = ItemOf(x[i], s)
    BY <1>2
  <2>2. PICK j \in DOMAIN y : SameEntry(x[i], y[j])
    BY DEF SameEntries
  <2> QED BY <1>3, <1>4, <2>1, <2>2 DEF SameEntry
<1>6. Range(v) \subseteq Range(u)
  <2> SUFFICES ASSUME NEW it \in Range(v)
               PROVE  it \in Range(u)
    OBVIOUS
  <2>1. PICK j \in DOMAIN y : \E s \in Range(y[j].settings) : it = ItemOf(y[j], s)
    BY <1>3
  <2>2. PICK i \in DOMAIN x : SameEntry(x[i], y[j])
    BY DEF SameEntries
  <2> QED BY <1>2, <1>4, <2>1, <2>2 DEF SameEntry
<1>7. ASSUME NEW p \in Range(u), NEW q \in Range(u), p.key = q.key
      PROVE  p.mode = q.mode
  <2>1. PICK i \in DOMAIN x : \E s \in Range(x[i].settings) : p = ItemOf(x[i], s)
    BY <1>2
  <2>2. PICK s \in Range(x[i].settings) : p = ItemOf(x[i], s)
    BY <2>1
  <2>3. PICK j \in DOMAIN x : \E t \in Range(x[j].settings) : q = ItemOf(x[j], t)
    BY <1>2
  <2>4. PICK t \in Range(x[j].settings) : q = ItemOf(x[j], t)
    BY <2>3
  <2>5. s \in AllSettings(est) /\ t \in AllSettings(est)
    BY DEF MadeOf
  <2>6. Key(s) = Key(t) /\ p.mode = MergeMode(s) /\ q.mode = MergeMode(t)
    BY <1>7, <2>2, <2>4 DEF ItemOf
  <2> QED BY <2>5, <2>6 DEF OneModeEach, AllSettings
<1>8. SameItems(u, v)
  BY <1>1, <1>5, <1>6, <1>7 DEF SameItems
<1> QED BY <1>8 DEF u, v

\* Who gets a GPO is the same in either reading.
LEMMA GateAlike ==
    ASSUME NEW a, NEW b, Alike(a, b), NEW id \in GpoIds(a), NEW token, NEW known
    PROVE  PassesGate(a.gpos[id], token, a, known) = PassesGate(b.gpos[id], token, b, known)
<1> DEFINE g == a.gpos[id]
           h == b.gpos[id]
<1>1. SameGpo(g, h) /\ a.principals = b.principals /\ a.groups = b.groups
  BY DEF Alike
<1> HIDE DEF g, h
<1>2. g.delegation = h.delegation /\ g.sddl = h.sddl
  BY <1>1, SameFields
<1>3. NamesKnown(a, known) = NamesKnown(b, known)
  BY <1>1 DEF NamesKnown
<1>4. \A d : EntrySid(d, a, known) = EntrySid(d, b, known)
  BY <1>3 DEF EntrySid
<1> DEFINE allowed(est, entries) == {EntrySid(d, est, known) : d \in {e \in entries : e.allowed /\ PermissionImpliesApply(e.perm)}} \ {Nobody}
           denied(est, entries) == {EntrySid(d, est, known) : d \in {e \in entries : ~e.allowed /\ PermissionImpliesRead(e.perm)}} \ {Nobody}
           listed(est, entries) == [allow |-> allowed(est, entries), deny |-> denied(est, entries)]
           dacl(sddl) == ParseSddl(sddl).dacl
           sids(sddl) == {CanonicalSddlSid(ace.sid, known) : ace \in dacl(sddl)}
           allow(sddl, s) == AceRights({ace \in dacl(sddl) : IsAllow(ace)}, known, s)
           deny(sddl, s) == AceRights({ace \in dacl(sddl) : IsDeny(ace)}, known, s)
           read(sddl) == [allow |-> {s \in sids(sddl) : (allow(sddl, s) \ deny(sddl, s)) \cap ApplyRights # {}},
                          deny |-> {s \in sids(sddl) : deny(sddl, s) \cap ReadOrApplyRights # {}}]
<1>5. ASSUME NEW est, NEW x
      PROVE  ApplyTrustees(x, est, known) = IF x.delegation # {} THEN listed(est, x.delegation) ELSE read(x.sddl)
  BY DEF ApplyTrustees
<1>6. listed(a, g.delegation) = listed(b, h.delegation)
  BY <1>2, <1>4
<1> HIDE DEF listed, read
<1>7. ApplyTrustees(g, a, known) = ApplyTrustees(h, b, known)
  BY <1>2, <1>5, <1>6
<1>8. PassesGate(g, token, a, known) = PassesGate(h, token, b, known)
  BY <1>2, <1>7 DEF PassesGate, Admits
<1> QED BY <1>8 DEF g, h

\* The settings of one side that are in force.
LEMMA LiveAlike ==
    ASSUME NEW g, NEW h, SameGpo(g, h), OneSettingEach(g), NEW side
    PROVE  /\ Range(LiveSettings(g, side)) = Range(LiveSettings(h, side))
           /\ LiveSettings(g, side) = <<>> <=> LiveSettings(h, side) = <<>>
           /\ \A m, n \in DOMAIN LiveSettings(g, side) :
                 Key(LiveSettings(g, side)[m]) = Key(LiveSettings(g, side)[n]) => m = n
<1> DEFINE p == LiveSettings(g, side)
           q == LiveSettings(h, side)
           keep == {i \in DOMAIN g.settings : g.settings[i].side = side /\ ~g.settings[i].off}
<1>1. IsSequence(g.settings) /\ IsSequence(h.settings) /\ SettingsOf(g) = SettingsOf(h)
  BY DEF SameGpo
<1>2. /\ IsSequence(p) /\ Range(p) = {s \in SettingsOf(g) : s.side = side /\ ~s.off}
      /\ IsSequence(q) /\ Range(q) = {s \in SettingsOf(h) : s.side = side /\ ~s.off}
  BY <1>1, LiveShape
<1>3. p = Kept(g.settings, keep)
  BY DEF LiveSettings
<1> HIDE DEF p, q, keep
<1>4. \A s : IsSequence(s) /\ Range(s) = {} => s = <<>>
  BY OnlyEmpty DEF Range
<1>5. p = <<>> <=> q = <<>>
  BY <1>1, <1>2, <1>4, EmptyShape
<1>6. PICK at : IsPick(at, p, g.settings, keep)
  BY <1>1, <1>3, KeptShape
<1>7. ASSUME NEW m \in DOMAIN p, NEW n \in DOMAIN p, Key(p[m]) = Key(p[n])
      PROVE  m = n
  <2>1. \A i \in DOMAIN p : at[i] \in DOMAIN g.settings /\ p[i] = g.settings[at[i]]
    BY <1>6 DEF IsPick
  <2>2. at[m] = at[n]
    BY <1>7, <2>1 DEF OneSettingEach
  <2>3. m \in Nat /\ n \in Nat
    BY <1>2, ListShape
  <2>4. at[m] \in Nat /\ at[n] \in Nat
    BY <1>1, <2>1, ListShape
  <2>5. m < n => at[m] < at[n]
    BY <1>6 DEF IsPick
  <2>6. n < m => at[n] < at[m]
    BY <1>6 DEF IsPick
  <2> QED BY <2>2, <2>3, <2>4, <2>5, <2>6
<1> QED BY <1>1, <1>2, <1>5, <1>7 DEF p, q

\* What a chain collects is the same in either reading.
LEMMA CollectAlike ==
    ASSUME NEW a, NEW b, Alike(a, b), KeysClear(a), NEW k, NEW l, SameLinks(k, l),
           NEW side, NEW token, NEW known, NEW already
    PROVE  LET c == CollectChain(a, k, side, token, known, already)
               d == CollectChain(b, l, side, token, known, already)
           IN  /\ SameEntries(c.entries, d.entries) /\ c.excluded = d.excluded
               /\ MadeOf(c.entries, a)
<1> DEFINE keep(links) == {i \in DOMAIN links :
                       links[i].enabled /\ links[i].gpo \in GpoIds(a) /\ links[i].gpo \notin already}
           live(links) == Kept(links, keep(links))
           ids(links) == {live(links)[i].gpo : i \in DOMAIN live(links)}
           verdict(est, links) == Verdicts(est, ids(links), token, known)
           kept(est, links) == {i \in DOMAIN live(links) : verdict(est, links)[live(links)[i].gpo] = "pass"
                                        /\ LiveSettings(est.gpos[live(links)[i].gpo], side) # <<>>}
           passed(est, links) == Kept(live(links), kept(est, links))
           entries(est, links) == [i \in DOMAIN passed(est, links) |-> EntryOf(est, passed(est, links)[i], side)]
           excluded(v) == {[gpo |-> id, kind |-> v[id], side |-> side] : id \in {x \in DOMAIN v : v[x] # "pass"}}
           c == CollectChain(a, k, side, token, known, already)
           d == CollectChain(b, l, side, token, known, already)
<1>1. GpoIds(a) = GpoIds(b) /\ IsEstate(a) /\ IsEstate(b) /\ KeysClear(b)
  BY KeysClearAlike DEF Alike
<1>2. ASSUME NEW est, NEW links, GpoIds(est) = GpoIds(a)
      PROVE  CollectChain(est, links, side, token, known, already)
               = [entries |-> entries(est, links), excluded |-> excluded(verdict(est, links))]
  BY <1>2 DEF CollectChain, Gated, EntryOf
<1>3. /\ c = [entries |-> entries(a, k), excluded |-> excluded(verdict(a, k))]
      /\ d = [entries |-> entries(b, l), excluded |-> excluded(verdict(b, l))]
  <2> HIDE DEF entries, excluded, verdict
  <2> QED BY <1>1, <1>2
<1>4. SameLinks(live(k), live(l)) /\ \A x \in Range(live(k)) : x.gpo \in GpoIds(a)
  <2>1. {k[i] : i \in keep(k)} = {l[i] : i \in keep(l)}
    <3>1. Range(k) = Range(l)
      BY DEF SameLinks
    <3> QED BY <3>1 DEF Range
  <2>2. keep(k) \subseteq DOMAIN k /\ keep(l) \subseteq DOMAIN l
    OBVIOUS
  <2>3. \A i \in keep(k) : k[i].gpo \in GpoIds(a)
    OBVIOUS
  <2> HIDE DEF keep
  <2>4. SameLinks(live(k), live(l))
    BY <2>1, <2>2, KeptAlike
  <2>5. Range(live(k)) = {k[i] : i \in DOMAIN k \cap keep(k)}
    BY KeptShape DEF SameLinks, IsChain
  <2> HIDE DEF live
  <2> QED BY <2>3, <2>4, <2>5
<1> HIDE DEF live
<1>5. ids(k) = ids(l) /\ ids(k) \subseteq GpoIds(a)
  BY <1>4 DEF SameLinks, Range
<1>6. verdict(a, k) = verdict(b, l) /\ DOMAIN verdict(a, k) = ids(k)
  <2>1. \A id \in ids(k) : /\ PassesGate(a.gpos[id], token, a, known) = PassesGate(b.gpos[id], token, b, known)
                          /\ a.gpos[id].wmi = b.gpos[id].wmi
    BY <1>5, GateAlike, SameFields DEF Alike
  <2> HIDE DEF ids
  <2> QED BY <1>5, <2>1 DEF Verdicts
<1> HIDE DEF verdict, ids
<1>7. ASSUME NEW id \in GpoIds(a)
      PROVE  /\ Range(LiveSettings(a.gpos[id], side)) = Range(LiveSettings(b.gpos[id], side))
             /\ LiveSettings(a.gpos[id], side) = <<>> <=> LiveSettings(b.gpos[id], side) = <<>>
  BY LiveAlike DEF Alike, KeysClear
<1>8. SameLinks(passed(a, k), passed(b, l)) /\ Range(passed(a, k)) \subseteq Range(live(k))
  <2>1. {live(k)[i] : i \in kept(a, k)} = {live(l)[i] : i \in kept(b, l)}
    <3> DEFINE ok(est, v, x) == v[x.gpo] = "pass" /\ LiveSettings(est.gpos[x.gpo], side) # <<>>
    <3>1. /\ {live(k)[i] : i \in kept(a, k)} = {x \in Range(live(k)) : ok(a, verdict(a, k), x)}
          /\ {live(l)[i] : i \in kept(b, l)} = {x \in Range(live(l)) : ok(b, verdict(b, l), x)}
      BY DEF Range
    <3>2. \A x \in Range(live(k)) : ok(a, verdict(a, k), x) <=> ok(b, verdict(b, l), x)
      BY <1>4, <1>6, <1>7
    <3>3. Range(live(k)) = Range(live(l))
      BY <1>4 DEF SameLinks
    <3> HIDE DEF ok, kept
    <3> QED BY <3>1, <3>2, <3>3
  <2>2. kept(a, k) \subseteq DOMAIN live(k) /\ kept(b, l) \subseteq DOMAIN live(l)
    OBVIOUS
  <2> HIDE DEF kept
  <2>3. SameLinks(passed(a, k), passed(b, l))
    BY <1>4, <2>1, <2>2, KeptAlike
  <2>4. Range(passed(a, k)) = {live(k)[i] : i \in DOMAIN live(k) \cap kept(a, k)}
    BY <1>4, KeptShape DEF SameLinks, IsChain
  <2> HIDE DEF passed
  <2> QED BY <2>3, <2>4 DEF Range
<1> HIDE DEF passed
<1>9. ASSUME NEW x, NEW y, Alike(x, y), KeysClear(x), NEW p, IsChain(p), OneOrderEach(p),
             \A i \in DOMAIN p : p[i].gpo \in GpoIds(x)
      PROVE  /\ ClearEntries([i \in DOMAIN p |-> EntryOf(x, p[i], side)])
             /\ MadeOf([i \in DOMAIN p |-> EntryOf(x, p[i], side)], x)
  <2> DEFINE es == [i \in DOMAIN p |-> EntryOf(x, p[i], side)]
  <2>1. IsSequence(es) /\ DOMAIN es = DOMAIN p
    BY <1>9, MappedShape DEF IsChain
  <2>2. ASSUME NEW i \in DOMAIN p
        PROVE  /\ es[i].order = p[i].order /\ es[i].order \in Nat /\ IsEntryRecord(es[i])
               /\ es[i].settings = LiveSettings(x.gpos[p[i].gpo], side)
               /\ IsSequence(es[i].settings) /\ Range(es[i].settings) \subseteq AllSettings(x)
               /\ \A m, n \in DOMAIN es[i].settings : Key(es[i].settings[m]) = Key(es[i].settings[n]) => m = n
    <3> DEFINE g == x.gpos[p[i].gpo]
    <3>1. IsSequence(g.settings) /\ OneSettingEach(g) /\ SameGpo(g, y.gpos[p[i].gpo])
      BY <1>9 DEF Alike, KeysClear, SameGpo
    <3>2. es[i] = EntryOf(x, p[i], side)
      OBVIOUS
    <3>3. p[i].order \in Nat
      BY <1>9 DEF IsChain
    <3>4. IsSequence(LiveSettings(g, side)) /\ Range(LiveSettings(g, side)) \subseteq SettingsOf(g)
      BY <3>1, LiveShape
    <3>5. SettingsOf(g) \subseteq AllSettings(x)
      BY <1>9 DEF AllSettings
    <3>6. \A m, n \in DOMAIN LiveSettings(g, side) :
                 Key(LiveSettings(g, side)[m]) = Key(LiveSettings(g, side)[n]) => m = n
      BY <3>1, LiveAlike
    <3> QED BY <3>2, <3>3, <3>4, <3>5, <3>6 DEF EntryOf, IsEntryRecord
  <2> HIDE DEF es
  <2>3. \A i, j \in DOMAIN es : es[i].order = es[j].order => i = j
    BY <1>9, <2>1, <2>2 DEF OneOrderEach
  <2>4. ClearEntries(es) /\ MadeOf(es, x)
    BY <2>1, <2>2, <2>3 DEF ClearEntries, IsEntries, MadeOf
  <2> QED BY <2>4 DEF es
<1>10. /\ ClearEntries(entries(a, k)) /\ MadeOf(entries(a, k), a) /\ ClearEntries(entries(b, l))
  <2>1. /\ IsChain(passed(a, k)) /\ OneOrderEach(passed(a, k)) /\ IsChain(passed(b, l)) /\ OneOrderEach(passed(b, l))
        /\ \A i \in DOMAIN passed(a, k) : passed(a, k)[i].gpo \in GpoIds(a)
        /\ \A i \in DOMAIN passed(b, l) : passed(b, l)[i].gpo \in GpoIds(b)
    BY <1>1, <1>4, <1>8 DEF SameLinks, Range
  <2>2. Alike(b, a)
    BY AlikeSymmetric
  <2> QED BY <1>1, <1>9, <2>1, <2>2
<1>11. \A x \in Range(passed(a, k)) : SameEntry(EntryOf(a, x, side), EntryOf(b, x, side))
  BY <1>4, <1>7, <1>8 DEF SameEntry, EntryOf
<1>12. Range(passed(a, k)) = Range(passed(b, l))
  BY <1>8 DEF SameLinks
<1>13. \A i \in DOMAIN entries(a, k) : \E j \in DOMAIN entries(b, l) : SameEntry(entries(a, k)[i], entries(b, l)[j])
  BY <1>11, <1>12 DEF Range
<1>14. \A j \in DOMAIN entries(b, l) : \E i \in DOMAIN entries(a, k) : SameEntry(entries(a, k)[i], entries(b, l)[j])
  BY <1>11, <1>12 DEF Range
<1> HIDE DEF entries, excluded, c, d
<1>15. SameEntries(entries(a, k), entries(b, l))
  BY <1>10, <1>13, <1>14 DEF SameEntries
<1>16. c.entries = entries(a, k) /\ d.entries = entries(b, l) /\ c.excluded = d.excluded
  BY <1>3, <1>6
<1> QED BY <1>10, <1>15, <1>16 DEF c, d

\* Entries of two lists of which no order and key is in both.
Apart(x, y) == \A i \in DOMAIN x : \A j \in DOMAIN y : x[i].order = y[j].order =>
    \A s \in Range(x[i].settings) : \A t \in Range(y[j].settings) : Key(s) # Key(t)

\* One list of entries put after another, when they are apart.
LEMMA ClearJoined ==
    ASSUME NEW x, ClearEntries(x), NEW y, ClearEntries(y), Apart(x, y)
    PROVE  ClearEntries(x \o y)
<1> DEFINE c == x \o y
           n == Len(x)
<1>1. /\ IsEntries(c) /\ IsConcat(c, x, y) /\ n \in Nat
      /\ \A k \in DOMAIN c : k \in DOMAIN x \/ \E m \in DOMAIN y : k = n + m
  BY EntriesJoined DEF ClearEntries
<1> HIDE DEF c, n
<1>2. \A k \in DOMAIN x : c[k] = x[k]
  BY <1>1 DEF IsConcat
<1>3. \A m \in DOMAIN y : c[n + m] = y[m]
  BY <1>1 DEF IsConcat, n
<1>4. \A k \in DOMAIN c : IsEntryRecord(c[k])
  BY <1>1, <1>2, <1>3 DEF ClearEntries
<1>5. ASSUME NEW i \in DOMAIN c, NEW j \in DOMAIN c, c[i].order = c[j].order,
             NEW u \in DOMAIN c[i].settings, NEW v \in DOMAIN c[j].settings,
             Key(c[i].settings[u]) = Key(c[j].settings[v])
      PROVE  i = j /\ u = v
  <2>1. c[i].settings[u] \in Range(c[i].settings) /\ c[j].settings[v] \in Range(c[j].settings)
    BY DEF Range
  <2>2. CASE i \in DOMAIN x /\ j \in DOMAIN x
    BY <1>2, <1>5, <2>2 DEF ClearEntries
  <2>3. CASE i \in DOMAIN x /\ \E m \in DOMAIN y : j = n + m
    BY <1>2, <1>3, <1>5, <2>1, <2>3 DEF Apart
  <2>4. CASE j \in DOMAIN x /\ \E m \in DOMAIN y : i = n + m
    BY <1>2, <1>3, <1>5, <2>1, <2>4 DEF Apart
  <2>5. CASE (\E m \in DOMAIN y : i = n + m) /\ (\E m \in DOMAIN y : j = n + m)
    <3>1. PICK m \in DOMAIN y : i = n + m
      BY <2>5
    <3>2. PICK o \in DOMAIN y : j = n + o
      BY <2>5
    <3>3. c[i] = y[m] /\ c[j] = y[o]
      BY <1>3, <3>1, <3>2
    <3>4. m = o /\ u = v
      BY <1>5, <3>3 DEF ClearEntries
    <3> QED BY <3>1, <3>2, <3>4
  <2> QED BY <1>1, <2>2, <2>3, <2>4, <2>5
<1>6. ClearEntries(c)
  BY <1>1, <1>4, <1>5 DEF ClearEntries
<1> QED BY <1>6 DEF c

\* Two readings put after two readings.
LEMMA JoinedAlike ==
    ASSUME NEW x, NEW y, SameEntries(x, y), NEW u, NEW v, SameEntries(u, v), Apart(x, u), Apart(y, v)
    PROVE  SameEntries(x \o u, y \o v)
<1> DEFINE c == x \o u
           d == y \o v
<1>1. IsEntries(x) /\ IsEntries(y) /\ IsEntries(u) /\ IsEntries(v)
  BY DEF SameEntries, ClearEntries
<1>2. ClearEntries(c) /\ ClearEntries(d)
  BY ClearJoined DEF SameEntries
<1>3. ASSUME NEW p, NEW q, IsEntries(p), IsEntries(q)
      PROVE  /\ Range(p \o q) = Range(p) \cup Range(q)
             /\ \A e : e \in Range(p) <=> \E i \in DOMAIN p : e = p[i]
  <2>1. IsConcat(p \o q, p, q)
    BY <1>3, EntriesJoined
  <2> QED BY <2>1 DEF IsConcat, Range
<1>4. /\ \A e : e \in Range(c) <=> e \in Range(x) \/ e \in Range(u)
      /\ \A e : e \in Range(d) <=> e \in Range(y) \/ e \in Range(v)
  BY <1>1, <1>3
<1> HIDE DEF c, d
<1>5. /\ \A e \in Range(x) : \E f \in Range(y) : SameEntry(e, f)
      /\ \A f \in Range(y) : \E e \in Range(x) : SameEntry(e, f)
      /\ \A e \in Range(u) : \E f \in Range(v) : SameEntry(e, f)
      /\ \A f \in Range(v) : \E e \in Range(u) : SameEntry(e, f)
  BY DEF SameEntries, Range
<1>6. /\ \A e \in Range(c) : \E f \in Range(d) : SameEntry(e, f)
      /\ \A f \in Range(d) : \E e \in Range(c) : SameEntry(e, f)
  BY <1>4, <1>5
<1>7. /\ \A i \in DOMAIN c : \E j \in DOMAIN d : SameEntry(c[i], d[j])
      /\ \A j \in DOMAIN d : \E i \in DOMAIN c : SameEntry(c[i], d[j])
  BY <1>6 DEF Range
<1>8. SameEntries(c, d)
  BY <1>2, <1>7 DEF SameEntries
<1> QED BY <1>8 DEF c, d

\* What is made of an estate's settings, joined or raised.
LEMMA MadeJoined ==
    ASSUME NEW est, NEW x, IsEntries(x), MadeOf(x, est), NEW y, IsEntries(y), MadeOf(y, est)
    PROVE  MadeOf(x \o y, est)
<1>1. IsConcat(x \o y, x, y)
  BY EntriesJoined
<1>2. \A i \in DOMAIN (x \o y) : (x \o y)[i] \in Range(x) \cup Range(y)
  BY <1>1 DEF IsConcat, Range
<1> QED BY <1>2 DEF MadeOf, Range

\* Raised above two readings of what is below, two readings stay alike.
LEMMA RaisedAlike ==
    ASSUME NEW x, NEW y, SameEntries(x, y), NEW u, NEW v, SameEntries(u, v)
    PROVE  /\ SameEntries(ShiftAbove(x, u), ShiftAbove(y, v))
           /\ Apart(x, ShiftAbove(x, u)) /\ Apart(y, ShiftAbove(y, v))
           /\ DOMAIN ShiftAbove(x, u) = DOMAIN u
           /\ \A i \in DOMAIN u : ShiftAbove(x, u)[i].settings = u[i].settings
           /\ DOMAIN ShiftAbove(y, v) = DOMAIN v
           /\ \A i \in DOMAIN v : ShiftAbove(y, v)[i].settings = v[i].settings
<1> DEFINE Offset(below) == IF below = <<>> THEN 0 ELSE Max({below[i].order : i \in DOMAIN below}) + 1
           p == ShiftAbove(x, u)
           q == ShiftAbove(y, v)
<1>1. ClearEntries(x) /\ ClearEntries(y) /\ ClearEntries(u) /\ ClearEntries(v)
  BY DEF SameEntries
<1>2. Offset(x) = Offset(y)
  <2>1. {x[i].order : i \in DOMAIN x} = {y[i].order : i \in DOMAIN y}
    BY DEF SameEntries, SameEntry
  <2>2. DOMAIN x = {} <=> DOMAIN y = {}
    BY DEF SameEntries
  <2>3. x = <<>> <=> y = <<>>
    BY <1>1, <2>2, OnlyEmpty, EmptyShape DEF ClearEntries, IsEntries
  <2> QED BY <2>1, <2>3
<1>3. ASSUME NEW below, NEW s, ClearEntries(below), ClearEntries(s)
      PROVE  /\ ClearEntries(ShiftAbove(below, s)) /\ Apart(below, ShiftAbove(below, s))
             /\ DOMAIN ShiftAbove(below, s) = DOMAIN s
             /\ \A i \in DOMAIN s : LET e == ShiftAbove(below, s)[i]
                                    IN  e.gpo = s[i].gpo /\ e.settings = s[i].settings /\ e.order = s[i].order + Offset(below)
  <2> DEFINE up == ShiftAbove(below, s)
  <2>0. IsEntries(below) /\ IsEntries(s) /\ \A i \in DOMAIN s : IsEntryRecord(s[i])
    BY <1>3 DEF ClearEntries
  <2>1. /\ IsEntries(up) /\ DOMAIN up = DOMAIN s
        /\ \E offset \in Nat :
              /\ \A i \in DOMAIN s : /\ up[i].order = s[i].order + offset
                                     /\ up[i].gpo = s[i].gpo /\ up[i].settings = s[i].settings
              /\ \A i \in DOMAIN below : below[i].order < offset
    BY <2>0, Raised
  <2>2. up = [i \in DOMAIN s |-> [s[i] EXCEPT !.order = @ + Offset(below)]]
    BY DEF ShiftAbove
  <2> HIDE DEF Offset
  <2>3. ASSUME NEW i \in DOMAIN s
        PROVE  IsEntryRecord(up[i]) /\ up[i].order = s[i].order + Offset(below)
    <3> DEFINE e == s[i]
               f == up[i]
    <3>1. f = [e EXCEPT !.order = @ + Offset(below)] /\ IsEntryRecord(e)
      BY <2>0, <2>2
    <3> HIDE DEF e, f
    <3>2. IsEntryRecord(f) /\ f.order = e.order + Offset(below)
      BY <3>1 DEF IsEntryRecord
    <3> QED BY <3>2 DEF e, f
  <2> HIDE DEF up
  <2>4. PICK offset \in Nat :
              /\ \A i \in DOMAIN s : /\ up[i].order = s[i].order + offset
                                     /\ up[i].gpo = s[i].gpo /\ up[i].settings = s[i].settings
              /\ \A i \in DOMAIN below : below[i].order < offset
    BY <2>1
  <2>5. \A i \in DOMAIN s : s[i].order \in Nat
    BY <2>0 DEF IsEntries
  <2>6. \A i, j \in DOMAIN s : up[i].order = up[j].order => s[i].order = s[j].order
    BY <2>4, <2>5
  <2>7. ClearEntries(up)
    BY <1>3, <2>1, <2>3, <2>4, <2>6 DEF ClearEntries
  <2>8. Apart(below, up)
    <3>1. \A i \in DOMAIN below, j \in DOMAIN up : below[i].order # up[j].order
      <4>1. \A i \in DOMAIN below : below[i].order \in Nat
        BY <2>0 DEF IsEntries
      <4> QED BY <2>1, <2>4, <2>5, <4>1
    <3> QED BY <3>1 DEF Apart
  <2> QED BY <2>1, <2>3, <2>4, <2>7, <2>8 DEF up
<1> HIDE DEF Offset
<1>4. /\ ClearEntries(p) /\ Apart(x, p) /\ DOMAIN p = DOMAIN u
      /\ \A i \in DOMAIN u : p[i].gpo = u[i].gpo /\ p[i].settings = u[i].settings /\ p[i].order = u[i].order + Offset(x)
  BY <1>1, <1>3
<1>5. /\ ClearEntries(q) /\ Apart(y, q) /\ DOMAIN q = DOMAIN v
      /\ \A i \in DOMAIN v : q[i].gpo = v[i].gpo /\ q[i].settings = v[i].settings /\ q[i].order = v[i].order + Offset(y)
  BY <1>1, <1>3
<1> HIDE DEF p, q
<1>6. \A i \in DOMAIN u, j \in DOMAIN v : SameEntry(u[i], v[j]) => SameEntry(p[i], q[j])
  BY <1>2, <1>4, <1>5 DEF SameEntry
<1>7. SameEntries(p, q)
  BY <1>4, <1>5, <1>6 DEF SameEntries
<1> QED BY <1>4, <1>5, <1>7 DEF p, q

\* The entries of a user on a computer.
LEMMA PairAlike ==
    ASSUME NEW a, NEW b, Alike(a, b), KeysClear(a), NEW k, NEW l, SameLinks(k, l),
           NEW kc, NEW lc, SameLinks(kc, lc), NEW mode, NEW own, NEW comp, NEW known
    PROVE  LET c == PairChain(a, k, kc, mode, own, comp, known)
               d == PairChain(b, l, lc, mode, own, comp, known)
           IN  SameEntries(c.entries, d.entries) /\ c.excluded = d.excluded /\ MadeOf(c.entries, a)
<1> DEFINE mine(est, links) == CollectChain(est, links, "User", own \cup comp, known, {})
           yours(est, compLinks) == CollectChain(est, compLinks, "User", comp, known, {})
           skipped(est, links) == IF mode = "replace" THEN {} ELSE {e.gpo : e \in mine(est, links).excluded}
           machine(est, links, compLinks) ==
               CollectChain(est, compLinks, "Computer", own \cup comp, known, skipped(est, links))
           c == PairChain(a, k, kc, mode, own, comp, known)
           d == PairChain(b, l, lc, mode, own, comp, known)
           U == mine(a, k)
           V == mine(b, l)
           S == yours(a, kc)
           T == yours(b, lc)
           M == machine(a, k, kc)
           N == machine(b, l, lc)
<1>1. \A est, links, compLinks : PairChain(est, links, compLinks, mode, own, comp, known)
          = Joined(mode, mine(est, links), yours(est, compLinks), machine(est, links, compLinks))
  BY DEF PairChain, PairEntries
<1>2. IsEstate(a) /\ IsEstate(b) /\ IsChain(k) /\ IsChain(l) /\ IsChain(kc) /\ IsChain(lc)
  BY DEF Alike, SameLinks
<1>3. SameEntries(U.entries, V.entries) /\ U.excluded = V.excluded /\ MadeOf(U.entries, a)
  BY CollectAlike
<1>4. SameEntries(S.entries, T.entries) /\ S.excluded = T.excluded /\ MadeOf(S.entries, a)
  BY CollectAlike
<1>5. skipped(a, k) = skipped(b, l)
  BY <1>3
<1>6. SameEntries(M.entries, N.entries) /\ M.excluded = N.excluded /\ MadeOf(M.entries, a)
  <2> HIDE DEF skipped
  <2>1. N = CollectChain(b, lc, "Computer", own \cup comp, known, skipped(a, k))
    BY <1>5
  <2> HIDE DEF N
  <2> QED BY <2>1, CollectAlike
<1> DEFINE Of(x, side) == \A i \in DOMAIN x : \A s \in Range(x[i].settings) : s.side = side
<1>7. /\ Of(U.entries, "User") /\ Of(V.entries, "User") /\ Of(S.entries, "User") /\ Of(T.entries, "User")
      /\ Of(M.entries, "Computer") /\ Of(N.entries, "Computer")
  <2>1. Of(U.entries, "User")
    BY <1>2, OneSided
  <2>2. Of(V.entries, "User")
    BY <1>2, OneSided
  <2>3. Of(S.entries, "User")
    BY <1>2, OneSided
  <2>4. Of(T.entries, "User")
    BY <1>2, OneSided
  <2>5. Of(M.entries, "Computer")
    <3> HIDE DEF skipped
    <3> QED BY <1>2, OneSided
  <2>6. Of(N.entries, "Computer")
    <3> HIDE DEF skipped
    <3> QED BY <1>2, OneSided
  <2> QED BY <2>1, <2>2, <2>3, <2>4, <2>5, <2>6
<1>8. \A x, y : Of(x, "User") /\ Of(y, "Computer") => Apart(x, y)
  BY DEF Apart, Key
<1>9. c = Joined(mode, U, S, M) /\ d = Joined(mode, V, T, N)
  BY <1>1
<1> HIDE DEF U, V, S, T, M, N, c, d
<1> DEFINE p == U.entries \o ShiftAbove(U.entries, S.entries)
           q == V.entries \o ShiftAbove(V.entries, T.entries)
<1>10. SameEntries(p, q) /\ MadeOf(p, a) /\ Of(p, "User") /\ Of(q, "User")
  <2> DEFINE u == ShiftAbove(U.entries, S.entries)
             v == ShiftAbove(V.entries, T.entries)
  <2>1. /\ SameEntries(u, v) /\ Apart(U.entries, u) /\ Apart(V.entries, v)
        /\ DOMAIN u = DOMAIN S.entries /\ \A i \in DOMAIN S.entries : u[i].settings = S.entries[i].settings
        /\ DOMAIN v = DOMAIN T.entries /\ \A i \in DOMAIN T.entries : v[i].settings = T.entries[i].settings
    BY <1>3, <1>4, RaisedAlike
  <2>2. MadeOf(u, a) /\ Of(u, "User") /\ Of(v, "User")
    BY <1>4, <1>7, <2>1 DEF MadeOf
  <2> HIDE DEF u, v
  <2>3. SameEntries(p, q)
    BY <1>3, <2>1, JoinedAlike DEF u, v
  <2>4. IsEntries(U.entries) /\ IsEntries(u) /\ IsEntries(V.entries) /\ IsEntries(v)
    BY <1>3, <2>1 DEF SameEntries, ClearEntries
  <2>5. MadeOf(U.entries \o u, a)
    BY <1>3, <2>2, <2>4, MadeJoined
  <2>6. ASSUME NEW x, NEW y, IsEntries(x), IsEntries(y), Of(x, "User"), Of(y, "User")
        PROVE  Of(x \o y, "User")
    <3>1. IsConcat(x \o y, x, y)
      BY <2>6, EntriesJoined
    <3>2. \A i \in DOMAIN (x \o y) : (x \o y)[i] \in Range(x) \cup Range(y)
      BY <3>1 DEF IsConcat, Range
    <3> QED BY <2>6, <3>2 DEF Range
  <2>7. Of(U.entries \o u, "User") /\ Of(V.entries \o v, "User")
    <3> HIDE DEF Of
    <3> QED BY <1>7, <2>2, <2>4, <2>6
  <2> QED BY <2>3, <2>5, <2>7 DEF u, v
<1> HIDE DEF p, q
<1> DEFINE x == IF mode = "replace" THEN S.entries ELSE IF mode = "merge" THEN p ELSE U.entries
           y == IF mode = "replace" THEN T.entries ELSE IF mode = "merge" THEN q ELSE V.entries
<1>11. SameEntries(x, y) /\ MadeOf(x, a) /\ Of(x, "User") /\ Of(y, "User")
  <2> HIDE DEF Of
  <2> QED BY <1>3, <1>4, <1>7, <1>10
<1>12. c.entries = x \o M.entries /\ d.entries = y \o N.entries
  BY <1>9 DEF Joined, p, q
<1>13. c.excluded = d.excluded
  BY <1>3, <1>4, <1>6, <1>9 DEF Joined
<1> HIDE DEF x, y
<1>14. Apart(x, M.entries) /\ Apart(y, N.entries)
  <2> HIDE DEF Of
  <2> QED BY <1>7, <1>8, <1>11
<1>15. SameEntries(x \o M.entries, y \o N.entries)
  BY <1>6, <1>11, <1>14, JoinedAlike
<1>16. MadeOf(x \o M.entries, a)
  BY <1>6, <1>11, MadeJoined DEF SameEntries, ClearEntries
<1> QED BY <1>12, <1>13, <1>15, <1>16 DEF c, d

-----------------------------------------------------------------------------
(* The resultant policy of either reading.                                 *)

\* What is said of a resultant: all but the entries it was made of.
Said(policy) == [policy EXCEPT !.entries = {}]

\* Two readings of the entries of a chain amount to one policy.
LEMMA PolicyAlike ==
    ASSUME NEW a, NEW b, Alike(a, b), KeysClear(a), NEW c, NEW d, SameEntries(c.entries, d.entries),
           c.excluded = d.excluded, MadeOf(c.entries, a), NEW to, NEW dangers
    PROVE  Said(PolicyOf(a, to, c, dangers)) = Said(PolicyOf(b, to, d, dangers))
<1> DEFINE told(excluded, merge) ==
               [side |-> to.side, loopback |-> to.loopback, caveats |-> to.caveats,
                settings |-> merge.settings, excluded |-> excluded,
                excludedSettings |-> merge.excludedSettings, entries |-> {},
                conditional |-> ConditionalDangers(excluded, merge.excludedSettings, dangers)]
           m == MergeSettings(c.entries, IltGpos(a))
           n == MergeSettings(d.entries, IltGpos(b))
<1>1. IltGpos(a) = IltGpos(b)
  BY HygieneAlike
<1>2. m = n
  <2>1. SameItems(FlattenSeq(ItemLists(c.entries)), FlattenSeq(ItemLists(d.entries)))
    BY ItemsAlike DEF KeysClear
  <2>2. MergeSettings(c.entries, IltGpos(a)) = MergeSettings(d.entries, IltGpos(a))
    BY <2>1, MergeAlike
  <2> QED BY <1>1, <2>2
<1>3. PolicyOf(a, to, c, dangers) = Policy(to, c, m, dangers) /\ PolicyOf(b, to, d, dangers) = Policy(to, d, n, dangers)
  BY DEF PolicyOf
<1> HIDE DEF m, n
<1>4. \A chain, merge : Said(Policy(to, chain, merge, dangers)) = told(chain.excluded, merge)
  BY DEF Said, Policy
<1> HIDE DEF told
<1> QED BY <1>2, <1>3, <1>4

\* Who somebody is, and what is known of the groups, is in neither the GPOs
\* nor the containers.
LEMMA TokensAlike ==
    ASSUME NEW a, NEW b, Alike(a, b), NEW w
    PROVE  /\ PrincipalType(a, w) = PrincipalType(b, w) /\ BuildToken(a, w) = BuildToken(b, w)
           /\ TokenCaveats(a, w) = TokenCaveats(b, w) /\ DomainKnown(a, w) = DomainKnown(b, w)
<1>1. a.principals = b.principals /\ a.groups = b.groups
  BY DEF Alike
<1>2. PrincipalType(a, w) = PrincipalType(b, w)
  BY <1>1 DEF PrincipalType
<1>3. BaseToken(a, w) = BaseToken(b, w)
  BY <1>2 DEF BaseToken
<1>4. \A from : GroupsOf(a, from) = GroupsOf(b, from)
  BY <1>1 DEF GroupsOf
<1>5. BuildToken(a, w) = BuildToken(b, w)
  BY <1>3, <1>4 DEF BuildToken
<1>6. TokenCaveats(a, w) = TokenCaveats(b, w)
  BY <1>1, <1>5 DEF TokenCaveats
<1>7. DomainKnown(a, w) = DomainKnown(b, w)
  BY <1>1 DEF DomainKnown, EstateDomainKnown
<1> QED BY <1>2, <1>5, <1>6, <1>7

\* The loopback in force is that of the enabled links, in whatever order.
LEMMA LoopbackAlike ==
    ASSUME NEW a, NEW b, Alike(a, b), NEW k, NEW l, SameLinks(k, l)
    PROVE  ActiveLoopback(a, k) = ActiveLoopback(b, l)
<1> DEFINE enabled(links) == {links[i].gpo : i \in {j \in DOMAIN links : links[j].enabled}}
<1>1. \A links : enabled(links) = {x.gpo : x \in {y \in Range(links) : y.enabled}}
  BY DEF Range
<1>2. enabled(k) = enabled(l)
  BY <1>1 DEF SameLinks
<1>3. LoopbackAwareness(a) = LoopbackAwareness(b)
  BY HygieneAlike
<1>4. \A est, links : ActiveLoopback(est, links) = TheMode(ModesOf(LoopbackAwareness(est), enabled(links)))
  BY DEF ActiveLoopback
<1> HIDE DEF enabled
<1> QED BY <1>2, <1>3, <1>4

\* So whoever is asked for gets the same policy.
LEMMA ResultantAlike ==
    ASSUME NEW a, NEW b, Alike(a, b), KeysClear(a), Cardinality(DomainPaths(a)) = 1,
           NEW w, NEW dn, NEW computer, NEW computerDn, NEW dangers
    PROVE  Said(PrincipalResultant(a, w, dn, computer, computerDn, dangers))
           = Said(PrincipalResultant(b, w, dn, computer, computerDn, dangers))
<1> DEFINE token(est) == BuildToken(est, w)
           comp(est) == IF computer = None THEN {} ELSE BuildToken(est, computer)
           known(est) == DomainKnown(est, w)
           side(est) == IF PrincipalType(est, w) = "Computer" THEN "Computer" ELSE "User"
           links(est) == SomEffectiveGpos(est, SomPathFor(est, dn))
           compLinks(est) == SomEffectiveGpos(est, SomPathFor(est, IF computerDn # <<>> THEN computerDn ELSE dn))
           mode(est) == ActiveLoopback(est, compLinks(est))
           to(est, loopback) == [side |-> side(est), loopback |-> loopback, caveats |-> TokenCaveats(est, w)]
           paired(est) == PairChain(est, links(est), compLinks(est), mode(est), token(est), comp(est), known(est))
           alone(est) == CollectChain(est, links(est), side(est), token(est) \cup comp(est), known(est), {})
<1>1. \A est : PrincipalResultant(est, w, dn, computer, computerDn, dangers)
          = IF computer # None /\ side(est) = "User" THEN PolicyOf(est, to(est, mode(est)), paired(est), dangers)
            ELSE PolicyOf(est, to(est, None), alone(est), dangers)
  BY DEF PrincipalResultant
<1>2. token(a) = token(b) /\ comp(a) = comp(b) /\ known(a) = known(b) /\ side(a) = side(b)
      /\ TokenCaveats(a, w) = TokenCaveats(b, w)
  BY TokensAlike
<1>3. SameLinks(links(a), links(b)) /\ SameLinks(compLinks(a), compLinks(b))
  BY PathForAlike, EffectiveAlike
<1> HIDE DEF token, comp, known, side, links, compLinks
<1>4. mode(a) = mode(b)
  BY <1>3, LoopbackAlike
<1> HIDE DEF mode
<1>5. \A loopback : to(a, loopback) = to(b, loopback)
  BY <1>2
<1> HIDE DEF to
<1>6. Said(PolicyOf(a, to(a, mode(a)), paired(a), dangers)) = Said(PolicyOf(b, to(b, mode(b)), paired(b), dangers))
  <2>1. paired(b) = PairChain(b, links(b), compLinks(b), mode(a), token(a), comp(a), known(a))
    BY <1>2, <1>4
  <2>2. /\ SameEntries(paired(a).entries, paired(b).entries) /\ paired(a).excluded = paired(b).excluded
        /\ MadeOf(paired(a).entries, a)
    BY <1>3, <2>1, PairAlike
  <2> HIDE DEF paired
  <2>3. Said(PolicyOf(a, to(a, mode(a)), paired(a), dangers)) = Said(PolicyOf(b, to(a, mode(a)), paired(b), dangers))
    BY <2>2, PolicyAlike
  <2> QED BY <1>4, <1>5, <2>3
<1>7. Said(PolicyOf(a, to(a, None), alone(a), dangers)) = Said(PolicyOf(b, to(b, None), alone(b), dangers))
  <2>1. alone(b) = CollectChain(b, links(b), side(a), token(a) \cup comp(a), known(a), {})
    BY <1>2
  <2>2. /\ SameEntries(alone(a).entries, alone(b).entries) /\ alone(a).excluded = alone(b).excluded
        /\ MadeOf(alone(a).entries, a)
    BY <1>3, <2>1, CollectAlike
  <2> HIDE DEF alone
  <2>3. Said(PolicyOf(a, to(a, None), alone(a), dangers)) = Said(PolicyOf(b, to(a, None), alone(b), dangers))
    BY <2>2, PolicyAlike
  <2> QED BY <1>5, <2>3
<1> HIDE DEF paired, alone
<1> QED BY <1>1, <1>2, <1>6, <1>7

\* What the answers say of the principals.
LEMMA ResultantsAlike ==
    ASSUME NEW a, NEW b, Alike(a, b), KeysClear(a), Cardinality(DomainPaths(a)) = 1
    PROVE  /\ Dangers(a) = Dangers(b)
           /\ {[r EXCEPT !.policy.entries = {}] : r \in Resultants(a)}
              = {[r EXCEPT !.policy.entries = {}] : r \in Resultants(b)}
<1>1. Dangers(a) = Dangers(b)
  BY AlikeSymmetric, DangersWithin DEF Dangers
<1> DEFINE policy(est, dangers, w, c) ==
               PrincipalResultant(est, w, Homes[w], c, IF c = None THEN <<>> ELSE Homes[c], dangers)
           answered(est, w, c) == [who |-> w, with |-> c, policy |-> Said(policy(est, Dangers(est), w, c))]
<1> DEFINE told(est) == {[r EXCEPT !.policy.entries = {}] : r \in Resultants(est)}
<1>2. ASSUME NEW est
      PROVE  told(est) = {answered(est, w, c) : w \in Principals, c \in Computers \cup {None}}
  <2> DEFINE blank(r) == [r EXCEPT !.policy.entries = {}]
             row(w, c) == [who |-> w, with |-> c, policy |-> policy(est, Dangers(est), w, c)]
  <2>1. \A w, c : blank(row(w, c)) = answered(est, w, c)
    <3> HIDE DEF policy
    <3> QED BY DEF Said
  <2>2. Resultants(est) = {row(w, c) : w \in Principals, c \in Computers \cup {None}}
    BY DEF Resultants
  <2>3. told(est) = {blank(r) : r \in Resultants(est)}
    OBVIOUS
  <2> HIDE DEF policy, row, blank, answered, told
  <2> QED BY <2>1, <2>2, <2>3
<1>3. ASSUME NEW w, NEW c
      PROVE  answered(a, w, c) = answered(b, w, c)
  <2>1. Said(policy(a, Dangers(a), w, c)) = Said(policy(b, Dangers(a), w, c))
    BY ResultantAlike
  <2> HIDE DEF policy
  <2> QED BY <1>1, <2>1
<1> HIDE DEF answered, told
<1>4. {answered(a, w, c) : w \in Principals, c \in Computers \cup {None}}
      = {answered(b, w, c) : w \in Principals, c \in Computers \cup {None}}
  BY <1>3
<1>5. told(a) = told(b)
  BY <1>2, <1>4
<1> QED BY <1>1, <1>5 DEF told

-----------------------------------------------------------------------------
(* The round trip through the store gives such a reading.                  *)

\* In data in which no chain has two links of one order, a container comes
\* back with the links it had.
LEMMA SomAlike ==
    ASSUME NEW som, IsSom(som), NEW flip \in BOOLEAN, OneOrderEach(SortedSom(som, flip).links)
    PROVE  SameSom(SortedSom(som, flip), som)
<1> DEFINE rank == [i \in DOMAIN som.links |-> som.links[i].order]
           links == OrderedBy(som.links, rank, flip)
           sorted == SortedSom(som, flip)
<1>1. IsSequence(som.links) /\ \A k \in DOMAIN som.links : som.links[k].order \in Nat
  BY DEF IsSom
<1>2. IsSequence(links) /\ DOMAIN links = DOMAIN som.links /\ Range(links) = Range(som.links)
  <2>1. rank \in [DOMAIN som.links -> Int]
    BY <1>1
  <2> HIDE DEF rank
  <2> QED BY <1>1, <2>1, OrderedShape
<1>3. sorted = [som EXCEPT !.links = links]
  BY DEF SortedSom
<1> HIDE DEF links, sorted
<1>4. /\ sorted = [x \in {"path", "kind", "links"} |-> sorted[x]] /\ sorted.links = links
      /\ sorted.path = som.path /\ sorted.kind = som.kind
  BY <1>3 DEF IsSom
<1>5. \A k \in DOMAIN links : links[k].order \in Nat
  <2>1. ASSUME NEW k \in DOMAIN links
        PROVE  \E j \in DOMAIN som.links : links[k] = som.links[j]
    BY <1>2 DEF Range
  <2> QED BY <1>1, <2>1
<1>6. OneOrderEach(links)
  BY <1>4 DEF sorted
<1>7. \A i, j \in DOMAIN som.links : som.links[i] = som.links[j] => i = j
  <2>1. \A i, j \in DOMAIN links : links[i] = links[j] => i = j
    BY <1>6 DEF OneOrderEach
  <2> QED BY <1>1, <1>2, <2>1, SameSize
<1>8. OneOrderEach(som.links)
  <2> SUFFICES ASSUME NEW i \in DOMAIN som.links, NEW j \in DOMAIN som.links,
                      som.links[i].order = som.links[j].order
               PROVE  som.links[i] = som.links[j]
    BY <1>7 DEF OneOrderEach
  <2>1. \A n \in DOMAIN som.links : \E m \in DOMAIN links : links[m] = som.links[n]
    BY <1>2 DEF Range
  <2>2. PICK p \in DOMAIN links : links[p] = som.links[i]
    BY <2>1
  <2>3. PICK q \in DOMAIN links : links[q] = som.links[j]
    BY <2>1
  <2> QED BY <1>6, <2>2, <2>3 DEF OneOrderEach
<1>9. SameLinks(links, som.links)
  BY <1>1, <1>2, <1>5, <1>6, <1>8 DEF SameLinks, IsChain
<1>10. IsSom(sorted)
  BY <1>2, <1>4, <1>5 DEF IsSom
<1> QED BY <1>4, <1>9, <1>10 DEF SameSom, sorted

\* So an estate loaded back is alike the one that was stored.
LEMMA StoredAlike ==
    ASSUME NEW est, IsEstate(est), NEW flip \in BOOLEAN,
           \A som \in SomsOf(LoadStored(est, flip)) : OneOrderEach(som.links)
    PROVE  Alike(LoadStored(est, flip), est)
<1> DEFINE stored == LoadStored(est, flip)
<1>1. IsEstate(stored) /\ GpoIds(stored) = GpoIds(est)
      /\ SomsOf(stored) = {SortedSom(som, flip) : som \in SomsOf(est)}
  BY StoredShape
<1>2. /\ stored.wmiFilters = est.wmiFilters /\ stored.principals = est.principals
      /\ stored.groups = est.groups /\ stored.gaps = est.gaps
      /\ stored.gpos = [id \in GpoIds(est) |-> LoadedGpo(est.gpos[id], flip)]
  <2> DEFINE gpos == [id \in GpoIds(est) |-> LoadedGpo(est.gpos[id], flip)]
             soms == LoadedSoms(est, flip)
  <2>1. stored = [est EXCEPT !.gpos = gpos, !.soms = soms]
    BY DEF LoadStored, GpoIds, IsEstate, EstateFields
  <2>2. DOMAIN est = EstateFields
    BY DEF IsEstate
  <2> HIDE DEF stored, gpos, soms
  <2>3. stored.gpos = gpos /\ stored.wmiFilters = est.wmiFilters /\ stored.principals = est.principals
        /\ stored.groups = est.groups /\ stored.gaps = est.gaps
    BY <2>1, <2>2 DEF EstateFields
  <2> QED BY <2>3 DEF gpos
<1> HIDE DEF stored
<1>3. ASSUME NEW id \in GpoIds(est)
      PROVE  SameGpo(stored.gpos[id], est.gpos[id])
  <2> DEFINE g == est.gpos[id]
             h == LoadedGpo(g, flip)
  <2>1. IsGpo(g) /\ IsSequence(g.settings)
    BY DEF IsEstate
  <2>2. stored.gpos[id] = h
    BY <1>2
  <2> HIDE DEF g
  <2>3. IsSequence(h.settings) /\ SettingsOf(h) = SettingsOf(g) /\ DOMAIN h.settings = DOMAIN g.settings
    BY <2>1, GpoReordered
  <2>4. PICK rows : h = [g EXCEPT !.settings = rows]
    BY DEF LoadedGpo
  <2> HIDE DEF h
  <2>5. \A x \in GpoFields \ {"settings"} : h[x] = g[x]
    BY <2>1, <2>4 DEF IsGpo
  <2>6. SameGpo(h, g)
    BY <2>1, <2>3, <2>5 DEF SameGpo
  <2> QED BY <2>2, <2>6 DEF g
<1>4. \A som \in SomsOf(est) : IsSom(som)
  BY DEF IsEstate, SomsOf
<1>5. \A som \in SomsOf(est) : SameSom(SortedSom(som, flip), som)
  <2>1. \A som \in SomsOf(est) : OneOrderEach(SortedSom(som, flip).links)
    BY <1>1 DEF stored
  <2> QED BY <1>4, <2>1, SomAlike
<1>6. Alike(stored, est)
  BY <1>1, <1>2, <1>3, <1>5 DEF Alike
<1> QED BY <1>6 DEF stored

\* What is read from the disk for a GPO.
FilesOn(disk, g) == IF g.attached /\ g.id \in DOMAIN disk THEN WalkGppXml(disk[g.id]) ELSE {}
TreeOn(disk, g) == IF g.attached /\ g.id \in DOMAIN disk THEN disk[g.id].tree ELSE NoTree
ScannedFrom(g, files, tree) ==
    [g EXCEPT !.ilt = \E f \in files : f.filters, !.cpassword = \E f \in files : f.known /\ f.cpassword,
              !.localGroups = UNION {f.groups : f \in {x \in files : x.known}},
              !.paths = UNION {f.refs : f \in files}, !.tree = tree]

\* The disk is read for each GPO, and nothing else is.
LEMMA DiskRead ==
    ASSUME NEW est, IsEstate(est), NEW disk
    PROVE  LET other == WithDisk(est, disk)
           IN  /\ other.wmiFilters = est.wmiFilters /\ other.principals = est.principals
               /\ other.groups = est.groups /\ other.gaps = est.gaps
               /\ \A id \in GpoIds(est) : other.gpos[id] =
                     ScannedFrom(est.gpos[id], FilesOn(disk, est.gpos[id]), TreeOn(disk, est.gpos[id]))
<1> DEFINE other == WithDisk(est, disk)
           scan(g) == ScannedFrom(g, FilesOn(disk, g), TreeOn(disk, g))
           gpos == [id \in GpoIds(est) |-> scan(est.gpos[id])]
<1>1. other = [est EXCEPT !.gpos = gpos]
  <2>1. other = [est EXCEPT !.gpos = [id \in DOMAIN @ |-> scan(@[id])]]
    BY DEF WithDisk, ScannedFrom, FilesOn, TreeOn
  <2> HIDE DEF scan, other
  <2> QED BY <2>1 DEF GpoIds, IsEstate, EstateFields
<1>2. DOMAIN est = EstateFields
  BY DEF IsEstate
<1> HIDE DEF other, gpos
<1>3. other.gpos = gpos /\ other.wmiFilters = est.wmiFilters /\ other.principals = est.principals
      /\ other.groups = est.groups /\ other.gaps = est.gaps
  BY <1>1, <1>2 DEF EstateFields
<1> QED BY <1>3 DEF gpos, other

\* What the disk holds is the same for either reading.
LEMMA DiskAlike ==
    ASSUME NEW a, NEW b, Alike(a, b), NEW disk
    PROVE  Alike(WithDisk(a, disk), WithDisk(b, disk))
<1> DEFINE c == WithDisk(a, disk)
           d == WithDisk(b, disk)
<1>1. IsEstate(a) /\ IsEstate(b) /\ GpoIds(a) = GpoIds(b)
  BY DEF Alike
<1>2. /\ IsEstate(c) /\ GpoIds(c) = GpoIds(a) /\ c.soms = a.soms
      /\ \A id \in GpoIds(a) : c.gpos[id].settings = a.gpos[id].settings
  BY <1>1, DiskShape
<1>3. /\ IsEstate(d) /\ GpoIds(d) = GpoIds(b) /\ d.soms = b.soms
      /\ \A id \in GpoIds(b) : d.gpos[id].settings = b.gpos[id].settings
  BY <1>1, DiskShape
<1>4. /\ c.wmiFilters = a.wmiFilters /\ c.principals = a.principals /\ c.groups = a.groups /\ c.gaps = a.gaps
      /\ \A id \in GpoIds(a) : c.gpos[id] =
            ScannedFrom(a.gpos[id], FilesOn(disk, a.gpos[id]), TreeOn(disk, a.gpos[id]))
  BY <1>1, DiskRead
<1>5. /\ d.wmiFilters = b.wmiFilters /\ d.principals = b.principals /\ d.groups = b.groups /\ d.gaps = b.gaps
      /\ \A id \in GpoIds(b) : d.gpos[id] =
            ScannedFrom(b.gpos[id], FilesOn(disk, b.gpos[id]), TreeOn(disk, b.gpos[id]))
  BY <1>1, DiskRead
<1> HIDE DEF c, d
<1>6. ASSUME NEW id \in GpoIds(a)
      PROVE  SameGpo(c.gpos[id], d.gpos[id])
  <2> DEFINE g == a.gpos[id]
             h == b.gpos[id]
             x == c.gpos[id]
             y == d.gpos[id]
             files == FilesOn(disk, g)
             tree == TreeOn(disk, g)
  <2>1. SameGpo(g, h) /\ IsGpo(g) /\ IsGpo(h)
    BY <1>1 DEF Alike, IsEstate
  <2>2. g.attached = h.attached /\ g.id = h.id
    BY <2>1, SameFields
  <2>3. FilesOn(disk, h) = files /\ TreeOn(disk, h) = tree
    BY <2>2 DEF FilesOn, TreeOn
  <2>4. x = ScannedFrom(g, files, tree) /\ y = ScannedFrom(h, files, tree)
    BY <1>1, <1>4, <1>5, <2>3
  <2>5. x.settings = g.settings /\ y.settings = h.settings
    BY <1>1, <1>2, <1>3
  <2> HIDE DEF g, h, x, y, files, tree
  <2>6. PICK i, u, l, p : \A r : ScannedFrom(r, files, tree) =
            [r EXCEPT !.ilt = i, !.cpassword = u, !.localGroups = l, !.paths = p, !.tree = tree]
    BY ZenonT(30) DEF ScannedFrom
  <2>7. x = [g EXCEPT !.ilt = i, !.cpassword = u, !.localGroups = l, !.paths = p, !.tree = tree]
        /\ y = [h EXCEPT !.ilt = i, !.cpassword = u, !.localGroups = l, !.paths = p, !.tree = tree]
    BY <2>4, <2>6
  <2>8. DOMAIN g = GpoFields /\ DOMAIN h = GpoFields /\ \A f \in GpoFields \ {"settings"} : g[f] = h[f]
    BY <2>1 DEF IsGpo, SameGpo
  <2>9. \A f \in GpoFields \ {"settings"} : x[f] = y[f]
    BY <2>7, <2>8
  <2> QED BY <2>1, <2>5, <2>9 DEF SameGpo, SettingsOf, x, y
<1>7. SomsOf(c) = SomsOf(a) /\ SomsOf(d) = SomsOf(b)
  BY <1>2, <1>3 DEF SomsOf
<1>8. Alike(c, d)
  BY <1>1, <1>2, <1>3, <1>4, <1>5, <1>6, <1>7 DEF Alike
<1> QED BY <1>8 DEF c, d

\* The paths that preference files name are finitely many, wherever a
\* snapshot's folders are now.
LEMMA PathsFinite ==
    ASSUME Provenance, NEW n, NEW g
    PROVE  IsFiniteSet(UNION {f.refs : f \in FilesOn(DiskOf(n), g)})
<1> DEFINE disk == DiskOf(n)
           files == FilesOn(disk, g)
           refs == {f.refs : f \in files}
<1>1. \A id \in DOMAIN disk : IsFolder(disk[id])
  <2>1. disk = directory \/ disk = NoSysvol
    BY DEF DiskOf
  <2>2. disk = NoSysvol \/ \E coll \in Collections : disk = coll.sysvol
    BY <2>1 DEF Provenance, Copies
  <2>3. DOMAIN NoSysvol = {}
    BY DEF NoSysvol, Empty
  <2> HIDE DEF disk
  <2> QED BY <2>2, <2>3, PipelineAssumption DEF IsCollection
<1>2. IsFiniteSet(files) /\ \A f \in files : IsFiniteSet(f.refs)
  <2>1. CASE g.attached /\ g.id \in DOMAIN disk
    <3>1. IsFolder(disk[g.id]) /\ files = WalkGppXml(disk[g.id])
      BY <1>1, <2>1 DEF FilesOn
    <3>2. files \subseteq disk[g.id].files
      BY <3>1 DEF WalkGppXml, ReachableFiles
    <3> HIDE DEF files, disk
    <3> QED BY <3>1, <3>2, FS_Subset DEF IsFolder
  <2>2. CASE ~(g.attached /\ g.id \in DOMAIN disk)
    <3>1. files = {}
      BY <2>2 DEF FilesOn
    <3> HIDE DEF files
    <3> QED BY <3>1, FS_EmptySet
  <2> QED BY <2>1, <2>2
<1> HIDE DEF disk, files
<1>3. IsFiniteSet(refs)
  <2> DEFINE named == [f \in files |-> f.refs]
  <2>1. named \in Surjection(files, refs)
    BY DEF Surjection
  <2> HIDE DEF named, refs
  <2> QED BY <1>2, <2>1, FS_Surjection
<1>4. \A T \in refs : IsFiniteSet(T)
  BY <1>2
<1> HIDE DEF refs
<1>5. IsFiniteSet(UNION refs)
  BY <1>3, <1>4, FS_UNION
<1> QED BY <1>5 DEF refs, files, disk

\* Two settings that name one path are one reference, if no target of a GPO is
\* named twice.
LEMMA NamedOnce ==
    ASSUME NEW g, IsSequence(g.settings), g.paths = {}, Distinct(TargetsOf(g))
    PROVE  OneSettingPerPath(g)
<1> DEFINE refs == PathReferences(g)
<1>1. /\ refs = SetToSeq({}) \o NamedRefs(g) /\ IsSequence(NamedRefs(g))
      /\ Range(NamedRefs(g)) = {RefOf(s) : s \in {x \in SettingsOf(g) : NamesPath(x)}}
  BY NamedShape
<1>2. IsSequence(SetToSeq({}))
  BY FS_EmptySet, SetListed
<1>3. Range(NamedRefs(g)) \subseteq Range(refs)
  <2> DEFINE none == SetToSeq({})
  <2> HIDE DEF none
  <2>1. IsConcat(none \o NamedRefs(g), none, NamedRefs(g))
    BY <1>1, <1>2, ConcatShape DEF none
  <2> QED BY <1>1, <2>1 DEF IsConcat, none
<1>4. \A i, j \in DOMAIN refs : refs[i].target = refs[j].target => i = j
  BY DEF Distinct, TargetsOf
<1> HIDE DEF refs
<1>5. ASSUME NEW s \in SettingsOf(g), NEW t \in SettingsOf(g), NamesPath(s), NamesPath(t),
             PathsIn(s.value) = PathsIn(t.value)
      PROVE  RefOf(s) = RefOf(t)
  <2>1. RefOf(s) \in Range(refs) /\ RefOf(t) \in Range(refs)
    BY <1>1, <1>3, <1>5
  <2>2. PICK i \in DOMAIN refs : refs[i] = RefOf(s)
    BY <2>1 DEF Range
  <2>3. PICK j \in DOMAIN refs : refs[j] = RefOf(t)
    BY <2>1 DEF Range
  <2>4. refs[i].target = refs[j].target
    BY <1>5, <2>2, <2>3 DEF RefOf
  <2> QED BY <1>4, <2>2, <2>3, <2>4
<1> QED BY <1>5 DEF OneSettingPerPath

\* Of data that leave nothing to the order of rows, the estate loaded back and
\* the freshly parsed one are two readings, clear in keys, paths and domain.
LEMMA OpenedAlike ==
    ASSUME Provenance, phase = "open", Unambiguous(opened.est)
    PROVE  Alike(Live, Fresh) /\ KeysClear(Live) /\ PathsClear(Live) /\ Cardinality(DomainPaths(Live)) = 1
<1> DEFINE fresh == snapshots[opened.of].est
           stored == opened.est
           disk == DiskOf(opened.of)
<1>1. PICK flip \in BOOLEAN : stored = LoadStored(fresh, flip)
  BY DEF Provenance
<1>2. IsEstate(fresh) /\ IsEstate(stored)
  BY Estates DEF Provenance
<1>3. Alike(stored, fresh)
  <2>1. \A som \in SomsOf(stored) : OneOrderEach(som.links)
    BY DEF Unambiguous, Distinct, OneOrderEach
  <2> HIDE DEF fresh, stored
  <2> QED BY <1>1, <1>2, <2>1, StoredAlike
<1>4. Live = WithDisk(stored, disk) /\ Fresh = WithDisk(fresh, disk)
  BY DEF Live, Fresh
<1>5. Alike(Live, Fresh)
  <2> HIDE DEF fresh, stored, disk
  <2> QED BY <1>3, <1>4, DiskAlike
<1>6. /\ GpoIds(Live) = GpoIds(stored) /\ Live.soms = stored.soms
      /\ \A id \in GpoIds(stored) : Live.gpos[id].settings = stored.gpos[id].settings
  <2> HIDE DEF fresh, stored, disk
  <2> QED BY <1>2, <1>4, DiskShape
<1>7. \A id \in GpoIds(stored) : SettingsOf(Live.gpos[id]) = SettingsOf(stored.gpos[id])
  BY <1>6 DEF SettingsOf
<1>8. KeysClear(Live)
  <2>1. \A id \in GpoIds(stored) : OneSettingEach(Live.gpos[id])
    <3> SUFFICES ASSUME NEW id \in GpoIds(stored)
                 PROVE  OneSettingEach(Live.gpos[id])
      OBVIOUS
    <3>1. OneSettingEach(stored.gpos[id])
      BY DEF Unambiguous, Distinct, OneSettingEach
    <3>2. Live.gpos[id].settings = stored.gpos[id].settings
      BY <1>6
    <3> QED BY <3>1, <3>2 DEF OneSettingEach
  <2>2. UNION {SettingsOf(Live.gpos[id]) : id \in GpoIds(Live)}
        = UNION {SettingsOf(stored.gpos[id]) : id \in GpoIds(stored)}
    <3> HIDE DEF stored
    <3> QED BY <1>6, <1>7
  <2>3. OneModeEach(Live)
    BY <2>2 DEF OneModeEach, Unambiguous
  <2> QED BY <1>6, <2>1, <2>3 DEF KeysClear
<1>9. Cardinality(DomainPaths(Live)) = 1
  <2>1. SomsOf(Live) = SomsOf(stored)
    BY <1>6 DEF SomsOf
  <2> QED BY <2>1 DEF Unambiguous, DomainPaths
<1>10. ASSUME NEW id \in GpoIds(stored)
       PROVE  IsFiniteSet(Live.gpos[id].paths) /\ OneSettingPerPath(Live.gpos[id])
  <2> DEFINE g == stored.gpos[id]
             files == FilesOn(disk, g)
  <2>1. IsGpo(g) /\ IsSequence(g.settings)
    BY <1>2, <1>10 DEF IsEstate
  <2>2. g.paths = {}
    <3>1. fresh = LoadEstate(snapshots[opened.of].coll) /\ IsCollection(snapshots[opened.of].coll)
      BY OpenedFrom DEF Faithful
    <3>2. id \in GpoIds(fresh) /\ SameGpo(g, fresh.gpos[id])
      BY <1>3, <1>10 DEF Alike
    <3>3. fresh.gpos[id].paths = {}
      <4> HIDE DEF fresh
      <4> QED BY <3>1, <3>2, EstateGpos, GposLoaded
    <3> QED BY <3>2, <3>3, SameFields
  <2>3. Live.gpos[id] = ScannedFrom(g, files, TreeOn(disk, g))
    <3> HIDE DEF disk, stored
    <3> QED BY <1>2, <1>4, <1>10, DiskRead
  <2>4. Live.gpos[id].paths = UNION {f.refs : f \in files}
    <3> DEFINE tree == TreeOn(disk, g)
               paths == UNION {f.refs : f \in files}
    <3> HIDE DEF g, files, tree, disk
    <3>1. PICK i, u, l : \A r : ScannedFrom(r, files, tree) =
              [r EXCEPT !.ilt = i, !.cpassword = u, !.localGroups = l,
                        !.paths = UNION {f.refs : f \in files}, !.tree = tree]
      BY ZenonT(30) DEF ScannedFrom
    <3>2. Live.gpos[id] =
              [g EXCEPT !.ilt = i, !.cpassword = u, !.localGroups = l, !.paths = paths, !.tree = tree]
      BY <2>3, <3>1 DEF tree
    <3> HIDE DEF paths
    <3>3. Live.gpos[id].paths = paths
      BY <2>1, <3>2 DEF IsGpo, GpoFields
    <3> QED BY <3>3 DEF paths
  <2>5. IsFiniteSet(Live.gpos[id].paths)
    BY <2>4, PathsFinite
  <2>6. OneSettingPerPath(g)
    <3>1. Distinct(TargetsOf(g))
      BY <1>10 DEF Unambiguous
    <3> HIDE DEF g
    <3> QED BY <2>1, <2>2, <3>1, NamedOnce
  <2>7. SettingsOf(Live.gpos[id]) = SettingsOf(g)
    BY <1>7, <1>10
  <2> QED BY <2>5, <2>6, <2>7 DEF OneSettingPerPath
<1>11. PathsClear(Live)
  BY <1>6, <1>10 DEF PathsClear
<1> QED BY <1>5, <1>8, <1>9, <1>11

-----------------------------------------------------------------------------
(* Every answer.                                                           *)

\* Of two readings of one estate every answer is the same.
LEMMA AnswersAlike ==
    ASSUME NEW a, NEW b, Alike(a, b), KeysClear(a), PathsClear(a), Cardinality(DomainPaths(a)) = 1
    PROVE  Answers(a) = Answers(b)
<1> DEFINE resultants(est) == {[r EXCEPT !.policy.entries = {}] : r \in Resultants(est)}
           told(est, path) == <<path, SettingsAtSom(est, path), ScopeCaveats(est, path), GatesOf(est, path)>>
           at(est) == {told(est, s.path) : s \in SomsOf(est)}
           scopes(est) == {EffectiveScope(est, id) : id \in GpoIds(est)}
           acl(est) == DenyAces(est) \cup ExcessiveWriters(est)
           hygiene(est) == <<UnlinkedGpos(est), EmptyGpos(est), DisabledButPopulated(est), VersionSkew(est),
                   Ms16072Vulnerable(est), DanglingLinks(est), EnforcedLinks(est), CpasswordGpos(est)>>
           found(est) == {<<term, Search(est, term)>> : term \in Terms}
           delegated(est) == <<DelegationRollup(est), DelegationDeepDive(est), PermissionsAudit(est)>>
<1>1. \A est : Answers(est) =
        [resultants |-> resultants(est), conflicts |-> PrecedenceConflicts(est),
         rollup |-> PrecedenceConflictRollup(est), at |-> at(est), scopes |-> scopes(est), sites |-> SiteScopes(est),
         dangers |-> Dangers(est), acl |-> acl(est), hygiene |-> hygiene(est), gaps |-> est.gaps,
         doctor |-> EstateDoctor(est, Dangers(est), Admx), trend |-> TrendPoint(est, Rules),
         summary |-> EstateSummary(est, Dangers(est)), found |-> found(est), conflicting |-> Conflicts(est),
         admx |-> AdmxCoverage(est, Admx), delegated |-> delegated(est), servers |-> ExternalDependencies(est)]
  BY DEF Answers, GatesOf
<1>2. resultants(a) = resultants(b) /\ Dangers(a) = Dangers(b)
  BY ResultantsAlike
<1>3. PrecedenceConflicts(a) = PrecedenceConflicts(b) /\ PrecedenceConflictRollup(a) = PrecedenceConflictRollup(b)
  BY PrecedenceAlike, RollupAlike
<1>4. at(a) = at(b)
  <2>1. \A path : told(a, path) = told(b, path)
    BY AtAlike, CaveatsAlike, GatesAlike
  <2>2. {s.path : s \in SomsOf(a)} = {s.path : s \in SomsOf(b)}
    BY DEF Alike, SameSom
  <2> HIDE DEF told
  <2>3. \A est : at(est) = {told(est, path) : path \in {s.path : s \in SomsOf(est)}}
    OBVIOUS
  <2> HIDE DEF at
  <2> QED BY <2>1, <2>2, <2>3
<1>5. scopes(a) = scopes(b) /\ SiteScopes(a) = SiteScopes(b) /\ a.gaps = b.gaps
  BY ReachAlike, SitesAlike DEF Alike
<1>6. acl(a) = acl(b) /\ Conflicts(a) = Conflicts(b) /\ AdmxCoverage(a, Admx) = AdmxCoverage(b, Admx)
  BY AclAlike, QueriedAlike, CoveredAlike
<1>7. hygiene(a) = hygiene(b)
  BY HygieneAlike, LinksAlike
<1>8. found(a) = found(b)
  BY QueriedAlike
<1>9. delegated(a) = delegated(b)
  BY DelegatedAlike
<1>10. ExternalDependencies(a) = ExternalDependencies(b) /\ TrendPoint(a, Rules) = TrendPoint(b, Rules)
  BY PathsAlike, TrendAlike
<1> HIDE DEF resultants, at, scopes, acl, hygiene, found, delegated
<1>11. EstateDoctor(a, Dangers(a), Admx) = EstateDoctor(b, Dangers(b), Admx)
  <2> DEFINE dangers == Dangers(a)
  <2>1. dangers = Dangers(b)
    BY <1>2
  <2> HIDE DEF dangers
  <2>2. EstateDoctor(a, dangers, Admx) = EstateDoctor(b, dangers, Admx)
    BY DoctorAlike
  <2> QED BY <2>1, <2>2 DEF dangers
<1>12. EstateSummary(a, Dangers(a)) = EstateSummary(b, Dangers(b))
  BY <1>2, SummaryAlike
<1> QED BY <1>1, <1>2, <1>3, <1>4, <1>5, <1>6, <1>7, <1>8, <1>9, <1>10, <1>11, <1>12

\* A snapshot loaded back answers everything as the freshly parsed estate does.
THEOREM ReopeningIsIdle == PipelineSpec => []ReopenAnswersAlike
<1>1. Provenance => ReopenAnswersAlike
  BY OpenedAlike, AnswersAlike DEF ReopenAnswersAlike
<1> QED BY <1>1, ImportInvariance, PTL
=============================================================================
