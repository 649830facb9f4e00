------------------------ MODULE FindingTriageProofs ------------------------
(***************************************************************************)
(* Proofs about FindingTriage, for any fingerprints, writers, expiries and *)
(* bounds: about the log, and about what the folds make of it.             *)
(*                                                                         *)
(* A request holds the id of a finding over several steps, and a deletion  *)
(* may take the row in between.  The invariant rests on what makes this    *)
(* harmless: an id below the sequence never comes back as another finding. *)
(***************************************************************************)
EXTENDS FindingTriage, FindingLifecycleProofs, ProofBasics

\* May the log hold this action on this finding?
Allowed(i, act) == act \in Carrying => finding[i].key \notin unstable

\* No event decides a finding without a stable identity: with it, the fold
\* cannot leave the initial status of such a finding.
NoUnstableDecision ==
    \A e \in DOMAIN event : Allowed(event[e].finding, event[e].action)

\* A request names a finding that has existed, and once it is stamped it has
\* passed the identity check for as long as the row is there.
RequestsKnow ==
    \A w \in Requests :
        /\ request[w].step = "checked" => request[w].finding < nextFinding
        /\ request[w].step = "stamped" =>
              LET v == request[w].event
              IN /\ v.finding < nextFinding
                 /\ v.finding \in DOMAIN finding => Allowed(v.finding, v.action)

SweepIsPast == sweep.step = "read" => sweep.since =< clock

TInv ==
    /\ IInv
    /\ TriageTypeOK
    /\ NoUnstableDecision
    /\ RequestsKnow
    /\ SweepIsPast

-----------------------------------------------------------------------------

\* A step of the lifecycle keeps its invariant, never lowers the sequence, and
\* leaves the key of every row that is still there; a row below the sequence
\* that it shows was there before.
LEMMA LifecycleStep ==
    ASSUME IInv, [Next]_vars
    PROVE  /\ IInv'
           /\ nextFinding \in Nat /\ nextFinding' \in Nat /\ nextFinding =< nextFinding'
           /\ \A i \in DOMAIN finding' : i < nextFinding => i \in DOMAIN finding
           /\ \A i \in DOMAIN finding \cap DOMAIN finding' : finding'[i].key = finding[i].key
<1>1. nextFinding \in Nat
  BY DEF IInv, TypeOK
<1>2. ASSUME NEW estate \in Estate, NEW candidates \in SUBSET Fingerprints,
             NEW duplicates \in BOOLEAN, SaveEvaluatedEstate(estate, candidates, duplicates)
      PROVE  /\ IInv'
             /\ nextFinding' \in Nat /\ nextFinding =< nextFinding'
             /\ \A i \in DOMAIN finding' : i < nextFinding => i \in DOMAIN finding
             /\ \A i \in DOMAIN finding \cap DOMAIN finding' : finding'[i].key = finding[i].key
  <2>1. IInv'
    BY <1>2, ImportStep
  <2>2. PICK newIds \in SUBSET (Nat \ {0}) : Imported(estate, candidates, duplicates, newIds)
    BY <1>2, ImportEffect
  <2>3. /\ nextFinding' \in Nat /\ nextFinding =< nextFinding'
        /\ DOMAIN finding' = DOMAIN finding \cup newIds
        /\ newIds \subseteq nextFinding .. nextFinding' - 1
    BY <2>2, <1>1 DEF Imported
  <2>4. ASSUME NEW i \in DOMAIN finding
        PROVE  finding'[i].key = finding[i].key
    <3>1. finding[i] \in Finding
      BY DEF IInv, TypeOK
    <3>2. finding'[i] = AfterEvaluation(i, Persisting(candidates),
                             Resolving(candidates, StatusOf(duplicates), estate),
                             nextRun, nextSnapshot)
      BY <2>2 DEF Imported
    <3> QED BY <3>1, <3>2 DEF AfterEvaluation, Finding
  <2>5. \A i \in DOMAIN finding' : i < nextFinding => i \in DOMAIN finding
    <3>1. \A i \in newIds : nextFinding =< i /\ i \in Int
      <4> TAKE i \in newIds
      <4>1. i \in nextFinding .. nextFinding' - 1
        BY <2>3
      <4>2. nextFinding \in Int /\ nextFinding' - 1 \in Int
        BY <1>1, <2>3
      <4> QED BY <4>1, <4>2
    <3>2. \A i \in newIds : ~(i < nextFinding)
      BY <1>1, <3>1
    <3> QED BY <2>3, <3>2
  <2>6. \A i \in DOMAIN finding \cap DOMAIN finding' : finding'[i].key = finding[i].key
    BY <2>4
  <2> QED BY <2>1, <2>3, <2>5, <2>6
<1>3. ASSUME NEW s, DeleteSnapshot(s)
      PROVE  /\ IInv'
             /\ nextFinding' \in Nat /\ nextFinding =< nextFinding'
             /\ \A i \in DOMAIN finding' : i < nextFinding => i \in DOMAIN finding
             /\ \A i \in DOMAIN finding \cap DOMAIN finding' : finding'[i].key = finding[i].key
  <2>1. IInv'
    BY <1>3, DeleteStep
  <2>2. nextFinding' = nextFinding
    BY <1>3 DEF DeleteSnapshot
  <2>3. /\ DOMAIN finding' \subseteq DOMAIN finding
        /\ \A i \in DOMAIN finding' : finding'[i].key = finding[i].key
    BY <1>3, DeleteRows
  <2> QED BY <1>1, <2>1, <2>2, <2>3
<1>4. ASSUME UNCHANGED vars
      PROVE  /\ IInv'
             /\ nextFinding' = nextFinding
             /\ finding' = finding
  BY <1>4 DEF vars, IInv, TypeOK, RunsOrdered, ResolvedHasRun, AtMostOneOpen,
              PredecessorsFormChains, ActiveFindings, Unresolved
<1> QED BY <1>1, <1>2, <1>3, <1>4 DEF Next, Import, Delete

\* Every step of the composition is a step of the lifecycle or leaves it alone.
LEMMA BesideTheLifecycle ==
    ASSUME [TriageNext]_allVars
    PROVE  [Next]_vars
BY DEF TriageNext, allVars, ImportBeside, DeleteBeside, Next, Tick, SweepRead, SweepWrite,
       StampEvent, InsertEvent, CheckFinding, CallAppend

-----------------------------------------------------------------------------

\* A fresh store has no event, so the invariant holds of it.
LEMMA InitTInv ==
    ASSUME TriageInit
    PROVE  TInv
<1>1. IInv
  BY InitIInv DEF TriageInit
<1>2. TriageTypeOK
  BY TriageBoundsAssumption DEF TriageInit, TriageTypeOK, Request, Sweep, NotSweeping, Idle, Event
<1> QED BY <1>1, <1>2
        DEF TInv, TriageInit, NoUnstableDecision, RequestsKnow, SweepIsPast, Idle, NotSweeping

\* An import or a deletion, with the events that survive it.
LEMMA OperationStep ==
    ASSUME TInv, ImportBeside \/ DeleteBeside
    PROVE  TInv'
<1>1. /\ IInv'
      /\ nextFinding \in Nat /\ nextFinding' \in Nat /\ nextFinding =< nextFinding'
      /\ \A i \in DOMAIN finding' : i < nextFinding => i \in DOMAIN finding
      /\ \A i \in DOMAIN finding \cap DOMAIN finding' : finding'[i].key = finding[i].key
  BY LifecycleStep DEF TInv, ImportBeside, DeleteBeside, Next
<1>2. /\ UNCHANGED <<unstable, clock, nextEvent, request, sweep>>
      /\ DOMAIN event' \subseteq DOMAIN event
      /\ event' = [e \in DOMAIN event' |-> event[e]]
      /\ \A e \in DOMAIN event' : event'[e].finding \in DOMAIN finding'
  <2>1. CASE ImportBeside
    <3>1. UNCHANGED triageVars
      BY <2>1 DEF ImportBeside
    <3>2. DOMAIN finding \subseteq DOMAIN finding'
      <4>1. PICK estate \in Estate, candidates \in SUBSET Fingerprints, duplicates \in BOOLEAN :
              SaveEvaluatedEstate(estate, candidates, duplicates)
        BY <2>1 DEF ImportBeside, Import
      <4>2. PICK newIds \in SUBSET (Nat \ {0}) : Imported(estate, candidates, duplicates, newIds)
        BY <4>1, ImportEffect DEF TInv
      <4> QED BY <4>2 DEF Imported
    <3>3. event \in [DOMAIN event -> Event] /\ \A e \in DOMAIN event : event[e].finding \in DOMAIN finding
      BY DEF TInv, TriageTypeOK
    <3> QED BY <3>1, <3>2, <3>3 DEF triageVars
  <2>2. CASE DeleteBeside
    <3> DEFINE gone == DOMAIN finding \ DOMAIN finding'
               left == SurvivingEvents(gone)
    <3>1. left \subseteq DOMAIN event /\ \A e \in left : event[e].finding \notin gone
      BY DEF SurvivingEvents
    <3>2. event' = [e \in left |-> event[e]]
      BY <2>2, <3>1 DEF DeleteBeside, Restrict
    <3>3. \A e \in DOMAIN event : event[e].finding \in DOMAIN finding
      BY DEF TInv, TriageTypeOK
    <3>4. UNCHANGED <<unstable, clock, nextEvent, request, sweep>>
      BY <2>2 DEF DeleteBeside
    <3> HIDE DEF left
    <3> QED BY <3>1, <3>2, <3>3, <3>4
  <2> QED BY <2>1, <2>2
<1>3. TriageTypeOK'
  BY <1>2 DEF TInv, TriageTypeOK
<1>4. NoUnstableDecision'
  <2> SUFFICES ASSUME NEW e \in DOMAIN event'
               PROVE  Allowed(event[e].finding, event[e].action)'
    BY <1>2 DEF NoUnstableDecision
  <2>1. Allowed(event[e].finding, event[e].action) /\ event[e].finding \in DOMAIN finding
    BY <1>2 DEF TInv, NoUnstableDecision, TriageTypeOK
  <2> QED BY <1>1, <1>2, <2>1 DEF Allowed
<1>5. RequestsKnow'
  <2> SUFFICES ASSUME NEW w \in Requests
               PROVE  /\ request[w].step = "checked" => request[w].finding < nextFinding'
                      /\ request[w].step = "stamped" =>
                            LET v == request[w].event
                            IN /\ v.finding < nextFinding'
                               /\ v.finding \in DOMAIN finding' => Allowed(v.finding, v.action)'
    BY <1>2 DEF RequestsKnow
  <2>1. request[w] \in Request
    BY DEF TInv, TriageTypeOK
  <2>2. CASE request[w].step = "checked"
    <3>1. request[w].finding \in Nat
      BY <2>1, <2>2 DEF Request, Idle
    <3> QED BY <1>1, <2>2, <3>1 DEF TInv, RequestsKnow
  <2>3. CASE request[w].step = "stamped"
    <3> DEFINE v == request[w].event
    <3>1. v \in Event
      BY <2>1, <2>3 DEF Request, Idle
    <3>2. v.finding \in Nat /\ v.finding < nextFinding
      BY <2>3, <3>1 DEF TInv, RequestsKnow, Event
    <3>3. v.finding \in DOMAIN finding => Allowed(v.finding, v.action)
      BY <2>3 DEF TInv, RequestsKnow
    <3> QED BY <1>1, <1>2, <2>3, <3>2, <3>3 DEF Allowed
  <2> QED BY <2>2, <2>3
<1>6. SweepIsPast'
  BY <1>2 DEF TInv, SweepIsPast
<1> QED BY <1>1, <1>3, <1>4, <1>5, <1>6 DEF TInv

\* What a step that changes neither the findings nor the stable identities has
\* to show.
LEMMA TriageStep ==
    ASSUME TInv, UNCHANGED <<vars, unstable>>, TriageTypeOK',
           \A e \in DOMAIN event' : Allowed(event'[e].finding, event'[e].action),
           \A w \in Requests :
              /\ request'[w].step = "checked" => request'[w].finding < nextFinding
              /\ request'[w].step = "stamped" =>
                    LET v == request'[w].event
                    IN /\ v.finding < nextFinding
                       /\ v.finding \in DOMAIN finding => Allowed(v.finding, v.action),
           SweepIsPast'
    PROVE  TInv'
<1>1. IInv'
  BY LifecycleStep DEF TInv
<1>2. \A i, act : Allowed(i, act)' <=> Allowed(i, act)
  BY DEF Allowed, vars
<1>3. NoUnstableDecision'
  BY <1>2 DEF NoUnstableDecision, Allowed, vars
<1>4. RequestsKnow'
  BY <1>2 DEF RequestsKnow, Allowed, vars
<1> QED BY <1>1, <1>3, <1>4 DEF TInv

\* The first step of a writer: it takes an id that is there.
LEMMA CheckStep ==
    ASSUME TInv, NEW w \in Requests, NEW i \in DOMAIN finding, NEW act \in TriageActions,
           NEW expires \in Nat,
           request' = [request EXCEPT ![w] =
              [step |-> "checked", finding |-> i, action |-> act, expires |-> expires]],
           UNCHANGED <<vars, unstable, clock, event, nextEvent, sweep>>
    PROVE  TInv'
<1>1. i \in Nat /\ i < nextFinding
  BY DEF TInv, IInv, TypeOK
<1>2. TriageTypeOK /\ RequestsKnow /\ SweepIsPast /\ NoUnstableDecision
  BY DEF TInv
<1> DEFINE q == [step |-> "checked", finding |-> i, action |-> act, expires |-> expires]
<1>3. q \in Request
  BY <1>1 DEF Request
<1>4. TriageTypeOK'
  BY <1>2, <1>3 DEF TriageTypeOK, vars
<1>5. \A x \in Requests : request'[x] = IF x = w THEN q ELSE request[x]
  BY <1>2 DEF TriageTypeOK
<1>6. q.step = "checked" /\ q.finding < nextFinding
  BY <1>1
<1>7. \A x \in Requests :
        /\ request'[x].step = "checked" => request'[x].finding < nextFinding
        /\ request'[x].step = "stamped" =>
              LET v == request'[x].event
              IN /\ v.finding < nextFinding
                 /\ v.finding \in DOMAIN finding => Allowed(v.finding, v.action)
  <2> HIDE DEF q
  <2> QED BY <1>2, <1>5, <1>6 DEF RequestsKnow
<1>8. SweepIsPast'
  BY <1>2 DEF SweepIsPast
<1> QED BY <1>2, <1>4, <1>7, <1>8, TriageStep DEF NoUnstableDecision

\* A stamped event has passed the identity check, if its finding is there.
LEMMA StampStep ==
    ASSUME TInv, NEW w \in Requests, StampEvent(w)
    PROVE  TInv'
<1> DEFINE q == request[w]
           v == [finding |-> q.finding, action |-> q.action, at |-> clock, expires |-> q.expires]
<1>1. TriageTypeOK /\ RequestsKnow /\ SweepIsPast /\ NoUnstableDecision
  BY DEF TInv
<1>2. q.step = "checked" /\ UNCHANGED <<vars, unstable, clock, event, nextEvent, sweep>>
  BY DEF StampEvent
<1>3. q \in [step : {"checked"}, finding : Nat, action : TriageActions, expires : Nat]
  BY <1>1, <1>2 DEF TriageTypeOK, Request, Idle
<1>4. v \in Event /\ v.finding = q.finding /\ v.action = q.action
  BY <1>1, <1>3, TriageBoundsAssumption DEF Event, TriageTypeOK
<1>5. q.finding < nextFinding
  BY <1>1, <1>2 DEF RequestsKnow
<1>6. MayRecord(q.finding, q.action) =>
        (v.finding \in DOMAIN finding => Allowed(v.finding, v.action))
  BY <1>4 DEF MayRecord, Allowed
<1> DEFINE p == IF MayRecord(q.finding, q.action) THEN [step |-> "stamped", event |-> v] ELSE Idle
<1>7. request' = [request EXCEPT ![w] = p]
  BY DEF StampEvent
<1>8. p \in Request
  <2> HIDE DEF v, q
  <2> QED BY <1>4 DEF Request
<1>9. /\ p.step # "checked"
      /\ p.step = "stamped" => p.event.finding < nextFinding
      /\ p.step = "stamped" =>
            (p.event.finding \in DOMAIN finding => Allowed(p.event.finding, p.event.action))
  <2> HIDE DEF v, q
  <2>1. CASE MayRecord(q.finding, q.action)
    BY <1>4, <1>5, <1>6, <2>1
  <2>2. CASE ~MayRecord(q.finding, q.action)
    BY <2>2 DEF Idle
  <2> QED BY <2>1, <2>2
<1>10. TriageTypeOK'
  <2> HIDE DEF p
  <2> QED BY <1>1, <1>2, <1>7, <1>8 DEF TriageTypeOK, vars
<1>11. \A x \in Requests :
        /\ request'[x].step = "checked" => request'[x].finding < nextFinding
        /\ request'[x].step = "stamped" =>
              LET u == request'[x].event
              IN /\ u.finding < nextFinding
                 /\ u.finding \in DOMAIN finding => Allowed(u.finding, u.action)
  <2> HIDE DEF p
  <2>1. \A x \in Requests : request'[x] = IF x = w THEN p ELSE request[x]
    BY <1>1, <1>7 DEF TriageTypeOK
  <2> QED BY <1>1, <1>9, <2>1 DEF RequestsKnow
<1>12. SweepIsPast'
  BY <1>1, <1>2 DEF SweepIsPast
<1> QED BY <1>1, <1>2, <1>10, <1>11, <1>12, TriageStep DEF NoUnstableDecision

\* An INSERT keeps the log typed: the foreign key refuses an event whose
\* finding is gone.
LEMMA InsertStep ==
    ASSUME TInv, NEW w \in Requests, InsertEvent(w)
    PROVE  TInv'
<1> DEFINE q == request[w]
<1>1. TriageTypeOK /\ RequestsKnow /\ SweepIsPast /\ NoUnstableDecision
  BY DEF TInv
<1>2. /\ q.step = "stamped" /\ UNCHANGED <<vars, unstable, clock, sweep>>
      /\ request' = [request EXCEPT ![w] = Idle]
  BY DEF InsertEvent
<1>3. q.event \in Event
  BY <1>1, <1>2 DEF TriageTypeOK, Request, Idle
<1>4. \/ /\ q.event.finding \in DOMAIN finding
         /\ event' = [e \in DOMAIN event \cup {nextEvent} |->
                         IF e = nextEvent THEN q.event ELSE event[e]]
         /\ nextEvent' = nextEvent + 1
      \/ event' = event /\ nextEvent' = nextEvent
  BY DEF InsertEvent
<1>5. nextEvent \in Nat \ {0} /\ DOMAIN event \subseteq 1 .. nextEvent - 1
  BY <1>1 DEF TriageTypeOK
<1>6. request' \in [Requests -> Request] /\ \A x \in Requests : x = w \/ request'[x] = request[x]
  BY <1>1, <1>2 DEF TriageTypeOK, Request
<1>7. /\ nextEvent' \in Nat \ {0}
      /\ DOMAIN event' \subseteq 1 .. nextEvent' - 1
      /\ event' \in [DOMAIN event' -> Event]
      /\ \A e \in DOMAIN event' : event'[e].finding \in DOMAIN finding
  <2> HIDE DEF q
  <2> QED BY <1>1, <1>3, <1>4, <1>5 DEF TriageTypeOK
<1>8. TriageTypeOK'
  BY <1>1, <1>2, <1>6, <1>7 DEF TriageTypeOK, vars
<1>9. \A e \in DOMAIN event' : Allowed(event'[e].finding, event'[e].action)
  <2>1. q.event.finding \in DOMAIN finding => Allowed(q.event.finding, q.event.action)
    BY <1>1, <1>2 DEF RequestsKnow
  <2> HIDE DEF q
  <2> QED BY <1>1, <1>4, <2>1 DEF NoUnstableDecision
<1>10. request'[w].step = "idle"
  BY <1>1, <1>2 DEF Idle, TriageTypeOK
<1>11. SweepIsPast'
  BY <1>1, <1>2 DEF SweepIsPast
<1>12. \A x \in Requests :
        /\ request'[x].step = "checked" => request'[x].finding < nextFinding
        /\ request'[x].step = "stamped" =>
              LET u == request'[x].event
              IN /\ u.finding < nextFinding
                 /\ u.finding \in DOMAIN finding => Allowed(u.finding, u.action)
  BY <1>1, <1>6, <1>10 DEF RequestsKnow
<1> QED BY <1>2, <1>8, <1>9, <1>11, <1>12, TriageStep

\* The sweep writes expiries only, on findings that are all there.
LEMMA SweepWriteStep ==
    ASSUME TInv, SweepWrite
    PROVE  TInv'
<1> DEFINE n == Cardinality(sweep.due)
           ids == nextEvent .. nextEvent + n - 1
<1>1. TriageTypeOK /\ RequestsKnow /\ SweepIsPast /\ NoUnstableDecision
  BY DEF TInv
<1>2. sweep.step = "read" /\ UNCHANGED <<vars, unstable, clock, request>> /\ sweep' = NotSweeping
  BY DEF SweepWrite
<1>3. sweep.since \in Nat /\ sweep.since =< clock /\ clock \in Nat
  BY <1>1, <1>2, TriageBoundsAssumption DEF TriageTypeOK, Sweep, NotSweeping, SweepIsPast
<1>4. nextEvent \in Nat \ {0} /\ DOMAIN event \subseteq 1 .. nextEvent - 1
  BY <1>1 DEF TriageTypeOK
<1>5. CASE event' = event /\ nextEvent' = nextEvent
  <2>1. TriageTypeOK'
    BY <1>1, <1>2, <1>5 DEF TriageTypeOK, Sweep, vars
  <2>2. SweepIsPast'
    BY <1>2 DEF SweepIsPast, NotSweeping
  <2> QED BY <1>1, <1>2, <1>5, <2>1, <2>2, TriageStep DEF RequestsKnow, NoUnstableDecision
<1>6. CASE sweep.due \subseteq DOMAIN finding /\ ~(event' = event /\ nextEvent' = nextEvent)
  <2>1. n \in Nat
    <3>1. nextFinding \in Nat /\ DOMAIN finding \subseteq 1 .. nextFinding - 1
      BY DEF TInv, IInv, TypeOK
    <3>2. IsFiniteSet(1 .. nextFinding - 1)
      BY <3>1, FS_Interval
    <3>3. IsFiniteSet(sweep.due)
      BY <1>6, <3>1, <3>2, FS_Subset
    <3> QED BY <3>3, FS_CardinalityType
  <2>2. PICK first \in sweep.since .. clock, due \in [ids -> sweep.due] :
          /\ event' = [e \in DOMAIN event \cup ids |->
                         IF e \in ids
                         THEN [finding |-> due[e], action |-> "risk_acceptance_expired",
                               at |-> IF e = nextEvent THEN first ELSE clock,
                               expires |-> NoExpiry]
                         ELSE event[e]]
          /\ nextEvent' = nextEvent + n
    BY <1>6 DEF SweepWrite
  <2>3. first \in Nat
    BY <1>3
  <2>4. \A e \in ids : /\ event'[e] \in Event
                       /\ event'[e].finding \in DOMAIN finding
                       /\ event'[e].action \notin Carrying
    <3> TAKE e \in ids
    <3>1. due[e] \in DOMAIN finding /\ due[e] \in Nat
      BY <1>6 DEF TInv, IInv, TypeOK
    <3> DEFINE at == IF e = nextEvent THEN first ELSE clock
    <3>2. event'[e] = [finding |-> due[e], action |-> "risk_acceptance_expired",
                       at |-> at, expires |-> NoExpiry]
      BY <2>2
    <3>3. at \in Nat
      BY <1>3, <2>3
    <3> HIDE DEF at
    <3> QED BY <3>1, <3>2, <3>3 DEF Event, TriageActions, NoExpiry, Carrying
  <2>5. /\ DOMAIN event' = DOMAIN event \cup ids
        /\ \A e \in DOMAIN event \ ids : event'[e] = event[e]
    BY <2>2
  <2>6. nextEvent' \in Nat \ {0} /\ DOMAIN event' \subseteq 1 .. nextEvent' - 1
    <3> HIDE DEF n
    <3> QED BY <1>4, <2>1, <2>2, <2>5
  <2>7. event' \in [DOMAIN event' -> Event] /\ \A e \in DOMAIN event' : event'[e].finding \in DOMAIN finding
    <3>1. \A e \in DOMAIN event' : event'[e] \in Event /\ event'[e].finding \in DOMAIN finding
      <4> HIDE DEF ids
      <4> QED BY <1>1, <2>4, <2>5 DEF TriageTypeOK
    <3>2. event' = [e \in DOMAIN event' |-> event'[e]]
      BY <2>2
    <3> QED BY <3>1, <3>2
  <2>8. TriageTypeOK'
    BY <1>1, <1>2, <2>6, <2>7 DEF TriageTypeOK, Sweep, vars
  <2>9. \A e \in DOMAIN event' : Allowed(event'[e].finding, event'[e].action)
    <3> HIDE DEF ids
    <3> QED BY <1>1, <2>4, <2>5 DEF NoUnstableDecision, Allowed
  <2>10. SweepIsPast'
    BY <1>2 DEF SweepIsPast, NotSweeping
  <2> QED BY <1>1, <1>2, <2>8, <2>9, <2>10, TriageStep DEF RequestsKnow
<1> QED BY <1>5, <1>6 DEF SweepWrite

\* The sweep's reading, and the clock.
LEMMA QuietStep ==
    ASSUME TInv, SweepRead \/ Tick
    PROVE  TInv'
<1>1. TriageTypeOK /\ RequestsKnow /\ SweepIsPast /\ NoUnstableDecision
  BY DEF TInv
<1>2. UNCHANGED <<vars, unstable, event, nextEvent, request>>
  BY DEF SweepRead, Tick
<1>3. clock \in Nat /\ MaxClock \in Nat
  BY <1>1, TriageBoundsAssumption DEF TriageTypeOK
<1>4. TriageTypeOK' /\ SweepIsPast'
  <2>1. CASE SweepRead
    <3>1. DueForExpiry \subseteq Nat
      BY DEF DueForExpiry, TInv, IInv, TypeOK
    <3>2. /\ sweep' = [step |-> "read", since |-> clock, due |-> DueForExpiry]
          /\ clock' = clock
      BY <2>1 DEF SweepRead
    <3>3. sweep' \in Sweep
      BY <1>3, <3>1, <3>2 DEF Sweep
    <3>4. TriageTypeOK'
      BY <1>1, <1>2, <3>2, <3>3 DEF TriageTypeOK, vars
    <3>5. sweep'.since =< clock'
      BY <1>3, <3>2
    <3> QED BY <3>4, <3>5 DEF SweepIsPast
  <2>2. CASE Tick
    <3>1. clock < MaxClock /\ clock' = clock + 1 /\ sweep' = sweep
      BY <2>2 DEF Tick
    <3>2. TriageTypeOK'
      BY <1>1, <1>2, <1>3, <3>1 DEF TriageTypeOK, vars
    <3>3. sweep.step = "read" => sweep.since \in Nat
      BY <1>1 DEF TriageTypeOK, Sweep, NotSweeping
    <3> QED BY <1>1, <1>3, <3>1, <3>2, <3>3 DEF SweepIsPast
  <2> QED BY <2>1, <2>2
<1> QED BY <1>1, <1>2, <1>4, TriageStep DEF RequestsKnow, NoUnstableDecision

-----------------------------------------------------------------------------

\* The invariant of the composition is inductive.
THEOREM TriageInvariance == TriageSpec => []TInv
<1>1. TriageInit => TInv
  BY InitTInv
<1>2. TInv /\ [TriageNext]_allVars => TInv'
  <2> SUFFICES ASSUME TInv, [TriageNext]_allVars PROVE TInv'
    OBVIOUS
  <2>1. CASE ImportBeside \/ DeleteBeside
    BY <2>1, OperationStep
  <2>2. CASE Tick \/ SweepRead
    BY <2>2, QuietStep
  <2>3. CASE SweepWrite
    BY <2>3, SweepWriteStep
  <2>4. ASSUME NEW w \in Requests, StampEvent(w) \/ InsertEvent(w)
        PROVE  TInv'
    BY <2>4, StampStep, InsertStep
  <2>5. ASSUME NEW w \in Requests, NEW i \in DOMAIN finding, NEW act \in TriageActions,
               CheckFinding(w, i, act)
        PROVE  TInv'
    <3>1. NoExpiry \in Nat
      BY DEF NoExpiry
    <3> QED BY <2>5, <3>1, CheckStep DEF CheckFinding
  <2>6. ASSUME NEW w \in Requests, NEW i \in DOMAIN finding, NEW act \in TriageActions,
               NEW expires \in IF act = "accepted_risk" THEN Expiries ELSE {NoExpiry},
               CallAppend(w, i, act, expires)
        PROVE  TInv'
    <3>1. expires \in Nat
      BY ExpiriesAssumption DEF NoExpiry
    <3> QED BY <2>6, <3>1, CheckStep DEF CallAppend
  <2>7. CASE UNCHANGED allVars
    <3>1. /\ UNCHANGED <<vars, unstable, clock, event, nextEvent, request, sweep>>
          /\ TriageTypeOK /\ NoUnstableDecision /\ RequestsKnow /\ SweepIsPast
      BY <2>7 DEF allVars, triageVars, TInv
    <3>2. TriageTypeOK' /\ SweepIsPast'
      BY <3>1 DEF TriageTypeOK, SweepIsPast, vars
    <3> QED BY <3>1, <3>2, TriageStep DEF RequestsKnow, NoUnstableDecision
  <2> QED BY <2>1, <2>2, <2>3, <2>4, <2>5, <2>6, <2>7 DEF TriageNext
<1> QED BY <1>1, <1>2, PTL DEF TriageSpec

\* No event ever outlives its finding, no id is reused and no writer carries a
\* malformed event, whatever is imported or deleted between its steps.
THEOREM TriageTypeCorrect == TriageSpec => []TriageTypeOK
<1>1. TInv => TriageTypeOK
  BY DEF TInv
<1> QED BY <1>1, TriageInvariance, PTL

\* No decision on a finding without a stable identity is ever in the log, even
\* when the finding was deleted between the check and the INSERT.
THEOREM NeverDecidedUnstable == TriageSpec => []NoUnstableDecision
<1>1. TInv => NoUnstableDecision
  BY DEF TInv
<1> QED BY <1>1, TriageInvariance, PTL

\* Triage writers do not disturb the lifecycle: beside them the findings still
\* behave as FindingLifecycle says, so its theorems hold of the composition.
THEOREM TriageIsBesideTheLifecycle == TriageSpec => Spec
<1>1. TriageInit => Init
  BY DEF TriageInit
<1>2. [TriageNext]_allVars => [Next]_vars
  BY BesideTheLifecycle
<1> QED BY <1>1, <1>2, PTL DEF TriageSpec, Spec

-----------------------------------------------------------------------------
(* The folds, over any log.                                                *)

\* What the folds compute.
StatusRange == [state : {"open", "acknowledged", "accepted_risk"}, expires : Nat]
EntryRange == [accepted : BOOLEAN, revoked : BOOLEAN, expired : BOOLEAN, expires : Nat]

\* Any of the events are finitely many: their ids are below the sequence.
LEMMA EventSetsFinite ==
    ASSUME TriageTypeOK, NEW E \in SUBSET DOMAIN event
    PROVE  IsFiniteSet(E)
<1>1. nextEvent - 1 \in Int /\ E \in SUBSET (1 .. nextEvent - 1)
  BY DEF TriageTypeOK
<1>2. IsFiniteSet(1 .. nextEvent - 1)
  BY <1>1, FS_Interval
<1> QED BY <1>1, <1>2, FS_Subset

\* The order of the folds is a strict order of all events: any of them have a
\* last one.
LEMMA LastExists ==
    ASSUME TriageTypeOK, NEW E \in SUBSET DOMAIN event, E # {}
    PROVE  /\ LastOf(E) \in E
           /\ \A d \in E : d = LastOf(E) \/ TriageOrder(d, LastOf(E))
<1> DEFINE R == {p \in E \X E : TriageOrder(p[1], p[2])}
<1>1. IsFiniteSet(E)
  BY EventSetsFinite
<1>2. \A d \in E : d \in Nat /\ event[d].at \in Nat
  BY DEF TriageTypeOK, Event
<1>3. \A d, e \in E : <<d, e>> \in R <=> TriageOrder(d, e)
  OBVIOUS
<1>4. \A d, e \in E : d = e \/ TriageOrder(d, e) \/ TriageOrder(e, d)
  BY <1>2 DEF TriageOrder
<1>5. \A c, d, e \in E : TriageOrder(c, d) /\ TriageOrder(d, e) => TriageOrder(c, e)
  BY <1>2 DEF TriageOrder
<1>6. \E x \in E : \A y \in E : y = x \/ <<y, x>> \in R
  <2> HIDE DEF R
  <2> QED BY <1>1, <1>3, <1>4, <1>5, GreatestExists
<1>7. \E x \in E : \A y \in E : y = x \/ TriageOrder(y, x)
  BY <1>3, <1>6
<1> QED BY <1>7 DEF LastOf

\* One event takes a status to a status.
LEMMA StatusStepTyped ==
    ASSUME TriageTypeOK, NEW e \in DOMAIN event, NEW status \in StatusRange
    PROVE  StatusAfter(status, e) \in StatusRange
<1>1. event[e] \in Event
  BY DEF TriageTypeOK
<1> QED BY <1>1 DEF StatusAfter, StatusRange, Event, NoExpiry, TriageActions

\* One event takes an entry of the register to an entry.
LEMMA EntryStepTyped ==
    ASSUME TriageTypeOK, NEW e \in DOMAIN event, NEW entry \in EntryRange
    PROVE  RegisterAfter(entry, e) \in EntryRange
<1>1. event[e] \in Event
  BY DEF TriageTypeOK
<1> QED BY <1>1 DEF RegisterAfter, EntryRange, Event, NoExpiry, TriageActions

\* The current status is what the last event leaves of the status before it.
LEMMA StatusFolds ==
    ASSUME TriageTypeOK, NEW i
    PROVE  \E f \in [SUBSET EventsOf(i) -> StatusRange] :
              /\ f[EventsOf(i)] = Status(i)
              /\ f[{}] = NoStatus
              /\ \A T \in SUBSET EventsOf(i) :
                    T # {} => f[T] = StatusAfter(f[T \ {LastOf(T)}], LastOf(T))
<1> DEFINE S == EventsOf(i)
           choose == [T \in SUBSET S |-> LastOf(T)]
           step == [e \in S |-> [x \in StatusRange |-> StatusAfter(x, e)]]
           Equation(f) == f = [s \in SUBSET S |-> IF s = {} THEN NoStatus
                                 ELSE StatusAfter(f[s \ {LastOf(s)}], LastOf(s))]
<1>1. IsFiniteSet(S) /\ S \subseteq DOMAIN event
  BY EventSetsFinite DEF EventsOf
<1>2. Chooses(choose, S)
  BY <1>1, LastExists DEF Chooses
<1>3. step \in [S -> [StatusRange -> StatusRange]]
  BY <1>1, StatusStepTyped
<1>4. NoStatus \in StatusRange
  BY DEF NoStatus, StatusRange, NoExpiry
<1>5. PICK f \in [SUBSET S -> StatusRange] : IsFold(f, S, NoStatus, choose, step)
  <2> HIDE DEF S, choose, step, Equation
  <2> QED BY <1>1, <1>2, <1>3, <1>4, FoldExists, Zenon
<1>6. \A T \in SUBSET S :
         f[T] = IF T = {} THEN NoStatus ELSE StatusAfter(f[T \ {LastOf(T)}], LastOf(T))
  <2> SUFFICES ASSUME NEW T \in SUBSET S, T # {}
               PROVE  f[T] = StatusAfter(f[T \ {LastOf(T)}], LastOf(T))
    BY <1>5 DEF IsFold
  <2>1. choose[T] = LastOf(T) /\ LastOf(T) \in S /\ f[T \ {LastOf(T)}] \in StatusRange
    BY <1>2 DEF Chooses
  <2>2. f[T] = step[LastOf(T)][f[T \ {LastOf(T)}]]
    BY <1>5, <2>1 DEF IsFold
  <2> HIDE DEF S, choose
  <2> QED BY <2>1, <2>2
<1>7. \E g : Equation(g)
  <2>1. Equation(f)
    BY <1>6
  <2> QED BY <2>1
<1> DEFINE iter == CHOOSE g : Equation(g)
<1>8. Equation(iter)
  BY <1>7
<1>9. Status(i) = iter[S]
  BY DEF Status, FoldEvents, MapThenFoldSet
<1>10. iter[S] = f[S]
  <2> DEFINE Good == {T \in SUBSET S : iter[T] = f[T]}
  <2>1. {} \in Good
    BY <1>6, <1>8
  <2>2. ASSUME NEW T \in SUBSET S, T # {}, T \ {choose[T]} \in Good
        PROVE  T \in Good
    <3>1. choose[T] = LastOf(T) /\ iter[T \ {LastOf(T)}] = f[T \ {LastOf(T)}]
      BY <2>2
    <3> HIDE DEF iter, choose
    <3> QED BY <1>6, <1>8, <2>2, <3>1
  <2>3. S \in Good
    <3> HIDE DEF Good, S, choose, Equation
    <3> QED BY <1>1, <1>2, <2>1, <2>2, SubsetInduction
  <2> QED BY <2>3
<1>11. S \in SUBSET S /\ {} \in SUBSET S
  OBVIOUS
<1> HIDE DEF iter
<1> QED BY <1>6, <1>9, <1>10, <1>11
\* So is the entry of the register.
LEMMA RegisterFolds ==
    ASSUME TriageTypeOK, NEW i
    PROVE  \E f \in [SUBSET EventsOf(i) -> EntryRange] :
              /\ f[EventsOf(i)] = RegisterEntry(i)
              /\ f[{}] = NoEntry
              /\ \A T \in SUBSET EventsOf(i) :
                    T # {} => f[T] = RegisterAfter(f[T \ {LastOf(T)}], LastOf(T))
<1> DEFINE S == EventsOf(i)
           choose == [T \in SUBSET S |-> LastOf(T)]
           step == [e \in S |-> [x \in EntryRange |-> RegisterAfter(x, e)]]
           Equation(f) == f = [s \in SUBSET S |-> IF s = {} THEN NoEntry
                                 ELSE RegisterAfter(f[s \ {LastOf(s)}], LastOf(s))]
<1>1. IsFiniteSet(S) /\ S \subseteq DOMAIN event
  BY EventSetsFinite DEF EventsOf
<1>2. Chooses(choose, S)
  BY <1>1, LastExists DEF Chooses
<1>3. step \in [S -> [EntryRange -> EntryRange]]
  BY <1>1, EntryStepTyped
<1>4. NoEntry \in EntryRange
  BY DEF NoEntry, EntryRange, NoExpiry
<1>5. PICK f \in [SUBSET S -> EntryRange] : IsFold(f, S, NoEntry, choose, step)
  <2> HIDE DEF S, choose, step, Equation
  <2> QED BY <1>1, <1>2, <1>3, <1>4, FoldExists, Zenon
<1>6. \A T \in SUBSET S :
         f[T] = IF T = {} THEN NoEntry ELSE RegisterAfter(f[T \ {LastOf(T)}], LastOf(T))
  <2> SUFFICES ASSUME NEW T \in SUBSET S, T # {}
               PROVE  f[T] = RegisterAfter(f[T \ {LastOf(T)}], LastOf(T))
    BY <1>5 DEF IsFold
  <2>1. choose[T] = LastOf(T) /\ LastOf(T) \in S /\ f[T \ {LastOf(T)}] \in EntryRange
    BY <1>2 DEF Chooses
  <2>2. f[T] = step[LastOf(T)][f[T \ {LastOf(T)}]]
    BY <1>5, <2>1 DEF IsFold
  <2> HIDE DEF S, choose
  <2> QED BY <2>1, <2>2
<1>7. \E g : Equation(g)
  <2>1. Equation(f)
    BY <1>6
  <2> QED BY <2>1
<1> DEFINE iter == CHOOSE g : Equation(g)
<1>8. Equation(iter)
  BY <1>7
<1>9. RegisterEntry(i) = iter[S]
  BY DEF RegisterEntry, FoldEvents, MapThenFoldSet
<1>10. iter[S] = f[S]
  <2> DEFINE Good == {T \in SUBSET S : iter[T] = f[T]}
  <2>1. {} \in Good
    BY <1>6, <1>8
  <2>2. ASSUME NEW T \in SUBSET S, T # {}, T \ {choose[T]} \in Good
        PROVE  T \in Good
    <3>1. choose[T] = LastOf(T) /\ iter[T \ {LastOf(T)}] = f[T \ {LastOf(T)}]
      BY <2>2
    <3> HIDE DEF iter, choose
    <3> QED BY <1>6, <1>8, <2>2, <3>1
  <2>3. S \in Good
    <3> HIDE DEF Good, S, choose, Equation
    <3> QED BY <1>1, <1>2, <2>1, <2>2, SubsetInduction
  <2> QED BY <2>3
<1>11. S \in SUBSET S /\ {} \in SUBSET S
  OBVIOUS
<1> HIDE DEF iter
<1> QED BY <1>6, <1>9, <1>10, <1>11

\* Whatever holds of no event and of some events because it holds without the
\* last of them holds of all events of a finding.
LEMMA FoldsInStep ==
    ASSUME TriageTypeOK, NEW i, NEW Good, {} \in Good,
           \A T \in SUBSET EventsOf(i) :
              T # {} /\ T \ {LastOf(T)} \in Good => T \in Good
    PROVE  EventsOf(i) \in Good
<1> DEFINE S == EventsOf(i)
           choose == [T \in SUBSET S |-> LastOf(T)]
<1>1. IsFiniteSet(S) /\ S \subseteq DOMAIN event
  BY EventSetsFinite DEF EventsOf
<1>2. Chooses(choose, S)
  BY <1>1, LastExists DEF Chooses
<1>3. \A T \in SUBSET S : T # {} /\ T \ {choose[T]} \in Good => T \in Good
  OBVIOUS
<1> HIDE DEF S, choose
<1> QED BY <1>1, <1>2, <1>3, SubsetInduction DEF S

\* The last of some events of a finding is one of them, and none follows it.
LEMMA LastStep ==
    ASSUME TriageTypeOK, NEW i, NEW T \in SUBSET EventsOf(i), T # {}
    PROVE  /\ LastOf(T) \in T /\ LastOf(T) \in DOMAIN event
           /\ event[LastOf(T)] \in Event /\ event[LastOf(T)].finding = i
           /\ \A d \in T : d = LastOf(T) \/ TriageOrder(d, LastOf(T))
           /\ T \ {LastOf(T)} \in SUBSET EventsOf(i)
<1>1. T \in SUBSET DOMAIN event
  BY DEF EventsOf
<1>2. LastOf(T) \in T /\ \A d \in T : d = LastOf(T) \/ TriageOrder(d, LastOf(T))
  BY <1>1, LastExists
<1> QED BY <1>1, <1>2 DEF EventsOf, TriageTypeOK

\* The two folds agree on an acceptance: one that the status shows is live in
\* the register, and one that is live in the register has not left the status
\* open.  Both hold after every event if they held before it.
LEMMA AcceptanceAgrees ==
    ASSUME TriageTypeOK, NEW i
    PROVE  /\ Status(i).state = "accepted_risk" =>
                 /\ RegisterEntry(i).accepted
                 /\ ~RegisterEntry(i).revoked
                 /\ ~RegisterEntry(i).expired
                 /\ RegisterEntry(i).expires = Status(i).expires
           /\ RegisterEntry(i).accepted /\ ~RegisterEntry(i).revoked /\ ~RegisterEntry(i).expired
                 => Status(i).state # "open"
<1>1. PICK f \in [SUBSET EventsOf(i) -> StatusRange] :
              /\ f[EventsOf(i)] = Status(i)
              /\ f[{}] = NoStatus
              /\ \A T \in SUBSET EventsOf(i) :
                    T # {} => f[T] = StatusAfter(f[T \ {LastOf(T)}], LastOf(T))
  BY StatusFolds
<1>2. PICK g \in [SUBSET EventsOf(i) -> EntryRange] :
              /\ g[EventsOf(i)] = RegisterEntry(i)
              /\ g[{}] = NoEntry
              /\ \A T \in SUBSET EventsOf(i) :
                    T # {} => g[T] = RegisterAfter(g[T \ {LastOf(T)}], LastOf(T))
  BY RegisterFolds
<1> DEFINE Agree(s, r) ==
             /\ s.state = "accepted_risk" =>
                   r.accepted /\ ~r.revoked /\ ~r.expired /\ r.expires = s.expires
             /\ r.accepted /\ ~r.revoked /\ ~r.expired => s.state # "open"
           Good == {T \in SUBSET EventsOf(i) : Agree(f[T], g[T])}
<1>3. {} \in Good
  BY <1>1, <1>2 DEF NoStatus, NoEntry
<1>4. ASSUME NEW T \in SUBSET EventsOf(i), T # {}, T \ {LastOf(T)} \in Good
      PROVE  T \in Good
  <2> DEFINE e == LastOf(T)
             s == f[T \ {e}]
             r == g[T \ {e}]
  <2>1. s \in StatusRange /\ r \in EntryRange /\ event[e] \in Event /\ Agree(s, r)
    BY <1>4, LastStep
  <2>2. f[T] = StatusAfter(s, e) /\ g[T] = RegisterAfter(r, e)
    BY <1>1, <1>2, <1>4
  <2> HIDE DEF e, s, r
  <2>3. Agree(StatusAfter(s, e), RegisterAfter(r, e))
    BY <2>1 DEF StatusAfter, RegisterAfter, StatusRange, EntryRange, Event, TriageActions
  <2> QED BY <2>2, <2>3
<1>5. EventsOf(i) \in Good
  <2> HIDE DEF Good
  <2> QED BY <1>3, <1>4, FoldsInStep
<1> QED BY <1>1, <1>2, <1>5

\* A reopening that no event is later than leaves the finding open: what the
\* order puts after it at the same instant opens as well.
LEMMA ReopeningHolds ==
    ASSUME TriageTypeOK, NEW e \in DOMAIN event, event[e].action = "reopened",
           \A d \in DOMAIN event : event[d].finding = event[e].finding => event[d].at =< event[e].at
    PROVE  Status(event[e].finding).state = "open"
<1> DEFINE i == event[e].finding
<1>1. PICK f \in [SUBSET EventsOf(i) -> StatusRange] :
              /\ f[EventsOf(i)] = Status(i)
              /\ f[{}] = NoStatus
              /\ \A T \in SUBSET EventsOf(i) :
                    T # {} => f[T] = StatusAfter(f[T \ {LastOf(T)}], LastOf(T))
  BY StatusFolds
<1>2. e \in EventsOf(i)
  BY DEF EventsOf
<1> DEFINE Good == {T \in SUBSET EventsOf(i) : e \in T => f[T].state = "open"}
<1>3. ASSUME NEW T \in SUBSET EventsOf(i), T # {}, T \ {LastOf(T)} \in Good, e \in T
      PROVE  f[T].state = "open"
  <2> DEFINE l == LastOf(T)
             s == f[T \ {l}]
  <2> HIDE DEF i
  <2>1. /\ s \in StatusRange /\ event[l] \in Event /\ l \in DOMAIN event
        /\ event[l].finding = i
        /\ e = l \/ TriageOrder(e, l)
        /\ e # l => s.state = "open"
    BY <1>3, LastStep
  <2>2. f[T] = StatusAfter(s, l)
    BY <1>1, <1>3
  <2> HIDE DEF l, s
  <2>3. CASE e = l
    BY <2>1, <2>2, <2>3 DEF StatusAfter
  <2>4. CASE e # l
    <3>1. event[l].at =< event[e].at /\ event[l].at \in Nat /\ event[e].at \in Nat
      BY <2>1 DEF i, Event, TriageTypeOK
    <3>2. event[l].action \in Opening
      BY <2>1, <2>4, <3>1 DEF TriageOrder, Opening
    <3> QED BY <2>1, <2>2, <2>4, <3>2 DEF StatusAfter, StatusRange, Opening
  <2> QED BY <2>3, <2>4
<1>4. EventsOf(i) \in Good
  <2>1. {} \in Good
    OBVIOUS
  <2>2. \A T \in SUBSET EventsOf(i) : T # {} /\ T \ {LastOf(T)} \in Good => T \in Good
    BY <1>3
  <2> HIDE DEF Good, i
  <2> QED BY <2>1, <2>2, FoldsInStep
<1> QED BY <1>1, <1>2, <1>4

\* Without an event that decides, a finding stays open.
LEMMA UndecidedStaysOpen ==
    ASSUME TriageTypeOK, NEW i, \A e \in EventsOf(i) : event[e].action \notin Carrying
    PROVE  Status(i).state = "open"
<1>1. PICK f \in [SUBSET EventsOf(i) -> StatusRange] :
              /\ f[EventsOf(i)] = Status(i)
              /\ f[{}] = NoStatus
              /\ \A T \in SUBSET EventsOf(i) :
                    T # {} => f[T] = StatusAfter(f[T \ {LastOf(T)}], LastOf(T))
  BY StatusFolds
<1> DEFINE Good == {T \in SUBSET EventsOf(i) : f[T].state = "open"}
<1>2. {} \in Good
  BY <1>1 DEF NoStatus
<1>3. ASSUME NEW T \in SUBSET EventsOf(i), T # {}, T \ {LastOf(T)} \in Good
      PROVE  T \in Good
  <2> DEFINE l == LastOf(T)
             s == f[T \ {l}]
  <2>1. /\ s \in StatusRange /\ s.state = "open" /\ event[l] \in Event
        /\ event[l].action \notin Carrying
    BY <1>3, LastStep
  <2>2. f[T] = StatusAfter(s, l)
    BY <1>1, <1>3
  <2> HIDE DEF l, s
  <2>3. StatusAfter(s, l).state = "open"
    BY <2>1 DEF StatusAfter, StatusRange, Carrying, Event
  <2> QED BY <2>2, <2>3
<1>4. EventsOf(i) \in Good
  <2> HIDE DEF Good
  <2> QED BY <1>2, <1>3, FoldsInStep
<1> QED BY <1>1, <1>4

-----------------------------------------------------------------------------
\* The status of a finding is read from the events alone.
LEMMA StatusReadsEvents ==
    ASSUME UNCHANGED event
    PROVE  \A i : Status(i)' = Status(i)
BY DEF Status, FoldEvents, MapThenFoldSet, StatusAfter, EventsOf, LastOf, TriageOrder

\* An import that observes a fingerprint again keeps the row that was open, and
\* with it the status.
LEMMA DecisionsKept ==
    ASSUME TInv, [TriageNext]_allVars, NEW k \in Fingerprints,
           nextRun' = nextRun + 1, k \in ObservedIn(nextRun - 1)', OpenStatuses(k) # {}
    PROVE  OpenStatuses(k)' = OpenStatuses(k)
<1>1. nextRun \in Nat /\ nextRun \notin DOMAIN run /\ IInv
  BY DEF TInv, IInv, TypeOK
<1>2. ImportBeside
  <2>1. UNCHANGED nextRun \/ ImportBeside
    BY DEF TriageNext, allVars, vars, DeleteBeside, Delete, DeleteSnapshot, Tick, SweepRead,
           SweepWrite, StampEvent, InsertEvent, CheckFinding, CallAppend
  <2> QED BY <1>1, <2>1
<1>3. PICK estate \in Estate, candidates \in SUBSET Fingerprints, duplicates \in BOOLEAN :
         SaveEvaluatedEstate(estate, candidates, duplicates)
  BY <1>2 DEF ImportBeside, Import
<1>4. PICK newIds \in SUBSET (Nat \ {0}) : Imported(estate, candidates, duplicates, newIds)
  BY <1>1, <1>3, ImportEffect
<1> DEFINE persisting == Persisting(candidates)
           resolving == Resolving(candidates, StatusOf(duplicates), estate)
           Open == {i \in ActiveFindings : finding[i].key = k}
<1>5. /\ persisting \subseteq ActiveFindings /\ resolving \subseteq ActiveFindings
      /\ ActiveFindings \subseteq DOMAIN finding
      /\ \A i \in newIds : finding'[i].key \in candidates \ ActiveKeys
      /\ \A i \in DOMAIN finding :
            /\ finding'[i].key = finding[i].key
            /\ finding'[i].resolvedRun = IF i \in resolving THEN nextRun ELSE finding[i].resolvedRun
            /\ finding'[i].resolvedSnapshot =
                  IF i \in resolving THEN nextSnapshot ELSE finding[i].resolvedSnapshot
  <2> HIDE DEF persisting, resolving
  <2> QED BY <1>1, <1>4, ImportRows DEF persisting, resolving
<1>6. Open # {} /\ k \in ActiveKeys
  BY DEF OpenStatuses, ActiveKeys
<1>7. /\ DOMAIN finding' = DOMAIN finding \cup newIds
      /\ observation' = observation \cup ({nextRun} \X (persisting \cup newIds))
  BY <1>4 DEF Imported
<1>8. k \in candidates
  <2> HIDE DEF persisting, resolving, Open
  <2>1. PICK j \in DOMAIN finding' : <<nextRun, j>> \in observation' /\ finding'[j].key = k
    <3>1. nextRun' - 1 = nextRun
      BY <1>1
    <3>2. k \in {finding'[i].key : i \in {j \in DOMAIN finding' : <<nextRun' - 1, j>> \in observation'}}
      BY DEF ObservedIn
    <3> QED BY <3>1, <3>2
  <2>2. <<nextRun, j>> \notin observation
    BY <1>1 DEF IInv, TypeOK
  <2>3. j \in persisting \cup newIds
    BY <1>7, <2>1, <2>2
  <2>4. CASE j \in persisting
    BY <1>5, <2>1, <2>4 DEF Persisting, persisting
  <2>5. CASE j \in newIds
    BY <1>5, <2>1, <2>5
  <2> QED BY <2>3, <2>4, <2>5
<1>9. Open' = Open
  <2>1. \A i \in DOMAIN finding : finding[i].key = k => i \notin resolving
    BY <1>8 DEF Resolving
  <2>2. \A i \in newIds : finding'[i].key # k
    BY <1>5, <1>6
  <2>3. \A i : i \in Open <=> i \in DOMAIN finding /\ finding[i].key = k /\ Unresolved(i)
    BY DEF ActiveFindings
  <2>4. \A i : i \in Open' <=> i \in DOMAIN finding' /\ finding'[i].key = k /\ Unresolved(i)'
    BY DEF ActiveFindings
  <2>5. \A i \in DOMAIN finding : finding[i].key = k => (Unresolved(i)' <=> Unresolved(i))
    BY <1>5, <2>1 DEF Unresolved
  <2>6. \A i : i \in Open' <=> i \in Open
    <3> HIDE DEF Open, resolving
    <3> QED BY <1>5, <1>7, <2>2, <2>3, <2>4, <2>5
  <2> QED
    <3> HIDE DEF Open
    <3> QED BY <2>6
<1>10. \A i : Status(i)' = Status(i)
  BY <1>2, StatusReadsEvents DEF ImportBeside, triageVars
<1>11. OpenStatuses(k) = {Status(i).state : i \in Open}
  BY DEF OpenStatuses
<1>12. OpenStatuses(k)' = {Status(i)'.state : i \in Open'}
  BY DEF OpenStatuses
<1> HIDE DEF Open
<1> QED BY <1>9, <1>10, <1>11, <1>12

-----------------------------------------------------------------------------
\* Every acceptance the inbox shows is in the register, live and with the same
\* expiry: the two folds over the log never part, whatever it holds.
THEOREM RegisterComplete == TriageSpec => []RegisterHasEveryAcceptance
<1>1. TriageTypeOK => RegisterHasEveryAcceptance
  BY AcceptanceAgrees DEF RegisterHasEveryAcceptance
<1> QED BY <1>1, TriageTypeCorrect, PTL

\* What the register counts as an active acceptance the inbox does not list as
\* open.
THEOREM ActiveIsDecided == TriageSpec => []ActiveAcceptanceIsDecided
<1>1. TriageTypeOK => ActiveAcceptanceIsDecided
  BY AcceptanceAgrees DEF ActiveAcceptanceIsDecided, ActiveAcceptance
<1> QED BY <1>1, TriageTypeCorrect, PTL

\* At an equal instant a reopening wins over the decision, in either order of
\* the two commits.
THEOREM ReopeningWins == TriageSpec => []ReopeningWinsTheInstant
<1>1. TriageTypeOK => ReopeningWinsTheInstant
  BY ReopeningHolds DEF ReopeningWinsTheInstant
<1> QED BY <1>1, TriageTypeCorrect, PTL

\* The status of a finding without a stable identity is open, always: no event
\* on it decides, and without one the fold stays where it starts.
THEOREM UnstableStaysOpen == TriageSpec => []UnstableNeverDecided
<1>1. TInv => UnstableNeverDecided
  <2> SUFFICES ASSUME TInv, NEW i \in DOMAIN finding, finding[i].key \in unstable
               PROVE  Status(i).state = "open"
    BY DEF UnstableNeverDecided
  <2>1. \A e \in EventsOf(i) : event[e].action \notin Carrying
    BY DEF EventsOf, TInv, NoUnstableDecision, Allowed
  <2> QED BY <2>1, UndecidedStaysOpen DEF TInv
<1> QED BY <1>1, TriageInvariance, PTL

\* A fingerprint that was open and is observed again keeps its status through
\* the import, whatever the writers do beside it.
THEOREM DecisionsSurvive == TriageSpec => DecisionsSurviveImports
<1> DEFINE Survives == \A k \in Fingerprints :
                          /\ nextRun' = nextRun + 1
                          /\ k \in ObservedIn(nextRun - 1)'
                          /\ OpenStatuses(k) # {}
                          => OpenStatuses(k)' = OpenStatuses(k)
<1>1. TInv /\ [TriageNext]_allVars => [Survives]_allVars
  BY DecisionsKept
<1> QED BY <1>1, TriageInvariance, PTL DEF TriageSpec, DecisionsSurviveImports

=============================================================================
