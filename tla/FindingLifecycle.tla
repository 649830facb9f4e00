-------------------------- MODULE FindingLifecycle --------------------------
(***************************************************************************)
(* The finding lifecycle of gpo-lens: the tables snapshot, evaluation_run, *)
(* finding and finding_observation, and the two operations that write      *)
(* them, save_evaluated_estate (an import and its evaluation, one          *)
(* transaction) and delete_snapshot (with the schema's ON DELETE clauses). *)
(*                                                                         *)
(* A table is a function from the row ids it holds to its rows.  Ids are   *)
(* AUTOINCREMENT: never reused, never 0, so NULL stands for SQL's NULL.    *)
(* A finding's severity, prose and evidence are abstracted: a row is keyed *)
(* by its fingerprint, and a fingerprint fixes the GPO it is about.        *)
(***************************************************************************)
EXTENDS Integers, FiniteSets

CONSTANTS
    Fingerprints,   \* the finding identities followed; an estate may have others
    Gpos,           \* the GPOs an export can contain
    NoGpo,          \* gpo_id "": a finding whose subject is not a GPO
    GpoOf,          \* the GPO a fingerprint is about
    OldSnapshots,   \* bound: snapshots stored before runs were recorded
    MaxRuns         \* bound: imports

ASSUME FingerprintsAssumption == IsFiniteSet(Fingerprints)
ASSUME GposAssumption == NoGpo \notin Gpos
ASSUME GpoOfAssumption == GpoOf \in [Fingerprints -> Gpos \cup {NoGpo}]
ASSUME BoundsAssumption == OldSnapshots \in Nat /\ MaxRuns \in Nat

NULL == 0

VARIABLES
    snapshot,       \* snapshot id -> GPOs collected, were there coverage gaps
    run,            \* evaluation_run id -> its snapshot and status
    finding,        \* finding id -> the occurrence
    observation,    \* the (run, finding) pairs of finding_observation
    nextSnapshot, nextRun, nextFinding,     \* sqlite_sequence
    openAfter       \* history: run id -> the findings open when it committed

vars == <<snapshot, run, finding, observation,
          nextSnapshot, nextRun, nextFinding, openAfter>>

Estate == [collected : SUBSET Gpos, gaps : BOOLEAN]
RunStatus == {"completed", "partial"}
Run == [snapshot : Nat \ {0}, status : RunStatus]
Finding == [key : Fingerprints, firstSnapshot : Nat \ {0}, lastSnapshot : Nat \ {0},
            firstRun : Nat \ {0}, lastRun : Nat \ {0},
            resolvedRun : Nat, resolvedSnapshot : Nat, predecessor : Nat]

\* Every id in use is below the sequence it came from, and the foreign keys
\* the schema declares hold.
TypeOK ==
    /\ nextSnapshot \in Nat \ {0} /\ nextRun \in Nat \ {0} /\ nextFinding \in Nat \ {0}
    /\ DOMAIN snapshot \subseteq 1 .. nextSnapshot - 1
    /\ snapshot \in [DOMAIN snapshot -> Estate]
    /\ DOMAIN run \subseteq 1 .. nextRun - 1
    /\ run \in [DOMAIN run -> Run]
    /\ \A r \in DOMAIN run : run[r].snapshot \in DOMAIN snapshot
    /\ DOMAIN finding \subseteq 1 .. nextFinding - 1
    /\ finding \in [DOMAIN finding -> Finding]
    /\ \A i \in DOMAIN finding :
          /\ {finding[i].firstSnapshot, finding[i].lastSnapshot} \subseteq DOMAIN snapshot
          /\ finding[i].resolvedSnapshot \in DOMAIN snapshot \cup {NULL}
          /\ finding[i].predecessor \in DOMAIN finding \cup {NULL}
    /\ observation \subseteq (DOMAIN run) \X (DOMAIN finding)
    /\ openAfter \in [DOMAIN run -> SUBSET Nat]

-----------------------------------------------------------------------------
(* What the evaluation reads.                                              *)

\* Mutant: only the column of the older schema is read.
Unresolved_BySnapshot(i) == finding[i].resolvedSnapshot = NULL

Unresolved(i) ==
    finding[i].resolvedRun = NULL /\ finding[i].resolvedSnapshot = NULL

ActiveFindings == {i \in DOMAIN finding : Unresolved(i)}

\* Mutant: matches only what the previous run saw.
ActiveKeys_PreviousRun ==
    {finding[i].key : i \in {j \in ActiveFindings : finding[j].lastRun = nextRun - 1}}

\* Mutant: matches the rows of the snapshot being imported.
ActiveKeys_OfSnapshot ==
    {finding[i].key : i \in {j \in ActiveFindings : finding[j].lastSnapshot = nextSnapshot}}

ActiveKeys == {finding[i].key : i \in ActiveFindings}

\* absence_is_meaningful: may a finding that was not emitted be taken as gone?
AbsenceIsMeaningful(gpo, estate) ==
    \/ ~estate.gaps
    \/ gpo # NoGpo /\ gpo \in estate.collected

\* Mutant: the order of the SELECT is the other one.
LatestResolved_First(key) ==
    LET Candidates == {i \in DOMAIN finding : finding[i].key = key /\ ~Unresolved(i)}
    IN IF Candidates = {} THEN NULL
       ELSE CHOOSE i \in Candidates : \A j \in Candidates :
                finding[j].resolvedRun >= finding[i].resolvedRun

\* The resolved occurrence a new one with this fingerprint follows: the last
\* one resolved.  Rows resolved by the same run are ordered by snapshot, then
\* as they come.
LatestResolved(key) ==
    LET Candidates == {i \in DOMAIN finding : finding[i].key = key /\ ~Unresolved(i)}
    IN IF Candidates = {} THEN NULL
       ELSE CHOOSE i \in Candidates : \A j \in Candidates :
                finding[j].resolvedRun =< finding[i].resolvedRun

-----------------------------------------------------------------------------
(* What the evaluation writes.                                             *)

NewFinding(key, r, s) ==
    [key |-> key, firstSnapshot |-> s, lastSnapshot |-> s, firstRun |-> r, lastRun |-> r,
     resolvedRun |-> NULL, resolvedSnapshot |-> NULL, predecessor |-> LatestResolved(key)]

\* The rows the run sees again, and the rows it resolves.
Persisting(candidates) ==
    {i \in ActiveFindings : finding[i].key \in candidates}

\* Mutant: a partial run resolves too.
Resolving_AnyStatus(candidates, status, estate) ==
    {i \in ActiveFindings :
        /\ finding[i].key \notin candidates
        /\ AbsenceIsMeaningful(GpoOf[finding[i].key], estate)}

\* Mutant: a coverage gap anywhere keeps every finding open.
Resolving_NoGapsOnly(candidates, status, estate) ==
    {i \in ActiveFindings :
        /\ status = "completed"
        /\ finding[i].key \notin candidates
        /\ ~estate.gaps}

Resolving(candidates, status, estate) ==
    {i \in ActiveFindings :
        /\ status = "completed"
        /\ finding[i].key \notin candidates
        /\ AbsenceIsMeaningful(GpoOf[finding[i].key], estate)}

\* Mutant: resolution is written to the column of the older schema alone.
AfterEvaluation_SnapshotOnly(i, persisting, resolving, r, s) ==
    IF i \in persisting
      THEN [finding[i] EXCEPT !.lastRun = r, !.lastSnapshot = s]
    ELSE IF i \in resolving THEN [finding[i] EXCEPT !.resolvedSnapshot = s]
    ELSE finding[i]

AfterEvaluation(i, persisting, resolving, r, s) ==
    IF i \in persisting
      THEN [finding[i] EXCEPT !.lastRun = r, !.lastSnapshot = s]
    ELSE IF i \in resolving
      THEN [finding[i] EXCEPT !.resolvedRun = r, !.resolvedSnapshot = s]
    ELSE finding[i]

\* A duplicate fingerprint, one followed or another, is dropped and degrades
\* the run to partial.
StatusOf(duplicates) == IF duplicates THEN "partial" ELSE "completed"

\* run_evaluation: see again, create or resolve every active finding, in one
\* transaction.  The ids of the new rows follow the order of the candidates,
\* which is any order: keyOf numbers them.
RunEvaluation(r, s, candidates, duplicates, estate) ==
    LET status     == StatusOf(duplicates)
        fresh      == candidates \ ActiveKeys
        newIds     == nextFinding .. nextFinding + Cardinality(fresh) - 1
        persisting == Persisting(candidates)
        resolving  == Resolving(candidates, status, estate)
    IN \E keyOf \in [newIds -> fresh] :
        /\ \A i, j \in newIds : i # j => keyOf[i] # keyOf[j]
        /\ run' = [x \in DOMAIN run \cup {r} |->
                      IF x = r THEN [snapshot |-> s, status |-> status] ELSE run[x]]
        /\ finding' = [i \in DOMAIN finding \cup newIds |->
                          IF i \in newIds THEN NewFinding(keyOf[i], r, s)
                          ELSE AfterEvaluation(i, persisting, resolving, r, s)]
        /\ observation' = observation \cup ({r} \X (persisting \cup newIds))
        /\ nextFinding' = nextFinding + Cardinality(fresh)
        /\ openAfter' = [x \in DOMAIN run \cup {r} |->
                            IF x = r THEN (ActiveFindings \ resolving) \cup newIds
                            ELSE openAfter[x]]

-----------------------------------------------------------------------------
(* The operations.                                                         *)

\* save_evaluated_estate.  A failure anywhere rolls the transaction back and
\* changes nothing, sequences included: it is a stuttering step here, and is
\* modelled step by step in ImportTransaction.
SaveEvaluatedEstate(estate, candidates, duplicates) ==
    /\ nextRun =< MaxRuns
    /\ snapshot' = [x \in DOMAIN snapshot \cup {nextSnapshot} |->
                       IF x = nextSnapshot THEN estate ELSE snapshot[x]]
    /\ nextSnapshot' = nextSnapshot + 1
    /\ nextRun' = nextRun + 1
    /\ RunEvaluation(nextRun, nextSnapshot, candidates, duplicates, estate)

\* The rows ON DELETE CASCADE removes: a run with its snapshot, a finding with
\* the snapshot it was first or last seen in.
SurvivingRuns(s) == {r \in DOMAIN run : run[r].snapshot # s}

\* Mutant: last_seen_snapshot does not cascade.
SurvivingFindings_FirstSeenOnly(s) == {i \in DOMAIN finding : finding[i].firstSnapshot # s}

SurvivingFindings(s) ==
    {i \in DOMAIN finding : finding[i].firstSnapshot # s /\ finding[i].lastSnapshot # s}

\* Mutant: predecessor_id has no ON DELETE clause.
AfterDelete_KeepsPredecessor(i, s) ==
    [finding[i] EXCEPT !.resolvedSnapshot = IF @ = s THEN NULL ELSE @]

\* ON DELETE SET NULL; the run ids of a finding are plain integers and stay.
AfterDelete(i, s) ==
    [finding[i] EXCEPT
        !.resolvedSnapshot = IF @ = s THEN NULL ELSE @,
        !.predecessor      = IF @ \in SurvivingFindings(s) THEN @ ELSE NULL]

DeleteSnapshot(s) ==
    /\ s \in DOMAIN snapshot
    /\ snapshot' = [x \in DOMAIN snapshot \ {s} |-> snapshot[x]]
    /\ run' = [r \in SurvivingRuns(s) |-> run[r]]
    /\ finding' = [i \in SurvivingFindings(s) |-> AfterDelete(i, s)]
    /\ observation' = observation \cap (SurvivingRuns(s) \X SurvivingFindings(s))
    /\ openAfter' = [r \in SurvivingRuns(s) |-> openAfter[r]]
    /\ UNCHANGED <<nextSnapshot, nextRun, nextFinding>>

-----------------------------------------------------------------------------
\* A store is new, or was written before evaluation runs existed and holds
\* snapshots without one.
Init ==
    \E n \in 0 .. OldSnapshots :
        /\ nextSnapshot = n + 1
        /\ snapshot \in [1 .. n -> [collected : {Gpos}, gaps : {FALSE}]]
        /\ run = [r \in {} |-> NULL] /\ nextRun = 1
        /\ finding = [i \in {} |-> NULL] /\ nextFinding = 1
        /\ observation = {}
        /\ openAfter = [r \in {} |-> NULL]

Import == \E estate \in Estate, candidates \in SUBSET Fingerprints, duplicates \in BOOLEAN :
              SaveEvaluatedEstate(estate, candidates, duplicates)

Delete == \E s \in DOMAIN snapshot : DeleteSnapshot(s)

Next == Import \/ Delete

Spec == Init /\ [][Next]_vars

-----------------------------------------------------------------------------
(* What the readers compute.                                               *)

ObservedIn(r) == {finding[i].key : i \in {j \in DOMAIN finding : <<r, j>> \in observation}}

\* finding_delta(run_a, run_b), as sets of fingerprints.
DeltaNew(a, b) == ObservedIn(b) \ ObservedIn(a)
DeltaResolved(a, b) == ObservedIn(a) \ ObservedIn(b)

\* Mutant: what the run itself resolved still counts.
ActiveAsOf_Inclusive(r) ==
    {i \in DOMAIN finding :
        /\ \E q \in DOMAIN run : q =< r /\ <<q, i>> \in observation
        /\ finding[i].firstRun =< r
        /\ finding[i].resolvedRun = NULL \/ finding[i].resolvedRun >= r}

\* The findings the briefing of a past run counts as active.  It joins the
\* last observation up to that run, so a finding needs one.
ActiveAsOf(r) ==
    {i \in DOMAIN finding :
        /\ \E q \in DOMAIN run : q =< r /\ <<q, i>> \in observation
        /\ finding[i].firstRun =< r
        /\ finding[i].resolvedRun = NULL \/ finding[i].resolvedRun > r}

\* The pairs the briefing compares: a run and that of the snapshot before it.
Consecutive(a, b) ==
    /\ run[a].snapshot < run[b].snapshot
    /\ \A s \in DOMAIN snapshot : ~(run[a].snapshot < s /\ s < run[b].snapshot)

-----------------------------------------------------------------------------
(* Properties.                                                             *)

\* A fingerprint has at most one open occurrence, whatever was imported,
\* degraded or deleted: triage is recorded on an occurrence, so a second one
\* would be a finding that is both decided and undecided.
AtMostOneOpen ==
    \A i, j \in ActiveFindings : finding[i].key = finding[j].key => i = j

\* A recurrence follows a resolved occurrence of the same fingerprint, last
\* seen and resolved before the recurrence was first seen, and no occurrence
\* has two recurrences: the history of a fingerprint is a chain, not a tree.
PredecessorsFormChains ==
    /\ \A i \in DOMAIN finding : finding[i].predecessor # NULL =>
          LET p == finding[finding[i].predecessor]
          IN /\ p.key = finding[i].key
             /\ p.lastRun < p.resolvedRun
             /\ p.resolvedRun < finding[i].firstRun
    /\ \A i, j \in DOMAIN finding :
          finding[i].predecessor = finding[j].predecessor /\ finding[i].predecessor # NULL
              => i = j

\* "Failed or incomplete analysis never implies resolution": the run that
\* resolved a finding was completed, did not observe its fingerprint, and its
\* snapshot has either no coverage gap or the finding's GPO.
ResolutionIsJustified ==
    \A i \in DOMAIN finding : finding[i].resolvedSnapshot # NULL =>
        LET r == finding[i].resolvedRun
        IN /\ r \in DOMAIN run
           /\ run[r].snapshot = finding[i].resolvedSnapshot
           /\ run[r].status = "completed"
           /\ finding[i].key \notin ObservedIn(r)
           /\ AbsenceIsMeaningful(GpoOf[finding[i].key], snapshot[run[r].snapshot])

\* Nothing that is gone stays open: a finding still open was last seen by the
\* last completed run that could tell, whatever partial runs, gaps and
\* deletions there have been since.
NothingGoneStaysOpen ==
    \A i \in ActiveFindings, r \in DOMAIN run :
        /\ run[r].status = "completed"
        /\ AbsenceIsMeaningful(GpoOf[finding[i].key], snapshot[run[r].snapshot])
        => r =< finding[i].lastRun

\* first_seen_run_id and last_seen_run_id carry no foreign key.  They still
\* never dangle, agree with the snapshot columns, and are the first and the
\* last run that observed the occurrence.
RunIdsNeverDangle ==
    \A i \in DOMAIN finding :
        LET f == finding[i]
        IN /\ {f.firstRun, f.lastRun} \X {i} \subseteq observation
           /\ run[f.firstRun].snapshot = f.firstSnapshot
           /\ run[f.lastRun].snapshot = f.lastSnapshot
           /\ \A r \in DOMAIN run : <<r, i>> \in observation => r \in f.firstRun .. f.lastRun

\* The briefing of a past run is computed from rows later runs overwrote.  It
\* counts exactly the findings that were open when the run committed, minus
\* those a deletion has removed since.
PastRunsStayTrue ==
    \A r \in DOMAIN run : ActiveAsOf(r) = openAfter[r] \cap DOMAIN finding

\* A finding that was resolved is never reopened and never attributed to
\* another run, even when the snapshot that resolved it is deleted.
ResolvedIsFinal ==
    [][\A i \in DOMAIN finding \cap DOMAIN finding' :
          finding[i].resolvedRun # NULL =>
              /\ finding'[i].resolvedRun = finding[i].resolvedRun
              /\ finding'[i].lastRun = finding[i].lastRun]_vars

Complete(r) == run[r].status = "completed" /\ ~snapshot[run[r].snapshot].gaps

\* What the delta of two runs calls resolved, when the later run is complete,
\* was resolved after the earlier run and no later than the later one; what it
\* calls new, when the earlier run is complete, was first seen after it.
CompleteDeltaIsTrue ==
    \A a, b \in DOMAIN run, i \in DOMAIN finding :
        /\ a < b /\ Complete(b) /\ <<a, i>> \in observation
           /\ finding[i].key \in DeltaResolved(a, b)
               => finding[i].resolvedRun \in a + 1 .. b
        /\ a < b /\ Complete(a) /\ <<b, i>> \in observation
           /\ finding[i].key \in DeltaNew(a, b)
               => finding[i].firstRun > a

\* The same claim asking the later run only to have completed, as the briefing
\* does before it prints the delta: what is called resolved has been resolved.
DeltaResolvedIsResolved ==
    \A a, b \in DOMAIN run, i \in DOMAIN finding :
        /\ a < b /\ run[b].status = "completed" /\ <<a, i>> \in observation
        /\ finding[i].key \in DeltaResolved(a, b)
        => finding[i].resolvedRun # NULL

\* "Deleting [the newest snapshot] falls back to the next": the findings open
\* afterwards are those that were open when the previous snapshot's run
\* committed.
DeletingNewestFallsBack ==
    [][\A a, b \in DOMAIN run :
          /\ Consecutive(a, b)
          /\ \A s \in DOMAIN snapshot : s =< run[b].snapshot
          /\ DOMAIN snapshot' = DOMAIN snapshot \ {run[b].snapshot}
          => openAfter[a] = ActiveFindings']_vars

=============================================================================
