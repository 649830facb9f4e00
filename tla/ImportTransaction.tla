------------------------- MODULE ImportTransaction -------------------------
(***************************************************************************)
(* An import statement by statement.  FindingLifecycle takes               *)
(* save_evaluated_estate as one step; here the web route and the command   *)
(* line run it beside each other, each on a connection of its own, as the  *)
(* statements of save_estate, create_evaluation_run, run_evaluation and    *)
(* complete_evaluation_run, any of which may fail.                         *)
(*                                                                         *)
(* db is what is committed: what every reader and every new transaction    *)
(* sees (WAL).  BEGIN IMMEDIATE gives one connection at a time the right   *)
(* to write, and tx is what that connection has made of db.  The command   *)
(* line takes no ingest lock, so that right is all that excludes imports.  *)
(***************************************************************************)
EXTENDS Integers, FiniteSets

CONSTANTS
    Importers,      \* connections that import
    NoOne,          \* no connection has the right to write
    Fingerprints, Gpos, NoGpo, GpoOf, OldSnapshots, MaxRuns

ASSUME NoOneAssumption == NoOne \notin Importers

\* Those of FindingLifecycle, which an instance does not bring along.
ASSUME LifecycleAssumption ==
    /\ IsFiniteSet(Fingerprints)
    /\ NoGpo \notin Gpos
    /\ GpoOf \in [Fingerprints -> Gpos \cup {NoGpo}]
    /\ OldSnapshots \in Nat /\ MaxRuns \in Nat

VARIABLES
    db,             \* the committed tables
    tx,             \* the tables as the writer sees them, db when there is none
    writer,         \* the connection inside a transaction
    job             \* each importer's progress through its import

Lifecycle == INSTANCE FindingLifecycle WITH
    snapshot <- db.snapshot, run <- db.run, finding <- db.finding,
    observation <- db.observation, nextSnapshot <- db.nextSnapshot,
    nextRun <- db.nextRun, nextFinding <- db.nextFinding, openAfter <- db.openAfter

\* What a statement of the writer reads.
Tx == INSTANCE FindingLifecycle WITH
    snapshot <- tx.snapshot, run <- tx.run, finding <- tx.finding,
    observation <- tx.observation, nextSnapshot <- tx.nextSnapshot,
    nextRun <- tx.nextRun, nextFinding <- tx.nextFinding, openAfter <- tx.openAfter

importVars == <<db, tx, writer, job>>

Idle == [step |-> "idle"]
Steps == {"begun", "saved", "evaluating", "evaluated"}

\* No table holds a dangling key, in the transaction or outside it, and only
\* the writer's view differs from what is committed.
ImportTypeOK ==
    /\ Lifecycle!TypeOK
    /\ writer \in Importers \cup {NoOne}
    /\ writer = NoOne => tx = db
    /\ tx.observation \subseteq (DOMAIN tx.run) \X (DOMAIN tx.finding)
    /\ \A p \in Importers :
          /\ job[p].step \in Steps \cup {"idle", "rolledback", "marking"}
          /\ job[p].step \in Steps \cup {"marking"} <=> writer = p

-----------------------------------------------------------------------------
(* The statements of one import.                                           *)

\* BEGIN IMMEDIATE.  A connection that does not get the right to write within
\* its busy timeout fails with nothing written: it has not begun.
Begin(p, estate, candidates, duplicates) ==
    /\ job[p] = Idle /\ writer = NoOne
    /\ db.nextRun =< MaxRuns
    /\ writer' = p
    /\ job' = [job EXCEPT ![p] = [step |-> "begun", estate |-> estate,
                  candidates |-> candidates, duplicates |-> duplicates]]
    /\ UNCHANGED <<db, tx>>

\* Mutant: save_estate commits, as it does by default.
SaveEstate_Commits(p) ==
    LET s == tx.nextSnapshot
    IN /\ job[p].step = "begun"
       /\ tx' = [tx EXCEPT !.nextSnapshot = s + 1,
                    !.snapshot = [x \in DOMAIN @ \cup {s} |->
                                     IF x = s THEN job[p].estate ELSE @[x]]]
       /\ db' = tx'
       /\ job' = [job EXCEPT ![p].step = "saved"]
       /\ UNCHANGED writer

SaveEstate(p) ==
    LET s == tx.nextSnapshot
    IN /\ job[p].step = "begun"
       /\ tx' = [tx EXCEPT !.nextSnapshot = s + 1,
                    !.snapshot = [x \in DOMAIN @ \cup {s} |->
                                     IF x = s THEN job[p].estate ELSE @[x]]]
       /\ job' = [job EXCEPT ![p].step = "saved"]
       /\ UNCHANGED <<db, writer>>

\* create_evaluation_run, as "partial" until it is known to be complete, and
\* the rows run_evaluation loads before its loop.
CreateRun(p) ==
    LET r == tx.nextRun
        s == tx.nextSnapshot - 1
        j == job[p]
    IN /\ j.step = "saved"
       /\ tx' = [tx EXCEPT !.nextRun = r + 1,
                    !.run = [x \in DOMAIN @ \cup {r} |->
                                IF x = r THEN [snapshot |-> s, status |-> "partial"] ELSE @[x]]]
       /\ job' = [job EXCEPT ![p] =
             [step |-> "evaluating", run |-> r, snapshot |-> s, estate |-> j.estate,
              candidates |-> j.candidates, duplicates |-> j.duplicates,
              active |-> Tx!ActiveFindings, todo |-> j.candidates]]
       /\ UNCHANGED <<db, writer>>

\* One turn of the loop over the candidates, which come in any order: the
\* occurrence loaded as active is seen again, or a new one is inserted.
EvaluateCandidate(p) ==
    LET j == job[p]
    IN /\ j.step = "evaluating"
       /\ \E key \in j.todo :
            LET existing == {i \in j.active : tx.finding[i].key = key}
                i        == IF existing = {} THEN tx.nextFinding
                            ELSE CHOOSE x \in existing : \A y \in existing : y =< x
            IN /\ tx' = IF existing = {}
                        THEN [tx EXCEPT
                               !.nextFinding = i + 1,
                               !.finding = [x \in DOMAIN @ \cup {i} |->
                                   IF x = i THEN Tx!NewFinding(key, j.run, j.snapshot) ELSE @[x]],
                               !.observation = @ \cup {<<j.run, i>>}]
                        ELSE [tx EXCEPT
                               !.finding[i].lastRun = j.run, !.finding[i].lastSnapshot = j.snapshot,
                               !.observation = @ \cup {<<j.run, i>>}]
               /\ job' = [job EXCEPT ![p].todo = @ \ {key}]
       /\ UNCHANGED <<db, writer>>

\* The active rows a completed run resolves, of those it loaded.
Absent(j) ==
    {i \in j.active :
        /\ tx.finding[i].key \notin j.candidates
        /\ Tx!AbsenceIsMeaningful(GpoOf[tx.finding[i].key], j.estate)}

\* The second loop, when no duplicate has degraded the run.
ResolveAbsent(p) ==
    LET j == job[p]
    IN /\ j.step = "evaluating" /\ j.todo = {} /\ ~j.duplicates
       /\ \E i \in Absent(j) :
            /\ tx.finding[i].resolvedRun = Tx!NULL
            /\ tx' = [tx EXCEPT !.finding[i].resolvedRun = j.run,
                                !.finding[i].resolvedSnapshot = j.snapshot]
       /\ UNCHANGED <<db, writer, job>>

\* complete_evaluation_run.
CompleteRun(p) ==
    LET j == job[p]
    IN /\ j.step = "evaluating" /\ j.todo = {}
       /\ j.duplicates \/ \A i \in Absent(j) : tx.finding[i].resolvedRun # Tx!NULL
       /\ tx' = [tx EXCEPT !.run[j.run].status = Tx!StatusOf(j.duplicates)]
       /\ job' = [job EXCEPT ![p].step = "evaluated"]
       /\ UNCHANGED <<db, writer>>

\* The caller's commit, after its audit event (EventChain).
Commit(p) ==
    LET j == job[p]
        written == [tx EXCEPT !.openAfter =
                       [x \in DOMAIN @ \cup {j.run} |->
                           IF x = j.run THEN Tx!ActiveFindings ELSE @[x]]]
    IN /\ j.step = "evaluated"
       /\ db' = written /\ tx' = written
       /\ writer' = NoOne
       /\ job' = [job EXCEPT ![p] = Idle]

-----------------------------------------------------------------------------
(* Failures.                                                               *)

\* The statement fails, or the process stops, before the commit: everything
\* the transaction wrote is undone, the ids it took included.
Rollback(p) ==
    /\ job[p].step \in Steps
    /\ tx' = db /\ writer' = NoOne
    /\ job' = [job EXCEPT ![p] = Idle]
    /\ UNCHANGED db

\* run_evaluation fails: it rolls back itself and raises, and
\* evaluate_finding_lifecycle_v2 goes on to mark the run as failed.
EvaluationFails(p) ==
    /\ job[p].step = "evaluating"
    /\ tx' = db /\ writer' = NoOne
    /\ job' = [job EXCEPT ![p] = [step |-> "rolledback", run |-> job[p].run]]
    /\ UNCHANGED db

\* The UPDATE begins a transaction of its own, when another connection may
\* have written: the run's id is free again and may be that of another import.
MarkFailed(p) ==
    LET r == job[p].run
    IN /\ job[p].step = "rolledback" /\ writer = NoOne
       /\ writer' = p
       /\ tx' = IF r \in DOMAIN db.run THEN [db EXCEPT !.run[r].status = "failed"] ELSE db
       /\ job' = [job EXCEPT ![p] = [step |-> "marking"]]
       /\ UNCHANGED db

\* The UPDATE gets no right to write, or the process stops.
MarkingFails(p) ==
    /\ job[p].step = "rolledback"
    /\ job' = [job EXCEPT ![p] = Idle]
    /\ UNCHANGED <<db, tx, writer>>

\* Mutant: the caller's commit flag is not passed on.
Abandoned_Commits(p) == tx

\* save_evaluated_estate rolls back whatever the failed call has left open.
Abandoned(p) == db

Abandon(p) ==
    /\ job[p].step = "marking"
    /\ db' = Abandoned(p) /\ tx' = Abandoned(p)
    /\ writer' = NoOne
    /\ job' = [job EXCEPT ![p] = Idle]

-----------------------------------------------------------------------------
\* Mutant: PRAGMA foreign_keys is off, and only the parent row goes.
AfterDeletion_ParentOnly(s) ==
    [db EXCEPT !.snapshot = [x \in DOMAIN @ \ {s} |-> @[x]]]

\* The tables after the schema's ON DELETE clauses.
AfterDeletion(s) ==
    LET runs     == Lifecycle!SurvivingRuns(s)
        findings == Lifecycle!SurvivingFindings(s)
    IN [db EXCEPT
           !.snapshot    = [x \in DOMAIN @ \ {s} |-> @[x]],
           !.run         = [r \in runs |-> @[r]],
           !.finding     = [i \in findings |-> Lifecycle!AfterDelete(i, s)],
           !.observation = @ \cap (runs \X findings),
           !.openAfter   = [r \in runs |-> @[r]]]

\* delete_snapshot, which has the right to write for its one statement.
Delete(s) ==
    /\ writer = NoOne
    /\ db' = AfterDeletion(s) /\ tx' = AfterDeletion(s)
    /\ UNCHANGED <<writer, job>>

-----------------------------------------------------------------------------
Empty == [x \in {} |-> 0]

ImportInit ==
    /\ db \in {[snapshot |-> [s \in 1 .. n |-> [collected |-> Gpos, gaps |-> FALSE]],
                run |-> Empty, finding |-> Empty, observation |-> {}, openAfter |-> Empty,
                nextSnapshot |-> n + 1, nextRun |-> 1, nextFinding |-> 1] :
                    n \in 0 .. OldSnapshots}
    /\ tx = db
    /\ writer = NoOne
    /\ job = [p \in Importers |-> Idle]

ImportNext ==
    \/ \E s \in DOMAIN db.snapshot : Delete(s)
    \/ \E p \in Importers :
          \/ \E estate \in Lifecycle!Estate, candidates \in SUBSET Fingerprints,
                duplicates \in BOOLEAN : Begin(p, estate, candidates, duplicates)
          \/ SaveEstate(p) \/ CreateRun(p) \/ EvaluateCandidate(p) \/ ResolveAbsent(p)
          \/ CompleteRun(p) \/ Commit(p)
          \/ Rollback(p) \/ EvaluationFails(p) \/ MarkFailed(p) \/ MarkingFails(p) \/ Abandon(p)

ImportSpec == ImportInit /\ [][ImportNext]_importVars

-----------------------------------------------------------------------------
(* Properties.                                                             *)

\* Whatever fails and in whatever order the connections write, what is
\* committed changes only by whole imports and whole deletions: each commit is
\* one SaveEvaluatedEstate of FindingLifecycle, and nothing else is visible.
ImportsAreAtomic == Lifecycle!Spec

\* Marking the failed run never reaches a run that was committed, though the
\* id it names may by then be another import's.
FailureMarksNobody == \A r \in DOMAIN db.run : db.run[r].status # "failed"

=============================================================================
