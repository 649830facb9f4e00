# gpo-lens in TLA+

gpo-lens imports exports of an Active Directory's Group Policy into a SQLite
store, runs detectors over each import, and keeps what they find as *findings*
with a life of their own: seen again, resolved, returned, decided on. This
directory models that program in TLA+, checks the models with TLC on small
instances and proves the main invariants with TLAPS for every instance. Paths
below are relative to `src/gpo_lens/` of the repository.

## 1. Inventory

| Component | State it keeps | Operations | Correct when |
|---|---|---|---|
| Finding lifecycle (`findings.py`, `finding_model.py`) | tables `evaluation_run`, `finding`, `finding_observation` | `run_evaluation` inside `evaluate_finding_lifecycle_v2`; readers `finding_delta`, `finding_history` | one open occurrence per fingerprint; only a run that could tell resolves; recurrences form chains; past runs read as they were |
| Finding triage (`findings.py`, `web/routes/findings.py`) | append-only `finding_triage_event` | `triage_finding`, `append_triage_event`, `expire_risk_acceptances`; folds `fold_triage`, `accepted_risk_register`; `finding_inbox` | status and register agree; an expired or reopened decision is open; decisions survive re-evaluation |
| Store (`store.py`) | `snapshot` and the estate's tables, schema version | `save_evaluated_estate`, `load_estate`, `delete_snapshot`, `init_db`, `_migrate_schema` | an import is whole or absent; a deletion leaves no dangling key; a migration can be restarted |
| Event store (`events.py`) | `events` with a hash chain | `append_event`, `append_events`, `verify_event_chain`, `query_events` | the chain the program writes verifies |
| Briefing (`briefing.py`) | none; reads runs, findings, the register | `build_briefing`, `briefing_lines` | counts of the chosen run, no delta from incomplete analysis |
| Ingest routes (`web/routes/ingest.py`, `web/app.py`) | ingest lock (a thread lock and an flock), temporary directory | `ingest_post`, `ingest_delete`, `_FileLock` | one web import at a time, lock always released, nothing stored unless the answer says so |
| Command line (`cli/_estate.py`, `cli/*`) | none | `cmd_ingest` on a connection of its own, without the ingest lock | as the route |
| Web server (`web/app.py`, `web/rate_limit.py`, `web/allowed_hosts.py`, `web/auth.py`) | request times per client | the middleware stack, `check`, `_evict_stale`, `get_principal` | never more than the limit in a window, and no fewer |
| Event export (`cli/_events.py`, `sinks.py`, `query_events`) | NDJSON file, Splunk HEC | `cmd_events_export`, `NdjsonSink`, `SplunkHecSink._post` with retries | what is reported as sent has arrived, whole and in order |
| Scope and resultant (`topology.py`, `merge.py`, `authz.py`, `web/routes/resultant.py`) | none | `som_effective_gpos`, `precedence_conflicts` and their roll-up, `build_token`, `principal_resultant` | the winner Group Policy picks, nothing lost without a word but in three named cases, spelling of a trustee irrelevant |
| Comparisons (`snapshot_diff.py`, `trend.py`, `queries/_golden.py`, `_baseline.py`) | none | `snapshot_diff`, `snapshot_settings_diff`, `snapshot_changelog`, `golden_diff`, `compute_trend` | symmetric, and in agreement with one another |
| Collection (`ingest.py`, `registry_pol.py`, `normalize.py`, `collection_zip.py`) | the directory or the extracted zip | `load_estate` from files to `Estate`, `parse_coverage_gaps` | what could not be seen is a gap or a blocked setting, never absent |
| Detectors and queries (`danger.py`, `detection/`, `dependencies.py`, `queries/`) | none, but the preference files are read again at each question | findings, dangers, path references, doctor, search, summary | the same answer on a stored estate as on a fresh one |
| Reports, narration, pages, scripts | none | formatting | outside these models |

How they interact. The web routes and the command line parse an export into an
`Estate` and call `save_evaluated_estate`, which writes the snapshot, runs the
detectors and the lifecycle, and appends audit or change events in the same
SQLite transaction. Deletion removes a snapshot and, by `ON DELETE CASCADE` and
`SET NULL`, parts of the lifecycle and of the triage log. Triage requests write
to the log on connections of their own. The inbox, the register, the briefing
and the delta are computed from the tables on every read.

Answers about policy take the other way through the program: a collection is
parsed into an estate, the estate is stored, loaded back for each question and
handed to pure functions, some of which look at the disk again. `init_db` runs at
every start and every import, so several processes may migrate one file.

What is hard here: several processes on one database (the routes, the command
line, triage) with only SQLite's write lock between them; a transaction that
fails halfway; columns that later imports overwrite and readers of past runs
use; columns without a foreign key; deletions in the middle of the history;
events with equal or misordered timestamps; an expiry that nobody sweeps; a
migration that dies between two statements; answers whose order of rows, spelling
of trustees or files on disk changed since; collections with parts missing; and
precedence rules that only meet on deep chains.
`PROJECT.json` lists each at its line under `hazards`.

## 2. Modules

| Module | Models | Status |
|---|---|---|
| `FindingLifecycle` | an import and its evaluation as one step, deletion, the readers of runs | checked, proved |
| `FindingLifecycleProofs` | theorems on it | proved |
| `FindingTriage` (EXTENDS `FindingLifecycle`) | triage writers, sweep, folds, register, inbox filter | checked, proved |
| `FindingTriageProofs` | theorems on the writers, the sweep, the log and its folds | proved |
| `ImportTransaction` (INSTANCE `FindingLifecycle` twice) | the import statement by statement, with failures and two connections; implements `FindingLifecycle` | checked, proved |
| `ImportTransactionProofs` | theorems on it, the refinement included | proved |
| `EventChain` | the hash-chained event store | checked, proved |
| `IngestContract` | what the import and delete forms promise: effects, answers | abstract specification |
| `IngestService` | file lock, upload, temporary directory, worker threads, cancellation, crash, restart; implements `IngestContract`; liveness of the release | checked |
| `IngestServiceProofs` | theorems on it, the refinement included | proved |
| `Selection` | filtering, searching and sorting a list, by the positions picked | checked through `Pipeline`, proved about |
| `Authz` | trustees and their spellings, rights, ACEs | checked through `Pipeline` |
| `Scope` (EXTENDS `Authz`, `Selection`) | chains, buckets, conflicts, roll-up, sites, gates | same |
| `Resultant` (EXTENDS `Scope`) | tokens, security gate, merge modes, loopback, one principal's policy | same |
| `Detectors`, `Dependencies`, `Queries` (EXTENDS in this order, on `Scope`) | danger rules, ACL and hygiene checks; paths; estate-wide queries and comparisons | same |
| `Collection` (EXTENDS `Scope`) | the collector's output, its failures, and the estate made of it | same |
| `Snapshots` (EXTENDS `Queries`) | what the store keeps of an estate; comparisons of snapshots | same |
| `Pipeline` (EXTENDS `Collection`, `Resultant`, `Snapshots`) | collect, load, save, open, and every answer | checked, proved |
| `PipelineProofs` | theorems on where estates come from, tokens, gaps, trustees, blocked settings, conflicts, merge, loopback, comparisons and reopening | proved |
| `SchemaMigration` | `init_db` and `_migrate_schema` by statement, in several processes, with crashes | checked, liveness, proved |
| `WebServer` | the middleware stack and the limiter | checked, proved |
| `ServerProofs` | theorems on the migration and on the limiter | proved |
| `EventExport` | `events-export`: file, collector, retries | checked, proved |
| `EventProofs` | theorems on the event store and on its export | proved |
| `ProofBasics` (EXTENDS `Selection`) | induction over sets of numbers and of subsets, folds, sorted enumerations, and what the operators on lists return | lemmas, proved |

Left for when it comes to keep state: a module of the signed page payload.

### FindingLifecycle

A table is a function from row ids to rows, an `AUTOINCREMENT` sequence is the
next id. `SaveEvaluatedEstate(estate, candidates, duplicates)` is
`store.save_evaluated_estate`: a new snapshot, a new run, and `RunEvaluation`,
which is `findings.run_evaluation`: the active rows (neither `resolved_run_id`
nor `resolved_in_snapshot`), those seen again, the new ones with the predecessor
its `SELECT ... ORDER BY` finds, and those resolved, when the run is completed
and `absence_is_meaningful`. `DeleteSnapshot(s)` is `delete_snapshot` with each
`ON DELETE` clause of the schema (`store.py:281-299`, `355-393`).

An estate is what the lifecycle reads of one: the GPOs collected and whether
there are coverage gaps. A candidate is its fingerprint. Fingerprints outside
the constant are not followed, but may be the duplicates that degrade a run, so
`duplicates` is independent of `candidates`. Two rows that one run resolved can
not share a fingerprint (a theorem), so the unordered rest of the predecessor's
`ORDER BY` is irrelevant. `openAfter` is a history variable: it records what was
open when a run committed and no action reads it.

`ActiveAsOf` is the briefing's count for a past run (`briefing.py:308-317`),
`DeltaNew` and `DeltaResolved` are `finding_delta`.

### FindingTriage

A writer takes three steps, because the code does: `triage_finding` reads that
the finding is open, `append_triage_event` reads `subject_stable` and takes the
time, and the `INSERT` commits when it gets the database; imports and deletions
happen in between. The route reaches only `CheckFinding`; `CallAppend` is the
library entry, the only one with an expiry. `unstable` is chosen once: whether a
fingerprint has a stable subject is the detector's declaration. The clock is the
wall clock at the resolution of the stored timestamps, and does not go back.
`StatusAfter` and `RegisterAfter` are the bodies of the two loops over the log.

### ImportTransaction

`db` is committed, `tx` is what the writer sees. `BEGIN IMMEDIATE` is `Begin`;
`SaveEstate`, `CreateRun`, `EvaluateCandidate` (one turn of the loop),
`ResolveAbsent` (one turn), `CompleteRun` and `Commit` follow the statements.
Rows loaded before the loop are kept in `job`, as the code keeps them. A
statement may fail anywhere: inside `run_evaluation` the code rolls back, then
executes `UPDATE evaluation_run SET status = 'failed'` for an id that is free
again, in a new transaction (`MarkFailed`), and `save_evaluated_estate` rolls
that back too (`Abandon`). A stopped process is a `Rollback`: SQLite recovers
the last commit. `ImportsAreAtomic` is the specification of `FindingLifecycle`
with `db`'s tables for its variables.

### EventChain

A hash is the sequence of data it covers: equal only when all that was chained
is equal, as SHA-256 is assumed to be. A caller is outside a transaction, when
`append_event` takes `BEGIN IMMEDIATE` itself, or inside one that has already
written. `Fail` rolls a transaction back or ends a call. Rows older than the hash column
have none, and verification starts after them.

### IngestService

`task` is where the handler of a request is: between `lock.acquire` and the
response, with a step for each `await` of `ingest_post`; `thread` is the job its
worker thread has, or its result while somebody awaits it. `AcquireThread`,
`OpenLockFile` and `TryFlock` are `_FileLock.acquire` with its error paths,
`Unlock` and `ReleaseThread` are `release`. `Begin`, `Evaluate`, `CleanUpload`
and `Commit` are `_persist`: `with rw_conn, temporary` leaves the directory's
context first, so a failed cleanup rolls back. `Evaluate` notes in `torn` (a
history variable) that the directory was gone: the detectors of the GPP files
read SYSVOL from it and pass over what they do not find. A deletion is one
transaction in the request's own thread, so `Delete` is one step.

`Shutdown` is the server's second interrupt, modelled from how Python runs the
application (external): nothing is served any more, every coroutine is
cancelled where it awaits (`CancelTask`), which runs its `finally`, and the
process waits for the threads. `Crash` is any other end: the locks and the
transaction end with the process, directories stay. `IngestContract` has only
what a client can tell: what is stored, which requests had their effect, and
the answers, where `Drop` takes any requests at once and allows their effect
later.

### Pipeline and the modules under it

`Pipeline`'s actions are the life of a snapshot: `Collect` (external: a collector
run into the operator's directory, which overwrites the previous one, or an
upload), `Load` and `LoadFailed` (`ingest.load_estate`), `Save` and `SaveFailed`
(`store.save_estate`), `Open` (`store.load_estate`) and `Close`. Everything asked
of an open snapshot is in `Answers`, a record of pure functions, each translated
in the module of its source file. What the program reads again at each question,
the policy folders under a GPO's `sysvol_path`, is joined by `WithDisk`: the
directory as it is now, or nothing when the snapshot came from a zip, whose
extraction is removed before the import commits (as `IngestService` has it).

Data. A collection is a record of side files, each `[state, records]` with a state
of absent, corrupt or ok; a Registry.pol is a sequence of records, stray bytes and
torn records. An estate is `model.py`'s `Estate`. A setting is
`[side, cse, id, value, action, blocked, off]`: what an extension's XML says is a
name and a small number. A trustee is an account in one of its spellings, SID,
alias or name (`Authz`). A DN is a sequence of RDNs. Sets are used wherever the
code's order decides nothing and sequences where it does: links, settings, SOMs.
`Snapshots!LoadStored` brings rows back in the order of the `ORDER BY` clauses,
ties either way (`flip`), which is SQLite's freedom.

Control. Chains are `som_effective_gpos` with enforcement, disabled and dangling
links (blocked inheritance is resolved upstream, in the collected lists);
`PrincipalResultant` is `principal_resultant` with
the token, security gate, WMI and targeting, the merge modes per extension (last
writer, union, preference actions), loopback merge and replace with the shift of
the computer's chain above the user's, excluded GPOs and settings, and the
conditional dangers. `ParseCoverageGaps` reconciles inventory, errors and folders.

### SchemaMigration

Python's `sqlite3` opens a transaction before the first statement that changes
rows only: every `CREATE` and `ALTER` up to there is committed by itself, between
another process's, and survives a crash. `CheckColumn` and `AlterTable` are the
check and the statement of `_column_exists`; the copy of the gap table, its
renaming, the backfill of the event log, the last columns and the version are one
transaction (`writer`, `pending`). `Locked` is the end of `busy_timeout`.
`Tables`, `EarlyColumns` and `LateColumns` stand for the code's lists, one member
for each way a step can go: born with its table, missing, added by another.

### WebServer

A request is a record of what the stack looks at. `RejectHost` comes from the
outer host check and uses up nothing; `ServeLimited` consults the limiter and then
the cross-site check, the body limit and the permission, so a request turned away
later still counts; probes and static files are `ServeExempt`. `Check` is
`RateLimiter.check` with the eviction every `CleanupInterval` checks. `admitted`
is a history variable. The clock is finer than the seconds of `Retry-After`.

### EventExport

An export takes the events from a time on, by id and up to the limit, appends
them to the file (`WriteFile`, or `WriteFails` after any number of lines with or
without a piece of the next) and posts them (`Post`, with the collector's answers,
unreadable ones, lost posts and lost answers; a transport error is tried again).
`Exit` is the exit code, which knows the file only. `torn` says that the file ends
inside a line: the next export's first line is glued to it.

## 3. Runs

| Run | Instance | What it shows |
|---|---|---|
| `lifecycle` | 1 fingerprint on 1 GPO, 5 imports, any deletions | all nine properties of `FindingLifecycle` |
| `triage` | 1 finding without GPO, 2 imports, 3 events, 2 instants, 1 writer and the sweep | the folds agree, decisions survive |
| `import_transaction` | 2 importers, 2 fingerprints (on a GPO, on none), 2 imports, an older snapshot | refinement, no committed run marked failed |
| `ingest_service` | 2 processes, 2 uploads (one in each), a deletion beside one of them | refinement of `IngestContract`, exclusion, cleaning up, liveness |
| `pipeline` | about 1010 collections of 3 GPOs, 3 containers and a site, a user and a computer, both channels, up to 2 imports, both orders of rows | the nine properties it holds of `Pipeline` |
| `server` | 2 processes, 5 databases, 2 crashes; 1 limiter, 5 requests, 6 ticks; 2 connections, 2 payloads, batches up to 2, 5 rows, an unhashed row; 4 events, 2 exports of up to 3 attempts | migration, limiter, hash chain and export are right, started processes finish |
| `upload_removed` | as `ingest_service` | violated: committed after an evaluation without the files |
| `delta` | 3 imports | violated: resolved by the delta, open in the table |
| `delete_newest` | 3 imports | violated: deleting the newest is not falling back |
| `expired` | 1 acceptance with an expiry | violated: expired and not in the open inbox |
| `targeted_items` | as `pipeline`, from a zip | violated: a targeted item is merged as if it applied |
| `token_direction` | as `pipeline`, from a directory | violated: a member group of a group in the token is not in it |

Why these bounds. Occurrences of different fingerprints only share ids and runs,
so one fingerprint with five imports has what matters: seen, gone, returned and
gone again, with a degraded or partial import and deletions between them; two
fingerprints are in `import_transaction`, and the proofs are for any number.
Finding about no GPO and about a GPO differ only in `AbsenceIsMeaningful`: the
first kind is in `triage` and `import_transaction`, the second in `lifecycle`
and `import_transaction`. Three events are enough for a decision, its opening
and a third at the same instant; two instants tell "before", "same" and "past
its expiry" apart. Two connections are enough for every race on one write lock.
Every bound is a CONSTANT: `MaxRuns`, `OldSnapshots`, `MaxClock`, `MaxEvents`,
`MaxOldRows`, `MaxBatch`, `MaxRows`.

In `ingest_service` a request is sent once, and each may fail, be cancelled or
crash at every step. The upload and the deletion at one process contend for the
thread lock, those at different processes for the file; the deletion names the
other upload's snapshot, so it may come before, during and after its import.

`pipeline` starts from one base collection and varies it by families, each for a
hazard: orders and ties of links, enforcement, memberships with cycles, delegation
and SDDL in both spellings with denies, loopback from one GPO or two that
disagree, preference actions, Registry.pol records stray and torn, audit files,
paths, failures of every file, targeted items, and drift between two collections
(`MCPipeline`). Families that meet in one function are crossed: filters with
loopback, with a computer's chain, with targeting and with groups. A second import follows only in the
families about comparison. Three GPOs are enough for a winner, a loser and one
in the other chain; values outside a family stay at the base. A product of all
families would only repeat functions on independent parts of an estate.

In `server` the four duties share no state as modelled (the export reads a list of
events of its own), so a behaviour takes up one of them (`duty`): the run is the
union of the four, not their product. Two processes are
enough for each race on one file, two crashes for one in each or twice in one. The
limit is 2 in a window of 3 ticks, half seconds, with an eviction every third
check: a request exactly one window old, an eviction between two requests, and
both ways of rounding all occur.

Deadlock is checked in `ingest_service` and `pipeline`. In the other models the bounds stop
everything, and so may the program, which only acts when asked.

Fairness is assumed in `IngestService` and `SchemaMigration`. In the former it is weak and for each request's
`TaskStep` and `ThreadStep`: the event loop and the threads of a process that
runs go on, every wait in them ends (the locks do not block, SQLite's busy
timeout ends, the body was received before the handler runs, extraction is
bounded). None is assumed of new requests, shutdowns, crashes and restarts.
`EveryRequestEnds` then says that an accepted request ends with its locks
released, cancelled or not. In `SchemaMigration` it is weak for each process's
`Proceed`: a process that runs goes on, and one whose `init_db` raised is started
again, as the service manager and the next command do. None is assumed of crashes
or of `busy_timeout` running out. `StartedProcessesFinish` then says that every
process ends up ready or has refused a newer database, whatever schema a crash
left. Nothing else modelled is retried or scheduled without bound, so no other
liveness is claimed. No run uses symmetry.

Every property of a passing run is paired in `PROJECT.json` with a mutant of the
code's definitions that breaks it (the `..._Something` operators beside the
originals).

### What the violated runs show

1. `delta`. `finding_delta` calls every fingerprint resolved that the later run
   did not observe. With a coverage gap the finding is still open, and plan 024
   (§11, §12) says incomplete analysis never implies resolution. The briefing
   suppresses the delta of a degraded run but not of one with gaps. Between
   complete runs the delta is right: `CompleteDeltaIsTrue`, proved.
2. `delete_newest`. The page for imports says that deleting the newest snapshot
   falls back to the next and can be undone by importing again. The lifecycle is
   not a function of the snapshots kept: resolutions stay, occurrences last seen
   in the deleted snapshot go, with their triage. The docstring of
   `save_evaluated_estate` admits the former (`store.py:1125-1127`); the page and
   the route still promise the fallback.
3. `expired`. Page, briefing and plan say an expired acceptance is actionable
   again; the inbox does not look at the expiry, and the sweep that would record
   it has no caller outside the tests.
4. `upload_removed`. The changelog says the extracted SYSVOL stays available
   through evaluation. When the request is cancelled while it awaits `_persist`,
   `finally` removes it under the thread, which commits a completed run whose
   GPP findings were not seen and are resolved. `WholeUploads`, proved, says that
   this is the only way. The lock is released too, and `ImportsAreSerial` says
   that nothing else lets two imports work at once.
5. `targeted_items`. The design for the resultant says a targeted preference item
   is left out of `settings`. Targeting is read from the preference files at
   question time, and after an import from a zip they are gone: the item is
   merged. From a directory that has not been overwritten, it is held back.
6. `token_direction`. `wi_merge.md` AC-10 has the token's membership "expanded in
   both directions". `build_token` follows it upwards only. Its docstring
   (`merge.py:539-543`) and a test (`test_merge.py:1485-1493`: a fellow member in
   the token would pass gates meant for it) say that this is meant, so the page is
   what is wrong, and `TokenIsClosure` keeps its second half: the token holds
   nothing that does not follow upwards.

### Differences noted while modelling

Modelled as the code has them; none is listed as a finding, because no run
refutes a sentence of the repository or because the sentence is about wording.

- Scope and merge: the three exceptions of `NothingVanishes`. An item not targeted
  that shares a bucket with a targeted one is in neither list
  (`merge.py:466-481`), although the docstrings say "never silently dropped"
  (`merge.py:10-12`, `:435-437`): only the targeted item beside it is shown. A GPO
  whose order is the winner's is not among the overridden, as `wi_merge.md:116-118`
  has it. Where a deletion, or an action the resolver does not know, empties a
  bucket, no GPO of it is told.
- Also in scope and merge: a preference Delete is sticky except before a Create,
  unlike `wi_merge.md` AC-07; the loopback mode counts GPOs that are excluded for
  the computer; token caveats need a group that is in the token and not in the
  export, which `build_token` cannot produce; conflicts tell GPOs apart by display
  name.
- Collection: a corrupt JSON side file is a warning and no gap; one GPO without
  its folder leaves no gap as long as another has one; settings from a blocked
  extension's Registry.pol count as of an enabled side (`ingest.py:1589`).
- Detectors: `gpo_writable_by_nonadmin` reports one finding per ACE; Everyone
  known by name only is never reported as applying broadly, and Everyone denied is
  still reported when Authenticated Users has Apply; an "absent" rule reports a
  GPO whose blocked extension may set the value; `permissions_audit` counts labels
  with "write", which no grouped permission has.
- Comparisons: of the GPOs in both snapshots the changelog lists only those whose
  version numbers moved; it lists added and removed GPOs, which `wi_snapshot_diff.md`
  AC-08 says it does not, and an entry is `settings_detail` when a setting of either
  side changed, where AC-08 asks for one of the entry's side. `DiffsAgree` takes
  neither part. The
  delegation diff ignores SIDs; trend points of old snapshots are computed with
  today's disk although `finding_model.py` calls snapshots immutable; the golden
  summary counts no matched GPO without settings.
- Server: 429 and 400 answers come from outside the security headers; behind the
  proxy all clients share one limiter key; `events-export` exits 0 when only the
  collector failed, and a line after a torn one is glued to it though the export
  that wrote it reports success.

## 4. Proofs

All theorems are for every value of the constants that satisfies the modules'
assumptions: `Fingerprints` finite, `NoGpo` not a GPO, `GpoOf` a function into
them, bounds natural numbers (`MaxRuns` may be any); in `EventChain`, `NoOne`
not a connection; in `ImportTransaction` likewise; in `FindingTriage`,
instants natural numbers; in `IngestService`, uploads and deletions apart, each
at a process; in `SchemaMigration`, the table of gaps among those created, its
copy empty before the first start (it is filled in the transaction that renames
it), and the old register finite with a key; in `WebServer`, positive limits,
windows and clean-up interval; in `EventExport`, a sequence of times as event
store. `Pipeline` assumes of collections only their shape (`IsCollection`): a file
holds a list, a folder has finitely many preference files with a depth, group
memberships are a finite map, a link that has an order has a number, an SDDL string
names a trustee by a SID or an alias, which is all that the format has, and a
computer asked about has a DN with something in it.

`ProofBasics`. The library's induction theorems take a predicate as a parameter,
which the provers cannot instantiate. Stated for a *set* they can: a set with 0 and
the successor of each of its members has every natural number
(`NatSetInduction`); a family of subsets with the empty one, and with a subset
whenever it has that subset less its chosen element, has the whole set
(`SubsetInduction`). From these come greatest elements of finite orders, sorted
enumerations (`SortedExists`) and that a fold over a finite set is well defined
(`FoldExists`). What the folds of the triage log, of the limiter, of the backfill
and of the parsing compute is proved with them. Its second half is about lists of any
length: where the elements of a flattened list come from (`Flattened`), that what a
filter keeps stays in order (`KeptShape`), that sorting permutes (`OrderedShape`, which
rests on an injection of a finite set into itself being onto), what reversing,
concatenating and listing a set give. `Selection` defines filtering and sorting by the
positions they pick, because the library's `SelectSeq` and `SetToSortSeq` take an
operator, which the provers cannot expand.

`FindingLifecycleProofs`. `IInv` is the type invariant, `AtMostOneOpen`,
`PredecessorsFormChains` and two facts they need to be inductive: the runs of a
finding are in order and below the sequence (`RunsOrdered`), and a row with a
resolving snapshot has a resolving run (`ResolvedHasRun`: deletion clears the
first and not the second, which is why no row becomes open again). The lemma
`ImportEffect` states once what an import does to the tables; then there is one
step per action and conjunct. `ResolvedIsFinal` is an action property from
`IInv`.

The other properties of the lifecycle are inductive together, with
`CompleteRunsAccount` (a complete run at or after an occurrence's first either observed it or
comes at or after its resolution) and `OpenIdsAllocated`: `HInv`. `PastRunsStayTrue` needs
`RunIdsNeverDangle`, since a finding's first observation must outlive deletions;
`CompleteDeltaIsTrue` follows from `CompleteRunsAccount`.

`EventProofs`. The committed rows followed by the writer's are chained, and
a connection between reading and inserting holds the last row's hash.
In the export `EInv` says what file and collector have got at each step; `Posted`,
the copies at the collector, stays below the attempt under way.

`IngestServiceProofs`. `ServiceInv` is inductive. The locks' invariant is so by
itself, given types; exclusion also needs that a thread outlives its task only
when the request was dropped (`ThreadsFollowTasks`, with `AnswersPending` for
what is dropped), whole uploads that the files stay until a job not dropped has
read them (`FilesFollowThreads`), and the refinement that what will be answered
agrees with what has happened (`RepliesAreTrue`). One lemma per action keeps
all of it. The refinement maps `Commit` to `Store`, `Delete` to `Remove`, the
last step of a handler to `Reply`, the end of a process to `Drop`, and every
other step to a stutter; fairness is not needed, as the contract promises no
answer.

`FindingTriageProofs`. `TInv` joins `IInv`, the types of the log, and three facts
about what a writer keeps between its steps: the finding it checked was below
the sequence when it did and its identity has not changed (`RequestsKnow`), what
the sweep read lies in the past (`SweepIsPast`), and no decision is logged on an
unstable identity (`NoUnstableDecision`). They hold over a deletion because it
takes the events of a finding along, and because an id below the sequence never
comes back as another finding, which is what `AUTOINCREMENT` is for. As every
step is one of the lifecycle or leaves its tables alone, the composition
implements `FindingLifecycle` (`TriageIsBesideTheLifecycle`).

The five properties of the folds follow from `TInv` and from what a fold over the
events of a finding is: its value on the first events in `_triage_order`, and one
step for the last. That the order has a last event (`GreatestExists`) is where the
order has to be total: times, then openings last, then ids. `RegisterComplete`
relates the two folds after each prefix of the log, `ReopeningWins` looks at the last
event only, `UnstableStaysOpen` uses `NoUnstableDecision`, and `DecisionsSurvive`
that an import writes no event and deletes none, and that the occurrence which
carries the status stays the open one.

`ImportTransactionProofs`. `TInv` says, for each statement, what the transaction
has made of the committed tables (`Progress`): after some turns of the candidates'
loop exactly the candidates dealt with are seen again or inserted, each new row
once, and rows are resolved only after the last of them. The tables of a finished
import are then those of one `SaveEvaluatedEstate`, a deletion is one
`DeleteSnapshot`, and every other step, each failure, crash and rollback among
them, leaves the committed tables alone: `Atomic`. It needs the lifecycle's own
invariant for the committed tables, for the loop updates the row it has loaded
where the lifecycle updates every open row of the fingerprint, and these are the
same only while there is one. A run marked as failed in a transaction of its own
is never committed (`NobodyMarked`). As an instance does not bring assumptions
along, the module restates those of the lifecycle.

`ServerProofs`, the migration. Most statements of a migration are committed between
those of other processes, so `MInv` says of each process what it may rely on at its
step (`Established`: the tables once it has read the version, the columns before the
one it looks at, the key once it has been looked at) and what its open transaction
holds (`Transaction`). Both outlive the steps of the others because these only add,
and nothing is committed beside an open transaction (`Grows`, and the lemma
`Others`); so each action has one lemma about its own process. On top of it `LogInv`
follows the event log: as it was, or with the register carried over (`CarriedOver`),
and inside a transaction one or the other by its step. The lemma `BackfillCarries`
has the arithmetic: appending the events of the rows that have none, in
chronological order, makes each event as frequent as it should be, and a second
backfill by a process that had read the old version finds no rows. Together they
are `MigratedWhole`.

The limiter. `LInv` says that what is kept of a client is a tail of all that was let
through, that what is gone before it lies at or before the window (`Covers`), that
no window ever had more than the limit (`Passed`), and at which request the window of
the last refusal begins (`Refused`). Filtering and eviction only cut at the front
of an ascending sequence (`FreshIsTail`, by induction over the fold), which is what
makes forgetting harmless. `SlidingWindow` then computes `Retry-After`: rounding up
to whole seconds waits long enough and at most one second too long (`Quotient`).

`PipelineProofs`. `Provenance` says where every estate of a state comes from: it is
`LoadEstate` of a collection that was found and could be stored, the directory on the
disk is that collection's or none, and what is open is what `load_estate` makes of the
rows. Each property is then about functions, for any collection. `TokensClose`: the rounds
of `build_token`'s search grow inside a finite set of groups, so one adds nothing (`SearchCloses`), and
no closed set is smaller (`SearchIsLeast`). `GapsAreSaid` follows identities and
folders through parsing, metadata and augmentation (`GposLoaded`), none of which may
lose a GPO or its folder, and through the store (`StoredKeeps`). `SpellingIsIdle`: a
trustee's canonical form is the same in each spelling once the domain is known, so
the access list is read alike (`SpeltAlike`).

`BlockedNeverEmpty` follows the settings of one GPO through `parse_report`, Registry.pol
and audit.csv (`RegistryAugmented`, `AuditAugmented`) and through the sorting of the
store (`GpoReordered`): blocked placeholders of a side with a whole record go, and
exactly the whole records before the first torn one come.

For the rest, `Estates` gives the shape of every estate of a state, parsed, stored,
loaded back and joined with the disk, from the shape of the collection; containers have
distinct paths, because parsing keys them by path. `RollupSaysTheSame` needs that
containers with the same signature have the same entries as a set (`SameSignature`) and
that the order in which they are listed decides nothing (`SameConflict`): with one order
per link of a chain the highest order has one GPO.

`NothingIsLost` goes with a GPO from its link to the answer, in two halves. The first is
about chains: every enabled link of a known GPO is excluded, has nothing on the side or
becomes an entry (`ChainCovers`), and what loopback joins has the parts it should
(`JoinedWithin`), the GPOs that the computer's pass skips being those the user's own pass
listed (`PairCovers`); so every link and side an answer consults is covered
(`AnswersCover`). The second is about buckets: of every GPO with an item in one, the
merge says what became of it (`MergeTells`). The survivor's bucket names the others unless
they tie (`BucketTells`; in the strict modes because the survivor has the highest order),
a targeted bucket lists its targeted items, and a bucket without a survivor must have had
an item with an action other than create, replace or update (`ActionsResolved`, by
induction over the fold). That is why `Deleted` speaks of any other action and not of "D"
alone: the resolver skips an action it does not know. Of the exceptions the proof needs
each, and TLC violates the property without any one of them.

`ComputerOutranks`: the entry that wins a key is the one of the highest order among
those that give it (`WinnerShape`, `WinnerUnique`), shifted entries exceed all below them
(`Raised`), so the winner of the computer's chain wins the joined one (`WinnerLifts`)
whatever the two chains' orders were.

`ComparisonsSayTheSame` reduces each view to the values a GPO has at a key. A GPO of an
unambiguous estate has one setting per key (`OnePerKey`), so rows, dumps and the golden
comparison read the same value; a baseline that is met leaves nothing changed
(`CompliantKeeps`); and a trend of two points collapses only if as many GPOs came as
went (`TwoPoints`).

`ReopeningIsIdle` says that a snapshot loaded back gives every answer the freshly parsed
estate gives. Two estates are `Alike` when they have the same GPOs, containers, groups and
gaps, and where one keeps settings or links in a list the other keeps the same ones in
some order. This is what the store leaves (`StoredAlike`), and joining both with the same
directory keeps it (`DiskAlike`). There is then one lemma for each answer or family of
answers. Most read a list as a set or count it, and need no more. Four do depend on the
order of rows, each in one respect, and `Unambiguous` is what they need:

- chains and everything on them, that the links of a container have distinct orders, for
  then sorting them gives one list (`SortedAlike`);
- what a container folds and a principal gets (`FoldAlike`, `MergeAlike`,
  `ResultantAlike`), that a GPO has one setting per key and a key one merge mode
  (`KeysClear`), because `_merge_bucket` asks the first item of a bucket for the mode
  (`merge.py:339`);
- broken references and what is made of them (`PathsAlike`, `TrendAlike`,
  `DoctorAlike`), that a GPO names a path once (`PathsClear`), because of several
  references to it the first is reported;
- where a principal's DN leads (`PathForAlike`, for `ResultantAlike`), that there is one
  domain container, because a DN without a container falls back on the first one met.

`OpenedAlike` derives these from `Unambiguous`, which speaks of the stored estate alone,
for the estates joined with the directory. That a key has one mode was found in proving: the
property as first stated was not true of every collection, for where the mode depends on
the setting (restricted groups, folder redirection) and links are listed out of order, the
order of the store decides it.

Every invariant and action property of the passing runs has its theorem. Only
model-checked, and out of the provers' reach, is liveness: `EveryRequestEnds` and
`StartedProcessesFinish`.

## 5. Not modelled

- Formatting and text: reports, exports, display, redaction, CLI printing and
  argument parsing, pages, narration, question routing. Sequential, no state.
- Decoding: XML, UTF-16, zip archives and their bounds, ADMX files; a record that
  can or cannot be decoded is an input of `Collection`. It leaves out a few more
  ways for a file to fail a load (XML with forbidden entities, bytes that do not
  decode), and folds an audit setting only into an earlier one, where the code also
  takes a block of another kind in that extension that has its identity.
- `stale_gpos` (a clock against dates), `topology_crosscheck`, `ou_tree`,
  `settings_ledger`, baselines in zips, and the doctor's notes about legacy
  extensions and audit disagreement.
- The audit logger: best effort by its comment, and read by nothing here.
- The legacy Plan 023 writer: tests only. `register_analysis_input` and
  comparators: production evaluates intrinsically only.
- The reverse proxy's identity headers, deployment and collection scripts.

Details per component are in `PROJECT.json`.
