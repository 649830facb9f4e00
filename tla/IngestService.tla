---------------------------- MODULE IngestService ----------------------------
(***************************************************************************)
(* The upload and delete forms inside the web server: the ingest lock, the *)
(* upload's temporary directory, the worker threads, and what a crash or a *)
(* forced shutdown does to them.                                           *)
(*                                                                         *)
(* An upload is a coroutine (task) that hands extraction, parsing and the  *)
(* import to threads it awaits.  A forced shutdown cancels the coroutine   *)
(* where it awaits and lets the thread go on: they part.  A deletion runs  *)
(* in one thread.  The transaction itself is ImportTransaction's; here it  *)
(* is begun, evaluated, cleaned up after and committed.                    *)
(***************************************************************************)
CONSTANTS
    Processes,          \* server processes on one store
    Uploads, Deletes,   \* requests
    ProcessOf,          \* the process each request reaches
    TargetOf,           \* the upload whose snapshot a deletion names
    NoOne

Requests == Uploads \cup Deletes

ASSUME RequestsAssumption ==
    /\ Uploads \cap Deletes = {} /\ NoOne \notin Requests
    /\ ProcessOf \in [Requests -> Processes]
    /\ TargetOf \in [Deletes -> Uploads]

VARIABLES
    process,        \* "up", "closing" after a forced shutdown, or "down"
    threadLock,     \* each process's _thread_lock: the request that holds it
    flock,          \* the request whose descriptor holds the lock on the file
    task,           \* how far each request's handler is
    reply,          \* what it will answer
    thread,         \* the job of its worker thread, or that job's result
    dir,            \* its temporary directory: "none", "present" or "gone"
    writer,         \* the request inside a write transaction
    torn,           \* uploads evaluated when their directory was gone
    stored, effective, answer   \* IngestContract

locks == <<threadLock, flock>>
outcome == <<stored, effective>>
serviceVars == <<process, locks, task, reply, thread, dir, writer, torn, outcome, answer>>

Contract == INSTANCE IngestContract

Awaiting == {"receiving", "extracting", "loading", "persisting"}
Critical == {"locked", "cleaning", "unlocking"} \cup Awaiting
InTransaction == {"evaluate", "cleanup", "commit"}
Working == {"extract", "load", "begin"} \cup InTransaction

Up(r) == process[ProcessOf[r]] = "up"
InProgress(r) == task[r] \notin {"new", "done"}

\* Results are kept for a task that awaits them, the right to write is held by
\* the thread inside a transaction, and only uploads have threads.
ServiceTypeOK ==
    /\ process \in [Processes -> {"up", "closing", "down"}]
    /\ threadLock \in [Processes -> Requests \cup {NoOne}]
    /\ flock \in Requests \cup {NoOne}
    /\ task \in [Requests -> {"new", "thread", "opened", "unlocked", "done"} \cup Critical]
    /\ reply \in [Requests -> {"none", "failure", "success"}]
    /\ thread \in [Requests -> {"none", "ok", "failed"} \cup Working]
    /\ dir \in [Requests -> {"none", "present", "gone"}]
    /\ torn \subseteq Uploads
    /\ answer \in [Requests -> {"none", "busy", "failure", "success", "dropped"}]
    /\ \A r \in Requests :
          /\ thread[r] \in {"ok", "failed"} => task[r] \in Awaiting
          /\ writer = r <=> thread[r] \in InTransaction
          /\ r \in Deletes => thread[r] = "none"

-----------------------------------------------------------------------------
(* _FileLock.                                                              *)

\* The handler's last step: the response is sent, unless nobody serves it.
Finish(r, a) ==
    /\ task' = [task EXCEPT ![r] = "done"]
    /\ answer' = [answer EXCEPT ![r] = IF @ = "none" THEN a ELSE @]

Refuse(r) == Finish(r, "busy")

\* _thread_lock, without blocking.
AcquireThread(r) ==
    LET p == ProcessOf[r]
    IN /\ task[r] = "new" /\ Up(r)
       /\ \/ /\ threadLock[p] = NoOne
             /\ threadLock' = [threadLock EXCEPT ![p] = r]
             /\ task' = [task EXCEPT ![r] = "thread"]
             /\ UNCHANGED answer
          \/ /\ threadLock[p] # NoOne
             /\ Refuse(r)
             /\ UNCHANGED threadLock
    /\ UNCHANGED <<process, flock, reply, thread, dir, writer, torn, outcome>>

\* Mutant: a failed acquire keeps the thread lock.
GiveUpThreadLock_Keeps(r) == threadLock

\* Whatever goes wrong after the thread lock is taken, it is released.
GiveUpThreadLock(r) == [threadLock EXCEPT ![ProcessOf[r]] = NoOne]

OpenLockFile(r) ==
    /\ task[r] = "thread"
    /\ \/ task' = [task EXCEPT ![r] = "opened"] /\ UNCHANGED <<threadLock, answer>>
       \/ threadLock' = GiveUpThreadLock(r) /\ Refuse(r)
    /\ UNCHANGED <<process, flock, reply, thread, dir, writer, torn, outcome>>

\* Mutant: the lock is shared.
FlockFree_Shared == TRUE

FlockFree == flock = NoOne

\* LOCK_EX | LOCK_NB, which may fail for other reasons than being held.
TryFlock(r) ==
    /\ task[r] = "opened"
    /\ \/ /\ FlockFree
          /\ flock' = r
          /\ task' = [task EXCEPT ![r] = "locked"]
          /\ UNCHANGED <<threadLock, answer>>
       \/ /\ threadLock' = GiveUpThreadLock(r) /\ Refuse(r)
          /\ UNCHANGED flock
    /\ UNCHANGED <<process, reply, thread, dir, writer, torn, outcome>>

\* release(): the file first, the thread lock last.
Unlock(r) ==
    /\ task[r] = "unlocking"
    /\ flock' = NoOne
    /\ task' = [task EXCEPT ![r] = "unlocked"]
    /\ UNCHANGED <<process, threadLock, reply, thread, dir, writer, torn, outcome, answer>>

ReleaseThread(r) ==
    /\ task[r] = "unlocked"
    /\ threadLock' = [threadLock EXCEPT ![ProcessOf[r]] = NoOne]
    /\ Finish(r, reply[r])
    /\ UNCHANGED <<process, flock, reply, thread, dir, writer, torn, outcome>>

-----------------------------------------------------------------------------
(* ingest_post: the coroutine.                                             *)

\* TemporaryDirectory(); when it cannot be made there is none to clean up.
MakeDirectory(r) ==
    /\ r \in Uploads /\ task[r] = "locked"
    /\ \/ /\ dir' = [dir EXCEPT ![r] = "present"]
          /\ task' = [task EXCEPT ![r] = "receiving"]
          /\ UNCHANGED reply
       \/ /\ task' = [task EXCEPT ![r] = "unlocking"]
          /\ reply' = [reply EXCEPT ![r] = "failure"]
          /\ UNCHANGED dir
    /\ UNCHANGED <<process, locks, thread, writer, torn, outcome, answer>>

\* The except clauses: an error page, by way of finally.
Fail(r) ==
    /\ task' = [task EXCEPT ![r] = "cleaning"]
    /\ reply' = [reply EXCEPT ![r] = "failure"]
    /\ thread' = [thread EXCEPT ![r] = "none"]

\* The next thread is started and awaited.
Await(r, step, job) ==
    /\ task' = [task EXCEPT ![r] = step]
    /\ thread' = [thread EXCEPT ![r] = job]
    /\ UNCHANGED reply

\* stream_upload_to_file, which may exceed the limit.
Receive(r) ==
    /\ task[r] = "receiving" /\ Up(r)
    /\ Await(r, "extracting", "extract") \/ Fail(r)
    /\ UNCHANGED <<process, locks, dir, writer, torn, outcome, answer>>

Succeed(r) ==
    /\ task' = [task EXCEPT ![r] = "cleaning"]
    /\ reply' = [reply EXCEPT ![r] = "success"]
    /\ thread' = [thread EXCEPT ![r] = "none"]

\* The awaited thread has returned or raised.
Resume(r) ==
    /\ Up(r)
    /\ \/ thread[r] = "failed" /\ Fail(r)
       \/ /\ thread[r] = "ok"
          /\ \/ task[r] = "extracting" /\ Await(r, "loading", "load")
             \/ task[r] = "loading" /\ Await(r, "persisting", "begin")
             \/ task[r] = "persisting" /\ Succeed(r)
    /\ UNCHANGED <<process, locks, dir, writer, torn, outcome, answer>>

\* Mutant: cancellation ends the handler where it awaits.
CancelTask_SkipsFinally(r) ==
    /\ process[ProcessOf[r]] = "closing"
    /\ task[r] \in Awaiting
    /\ task' = [task EXCEPT ![r] = "done"]
    /\ thread' = [thread EXCEPT ![r] = IF @ \in Working THEN @ ELSE "none"]
    /\ UNCHANGED <<process, locks, reply, dir, writer, torn, outcome, answer>>

\* CancelledError where the coroutine awaits: finally runs, the thread goes on.
CancelTask(r) ==
    /\ process[ProcessOf[r]] = "closing"
    /\ task[r] \in Awaiting
    /\ task' = [task EXCEPT ![r] = "cleaning"]
    /\ thread' = [thread EXCEPT ![r] = IF @ \in Working THEN @ ELSE "none"]
    /\ UNCHANGED <<process, locks, reply, dir, writer, torn, outcome, answer>>

\* finally: temporary.cleanup(), whose failure is only logged.
Clean(r) ==
    /\ task[r] = "cleaning"
    /\ dir' = [dir EXCEPT ![r] = "gone"] \/ UNCHANGED dir
    /\ task' = [task EXCEPT ![r] = "unlocking"]
    /\ UNCHANGED <<process, locks, reply, thread, writer, torn, outcome, answer>>

-----------------------------------------------------------------------------
(* ingest_post: its threads.                                               *)

\* What is left of a job's result: a cancelled task awaits none.
Result(r, x) == IF task[r] \in Awaiting THEN x ELSE "none"

\* _safe_extract and load_estate.  An error makes the first remove what it
\* extracted, not the directory; neither finds a directory that is gone.
ReadUpload(r) ==
    /\ thread[r] \in {"extract", "load"}
    /\ \E x \in IF dir[r] = "gone" THEN {"failed"} ELSE {"ok", "failed"} :
          thread' = [thread EXCEPT ![r] = Result(r, x)]
    /\ UNCHANGED <<process, locks, task, reply, dir, writer, torn, outcome, answer>>

\* Mutant: a failed transaction is left open.
NoLongerWriting_LeftOpen(r) == writer

NoLongerWriting(r) == IF writer = r THEN NoOne ELSE writer

\* An exception in _persist: rolled back.
FailPersist(r) ==
    /\ thread' = [thread EXCEPT ![r] = Result(r, "failed")]
    /\ writer' = NoLongerWriting(r)

\* Mutant: the upload is thought to be needed for parsing only.
Begin_CleansFirst(r) ==
    /\ thread[r] = "begin" /\ writer = NoOne
    /\ thread' = [thread EXCEPT ![r] = "evaluate"]
    /\ writer' = r
    /\ dir' = [dir EXCEPT ![r] = "gone"]
    /\ UNCHANGED <<process, locks, task, reply, torn, outcome, answer>>

\* get_rw_conn, init_db and BEGIN IMMEDIATE.  The connection may fail, and so
\* may the wait for the right to write: then temporary cleans up already.
Begin(r) ==
    /\ thread[r] = "begin"
    /\ \/ /\ writer = NoOne
          /\ thread' = [thread EXCEPT ![r] = "evaluate"]
          /\ writer' = r
          /\ UNCHANGED dir
       \/ FailPersist(r) /\ (UNCHANGED dir \/ dir' = [dir EXCEPT ![r] = "gone"])
    /\ UNCHANGED <<process, locks, task, reply, torn, outcome, answer>>

\* Mutant: save_evaluated_estate commits, as it does by default.
Evaluate_Commits(r) ==
    /\ thread[r] = "evaluate"
    /\ thread' = [thread EXCEPT ![r] = "cleanup"]
    /\ torn' = IF dir[r] = "gone" THEN torn \cup {r} ELSE torn
    /\ stored' = stored \cup {r} /\ effective' = effective \cup {r}
    /\ UNCHANGED <<process, locks, task, reply, dir, writer, answer>>

\* save_evaluated_estate and the audit event.  The detectors read the
\* extracted SYSVOL and pass over what they do not find.
Evaluate(r) ==
    /\ thread[r] = "evaluate"
    /\ \/ /\ thread' = [thread EXCEPT ![r] = "cleanup"]
          /\ torn' = IF dir[r] = "gone" THEN torn \cup {r} ELSE torn
          /\ UNCHANGED <<dir, writer>>
       \/ /\ FailPersist(r)
          /\ UNCHANGED dir \/ dir' = [dir EXCEPT ![r] = "gone"]
          /\ UNCHANGED torn
    /\ UNCHANGED <<process, locks, task, reply, outcome, answer>>

\* Mutant: cleaning up is best effort, as it is in finally.
CleanUpload_BestEffort(r) ==
    /\ thread[r] = "cleanup"
    /\ thread' = [thread EXCEPT ![r] = "commit"]
    /\ dir' = [dir EXCEPT ![r] = "gone"] \/ UNCHANGED dir
    /\ UNCHANGED <<process, locks, task, reply, writer, torn, outcome, answer>>

\* The inner context manager exits first.  One that is gone cleans up.
CleanUpload(r) ==
    /\ thread[r] = "cleanup"
    /\ \/ /\ thread' = [thread EXCEPT ![r] = "commit"]
          /\ dir' = [dir EXCEPT ![r] = "gone"]
          /\ UNCHANGED writer
       \/ dir[r] # "gone" /\ FailPersist(r) /\ UNCHANGED dir
    /\ UNCHANGED <<process, locks, task, reply, torn, outcome, answer>>

Commit(r) ==
    /\ thread[r] = "commit"
    /\ \/ /\ stored' = stored \cup {r} /\ effective' = effective \cup {r}
          /\ thread' = [thread EXCEPT ![r] = Result(r, "ok")]
          /\ writer' = NoOne
       \/ FailPersist(r) /\ UNCHANGED outcome
    /\ UNCHANGED <<process, locks, task, reply, dir, torn, answer>>

-----------------------------------------------------------------------------
(* ingest_delete: one transaction, in the request's own thread.            *)

Delete(r) ==
    LET s == TargetOf[r]
    IN /\ r \in Deletes /\ task[r] = "locked"
       /\ \/ /\ writer = NoOne /\ s \in stored
             /\ stored' = stored \ {s} /\ effective' = effective \cup {r}
             /\ reply' = [reply EXCEPT ![r] = "success"]
          \/ \* not found, or any error: rolled back
             reply' = [reply EXCEPT ![r] = "failure"] /\ UNCHANGED outcome
    /\ task' = [task EXCEPT ![r] = "unlocking"]
    /\ UNCHANGED <<process, locks, thread, dir, writer, torn, answer>>

-----------------------------------------------------------------------------
(* The processes.                                                          *)

RequestsOf(p) == {r \in Requests : ProcessOf[r] = p /\ InProgress(r)}

DropRequestsOf(p) ==
    answer' = [r \in Requests |->
                  IF r \in RequestsOf(p) /\ answer[r] = "none" THEN "dropped" ELSE answer[r]]

\* A second interrupt: nothing is served any more and the loop cancels its
\* tasks; the process ends when their threads have.
Shutdown(p) ==
    /\ process[p] = "up"
    /\ process' = [process EXCEPT ![p] = "closing"]
    /\ DropRequestsOf(p)
    /\ UNCHANGED <<locks, task, reply, thread, dir, writer, torn, outcome>>

\* The process ends, at any time: its locks and its transaction end with it,
\* its directories do not.
Crash(p) ==
    LET ends(r) == r \in Requests /\ ProcessOf[r] = p
    IN /\ process[p] # "down"
       /\ process' = [process EXCEPT ![p] = "down"]
       /\ DropRequestsOf(p)
       /\ threadLock' = [threadLock EXCEPT ![p] = NoOne]
       /\ flock' = IF ends(flock) THEN NoOne ELSE flock
       /\ writer' = IF ends(writer) THEN NoOne ELSE writer
       /\ task' = [r \in Requests |-> IF r \in RequestsOf(p) THEN "done" ELSE task[r]]
       /\ thread' = [r \in Requests |-> IF ends(r) THEN "none" ELSE thread[r]]
       /\ UNCHANGED <<reply, dir, torn, outcome>>

Restart(p) ==
    /\ process[p] = "down"
    /\ process' = [process EXCEPT ![p] = "up"]
    /\ UNCHANGED <<locks, task, reply, thread, dir, writer, torn, outcome, answer>>

-----------------------------------------------------------------------------
ServiceInit ==
    /\ process = [p \in Processes |-> "up"]
    /\ threadLock = [p \in Processes |-> NoOne] /\ flock = NoOne
    /\ task = [r \in Requests |-> "new"]
    /\ reply = [r \in Requests |-> "none"]
    /\ thread = [r \in Requests |-> "none"]
    /\ dir = [r \in Requests |-> "none"]
    /\ writer = NoOne
    /\ torn = {}
    /\ Contract!ContractInit

TaskStep(r) ==
    \/ OpenLockFile(r) \/ TryFlock(r) \/ Unlock(r) \/ ReleaseThread(r)
    \/ MakeDirectory(r) \/ Receive(r) \/ Resume(r) \/ CancelTask(r) \/ Clean(r)
    \/ Delete(r)

ThreadStep(r) ==
    ReadUpload(r) \/ Begin(r) \/ Evaluate(r) \/ CleanUpload(r) \/ Commit(r)

ServiceNext ==
    \/ \E r \in Requests : AcquireThread(r) \/ TaskStep(r) \/ ThreadStep(r)
    \/ \E p \in Processes : Shutdown(p) \/ Crash(p) \/ Restart(p)

\* The loop and the threads go on as long as the process does; no request, no
\* shutdown and no restart has to come.
ServiceSpec ==
    /\ ServiceInit /\ [][ServiceNext]_serviceVars
    /\ \A r \in Requests : WF_serviceVars(TaskStep(r)) /\ WF_serviceVars(ThreadStep(r))

-----------------------------------------------------------------------------
(* Properties.                                                             *)

\* Each lock is held exactly while its holder's handler is between taking and
\* releasing it, on every path of acquire() and through finally.
LocksFollowTasks ==
    \A r \in Requests :
        /\ threadLock[ProcessOf[r]] = r <=> InProgress(r)
        /\ flock = r <=> task[r] \in Critical

\* An answer says what happened: "Import failed; nothing was imported." and
\* the redirect after an import are true, and every effect is one commit.
AnswersAreTrue == Contract!ContractSpec

AtWork(r) == task[r] \in Critical \/ thread[r] \in Working

\* Imports and deletions of all processes exclude one another, from receiving
\* the upload to the commit, but for a thread whose request was dropped.
ImportsAreSerial ==
    \A r, s \in Requests :
        r # s /\ AtWork(r) /\ AtWork(s) => "dropped" \in {answer[r], answer[s]}

\* The SYSVOL files stay until the evaluation has read them, unless the request
\* was dropped.
WholeUploads == \A r \in torn : answer[r] = "dropped"

\* An upload is stored only when its files have been removed.
CleanBeforeStored ==
    [][\A r \in Uploads : r \in effective' \ effective => dir[r] = "gone"]_serviceVars

\* A request that was accepted ends, and gives back what it locked.
EveryRequestEnds ==
    \A r \in Requests :
        InProgress(r) ~> /\ task[r] = "done"
                         /\ threadLock[ProcessOf[r]] # r /\ flock # r

\* CHANGELOG: "Temporary upload cleanup completes before import commits, with
\* extracted SYSVOL available through evaluation".
EvaluatedWhole == torn \cap effective = {}

=============================================================================
