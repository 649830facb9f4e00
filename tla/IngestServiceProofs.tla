------------------------- MODULE IngestServiceProofs -------------------------
(***************************************************************************)
(* Proofs about IngestService, for any processes and requests.  ServiceInv *)
(* is inductive: beside the locks it ties each thread to the task that     *)
(* awaits it or was dropped, the upload's files to the job that reads      *)
(* them, and what will be answered to what has happened.                   *)
(***************************************************************************)
EXTENDS IngestService, TLAPS

\* A request in progress has no answer yet, or was dropped by the shutdown of
\* its process.
AnswersPending ==
    \A r \in Requests : InProgress(r) =>
        /\ process[ProcessOf[r]] # "down"
        /\ answer[r] = IF Up(r) THEN "none" ELSE "dropped"

\* The job, or its result, a task awaits at each of its steps.
JobAwaited(r) ==
    \/ task[r] = "receiving" /\ thread[r] = "none"
    \/ task[r] = "extracting" /\ thread[r] \in {"extract", "ok", "failed"}
    \/ task[r] = "loading" /\ thread[r] \in {"load", "ok", "failed"}
    \/ task[r] = "persisting" /\ thread[r] \in {"begin", "ok", "failed"} \cup InTransaction

\* A thread has a task that awaits it, or goes on for a request that was
\* dropped.
ThreadsFollowTasks ==
    \A r \in Requests :
        /\ task[r] \in Awaiting => r \in Uploads /\ JobAwaited(r)
        /\ task[r] \notin Awaiting /\ thread[r] # "none" =>
              /\ task[r] \notin {"new", "thread", "opened", "locked"}
              /\ answer[r] = "dropped"

\* The extracted files are there until the evaluation, and gone at the commit.
FilesFollowThreads ==
    \A r \in Requests :
        /\ answer[r] # "dropped" =>
              /\ task[r] = "receiving" => dir[r] = "present"
              /\ task[r] \in {"extracting", "loading"} /\ thread[r] # "failed" => dir[r] = "present"
              /\ thread[r] \in {"begin", "evaluate"} => dir[r] = "present"
        /\ thread[r] = "commit" => dir[r] = "gone"

\* Where a request stands when it has had its effect.
EffectDone(r) ==
    \/ task[r] = "persisting" /\ thread[r] = "ok"
    \/ task[r] \in {"cleaning", "unlocking", "unlocked"} /\ thread[r] = "none" /\ reply[r] = "success"
    \/ answer[r] = "success"

RepliesAreTrue ==
    \A r \in Requests :
        /\ r \in effective /\ answer[r] # "dropped" => EffectDone(r)
        /\ EffectDone(r) /\ answer[r] # "dropped" => r \in effective
        /\ r \in effective => thread[r] \notin Working \cup {"failed"}
        /\ r \in effective => task[r] \notin {"new", "thread", "opened", "locked"}
        /\ task[r] \in {"cleaning", "unlocking", "unlocked"} /\ answer[r] = "none" => reply[r] # "none"
        /\ task[r] = "new" => answer[r] = "none"

ServiceInv ==
    /\ ServiceTypeOK /\ effective \subseteq Requests
    /\ LocksFollowTasks
    /\ AnswersPending
    /\ ThreadsFollowTasks
    /\ FilesFollowThreads
    /\ RepliesAreTrue
    /\ WholeUploads

-----------------------------------------------------------------------------
(* _FileLock.                                                              *)

\* Taking the thread lock, or being refused.
LEMMA AcquireThreadStep ==
    ASSUME ServiceInv, NEW r \in Requests, AcquireThread(r)
    PROVE  ServiceInv'
<1>1. ServiceTypeOK'
  BY RequestsAssumption DEF AcquireThread, Refuse, Finish, ServiceInv, ServiceTypeOK,
     Awaiting, Working, InTransaction, Critical, Requests, locks, outcome
<1>2. effective' \subseteq Requests
  BY RequestsAssumption DEF AcquireThread, Refuse, Finish, ServiceInv, locks, outcome
<1>3. LocksFollowTasks'
  BY RequestsAssumption DEF AcquireThread, Refuse, Finish, ServiceInv, ServiceTypeOK,
     LocksFollowTasks, InProgress, Critical, Awaiting, locks, outcome
<1>4. AnswersPending'
  BY RequestsAssumption DEF AcquireThread, Refuse, Finish, ServiceInv, ServiceTypeOK,
     AnswersPending, InProgress, Up, Awaiting, locks, outcome, RepliesAreTrue
<1>5. ThreadsFollowTasks'
  BY RequestsAssumption DEF AcquireThread, Refuse, Finish, ServiceInv, ServiceTypeOK,
     ThreadsFollowTasks, JobAwaited, Awaiting, Working, InTransaction, AnswersPending,
     InProgress, Up, locks, outcome
<1>6. FilesFollowThreads'
  BY RequestsAssumption DEF AcquireThread, Refuse, Finish, ServiceInv, ServiceTypeOK,
     FilesFollowThreads, ThreadsFollowTasks, JobAwaited, Awaiting, Working,
     InTransaction, AnswersPending, InProgress, Up, locks, outcome
<1>7. RepliesAreTrue'
  BY RequestsAssumption DEF AcquireThread, Refuse, Finish, ServiceInv, ServiceTypeOK,
     RepliesAreTrue, EffectDone, ThreadsFollowTasks, JobAwaited, Awaiting, Working,
     InTransaction, AnswersPending, InProgress, Up, locks, outcome
<1>8. WholeUploads'
  BY RequestsAssumption DEF AcquireThread, Refuse, Finish, ServiceInv, ServiceTypeOK,
     WholeUploads, AnswersPending, FilesFollowThreads, InProgress, Requests, locks,
     outcome
<1> QED BY <1>1, <1>2, <1>3, <1>4, <1>5, <1>6, <1>7, <1>8 DEF ServiceInv

\* Opening the lock file, or giving up.
LEMMA OpenLockFileStep ==
    ASSUME ServiceInv, NEW r \in Requests, OpenLockFile(r)
    PROVE  ServiceInv'
<1>1. ServiceTypeOK'
  BY RequestsAssumption DEF OpenLockFile, GiveUpThreadLock, Refuse, Finish, ServiceInv,
     ServiceTypeOK, Awaiting, Working, InTransaction, Critical, Requests, locks, outcome
<1>2. effective' \subseteq Requests
  BY RequestsAssumption DEF OpenLockFile, GiveUpThreadLock, Refuse, Finish, ServiceInv,
     locks, outcome
<1>3. LocksFollowTasks'
  BY RequestsAssumption DEF OpenLockFile, GiveUpThreadLock, Refuse, Finish, ServiceInv,
     ServiceTypeOK, LocksFollowTasks, InProgress, Critical, Awaiting, locks, outcome
<1>4. AnswersPending'
  BY RequestsAssumption DEF OpenLockFile, GiveUpThreadLock, Refuse, Finish, ServiceInv,
     ServiceTypeOK, AnswersPending, InProgress, Up, Awaiting, locks, outcome
<1>5. ThreadsFollowTasks'
  BY RequestsAssumption DEF OpenLockFile, GiveUpThreadLock, Refuse, Finish, ServiceInv,
     ServiceTypeOK, ThreadsFollowTasks, JobAwaited, Awaiting, Working, InTransaction,
     AnswersPending, InProgress, Up, locks, outcome
<1>6. FilesFollowThreads'
  BY RequestsAssumption DEF OpenLockFile, GiveUpThreadLock, Refuse, Finish, ServiceInv,
     ServiceTypeOK, FilesFollowThreads, ThreadsFollowTasks, JobAwaited, Awaiting,
     Working, InTransaction, AnswersPending, InProgress, Up, locks, outcome
<1>7. RepliesAreTrue'
  BY RequestsAssumption DEF OpenLockFile, GiveUpThreadLock, Refuse, Finish, ServiceInv,
     ServiceTypeOK, RepliesAreTrue, EffectDone, ThreadsFollowTasks, JobAwaited,
     Awaiting, Working, InTransaction, AnswersPending, InProgress, Up, locks, outcome
<1>8. WholeUploads'
  BY RequestsAssumption DEF OpenLockFile, GiveUpThreadLock, Refuse, Finish, ServiceInv,
     ServiceTypeOK, WholeUploads, AnswersPending, FilesFollowThreads, InProgress,
     Requests, locks, outcome
<1> QED BY <1>1, <1>2, <1>3, <1>4, <1>5, <1>6, <1>7, <1>8 DEF ServiceInv

\* Locking the file, or giving up.
LEMMA TryFlockStep ==
    ASSUME ServiceInv, NEW r \in Requests, TryFlock(r)
    PROVE  ServiceInv'
<1>1. ServiceTypeOK'
  BY RequestsAssumption DEF TryFlock, FlockFree, GiveUpThreadLock, Refuse, Finish,
     ServiceInv, ServiceTypeOK, Awaiting, Working, InTransaction, Critical, Requests,
     locks, outcome
<1>2. effective' \subseteq Requests
  BY RequestsAssumption DEF TryFlock, FlockFree, GiveUpThreadLock, Refuse, Finish,
     ServiceInv, locks, outcome
<1>3. LocksFollowTasks'
  BY RequestsAssumption DEF TryFlock, FlockFree, GiveUpThreadLock, Refuse, Finish,
     ServiceInv, ServiceTypeOK, LocksFollowTasks, InProgress, Critical, Awaiting, locks,
     outcome
<1>4. AnswersPending'
  BY RequestsAssumption DEF TryFlock, FlockFree, GiveUpThreadLock, Refuse, Finish,
     ServiceInv, ServiceTypeOK, AnswersPending, InProgress, Up, Awaiting, locks, outcome
<1>5. ThreadsFollowTasks'
  BY RequestsAssumption DEF TryFlock, FlockFree, GiveUpThreadLock, Refuse, Finish,
     ServiceInv, ServiceTypeOK, ThreadsFollowTasks, JobAwaited, Awaiting, Working,
     InTransaction, AnswersPending, InProgress, Up, locks, outcome
<1>6. FilesFollowThreads'
  BY RequestsAssumption DEF TryFlock, FlockFree, GiveUpThreadLock, Refuse, Finish,
     ServiceInv, ServiceTypeOK, FilesFollowThreads, ThreadsFollowTasks, JobAwaited,
     Awaiting, Working, InTransaction, AnswersPending, InProgress, Up, locks, outcome
<1>7. RepliesAreTrue'
  BY RequestsAssumption DEF TryFlock, FlockFree, GiveUpThreadLock, Refuse, Finish,
     ServiceInv, ServiceTypeOK, RepliesAreTrue, EffectDone, ThreadsFollowTasks,
     JobAwaited, Awaiting, Working, InTransaction, AnswersPending, InProgress, Up,
     locks, outcome
<1>8. WholeUploads'
  BY RequestsAssumption DEF TryFlock, FlockFree, GiveUpThreadLock, Refuse, Finish,
     ServiceInv, ServiceTypeOK, WholeUploads, AnswersPending, FilesFollowThreads,
     InProgress, Requests, locks, outcome
<1> QED BY <1>1, <1>2, <1>3, <1>4, <1>5, <1>6, <1>7, <1>8 DEF ServiceInv

\* Unlocking the file.
LEMMA UnlockStep ==
    ASSUME ServiceInv, NEW r \in Requests, Unlock(r)
    PROVE  ServiceInv'
<1>1. ServiceTypeOK'
  BY RequestsAssumption DEF Unlock, ServiceInv, ServiceTypeOK, Awaiting, Working,
     InTransaction, Critical, Requests, locks, outcome
<1>2. effective' \subseteq Requests
  BY RequestsAssumption DEF Unlock, ServiceInv, locks, outcome
<1>3. LocksFollowTasks'
  BY RequestsAssumption DEF Unlock, ServiceInv, ServiceTypeOK, LocksFollowTasks,
     InProgress, Critical, Awaiting, locks, outcome
<1>4. AnswersPending'
  BY RequestsAssumption DEF Unlock, ServiceInv, ServiceTypeOK, AnswersPending,
     InProgress, Up, Awaiting, locks, outcome
<1>5. ThreadsFollowTasks'
  BY RequestsAssumption DEF Unlock, ServiceInv, ServiceTypeOK, ThreadsFollowTasks,
     JobAwaited, Awaiting, Working, InTransaction, AnswersPending, InProgress, Up,
     locks, outcome
<1>6. FilesFollowThreads'
  BY RequestsAssumption DEF Unlock, ServiceInv, ServiceTypeOK, FilesFollowThreads,
     ThreadsFollowTasks, JobAwaited, Awaiting, Working, InTransaction, AnswersPending,
     InProgress, Up, locks, outcome
<1>7. RepliesAreTrue'
  BY RequestsAssumption DEF Unlock, ServiceInv, ServiceTypeOK, RepliesAreTrue,
     EffectDone, ThreadsFollowTasks, JobAwaited, Awaiting, Working, InTransaction,
     AnswersPending, InProgress, Up, locks, outcome
<1>8. WholeUploads'
  BY RequestsAssumption DEF Unlock, ServiceInv, ServiceTypeOK, WholeUploads,
     AnswersPending, FilesFollowThreads, InProgress, Requests, locks, outcome
<1> QED BY <1>1, <1>2, <1>3, <1>4, <1>5, <1>6, <1>7, <1>8 DEF ServiceInv

\* Releasing the thread lock and answering.
LEMMA ReleaseThreadStep ==
    ASSUME ServiceInv, NEW r \in Requests, ReleaseThread(r)
    PROVE  ServiceInv'
<1>1. ServiceTypeOK'
  BY RequestsAssumption DEF ReleaseThread, Finish, ServiceInv, ServiceTypeOK, Awaiting,
     Working, InTransaction, Critical, Requests, locks, outcome
<1>2. effective' \subseteq Requests
  BY RequestsAssumption DEF ReleaseThread, Finish, ServiceInv, locks, outcome
<1>3. LocksFollowTasks'
  <2>1. \A x \in Requests : InProgress(x)' <=> InProgress(x) /\ x # r
    BY DEF ReleaseThread, Finish, ServiceInv, ServiceTypeOK, InProgress
  <2>2. \A x \in Requests : task'[x] \in Critical <=> task[x] \in Critical
    BY DEF ReleaseThread, Finish, ServiceInv, ServiceTypeOK, Critical, Awaiting
  <2>3. threadLock[ProcessOf[r]] = r
    BY DEF ReleaseThread, ServiceInv, LocksFollowTasks, InProgress
  <2>4. /\ flock' = flock /\ threadLock \in [Processes -> Requests \cup {NoOne}]
        /\ threadLock' = [threadLock EXCEPT ![ProcessOf[r]] = NoOne]
    BY DEF ReleaseThread, ServiceInv, ServiceTypeOK
  <2>5. \A x \in Requests : /\ threadLock[ProcessOf[x]] = x <=> InProgress(x)
                            /\ flock = x <=> task[x] \in Critical
    BY DEF ServiceInv, LocksFollowTasks
  <2>6. \A x \in Requests : threadLock'[ProcessOf[x]] = x <=> InProgress(x)'
    BY RequestsAssumption, <2>1, <2>3, <2>4, <2>5
  <2> QED BY <2>2, <2>4, <2>5, <2>6 DEF LocksFollowTasks
<1>4. AnswersPending'
  BY RequestsAssumption DEF ReleaseThread, Finish, ServiceInv, ServiceTypeOK,
     AnswersPending, InProgress, Up, Awaiting, locks, outcome
<1>5. ThreadsFollowTasks'
  BY RequestsAssumption DEF ReleaseThread, Finish, ServiceInv, ServiceTypeOK,
     ThreadsFollowTasks, JobAwaited, Awaiting, Working, InTransaction, AnswersPending,
     InProgress, Up, locks, outcome
<1>6. FilesFollowThreads'
  BY RequestsAssumption DEF ReleaseThread, Finish, ServiceInv, ServiceTypeOK,
     FilesFollowThreads, ThreadsFollowTasks, JobAwaited, Awaiting, Working,
     InTransaction, AnswersPending, InProgress, Up, locks, outcome
<1>7. RepliesAreTrue'
  BY RequestsAssumption DEF ReleaseThread, Finish, ServiceInv, ServiceTypeOK,
     RepliesAreTrue, EffectDone, ThreadsFollowTasks, JobAwaited, Awaiting, Working,
     InTransaction, AnswersPending, InProgress, Up, locks, outcome
<1>8. WholeUploads'
  BY RequestsAssumption DEF ReleaseThread, Finish, ServiceInv, ServiceTypeOK,
     WholeUploads, AnswersPending, FilesFollowThreads, InProgress, Requests, locks,
     outcome
<1> QED BY <1>1, <1>2, <1>3, <1>4, <1>5, <1>6, <1>7, <1>8 DEF ServiceInv

-----------------------------------------------------------------------------
(* The coroutine.                                                          *)

\* Making the directory.
LEMMA MakeDirectoryStep ==
    ASSUME ServiceInv, NEW r \in Requests, MakeDirectory(r)
    PROVE  ServiceInv'
<1>1. ServiceTypeOK'
  BY RequestsAssumption DEF MakeDirectory, ServiceInv, ServiceTypeOK, Awaiting, Working,
     InTransaction, Critical, Requests, locks, outcome
<1>2. effective' \subseteq Requests
  BY RequestsAssumption DEF MakeDirectory, ServiceInv, locks, outcome
<1>3. LocksFollowTasks'
  BY RequestsAssumption DEF MakeDirectory, ServiceInv, ServiceTypeOK, LocksFollowTasks,
     InProgress, Critical, Awaiting, locks, outcome
<1>4. AnswersPending'
  BY RequestsAssumption DEF MakeDirectory, ServiceInv, ServiceTypeOK, AnswersPending,
     InProgress, Up, Awaiting, locks, outcome
<1>5. ThreadsFollowTasks'
  BY RequestsAssumption DEF MakeDirectory, ServiceInv, ServiceTypeOK,
     ThreadsFollowTasks, JobAwaited, Awaiting, Working, InTransaction, AnswersPending,
     InProgress, Up, locks, outcome
<1>6. FilesFollowThreads'
  BY RequestsAssumption DEF MakeDirectory, ServiceInv, ServiceTypeOK,
     FilesFollowThreads, ThreadsFollowTasks, JobAwaited, Awaiting, Working,
     InTransaction, AnswersPending, InProgress, Up, locks, outcome
<1>7. RepliesAreTrue'
  BY RequestsAssumption DEF MakeDirectory, ServiceInv, ServiceTypeOK, RepliesAreTrue,
     EffectDone, ThreadsFollowTasks, JobAwaited, Awaiting, Working, InTransaction,
     AnswersPending, InProgress, Up, locks, outcome
<1>8. WholeUploads'
  BY RequestsAssumption DEF MakeDirectory, ServiceInv, ServiceTypeOK, WholeUploads,
     AnswersPending, FilesFollowThreads, InProgress, Requests, locks, outcome
<1> QED BY <1>1, <1>2, <1>3, <1>4, <1>5, <1>6, <1>7, <1>8 DEF ServiceInv

\* Receiving the upload.
LEMMA ReceiveStep ==
    ASSUME ServiceInv, NEW r \in Requests, Receive(r)
    PROVE  ServiceInv'
<1>1. ServiceTypeOK'
  <2>1. CASE Await(r, "extracting", "extract")
    BY RequestsAssumption, <2>1 DEF Receive, Await, Fail, ServiceInv, ServiceTypeOK,
       Awaiting, Working, InTransaction, Critical, Requests, ThreadsFollowTasks,
       JobAwaited, locks, outcome
  <2>2. CASE Fail(r)
    BY RequestsAssumption, <2>2 DEF Receive, Await, Fail, ServiceInv, ServiceTypeOK,
       Awaiting, Working, InTransaction, Critical, Requests, ThreadsFollowTasks,
       JobAwaited, locks, outcome
  <2> QED BY <2>1, <2>2 DEF Receive
<1>2. effective' \subseteq Requests
  BY RequestsAssumption DEF Receive, Await, Fail, ServiceInv, locks, outcome
<1>3. LocksFollowTasks'
  BY RequestsAssumption DEF Receive, Await, Fail, ServiceInv, ServiceTypeOK,
     LocksFollowTasks, InProgress, Critical, Awaiting, locks, outcome
<1>4. AnswersPending'
  BY RequestsAssumption DEF Receive, Await, Fail, ServiceInv, ServiceTypeOK,
     AnswersPending, InProgress, Up, Awaiting, locks, outcome
<1>5. ThreadsFollowTasks'
  BY RequestsAssumption DEF Receive, Await, Fail, ServiceInv, ServiceTypeOK,
     ThreadsFollowTasks, JobAwaited, Awaiting, Working, InTransaction, AnswersPending,
     InProgress, Up, locks, outcome
<1>6. FilesFollowThreads'
  BY RequestsAssumption DEF Receive, Await, Fail, ServiceInv, ServiceTypeOK,
     FilesFollowThreads, ThreadsFollowTasks, JobAwaited, Awaiting, Working,
     InTransaction, AnswersPending, InProgress, Up, locks, outcome
<1>7. RepliesAreTrue'
  <2>1. CASE Await(r, "extracting", "extract")
    BY RequestsAssumption, <2>1 DEF Receive, Await, Fail, ServiceInv, ServiceTypeOK,
       RepliesAreTrue, EffectDone, ThreadsFollowTasks, JobAwaited, Awaiting, Working,
       InTransaction, AnswersPending, InProgress, Up, locks, outcome
  <2>2. CASE Fail(r)
    BY RequestsAssumption, <2>2 DEF Receive, Await, Fail, ServiceInv, ServiceTypeOK,
       RepliesAreTrue, EffectDone, ThreadsFollowTasks, JobAwaited, Awaiting, Working,
       InTransaction, AnswersPending, InProgress, Up, locks, outcome
  <2> QED BY <2>1, <2>2 DEF Receive
<1>8. WholeUploads'
  BY RequestsAssumption DEF Receive, Await, Fail, ServiceInv, ServiceTypeOK,
     WholeUploads, AnswersPending, FilesFollowThreads, InProgress, Requests, locks,
     outcome
<1> QED BY <1>1, <1>2, <1>3, <1>4, <1>5, <1>6, <1>7, <1>8 DEF ServiceInv

\* Going on after a thread.
LEMMA ResumeStep ==
    ASSUME ServiceInv, NEW r \in Requests, Resume(r)
    PROVE  ServiceInv'
<1>1. ServiceTypeOK'
  BY RequestsAssumption DEF Resume, Await, Fail, Succeed, ServiceInv, ServiceTypeOK,
     Awaiting, Working, InTransaction, Critical, Requests, locks, outcome
<1>2. effective' \subseteq Requests
  BY RequestsAssumption DEF Resume, Await, Fail, Succeed, ServiceInv, locks, outcome
<1>3. LocksFollowTasks'
  BY RequestsAssumption DEF Resume, Await, Fail, Succeed, ServiceInv, ServiceTypeOK,
     LocksFollowTasks, InProgress, Critical, Awaiting, locks, outcome
<1>4. AnswersPending'
  BY RequestsAssumption DEF Resume, Await, Fail, Succeed, ServiceInv, ServiceTypeOK,
     AnswersPending, InProgress, Up, Awaiting, locks, outcome
<1>5. ThreadsFollowTasks'
  BY RequestsAssumption DEF Resume, Await, Fail, Succeed, ServiceInv, ServiceTypeOK,
     ThreadsFollowTasks, JobAwaited, Awaiting, Working, InTransaction, AnswersPending,
     InProgress, Up, locks, outcome
<1>6. FilesFollowThreads'
  BY RequestsAssumption DEF Resume, Await, Fail, Succeed, ServiceInv, ServiceTypeOK,
     FilesFollowThreads, ThreadsFollowTasks, JobAwaited, Awaiting, Working,
     InTransaction, AnswersPending, InProgress, Up, locks, outcome
<1>7. RepliesAreTrue'
  <2>1. CASE thread[r] = "failed"
    BY RequestsAssumption, <2>1 DEF Resume, Await, Fail, Succeed, ServiceInv,
       ServiceTypeOK, RepliesAreTrue, EffectDone, ThreadsFollowTasks, JobAwaited,
       Awaiting, Working, InTransaction, AnswersPending, InProgress, Up, locks, outcome
  <2>2. CASE thread[r] = "ok" /\ task[r] = "extracting"
    BY RequestsAssumption, <2>2 DEF Resume, Await, Fail, Succeed, ServiceInv,
       ServiceTypeOK, RepliesAreTrue, EffectDone, ThreadsFollowTasks, JobAwaited,
       Awaiting, Working, InTransaction, AnswersPending, InProgress, Up, locks, outcome
  <2>3. CASE thread[r] = "ok" /\ task[r] = "loading"
    BY RequestsAssumption, <2>3 DEF Resume, Await, Fail, Succeed, ServiceInv,
       ServiceTypeOK, RepliesAreTrue, EffectDone, ThreadsFollowTasks, JobAwaited,
       Awaiting, Working, InTransaction, AnswersPending, InProgress, Up, locks, outcome
  <2>4. CASE thread[r] = "ok" /\ task[r] = "persisting"
    BY RequestsAssumption, <2>4 DEF Resume, Await, Fail, Succeed, ServiceInv,
       ServiceTypeOK, RepliesAreTrue, EffectDone, ThreadsFollowTasks, JobAwaited,
       Awaiting, Working, InTransaction, AnswersPending, InProgress, Up, locks, outcome
  <2> QED BY <2>1, <2>2, <2>3, <2>4 DEF Resume
<1>8. WholeUploads'
  BY RequestsAssumption DEF Resume, Await, Fail, Succeed, ServiceInv, ServiceTypeOK,
     WholeUploads, AnswersPending, FilesFollowThreads, InProgress, Requests, locks,
     outcome
<1> QED BY <1>1, <1>2, <1>3, <1>4, <1>5, <1>6, <1>7, <1>8 DEF ServiceInv

\* A cancelled coroutine.
LEMMA CancelTaskStep ==
    ASSUME ServiceInv, NEW r \in Requests, CancelTask(r)
    PROVE  ServiceInv'
<1>1. ServiceTypeOK'
  BY RequestsAssumption DEF CancelTask, ServiceInv, ServiceTypeOK, Awaiting, Working,
     InTransaction, Critical, Requests, locks, outcome
<1>2. effective' \subseteq Requests
  BY RequestsAssumption DEF CancelTask, ServiceInv, locks, outcome
<1>3. LocksFollowTasks'
  BY RequestsAssumption DEF CancelTask, ServiceInv, ServiceTypeOK, LocksFollowTasks,
     InProgress, Critical, Awaiting, locks, outcome
<1>4. AnswersPending'
  BY RequestsAssumption DEF CancelTask, ServiceInv, ServiceTypeOK, AnswersPending,
     InProgress, Up, Awaiting, locks, outcome
<1>5. ThreadsFollowTasks'
  BY RequestsAssumption DEF CancelTask, ServiceInv, ServiceTypeOK, ThreadsFollowTasks,
     JobAwaited, Awaiting, Working, InTransaction, AnswersPending, InProgress, Up,
     locks, outcome
<1>6. FilesFollowThreads'
  BY RequestsAssumption DEF CancelTask, ServiceInv, ServiceTypeOK, FilesFollowThreads,
     ThreadsFollowTasks, JobAwaited, Awaiting, Working, InTransaction, AnswersPending,
     InProgress, Up, locks, outcome
<1>7. RepliesAreTrue'
  BY RequestsAssumption DEF CancelTask, ServiceInv, ServiceTypeOK, RepliesAreTrue,
     EffectDone, ThreadsFollowTasks, JobAwaited, Awaiting, Working, InTransaction,
     AnswersPending, InProgress, Up, locks, outcome
<1>8. WholeUploads'
  BY RequestsAssumption DEF CancelTask, ServiceInv, ServiceTypeOK, WholeUploads,
     AnswersPending, FilesFollowThreads, InProgress, Requests, locks, outcome
<1> QED BY <1>1, <1>2, <1>3, <1>4, <1>5, <1>6, <1>7, <1>8 DEF ServiceInv

\* The finally clause.
LEMMA CleanStep ==
    ASSUME ServiceInv, NEW r \in Requests, Clean(r)
    PROVE  ServiceInv'
<1>1. ServiceTypeOK'
  BY RequestsAssumption DEF Clean, ServiceInv, ServiceTypeOK, Awaiting, Working,
     InTransaction, Critical, Requests, locks, outcome
<1>2. effective' \subseteq Requests
  BY RequestsAssumption DEF Clean, ServiceInv, locks, outcome
<1>3. LocksFollowTasks'
  BY RequestsAssumption DEF Clean, ServiceInv, ServiceTypeOK, LocksFollowTasks,
     InProgress, Critical, Awaiting, locks, outcome
<1>4. AnswersPending'
  BY RequestsAssumption DEF Clean, ServiceInv, ServiceTypeOK, AnswersPending,
     InProgress, Up, Awaiting, locks, outcome
<1>5. ThreadsFollowTasks'
  BY RequestsAssumption DEF Clean, ServiceInv, ServiceTypeOK, ThreadsFollowTasks,
     JobAwaited, Awaiting, Working, InTransaction, AnswersPending, InProgress, Up,
     locks, outcome
<1>6. FilesFollowThreads'
  BY RequestsAssumption DEF Clean, ServiceInv, ServiceTypeOK, FilesFollowThreads,
     ThreadsFollowTasks, JobAwaited, Awaiting, Working, InTransaction, AnswersPending,
     InProgress, Up, locks, outcome
<1>7. RepliesAreTrue'
  BY RequestsAssumption DEF Clean, ServiceInv, ServiceTypeOK, RepliesAreTrue,
     EffectDone, ThreadsFollowTasks, JobAwaited, Awaiting, Working, InTransaction,
     AnswersPending, InProgress, Up, locks, outcome
<1>8. WholeUploads'
  BY RequestsAssumption DEF Clean, ServiceInv, ServiceTypeOK, WholeUploads,
     AnswersPending, FilesFollowThreads, InProgress, Requests, locks, outcome
<1> QED BY <1>1, <1>2, <1>3, <1>4, <1>5, <1>6, <1>7, <1>8 DEF ServiceInv

-----------------------------------------------------------------------------
(* The threads.                                                            *)

\* Extracting and parsing.
LEMMA ReadUploadStep ==
    ASSUME ServiceInv, NEW r \in Requests, ReadUpload(r)
    PROVE  ServiceInv'
<1>1. ServiceTypeOK'
  BY RequestsAssumption DEF ReadUpload, Result, ServiceInv, ServiceTypeOK, Awaiting,
     Working, InTransaction, Critical, Requests, locks, outcome
<1>2. effective' \subseteq Requests
  BY RequestsAssumption DEF ReadUpload, Result, ServiceInv, locks, outcome
<1>3. LocksFollowTasks'
  BY RequestsAssumption DEF ReadUpload, Result, ServiceInv, ServiceTypeOK,
     LocksFollowTasks, InProgress, Critical, Awaiting, locks, outcome
<1>4. AnswersPending'
  BY RequestsAssumption DEF ReadUpload, Result, ServiceInv, ServiceTypeOK,
     AnswersPending, InProgress, Up, Awaiting, locks, outcome
<1>5. ThreadsFollowTasks'
  BY RequestsAssumption DEF ReadUpload, Result, ServiceInv, ServiceTypeOK,
     ThreadsFollowTasks, JobAwaited, Awaiting, Working, InTransaction, AnswersPending,
     InProgress, Up, locks, outcome
<1>6. FilesFollowThreads'
  BY RequestsAssumption DEF ReadUpload, Result, ServiceInv, ServiceTypeOK,
     FilesFollowThreads, ThreadsFollowTasks, JobAwaited, Awaiting, Working,
     InTransaction, AnswersPending, InProgress, Up, locks, outcome
<1>7. RepliesAreTrue'
  BY RequestsAssumption DEF ReadUpload, Result, ServiceInv, ServiceTypeOK,
     RepliesAreTrue, EffectDone, ThreadsFollowTasks, JobAwaited, Awaiting, Working,
     InTransaction, AnswersPending, InProgress, Up, locks, outcome
<1>8. WholeUploads'
  BY RequestsAssumption DEF ReadUpload, Result, ServiceInv, ServiceTypeOK, WholeUploads,
     AnswersPending, FilesFollowThreads, InProgress, Requests, locks, outcome
<1> QED BY <1>1, <1>2, <1>3, <1>4, <1>5, <1>6, <1>7, <1>8 DEF ServiceInv

\* Opening the store.
LEMMA BeginStep ==
    ASSUME ServiceInv, NEW r \in Requests, Begin(r)
    PROVE  ServiceInv'
<1>1. ServiceTypeOK'
  BY RequestsAssumption DEF Begin, FailPersist, NoLongerWriting, Result, ServiceInv,
     ServiceTypeOK, Awaiting, Working, InTransaction, Critical, Requests, locks, outcome
<1>2. effective' \subseteq Requests
  BY RequestsAssumption DEF Begin, FailPersist, NoLongerWriting, Result, ServiceInv,
     locks, outcome
<1>3. LocksFollowTasks'
  BY RequestsAssumption DEF Begin, FailPersist, NoLongerWriting, Result, ServiceInv,
     ServiceTypeOK, LocksFollowTasks, InProgress, Critical, Awaiting, locks, outcome
<1>4. AnswersPending'
  BY RequestsAssumption DEF Begin, FailPersist, NoLongerWriting, Result, ServiceInv,
     ServiceTypeOK, AnswersPending, InProgress, Up, Awaiting, locks, outcome
<1>5. ThreadsFollowTasks'
  BY RequestsAssumption DEF Begin, FailPersist, NoLongerWriting, Result, ServiceInv,
     ServiceTypeOK, ThreadsFollowTasks, JobAwaited, Awaiting, Working, InTransaction,
     AnswersPending, InProgress, Up, locks, outcome
<1>6. FilesFollowThreads'
  BY RequestsAssumption DEF Begin, FailPersist, NoLongerWriting, Result, ServiceInv,
     ServiceTypeOK, FilesFollowThreads, ThreadsFollowTasks, JobAwaited, Awaiting,
     Working, InTransaction, AnswersPending, InProgress, Up, locks, outcome
<1>7. RepliesAreTrue'
  BY RequestsAssumption DEF Begin, FailPersist, NoLongerWriting, Result, ServiceInv,
     ServiceTypeOK, RepliesAreTrue, EffectDone, ThreadsFollowTasks, JobAwaited,
     Awaiting, Working, InTransaction, AnswersPending, InProgress, Up, locks, outcome
<1>8. WholeUploads'
  BY RequestsAssumption DEF Begin, FailPersist, NoLongerWriting, Result, ServiceInv,
     ServiceTypeOK, WholeUploads, AnswersPending, FilesFollowThreads, InProgress,
     Requests, locks, outcome
<1> QED BY <1>1, <1>2, <1>3, <1>4, <1>5, <1>6, <1>7, <1>8 DEF ServiceInv

\* Saving and evaluating.
LEMMA EvaluateStep ==
    ASSUME ServiceInv, NEW r \in Requests, Evaluate(r)
    PROVE  ServiceInv'
<1>1. ServiceTypeOK'
  <2>1. CASE FailPersist(r)
    BY RequestsAssumption, <2>1 DEF Evaluate, FailPersist, NoLongerWriting, Result,
       ServiceInv, ServiceTypeOK, Awaiting, Working, InTransaction, Critical, Requests,
       locks, outcome
  <2>2. CASE thread' = [thread EXCEPT ![r] = "cleanup"] /\ UNCHANGED writer
    BY RequestsAssumption, <2>2 DEF Evaluate, FailPersist, NoLongerWriting, Result,
       ServiceInv, ServiceTypeOK, Awaiting, Working, InTransaction, Critical, Requests,
       locks, outcome
  <2> QED BY <2>1, <2>2 DEF Evaluate
<1>2. effective' \subseteq Requests
  BY RequestsAssumption DEF Evaluate, FailPersist, NoLongerWriting, Result, ServiceInv,
     locks, outcome
<1>3. LocksFollowTasks'
  BY RequestsAssumption DEF Evaluate, FailPersist, NoLongerWriting, Result, ServiceInv,
     ServiceTypeOK, LocksFollowTasks, InProgress, Critical, Awaiting, locks, outcome
<1>4. AnswersPending'
  BY RequestsAssumption DEF Evaluate, FailPersist, NoLongerWriting, Result, ServiceInv,
     ServiceTypeOK, AnswersPending, InProgress, Up, Awaiting, locks, outcome
<1>5. ThreadsFollowTasks'
  BY RequestsAssumption DEF Evaluate, FailPersist, NoLongerWriting, Result, ServiceInv,
     ServiceTypeOK, ThreadsFollowTasks, JobAwaited, Awaiting, Working, InTransaction,
     AnswersPending, InProgress, Up, locks, outcome
<1>6. FilesFollowThreads'
  BY RequestsAssumption DEF Evaluate, FailPersist, NoLongerWriting, Result, ServiceInv,
     ServiceTypeOK, FilesFollowThreads, ThreadsFollowTasks, JobAwaited, Awaiting,
     Working, InTransaction, AnswersPending, InProgress, Up, locks, outcome
<1>7. RepliesAreTrue'
  BY RequestsAssumption DEF Evaluate, FailPersist, NoLongerWriting, Result, ServiceInv,
     ServiceTypeOK, RepliesAreTrue, EffectDone, ThreadsFollowTasks, JobAwaited,
     Awaiting, Working, InTransaction, AnswersPending, InProgress, Up, locks, outcome
<1>8. WholeUploads'
  BY RequestsAssumption DEF Evaluate, FailPersist, NoLongerWriting, Result, ServiceInv,
     ServiceTypeOK, WholeUploads, AnswersPending, FilesFollowThreads, InProgress,
     Requests, locks, outcome
<1> QED BY <1>1, <1>2, <1>3, <1>4, <1>5, <1>6, <1>7, <1>8 DEF ServiceInv

\* Removing the upload inside the transaction.
LEMMA CleanUploadStep ==
    ASSUME ServiceInv, NEW r \in Requests, CleanUpload(r)
    PROVE  ServiceInv'
<1>1. ServiceTypeOK'
  BY RequestsAssumption DEF CleanUpload, FailPersist, NoLongerWriting, Result,
     ServiceInv, ServiceTypeOK, Awaiting, Working, InTransaction, Critical, Requests,
     locks, outcome
<1>2. effective' \subseteq Requests
  BY RequestsAssumption DEF CleanUpload, FailPersist, NoLongerWriting, Result,
     ServiceInv, locks, outcome
<1>3. LocksFollowTasks'
  BY RequestsAssumption DEF CleanUpload, FailPersist, NoLongerWriting, Result,
     ServiceInv, ServiceTypeOK, LocksFollowTasks, InProgress, Critical, Awaiting, locks,
     outcome
<1>4. AnswersPending'
  BY RequestsAssumption DEF CleanUpload, FailPersist, NoLongerWriting, Result,
     ServiceInv, ServiceTypeOK, AnswersPending, InProgress, Up, Awaiting, locks, outcome
<1>5. ThreadsFollowTasks'
  BY RequestsAssumption DEF CleanUpload, FailPersist, NoLongerWriting, Result,
     ServiceInv, ServiceTypeOK, ThreadsFollowTasks, JobAwaited, Awaiting, Working,
     InTransaction, AnswersPending, InProgress, Up, locks, outcome
<1>6. FilesFollowThreads'
  BY RequestsAssumption DEF CleanUpload, FailPersist, NoLongerWriting, Result,
     ServiceInv, ServiceTypeOK, FilesFollowThreads, ThreadsFollowTasks, JobAwaited,
     Awaiting, Working, InTransaction, AnswersPending, InProgress, Up, locks, outcome
<1>7. RepliesAreTrue'
  BY RequestsAssumption DEF CleanUpload, FailPersist, NoLongerWriting, Result,
     ServiceInv, ServiceTypeOK, RepliesAreTrue, EffectDone, ThreadsFollowTasks,
     JobAwaited, Awaiting, Working, InTransaction, AnswersPending, InProgress, Up,
     locks, outcome
<1>8. WholeUploads'
  BY RequestsAssumption DEF CleanUpload, FailPersist, NoLongerWriting, Result,
     ServiceInv, ServiceTypeOK, WholeUploads, AnswersPending, FilesFollowThreads,
     InProgress, Requests, locks, outcome
<1> QED BY <1>1, <1>2, <1>3, <1>4, <1>5, <1>6, <1>7, <1>8 DEF ServiceInv

\* Committing.
LEMMA CommitStep ==
    ASSUME ServiceInv, NEW r \in Requests, Commit(r)
    PROVE  ServiceInv'
<1>1. ServiceTypeOK'
  BY RequestsAssumption DEF Commit, FailPersist, NoLongerWriting, Result, ServiceInv,
     ServiceTypeOK, Awaiting, Working, InTransaction, Critical, Requests, locks, outcome
<1>2. effective' \subseteq Requests
  BY RequestsAssumption DEF Commit, FailPersist, NoLongerWriting, Result, ServiceInv,
     locks, outcome
<1>3. LocksFollowTasks'
  BY RequestsAssumption DEF Commit, FailPersist, NoLongerWriting, Result, ServiceInv,
     ServiceTypeOK, LocksFollowTasks, InProgress, Critical, Awaiting, locks, outcome
<1>4. AnswersPending'
  BY RequestsAssumption DEF Commit, FailPersist, NoLongerWriting, Result, ServiceInv,
     ServiceTypeOK, AnswersPending, InProgress, Up, Awaiting, locks, outcome
<1>5. ThreadsFollowTasks'
  BY RequestsAssumption DEF Commit, FailPersist, NoLongerWriting, Result, ServiceInv,
     ServiceTypeOK, ThreadsFollowTasks, JobAwaited, Awaiting, Working, InTransaction,
     AnswersPending, InProgress, Up, locks, outcome
<1>6. FilesFollowThreads'
  BY RequestsAssumption DEF Commit, FailPersist, NoLongerWriting, Result, ServiceInv,
     ServiceTypeOK, FilesFollowThreads, ThreadsFollowTasks, JobAwaited, Awaiting,
     Working, InTransaction, AnswersPending, InProgress, Up, locks, outcome
<1>7. RepliesAreTrue'
  BY RequestsAssumption DEF Commit, FailPersist, NoLongerWriting, Result, ServiceInv,
     ServiceTypeOK, RepliesAreTrue, EffectDone, ThreadsFollowTasks, JobAwaited,
     Awaiting, Working, InTransaction, AnswersPending, InProgress, Up, locks, outcome
<1>8. WholeUploads'
  BY RequestsAssumption DEF Commit, FailPersist, NoLongerWriting, Result, ServiceInv,
     ServiceTypeOK, WholeUploads, AnswersPending, FilesFollowThreads, InProgress,
     Requests, locks, outcome
<1> QED BY <1>1, <1>2, <1>3, <1>4, <1>5, <1>6, <1>7, <1>8 DEF ServiceInv

\* A deletion.
LEMMA DeleteStep ==
    ASSUME ServiceInv, NEW r \in Requests, Delete(r)
    PROVE  ServiceInv'
<1>1. ServiceTypeOK'
  BY RequestsAssumption DEF Delete, ServiceInv, ServiceTypeOK, Awaiting, Working,
     InTransaction, Critical, Requests, locks, outcome
<1>2. effective' \subseteq Requests
  BY RequestsAssumption DEF Delete, ServiceInv, locks, outcome
<1>3. LocksFollowTasks'
  BY RequestsAssumption DEF Delete, ServiceInv, ServiceTypeOK, LocksFollowTasks,
     InProgress, Critical, Awaiting, locks, outcome
<1>4. AnswersPending'
  BY RequestsAssumption DEF Delete, ServiceInv, ServiceTypeOK, AnswersPending,
     InProgress, Up, Awaiting, locks, outcome
<1>5. ThreadsFollowTasks'
  BY RequestsAssumption DEF Delete, ServiceInv, ServiceTypeOK, ThreadsFollowTasks,
     JobAwaited, Awaiting, Working, InTransaction, AnswersPending, InProgress, Up,
     locks, outcome
<1>6. FilesFollowThreads'
  BY RequestsAssumption DEF Delete, ServiceInv, ServiceTypeOK, FilesFollowThreads,
     ThreadsFollowTasks, JobAwaited, Awaiting, Working, InTransaction, AnswersPending,
     InProgress, Up, locks, outcome
<1>7. RepliesAreTrue'
  BY RequestsAssumption DEF Delete, ServiceInv, ServiceTypeOK, RepliesAreTrue,
     EffectDone, ThreadsFollowTasks, JobAwaited, Awaiting, Working, InTransaction,
     AnswersPending, InProgress, Up, locks, outcome
<1>8. WholeUploads'
  BY RequestsAssumption DEF Delete, ServiceInv, ServiceTypeOK, WholeUploads,
     AnswersPending, FilesFollowThreads, InProgress, Requests, locks, outcome
<1> QED BY <1>1, <1>2, <1>3, <1>4, <1>5, <1>6, <1>7, <1>8 DEF ServiceInv

-----------------------------------------------------------------------------
(* The processes.                                                          *)

\* A forced shutdown.
LEMMA ShutdownStep ==
    ASSUME ServiceInv, NEW p \in Processes, Shutdown(p)
    PROVE  ServiceInv'
<1>1. ServiceTypeOK'
  BY RequestsAssumption DEF Shutdown, DropRequestsOf, RequestsOf, ServiceInv,
     ServiceTypeOK, Awaiting, Working, InTransaction, Critical, Requests, locks, outcome
<1>2. effective' \subseteq Requests
  BY RequestsAssumption DEF Shutdown, DropRequestsOf, RequestsOf, ServiceInv, locks,
     outcome
<1>3. LocksFollowTasks'
  BY RequestsAssumption DEF Shutdown, DropRequestsOf, RequestsOf, ServiceInv,
     ServiceTypeOK, LocksFollowTasks, InProgress, Critical, Awaiting, locks, outcome
<1>4. AnswersPending'
  BY RequestsAssumption DEF Shutdown, DropRequestsOf, RequestsOf, ServiceInv,
     ServiceTypeOK, AnswersPending, InProgress, Up, Awaiting, locks, outcome
<1>5. ThreadsFollowTasks'
  BY RequestsAssumption DEF Shutdown, DropRequestsOf, RequestsOf, ServiceInv,
     ServiceTypeOK, ThreadsFollowTasks, JobAwaited, Awaiting, Working, InTransaction,
     AnswersPending, InProgress, Up, locks, outcome
<1>6. FilesFollowThreads'
  BY RequestsAssumption DEF Shutdown, DropRequestsOf, RequestsOf, ServiceInv,
     ServiceTypeOK, FilesFollowThreads, ThreadsFollowTasks, JobAwaited, Awaiting,
     Working, InTransaction, AnswersPending, InProgress, Up, locks, outcome
<1>7. RepliesAreTrue'
  BY RequestsAssumption DEF Shutdown, DropRequestsOf, RequestsOf, ServiceInv,
     ServiceTypeOK, RepliesAreTrue, EffectDone, ThreadsFollowTasks, JobAwaited,
     Awaiting, Working, InTransaction, AnswersPending, InProgress, Up, locks, outcome
<1>8. WholeUploads'
  BY RequestsAssumption DEF Shutdown, DropRequestsOf, RequestsOf, ServiceInv,
     ServiceTypeOK, WholeUploads, AnswersPending, FilesFollowThreads, InProgress,
     Requests, locks, outcome
<1> QED BY <1>1, <1>2, <1>3, <1>4, <1>5, <1>6, <1>7, <1>8 DEF ServiceInv

\* The end of a process.
LEMMA CrashStep ==
    ASSUME ServiceInv, NEW p \in Processes, Crash(p)
    PROVE  ServiceInv'
<1>1. ServiceTypeOK'
  BY RequestsAssumption DEF Crash, DropRequestsOf, RequestsOf, ServiceInv,
     ServiceTypeOK, Awaiting, Working, InTransaction, Critical, Requests, locks, outcome
<1>2. effective' \subseteq Requests
  BY RequestsAssumption DEF Crash, DropRequestsOf, RequestsOf, ServiceInv, locks,
     outcome
<1>3. LocksFollowTasks'
  BY RequestsAssumption DEF Crash, DropRequestsOf, RequestsOf, ServiceInv,
     ServiceTypeOK, LocksFollowTasks, InProgress, Critical, Awaiting, locks, outcome
<1>4. AnswersPending'
  BY RequestsAssumption DEF Crash, DropRequestsOf, RequestsOf, ServiceInv,
     ServiceTypeOK, AnswersPending, InProgress, Up, Awaiting, locks, outcome
<1>5. ThreadsFollowTasks'
  BY RequestsAssumption DEF Crash, DropRequestsOf, RequestsOf, ServiceInv,
     ServiceTypeOK, ThreadsFollowTasks, JobAwaited, Awaiting, Working, InTransaction,
     AnswersPending, InProgress, Up, locks, outcome
<1>6. FilesFollowThreads'
  BY RequestsAssumption DEF Crash, DropRequestsOf, RequestsOf, ServiceInv,
     ServiceTypeOK, FilesFollowThreads, ThreadsFollowTasks, JobAwaited, Awaiting,
     Working, InTransaction, AnswersPending, InProgress, Up, locks, outcome
<1>7. RepliesAreTrue'
  BY RequestsAssumption DEF Crash, DropRequestsOf, RequestsOf, ServiceInv,
     ServiceTypeOK, RepliesAreTrue, EffectDone, ThreadsFollowTasks, JobAwaited,
     Awaiting, Working, InTransaction, AnswersPending, InProgress, Up, locks, outcome
<1>8. WholeUploads'
  BY RequestsAssumption DEF Crash, DropRequestsOf, RequestsOf, ServiceInv,
     ServiceTypeOK, WholeUploads, AnswersPending, FilesFollowThreads, InProgress,
     Requests, locks, outcome
<1> QED BY <1>1, <1>2, <1>3, <1>4, <1>5, <1>6, <1>7, <1>8 DEF ServiceInv

\* A new process.
LEMMA RestartStep ==
    ASSUME ServiceInv, NEW p \in Processes, Restart(p)
    PROVE  ServiceInv'
<1>1. ServiceTypeOK'
  BY RequestsAssumption DEF Restart, ServiceInv, ServiceTypeOK, Awaiting, Working,
     InTransaction, Critical, Requests, locks, outcome
<1>2. effective' \subseteq Requests
  BY RequestsAssumption DEF Restart, ServiceInv, locks, outcome
<1>3. LocksFollowTasks'
  BY RequestsAssumption DEF Restart, ServiceInv, ServiceTypeOK, LocksFollowTasks,
     InProgress, Critical, Awaiting, locks, outcome
<1>4. AnswersPending'
  BY RequestsAssumption DEF Restart, ServiceInv, ServiceTypeOK, AnswersPending,
     InProgress, Up, Awaiting, locks, outcome
<1>5. ThreadsFollowTasks'
  BY RequestsAssumption DEF Restart, ServiceInv, ServiceTypeOK, ThreadsFollowTasks,
     JobAwaited, Awaiting, Working, InTransaction, AnswersPending, InProgress, Up,
     locks, outcome
<1>6. FilesFollowThreads'
  BY RequestsAssumption DEF Restart, ServiceInv, ServiceTypeOK, FilesFollowThreads,
     ThreadsFollowTasks, JobAwaited, Awaiting, Working, InTransaction, AnswersPending,
     InProgress, Up, locks, outcome
<1>7. RepliesAreTrue'
  BY RequestsAssumption DEF Restart, ServiceInv, ServiceTypeOK, RepliesAreTrue,
     EffectDone, ThreadsFollowTasks, JobAwaited, Awaiting, Working, InTransaction,
     AnswersPending, InProgress, Up, locks, outcome
<1>8. WholeUploads'
  BY RequestsAssumption DEF Restart, ServiceInv, ServiceTypeOK, WholeUploads,
     AnswersPending, FilesFollowThreads, InProgress, Requests, locks, outcome
<1> QED BY <1>1, <1>2, <1>3, <1>4, <1>5, <1>6, <1>7, <1>8 DEF ServiceInv

-----------------------------------------------------------------------------
(* The theorems.                                                           *)

\* ServiceInv holds initially and is kept by every step.
THEOREM ServiceInvariance == ServiceSpec => []ServiceInv
<1>1. ServiceInit => ServiceInv
  BY RequestsAssumption
  DEF ServiceInit, Contract!ContractInit, Contract!Requests, ServiceInv, ServiceTypeOK,
      LocksFollowTasks, AnswersPending, ThreadsFollowTasks, FilesFollowThreads, RepliesAreTrue,
      EffectDone, WholeUploads, InProgress, Awaiting, Critical, Working, InTransaction, Requests
<1>2. ServiceInv /\ [ServiceNext]_serviceVars => ServiceInv'
  <2> SUFFICES ASSUME ServiceInv, [ServiceNext]_serviceVars PROVE ServiceInv'
    OBVIOUS
  <2>1. CASE \E r \in Requests : AcquireThread(r) \/ TaskStep(r) \/ ThreadStep(r)
    BY <2>1, AcquireThreadStep, OpenLockFileStep, TryFlockStep, UnlockStep, ReleaseThreadStep,
       MakeDirectoryStep, ReceiveStep, ResumeStep, CancelTaskStep, CleanStep, ReadUploadStep,
       BeginStep, EvaluateStep, CleanUploadStep, CommitStep, DeleteStep
    DEF TaskStep, ThreadStep
  <2>2. CASE \E p \in Processes : Shutdown(p) \/ Crash(p) \/ Restart(p)
    BY <2>2, ShutdownStep, CrashStep, RestartStep
  <2>3. CASE UNCHANGED serviceVars
    BY <2>3 DEF serviceVars, locks, outcome, ServiceInv, ServiceTypeOK, LocksFollowTasks,
       AnswersPending, ThreadsFollowTasks, JobAwaited, FilesFollowThreads, RepliesAreTrue,
       EffectDone, WholeUploads, InProgress, Up
  <2> QED BY <2>1, <2>2, <2>3 DEF ServiceNext
<1> QED BY <1>1, <1>2, PTL DEF ServiceSpec

\* The values and their relations are right in every reachable state.
THEOREM ServiceTypeCorrect == ServiceSpec => []ServiceTypeOK
<1>1. ServiceInv => ServiceTypeOK
  BY DEF ServiceInv
<1> QED BY <1>1, ServiceInvariance, PTL

\* A lock is held exactly by a handler between taking and releasing it.
THEOREM LocksFollow == ServiceSpec => []LocksFollowTasks
<1>1. ServiceInv => LocksFollowTasks
  BY DEF ServiceInv
<1> QED BY <1>1, ServiceInvariance, PTL

\* No two web imports or deletions of any processes are at work at once, but
\* for a thread whose request was dropped.
THEOREM Serial == ServiceSpec => []ImportsAreSerial
<1>1. ServiceInv => ImportsAreSerial
  <2> SUFFICES ASSUME ServiceInv, NEW r \in Requests, NEW s \in Requests, r # s,
                      AtWork(r), AtWork(s), answer[r] # "dropped", answer[s] # "dropped"
               PROVE  FALSE
    BY DEF ImportsAreSerial
  <2>1. task[r] \in Critical /\ task[s] \in Critical
    BY DEF ServiceInv, ThreadsFollowTasks, AtWork, Critical, Working, InTransaction
  <2> QED BY <2>1 DEF ServiceInv, LocksFollowTasks
<1> QED BY <1>1, ServiceInvariance, PTL

\* Only a dropped request is evaluated without its files.
THEOREM Whole == ServiceSpec => []WholeUploads
<1>1. ServiceInv => WholeUploads
  BY DEF ServiceInv
<1> QED BY <1>1, ServiceInvariance, PTL

\* Only two actions touch the store.
LEMMA OutcomeSteps ==
    ASSUME [ServiceNext]_serviceVars
    PROVE  \/ UNCHANGED <<stored, effective>>
           \/ \E r \in Requests : Commit(r) \/ Delete(r)
<1>1. CASE \E r \in Requests : AcquireThread(r) \/ TaskStep(r) \/ ThreadStep(r)
  BY <1>1 DEF TaskStep, ThreadStep, AcquireThread, OpenLockFile, TryFlock, Unlock, ReleaseThread,
     MakeDirectory, Receive, Resume, CancelTask, Clean, ReadUpload, Begin, Evaluate, CleanUpload,
     outcome
<1>2. CASE \E p \in Processes : Shutdown(p) \/ Crash(p) \/ Restart(p)
  BY <1>2 DEF Shutdown, Crash, Restart, outcome
<1>3. CASE UNCHANGED serviceVars
  BY <1>3 DEF serviceVars, outcome
<1> QED BY <1>1, <1>2, <1>3 DEF ServiceNext

\* No upload is committed before its files are gone.
THEOREM CleanFirst == ServiceSpec => CleanBeforeStored
<1>1. ServiceInv /\ [ServiceNext]_serviceVars =>
         [\A r \in Uploads : r \in effective' \ effective => dir[r] = "gone"]_serviceVars
  <2> SUFFICES ASSUME ServiceInv, [ServiceNext]_serviceVars,
                      NEW r \in Uploads, r \in effective' \ effective
               PROVE  dir[r] = "gone"
    OBVIOUS
  <2>1. PICK x \in Requests : Commit(x) \/ Delete(x)
    BY OutcomeSteps
  <2>2. CASE Commit(x)
    <3>1. x = r
      BY <2>2 DEF Commit, outcome
    <3> QED BY <2>2, <3>1 DEF Commit, ServiceInv, FilesFollowThreads
  <2>3. CASE Delete(x)
    BY <2>3, RequestsAssumption DEF Delete, outcome
  <2> QED BY <2>1, <2>2, <2>3
<1> QED BY <1>1, ServiceInvariance, PTL DEF ServiceSpec, CleanBeforeStored

-----------------------------------------------------------------------------
(* The refinement: each step is one of IngestContract or a stutter.        *)

\* Sending the answer a to a request in progress: the contract's Reply, when a
\* is true, or nothing when the request was dropped.
LEMMA FinishReplies ==
    ASSUME ServiceInv, NEW r \in Requests, NEW a, Finish(r, a),
           answer[r] = "none" =>
               a \in IF r \in effective THEN {"success"} ELSE {"busy", "failure"},
           UNCHANGED <<stored, effective>>
    PROVE  Contract!Reply(r) \/ UNCHANGED <<stored, effective, answer>>
<1>1. CASE answer[r] = "none"
  BY <1>1 DEF Finish, Contract!Reply
<1>2. CASE answer[r] # "none"
  BY <1>2 DEF Finish, ServiceInv, ServiceTypeOK
<1> QED BY <1>1, <1>2

\* Dropping the requests in progress at a process is the contract's Drop.
LEMMA DropIsDrop ==
    ASSUME NEW p, DropRequestsOf(p), UNCHANGED <<stored, effective>>
    PROVE  \E S \in SUBSET Contract!Requests : Contract!Drop(S)
<1> DEFINE S == {r \in RequestsOf(p) : answer[r] = "none"}
<1>1. S \in SUBSET Contract!Requests
  BY DEF RequestsOf, Requests, Contract!Requests
<1>2. Contract!Drop(S)
  BY DEF DropRequestsOf, RequestsOf, Requests, Contract!Drop, Contract!Requests
<1> QED BY <1>1, <1>2

\* What the service answers, stores and removes is what IngestContract allows.
THEOREM ServiceRefinesContract == ServiceSpec => AnswersAreTrue
<1>1. ServiceInit => Contract!ContractInit
  BY DEF ServiceInit
<1>2. ServiceInv /\ [ServiceNext]_serviceVars =>
         [Contract!ContractNext]_<<stored, effective, answer>>
  <2> SUFFICES ASSUME ServiceInv, [ServiceNext]_serviceVars
               PROVE  Contract!ContractNext \/ UNCHANGED <<stored, effective, answer>>
    OBVIOUS
  <2>0. Contract!Requests = Requests
    BY DEF Contract!Requests, Requests
  <2>1. ASSUME NEW r \in Requests, AcquireThread(r) \/ OpenLockFile(r) \/ TryFlock(r)
        PROVE  Contract!Reply(r) \/ UNCHANGED <<stored, effective, answer>>
    <3>1. UNCHANGED <<stored, effective>> /\ (UNCHANGED answer \/ Finish(r, "busy"))
      BY <2>1 DEF AcquireThread, OpenLockFile, TryFlock, Refuse, outcome
    <3>2. r \notin effective
      BY <2>1 DEF AcquireThread, OpenLockFile, TryFlock, ServiceInv, RepliesAreTrue
    <3> QED BY <3>1, <3>2, FinishReplies
  <2>2. ASSUME NEW r \in Requests, ReleaseThread(r)
        PROVE  Contract!Reply(r) \/ UNCHANGED <<stored, effective, answer>>
    <3>1. Finish(r, reply[r]) /\ UNCHANGED <<stored, effective>>
      BY <2>2 DEF ReleaseThread, outcome
    <3>2. ASSUME answer[r] = "none"
          PROVE  reply[r] \in IF r \in effective THEN {"success"} ELSE {"busy", "failure"}
      <4>1. task[r] = "unlocked" /\ thread[r] = "none"
        BY <2>2, <3>2 DEF ReleaseThread, ServiceInv, ThreadsFollowTasks, Awaiting
      <4>2. reply[r] \in {"failure", "success"}
        BY <3>2, <4>1 DEF ServiceInv, ServiceTypeOK, RepliesAreTrue
      <4>3. reply[r] = "success" <=> r \in effective
        BY <3>2, <4>1 DEF ServiceInv, RepliesAreTrue, EffectDone
      <4> QED BY <4>2, <4>3
    <3> QED BY <3>1, <3>2, FinishReplies
  <2>3. ASSUME NEW r \in Requests, Commit(r)
        PROVE  Contract!Store(r) \/ UNCHANGED <<stored, effective, answer>>
    <3>1. r \in Uploads
      BY <2>3 DEF Commit, ServiceInv, ServiceTypeOK, Requests
    <3>2. answer[r] \in {"none", "dropped"}
      BY <2>3 DEF Commit, ServiceInv, ThreadsFollowTasks, AnswersPending, InProgress, Awaiting
    <3>3. r \notin effective
      BY <2>3 DEF Commit, ServiceInv, RepliesAreTrue, Working, InTransaction
    <3> QED BY <2>3, <3>1, <3>2, <3>3 DEF Commit, outcome, Contract!Store, Contract!Pending
  <2>4. ASSUME NEW r \in Requests, Delete(r)
        PROVE  Contract!Remove(r) \/ UNCHANGED <<stored, effective, answer>>
    <3>1. answer[r] \in {"none", "dropped"} /\ r \notin effective
      BY <2>4 DEF Delete, ServiceInv, AnswersPending, InProgress, RepliesAreTrue
    <3> QED BY <2>4, <3>1 DEF Delete, outcome, Contract!Remove, Contract!Pending
  <2>5. ASSUME NEW p \in Processes, Shutdown(p) \/ Crash(p)
        PROVE  \E S \in SUBSET Contract!Requests : Contract!Drop(S)
    BY <2>5, DropIsDrop DEF Shutdown, Crash, outcome
  <2>6. CASE \E r \in Requests : AcquireThread(r) \/ TaskStep(r) \/ ThreadStep(r)
    <3>1. PICK r \in Requests : AcquireThread(r) \/ TaskStep(r) \/ ThreadStep(r)
      BY <2>6
    <3>2. CASE AcquireThread(r) \/ OpenLockFile(r) \/ TryFlock(r) \/ ReleaseThread(r)
      BY <2>0, <2>1, <2>2, <3>2 DEF Contract!ContractNext
    <3>3. CASE Commit(r) \/ Delete(r)
      BY <2>0, <2>3, <2>4, <3>3 DEF Contract!ContractNext
    <3>4. CASE \/ Unlock(r) \/ MakeDirectory(r) \/ Receive(r) \/ Resume(r) \/ CancelTask(r)
               \/ Clean(r) \/ ReadUpload(r) \/ Begin(r) \/ Evaluate(r) \/ CleanUpload(r)
      BY <3>4 DEF Unlock, MakeDirectory, Receive, Resume, CancelTask, Clean, ReadUpload, Begin,
         Evaluate, CleanUpload, outcome
    <3> QED BY <3>1, <3>2, <3>3, <3>4 DEF TaskStep, ThreadStep
  <2>7. CASE \E p \in Processes : Shutdown(p) \/ Crash(p) \/ Restart(p)
    BY <2>5, <2>7 DEF Restart, outcome, Contract!ContractNext
  <2>8. CASE UNCHANGED serviceVars
    BY <2>8 DEF serviceVars, outcome
  <2> QED BY <2>6, <2>7, <2>8 DEF ServiceNext
<1> QED BY <1>1, <1>2, ServiceInvariance, PTL DEF ServiceSpec, AnswersAreTrue, Contract!ContractSpec

=============================================================================
