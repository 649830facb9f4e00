--------------------------- MODULE IngestContract ---------------------------
(***************************************************************************)
(* What the web's import and delete forms promise, whatever happens inside *)
(* the server: a request has its effect once, in one step, and its answer  *)
(* says whether it had it.  A request that gets no answer may have its     *)
(* effect or not, even after it was dropped.                               *)
(***************************************************************************)
CONSTANTS
    Uploads,        \* requests that import; each names the snapshot it stores
    Deletes,        \* requests that delete a snapshot
    TargetOf        \* the snapshot a delete request is about

VARIABLES
    stored,         \* the snapshots in the store
    effective,      \* the requests that had their effect
    answer          \* what each request was told

Requests == Uploads \cup Deletes
Answers == {"none", "busy", "failure", "success", "dropped"}

ContractInit ==
    /\ stored = {} /\ effective = {}
    /\ answer = [r \in Requests |-> "none"]

Pending(r) == answer[r] \in {"none", "dropped"} /\ r \notin effective

Store(r) ==
    /\ r \in Uploads /\ Pending(r)
    /\ stored' = stored \cup {r}
    /\ effective' = effective \cup {r}
    /\ UNCHANGED answer

Remove(r) ==
    /\ r \in Deletes /\ Pending(r)
    /\ TargetOf[r] \in stored
    /\ stored' = stored \ {TargetOf[r]}
    /\ effective' = effective \cup {r}
    /\ UNCHANGED answer

Reply(r) ==
    /\ answer[r] = "none"
    /\ \E a \in IF r \in effective THEN {"success"} ELSE {"busy", "failure"} :
          answer' = [answer EXCEPT ![r] = a]
    /\ UNCHANGED <<stored, effective>>

\* A shutdown or a crash drops any of the requests in progress.
Drop(S) ==
    /\ \A r \in S : answer[r] = "none"
    /\ answer' = [r \in Requests |-> IF r \in S THEN "dropped" ELSE answer[r]]
    /\ UNCHANGED <<stored, effective>>

ContractNext ==
    \/ \E r \in Requests : Store(r) \/ Remove(r) \/ Reply(r)
    \/ \E S \in SUBSET Requests : Drop(S)

ContractSpec == ContractInit /\ [][ContractNext]_<<stored, effective, answer>>

=============================================================================
