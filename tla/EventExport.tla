---------------------------- MODULE EventExport ----------------------------
(***************************************************************************)
(* gpo-lens events-export: the events since a time, oldest id first and at *)
(* most ExportLimit of them, appended to a file of one line per event and  *)
(* posted as one batch to a collector.  The disk may fill up in the middle *)
(* of the file; a post may be lost, or its answer.                         *)
(***************************************************************************)
EXTENDS Integers, Sequences, FiniteSets

CONSTANTS
    Events,         \* the event store: a sequence of times, by id
    Sinces,         \* values of --since
    ExportLimit,    \* the limit cmd_events_export passes
    MaxRetries,     \* max_retries of _post
    MaxExports      \* bound: exports

ASSUME ExportAssumption ==
    /\ Events \in Seq(Int)
    /\ ExportLimit \in Nat /\ MaxRetries \in Nat \ {0} /\ MaxExports \in Nat

VARIABLES
    export,         \* the export under way, or the one that ended last
    file,           \* the lines of the NDJSON file
    torn,           \* the file ends inside a line
    collector,      \* the batches the collector has taken
    exports         \* bound

exportVars == <<export, file, torn, collector, exports>>

\* query_events: timestamp >= since, ORDER BY id LIMIT; there is one such result.
Queried(since) ==
    LET ids == {n \in DOMAIN Events : Events[n] >= since}
        rows == IF Cardinality(ids) < ExportLimit THEN Cardinality(ids) ELSE ExportLimit
    IN {s \in [1..rows -> ids] :
           /\ \A j, k \in 1..rows : j < k => s[j] < s[k]
           /\ \A k \in 1..rows, n \in ids : n < s[k] => \E j \in 1..k : s[j] = n}

(* A line of the file: the event it holds, or Garbage when a piece of      *)
(* another line stands before it.                                          *)
Garbage == 0

LinesOf(batch) ==
    IF torn /\ batch # <<>> THEN <<Garbage>> \o Tail(batch) ELSE batch

\* How a post ends: an answer of the collector, an answer that cannot be read,
\* or a transport error before or after the collector took the batch.
Outcomes == {"200", "HTTP error", "other code", "garbled", "lost", "answer lost"}
Taken(outcome) == outcome \in {"200", "garbled", "answer lost"}

\* Mutant: the loop over the attempts falls through to success.
LastAttemptCounts(outcome, attempt) ==
    IF outcome \in {"lost", "answer lost"} /\ attempt < MaxRetries THEN "again"
    ELSE IF outcome \in {"200", "lost", "answer lost"} THEN "sent" ELSE "failed"

\* _post: only a transport error is tried again.
Verdict(outcome, attempt) ==
    IF outcome \in {"lost", "answer lost"} /\ attempt < MaxRetries THEN "again"
    ELSE IF outcome = "200" THEN "sent" ELSE "failed"

----------------------------------------------------------------------------
StartExport(batch, toFile, toHec) ==
    /\ export.step = "done" /\ exports < MaxExports
    /\ exports' = exports + 1
    /\ export' = [step |-> IF toFile THEN "file" ELSE "hec", batch |-> batch,
                  toFile |-> toFile, toHec |-> toHec, ndjson |-> FALSE, hec |-> FALSE,
                  attempt |-> 1, written |-> Len(file), posted |-> Len(collector), code |-> 0,
                  wasTorn |-> torn]
    /\ UNCHANGED <<file, torn, collector>>

WriteFile ==
    /\ export.step = "file"
    /\ file' = file \o LinesOf(export.batch)
    /\ torn' = (torn /\ export.batch = <<>>)
    /\ export' = [export EXCEPT !.step = "hec", !.ndjson = TRUE]
    /\ UNCHANGED <<collector, exports>>

\* The file cannot be opened, or only its first n lines are written, with or
\* without a piece of the next; closing it may yet write the rest.
WriteFails(n, piece) ==
    /\ export.step = "file" /\ n <= Len(export.batch) /\ (piece => n < Len(export.batch))
    /\ file' = file \o SubSeq(LinesOf(export.batch), 1, n)
    /\ torn' = (piece \/ (torn /\ n = 0))
    /\ export' = [export EXCEPT !.step = "hec"]
    /\ UNCHANGED <<collector, exports>>

\* No collector is configured, or there is nothing to send it.
SkipPost ==
    /\ export.step = "hec" /\ (~ export.toHec \/ export.batch = <<>>)
    /\ export' = [export EXCEPT !.step = "exit", !.hec = export.toHec]
    /\ UNCHANGED <<file, torn, collector, exports>>

Post(outcome) ==
    LET verdict == Verdict(outcome, export.attempt)
    IN /\ export.step = "hec" /\ export.toHec /\ export.batch # <<>>
       /\ collector' = IF Taken(outcome) THEN Append(collector, export.batch) ELSE collector
       /\ export' = IF verdict = "again" THEN [export EXCEPT !.attempt = @ + 1]
                    ELSE [export EXCEPT !.step = "exit", !.hec = (verdict = "sent")]
       /\ UNCHANGED <<file, torn, exports>>

\* The exit code knows the file only.
Exit ==
    /\ export.step = "exit"
    /\ export' = [export EXCEPT !.step = "done",
                    !.code = IF export.toFile /\ ~ export.ndjson THEN 1 ELSE 0]
    /\ UNCHANGED <<file, torn, collector, exports>>

ExportInit ==
    /\ export = [step |-> "done", batch |-> <<>>, toFile |-> FALSE, toHec |-> FALSE,
                 ndjson |-> FALSE, hec |-> FALSE, attempt |-> 1, written |-> 0,
                 posted |-> 0, code |-> 0, wasTorn |-> FALSE]
    /\ file = <<>> /\ torn = FALSE /\ collector = <<>> /\ exports = 0

ExportNext ==
    \/ \E since \in Sinces, toFile, toHec \in BOOLEAN :
           \E batch \in Queried(since) : StartExport(batch, toFile, toHec)
    \/ WriteFile
    \/ \E n \in 0..ExportLimit, piece \in BOOLEAN : WriteFails(n, piece)
    \/ SkipPost
    \/ \E outcome \in Outcomes : Post(outcome)
    \/ Exit

ExportSpec == ExportInit /\ [][ExportNext]_exportVars

----------------------------------------------------------------------------
ExportTypeOK ==
    /\ export.step \in {"done", "file", "hec", "exit"}
    /\ export.attempt \in 1..MaxRetries
    /\ exports \in 0..MaxExports

(* SinkTellsTruth: what an export reports as sent has arrived, whole and   *)
(* in the order of the ids: in the file one line each, the first of them   *)
(* unreadable only behind the torn line of an export that failed; at the   *)
(* collector at least once and at most once for each attempt.  An exit     *)
(* code of 0 vouches for the file that was asked for.                      *)
SinkTellsTruth ==
    LET lines == SubSeq(file, export.written + 1, Len(file))
        copies == SubSeq(collector, export.posted + 1, Len(collector))
    IN /\ export.step = "done" /\ export.ndjson =>
              /\ Len(lines) = Len(export.batch)
              /\ \A n \in DOMAIN lines : lines[n] = export.batch[n] \/ (n = 1 /\ export.wasTorn)
       /\ export.step = "done" /\ export.hec /\ export.batch # <<>> => copies # <<>>
       /\ Len(copies) <= MaxRetries
       /\ \A n \in DOMAIN copies : copies[n] = export.batch
       /\ export.step = "done" /\ export.code = 0 /\ export.toFile => export.ndjson
=============================================================================
