-------------------------- MODULE MCIngestService --------------------------
(* Two processes: an upload and a deletion meet at one, the other's upload   *)
(* meets them at the file.                                                   *)
EXTENDS IngestService

CONSTANTS p1, p2, upload, other, delete

MCProcesses == {p1, p2}
MCUploads == {upload, other}
MCDeletes == {delete}
MCProcessOf == [r \in MCUploads \cup MCDeletes |-> IF r = other THEN p2 ELSE p1]
MCTargetOf == [r \in MCDeletes |-> other]

=============================================================================
