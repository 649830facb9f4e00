-------------------------- MODULE MCFindingTriage --------------------------
(* FindingTriage on findings about no GPO: an export either has coverage     *)
(* gaps, and then resolves none of them, or has none.                        *)
EXTENDS FindingTriage

MCGpoOf == [k \in Fingerprints |-> NoGpo]

=============================================================================
