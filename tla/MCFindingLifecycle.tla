------------------------- MODULE MCFindingLifecycle -------------------------
(* FindingLifecycle on the fingerprints, GPOs and bounds of the cfg; every   *)
(* fingerprint is about one GPO.                                             *)
EXTENDS FindingLifecycle

CONSTANT gpo

MCGpos == {gpo}
MCGpoOf == [k \in Fingerprints |-> gpo]

=============================================================================
