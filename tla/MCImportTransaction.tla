------------------------ MODULE MCImportTransaction ------------------------
(* ImportTransaction on two fingerprints, one about a GPO and one not.       *)
EXTENDS ImportTransaction

CONSTANTS gpo, onGpo, general

MCFingerprints == {onGpo, general}
MCGpos == {gpo}
MCGpoOf == [k \in MCFingerprints |-> IF k = onGpo THEN gpo ELSE NoGpo]

=============================================================================
