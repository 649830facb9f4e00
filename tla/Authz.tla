------------------------------- MODULE Authz -------------------------------
(***************************************************************************)
(* The authorisation primitives of src/gpo_lens/authz.py: trustee tokens   *)
(* and the three spellings an SDDL string or a report gives them, the      *)
(* well-known tables, rights, ACE parsing, and the two notions of "broad". *)
(*                                                                         *)
(* A trustee is a token [form, who]: "who" is the account meant and "form" *)
(* how it is written, a raw SID, a two-letter SDDL alias or a bare name.   *)
(* Two tokens of one account are different strings to the program until    *)
(* canonical_sddl_sid brings them together.                                *)
(***************************************************************************)
EXTENDS FiniteSets, Sequences, Naturals

Nobody == [form |-> "none", who |-> "none"]
Sid(w) == [form |-> "sid", who |-> w]
Alias(w) == [form |-> "alias", who |-> w]

(* Accounts with one fixed SID in every domain, and their SDDL aliases.    *)
Absolute == {"AU", "WD", "AN", "SY", "BA", "BU", "CO", "CG", "OW"}

(* Accounts whose SID is the domain SID and a fixed RID.                   *)
DomainRelative == {"DA", "DU", "DC", "DD", "EA"}

(* Aliases the name table knows and the SID table does not (AO, SO, PO).   *)
NamedOnly == {"AO"}

(* A SID of the form S-1-5-21-...: every account that is not absolute.     *)
IsDomainSid(t) == t.form = "sid" /\ t.who \notin Absolute

(* resolve_well_known: the account an alias or a SID stands for by the     *)
(* tables alone; a name or an ordinary account is not in them.             *)
WellKnown(t) ==
    \/ t.form \in {"sid", "alias"} /\ t.who \in Absolute \cup DomainRelative
    \/ t.form = "alias" /\ t.who \in NamedOnly

\* Mutant: only the aliases of fixed SIDs are rewritten.
AbsoluteOnlySddlSid(t, domainKnown) ==
    IF t.form = "alias" /\ t.who \in Absolute THEN Sid(t.who) ELSE t

(* canonical_sddl_sid: an alias becomes the SID it abbreviates; a domain-  *)
(* relative one only when the domain's SID is known.                       *)
CanonicalSddlSid(t, domainKnown) ==
    IF /\ t.form = "alias"
       /\ \/ t.who \in Absolute
          \/ t.who \in DomainRelative /\ domainKnown
    THEN Sid(t.who)
    ELSE t

(* resolve_principal: the tables, then the collected principals, then the  *)
(* raw SID. "principals" maps accounts to [type, name].                    *)
ResolvePrincipal(principals, t) ==
    CASE WellKnown(t) -> [name |-> t.who, type |-> "WellKnown", resolved |-> TRUE]
      [] ~WellKnown(t) /\ t.form = "sid" /\ t.who \in DOMAIN principals ->
            [name |-> principals[t.who].name, type |-> principals[t.who].type,
             resolved |-> TRUE]
      [] OTHER -> [name |-> t.who, type |-> "Unresolved", resolved |-> FALSE]

ScopeBroad == {"AU", "DC", "WD"}
Ms16072Broad == {"AU", "DC"}

(* broad_trustee_key: one key for the name, alias and SID forms of a broad *)
(* trustee. "label" is the account named by the display text when the text *)
(* is the table's spelling, or "none" (a text such as CORP\Domain          *)
(* Computers, or no text).                                                 *)
BroadTrusteeKey(label, t, broad) ==
    LET named == {label} \cup (IF WellKnown(t) THEN {t.who} ELSE {})
    IN  IF named \cap broad = {} THEN "none" ELSE CHOOSE k \in named \cap broad : TRUE

(* applies_broadly: some broad trustee is allowed and not itself denied.   *)
(* A grant is <<key, allowed>>.                                            *)
AppliesBroadly(grants) ==
    \E k \in ScopeBroad \cup {"AN"} : <<k, TRUE>> \in grants /\ <<k, FALSE>> \notin grants

ReadOrApplyRights == {"GA", "GR", "CR", "RP"}
ApplyRights == {"GA", "CR"}
WriteRights == {"GA", "GW", "WD", "WO", "SD", "DT", "WP", "DC", "CC"}

(* The codes of a mnemonic string, and those a hex mask can decode to.     *)
HexRights == {"GR", "GW", "GX", "GA", "WO", "WD", "RC", "SD", "CR", "LO", "DT",
              "WP", "RP", "SW", "LC", "DC", "CC"}
ValidRights == HexRights \cup {"FA", "FR", "FW", "FX", "KA", "KR", "KW", "KX"}

(* parse_sddl_rights and has_write_right on [hex, codes].                  *)
ParseSddlRights(r) == r.codes \cap (IF r.hex THEN HexRights ELSE ValidRights)
HasWriteRight(r) == ParseSddlRights(r) \cap WriteRights # {}

(* ACE_TYPE_MAP: conditional (XA, XD) and object ACEs count as their plain *)
(* kinds; an unknown type drops the ACE.                                   *)
AllowTypes == {"A", "OA", "XA"}
DenyTypes == {"D", "OD", "XD"}
KnownTypes == AllowTypes \cup DenyTypes \cup {"AU", "OU", "AL"}
IsAllow(ace) == ace.type \in AllowTypes
IsDeny(ace) == ace.type \in DenyTypes

(* parse_sddl: an ACE has six fields or more (a conditional expression is  *)
(* ignored) and a known type; a string over the size cap reads as empty.   *)
(* The two lists are sets: no reader depends on the order of ACEs.         *)
ParseSddl(sddl) ==
    LET aces(list) == {ace \in list : ace.fields >= 6 /\ ace.type \in KnownTypes}
    IN  IF sddl.oversized
        THEN [owner |-> Nobody, dacl |-> {}, sacl |-> {}]
        ELSE [owner |-> sddl.owner, dacl |-> aces(sddl.dacl), sacl |-> aces(sddl.sacl)]

NoSddl == [oversized |-> FALSE, absent |-> TRUE, owner |-> Nobody, dacl |-> {}, sacl |-> {}]

(* iter_sddl_apply_aces: the allow ACEs with a right of the filter.        *)
SddlApplyAces(sddl, filter) ==
    {ace \in ParseSddl(sddl).dacl : IsAllow(ace) /\ ParseSddlRights(ace.rights) \cap filter # {}}

DefaultWriters == {"BA", "DA", "EA", "SY", "CO", "CG", "OW"}

(* is_default_writer by display name, is_default_writer_sid by SID.        *)
IsDefaultWriter(label) == label \in DefaultWriters
IsDefaultWriterSid(t) == WellKnown(t) /\ t.who \in DefaultWriters

(* GPMC's grouped permissions: "edit" stands for the Edit... family, which *)
(* confers Read and not Apply.                                             *)
PermissionImpliesRead(p) == p \in {"read", "apply", "full", "edit"}
PermissionImpliesApply(p) == p \in {"apply", "full"}
=============================================================================
