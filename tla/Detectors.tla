----------------------------- MODULE Detectors -----------------------------
(***************************************************************************)
(* The detectors over a loaded estate: src/gpo_lens/danger.py (who can     *)
(* write a GPO, over-broad Apply, setting rules, audit override) and the   *)
(* hygiene and ACL checks of src/gpo_lens/detection.  A finding is a tuple *)
(* <<check, gpo, detail>>; severity, wording and references are left out.  *)
(***************************************************************************)
EXTENDS Scope

CONSTANTS WriterThreshold     \* excessive_writers' threshold, 5 in the code

ASSUME ThresholdAssumption == WriterThreshold \in Nat \ {0}

GposOf(est) == {est.gpos[id] : id \in GpoIds(est)}
SettingsOf(g) == {g.settings[i] : i \in DOMAIN g.settings}

(* gpo_writable_by_nonadmin: an owner, or an allow ACE with a write right, *)
(* of someone who is not a default writer.                                 *)
GpoWritableByNonadmin(est) ==
    UNION {LET acl == ParseSddl(g.sddl)
               writers == {a \in acl.dacl : /\ IsAllow(a) /\ HasWriteRight(a.rights)
                                            /\ a.sid # Nobody /\ ~IsDefaultWriterSid(a.sid)}
           IN  (IF acl.owner # Nobody /\ ~IsDefaultWriterSid(acl.owner)
                THEN {<<"gpo_owner_nonadmin", g.id, acl.owner>>} ELSE {})
               \cup {<<"gpo_writable_nonadmin", g.id, a.sid>> : a \in writers}
           : g \in GposOf(est)}

(* local_admin_push: a preference that adds members to an administrators   *)
(* group.                                                                  *)
LocalAdminPush(est) ==
    {<<"local_admin_push", g.id, None>> :
        g \in {x \in GposOf(est) : \E m \in x.localGroups : m.admin /\ m.added # {}}}

(* overbroad_apply_group_policy: broad trustees (and Anonymous) that keep  *)
(* Apply; reported only for Everyone and Anonymous known by SID.           *)
BroadApply == {"WD", "AN"}
ApplyKey(label, t) ==
    LET key == BroadTrusteeKey(label, t, ScopeBroad)
    IN  IF key # "none" THEN key
        ELSE IF t.form \in {"sid", "alias"} /\ t.who \in BroadApply
             THEN CanonicalSddlSid(t, FALSE).who ELSE "none"
Overbroad(g) ==
    LET entries == {d \in g.delegation : PermissionImpliesApply(d.perm)}
        aces == {a \in ParseSddl(g.sddl).dacl :
                    (IsAllow(a) \/ IsDeny(a)) /\ ParseSddlRights(a.rights) \cap ApplyRights # {}}
        named(t) == t.form \in {"sid", "alias"} /\ t.who \in BroadApply
    IN  IF g.delegation # {}
        THEN /\ AppliesBroadly({<<ApplyKey(d.label, d.sid), d.allowed>> : d \in entries})
             /\ \E d \in entries : d.allowed /\ named(d.sid)
        ELSE /\ AppliesBroadly({<<ApplyKey(None, a.sid), IsAllow(a)>> : a \in aces})
             /\ \E a \in aces : IsAllow(a) /\ named(a.sid)
OverbroadApplyGroupPolicy(est) ==
    {<<"overbroad_apply_gp", g.id, None>> : g \in {x \in GposOf(est) : Overbroad(x)}}

----------------------------------------------------------------------------
(* Setting rules.                                                          *)

(* _load_rules_file: an unreadable file has no rules; an entry with an     *)
(* unknown predicate or a missing field is skipped.                        *)
Predicates == {"equals", "in", "min", "max", "present", "absent"}
LoadRulesFile(file) ==
    IF ~file.readable THEN {}
    ELSE {r \in file.entries : r.complete /\ r.predicate \in Predicates}

(* load_danger_rules: the shipped file must yield rules; those of the      *)
(* override directory replace shipped rules of the same id, a later file   *)
(* an earlier one.  "overrides" is the sorted sequence of its files.       *)
LoadFails == {"no shipped rules"}
LoadDangerRules(shipped, overrides) ==
    LET base == LoadRulesFile(shipped)
        merge(rules, file) ==
            LET new == LoadRulesFile(file)
            IN  {r \in rules : ~\E n \in new : n.id = r.id} \cup new
    IN  IF base = {} THEN LoadFails ELSE FoldLeft(merge, base, overrides)

(* _side_matches, _identity_matches (the raw identity, or the policy name  *)
(* the ADMX templates give it) and _predicate_matches.  A value is a       *)
(* number; -1 stands for a text, which neither bound accepts.              *)
SideMatches(rule, s) ==
    rule.applies = "Both" \/ s.side = (IF rule.applies = "Machine" THEN "Computer" ELSE "User")
IdentityMatches(rule, s, admx) ==
    s.id = rule.identity \/ (s.id \in DOMAIN admx /\ admx[s.id] = rule.identity)
PredicateMatches(rule, v) ==
    CASE rule.predicate = "equals" -> v = rule.value
      [] rule.predicate = "in" -> v \in rule.values
      [] rule.predicate = "present" -> TRUE
      [] rule.predicate = "min" -> v \in Nat /\ v >= rule.value
      [] rule.predicate = "max" -> v \in Nat /\ v <= rule.value
      [] OTHER -> FALSE

(* evaluate_danger_rules: live registry settings only; an absent rule is   *)
(* estate-wide and names no GPO.                                           *)
Evaluated(g) == {s \in SettingsOf(g) : ~s.blocked /\ ~s.off /\ s.cse = "registry"}
Concerns(rule, s, admx) == SideMatches(rule, s) /\ IdentityMatches(rule, s, admx)
EvaluateDangerRules(est, rules, admx) ==
    LET present == {r \in rules : r.predicate # "absent"}
        hits(r) == UNION {{<<r.id, g.id, s.id>> : s \in {x \in Evaluated(g) :
                            Concerns(r, x, admx) /\ PredicateMatches(r, x.value)}} : g \in GposOf(est)}
        missing == {r \in rules \ present :
                        ~\E g \in GposOf(est) : \E s \in Evaluated(g) : Concerns(r, s, admx)}
    IN  (UNION {hits(r) : r \in present}) \cup {<<r.id, None, r.identity>> : r \in missing}

(* audit_subcategory_override: system audit subcategories in a GPO whose   *)
(* own force option is not set, or is set both ways.                       *)
AuditSubcategoryOverride(est) ==
    LET live(g) == {s \in SettingsOf(g) : s.side = "Computer" /\ ~s.off /\ ~s.blocked}
        audit(g) == {s \in live(g) : s.cse = "audit"}
        force(g) == {s.value : s \in {x \in live(g) : x.cse \in {"security", "registry"}
                                                   /\ x.id = "force" /\ x.action # "D"}}
    IN  {<<"audit_subcategory_override", g.id, None>> :
            g \in {x \in GposOf(est) : audit(x) # {} /\ force(x) # {1}}}

(* danger_findings.                                                        *)
DangerFindings(est, rules, admx) ==
    GpoWritableByNonadmin(est) \cup LocalAdminPush(est) \cup OverbroadApplyGroupPolicy(est)
    \cup EvaluateDangerRules(est, rules, admx) \cup AuditSubcategoryOverride(est)

----------------------------------------------------------------------------
(* Hygiene and ACL detectors.                                              *)

UnlinkedGpos(est) == {g.id : g \in {x \in GposOf(est) : x.links = {}}}

(* empty_gpos: a blocked placeholder is not a setting.                     *)
EmptyGpos(est) == {g.id : g \in {x \in GposOf(est) : \A s \in SettingsOf(x) : s.blocked}}

SideEnabled(g, side) == IF side = "Computer" THEN g.computerEnabled ELSE g.userEnabled
DisabledButPopulated(est) ==
    UNION {{<<g.id, side>> : side \in {z \in {"Computer", "User"} :
                ~SideEnabled(g, z) /\ \E s \in SettingsOf(g) : s.side = z /\ s.off}} : g \in GposOf(est)}

(* version_skew: only where both version numbers are known.                *)
VersionSkew(est) ==
    UNION {{<<g.id, side>> : side \in {z \in {"Computer", "User"} :
                LET v == g.versions[z]
                IN  v.ds # None /\ v.sysvol # None /\ v.ds # v.sysvol}} : g \in GposOf(est)}

(* _has_ms16_072_read: an allow entry is enough, a deny does not cancel it *)
(* and SDDL is not read.                                                   *)
HasMs16072Read(g) ==
    \E d \in g.delegation : /\ d.allowed /\ PermissionImpliesRead(d.perm)
                            /\ BroadTrusteeKey(d.label, d.sid, Ms16072Broad) # "none"
Ms16072Vulnerable(est) == {g.id : g \in {x \in GposOf(est) : ~HasMs16072Read(x)}}

(* dangling_links and enforced_links, with the container of each link.     *)
AllLinks(est) ==
    UNION {{<<s.path, s.links[i]>> : i \in DOMAIN s.links} : s \in SomsOf(est)}
DanglingLinks(est) == {<<x[1], x[2].gpo>> : x \in {y \in AllLinks(est) : y[2].gpo \notin GpoIds(est)}}
EnforcedLinks(est) == {<<x[1], x[2].gpo>> : x \in {y \in AllLinks(est) : y[2].enforced}}

CpasswordGpos(est) == {g.id : g \in {x \in GposOf(est) : x.cpassword}}

(* deny_aces, of both lists, by canonical trustee (no domain SID here).    *)
DenyAces(est) ==
    UNION {LET acl == ParseSddl(g.sddl)
           IN  {<<g.id, CanonicalSddlSid(a.sid, FALSE), "dacl">> : a \in {x \in acl.dacl : IsDeny(x)}}
               \cup {<<g.id, CanonicalSddlSid(a.sid, FALSE), "sacl">> : a \in {x \in acl.sacl : IsDeny(x)}}
           : g \in GposOf(est)}

(* excessive_writers: a trustee that writes WriterThreshold GPOs or more.  *)
WritersOf(g) ==
    {CanonicalSddlSid(a.sid, FALSE) :
        a \in {x \in ParseSddl(g.sddl).dacl : IsAllow(x) /\ HasWriteRight(x.rights)}} \ {Nobody}
ExcessiveWriters(est) ==
    LET written(t) == {g.id : g \in {x \in GposOf(est) : t \in WritersOf(x)}}
    IN  {<<t, Cardinality(written(t))>> :
            t \in {x \in UNION {WritersOf(g) : g \in GposOf(est)} :
                      ~IsDefaultWriterSid(x) /\ Cardinality(written(x)) >= WriterThreshold}}
=============================================================================
