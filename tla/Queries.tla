------------------------------ MODULE Queries ------------------------------
(***************************************************************************)
(* The estate-wide queries of src/gpo_lens/queries: conflicts and search,  *)
(* WMI references, delegation, ADMX coverage, the doctor's findings and    *)
(* the summary, and the comparisons of an estate with a baseline, with a   *)
(* golden estate and of two settings dumps.                                *)
(***************************************************************************)
EXTENDS Dependencies

CONSTANTS Parts(_),      \* a registry identity -> <<key, value name>>
          Templates      \* ADMX policies, as [name, scope, key, value]

Effective(s) == ~s.blocked /\ ~s.off

(* conflicts: the keys to which two GPOs, told apart by id, give values of *)
(* which at least two differ.  Links play no part.                         *)
Conflicts(est) ==
    LET entries(k) == UNION {{<<g.id, s.value>> : s \in {x \in SettingsOf(g) : Key(x) = k}}
                                : g \in GposOf(est)}
        keys == UNION {{Key(s) : s \in SettingsOf(g)} : g \in GposOf(est)}
        contested(k) == /\ Cardinality({e[1] : e \in entries(k)}) > 1
                        /\ Cardinality({e[2] : e \in entries(k)}) > 1
    IN  {[key |-> k, entries |-> entries(k)] : k \in {x \in keys : contested(x)}}

BlockedExtensions(est) ==
    UNION {{<<g.id, s.side, s.cse, s.id>> : s \in {x \in SettingsOf(g) : x.blocked}} : g \in GposOf(est)}

(* search and who_sets for a term, a word that is a whole name, identity,  *)
(* value text, trustee or permission here.                                 *)
Matching(g, term) == {s \in SettingsOf(g) : term \in {s.id, ToString(s.value)}}
Search(est, term) ==
    UNION {(IF g.name = term THEN {<<"gpo_name", g.id>>} ELSE {})
           \cup {<<"setting", g.id, Key(s)>> : s \in Matching(g, term)}
           \cup {<<"delegation", g.id, d.who>> : d \in {x \in g.delegation : term \in {x.who, x.perm}}}
           : g \in GposOf(est)}

(* orphaned_wmi_filters and broken_wmi_refs.                               *)
OrphanedWmiFilters(est) == est.wmiFilters \ {g.wmi : g \in GposOf(est)}
BrokenWmiRefs(est) == {<<g.id, g.wmi>> : g \in {x \in GposOf(est) : WmiScope(est, x).broken}}

----------------------------------------------------------------------------
(* Delegation.                                                             *)

Allowed(g) == {d \in g.delegation : d.allowed}
IsReadOnly(perm) == perm \in {"read", "apply"}

(* delegation_rollup: per trustee, by SID when it has one, the GPOs over   *)
(* which it holds more than Read and Apply.                                *)
DelegationRollup(est) ==
    LET more(g) == {d \in Allowed(g) : ~IsReadOnly(d.perm)}
        key(d) == IF d.sid # Nobody THEN d.sid ELSE d.who
        held(k) == {g \in GposOf(est) : \E d \in more(g) : key(d) = k}
        row(d) == [key |-> key(d), gpos |-> {g.name : g \in held(key(d))},
                   permissions |-> UNION {{x.perm : x \in {y \in more(g) : key(y) = key(d)}}
                                             : g \in held(key(d))},
                   unknown |-> IF d.sid = Nobody THEN d.label = "blank"
                               ELSE ResolvePrincipal(est.principals, d.sid).type = "Unresolved",
                   default |-> IF d.sid # Nobody THEN IsDefaultWriterSid(d.sid)
                               ELSE IsDefaultWriter(d.label)]
    IN  {row(d) : d \in UNION {more(g) : g \in GposOf(est)}}

(* delegation_deep_dive: SIDs without a name, and the holders of a         *)
(* permission whose label says "edit" or "write" that are not, by name,    *)
(* default writers.                                                        *)
DelegationDeepDive(est) ==
    LET with(P(_)) == UNION {{<<g.id, d.sid>> : d \in {x \in Allowed(g) : P(x)}} : g \in GposOf(est)}
    IN  [orphaned |-> with(LAMBDA d : d.label = "blank" /\ d.sid # Nobody),
         broad |-> with(LAMBDA d : d.perm \in {"edit", "write"} /\ ~IsDefaultWriter(d.label)),
         denies |-> DenyAces(est), writers |-> ExcessiveWriters(est)]

(* permissions_audit counts the labels with "write", which no grouped      *)
(* permission of GPMC has.                                                 *)
PermissionsAudit(est) ==
    UNION {(IF HasMs16072Read(g) THEN {} ELSE {<<g.id, "ms16-072">>})
           \cup (IF Cardinality({d \in Allowed(g) : d.perm = "write"}) > 3 THEN {<<g.id, "writers">>} ELSE {})
           \cup (IF g.delegation = {} THEN {<<g.id, "no delegation">>} ELSE {})
           : g \in GposOf(est)}

----------------------------------------------------------------------------
(* ADMX coverage.                                                          *)

RegistrySettings(g) == {s \in SettingsOf(g) : s.cse = "registry" /\ ~s.blocked}

(* admx_gaps: registry settings that no loaded template names.  All the    *)
(* identities here are raw registry paths.                                 *)
AdmxGaps(est, admx) ==
    UNION {{<<g.id, s.side, s.id>> : s \in {x \in RegistrySettings(g) : x.id \notin DOMAIN admx}}
              : g \in GposOf(est)}

(* admx_coverage: a policy is referenced where a setting of its side has   *)
(* its key and value name, or only its key when it has no value name.      *)
SidesOf(scope) == CASE scope = "Machine" -> {"Computer"} [] scope = "User" -> {"User"}
                    [] OTHER -> {"Computer", "User"}
AdmxCoverage(est, admx) ==
    LET hit(p, s) == /\ s.side \in SidesOf(p.scope) /\ Parts(s.id)[1] = p.key
                     /\ p.value = None \/ Parts(s.id)[2] = p.value
        by(p) == {g.name : g \in {x \in GposOf(est) : \E s \in RegistrySettings(x) : hit(p, s)}}
    IN  [referenced |-> {<<p.name, by(p)>> : p \in {q \in Templates : by(q) # {}}},
         unreferenced |-> {p.name : p \in {q \in Templates : by(q) = {}}},
         gaps |-> AdmxGaps(est, admx)]

----------------------------------------------------------------------------
(* Comparisons.                                                            *)

(* load_baseline_from_estate and baseline_diff: a key of the baseline is   *)
(* missing, compliant (one value, the expected one) or drifts, with every  *)
(* source; the estate's other keys are extra.                              *)
BaselineKey(s) == <<s.side, s.cse, s.id>>
EffectiveSettings(g) == {s \in SettingsOf(g) : Effective(s)}
LoadBaseline(est) ==
    UNION {{[key |-> BaselineKey(s), value |-> s.value] : s \in EffectiveSettings(g)} : g \in GposOf(est)}
ActualsOf(est, k) ==
    UNION {{<<g.id, s.value>> : s \in {x \in EffectiveSettings(g) : BaselineKey(x) = k}} : g \in GposOf(est)}
BaselineDiff(est, baseline) ==
    LET values(k) == {a[2] : a \in ActualsOf(est, k)}
        status(b) == CASE values(b.key) = {} -> "missing" [] values(b.key) = {b.value} -> "compliant"
                       [] OTHER -> "drift"
        live == {b.key : b \in LoadBaseline(est)}
    IN  {[status |-> status(b), key |-> b.key, expected |-> b.value, actual |-> ActualsOf(est, b.key)]
            : b \in baseline}
        \cup {[status |-> "extra", key |-> k, expected |-> None, actual |-> ActualsOf(est, k)]
                : k \in live \ {b.key : b \in baseline}}

(* golden_diff pairs GPOs by name, the first of each where a name is not   *)
(* unique, and compares the sets of effective values of every key.         *)
NamesIn(est) == {g.name : g \in GposOf(est)}
Named(est, name) == est.gpos[CHOOSE id \in GpoIds(est) : est.gpos[id].name = name]
EffectiveKeys(g) == {BaselineKey(s) : s \in EffectiveSettings(g)}
ValuesAt(g, k) == {s.value : s \in {x \in EffectiveSettings(g) : BaselineKey(x) = k}}
GoldenStatus(live, golden, k) ==
    CASE k \notin EffectiveKeys(live) -> "removed"
      [] k \in EffectiveKeys(live) \ EffectiveKeys(golden) -> "added"
      [] ValuesAt(live, k) = ValuesAt(golden, k) /\ Cardinality(ValuesAt(live, k)) = 1 -> "compliant"
      [] OTHER -> "changed"
GoldenDiff(est, gold) ==
    LET only(a, b, status) == {[status |-> status, name |-> g.name, key |-> g.id] :
                                  g \in {x \in GposOf(a) : x.name \notin NamesIn(b)}}
        compared(name) ==
            LET live == Named(est, name)
                golden == Named(gold, name)
            IN  {[status |-> GoldenStatus(live, golden, k), name |-> name, key |-> k]
                    : k \in EffectiveKeys(live) \cup EffectiveKeys(golden)}
    IN  only(gold, est, "gpo_removed") \cup only(est, gold, "gpo_added")
        \cup UNION {compared(name) : name \in NamesIn(est) \cap NamesIn(gold)}

(* golden_diff_summary: a pair without settings is not counted as matched. *)
GoldenSummary(entries) ==
    LET pairs == {e \in entries : e.status \notin {"gpo_added", "gpo_removed"}}
        count(status) == Cardinality({e \in entries : e.status = status})
    IN  [matched |-> Cardinality({e.name : e \in pairs}),
         compliant |-> count("compliant"), changed |-> count("changed"),
         added |-> count("added"), removed |-> count("removed")]

(* settings_dump, and settings_diff of two dump files: rows are indexed by *)
(* GPO and key, the last row of a key wins.                                *)
SettingsDump(est) ==
    UNION {{[gpo |-> id, n |-> i, key |-> Key(est.gpos[id].settings[i]),
             value |-> est.gpos[id].settings[i].value]
               : i \in DOMAIN est.gpos[id].settings} : id \in GpoIds(est)}
SettingsDiff(rowsA, rowsB) ==
    LET keys(rows) == {<<r.gpo, r.key>> : r \in rows}
        value(rows, k) == (CHOOSE r \in rows : /\ <<r.gpo, r.key>> = k
                             /\ \A q \in rows : <<q.gpo, q.key>> = k => q.n <= r.n).value
        change(k) == CASE k \notin keys(rowsA) -> "added" [] k \notin keys(rowsB) -> "removed"
                       [] OTHER -> "modified"
    IN  {[gpo |-> k[1], key |-> k[2], change |-> change(k)] :
            k \in {x \in keys(rowsA) \cup keys(rowsB) :
                     change(x) = "modified" => value(rowsA, x) # value(rowsB, x)}}

----------------------------------------------------------------------------
(* The doctor and the summary.                                             *)

(* estate_doctor: the findings of every detector, as <<category, severity, *)
(* gpo, of>>; "of" tells apart two of a category and GPO.                  *)
Each(category, severity, S, Gpo(_), Of(_)) == {<<category, severity, Gpo(x), Of(x)>> : x \in S}
PerGpo(category, severity, ids) == Each(category, severity, ids, LAMBDA x : x, LAMBDA x : None)
PerPair(category, severity, S) == Each(category, severity, S, LAMBDA x : x[1], LAMBDA x : x[2])
PerLink(category, severity, S) == Each(category, severity, S, LAMBDA x : x[2], LAMBDA x : x[1])
PerEstate(category, severity, S) == Each(category, severity, S, LAMBDA x : None, LAMBDA x : x)

(* What was not seen: a missing SYSVOL is the only critical gap.           *)
GapSeverity(kind) == IF kind = "missing_sysvol" THEN "critical" ELSE "high"
CollectionFindings(est) ==
    LET noted == {x \in BlockedExtensions(est) : x[3] = "audit"}
    IN  Each("audit_parse_warning", "low", noted, LAMBDA x : x[1], LAMBDA x : x[4])
        \cup UNION {Each("coverage_gap", GapSeverity(x.kind), {x}, LAMBDA y : y.gpo, LAMBDA y : y.kind)
                       : x \in est.gaps}

(* What is wrong with a GPO; its ADMX gaps are one finding.                *)
GpoFindings(est, admx) ==
    PerGpo("cpassword", "critical", CpasswordGpos(est))
    \cup PerGpo("ms16_072", "high", Ms16072Vulnerable(est))
    \cup PerPair("version_skew", "medium", VersionSkew(est))
    \cup PerLink("dangling_link", "medium", DanglingLinks(est))
    \cup PerPair("disabled_but_populated", "low", DisabledButPopulated(est))
    \cup Each("broken_ref", "low", BrokenRefs(est), LAMBDA x : x[1], LAMBDA x : <<x[2], x[3]>>)
    \cup PerGpo("admx_gap", "low", {x[1] : x \in AdmxGaps(est, admx)})
    \cup PerGpo("unlinked", "info", UnlinkedGpos(est)) \cup PerGpo("empty", "info", EmptyGpos(est))

(* Who may write it and what narrows or widens its reach.                  *)
ReachFindings(est) ==
    PerLink("enforced_link", "info", EnforcedLinks(est))
    \cup PerPair("deny_ace", "medium", DenyAces(est))
    \cup PerEstate("excessive_writer", "medium", {x[1] : x \in ExcessiveWriters(est)})
    \cup PerPair("broken_wmi_ref", "medium", BrokenWmiRefs(est))
    \cup PerEstate("orphaned_wmi_filter", "low", OrphanedWmiFilters(est))
    \cup PerGpo("ilt_gpo", "low", IltGpos(est))

EstateDoctor(est, dangers, admx) ==
    CollectionFindings(est) \cup GpoFindings(est, admx) \cup ReachFindings(est)
    \cup Each("danger", None, dangers, LAMBDA x : x[2], LAMBDA x : <<x[1], x[3]>>)

(* estate_summary; without templates every registry path is an ADMX gap.   *)
SumOver(est, Size(_)) == FoldFunction(+, 0, [id \in GpoIds(est) |-> Size(est.gpos[id])])
EstateSummary(est, dangers) ==
    [gpos |-> Cardinality(GpoIds(est)),
     soms |-> Cardinality({i \in DOMAIN est.soms : est.soms[i].kind # "site"}),
     linkedSites |-> Cardinality({sc \in SiteScopes(est) : \E l \in sc.links : l.enabled}),
     gaps |-> Cardinality(est.gaps), wmiFilters |-> Cardinality(est.wmiFilters),
     unlinked |-> Cardinality(UnlinkedGpos(est)), empty |-> Cardinality(EmptyGpos(est)),
     disabledButPopulated |-> Cardinality(DisabledButPopulated(est)),
     conflicts |-> Cardinality(Conflicts(est)), blocked |-> Cardinality(BlockedExtensions(est)),
     skew |-> Cardinality(VersionSkew(est)), ms16072 |-> Cardinality(Ms16072Vulnerable(est)),
     cpassword |-> Cardinality(CpasswordGpos(est)),
     loopback |-> SumOver(est, LAMBDA g : Cardinality({s \in SettingsOf(g) : s.loop # NoLoop})),
     wmiFiltered |-> Cardinality({id \in GpoIds(est) : est.gpos[id].wmi # None}),
     enforced |-> Cardinality(EnforcedLinks(est)), dangling |-> Cardinality(DanglingLinks(est)),
     brokenRefs |-> Cardinality(BrokenRefs(est)), admxGaps |-> Cardinality(AdmxGaps(est, Empty)),
     brokenWmi |-> Cardinality(BrokenWmiRefs(est)), orphanedWmi |-> Cardinality(OrphanedWmiFilters(est)),
     ilt |-> Cardinality(IltGpos(est)), dangers |-> Cardinality(dangers),
     settings |-> SumOver(est, LAMBDA g : Len(g.settings)),
     delegation |-> SumOver(est, LAMBDA g : Cardinality(g.delegation))]
=============================================================================
