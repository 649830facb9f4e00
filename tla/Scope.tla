------------------------------- MODULE Scope -------------------------------
(***************************************************************************)
(* Scope of management over a loaded estate, src/gpo_lens/topology.py: the *)
(* chain a container resolves to, the buckets its settings fold into, the  *)
(* conflicts and their roll-up, and the gates (security filter, WMI, ILT,  *)
(* loopback) that the topology views report without evaluating them.       *)
(*                                                                         *)
(* An estate is a record of model.py's Estate: gpos (a function from ids), *)
(* soms (a sequence, in collection order), wmiFilters (known names),       *)
(* principals and groups.  A DN is the sequence of its RDNs, leaf first;   *)
(* names are compared after lower-casing, so case is left out.             *)
(***************************************************************************)
EXTENDS Authz, Selection

None == "none"
Empty == [x \in {} |-> x]
NoSom == [path |-> <<>>, kind |-> None, links |-> <<>>]

GpoIds(est) == DOMAIN est.gpos
SomsOf(est) == {est.soms[i] : i \in DOMAIN est.soms}

(* The suffixes of a DN from the DN itself up, skipping the first n RDNs.  *)
Ancestors(dn, n) == [i \in 1..(Len(dn) - n) |-> SubSeq(dn, i + n, Len(dn))]

(* _find_som: the first container with the path; sites have paths too.     *)
FindSom(est, path) ==
    FirstOr(est.soms, {i \in DOMAIN est.soms : est.soms[i].path = path}, NoSom)

(* _find_parent_som: the nearest strict ancestor that was collected.  The  *)
(* dictionary keeps the last container of a path, a site never.            *)
FindParentSom(est, dn) ==
    LET last == Reverse(est.soms)
        som(path) == FirstOr(last, {i \in DOMAIN last : last[i].kind # "site" /\ last[i].path = path}, NoSom)
        above == Ancestors(dn, 1)
        up == FirstOr(above, {i \in DOMAIN above : som(above[i]) # NoSom}, <<>>)
    IN  IF up = <<>> THEN NoSom ELSE som(up)

(* som_effective_gpos: the links of the container, disabled ones included, *)
(* or those of its nearest collected ancestor.                             *)
SomEffectiveGpos(est, path) ==
    LET exact == FindSom(est, path)
    IN  (IF exact # NoSom THEN exact ELSE FindParentSom(est, path)).links

(* _resolve_som_chain: the enabled links of a container collected under    *)
(* exactly this path; <<>> stands for the function's None.                 *)
SomChain(est, path) ==
    LET links == FindSom(est, path).links
    IN  Kept(links, {i \in DOMAIN links : links[i].enabled})

(* max(entries, key=order): the first entry of the highest order.          *)
HighestOrder(entries) ==
    CHOOSE i \in DOMAIN entries :
        \A j \in DOMAIN entries :
            \/ entries[j].order < entries[i].order
            \/ entries[j].order = entries[i].order /\ i <= j

Key(s) == <<s.cse, s.side, s.id>>

(* _fold_chain_to_buckets: per setting key, one entry per setting of every *)
(* linked GPO of the chain, in chain order.  A link to a GPO that is not   *)
(* in the estate and a setting of a disabled side are passed over.         *)
EntriesOf(est, link) ==
    IF link.gpo \notin GpoIds(est) THEN <<>>
    ELSE LET g == est.gpos[link.gpo]
             live == Kept(g.settings, {i \in DOMAIN g.settings : ~g.settings[i].off})
         IN  [i \in DOMAIN live |->
                [key |-> Key(live[i]), gpo |-> g.id, name |-> g.name, value |-> live[i].value,
                 order |-> link.order, enforced |-> link.enforced]]

ChainEntriesOf(est, path) ==
    LET chain == SomChain(est, path)
    IN  FlattenSeq([i \in DOMAIN chain |-> EntriesOf(est, chain[i])])

Bucket(entries, key) == Kept(entries, {i \in DOMAIN entries : entries[i].key = key})
BucketKeys(entries) == {entries[i].key : i \in DOMAIN entries}

(* settings_at_som: the winner of every bucket.                            *)
SettingsAtSom(est, path) ==
    LET all == ChainEntriesOf(est, path)
        at(key) ==
            LET b == Bucket(all, key)
                w == b[HighestOrder(b)]
            IN  [key |-> key, value |-> w.value, gpo |-> w.gpo, enforced |-> w.enforced,
                 overridden |-> {<<b[i].name, b[i].value>> :
                                    i \in {j \in DOMAIN b : b[j].order < w.order}}]
    IN  {at(key) : key \in BucketKeys(all)}

(* som_conflicts: the buckets where two GPOs, told apart by NAME, give two *)
(* values.  The listed entries are sorted: a multiset, here a set.         *)
SomConflicts(est, path) ==
    LET all == ChainEntriesOf(est, path)
        names(b) == {b[i].name : i \in DOMAIN b}
        values(b) == {b[i].value : i \in DOMAIN b}
        contested == {key \in BucketKeys(all) :
                        LET b == Bucket(all, key)
                        IN  Cardinality(names(b)) > 1 /\ Cardinality(values(b)) > 1}
        conflict(key) ==
            LET b == Bucket(all, key)
                winner == b[HighestOrder(b)].name
            IN  [key |-> key, winner |-> winner,
                 entries |-> {<<b[i].name, b[i].value, b[i].name = winner>> : i \in DOMAIN b}]
    IN  {conflict(key) : key \in contested}

(* precedence_conflicts: every directory container with its conflicts.     *)
LinkedSoms(est) == {s \in SomsOf(est) : s.links # <<>> /\ s.kind # "site"}

PrecedenceConflicts(est) ==
    UNION {{[path |-> s.path, conflict |-> c] : c \in SomConflicts(est, s.path)}
              : s \in LinkedSoms(est)}

\* Mutant: the signature forgets the order, so two chains that resolve the
\* other way round share one representative.
UnorderedSignature(som) ==
    {<<som.links[i].gpo, som.links[i].enforced>> :
        i \in {j \in DOMAIN som.links : som.links[j].enabled}}

(* _enabled_chain_signature: what decides a container's resolved settings. *)
ChainSignature(som) ==
    {<<som.links[i].gpo, som.links[i].order, som.links[i].enforced>> :
        i \in {j \in DOMAIN som.links : som.links[j].enabled}}

(* precedence_conflict_rollup: resolve each distinct signature once, at    *)
(* the first container that has it, and give the conflict all the          *)
(* containers that share it.                                               *)
PrecedenceConflictRollup(est) ==
    LET signatures == {ChainSignature(s) : s \in LinkedSoms(est)} \ {{}}
        sharing(sig) == {i \in DOMAIN est.soms :
                            est.soms[i] \in LinkedSoms(est) /\ ChainSignature(est.soms[i]) = sig}
        found(sig) == SomConflicts(est, est.soms[Min(sharing(sig))].path)
        scopes(sc) == UNION {{est.soms[i].path : i \in sharing(sig)}
                                : sig \in {t \in signatures : sc \in found(t)}}
    IN  {[conflict |-> sc, scopes |-> scopes(sc)] : sc \in UNION {found(sig) : sig \in signatures}}

(* site_scopes: the links of every site, which no chain above includes.    *)
SiteScopes(est) ==
    {[site |-> s.path, links |-> {s.links[i] : i \in DOMAIN s.links}] :
        s \in {t \in SomsOf(est) : t.kind = "site"}}
HasSiteLinks(est) == \E sc \in SiteScopes(est) : \E l \in sc.links : l.enabled

----------------------------------------------------------------------------
(* Gates, reported and not evaluated.                                      *)

(* _extract_loopback_mode on the parsed policy element: a Disabled state   *)
(* or the number 0 is no loopback; then the number, the drop-down's name,  *)
(* the display text; a text that says neither is "unknown".  NoLoop is any *)
(* other setting's.                                                        *)
NoLoop == [state |-> None, number |-> None, choice |-> None, text |-> None]
LoopbackModeOf(l) ==
    IF l.state = "disabled" \/ l.number = "0" THEN None
    ELSE IF l.number # None THEN l.number
    ELSE IF l.choice # None THEN l.choice
    ELSE l.text

(* loopback_awareness: a GPO whose loopback settings disagree is "mixed".  *)
LoopbackModes(g) == {LoopbackModeOf(g.settings[i].loop) : i \in DOMAIN g.settings} \ {None}
LoopbackAwareness(est) ==
    [id \in {i \in GpoIds(est) : LoopbackModes(est.gpos[i]) # {}} |->
        LET modes == LoopbackModes(est.gpos[id])
        IN  IF Cardinality(modes) > 1 THEN "mixed" ELSE CHOOSE m \in modes : TRUE]

(* scan_ilt, as its callers use it: the GPOs with a targeted GPP item.     *)
IltGpos(est) == {id \in GpoIds(est) : est.gpos[id].ilt}

(* _sddl_read_or_apply_grants and is_security_filtered: no broad trustee   *)
(* keeps a Read or Apply; without any data the answer is "not filtered".   *)
ReadGrants(delegation) ==
    {<<BroadTrusteeKey(d.label, d.sid, ScopeBroad), d.allowed>> :
        d \in {e \in delegation : PermissionImpliesRead(e.perm)}}
SddlReadOrApplyGrants(dacl) ==
    {<<BroadTrusteeKey(None, ace.sid, ScopeBroad), IsAllow(ace)>> :
        ace \in {a \in dacl : /\ IsAllow(a) \/ IsDeny(a)
                             /\ ParseSddlRights(a.rights) \cap ReadOrApplyRights # {}}}

IsSecurityFiltered(g) ==
    LET dacl == ParseSddl(g.sddl).dacl
    IN  IF g.delegation # {} THEN ~AppliesBroadly(ReadGrants(g.delegation))
        ELSE g.sddl # NoSddl /\ dacl # {} /\ ~AppliesBroadly(SddlReadOrApplyGrants(dacl))

(* security_filtering_detail: who holds Apply, and whether the two broad   *)
(* groups hold Read (the MS16-072 requirement).  A deny is not subtracted. *)
SecurityFilteringDetail(est, g) ==
    LET allowed == {d \in g.delegation : d.allowed}
        fallback == g.delegation = {} /\ g.sddl # NoSddl
        readAces == IF fallback THEN SddlApplyAces(g.sddl, ReadOrApplyRights) ELSE {}
        applyAces == IF fallback THEN SddlApplyAces(g.sddl, ApplyRights) ELSE {}
        hasRead(k) ==
            \/ \E d \in allowed : /\ PermissionImpliesRead(d.perm)
                                 /\ BroadTrusteeKey(d.label, d.sid, ScopeBroad) = k
            \/ \E ace \in readAces : BroadTrusteeKey(None, ace.sid, ScopeBroad) = k
    IN  [filtered |-> IsSecurityFiltered(g),
         apply |-> {d.who : d \in {e \in allowed : PermissionImpliesApply(e.perm)}}
                   \cup {ResolvePrincipal(est.principals, ace.sid).name : ace \in applyAces},
         auRead |-> hasRead("AU"), dcRead |-> hasRead("DC")]

(* _wmi_filter_scope: a filter name the export does not define is broken.  *)
WmiScope(est, g) == [name |-> g.wmi, broken |-> g.wmi # None /\ g.wmi \notin est.wmiFilters]

(* scope_caveats: why the chain's buckets are not the last word.           *)
ScopeCaveats(est, path) ==
    LET chain == SomChain(est, path)
        ids == {chain[i].gpo : i \in DOMAIN chain} \cap GpoIds(est)
        modes == LoopbackAwareness(est)
        of(id) == {<<id, c>> : c \in
            (IF IsSecurityFiltered(est.gpos[id]) THEN {"filtered"} ELSE {})
            \cup (IF est.gpos[id].wmi # None THEN {"wmi"} ELSE {})
            \cup (IF id \in IltGpos(est) THEN {"ilt"} ELSE {})
            \cup (IF id \in DOMAIN modes THEN {"loopback"} ELSE {})}
    IN  IF chain = <<>>
        THEN IF FindSom(est, path).links # <<>> THEN {<<None, "all links disabled">>} ELSE {}
        ELSE (UNION {of(id) : id \in ids})
             \cup (IF HasSiteLinks(est) THEN {<<None, "site links">>} ELSE {})

(* effective_scope: one GPO's reach, with the caveats of that view.        *)
EffectiveScope(est, id) ==
    LET g == est.gpos[id]
        sec == SecurityFilteringDetail(est, g)
        modes == LoopbackAwareness(est)
    IN  [security |-> sec, wmi |-> WmiScope(est, g),
         loopback |-> IF id \in DOMAIN modes THEN modes[id] ELSE None,
         caveats |->
            (IF g.delegation = {} THEN {"no delegation"}
               ELSE IF sec.filtered THEN {"filtered"}
               ELSE IF sec.auRead \/ sec.dcRead THEN {} ELSE {"ms16-072"})
            \cup (IF g.wmi # None THEN {"wmi"} ELSE {})
            \cup (IF id \in DOMAIN modes THEN {"loopback"} ELSE {})
            \cup (IF id \in IltGpos(est) THEN {"ilt"} ELSE {})
            \cup (IF g.links = {} THEN {"no links"} ELSE {})]

(* gate_summaries: the chain rows of a container with their gates; a link  *)
(* to a GPO outside the estate has none.                                   *)
GateSummaries(est, path) ==
    LET links == SomEffectiveGpos(est, path)
        gates(l) ==
            IF l.gpo \notin GpoIds(est) THEN {}
            ELSE LET g == est.gpos[l.gpo]
                 IN  (IF IsSecurityFiltered(g) THEN {"filtered"} ELSE {})
                     \cup (IF g.wmi # None THEN {"wmi"} ELSE {})
                     \cup (IF l.gpo \in IltGpos(est) THEN {"ilt"} ELSE {})
                     \cup (IF l.gpo \in DOMAIN LoopbackAwareness(est) THEN {"loopback"} ELSE {})
                     \cup (IF g.computerEnabled THEN {} ELSE {"computer disabled"})
                     \cup (IF g.userEnabled THEN {} ELSE {"user disabled"})
    IN  [i \in DOMAIN links |-> [gpo |-> links[i].gpo, enabled |-> links[i].enabled,
                                gates |-> gates(links[i])]]
=============================================================================
