----------------------------- MODULE Resultant -----------------------------
(***************************************************************************)
(* The resultant policy of one principal, src/gpo_lens/merge.py: the       *)
(* principal's token, the security and WMI gates of each GPO of its chain, *)
(* the bucket merge with its modes and GPP actions, loopback, and the      *)
(* dangers that sit in what was left out.                                  *)
(***************************************************************************)
EXTENDS Scope

PrincipalType(est, w) == ResolvePrincipal(est.principals, Sid(w)).type

\* Mutant: groups are taken from the collected lists without following their
\* own memberships.
OneLevelGroups(est, from) ==
    from \cup {g \in DOMAIN est.groups : est.groups[g] \cap from # {}}

(* The breadth-first search of build_token: add the groups of what is in,  *)
(* until a round adds nothing; one round per group is enough.              *)
GroupsOf(est, from) ==
    LET rounds[n \in 0..Cardinality(DOMAIN est.groups)] ==
            IF n = 0 THEN from
            ELSE rounds[n - 1] \cup {g \in DOMAIN est.groups :
                                        est.groups[g] \cap rounds[n - 1] # {}}
    IN  rounds[Cardinality(DOMAIN est.groups)]

(* build_token: the principal, the two groups of every token, the primary  *)
(* group of its kind, and every group it belongs to, however indirectly.   *)
BaseToken(est, w) ==
    {w, "WD"} \cup (IF w = "AN" THEN {} ELSE {"AU"})
              \cup (IF w \in Absolute THEN {}
                    ELSE IF PrincipalType(est, w) = "Computer" THEN {"DC"} ELSE {"DU"})
BuildToken(est, w) == GroupsOf(est, BaseToken(est, w))

(* The SIDs of a token that nothing in the export describes.               *)
TokenCaveats(est, w) ==
    {x \in BuildToken(est, w) : /\ IsDomainSid(Sid(x)) /\ ~WellKnown(Sid(x)) /\ x # w
                                /\ x \notin DOMAIN est.groups /\ x \notin DOMAIN est.principals}

(* _estate_domain_sid, and the principal's own SID as a second source.     *)
EstateDomainKnown(est) ==
    \E w \in DOMAIN est.principals \cup DOMAIN est.groups : IsDomainSid(Sid(w))
DomainKnown(est, w) == EstateDomainKnown(est) \/ IsDomainSid(Sid(w))

(* _build_name_to_sid_map: the names that stand for a SID; the two primary *)
(* groups are known by RID and need the domain SID to be complete.         *)
NamesKnown(est, domainKnown) ==
    {"AU", "WD", "SY", "AN"} \cup (IF domainKnown THEN {"DU", "DC"} ELSE {})
    \cup DOMAIN est.principals \cup DOMAIN est.groups

(* resolve_principal_input: a well-formed SID as it is, a known name, or   *)
(* nothing.                                                                *)
ResolvePrincipalInput(est, t) ==
    IF t.form = "sid" THEN t.who
    ELSE IF t.form = "name" /\ t.who \in NamesKnown(est, EstateDomainKnown(est)) THEN t.who
    ELSE None

(* The SID of a delegation entry: its own, else the one of its name.       *)
EntrySid(d, est, domainKnown) ==
    IF d.sid # Nobody THEN d.sid
    ELSE IF d.label # None /\ d.label \in NamesKnown(est, domainKnown) THEN Sid(d.label)
    ELSE Nobody

(* The rights a set of ACEs gives a trustee, whatever form names it.       *)
AceRights(aces, domainKnown, sid) ==
    UNION {ParseSddlRights(a.rights) :
            a \in {x \in aces : CanonicalSddlSid(x.sid, domainKnown) = sid}}

(* _gpo_apply_trustee_sids: who is allowed Apply and who is denied Read or *)
(* Apply.  SDDL is read only when there are no delegation entries; there a *)
(* denied right is first taken from the same trustee's allowed ones.       *)
ApplyTrustees(g, est, domainKnown) ==
    LET listed(P(_)) == {EntrySid(d, est, domainKnown) : d \in {e \in g.delegation : P(e)}} \ {Nobody}
        dacl == ParseSddl(g.sddl).dacl
        sids == {CanonicalSddlSid(a.sid, domainKnown) : a \in dacl}
        allow(s) == AceRights({a \in dacl : IsAllow(a)}, domainKnown, s)
        deny(s) == AceRights({a \in dacl : IsDeny(a)}, domainKnown, s)
    IN  IF g.delegation # {}
        THEN [allow |-> listed(LAMBDA d : d.allowed /\ PermissionImpliesApply(d.perm)),
              deny |-> listed(LAMBDA d : ~d.allowed /\ PermissionImpliesRead(d.perm))]
        ELSE [allow |-> {s \in sids : (allow(s) \ deny(s)) \cap ApplyRights # {}},
              deny |-> {s \in sids : deny(s) \cap ReadOrApplyRights # {}}]

(* _evaluate_security_gate: deny first; no allow at all passes only when   *)
(* nothing was collected to say otherwise.                                 *)
Admits(trustees, sids, g) ==
    /\ trustees.deny \cap sids = {}
    /\ \/ trustees.allow \cap sids # {}
       \/ trustees.allow = {} /\ g.delegation = {} /\ g.sddl = NoSddl
PassesGate(g, token, est, domainKnown) ==
    Admits(ApplyTrustees(g, est, domainKnown), {Sid(w) : w \in token}, g)

(* _resolve_som_path_for_principal: the nearest collected container of the *)
(* DN, itself included; without one the domain, then any container.        *)
SomPathFor(est, dn) ==
    LET directory == Kept(est.soms, {i \in DOMAIN est.soms : est.soms[i].kind # "site"})
        paths == {directory[i].path : i \in DOMAIN directory}
        from == Ancestors(dn, 0)
        up == FirstOr(from, {i \in DOMAIN from : from[i] \in paths}, <<>>)
        fallback == FirstOr(directory, {i \in DOMAIN directory : directory[i].kind = "domain"},
                            IF directory = <<>> THEN NoSom ELSE directory[1])
    IN  IF up # <<>> THEN up ELSE fallback.path

----------------------------------------------------------------------------
(* Bucket merge.                                                           *)

GppCses == {"drives", "groups"}

(* cse_merge_mode on the extensions of the instance: policy merges by last *)
(* writer, scripts unite, preferences accumulate, restricted groups follow *)
(* their element (members replace, member-of adds), folder redirection its *)
(* text, IPsec has one winner, anything else is approximate.               *)
MergeMode(s) ==
    CASE s.cse \in {"registry", "security"} -> "last writer wins"
      [] s.cse = "scripts" -> "union"
      [] s.cse \in GppCses \cup {"software"} -> "accumulate"
      [] s.cse = "restricted" -> IF s.action = "memberof" THEN "additive" ELSE "replace"
      [] s.cse = "folders" ->
            IF s.action = "replace" THEN "replace"
            ELSE IF s.action = "merge" THEN "accumulate" ELSE "merge or replace"
      [] s.cse = "ipsec" -> "single winner"
      [] OTHER -> "approximate"

(* A chain entry carries the settings of one GPO for one side; an item is  *)
(* one of them with its order, and its GPP action if it has one.           *)
ItemsOf(entry) ==
    [i \in DOMAIN entry.settings |->
        [key |-> Key(entry.settings[i]), gpo |-> entry.gpo, order |-> entry.order,
         value |-> entry.settings[i].value, mode |-> MergeMode(entry.settings[i]),
         action |-> IF entry.settings[i].cse \in GppCses THEN entry.settings[i].action ELSE "U"]]

(* sorted(items, key=order): stable, so equal orders keep the chain's.     *)
ByOrder(items) == OrderedBy(items, [i \in DOMAIN items |-> items[i].order], FALSE)

NoItem == [order |-> -1]

(* _resolve_gpp_actions, lowest order first: Delete empties the slot and   *)
(* blocks updates, Replace fills it, Update fills it unless deleted,       *)
(* Create fills it when it is empty, a deleted slot included.              *)
GppStep(slot, it) ==
    CASE it.action = "D" -> [item |-> NoItem, deleted |-> TRUE]
      [] it.action = "R" -> [item |-> it, deleted |-> FALSE]
      [] it.action = "U" /\ ~slot.deleted -> [item |-> it, deleted |-> FALSE]
      [] it.action = "C" /\ slot.item = NoItem -> [item |-> it, deleted |-> FALSE]
      [] OTHER -> slot

ResolveGppActions(items) ==
    LET slot == FoldLeft(GppStep, [item |-> NoItem, deleted |-> FALSE], ByOrder(items))
    IN  IF slot.deleted THEN NoItem ELSE slot.item

(* _merge_bucket: the surviving item, who lost to it, and how.             *)
Survivor(items) ==
    IF items[1].mode = "accumulate" THEN ResolveGppActions(items) ELSE items[HighestOrder(items)]

\* Mutant: whatever the mode, only lower orders are overridden, though a
\* preference that creates what is there already loses from above.
LowerOverridden(items) ==
    LET w == Survivor(items)
        lost == {i \in DOMAIN items : items[i].order < w.order}
    IN  [key |-> w.key, gpo |-> w.gpo, value |-> w.value, mode |-> items[1].mode,
         overridden |-> {items[i].gpo : i \in lost}]

MergeBucket(items) ==
    LET w == Survivor(items)
        strict == items[1].mode \in {"last writer wins", "replace", "single winner", "approximate"}
        lost(i) == IF strict THEN items[i].order < w.order ELSE items[i].order # w.order
    IN  [key |-> w.key, gpo |-> w.gpo, value |-> w.value, mode |-> items[1].mode,
         overridden |-> {items[i].gpo : i \in {j \in DOMAIN items : lost(j)}}]

(* merge_settings_with_exclusions: a preference bucket with a targeted GPO *)
(* in it is not merged; the targeted items are listed as excluded.         *)
MergeSettings(entries, ilt) ==
    LET all == FlattenSeq([i \in DOMAIN entries |-> ItemsOf(entries[i])])
        keys == BucketKeys(all)
        targeted(key) == key[1] \in GppCses /\ \E i \in DOMAIN all : all[i].key = key /\ all[i].gpo \in ilt
        merged == {k \in keys : ~targeted(k) /\ Survivor(Bucket(all, k)) # NoItem}
        held == {i \in DOMAIN all : targeted(all[i].key) /\ all[i].gpo \in ilt}
    IN  [settings |-> {MergeBucket(Bucket(all, k)) : k \in merged},
         excludedSettings |-> {[key |-> all[i].key, gpo |-> all[i].gpo] : i \in held}]

----------------------------------------------------------------------------
(* The chain of one side.                                                  *)

LiveSettings(g, side) ==
    Kept(g.settings, {i \in DOMAIN g.settings : g.settings[i].side = side /\ ~g.settings[i].off})

(* _collect_chain_entries: per enabled link, the gates in their order; a   *)
(* GPO that fails one is listed with the side it was evaluated for, unless *)
(* an earlier pass already excluded it; a GPO with nothing on the side     *)
(* contributes nothing.  The result is the entries and the exclusions.     *)
Verdicts(est, ids, token, domainKnown) ==
    [id \in ids |-> IF ~PassesGate(est.gpos[id], token, est, domainKnown) THEN "security_filter"
                    ELSE IF est.gpos[id].wmi # None THEN "wmi_filter" ELSE "pass"]

Gated(est, live, side, verdict) ==
    LET passed == Kept(live, {i \in DOMAIN live :
            verdict[live[i].gpo] = "pass" /\ LiveSettings(est.gpos[live[i].gpo], side) # <<>>})
    IN  [entries |-> [i \in DOMAIN passed |->
            [gpo |-> passed[i].gpo, order |-> passed[i].order,
             settings |-> LiveSettings(est.gpos[passed[i].gpo], side)]],
         excluded |-> {[gpo |-> id, kind |-> verdict[id], side |-> side] :
                        id \in {x \in DOMAIN verdict : verdict[x] # "pass"}}]

CollectChain(est, links, side, token, domainKnown, already) ==
    LET live == Kept(links, {i \in DOMAIN links :
            links[i].enabled /\ links[i].gpo \in GpoIds(est) /\ links[i].gpo \notin already})
    IN  Gated(est, live, side, Verdicts(est, {live[i].gpo : i \in DOMAIN live}, token, domainKnown))

(* The loopback in force: that of the GPOs linked to the computer's chain, *)
(* whether or not they pass a gate; two modes at once are "mixed".         *)
TheMode(modes) ==
    CASE modes = {} -> None
      [] Cardinality(modes) = 1 -> CHOOSE m \in modes : TRUE
      [] OTHER -> "mixed"
ModesOf(all, gpos) == {all[id] : id \in gpos \cap DOMAIN all}
ActiveLoopback(est, links) ==
    TheMode(ModesOf(LoopbackAwareness(est), {links[i].gpo : i \in {j \in DOMAIN links : links[j].enabled}}))

\* Mutant: the computer's user settings keep the orders of their own chain.
UnshiftedAbove(below, entries) == entries

(* Loopback merge raises the orders of the computer's user settings above  *)
(* every order of the user's own.                                          *)
ShiftAbove(below, entries) ==
    LET orders == {below[i].order : i \in DOMAIN below}
        offset == IF below = <<>> THEN 0 ELSE Max(orders) + 1
    IN  [i \in DOMAIN entries |-> [entries[i] EXCEPT !.order = @ + offset]]

(* The entries of a user on a computer: the user side from the user's own  *)
(* chain, from the computer's, or from both, and then the computer side.   *)
Joined(mode, own, theirs, machine) ==
    LET user == CASE mode = "replace" -> theirs.entries
                  [] mode = "merge" -> own.entries \o ShiftAbove(own.entries, theirs.entries)
                  [] OTHER -> own.entries
        left == CASE mode = "replace" -> theirs.excluded
                  [] mode = "merge" -> own.excluded \cup theirs.excluded
                  [] OTHER -> own.excluded
    IN  [entries |-> user \o machine.entries, excluded |-> left \cup machine.excluded]

PairEntries(est, mode, own, theirs, compLinks, both, domainKnown) ==
    LET skipped == IF mode = "replace" THEN {} ELSE {e.gpo : e \in own.excluded}
    IN  Joined(mode, own, theirs, CollectChain(est, compLinks, "Computer", both, domainKnown, skipped))

(* _build_conditional_dangers: the findings of every GPO that was excluded *)
(* or had a targeted item held back.  A danger is <<check, gpo, detail>>.  *)
ConditionalDangers(excluded, excludedSettings, dangers) ==
    LET gated == {e.gpo : e \in excluded} \cup {e.gpo : e \in excludedSettings}
        of(id) == {d \in dangers : d[2] = id}
    IN  {[gpo |-> id, count |-> Cardinality(of(id))] : id \in {g \in gated : of(g) # {}}}

(* What a chain and its merge amount to for whom they are asked, by the    *)
(* dangers of the estate.                                                  *)
Policy(to, chain, merge, dangers) ==
    [side |-> to.side, loopback |-> to.loopback, caveats |-> to.caveats,
     settings |-> merge.settings, excluded |-> chain.excluded,
     excludedSettings |-> merge.excludedSettings, entries |-> chain.entries,
     conditional |-> ConditionalDangers(chain.excluded, merge.excludedSettings, dangers)]

PolicyOf(est, to, chain, dangers) ==
    Policy(to, chain, MergeSettings(chain.entries, IltGpos(est)), dangers)

PairChain(est, links, compLinks, mode, own, comp, known) ==
    PairEntries(est, mode, CollectChain(est, links, "User", own \cup comp, known, {}),
                CollectChain(est, compLinks, "User", comp, known, {}),
                compLinks, own \cup comp, known)

(* principal_resultant for a principal at dn, alone or with a computer.    *)
PrincipalResultant(est, w, dn, computer, computerDn, dangers) ==
    LET own == BuildToken(est, w)
        comp == IF computer = None THEN {} ELSE BuildToken(est, computer)
        known == DomainKnown(est, w)
        side == IF PrincipalType(est, w) = "Computer" THEN "Computer" ELSE "User"
        links == SomEffectiveGpos(est, SomPathFor(est, dn))
        compLinks == SomEffectiveGpos(est, SomPathFor(est, IF computerDn # <<>> THEN computerDn ELSE dn))
        mode == ActiveLoopback(est, compLinks)
        to(loopback) == [side |-> side, loopback |-> loopback, caveats |-> TokenCaveats(est, w)]
    IN  IF computer # None /\ side = "User"
        THEN PolicyOf(est, to(mode), PairChain(est, links, compLinks, mode, own, comp, known), dangers)
        ELSE PolicyOf(est, to(None), CollectChain(est, links, side, own \cup comp, known, {}), dangers)
=============================================================================
