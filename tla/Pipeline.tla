------------------------------ MODULE Pipeline ------------------------------
(***************************************************************************)
(* From a collector's output to an answer: a directory or an uploaded zip  *)
(* is parsed (Collection), stored (Snapshots), loaded back and asked       *)
(* (Resultant, Scope, Detectors).  What is in the store is a copy; what a  *)
(* preference file says is read from the disk at the time of the question, *)
(* from the folder the snapshot remembers: the operator's directory, which *)
(* the next collector run writes over, or the zip's temporary extraction,  *)
(* which is gone before the import commits.                                *)
(***************************************************************************)
EXTENDS Collection, Resultant, Snapshots

CONSTANTS FirstImports,      \* the collections a first import may find
          LaterImports(_),   \* and a later one, after that first
          Channels,          \* a subset of {"directory", "zip"}
          MaxImports,
          Principals, Computers, Homes,  \* who is asked about, and their DNs
          ShippedRules,                  \* danger-rules.json as shipped
          RuleOverrides,                 \* the override directory's files
          Admx,                          \* identity -> policy name
          Terms                          \* what is searched for

(* What a collection is, as far as its shape goes: files hold lists and    *)
(* finite sets, a folder has finitely many preference files, an SDDL       *)
(* string names a trustee by a SID or by an alias, and a link that has an  *)
(* order has a number.                                                     *)
IsAcl(sddl) ==
    /\ sddl = [x \in DOMAIN NoSddl |-> sddl[x]]
    /\ \A ace \in sddl.dacl : /\ ace = [x \in {"type", "fields", "rights", "sid"} |-> ace[x]]
                             /\ ace.sid \in {Sid(ace.sid.who), Alias(ace.sid.who)}
IsFolder(folder) ==
    /\ IsFiniteSet(folder.files)
    /\ \A f \in folder.files : f.depth \in Nat /\ f.rank \in Nat /\ IsFiniteSet(f.refs)
    /\ \A side \in Sides : IsSequence(folder.pol[side])
    /\ IsSequence(folder.audit.records)
IsContainer(som) ==
    /\ som = [x \in {"path", "kind", "links"} |-> som[x]] /\ IsSequence(som.links)
    /\ \A i \in DOMAIN som.links : LET l == som.links[i] IN
          /\ l = [x \in {"gpo", "order", "enabled", "enforced", "target"} |-> l[x]]
          /\ l.order \in Nat \cup {NoNumber}
IsCollection(coll) ==
    /\ IsSequence(coll.report.records) /\ IsSequence(TryLoad(coll.metadata, <<>>))
    /\ \A i \in DOMAIN coll.report.records : LET r == coll.report.records[i] IN
          IsAcl(r.sddl) /\ \A side \in Sides : IsSequence(r.sides[side].blocks)
    /\ \A file \in {coll.inheritance, coll.sites} : LET soms == TryLoad(file, <<>>) IN
          IsSequence(soms) /\ \A i \in DOMAIN soms : IsContainer(soms[i])
    /\ \A id \in DOMAIN coll.sysvol : IsFolder(coll.sysvol[id])
    /\ IsFiniteSet(DOMAIN TryLoad(coll.groups, Empty))

Collections == FirstImports \cup UNION {LaterImports(first) : first \in FirstImports}

ASSUME PipelineAssumption ==
    /\ \A coll \in Collections : IsCollection(coll)
    /\ MaxImports \in Nat \ {0}
    /\ Channels \subseteq {"directory", "zip"}
    /\ Principals \cup Computers \subseteq DOMAIN Homes
    /\ \A c \in Computers : Homes[c] # <<>>
    /\ LoadDangerRules(ShippedRules, RuleOverrides) # LoadFails

VARIABLES phase,       \* "idle", "collected", "loaded" or "open"
          incoming,    \* the collection being imported
          channel,     \* how it came
          directory,   \* the policy folders in the operator's directory
          estate,      \* load_estate's result
          snapshots,   \* stored estates, oldest first
          opened       \* an estate loaded back, as [of, est]

vars == <<phase, incoming, channel, directory, estate, snapshots, opened>>

Nothing == [of |-> 0]

PipelineInit ==
    /\ phase = "idle" /\ channel = "directory"
    /\ incoming = Nothing /\ estate = Nothing /\ opened = Nothing
    /\ directory = NoSysvol /\ snapshots = <<>>

(* The environment: a collector run into the directory, or an upload.      *)
Collect(how) ==
    /\ phase = "idle" /\ Len(snapshots) < MaxImports
    /\ \E coll \in IF snapshots = <<>> THEN FirstImports ELSE LaterImports(snapshots[1].coll) :
          /\ incoming' = coll
          /\ directory' = IF how = "directory" THEN coll.sysvol ELSE directory
    /\ phase' = "collected" /\ channel' = how
    /\ UNCHANGED <<estate, snapshots, opened>>

Load ==
    /\ phase = "collected" /\ ~LoadEstateFails(incoming)
    /\ phase' = "loaded" /\ estate' = LoadEstate(incoming)
    /\ UNCHANGED <<incoming, channel, directory, snapshots, opened>>

(* A collection that cannot be loaded stores nothing.                      *)
LoadFailed ==
    /\ phase = "collected" /\ LoadEstateFails(incoming)
    /\ phase' = "idle" /\ incoming' = Nothing
    /\ UNCHANGED <<channel, directory, estate, snapshots, opened>>

(* save_estate in one transaction; a zip's extraction is removed before it *)
(* commits, so no reader of the snapshot ever finds it.                    *)
Save ==
    /\ phase = "loaded" /\ ~SaveEstateFails(estate)
    /\ snapshots' = Append(snapshots, [est |-> estate, coll |-> incoming, channel |-> channel])
    /\ phase' = "idle" /\ incoming' = Nothing /\ estate' = Nothing
    /\ UNCHANGED <<channel, directory, opened>>

SaveFailed ==
    /\ phase = "loaded" /\ SaveEstateFails(estate)
    /\ phase' = "idle" /\ incoming' = Nothing /\ estate' = Nothing
    /\ UNCHANGED <<channel, directory, snapshots, opened>>

(* A reader loads a snapshot, and lets it go.                              *)
Open(n, flip) ==
    /\ phase = "idle"
    /\ phase' = "open" /\ opened' = [of |-> n, est |-> LoadStored(snapshots[n].est, flip)]
    /\ UNCHANGED <<incoming, channel, directory, estate, snapshots>>

Close ==
    /\ phase = "open"
    /\ phase' = "idle" /\ opened' = Nothing
    /\ UNCHANGED <<incoming, channel, directory, estate, snapshots>>

PipelineNext ==
    \/ \E how \in Channels : Collect(how)
    \/ Load \/ LoadFailed \/ Save \/ SaveFailed
    \/ \E n \in DOMAIN snapshots, flip \in BOOLEAN : Open(n, flip)
    \/ Close

PipelineSpec == PipelineInit /\ [][PipelineNext]_vars

----------------------------------------------------------------------------
(* The answers.                                                            *)

(* The folders a snapshot's paths lead to now.                             *)
DiskOf(n) == IF snapshots[n].channel = "directory" THEN directory ELSE NoSysvol

Rules == LoadDangerRules(ShippedRules, RuleOverrides)
Dangers(est) == DangerFindings(est, Rules, Admx)

Resultants(est) ==
    {[who |-> w, with |-> c,
      policy |-> PrincipalResultant(est, w, Homes[w], c,
                                    IF c = None THEN <<>> ELSE Homes[c], Dangers(est))]
        : w \in Principals, c \in Computers \cup {None}}

Answers(est) ==
    [resultants |-> {[r EXCEPT !.policy.entries = {}] : r \in Resultants(est)},
     conflicts |-> PrecedenceConflicts(est), rollup |-> PrecedenceConflictRollup(est),
     at |-> {<<s.path, SettingsAtSom(est, s.path), ScopeCaveats(est, s.path),
               {GateSummaries(est, s.path)[i].gates : i \in DOMAIN GateSummaries(est, s.path)}>>
               : s \in SomsOf(est)},
     scopes |-> {EffectiveScope(est, id) : id \in GpoIds(est)},
     sites |-> SiteScopes(est),
     dangers |-> Dangers(est),
     acl |-> DenyAces(est) \cup ExcessiveWriters(est),
     hygiene |-> <<UnlinkedGpos(est), EmptyGpos(est), DisabledButPopulated(est), VersionSkew(est),
                   Ms16072Vulnerable(est), DanglingLinks(est), EnforcedLinks(est), CpasswordGpos(est)>>,
     gaps |-> est.gaps,
     doctor |-> EstateDoctor(est, Dangers(est), Admx), trend |-> TrendPoint(est, Rules),
     summary |-> EstateSummary(est, Dangers(est)),
     found |-> {<<term, Search(est, term)>> : term \in Terms},
     conflicting |-> Conflicts(est), admx |-> AdmxCoverage(est, Admx),
     delegated |-> <<DelegationRollup(est), DelegationDeepDive(est), PermissionsAudit(est)>>,
     servers |-> ExternalDependencies(est)]

----------------------------------------------------------------------------
(* Properties.                                                             *)

(* Data in which the store's order decides nothing: one order per link of  *)
(* a chain, one setting per key and one reference per path of a GPO, one   *)
(* domain, and, as the first item of a bucket says how it is merged, the   *)
(* same mode for every setting of a key.                                   *)
TargetsOf(g) ==
    LET refs == PathReferences(g) IN [i \in DOMAIN refs |-> refs[i].target]
Unambiguous(est) ==
    /\ \A som \in SomsOf(est) : Distinct([i \in DOMAIN som.links |-> som.links[i].order])
    /\ \A id \in GpoIds(est) :
          /\ Distinct([i \in DOMAIN est.gpos[id].settings |-> Key(est.gpos[id].settings[i])])
          /\ Distinct(TargetsOf(est.gpos[id]))
    /\ \A s, t \in UNION {SettingsOf(est.gpos[id]) : id \in GpoIds(est)} :
          Key(s) = Key(t) => MergeMode(s) = MergeMode(t)
    /\ Cardinality({s.path : s \in {x \in SomsOf(est) : x.kind = "domain"}}) = 1

Live == WithDisk(opened.est, DiskOf(opened.of))
Fresh == WithDisk(snapshots[opened.of].est, DiskOf(opened.of))

(* The round trip through the store changes no answer: every report on the *)
(* estate loaded back is the one the freshly parsed estate gives, although *)
(* rows come back in another order.                                        *)
ReopenAnswersAlike ==
    phase = "open" /\ Unambiguous(opened.est) => Answers(Live) = Answers(Fresh)

(* build_token is the closure of membership upwards: it holds the principal*)
(* and its primary groups, every group of a member it holds, however       *)
(* nested, cycles included, and nothing that does not follow from these, so*)
(* no member of a group beside the principal (test_merge.py:1485-1493).    *)
Closed(est, token) ==
    \A g \in DOMAIN est.groups : est.groups[g] \cap token # {} => g \in token
TokenIsClosure ==
    phase = "open" =>
        \A w \in Principals \cup Computers :
            LET base == BaseToken(opened.est, w)
                token == BuildToken(opened.est, w)
            IN  /\ base \subseteq token /\ Closed(opened.est, token)
                /\ \A smaller \in SUBSET (token \ base) :
                      Closed(opened.est, base \cup smaller) => base \cup smaller = token

(* An SDDL string may name a trustee by its SID or by its alias: who gets  *)
(* a GPO does not depend on the spelling once the domain SID is known.     *)
Spelt(sddl, form) ==
    LET spell(ace) == IF ace.sid.who \in Absolute \cup DomainRelative
                      THEN [ace EXCEPT !.sid.form = form] ELSE ace
    IN  [sddl EXCEPT !.dacl = {spell(ace) : ace \in @}]
TrusteeFormIrrelevant ==
    phase = "open" =>
        \A id \in GpoIds(opened.est), w \in Principals, form \in {"sid", "alias"} :
            LET g == opened.est.gpos[id]
                token == BuildToken(opened.est, w)
                gate(x) == PassesGate(x, token, opened.est, DomainKnown(opened.est, w))
            IN  DomainKnown(opened.est, w) => gate(g) = gate([g EXCEPT !.sddl = Spelt(@, form)])

(* The roll-up resolves each distinct chain once; container by container   *)
(* it says what resolving every one of them says.                          *)
RollupIsNaive ==
    phase = "open" /\ Unambiguous(opened.est) =>
        UNION {{[path |-> p, conflict |-> r.conflict] : p \in r.scopes}
                  : r \in PrecedenceConflictRollup(opened.est)} = PrecedenceConflicts(opened.est)

(* Under loopback merge a policy the computer's chain sets for its users   *)
(* is what the user gets, whatever order the user's own chain gives it;    *)
(* under replace the user's own chain gives nothing.                       *)
UserEntries(est, path, token) ==
    LET chain == CollectChain(est, SomEffectiveGpos(est, path), "User", token, TRUE, {})
        all == [i \in DOMAIN chain.entries |-> ItemsOf(chain.entries[i])]
    IN  FlattenSeq(all)
OutranksUser(r, theirs) ==
    LET strict(key) == \A i \in DOMAIN theirs :
            theirs[i].key = key => theirs[i].mode = "last writer wins"
    IN  /\ r.loopback = "merge" =>
              \A s \in r.settings : s.key \in BucketKeys(theirs) /\ strict(s.key) =>
                  LET b == Bucket(theirs, s.key) IN s.gpo = b[HighestOrder(b)].gpo
        /\ r.loopback = "replace" =>
              \A s \in r.settings : s.key[2] = "User" => s.key \in BucketKeys(theirs)
LoopbackComputerWins ==
    phase = "open" =>
        \A w \in Principals, c \in Computers :
            DomainKnown(Live, w) /\ PrincipalType(Live, w) # "Computer" =>
                OutranksUser(PrincipalResultant(Live, w, Homes[w], c, Homes[c], {}),
                             UserEntries(Live, SomPathFor(Live, Homes[c]), BuildToken(Live, c)))

(* What is consulted for an answer: the links of the principal's chain, of *)
(* the computer's or of both, each for one side, as loopback has it.       *)
Consulted(est, who, with, policy) ==
    LET chain(w) == SomEffectiveGpos(est, SomPathFor(est, Homes[w]))
        sides(w, side) == {[link |-> chain(w)[i], side |-> side] : i \in DOMAIN chain(w)}
    IN  IF with = None \/ policy.side = "Computer" THEN sides(who, policy.side)
        ELSE sides(with, "Computer")
             \cup (IF policy.loopback = "replace" THEN {} ELSE sides(who, "User"))
             \cup (IF policy.loopback \in {"merge", "replace"} THEN sides(with, "User") ELSE {})

(* No policy disappears without a word.  Whatever an answer consults, alone*)
(* or with a computer, each live setting of each enabled link is told for  *)
(* its GPO: the GPO is listed as excluded, for the side or, as the computer*)
(* pass does not list it again (merge.py:949-960), for the user's; or under*)
(* the setting's key it wins, is overridden, or has its targeted item held *)
(* back.  There are three exceptions, in which the code says nothing of the*)
(* GPO: its order is the winner's (wi_merge.md:116-118), an item of the key*)
(* deletes it or has an action the resolver does not know, or its item is  *)
(* not targeted and shares its bucket with one that is and is listed       *)
(* (merge.py:466-481).                                                     *)
Gives(entry, key) == \E i \in DOMAIN entry.settings : Key(entry.settings[i]) = key
TiedWith(m, entries, gpo) ==
    \E i, j \in DOMAIN entries :
        /\ entries[i].gpo = gpo /\ entries[j].gpo = m.gpo /\ entries[i].order = entries[j].order
        /\ Gives(entries[i], m.key) /\ Gives(entries[j], m.key)
Deleted(entries, key) ==
    /\ key[1] \in GppCses
    /\ \E i \in DOMAIN entries : \E n \in DOMAIN entries[i].settings :
          Key(entries[i].settings[n]) = key /\ entries[i].settings[n].action \notin {"C", "R", "U"}
Told(policy, ilt, gpo, key) ==
    LET won == {m \in policy.settings : m.key = key}
        held == {x.gpo : x \in {y \in policy.excludedSettings : y.key = key}}
    IN  \/ \E m \in won : m.gpo = gpo \/ gpo \in m.overridden \/ TiedWith(m, policy.entries, gpo)
        \/ gpo \in held
        \/ held # {} /\ gpo \notin ilt
        \/ won = {} /\ held = {} /\ Deleted(policy.entries, key)
NothingVanishes ==
    phase = "open" =>
        \A r \in Resultants(Live) : \A c \in Consulted(Live, r.who, r.with, r.policy) :
            c.link.enabled /\ c.link.gpo \in GpoIds(Live) =>
                \/ \E e \in r.policy.excluded : e.gpo = c.link.gpo /\ e.side \in {c.side, "User"}
                \/ \A s \in SettingsOf(Live.gpos[c.link.gpo]) : s.side = c.side /\ ~s.off =>
                      Told(r.policy, IltGpos(Live), c.link.gpo, Key(s))

(* What could not be collected is said: in a stored estate every GPO of    *)
(* the inventory or of the collector's errors is there or is a gap, a GPO  *)
(* with a preference file no detector reads is a gap, and so is the copy   *)
(* as a whole when it reached no GPO.                                      *)
CoverageHonest ==
    phase = "open" =>
        LET coll == snapshots[opened.of].coll
            est == opened.est
            gapped == {gap.gpo : gap \in est.gaps}
            listed == {r.id : r \in TryLoad(coll.inventory, {}) \cup TryLoad(coll.errors, {})} \ {None}
            attached == {id \in GpoIds(est) : est.gpos[id].attached}
            blind(id) == \E f \in coll.sysvol[id].files :
                ~\E h \in WalkGppXml(coll.sysvol[id]) : h.side = f.side /\ h.name = f.name
        IN  /\ listed \subseteq GpoIds(est) \cup gapped
            /\ \A id \in attached : blind(id) => id \in gapped
            /\ attached = {} /\ GpoIds(est) # {} => None \in gapped

(* A registry extension the report blocked is never read as empty: its     *)
(* placeholder stays unless Registry.pol gave whole records in its place,  *)
(* and then the side has what was reported in full and exactly the records *)
(* before the first torn one.                                              *)
BlockedIsResolvedWhole ==
    phase = "open" =>
        LET coll == snapshots[opened.of].coll
            reported == ParseReport(coll.report.records)
            registry(g, side) == {x \in SettingsOf(g) : x.cse = "registry" /\ x.side = side}
        IN  \A i \in DOMAIN reported : \A s \in SettingsOf(reported[i]) : BlockedRegistry(s) =>
                LET g == opened.est.gpos[reported[i].id]
                    chunks == IF g.attached THEN coll.sysvol[g.id].pol[s.side] ELSE <<>>
                    whole == {n \in DOMAIN chunks : chunks[n].kind = "record"
                                /\ \A m \in 1..n : chunks[m].kind # "torn"}
                IN  IF whole = {} THEN s \in SettingsOf(g)
                    ELSE /\ s \notin SettingsOf(g)
                         /\ {<<x.id, x.value>> : x \in registry(g, s.side)} =
                              {<<x.id, x.value>> : x \in {y \in registry(reported[i], s.side) : ~y.blocked}}
                              \cup {<<chunks[n].id, chunks[n].value>> : n \in whole}

(* The comparisons of two estates agree.  A GPO in both snapshots is       *)
(* reported as changed exactly when one of its settings is listed as       *)
(* changed; the changelog lists no setting of an unchanged GPO; comparing  *)
(* the other way round, or two settings dumps, says the same; the golden   *)
(* comparison of a GPO that kept its name calls a setting changed exactly  *)
(* when it is listed as modified and is in force in both, and calls none   *)
(* changed of an estate that meets the other as its baseline; and a trend  *)
(* of changes shows the second snapshot when the number of GPOs moved.     *)
EffectiveIn(est, id, key) ==
    \E s \in SettingsOf(est.gpos[id]) : Key(s) = key /\ Effective(s)
SoleName(est, id) == \A other \in GpoIds(est) \ {id} : est.gpos[other].name # est.gpos[id].name
DiffsAgree ==
    Len(snapshots) = 2 =>
        LET a == snapshots[1].est
            b == snapshots[2].est
            diff == SnapshotDiff(a, b)
            rows == SnapshotSettingsDiff(a, b)
            golden == GoldenDiff(b, a)
            paired == {id \in Common(a, b) : /\ a.gpos[id].name = b.gpos[id].name
                                             /\ SoleName(a, id) /\ SoleName(b, id)}
            goldenKey(key) == <<key[2], key[1], key[3]>>
            points == <<TrendPoint(a, Rules), TrendPoint(b, Rules)>>
        IN  Unambiguous(a) /\ Unambiguous(b) =>
                /\ diff.settings = {r.gpo : r \in rows} \cap Common(a, b)
                /\ \A e \in SnapshotChangelog(a, b) :
                      e.kind = "settings_detail" => e.gpo \in diff.settings
                /\ SnapshotSettingsDiff(b, a) =
                      {[r EXCEPT !.change = CASE @ = "added" -> "removed" [] @ = "removed" -> "added"
                                              [] OTHER -> @] : r \in rows}
                /\ SettingsDiff(SettingsDump(a), SettingsDump(b)) = rows
                /\ \A id \in paired :
                      {e.key : e \in {x \in golden : x.status = "changed" /\ x.name = a.gpos[id].name}} =
                      {goldenKey(r.key) : r \in {x \in rows : /\ x.gpo = id /\ x.change = "modified"
                                          /\ EffectiveIn(a, id, x.key) /\ EffectiveIn(b, id, x.key)}}
                /\ (\A e \in BaselineDiff(b, LoadBaseline(a)) : e.status = "compliant")
                      => GoldenSummary(golden).changed = 0
                /\ Len(ChangesOnly(points)) = 1 => Cardinality(diff.added) = Cardinality(diff.removed)

(* A token is expanded in both directions (docs/spec, wi_merge AC-10): the *)
(* groups that are members of a group it holds are in it, too.             *)
TokenExpandsBothWays ==
    phase = "open" =>
        \A w \in Principals \cup Computers :
            LET token == BuildToken(opened.est, w)
            IN  \A g \in token \cap DOMAIN opened.est.groups :
                    opened.est.groups[g] \cap DOMAIN opened.est.groups \subseteq token

(* An item-level-targeted preference item is held back: no setting of the  *)
(* resultant comes from a GPO with targeted items (docs/design,            *)
(* per-user-rsop AC-4), whatever way the collection was imported.          *)
TargetedItemsHeldBack ==
    phase = "open" =>
        LET collected == WithDisk(opened.est, snapshots[opened.of].coll.sysvol)
        IN  \A r \in Resultants(Live) : \A s \in r.policy.settings :
                s.key[1] \in GppCses => s.gpo \notin IltGpos(collected)
=============================================================================
