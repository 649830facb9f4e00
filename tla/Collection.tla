----------------------------- MODULE Collection -----------------------------
(***************************************************************************)
(* A collector's output directory and the estate src/gpo_lens/ingest.py    *)
(* makes of it: the report, the side files and their failures, the SYSVOL  *)
(* copy, and the coverage gaps that say what could not be seen.            *)
(*                                                                         *)
(* A side file is [state, records] with state "absent", "corrupt" or "ok"; *)
(* a GUID the parser rejects is None; the SYSVOL copy is a function from   *)
(* GUIDs to policy folders, NoSysvol when there is none.                   *)
(***************************************************************************)
EXTENDS Scope

Sides == {"Computer", "User"}
NoSysvol == Empty
NoNumber == -1
NoTree == [readable |-> FALSE, files |-> {}, links |-> {}]

(* _try_load and _try_action: an absent or unparsable side file is passed  *)
(* over (the latter with a warning) and leaves nothing behind.             *)
TryLoad(file, default) == IF file.state = "ok" THEN file.records ELSE default

----------------------------------------------------------------------------
(* The report.                                                             *)

(* A repeated audit subcategory is folded into the first of its side.      *)
EmittedBlocks(blocks) ==
    {i \in DOMAIN blocks :
        ~(blocks[i].kind = "audit"
            /\ \E j \in 1..(i - 1) : blocks[j].kind = "audit" /\ blocks[j].id = blocks[i].id)}

(* _emit: the nth emission of an identity on a side is told apart by " #n".*)
Identity(blocks, i) ==
    LET n == Cardinality({j \in EmittedBlocks(blocks) : j <= i /\ blocks[j].id = blocks[i].id})
    IN  IF n = 1 THEN blocks[i].id ELSE blocks[i].id \o " #" \o ToString(n)

(* _parse_settings for one side: a "blocked" extension or an unclassified  *)
(* PKI block becomes a placeholder without a value.                        *)
ParseSide(part, side) ==
    LET setting(i) ==
            [cse |-> part.blocks[i].cse, side |-> side, id |-> Identity(part.blocks, i),
             value |-> part.blocks[i].value, action |-> part.blocks[i].action,
             loop |-> part.blocks[i].loop, off |-> ~part.enabled,
             blocked |-> part.blocks[i].kind \in {"blocked", "unclassified"}]
        all == [i \in DOMAIN part.blocks |-> setting(i)]
    IN  IF part.present THEN Kept(all, EmittedBlocks(part.blocks)) ELSE <<>>

ParseSettings(r) == ParseSide(r.sides["Computer"], "Computer") \o ParseSide(r.sides["User"], "User")

(* _parse_delegation: the nested entries, else the flat ones, none at all  *)
(* when the report says that permissions are not present.                  *)
ParseDelegation(r) ==
    IF ~r.permissionsPresent THEN {} ELSE IF r.nested # {} THEN r.nested ELSE r.flat

(* _parse_single_gpo: an absent side reads as disabled, with no versions.  *)
ParseGpo(r) ==
    [id |-> r.id, name |-> r.name,
     computerEnabled |-> r.sides["Computer"].present /\ r.sides["Computer"].enabled,
     userEnabled |-> r.sides["User"].present /\ r.sides["User"].enabled,
     versions |-> [side \in Sides |-> r.sides[side].versions],
     delegation |-> ParseDelegation(r), sddl |-> r.sddl, wmi |-> None,
     links |-> r.links, settings |-> ParseSettings(r), attached |-> FALSE,
     ilt |-> FALSE, cpassword |-> FALSE, localGroups |-> {}, paths |-> {}, tree |-> NoTree]

(* parse_report: a GPO without a valid identifier is skipped.              *)
ParseReport(records) ==
    LET parse(gpos, r) == IF r.id = None THEN gpos ELSE Append(gpos, ParseGpo(r))
    IN  FoldLeft(parse, <<>>, records)

----------------------------------------------------------------------------
(* Side files.                                                             *)

(* parse_inheritance: links without a valid GUID are dropped; a missing    *)
(* order is 0.                                                             *)
ParseInheritance(records) ==
    LET links(raw) == Kept(raw, {i \in DOMAIN raw : raw[i].gpo # None})
        order(o) == IF o = NoNumber THEN 0 ELSE o
    IN  [i \in DOMAIN records |->
            [path |-> records[i].path, kind |-> records[i].kind,
             links |-> [k \in DOMAIN links(records[i].links) |->
                          [links(records[i].links)[k] EXCEPT !.order = order(@)]]]]

(* parse_sites: a gPLink numbers its valid links in the order it has them. *)
ParseSites(records) ==
    LET links(raw) == Kept(raw, {i \in DOMAIN raw : raw[i].gpo # None})
    IN  [i \in DOMAIN records |->
            [path |-> records[i].path, kind |-> "site",
             links |-> [k \in DOMAIN links(records[i].links) |->
                          [links(records[i].links)[k] EXCEPT !.order = k]]]]

(* merge_metadata: the WMI filter when the record names one (anything else *)
(* clears it); a version only where the report gave none.                  *)
MergeMetadata(gpos, records) ==
    LET fill(old, new) == IF old = None THEN new ELSE old
        versions(old, new) == [side \in Sides |->
            [ds |-> fill(old[side].ds, new[side].ds), sysvol |-> fill(old[side].sysvol, new[side].sysvol)]]
        step(g, rec) == IF rec.id # g.id THEN g
                        ELSE [g EXCEPT !.wmi = IF rec.wmi = "missing" THEN @ ELSE rec.wmi,
                                       !.versions = versions(@, rec.versions)]
    IN  [i \in DOMAIN gpos |-> FoldLeft(step, gpos[i], records)]

----------------------------------------------------------------------------
(* The SYSVOL copy.                                                        *)

(* attach_sysvol_paths: the folder of the GUID, unless it leads outside.   *)
AttachSysvolPaths(sysvol, gpos) ==
    [i \in DOMAIN gpos |-> [gpos[i] EXCEPT !.attached =
        gpos[i].id \in DOMAIN sysvol /\ ~sysvol[gpos[i].id].escapes]]

\* Mutant: a torn record is skipped and the reading goes on.
ParsePolThrough(chunks) == Kept(chunks, {i \in DOMAIN chunks : chunks[i].kind = "record"})

(* parse_registry_pol: bytes between records are skipped, and the first    *)
(* malformed or truncated record ends the reading.                         *)
ParseRegistryPol(chunks) ==
    LET torn == {i \in DOMAIN chunks : chunks[i].kind = "torn"}
        read == IF torn = {} THEN chunks ELSE SubSeq(chunks, 1, Min(torn) - 1)
    IN  Kept(read, {i \in DOMAIN read : read[i].kind = "record"})

(* augment_blocked_registry_from_pol: the placeholder of a side gives way  *)
(* to that side's records, if there are any.                               *)
BlockedRegistry(s) == s.blocked /\ s.cse = "registry"
AugmentRegistry(sysvol, gpos) ==
    LET record(side, c) == [cse |-> "registry", side |-> side, id |-> c.id, value |-> c.value,
                            action |-> "U", loop |-> NoLoop, off |-> FALSE, blocked |-> FALSE]
        records(g, side) ==
            LET read == ParseRegistryPol(sysvol[g.id].pol[side])
            IN  [i \in DOMAIN read |-> record(side, read[i])]
        sides(g) == {side \in Sides :
            /\ \E i \in DOMAIN g.settings : BlockedRegistry(g.settings[i]) /\ g.settings[i].side = side
            /\ records(g, side) # <<>>}
        added(g) == FlattenSeq([i \in 1..Cardinality(sides(g)) |-> records(g, SetToSeq(sides(g))[i])])
        augmented(g) ==
            [g EXCEPT !.settings =
                Kept(@, {i \in DOMAIN @ : ~(BlockedRegistry(@[i]) /\ @[i].side \in sides(g))}) \o added(g)]
    IN  [i \in DOMAIN gpos |-> IF gpos[i].attached THEN augmented(gpos[i]) ELSE gpos[i]]

(* augment_audit_from_csv: the rows the report and earlier rows do not     *)
(* have; an unreadable file or row leaves a placeholder.  Only disagreement*)
(* flags (evidence kept beside the retained value) are left out.           *)
AuditSetting(g, id, value, blocked) ==
    [cse |-> "audit", side |-> "Computer", id |-> id, value |-> value, action |-> "U",
     loop |-> NoLoop, off |-> ~g.computerEnabled, blocked |-> blocked]
AuditRows(g, rows) ==
    LET xml == {g.settings[i].id : i \in {j \in DOMAIN g.settings :
                    g.settings[j].cse = "audit" /\ g.settings[j].side = "Computer"}}
        id(n) == IF rows[n].valid THEN rows[n].id ELSE "row " \o ToString(n)
        new == {n \in DOMAIN rows : id(n) \notin xml \cup {id(m) : m \in 1..(n - 1)}}
        setting(n) == AuditSetting(g, id(n), rows[n].value, ~rows[n].valid)
    IN  Kept([n \in DOMAIN rows |-> setting(n)], new)
AugmentAudit(sysvol, gpos) ==
    LET csv(g) == sysvol[g.id].audit
        added(g) == CASE ~g.attached \/ csv(g).state = "absent" -> <<>>
                      [] g.attached /\ csv(g).state = "corrupt" ->
                            <<AuditSetting(g, "audit.csv unreadable", NoNumber, TRUE)>>
                      [] OTHER -> AuditRows(g, csv(g).records)
    IN  [i \in DOMAIN gpos |-> [gpos[i] EXCEPT !.settings = @ \o added(gpos[i])]]

(* The preference files of a folder that can be opened: an unreadable      *)
(* Preferences directory hides its side, an unreadable subdirectory itself.*)
ReachableFiles(folder) ==
    {f \in folder.files : f.side \notin folder.lockedSides /\ ~f.locked}

(* _walk_gpp_xml: of the files of one name and side the deepest is read,   *)
(* the first of several; one that does not parse yields nothing.           *)
WalkGppXml(folder) ==
    {f \in ReachableFiles(folder) :
        /\ f.wellFormed
        /\ \A h \in ReachableFiles(folder) :
              h.side = f.side /\ h.name = f.name =>
                 h.depth < f.depth \/ (h.depth = f.depth /\ f.rank <= h.rank)}

(* scan_ilt, _scan_gpo_for_cpassword, scan_local_groups and path_references*)
(* read the files when they are asked, not at ingest: "disk" is what is    *)
(* there by then.                                                          *)
WithDisk(est, disk) ==
    LET files(g) == IF g.attached /\ g.id \in DOMAIN disk THEN WalkGppXml(disk[g.id]) ELSE {}
        tree(g) == IF g.attached /\ g.id \in DOMAIN disk THEN disk[g.id].tree ELSE NoTree
        scanned(g) == [g EXCEPT !.ilt = \E f \in files(g) : f.filters,
                                !.cpassword = \E f \in files(g) : f.known /\ f.cpassword,
                                !.localGroups = UNION {f.groups : f \in {x \in files(g) : x.known}},
                                !.paths = UNION {f.refs : f \in files(g)}, !.tree = tree(g)]
    IN  [est EXCEPT !.gpos = [id \in DOMAIN @ |-> scanned(@[id])]]

----------------------------------------------------------------------------
(* Coverage gaps: what the export is known to lack.                        *)

\* Mutant: the errors file is read alone when both are there.
ErrorsOnlyGaps(inventory, errors, ids) ==
    {[gpo |-> r.id, kind |-> "collection_error"] : r \in {x \in errors : x.id \notin ids \cup {None}}}

(* parse_coverage_gaps: first the inventory, then the collector's errors,  *)
(* each GUID once and only if it was not exported.                         *)
ParseCoverageGaps(inventory, errors, ids) ==
    LET hidden == {r.id : r \in inventory} \ (ids \cup {None})
        failed == {r.id : r \in errors} \ (ids \cup hidden \cup {None})
    IN  {[gpo |-> id, kind |-> "inaccessible"] : id \in hidden}
        \cup {[gpo |-> id, kind |-> "collection_error"] : id \in failed}

(* _scan_sysvol_gaps: one gap per GPO for what cannot be listed and one    *)
(* for what does not parse, shadowed files included.                       *)
ScanSysvolGaps(sysvol, gpos) ==
    LET attached == {gpos[i].id : i \in {j \in DOMAIN gpos : gpos[j].attached}}
        hidden(id) == sysvol[id].lockedSides # {} \/ \E f \in sysvol[id].files : f.locked
        corrupt(id) == \E f \in ReachableFiles(sysvol[id]) : ~f.wellFormed
    IN  {[gpo |-> id, kind |-> "unreadable_sysvol"] : id \in {x \in attached : hidden(x)}}
        \cup {[gpo |-> id, kind |-> "corrupt_gpp_xml"] : id \in {x \in attached : corrupt(x)}}

(* _scan_missing_sysvol: one estate-wide gap when no GPO has a folder.     *)
ScanMissingSysvol(gpos) ==
    IF gpos # <<>> /\ \A i \in DOMAIN gpos : ~gpos[i].attached
    THEN {[gpo |-> None, kind |-> "missing_sysvol"]} ELSE {}

(* load_estate: the report must be there and parse, and so must the two    *)
(* files the gaps come from if they exist; every other file is optional.   *)
LoadEstateFails(coll) ==
    coll.report.state # "ok" \/ coll.inventory.state = "corrupt" \/ coll.errors.state = "corrupt"

(* Its GPOs, enriched in this order.                                       *)
LoadGpos(coll) ==
    LET merged == MergeMetadata(ParseReport(coll.report.records), TryLoad(coll.metadata, <<>>))
        attached == AttachSysvolPaths(coll.sysvol, merged)
    IN  AugmentAudit(coll.sysvol, AugmentRegistry(coll.sysvol, attached))

LoadEstate(coll) ==
    LET gpos == LoadGpos(coll)
        ids == {gpos[i].id : i \in DOMAIN gpos}
        byId == [id \in ids |-> gpos[SelectLastInSeq(gpos, LAMBDA g : g.id = id)]]
    IN  [gpos |-> byId, repeated |-> Cardinality(ids) # Len(gpos),
         soms |-> ParseInheritance(TryLoad(coll.inheritance, <<>>)) \o ParseSites(TryLoad(coll.sites, <<>>)),
         wmiFilters |-> TryLoad(coll.wmiFilters, {}),
         principals |-> TryLoad(coll.principals, Empty), groups |-> TryLoad(coll.groups, Empty),
         gaps |-> ParseCoverageGaps(TryLoad(coll.inventory, {}), TryLoad(coll.errors, {}), ids)
                  \cup ScanSysvolGaps(coll.sysvol, gpos) \cup ScanMissingSysvol(gpos)]
=============================================================================
