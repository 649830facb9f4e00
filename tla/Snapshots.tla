----------------------------- MODULE Snapshots -----------------------------
(***************************************************************************)
(* Stored estates: what src/gpo_lens/store.py keeps of an estate and gives *)
(* back, and the comparisons of two snapshots and of their whole series    *)
(* (snapshot_diff.py, trend.py).                                           *)
(***************************************************************************)
EXTENDS Queries

(* save_estate inserts into keyed tables: a GPO per id, a container per    *)
(* path, a link per GPO, order and target.  A repetition fails the import. *)
Distinct(s) == \A i, j \in DOMAIN s : s[i] = s[j] => i = j
SaveEstateFails(est) ==
    LET paths == [i \in DOMAIN est.soms |-> est.soms[i].path]
        linkKeys(som) == [i \in DOMAIN som.links |->
                            <<som.links[i].gpo, som.links[i].order, som.links[i].target>>]
    IN  est.repeated \/ ~Distinct(paths) \/ \E som \in SomsOf(est) : ~Distinct(linkKeys(som))

\* Mutant: the column of a setting's disabled side is not read back.
ForgetfulSetting(s) == [s EXCEPT !.off = FALSE]

(* A setting's row carries every field of it that a reader uses.           *)
StoredSetting(s) == s

(* load_estate's GPOs: settings by side, extension and identity; the order *)
(* of two settings with different keys is some fixed one, and rows that    *)
(* tie come back in either order ("flip").                                 *)
LoadedGpo(g, flip) ==
    LET keys == SetToSeq({Key(s) : s \in SettingsOf(g)})
        rank == [i \in DOMAIN g.settings |-> CHOOSE k \in DOMAIN keys : keys[k] = Key(g.settings[i])]
        rows == OrderedBy(g.settings, rank, flip)
    IN  [g EXCEPT !.settings = [i \in DOMAIN rows |-> StoredSetting(rows[i])]]

(* Its containers: by path, some fixed order again, their links by order.  *)
LoadedSoms(est, flip) ==
    LET byOrder(som) == [som EXCEPT !.links = OrderedBy(@, [i \in DOMAIN @ |-> @[i].order], flip)]
        soms == SetToSeq({byOrder(som) : som \in SomsOf(est)})
    IN  IF flip THEN Reverse(soms) ELSE soms

(* The whole estate: filters, gaps, principals and groups come back as the *)
(* sets and maps they were.                                                *)
LoadStored(est, flip) ==
    [est EXCEPT !.gpos = [id \in DOMAIN @ |-> LoadedGpo(@[id], flip)], !.soms = LoadedSoms(est, flip)]

----------------------------------------------------------------------------
(* Two snapshots.                                                          *)

Common(a, b) == GpoIds(a) \cap GpoIds(b)

\* Mutant: rows are told apart without their value.
ValuelessRows(g) == {<<Key(s), 0>> : s \in SettingsOf(g)}

(* _load_row_sets: the distinct rows of a GPO in one table.                *)
SettingRows(g) == {<<Key(s), s.value>> : s \in SettingsOf(g)}
LinkRows(g) == {<<l.som, l.enabled, l.enforced>> : l \in g.links}
DelegationRows(g) == {<<d.who, d.perm, d.allowed>> : d \in g.delegation}

(* The ids of the common GPOs for which a view of the GPO differs.         *)
Differing(a, b, View(_)) == {id \in Common(a, b) : View(a.gpos[id]) # View(b.gpos[id])}

SkewedGpo(g) == \E side \in {"Computer", "User"} :
    LET v == g.versions[side] IN v.ds # None /\ v.sysvol # None /\ v.ds # v.sysvol

(* snapshot_diff: what was added, removed, and which part of what stayed   *)
(* changed; an owner or a domain is compared as the name is.               *)
SnapshotDiff(a, b) ==
    [added |-> GpoIds(b) \ GpoIds(a), removed |-> GpoIds(a) \ GpoIds(b),
     settings |-> Differing(a, b, SettingRows), links |-> Differing(a, b, LinkRows),
     delegation |-> Differing(a, b, DelegationRows), skew |-> Differing(a, b, SkewedGpo),
     metadata |-> Differing(a, b, LAMBDA g : <<g.name, g.sddl>>),
     wmi |-> Differing(a, b, LAMBDA g : g.wmi),
     flips |-> Differing(a, b, LAMBDA g : <<g.computerEnabled, g.userEnabled>>)]

(* snapshot_settings_diff: one row per key, the last one read; a key that  *)
(* only one snapshot has was added or removed.                             *)
KeyedRows(est) == UNION {{<<id, Key(s)>> : s \in SettingsOf(est.gpos[id])} : id \in GpoIds(est)}
RowValue(est, k) ==
    LET settings == est.gpos[k[1]].settings
    IN  settings[Max({i \in DOMAIN settings : Key(settings[i]) = k[2]})].value
SnapshotSettingsDiff(a, b) ==
    {[gpo |-> k[1], key |-> k[2], change |-> "added"] : k \in KeyedRows(b) \ KeyedRows(a)}
    \cup {[gpo |-> k[1], key |-> k[2], change |-> "removed"] : k \in KeyedRows(a) \ KeyedRows(b)}
    \cup {[gpo |-> k[1], key |-> k[2], change |-> "modified"] :
            k \in {x \in KeyedRows(a) \cap KeyedRows(b) : RowValue(a, x) # RowValue(b, x)}}

(* snapshot_changelog: GPOs added and removed, and per common GPO the sides*)
(* whose version numbers moved, with the setting changes of that side when *)
(* any setting of the GPO changed.                                         *)
SnapshotChangelog(a, b) ==
    LET changes == SnapshotSettingsDiff(a, b)
        moved(id) == {side \in {"Computer", "User"} : a.gpos[id].versions[side] # b.gpos[id].versions[side]}
        ofSide(id, side) == {c \in changes : c.gpo = id /\ c.key[2] = side}
        entry(id, side) ==
            [gpo |-> id, side |-> side, changes |-> ofSide(id, side),
             kind |-> IF \E c \in changes : c.gpo = id THEN "settings_detail" ELSE "metadata_only"]
    IN  {[gpo |-> id, side |-> None, changes |-> {}, kind |-> "gpo_added"] : id \in GpoIds(b) \ GpoIds(a)}
        \cup {[gpo |-> id, side |-> None, changes |-> {}, kind |-> "gpo_removed"] :
                id \in GpoIds(a) \ GpoIds(b)}
        \cup UNION {{entry(id, side) : side \in moved(id)} : id \in Common(a, b)}

----------------------------------------------------------------------------
(* The series.                                                             *)

(* compute_trend's point of one snapshot: counts of estate_summary, which  *)
(* has no templates here and reads the preference files of the moment.     *)
TrendPoint(est, rules) ==
    LET all == EstateSummary(est, DangerFindings(est, rules, Empty))
    IN  [m \in {"gpos", "dangers", "cpassword", "ms16072", "skew", "brokenRefs", "unlinked",
                "empty", "settings", "gaps"} |-> all[m]]

(* changes_only: the first point and every point unlike the one before.    *)
ChangesOnly(points) ==
    Kept(points, {i \in DOMAIN points : i = 1 \/ points[i] # points[i - 1]})
=============================================================================
