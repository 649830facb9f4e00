----------------------------- MODULE MCPipeline -----------------------------
(***************************************************************************)
(* The estate of the bounded check: GPOs A, B and C, the domain, one       *)
(* organisational unit for users and one for computers, and a site; user   *)
(* u1 and computer c1.  A base collection and the variations of it that    *)
(* each hazard needs, one family at a time.                                *)
(***************************************************************************)
EXTENDS Pipeline

Dom == <<"dom">>
Staff == <<"staff", "dom">>
Lab == <<"lab", "dom">>
MCHomes == [u1 |-> <<"u1", "staff", "dom">>, c1 |-> <<"c1", "lab", "dom">>]

File(records) == [state |-> "ok", records |-> records]
Absent == [state |-> "absent", records |-> <<>>]
Corrupt == [state |-> "corrupt", records |-> <<>>]
NoSet(file) == [file EXCEPT !.records = {}]

Block(cse, id, value) == [cse |-> cse, kind |-> "item", id |-> id, value |-> value,
                          action |-> "U", loop |-> NoLoop]
Act(block, action) == [block EXCEPT !.action = action]
NoVersion == [ds |-> None, sysvol |-> None]
Part(blocks) == [present |-> TRUE, enabled |-> TRUE, blocks |-> blocks,
                 versions |-> [ds |-> "1", sysvol |-> "1"]]

AuApply == [who |-> "AU", label |-> "AU", sid |-> Sid("AU"), perm |-> "apply", allowed |-> TRUE]
Grant(w, perm, allowed) == [who |-> w, label |-> None, sid |-> Sid(w), perm |-> perm, allowed |-> allowed]
Ace(type, codes, t) == [type |-> type, fields |-> 6, rights |-> [hex |-> FALSE, codes |-> codes], sid |-> t]
Acl(owner, dacl) == [oversized |-> FALSE, absent |-> FALSE, owner |-> owner, dacl |-> dacl, sacl |-> {}]

Report(id, comp, user) ==
    [id |-> id, name |-> id, sides |-> [Computer |-> Part(comp), User |-> Part(user)],
     permissionsPresent |-> TRUE, nested |-> {AuApply}, flat |-> {}, sddl |-> NoSddl,
     links |-> {[som |-> "dom", enabled |-> TRUE, enforced |-> FALSE]}]

Link(g, n) == [gpo |-> g, order |-> n, enabled |-> TRUE, enforced |-> FALSE, target |-> "dom"]
Som(path, kind, links) == [path |-> path, kind |-> kind, links |-> links]

Folder == [escapes |-> FALSE, pol |-> [Computer |-> <<>>, User |-> <<>>], audit |-> Absent,
           files |-> {}, lockedSides |-> {}, tree |-> [readable |-> TRUE, files |-> {}, links |-> {}]]
Prefs(name) == [side |-> "User", name |-> name, depth |-> 2, rank |-> 1, known |-> TRUE, locked |-> FALSE,
                wellFormed |-> TRUE, filters |-> FALSE, cpassword |-> FALSE, groups |-> {}, refs |-> {}]

(* A sets x and a drive, B sets x otherwise, C is the computer OU's.       *)
RepA == Report("A", <<Block("registry", "x", 1)>>, <<Block("registry", "p", 1), Block("drives", "d", 1)>>)
RepB == Report("B", <<Block("registry", "x", 2)>>, <<Block("registry", "p", 2), Block("drives", "d", 2)>>)
RepC == Report("C", <<Block("registry", "x", 3)>>, <<Block("registry", "p", 3), Block("registry", "q", 3)>>)

Base ==
    [report |-> File(<<RepA, RepB, RepC>>),
     inheritance |-> File(<<Som(Dom, "domain", <<Link("A", 1)>>),
                            Som(Staff, "ou", <<Link("A", 1), Link("B", 2)>>),
                            Som(Lab, "ou", <<Link("C", 2), Link("A", 1)>>)>>),
     sites |-> Absent, metadata |-> Absent, wmiFilters |-> File({"wmi1"}),
     principals |-> File([u1 |-> [name |-> "u1", type |-> "User"], c1 |-> [name |-> "c1", type |-> "Computer"]]),
     groups |-> File([g1 |-> {"u1"}, g2 |-> {"g1"}]),
     inventory |-> NoSet(Absent), errors |-> NoSet(Absent),
     sysvol |-> [A |-> Folder, B |-> Folder]]

WithReport(coll, n, r) == [coll EXCEPT !.report.records[n] = r]
WithLinks(coll, n, links) == [coll EXCEPT !.inheritance.records[n].links = links]
WithFolder(coll, id, folder) == [coll EXCEPT !.sysvol[id] = folder]
Users(r, blocks) == [r EXCEPT !.sides["User"].blocks = blocks]
Looped(r, mode) == Users(r, Append(r.sides["User"].blocks,
    [Block("registry", "loopback", 1) EXCEPT
        !.loop = [state |-> "enabled", number |-> None, choice |-> mode, text |-> "unknown"]]))

----------------------------------------------------------------------------
(* Families.                                                               *)

(* Orders, enforcement, disabled links, ties, a link to no GPO, and chains *)
(* that two containers share or mirror.                                    *)
Precedence ==
    {WithLinks(Base, 2, <<[Link("A", i) EXCEPT !.enforced = e], [Link("B", j) EXCEPT !.enabled = on]>>) :
        i \in {NoNumber, 1, 2}, j \in {NoNumber, 1, 2}, e \in BOOLEAN, on \in BOOLEAN}
    \cup {WithLinks(WithLinks(Base, 2, <<Link("A", i), Link("B", 3 - i)>>), 3, <<Link("A", k), Link("B", 3 - k)>>) :
        i \in {1, 2}, k \in {1, 2}}
    \cup {WithLinks(Base, 2, <<Link("A", 1), Link(g, 2), Link("B", 3)>>) : g \in {"gone", None, "C"}}
    \cup {WithLinks(Base, 2, <<Link("A", 1), Link("A", 1)>>)}
    \cup {[Base EXCEPT !.sites = File(<<Som(p, "site", <<Link("B", NoNumber), Link(None, NoNumber), Link("C", NoNumber)>>)>>)] :
        p \in {<<"site">>, Dom}}

(* Memberships of two groups and a user, cycles included.                  *)
Membership ==
    {[Base EXCEPT !.groups = File([g1 |-> a, g2 |-> b, g3 |-> c])] :
        a \in {{"u1"}, {"u1", "g3"}, {"c1"}, {"AU"}}, b \in SUBSET {"g1", "DU"}, c \in {{}, {"g2"}}}

(* Delegation, and SDDL in both spellings, with denies.                    *)
Trustees == {Sid("DU"), Alias("DU"), Alias("AU"), Sid("u1"), Sid("g2")}
Filtering ==
    {WithReport(Base, 2, [RepB EXCEPT !.nested = {Grant(w, perm, TRUE), Grant(d, "read", FALSE)}]) :
        w \in {"g2", "AU", "WD"}, perm \in {"apply", "edit"}, d \in {"g1", "c1"}}
    \cup {WithReport(Base, 2, [RepB EXCEPT !.nested = {[Grant("u9", "full", TRUE) EXCEPT !.label = "blank"]}])}
    \cup {WithReport(Base, 2, [RepB EXCEPT !.permissionsPresent = FALSE,
            !.sddl = Acl(Sid("u9"), {Ace("A", {"CR", "RP"}, t), Ace("XD", {"CR"}, d)})]) :
        t \in Trustees, d \in {Sid("AU"), Alias("DU"), Alias("BA")}}
    \cup {WithReport(Base, 2, [RepB EXCEPT !.nested = {}, !.flat = {Grant("AU", "apply", TRUE)}, !.sddl =
            [Acl(Alias("DA"), {Ace("A", {"GW"}, Sid("g1"))}) EXCEPT !.oversized = over]]) : over \in BOOLEAN}

(* Loopback on the computer's chain, from one GPO or two that disagree,    *)
(* and beside WMI filters.                                                 *)
Looping ==
    {[WithLinks(Base, 3, <<Link("C", i), Link("A", 3 - i)>>) EXCEPT
        !.report = File(<<IF twice THEN Looped(RepA, "merge") ELSE RepA, RepB, Looped(RepC, mode)>>),
        !.groups = File([g1 |-> {"u1"}, g2 |-> {"g1"}])] :
        mode \in {"merge", "replace"}, i \in {1, 2}, twice \in BOOLEAN}
Loopback ==
    Looping
    \cup {[WithLinks(WithLinks(Base, 2, <<Link("A", 1), Link("B", 9)>>), 3, <<Link("C", 1)>>) EXCEPT
        !.report = File(<<RepA, RepB, Looped(RepC, "merge")>>),
        !.metadata = File(<<[id |-> g, wmi |-> w, versions |-> [Computer |-> NoVersion, User |-> NoVersion]]>>)] :
        g \in {"B", "C", "Z"}, w \in {"wmi1", "missing", None}}

(* Preference actions, script union, blocks and Registry.pol, audit.       *)
Pol(kinds) == [i \in DOMAIN kinds |-> [kind |-> kinds[i], id |-> <<"k1", "k2", "k3">>[i], value |-> i]]
BlockedX == [Block("registry", "blocked", -1) EXCEPT !.kind = "blocked"]
AuditBlock(id, v) == [Block("audit", id, v) EXCEPT !.kind = "audit"]
Settings ==
    {WithReport(WithReport(Base, 1, Users(RepA, <<Act(Block("drives", "d", 1), a)>>)), 2,
                Users(RepB, <<Act(Block("drives", "d", 2), b), Block("scripts", "s", 1), Block("scripts", "s", 2)>>)) :
        a \in {"C", "R", "U", "D", "Z"}, b \in {"C", "U", "D"}}
    \cup {WithFolder(WithReport(Base, 1, [RepA EXCEPT !.sides["User"] =
                        [Part(<<BlockedX>>) EXCEPT !.enabled = on]]),
                     "A", [Folder EXCEPT !.pol["User"] = Pol(kinds), !.escapes = out]) :
        on \in BOOLEAN, out \in BOOLEAN,
        kinds \in {<<>>, <<"torn", "record">>, <<"record", "stray", "record">>, <<"record", "torn", "record">>}}
    \cup {WithFolder(WithReport(Base, 1, [RepA EXCEPT !.sides["Computer"] =
                        Part(<<AuditBlock("logon", 1), AuditBlock("logon", 2)>>)]),
                     "A", [Folder EXCEPT !.audit = csv]) :
        csv \in {Absent, Corrupt, File(<<[valid |-> TRUE, id |-> "logon", value |-> 3],
                                         [valid |-> TRUE, id |-> "logoff", value |-> 1],
                                         [valid |-> FALSE, id |-> None, value |-> -1]>>)}}

(* Paths: what a value spells, as a script, a drive or a preference file.  *)
Unc(host, share, tail) == [prefix |-> "unc", host |-> host, share |-> share, tail |-> tail,
                           odd |-> FALSE, fixed |-> TRUE]
Own(id) == Unc("dom", "sysvol", <<"dom", "policies", id, "Machine", "Scripts", "run">>)
Spellings == <<Unc("srv", "share", <<"f">>), Own("B"), Own(None), Own("A"), Unc("srv", None, <<>>),
               [Unc(None, None, <<"run">>) EXCEPT !.prefix = "local"],
               [Unc("srv", "davwwwroot", <<"run">>) EXCEPT !.fixed = FALSE],
               [Unc("srv", "pipe", <<>>) EXCEPT !.odd = TRUE]>>
MCPathsIn(value) == IF value \in 101..108 THEN Spellings[value - 100] ELSE NoPath
Trees == {[readable |-> TRUE, files |-> {<<"Machine", "Scripts", "run">>}, links |-> {}],
          [readable |-> TRUE, files |-> {}, links |-> {}],
          [readable |-> TRUE, files |-> {}, links |-> {<<"Machine">>}],
          [readable |-> FALSE, files |-> {}, links |-> {}]}
Paths ==
    {WithFolder(WithReport(Base, 2, Users(RepB, <<Block(cse, "s", v), Block("drives", "d", 108)>>)),
                "B", [Folder EXCEPT !.tree = tree,
                        !.files = {[Prefs("files.xml") EXCEPT !.refs =
                            {[side |-> "User", type |-> "file_copy", target |-> Spellings[n]]}]}]) :
        cse \in {"scripts", "drives"}, v \in 101..108, tree \in Trees, n \in {1, 2, 6}}

(* Failures of files, of the report and of the policy folders.             *)
Bad(coll) == {[coll EXCEPT !.report.state = s] : s \in {"absent", "corrupt", "unreadable"}}
             \cup {[coll EXCEPT !.inventory = NoSet(Corrupt)], [coll EXCEPT !.errors = NoSet(Corrupt)]}
Failures ==
    Bad(Base)
    \cup {[Base EXCEPT !.inheritance = Corrupt], [Base EXCEPT !.principals = Corrupt, !.groups = Absent],
          [Base EXCEPT !.report = File(<<RepA, RepA>>)],
          [Base EXCEPT !.report = File(<<RepA, [RepB EXCEPT !.id = None]>>)],
          [Base EXCEPT !.sysvol = NoSysvol]}
    \cup {[Base EXCEPT !.inventory = i, !.errors = e] :
            i \in {NoSet(Absent), File({[id |-> "A"], [id |-> "H"], [id |-> None]})},
            e \in {NoSet(Absent), File({[id |-> "H"], [id |-> "E"]})}}
    \cup {WithFolder(Base, "B", [Folder EXCEPT !.files = {[Prefs("drives.xml") EXCEPT !.wellFormed = ok,
                !.locked = l, !.filters = TRUE], [Prefs("drives.xml") EXCEPT !.depth = 1]}, !.lockedSides = s]) :
            ok \in BOOLEAN, l \in BOOLEAN, s \in {{}, {"User"}}}

(* Targeted items, with passwords and local groups beside them.            *)
Targeted ==
    {WithFolder(WithLinks(Base, 2, <<Link("A", i), Link("B", 3 - i)>>), "B",
                [Folder EXCEPT !.files = {[Prefs("drives.xml") EXCEPT !.filters = TRUE, !.cpassword = c,
                                            !.groups = {[admin |-> TRUE, added |-> {"u1"}]}]}]) :
        i \in {1, 2}, c \in BOOLEAN}

(* Filters that meet loopback, a computer's chain, targeting and nested or *)
(* cyclic groups.                                                          *)
WithB(coll, other) == WithReport(coll, 2, other.report.records[2])
WithGroups(coll, other) == [coll EXCEPT !.groups = other.groups]
Nested == {m \in Membership : m.groups.records.g2 = {"g1"}}
Crossed ==
    {WithB(l, f) : l \in Looping, f \in Filtering}
    \cup {WithLinks(f, 3, <<Link("C", 2), Link("B", 1)>>) : f \in Filtering}
    \cup {WithB(t, f) : t \in Targeted, f \in Filtering}
    \cup {WithGroups(f, m) : f \in Filtering, m \in Nested}

(* What a next collection finds: the same estate after some edits.         *)
Bumped(r) == [r EXCEPT !.sides["User"].versions = [ds |-> "2", sysvol |-> "2"]]
Drift ==
    {Base, WithReport(Base, 2, Users(RepB, <<Block("registry", "p", 4), Block("drives", "d", 2)>>)),
     WithReport(Base, 2, Bumped(Users(RepB, <<Block("registry", "p", 3)>>))),
     WithReport(Base, 2, Users(RepB, <<Block("registry", "p", 3), Block("registry", "p", 2)>>)),
     WithReport(Base, 2, [Bumped(RepB) EXCEPT !.name = "B2"]),
     WithReport(Base, 2, [RepB EXCEPT !.sides["User"].enabled = FALSE, !.links = {}]),
     [Base EXCEPT !.report = File(<<RepA, RepC>>)],
     [Base EXCEPT !.report = File(<<[RepB EXCEPT !.nested = {Grant("u1", "full", TRUE)}]>>)]}

MCFirst == Precedence \cup Membership \cup Filtering \cup Loopback \cup Settings \cup Paths \cup Failures
           \cup Targeted \cup Crossed \cup Drift
MCLater(first) == IF first \in Drift \cup Targeted THEN Drift \cup Targeted ELSE {}

MCRules == [readable |-> TRUE, entries |->
    {[id |-> "r1", applies |-> "Both", identity |-> "p", predicate |-> "min", value |-> 2, values |-> {}, complete |-> TRUE],
     [id |-> "r2", applies |-> "Machine", identity |-> "policy x", predicate |-> "in", value |-> 0, values |-> {1, 3}, complete |-> TRUE],
     [id |-> "r3", applies |-> "Both", identity |-> "never", predicate |-> "absent", value |-> 0, values |-> {}, complete |-> TRUE],
     [id |-> "r4", applies |-> "Both", identity |-> "p", predicate |-> "between", value |-> 0, values |-> {}, complete |-> TRUE]}]
MCOverrides == <<[readable |-> TRUE, entries |->
    {[id |-> "r3", applies |-> "User", identity |-> "q", predicate |-> "absent", value |-> 0, values |-> {}, complete |-> TRUE]}]>>
MCAdmx == [x |-> "policy x"]
MCParts(id) == <<IF id \in {"p", "q"} THEN "key1" ELSE "key2", id>>
MCTemplates ==
    {[name |-> "policy x", scope |-> "Machine", key |-> "key2", value |-> "x"],
     [name |-> "policy k", scope |-> "Both", key |-> "key1", value |-> None],
     [name |-> "policy u", scope |-> "User", key |-> "key2", value |-> "x"]}
=============================================================================
