---------------------------- MODULE Dependencies ----------------------------
(***************************************************************************)
(* The paths a GPO names, src/gpo_lens/dependencies.py: which of them lead *)
(* to another server, which into the GPO's own policy folder, which are    *)
(* malformed, and which of its own files are missing from the copy.        *)
(*                                                                         *)
(* A path is [prefix, host, share, tail, odd, fixed]: prefix "unc",        *)
(* "device" or "local"; tail the components below the share, or of a local *)
(* path; odd, a character no path has; fixed, no wildcard or variable and, *)
(* when local, no drive, root or "..".                                     *)
(***************************************************************************)
EXTENDS Detectors

CONSTANTS PathsIn(_),     \* the path a setting's value spells, NoPath if none
          DomainName      \* the DNS name of the GPOs' domain

NoPath == [prefix |-> None]

(* dependency_type, of the extensions the estates here have.               *)
DependencyType(cse) ==
    CASE cse = "drives" -> "drive_mapping" [] cse = "scripts" -> "script"
      [] cse = "printers" -> "printer_connection" [] cse = "files" -> "file_copy"
      [] cse = "scheduledtasks" -> "scheduled_task_action" [] OTHER -> "unc_path"

(* path_references: the preference files' path attributes, then what the   *)
(* settings name; a local path counts only as a script's or task's command.*)
Commands == {"script", "scheduled_task_action"}
PathReferences(g) ==
    LET type(s) == DependencyType(s.cse)
        names(s) == PathsIn(s.value) # NoPath /\ (PathsIn(s.value).prefix # "local" \/ type(s) \in Commands)
        named == Kept(g.settings, {i \in DOMAIN g.settings : names(g.settings[i])})
    IN  SetToSeq(g.paths) \o [i \in DOMAIN named |->
            [side |-> named[i].side, type |-> type(named[i]), target |-> PathsIn(named[i].value)]]

(* classify_windows_path.                                                  *)
ClassifyWindowsPath(p) ==
    CASE p.prefix = "local" -> "local"
      [] p.prefix = "device" -> IF p.share = "pipe" THEN "named_pipe" ELSE "device"
      [] p.prefix = "unc" /\ (p.host = None \/ p.share = None \/ p.odd) -> "malformed"
      [] p.prefix = "unc" /\ p.share = "pipe" -> "named_pipe"
      [] p.prefix = "unc" /\ p.share = "davwwwroot" -> "webdav"
      [] OTHER -> "unc"
HasUncParts(p) == ClassifyWindowsPath(p) \in {"unc", "webdav"}

(* own_sysvol_parts and malformed_path: \\domain\sysvol\domain\policies\id *)
(* leads into the policy folder of that id; anything else there than a     *)
(* GUID is malformed.                                                      *)
InPolicies(p) ==
    /\ HasUncParts(p) /\ p.host = DomainName /\ p.share = "sysvol"
    /\ Len(p.tail) >= 3 /\ p.tail[1] = DomainName /\ p.tail[2] = "policies"
OwnSysvol(g, p) == InPolicies(p) /\ Len(p.tail) >= 4 /\ p.tail[3] = g.id
OwnParts(p) == SubSeq(p.tail, 4, Len(p.tail))
MalformedPath(p) ==
    \/ ClassifyWindowsPath(p) = "malformed"
    \/ InPolicies(p) /\ p.tail[3] = None
    \/ p.odd

(* _collected_file_missing: a folder that is not there, or a symbolic link *)
(* on the way, proves nothing.                                             *)
CollectedFileMissing(tree, parts) ==
    /\ tree.readable /\ parts \notin tree.files
    /\ \A n \in DOMAIN parts : SubSeq(parts, 1, n) \notin tree.links

(* missing_own_reference: a file of the GPO's own folder, or a relative    *)
(* script that none of the folders scripts are kept in has.                *)
ScriptFolders == {<<side, "Scripts">> : side \in {"Machine", "User"}}
    \cup {<<side, "Scripts", sub>> : side \in {"Machine", "User"},
                                     sub \in {"Logon", "Logoff", "Startup", "Shutdown"}}
MissingOwnReference(g, r) ==
    /\ g.attached /\ ~MalformedPath(r.target) /\ r.target.fixed
    /\ IF OwnSysvol(g, r.target) THEN CollectedFileMissing(g.tree, OwnParts(r.target))
       ELSE /\ r.type = "script" /\ r.target.prefix = "local"
            /\ \A folder \in ScriptFolders : CollectedFileMissing(g.tree, folder \o r.target.tail)

(* broken_refs: one finding per GPO and target, of the first reference.    *)
BrokenKind(r) ==
    CASE MalformedPath(r.target) -> "malformed_path"
      [] ~MalformedPath(r.target) /\ r.type = "script" -> "missing_script"
      [] ~MalformedPath(r.target) /\ r.type = "scheduled_task_action" -> "scheduled_task_path"
      [] OTHER -> "gpp_file_ref"
BrokenRefs(est) ==
    UNION {LET refs == PathReferences(g)
               bad == {i \in DOMAIN refs : MalformedPath(refs[i].target) \/ MissingOwnReference(g, refs[i])}
               first == {i \in bad : \A j \in bad : refs[j].target = refs[i].target => i <= j}
           IN  {<<g.id, BrokenKind(refs[i]), refs[i].target>> : i \in first}
           : g \in GposOf(est)}

(* external_dependencies, by server.                                       *)
ExternalOf(g) ==
    {r \in {PathReferences(g)[i] : i \in DOMAIN PathReferences(g)} :
        HasUncParts(r.target) /\ ~MalformedPath(r.target) /\ ~OwnSysvol(g, r.target)}
ExternalDependencies(est) ==
    LET all == UNION {{[gpo |-> g.id, ref |-> r] : r \in ExternalOf(g)} : g \in GposOf(est)}
    IN  {[server |-> host, refs |-> {d \in all : d.ref.target.host = host}] :
            host \in {d.ref.target.host : d \in all}}
=============================================================================
