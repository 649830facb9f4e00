----------------------------- MODULE MCServer ------------------------------
(***************************************************************************)
(* The operation of an installation in the bounded check: the start of the *)
(* web server and of an import against a database of some age, the         *)
(* requests the server then takes, the events its processes append, and    *)
(* the export of events.  These share no state while they last (an export  *)
(* is of one query's rows), so each behaviour takes up one of them.        *)
(***************************************************************************)
EXTENDS SchemaMigration, WebServer, EventChain, EventExport

VARIABLE duty

vars == <<duty, migrationVars, serverVars, chainVars, exportVars>>

(* Databases: none, releases before and after the log of events and the    *)
(* keyed gaps, one that two APIs wrote to, and one of a newer release.     *)
OldRow(id, status, at, rationale) ==
    [id |-> id, finding |-> IF id = 3 THEN "gone" ELSE "f", status |-> status, at |-> at,
     note |-> "n", rationale |-> rationale]
MCTables == <<"gpo", "coverage_gap", "finding", "finding_triage", "finding_observation">>
MCBornWith == [t \in Range(MCTables) |-> IF t = "gpo" THEN {"description"} ELSE {}]
MCEarly == <<"description", "series_key", "expires_at">>
NoDatabase ==
    [version |-> 0, tables |-> {}, columns |-> {}, gapKey |-> "kind", spare |-> FALSE,
     spareGaps |-> {}, gaps |-> {}, findings |-> {}, register |-> {}, log |-> <<>>]
Six ==
    [NoDatabase EXCEPT !.version = 6, !.tables = Range(MCTables), !.columns = Range(MCEarly),
       !.gapKey = "old", !.gaps = {"g1", "g2"}, !.findings = {"f"},
       !.register = {OldRow(1, "accepted_risk", 2, ""), OldRow(2, "open", 1, ""),
                     OldRow(3, "open", 1, ""), OldRow(4, "open", 1, "")}]
Three == [Six EXCEPT !.version = 3, !.columns = {"description"}, !.register = {},
            !.tables = Range(MCTables) \ {"finding_observation"}]
Seven == [Six EXCEPT !.version = 7, !.gapKey = "kind", !.log = <<EventOf(OldRow(2, "open", 1, ""))>>]
MCOrigins == {NoDatabase, Three, Six, Seven, [Six EXCEPT !.version = 11]}

(* Requests: a page, a page asked of another name, a probe, a page from    *)
(* another machine, and a form of another site's.  One limiter: the three  *)
(* share nothing.                                                          *)
Page == [client |-> "here", loopback |-> TRUE, hosts |-> <<<<"localhost", "8000">>>>,
         method |-> "GET", route |-> "page", origin |-> "none", referer |-> "none",
         length |-> "small", token |-> "none", needs |-> "view"]
MCRequests ==
    {Page,
     [Page EXCEPT !.hosts = <<<<"elsewhere", "80">>>>],
     [Page EXCEPT !.route = "healthz", !.needs = "nothing"],
     [Page EXCEPT !.client = "there", !.loopback = FALSE],
     [Page EXCEPT !.method = "POST", !.origin = "foreign", !.referer = "same host", !.needs = "triage"]}
MCLimits == [general |-> [max |-> 2, window |-> 3]]
MCHosts == {<<"localhost", AnyPort>>}

(* Events whose times are not in the order of their ids.                   *)
MCEvents == <<1, 3, 2, 3>>

Init ==
    /\ duty \in {"starting", "serving", "appending", "exporting"}
    /\ MigrationInit /\ (duty # "starting" => origin = NoDatabase)
    /\ ChainInit /\ (duty # "appending" => log = <<>>)
    /\ ServerInit /\ ExportInit

Starting ==
    duty = "starting" /\ MigrationNext /\ UNCHANGED <<duty, serverVars, chainVars, exportVars>>
Serving ==
    duty = "serving" /\ ServerNext /\ UNCHANGED <<duty, migrationVars, chainVars, exportVars>>
Appending ==
    duty = "appending" /\ ChainNext /\ UNCHANGED <<duty, migrationVars, serverVars, exportVars>>
Exporting ==
    duty = "exporting" /\ ExportNext /\ UNCHANGED <<duty, migrationVars, serverVars, chainVars>>

Fairness ==
    \A p \in Processes :
        WF_vars(duty = "starting" /\ Proceed(p)
                   /\ UNCHANGED <<duty, serverVars, chainVars, exportVars>>)

Spec == Init /\ [][Starting \/ Serving \/ Appending \/ Exporting]_vars /\ Fairness

StartedProcessesFinish == duty = "starting" => MigrationCompletes
TypeOK == MigrationTypeOK /\ ServerTypeOK /\ ChainTypeOK /\ ExportTypeOK
=============================================================================
