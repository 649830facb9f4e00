--------------------------- MODULE FindingTriage ---------------------------
(***************************************************************************)
(* Triage decisions on findings: the append-only table                     *)
(* finding_triage_event, the folds that give a finding's current status    *)
(* and the accepted-risk register, and the writers, which run beside the   *)
(* imports and deletions of FindingLifecycle and take no lock with them.   *)
(*                                                                         *)
(* A web request triages in three steps, each a statement or a value of    *)
(* its own: triage_finding reads whether the finding is open,              *)
(* append_triage_event reads whether its identity is stable and takes the  *)
(* time, and the INSERT commits once it gets the database.  The expiry     *)
(* sweep reads every status before it opens its transaction.               *)
(***************************************************************************)
EXTENDS FindingLifecycle, Folds, Functions

CONSTANTS
    Requests,       \* concurrent writers
    Actions,        \* the actions the writers use
    Expiries,       \* the expires_at of an acceptance, NoExpiry for none
    MaxClock,       \* bound: the clock
    MaxEvents       \* bound: events ever recorded

TriageActions == {"commented", "acknowledged", "reopened", "accepted_risk",
                  "risk_acceptance_expired", "risk_acceptance_revoked"}

NoExpiry == 0

ASSUME ActionsAssumption == Actions \subseteq TriageActions
ASSUME ExpiriesAssumption == Expiries \subseteq Nat
ASSUME TriageBoundsAssumption == MaxClock \in Nat \ {0} /\ MaxEvents \in Nat

VARIABLES
    unstable,       \* the fingerprints without a stable subject: the detectors' choice
    clock,          \* _now_iso(), the wall clock at its resolution
    event,          \* finding_triage_event: id -> event
    nextEvent,      \* its sqlite_sequence
    request,        \* each writer's step and what it carries
    sweep           \* the findings a running expiry sweep has found due

triageVars == <<unstable, clock, event, nextEvent, request, sweep>>
allVars == <<vars, triageVars>>

Event == [finding : Nat, action : TriageActions, at : Nat, expires : Nat]

Idle == [step |-> "idle"]
Request == {Idle} \cup
    [step : {"checked"}, finding : Nat, action : TriageActions, expires : Nat]
    \cup [step : {"stamped"}, event : Event]
NotSweeping == [step |-> "idle"]
Sweep == {NotSweeping} \cup [step : {"read"}, since : Nat, due : SUBSET Nat]

\* Every event belongs to a finding that is there: the table's foreign key.
TriageTypeOK ==
    /\ unstable \subseteq Fingerprints
    /\ clock \in 1 .. MaxClock
    /\ nextEvent \in Nat \ {0}
    /\ DOMAIN event \subseteq 1 .. nextEvent - 1
    /\ event \in [DOMAIN event -> Event]
    /\ \A e \in DOMAIN event : event[e].finding \in DOMAIN finding
    /\ request \in [Requests -> Request]
    /\ sweep \in Sweep

-----------------------------------------------------------------------------
(* The folds.                                                              *)

Opening == {"reopened", "risk_acceptance_revoked", "risk_acceptance_expired"}

\* Mutant: by time, then id.
TriageOrder_ById(d, e) ==
    event[d].at < event[e].at \/ (event[d].at = event[e].at /\ d < e)

\* _triage_order: by time, then the actions that open a finding last, then id.
TriageOrder(d, e) ==
    \/ event[d].at < event[e].at
    \/ /\ event[d].at = event[e].at
       /\ \/ event[d].action \notin Opening /\ event[e].action \in Opening
          \/ /\ event[d].action \in Opening <=> event[e].action \in Opening
             /\ d < e

EventsOf(i) == {e \in DOMAIN event : event[e].finding = i}

\* The last of some events in that order, and a pass over the events of a
\* finding from the first to the last.
LastOf(events) == CHOOSE e \in events : \A d \in events : d = e \/ TriageOrder(d, e)

FoldEvents(After(_,_), start, i) ==
    MapThenFoldSet(LAMBDA e, x : After(x, e), start, LAMBDA e : e, LastOf, EventsOf(i))

\* Mutant: an expiry outlives the acceptance it belonged to.
StatusAfter_KeepsExpiry(status, e) ==
    LET act == event[e].action
    IN CASE act = "acknowledged"  -> [status EXCEPT !.state = "acknowledged"]
         [] act = "accepted_risk" -> [state |-> "accepted_risk",
                                      expires |-> IF event[e].expires = NoExpiry
                                                  THEN status.expires ELSE event[e].expires]
         [] act = "reopened"      -> [status EXCEPT !.state = "open"]
         [] act \in {"risk_acceptance_expired", "risk_acceptance_revoked"}
               /\ status.state = "accepted_risk" -> [status EXCEPT !.state = "open"]
         [] OTHER -> status

StatusAfter(status, e) ==
    LET act == event[e].action
    IN CASE act = "acknowledged"  -> [state |-> "acknowledged", expires |-> NoExpiry]
         [] act = "accepted_risk" -> [state |-> "accepted_risk", expires |-> event[e].expires]
         [] act = "reopened"      -> [state |-> "open", expires |-> NoExpiry]
         [] act \in {"risk_acceptance_expired", "risk_acceptance_revoked"}
               /\ status.state = "accepted_risk" -> [state |-> "open", expires |-> NoExpiry]
         [] OTHER -> status

\* fold_triage.
NoStatus == [state |-> "open", expires |-> NoExpiry]
Status(i) == FoldEvents(StatusAfter, NoStatus, i)

\* Mutant: a reopening does not cancel the acceptance.
RegisterAfter_KeepsReopened(entry, e) ==
    LET act == event[e].action
    IN CASE act = "accepted_risk" -> [accepted |-> TRUE, revoked |-> FALSE, expired |-> FALSE,
                                      expires |-> event[e].expires]
         [] act = "risk_acceptance_revoked" -> [entry EXCEPT !.revoked = @ \/ entry.accepted]
         [] act = "risk_acceptance_expired" -> [entry EXCEPT !.expired = @ \/ entry.accepted]
         [] OTHER -> entry

RegisterAfter(entry, e) ==
    LET act == event[e].action
    IN CASE act = "accepted_risk" -> [accepted |-> TRUE, revoked |-> FALSE, expired |-> FALSE,
                                      expires |-> event[e].expires]
         [] act \in {"risk_acceptance_revoked", "reopened"}
               -> [entry EXCEPT !.revoked = @ \/ entry.accepted]
         [] act = "risk_acceptance_expired" -> [entry EXCEPT !.expired = @ \/ entry.accepted]
         [] OTHER -> entry

\* accepted_risk_register, the entry of one finding.  It leaves out events
\* after as_of, and as_of is now: there are none.
NoEntry == [accepted |-> FALSE, revoked |-> FALSE, expired |-> FALSE, expires |-> NoExpiry]
RegisterEntry(i) == FoldEvents(RegisterAfter, NoEntry, i)

PastExpiry(expires) == expires # NoExpiry /\ expires =< clock

\* What the register reports as active and as expired.
ActiveAcceptance(i) ==
    LET r == RegisterEntry(i)
    IN r.accepted /\ ~r.revoked /\ ~r.expired /\ ~PastExpiry(r.expires)

\* The briefing's overdue decisions: those it says are "actionable again".
OverdueAcceptance(i) ==
    LET r == RegisterEntry(i)
    IN r.accepted /\ ~r.revoked /\ r.expires # NoExpiry /\ (r.expired \/ PastExpiry(r.expires))

\* The inbox filtered on a triage status.
Inbox(state) == {i \in ActiveFindings : Status(i).state = state}

-----------------------------------------------------------------------------
(* The writers.                                                            *)

Carrying == {"acknowledged", "accepted_risk"}

\* triage_finding, from the web form: only for a finding read as open, and
\* never with an expiry.
CheckFinding(w, i, act) ==
    /\ request[w] = Idle
    /\ act \in {"reopened", "acknowledged", "accepted_risk"}
    /\ i \in ActiveFindings
    /\ request' = [request EXCEPT ![w] =
          [step |-> "checked", finding |-> i, action |-> act, expires |-> NoExpiry]]
    /\ UNCHANGED <<vars, unstable, clock, event, nextEvent, sweep>>

\* A call of append_triage_event itself: any action, on any finding.
CallAppend(w, i, act, expires) ==
    /\ request[w] = Idle
    /\ act \in Actions
    /\ i \in DOMAIN finding
    /\ request' = [request EXCEPT ![w] =
          [step |-> "checked", finding |-> i, action |-> act, expires |-> expires]]
    /\ UNCHANGED <<vars, unstable, clock, event, nextEvent, sweep>>

\* Mutant: only risk acceptances are refused.
MayRecord_RiskOnly(i, act) ==
    act = "accepted_risk" /\ i \in DOMAIN finding => finding[i].key \notin unstable

\* May append_triage_event record the action?  A decision on a finding whose
\* identity is not stable is refused; a row that is gone is not refused yet.
MayRecord(i, act) ==
    act \in Carrying /\ i \in DOMAIN finding => finding[i].key \notin unstable

StampEvent(w) ==
    LET q == request[w]
    IN /\ q.step = "checked"
       /\ request' = [request EXCEPT ![w] =
             IF MayRecord(q.finding, q.action)
             THEN [step |-> "stamped",
                   event |-> [finding |-> q.finding, action |-> q.action,
                              at |-> clock, expires |-> q.expires]]
             ELSE Idle]
       /\ UNCHANGED <<vars, unstable, clock, event, nextEvent, sweep>>

\* The INSERT, which the foreign key refuses when the finding is gone.
InsertEvent(w) ==
    LET q == request[w]
    IN /\ q.step = "stamped"
       /\ nextEvent =< MaxEvents
       /\ IF q.event.finding \in DOMAIN finding
            THEN /\ event' = [e \in DOMAIN event \cup {nextEvent} |->
                                 IF e = nextEvent THEN q.event ELSE event[e]]
                 /\ nextEvent' = nextEvent + 1
            ELSE UNCHANGED <<event, nextEvent>>
       /\ request' = [request EXCEPT ![w] = Idle]
       /\ UNCHANGED <<vars, unstable, clock, sweep>>

\* expire_risk_acceptances reads the status map, then inserts an event for
\* each acceptance that was due, by id, all of them or none.  The first one is
\* stamped before the INSERT waits for the database.
DueForExpiry ==
    {i \in DOMAIN finding : Status(i).state = "accepted_risk" /\ PastExpiry(Status(i).expires)}

SweepRead ==
    /\ sweep = NotSweeping
    /\ DueForExpiry # {}
    /\ sweep' = [step |-> "read", since |-> clock, due |-> DueForExpiry]
    /\ UNCHANGED <<vars, unstable, clock, event, nextEvent, request>>

SweepWrite ==
    LET ids == nextEvent .. nextEvent + Cardinality(sweep.due) - 1
    IN /\ sweep.step = "read"
       /\ nextEvent + Cardinality(sweep.due) =< MaxEvents + 1
       /\ IF sweep.due \subseteq DOMAIN finding
            THEN \E first \in sweep.since .. clock, due \in [ids -> sweep.due] :
                   /\ \A d, e \in ids : d < e => due[d] < due[e]
                   /\ event' = [e \in DOMAIN event \cup ids |->
                          IF e \in ids
                          THEN [finding |-> due[e],
                                action  |-> "risk_acceptance_expired",
                                at      |-> IF e = nextEvent THEN first ELSE clock,
                                expires |-> NoExpiry]
                          ELSE event[e]]
                   /\ nextEvent' = nextEvent + Cardinality(sweep.due)
            ELSE UNCHANGED <<event, nextEvent>>
       /\ sweep' = NotSweeping
       /\ UNCHANGED <<vars, unstable, clock, request>>

Tick ==
    /\ clock < MaxClock
    /\ clock' = clock + 1
    /\ UNCHANGED <<vars, unstable, event, nextEvent, request, sweep>>

\* Mutant: the events carry no foreign key.
SurvivingEvents_All(gone) == DOMAIN event

\* The events ON DELETE CASCADE leaves when findings are deleted.
SurvivingEvents(gone) == {e \in DOMAIN event : event[e].finding \notin gone}

\* An import writes no event.
ImportBeside ==
    /\ Import
    /\ UNCHANGED triageVars

DeleteBeside ==
    /\ Delete
    /\ event' = Restrict(event, SurvivingEvents(DOMAIN finding \ DOMAIN finding'))
    /\ UNCHANGED <<unstable, clock, nextEvent, request, sweep>>

-----------------------------------------------------------------------------
TriageInit ==
    /\ Init
    /\ unstable \in SUBSET Fingerprints
    /\ clock = 1
    /\ event = [e \in {} |-> NULL] /\ nextEvent = 1
    /\ request = [w \in Requests |-> Idle]
    /\ sweep = NotSweeping

TriageNext ==
    \/ ImportBeside \/ DeleteBeside \/ Tick \/ SweepRead \/ SweepWrite
    \/ \E w \in Requests :
          \/ StampEvent(w) \/ InsertEvent(w)
          \/ \E i \in DOMAIN finding, act \in TriageActions :
                \/ CheckFinding(w, i, act)
                \/ \E expires \in IF act = "accepted_risk" THEN Expiries ELSE {NoExpiry} :
                      CallAppend(w, i, act, expires)

TriageSpec == TriageInit /\ [][TriageNext]_allVars

-----------------------------------------------------------------------------
(* Properties.                                                             *)

\* The two folds over the log agree on every acceptance the inbox shows: the
\* register has it, with the same expiry, neither revoked nor expired by an
\* event.
RegisterHasEveryAcceptance ==
    \A i \in DOMAIN finding : Status(i).state = "accepted_risk" =>
        LET r == RegisterEntry(i)
        IN r.accepted /\ ~r.revoked /\ ~r.expired /\ r.expires = Status(i).expires

\* An acceptance the register counts as active is of a finding the inbox does
\* not list as open.
ActiveAcceptanceIsDecided ==
    \A i \in DOMAIN finding : ActiveAcceptance(i) => Status(i).state # "open"

\* When a decision and a reopening carry the same instant, and nothing comes
\* later, the finding is open, whichever of the two was committed first.
ReopeningWinsTheInstant ==
    \A e \in DOMAIN event :
        /\ event[e].action = "reopened"
        /\ \A d \in DOMAIN event : event[d].finding = event[e].finding => event[d].at =< event[e].at
        => Status(event[e].finding).state = "open"

\* A finding without a stable identity is never decided: the decision would
\* stay on an occurrence the next import resolves.
UnstableNeverDecided ==
    \A i \in DOMAIN finding : finding[i].key \in unstable => Status(i).state = "open"

OpenStatuses(k) == {Status(i).state : i \in {j \in ActiveFindings : finding[j].key = k}}

\* A fingerprint that was open and is observed again keeps its one status
\* through the import.
DecisionsSurviveImports ==
    [][\A k \in Fingerprints :
          /\ nextRun' = nextRun + 1
          /\ k \in ObservedIn(nextRun - 1)'
          /\ OpenStatuses(k) # {}
          => OpenStatuses(k)' = OpenStatuses(k)]_allVars

\* An open finding whose acceptance the briefing reports as expired is listed
\* by the inbox as open: it is "actionable again".
ExpiredIsActionable ==
    \A i \in ActiveFindings : OverdueAcceptance(i) => i \in Inbox("open")

=============================================================================
