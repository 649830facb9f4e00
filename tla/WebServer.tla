----------------------------- MODULE WebServer -----------------------------
(***************************************************************************)
(* What a request passes before its handler runs: the host allow-list, the *)
(* rate limiter, the cross-site check, the body limit and the permission   *)
(* of the route, in that order, so that a request a later check turns away *)
(* has used up its sender's allowance.  The limiter keeps the times of the *)
(* requests it let through and forgets clients now and then; it runs on    *)
(* the event loop, one check at a time.                                    *)
(***************************************************************************)
EXTENDS Integers, Sequences, FiniteSets, Functions, SequencesExt

CONSTANTS
    Limits,             \* limiter |-> [max : requests, window : ticks]
    Requests,           \* the requests the clients send
    AllowedHosts,       \* <<host, port>> pairs; AnyPort for a bare host
    AnyPort,
    TokenConfigured,    \* GPO_LENS_AUTH_TOKEN is set
    TicksPerSecond,     \* the clock is finer than Retry-After
    CleanupInterval,    \* _CLEANUP_INTERVAL
    MaxTicks            \* bound: ticks of the clock

ASSUME ServerAssumption ==
    /\ \A l \in DOMAIN Limits : Limits[l].max \in Nat \ {0} /\ Limits[l].window \in Nat \ {0}
    /\ TicksPerSecond \in Nat \ {0} /\ CleanupInterval \in Nat \ {0} /\ MaxTicks \in Nat

VARIABLES
    now,                \* time.monotonic
    times,              \* for each limiter, the clients it knows and their requests
    checks,             \* for each limiter, checks since the last eviction
    admitted,           \* history: every time each limiter let each client through
    last                \* history: the last request, its answer, and when

serverVars == <<now, times, checks, admitted, last>>

Clients == {r.client : r \in Requests}

----------------------------------------------------------------------------
(* The parts of the stack that keep nothing.                               *)

\* One Host header, well formed, and allowed with its port or with any.
HostAllowed(req) ==
    /\ Len(req.hosts) = 1
    /\ \E port \in {req.hosts[1][2], AnyPort} : <<req.hosts[1][1], port>> \in AllowedHosts

\* The Referer speaks only for a request without an Origin.
SameOrigin(req) ==
    LET claimed == IF req.origin # "none" THEN req.origin ELSE req.referer
    IN claimed \in {"loopback", "same host"}

CsrfPasses(req) == req.method \in {"POST", "PUT", "PATCH", "DELETE"} => SameOrigin(req)

BodyAccepted(req) ==
    req.method = "POST" /\ req.length = "large" => req.route \in {"ingest", "baseline", "golden-diff"}

LocalPermissions == {"view", "ingest", "triage", "narrate"}

\* get_principal: a token, once there is one, is asked of the loopback too.
PermissionsOf(req) ==
    CASE TokenConfigured -> IF req.token = "right" THEN LocalPermissions \cup {"admin"} ELSE {}
      [] ~ TokenConfigured /\ req.loopback -> LocalPermissions
      [] OTHER -> {}

Status(req) ==
    CASE ~ CsrfPasses(req) -> 403
      [] CsrfPasses(req) /\ ~ BodyAccepted(req) -> 413
      [] OTHER -> IF req.needs = "nothing" \/ req.needs \in PermissionsOf(req) THEN 200
                  ELSE IF PermissionsOf(req) = {} THEN 401 ELSE 403

\* The limiter a path is under; the probes and static files are under none.
LimiterOf(req) ==
    CASE req.route \in {"healthz", "version", "static"} -> "none"
      [] req.route \in {"ask", "explain"} -> "ask"
      [] req.route = "ingest" /\ req.method = "POST" -> "ingest"
      [] OTHER -> "general"

----------------------------------------------------------------------------
(* RateLimiter.check.                                                      *)
Fresh(seq, cutoff) ==
    FoldLeft(LAMBDA kept, t : IF t > cutoff THEN Append(kept, t) ELSE kept, <<>>, seq)

\* Mutant: a client is forgotten by its oldest request.
EvictedByOldest(known, cutoff) ==
    Restrict(known, {c \in DOMAIN known : known[c] # <<>> /\ Head(known[c]) > cutoff})

\* _evict_stale: by its latest.
Evicted(known, cutoff) ==
    Restrict(known, {c \in DOMAIN known : known[c] # <<>> /\ known[c][Len(known[c])] > cutoff})

RetryAfter(oldest, window) == (oldest + window - now) \div TicksPerSecond + 1

(* What a check returns, and what it leaves behind.                        *)
Check(l, c) ==
    LET cutoff == now - Limits[l].window
        due == checks[l] + 1 >= CleanupInterval
        known == IF due THEN Evicted(times[l], cutoff) ELSE times[l]
        fresh == IF c \in DOMAIN known THEN Fresh(known[c], cutoff) ELSE <<>>
        \* The first request of a client the limiter does not know is let through.
        allowed == c \notin DOMAIN known \/ Len(fresh) < Limits[l].max
        retry == RetryAfter(fresh[1], Limits[l].window)
    IN [allowed |-> allowed,
        retry |-> IF allowed THEN 0 ELSE IF retry > 1 THEN retry ELSE 1,
        known |-> [d \in DOMAIN known \cup {c} |->
                      IF d # c THEN known[d] ELSE IF allowed THEN Append(fresh, now) ELSE fresh],
        checks |-> IF due THEN 0 ELSE checks[l] + 1]

----------------------------------------------------------------------------
Answer(req, status, retry) ==
    last' = [req |-> req, status |-> status, retry |-> retry, at |-> now]

RejectHost(req) ==
    /\ ~ HostAllowed(req)
    /\ Answer(req, 400, 0)
    /\ UNCHANGED <<now, times, checks, admitted>>

ServeExempt(req) ==
    /\ HostAllowed(req) /\ LimiterOf(req) = "none"
    /\ Answer(req, Status(req), 0)
    /\ UNCHANGED <<now, times, checks, admitted>>

ServeLimited(req) ==
    LET l == LimiterOf(req)
        check == Check(l, req.client)
    IN /\ HostAllowed(req) /\ l # "none"
       /\ times' = [times EXCEPT ![l] = check.known]
       /\ checks' = [checks EXCEPT ![l] = check.checks]
       /\ \/ /\ check.allowed
             /\ admitted' = [admitted EXCEPT ![l][req.client] = Append(@, now)]
             /\ Answer(req, Status(req), 0)
          \/ /\ ~ check.allowed
             /\ Answer(req, 429, check.retry)
             /\ UNCHANGED admitted
       /\ UNCHANGED now

Tick ==
    /\ now < MaxTicks
    /\ now' = now + 1
    /\ UNCHANGED <<times, checks, admitted, last>>

ServerInit ==
    /\ now = 0
    /\ times = [l \in DOMAIN Limits |-> <<>>]
    /\ checks = [l \in DOMAIN Limits |-> 0]
    /\ admitted = [l \in DOMAIN Limits |-> [c \in Clients |-> <<>>]]
    /\ last = [status |-> 0]

ServerNext ==
    \/ \E req \in Requests : RejectHost(req) \/ ServeExempt(req) \/ ServeLimited(req)
    \/ Tick

ServerSpec == ServerInit /\ [][ServerNext]_serverVars

----------------------------------------------------------------------------
ServerTypeOK ==
    /\ now \in 0..MaxTicks
    /\ \A l \in DOMAIN Limits :
           /\ checks[l] \in 0..(CleanupInterval - 1)
           /\ DOMAIN times[l] \subseteq Clients
           /\ \A c \in DOMAIN times[l] : Len(times[l][c]) <= Limits[l].max

(* Requests of c that l let through in the window that ends at t, were     *)
(* none to come after the last answer.                                     *)
InWindow(l, c, t) ==
    Cardinality({n \in DOMAIN admitted[l][c] : admitted[l][c][n] > t - Limits[l].window})

(* LimiterIsSlidingWindow: whatever the limiter has forgotten, it lets a   *)
(* request through exactly when fewer than the limit were let through in   *)
(* the window before it, the requests that a later check turned away among *)
(* them; and the wait it asks for is enough and at most a second longer    *)
(* than the shortest that is.                                              *)
LimiterIsSlidingWindow ==
    \A l \in DOMAIN Limits : \A c \in Clients :
        LET max == Limits[l].max
            answered == last.status \notin {0, 400} /\ LimiterOf(last.req) = l /\ last.req.client = c
            refused == answered /\ last.status = 429
            wait == last.retry * TicksPerSecond
        IN /\ \A t \in 0..now : Cardinality({n \in DOMAIN admitted[l][c] :
                  admitted[l][c][n] \in (t - Limits[l].window + 1)..t}) <= max
           /\ refused => /\ InWindow(l, c, last.at) = max
                         /\ InWindow(l, c, last.at + wait) < max
                         /\ InWindow(l, c, last.at + wait - TicksPerSecond - 1) >= max
=============================================================================
