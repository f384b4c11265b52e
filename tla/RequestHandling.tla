-------------------------- MODULE RequestHandling --------------------------
(***************************************************************************)
(* The path of an HTTP request through the server, beside its lifespan:    *)
(* the observability middleware of app/main.py, authentication, validation *)
(* and the handler, with what they leave behind: the answer, log lines,    *)
(* audit events, counters and the readiness gauge.                         *)
(*                                                                         *)
(* The middleware and the application are two tasks, the second one with a *)
(* copy of the first one's context, and dependencies and handlers run on   *)
(* threads with a copy of the second one's.  What a copy is changed to     *)
(* does not come back; only request.state is shared.  What a handler does  *)
(* to the catalog is the business of the registry modules: here it has one *)
(* of the outcomes its route can have.                                     *)
(***************************************************************************)
EXTENDS ServerLifespan

CONSTANTS
    Requests,
    Calls,          \* what clients may send
    MaxFlips        \* bound: times the database goes away or comes back

VARIABLES
    pc, call, requestId, bornIn,            \* per request; bornIn: the process
    middlewareContext, taskContext,         \* the contexts of its two tasks
    errorCode,                              \* request.state.error_code
    response,                               \* of the application, [status, code]
    reply,                                  \* what the client got
    lines, events,                          \* log lines and audit events of the request
    httpTotal, operationTotal, gauge,       \* the metrics registry
    reachable, flips,                       \* the database
    probed, seenReachable, lastProbe        \* ping's result; history: see below

requestVars == <<pc, call, requestId, bornIn, middlewareContext, taskContext, errorCode,
                 response, reply, lines, events, httpTotal, operationTotal, gauge,
                 reachable, flips, probed, seenReachable, lastProbe>>
vars == <<lifespanVars, requestVars>>

Unmatched == "__unmatched__"
System == {"/metrics", "/healthz", "/readyz"}

RouteToSurface ==
    [at \in {<<"POST", "/skills/{slug}/versions">>, <<"POST", "/discovery">>,
             <<"GET", "/resolution/{slug}/{version}">>,
             <<"GET", "/skills/{slug}/versions/{version}">>,
             <<"GET", "/skills/{slug}/versions/{version}/content">>,
             <<"PATCH", "/skills/{slug}/versions/{version}/status">>} |->
        CASE at[2] = "/skills/{slug}/versions" -> "publish"
          [] at[2] = "/discovery" -> "discovery"
          [] at[2] = "/resolution/{slug}/{version}" -> "resolution"
          [] at[2] = "/skills/{slug}/versions/{version}" -> "metadata"
          [] at[2] = "/skills/{slug}/versions/{version}/content" -> "content"
          [] at[2] = "/skills/{slug}/versions/{version}/status" -> "lifecycle"]

Templates == System \cup {at[2] : at \in DOMAIN RouteToSurface}

\* Whether the route is one of that method.
Allowed(method, route) ==
    <<method, route>> \in DOMAIN RouteToSurface \cup ({"GET"} \X System)

SurfaceForRequest(method, route) ==
    IF <<method, route>> \in DOMAIN RouteToSurface THEN RouteToSurface[method, route]
    ELSE IF route \in System THEN "system" ELSE Unset

OutcomeForStatusCode(status) ==
    IF status < 400 THEN "success" ELSE IF status < 500 THEN "client_error" ELSE "server_error"

StatusClass(status) == status \div 100

ErrorCodes ==
    {"AUTHENTICATION_REQUIRED", "INVALID_AUTH_TOKEN", "INSUFFICIENT_SCOPE", "INVALID_REQUEST",
     "POLICY_PUBLISH_FORBIDDEN", "DUPLICATE_SKILL_VERSION", "SKILL_ALREADY_EXISTS",
     "SKILL_NOT_FOUND", "CONTENT_STORAGE_FAILURE", "POLICY_STATUS_TRANSITION_FORBIDDEN",
     "SKILL_VERSION_NOT_FOUND", "POLICY_EXACT_READ_FORBIDDEN"}

\* A call names the method and the template of the route it matches, if any.  Its body
\* is valid, parses to something invalid, or does not parse.
ASSUME CallsAssumption ==
    \A c \in Calls :
        /\ c.method # Unset /\ c.route # Unset
        /\ c.body \in {"valid", "invalid", "malformed"} /\ c.request_id \notin Requests
        /\ c.body = "malformed" => c.method # "GET"
        /\ c.route \in Templates \cup {Unmatched}
ASSUME RequestsAssumption == IsFiniteSet(Requests)
ASSUME FlipsAssumption == MaxFlips \in Nat
ASSUME UnsetAssumption ==
    /\ Unset \notin ErrorCodes /\ Unset \notin Nat /\ Unset \notin Requests
    /\ Unset \notin Calls
    /\ Unset \notin [status: Nat, code: ErrorCodes \cup {Unset},
                     request_id: {Unset} \cup Requests \cup {c.request_id : c \in Calls}]

Surface(r) == SurfaceForRequest(call[r].method, call[r].route)

RequiredScope(surface) ==
    CASE surface = "publish" -> "publish"
      [] surface = "lifecycle" -> "admin"
      [] OTHER -> "read"

\* The answers of each route's handler, with the PolicyViolations raised through it:
\* their status, their code and whether an audit event was recorded before.
Handled(status, code, audited) == [status |-> status, code |-> code, audited |-> audited]

Outcomes(surface) ==
    CASE surface = "publish" ->
            {Handled(201, Unset, TRUE), Handled(403, "POLICY_PUBLISH_FORBIDDEN", TRUE),
             Handled(409, "DUPLICATE_SKILL_VERSION", FALSE),
             Handled(409, "SKILL_ALREADY_EXISTS", FALSE), Handled(404, "SKILL_NOT_FOUND", FALSE),
             Handled(500, "CONTENT_STORAGE_FAILURE", FALSE)}
      [] surface = "lifecycle" ->
            {Handled(200, Unset, TRUE), Handled(403, "POLICY_STATUS_TRANSITION_FORBIDDEN", TRUE),
             Handled(404, "SKILL_VERSION_NOT_FOUND", FALSE)}
      [] surface \in {"metadata", "content", "resolution"} ->
            {Handled(200, Unset, TRUE), Handled(403, "POLICY_EXACT_READ_FORBIDDEN", TRUE),
             Handled(404, "SKILL_VERSION_NOT_FOUND", FALSE)}
      [] surface = "discovery" -> {Handled(200, Unset, TRUE)}
      [] OTHER -> {Handled(200, Unset, FALSE)}

Labels == {"idle", "parse", "authenticate", "validate", "handle", "ping", "report", "respond",
           "raise", "done"}

InFlight == {r \in Requests : pc[r] \notin {"idle", "done"}}

RequestInit ==
    /\ LifespanInit
    /\ pc = [r \in Requests |-> "idle"]
    /\ call = [r \in Requests |-> Unset] /\ requestId = [r \in Requests |-> Unset]
    /\ bornIn = [r \in Requests |-> 0]
    /\ middlewareContext = [r \in Requests |-> Blank]
    /\ taskContext = [r \in Requests |-> Blank]
    /\ errorCode = [r \in Requests |-> Unset]
    /\ response = [r \in Requests |-> Unset] /\ reply = [r \in Requests |-> Unset]
    /\ lines = [r \in Requests |-> {}] /\ events = [r \in Requests |-> {}]
    /\ httpTotal = NoEntries /\ operationTotal = NoEntries /\ gauge = Unset
    /\ reachable = TRUE /\ flips = 0
    /\ probed = [r \in Requests |-> Unset]
    /\ seenReachable = [r \in Requests |-> FALSE] /\ lastProbe = Unset

Goto(r, label) == pc' = [pc EXCEPT ![r] = label]
-----------------------------------------------------------------------------
(* The way in.                                                             *)
\* What the framework answers by itself: outside of the routes, its documentation and
\* redirects included, and on a route to a method that is not the route's.
Unrouted(c) ==
    CASE c.route = Unmatched ->
            {307, 404} \cup (IF c.method \in {"GET", "HEAD"} THEN {200} ELSE {405})
      [] c.route \in Templates /\ ~Allowed(c.method, c.route) -> {405}
      [] OTHER -> {}

Receive(r, c) ==
    /\ phase = "serving" /\ pc[r] = "idle"
    /\ LET id == IF c.request_id = Unset THEN r ELSE c.request_id
           context == SetRequestContext(Blank,
                          [request_id |-> id, http_method |-> c.method,
                           client_ip |-> c.client_ip, user_agent |-> c.user_agent])
       IN  /\ requestId' = [requestId EXCEPT ![r] = id]
           /\ middlewareContext' = [middlewareContext EXCEPT ![r] = context]
           /\ taskContext' = [taskContext EXCEPT ![r] = context]
    /\ call' = [call EXCEPT ![r] = c] /\ bornIn' = [bornIn EXCEPT ![r] = processes]
    /\ seenReachable' = [seenReachable EXCEPT ![r] = reachable /\ c.route = "/readyz"]
    /\ \/ /\ Goto(r, "respond")
          /\ \E status \in Unrouted(c) :
                response' = [response EXCEPT ![r] = [status |-> status, code |-> Unset]]
       \/ /\ Unrouted(c) = {} /\ UNCHANGED response
          /\ Goto(r, CASE c.route = "/readyz" -> "ping"
                       [] c.route \in System \ {"/readyz"} -> "handle"
                       [] OTHER -> "parse")
    /\ UNCHANGED <<lifespanVars, errorCode, reply, lines, events, httpTotal, operationTotal,
                   gauge, reachable, flips, probed, lastProbe>>

\* error_response: the code goes to the context of whoever builds the answer and to
\* request.state.
KeepCodeInResponse(r, status, code) ==
    /\ response' = [response EXCEPT ![r] = [status |-> status, code |-> code]]
    /\ UNCHANGED errorCode

ErrorResponse(r, status, code) ==
    /\ response' = [response EXCEPT ![r] = [status |-> status, code |-> code]]
    /\ errorCode' = [errorCode EXCEPT ![r] = code]

\* An exception handler runs in the application's task, an error answer of a handler
\* on its thread, whose context ends with it.
InTask(r, code) ==
    taskContext' = [taskContext EXCEPT
                       ![r] = SetRequestContext(taskContext[r], [error_code |-> code])]

\* A route's body is parsed before its dependencies are solved: text that is no JSON is
\* an invalid request, and bytes that are no text an error of the framework's own.
ParseBody(r) ==
    /\ pc[r] = "parse"
    /\ IF call[r].body # "malformed"
       THEN Goto(r, "authenticate") /\ UNCHANGED <<taskContext, response, errorCode>>
       ELSE /\ \/ ErrorResponse(r, 422, "INVALID_REQUEST") /\ InTask(r, "INVALID_REQUEST")
               \/ /\ response' = [response EXCEPT ![r] = [status |-> 400, code |-> Unset]]
                  /\ UNCHANGED <<taskContext, errorCode>>
            /\ Goto(r, "respond")
    /\ UNCHANGED <<lifespanVars, call, requestId, bornIn, middlewareContext, reply, lines,
                   events, httpTotal, operationTotal, gauge, reachable, flips, probed,
                   seenReachable, lastProbe>>

AuthenticationError(r) ==
    LET token == call[r].token
    IN  IF token = Unset THEN "AUTHENTICATION_REQUIRED"
        ELSE IF token \notin DOMAIN cache.auth_tokens THEN "INVALID_AUTH_TOKEN"
        ELSE IF ~HasScope(cache.auth_tokens[token], RequiredScope(Surface(r)))
        THEN "INSUFFICIENT_SCOPE"
        ELSE Unset

Authenticate(r) ==
    /\ pc[r] = "authenticate"
    /\ LET code == AuthenticationError(r)
       IN  IF code = Unset
           THEN Goto(r, "validate") /\ UNCHANGED <<taskContext, response, errorCode>>
           ELSE /\ ErrorResponse(r, IF code = "INSUFFICIENT_SCOPE" THEN 403 ELSE 401, code)
                /\ InTask(r, code) /\ Goto(r, "respond")
    /\ UNCHANGED <<lifespanVars, call, requestId, bornIn, middlewareContext, reply, lines,
                   events, httpTotal, operationTotal, gauge, reachable, flips, probed,
                   seenReachable, lastProbe>>

Validate(r) ==
    /\ pc[r] = "validate"
    /\ IF call[r].body = "valid"
       THEN Goto(r, "handle") /\ UNCHANGED <<taskContext, response, errorCode>>
       ELSE /\ ErrorResponse(r, 422, "INVALID_REQUEST")
            /\ InTask(r, "INVALID_REQUEST") /\ Goto(r, "respond")
    /\ UNCHANGED <<lifespanVars, call, requestId, bornIn, middlewareContext, reply, lines,
                   events, httpTotal, operationTotal, gauge, reachable, flips, probed,
                   seenReachable, lastProbe>>

\* The audit event takes the request id of the thread's copy of the context.
Handle(r) ==
    /\ pc[r] = "handle"
    /\ \E outcome \in Outcomes(Surface(r)) :
        /\ events' = [events EXCEPT ![r] =
                          IF outcome.audited THEN @ \cup {taskContext[r].request_id} ELSE @]
        /\ IF outcome.code = Unset
           THEN /\ response' = [response EXCEPT
                                   ![r] = [status |-> outcome.status, code |-> Unset]]
                /\ UNCHANGED <<errorCode, taskContext>>
           ELSE /\ ErrorResponse(r, outcome.status, outcome.code)
                /\ IF outcome.status = 403 THEN InTask(r, outcome.code)
                                           ELSE UNCHANGED taskContext
    /\ Goto(r, "respond")
    /\ UNCHANGED <<lifespanVars, call, requestId, bornIn, middlewareContext, reply, lines,
                   httpTotal, operationTotal, gauge, reachable, flips, probed,
                   seenReachable, lastProbe>>

\* An error nothing translates: a database error, an audit event that is refused.
HandlerRaises(r) ==
    /\ pc[r] = "handle" /\ Surface(r) # "system"
    /\ Goto(r, "raise")
    /\ UNCHANGED <<lifespanVars, call, requestId, bornIn, middlewareContext, taskContext,
                   errorCode, response, reply, lines, events, httpTotal, operationTotal,
                   gauge, reachable, flips, probed, seenReachable, lastProbe>>

\* The probe also fails when no pooled connection becomes free in time.
Ping(r) ==
    /\ pc[r] = "ping"
    /\ \E answered \in {FALSE, engine # Unset /\ reachable} :
        probed' = [probed EXCEPT ![r] = answered]
    /\ Goto(r, "report")
    /\ UNCHANGED <<lifespanVars, call, requestId, bornIn, middlewareContext, taskContext,
                   errorCode, response, reply, lines, events, httpTotal, operationTotal,
                   gauge, reachable, flips, seenReachable, lastProbe>>

GaugeKept(ready) == IF ready THEN 1 ELSE gauge

DatabaseReadiness(ready) == IF ready THEN 1 ELSE 0

ReportReadiness(r) ==
    /\ pc[r] = "report"
    /\ gauge' = DatabaseReadiness(probed[r]) /\ lastProbe' = r
    /\ response' = [response EXCEPT ![r] = [status |-> IF probed[r] THEN 200 ELSE 503,
                                            code |-> Unset]]
    /\ Goto(r, "respond")
    /\ UNCHANGED <<lifespanVars, call, requestId, bornIn, middlewareContext, taskContext,
                   errorCode, reply, lines, events, httpTotal, operationTotal, reachable,
                   flips, probed, seenReachable>>
-----------------------------------------------------------------------------
(* The way out.                                                            *)
HttpLabels(r, status) ==
    [method |-> call[r].method, route |-> call[r].route, status_class |-> StatusClass(status)]

OperationLabels(r, status) ==
    [surface |-> Surface(r), outcome |-> OutcomeForStatusCode(status)]

IsOperation(r) == <<call[r].method, call[r].route>> \in DOMAIN RouteToSurface

\* A counter has a child for each of the labels it was ever incremented under.
Value(counter, labels) == IF labels \in DOMAIN counter THEN counter[labels] ELSE 0

Increment(counter, labels) ==
    [l \in DOMAIN counter \cup {labels} |->
        IF l = labels THEN Value(counter, l) + 1 ELSE counter[l]]

ObserveHttpRequest(r, status) ==
    /\ httpTotal' = Increment(httpTotal, HttpLabels(r, status))
    /\ operationTotal' = IF IsOperation(r)
                         THEN Increment(operationTotal, OperationLabels(r, status))
                         ELSE operationTotal

ContextWith(r, status, more) ==
    SetRequestContext(
        SetRequestContext(middlewareContext[r],
            [http_route |-> call[r].route, status_code |-> status, surface |-> Surface(r),
             outcome |-> OutcomeForStatusCode(status)]),
        more)

WriteLine(r, level, context, event) ==
    lines' = [lines EXCEPT ![r] = @ \cup Lines(loggers, "app.main", level, context, event)]

\* call_next returned: one step of the event loop, until the answer is handed on.
Complete(r) ==
    /\ pc[r] = "respond"
    /\ LET status == response[r].status
       IN  /\ WriteLine(r, INFO, ContextWith(r, status, [error_code |-> errorCode[r]]),
                        "request.completed")
           /\ ObserveHttpRequest(r, status)
           /\ reply' = [reply EXCEPT ![r] = [status |-> status, code |-> response[r].code,
                                             request_id |-> requestId[r]]]
    /\ middlewareContext' = [middlewareContext EXCEPT ![r] = Blank]
    /\ Goto(r, "done")
    /\ UNCHANGED <<lifespanVars, call, requestId, bornIn, taskContext, errorCode, response,
                   events, gauge, reachable, flips, probed, seenReachable, lastProbe>>

\* call_next raised: the middleware raises it again, and the plain answer comes from
\* outside of the middleware.
CompleteUncounted(r) ==
    /\ pc[r] = "raise"
    /\ WriteLine(r, ERROR, ContextWith(r, 500, [exception_type |-> "Exception"]),
                 "request.failed")
    /\ reply' = [reply EXCEPT ![r] = [status |-> 500, code |-> Unset, request_id |-> Unset]]
    /\ middlewareContext' = [middlewareContext EXCEPT ![r] = Blank]
    /\ Goto(r, "done")
    /\ UNCHANGED <<lifespanVars, call, requestId, bornIn, taskContext, errorCode, response,
                   events, httpTotal, operationTotal, gauge, reachable, flips, probed,
                   seenReachable, lastProbe>>

FailUnhandled(r) ==
    /\ pc[r] = "raise"
    /\ WriteLine(r, ERROR, ContextWith(r, 500, [exception_type |-> "Exception"]),
                 "request.failed")
    /\ ObserveHttpRequest(r, 500)
    /\ reply' = [reply EXCEPT ![r] = [status |-> 500, code |-> Unset, request_id |-> Unset]]
    /\ middlewareContext' = [middlewareContext EXCEPT ![r] = Blank]
    /\ Goto(r, "done")
    /\ UNCHANGED <<lifespanVars, call, requestId, bornIn, taskContext, errorCode, response,
                   events, gauge, reachable, flips, probed, seenReachable, lastProbe>>
-----------------------------------------------------------------------------
\* The database goes away or comes back.
FlipDatabase ==
    /\ flips < MaxFlips
    /\ flips' = flips + 1 /\ reachable' = ~reachable
    /\ seenReachable' = [r \in Requests |->
                           seenReachable[r] \/ (pc[r] \in {"ping", "report"} /\ ~reachable)]
    /\ UNCHANGED <<lifespanVars, pc, call, requestId, bornIn, middlewareContext, taskContext,
                   errorCode, response, reply, lines, events, httpTotal, operationTotal,
                   gauge, probed, lastProbe>>

LifespanStep ==
    \/ \E content \in SettingsFiles : EditFile(content)
    \/ Migrate \/ LoadSettings \/ ConfigureFromSettings \/ LogFileFails
    \/ BuildServices \/ StopAccepting

LifespanUndrained == (LifespanStep \/ DisposeEngine) /\ UNCHANGED requestVars

\* The lifespan ends once every request has been answered.
Lifespan == (LifespanStep \/ (InFlight = {} /\ DisposeEngine)) /\ UNCHANGED requestVars

\* With the process go its tasks and its metrics; the log and the audit trail stay.
Crash ==
    /\ EndProcess
    /\ pc' = [r \in Requests |-> IF r \in InFlight THEN "done" ELSE pc[r]]
    /\ middlewareContext' = [r \in Requests |-> Blank]
    /\ httpTotal' = NoEntries /\ operationTotal' = NoEntries
    /\ gauge' = Unset /\ lastProbe' = Unset
    /\ UNCHANGED <<call, requestId, bornIn, taskContext, errorCode, response, reply, lines,
                   events, reachable, flips, probed, seenReachable>>

RequestStep(r) ==
    \/ \E c \in Calls : Receive(r, c)
    \/ ParseBody(r) \/ Authenticate(r) \/ Validate(r) \/ Handle(r) \/ HandlerRaises(r)
    \/ Ping(r) \/ ReportReadiness(r) \/ Complete(r) \/ FailUnhandled(r)

Next == Lifespan \/ Crash \/ FlipDatabase \/ \E r \in Requests : RequestStep(r)

Spec == RequestInit /\ [][Next]_vars
-----------------------------------------------------------------------------
Answered == {r \in Requests : reply[r] # Unset}

\* Every variable holds a value of its kind; the loggers keep a level and a set of
\* handlers each, and no request is being answered outside of a lifespan.
ProcessTypeOK ==
    /\ phase \in Phases /\ environment \in Environments /\ file \in SettingsFiles
    /\ edits \in 0 .. MaxEdits /\ startups \in 0 .. MaxStartups
    /\ processes \in 1 .. MaxProcesses
    /\ pools \subseteq [startup : 1 .. MaxStartups, url : STRING]
    /\ \A l \in Loggers : /\ loggers[l].level \in Levels
                          /\ loggers[l].propagate \in BOOLEAN /\ loggers[l].disabled \in BOOLEAN
    /\ \A r \in Requests : /\ pc[r] \in Labels
                           /\ DOMAIN middlewareContext[r] = ContextFields
                           /\ DOMAIN taskContext[r] = ContextFields
                           /\ pc[r] = "idle" <=> call[r] = Unset
    /\ \A labels \in DOMAIN httpTotal : httpTotal[labels] \in Nat \ {0}
    /\ \A labels \in DOMAIN operationTotal : operationTotal[labels] \in Nat \ {0}
    /\ gauge \in {Unset, 0, 1} /\ lastProbe \in Requests \cup {Unset}
    /\ InFlight # {} => phase \in Accepting

\* The lines and the audit events of a request, whichever tasks and threads wrote
\* them and whatever else was being served, tell of that request and of one another:
\* they carry the id the request came with or was given, and a line the method, the
\* route, the status and the error code of the very answer that was sent.
LinesTellOneRequest ==
    \A r \in Requests :
        /\ events[r] \subseteq {requestId[r]}
        /\ lines[r] # {} => r \in Answered
        /\ \A written \in lines[r] :
            LET fields == written.line.fields
            IN  /\ fields.request_id = requestId[r]
                /\ fields.http_method = call[r].method /\ fields.http_route = call[r].route
                /\ fields.status_code = reply[r].status
                /\ IF reply[r].code = Unset THEN "error_code" \notin DOMAIN fields
                   ELSE "error_code" \in DOMAIN fields /\ fields.error_code = reply[r].code

\* The counters of a process account for exactly the requests it has answered, each
\* under the labels of its own answer, on both ways out of the middleware and across
\* the lifespans of the process; and the domain counters for those of them that were
\* registry operations.
CountedOnce ==
    LET counted == {r \in Answered : bornIn[r] = processes}
    IN  /\ \A labels \in DOMAIN httpTotal \cup {HttpLabels(r, reply[r].status) : r \in counted} :
              Value(httpTotal, labels) =
                  Cardinality({r \in counted : HttpLabels(r, reply[r].status) = labels})
        /\ \A labels \in DOMAIN operationTotal
                            \cup {OperationLabels(r, reply[r].status) :
                                    r \in {q \in counted : IsOperation(q)}} :
              Value(operationTotal, labels) =
                  Cardinality({r \in counted : /\ IsOperation(r)
                                               /\ OperationLabels(r, reply[r].status) = labels})

\* Probes on several threads may set the gauge in another order than they pinged, but
\* it never claims a database that the last probe to report could not have found: one
\* that was out of reach from the moment this probe came in.
GaugeNeverOverstates ==
    gauge = 1 => lastProbe # Unset /\ seenReachable[lastProbe]
=============================================================================
