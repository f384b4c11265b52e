------------------------ MODULE ServerProcessProofs ------------------------
(***************************************************************************)
(* Proofs about RequestHandling and the lifespan it runs in, for any       *)
(* settings files, calls, loggers and bounds.                              *)
(*                                                                         *)
(* Each property has its invariant.  SettingsInv adds to it that the       *)
(* settings of a startup were valid, without which the active profile need *)
(* not exist.  OnePoolPerLifespan is inductive once the phases are known.  *)
(* For the lines, Story says what each label of a request means for the    *)
(* middleware's context, the shared error code and the response: the       *)
(* property looks at them only after they were written.  GaugeInv follows  *)
(* a probe from its ping to its report, and RoutingInv says that the       *)
(* loggers are those of the configuration from the moment it is applied.   *)
(***************************************************************************)
EXTENDS RequestHandling, Counting

SettingsInv ==
    /\ phase \in Phases
    /\ environment \in Environments /\ file \in SettingsFiles
    /\ phase \in Started =>
        /\ readFile \in SettingsFiles
        /\ cache = Settings(environment, readFile)
        /\ ValidSettings(cache)
    /\ phase \in Accepting => services.policy = ActivePolicy(Settings(environment, readFile))

PoolInv == phase \in Phases /\ OnePoolPerLifespan

\* What a lifespan step may change, apart from the end of the process.
QuietLifespan == UNCHANGED <<environment, file, readFile, phase, cache, startups, engine,
                             factory, pools, services>>

\* Requests and the database leave the lifespan alone.
LEMMA OtherStepsKeepLifespan ==
    ASSUME FlipDatabase \/ \E r \in Requests : RequestStep(r)
    PROVE  UNCHANGED lifespanVars
<1>1. CASE FlipDatabase
  BY <1>1 DEF FlipDatabase
<1>2. ASSUME NEW r \in Requests, NEW c \in Calls, Receive(r, c) PROVE UNCHANGED lifespanVars
  BY <1>2 DEF Receive
<1>3. ASSUME NEW r \in Requests, ParseBody(r) \/ Authenticate(r) \/ Validate(r)
      PROVE  UNCHANGED lifespanVars
  BY <1>3 DEF ParseBody, Authenticate, Validate
<1>4. ASSUME NEW r \in Requests, Handle(r) \/ HandlerRaises(r)
      PROVE  UNCHANGED lifespanVars
  BY <1>4 DEF Handle, HandlerRaises
<1>5. ASSUME NEW r \in Requests, Ping(r) \/ ReportReadiness(r)
      PROVE  UNCHANGED lifespanVars
  BY <1>5 DEF Ping, ReportReadiness
<1>6. ASSUME NEW r \in Requests, Complete(r) \/ FailUnhandled(r)
      PROVE  UNCHANGED lifespanVars
  BY <1>6 DEF Complete, FailUnhandled
<1> QED
  BY <1>1, <1>2, <1>3, <1>4, <1>5, <1>6 DEF RequestStep

\* They change nothing that the settings and the pool depend on.
LEMMA OtherStepsAreQuiet ==
    ASSUME FlipDatabase \/ \E r \in Requests : RequestStep(r)
    PROVE  QuietLifespan
BY OtherStepsKeepLifespan DEF lifespanVars, QuietLifespan

\* A step of the lifespan is one of its operations.
LEMMA LifespanCases ==
    ASSUME Lifespan
    PROVE  \/ \E content \in SettingsFiles : EditFile(content)
           \/ Migrate \/ LoadSettings \/ ConfigureFromSettings \/ LogFileFails
           \/ BuildServices \/ StopAccepting \/ DisposeEngine
BY DEF Lifespan, LifespanStep

(* The settings.                                                           *)
LEMMA SettingsInit == ASSUME RequestInit PROVE SettingsInv
BY DEF RequestInit, LifespanInit, SettingsInv, Phases, Started, Accepting

\* Every step keeps the settings those of the startup.
LEMMA SettingsStep == ASSUME SettingsInv, [Next]_vars PROVE SettingsInv'
<1> USE DEF SettingsInv, Phases, Started, Accepting
<1>1. ASSUME NEW content \in SettingsFiles, EditFile(content) PROVE SettingsInv'
  BY <1>1 DEF EditFile
<1>2. CASE Migrate
  BY <1>2 DEF Migrate
<1>3. CASE LoadSettings
  BY <1>3 DEF LoadSettings
<1>4. CASE ConfigureFromSettings
  BY <1>4 DEF ConfigureFromSettings
<1>5. CASE BuildServices
  BY <1>5 DEF BuildServices
<1>6. CASE StopAccepting
  BY <1>6 DEF StopAccepting
<1>7. CASE DisposeEngine
  BY <1>7 DEF DisposeEngine
<1>8. CASE Crash
  BY <1>8 DEF Crash, EndProcess
<1>9. CASE QuietLifespan
  BY <1>9 DEF QuietLifespan
<1>10. CASE UNCHANGED vars
  BY <1>10 DEF vars, lifespanVars
<1>11. CASE LogFileFails
  BY <1>11 DEF LogFileFails
<1> QED
  BY <1>1, <1>2, <1>3, <1>4, <1>5, <1>6, <1>7, <1>8, <1>9, <1>10, <1>11,
     OtherStepsAreQuiet, LifespanCases DEF Next

\* Merging the configured rules over the defaults gives a rule for every tier.
LEMMA PolicyIsComplete ==
    ASSUME NEW env \in Environments, NEW content \in SettingsFiles,
           ValidSettings(Settings(env, content))
    PROVE  ActivePolicy(Settings(env, content)) \in PolicyProfile
<1> DEFINE profiles == Settings(env, content).policy_profiles
           configured == EffectivePolicyProfiles(Settings(env, content))
                             [Settings(env, content).active_policy_profile]
           rules == Given(configured, "publish_rules", NoEntries)
           moves == Given(configured, "lifecycle_transitions",
                          DefaultProfile.lifecycle_transitions)
<1>1. ConfiguredProfile(NoEntries)
  BY DEF ConfiguredProfile, NoEntries
<1>2. \A name \in DOMAIN profiles : ConfiguredProfile(profiles[name])
  <2>1. \/ \E place \in {env, content} : /\ "POLICY_PROFILES_JSON" \in DOMAIN place
                                         /\ profiles = place["POLICY_PROFILES_JSON"]
        \/ profiles = NoEntries
    BY DEF Settings, Setting
  <2> QED
    BY <2>1, ProfilesAssumption DEF NoEntries
<1>3. ConfiguredProfile(configured)
  BY <1>1, <1>2 DEF EffectivePolicyProfiles, ValidSettings
<1> HIDE DEF configured
<1>4. /\ DefaultProfile.publish_rules \in
             [TrustTiers -> [required_scope: Scopes, provenance_required: BOOLEAN]]
      /\ DefaultProfile.lifecycle_transitions \in [Statuses -> SUBSET Statuses]
      /\ DefaultProfile.discovery_default_statuses \subseteq Statuses
      /\ DefaultProfile.discovery_read_statuses \subseteq Statuses
      /\ DefaultProfile.discovery_admin_statuses \subseteq Statuses
      /\ DefaultProfile.exact_read_statuses \subseteq Statuses
  BY DEF DefaultProfile, Statuses, TrustTiers, Scopes
<1>5. MergedRules(rules) \in [TrustTiers -> [required_scope: Scopes, provenance_required: BOOLEAN]]
  <2>1. \A tier \in DOMAIN rules :
            rules[tier] \in [required_scope: Scopes, provenance_required: BOOLEAN]
    BY <1>3 DEF Given, ConfiguredProfile, NoEntries
  <2> QED
    BY <2>1, <1>4 DEF MergedRules
<1>6. [s \in Statuses |-> IF s \in DOMAIN moves THEN moves[s] ELSE {}]
          \in [Statuses -> SUBSET Statuses]
  <2>1. \A s \in DOMAIN moves : moves[s] \subseteq Statuses
    BY <1>3, <1>4 DEF Given, ConfiguredProfile
  <2> QED
    BY <2>1
<1>7. /\ Given(configured, "discovery_default_statuses",
               DefaultProfile.discovery_default_statuses) \subseteq Statuses
      /\ Given(configured, "discovery_read_statuses",
               DefaultProfile.discovery_read_statuses) \subseteq Statuses
      /\ Given(configured, "discovery_admin_statuses",
               DefaultProfile.discovery_admin_statuses) \subseteq Statuses
      /\ Given(configured, "exact_read_statuses",
               DefaultProfile.exact_read_statuses) \subseteq Statuses
  BY <1>3, <1>4 DEF Given, ConfiguredProfile
<1> HIDE DEF rules, moves
<1>8. ActivePolicy(Settings(env, content)) =
        [publish_rules |-> MergedRules(rules),
         lifecycle_transitions |->
            [s \in Statuses |-> IF s \in DOMAIN moves THEN moves[s] ELSE {}],
         discovery_default_statuses |->
            Given(configured, "discovery_default_statuses",
                  DefaultProfile.discovery_default_statuses),
         discovery_read_statuses |->
            Given(configured, "discovery_read_statuses", DefaultProfile.discovery_read_statuses),
         discovery_admin_statuses |->
            Given(configured, "discovery_admin_statuses",
                  DefaultProfile.discovery_admin_statuses),
         exact_read_statuses |->
            Given(configured, "exact_read_statuses", DefaultProfile.exact_read_statuses)]
  BY DEF ActivePolicy, rules, moves, configured
<1> QED
  BY <1>5, <1>6, <1>7, <1>8 DEF PolicyProfile

\* A lifespan works with one version of the settings from its startup to its shutdown
\* (app/main.py lifespan, app/core/settings.py get_settings), and the policy it
\* decides by has a rule for every trust tier, as GovernancePolicy requires.
THEOREM SettingsAreOfTheStartup == Spec => []OneVersionOfSettings
<1>1. RequestInit => SettingsInv
  BY SettingsInit
<1>2. SettingsInv /\ [Next]_vars => SettingsInv'
  BY SettingsStep
<1>3. SettingsInv => OneVersionOfSettings
  BY PolicyIsComplete DEF SettingsInv, OneVersionOfSettings, Started, Accepting
<1> QED
  BY <1>1, <1>2, <1>3, PTL DEF Spec

(* The pool.                                                               *)
LEMMA PoolStep == ASSUME PoolInv, [Next]_vars PROVE PoolInv'
<1> USE DEF PoolInv, OnePoolPerLifespan, Phases, Accepting
<1>1. ASSUME NEW content \in SettingsFiles, EditFile(content) PROVE PoolInv'
  BY <1>1 DEF EditFile
<1>2. CASE Migrate
  BY <1>2 DEF Migrate
<1>3. CASE LoadSettings
  BY <1>3 DEF LoadSettings
<1>4. CASE ConfigureFromSettings
  BY <1>4 DEF ConfigureFromSettings
<1>5. CASE BuildServices
  BY <1>5 DEF BuildServices
<1>6. CASE StopAccepting
  BY <1>6 DEF StopAccepting
<1>7. CASE DisposeEngine
  BY <1>7 DEF DisposeEngine
<1>8. CASE Crash
  BY <1>8 DEF Crash, EndProcess
<1>9. CASE QuietLifespan
  BY <1>9 DEF QuietLifespan
<1>10. CASE UNCHANGED vars
  BY <1>10 DEF vars, lifespanVars
<1>11. CASE LogFileFails
  BY <1>11 DEF LogFileFails
<1> QED
  BY <1>1, <1>2, <1>3, <1>4, <1>5, <1>6, <1>7, <1>8, <1>9, <1>10, <1>11,
     OtherStepsAreQuiet, LifespanCases DEF Next

\* One pool is open while requests are answered, the services' own and that of this
\* startup's database, and none outside of a lifespan (app/persistence/db.py).
THEOREM PoolOfTheLifespan == Spec => []OnePoolPerLifespan
<1>1. RequestInit => PoolInv
  BY DEF RequestInit, LifespanInit, PoolInv, OnePoolPerLifespan, Phases, Accepting
<1>2. PoolInv /\ [Next]_vars => PoolInv'
  BY PoolStep
<1>3. PoolInv => OnePoolPerLifespan
  BY DEF PoolInv
<1> QED
  BY <1>1, <1>2, <1>3, PTL DEF Spec

(* The lines.                                                              *)
Shape ==
    /\ pc \in [Requests -> Labels]
    /\ call = [q \in Requests |-> call[q]]
    /\ requestId = [q \in Requests |-> requestId[q]]
    /\ middlewareContext = [q \in Requests |-> middlewareContext[q]]
    /\ taskContext = [q \in Requests |-> taskContext[q]]
    /\ errorCode = [q \in Requests |-> errorCode[q]]
    /\ response = [q \in Requests |-> response[q]]
    /\ reply = [q \in Requests |-> reply[q]]
    /\ lines = [q \in Requests |-> lines[q]]
    /\ events = [q \in Requests |-> events[q]]

Codes == ErrorCodes \cup {Unset}
Ids == Requests \cup {c.request_id : c \in Calls}

\* The body of LinesTellOneRequest.
LineTells(r, written) ==
    LET fields == written.line.fields
    IN  /\ fields.request_id = requestId[r]
        /\ fields.http_method = call[r].method /\ fields.http_route = call[r].route
        /\ fields.status_code = reply[r].status
        /\ IF reply[r].code = Unset THEN "error_code" \notin DOMAIN fields
           ELSE "error_code" \in DOMAIN fields /\ fields.error_code = reply[r].code

Tells(r) ==
    /\ events[r] \subseteq {requestId[r]}
    /\ lines[r] # {} => reply[r] # Unset
    /\ \A written \in lines[r] : LineTells(r, written)

\* What each label says about a request that is being answered.
UnderWay(r) ==
    /\ lines[r] = {} /\ reply[r] = Unset
    /\ call[r] \in Calls /\ requestId[r] \in Ids /\ requestId[r] # Unset
    /\ middlewareContext[r].request_id = requestId[r]
    /\ middlewareContext[r].http_method = call[r].method
    /\ middlewareContext[r].error_code = Unset
    /\ taskContext[r].request_id = requestId[r]

Story(r) ==
    /\ Tells(r)
    /\ pc[r] = "idle" => /\ lines[r] = {} /\ events[r] = {}
                         /\ errorCode[r] = Unset /\ reply[r] = Unset
    /\ pc[r] \in Labels \ {"idle", "done"} => UnderWay(r)
    /\ pc[r] \in Labels \ {"idle", "done", "respond"} => errorCode[r] = Unset
    /\ pc[r] = "respond" => /\ response[r].code = errorCode[r]
                            /\ response[r].status \in Nat /\ errorCode[r] \in Codes

LinesInv == Shape /\ \A r \in Requests : Story(r)

\* Nothing that a request's story is about changes.
Untouched(q) ==
    /\ pc'[q] = pc[q] /\ call'[q] = call[q] /\ requestId'[q] = requestId[q]
    /\ middlewareContext'[q] = middlewareContext[q] /\ taskContext'[q] = taskContext[q]
    /\ errorCode'[q] = errorCode[q] /\ response'[q] = response[q] /\ reply'[q] = reply[q]
    /\ lines'[q] = lines[q] /\ events'[q] = events[q]

\* A request that is left alone keeps its story.
LEMMA StoryFrame ==
    ASSUME NEW q, Story(q), Untouched(q)
    PROVE  Story(q)'
BY DEF Story, Untouched, Tells, LineTells, UnderWay

\* A line has the fields of the context it is written in.
LEMMA LineFields ==
    ASSUME NEW context, NEW handler, NEW event,
           context["request_id"] # Unset, context["http_method"] # Unset,
           context["http_route"] # Unset, context["status_code"] # Unset
    PROVE  LET fields == Line(handler, context, event).fields
           IN  /\ fields.request_id = context["request_id"]
               /\ fields.http_method = context["http_method"]
               /\ fields.http_route = context["http_route"]
               /\ fields.status_code = context["status_code"]
               /\ "error_code" \in DOMAIN fields <=> context["error_code"] # Unset
               /\ "error_code" \in DOMAIN fields => fields.error_code = context["error_code"]
<1>1. CASE handler.formatter = "pretty"
  BY <1>1 DEF Line, PrettyLine, ContextFields
<1>2. CASE handler.formatter # "pretty"
  BY <1>2 DEF Line, JsonLine, ContextFields
<1> QED
  BY <1>1, <1>2

\* What a handler may answer has a status and a code.
LEMMA OutcomesAreTyped ==
    ASSUME NEW surface, NEW outcome \in Outcomes(surface)
    PROVE  outcome.status \in Nat /\ outcome.code \in Codes
BY DEF Outcomes, Handled, Codes, ErrorCodes

\* The context of a last line.
LEMMA LastContext ==
    ASSUME NEW r \in Requests, UnderWay(r), NEW status, NEW more,
           \/ \E code : more = [error_code |-> code]
           \/ \E type : more = [exception_type |-> type]
    PROVE  LET context == ContextWith(r, status, more)
           IN  /\ context["request_id"] = requestId[r]
               /\ context["http_method"] = call[r].method
               /\ context["http_route"] = call[r].route
               /\ context["status_code"] = status
               /\ context["error_code"] =
                     IF "error_code" \in DOMAIN more THEN more["error_code"] ELSE Unset
BY DEF ContextWith, SetRequestContext, ContextFields, UnderWay

\* The line that goes with an answer tells of it, and completes the story.
LEMMA LastLine ==
    ASSUME LinesInv, NEW r \in Requests, UnderWay(r), NEW status \in Nat, NEW more,
           NEW level, NEW event, NEW code \in Codes, NEW id \in Ids \cup {Unset},
           \/ more = [error_code |-> code]
           \/ code = Unset /\ \E type : more = [exception_type |-> type],
           WriteLine(r, level, ContextWith(r, status, more), event),
           reply' = [reply EXCEPT ![r] = [status |-> status, code |-> code,
                                          request_id |-> id]],
           UNCHANGED <<call, requestId, events>>
    PROVE  Tells(r)'
<1> DEFINE context == ContextWith(r, status, more)
<1>1. /\ context["request_id"] = requestId[r] /\ context["http_method"] = call[r].method
      /\ context["http_route"] = call[r].route /\ context["status_code"] = status
      /\ context["error_code"] = code
  BY LastContext
<1>2. /\ requestId[r] # Unset /\ call[r].method # Unset /\ call[r].route # Unset
      /\ status # Unset
  <2>1. call[r].method # Unset /\ call[r].route # Unset
    BY CallsAssumption DEF UnderWay
  <2> QED
    BY <2>1, UnsetAssumption DEF UnderWay
<1> HIDE DEF context
<1>3. reply'[r] = [status |-> status, code |-> code, request_id |-> id] /\ reply'[r] # Unset
  BY UnsetAssumption DEF LinesInv, Shape, Codes, Ids
<1>4. \A written \in lines'[r] : \E handler : written.line = Line(handler, context, event)
  BY DEF WriteLine, Lines, LinesInv, Shape, UnderWay, context
<1>5. ASSUME NEW written \in lines'[r] PROVE LineTells(r, written)'
  <2>1. PICK handler : written.line = Line(handler, context, event)
    BY <1>4
  <2> DEFINE fields == written.line.fields
  <2>2. /\ fields.request_id = requestId[r] /\ fields.http_method = call[r].method
        /\ fields.http_route = call[r].route /\ fields.status_code = status
        /\ "error_code" \in DOMAIN fields <=> code # Unset
        /\ "error_code" \in DOMAIN fields => fields.error_code = code
    BY <1>1, <1>2, <2>1, LineFields
  <2> HIDE DEF fields
  <2>3. /\ fields.request_id = requestId'[r] /\ fields.http_method = call'[r].method
        /\ fields.http_route = call'[r].route /\ fields.status_code = reply'[r].status
        /\ reply'[r].code = code
    BY <2>2, <1>3
  <2> QED
    BY <2>2, <2>3 DEF LineTells, fields
<1> QED
  BY <1>3, <1>5 DEF Tells, LinesInv, Story

\* A step of a request keeps its own story.
LEMMA OwnStep ==
    ASSUME LinesInv, NEW r \in Requests, RequestStep(r)
    PROVE  Story(r)'
<1> USE DEF Goto, Labels
<1>0. Story(r) /\ Shape
  BY DEF LinesInv
<1>1. ASSUME NEW c \in Calls, Receive(r, c) PROVE Story(r)'
  <2> DEFINE id == IF c.request_id = Unset THEN r ELSE c.request_id
             context == SetRequestContext(Blank,
                            [request_id |-> id, http_method |-> c.method,
                             client_ip |-> c.client_ip, user_agent |-> c.user_agent])
  <2>1. /\ context.request_id = id /\ context.http_method = c.method
        /\ context.error_code = Unset
    BY DEF SetRequestContext, Blank, ContextFields
  <2>2. id \in Ids /\ id # Unset
    BY UnsetAssumption DEF Ids
  <2> HIDE DEF context, id
  <2>3. /\ pc[r] = "idle" /\ requestId'[r] = id /\ call'[r] = c
        /\ middlewareContext'[r] = context /\ taskContext'[r] = context
        /\ lines' = lines /\ events' = events /\ reply' = reply /\ errorCode' = errorCode
    BY <1>1, <1>0 DEF Receive, Shape, context, id
  <2>4. /\ pc'[r] \in {"respond", "ping", "handle", "parse"}
        /\ pc'[r] = "respond" =>
              response'[r].code = Unset /\ response'[r].status \in Nat
    <3>1. CASE Unrouted(c) = {}
      <4>1. \E label \in {"ping", "handle", "parse"} : pc' = [pc EXCEPT ![r] = label]
        BY <1>1, <3>1 DEF Receive
      <4> QED
        BY <1>0, <4>1 DEF Shape
    <3>2. ASSUME NEW status \in Unrouted(c), Goto(r, "respond"),
                 response' = [response EXCEPT ![r] = [status |-> status, code |-> Unset]]
          PROVE  pc'[r] = "respond" /\ response'[r].code = Unset /\ response'[r].status \in Nat
      <4>1. status \in Nat
        BY DEF Unrouted
      <4> QED
        BY <1>0, <3>2, <4>1 DEF Shape
    <3> QED
      BY <1>1, <3>1, <3>2 DEF Receive
  <2> QED
    BY <1>0, <2>1, <2>2, <2>3, <2>4 DEF Story, Tells, UnderWay, Codes
<1>2. ASSUME NEW code \in Codes \ {Unset}, NEW status \in Nat,
             pc[r] \in {"parse", "authenticate", "validate"},
             ErrorResponse(r, status, code), InTask(r, code), Goto(r, "respond"),
             UNCHANGED <<call, requestId, middlewareContext, reply, lines, events>>
      PROVE  Story(r)'
  <2>1. taskContext'[r].request_id = taskContext[r].request_id
    BY <1>0, <1>2 DEF InTask, SetRequestContext, ContextFields, Shape
  <2>2. /\ pc'[r] = "respond" /\ errorCode'[r] = code
        /\ response'[r].code = code /\ response'[r].status = status
    BY <1>0, <1>2 DEF ErrorResponse, Shape
  <2> QED
    BY <1>0, <1>2, <2>1, <2>2 DEF Story, Tells, LineTells, UnderWay
<1>3. CASE Authenticate(r)
  <2>1. CASE AuthenticationError(r) = Unset
    BY <1>0, <1>3, <2>1 DEF Authenticate, Story, Tells, LineTells, UnderWay, Shape
  <2>2. CASE AuthenticationError(r) # Unset
    <3>1. AuthenticationError(r) \in Codes \ {Unset}
      BY <2>2 DEF AuthenticationError, Codes, ErrorCodes
    <3> QED
      BY <1>2, <1>3, <2>2, <3>1 DEF Authenticate
  <2> QED
    BY <2>1, <2>2
<1>4. CASE Validate(r)
  <2>1. CASE call[r].body = "valid"
    BY <1>0, <1>4, <2>1 DEF Validate, Story, Tells, LineTells, UnderWay, Shape
  <2>2. CASE call[r].body # "valid"
    <3>1. "INVALID_REQUEST" \in Codes \ {Unset}
      BY UnsetAssumption DEF Codes, ErrorCodes
    <3> QED
      BY <1>2, <1>4, <2>2, <3>1 DEF Validate
  <2> QED
    BY <2>1, <2>2
<1>5. CASE Handle(r)
  <2>1. PICK outcome \in Outcomes(Surface(r)) :
          /\ events' = [events EXCEPT ![r] =
                            IF outcome.audited THEN @ \cup {taskContext[r].request_id} ELSE @]
          /\ IF outcome.code = Unset
             THEN /\ response' = [response EXCEPT
                                     ![r] = [status |-> outcome.status, code |-> Unset]]
                  /\ UNCHANGED <<errorCode, taskContext>>
             ELSE /\ ErrorResponse(r, outcome.status, outcome.code)
                  /\ IF outcome.status = 403 THEN InTask(r, outcome.code)
                                             ELSE UNCHANGED taskContext
    BY <1>5 DEF Handle
  <2>2. outcome.status \in Nat /\ outcome.code \in Codes
    BY OutcomesAreTyped
  <2>3. /\ pc[r] = "handle" /\ pc'[r] = "respond"
        /\ UNCHANGED <<call, requestId, middlewareContext, reply, lines>>
    BY <1>0, <1>5 DEF Handle, Shape
  <2>4. UnderWay(r) /\ errorCode[r] = Unset
    BY <1>0, <2>3 DEF Story
  <2>5. events'[r] \subseteq {requestId[r]}
    BY <1>0, <2>1, <2>4 DEF Story, Tells, UnderWay, Shape
  <2>6. taskContext'[r].request_id = taskContext[r].request_id
    BY <1>0, <2>1 DEF InTask, SetRequestContext, ContextFields, Shape
  <2>7. /\ response'[r].status = outcome.status /\ response'[r].code = outcome.code
        /\ errorCode'[r] = outcome.code
    BY <1>0, <2>1, <2>4 DEF ErrorResponse, Shape
  <2> QED
    BY <1>0, <2>2, <2>3, <2>4, <2>5, <2>6, <2>7 DEF Story, Tells, LineTells, UnderWay
<1>6. CASE HandlerRaises(r)
  BY <1>0, <1>6 DEF HandlerRaises, Story, Tells, LineTells, UnderWay, Shape
<1>7. CASE Ping(r)
  BY <1>0, <1>7 DEF Ping, Story, Tells, LineTells, UnderWay, Shape
<1>8. CASE ReportReadiness(r)
  BY <1>0, <1>8 DEF ReportReadiness, Story, Tells, LineTells, UnderWay, Shape, Codes
<1>9. CASE Complete(r)
  <2>1. /\ pc[r] = "respond" /\ UnderWay(r) /\ errorCode[r] \in Codes
        /\ response[r].code = errorCode[r] /\ response[r].status \in Nat
        /\ requestId[r] \in Ids
    BY <1>0, <1>9 DEF Complete, Story, UnderWay
  <2>2. Tells(r)'
    BY <1>9, <2>1, LastLine DEF Complete
  <2>3. pc'[r] = "done"
    BY <1>0, <1>9 DEF Complete, Shape
  <2> QED
    BY <2>2, <2>3 DEF Story
<1>10. CASE FailUnhandled(r)
  <2>1. pc[r] = "raise" /\ UnderWay(r)
    BY <1>0, <1>10 DEF FailUnhandled, Story
  <2> DEFINE more == [exception_type |-> "Exception"]
             status == 500
  <2>2. /\ WriteLine(r, ERROR, ContextWith(r, status, more), "request.failed")
        /\ reply' = [reply EXCEPT ![r] = [status |-> status, code |-> Unset,
                                          request_id |-> Unset]]
        /\ UNCHANGED <<call, requestId, events>>
    BY <1>10 DEF FailUnhandled
  <2>4. \E type : more = [exception_type |-> type]
    OBVIOUS
  <2>5. Unset \in Codes /\ Unset \in Ids \cup {Unset} /\ status \in Nat
    BY DEF Codes
  <2> HIDE DEF more, status
  <2>6. Tells(r)'
    BY <2>1, <2>2, <2>4, <2>5, LastLine
  <2>3. pc'[r] = "done"
    BY <1>0, <1>10 DEF FailUnhandled, Shape
  <2> QED
    BY <2>6, <2>3 DEF Story
<1>11. CASE ParseBody(r)
  <2>1. CASE Goto(r, "authenticate") /\ UNCHANGED <<taskContext, response, errorCode>>
    BY <1>0, <1>11, <2>1 DEF ParseBody, Story, Tells, LineTells, UnderWay, Shape
  <2>2. CASE /\ ErrorResponse(r, 422, "INVALID_REQUEST") /\ InTask(r, "INVALID_REQUEST")
             /\ Goto(r, "respond")
    <3>1. "INVALID_REQUEST" \in Codes \ {Unset} /\ 422 \in Nat
      BY UnsetAssumption DEF Codes, ErrorCodes
    <3>2. /\ pc[r] \in {"parse", "authenticate", "validate"}
          /\ UNCHANGED <<call, requestId, middlewareContext, reply, lines, events>>
      BY <1>11 DEF ParseBody
    <3> QED
      BY <1>2, <2>2, <3>1, <3>2
  <2>3. CASE /\ response' = [response EXCEPT ![r] = [status |-> 400, code |-> Unset]]
             /\ UNCHANGED <<taskContext, errorCode>> /\ Goto(r, "respond")
    BY <1>0, <1>11, <2>3 DEF ParseBody, Story, Tells, LineTells, UnderWay, Shape, Codes
  <2> QED
    BY <1>11, <2>1, <2>2, <2>3 DEF ParseBody
<1> QED
  BY <1>1, <1>3, <1>4, <1>5, <1>6, <1>7, <1>8, <1>9, <1>10, <1>11 DEF RequestStep

\* A step of a request leaves the other requests alone.
LEMMA ShapeStep ==
    ASSUME Shape, NEW r \in Requests, RequestStep(r)
    PROVE  Shape' /\ \A q \in Requests \ {r} : Untouched(q)
<1> USE DEF Shape, Untouched, Goto, Labels
<1>0. Shape
  OBVIOUS
<1>1. ASSUME NEW c \in Calls, Receive(r, c)
      PROVE  Shape' /\ \A q \in Requests \ {r} : Untouched(q)
  <2>1. \E label \in Labels : pc' = [pc EXCEPT ![r] = label]
    BY <1>1 DEF Receive
  <2>2. \/ response' = response
        \/ \E now : response' = [response EXCEPT ![r] = now]
    BY <1>1 DEF Receive
  <2>3. /\ \E id : requestId' = [requestId EXCEPT ![r] = id]
        /\ \E context : /\ middlewareContext' = [middlewareContext EXCEPT ![r] = context]
                         /\ taskContext' = [taskContext EXCEPT ![r] = context]
    BY <1>1 DEF Receive
  <2>4. /\ call' = [call EXCEPT ![r] = c]
        /\ UNCHANGED <<errorCode, reply, lines, events>>
    BY <1>1 DEF Receive
  <2>5. pc' \in [Requests -> Labels] /\ \A q \in Requests \ {r} : pc'[q] = pc[q]
    BY <1>0, <2>1
  <2>6. /\ requestId' = [q \in Requests |-> requestId'[q]]
        /\ middlewareContext' = [q \in Requests |-> middlewareContext'[q]]
        /\ taskContext' = [q \in Requests |-> taskContext'[q]]
        /\ \A q \in Requests \ {r} : /\ requestId'[q] = requestId[q]
                                     /\ middlewareContext'[q] = middlewareContext[q]
                                     /\ taskContext'[q] = taskContext[q]
    BY <1>0, <2>3
  <2>7. /\ response' = [q \in Requests |-> response'[q]]
        /\ \A q \in Requests \ {r} : response'[q] = response[q]
    BY <1>0, <2>2
  <2>8. /\ call' = [q \in Requests |-> call'[q]]
        /\ \A q \in Requests \ {r} : call'[q] = call[q]
    BY <1>0, <2>4
  <2> QED
    BY <1>0, <2>4, <2>5, <2>6, <2>7, <2>8
<1>2. CASE Authenticate(r)
  BY <1>0, <1>2 DEF Authenticate, ErrorResponse, InTask
<1>3. CASE Validate(r)
  BY <1>0, <1>3 DEF Validate, ErrorResponse, InTask
<1>4. CASE Handle(r)
  <2>1. /\ pc' = [pc EXCEPT ![r] = "respond"]
        /\ \E now : events' = [events EXCEPT ![r] = now]
        /\ \E now : response' = [response EXCEPT ![r] = now]
        /\ errorCode' = errorCode \/ \E now : errorCode' = [errorCode EXCEPT ![r] = now]
        /\ taskContext' = taskContext \/ \E now : taskContext' = [taskContext EXCEPT ![r] = now]
        /\ UNCHANGED <<call, requestId, middlewareContext, reply, lines>>
    <3>1. PICK outcome \in Outcomes(Surface(r)) :
            /\ events' = [events EXCEPT ![r] =
                              IF outcome.audited THEN @ \cup {taskContext[r].request_id} ELSE @]
            /\ IF outcome.code = Unset
               THEN /\ response' = [response EXCEPT
                                       ![r] = [status |-> outcome.status, code |-> Unset]]
                    /\ UNCHANGED <<errorCode, taskContext>>
               ELSE /\ ErrorResponse(r, outcome.status, outcome.code)
                    /\ IF outcome.status = 403 THEN InTask(r, outcome.code)
                                               ELSE UNCHANGED taskContext
      BY <1>4 DEF Handle
    <3>2. \E now : events' = [events EXCEPT ![r] = now]
      BY <3>1
    <3>3. /\ \E now : response' = [response EXCEPT ![r] = now]
          /\ errorCode' = errorCode \/ \E now : errorCode' = [errorCode EXCEPT ![r] = now]
      BY <3>1 DEF ErrorResponse
    <3>4. taskContext' = taskContext \/ \E now : taskContext' = [taskContext EXCEPT ![r] = now]
      BY <3>1 DEF InTask
    <3>5. /\ pc' = [pc EXCEPT ![r] = "respond"]
          /\ UNCHANGED <<call, requestId, middlewareContext, reply, lines>>
      BY <1>4 DEF Handle
    <3> QED
      BY <3>2, <3>3, <3>4, <3>5
  <2> QED
    BY <1>0, <2>1
<1>5. CASE HandlerRaises(r)
  BY <1>0, <1>5 DEF HandlerRaises
<1>6. CASE Ping(r)
  BY <1>0, <1>6 DEF Ping
<1>7. CASE ReportReadiness(r)
  <2>1. /\ pc' = [pc EXCEPT ![r] = "respond"]
        /\ \E now : response' = [response EXCEPT ![r] = now]
        /\ UNCHANGED <<call, requestId, middlewareContext, taskContext, errorCode, reply,
                       lines, events>>
    BY <1>7 DEF ReportReadiness
  <2> QED
    BY <1>0, <2>1
<1>8. CASE Complete(r) \/ FailUnhandled(r)
  <2>1. /\ pc' = [pc EXCEPT ![r] = "done"]
        /\ \E now : lines' = [lines EXCEPT ![r] = now]
        /\ \E now : reply' = [reply EXCEPT ![r] = now]
        /\ middlewareContext' = [middlewareContext EXCEPT ![r] = Blank]
        /\ UNCHANGED <<call, requestId, taskContext, errorCode, response, events>>
    BY <1>8 DEF Complete, FailUnhandled, WriteLine
  <2> QED
    BY <1>0, <2>1
<1>9. CASE ParseBody(r)
  BY <1>0, <1>9 DEF ParseBody, ErrorResponse, InTask
<1> QED
  BY <1>1, <1>2, <1>3, <1>4, <1>5, <1>6, <1>7, <1>8, <1>9 DEF RequestStep

\* Every step keeps all stories.
LEMMA LinesStep == ASSUME LinesInv, [Next]_vars PROVE LinesInv'
<1>1. ASSUME NEW r \in Requests, RequestStep(r) PROVE LinesInv'
  <2>1. \A q \in Requests \ {r} : Story(q)'
    BY <1>1, ShapeStep, StoryFrame DEF LinesInv
  <2> QED
    BY <1>1, <2>1, OwnStep, ShapeStep DEF LinesInv
<1>2. ASSUME /\ UNCHANGED <<call, requestId, taskContext, errorCode, response, reply, lines,
                            events>>
             /\ \/ UNCHANGED <<pc, middlewareContext>>
                \/ /\ pc' = [q \in Requests |-> IF q \in InFlight THEN "done" ELSE pc[q]]
                   /\ middlewareContext' = [q \in Requests |-> Blank]
      PROVE  LinesInv'
  <2>1. Shape'
    BY <1>2 DEF LinesInv, Shape, Labels
  <2>2. ASSUME NEW q \in Requests PROVE Story(q)'
    <3>1. pc'[q] = pc[q] /\ middlewareContext'[q] = middlewareContext[q] => Story(q)'
      BY <1>2, StoryFrame DEF LinesInv, Untouched
    <3>2. pc'[q] = "done" \/ (pc'[q] = "idle" /\ pc[q] = "idle") => Story(q)'
      BY <1>2 DEF LinesInv, Story, Tells, LineTells, Labels
    <3> QED
      BY <1>2, <3>1, <3>2 DEF InFlight, LinesInv, Shape
  <2> QED
    BY <2>1, <2>2 DEF LinesInv
<1>3. CASE Lifespan
  BY <1>2, <1>3 DEF Lifespan, requestVars
<1>4. CASE Crash
  BY <1>2, <1>4 DEF Crash
<1>5. CASE FlipDatabase
  BY <1>2, <1>5 DEF FlipDatabase
<1>6. CASE UNCHANGED vars
  BY <1>2, <1>6 DEF vars, requestVars
<1> QED
  BY <1>1, <1>3, <1>4, <1>5, <1>6 DEF Next

\* The log lines and the audit events of a request carry its own id, and the lines its
\* own route, status and error code: the middleware of app/main.py with the contexts of
\* observability/context.py and the request.state of interface/api/errors.py, whatever
\* other requests are being answered.
THEOREM LinesAreOfTheirRequest == Spec => []LinesTellOneRequest
<1>1. RequestInit => LinesInv
  BY DEF RequestInit, LinesInv, Shape, Story, Tells, LineTells, UnderWay, Labels
<1>2. LinesInv /\ [Next]_vars => LinesInv'
  BY LinesStep
<1>3. LinesInv => LinesTellOneRequest
  BY DEF LinesInv, Story, Tells, LineTells, LinesTellOneRequest, Answered
<1> QED
  BY <1>1, <1>2, <1>3, PTL DEF Spec

(* The counters.                                                           *)
Counts(q) == reply[q] # Unset /\ bornIn[q] = processes

HttpWith(labels) ==
    {q \in Requests : Counts(q) /\ HttpLabels(q, reply[q].status) = labels}

OperationsWith(labels) ==
    {q \in Requests : /\ Counts(q) /\ IsOperation(q)
                      /\ OperationLabels(q, reply[q].status) = labels}

BornOK ==
    /\ processes \in Nat /\ bornIn \in [Requests -> Nat]
    /\ \A q \in Requests : /\ bornIn[q] <= processes
                           /\ pc[q] \notin {"idle", "done"} => bornIn[q] = processes

\* For any labels, even ones no request has had.
CountsRight ==
    \A labels : /\ Value(httpTotal, labels) = Cardinality(HttpWith(labels))
                /\ Value(operationTotal, labels) = Cardinality(OperationsWith(labels))

CountInv == LinesInv /\ BornOK /\ CountsRight

\* There are finitely many requests of any labels to be counted.
LEMMA CountersAreNat ==
    ASSUME NEW labels
    PROVE  /\ IsFiniteSet(HttpWith(labels)) /\ Cardinality(HttpWith(labels)) \in Nat
           /\ IsFiniteSet(OperationsWith(labels))
           /\ Cardinality(OperationsWith(labels)) \in Nat
BY RequestsAssumption, FS_Subset, FS_CardinalityType DEF HttpWith, OperationsWith

\* Incrementing a counter adds one at its labels only.
LEMMA IncrementedValue ==
    ASSUME NEW counter, NEW labels, NEW others
    PROVE  Value(Increment(counter, labels), others) =
               IF others = labels THEN Value(counter, others) + 1 ELSE Value(counter, others)
BY DEF Value, Increment

\* Nothing that the counters and their requests depend on changes.
LEMMA CountsFrame ==
    ASSUME CountsRight,
           UNCHANGED <<processes, httpTotal, operationTotal>>,
           \A q \in Requests : reply'[q] = reply[q],
           \A q \in Requests : reply[q] # Unset => call'[q] = call[q] /\ bornIn'[q] = bornIn[q]
    PROVE  CountsRight'
<1>1. ASSUME NEW labels
      PROVE  /\ HttpWith(labels)' = HttpWith(labels)
             /\ OperationsWith(labels)' = OperationsWith(labels)
  BY DEF HttpWith, OperationsWith, Counts, HttpLabels, OperationLabels, IsOperation, Surface
<1> QED
  BY <1>1 DEF CountsRight, Value

\* No answer is the value that stands for none.
LEMMA AnswersAreSet ==
    ASSUME NEW status \in Nat, NEW code \in Codes, NEW id \in Ids \cup {Unset}
    PROVE  [status |-> status, code |-> code, request_id |-> id] # Unset
<1> DEFINE answer == [status |-> status, code |-> code, request_id |-> id]
           all == {Unset} \cup Requests \cup {c.request_id : c \in Calls}
<1>1. id \in all /\ code \in ErrorCodes \cup {Unset}
  BY DEF Codes, Ids
<1>2. answer \in [status: Nat, code: ErrorCodes \cup {Unset}, request_id: all]
  <2> HIDE DEF all
  <2> QED
    BY <1>1
<1>3. Unset \notin [status: Nat, code: ErrorCodes \cup {Unset}, request_id: all]
  BY UnsetAssumption
<1> HIDE DEF all
<1> QED
  BY <1>2, <1>3

\* A request that is answered is counted under the labels of its answer.
LEMMA AnswerIsCounted ==
    ASSUME CountInv, NEW r \in Requests, NEW answer, NEW status,
           answer # Unset, answer.status = status,
           pc[r] \in {"respond", "raise"},
           ObserveHttpRequest(r, status),
           reply' = [reply EXCEPT ![r] = answer],
           call' = call, bornIn' = bornIn, processes' = processes
    PROVE  CountsRight'
<1>1. reply[r] = Unset /\ bornIn[r] = processes
  BY DEF CountInv, LinesInv, Story, UnderWay, BornOK, Labels
<1>2. /\ reply'[r].status = status /\ reply'[r] # Unset
      /\ \A q \in Requests \ {r} : reply'[q] = reply[q]
  BY DEF CountInv, LinesInv, Shape
<1>3. ASSUME NEW labels
      PROVE  /\ r \notin HttpWith(labels)
             /\ HttpWith(labels)' = IF HttpLabels(r, status) = labels
                                    THEN HttpWith(labels) \cup {r} ELSE HttpWith(labels)
  BY <1>1, <1>2 DEF HttpWith, Counts, HttpLabels
<1>4. ASSUME NEW labels
      PROVE  /\ r \notin OperationsWith(labels)
             /\ OperationsWith(labels)' =
                    IF IsOperation(r) /\ OperationLabels(r, status) = labels
                    THEN OperationsWith(labels) \cup {r} ELSE OperationsWith(labels)
  BY <1>1, <1>2 DEF OperationsWith, Counts, OperationLabels, IsOperation, Surface
<1>5. ASSUME NEW labels
      PROVE  Value(httpTotal', labels) = Cardinality(HttpWith(labels)')
  BY <1>3, CountersAreNat, FS_AddElement, IncrementedValue
     DEF CountInv, CountsRight, ObserveHttpRequest
<1>6. ASSUME NEW labels
      PROVE  Value(operationTotal', labels) = Cardinality(OperationsWith(labels)')
  BY <1>4, CountersAreNat, FS_AddElement, IncrementedValue
     DEF CountInv, CountsRight, ObserveHttpRequest
<1> QED
  BY <1>5, <1>6 DEF CountsRight, Value

\* Every step keeps the counters right.
LEMMA CountStep == ASSUME CountInv, [Next]_vars PROVE CountInv'
<1>1. LinesInv' /\ Shape /\ BornOK
  BY LinesStep DEF CountInv, LinesInv
<1>2. ASSUME NEW r \in Requests, NEW c \in Calls, Receive(r, c) PROVE CountInv'
  <2>1. /\ call' = [call EXCEPT ![r] = c] /\ bornIn' = [bornIn EXCEPT ![r] = processes]
        /\ pc[r] = "idle" /\ \E label : pc' = [pc EXCEPT ![r] = label]
        /\ UNCHANGED <<processes, reply, httpTotal, operationTotal>>
    BY <1>2 DEF Receive, Goto, lifespanVars
  <2>2. reply[r] = Unset
    BY <2>1 DEF CountInv, LinesInv, Story
  <2>3. \A q \in Requests : reply[q] # Unset => call'[q] = call[q] /\ bornIn'[q] = bornIn[q]
    BY <1>1, <2>1, <2>2 DEF Shape, BornOK
  <2>4. CountsRight'
    BY <2>1, <2>3, CountsFrame DEF CountInv
  <2>5. BornOK'
    BY <1>1, <2>1 DEF Shape, BornOK
  <2> QED
    BY <1>1, <2>4, <2>5 DEF CountInv
<1>3. ASSUME NEW r \in Requests, Complete(r) \/ FailUnhandled(r) PROVE CountInv'
  <2>1. /\ pc[r] \in {"respond", "raise"} /\ pc' = [pc EXCEPT ![r] = "done"]
        /\ UNCHANGED <<call, bornIn, processes>>
    BY <1>3 DEF Complete, FailUnhandled, Goto, lifespanVars
  <2>2. PICK status \in Nat, code \in Codes, id \in Ids \cup {Unset} :
            /\ ObserveHttpRequest(r, status)
            /\ reply' = [reply EXCEPT ![r] = [status |-> status, code |-> code,
                                              request_id |-> id]]
    <3>1. CASE Complete(r)
      <4>1. /\ response[r].status \in Nat /\ response[r].code \in Codes
            /\ requestId[r] \in Ids
        BY <3>1 DEF Complete, CountInv, LinesInv, Story, UnderWay, Labels
      <4>2. ObserveHttpRequest(r, response[r].status)
        BY <3>1 DEF Complete
      <4>3. reply' = [reply EXCEPT ![r] = [status |-> response[r].status,
                                           code |-> response[r].code,
                                           request_id |-> requestId[r]]]
        BY <3>1 DEF Complete
      <4> QED
        BY <4>1, <4>2, <4>3
    <3>2. CASE FailUnhandled(r)
      <4> DEFINE status == 500
      <4>1. status \in Nat /\ Unset \in Codes /\ Unset \in Ids \cup {Unset}
        BY DEF Codes
      <4>2. ObserveHttpRequest(r, status)
        BY <3>2 DEF FailUnhandled
      <4>3. reply' = [reply EXCEPT ![r] = [status |-> status, code |-> Unset,
                                           request_id |-> Unset]]
        BY <3>2 DEF FailUnhandled
      <4> HIDE DEF status
      <4> QED
        BY <4>1, <4>2, <4>3
    <3> QED
      BY <1>3, <3>1, <3>2
  <2>3. [status |-> status, code |-> code, request_id |-> id] # Unset
    BY <2>2, AnswersAreSet
  <2>4. CountsRight'
    <3> DEFINE answer == [status |-> status, code |-> code, request_id |-> id]
    <3>1. answer # Unset /\ answer.status = status
      BY <2>3
    <3>2. ObserveHttpRequest(r, status) /\ reply' = [reply EXCEPT ![r] = answer]
      BY <2>2
    <3>3. pc[r] \in {"respond", "raise"} /\ call' = call /\ bornIn' = bornIn
          /\ processes' = processes
      BY <2>1
    <3> HIDE DEF answer
    <3> QED
      BY <3>1, <3>2, <3>3, AnswerIsCounted
  <2>5. BornOK'
    BY <1>1, <2>1 DEF Shape, BornOK
  <2> QED
    BY <1>1, <2>4, <2>5 DEF CountInv
<1>4. ASSUME UNCHANGED <<processes, bornIn, call, reply, httpTotal, operationTotal>>,
             \A q \in Requests : pc'[q] \notin {"idle", "done"} => pc[q] \notin {"idle", "done"}
      PROVE  CountInv'
  <2>1. CountsRight'
    BY <1>4, CountsFrame DEF CountInv
  <2> QED
    BY <1>1, <1>4, <2>1 DEF CountInv, BornOK
<1>5. ASSUME NEW r \in Requests,
             \/ ParseBody(r) \/ Authenticate(r) \/ Validate(r) \/ Handle(r)
             \/ HandlerRaises(r) \/ Ping(r) \/ ReportReadiness(r)
      PROVE  CountInv'
  <2>1. /\ UNCHANGED <<processes, bornIn, call, reply, httpTotal, operationTotal>>
        /\ pc[r] \notin {"idle", "done"} /\ \E label : pc' = [pc EXCEPT ![r] = label]
    BY <1>5 DEF ParseBody, Authenticate, Validate, Handle, HandlerRaises, Ping,
                ReportReadiness, Goto, lifespanVars
  <2> QED
    BY <1>1, <1>4, <2>1 DEF Shape
<1>6. CASE Lifespan
  <2>1. UNCHANGED processes
    BY <1>6, LifespanCases DEF EditFile, Migrate, LoadSettings, ConfigureFromSettings,
                               LogFileFails, BuildServices, StopAccepting, DisposeEngine
  <2> QED
    BY <1>4, <1>6, <2>1 DEF Lifespan, requestVars
<1>7. CASE FlipDatabase
  BY <1>4, <1>7 DEF FlipDatabase, lifespanVars
<1>8. CASE UNCHANGED vars
  BY <1>4, <1>8 DEF vars, requestVars, lifespanVars
<1>9. CASE Crash
  <2>1. /\ processes' = processes + 1
        /\ pc' = [q \in Requests |-> IF q \in InFlight THEN "done" ELSE pc[q]]
        /\ httpTotal' = NoEntries /\ operationTotal' = NoEntries /\ bornIn' = bornIn
    BY <1>9 DEF Crash, EndProcess
  <2>2. BornOK'
    BY <1>1, <2>1 DEF BornOK, InFlight
  <2>3. \A q \in Requests : ~Counts(q)'
    BY <1>1, <2>1 DEF Counts, BornOK
  <2>4. ASSUME NEW labels PROVE HttpWith(labels)' = {} /\ OperationsWith(labels)' = {}
    BY <2>3 DEF HttpWith, OperationsWith
  <2>5. CountsRight'
    BY <2>1, <2>4, FS_EmptySet DEF CountsRight, Value, NoEntries
  <2> QED
    BY <1>1, <2>2, <2>5 DEF CountInv
<1> QED
  BY <1>2, <1>3, <1>5, <1>6, <1>7, <1>8, <1>9 DEF Next, RequestStep

\* Both ways out of the middleware count a request once, under the labels of its answer,
\* and nothing else counts (app/main.py, observability/metrics.py observe_http_request).
THEOREM RequestsAreCountedOnce == Spec => []CountedOnce
<1>1. RequestInit => CountInv
  <2> SUFFICES ASSUME RequestInit PROVE CountInv
    OBVIOUS
  <2>1. LinesInv
    BY DEF RequestInit, LinesInv, Shape, Story, Tells, LineTells, UnderWay, Labels
  <2>2. BornOK
    BY DEF RequestInit, LifespanInit, BornOK
  <2>3. ASSUME NEW labels PROVE HttpWith(labels) = {} /\ OperationsWith(labels) = {}
    BY DEF HttpWith, OperationsWith, Counts, RequestInit
  <2>4. CountsRight
    BY <2>3, FS_EmptySet DEF CountsRight, Value, NoEntries, RequestInit
  <2> QED
    BY <2>1, <2>2, <2>4 DEF CountInv
<1>2. CountInv /\ [Next]_vars => CountInv'
  BY CountStep
<1>3. CountInv => CountedOnce
  <2> SUFFICES ASSUME CountInv PROVE CountedOnce
    OBVIOUS
  <2>1. ASSUME NEW labels
        PROVE  /\ HttpWith(labels) =
                     {r \in {q \in Answered : bornIn[q] = processes} :
                         HttpLabels(r, reply[r].status) = labels}
               /\ OperationsWith(labels) =
                     {r \in {q \in Answered : bornIn[q] = processes} :
                         IsOperation(r) /\ OperationLabels(r, reply[r].status) = labels}
    BY DEF HttpWith, OperationsWith, Counts, Answered
  <2> QED
    BY <2>1 DEF CountInv, CountsRight, CountedOnce
<1> QED
  BY <1>1, <1>2, <1>3, PTL DEF Spec

(* The gauge.                                                              *)
\* A probe that may still find the database has been seen with it within reach since
\* it came in, and the gauge is that of a request which has been received.
GaugeInv ==
    /\ pc \in [Requests -> Labels]
    /\ probed = [q \in Requests |-> probed[q]]
    /\ seenReachable \in [Requests -> BOOLEAN]
    /\ reachable \in BOOLEAN
    /\ gauge \in {Unset, 0, 1} /\ lastProbe \in Requests \cup {Unset}
    /\ \A q \in Requests :
        /\ pc[q] = "ping" /\ reachable => seenReachable[q]
        /\ pc[q] = "report" => probed[q] \in BOOLEAN /\ (probed[q] => seenReachable[q])
    /\ gauge = 1 => /\ lastProbe \in Requests
                    /\ pc[lastProbe] # "idle" /\ seenReachable[lastProbe]

\* Every step keeps the gauge earned.
LEMMA GaugeStep == ASSUME GaugeInv, [Next]_vars PROVE GaugeInv'
<1> USE DEF Goto, Labels
<1>1. ASSUME NEW r \in Requests, NEW c \in Calls, Receive(r, c) PROVE GaugeInv'
  <2>1. /\ pc[r] = "idle"
        /\ \/ pc' = [pc EXCEPT ![r] = "ping"] /\ c.route = "/readyz"
           \/ pc' = [pc EXCEPT ![r] = "respond"] \/ pc' = [pc EXCEPT ![r] = "handle"]
           \/ pc' = [pc EXCEPT ![r] = "parse"]
        /\ seenReachable' = [seenReachable EXCEPT ![r] = reachable /\ c.route = "/readyz"]
        /\ UNCHANGED <<reachable, gauge, lastProbe, probed>>
    BY <1>1 DEF Receive
  <2> QED
    BY <2>1 DEF GaugeInv
<1>2. ASSUME NEW r \in Requests, Ping(r) PROVE GaugeInv'
  <2>1. PICK answered \in {FALSE, engine # Unset /\ reachable} :
            probed' = [probed EXCEPT ![r] = answered]
    BY <1>2 DEF Ping
  <2>2. answered \in BOOLEAN /\ (answered => reachable)
    BY <2>1
  <2>3. /\ pc[r] = "ping" /\ pc' = [pc EXCEPT ![r] = "report"]
        /\ UNCHANGED <<reachable, gauge, lastProbe, seenReachable>>
    BY <1>2 DEF Ping
  <2> QED
    BY <2>1, <2>2, <2>3 DEF GaugeInv
<1>3. ASSUME NEW r \in Requests, ReportReadiness(r) PROVE GaugeInv'
  <2>1. /\ pc[r] = "report" /\ pc' = [pc EXCEPT ![r] = "respond"]
        /\ gauge' = DatabaseReadiness(probed[r]) /\ lastProbe' = r
        /\ UNCHANGED <<reachable, probed, seenReachable>>
    BY <1>3 DEF ReportReadiness
  <2> QED
    BY <2>1 DEF GaugeInv, DatabaseReadiness
<1>4. ASSUME UNCHANGED <<probed, reachable, seenReachable>>,
             \/ UNCHANGED <<gauge, lastProbe>>
             \/ gauge' = Unset /\ lastProbe' = Unset,
             pc' \in [Requests -> Labels],
             \A q \in Requests : /\ pc'[q] \in {"ping", "report"} => pc'[q] = pc[q]
                                 /\ pc'[q] = "idle" => pc[q] = "idle"
      PROVE  GaugeInv'
  BY <1>4, UnsetAssumption DEF GaugeInv
<1>5. ASSUME NEW r \in Requests,
             \/ ParseBody(r) \/ Authenticate(r) \/ Validate(r) \/ Handle(r)
             \/ HandlerRaises(r) \/ Complete(r) \/ FailUnhandled(r)
      PROVE  GaugeInv'
  <2>1. /\ UNCHANGED <<probed, reachable, seenReachable, gauge, lastProbe>>
        /\ \E label \in Labels \ {"idle", "ping", "report"} : pc' = [pc EXCEPT ![r] = label]
    BY <1>5 DEF ParseBody, Authenticate, Validate, Handle, HandlerRaises, Complete,
                FailUnhandled
  <2> QED
    BY <1>4, <2>1 DEF GaugeInv
<1>6. CASE Lifespan
  BY <1>4, <1>6 DEF Lifespan, requestVars, GaugeInv
<1>7. CASE Crash
  <2>1. /\ pc' = [q \in Requests |-> IF q \in InFlight THEN "done" ELSE pc[q]]
        /\ gauge' = Unset /\ lastProbe' = Unset
        /\ UNCHANGED <<probed, reachable, seenReachable>>
    BY <1>7 DEF Crash
  <2> QED
    BY <1>4, <2>1 DEF GaugeInv
<1>8. CASE FlipDatabase
  <2>1. /\ reachable' = ~reachable
        /\ seenReachable' = [q \in Requests |-> \/ seenReachable[q]
                                                \/ pc[q] \in {"ping", "report"} /\ ~reachable]
        /\ UNCHANGED <<pc, probed, gauge, lastProbe>>
    BY <1>8 DEF FlipDatabase
  <2> QED
    BY <2>1 DEF GaugeInv
<1>9. CASE UNCHANGED vars
  BY <1>4, <1>9 DEF vars, requestVars, GaugeInv
<1> QED
  BY <1>1, <1>2, <1>3, <1>5, <1>6, <1>7, <1>8, <1>9 DEF Next, RequestStep

\* In whatever order probes ping and report, the readiness gauge claims the database
\* only on the word of a probe during which it was within reach (interface/api/health.py
\* readiness, observability/metrics.py set_database_readiness).
THEOREM GaugeIsEarned == Spec => []GaugeNeverOverstates
<1>1. RequestInit => GaugeInv
  BY UnsetAssumption DEF RequestInit, GaugeInv, Labels
<1>2. GaugeInv /\ [Next]_vars => GaugeInv'
  BY GaugeStep
<1>3. GaugeInv => GaugeNeverOverstates
  BY UnsetAssumption DEF GaugeInv, GaugeNeverOverstates
<1> QED
  BY <1>1, <1>2, <1>3, PTL DEF Spec

(* The types.                                                              *)
IsLogger(x) ==
    x \in [handlers : {x.handlers}, level : Levels,
           propagate : BOOLEAN, disabled : BOOLEAN]

LoggersOK == \A l \in Loggers : IsLogger(loggers[l])

BoundsOK ==
    /\ edits \in 0 .. MaxEdits /\ startups \in 0 .. MaxStartups
    /\ processes \in 1 .. MaxProcesses
    /\ phase \in Started => startups > 0

TotalsOK ==
    /\ \A labels \in DOMAIN httpTotal : httpTotal[labels] \in Nat \ {0}
    /\ \A labels \in DOMAIN operationTotal : operationTotal[labels] \in Nat \ {0}

RequestsOK ==
    /\ Shape
    /\ \A r \in Requests : /\ DOMAIN middlewareContext[r] = ContextFields
                           /\ DOMAIN taskContext[r] = ContextFields
                           /\ pc[r] = "idle" <=> call[r] = Unset
    /\ InFlight # {} => phase \in Accepting

TypeInv ==
    SettingsInv /\ PoolInv /\ GaugeInv /\ LoggersOK /\ BoundsOK /\ TotalsOK /\ RequestsOK

\* Whatever the loggers were, configuring them gives loggers.
LEMMA ConfiguredLoggers ==
    ASSUME NEW old, \A l \in Loggers : IsLogger(old[l]),
           NEW level, NEW format, NEW appEnv, NEW path
    PROVE  \A l \in Loggers : IsLogger(ConfigureLogging(old, level, format, appEnv, path)[l])
<1> DEFINE config == BuildLoggingConfig(level, format, appEnv, path)
           reset == ResetLoggingHandlers(old)
<1>1. \A l \in Loggers : reset[l].disabled \in BOOLEAN
  BY DEF ResetLoggingHandlers, Fresh, IsLogger
<1>2. /\ DOMAIN config = Managed \cup {"root"}
      /\ \A l \in DOMAIN config : IsLogger(config[l])
  <2>1. ResolveLevel(level) \in Levels /\ NoisyLibraryLevel(ResolveLevel(level)) \in Levels
    BY DEF ResolveLevel, NoisyLibraryLevel, Levels
  <2> QED
    BY <2>1 DEF BuildLoggingConfig, IsLogger
<1>3. ASSUME NEW flag \in BOOLEAN PROVE IsLogger([Fresh EXCEPT !.disabled = flag])
  BY DEF Fresh, IsLogger, Levels
<1> HIDE DEF config, reset
<1>4. \A l \in Loggers : IsLogger(DictConfig(reset, config)[l])
  BY <1>1, <1>2, <1>3 DEF DictConfig
<1> QED
  BY <1>4 DEF ConfigureLogging, config, reset

\* The loggers of a new process are loggers.
LEMMA NewLoggersOK == \A l \in Loggers : IsLogger(NewLoggers[l])
BY DEF NewLoggers, Fresh, IsLogger, Levels

\* A migration's fileConfig leaves loggers.
LEMMA FileConfiguredLoggers ==
    ASSUME NEW old, \A l \in Loggers : IsLogger(old[l])
    PROVE  \A l \in Loggers : IsLogger(FileConfig(old)[l])
<1>1. ASSUME NEW l \in Loggers PROVE IsLogger(FileConfig(old)[l])
  <2>1. CASE l = "root"
    <3>1. FileConfig(old)[l] = [old[l] EXCEPT !.handlers = {Handler("stderr", "generic")},
                                              !.level = WARNING]
      BY <2>1 DEF FileConfig
    <3> QED
      BY <3>1 DEF IsLogger, Levels
  <2>2. CASE l = "sqlalchemy.engine"
    BY <2>2 DEF FileConfig, Fresh, IsLogger, Levels
  <2>3. CASE l # "root" /\ l # "sqlalchemy.engine"
    <3>1. FileConfig(old)[l] = [old[l] EXCEPT !.disabled = TRUE]
      BY <2>3 DEF FileConfig
    <3> QED
      BY <3>1 DEF IsLogger
  <2> QED
    BY <2>1, <2>2, <2>3
<1> QED
  BY <1>1

\* So does taking their handlers away.
LEMMA ResetLoggers ==
    ASSUME NEW old, \A l \in Loggers : IsLogger(old[l])
    PROVE  \A l \in Loggers : IsLogger(ResetLoggingHandlers(old)[l])
<1>1. ASSUME NEW l \in Loggers PROVE IsLogger(ResetLoggingHandlers(old)[l])
  <2>1. CASE l \in Descendants
    BY <2>1 DEF ResetLoggingHandlers, Fresh, IsLogger, Levels
  <2>2. CASE l \notin Descendants
    <3>1. ResetLoggingHandlers(old)[l] = [old[l] EXCEPT !.handlers = {}, !.disabled = FALSE]
      BY <2>2 DEF ResetLoggingHandlers
    <3> QED
      BY <3>1 DEF IsLogger
  <2> QED
    BY <2>1, <2>2
<1> QED
  BY <1>1

\* Every step keeps the loggers loggers.
LEMMA LoggersStep == ASSUME LoggersOK, [Next]_vars PROVE LoggersOK'
<1>1. CASE Migrate
  BY <1>1, FileConfiguredLoggers DEF Migrate, LoggersOK
<1>2. CASE ConfigureFromSettings
  BY <1>2, ConfiguredLoggers DEF ConfigureFromSettings, LoggersOK
<1>3. CASE Crash
  BY <1>3, NewLoggersOK, ConfiguredLoggers DEF Crash, EndProcess, ImportedLoggers, LoggersOK
<1>4. CASE loggers' = loggers
  BY <1>4 DEF LoggersOK
<1>5. ASSUME \/ \E content \in SettingsFiles : EditFile(content)
             \/ LoadSettings \/ BuildServices \/ StopAccepting \/ DisposeEngine
      PROVE  loggers' = loggers
  BY <1>5 DEF EditFile, LoadSettings, BuildServices, StopAccepting, DisposeEngine
<1>6. ASSUME FlipDatabase \/ \E r \in Requests : RequestStep(r) PROVE loggers' = loggers
  BY <1>6, OtherStepsKeepLifespan DEF lifespanVars
<1>7. CASE UNCHANGED vars
  BY <1>4, <1>7 DEF vars, lifespanVars
<1>8. CASE LogFileFails
  BY <1>8, ResetLoggers DEF LogFileFails, LoggersOK
<1>9. ASSUME Lifespan PROVE LoggersOK'
  BY <1>1, <1>2, <1>4, <1>5, <1>8, <1>9, LifespanCases
<1> QED
  BY <1>3, <1>4, <1>6, <1>7, <1>9 DEF Next

\* Every step keeps the bounded numbers within their bounds.
LEMMA BoundsStep == ASSUME BoundsOK, [Next]_vars PROVE BoundsOK'
<1> USE BoundsAssumption DEF BoundsOK, Started
<1>1. ASSUME NEW content \in SettingsFiles, EditFile(content) PROVE BoundsOK'
  BY <1>1 DEF EditFile
<1>2. CASE Migrate \/ ConfigureFromSettings \/ LogFileFails
  BY <1>2 DEF Migrate, ConfigureFromSettings, LogFileFails
<1>3. CASE LoadSettings
  BY <1>3 DEF LoadSettings
<1>4. CASE BuildServices
  BY <1>4 DEF BuildServices
<1>5. CASE StopAccepting \/ DisposeEngine
  BY <1>5 DEF StopAccepting, DisposeEngine
<1>6. CASE Crash
  BY <1>6 DEF Crash, EndProcess
<1>7. CASE UNCHANGED lifespanVars
  BY <1>7 DEF lifespanVars
<1> QED
  BY <1>1, <1>2, <1>3, <1>4, <1>5, <1>6, <1>7, LifespanCases, OtherStepsKeepLifespan
     DEF Next, vars

\* A counter that was incremented still has positive totals.
LEMMA IncrementedTotals ==
    ASSUME NEW counter, \A l \in DOMAIN counter : counter[l] \in Nat \ {0}, NEW labels
    PROVE  \A l \in DOMAIN Increment(counter, labels) :
               Increment(counter, labels)[l] \in Nat \ {0}
BY DEF Increment, Value

\* Every step keeps the totals positive.
LEMMA TotalsStep == ASSUME TotalsOK, [Next]_vars PROVE TotalsOK'
<1>1. ASSUME NEW r \in Requests, NEW status, ObserveHttpRequest(r, status) PROVE TotalsOK'
  BY <1>1, IncrementedTotals DEF ObserveHttpRequest, TotalsOK
<1>2. ASSUME NEW r \in Requests, Complete(r) \/ FailUnhandled(r) PROVE TotalsOK'
  BY <1>1, <1>2 DEF Complete, FailUnhandled
<1>3. CASE UNCHANGED <<httpTotal, operationTotal>>
  BY <1>3 DEF TotalsOK
<1>4. ASSUME NEW r \in Requests, NEW c \in Calls,
             \/ Receive(r, c) \/ ParseBody(r) \/ Authenticate(r) \/ Validate(r)
             \/ Handle(r) \/ HandlerRaises(r) \/ Ping(r) \/ ReportReadiness(r)
      PROVE  UNCHANGED <<httpTotal, operationTotal>>
  BY <1>4 DEF Receive, ParseBody, Authenticate, Validate, Handle, HandlerRaises, Ping,
              ReportReadiness
<1>5. CASE Lifespan \/ FlipDatabase \/ UNCHANGED vars
  BY <1>3, <1>5 DEF Lifespan, FlipDatabase, vars, requestVars
<1>6. CASE Crash
  BY <1>6 DEF Crash, TotalsOK, NoEntries
<1>7. ASSUME NEW r \in Requests, RequestStep(r) PROVE TotalsOK'
  <2>1. ASSUME NEW c \in Calls, Receive(r, c) PROVE UNCHANGED <<httpTotal, operationTotal>>
    BY <1>4, <2>1
  <2>2. ASSUME \/ ParseBody(r) \/ Authenticate(r) \/ Validate(r) \/ Handle(r)
               \/ HandlerRaises(r) \/ Ping(r) \/ ReportReadiness(r)
        PROVE  UNCHANGED <<httpTotal, operationTotal>>
    BY <2>2 DEF ParseBody, Authenticate, Validate, Handle, HandlerRaises, Ping,
                ReportReadiness
  <2> QED
    BY <1>2, <1>3, <1>7, <2>1, <2>2 DEF RequestStep
<1> QED
  BY <1>3, <1>5, <1>6, <1>7 DEF Next

\* The shape of the functions of requests, apart from the lines.
LEMMA ShapeOfNext == ASSUME Shape, [Next]_vars PROVE Shape'
<1>1. CASE Lifespan
  BY <1>1 DEF Lifespan, requestVars, Shape
<1>2. CASE Crash
  BY <1>2 DEF Crash, Shape, Labels
<1>3. CASE FlipDatabase
  BY <1>3 DEF FlipDatabase, Shape
<1>4. CASE UNCHANGED vars
  BY <1>4 DEF vars, requestVars, Shape
<1> QED
  BY <1>1, <1>2, <1>3, <1>4, ShapeStep DEF Next

\* Setting fields of a context adds none.
LEMMA ContextKeepsItsFields ==
    ASSUME NEW context, NEW changes
    PROVE  DOMAIN SetRequestContext(context, changes) = ContextFields
BY DEF SetRequestContext

\* Every step keeps the types of requests.
LEMMA RequestsStep ==
    ASSUME RequestsOK, PoolInv, [Next]_vars PROVE RequestsOK'
<1>0. Shape /\ Shape'
  BY ShapeOfNext DEF RequestsOK
<1>1. ASSUME UNCHANGED <<call, phase>>,
             \A q \in Requests :
                /\ middlewareContext'[q] = middlewareContext[q] \/ middlewareContext'[q] = Blank
                /\ \/ taskContext'[q] = taskContext[q]
                   \/ \E code : taskContext'[q] = SetRequestContext(taskContext[q], code)
                /\ pc'[q] = "idle" <=> pc[q] = "idle"
                /\ pc[q] = "done" => pc'[q] = "done"
      PROVE  RequestsOK'
  <2>1. DOMAIN Blank = ContextFields
    BY DEF Blank
  <2> QED
    BY <1>0, <1>1, <2>1, ContextKeepsItsFields DEF RequestsOK, InFlight
<1>2. ASSUME NEW r \in Requests, NEW c \in Calls, Receive(r, c) PROVE RequestsOK'
  <2>1. \E context : /\ DOMAIN context = ContextFields
                     /\ middlewareContext' = [middlewareContext EXCEPT ![r] = context]
                     /\ taskContext' = [taskContext EXCEPT ![r] = context]
    BY <1>2, ContextKeepsItsFields DEF Receive
  <2>2. /\ call' = [call EXCEPT ![r] = c] /\ phase' = phase /\ phase = "serving"
    BY <1>2 DEF Receive, lifespanVars
  <2>3. /\ \A q \in Requests \ {r} : pc'[q] = pc[q]
        /\ pc'[r] # "idle"
    BY <1>2, <1>0 DEF Receive, Goto, Shape
  <2>4. /\ \A q \in Requests \ {r} : /\ call'[q] = call[q]
                                     /\ middlewareContext'[q] = middlewareContext[q]
                                     /\ taskContext'[q] = taskContext[q]
        /\ call'[r] = c
        /\ DOMAIN middlewareContext'[r] = ContextFields
        /\ DOMAIN taskContext'[r] = ContextFields
    BY <2>1, <2>2, <1>0 DEF Shape
  <2>5. c # Unset
    BY UnsetAssumption
  <2> QED
    BY <1>0, <2>2, <2>3, <2>4, <2>5 DEF RequestsOK, Accepting
<1>3. ASSUME NEW r \in Requests,
             \/ ParseBody(r) \/ Authenticate(r) \/ Validate(r) \/ Handle(r)
             \/ HandlerRaises(r) \/ Ping(r) \/ ReportReadiness(r)
             \/ Complete(r) \/ FailUnhandled(r)
      PROVE  RequestsOK'
  <2>1. /\ UNCHANGED <<call, phase>>
        /\ pc[r] \notin {"idle", "done"}
        /\ \E label \in Labels \ {"idle"} : pc' = [pc EXCEPT ![r] = label]
    BY <1>3 DEF ParseBody, Authenticate, Validate, Handle, HandlerRaises, Ping,
                ReportReadiness, Complete, FailUnhandled, Goto, Labels, lifespanVars
  <2>2. \/ UNCHANGED middlewareContext
        \/ middlewareContext' = [middlewareContext EXCEPT ![r] = Blank]
    <3>1. CASE ParseBody(r) \/ Authenticate(r) \/ Validate(r) \/ Handle(r) \/ HandlerRaises(r)
      BY <3>1 DEF ParseBody, Authenticate, Validate, Handle, HandlerRaises
    <3>2. CASE Ping(r) \/ ReportReadiness(r) \/ Complete(r) \/ FailUnhandled(r)
      BY <3>2 DEF Ping, ReportReadiness, Complete, FailUnhandled
    <3> QED
      BY <1>3, <3>1, <3>2
  <2>3. \/ UNCHANGED taskContext
        \/ \E code : taskContext' = [taskContext EXCEPT
                                        ![r] = SetRequestContext(taskContext[r], code)]
    <3>1. CASE ParseBody(r) \/ Authenticate(r) \/ Validate(r)
      BY <3>1 DEF ParseBody, Authenticate, Validate, InTask
    <3>2. CASE Handle(r)
      BY <3>2 DEF Handle, InTask
    <3>3. CASE \/ HandlerRaises(r) \/ Ping(r) \/ ReportReadiness(r) \/ Complete(r)
               \/ FailUnhandled(r)
      BY <3>3 DEF HandlerRaises, Ping, ReportReadiness, Complete, FailUnhandled
    <3> QED
      BY <1>3, <3>1, <3>2, <3>3
  <2> QED
    BY <1>0, <1>1, <2>1, <2>2, <2>3 DEF Shape
<1>4. CASE Lifespan
  <2>1. UNCHANGED <<call, pc, middlewareContext, taskContext>>
    BY <1>4 DEF Lifespan, requestVars
  <2>2. InFlight' # {} => phase' \in Accepting
    <3>1. CASE InFlight = {}
      BY <2>1, <3>1 DEF InFlight
    <3>2. CASE InFlight # {}
      <4>1. phase \in Accepting
        BY <3>2 DEF RequestsOK
      <4>2. LifespanStep
        BY <1>4, <3>2 DEF Lifespan
      <4> QED
        BY <4>1, <4>2 DEF LifespanStep, EditFile, Migrate, LoadSettings, ConfigureFromSettings,
                          LogFileFails, BuildServices, StopAccepting, Accepting
    <3> QED
      BY <3>1, <3>2
  <2> QED
    BY <1>0, <2>1, <2>2 DEF RequestsOK
<1>5. CASE Crash
  <2>1. /\ UNCHANGED <<call, taskContext>>
        /\ middlewareContext' = [q \in Requests |-> Blank]
        /\ pc' = [q \in Requests |-> IF q \in InFlight THEN "done" ELSE pc[q]]
    BY <1>5 DEF Crash
  <2>2. InFlight' = {}
    BY <2>1 DEF InFlight
  <2>3. DOMAIN Blank = ContextFields
    BY DEF Blank
  <2> QED
    BY <1>0, <2>1, <2>2, <2>3 DEF RequestsOK, InFlight
<1>6. CASE FlipDatabase
  BY <1>1, <1>6 DEF FlipDatabase, lifespanVars
<1>7. CASE UNCHANGED vars
  BY <1>1, <1>7 DEF vars, requestVars, lifespanVars
<1> QED
  BY <1>2, <1>3, <1>4, <1>5, <1>6, <1>7 DEF Next, RequestStep

\* A startup's database has a URL.
LEMMA DatabaseIsNamed ==
    ASSUME NEW env \in Environments, NEW content \in SettingsFiles,
           ValidSettings(Settings(env, content))
    PROVE  Settings(env, content).database_url \in STRING
BY TextsAssumption DEF ValidSettings, Settings, Setting

\* Every variable holds a value of its kind in every reachable state, the loggers
\* included (observability/logging.py leaves none of them without a level or a flag),
\* and no request is answered outside of a lifespan (app/main.py).
THEOREM ProcessIsTyped == Spec => []ProcessTypeOK
<1>1. RequestInit => TypeInv
  <2> SUFFICES ASSUME RequestInit PROVE TypeInv
    OBVIOUS
  <2>1. SettingsInv /\ PoolInv
    BY SettingsInit DEF RequestInit, LifespanInit, PoolInv, OnePoolPerLifespan, Phases, Accepting
  <2>2. GaugeInv
    BY UnsetAssumption DEF RequestInit, GaugeInv, Labels
  <2>3. LoggersOK
    BY NewLoggersOK, ConfiguredLoggers DEF RequestInit, LifespanInit, ImportedLoggers, LoggersOK
  <2>4. BoundsOK /\ TotalsOK
    BY BoundsAssumption DEF RequestInit, LifespanInit, BoundsOK, TotalsOK, NoEntries, Started
  <2>5. RequestsOK
    BY DEF RequestInit, RequestsOK, Shape, Blank, Labels, InFlight
  <2> QED
    BY <2>1, <2>2, <2>3, <2>4, <2>5 DEF TypeInv
<1>2. TypeInv /\ [Next]_vars => TypeInv'
  BY SettingsStep, PoolStep, GaugeStep, LoggersStep, BoundsStep, TotalsStep, RequestsStep
     DEF TypeInv
<1>3. TypeInv => ProcessTypeOK
  <2> SUFFICES ASSUME TypeInv PROVE ProcessTypeOK
    OBVIOUS
  <2>1. pools \subseteq [startup : 1 .. MaxStartups, url : STRING]
    <3>1. CASE phase \in Accepting
      <4>1. cache.database_url \in STRING
        BY <3>1, DatabaseIsNamed DEF TypeInv, SettingsInv, Started, Accepting
      <4>2. startups \in 1 .. MaxStartups
        BY <3>1, BoundsAssumption DEF TypeInv, BoundsOK, Started, Accepting
      <4> QED
        BY <3>1, <4>1, <4>2 DEF TypeInv, PoolInv, OnePoolPerLifespan
    <3>2. CASE phase \notin Accepting
      BY <3>2 DEF TypeInv, PoolInv, OnePoolPerLifespan
    <3> QED
      BY <3>1, <3>2
  <2>2. \A l \in Loggers : /\ loggers[l].level \in Levels
                           /\ loggers[l].propagate \in BOOLEAN
                           /\ loggers[l].disabled \in BOOLEAN
    BY DEF TypeInv, LoggersOK, IsLogger
  <2>3. /\ phase \in Phases /\ environment \in Environments /\ file \in SettingsFiles
        /\ edits \in 0 .. MaxEdits /\ startups \in 0 .. MaxStartups
        /\ processes \in 1 .. MaxProcesses
        /\ gauge \in {Unset, 0, 1} /\ lastProbe \in Requests \cup {Unset}
    BY DEF TypeInv, SettingsInv, BoundsOK, GaugeInv
  <2>4. /\ \A r \in Requests : /\ pc[r] \in Labels
                               /\ DOMAIN middlewareContext[r] = ContextFields
                               /\ DOMAIN taskContext[r] = ContextFields
                               /\ pc[r] = "idle" <=> call[r] = Unset
        /\ \A labels \in DOMAIN httpTotal : httpTotal[labels] \in Nat \ {0}
        /\ \A labels \in DOMAIN operationTotal : operationTotal[labels] \in Nat \ {0}
        /\ InFlight # {} => phase \in Accepting
    BY DEF TypeInv, RequestsOK, Shape, TotalsOK
  <2> QED
    BY <2>1, <2>2, <2>3, <2>4 DEF ProcessTypeOK
<1> QED
  BY <1>1, <1>2, <1>3, PTL DEF Spec

(* The records.                                                            *)
\* The loggers as a configuration leaves them.
Routed(tree, config) ==
    \A l \in Loggers : tree[l] = IF l \in Managed \cup {"root"} THEN config[l] ELSE Fresh

LoggingConfig(settings) ==
    BuildLoggingConfig(settings.log_level, settings.log_format, settings.app_env,
                       settings.log_file_path)

RoutingInv ==
    phase \in {"build", "serving", "draining"} => Routed(loggers, LoggingConfig(cache))

\* Whatever the loggers were like, configuring them leaves nothing of it.
LEMMA ConfiguredIsRouted ==
    ASSUME NEW old, NEW level, NEW format, NEW appEnv, NEW path
    PROVE  Routed(ConfigureLogging(old, level, format, appEnv, path),
                  BuildLoggingConfig(level, format, appEnv, path))
<1> DEFINE config == BuildLoggingConfig(level, format, appEnv, path)
           reset == ResetLoggingHandlers(old)
<1>1. DOMAIN config = Managed \cup {"root"}
  BY DEF BuildLoggingConfig
<1>2. ASSUME NEW l \in Loggers, l \notin Managed \cup {"root"} PROVE reset[l] = Fresh
  <2>1. l \in Descendants
    BY <1>2 DEF Loggers
  <2> QED
    BY <2>1 DEF ResetLoggingHandlers
<1>3. [Fresh EXCEPT !.disabled = Fresh.disabled] = Fresh
  BY DEF Fresh
<1> HIDE DEF config, reset
<1>4. ASSUME NEW l \in Loggers
      PROVE  DictConfig(reset, config)[l] = IF l \in DOMAIN config THEN config[l] ELSE Fresh
  <2>1. CASE l \in DOMAIN config
    BY <2>1 DEF DictConfig
  <2>2. CASE l \notin DOMAIN config
    BY <1>1, <1>2, <1>3, <2>2 DEF DictConfig
  <2> QED
    BY <2>1, <2>2
<1> QED
  BY <1>1, <1>4 DEF ConfigureLogging, Routed, config, reset

\* A record of l climbs to its k-th logger, the first managed one, and no further.
StopsAt(l, k, tree, config) ==
    /\ Ancestry[l][k] \in Managed
    /\ \A j \in 1 .. k - 1 : Ancestry[l][j] \notin Managed
    /\ EffectiveLevel(tree, l) = config[Ancestry[l][k]].level
    /\ tree[l].disabled = FALSE
    /\ \A level : EnabledFor(tree, l, level) =>
          HandlersReached(tree, l, level) = {k} \X config[Ancestry[l][k]].handlers

\* The managed loggers decide; where they have no level, no logger has one.
ManagedDecide(config) ==
    /\ \A m \in Managed : config[m].disabled = FALSE /\ config[m].propagate = FALSE
    /\ \/ \A m \in Managed : config[m].level # NOTSET
       \/ \A m \in Managed \cup {"root"} : config[m].level = NOTSET

\* Until then it meets loggers that do nothing.
LEMMA RecordStopsAtManaged ==
    ASSUME NEW l \in Managed \cup Descendants, NEW tree, NEW config,
           Routed(tree, config), ManagedDecide(config)
    PROVE  \E k \in DOMAIN Ancestry[l] : StopsAt(l, k, tree, config)
<1> DEFINE path == Ancestry[l]
           T == {k \in DOMAIN path : path[k] \in Managed}
<1>1. /\ l \in Loggers /\ path \in Seq(Loggers) /\ Len(path) \in Nat /\ Len(path) > 0
      /\ DOMAIN path = 1 .. Len(path) /\ path[1] = l
      /\ \A k \in DOMAIN path : path[k] \in Loggers
      /\ \A k \in DOMAIN path : path[k] = "root" <=> k = Len(path)
  <2>1. l \in Loggers
    BY DEF Loggers
  <2> QED
    BY <2>1, AncestryAssumption
<1>2. T \in SUBSET Nat /\ T # {}
  <2>1. 1 \in DOMAIN path /\ path[1] = l
    BY <1>1
  <2>2. \E k \in DOMAIN path : path[k] \in Managed
    BY <2>1, DescendantsAssumption
  <2> QED
    BY <1>1, <2>2
<1>3. PICK k \in T : \A j \in T : k <= j
  <2> HIDE DEF T
  <2> QED
    BY <1>2, LeastNatural
<1>4. k \in 1 .. Len(path) /\ path[k] \in Managed /\ path[k] \in Loggers
  BY <1>1, <1>3
<1>5. \A j \in 1 .. k - 1 : j \in DOMAIN path /\ path[j] \notin Managed
  BY <1>1, <1>3, <1>4
<1>6. \A j \in 1 .. k - 1 : tree[path[j]] = Fresh
  BY <1>1, <1>4, <1>5 DEF Routed
<1>7. /\ tree[path[k]] = config[path[k]]
      /\ config[path[k]].disabled = FALSE /\ config[path[k]].propagate = FALSE
  BY <1>4 DEF Routed, ManagedDecide
<1> HIDE DEF T
<1>8. EffectiveLevel(tree, l) = config[path[k]].level
  <2>1. CASE config[path[k]].level # NOTSET
    <3> DEFINE set == {i \in DOMAIN path : tree[path[i]].level # NOTSET}
    <3>1. k \in set
      BY <1>1, <1>4, <1>7, <2>1
    <3>2. \A i \in set : i \in Nat /\ k <= i
      BY <1>1, <1>4, <1>6 DEF Fresh
    <3>3. (CHOOSE i \in set : \A j \in set : i <= j) = k
      <4> DEFINE first == CHOOSE i \in set : \A j \in set : i <= j
      <4>1. first \in set /\ \A j \in set : first <= j
        <5> HIDE DEF set
        <5> QED
          BY <3>1, <3>2
      <4> HIDE DEF first, set
      <4>2. first <= k /\ k <= first /\ first \in Nat /\ k \in Nat
        BY <3>1, <3>2, <4>1
      <4>3. first = k
        BY <4>2
      <4> QED
        BY <4>3 DEF first
    <3>4. EffectiveLevel(tree, l) =
              IF set = {} THEN NOTSET
              ELSE tree[path[CHOOSE i \in set : \A j \in set : i <= j]].level
      BY DEF EffectiveLevel
    <3> HIDE DEF set
    <3> QED
      BY <1>7, <3>1, <3>3, <3>4
  <2>2. CASE config[path[k]].level = NOTSET
    <3>1. \A m \in Managed \cup {"root"} : config[m].level = NOTSET
      BY <1>4, <2>2 DEF ManagedDecide
    <3>2. \A m \in Loggers : tree[m].level = NOTSET
      BY <3>1 DEF Routed, Fresh
    <3>3. {i \in DOMAIN path : tree[path[i]].level # NOTSET} = {}
      BY <1>1, <3>2
    <3> QED
      BY <2>2, <3>3 DEF EffectiveLevel
  <2> QED
    BY <2>1, <2>2
<1>9. tree[l].disabled = FALSE
  <2>1. CASE k = 1
    BY <1>1, <1>4, <1>7, <2>1
  <2>2. CASE k # 1
    BY <1>1, <1>4, <1>6, <2>2 DEF Fresh
  <2> QED
    BY <2>1, <2>2
<1>10. Reached(tree, l) = 1 .. k
  <2>1. \A i \in 1 .. k : i \in Reached(tree, l)
    BY <1>1, <1>4, <1>6 DEF Reached, Fresh
  <2>2. ASSUME NEW i \in Reached(tree, l) PROVE i \in 1 .. k
    <3>1. i \in 1 .. Len(path) /\ \A j \in 1 .. i - 1 : tree[path[j]].propagate
      BY <1>1 DEF Reached
    <3>2. ~tree[path[k]].propagate
      BY <1>4, <1>7
    <3> QED
      BY <1>1, <1>4, <3>1, <3>2
  <2> QED
    BY <2>1, <2>2
<1>11. ASSUME NEW level, EnabledFor(tree, l, level)
       PROVE  HandlersReached(tree, l, level) = {k} \X config[path[k]].handlers
  <2>1. HandlersReached(tree, l, level) = UNION {{i} \X tree[path[i]].handlers : i \in 1 .. k}
    BY <1>10, <1>11 DEF HandlersReached
  <2>2. \A i \in 1 .. k - 1 : {i} \X tree[path[i]].handlers = {}
    BY <1>6 DEF Fresh
  <2>3. \A i \in 1 .. k : i = k \/ i \in 1 .. k - 1
    BY <1>4
  <2>4. k \in 1 .. k
    BY <1>4
  <2> QED
    BY <1>7, <2>1, <2>2, <2>3, <2>4
<1> QED
  BY <1>1, <1>4, <1>5, <1>8, <1>9, <1>11 DEF StopsAt

\* What the handlers of a configuration write where.
WritesOnce(settings, reached, m) ==
    /\ Count(reached, "stdout") = 1
    /\ settings.log_file_path # Unset =>
          Count(reached, settings.log_file_path) = IF m = "uvicorn.access" THEN 0 ELSE 1

\* The handlers of one managed logger write a record once to each sink.
LEMMA WrittenOnce ==
    ASSUME NEW k, NEW m \in Managed, NEW settings,
           settings.log_file_path = Unset \/ settings.log_file_path # "stdout"
    PROVE  WritesOnce(settings, {k} \X LoggingConfig(settings)[m].handlers, m)
<1> DEFINE format == ResolveLogFormat(settings.log_format, settings.app_env)
           console == Handler("stdout", format)
           written == Handler(settings.log_file_path, "json")
           both == {console} \cup (IF settings.log_file_path = Unset THEN {} ELSE {written})
           handlers == LoggingConfig(settings)[m].handlers
           reached == {k} \X handlers
<1>1. handlers = IF m = "uvicorn.access" THEN {console} ELSE both
  BY DEF LoggingConfig, BuildLoggingConfig, HandlersOf
<1>2. console.sink = "stdout" /\ written.sink = settings.log_file_path
  BY DEF Handler
<1> HIDE DEF console, written, handlers
<1>3. {climb \in reached : climb[2].sink = "stdout"} = {<<k, console>>}
  BY <1>1, <1>2
<1>4. settings.log_file_path # Unset =>
         {climb \in reached : climb[2].sink = settings.log_file_path} =
             IF m = "uvicorn.access" THEN {} ELSE {<<k, written>>}
  BY <1>1, <1>2
<1> HIDE DEF reached
<1>5. Count(reached, "stdout") = 1
  BY <1>3, FS_Singleton DEF Count
<1>6. settings.log_file_path # Unset =>
         Count(reached, settings.log_file_path) = IF m = "uvicorn.access" THEN 0 ELSE 1
  BY <1>4, FS_Singleton, FS_EmptySet DEF Count
<1> QED
  BY <1>5, <1>6 DEF reached, handlers, WritesOnce

\* No handler writes nothing.
LEMMA NothingWritten == \A sink : Count({}, sink) = 0
<1>1. ASSUME NEW sink PROVE {climb \in {} : climb[2].sink = sink} = {}
  OBVIOUS
<1> QED
  BY <1>1, FS_EmptySet DEF Count

\* The body of EachRecordOnce.
LEMMA RoutedRecords ==
    ASSUME NEW settings, NEW tree, Routed(tree, LoggingConfig(settings)),
           settings.log_file_path = Unset \/ settings.log_file_path # "stdout",
           NEW l \in Managed \cup Descendants, NEW level \in {INFO, WARNING}
    PROVE  LET reached == HandlersReached(tree, l, level)
               configured == ResolveLevel(settings.log_level)
               written ==
                   IF level >= IF \E k \in DOMAIN Ancestry[l] : Ancestry[l][k] \in Noisy
                               THEN NoisyLibraryLevel(configured) ELSE configured
                   THEN 1 ELSE 0
           IN  /\ Count(reached, "stdout") = written
               /\ settings.log_file_path # Unset =>
                     Count(reached, settings.log_file_path) =
                         IF l = "uvicorn.access" THEN 0 ELSE written
<1> DEFINE config == LoggingConfig(settings)
           configured == ResolveLevel(settings.log_level)
           path == Ancestry[l]
           threshold == IF \E k \in DOMAIN path : path[k] \in Noisy
                        THEN NoisyLibraryLevel(configured) ELSE configured
           reached == HandlersReached(tree, l, level)
<1>1. /\ DOMAIN config = Managed \cup {"root"} /\ config["root"].level = configured
      /\ \A m \in Managed :
            /\ config[m].level = IF m \in Noisy THEN NoisyLibraryLevel(configured)
                                                ELSE configured
            /\ config[m].disabled = FALSE /\ config[m].propagate = FALSE
  BY DEF LoggingConfig, BuildLoggingConfig, Managed, Noisy
<1>2. /\ configured \in Levels /\ NoisyLibraryLevel(configured) \in Levels
      /\ configured = NOTSET <=> NoisyLibraryLevel(configured) = NOTSET
  BY DEF ResolveLevel, NoisyLibraryLevel, Levels, NOTSET, DEBUG, INFO, WARNING, ERROR, CRITICAL
<1> HIDE DEF config, configured
<1>3. ManagedDecide(config)
  BY <1>1, <1>2 DEF ManagedDecide
<1>4. PICK k \in DOMAIN path : StopsAt(l, k, tree, config)
  BY <1>3, RecordStopsAtManaged DEF config
<1>5. /\ l \in Loggers /\ DOMAIN path = 1 .. Len(path) /\ Len(path) \in Nat /\ path[1] = l
  BY AncestryAssumption DEF Loggers
<1>6. /\ path[k] \in Managed
      /\ \A j \in 1 .. k - 1 : path[j] \notin Managed
      /\ EffectiveLevel(tree, l) = config[path[k]].level
      /\ tree[l].disabled = FALSE
      /\ EnabledFor(tree, l, level) => reached = {k} \X config[path[k]].handlers
  BY <1>4 DEF StopsAt
<1>7. (\E i \in DOMAIN path : path[i] \in Noisy) <=> path[k] \in Noisy
  <2>1. ASSUME NEW i \in DOMAIN path, path[i] \in Noisy PROVE path[k] \in Noisy
    <3>1. path[i] \in Managed
      BY <2>1 DEF Noisy, Managed
    <3>2. k <= i
      BY <1>6, <1>4, <1>5, <3>1
    <3>3. k \in 1 .. i
      BY <1>6, <1>4, <1>5, <3>2
    <3> QED
      BY <1>6, <1>4, <1>5, <2>1, <3>3, NamesAssumption
  <2> QED
    BY <1>6, <1>4, <2>1
<1>8. path[k] = "uvicorn.access" <=> l = "uvicorn.access"
  <2>1. l = "uvicorn.access" => k = 1
    <3>1. ASSUME l = "uvicorn.access", k # 1 PROVE FALSE
      <4>1. 1 \in 1 .. k - 1 /\ path[1] \in Managed
        BY <1>6, <1>4, <1>5, <3>1 DEF Managed
      <4> QED
        BY <1>6, <1>4, <4>1
    <3> QED
      BY <3>1
  <2>2. path[k] = "uvicorn.access" => k = 1
    BY <1>6, <1>4, <1>5, NamesAssumption
  <2> QED
    BY <1>5, <2>1, <2>2
<1>9. EnabledFor(tree, l, level) <=> level >= threshold
  BY <1>1, <1>6, <1>4, <1>7 DEF EnabledFor
<1>10. CASE level >= threshold
  <2>1. reached = {k} \X config[path[k]].handlers
    BY <1>6, <1>4, <1>9, <1>10
  <2>2. WritesOnce(settings, {k} \X config[path[k]].handlers, path[k])
    BY <1>6, WrittenOnce DEF config
  <2> HIDE DEF reached, threshold
  <2>3. /\ Count(reached, "stdout") = 1
        /\ settings.log_file_path # Unset =>
              Count(reached, settings.log_file_path) = IF l = "uvicorn.access" THEN 0 ELSE 1
    BY <1>8, <2>1, <2>2 DEF WritesOnce
  <2> QED
    BY <1>10, <2>3 DEF reached, threshold, configured
<1>11. CASE ~(level >= threshold)
  <2>1. reached = {}
    BY <1>9, <1>11 DEF HandlersReached
  <2> HIDE DEF reached, threshold
  <2>2. Count(reached, "stdout") = 0 /\ Count(reached, settings.log_file_path) = 0
    BY <2>1, NothingWritten
  <2> QED
    BY <1>11, <2>2 DEF reached, threshold, configured
<1> QED
  BY <1>10, <1>11

\* Every step keeps the loggers as configured while requests are served.
LEMMA RoutingStep == ASSUME RoutingInv, [Next]_vars PROVE RoutingInv'
<1> USE DEF RoutingInv
<1>1. ASSUME NEW content \in SettingsFiles, EditFile(content) PROVE RoutingInv'
  BY <1>1 DEF EditFile
<1>2. CASE Migrate
  BY <1>2 DEF Migrate
<1>3. CASE LoadSettings
  BY <1>3 DEF LoadSettings
<1>4. CASE ConfigureFromSettings
  BY <1>4, ConfiguredIsRouted DEF ConfigureFromSettings, LoggingConfig
<1>5. CASE BuildServices
  BY <1>5 DEF BuildServices
<1>6. CASE StopAccepting
  BY <1>6 DEF StopAccepting
<1>7. CASE DisposeEngine
  BY <1>7 DEF DisposeEngine
<1>8. CASE Crash
  BY <1>8 DEF Crash, EndProcess
<1>9. CASE UNCHANGED lifespanVars
  BY <1>9 DEF lifespanVars
<1>10. CASE UNCHANGED vars
  BY <1>9, <1>10 DEF vars
<1>11. CASE LogFileFails
  BY <1>11 DEF LogFileFails
<1> QED
  BY <1>1, <1>2, <1>3, <1>4, <1>5, <1>6, <1>7, <1>8, <1>9, <1>10, <1>11, LifespanCases,
     OtherStepsKeepLifespan DEF Next

\* Whatever Alembic or an earlier lifespan made of the loggers, each record of the
\* application and its frameworks is written once to each place it belongs
\* (observability/logging.py configure_logging), for any loggers below the managed ones.
THEOREM RecordsAreWrittenOnce == Spec => []EachRecordOnce
<1>1. RequestInit => SettingsInv /\ RoutingInv
  BY SettingsInit DEF RequestInit, LifespanInit, RoutingInv
<1>2. SettingsInv /\ RoutingInv /\ [Next]_vars => SettingsInv' /\ RoutingInv'
  BY SettingsStep, RoutingStep
<1>3. SettingsInv /\ RoutingInv => EachRecordOnce
  <2> SUFFICES ASSUME SettingsInv, RoutingInv, phase \in Accepting,
                      NEW l \in Managed \cup Descendants, NEW level \in {INFO, WARNING}
               PROVE  LET reached == HandlersReached(loggers, l, level)
                          configured == ResolveLevel(cache.log_level)
                          written ==
                              IF level >= IF \E k \in DOMAIN Ancestry[l] :
                                                Ancestry[l][k] \in Noisy
                                          THEN NoisyLibraryLevel(configured) ELSE configured
                              THEN 1 ELSE 0
                      IN  /\ Count(reached, "stdout") = written
                          /\ cache.log_file_path # Unset =>
                                Count(reached, cache.log_file_path) =
                                    IF l = "uvicorn.access" THEN 0 ELSE written
    BY DEF EachRecordOnce
  <2>1. cache.log_file_path = Unset \/ cache.log_file_path # "stdout"
    BY TextsAssumption DEF SettingsInv, Accepting, Started, Settings, Setting
  <2>2. Routed(loggers, LoggingConfig(cache))
    BY DEF RoutingInv, Accepting
  <2> QED
    BY <2>1, <2>2, RoutedRecords
<1> QED
  BY <1>1, <1>2, <1>3, PTL DEF Spec
=============================================================================
