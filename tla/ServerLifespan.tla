--------------------------- MODULE ServerLifespan ---------------------------
(***************************************************************************)
(* The process-wide state of the server: the memoised settings, the        *)
(* database engine with its session factory, the service container and the *)
(* loggers, from the import of app/main.py through the lifespan's startup  *)
(* and shutdown, in processes that end and are started again.  A process   *)
(* may run the lifespan more than once, and run the migrations of          *)
(* alembic/env.py in between, as the integration tests do.                 *)
(*                                                                         *)
(* The environment of a process is fixed; the settings file (.env) may be  *)
(* edited at any time.  Both are functions from the variables they set.    *)
(***************************************************************************)
EXTENDS LogRouting, Governance

CONSTANTS
    Environments,   \* of a process
    SettingsFiles,  \* contents of the file
    MalformedURLs,  \* texts that create_engine refuses
    PrintedURL,     \* URL |-> its text in str(engine.url), the password masked
    MaxStartups,    \* bound: startups, over all processes
    MaxProcesses,   \* bound
    MaxEdits        \* bound: edits of the file

VARIABLES
    environment, file, edits,
    processes,          \* count of processes started
    startups,           \* count of lifespans started
    phase,              \* of the process's lifespan
    cache,              \* get_settings' memo
    engine, factory,    \* db._ENGINE and the engine _SESSION_FACTORY is bound to
    pools,              \* engines created in this process and not disposed
    services,           \* app.state.services
    loggers,
    readFile            \* history: what the file held when this startup began

lifespanVars == <<environment, file, edits, processes, startups, phase, cache,
                  engine, factory, pools, services, loggers, readFile>>

Phases == {"stopped", "configure", "build", "serving", "draining"}

Keys == {"DATABASE_URL", "APP_ENV", "LOG_LEVEL", "LOG_FORMAT", "LOG_FILE_PATH",
         "AUTH_TOKENS_JSON", "POLICY_PROFILES_JSON", "ACTIVE_POLICY_PROFILE"}

\* A variable holding a JSON object is set in one of the two places.
ASSUME EnvironmentAssumption ==
    \A e \in Environments, s \in SettingsFiles :
        /\ DOMAIN e \cup DOMAIN s \subseteq Keys
        /\ DOMAIN e \cap DOMAIN s \cap {"AUTH_TOKENS_JSON", "POLICY_PROFILES_JSON"} = {}

\* A profile in POLICY_PROFILES_JSON: any part of the fields, the rules of any tiers.
ConfiguredProfile(profile) ==
    /\ "publish_rules" \in DOMAIN profile =>
          /\ DOMAIN profile["publish_rules"] \subseteq TrustTiers
          /\ \A tier \in DOMAIN profile["publish_rules"] :
                profile["publish_rules"][tier] \in
                    [required_scope: Scopes, provenance_required: BOOLEAN]
    /\ "lifecycle_transitions" \in DOMAIN profile =>
          \A status \in DOMAIN profile["lifecycle_transitions"] :
              profile["lifecycle_transitions"][status] \subseteq Statuses
    /\ \A field \in DOMAIN profile \ {"publish_rules", "lifecycle_transitions"} :
          profile[field] \subseteq Statuses

ASSUME ProfilesAssumption ==
    \A place \in Environments \cup SettingsFiles :
        "POLICY_PROFILES_JSON" \in DOMAIN place =>
            \A name \in DOMAIN place["POLICY_PROFILES_JSON"] :
                ConfiguredProfile(place["POLICY_PROFILES_JSON"][name])
\* A file is named by a path, never as the stream that a console writes to.
ASSUME TextsAssumption ==
    \A place \in Environments \cup SettingsFiles :
        /\ "DATABASE_URL" \in DOMAIN place => place["DATABASE_URL"] \in STRING
        /\ "LOG_FILE_PATH" \in DOMAIN place => place["LOG_FILE_PATH"] # "stdout"
ASSUME BoundsAssumption ==
    MaxStartups \in Nat /\ MaxProcesses \in Nat \ {0} /\ MaxEdits \in Nat
-----------------------------------------------------------------------------
(* app/core/settings.py.                                                   *)
Setting(env, content, key, default) ==
    IF key \in DOMAIN env THEN env[key]
    ELSE IF key \in DOMAIN content THEN content[key] ELSE default

NoEntries == [x \in {} |-> x]

Settings(env, content) ==
    [database_url    |-> Setting(env, content, "DATABASE_URL", Unset),
     app_env         |-> Setting(env, content, "APP_ENV", "dev"),
     log_level       |-> Setting(env, content, "LOG_LEVEL", "INFO"),
     log_format      |-> Setting(env, content, "LOG_FORMAT", "auto"),
     log_file_path   |-> Setting(env, content, "LOG_FILE_PATH", Unset),
     auth_tokens     |-> Setting(env, content, "AUTH_TOKENS_JSON", NoEntries),
     policy_profiles |-> Setting(env, content, "POLICY_PROFILES_JSON", NoEntries),
     active_policy_profile |-> Setting(env, content, "ACTIVE_POLICY_PROFILE", "default")]

\* A profile of the settings may leave out fields; the built-in one has the defaults.
EffectivePolicyProfiles(settings) ==
    [name \in {"default"} \cup DOMAIN settings.policy_profiles |->
        IF name \in DOMAIN settings.policy_profiles THEN settings.policy_profiles[name]
                                                    ELSE NoEntries]

ValidSettings(settings) ==
    /\ settings.database_url # Unset
    /\ settings.log_format \in LogFormats
    /\ settings.active_policy_profile \in DOMAIN EffectivePolicyProfiles(settings)

Given(configured, field, default) ==
    IF field \in DOMAIN configured THEN configured[field] ELSE default

\* The publish rules are merged over the defaults, tier by tier.
MergedRules(rules) ==
    [tier \in TrustTiers |-> IF tier \in DOMAIN rules THEN rules[tier]
                                                      ELSE DefaultProfile.publish_rules[tier]]

\* A status without listed transitions has none.
ActivePolicy(settings) ==
    LET configured == EffectivePolicyProfiles(settings)[settings.active_policy_profile]
        transitions == Given(configured, "lifecycle_transitions",
                             DefaultProfile.lifecycle_transitions)
    IN  [publish_rules |-> MergedRules(Given(configured, "publish_rules", NoEntries)),
         lifecycle_transitions |->
            [s \in Statuses |-> IF s \in DOMAIN transitions THEN transitions[s] ELSE {}],
         discovery_default_statuses |->
            Given(configured, "discovery_default_statuses",
                  DefaultProfile.discovery_default_statuses),
         discovery_read_statuses |->
            Given(configured, "discovery_read_statuses", DefaultProfile.discovery_read_statuses),
         discovery_admin_statuses |->
            Given(configured, "discovery_admin_statuses",
                  DefaultProfile.discovery_admin_statuses),
         exact_read_statuses |->
            Given(configured, "exact_read_statuses", DefaultProfile.exact_read_statuses)]
-----------------------------------------------------------------------------
(* A process begins by importing the application, which configures logging *)
(* from the process's environment alone; one whose import fails never      *)
(* comes to be.                                                            *)
ImportedLoggers(env) ==
    ConfigureLogging(NewLoggers,
                     Given(env, "LOG_LEVEL", "INFO"),
                     NormalizeLogFormat(Given(env, "LOG_FORMAT", Unset)),
                     Given(env, "APP_ENV", "dev"),
                     Given(env, "LOG_FILE_PATH", Unset))

LifespanInit ==
    /\ environment \in Environments /\ file \in SettingsFiles /\ edits = 0
    /\ processes = 1 /\ startups = 0 /\ phase = "stopped"
    /\ cache = Unset /\ engine = Unset /\ factory = Unset /\ pools = {} /\ services = Unset
    /\ loggers = ImportedLoggers(environment)
    /\ readFile = Unset

EditFile(content) ==
    /\ edits < MaxEdits /\ content # file
    /\ edits' = edits + 1 /\ file' = content
    /\ UNCHANGED <<environment, processes, startups, phase, cache, engine, factory, pools,
                   services, loggers, readFile>>

\* Where alembic.ini leaves the URL out, the migrations take it from the settings.
Migrate ==
    /\ phase = "stopped"
    /\ loggers' = FileConfig(loggers)
    /\ \/ UNCHANGED cache
       \/ cache' = IF ValidSettings(Settings(environment, file))
                   THEN Settings(environment, file) ELSE Unset
    /\ UNCHANGED <<environment, file, edits, processes, startups, phase, engine, factory,
                   pools, services, readFile>>

\* get_settings without the reset: the memo wins.
LoadMemoised ==
    /\ phase = "stopped" /\ startups < MaxStartups
    /\ startups' = startups + 1 /\ readFile' = file
    /\ LET settings == IF cache # Unset THEN cache ELSE Settings(environment, file)
       IN  IF ValidSettings(settings) THEN cache' = settings /\ phase' = "configure"
                                      ELSE cache' = Unset /\ UNCHANGED phase
    /\ UNCHANGED <<environment, file, edits, processes, engine, factory, pools, services,
                   loggers>>

\* reset_settings_cache, then get_settings; a failed validation is not memoised and
\* ends the startup.
LoadSettings ==
    /\ phase = "stopped" /\ startups < MaxStartups
    /\ startups' = startups + 1 /\ readFile' = file
    /\ LET settings == Settings(environment, file)
       IN  IF ValidSettings(settings) THEN cache' = settings /\ phase' = "configure"
                                      ELSE cache' = Unset /\ UNCHANGED phase
    /\ UNCHANGED <<environment, file, edits, processes, engine, factory, pools, services,
                   loggers>>

ConfigureFromSettings ==
    /\ phase = "configure"
    /\ loggers' = ConfigureLogging(loggers, cache.log_level, cache.log_format,
                                   cache.app_env, cache.log_file_path)
    /\ phase' = "build"
    /\ UNCHANGED <<environment, file, edits, processes, startups, cache, engine, factory,
                   pools, services, readFile>>

\* Its directory cannot be made or the log file not be opened, which ends the startup:
\* the handlers are gone by then, and no logger has been given others.
LogFileFails ==
    /\ phase = "configure" /\ cache.log_file_path # Unset
    /\ loggers' = ResetLoggingHandlers(loggers)
    /\ phase' = "stopped"
    /\ UNCHANGED <<environment, file, edits, processes, startups, cache, engine, factory,
                   pools, services, readFile>>

\* init_engine keeps an engine whose printed URL is the configured one, and disposes
\* any other; create_engine may refuse the URL, which ends the startup.
BuildServices ==
    /\ phase = "build"
    /\ IF engine # Unset /\ PrintedURL[engine.url] = cache.database_url
       THEN UNCHANGED <<engine, factory, pools>>
       ELSE IF cache.database_url \in MalformedURLs
       THEN pools' = pools \ {engine} /\ UNCHANGED <<engine, factory>>
       ELSE /\ engine' = [startup |-> startups, url |-> cache.database_url]
            /\ factory' = engine'
            /\ pools' = (pools \ {engine}) \cup {engine'}
    /\ IF cache.database_url \in MalformedURLs
       THEN phase' = "stopped" /\ UNCHANGED services
       ELSE /\ phase' = "serving"
            /\ services' = [factory |-> factory', policy |-> ActivePolicy(cache)]
    /\ UNCHANGED <<environment, file, edits, processes, startups, cache, loggers, readFile>>

\* The server stops accepting requests and answers those it has.
StopAccepting ==
    /\ phase = "serving"
    /\ phase' = "draining"
    /\ UNCHANGED <<environment, file, edits, processes, startups, cache, engine, factory,
                   pools, services, loggers, readFile>>

ForgetEngine ==
    /\ phase = "draining"
    /\ engine' = Unset /\ factory' = Unset /\ phase' = "stopped"
    /\ UNCHANGED <<environment, file, edits, processes, startups, cache, pools, services,
                   loggers, readFile>>

\* dispose_engine, once nothing is in flight.  app.state.services stays.
DisposeEngine ==
    /\ phase = "draining"
    /\ pools' = pools \ {engine} /\ engine' = Unset /\ factory' = Unset
    /\ phase' = "stopped"
    /\ UNCHANGED <<environment, file, edits, processes, startups, cache, services, loggers,
                   readFile>>

\* The process ends or is killed, and another one is started.
EndProcess ==
    /\ processes < MaxProcesses
    /\ processes' = processes + 1
    /\ environment' \in Environments
    /\ phase' = "stopped" /\ cache' = Unset /\ engine' = Unset /\ factory' = Unset
    /\ pools' = {} /\ services' = Unset /\ readFile' = Unset
    /\ loggers' = ImportedLoggers(environment')
    /\ UNCHANGED <<file, edits, startups>>
-----------------------------------------------------------------------------
Started == {"configure", "build", "serving", "draining"}
Accepting == {"serving", "draining"}

\* From its startup to its shutdown a lifespan works with one version of the
\* settings, the one that was in force when it began: what authentication, policy
\* and logging use was read together, whatever was memoised before the startup
\* (by a migration, by an earlier lifespan) and however often the file has been
\* edited since.  The policy the services decide by has a rule for every tier.
OneVersionOfSettings ==
    /\ phase \in Started => cache = Settings(environment, readFile)
    /\ phase \in Accepting =>
        /\ services.policy = ActivePolicy(Settings(environment, readFile))
        /\ services.policy \in PolicyProfile

\* While the server answers requests one pool of connections is open, it leads to
\* the database of this startup's settings, and it is the one that the services'
\* sessions come from and readiness probes; when no lifespan runs none is open.
OnePoolPerLifespan ==
    /\ phase \in Accepting =>
        /\ pools = {engine} /\ services.factory = engine
        /\ engine = [startup |-> startups, url |-> cache.database_url]
    /\ phase \notin Accepting => pools = {} /\ engine = Unset /\ factory = Unset

\* While requests are answered, a record of any logger of the application or its
\* frameworks that its level lets through is written to standard output once and,
\* where a file is configured, to the file once, except that access records never
\* are; whatever the loggers had been turned into before the startup.
EachRecordOnce ==
    phase \in Accepting =>
        \A l \in Managed \cup Descendants : \A level \in {INFO, WARNING} :
            LET reached == HandlersReached(loggers, l, level)
                configured == ResolveLevel(cache.log_level)
                written ==
                    IF level >= IF \E k \in DOMAIN Ancestry[l] : Ancestry[l][k] \in Noisy
                                THEN NoisyLibraryLevel(configured) ELSE configured
                    THEN 1 ELSE 0
            IN  /\ Count(reached, "stdout") = written
                /\ cache.log_file_path # Unset =>
                      Count(reached, cache.log_file_path) =
                          IF l = "uvicorn.access" THEN 0 ELSE written
=============================================================================
