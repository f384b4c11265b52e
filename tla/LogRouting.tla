----------------------------- MODULE LogRouting -----------------------------
(***************************************************************************)
(* Which handlers a log record reaches, and what each of them writes:      *)
(* app/observability/logging.py and context.py as pure operators, over the *)
(* logger tree of the process.                                             *)
(*                                                                         *)
(* A level or a format that is not one of the listed names stands for any  *)
(* text the code falls back from; upper and lower case are not told apart. *)
(* The name of a constant of Python's logging that is no level, such as    *)
(* BASIC_FORMAT, is left out: it is not a level anyone would configure.    *)
(* Durations, timestamps and the wording of a line are left out.           *)
(***************************************************************************)
EXTENDS Naturals, Sequences, FiniteSets

CONSTANTS
    Descendants,    \* other loggers of the process, below managed ones
    Ancestry,       \* logger |-> the path from it to the root logger
    Interactive,    \* standard output is a terminal
    Unset

Managed == {"app", "uvicorn", "uvicorn.error", "uvicorn.access", "fastapi",
            "watchfiles", "watchfiles.main", "sqlalchemy", "psycopg"}

Noisy == {"watchfiles", "watchfiles.main", "sqlalchemy", "psycopg"}

Loggers == Managed \cup Descendants \cup {"root"}

ASSUME AncestryAssumption ==
    /\ DOMAIN Ancestry = Loggers
    /\ \A l \in Loggers : /\ Ancestry[l] \in Seq(Loggers)
                          /\ Ancestry[l] # <<>> /\ Ancestry[l][1] = l
                          /\ \A k \in DOMAIN Ancestry[l] :
                                Ancestry[l][k] = "root" <=> k = Len(Ancestry[l])
ASSUME DescendantsAssumption ==
    \A l \in Descendants : \E k \in DOMAIN Ancestry[l] : k > 1 /\ Ancestry[l][k] \in Managed
\* As their names have it: a managed logger below a noisy one is noisy itself, and
\* nothing is below uvicorn.access.
ASSUME NamesAssumption ==
    \A l \in Loggers : \A k \in DOMAIN Ancestry[l] :
        /\ Ancestry[l][k] \in Noisy =>
              \A j \in 1 .. k : Ancestry[l][j] \in Managed => Ancestry[l][j] \in Noisy
        /\ Ancestry[l][k] = "uvicorn.access" => k = 1
ASSUME InteractiveAssumption == Interactive \in BOOLEAN

NOTSET == 0
DEBUG == 10
INFO == 20
WARNING == 30
ERROR == 40
CRITICAL == 50

Levels == {NOTSET, DEBUG, INFO, WARNING, ERROR, CRITICAL}
-----------------------------------------------------------------------------
(* The configuration.                                                      *)
ResolveLevel(level) ==
    CASE level = "DEBUG" -> DEBUG
      [] level \in {"WARNING", "WARN"} -> WARNING
      [] level = "ERROR" -> ERROR
      [] level \in {"CRITICAL", "FATAL"} -> CRITICAL
      [] level = "NOTSET" -> NOTSET
      [] OTHER -> INFO

NoisyLibraryLevel(resolved) == IF resolved > DEBUG THEN WARNING ELSE resolved

LogFormats == {"auto", "json", "pretty"}

NormalizeLogFormat(value) == IF value \in LogFormats THEN value ELSE "auto"

ResolveLogFormat(format, appEnv) ==
    IF format # "auto" THEN format
    ELSE IF appEnv # "container" /\ Interactive THEN "pretty" ELSE "json"

\* Every handler but the migration's carries the filter that attaches the context.
Handler(sink, formatter) == [sink |-> sink, formatter |-> formatter]

HandlersOf(l, both, console) == IF l = "uvicorn.access" THEN console ELSE both

BuildLoggingConfig(level, format, appEnv, file) ==
    LET console == {Handler("stdout", ResolveLogFormat(format, appEnv))}
        both == console \cup (IF file = Unset THEN {} ELSE {Handler(file, "json")})
        resolved == ResolveLevel(level)
    IN  [l \in Managed \cup {"root"} |->
            [handlers  |-> HandlersOf(l, both, console),
             level     |-> IF l \in Noisy THEN NoisyLibraryLevel(resolved) ELSE resolved,
             propagate |-> l = "root",
             disabled  |-> FALSE]]

Fresh == [handlers |-> {}, level |-> NOTSET, propagate |-> TRUE, disabled |-> FALSE]

NewLoggers == [l \in Loggers |-> IF l = "root" THEN [Fresh EXCEPT !.level = WARNING] ELSE Fresh]

ResetManagedOnly(loggers) ==
    [l \in Loggers |-> IF l \in Descendants THEN loggers[l]
                       ELSE [loggers[l] EXCEPT !.handlers = {}, !.disabled = FALSE]]

ResetLoggingHandlers(loggers) ==
    [l \in Loggers |-> IF l \in Descendants THEN Fresh
                       ELSE [loggers[l] EXCEPT !.handlers = {}, !.disabled = FALSE]]

\* dictConfig replaces the loggers it names and detaches the descendants of those,
\* whose disabled flag it leaves as it is.
DictConfig(loggers, config) ==
    [l \in Loggers |-> IF l \in DOMAIN config THEN config[l]
                       ELSE [Fresh EXCEPT !.disabled = loggers[l].disabled]]

ConfigureLogging(loggers, level, format, appEnv, file) ==
    DictConfig(ResetLoggingHandlers(loggers), BuildLoggingConfig(level, format, appEnv, file))

\* Alembic's fileConfig keeps the root logger and sqlalchemy.engine for itself and
\* disables every other logger that exists.
FileConfig(loggers) ==
    [l \in Loggers |->
        CASE l = "root" -> [loggers[l] EXCEPT !.handlers = {Handler("stderr", "generic")},
                                              !.level = WARNING]
          [] l = "sqlalchemy.engine" -> [Fresh EXCEPT !.level = WARNING]
          [] OTHER -> [loggers[l] EXCEPT !.disabled = TRUE]]
-----------------------------------------------------------------------------
(* The request context and the lines of a record.                          *)
ContextFields == {"request_id", "http_method", "http_route", "status_code", "client_ip",
                  "user_agent", "surface", "outcome", "error_code", "exception_type"}

Blank == [f \in ContextFields |-> Unset]

SetRequestContext(context, changes) ==
    [f \in ContextFields |-> IF f \in DOMAIN changes THEN changes[f] ELSE context[f]]

\* The filter attaches the context of whoever logs; JSON always has four of its fields.
\* (Alembic's generic lines are never looked at: no handler of a server writes them.)
JsonLine(context, event) ==
    LET always == {"request_id", "http_method", "http_route", "status_code"}
    IN  [fields |-> [f \in always \cup {g \in ContextFields : context[g] # Unset} |-> context[f]],
         event  |-> event]

PrettyLine(context, event) ==
    LET shown == ContextFields \ {"client_ip", "user_agent"}
    IN  [fields |-> [f \in {g \in shown : context[g] # Unset} |-> context[f]],
         event  |-> event]

Line(handler, context, event) ==
    IF handler.formatter = "pretty" THEN PrettyLine(context, event) ELSE JsonLine(context, event)

EffectiveLevel(loggers, l) ==
    LET set == {k \in DOMAIN Ancestry[l] : loggers[Ancestry[l][k]].level # NOTSET}
    IN  IF set = {} THEN NOTSET
        ELSE loggers[Ancestry[l][CHOOSE k \in set : \A j \in set : k <= j]].level

EnabledFor(loggers, l, level) == ~loggers[l].disabled /\ level >= EffectiveLevel(loggers, l)

\* A record climbs to the first logger that does not propagate.
Reached(loggers, l) ==
    {k \in DOMAIN Ancestry[l] : \A j \in 1 .. k - 1 : loggers[Ancestry[l][j]].propagate}

HandlersReached(loggers, l, level) ==
    IF ~EnabledFor(loggers, l, level) THEN {}
    ELSE UNION {{k} \X loggers[Ancestry[l][k]].handlers : k \in Reached(loggers, l)}

Count(reached, sink) == Cardinality({climb \in reached : climb[2].sink = sink})

Lines(loggers, l, level, context, event) ==
    {[sink |-> climb[2].sink, line |-> Line(climb[2], context, event)] :
        climb \in HandlersReached(loggers, l, level)}
=============================================================================
