--------------------------- MODULE MCServerProcess ---------------------------
(***************************************************************************)
(* An instance of RequestHandling for TLC: a container that writes a log   *)
(* file and takes tokens, policy and database from its settings file,      *)
(* which an operator edits once.                                           *)
(***************************************************************************)
EXTENDS RequestHandling, TLC

Path(l) ==
    CASE l = "root" -> <<"root">>
      [] l = "app.main" -> <<"app.main", "app", "root">>
      [] l = "sqlalchemy.engine" -> <<"sqlalchemy.engine", "sqlalchemy", "root">>
      [] l \in {"uvicorn.error", "uvicorn.access"} -> <<l, "uvicorn", "root">>
      [] l = "watchfiles.main" -> <<l, "watchfiles", "root">>
      [] OTHER -> <<l, "root">>

\* TLC evaluates what a constant is replaced by at every use, a definition like Tree once.
Tree == [l \in Loggers |-> Path(l)]

LoggerTree == Tree

Masked == [url \in {"db://one", "db://two:secret", "?"} |->
              IF url = "db://two:secret" THEN "db://two:***" ELSE url]

Container == "APP_ENV" :> "container" @@ "LOG_FILE_PATH" :> "/var/log/app.jsonl"
WithTokens == [s \in {"publisher", "reader"} |->
                  IF s = "publisher" THEN {"read", "publish"} ELSE {"read"}]

Strict ==
    "publish_rules" :> ("untrusted" :> [required_scope |-> "admin", provenance_required |-> TRUE])
        @@ "lifecycle_transitions" :> ("published" :> {"archived"})

FirstFile ==
    "DATABASE_URL" :> "db://one" @@ "AUTH_TOKENS_JSON" :> WithTokens

SecondFile ==
    "DATABASE_URL" :> "db://two:secret" @@ "LOG_LEVEL" :> "DEBUG" @@ "LOG_FORMAT" :> "pretty"
        @@ "POLICY_PROFILES_JSON" :> ("strict" :> Strict) @@ "ACTIVE_POLICY_PROFILE" :> "strict"

BrokenFile == "DATABASE_URL" :> "?" @@ "LOG_FORMAT" :> "pretty"

\* Names a profile that the file does not define.
UnusableFile == "DATABASE_URL" :> "db://one" @@ "ACTIVE_POLICY_PROFILE" :> "strict"

Containers == {Container}

Files == {FirstFile, SecondFile, BrokenFile, UnusableFile}

AnyOrder == Permutations(Requests)

Sent(method, route, id, token, body) ==
    [method |-> method, route |-> route, request_id |-> id, token |-> token, body |-> body,
     client_ip |-> "10.0.0.1", user_agent |-> Unset]

Publishing == "/skills/{slug}/versions"
Content    == "/skills/{slug}/versions/{version}/content"

SomeCalls ==
    {Sent("POST", Publishing, "a", "publisher", "valid"),
     Sent("POST", Publishing, "a", "reader", "valid"),
     Sent("POST", Publishing, Unset, "publisher", "invalid"),
     Sent("POST", Publishing, Unset, Unset, "malformed"),
     Sent("GET", Content, Unset, Unset, "valid"),
     Sent("DELETE", Content, Unset, Unset, "valid"),
     Sent("GET", "/readyz", Unset, Unset, "valid"),
     Sent("GET", Unmatched, Unset, Unset, "valid")}
=============================================================================
