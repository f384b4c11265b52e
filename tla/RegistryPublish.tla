--------------------------- MODULE RegistryPublish ---------------------------
(***************************************************************************)
(* Concurrent publishes of immutable skill versions:                       *)
(* POST /skills/{slug}/versions, from the route's dependencies through     *)
(* SkillRegistryService.publish_version to the transaction that            *)
(* SkillRegistryWriteMixin.create_version runs, one statement at a time.   *)
(*                                                                         *)
(* Each request runs in a thread (or process) of its own, and sees the     *)
(* database as PostgreSQL's READ COMMITTED shows it.  A table is the set   *)
(* of rows physically in it, committed or not; a row's id names the        *)
(* request that inserted it (a request inserts at most one row in a        *)
(* table).  A statement sees the rows of committed requests and its own; a *)
(* unique index compares with every row, so that an INSERT whose key an    *)
(* open transaction holds waits for that transaction to end, and fails     *)
(* only if it commits.                                                     *)
(*                                                                         *)
(* Statements fail (SQLAlchemyError: a lost connection, a cancelled        *)
(* statement, a full pool), COMMIT may take effect without the client      *)
(* learning it, and the process may crash between any two steps.  A retry  *)
(* is a further request with the same command.                             *)
(***************************************************************************)
EXTENDS Governance

CONSTANTS
    Requests,               \* publish requests, and the ids of the rows they insert
    Slugs, Versions, Digests,
    Commands,               \* the commands that clients may send
    None                    \* no row found, no command or reply yet

Intents == {"create_skill", "publish_version"}

\* related: whether the command has relationship selectors.
Command == [intent: Intents, slug: Slugs, version: Versions, digest: Digests,
            related: BOOLEAN, caller: SUBSET Scopes, tier: TrustTiers,
            provenance: Provenances]

PolicyCodes == {"POLICY_PROVENANCE_INVALID", "POLICY_PUBLISH_FORBIDDEN",
                "POLICY_PROVENANCE_REQUIRED"}
Replies == {"CREATED", "INSUFFICIENT_SCOPE", "SKILL_NOT_FOUND", "SKILL_ALREADY_EXISTS",
            "DUPLICATE_SKILL_VERSION", "CONTENT_STORAGE_FAILURE",
            "INTERNAL_ERROR",     \* an exception that no handler of the route catches
            "LOST"}               \* the process died before it answered
           \cup PolicyCodes

ASSUME CommandsAssumption == Commands \subseteq Command
ASSUME NoneAssumption == None \notin Requests \cup Command \cup Replies

VARIABLES
    skills, contents, versions, docs,   \* tables, with uncommitted rows
    audit,                              \* durable audit events
    committed,                          \* requests whose create_version committed
    pc, cmd, reply,                     \* per request: next statement, command, answer
    skillFk, contentFk                  \* per request: rows its transaction uses

tables == <<skills, contents, versions, docs, audit, committed>>
locals == <<skillFk, contentFk>>
vars   == <<skills, contents, versions, docs, audit, committed,
            pc, cmd, reply, skillFk, contentFk>>

\* Labels of a request whose create_version transaction is open, in its order.
TxnLabels == {"selectSkill", "insertSkill", "selectContent", "insertContent",
              "insertVersion", "insertSelectors", "commit"}
\* Labels of a request that has committed and reloads what it wrote.
ReloadLabels == {"reload", "reloadSelectors"}
Labels == TxnLabels \cup ReloadLabels
          \cup {"idle", "deny", "denied", "intent", "versionExists", "done"}

Init ==
    /\ skills = {} /\ contents = {} /\ versions = {} /\ docs = {} /\ audit = {}
    /\ committed = {}
    /\ pc = [r \in Requests |-> "idle"]
    /\ cmd = [r \in Requests |-> None]
    /\ reply = [r \in Requests |-> None]
    /\ skillFk = [r \in Requests |-> None]
    /\ contentFk = [r \in Requests |-> None]
-----------------------------------------------------------------------------
VisibleUncommitted(r, table) == table

Visible(r, table) == {row \in table : row.id \in committed \cup {r}}
Durable(table)    == {row \in table : row.id \in committed}
Without(r, table) == {row \in table : row.id # r}

\* The rows whose unique key the request's INSERT would take.
SameVersionVisible(r) ==
    {row \in Visible(r, versions) : row.skill = skillFk[r] /\ row.version = cmd[r].version}

SameSlug(r)    == {row \in skills : row.slug = cmd[r].slug}
SameDigest(r)  == {row \in contents : row.digest = cmd[r].digest}
SameVersion(r) == {row \in versions : row.skill = skillFk[r] /\ row.version = cmd[r].version}

Goto(r, label) == pc' = [pc EXCEPT ![r] = label] /\ UNCHANGED reply

Answer(r, code) ==
    /\ pc' = [pc EXCEPT ![r] = "done"]
    /\ reply' = [reply EXCEPT ![r] = code]

RollbackKeepsContent(r) ==
    /\ skills' = Without(r, skills)
    /\ versions' = Without(r, versions)
    /\ UNCHANGED <<contents, docs, audit, committed>>

RollbackForgotten(r) == UNCHANGED tables

\* session.rollback(), or PostgreSQL's when the connection is gone.
Rollback(r) ==
    /\ skills' = Without(r, skills)
    /\ contents' = Without(r, contents)
    /\ versions' = Without(r, versions)
    /\ UNCHANGED <<docs, audit, committed>>

\* What publish_version makes of a SkillRegistryPersistenceError: under
\* create_skill its text heuristic takes an error for a violation of the slug
\* key when the message, which quotes the failed SQL, has the words "slug" and
\* "constraint".  The statements on the selector table name the columns
\* target_slug and version_constraint, and no other statement has both words.
PersistenceFailure(r, label) ==
    IF cmd[r].intent = "create_skill" /\ label \in {"insertSelectors", "reloadSelectors"}
    THEN "SKILL_ALREADY_EXISTS"
    ELSE "CONTENT_STORAGE_FAILURE"
-----------------------------------------------------------------------------
Decision(c) == PublishDecision(c.caller, c.tier, c.provenance)

(* The route's scope dependency, then the policy: no shared state is read. *)
Receive(r) ==
    /\ pc[r] = "idle"
    /\ \E c \in Commands :
        /\ cmd' = [cmd EXCEPT ![r] = c]
        /\ \/ /\ ~HasScope(c.caller, "publish")
              /\ Answer(r, "INSUFFICIENT_SCOPE")
           \/ /\ HasScope(c.caller, "publish")
              /\ Goto(r, IF Decision(c) = "ALLOWED" THEN "intent" ELSE "deny")
    /\ UNCHANGED <<tables, locals>>

RecordDenialTooLate(r) ==
    /\ pc[r] = "deny"
    /\ Goto(r, "denied")
    /\ UNCHANGED <<tables, cmd, locals>>

Denial(r) == [event |-> "skill.version_publish_denied", id |-> r,
              slug |-> cmd[r].slug, version |-> cmd[r].version]

(* The denial is recorded in a transaction of its own before it is raised. *)
RecordDenial(r) ==
    /\ pc[r] = "deny"
    /\ audit' = audit \cup {Denial(r)}
    /\ Goto(r, "denied")
    /\ UNCHANGED <<skills, contents, versions, docs, committed, cmd, locals>>

Refuse(r) ==
    /\ pc[r] = "denied"
    /\ Answer(r, Decision(cmd[r]))
    /\ UNCHANGED <<tables, cmd, locals>>

EnforceIntentOfCreateOnly(r) ==
    LET skillExists == \E row \in Durable(skills) : row.slug = cmd[r].slug
    IN  /\ pc[r] = "intent"
        /\ IF cmd[r].intent = "create_skill" /\ skillExists
           THEN Answer(r, "SKILL_ALREADY_EXISTS")
           ELSE Goto(r, "versionExists")
        /\ UNCHANGED <<tables, cmd, locals>>

(* _enforce_publish_intent: a SELECT in a session that is closed at once.  *)
EnforceIntent(r) ==
    LET skillExists == \E row \in Durable(skills) : row.slug = cmd[r].slug
    IN  /\ pc[r] = "intent"
        /\ \/ /\ cmd[r].intent = "create_skill" /\ skillExists
              /\ Answer(r, "SKILL_ALREADY_EXISTS")
           \/ /\ cmd[r].intent = "publish_version" /\ ~skillExists
              /\ Answer(r, "SKILL_NOT_FOUND")
           \/ /\ (cmd[r].intent = "create_skill") # skillExists
              /\ Goto(r, "versionExists")
        /\ UNCHANGED <<tables, cmd, locals>>

(* version_exists: a further SELECT in a session of its own.               *)
CheckVersion(r) ==
    LET versionExists == \E row \in Durable(versions), s \in Durable(skills) :
                            /\ s.id = row.skill /\ s.slug = cmd[r].slug
                            /\ row.version = cmd[r].version
    IN  /\ pc[r] = "versionExists"
        /\ IF versionExists THEN Answer(r, "DUPLICATE_SKILL_VERSION")
                            ELSE Goto(r, "selectSkill")
        /\ UNCHANGED <<tables, cmd, locals>>

(* create_version: _get_or_create_skill ...                                *)
SelectSkill(r) ==
    LET found == {row \in Visible(r, skills) : row.slug = cmd[r].slug}
    IN  /\ pc[r] = "selectSkill"
        /\ \/ /\ found = {}
              /\ Goto(r, "insertSkill")
              /\ UNCHANGED skillFk
           \/ \E row \in found :
              /\ skillFk' = [skillFk EXCEPT ![r] = row.id]
              /\ Goto(r, "selectContent")
        /\ UNCHANGED <<tables, cmd, contentFk>>

InsertSkill(r) ==
    /\ pc[r] = "insertSkill"
    /\ SameSlug(r) = {}
    /\ skills' = skills \cup {[id |-> r, slug |-> cmd[r].slug]}
    /\ skillFk' = [skillFk EXCEPT ![r] = r]
    /\ Goto(r, "selectContent")
    /\ UNCHANGED <<contents, versions, docs, audit, committed, cmd, contentFk>>

SelectContentForgetsRow(r) ==
    LET found == {row \in Visible(r, contents) : row.digest = cmd[r].digest}
    IN  /\ pc[r] = "selectContent"
        /\ Goto(r, IF found = {} THEN "insertContent" ELSE "insertVersion")
        /\ UNCHANGED <<tables, cmd, locals>>

(* ... _get_or_create_content ...                                          *)
SelectContent(r) ==
    LET found == {row \in Visible(r, contents) : row.digest = cmd[r].digest}
    IN  /\ pc[r] = "selectContent"
        /\ \/ /\ found = {}
              /\ Goto(r, "insertContent")
              /\ UNCHANGED contentFk
           \/ \E row \in found :
              /\ contentFk' = [contentFk EXCEPT ![r] = row.id]
              /\ Goto(r, "insertVersion")
        /\ UNCHANGED <<tables, cmd, skillFk>>

InsertContent(r) ==
    /\ pc[r] = "insertContent"
    /\ SameDigest(r) = {}
    /\ contents' = contents \cup {[id |-> r, digest |-> cmd[r].digest]}
    /\ contentFk' = [contentFk EXCEPT ![r] = r]
    /\ Goto(r, "insertVersion")
    /\ UNCHANGED <<skills, versions, docs, audit, committed, cmd, skillFk>>

(* ... the metadata row, which has no key of its own, and the version ...  *)
InsertVersion(r) ==
    /\ pc[r] = "insertVersion"
    /\ SameVersion(r) = {}
    /\ versions' = versions \cup {[id |-> r, skill |-> skillFk[r], content |-> contentFk[r],
                                   version |-> cmd[r].version]}
    /\ Goto(r, "insertSelectors")
    /\ UNCHANGED <<skills, contents, docs, audit, committed, cmd, locals>>

(* ... the selector rows (no statement at all when there are none) ...     *)
InsertSelectors(r) ==
    /\ pc[r] = "insertSelectors"
    /\ Goto(r, "commit")
    /\ UNCHANGED <<tables, cmd, locals>>

(* ... and the search document and the audit event, which the COMMIT       *)
(* flushes.                                                                *)
Persist(r) ==
    /\ docs' = docs \cup {[id |-> r, slug |-> cmd[r].slug, version |-> cmd[r].version]}
    /\ audit' = audit \cup {[event |-> "skill.version_published", id |-> r,
                             slug |-> cmd[r].slug, version |-> cmd[r].version]}
    /\ committed' = committed \cup {r}
    /\ UNCHANGED <<skills, contents, versions>>

Commit(r) ==
    /\ pc[r] = "commit"
    /\ Persist(r)
    /\ Goto(r, "reload")
    /\ UNCHANGED <<cmd, locals>>

(* The reload of the committed row, then of its selectors (selectinload).  *)
(* The row is always found: nothing deletes a version.                     *)
Reload(r) ==
    /\ pc[r] = "reload"
    /\ Goto(r, "reloadSelectors")
    /\ UNCHANGED <<tables, cmd, locals>>

ReloadSelectors(r) ==
    /\ pc[r] = "reloadSelectors"
    /\ Answer(r, "CREATED")
    /\ UNCHANGED <<tables, cmd, locals>>
-----------------------------------------------------------------------------
(* An INSERT meets a committed row with its key: IntegrityError.  The      *)
(* handler answers any unique violation as a duplicate version.            *)
UniqueViolation(r) ==
    /\ \/ pc[r] = "insertSkill"   /\ Durable(SameSlug(r)) # {}
       \/ pc[r] = "insertContent" /\ Durable(SameDigest(r)) # {}
       \/ pc[r] = "insertVersion" /\ Durable(SameVersion(r)) # {}
    /\ Rollback(r)
    /\ Answer(r, "DUPLICATE_SKILL_VERSION")
    /\ UNCHANGED <<cmd, locals>>

(* A statement outside create_version fails: nothing catches the error.    *)
FailOutside(r) ==
    /\ pc[r] \in {"deny", "intent", "versionExists"}
    /\ Answer(r, "INTERNAL_ERROR")
    /\ UNCHANGED <<tables, cmd, locals>>

(* The COMMIT of the denial's event takes effect, but its acknowledgement  *)
(* is lost: the error takes the place of the denial.                       *)
RecordDenialUnacknowledged(r) ==
    /\ pc[r] = "deny"
    /\ audit' = audit \cup {Denial(r)}
    /\ Answer(r, "INTERNAL_ERROR")
    /\ UNCHANGED <<skills, contents, versions, docs, committed, cmd, locals>>

(* A statement of the transaction fails and it is rolled back.             *)
FailInside(r) ==
    /\ pc[r] \in TxnLabels
    /\ pc[r] = "insertSelectors" => cmd[r].related
    /\ Rollback(r)
    /\ Answer(r, PersistenceFailure(r, pc[r]))
    /\ UNCHANGED <<cmd, locals>>

(* The connection is lost during COMMIT, after it took effect.             *)
CommitUnacknowledged(r) ==
    /\ pc[r] = "commit"
    /\ Persist(r)
    /\ Answer(r, PersistenceFailure(r, "commit"))
    /\ UNCHANGED <<cmd, locals>>

(* A reload fails, in a transaction that has nothing to roll back: the     *)
(* same handler answers it.                                                *)
FailReload(r) ==
    /\ pc[r] \in ReloadLabels
    /\ Answer(r, PersistenceFailure(r, pc[r]))
    /\ UNCHANGED <<tables, cmd, locals>>

(* The process dies; PostgreSQL rolls an open transaction back.            *)
Crash(r) ==
    /\ pc[r] \notin {"idle", "done"}
    /\ IF pc[r] \in TxnLabels THEN Rollback(r) ELSE UNCHANGED tables
    /\ Answer(r, "LOST")
    /\ UNCHANGED <<cmd, locals>>
-----------------------------------------------------------------------------
Progress(r) ==
    \/ RecordDenial(r) \/ Refuse(r) \/ EnforceIntent(r) \/ CheckVersion(r)
    \/ SelectSkill(r) \/ InsertSkill(r) \/ SelectContent(r) \/ InsertContent(r)
    \/ InsertVersion(r) \/ InsertSelectors(r) \/ Commit(r)
    \/ Reload(r) \/ ReloadSelectors(r) \/ UniqueViolation(r)

Failure(r) ==
    \/ FailOutside(r) \/ RecordDenialUnacknowledged(r) \/ FailInside(r)
    \/ CommitUnacknowledged(r) \/ FailReload(r) \/ Crash(r)

Next == \E r \in Requests : Receive(r) \/ Progress(r) \/ Failure(r)

Spec == Init /\ [][Next]_vars

(* A thread keeps running while it is not blocked in the database.         *)
FairSpec == Spec /\ \A r \in Requests : WF_vars(Progress(r))
-----------------------------------------------------------------------------
SkillRow   == [id: Requests, slug: Slugs]
ContentRow == [id: Requests, digest: Digests]
VersionRow == [id: Requests, skill: Requests, content: Requests, version: Versions]
DocRow     == [id: Requests, slug: Slugs, version: Versions]
AuditEvent == [event: {"skill.version_published", "skill.version_publish_denied"},
               id: Requests, slug: Slugs, version: Versions]

(* The type invariant.                                                     *)
TypeOK ==
    /\ skills \subseteq SkillRow
    /\ contents \subseteq ContentRow
    /\ versions \subseteq VersionRow
    /\ docs \subseteq DocRow
    /\ audit \subseteq AuditEvent
    /\ committed \subseteq Requests
    /\ pc \in [Requests -> Labels]
    /\ cmd \in [Requests -> Commands \cup {None}]
    /\ reply \in [Requests -> Replies \cup {None}]
    /\ skillFk \in [Requests -> Requests \cup {None}]
    /\ contentFk \in [Requests -> Requests \cup {None}]

(* A version row's foreign keys lead to rows that can no longer disappear  *)
(* (committed, or inserted by the same transaction), and to the skill and  *)
(* the content that its publisher named, whoever inserted them.            *)
ReferencesResolve ==
    \A v \in versions :
        /\ \E s \in Visible(v.id, skills) : s.id = v.skill /\ s.slug = cmd[v.id].slug
        /\ \E c \in Visible(v.id, contents) :
              c.id = v.content /\ c.digest = cmd[v.id].digest

(* A finished publish left everything (version, search document and audit  *)
(* event, one each, under its own coordinate) or nothing, not even the     *)
(* skill or content row it inserted on the way.                            *)
TransactionAtomicity ==
    \A r \in Requests : pc[r] = "done" =>
        LET coordinate == [id |-> r, slug |-> cmd[r].slug, version |-> cmd[r].version]
            mineIn(table) == {row \in table : row.id = r}
            published == {e \in audit : e.id = r /\ e.event = "skill.version_published"}
        IN  IF r \in committed
            THEN /\ \E v \in versions : v.id = r /\ v.version = cmd[r].version
                 /\ mineIn(docs) = {coordinate}
                 /\ \E e \in published : e.slug = cmd[r].slug /\ e.version = cmd[r].version
            ELSE mineIn(skills) \cup mineIn(contents) \cup mineIn(versions)
                    \cup mineIn(docs) \cup published = {}

(* A caller that hears of a policy denial finds it audited, under the      *)
(* coordinate it asked for; and what is audited as denied is never stored, *)
(* nor answered with a success or with a reason other than the policy's:   *)
(* at worst its caller hears of an error, or nothing.                      *)
DenialsAudited ==
    \A r \in Requests :
        /\ reply[r] \in PolicyCodes => Denial(r) \in audit
        /\ (\E e \in audit : e.id = r /\ e.event = Denial(r).event) =>
               /\ r \notin committed
               /\ reply[r] \in PolicyCodes \cup {"INTERNAL_ERROR", "LOST", None}

(* publish_version only ever adds to a skill that create_skill made.       *)
SkillsComeFromCreateSkill ==
    \A s \in skills : cmd[s.id].intent = "create_skill"

(* q's open transaction holds the unique key that r's INSERT waits for.    *)
WaitsFor(r, q) ==
    /\ q # r /\ q \notin committed
    /\ \/ pc[r] = "insertSkill"   /\ \E row \in SameSlug(r) : row.id = q
       \/ pc[r] = "insertContent" /\ \E row \in SameDigest(r) : row.id = q
       \/ pc[r] = "insertVersion" /\ \E row \in SameVersion(r) : row.id = q

(* Publishes never wait for each other in a cycle: every transaction takes *)
(* its keys in the order skill, content, version, so in any set of         *)
(* requests one waits for no other of the set.                             *)
NoWaitCycle ==
    \A S \in (SUBSET Requests) \ {{}} : \E r \in S : \A q \in S : ~WaitsFor(r, q)

(* Every publish that was received is answered in the end.                 *)
EveryRequestAnswered ==
    \A r \in Requests : pc[r] # "idle" ~> pc[r] = "done"
-----------------------------------------------------------------------------
(* The answers after which a publisher may take it that nothing of its     *)
(* request was, or will be, stored.  SKILL_ALREADY_EXISTS is not one of    *)
(* them: PersistenceFailure makes it of unrelated failures too.            *)
Refusals == PolicyCodes \cup {"INSUFFICIENT_SCOPE", "SKILL_NOT_FOUND", "DUPLICATE_SKILL_VERSION"}

\* Committed versions with the skill and the content they refer to.
Bindings == {t \in Durable(versions) \X skills \X contents :
                t[1].skill = t[2].id /\ t[1].content = t[3].id}

Catalog == {[slug |-> t[2].slug, version |-> t[1].version, digest |-> t[3].digest,
             by |-> t[1].id] : t \in Bindings}

Abstract == INSTANCE ImmutableCatalog
    WITH catalog <- Catalog, answer <- reply, Publishers <- Requests, Answers <- Replies

(* The tables implement the append-only catalog.                           *)
ImplementsCatalog == Abstract!Spec
-----------------------------------------------------------------------------
(* Claims that documents or comments of the repository make.               *)

(* "create_skill: the slug must not exist yet or the server returns 409"   *)
(* (docs/project/api-contract.md): at most one create_skill of a slug is   *)
(* answered 201.                                                           *)
CreateSkillMeansNewSlug ==
    \A r, q \in Requests :
        /\ reply[r] = "CREATED" /\ cmd[r].intent = "create_skill"
        /\ reply[q] = "CREATED" /\ cmd[q].intent = "create_skill"
        /\ cmd[r].slug = cmd[q].slug
        => r = q

(* 409 DUPLICATE_SKILL_VERSION is documented as "the immutable             *)
(* slug@version already exists" (PUBLISH_RESPONSES).                       *)
DuplicateMeansVersionExists ==
    \A r \in Requests : reply[r] = "DUPLICATE_SKILL_VERSION" =>
        \E v \in Durable(versions), s \in Durable(skills) :
            s.id = v.skill /\ s.slug = cmd[r].slug /\ v.version = cmd[r].version

(* 409 SKILL_ALREADY_EXISTS is documented as "the skill slug already       *)
(* exists" (PUBLISH_RESPONSES).                                            *)
AlreadyExistsMeansSkillExists ==
    \A r \in Requests : reply[r] = "SKILL_ALREADY_EXISTS" =>
        \E s \in Durable(skills) : s.slug = cmd[r].slug

(* "authors know whether a version was accepted or rejected" (high-level   *)
(* design): a publish that is answered with a failure stored nothing.      *)
FailureMeansNotStored ==
    \A r \in Requests : reply[r] = "CONTENT_STORAGE_FAILURE" => r \notin committed
=============================================================================
