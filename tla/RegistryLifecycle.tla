-------------------------- MODULE RegistryLifecycle --------------------------
(***************************************************************************)
(* Concurrent lifecycle updates of published versions:                     *)
(* PATCH /skills/{slug}/versions/{version}/status, from the route's admin  *)
(* dependency through SkillRegistryService.update_version_status to the    *)
(* transaction of SkillRegistryStatusMixin.update_version_status.          *)
(*                                                                         *)
(* The status of a version is stored twice: in its row, which the policy   *)
(* and exact reads consult, and in its search document, which discovery    *)
(* consults.  A request reads the row three times at different moments:    *)
(* for the policy, in a session of its own; as the entity of its           *)
(* transaction; and, in effect, when its UPDATE gets the row's lock.  The  *)
(* UPDATE names only the columns that differ from the loaded entity, so    *)
(* one that loaded its own target leaves the status of the row alone,      *)
(* whatever it has become by then.                                         *)
(*                                                                         *)
(* status and doc are the committed values; the uncommitted ones of a      *)
(* transaction follow from its command and the entity it loaded.           *)
(***************************************************************************)
EXTENDS Governance, Integers

CONSTANTS
    Requests,       \* status updates
    Releases,       \* versions in the order of their (published_at, id)
    Skills,
    SkillOf,        \* the skill that a release is a version of
    Targets,        \* the updates that clients may ask for
    None            \* no release, no status or reply yet, no lock holder

Target == [release: Releases \cup {None}, status: Statuses, caller: SUBSET Scopes]

ASSUME ReleasesAssumption == Releases \subseteq Int /\ SkillOf \in [Releases -> Skills]
ASSUME TargetsAssumption  == Targets \subseteq Target
ASSUME NoneAssumption ==
    None \notin Requests /\ None \notin Releases /\ None \notin Target /\ None \notin Statuses

VARIABLES
    status, doc,        \* committed lifecycle_status of the row, and of its document
    lock,               \* the open transaction that has updated the row
    audit,              \* durable lifecycle audit events
    pc, cmd, reply,     \* per request
    previous,           \* the status its policy decision was made on
    loaded,             \* the status of the entity its transaction loaded
    isDefault           \* its is_current_default

requestVars == <<pc, cmd, reply, previous, loaded, isDefault>>
vars == <<status, doc, lock, audit, pc, cmd, reply, previous, loaded, isDefault>>

Replies == {"OK", "INSUFFICIENT_SCOPE", "SKILL_VERSION_NOT_FOUND",
            "POLICY_STATUS_TRANSITION_FORBIDDEN", "INTERNAL_ERROR", "LOST"}

\* Labels of a request whose transaction is open; the last two hold the lock.
TxnLabels == {"load", "update", "selectDefault", "commit"}
Locking   == {"selectDefault", "commit"}
Labels    == TxnLabels \cup {"idle", "read", "deny", "denied", "respond", "done"}

\* A version is published first; its document is written with it.
Init ==
    /\ status = [v \in Releases |-> "published"]
    /\ doc = [v \in Releases |-> "published"]
    /\ lock = [v \in Releases |-> None]
    /\ audit = {}
    /\ pc = [r \in Requests |-> "idle"]
    /\ cmd = [r \in Requests |-> None]
    /\ reply = [r \in Requests |-> None]
    /\ previous = [r \in Requests |-> None]
    /\ loaded = [r \in Requests |-> None]
    /\ isDefault = [r \in Requests |-> FALSE]
-----------------------------------------------------------------------------
Goto(r, label) == pc' = [pc EXCEPT ![r] = label] /\ UNCHANGED reply

Answer(r, code) ==
    /\ pc' = [pc EXCEPT ![r] = "done"]
    /\ reply' = [reply EXCEPT ![r] = code]

ReleaseKept(r) == UNCHANGED lock

\* The end of r's transaction gives up the row's lock, if r has it.
Release(r) == lock' = [v \in Releases |-> IF lock[v] = r THEN None ELSE lock[v]]

\* What r's transaction makes of the row it has locked.
StatusAfter(r) ==
    IF loaded[r] = cmd[r].status THEN status[cmd[r].release] ELSE cmd[r].status

\* _select_current_default_version_id: published versions before deprecated
\* ones, later ones first, archived ones never.
Ranked(s) == IF s = "published" THEN 2 ELSE IF s = "deprecated" THEN 1 ELSE 0

IsDefaultOfAny(v, view) ==
    \A w \in Releases \ {v} : SkillOf[w] = SkillOf[v] =>
        \/ Ranked(view[v]) > Ranked(view[w])
        \/ Ranked(view[v]) = Ranked(view[w]) /\ v > w

IsDefault(v, view) ==
    /\ view[v] # "archived"
    /\ \A w \in Releases \ {v} : SkillOf[w] = SkillOf[v] =>
          \/ Ranked(view[v]) > Ranked(view[w])
          \/ Ranked(view[v]) = Ranked(view[w]) /\ v > w

AuditEvent == [event: {"skill.version_status_updated", "skill.version_status_update_denied"},
               by: Requests, release: Releases, previous_status: Statuses,
               lifecycle_status: Statuses]

EventOfLoaded(r, name) ==
    [event |-> name, by |-> r, release |-> cmd[r].release,
     previous_status |-> loaded[r], lifecycle_status |-> cmd[r].status]

\* The previous status of an event is the one the policy decision was made on.
Event(r, name) ==
    [event |-> name, by |-> r, release |-> cmd[r].release,
     previous_status |-> previous[r], lifecycle_status |-> cmd[r].status]
-----------------------------------------------------------------------------
(* get_admin_caller.                                                       *)
Receive(r) ==
    /\ pc[r] = "idle"
    /\ \E t \in Targets :
        /\ cmd' = [cmd EXCEPT ![r] = t]
        /\ \/ ~HasScope(t.caller, "admin") /\ Answer(r, "INSUFFICIENT_SCOPE")
           \/ HasScope(t.caller, "admin") /\ Goto(r, "read")
    /\ UNCHANGED <<status, doc, lock, audit, previous, loaded, isDefault>>

ReadUnchecked(r) ==
    /\ pc[r] = "read"
    /\ cmd[r].release \in Releases
    /\ previous' = [previous EXCEPT ![r] = status[cmd[r].release]]
    /\ Goto(r, "load")
    /\ UNCHANGED <<status, doc, lock, audit, cmd, loaded, isDefault>>

(* get_version in a session of its own, then evaluate_transition on what   *)
(* it returned.                                                            *)
Read(r) ==
    /\ pc[r] = "read"
    /\ \/ /\ cmd[r].release \notin Releases
          /\ Answer(r, "SKILL_VERSION_NOT_FOUND")
          /\ UNCHANGED previous
       \/ /\ cmd[r].release \in Releases
          /\ previous' = [previous EXCEPT ![r] = status[cmd[r].release]]
          /\ Goto(r, IF TransitionAllowed(cmd[r].caller, previous'[r], cmd[r].status)
                     THEN "load" ELSE "deny")
    /\ UNCHANGED <<status, doc, lock, audit, cmd, loaded, isDefault>>

(* The denial is recorded in a transaction of its own before it is raised. *)
RecordDenial(r) ==
    /\ pc[r] = "deny"
    /\ audit' = audit \cup {Event(r, "skill.version_status_update_denied")}
    /\ Goto(r, "denied")
    /\ UNCHANGED <<status, doc, lock, cmd, previous, loaded, isDefault>>

Refuse(r) ==
    /\ pc[r] = "denied"
    /\ Answer(r, "POLICY_STATUS_TRANSITION_FORBIDDEN")
    /\ UNCHANGED <<status, doc, lock, audit, cmd, previous, loaded, isDefault>>

(* The transaction loads the entity, without FOR UPDATE ...                *)
Load(r) ==
    /\ pc[r] = "load"
    /\ loaded' = [loaded EXCEPT ![r] = status[cmd[r].release]]
    /\ Goto(r, "update")
    /\ UNCHANGED <<status, doc, lock, audit, cmd, previous, isDefault>>

UpdateCommittedAtOnce(r) ==
    /\ pc[r] = "update"
    /\ lock[cmd[r].release] = None
    /\ lock' = [lock EXCEPT ![cmd[r].release] = r]
    /\ status' = [status EXCEPT ![cmd[r].release] = StatusAfter(r)]
    /\ Goto(r, "selectDefault")
    /\ UNCHANGED <<doc, audit, cmd, previous, loaded, isDefault>>

(* ... flushes the UPDATE of its row, which waits for the row's lock ...   *)
Update(r) ==
    /\ pc[r] = "update"
    /\ lock[cmd[r].release] = None
    /\ lock' = [lock EXCEPT ![cmd[r].release] = r]
    /\ Goto(r, "selectDefault")
    /\ UNCHANGED <<status, doc, audit, cmd, previous, loaded, isDefault>>

SelectDefaultUnflushed(r) ==
    /\ pc[r] = "selectDefault"
    /\ isDefault' = [isDefault EXCEPT ![r] = IsDefault(cmd[r].release, status)]
    /\ Goto(r, "commit")
    /\ UNCHANGED <<status, doc, lock, audit, cmd, previous, loaded>>

(* ... loads the search document, which only holders of the lock write,    *)
(* and selects the current default among its own row as updated and the    *)
(* committed rows of the other versions ...                                *)
SelectDefault(r) ==
    LET v == cmd[r].release
    IN  /\ pc[r] = "selectDefault"
        /\ isDefault' = [isDefault EXCEPT
                            ![r] = IsDefault(v, [status EXCEPT ![v] = StatusAfter(r)])]
        /\ Goto(r, "commit")
        /\ UNCHANGED <<status, doc, lock, audit, cmd, previous, loaded>>

PersistWithoutAudit(r) ==
    /\ status' = [status EXCEPT ![cmd[r].release] = StatusAfter(r)]
    /\ doc' = [doc EXCEPT ![cmd[r].release] = cmd[r].status]
    /\ UNCHANGED audit
    /\ Release(r)

PersistWithoutDocument(r) ==
    /\ status' = [status EXCEPT ![cmd[r].release] = StatusAfter(r)]
    /\ audit' = audit \cup {Event(r, "skill.version_status_updated")}
    /\ UNCHANGED doc
    /\ Release(r)

(* ... and commits row, document and audit event together.                 *)
Persist(r) ==
    /\ status' = [status EXCEPT ![cmd[r].release] = StatusAfter(r)]
    /\ doc' = [doc EXCEPT ![cmd[r].release] = cmd[r].status]
    /\ audit' = audit \cup {Event(r, "skill.version_status_updated")}
    /\ Release(r)

Commit(r) ==
    /\ pc[r] = "commit"
    /\ Persist(r)
    /\ Goto(r, "respond")
    /\ UNCHANGED <<cmd, previous, loaded, isDefault>>

(* The answer is made of the entity in memory, whose status is the target. *)
Respond(r) ==
    /\ pc[r] = "respond"
    /\ Answer(r, "OK")
    /\ UNCHANGED <<status, doc, lock, audit, cmd, previous, loaded, isDefault>>
-----------------------------------------------------------------------------
(* A statement fails.  Inside the transaction the repository rolls back    *)
(* and raises SkillRegistryPersistenceError, which nothing above catches.  *)
Fail(r) ==
    /\ pc[r] \in {"read", "deny"} \cup TxnLabels
    /\ Release(r)
    /\ Answer(r, "INTERNAL_ERROR")
    /\ UNCHANGED <<status, doc, audit, cmd, previous, loaded, isDefault>>

(* The COMMIT of the denial's event takes effect, but its acknowledgement  *)
(* is lost: the error takes the place of the denial.                       *)
RecordDenialUnacknowledged(r) ==
    /\ pc[r] = "deny"
    /\ audit' = audit \cup {Event(r, "skill.version_status_update_denied")}
    /\ Answer(r, "INTERNAL_ERROR")
    /\ UNCHANGED <<status, doc, lock, cmd, previous, loaded, isDefault>>

(* The connection is lost during COMMIT, after it took effect.             *)
CommitUnacknowledged(r) ==
    /\ pc[r] = "commit"
    /\ Persist(r)
    /\ Answer(r, "INTERNAL_ERROR")
    /\ UNCHANGED <<cmd, previous, loaded, isDefault>>

Crash(r) ==
    /\ pc[r] \notin {"idle", "done"}
    /\ Release(r)
    /\ Answer(r, "LOST")
    /\ UNCHANGED <<status, doc, audit, cmd, previous, loaded, isDefault>>
-----------------------------------------------------------------------------
Progress(r) ==
    \/ Read(r) \/ RecordDenial(r) \/ Refuse(r) \/ Load(r) \/ Update(r)
    \/ SelectDefault(r) \/ Commit(r) \/ Respond(r)

Next == \E r \in Requests :
            \/ Receive(r) \/ Progress(r) \/ Fail(r) \/ RecordDenialUnacknowledged(r)
            \/ CommitUnacknowledged(r) \/ Crash(r)

Spec == Init /\ [][Next]_vars

(* A thread keeps running while it is not blocked in the database.         *)
FairSpec == Spec /\ \A r \in Requests : WF_vars(Progress(r))
-----------------------------------------------------------------------------
(* The type invariant.                                                     *)
TypeOK ==
    /\ status \in [Releases -> Statuses]
    /\ doc \in [Releases -> Statuses]
    /\ lock \in [Releases -> Requests \cup {None}]
    /\ audit \subseteq AuditEvent
    /\ pc \in [Requests -> Labels]
    /\ cmd \in [Requests -> Targets \cup {None}]
    /\ reply \in [Requests -> Replies \cup {None}]
    /\ previous \in [Requests -> Statuses \cup {None}]
    /\ loaded \in [Requests -> Statuses \cup {None}]
    /\ isDefault \in [Requests -> BOOLEAN]

Updates == {e \in audit : e.event = "skill.version_status_updated"}
Denials == {e \in audit : e.event = "skill.version_status_update_denied"}

(* The audit trail explains what is stored: a status that is not the       *)
(* initial one, in a row or in a document, was the target of an audited    *)
(* update of that version by an administrator.                             *)
AuditExplainsStatus ==
    \A v \in Releases : \A stored \in {status[v], doc[v]} :
        stored # "published" => \E e \in Updates :
            /\ e.release = v /\ e.lifecycle_status = stored
            /\ HasScope(cmd[e.by].caller, "admin")

(* The audit trail obeys the policy as it is written, event by event, even *)
(* where the stored states do not: an update is recorded as an allowed     *)
(* transition, a denial as a forbidden one, and no request has both.       *)
AuditFollowsPolicy ==
    /\ \A e \in Updates :
          TransitionAllowed(cmd[e.by].caller, e.previous_status, e.lifecycle_status)
    /\ \A e \in Denials :
          ~TransitionAllowed(cmd[e.by].caller, e.previous_status, e.lifecycle_status)
    /\ \A e \in Updates, f \in Denials : e.by # f.by

(* A document differs from its row only after an update that found its own *)
(* target already stored by another one, although the policy had seen a    *)
(* different status.                                                       *)
DivergenceNeedsRepeatedTarget ==
    \A v \in Releases : doc[v] # status[v] =>
        \E e \in Updates : /\ e.release = v
                           /\ loaded[e.by] = e.lifecycle_status
                           /\ previous[e.by] # loaded[e.by]

(* A step moves a row along a forbidden transition only for an update that *)
(* was overtaken since its policy decision.                                *)
ForbiddenOnlyWhenOvertaken ==
    [][\A v \in Releases : status'[v] # status[v] =>
          \/ status'[v] \in Profile.lifecycle_transitions[status[v]]
          \/ \E r \in Requests : lock[v] = r /\ previous[r] # status[v]]_vars

(* No update reports a version as the current default whose row it leaves  *)
(* archived.                                                               *)
ArchivedIsNeverDefault ==
    [][\A r \in Requests : pc[r] = "commit" /\ pc'[r] = "respond" /\ isDefault[r]
          => status'[cmd[r].release] # "archived"]_vars

(* A recorded update tells of a previous status that the row no longer had *)
(* when it was committed only if another update, which gave the row its    *)
(* status, is on record already: in whatever order decisions are made and  *)
(* commits follow, the trail has what it takes to explain its own gaps.    *)
GapsAreOnRecord ==
    [][\A e \in audit' \ audit :
          /\ e.event = "skill.version_status_updated"
          /\ e.previous_status # status[e.release]
          => \E f \in Updates : /\ f.by # e.by /\ f.release = e.release
                                /\ f.lifecycle_status = status[e.release]]_vars

(* What an update answers of the current default is what its own commit    *)
(* makes true, its own new status included, unless another version of the  *)
(* skill has been updated and so may have changed since it was looked at.  *)
DefaultStaleOnlyWhenRaced ==
    [][\A r \in Requests :
          LET v == cmd[r].release
          IN  /\ pc[r] = "commit" /\ pc'[r] = "respond"
              /\ isDefault[r] # IsDefault(v, status')
              => \E e \in Updates : /\ e.release # v /\ SkillOf[e.release] = SkillOf[v]
                                    /\ e.lifecycle_status = status[e.release]]_vars

(* Every update that was received is answered in the end.                  *)
EveryUpdateAnswered ==
    \A r \in Requests : pc[r] # "idle" ~> pc[r] = "done"
-----------------------------------------------------------------------------
(* Claims that documents or tests of the repository make.                  *)

(* The policy "rejects archived to published transition" (a unit test of   *)
(* evaluate_transition): an archived version stays archived.               *)
ArchivedIsFinal ==
    \A e \in Updates : e.lifecycle_status = "archived" => status[e.release] = "archived"

(* "By default, discovery only searches published versions": the document  *)
(* that discovery filters on says published only if the version is.        *)
DiscoveryShowsOnlyPublished ==
    \A v \in Releases : doc[v] = "published" => status[v] = "published"
=============================================================================
