----------------------- MODULE RegistryLifecycleProofs -----------------------
(***************************************************************************)
(* Theorems about RegistryLifecycle, for any number of updates of any set  *)
(* of releases under any policy profile.                                   *)
(***************************************************************************)
EXTENDS RegistryLifecycle, TLAPS

Updated == "skill.version_status_updated"
Denied  == "skill.version_status_update_denied"

\* r has passed, or failed, the policy; and has passed its own Load.
Permitted == TxnLabels \cup {"respond"}
Refused   == {"deny", "denied"}
HasEntity == {"update", "selectDefault", "commit", "respond"}

Allowed(r) == TransitionAllowed(cmd[r].caller, previous[r], cmd[r].status)

(* What a request has once it has got as far as its label.                 *)
Phases ==
    \A r \in Requests :
        /\ pc[r] # "idle" => cmd[r] \in Targets
        /\ pc[r] \in Permitted \cup Refused =>
              cmd[r].release \in Releases /\ previous[r] \in Statuses
        /\ pc[r] \in HasEntity => loaded[r] \in Statuses

(* An open transaction was allowed, on the status the policy had seen.     *)
Decisions ==
    \A r \in Requests :
        /\ pc[r] \in Permitted => Allowed(r)
        /\ pc[r] \in Refused => ~Allowed(r)

(* Every audit event is the one its finished request makes of itself, and  *)
(* its name is the outcome of that request's policy decision.              *)
Trail ==
    \A e \in audit :
        /\ e.by \in Requests /\ pc[e.by] \in {"denied", "respond", "done"}
        /\ e = Event(e.by, e.event)
        /\ (e.event = Updated) <=> Allowed(e.by)

(* A transaction past its UPDATE has the lock of its row; hence nobody     *)
(* changes what it selected the current default on.                        *)
Held ==
    \A r \in Requests :
        /\ pc[r] \in Locking => lock[cmd[r].release] = r
        /\ pc[r] = "commit" /\ isDefault[r] => StatusAfter(r) # "archived"

Typed == TypeOK /\ Phases
Sound == Decisions /\ Trail /\ Held
-----------------------------------------------------------------------------
(* A target that is not None has the fields of a target.                   *)
LEMMA TargetFields ==
    ASSUME TypeOK, Phases, NEW r \in Requests, pc[r] # "idle"
    PROVE  /\ cmd[r] \in Target /\ cmd[r].status \in Statuses
           /\ cmd[r].release \in Releases \cup {None}
BY TargetsAssumption DEF Phases, Target

(* The event of a request that has passed or failed its policy is typed.   *)
LEMMA EventTyped ==
    ASSUME TypeOK, Phases, NEW r \in Requests, pc[r] \in Permitted \cup Refused,
           NEW name \in {Updated, Denied}
    PROVE  Event(r, name) \in AuditEvent
<1>1. cmd[r].status \in Statuses
  BY TargetFields DEF Permitted, Refused, TxnLabels
<1>2. cmd[r].release \in Releases /\ previous[r] \in Statuses
  BY DEF Phases
<1> QED BY <1>1, <1>2 DEF Event, AuditEvent, Updated, Denied

(* The initial states are typed.                                           *)
LEMMA TypeInit == Init => Typed
BY DEF Init, Typed, TypeOK, Phases, Labels, TxnLabels, Statuses, Permitted, Refused, HasEntity

(* Every step keeps the types, and gives a request what its label says.    *)
LEMMA TypeNext ==
    ASSUME Typed, [Next]_vars
    PROVE  Typed'
<1> USE DEF Typed, TypeOK, Phases, Goto, Answer, Permitted, Refused, HasEntity, Locking
<1> DEFINE Kept == UNCHANGED <<status, doc, lock, audit>>
<1>1. ASSUME NEW r \in Requests, Receive(r)
      PROVE  Typed'
  BY <1>1 DEF Receive, Labels, TxnLabels, Replies
<1>2. ASSUME NEW r \in Requests, Read(r)
      PROVE  Typed'
  <2>1. CASE cmd[r].release \notin Releases
    BY <1>2, <2>1 DEF Read, Labels, TxnLabels, Replies
  <2>2. CASE cmd[r].release \in Releases
    <3>1. /\ previous' = [previous EXCEPT ![r] = status[cmd[r].release]]
          /\ pc' \in {[pc EXCEPT ![r] = "load"], [pc EXCEPT ![r] = "deny"]}
          /\ pc[r] = "read" /\ Kept /\ UNCHANGED <<cmd, reply, loaded, isDefault>>
      BY <1>2, <2>2 DEF Read
    <3>2. status[cmd[r].release] \in Statuses
      BY <2>2
    <3> QED BY <3>1, <3>2, <2>2 DEF Labels, TxnLabels
  <2> QED BY <2>1, <2>2
<1>3. ASSUME NEW r \in Requests, RecordDenial(r) \/ RecordDenialUnacknowledged(r)
      PROVE  Typed'
  <2>1. Event(r, Denied) \in AuditEvent
    BY <1>3, EventTyped DEF RecordDenial, RecordDenialUnacknowledged
  <2> QED BY <1>3, <2>1 DEF RecordDenial, RecordDenialUnacknowledged, Denied, Labels, TxnLabels,
                            Replies
<1>4. ASSUME NEW r \in Requests, Refuse(r) \/ Respond(r)
      PROVE  Typed'
  BY <1>4 DEF Refuse, Respond, Labels, TxnLabels, Replies
<1>5. ASSUME NEW r \in Requests, Load(r)
      PROVE  Typed'
  <2>1. status[cmd[r].release] \in Statuses
    BY <1>5 DEF Load, TxnLabels
  <2> QED BY <1>5, <2>1 DEF Load, Labels, TxnLabels
<1>6. ASSUME NEW r \in Requests, Update(r)
      PROVE  Typed'
  BY <1>6 DEF Update, Labels, TxnLabels
<1>7. ASSUME NEW r \in Requests, SelectDefault(r)
      PROVE  Typed'
  <2>1. IsDefault(cmd[r].release, [status EXCEPT ![cmd[r].release] = StatusAfter(r)]) \in BOOLEAN
    BY DEF IsDefault
  <2> QED BY <1>7, <2>1 DEF SelectDefault, Labels, TxnLabels
<1>8. ASSUME NEW r \in Requests, Commit(r) \/ CommitUnacknowledged(r)
      PROVE  Typed'
  <2>1. pc[r] = "commit" /\ Persist(r) /\ UNCHANGED <<cmd, previous, loaded, isDefault>>
    BY <1>8 DEF Commit, CommitUnacknowledged
  <2>2. Event(r, Updated) \in AuditEvent
    BY <2>1, EventTyped DEF TxnLabels
  <2>3. cmd[r].status \in Statuses /\ cmd[r].release \in Releases
    BY <2>1, TargetFields DEF TxnLabels
  <2>4. StatusAfter(r) \in Statuses
    BY <2>3 DEF StatusAfter
  <2>5. /\ status' \in [Releases -> Statuses] /\ doc' \in [Releases -> Statuses]
        /\ lock' \in [Releases -> Requests \cup {None}] /\ audit' \subseteq AuditEvent
    BY <2>1, <2>2, <2>3, <2>4 DEF Persist, Release, Updated
  <2>6. /\ pc' \in {[pc EXCEPT ![r] = "respond"], [pc EXCEPT ![r] = "done"]}
        /\ reply' \in {reply, [reply EXCEPT ![r] = "INTERNAL_ERROR"]}
    BY <1>8 DEF Commit, CommitUnacknowledged
  <2> QED BY <2>1, <2>5, <2>6 DEF Labels, TxnLabels, Replies
<1>9. ASSUME NEW r \in Requests, Fail(r) \/ Crash(r)
      PROVE  Typed'
  BY <1>9 DEF Fail, Crash, Release, Labels, TxnLabels, Replies
<1>10. CASE UNCHANGED vars
  BY <1>10 DEF vars
<1> QED BY <1>1, <1>2, <1>3, <1>4, <1>5, <1>6, <1>7, <1>8, <1>9, <1>10 DEF Next, Progress
-----------------------------------------------------------------------------
(* The initial states are sound.                                           *)
LEMMA SoundInit == Init => Sound
BY DEF Init, Sound, Decisions, Trail, Held, Permitted, Refused, TxnLabels, Locking

(* The policy decisions of open transactions are kept: what they depend on *)
(* is written when a request is received and when its version is read.     *)
LEMMA DecisionsNext ==
    ASSUME Typed, Decisions, [Next]_vars
    PROVE  Decisions'
<1> USE DEF Typed, TypeOK, Decisions, Allowed, Goto, Answer, Permitted, Refused, TxnLabels
<1>1. ASSUME NEW r \in Requests, Receive(r)
      PROVE  Decisions'
  BY <1>1 DEF Receive
<1>2. ASSUME NEW r \in Requests, Read(r)
      PROVE  Decisions'
  <2>1. CASE cmd[r].release \notin Releases
    BY <1>2, <2>1 DEF Read
  <2>2. CASE cmd[r].release \in Releases
    <3>1. /\ pc' = [pc EXCEPT ![r] = IF TransitionAllowed(cmd[r].caller, previous'[r],
                                                          cmd[r].status)
                                     THEN "load" ELSE "deny"]
          /\ previous' = [previous EXCEPT ![r] = status[cmd[r].release]]
          /\ cmd' = cmd
      BY <1>2, <2>2 DEF Read
    <3> QED BY <3>1
  <2> QED BY <2>1, <2>2
<1>3. ASSUME NEW r \in Requests,
             RecordDenial(r) \/ RecordDenialUnacknowledged(r) \/ Refuse(r) \/ Load(r)
             \/ Update(r) \/ SelectDefault(r) \/ Commit(r) \/ CommitUnacknowledged(r)
             \/ Respond(r) \/ Fail(r) \/ Crash(r)
      PROVE  Decisions'
  <2>1. UNCHANGED <<cmd, previous>>
    BY <1>3 DEF RecordDenial, RecordDenialUnacknowledged, Refuse, Load, Update,
                SelectDefault, Commit, Respond, Fail, CommitUnacknowledged, Crash
  <2>2. \E label \in Labels :
            /\ pc' = [pc EXCEPT ![r] = label]
            /\ label \in Permitted => pc[r] \in Permitted
            /\ label \in Refused => pc[r] \in Refused
    BY <1>3 DEF RecordDenial, RecordDenialUnacknowledged, Refuse, Load, Update,
                SelectDefault, Commit, Respond, Fail, CommitUnacknowledged, Crash, Labels
  <2> QED BY <2>1, <2>2
<1>4. CASE UNCHANGED vars
  BY <1>4 DEF vars
<1> QED BY <1>1, <1>2, <1>3, <1>4 DEF Next, Progress

(* An event a request adds in a state that decided on it keeps the trail.  *)
LEMMA TrailGrows ==
    ASSUME Typed, Trail, NEW r \in Requests, NEW name \in {Updated, Denied},
           audit' = audit \cup {Event(r, name)},
           (name = Updated) <=> Allowed(r),
           UNCHANGED <<cmd, previous>>,
           pc[r] \in {"deny", "commit"},
           pc' \in {[pc EXCEPT ![r] = "denied"], [pc EXCEPT ![r] = "respond"],
                    [pc EXCEPT ![r] = "done"]}
    PROVE  Trail'
<1> USE DEF Typed, TypeOK
<1> SUFFICES ASSUME NEW e \in audit'
             PROVE  /\ e.by \in Requests /\ pc'[e.by] \in {"denied", "respond", "done"}
                    /\ e = Event(e.by, e.event)'
                    /\ (e.event = Updated) <=> Allowed(e.by)'
  BY DEF Trail
<1>1. CASE e \in audit
  BY <1>1 DEF Trail, Event, Allowed
<1>2. CASE e = Event(r, name)
  <2>1. e.by = r /\ e.event = name
    BY <1>2 DEF Event
  <2> QED BY <1>2, <2>1 DEF Event, Allowed
<1> QED BY <1>1, <1>2

(* Every step keeps the audit trail.                                       *)
LEMMA TrailNext ==
    ASSUME Typed, Decisions, Trail, [Next]_vars
    PROVE  Trail'
<1> USE DEF Typed, TypeOK, Goto, Answer
<1>1. ASSUME NEW r \in Requests, Receive(r) \/ Read(r)
      PROVE  Trail'
  <2>1. /\ pc[r] \in {"idle", "read"} /\ audit' = audit
        /\ \A q \in Requests \ {r} : /\ pc'[q] = pc[q] /\ cmd'[q] = cmd[q]
                                     /\ previous'[q] = previous[q]
    BY <1>1 DEF Receive, Read
  <2> QED BY <2>1 DEF Trail, Event, Allowed
<1>2. ASSUME NEW r \in Requests, RecordDenial(r) \/ RecordDenialUnacknowledged(r)
      PROVE  Trail'
  <2>1. (Denied = Updated) <=> Allowed(r)
    BY <1>2 DEF RecordDenial, RecordDenialUnacknowledged, Decisions, Refused, Denied, Updated
  <2> QED BY <1>2, <2>1, TrailGrows DEF RecordDenial, RecordDenialUnacknowledged, Denied
<1>3. ASSUME NEW r \in Requests, Commit(r) \/ CommitUnacknowledged(r)
      PROVE  Trail'
  <2>1. pc[r] = "commit" /\ UNCHANGED <<cmd, previous>>
    BY <1>3 DEF Commit, CommitUnacknowledged
  <2>2. audit' = audit \cup {Event(r, Updated)}
    BY <1>3 DEF Commit, CommitUnacknowledged, Persist, Updated
  <2>3. pc' \in {[pc EXCEPT ![r] = "respond"], [pc EXCEPT ![r] = "done"]}
    BY <1>3 DEF Commit, CommitUnacknowledged
  <2>4. Allowed(r)
    BY <2>1 DEF Decisions, Permitted, TxnLabels
  <2> QED BY <2>1, <2>2, <2>3, <2>4, TrailGrows
<1>4. ASSUME NEW r \in Requests,
             Refuse(r) \/ Load(r) \/ Update(r) \/ SelectDefault(r) \/ Respond(r)
             \/ Fail(r) \/ Crash(r)
      PROVE  Trail'
  <2>1. UNCHANGED <<audit, cmd, previous>>
    BY <1>4 DEF Refuse, Load, Update, SelectDefault, Respond, Fail, Crash
  <2>2. \E label \in Labels :
            /\ pc' = [pc EXCEPT ![r] = label]
            /\ pc[r] \in {"denied", "respond", "done"} => label = "done"
    BY <1>4 DEF Refuse, Load, Update, SelectDefault, Respond, Fail, Crash, Labels, TxnLabels
  <2> QED BY <2>1, <2>2 DEF Trail, Event, Allowed
<1>5. CASE UNCHANGED vars
  BY <1>5 DEF vars, Trail, Event, Allowed
<1> QED BY <1>1, <1>2, <1>3, <1>4, <1>5 DEF Next, Progress

(* Locks are kept until the end of the transaction that took them, and no  *)
(* one else changes the row meanwhile.                                     *)
LEMMA HeldNext ==
    ASSUME Typed, Held, [Next]_vars
    PROVE  Held'
<1> USE DEF Typed, TypeOK, Held, Goto, Answer, Locking
<1>1. ASSUME NEW r \in Requests,
             Receive(r) \/ Read(r) \/ RecordDenial(r) \/ RecordDenialUnacknowledged(r)
             \/ Refuse(r) \/ Load(r) \/ Respond(r)
      PROVE  Held'
  <2>1. UNCHANGED <<status, lock, isDefault>> /\ pc[r] \notin Locking /\ pc'[r] \notin Locking
    BY <1>1 DEF Receive, Read, RecordDenial, RecordDenialUnacknowledged, Refuse, Load, Respond
  <2>2. \A q \in Requests \ {r} : pc'[q] = pc[q] /\ cmd'[q] = cmd[q] /\ loaded'[q] = loaded[q]
    BY <1>1 DEF Receive, Read, RecordDenial, RecordDenialUnacknowledged, Refuse, Load, Respond
  <2> QED BY <2>1, <2>2 DEF StatusAfter
<1>2. ASSUME NEW r \in Requests, Update(r)
      PROVE  Held'
  <2>1. \A q \in Requests \ {r} : pc[q] \in Locking => cmd[q].release # cmd[r].release
    BY <1>2, NoneAssumption DEF Update
  <2>2. cmd[r].release \in Releases
    BY <1>2 DEF Update, Phases, Permitted, TxnLabels
  <2>3. \A q \in Requests : pc[q] \in Locking => cmd[q].release \in Releases
    BY DEF Phases, Permitted, TxnLabels
  <2> QED BY <1>2, <2>1, <2>2, <2>3 DEF Update, StatusAfter
<1>3. ASSUME NEW r \in Requests, SelectDefault(r)
      PROVE  Held'
  <2>1. cmd[r].release \in Releases /\ cmd[r].status \in Statuses
    BY <1>3, TargetFields DEF SelectDefault, Phases, Permitted, TxnLabels
  <2>2. isDefault'[r] => StatusAfter(r) # "archived"
    BY <1>3, <2>1 DEF SelectDefault, IsDefault, StatusAfter
  <2> QED BY <1>3, <2>2 DEF SelectDefault, StatusAfter
<1>4. ASSUME NEW r \in Requests, Commit(r) \/ CommitUnacknowledged(r)
      PROVE  Held'
  <2>1. /\ pc[r] = "commit" /\ pc'[r] \notin Locking
        /\ status' = [status EXCEPT ![cmd[r].release] = StatusAfter(r)]
        /\ Release(r) /\ UNCHANGED <<cmd, loaded, isDefault>>
        /\ \A q \in Requests \ {r} : pc'[q] = pc[q]
    BY <1>4 DEF Commit, CommitUnacknowledged, Persist
  <2>2. \A q \in Requests : pc[q] \in Locking => cmd[q].release \in Releases
    BY DEF Phases, Permitted, TxnLabels
  <2>3. \A q \in Requests \ {r} : pc[q] \in Locking =>
            /\ cmd[q].release # cmd[r].release
            /\ lock'[cmd[q].release] = q
            /\ status'[cmd[q].release] = status[cmd[q].release]
    BY <2>1, <2>2 DEF Release
  <2> QED BY <2>1, <2>3 DEF StatusAfter
<1>5. ASSUME NEW r \in Requests, Fail(r) \/ Crash(r)
      PROVE  Held'
  <2>1. /\ pc'[r] \notin Locking /\ Release(r) /\ UNCHANGED <<status, cmd, loaded, isDefault>>
        /\ \A q \in Requests \ {r} : pc'[q] = pc[q]
    BY <1>5 DEF Fail, Crash
  <2>2. \A q \in Requests : pc[q] \in Locking => cmd[q].release \in Releases
    BY DEF Phases, Permitted, TxnLabels
  <2> QED BY <2>1, <2>2 DEF Release, StatusAfter
<1>6. CASE UNCHANGED vars
  BY <1>6 DEF vars, StatusAfter
<1> QED BY <1>1, <1>2, <1>3, <1>4, <1>5, <1>6 DEF Next, Progress

(* The inductive invariant of the module.                                  *)
LEMMA Invariance == Spec => [](Typed /\ Sound)
<1>1. Init => Typed /\ Sound
  BY TypeInit, SoundInit
<1>2. Typed /\ Sound /\ [Next]_vars => (Typed /\ Sound)'
  BY TypeNext, DecisionsNext, TrailNext, HeldNext DEF Sound
<1> QED BY <1>1, <1>2, PTL DEF Spec
-----------------------------------------------------------------------------
(* Every variable of the lifecycle specification keeps its type.           *)
THEOREM TypeCorrect == Spec => []TypeOK
<1>1. Typed => TypeOK
  BY DEF Typed
<1> QED BY <1>1, Invariance, PTL

(* The audit trail obeys the policy event by event, whatever races the     *)
(* updates themselves ran into: update_version_status, policy to COMMIT.   *)
THEOREM TrailObeysPolicy == Spec => []AuditFollowsPolicy
<1>1. Typed /\ Sound => AuditFollowsPolicy
  <2> SUFFICES ASSUME Typed, Sound PROVE AuditFollowsPolicy
    OBVIOUS
  <2>1. \A e \in audit : /\ (e.event = Updated) <=> Allowed(e.by)
                         /\ e.previous_status = previous[e.by]
                         /\ e.lifecycle_status = cmd[e.by].status
    BY DEF Sound, Trail, Event
  <2>2. Updated # Denied
    BY DEF Updated, Denied
  <2>3. \A e \in Updates : e \in audit /\ Allowed(e.by)
    BY <2>1 DEF Updates, Updated
  <2>4. \A e \in Denials : e \in audit /\ ~Allowed(e.by)
    BY <2>1, <2>2 DEF Denials, Denied
  <2> QED BY <2>1, <2>3, <2>4 DEF AuditFollowsPolicy, Allowed
<1> QED BY <1>1, Invariance, PTL

(* Whatever status a row or a document holds, an administrator's audited   *)
(* update put it there: the event is committed with the change.            *)
THEOREM TrailExplainsStatus == Spec => []AuditExplainsStatus
<1>1. Init => AuditExplainsStatus
  BY DEF Init, AuditExplainsStatus
<1>2. ASSUME Typed, Sound, AuditExplainsStatus, [Next]_vars
      PROVE  AuditExplainsStatus'
  <2> USE <1>2 DEF Typed, TypeOK
  <2> DEFINE Explains(e, v, stored) ==
                /\ e.release = v /\ e.lifecycle_status = stored
                /\ HasScope(cmd[e.by].caller, "admin")
  <2>1. \A e \in Updates : e \in Updates' /\ cmd'[e.by] = cmd[e.by]
    <3>1. \A e \in audit : e.by \in Requests /\ pc[e.by] # "idle"
      BY DEF Sound, Trail
    <3>2. audit \subseteq audit'
      BY DEF Next, Progress, Receive, Read, RecordDenial, RecordDenialUnacknowledged,
             Refuse, Load, Update, SelectDefault, Commit, Respond, Fail,
             CommitUnacknowledged, Crash, Persist, vars
    <3>3. \A q \in Requests : pc[q] # "idle" => cmd'[q] = cmd[q]
      BY DEF Next, Progress, Receive, Read, RecordDenial, RecordDenialUnacknowledged,
             Refuse, Load, Update, SelectDefault, Commit, Respond, Fail,
             CommitUnacknowledged, Crash, Persist, vars
    <3> QED BY <3>1, <3>2, <3>3 DEF Updates
  <2>2. CASE UNCHANGED <<status, doc>>
    BY <2>1, <2>2 DEF AuditExplainsStatus
  <2>3. ASSUME NEW r \in Requests, Commit(r) \/ CommitUnacknowledged(r)
        PROVE  AuditExplainsStatus'
    <3>1. pc[r] = "commit" /\ Persist(r) /\ UNCHANGED cmd
      BY <2>3 DEF Commit, CommitUnacknowledged
    <3>2. HasScope(cmd[r].caller, "admin") /\ cmd[r].release \in Releases
      BY <3>1 DEF Sound, Decisions, Allowed, TransitionAllowed, Phases, Permitted, TxnLabels
    <3>3. /\ Event(r, Updated) \in Updates'
          /\ Event(r, Updated).release = cmd[r].release
          /\ Event(r, Updated).lifecycle_status = cmd[r].status
          /\ Event(r, Updated).by = r
      BY <3>1 DEF Persist, Updates, Event, Updated
    <3>4. \A v \in Releases : \/ status'[v] = status[v] /\ doc'[v] = doc[v]
                              \/ /\ v = cmd[r].release
                                 /\ status'[v] \in {status[v], cmd[r].status}
                                 /\ doc'[v] = cmd[r].status
      BY <3>1 DEF Persist, StatusAfter
    <3> SUFFICES ASSUME NEW v \in Releases, NEW stored \in {status'[v], doc'[v]},
                        stored # "published"
                 PROVE  \E e \in Updates' :
                            /\ e.release = v /\ e.lifecycle_status = stored
                            /\ HasScope(cmd'[e.by].caller, "admin")
      BY DEF AuditExplainsStatus
    <3>5. CASE stored \in {status[v], doc[v]}
      BY <3>5, <2>1 DEF AuditExplainsStatus
    <3>6. CASE v = cmd[r].release /\ stored = cmd[r].status
      BY <3>6, <3>1, <3>2, <3>3
    <3> QED BY <3>4, <3>5, <3>6
  <2>4. CASE UNCHANGED vars
    BY <2>4, <2>2 DEF vars
  <2> QED BY <2>2, <2>3, <2>4 DEF Next, Progress, Receive, Read, RecordDenial,
                                  RecordDenialUnacknowledged, Refuse, Load, Update,
                                  SelectDefault, Respond, Fail, Crash
<1> QED BY <1>1, <1>2, Invariance, PTL DEF Spec

(* Only the end of a lifecycle transaction changes a stored status.        *)
LEMMA StatusChanges ==
    ASSUME [Next]_vars, status' # status
    PROVE  \E r \in Requests : pc[r] = "commit" /\ Persist(r)
BY DEF Next, Progress, Receive, Read, RecordDenial, RecordDenialUnacknowledged, Refuse,
       Load, Update, SelectDefault, Commit, Respond, Fail, CommitUnacknowledged, Crash,
       vars

(* A row moves against the policy only under an update that was overtaken  *)
(* between its policy decision and its lock.                               *)
THEOREM OnlyTheOvertakenBreakPolicy == Spec => ForbiddenOnlyWhenOvertaken
<1> DEFINE Step ==
        \A v \in Releases : status'[v] # status[v] =>
            \/ status'[v] \in Profile.lifecycle_transitions[status[v]]
            \/ \E r \in Requests : lock[v] = r /\ previous[r] # status[v]
<1>1. ASSUME Typed, Sound, [Next]_vars
      PROVE  Step
  <2> SUFFICES ASSUME NEW v \in Releases, status'[v] # status[v]
               PROVE  \/ status'[v] \in Profile.lifecycle_transitions[status[v]]
                      \/ \E r \in Requests : lock[v] = r /\ previous[r] # status[v]
    OBVIOUS
  <2>1. PICK r \in Requests : pc[r] = "commit" /\ Persist(r)
    BY <1>1, StatusChanges
  <2>2. v = cmd[r].release /\ status'[v] = cmd[r].status
    BY <1>1, <2>1 DEF Persist, StatusAfter, Typed, TypeOK
  <2>3. lock[v] = r
    BY <1>1, <2>1, <2>2 DEF Sound, Held, Locking
  <2>4. cmd[r].status \in Profile.lifecycle_transitions[previous[r]]
    BY <1>1, <2>1 DEF Sound, Decisions, Allowed, TransitionAllowed, Permitted, TxnLabels
  <2> QED BY <2>2, <2>3, <2>4
<1>2. Typed /\ Sound /\ [Next]_vars => [Step]_vars
  BY <1>1
<1> QED BY <1>2, Invariance, PTL DEF Spec, ForbiddenOnlyWhenOvertaken

(* The current default that an update reports is not a version that the    *)
(* same update leaves archived.                                            *)
THEOREM DefaultIsNotArchived == Spec => ArchivedIsNeverDefault
<1> DEFINE Step ==
        \A r \in Requests : pc[r] = "commit" /\ pc'[r] = "respond" /\ isDefault[r]
            => status'[cmd[r].release] # "archived"
<1>1. ASSUME Typed, Sound, [Next]_vars
      PROVE  Step
  <2> SUFFICES ASSUME NEW r \in Requests, pc[r] = "commit", pc'[r] = "respond", isDefault[r]
               PROVE  status'[cmd[r].release] # "archived"
    OBVIOUS
  <2>1. Commit(r)
    BY <1>1 DEF Next, Progress, Receive, Read, RecordDenial, RecordDenialUnacknowledged,
                Refuse, Load, Update, SelectDefault, Commit, Respond, Fail,
                CommitUnacknowledged, Crash, vars, Goto, Answer, Typed, TypeOK
  <2>2. StatusAfter(r) # "archived" /\ cmd[r].release \in Releases
    BY <1>1 DEF Sound, Held, Typed, Phases, Permitted, TxnLabels
  <2> QED BY <1>1, <2>1, <2>2 DEF Commit, Persist, Typed, TypeOK
<1>2. Typed /\ Sound /\ [Next]_vars => [Step]_vars
  BY <1>1
<1> QED BY <1>2, Invariance, PTL DEF Spec, ArchivedIsNeverDefault

(* The built-in profile has no transition from a status to itself.         *)
LEMMA DefaultProfileIsIrreflexive ==
    \A s \in Statuses : s \notin DefaultProfile.lifecycle_transitions[s]
BY DEF DefaultProfile, Statuses

(* Under a policy that has no transition from a status to itself, as the   *)
(* default one, row and document part ways only in the race that the       *)
(* ORM's partial UPDATE opens: see StatusAfter.                            *)
THEOREM OnlyRepeatedTargetsDiverge ==
    ASSUME \A s \in Statuses : s \notin Profile.lifecycle_transitions[s]
    PROVE  Spec => []DivergenceNeedsRepeatedTarget
<1> DEFINE Witness(e, v) == /\ e.release = v /\ loaded[e.by] = e.lifecycle_status
                            /\ previous[e.by] # loaded[e.by]
<1>1. Init => DivergenceNeedsRepeatedTarget
  BY DEF Init, DivergenceNeedsRepeatedTarget
<1>2. ASSUME Typed, Sound, DivergenceNeedsRepeatedTarget, [Next]_vars
      PROVE  DivergenceNeedsRepeatedTarget'
  <2> USE <1>2 DEF Typed, TypeOK
  <2>1. ASSUME NEW v \in Releases, NEW e \in Updates, Witness(e, v)
        PROVE  e \in Updates' /\ Witness(e, v)'
    <3>1. e \in audit' /\ e.by \in Requests /\ pc[e.by] \in {"denied", "respond", "done"}
      BY DEF Updates, Sound, Trail, Next, Progress, Receive, Read, RecordDenial,
             RecordDenialUnacknowledged, Refuse, Load, Update, SelectDefault, Commit,
             Respond, Fail, CommitUnacknowledged, Crash, Persist, vars
    <3>2. \A q \in Requests : pc[q] \in {"denied", "respond", "done"} =>
              loaded'[q] = loaded[q] /\ previous'[q] = previous[q]
      BY DEF Next, Progress, Receive, Read, RecordDenial, RecordDenialUnacknowledged,
             Refuse, Load, Update, SelectDefault, Commit, Respond, Fail,
             CommitUnacknowledged, Crash, vars
    <3> QED BY <2>1, <3>1, <3>2 DEF Updates
  <2>2. CASE UNCHANGED <<status, doc>>
    BY <2>1, <2>2 DEF DivergenceNeedsRepeatedTarget
  <2>3. ASSUME NEW r \in Requests, pc[r] = "commit", Persist(r),
               UNCHANGED <<cmd, previous, loaded>>
        PROVE  DivergenceNeedsRepeatedTarget'
    <3>1. PICK made \in Updates' : /\ made.release = cmd[r].release
                                   /\ made.lifecycle_status = cmd[r].status /\ made.by = r
      <4>1. Event(r, Updated) \in Updates'
        BY <2>3 DEF Persist, Updates, Event, Updated
      <4> QED BY <4>1 DEF Event
    <3>2. cmd[r].release \in Releases /\ previous[r] \in Statuses /\ cmd[r].status \in Statuses
      BY <2>3, TargetFields DEF Phases, Permitted, TxnLabels
    <3>3. cmd[r].status # previous[r]
      BY <2>3, <3>2 DEF Sound, Decisions, Allowed, TransitionAllowed, Permitted, TxnLabels
    <3>4. ASSUME NEW v \in Releases, doc'[v] # status'[v], v = cmd[r].release
          PROVE  Witness(made, v)'
      <4>1. doc'[v] = cmd[r].status /\ status'[v] = StatusAfter(r)
        BY <2>3, <3>2, <3>4 DEF Persist
      <4>2. loaded[r] = cmd[r].status
        BY <3>4, <4>1 DEF StatusAfter
      <4> QED BY <2>3, <3>1, <3>3, <3>4, <4>2
    <3>5. ASSUME NEW v \in Releases, doc'[v] # status'[v], v # cmd[r].release
          PROVE  \E e \in Updates : Witness(e, v)
      <4>1. doc[v] # status[v]
        BY <2>3, <3>5 DEF Persist
      <4> QED BY <4>1 DEF DivergenceNeedsRepeatedTarget
    <3> QED BY <2>1, <3>1, <3>4, <3>5 DEF DivergenceNeedsRepeatedTarget
  <2>4. CASE UNCHANGED vars
    BY <2>4, <2>2 DEF vars
  <2> QED BY <2>2, <2>3, <2>4 DEF Next, Progress, Receive, Read, RecordDenial,
                                  RecordDenialUnacknowledged, Refuse, Load, Update,
                                  SelectDefault, Commit, CommitUnacknowledged, Respond,
                                  Fail, Crash
<1> QED BY <1>1, <1>2, Invariance, PTL DEF Spec
-----------------------------------------------------------------------------
\* Another version of v's skill has been updated.
Raced(v) ==
    \E e \in Updates : /\ e.release # v /\ SkillOf[e.release] = SkillOf[v]
                       /\ e.lifecycle_status = status[e.release]

\* What r's COMMIT makes of the statuses; r's is_current_default is of them.
AsCommitted(r) == [status EXCEPT ![cmd[r].release] = StatusAfter(r)]
Fresh(r) == isDefault[r] <=> IsDefault(cmd[r].release, AsCommitted(r))

(* What an open transaction has seen of its row has changed only by an     *)
(* update on record, and what it has seen of the other rows of its skill,  *)
(* likewise.                                                               *)
Gaps ==
    \A r \in Requests :
        pc[r] \in TxnLabels /\ previous[r] # status[cmd[r].release]
        => \E f \in Updates : /\ f.by # r /\ f.release = cmd[r].release
                              /\ f.lifecycle_status = status[cmd[r].release]

Defaults ==
    \A r \in Requests : pc[r] = "commit" => Fresh(r) \/ Raced(cmd[r].release)

(* Events stay on record.                                                  *)
LEMMA UpdatesStay ==
    ASSUME [Next]_vars
    PROVE  Updates \subseteq Updates'
<1>1. audit \subseteq audit'
  BY DEF Next, Progress, Receive, Read, RecordDenial, RecordDenialUnacknowledged, Refuse, Load,
         Update, SelectDefault, Commit, Respond, Fail, CommitUnacknowledged, Crash, Persist, vars
<1> QED BY <1>1 DEF Updates

(* A status changes together with the record of the update that changed it.*)
LEMMA ChangesAreOnRecord ==
    ASSUME Typed, [Next]_vars, NEW v \in Releases, status'[v] # status[v]
    PROVE  \E r \in Requests : \E f \in Updates' :
               /\ pc[r] = "commit" /\ pc'[r] \notin TxnLabels /\ cmd[r].release = v
               /\ f.by = r /\ f.release = v /\ f.lifecycle_status = status'[v]
<1>1. PICK r \in Requests : Commit(r) \/ CommitUnacknowledged(r)
  BY DEF Next, Progress, Receive, Read, RecordDenial, RecordDenialUnacknowledged, Refuse, Load,
         Update, SelectDefault, Respond, Fail, Crash, vars
<1>2. pc[r] = "commit" /\ pc'[r] \notin TxnLabels /\ Persist(r)
  BY <1>1 DEF Commit, CommitUnacknowledged, Goto, Answer, Typed, TypeOK, TxnLabels
<1>3. cmd[r].release = v /\ status'[v] = cmd[r].status
  BY <1>2 DEF Persist, StatusAfter, Typed, TypeOK
<1>4. Event(r, Updated) \in Updates'
  BY <1>2 DEF Persist, Updates, Event, Updated
<1> QED BY <1>2, <1>3, <1>4 DEF Event

(* A version that has raced another one is still raced after a step.       *)
LEMMA RacedStays ==
    ASSUME Typed, [Next]_vars, NEW v \in Releases, Raced(v)
    PROVE  Raced(v)'
<1>1. PICK e \in Updates : /\ e.release # v /\ SkillOf[e.release] = SkillOf[v]
                           /\ e.lifecycle_status = status[e.release]
  BY DEF Raced
<1>2. e.release \in Releases /\ e \in Updates'
  BY UpdatesStay DEF Updates, Typed, TypeOK, AuditEvent
<1>3. CASE status'[e.release] = status[e.release]
  BY <1>1, <1>2, <1>3 DEF Raced
<1>4. CASE status'[e.release] # status[e.release]
  <2>1. PICK f \in Updates' : /\ f.release = e.release
                              /\ f.lifecycle_status = status'[e.release]
    BY <1>2, <1>4, ChangesAreOnRecord
  <2> QED BY <1>1, <2>1 DEF Raced
<1> QED BY <1>3, <1>4

\* A step of r.
StepOf(r) ==
    \/ Receive(r) \/ Read(r) \/ RecordDenial(r) \/ Refuse(r) \/ Load(r) \/ Update(r)
    \/ SelectDefault(r) \/ Commit(r) \/ Respond(r) \/ Fail(r) \/ RecordDenialUnacknowledged(r)
    \/ CommitUnacknowledged(r) \/ Crash(r)

(* A request's own variables change by a step of its own only.             *)
LEMMA StepsOfOthers ==
    ASSUME TypeOK, [Next]_vars, NEW r \in Requests
    PROVE  \/ StepOf(r)
           \/ UNCHANGED <<pc[r], cmd[r], previous[r], loaded[r], isDefault[r]>>
<1>1. ASSUME NEW q \in Requests, StepOf(q), q # r
      PROVE  UNCHANGED <<pc[r], cmd[r], previous[r], loaded[r], isDefault[r]>>
  BY <1>1 DEF StepOf, TypeOK, Receive, Read, RecordDenial, RecordDenialUnacknowledged, Refuse,
         Load, Update, SelectDefault, Commit, Respond, Fail, CommitUnacknowledged, Crash, Goto,
         Answer
<1>2. CASE UNCHANGED vars
  BY <1>2 DEF vars
<1> QED BY <1>1, <1>2 DEF Next, Progress, StepOf

(* The status that a transaction's policy decision saw is kept with it.    *)
LEMMA GapsNext ==
    ASSUME Typed, Gaps, [Next]_vars
    PROVE  Gaps'
<1> USE DEF Typed, TypeOK, TxnLabels
<1> SUFFICES ASSUME NEW r \in Requests, pc'[r] \in TxnLabels,
                    previous'[r] # status'[cmd'[r].release]
             PROVE  \E f \in Updates' : /\ f.by # r /\ f.release = cmd'[r].release
                                        /\ f.lifecycle_status = status'[cmd'[r].release]
  BY DEF Gaps
<1>1. \/ /\ pc[r] \in TxnLabels /\ cmd'[r] = cmd[r] /\ previous'[r] = previous[r]
      \/ /\ status' = status /\ previous'[r] = status[cmd'[r].release]
  <2>1. CASE Read(r)
    <3>1. status' = status /\ cmd' = cmd
      BY <2>1 DEF Read
    <3>2. cmd[r].release \in Releases
      BY <2>1 DEF Read, Answer
    <3> QED BY <2>1, <3>1, <3>2 DEF Read
  <2>2. CASE UNCHANGED <<pc[r], cmd[r], previous[r], loaded[r], isDefault[r]>>
    BY <2>2
  <2>3. CASE StepOf(r) /\ ~Read(r)
    BY <2>3 DEF StepOf, Receive, RecordDenial, RecordDenialUnacknowledged, Refuse, Load, Update,
           SelectDefault, Commit, Respond, Fail, CommitUnacknowledged, Crash, Goto, Answer
  <2> QED BY <2>1, <2>2, <2>3, StepsOfOthers
<1>2. pc[r] \in TxnLabels /\ cmd'[r] = cmd[r] /\ previous'[r] = previous[r]
  BY <1>1
<1>3. cmd[r].release \in Releases
  BY <1>2 DEF Phases, Permitted
<1>4. CASE status'[cmd[r].release] = status[cmd[r].release]
  BY <1>2, <1>4, UpdatesStay DEF Gaps
<1>5. CASE status'[cmd[r].release] # status[cmd[r].release]
  <2>1. PICK q \in Requests : \E f \in Updates' :
            /\ pc'[q] \notin TxnLabels /\ f.by = q /\ f.release = cmd[r].release
            /\ f.lifecycle_status = status'[cmd[r].release]
    BY <1>3, <1>5, ChangesAreOnRecord
  <2>2. q # r
    BY <2>1
  <2> QED BY <1>2, <2>1, <2>2
<1> QED BY <1>4, <1>5

(* Whether a version is the current default depends on its own status and  *)
(* on those of its skill's other versions.                                 *)
LEMMA DefaultOfItsSkill ==
    ASSUME NEW v, NEW s, NEW t, s[v] = t[v],
           \A w \in Releases \ {v} : SkillOf[w] = SkillOf[v] => s[w] = t[w]
    PROVE  IsDefault(v, s) <=> IsDefault(v, t)
BY DEF IsDefault, Ranked

(* The current default that a transaction has selected stays the one its   *)
(* commit will make true, until another version of the skill is updated.   *)
LEMMA DefaultsNext ==
    ASSUME Typed, Held, Defaults, [Next]_vars
    PROVE  Defaults'
<1> USE DEF Typed, TypeOK
<1> SUFFICES ASSUME NEW r \in Requests, pc'[r] = "commit"
             PROVE  Fresh(r)' \/ Raced(cmd[r].release)'
  BY DEF Defaults
<1>0. status' \in [Releases -> Statuses]
  BY TypeNext
<1>1. CASE SelectDefault(r)
  <2>1. /\ status' = status /\ loaded' = loaded /\ cmd' = cmd
        /\ isDefault'[r] = IsDefault(cmd[r].release, AsCommitted(r))
    BY <1>1 DEF SelectDefault, AsCommitted
  <2>2. AsCommitted(r)' = AsCommitted(r)
    BY <2>1 DEF AsCommitted, StatusAfter
  <2> QED BY <2>1, <2>2 DEF Fresh
<1>2. CASE ~SelectDefault(r)
  <2>1. /\ pc[r] = "commit" /\ cmd'[r] = cmd[r] /\ loaded'[r] = loaded[r]
        /\ isDefault'[r] = isDefault[r]
    BY <1>2, StepsOfOthers DEF StepOf, Receive, Read, RecordDenial, RecordDenialUnacknowledged,
           Refuse, Load, Update, Commit, Respond, Fail, CommitUnacknowledged, Crash, Goto, Answer
  <2>2. PICK v : v = cmd[r].release /\ v = cmd'[r].release
    BY <2>1
  <2>3. v \in Releases /\ lock[v] = r
    BY <2>1, <2>2 DEF Phases, Permitted, TxnLabels, Held, Locking
  <2>4. CASE Raced(v)'
    BY <2>2, <2>4 DEF Raced
  <2>5. CASE ~Raced(v)'
    <3>1. status'[v] = status[v]
      <4>1. ASSUME status'[v] # status[v]
            PROVE  FALSE
        <5>1. PICK q \in Requests : /\ pc[q] = "commit" /\ pc'[q] \notin TxnLabels
                                    /\ cmd[q].release = v
          BY <2>3, <4>1, ChangesAreOnRecord
        <5> QED BY <2>3, <5>1 DEF Held, Locking, TxnLabels
      <4> QED BY <4>1
    <3>2. \A w \in Releases \ {v} : SkillOf[w] = SkillOf[v] => status'[w] = status[w]
      <4> TAKE w \in Releases \ {v}
      <4>1. ASSUME SkillOf[w] = SkillOf[v], status'[w] # status[w]
            PROVE  Raced(v)'
        <5>1. PICK q \in Requests :
                  \E f \in Updates' : f.release = w /\ f.lifecycle_status = status'[w]
          BY <4>1, ChangesAreOnRecord
        <5> QED BY <4>1, <5>1 DEF Raced
      <4> QED BY <2>5, <4>1
    <3>3. Fresh(r)
      BY <2>1, <2>2, <2>3, <2>5, RacedStays DEF Defaults
    <3>4. StatusAfter(r)' = StatusAfter(r)
      BY <2>1, <2>2, <3>1 DEF StatusAfter
    <3>5. AsCommitted(r)'[v] = AsCommitted(r)[v]
      BY <1>0, <2>2, <2>3, <3>4 DEF AsCommitted
    <3>6. \A w \in Releases \ {v} : SkillOf[w] = SkillOf[v] =>
              AsCommitted(r)[w] = AsCommitted(r)'[w]
      BY <2>2, <3>2 DEF AsCommitted
    <3>7. IsDefault(v, AsCommitted(r)) <=> IsDefault(v, AsCommitted(r)')
      BY <3>5, <3>6, DefaultOfItsSkill
    <3> QED BY <2>1, <2>2, <3>3, <3>7 DEF Fresh
  <2> QED BY <2>4, <2>5
<1> QED BY <1>1, <1>2

(* What has changed since a decision or a selection is on record.          *)
LEMMA RacesAreOnRecord == Spec => [](Gaps /\ Defaults)
<1>1. Init => Gaps /\ Defaults
  BY DEF Init, Gaps, Defaults, TxnLabels
<1>2. Typed /\ Sound /\ Gaps /\ Defaults /\ [Next]_vars => (Gaps /\ Defaults)'
  BY GapsNext, DefaultsNext DEF Sound
<1> QED BY <1>1, <1>2, Invariance, PTL DEF Spec

(* Where the status that a recorded update says it replaced is not the one *)
(* it did replace, another recorded update is what came between.           *)
THEOREM TrailExplainsItsGaps == Spec => GapsAreOnRecord
<1> DEFINE Step ==
        \A e \in audit' \ audit :
            /\ e.event = "skill.version_status_updated"
            /\ e.previous_status # status[e.release]
            => \E f \in Updates : /\ f.by # e.by /\ f.release = e.release
                                  /\ f.lifecycle_status = status[e.release]
<1>1. ASSUME Typed, Gaps, [Next]_vars
      PROVE  Step
  <2> SUFFICES ASSUME NEW e \in audit' \ audit, e.event = Updated,
                      e.previous_status # status[e.release]
               PROVE  \E f \in Updates : /\ f.by # e.by /\ f.release = e.release
                                         /\ f.lifecycle_status = status[e.release]
    BY DEF Updated
  <2>1. PICK r \in Requests : pc[r] = "commit" /\ e = Event(r, Updated)
    <3>1. PICK r \in Requests : StepOf(r)
      BY <1>1 DEF Next, Progress, StepOf, vars
    <3> QED BY <3>1 DEF StepOf, Receive, Read, RecordDenial, RecordDenialUnacknowledged, Refuse,
           Load, Update, SelectDefault, Commit, Respond, Fail, CommitUnacknowledged, Crash,
           Persist, Event, Updated
  <2>2. e.by = r /\ e.release = cmd[r].release /\ e.previous_status = previous[r]
    BY <2>1 DEF Event
  <2> QED BY <1>1, <2>1, <2>2 DEF Gaps, TxnLabels
<1>2. Typed /\ Gaps /\ [Next]_vars => [Step]_vars
  BY <1>1
<1> QED BY <1>2, Invariance, RacesAreOnRecord, PTL DEF Spec, GapsAreOnRecord

(* An update that answers reports the current default as its own commit    *)
(* leaves it, unless it raced an update of another version of the skill.   *)
THEOREM DefaultIsFreshUnlessRaced == Spec => DefaultStaleOnlyWhenRaced
<1> DEFINE Step ==
        \A r \in Requests :
            LET v == cmd[r].release
            IN  /\ pc[r] = "commit" /\ pc'[r] = "respond"
                /\ isDefault[r] # IsDefault(v, status')
                => \E e \in Updates : /\ e.release # v /\ SkillOf[e.release] = SkillOf[v]
                                      /\ e.lifecycle_status = status[e.release]
<1>1. ASSUME Typed, Defaults, [Next]_vars
      PROVE  Step
  <2> SUFFICES ASSUME NEW r \in Requests, pc[r] = "commit", pc'[r] = "respond",
                      isDefault[r] # IsDefault(cmd[r].release, status')
               PROVE  Raced(cmd[r].release)
    BY DEF Raced
  <2>1. Commit(r)
    BY <1>1 DEF Next, Progress, Receive, Read, RecordDenial, RecordDenialUnacknowledged, Refuse,
                Load, Update, SelectDefault, Commit, Respond, Fail, CommitUnacknowledged, Crash,
                vars, Goto, Answer, Typed, TypeOK
  <2>2. status' = [status EXCEPT ![cmd[r].release] = StatusAfter(r)]
    BY <2>1 DEF Commit, Persist
  <2>3. isDefault[r] \in BOOLEAN /\ IsDefault(cmd[r].release, status') \in BOOLEAN
    BY <1>1 DEF Typed, TypeOK, IsDefault
  <2>4. ~(isDefault[r] <=> IsDefault(cmd[r].release, status'))
    BY <2>3
  <2> QED BY <1>1, <2>2, <2>4 DEF Defaults, Fresh, AsCommitted
<1>2. Typed /\ Defaults /\ [Next]_vars => [Step]_vars
  BY <1>1
<1> QED BY <1>2, Invariance, RacesAreOnRecord, PTL DEF Spec, DefaultStaleOnlyWhenRaced
-----------------------------------------------------------------------------
(* The converse of the first part of Held: a lock is one of a transaction  *)
(* that is past its UPDATE of this row.                                    *)
LocksAreHeld ==
    \A v \in Releases : lock[v] # None =>
        pc[lock[v]] \in Locking /\ cmd[lock[v]].release = v

(* No lock outlives the transaction that took it, however that ends.       *)
LEMMA HoldersAreOpen == Spec => []LocksAreHeld
<1>1. Init => LocksAreHeld
  BY DEF Init, LocksAreHeld
<1>2. ASSUME Typed, Held, LocksAreHeld, [Next]_vars
      PROVE  LocksAreHeld'
  <2> USE DEF Typed, TypeOK, Goto, Answer, Locking
  <2> SUFFICES ASSUME NEW v \in Releases, lock'[v] # None
               PROVE  pc'[lock'[v]] \in Locking /\ cmd'[lock'[v]].release = v
    BY DEF LocksAreHeld
  <2>1. ASSUME NEW r \in Requests, lock'[v] = lock[v], lock[v] # r,
               \A q \in Requests \ {r} : pc'[q] = pc[q] /\ cmd'[q] = cmd[q]
        PROVE  pc'[lock'[v]] \in Locking /\ cmd'[lock'[v]].release = v
    BY <1>2, <2>1 DEF LocksAreHeld
  <2>2. ASSUME NEW r \in Requests,
               Receive(r) \/ Read(r) \/ RecordDenial(r) \/ RecordDenialUnacknowledged(r)
               \/ Refuse(r) \/ Load(r) \/ Respond(r)
        PROVE  pc'[lock'[v]] \in Locking /\ cmd'[lock'[v]].release = v
    <3>1. /\ lock' = lock /\ pc[r] \notin Locking
          /\ \A q \in Requests \ {r} : pc'[q] = pc[q] /\ cmd'[q] = cmd[q]
      BY <1>2, <2>2 DEF Receive, Read, RecordDenial, RecordDenialUnacknowledged, Refuse,
                        Load, Respond
    <3>2. lock[v] # r
      BY <1>2, <3>1 DEF LocksAreHeld
    <3> QED BY <2>1, <3>1, <3>2
  <2>3. ASSUME NEW r \in Requests, Update(r)
        PROVE  pc'[lock'[v]] \in Locking /\ cmd'[lock'[v]].release = v
    <3>1. /\ lock' = [lock EXCEPT ![cmd[r].release] = r] /\ pc[r] = "update"
          /\ pc' = [pc EXCEPT ![r] = "selectDefault"] /\ cmd' = cmd
      BY <2>3 DEF Update
    <3>2. CASE v = cmd[r].release
      BY <1>2, <3>1, <3>2
    <3>3. CASE v # cmd[r].release
      <4>1. lock'[v] = lock[v]
        BY <1>2, <3>1, <3>3
      <4>2. lock[v] # r
        BY <1>2, <3>1, <3>3, <4>1 DEF LocksAreHeld
      <4>3. \A q \in Requests \ {r} : pc'[q] = pc[q] /\ cmd'[q] = cmd[q]
        BY <1>2, <3>1
      <4> QED BY <2>1, <4>1, <4>2, <4>3
    <3> QED BY <3>2, <3>3
  <2>4. ASSUME NEW r \in Requests, SelectDefault(r)
        PROVE  pc'[lock'[v]] \in Locking /\ cmd'[lock'[v]].release = v
    <3>1. lock' = lock /\ cmd' = cmd /\ pc' = [pc EXCEPT ![r] = "commit"]
      BY <2>4 DEF SelectDefault
    <3> QED BY <1>2, <3>1 DEF LocksAreHeld
  <2>5. ASSUME NEW r \in Requests, Release(r), cmd' = cmd,
               \A q \in Requests \ {r} : pc'[q] = pc[q]
        PROVE  pc'[lock'[v]] \in Locking /\ cmd'[lock'[v]].release = v
    <3>1. lock'[v] = lock[v] /\ lock[v] # r
      BY <2>5 DEF Release
    <3> QED BY <2>1, <2>5, <3>1
  <2>6. ASSUME NEW r \in Requests, Commit(r) \/ CommitUnacknowledged(r) \/ Fail(r) \/ Crash(r)
        PROVE  pc'[lock'[v]] \in Locking /\ cmd'[lock'[v]].release = v
    <3>1. Release(r) /\ cmd' = cmd /\ \A q \in Requests \ {r} : pc'[q] = pc[q]
      BY <1>2, <2>6 DEF Commit, CommitUnacknowledged, Persist, Fail, Crash
    <3> QED BY <2>5, <3>1
  <2>7. CASE UNCHANGED vars
    BY <1>2, <2>7 DEF vars, LocksAreHeld
  <2> QED BY <1>2, <2>2, <2>3, <2>4, <2>6, <2>7 DEF Next, Progress
<1>3. Typed /\ Sound => Typed /\ Held
  BY DEF Sound
<1> QED BY <1>1, <1>2, <1>3, Invariance, PTL DEF Spec
=============================================================================
