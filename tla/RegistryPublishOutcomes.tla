----------------------- MODULE RegistryPublishOutcomes -----------------------
(***************************************************************************)
(* Further theorems about RegistryPublish: what publishes wait for, what   *)
(* they leave behind, what they are answered, and that they implement the  *)
(* append-only catalog.                                                    *)
(***************************************************************************)
EXTENDS RegistryPublishProofs

(* A request waits only for one that is past the insert it waits at.       *)
LEMMA HolderIsAhead ==
    ASSUME Typed, Sound, NEW r \in Requests, NEW q \in Requests, WaitsFor(r, q)
    PROVE  \/ pc[r] = "insertSkill" /\ pc[q] \in HasSkill
           \/ pc[r] = "insertContent" /\ pc[q] \in HasContent
           \/ pc[r] = "insertVersion" /\ pc[q] \in HasVersion
BY DEF WaitsFor, Sound, OwnRows, SameSlug, SameDigest, SameVersion

(* Publishes cannot deadlock on the unique keys that _get_or_create_skill, *)
(* _get_or_create_content and create_version insert, in this order.        *)
THEOREM WaitingIsAcyclic == Spec => []NoWaitCycle
<1>1. Typed /\ Sound => NoWaitCycle
  <2> SUFFICES ASSUME Typed, Sound, NEW S \in (SUBSET Requests) \ {{}}
               PROVE  \E r \in S : \A q \in S : ~WaitsFor(r, q)
    BY DEF NoWaitCycle
  <2> DEFINE Waiting == {"insertSkill", "insertContent", "insertVersion"}
  <2>1. CASE \E r \in S : pc[r] \notin Waiting
    BY <2>1 DEF WaitsFor
  <2>2. CASE /\ \A q \in S : pc[q] \in Waiting
             /\ \E r \in S : pc[r] = "insertVersion"
    BY <2>2, HolderIsAhead DEF HasVersion
  <2>3. CASE /\ \A q \in S : pc[q] \in {"insertSkill", "insertContent"}
             /\ \E r \in S : pc[r] = "insertContent"
    BY <2>3, HolderIsAhead DEF HasContent
  <2>4. CASE \A q \in S : pc[q] = "insertSkill"
    BY <2>4, HolderIsAhead DEF HasSkill
  <2>5. CASE \A q \in S : pc[q] \in Waiting
    <3>1. CASE \A q \in S : pc[q] # "insertVersion"
      <4>1. \A q \in S : pc[q] \in {"insertSkill", "insertContent"}
        BY <2>5, <3>1
      <4>2. CASE \A q \in S : pc[q] # "insertContent"
        <5>1. \A q \in S : pc[q] = "insertSkill"
          BY <4>1, <4>2
        <5> QED BY <5>1, <2>4
      <4> QED BY <4>1, <4>2, <2>3
    <3> QED BY <2>5, <3>1, <2>2
  <2> QED BY <2>1, <2>5
<1> QED BY <1>1, Invariance, PTL
-----------------------------------------------------------------------------
(* publish_version finds its skill before its transaction and, as nothing  *)
(* deletes a skill, again inside it: it never gets to insert one.          *)
IntentKept ==
    /\ \A r \in Requests :
          /\ pc[r] \in {"versionExists", "selectSkill"} /\ cmd[r].intent = "publish_version" =>
                \E s \in Durable(skills) : s.slug = cmd[r].slug
          /\ pc[r] = "insertSkill" => cmd[r].intent = "create_skill"
    /\ SkillsComeFromCreateSkill

(* No step takes a durable row away.                                       *)
LEMMA DurableKept ==
    ASSUME Typed, [Next]_vars
    PROVE  /\ Durable(skills) \subseteq Durable(skills)'
           /\ Durable(contents) \subseteq Durable(contents)'
           /\ Durable(versions) \subseteq Durable(versions)'
<1> USE DEF Durable, Typed, Phases, tables, locals
<1>1. ASSUME NEW r \in Requests, Rollback(r), r \notin committed
      PROVE  /\ Durable(skills) \subseteq Durable(skills)'
             /\ Durable(contents) \subseteq Durable(contents)'
             /\ Durable(versions) \subseteq Durable(versions)'
  BY <1>1 DEF Rollback, Without
<1>2. ASSUME NEW r \in Requests, UniqueViolation(r) \/ FailInside(r) \/ Crash(r)
      PROVE  (Rollback(r) /\ r \notin committed) \/ UNCHANGED tables
  BY <1>2 DEF UniqueViolation, FailInside, Crash, TxnLabels, ReloadLabels
<1>3. ASSUME NEW r \in Requests,
             Receive(r) \/ RecordDenial(r) \/ Refuse(r) \/ EnforceIntent(r) \/ CheckVersion(r)
             \/ SelectSkill(r) \/ InsertSkill(r) \/ SelectContent(r) \/ InsertContent(r)
             \/ InsertVersion(r) \/ InsertSelectors(r) \/ Commit(r) \/ Reload(r)
             \/ ReloadSelectors(r) \/ FailOutside(r) \/ RecordDenialUnacknowledged(r)
             \/ CommitUnacknowledged(r) \/ FailReload(r)
      PROVE  /\ skills \subseteq skills' /\ contents \subseteq contents'
             /\ versions \subseteq versions' /\ committed \subseteq committed'
  BY <1>3 DEF Receive, RecordDenial, Refuse, EnforceIntent, CheckVersion, SelectSkill,
              InsertSkill, SelectContent, InsertContent, InsertVersion, InsertSelectors, Commit,
              Reload, ReloadSelectors, FailOutside, RecordDenialUnacknowledged,
              CommitUnacknowledged, FailReload, Persist
<1> QED BY <1>1, <1>2, <1>3 DEF Next, Progress, Failure, vars

(* Every step keeps requests to their intents.                             *)
LEMMA IntentNext ==
    ASSUME Typed, Sound, IntentKept, [Next]_vars
    PROVE  IntentKept'
<1> USE DEF Typed, TypeOK, IntentKept, SkillsComeFromCreateSkill, Goto, Answer, tables, locals
<1>1. ASSUME NEW r \in Requests, Receive(r)
      PROVE  IntentKept'
  <2>1. \A s \in skills : s.id # r
    BY <1>1 DEF Receive, Phases, Sound, OwnRows, HasSkill, ReloadLabels
  <2>2. /\ pc'[r] \in {"done", "intent", "deny"} /\ UNCHANGED <<skills, committed>>
        /\ \A q \in Requests \ {r} : pc'[q] = pc[q] /\ cmd'[q] = cmd[q]
    BY <1>1 DEF Receive
  <2> QED BY <2>1, <2>2 DEF Durable, SkillRow
<1>2. ASSUME NEW r \in Requests, EnforceIntent(r)
      PROVE  IntentKept'
  <2> DEFINE skillExists == \E s \in Durable(skills) : s.slug = cmd[r].slug
  <2>1. /\ pc[r] = "intent" /\ UNCHANGED <<skills, committed, cmd>>
        /\ \/ pc' = [pc EXCEPT ![r] = "done"]
           \/ pc' = [pc EXCEPT ![r] = "versionExists"]
    BY <1>2 DEF EnforceIntent
  <2>2. cmd[r].intent = "publish_version" /\ ~skillExists => pc'[r] = "done"
    <3> SUFFICES ASSUME cmd[r].intent = "publish_version", ~skillExists
                 PROVE  pc'[r] = "done"
      OBVIOUS
    <3>1. (cmd[r].intent = "create_skill") = skillExists
      BY Zenon
    <3> QED BY <1>2, <3>1 DEF EnforceIntent
  <2> QED BY <2>1, <2>2 DEF Durable
<1>3. ASSUME NEW r \in Requests, CheckVersion(r)
      PROVE  IntentKept'
  BY <1>3 DEF CheckVersion, Durable
<1>4. ASSUME NEW r \in Requests, SelectSkill(r)
      PROVE  IntentKept'
  <2>1. pc'[r] = "insertSkill" => cmd[r].intent # "publish_version"
    BY <1>4 DEF SelectSkill, Visible, Durable
  <2>2. cmd[r].intent \in Intents
    BY <1>4, CommandFields DEF SelectSkill
  <2> QED BY <1>4, <2>1, <2>2 DEF SelectSkill, Durable, Intents
<1>5. ASSUME NEW r \in Requests, InsertSkill(r)
      PROVE  IntentKept'
  BY <1>5 DEF InsertSkill, Durable
<1>6. ASSUME NEW r \in Requests,
             RecordDenial(r) \/ Refuse(r) \/ SelectContent(r) \/ InsertContent(r)
             \/ InsertVersion(r) \/ InsertSelectors(r) \/ Commit(r) \/ Reload(r)
             \/ ReloadSelectors(r) \/ UniqueViolation(r) \/ Failure(r)
      PROVE  IntentKept'
  <2>1. skills' \subseteq skills /\ cmd' = cmd
    BY <1>6 DEF RecordDenial, Refuse, SelectContent, InsertContent, InsertVersion,
                InsertSelectors, Commit, Reload, ReloadSelectors, UniqueViolation, Failure,
                FailOutside, RecordDenialUnacknowledged, FailInside, CommitUnacknowledged, FailReload, Crash, Persist,
                Rollback, Without
  <2>2. \E label \in Labels \ {"versionExists", "selectSkill", "insertSkill"} :
            pc' = [pc EXCEPT ![r] = label]
    BY <1>6 DEF RecordDenial, Refuse, SelectContent, InsertContent, InsertVersion,
                InsertSelectors, Commit, Reload, ReloadSelectors, UniqueViolation, Failure,
                FailOutside, RecordDenialUnacknowledged, FailInside, CommitUnacknowledged, FailReload, Crash,
                Labels, TxnLabels, ReloadLabels
  <2>3. Durable(skills) \subseteq Durable(skills)'
    BY <1>6, DurableKept DEF Next, Progress
  <2> QED BY <2>1, <2>2, <2>3
<1>7. CASE UNCHANGED vars
  BY <1>7 DEF vars, Durable
<1> QED BY <1>1, <1>2, <1>3, <1>4, <1>5, <1>6, <1>7 DEF Next, Progress

(* A publish_version never brings a skill into being, not even when it     *)
(* races the create_skill that does: _enforce_publish_intent suffices.     *)
THEOREM OnlyCreateSkillCreates == Spec => []SkillsComeFromCreateSkill
<1>1. Init => IntentKept
  BY DEF Init, IntentKept, SkillsComeFromCreateSkill
<1>2. IntentKept => SkillsComeFromCreateSkill
  BY DEF IntentKept
<1> QED BY <1>1, <1>2, IntentNext, Invariance, PTL DEF Spec
-----------------------------------------------------------------------------
(* What a request records: its place in the catalog, and its two events.   *)
Coordinate(r) == [id |-> r, slug |-> cmd[r].slug, version |-> cmd[r].version]
Event(r, name) ==
    [event |-> name, id |-> r, slug |-> cmd[r].slug, version |-> cmd[r].version]

(* A request that has not been answered has no reply yet.                  *)
Pending == \A r \in Requests : pc[r] # "done" => reply[r] = None

(* Documents and audit events are those of committed requests, or of       *)
(* denied ones, and none of these lacks its own.                           *)
Recorded ==
    /\ \A r \in Requests :
          /\ r \in committed => /\ Coordinate(r) \in docs
                               /\ Event(r, "skill.version_published") \in audit
          /\ pc[r] = "denied" \/ reply[r] \in PolicyCodes =>
                Event(r, "skill.version_publish_denied") \in audit
    /\ \A d \in docs : d.id \in committed /\ d = Coordinate(d.id)
    /\ \A e \in audit :
          \/ e.event = "skill.version_published" /\ e.id \in committed
          \/ /\ e.event = "skill.version_publish_denied" /\ e.id \notin committed
             /\ pc[e.id] \in {"denied", "done"}
             /\ reply[e.id] \in PolicyCodes \cup {"INTERNAL_ERROR", "LOST", None}

(* A step answers a request at most once, when it is done with it.         *)
LEMMA PendingNext ==
    ASSUME Typed, Pending, [Next]_vars
    PROVE  Pending'
<1>1. ASSUME NEW r \in Requests, Receive(r) \/ Progress(r) \/ Failure(r)
      PROVE  \/ \E code : Answer(r, code)
             \/ UNCHANGED reply /\ pc[r] # "done" /\ \E label : pc' = [pc EXCEPT ![r] = label]
  BY <1>1 DEF Receive, Progress, Failure, RecordDenial, Refuse, EnforceIntent, CheckVersion,
              SelectSkill, InsertSkill, SelectContent, InsertContent, InsertVersion,
              InsertSelectors, Commit, Reload, ReloadSelectors, UniqueViolation, FailOutside,
              RecordDenialUnacknowledged, FailInside, CommitUnacknowledged, FailReload, Crash,
              Goto
<1>2. ASSUME NEW r \in Requests, Receive(r) \/ Progress(r) \/ Failure(r)
      PROVE  Pending'
  BY <1>1, <1>2 DEF Typed, TypeOK, Pending, Answer
<1>3. CASE UNCHANGED vars
  BY <1>3 DEF vars, Pending
<1> QED BY <1>2, <1>3 DEF Next

(* A step that writes no document and no event, and whose answer, if any,  *)
(* is not a denial, keeps the records of requests that were not denied.    *)
LEMMA KeepsRecorded ==
    ASSUME Typed, Recorded, NEW r \in Requests, UNCHANGED <<docs, audit, committed>>,
           pc[r] \notin {"denied", "done"},
           \E label \in Labels \ {"denied"} : pc' = [pc EXCEPT ![r] = label],
           \/ UNCHANGED reply
           \/ \E code \in Replies \ PolicyCodes : reply' = [reply EXCEPT ![r] = code],
           \A q \in Requests : (q = r /\ pc[r] = "idle") \/ cmd'[q] = cmd[q]
    PROVE  Recorded'
<1> USE DEF Typed, TypeOK
<1>1. pc[r] = "idle" => r \notin committed
  BY DEF Phases, ReloadLabels
<1>2. \A q \in Requests :
         /\ q \in committed' => /\ Coordinate(q)' \in docs'
                               /\ Event(q, "skill.version_published")' \in audit'
         /\ pc'[q] = "denied" \/ reply'[q] \in PolicyCodes =>
                Event(q, "skill.version_publish_denied")' \in audit'
  <2> SUFFICES ASSUME NEW q \in Requests
               PROVE  /\ q \in committed => /\ Coordinate(q)' \in docs
                                            /\ Event(q, "skill.version_published")' \in audit
                      /\ pc'[q] = "denied" \/ reply'[q] \in PolicyCodes =>
                            Event(q, "skill.version_publish_denied")' \in audit
    OBVIOUS
  <2>1. CASE cmd'[q] = cmd[q]
    <3>1. /\ Coordinate(q)' = Coordinate(q)
          /\ \A name : Event(q, name)' = Event(q, name)
      BY <2>1 DEF Coordinate, Event
    <3>2. pc'[q] = "denied" \/ reply'[q] \in PolicyCodes =>
             pc[q] = "denied" \/ reply[q] \in PolicyCodes
      OBVIOUS
    <3> QED BY <3>1, <3>2 DEF Recorded
  <2>2. CASE q = r /\ pc[r] = "idle"
    <3>1. reply[r] \notin PolicyCodes
      BY <2>2 DEF Recorded, Event
    <3> QED BY <2>2, <3>1, <1>1
  <2> QED BY <2>1, <2>2
<1>3. \A d \in docs' : d.id \in committed' /\ d = Coordinate(d.id)'
  BY <1>1 DEF Recorded, Coordinate
<1>4. \A e \in audit' :
         \/ e.event = "skill.version_published" /\ e.id \in committed'
         \/ /\ e.event = "skill.version_publish_denied" /\ e.id \notin committed'
            /\ pc'[e.id] \in {"denied", "done"}
            /\ reply'[e.id] \in PolicyCodes \cup {"INTERNAL_ERROR", "LOST", None}
  BY DEF Recorded, AuditEvent
<1> QED BY <1>2, <1>3, <1>4 DEF Recorded, Coordinate, Event

(* Every step keeps the records.                                           *)
LEMMA RecordedNext ==
    ASSUME Typed, Pending, Recorded, [Next]_vars
    PROVE  Recorded'
<1> USE DEF Goto, Answer, tables, locals
<1>1. ASSUME NEW r \in Requests, RecordDenial(r) \/ RecordDenialUnacknowledged(r)
      PROVE  Recorded'
  <2>1. /\ audit' = audit \cup {Event(r, "skill.version_publish_denied")}
        /\ pc[r] = "deny" /\ UNCHANGED <<docs, committed, cmd>>
        /\ \/ pc' = [pc EXCEPT ![r] = "denied"] /\ UNCHANGED reply
           \/ /\ pc' = [pc EXCEPT ![r] = "done"]
              /\ reply' = [reply EXCEPT ![r] = "INTERNAL_ERROR"]
    BY <1>1 DEF RecordDenial, RecordDenialUnacknowledged, Denial, Event
  <2>2. r \notin committed /\ reply[r] = None
    BY <2>1 DEF Typed, Phases, ReloadLabels, Pending
  <2>3. \A q \in Requests :
           /\ q \in committed' => /\ Coordinate(q) \in docs'
                                 /\ Event(q, "skill.version_published") \in audit'
           /\ pc'[q] = "denied" \/ reply'[q] \in PolicyCodes =>
                 Event(q, "skill.version_publish_denied") \in audit'
    BY <2>1 DEF Recorded, Typed, TypeOK, PolicyCodes
  <2>4. \A d \in docs' : d.id \in committed' /\ d = Coordinate(d.id)
    BY <2>1 DEF Recorded
  <2>5. \A e \in audit' :
           \/ e.event = "skill.version_published" /\ e.id \in committed'
           \/ /\ e.event = "skill.version_publish_denied" /\ e.id \notin committed'
              /\ pc'[e.id] \in {"denied", "done"}
              /\ reply'[e.id] \in PolicyCodes \cup {"INTERNAL_ERROR", "LOST", None}
    BY <2>1, <2>2 DEF Recorded, Event, Typed, TypeOK, AuditEvent
  <2> QED BY <2>1, <2>3, <2>4, <2>5 DEF Recorded, Coordinate, Event
<1>2. ASSUME NEW r \in Requests, Refuse(r)
      PROVE  Recorded'
  BY <1>2 DEF Refuse, Typed, TypeOK, Phases, Recorded, Coordinate, Event
<1>3. ASSUME NEW r \in Requests, Commit(r) \/ CommitUnacknowledged(r)
      PROVE  Recorded'
  <2>1. /\ docs' = docs \cup {Coordinate(r)} /\ committed' = committed \cup {r}
        /\ audit' = audit \cup {Event(r, "skill.version_published")}
        /\ pc[r] = "commit" /\ pc' \in {[pc EXCEPT ![r] = "reload"], [pc EXCEPT ![r] = "done"]}
        /\ UNCHANGED cmd
    BY <1>3 DEF Commit, CommitUnacknowledged, Persist, Coordinate, Event
  <2>2. /\ reply'[r] \notin PolicyCodes
        /\ \A q \in Requests \ {r} : reply'[q] = reply[q]
    BY <1>3, NoneAssumption DEF Commit, CommitUnacknowledged, PersistenceFailure, PolicyCodes,
              Replies, Pending, Typed, TypeOK
  <2>3. \A q \in Requests :
           /\ q \in committed' => /\ Coordinate(q) \in docs'
                                 /\ Event(q, "skill.version_published") \in audit'
           /\ pc'[q] = "denied" \/ reply'[q] \in PolicyCodes =>
                 Event(q, "skill.version_publish_denied") \in audit'
    BY <2>1, <2>2 DEF Recorded, Typed, TypeOK
  <2>4. \A d \in docs' : d.id \in committed' /\ d = Coordinate(d.id)
    BY <2>1 DEF Recorded, Coordinate
  <2>5. \A e \in audit' :
           \/ e.event = "skill.version_published" /\ e.id \in committed'
           \/ /\ e.event = "skill.version_publish_denied" /\ e.id \notin committed'
              /\ pc'[e.id] \in {"denied", "done"}
              /\ reply'[e.id] \in PolicyCodes \cup {"INTERNAL_ERROR", "LOST", None}
    BY <2>1, <2>2 DEF Recorded, Event, Typed, TypeOK, AuditEvent
  <2> QED BY <2>1, <2>3, <2>4, <2>5 DEF Recorded, Coordinate, Event
<1>4. ASSUME NEW r \in Requests, Crash(r)
      PROVE  Recorded'
  BY <1>4 DEF Crash, Rollback, PolicyCodes, Typed, TypeOK, Recorded, Coordinate, Event
<1>5. ASSUME NEW r \in Requests,
             Receive(r) \/ EnforceIntent(r) \/ CheckVersion(r) \/ SelectSkill(r)
             \/ InsertSkill(r) \/ SelectContent(r) \/ InsertContent(r) \/ InsertVersion(r)
             \/ InsertSelectors(r) \/ Reload(r) \/ ReloadSelectors(r) \/ UniqueViolation(r)
             \/ FailOutside(r) \/ FailInside(r) \/ FailReload(r)
      PROVE  Recorded'
  <2> USE DEF Receive, EnforceIntent, CheckVersion, SelectSkill, InsertSkill, SelectContent,
              InsertContent, InsertVersion, InsertSelectors, Reload, ReloadSelectors,
              UniqueViolation, FailOutside, FailInside, FailReload
  <2>1. UNCHANGED <<docs, audit, committed>>
    BY <1>5 DEF Rollback
  <2>2. pc[r] \notin {"denied", "done"}
    BY <1>5 DEF TxnLabels, ReloadLabels
  <2>3. \E label \in Labels \ {"denied"} : pc' = [pc EXCEPT ![r] = label]
    BY <1>5 DEF Labels, TxnLabels, ReloadLabels
  <2>4. \/ UNCHANGED reply
        \/ \E code \in Replies \ PolicyCodes : reply' = [reply EXCEPT ![r] = code]
    BY <1>5 DEF Replies, PolicyCodes, PersistenceFailure
  <2>5. \A q \in Requests : (q = r /\ pc[r] = "idle") \/ cmd'[q] = cmd[q]
    BY <1>5 DEF Typed, TypeOK
  <2> QED BY <2>1, <2>2, <2>3, <2>4, <2>5, KeepsRecorded
<1>6. CASE UNCHANGED vars
  BY <1>6 DEF vars, Recorded, Coordinate, Event
<1> QED BY <1>1, <1>2, <1>3, <1>4, <1>5, <1>6 DEF Next, Progress, Failure

(* The records' inductive invariant.                                       *)
LEMMA Records == Spec => [](Pending /\ Recorded)
<1>1. Init => Pending /\ Recorded
  BY NoneAssumption DEF Init, Pending, Recorded, Replies
<1>2. Typed /\ Pending /\ Recorded /\ [Next]_vars => Pending' /\ Recorded'
  BY PendingNext, RecordedNext
<1> QED BY <1>1, <1>2, Invariance, PTL DEF Spec

(* A publish that is over left its version, document and audit event, or   *)
(* no trace in any table: whatever failed, and even if it died.            *)
THEOREM PublishesAreAtomic == Spec => []TransactionAtomicity
<1>1. Typed /\ Sound /\ Recorded => TransactionAtomicity
  <2> SUFFICES ASSUME Typed, Sound, Recorded, NEW r \in Requests, pc[r] = "done"
               PROVE  IF r \in committed
                      THEN /\ \E v \in versions : v.id = r /\ v.version = cmd[r].version
                           /\ {d \in docs : d.id = r} = {Coordinate(r)}
                           /\ \E e \in audit :
                                 /\ e.id = r /\ e.event = "skill.version_published"
                                 /\ e.slug = cmd[r].slug /\ e.version = cmd[r].version
                      ELSE /\ \A row \in skills \cup contents \cup versions \cup docs : row.id # r
                           /\ \A e \in audit : e.id = r => e.event # "skill.version_published"
    BY DEF TransactionAtomicity, Coordinate
  <2>1. CASE r \in committed
    <3>1. \E v \in versions : v.id = r /\ v.version = cmd[r].version
      BY <2>1 DEF Sound, RowsHeld, VersionHeld
    <3>2. {d \in docs : d.id = r} = {Coordinate(r)}
      BY <2>1 DEF Recorded, Coordinate
    <3>3. Event(r, "skill.version_published") \in audit
      BY <2>1 DEF Recorded
    <3> QED BY <2>1, <3>1, <3>2, <3>3 DEF Event
  <2>2. CASE r \notin committed
    <3>1. \A row \in skills \cup contents \cup versions : row.id # r
      BY <2>2 DEF Sound, OwnRows, HasSkill, HasContent, HasVersion
    <3> QED BY <2>2, <3>1 DEF Recorded
  <2> QED BY <2>1, <2>2
<1> QED BY <1>1, Invariance, Records, PTL

(* No caller hears of a policy denial that was not audited before, and no  *)
(* publish that was audited as denied is stored, or answered as if it had  *)
(* been or had failed on anything but the policy or an internal error.     *)
THEOREM DenialsAreAudited == Spec => []DenialsAudited
<1>1. Recorded => DenialsAudited
  BY DEF Recorded, DenialsAudited, Denial, Event
<1> QED BY <1>1, Records, PTL
-----------------------------------------------------------------------------
(* The tables of the registry implement the append-only catalog: every     *)
(* step of a publish appends its entry, answers its caller, does both or   *)
(* leaves catalog and answers alone.                                       *)

(* What a publish that commits puts into the catalog.                      *)
EntryOf(r) ==
    [slug |-> cmd[r].slug, version |-> cmd[r].version, digest |-> cmd[r].digest, by |-> r]

CatalogIsAsked == Catalog = {EntryOf(r) : r \in committed}

CoordinatesDiffer ==
    \A r, q \in committed :
        cmd[r].slug = cmd[q].slug /\ cmd[r].version = cmd[q].version => r = q

(* The catalog holds what the committed publishes asked for: no version    *)
(* was bound to the skill or the content of another coordinate.            *)
LEMMA CatalogIsWhatWasAsked == Typed /\ Sound => CatalogIsAsked
<1> SUFFICES ASSUME Typed, Sound
             PROVE  Catalog = {EntryOf(r) : r \in committed}
  BY DEF CatalogIsAsked
<1> USE DEF Typed, TypeOK
<1>1. ASSUME NEW e \in Catalog
      PROVE  \E r \in committed : e = EntryOf(r)
  <2>1. PICK t \in Bindings : e = [slug |-> t[2].slug, version |-> t[1].version,
                                  digest |-> t[3].digest, by |-> t[1].id]
    BY <1>1 DEF Catalog
  <2>2. PICK v \in Durable(versions), s \in skills, c \in contents :
              /\ v.skill = s.id /\ v.content = c.id
              /\ e = [slug |-> s.slug, version |-> v.version, digest |-> c.digest, by |-> v.id]
    BY <2>1 DEF Bindings
  <2>3. v \in versions /\ v.id \in committed
    BY DEF Durable
  <2>4. v.version = cmd[v.id].version
    BY <2>3 DEF Sound, OwnRows, RowsHeld, VersionHeld
  <2>5. s.slug = cmd[v.id].slug /\ c.digest = cmd[v.id].digest
    BY <2>2, <2>3 DEF Sound, OwnRows, ReferencesResolve, Visible
  <2>6. e = EntryOf(v.id)
    BY <2>1, <2>2, <2>4, <2>5 DEF EntryOf
  <2> QED BY <2>3, <2>6
<1>2. ASSUME NEW r \in committed
      PROVE  EntryOf(r) \in Catalog
  <2>1. PICK v \in versions : v.id = r /\ v.version = cmd[r].version
    BY <1>2 DEF Sound, RowsHeld, VersionHeld
  <2>2. PICK s \in skills : s.id = v.skill /\ s.slug = cmd[r].slug
    BY <2>1 DEF Sound, ReferencesResolve, Visible
  <2>3. PICK c \in contents : c.id = v.content /\ c.digest = cmd[r].digest
    BY <2>1 DEF Sound, ReferencesResolve, Visible
  <2>4. v \in Durable(versions)
    BY <2>1 DEF Durable
  <2>5. <<v, s, c>> \in Bindings
    BY <2>2, <2>3, <2>4 DEF Bindings
  <2> QED BY <2>1, <2>2, <2>3, <2>5 DEF Catalog, EntryOf
<1> QED BY <1>1, <1>2

(* No two publishes of one coordinate both commit.                         *)
LEMMA CoordinatesAreTakenOnce == Typed /\ Sound => CoordinatesDiffer
<1> SUFFICES ASSUME Typed, Sound, NEW r \in committed, NEW q \in committed,
                    cmd[r].slug = cmd[q].slug, cmd[r].version = cmd[q].version
             PROVE  r = q
  BY DEF CoordinatesDiffer
<1>1. PICK v \in versions : v.id = r /\ v.version = cmd[r].version
  BY DEF Typed, TypeOK, Sound, RowsHeld, VersionHeld
<1>2. PICK w \in versions : w.id = q /\ w.version = cmd[q].version
  BY DEF Typed, TypeOK, Sound, RowsHeld, VersionHeld
<1>3. PICK s \in skills : s.id = v.skill /\ s.slug = cmd[r].slug
  BY <1>1 DEF Sound, ReferencesResolve, Visible
<1>4. PICK t \in skills : t.id = w.skill /\ t.slug = cmd[q].slug
  BY <1>2 DEF Sound, ReferencesResolve, Visible
<1>5. v.skill = w.skill
  BY <1>3, <1>4 DEF Sound, UniqueKeys
<1> QED BY <1>1, <1>2, <1>5 DEF Sound, UniqueKeys

(* What a step may do to a request's command, commitment and answer.       *)
LEMMA StepOutcome ==
    ASSUME Typed, NEW r \in Requests, Receive(r) \/ Progress(r) \/ Failure(r)
    PROVE  /\ pc[r] # "done"
           /\ \A q \in committed : cmd'[q] = cmd[q]
           /\ \/ committed' = committed
              \/ /\ pc[r] = "commit" /\ r \notin committed
                 /\ committed' = committed \cup {r} /\ UNCHANGED cmd
           /\ \/ UNCHANGED reply
              \/ \E code \in Replies :
                    /\ reply' = [reply EXCEPT ![r] = code]
                    /\ code = "CREATED" => r \in committed'
                    /\ code \in Refusals => r \notin committed'
<1> USE DEF Typed, TypeOK, Phases, Goto, Answer, tables, locals, ReloadLabels
<1>1. CASE Receive(r)
  BY <1>1 DEF Receive, Replies, Refusals, PolicyCodes
<1>2. CASE RecordDenial(r) \/ Refuse(r)
  BY <1>2 DEF RecordDenial, Refuse, Replies, Refusals, PolicyCodes
<1>3. CASE EnforceIntent(r) \/ CheckVersion(r)
  BY <1>3 DEF EnforceIntent, CheckVersion, Replies
<1>4. CASE SelectSkill(r) \/ InsertSkill(r) \/ SelectContent(r) \/ InsertContent(r)
           \/ InsertVersion(r) \/ InsertSelectors(r)
  BY <1>4 DEF SelectSkill, InsertSkill, SelectContent, InsertContent, InsertVersion,
              InsertSelectors
<1>5. CASE Commit(r) \/ Reload(r) \/ ReloadSelectors(r)
  BY <1>5 DEF Commit, Persist, Reload, ReloadSelectors, Replies, Refusals, PolicyCodes
<1>6. CASE UniqueViolation(r)
  BY <1>6 DEF UniqueViolation, Rollback, Replies
<1>7. CASE Failure(r)
  BY <1>7 DEF Failure, FailOutside, RecordDenialUnacknowledged, FailInside, CommitUnacknowledged, FailReload, Crash,
              Persist, Rollback, PersistenceFailure, Replies, Refusals, PolicyCodes, TxnLabels
<1> QED BY <1>1, <1>2, <1>3, <1>4, <1>5, <1>6, <1>7 DEF Progress

(* A step of a publish is a step of the catalog, or none.                  *)
LEMMA StepImplemented ==
    ASSUME Typed, Sound, Pending, Typed', Sound',
           NEW r \in Requests, Receive(r) \/ Progress(r) \/ Failure(r)
    PROVE  Abstract!Step(r)
<1>1. Catalog = {EntryOf(q) : q \in committed}
  BY CatalogIsWhatWasAsked DEF CatalogIsAsked
<1>2. Catalog' = {EntryOf(q)' : q \in committed'}
  <2>1. CatalogIsAsked'
    BY CatalogIsWhatWasAsked, PTL
  <2> QED BY <2>1 DEF CatalogIsAsked
<1>3. \A q, p \in committed' :
         cmd'[q].slug = cmd'[p].slug /\ cmd'[q].version = cmd'[p].version => q = p
  <2>1. CoordinatesDiffer'
    BY CoordinatesAreTakenOnce, PTL
  <2> QED BY <2>1 DEF CoordinatesDiffer
<1>4. \A q \in committed : EntryOf(q)' = EntryOf(q)
  BY StepOutcome DEF EntryOf
<1>5. reply[r] = None
  BY StepOutcome DEF Pending
<1>6. Abstract!Append(r) \/ UNCHANGED Catalog
  <2>1. CASE committed' = committed
    BY <2>1, <1>1, <1>2, <1>4
  <2>2. CASE /\ pc[r] = "commit" /\ r \notin committed
             /\ committed' = committed \cup {r} /\ UNCHANGED cmd
    <3>1. EntryOf(r) \in Abstract!Entry
      BY <2>2, CommandFields DEF EntryOf, Abstract!Entry, Typed
    <3>2. Catalog' = Catalog \cup {EntryOf(r)}
      BY <2>2, <1>1, <1>2 DEF EntryOf
    <3>3. \A f \in Catalog : f.by # r /\ ~Abstract!SameCoordinate(EntryOf(r), f)
      BY <2>2, <1>1, <1>3 DEF EntryOf, Abstract!SameCoordinate
    <3> QED BY <3>1, <3>2, <3>3 DEF EntryOf, Abstract!Append
  <2> QED BY <2>1, <2>2, StepOutcome
<1>7. Abstract!Reply(r) \/ UNCHANGED reply
  <2>1. (\E e \in Catalog' : e.by = r) <=> r \in committed'
    <3>1. \A q : EntryOf(q)'.by = q
      BY DEF EntryOf
    <3> QED BY <1>2, <3>1
  <2> QED BY <2>1, StepOutcome DEF Abstract!Reply
<1> QED BY <1>5, <1>6, <1>7 DEF Abstract!Step

(* However publishes race and fail, a coordinate keeps the digest it was   *)
(* first published with, 201 is the publisher's own entry, and a refusal   *)
(* means that there is none of the refused publisher.                      *)
THEOREM TablesImplementCatalog == Spec => ImplementsCatalog
<1>1. Init => Abstract!Init
  BY DEF Init, Abstract!Init, Catalog, Bindings, Durable
<1>2. Typed /\ Sound /\ Pending /\ Typed' /\ Sound' /\ [Next]_vars
      => [Abstract!Next]_<<Catalog, reply>>
  <2> SUFFICES ASSUME Typed, Sound, Pending, Typed', Sound', [Next]_vars
               PROVE  [Abstract!Next]_<<Catalog, reply>>
    OBVIOUS
  <2>1. ASSUME NEW r \in Requests, Receive(r) \/ Progress(r) \/ Failure(r)
        PROVE  Abstract!Next
    BY <2>1, StepImplemented DEF Abstract!Next
  <2>2. CASE UNCHANGED vars
    BY <2>2 DEF vars, Catalog, Bindings, Durable
  <2> QED BY <2>1, <2>2 DEF Next
<1> QED BY <1>1, <1>2, Invariance, Records, PTL DEF Spec, ImplementsCatalog, Abstract!Spec
=============================================================================
