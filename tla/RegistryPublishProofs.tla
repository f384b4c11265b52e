------------------------ MODULE RegistryPublishProofs ------------------------
(***************************************************************************)
(* Theorems about RegistryPublish, for any number of requests and any set  *)
(* of commands.                                                            *)
(***************************************************************************)
EXTENDS RegistryPublish, TLAPS

(* From which statement on an open transaction of create_version holds a   *)
(* skill, a content and a version.                                         *)
HasSkill   == {"selectContent", "insertContent", "insertVersion", "insertSelectors", "commit"}
HasContent == {"insertVersion", "insertSelectors", "commit"}
HasVersion == {"insertSelectors", "commit"}

(* A request has a command from the moment it is received, and has         *)
(* committed exactly when it reloads; once answered it may have committed. *)
Phases ==
    \A r \in Requests :
        /\ pc[r] # "idle" => cmd[r] \in Commands
        /\ r \in committed => pc[r] \in ReloadLabels \cup {"done"}
        /\ pc[r] \in ReloadLabels => r \in committed
        /\ pc[r] \in HasSkill => skillFk[r] \in Requests
        /\ pc[r] \in HasContent => contentFk[r] \in Requests
        /\ pc[r] \in {"deny", "denied"} => Decision(cmd[r]) \in PolicyCodes

(* Rows are identified by their ids, and belong to a request that is far   *)
(* enough in its transaction to have inserted them.                        *)
OwnRows ==
    /\ \A a, b \in skills : a.id = b.id => a = b
    /\ \A a, b \in contents : a.id = b.id => a = b
    /\ \A a, b \in versions : a.id = b.id => a = b
    /\ \A s \in skills : s.id \in committed \/ pc[s.id] \in HasSkill
    /\ \A c \in contents : c.id \in committed \/ pc[c.id] \in HasContent
    /\ \A v \in versions : v.id \in committed \/ pc[v.id] \in HasVersion

(* No two rows, committed or not, share a key of PostgreSQL's indexes.     *)
UniqueKeys ==
    /\ \A a, b \in skills : a.slug = b.slug => a = b
    /\ \A a, b \in contents : a.digest = b.digest => a = b
    /\ \A a, b \in versions : a.skill = b.skill /\ a.version = b.version => a = b

(* The rows an open transaction found or inserted stay what they are.      *)
SkillHeld(r) ==
    \E s \in skills : /\ s.id = skillFk[r] /\ s.id \in committed \cup {r}
                      /\ s.slug = cmd[r].slug
ContentHeld(r) ==
    \E c \in contents : /\ c.id = contentFk[r] /\ c.id \in committed \cup {r}
                        /\ c.digest = cmd[r].digest
VersionHeld(r) ==
    \E v \in versions : v.id = r /\ v.version = cmd[r].version

RowsHeld ==
    \A r \in Requests :
        /\ pc[r] \in HasSkill => SkillHeld(r)
        /\ pc[r] \in HasContent => ContentHeld(r)
        /\ pc[r] \in HasVersion \/ r \in committed => VersionHeld(r)

Typed == TypeOK /\ Phases
Sound == UniqueKeys /\ OwnRows /\ RowsHeld /\ ReferencesResolve
-----------------------------------------------------------------------------
(* A policy decision is an allowance or one of the policy's codes.         *)
LEMMA DecisionCodes ==
    ASSUME NEW c PROVE Decision(c) \in PolicyCodes \cup {"ALLOWED"}
BY DEF Decision, PublishDecision, PolicyCodes

(* A command that is not None has the fields of a command.                 *)
LEMMA CommandFields ==
    ASSUME TypeOK, Phases, NEW r \in Requests, pc[r] # "idle"
    PROVE  /\ cmd[r] \in Command
           /\ cmd[r].slug \in Slugs /\ cmd[r].version \in Versions
           /\ cmd[r].digest \in Digests /\ cmd[r].intent \in Intents
BY CommandsAssumption DEF Phases, Command

(* Every answer a persistence failure is turned into is a reply.           *)
LEMMA PersistenceFailureReply ==
    ASSUME NEW r, NEW label PROVE PersistenceFailure(r, label) \in Replies
BY DEF PersistenceFailure, Replies

(* The initial states are typed.                                           *)
LEMMA TypeInit == Init => TypeOK /\ Phases
BY DEF Init, TypeOK, Phases, Labels, TxnLabels, ReloadLabels, HasSkill, HasContent

(* Every step keeps the types and the phases of the requests.              *)
LEMMA TypeNext ==
    ASSUME TypeOK, Phases, [Next]_vars
    PROVE  TypeOK' /\ Phases'
<1> USE DEF TypeOK, Phases, HasSkill, HasContent, Goto, Answer, tables, locals
<1>1. ASSUME NEW r \in Requests, Receive(r)
      PROVE  TypeOK' /\ Phases'
  <2>1. PICK c \in Commands :
            /\ cmd' = [cmd EXCEPT ![r] = c]
            /\ \/ pc' = [pc EXCEPT ![r] = "done"]
                  /\ reply' = [reply EXCEPT ![r] = "INSUFFICIENT_SCOPE"]
               \/ /\ pc' = [pc EXCEPT ![r] = IF Decision(c) = "ALLOWED" THEN "intent"
                                                                       ELSE "deny"]
                  /\ UNCHANGED reply
    BY <1>1 DEF Receive
  <2>2. Decision(c) \in PolicyCodes \cup {"ALLOWED"}
    BY DecisionCodes
  <2>3. pc[r] = "idle" /\ UNCHANGED <<tables, locals>>
    BY <1>1 DEF Receive
  <2>4. TypeOK'
    BY <2>1, <2>3 DEF Labels, Replies
  <2>5. Phases'
    BY <2>1, <2>2, <2>3 DEF ReloadLabels
  <2> QED BY <2>4, <2>5
<1>2. ASSUME NEW r \in Requests,
             RecordDenial(r) \/ RecordDenialUnacknowledged(r) \/ Refuse(r)
      PROVE  TypeOK' /\ Phases'
  <2> USE DEF RecordDenial, RecordDenialUnacknowledged, Refuse
  <2>1. pc[r] # "idle" /\ Decision(cmd[r]) \in PolicyCodes
    BY <1>2
  <2>2. TypeOK'
    BY <1>2, <2>1, CommandFields DEF Denial, AuditEvent, Labels, Replies
  <2>3. Phases'
    BY <1>2, <2>1 DEF ReloadLabels
  <2> QED BY <2>2, <2>3
<1>3. ASSUME NEW r \in Requests, EnforceIntent(r) \/ CheckVersion(r)
      PROVE  TypeOK' /\ Phases'
  <2>1. \/ Answer(r, "SKILL_ALREADY_EXISTS") \/ Answer(r, "SKILL_NOT_FOUND")
        \/ Answer(r, "DUPLICATE_SKILL_VERSION")
        \/ Goto(r, "versionExists") \/ Goto(r, "selectSkill")
    BY <1>3 DEF EnforceIntent, CheckVersion
  <2>2. pc[r] \in {"intent", "versionExists"} /\ UNCHANGED <<tables, cmd, locals>>
    BY <1>3 DEF EnforceIntent, CheckVersion
  <2>3. TypeOK'
    BY <2>1, <2>2 DEF Labels, TxnLabels, Replies
  <2>4. Phases'
    BY <2>1, <2>2 DEF ReloadLabels
  <2> QED BY <2>3, <2>4
<1>4. ASSUME NEW r \in Requests, SelectSkill(r) \/ SelectContent(r)
      PROVE  TypeOK' /\ Phases'
  BY <1>4 DEF SelectSkill, SelectContent, Visible, SkillRow, ContentRow,
              Labels, TxnLabels, ReloadLabels
<1>5. ASSUME NEW r \in Requests, InsertSkill(r) \/ InsertContent(r)
      PROVE  TypeOK' /\ Phases'
  <2>1. cmd[r].slug \in Slugs /\ cmd[r].digest \in Digests
    BY <1>5, CommandFields DEF InsertSkill, InsertContent
  <2> QED BY <1>5, <2>1 DEF InsertSkill, InsertContent, SkillRow, ContentRow,
                            Labels, TxnLabels, ReloadLabels
<1>6. ASSUME NEW r \in Requests, InsertVersion(r) \/ InsertSelectors(r)
      PROVE  TypeOK' /\ Phases'
  <2>1. CASE InsertVersion(r)
    <3>1. cmd[r].version \in Versions
      BY <2>1, CommandFields DEF InsertVersion
    <3>2. skillFk[r] \in Requests /\ contentFk[r] \in Requests
      BY <2>1 DEF InsertVersion
    <3> QED BY <2>1, <3>1, <3>2 DEF InsertVersion, VersionRow, Labels, TxnLabels, ReloadLabels
  <2>2. CASE InsertSelectors(r)
    BY <2>2 DEF InsertSelectors, Labels, TxnLabels, ReloadLabels
  <2> QED BY <1>6, <2>1, <2>2
<1>7. ASSUME NEW r \in Requests, Commit(r) \/ CommitUnacknowledged(r)
      PROVE  TypeOK' /\ Phases'
  <2>1. cmd[r].slug \in Slugs /\ cmd[r].version \in Versions
    BY <1>7, CommandFields DEF Commit, CommitUnacknowledged
  <2>2. PersistenceFailure(r, "commit") \in Replies
    BY PersistenceFailureReply
  <2> QED BY <1>7, <2>1, <2>2 DEF Commit, CommitUnacknowledged, Persist, DocRow, AuditEvent,
                                  Labels, TxnLabels, ReloadLabels
<1>8. ASSUME NEW r \in Requests, Reload(r) \/ ReloadSelectors(r) \/ FailReload(r)
      PROVE  TypeOK' /\ Phases'
  <2>1. PersistenceFailure(r, pc[r]) \in Replies
    BY PersistenceFailureReply
  <2> QED BY <1>8, <2>1 DEF Reload, ReloadSelectors, FailReload, Replies,
                            Labels, TxnLabels, ReloadLabels
<1>9. ASSUME NEW r \in Requests,
             UniqueViolation(r) \/ FailOutside(r) \/ FailInside(r) \/ Crash(r)
      PROVE  TypeOK' /\ Phases'
  <2>1. PersistenceFailure(r, pc[r]) \in Replies
    BY PersistenceFailureReply
  <2>2. /\ skills' \subseteq skills /\ contents' \subseteq contents
        /\ versions' \subseteq versions /\ UNCHANGED <<docs, audit, committed, cmd, locals>>
    BY <1>9 DEF UniqueViolation, FailOutside, FailInside, Crash, Rollback, Without
  <2>3. \E code \in Replies : Answer(r, code)
    BY <1>9, <2>1 DEF UniqueViolation, FailOutside, FailInside, Crash, Replies
  <2>4. pc[r] # "idle"
    BY <1>9 DEF UniqueViolation, FailOutside, FailInside, Crash, TxnLabels
  <2>5. TypeOK'
    BY <2>2, <2>3 DEF Labels
  <2>6. Phases'
    BY <2>2, <2>3, <2>4 DEF ReloadLabels
  <2> QED BY <2>5, <2>6
<1>10. CASE UNCHANGED vars
  BY <1>10 DEF vars
<1> QED
  BY <1>1, <1>2, <1>3, <1>4, <1>5, <1>6, <1>7, <1>8, <1>9, <1>10
  DEF Next, Progress, Failure

(* Every reachable state is well typed: in particular a version row's      *)
(* foreign keys are never null, whichever way its publish got to them.     *)
THEOREM TypeCorrect == Spec => []TypeOK
<1>1. Init => TypeOK /\ Phases
  BY TypeInit
<1>2. TypeOK /\ Phases /\ [Next]_vars => TypeOK' /\ Phases'
  BY TypeNext
<1> QED BY <1>1, <1>2, PTL DEF Spec
-----------------------------------------------------------------------------
(* A request's place among the labels, as far as its rows are concerned.   *)
Held(label) == {S \in {HasSkill, HasContent, HasVersion} : label \in S}

(* The empty tables are sound.                                             *)
LEMMA SoundInit == Init => Sound
BY DEF Init, Sound, UniqueKeys, OwnRows, RowsHeld, ReferencesResolve,
       HasSkill, HasContent, HasVersion

(* A step that touches no row, and after which its request holds the rows  *)
(* it held before, keeps everything: most statements are of this kind.     *)
LEMMA KeepsSound ==
    ASSUME Typed, Sound, NEW r \in Requests, NEW label,
           UNCHANGED <<skills, contents, versions, committed, skillFk, contentFk>>,
           pc' = [pc EXCEPT ![r] = label], Held(label) = Held(pc[r]),
           \A q \in Requests : (q = r /\ pc[r] = "idle") \/ cmd'[q] = cmd[q]
    PROVE  Sound'
<1> USE DEF Typed, TypeOK, Held
<1>1. pc[r] = "idle" => r \notin committed /\ \A v \in versions : v.id # r
  BY DEF Phases, Sound, OwnRows, ReloadLabels, HasVersion
<1>2. UniqueKeys'
  BY DEF Sound, UniqueKeys
<1>3. OwnRows'
  BY DEF Sound, OwnRows, SkillRow, ContentRow, VersionRow
<1>4. RowsHeld'
  <2> SUFFICES ASSUME NEW q \in Requests
               PROVE  /\ pc'[q] \in HasSkill => SkillHeld(q)'
                      /\ pc'[q] \in HasContent => ContentHeld(q)'
                      /\ pc'[q] \in HasVersion \/ q \in committed' => VersionHeld(q)'
    BY DEF RowsHeld
  <2>1. CASE q = r /\ pc[r] = "idle"
    BY <2>1, <1>1 DEF HasSkill, HasContent, HasVersion
  <2>2. CASE cmd'[q] = cmd[q]
    BY <2>2 DEF Sound, RowsHeld, SkillHeld, ContentHeld, VersionHeld
  <2> QED BY <2>1, <2>2
<1>5. ReferencesResolve'
  <2> SUFFICES ASSUME NEW v \in versions PROVE cmd'[v.id] = cmd[v.id]
    BY DEF Sound, ReferencesResolve, Visible
  <2> QED BY <1>1 DEF VersionRow
<1> QED BY <1>2, <1>3, <1>4, <1>5 DEF Sound

(* The steps KeepsSound is about.                                          *)
Quiet(r) ==
    \/ Receive(r) \/ RecordDenial(r) \/ Refuse(r) \/ EnforceIntent(r) \/ CheckVersion(r)
    \/ InsertSelectors(r) \/ Reload(r) \/ ReloadSelectors(r) \/ FailOutside(r)
    \/ RecordDenialUnacknowledged(r) \/ FailReload(r) \/ (Crash(r) /\ pc[r] \notin TxnLabels)

(* Quiet steps change no row and no hold on one.                           *)
LEMMA QuietSound ==
    ASSUME Typed, Sound, NEW r \in Requests, Quiet(r)
    PROVE  Sound'
<1> USE DEF Goto, Answer, tables, locals
<1>1. UNCHANGED <<skills, contents, versions, committed, skillFk, contentFk>>
  BY DEF Quiet, Receive, RecordDenial, Refuse, EnforceIntent, CheckVersion, InsertSelectors,
         Reload, ReloadSelectors, FailOutside, RecordDenialUnacknowledged, FailReload, Crash
<1>2. \A q \in Requests : (q = r /\ pc[r] = "idle") \/ cmd'[q] = cmd[q]
  BY DEF Typed, TypeOK, Quiet, Receive, RecordDenial, Refuse, EnforceIntent, CheckVersion,
         InsertSelectors, Reload, ReloadSelectors, FailOutside, RecordDenialUnacknowledged, FailReload, Crash
<1>3. \E label : pc' = [pc EXCEPT ![r] = label] /\ Held(label) = Held(pc[r])
  <2> DEFINE Outside == {"idle", "deny", "denied", "intent", "versionExists", "selectSkill",
                         "reload", "reloadSelectors", "done"}
  <2>1. \A label \in Outside : Held(label) = {}
    BY DEF Held, HasSkill, HasContent, HasVersion
  <2>2. CASE InsertSelectors(r)
    <3>1. Held("insertSelectors") = Held("commit")
      BY DEF Held, HasSkill, HasContent, HasVersion
    <3> QED BY <2>2, <3>1 DEF InsertSelectors
  <2>3. CASE ~InsertSelectors(r)
    <3>1. pc[r] \in Outside
      BY <2>3 DEF Quiet, Receive, RecordDenial, Refuse, EnforceIntent, CheckVersion, Reload,
                  ReloadSelectors, FailOutside, RecordDenialUnacknowledged, FailReload, ReloadLabels, Crash, Typed, TypeOK,
                  Labels, TxnLabels
    <3>2. \E label \in Outside : pc' = [pc EXCEPT ![r] = label]
      BY <2>3 DEF Quiet, Receive, RecordDenial, Refuse, EnforceIntent, CheckVersion, Reload,
                  ReloadSelectors, FailOutside, RecordDenialUnacknowledged, FailReload, Crash
    <3> QED BY <2>1, <3>1, <3>2
  <2> QED BY <2>2, <2>3
<1> QED BY <1>1, <1>2, <1>3, KeepsSound

(* A SELECT of _get_or_create_skill or _get_or_create_content hands on the *)
(* row it found, which is committed or r's own.                            *)
LEMMA SelectSound ==
    ASSUME Typed, Sound, NEW r \in Requests, SelectSkill(r) \/ SelectContent(r)
    PROVE  Sound'
<1> USE DEF Typed, TypeOK, Goto, tables, locals, HasSkill, HasContent, HasVersion
<1>1. /\ UNCHANGED <<skills, contents, versions, committed, cmd>>
      /\ pc[r] \in {"selectSkill", "selectContent"}
      /\ \E label \in {"insertSkill", "selectContent", "insertContent", "insertVersion"} :
            pc' = [pc EXCEPT ![r] = label]
  BY DEF SelectSkill, SelectContent
<1>2. r \notin committed
  BY <1>1 DEF Phases, ReloadLabels
<1>3. UniqueKeys'
  BY <1>1 DEF Sound, UniqueKeys
<1>4. OwnRows'
  <2>1. CASE SelectSkill(r)
    BY <1>1, <1>2, <2>1 DEF SelectSkill, Sound, OwnRows, SkillRow, ContentRow, VersionRow
  <2>2. CASE SelectContent(r)
    BY <1>1, <1>2, <2>2 DEF SelectContent, Sound, OwnRows, SkillRow, ContentRow, VersionRow
  <2> QED BY <2>1, <2>2
<1>5. RowsHeld'
  <2>1. \A q \in Requests \ {r} :
           /\ pc'[q] = pc[q] /\ skillFk'[q] = skillFk[q] /\ contentFk'[q] = contentFk[q]
    BY DEF SelectSkill, SelectContent
  <2>2. \A q \in Requests \ {r} :
           /\ pc'[q] \in HasSkill => SkillHeld(q)'
           /\ pc'[q] \in HasContent => ContentHeld(q)'
           /\ pc'[q] \in HasVersion \/ q \in committed' => VersionHeld(q)'
    BY <1>1, <2>1 DEF Sound, RowsHeld, SkillHeld, ContentHeld, VersionHeld
  <2>3. CASE SelectSkill(r)
    BY <1>1, <1>2, <2>2, <2>3 DEF SelectSkill, Visible, RowsHeld, SkillHeld
  <2>4. CASE SelectContent(r)
    <3>1. SkillHeld(r) /\ UNCHANGED skillFk
      BY <2>4 DEF SelectContent, Sound, RowsHeld
    <3>2. SkillHeld(r)'
      BY <1>1, <3>1 DEF SkillHeld
    <3>3. pc'[r] \in HasContent => ContentHeld(r)'
      BY <1>1, <2>4 DEF SelectContent, Visible, ContentHeld
    <3> QED BY <1>1, <1>2, <2>2, <3>2, <3>3, <2>4 DEF SelectContent, RowsHeld
  <2> QED BY <2>3, <2>4
<1>6. ReferencesResolve'
  BY <1>1 DEF Sound, ReferencesResolve, Visible
<1> QED BY <1>3, <1>4, <1>5, <1>6 DEF Sound

(* What is visible stays so when rows are added.                           *)
LEMMA InsertSkillSound ==
    ASSUME Typed, Sound, NEW r \in Requests, InsertSkill(r)
    PROVE  Sound'
<1> USE DEF Typed, TypeOK, InsertSkill, Goto, HasSkill, HasContent, HasVersion
<1>1. r \notin committed /\ \A s \in skills : s.id # r
  BY DEF Phases, ReloadLabels, Sound, OwnRows
<1>2. UniqueKeys'
  BY DEF Sound, UniqueKeys, SameSlug
<1>3. OwnRows'
  BY <1>1 DEF Sound, OwnRows, SkillRow, ContentRow, VersionRow
<1>4. RowsHeld'
  <2>1. \A q \in Requests \ {r} :
           /\ pc'[q] \in HasSkill => SkillHeld(q)'
           /\ pc'[q] \in HasContent => ContentHeld(q)'
           /\ pc'[q] \in HasVersion \/ q \in committed' => VersionHeld(q)'
    BY DEF Sound, RowsHeld, SkillHeld, ContentHeld, VersionHeld
  <2>2. SkillHeld(r)'
    <3> DEFINE row == [id |-> r, slug |-> cmd[r].slug]
    <3>1. row \in skills' /\ row.id = skillFk'[r] /\ row.id = r /\ row.slug = cmd'[r].slug
      OBVIOUS
    <3> QED BY <3>1 DEF SkillHeld
  <2>3. /\ pc'[r] \in HasSkill => SkillHeld(r)'
        /\ pc'[r] \in HasContent => ContentHeld(r)'
        /\ pc'[r] \in HasVersion \/ r \in committed' => VersionHeld(r)'
    BY <1>1, <2>2
  <2> QED BY <2>1, <2>3 DEF RowsHeld
<1>5. ReferencesResolve'
  BY DEF Sound, ReferencesResolve, Visible
<1> QED BY <1>2, <1>3, <1>4, <1>5 DEF Sound

(* A content row is inserted only when its digest is free.                 *)
LEMMA InsertContentSound ==
    ASSUME Typed, Sound, NEW r \in Requests, InsertContent(r)
    PROVE  Sound'
<1> USE DEF Typed, TypeOK, InsertContent, Goto, HasSkill, HasContent, HasVersion
<1>1. r \notin committed /\ \A c \in contents : c.id # r
  BY DEF Phases, ReloadLabels, Sound, OwnRows
<1>2. UniqueKeys'
  BY DEF Sound, UniqueKeys, SameDigest
<1>3. OwnRows'
  BY <1>1 DEF Sound, OwnRows, SkillRow, ContentRow, VersionRow
<1>4. RowsHeld'
  <2>1. \A q \in Requests \ {r} :
           /\ pc'[q] \in HasSkill => SkillHeld(q)'
           /\ pc'[q] \in HasContent => ContentHeld(q)'
           /\ pc'[q] \in HasVersion \/ q \in committed' => VersionHeld(q)'
    BY DEF Sound, RowsHeld, SkillHeld, ContentHeld, VersionHeld
  <2>2. SkillHeld(r)' /\ ContentHeld(r)'
    <3> DEFINE row == [id |-> r, digest |-> cmd[r].digest]
    <3>1. row \in contents' /\ row.id = contentFk'[r] /\ row.id = r
          /\ row.digest = cmd'[r].digest
      OBVIOUS
    <3>2. SkillHeld(r)'
      BY DEF Sound, RowsHeld, SkillHeld
    <3> QED BY <3>1, <3>2 DEF ContentHeld
  <2>3. /\ pc'[r] \in HasSkill => SkillHeld(r)'
        /\ pc'[r] \in HasContent => ContentHeld(r)'
        /\ pc'[r] \in HasVersion \/ r \in committed' => VersionHeld(r)'
    BY <1>1, <2>2
  <2> QED BY <2>1, <2>3 DEF RowsHeld
<1>5. ReferencesResolve'
  BY DEF Sound, ReferencesResolve, Visible
<1> QED BY <1>2, <1>3, <1>4, <1>5 DEF Sound

(* A version row takes the skill and content rows that its publish holds.  *)
LEMMA InsertVersionSound ==
    ASSUME Typed, Sound, NEW r \in Requests, InsertVersion(r)
    PROVE  Sound'
<1> USE DEF Typed, TypeOK, InsertVersion, Goto, locals, HasSkill, HasContent, HasVersion
<1>1. r \notin committed /\ \A v \in versions : v.id # r
  BY DEF Phases, ReloadLabels, Sound, OwnRows
<1>2. SkillHeld(r) /\ ContentHeld(r)
  BY DEF Sound, RowsHeld
<1>3. UniqueKeys'
  BY DEF Sound, UniqueKeys, SameVersion
<1>4. OwnRows'
  BY <1>1 DEF Sound, OwnRows, SkillRow, ContentRow, VersionRow
<1>5. RowsHeld'
  <2>1. \A q \in Requests \ {r} :
           /\ pc'[q] \in HasSkill => SkillHeld(q)'
           /\ pc'[q] \in HasContent => ContentHeld(q)'
           /\ pc'[q] \in HasVersion \/ q \in committed' => VersionHeld(q)'
    BY DEF Sound, RowsHeld, SkillHeld, ContentHeld, VersionHeld
  <2>2. SkillHeld(r)' /\ ContentHeld(r)' /\ VersionHeld(r)'
    <3> DEFINE row == [id |-> r, skill |-> skillFk[r], content |-> contentFk[r],
                       version |-> cmd[r].version]
    <3>1. row \in versions' /\ row.id = r /\ row.version = cmd'[r].version
      OBVIOUS
    <3>2. SkillHeld(r)' /\ ContentHeld(r)'
      BY <1>2 DEF SkillHeld, ContentHeld
    <3> QED BY <3>1, <3>2 DEF VersionHeld
  <2>3. /\ pc'[r] \in HasSkill => SkillHeld(r)'
        /\ pc'[r] \in HasContent => ContentHeld(r)'
        /\ pc'[r] \in HasVersion \/ r \in committed' => VersionHeld(r)'
    BY <1>1, <2>2
  <2> QED BY <2>1, <2>3 DEF RowsHeld
<1>6. ReferencesResolve'
  BY <1>2 DEF Sound, ReferencesResolve, Visible, SkillHeld, ContentHeld
<1> QED BY <1>3, <1>4, <1>5, <1>6 DEF Sound

(* COMMIT makes the rows of r durable, whether or not r learns of it.      *)
LEMMA CommittingSound ==
    ASSUME Typed, Sound, NEW r \in Requests, Commit(r) \/ CommitUnacknowledged(r)
    PROVE  Sound'
<1> USE DEF Typed, TypeOK, HasSkill, HasContent, HasVersion
<1>1. /\ pc[r] = "commit" /\ UNCHANGED <<skills, contents, versions, cmd, skillFk, contentFk>>
      /\ committed' = committed \cup {r}
      /\ \E label \in {"reload", "done"} : pc' = [pc EXCEPT ![r] = label]
  BY DEF Commit, CommitUnacknowledged, Persist, Goto, Answer, locals
<1>2. UniqueKeys'
  BY <1>1 DEF Sound, UniqueKeys
<1>3. OwnRows'
  BY <1>1 DEF Sound, OwnRows, SkillRow, ContentRow, VersionRow
<1>4. RowsHeld'
  BY <1>1 DEF Sound, RowsHeld, SkillHeld, ContentHeld, VersionHeld
<1>5. ReferencesResolve'
  BY <1>1 DEF Sound, ReferencesResolve, Visible
<1> QED BY <1>2, <1>3, <1>4, <1>5 DEF Sound

(* A rollback takes away rows that no other request can have seen.         *)
LEMMA RollingBackSound ==
    ASSUME Typed, Sound, NEW r \in Requests,
           UniqueViolation(r) \/ FailInside(r) \/ (Crash(r) /\ pc[r] \in TxnLabels)
    PROVE  Sound'
<1> USE DEF Typed, TypeOK, HasSkill, HasContent, HasVersion
<1>1. /\ pc[r] \in TxnLabels /\ pc' = [pc EXCEPT ![r] = "done"]
      /\ Rollback(r) /\ UNCHANGED <<cmd, skillFk, contentFk>>
  BY DEF UniqueViolation, FailInside, Crash, TxnLabels, Answer, locals
<1>2. r \notin committed
  BY <1>1 DEF Phases, TxnLabels, ReloadLabels
<1>3. UniqueKeys'
  BY <1>1 DEF Sound, UniqueKeys, Rollback, Without
<1>4. OwnRows'
  BY <1>1 DEF Sound, OwnRows, Rollback, Without, SkillRow, ContentRow, VersionRow
<1>5. RowsHeld'
  <2>1. \A q \in Requests \ {r} :
           /\ SkillHeld(q) => SkillHeld(q)'
           /\ ContentHeld(q) => ContentHeld(q)'
           /\ VersionHeld(q) => VersionHeld(q)'
           /\ pc'[q] = pc[q]
    BY <1>1, <1>2 DEF SkillHeld, ContentHeld, VersionHeld, Rollback, Without
  <2> QED BY <1>1, <1>2, <2>1 DEF Sound, RowsHeld, Rollback
<1>6. ReferencesResolve'
  <2> SUFFICES ASSUME NEW v \in versions, v.id # r
               PROVE  /\ \E s \in skills' : /\ s.id \in committed' \cup {v.id}
                                            /\ s.id = v.skill /\ s.slug = cmd'[v.id].slug
                      /\ \E c \in contents' : /\ c.id \in committed' \cup {v.id}
                                              /\ c.id = v.content /\ c.digest = cmd'[v.id].digest
    BY <1>1 DEF ReferencesResolve, Visible, Rollback, Without
  <2> QED BY <1>1, <1>2 DEF Sound, ReferencesResolve, Visible, Rollback, Without
<1> QED BY <1>3, <1>4, <1>5, <1>6 DEF Sound

(* Every step keeps the rows sound.                                        *)
LEMMA SoundNext ==
    ASSUME Typed, Sound, [Next]_vars
    PROVE  Sound'
<1>1. ASSUME NEW r \in Requests, Receive(r) \/ Progress(r) \/ Failure(r)
      PROVE  Sound'
  BY <1>1, QuietSound, SelectSound, InsertSkillSound, InsertContentSound, InsertVersionSound,
     CommittingSound, RollingBackSound
  DEF Progress, Failure, Quiet
<1>2. CASE UNCHANGED vars
  BY <1>2 DEF vars, Sound, UniqueKeys, OwnRows, RowsHeld, SkillHeld, ContentHeld, VersionHeld,
              ReferencesResolve, Visible
<1> QED BY <1>1, <1>2 DEF Next

(* The inductive invariant of the module.                                  *)
LEMMA Invariance == Spec => [](Typed /\ Sound)
<1>1. Init => Typed /\ Sound
  BY TypeInit, SoundInit DEF Typed
<1>2. Typed /\ Sound /\ [Next]_vars => Typed' /\ Sound'
  BY TypeNext, SoundNext DEF Typed
<1> QED BY <1>1, <1>2, PTL DEF Spec

(* No version row ever refers to a skill or content row that is missing,   *)
(* that a rollback may still take away, or that is not the one its         *)
(* publisher named.                                                        *)
THEOREM ReferencesNeverDangle == Spec => []ReferencesResolve
<1>1. Typed /\ Sound => ReferencesResolve
  BY DEF Sound
<1> QED BY <1>1, Invariance, PTL
=============================================================================
