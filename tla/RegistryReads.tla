--------------------------- MODULE RegistryReads ---------------------------
(***************************************************************************)
(* Exact reads beside lifecycle updates: GET of the metadata, the content  *)
(* and the direct dependencies of one version, composed with               *)
(* RegistryLifecycle through the version rows they both use and through    *)
(* the connection pool.                                                    *)
(*                                                                         *)
(* A read takes the version's row in one session, decides on the status it *)
(* found there, records an allowed or a denied read in a session of its    *)
(* own and only then answers; the status of the row may have changed       *)
(* meanwhile.  Metadata and resolution load the selectors by a second      *)
(* statement of the first session, so that they hold its connection        *)
(* between two steps, as an open update does.  No session is opened while  *)
(* the same request holds another one.                                     *)
(***************************************************************************)
EXTENDS RegistryLifecycle, CatalogRecord

CONSTANTS
    Readers,
    ReadTargets,        \* the reads that clients may ask for
    Authored,           \* the publish request of each release
    PublishedUnder,     \* the policy profile that was active then
    PoolSize

Surfaces == {"metadata", "content", "resolution"}

ReadTarget == [surface: Surfaces, release: Releases \cup {None}, caller: SUBSET Scopes]

ReadReplies == {"OK", "INSUFFICIENT_SCOPE", "SKILL_VERSION_NOT_FOUND",
                "POLICY_EXACT_READ_FORBIDDEN", "INTERNAL_ERROR", "LOST"}

ASSUME ReadersAssumption ==
    /\ Readers \cap Requests = {} /\ None \notin Readers
    /\ None \notin ReadTarget /\ None \notin ReadReplies
ASSUME ReadTargetsAssumption == ReadTargets \subseteq ReadTarget
ASSUME AuthoredAssumption ==
    /\ Authored \in [Releases -> PublishRequest(TrustTiers)]
    /\ PublishedUnder \in [Releases -> ProfileNames]
ASSUME PoolAssumption == PoolSize \in Nat \ {0}

VARIABLES
    rpc, rcmd, rreply,  \* per read
    seen,               \* the status its statement returned
    body,               \* what it answered with
    trail,              \* durable audit events of reads
    window              \* history: statuses of the row since the read came in

readVars == <<rpc, rcmd, rreply, seen, body, trail, window>>
allVars  == <<vars, readVars>>

ReadLabels == {"idle", "select", "selectors", "record", "respond", "refuse", "done"}

\* The rows as create_version wrote them, and the orders to load their selectors in.
Rows == [v \in Releases |-> VersionRow(Authored[v], PublishedUnder[v])]
Loads == [v \in Releases |-> Arrangements(Rows[v].selectors)]

Bodies ==
    UNION {{MetadataResponse(Rows[v], s) : s \in Statuses}
               \cup {ContentResponse(Rows[v])}
               \cup {ResolutionResponse(Rows[v], a) : a \in Loads[v]} : v \in Releases}

ReadInit ==
    /\ Init
    /\ rpc = [q \in Readers |-> "idle"]
    /\ rcmd = [q \in Readers |-> None]
    /\ rreply = [q \in Readers |-> None]
    /\ seen = [q \in Readers |-> None]
    /\ body = [q \in Readers |-> None]
    /\ trail = {}
    /\ window = [q \in Readers |-> {}]
-----------------------------------------------------------------------------
(* Connections in use between steps.                                       *)
CheckedOutForEver ==
    {r \in Requests : pc[r] \in {"update", "selectDefault", "commit", "respond", "done"}}
        \cup {q \in Readers : rpc[q] = "selectors"}

CheckedOut == {r \in Requests : pc[r] \in {"update", "selectDefault", "commit"}}
                \cup {q \in Readers : rpc[q] = "selectors"}

ConnectionFree == Cardinality(CheckedOut) < PoolSize

ReadGoto(q, label) == rpc' = [rpc EXCEPT ![q] = label] /\ UNCHANGED rreply

ReadAnswer(q, code) ==
    /\ rpc' = [rpc EXCEPT ![q] = "done"]
    /\ rreply' = [rreply EXCEPT ![q] = code]

EventType == [metadata |-> "skill.version_metadata_read",
              content |-> "skill.version_content_read",
              resolution |-> "skill.version_resolution_read"]

DeniedRead == "skill.version_exact_read_denied"

ReadEvents == {EventType[s] : s \in Surfaces} \cup {DeniedRead}

ReadEvent == [event: ReadEvents, by: Readers, release: Releases, surface: Surfaces,
              scopes: SUBSET Scopes, lifecycle_status: Statuses]

EventOfCurrent(q, name) ==
    [event |-> name, by |-> q, release |-> rcmd[q].release, surface |-> rcmd[q].surface,
     scopes |-> rcmd[q].caller, lifecycle_status |-> status[rcmd[q].release]]

EventOf(q, name) ==
    [event |-> name, by |-> q, release |-> rcmd[q].release, surface |-> rcmd[q].surface,
     scopes |-> rcmd[q].caller, lifecycle_status |-> seen[q]]
-----------------------------------------------------------------------------
(* get_read_caller.                                                        *)
ReceiveRead(q) ==
    /\ rpc[q] = "idle"
    /\ \E t \in ReadTargets :
        /\ rcmd' = [rcmd EXCEPT ![q] = t]
        /\ window' = [window EXCEPT ![q] = IF t.release = None THEN {} ELSE {status[t.release]}]
        /\ \/ ~HasScope(t.caller, "read") /\ ReadAnswer(q, "INSUFFICIENT_SCOPE")
           \/ HasScope(t.caller, "read") /\ ReadGoto(q, "select")
    /\ UNCHANGED <<seen, body, trail>>

SelectUnchecked(q) ==
    /\ rpc[q] = "select"
    /\ ConnectionFree
    /\ seen' = [seen EXCEPT ![q] = IF rcmd[q].release = None THEN None
                                   ELSE status[rcmd[q].release]]
    /\ ReadGoto(q, "record")
    /\ UNCHANGED <<rcmd, body, trail, window>>

(* The statement that joins version, skill and content.  The service looks *)
(* at its result after the session: a version that was not found ends it.  *)
Select(q) ==
    /\ rpc[q] = "select"
    /\ ConnectionFree
    /\ \/ /\ rcmd[q].release \notin Releases
          /\ ReadAnswer(q, "SKILL_VERSION_NOT_FOUND")
          /\ UNCHANGED seen
       \/ /\ rcmd[q].release \in Releases
          /\ seen' = [seen EXCEPT ![q] = status[rcmd[q].release]]
          /\ ReadGoto(q, IF rcmd[q].surface = "content" THEN "record" ELSE "selectors")
    /\ UNCHANGED <<rcmd, body, trail, window>>

(* The selectinload of the relationship selectors, which never change.     *)
SelectSelectors(q) ==
    /\ rpc[q] = "selectors"
    /\ ReadGoto(q, "record")
    /\ UNCHANGED <<rcmd, seen, body, trail, window>>

RecordNothing(q) ==
    /\ rpc[q] = "record"
    /\ ReadGoto(q, IF ExactReadAllowed(rcmd[q].caller, seen[q]) THEN "respond" ELSE "refuse")
    /\ UNCHANGED <<rcmd, seen, body, trail, window>>

RecordAndFallThrough(q) ==
    /\ rpc[q] = "record"
    /\ ConnectionFree
    /\ trail' = trail \cup {EventOf(q, EventType[rcmd[q].surface])} \cup
          {e \in {EventOf(q, DeniedRead)} : ~ExactReadAllowed(rcmd[q].caller, seen[q])}
    /\ ReadGoto(q, "respond")
    /\ UNCHANGED <<rcmd, seen, body, window>>

(* enforce_and_audit_exact_read.                                           *)
RecordRead(q) ==
    LET allowed == ExactReadAllowed(rcmd[q].caller, seen[q])
    IN  /\ rpc[q] = "record"
        /\ ConnectionFree
        /\ trail' = trail \cup
              {EventOf(q, IF allowed THEN EventType[rcmd[q].surface] ELSE DeniedRead)}
        /\ ReadGoto(q, IF allowed THEN "respond" ELSE "refuse")
        /\ UNCHANGED <<rcmd, seen, body, window>>

(* The answer is made of what the first session returned.                  *)
RespondRead(q) ==
    LET row == Rows[rcmd[q].release]
    IN  /\ rpc[q] = "respond"
        /\ \E a \in Loads[rcmd[q].release] :
              body' = [body EXCEPT ![q] =
                  CASE rcmd[q].surface = "metadata" -> MetadataResponse(row, seen[q])
                    [] rcmd[q].surface = "content" -> ContentResponse(row)
                    [] rcmd[q].surface = "resolution" -> ResolutionResponse(row, a)]
        /\ ReadAnswer(q, "OK")
        /\ UNCHANGED <<rcmd, seen, trail, window>>

RefuseRead(q) ==
    /\ rpc[q] = "refuse"
    /\ ReadAnswer(q, "POLICY_EXACT_READ_FORBIDDEN")
    /\ UNCHANGED <<rcmd, seen, body, trail, window>>
-----------------------------------------------------------------------------
(* A statement fails, or no connection comes free within the pool's        *)
(* timeout: the exception is answered by the generic handler.              *)
FailRead(q) ==
    /\ rpc[q] \in {"select", "selectors", "record"}
    /\ ReadAnswer(q, "INTERNAL_ERROR")
    /\ UNCHANGED <<rcmd, seen, body, trail, window>>

(* The commit of the audit event takes effect, its acknowledgement fails.  *)
RecordUnacknowledged(q) ==
    LET allowed == ExactReadAllowed(rcmd[q].caller, seen[q])
    IN  /\ rpc[q] = "record"
        /\ ConnectionFree
        /\ trail' = trail \cup
              {EventOf(q, IF allowed THEN EventType[rcmd[q].surface] ELSE DeniedRead)}
        /\ ReadAnswer(q, "INTERNAL_ERROR")
        /\ UNCHANGED <<rcmd, seen, body, window>>

CrashRead(q) ==
    /\ rpc[q] \notin {"idle", "done"}
    /\ ReadAnswer(q, "LOST")
    /\ UNCHANGED <<rcmd, seen, body, trail, window>>
-----------------------------------------------------------------------------
(* An update waits for a connection where it opens a session.              *)
PooledProgress(r) ==
    /\ pc[r] \in {"read", "deny", "load"} => ConnectionFree
    /\ Progress(r)

UpdateStep ==
    /\ \E r \in Requests : \/ Receive(r) \/ PooledProgress(r) \/ Fail(r) \/ Crash(r)
                           \/ ConnectionFree /\ RecordDenialUnacknowledged(r)
                           \/ CommitUnacknowledged(r)
    /\ window' = [q \in Readers |->
                    IF rpc[q] \in {"idle", "done"} \/ rcmd[q].release = None THEN window[q]
                    ELSE window[q] \cup {status'[rcmd[q].release]}]
    /\ UNCHANGED <<rpc, rcmd, rreply, seen, body, trail>>

ReadProgress(q) ==
    /\ Select(q) \/ SelectSelectors(q) \/ RecordRead(q) \/ RespondRead(q) \/ RefuseRead(q)
    /\ UNCHANGED vars

ReadStep ==
    \/ \E q \in Readers : ReadProgress(q)
    \/ /\ \E q \in Readers : ReceiveRead(q) \/ FailRead(q) \/ RecordUnacknowledged(q) \/ CrashRead(q)
       /\ UNCHANGED vars

ReadNext == UpdateStep \/ ReadStep

ReadSpec == ReadInit /\ [][ReadNext]_allVars

(* Threads run while they wait for no lock and no connection.  Freed       *)
(* connections go to waiting threads in turn.                              *)
FairReadSpec ==
    /\ ReadSpec
    /\ \A r \in Requests : WF_allVars(PooledProgress(r) /\ UpdateStep)
    /\ \A q \in Readers : WF_allVars(ReadProgress(q))
-----------------------------------------------------------------------------
(* The type invariant.                                                     *)
ReadTypeOK ==
    /\ TypeOK
    /\ rpc \in [Readers -> ReadLabels]
    /\ rcmd \in [Readers -> ReadTargets \cup {None}]
    /\ rreply \in [Readers -> ReadReplies \cup {None}]
    /\ seen \in [Readers -> Statuses \cup {None}]
    /\ body \in [Readers -> {None} \cup Bodies]
    /\ trail \subseteq ReadEvent
    /\ window \in [Readers -> SUBSET Statuses]

(* What is served has been audited first, as a read of its own surface, by *)
(* its own request, on a status that the policy allows for its caller and  *)
(* that the row itself had while the read was being served, whatever       *)
(* updates have made of the row since.                                     *)
ServedReadsAreAudited ==
    \A q \in Readers : rreply[q] = "OK" => \E e \in trail :
        /\ e.by = q /\ e.event = EventType[rcmd[q].surface]
        /\ e.scopes = rcmd[q].caller
        /\ ExactReadAllowed(e.scopes, e.lifecycle_status)
        /\ e.lifecycle_status \in window[q]

(* The trail never tells two stories of one read, and a body goes only to  *)
(* a read whose trail says that it was allowed.                            *)
OneStoryPerRead ==
    /\ \A e, f \in trail : e.by = f.by => e = f
    /\ \A e \in trail : e.event = DeniedRead => body[e.by] = None
    /\ \A q \in Readers : body[q] # None => \E e \in trail : e.by = q

(* What is read back is what was published, however often the status has   *)
(* changed: the provenance of a metadata body names the profile that the   *)
(* version was published under, and the dependencies come as authored, in  *)
(* their order, in whatever order the rows were loaded, and without the    *)
(* other relationships of the version.                                     *)
ReadBackIsAsPublished ==
    \A q \in Readers : body[q] # None =>
        LET request == Authored[rcmd[q].release]
            surface == rcmd[q].surface
        IN  /\ surface = "resolution" =>
                  body[q].depends_on = request.relationships["depends_on"]
            /\ surface = "content" =>
                  /\ body[q].raw_markdown = request.raw_markdown
                  /\ body[q].etag = Digest(request.raw_markdown)
            /\ surface = "metadata" =>
                  /\ body[q].content_checksum = Digest(request.raw_markdown)
                  /\ body[q].metadata.attributes = request.metadata.attributes
                  /\ (request.provenance = Null) = (body[q].provenance = Null)
                  /\ request.provenance # Null =>
                        body[q].provenance.policy_profile = PublishedUnder[rcmd[q].release]

\* What an update or a read in progress waits for: its row's lock, a connection.
AwaitsLock(r) == pc[r] = "update" /\ lock[cmd[r].release] # None

AwaitsConnection(x) ==
    /\ ~ConnectionFree
    /\ \/ x \in Requests /\ pc[x] \in {"read", "deny", "load"}
       \/ x \in Readers /\ rpc[x] \in {"select", "record"}

(* Waiting leads to one who waits for nothing: the lock of a row is that   *)
(* of an update of this row, which has its connection and goes on, and the *)
(* connections are never all held by updates that wait for locks.          *)
HoldersCanGoOn ==
    /\ \A r \in Requests : AwaitsLock(r) =>
          \E h \in Requests : /\ lock[cmd[r].release] = h /\ cmd[h].release = cmd[r].release
                             /\ h \in CheckedOut /\ ~AwaitsLock(h)
    /\ \A x \in Requests \cup Readers : AwaitsConnection(x) =>
          \E h \in CheckedOut : ~AwaitsConnection(h) /\ (h \in Requests => ~AwaitsLock(h))

(* Every read that came in is answered, with its reads and records waiting *)
(* for connections that updates hold while they wait for row locks.        *)
EveryReadAnswered ==
    \A q \in Readers : rpc[q] # "idle" ~> rpc[q] = "done"

OnRecord == {[by |-> e.by, lifecycle_status |-> e.lifecycle_status,
              allowed |-> e.event # DeniedRead] : e \in trail}

(* Reads take effect at one moment and are answered as recorded.           *)
Contract == INSTANCE AuditedRead WITH
    asked <- rcmd, verdict <- seen, answer <- rreply, recorded <- OnRecord

ImplementsContract == Contract!Spec
=============================================================================
