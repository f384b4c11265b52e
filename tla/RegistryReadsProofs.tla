------------------------- MODULE RegistryReadsProofs -------------------------
(***************************************************************************)
(* Theorems about RegistryReads, for any number of reads beside any number *)
(* of updates, any catalog, any policy profile and any size of the pool.   *)
(*                                                                         *)
(* UpdatesRunAsAlone brings over what is proved of the updates. ReadSound  *)
(* is the inductive invariant of the reads; BodiesOK, next to it, says     *)
(* what their answers are made of, for which the selectors have to be      *)
(* followed from the request through rows and sort to the answer.          *)
(***************************************************************************)
EXTENDS RegistryReads, RegistryLifecycleProofs, Counting

AllowedRead(q) == ExactReadAllowed(rcmd[q].caller, seen[q])

Outcome(q) == IF AllowedRead(q) THEN EventType[rcmd[q].surface] ELSE DeniedRead

Unrecorded == {"idle", "select", "selectors", "record"}
Decided    == {"selectors", "record", "respond", "refuse"}

(* What a read has once it has got as far as its label.                    *)
ReadPhases ==
    \A q \in Readers :
        /\ (rpc[q] = "idle") <=> (rcmd[q] = None)
        /\ (rpc[q] = "done") <=> (rreply[q] # None)
        /\ rpc[q] \in {"idle", "select"} => seen[q] = None
        /\ rpc[q] \in Decided \/ rreply[q] = "OK" =>
              /\ rcmd[q].release \in Releases
              /\ seen[q] \in Statuses /\ seen[q] \in window[q]
        /\ rpc[q] = "select" /\ rcmd[q].release \in Releases =>
              status[rcmd[q].release] \in window[q]
        /\ body[q] # None => rreply[q] = "OK"

(* Every event is the one its read makes of itself, and reads that are to  *)
(* be answered as allowed or as denied have theirs.                        *)
ReadTrail ==
    /\ \A e \in trail :
          /\ e.by \in Readers /\ rpc[e.by] \notin Unrecorded
          /\ e = EventOf(e.by, Outcome(e.by))
    /\ \A q \in Readers :
          /\ rpc[q] = "respond" \/ rreply[q] = "OK" =>
                AllowedRead(q) /\ EventOf(q, Outcome(q)) \in trail
          /\ rpc[q] = "refuse" => ~AllowedRead(q) /\ EventOf(q, Outcome(q)) \in trail

ReadTyped ==
    /\ rpc \in [Readers -> ReadLabels]
    /\ rcmd \in [Readers -> ReadTargets \cup {None}]
    /\ rreply \in [Readers -> ReadReplies \cup {None}]
    /\ seen \in [Readers -> Statuses \cup {None}]
    /\ body \in [Readers -> {None} \cup Bodies]
    /\ trail \subseteq ReadEvent
    /\ window \in [Readers -> SUBSET Statuses]

ReadSound == ReadTyped /\ ReadPhases /\ ReadTrail
-----------------------------------------------------------------------------
(* The reads and the pool only restrict the updates: a behaviour of the    *)
(* composition is one of the updates alone.                                *)
LEMMA ReadNextIsNext == ReadNext => [Next]_vars
BY DEF ReadNext, UpdateStep, ReadStep, ReadProgress, PooledProgress, Next

\* Reads and the pool only restrict the updates: every behaviour of the composition is
\* one that RegistryLifecycle has without them.
THEOREM UpdatesRunAsAlone == ReadSpec => Spec
<1>1. ReadInit => Init
  BY DEF ReadInit
<1>2. [ReadNext]_allVars => [Next]_vars
  BY ReadNextIsNext DEF allVars
<1> QED BY <1>1, <1>2, PTL DEF ReadSpec, Spec

\* A read that came in has the fields of a target.
LEMMA ReadTargetFields ==
    ASSUME ReadTyped, ReadPhases, NEW q \in Readers, rpc[q] # "idle"
    PROVE  /\ rcmd[q] \in ReadTargets /\ rcmd[q] \in ReadTarget /\ rcmd[q].surface \in Surfaces
           /\ rcmd[q].release \in Releases \cup {None} /\ rcmd[q].caller \in SUBSET Scopes
BY ReadTargetsAssumption DEF ReadTyped, ReadPhases, ReadTarget

\* The event of a read that has seen a status is typed.
LEMMA OutcomeTyped ==
    ASSUME ReadTyped, ReadPhases, NEW q \in Readers, rpc[q] \in Decided
    PROVE  EventOf(q, Outcome(q)) \in ReadEvent
<1>1. /\ rcmd[q].surface \in Surfaces /\ rcmd[q].release \in Releases
      /\ rcmd[q].caller \in SUBSET Scopes /\ seen[q] \in Statuses
  BY ReadTargetFields DEF Decided, ReadPhases
<1>2. PICK name \in ReadEvents : name = Outcome(q)
  BY <1>1 DEF Outcome, ReadEvents
<1>3. EventOf(q, name) \in ReadEvent
  BY <1>1 DEF EventOf, ReadEvent
<1> QED BY <1>2, <1>3 DEF EventOf

\* The invariant of the reads holds initially.
LEMMA ReadSoundInit == ReadInit => ReadSound
BY ReadersAssumption
   DEF ReadReplies, ReadInit, ReadSound, ReadTyped, ReadPhases, ReadTrail, ReadLabels, Decided, Unrecorded

(* A step of the updates widens the windows and leaves the reads alone.    *)
LEMMA UpdateKeepsReads ==
    ASSUME TypeOK', ReadSound, UpdateStep
    PROVE  ReadSound'
<1> USE DEF ReadSound, ReadTyped
<1>1. UNCHANGED <<rpc, rcmd, rreply, seen, body, trail>>
  BY DEF UpdateStep
<1>2. \A q \in Readers : window'[q] \in SUBSET Statuses /\ window[q] \subseteq window'[q]
  <2> TAKE q \in Readers
  <2>1. CASE rpc[q] \in {"idle", "done"} \/ rcmd[q].release = None
    BY <2>1 DEF UpdateStep
  <2>2. CASE ~(rpc[q] \in {"idle", "done"} \/ rcmd[q].release = None)
    <3>1. rcmd[q].release \in Releases
      BY <2>2, ReadTargetFields
    <3>2. status'[rcmd[q].release] \in Statuses
      BY <3>1 DEF TypeOK
    <3> QED BY <2>2, <3>2 DEF UpdateStep
  <2> QED BY <2>1, <2>2
<1>3. window' \in [Readers -> SUBSET Statuses]
  BY <1>2 DEF UpdateStep
<1>4. \A q \in Readers : rpc[q] = "select" /\ rcmd[q].release \in Releases =>
                           status'[rcmd[q].release] \in window'[q]
  BY ReadersAssumption, NoneAssumption DEF UpdateStep
<1>5. ReadPhases'
  BY <1>1, <1>2, <1>4 DEF ReadPhases
<1>6. ReadTrail'
  BY <1>1 DEF ReadTrail, EventOf, Outcome, AllowedRead
<1> QED BY <1>1, <1>3, <1>5, <1>6

(* What a step of one read leaves alone in the others.                     *)
OthersKept(q) ==
    \A p \in Readers \ {q} :
        /\ rpc'[p] = rpc[p] /\ rcmd'[p] = rcmd[p] /\ rreply'[p] = rreply[p]
        /\ seen'[p] = seen[p] /\ body'[p] = body[p] /\ window'[p] = window[p]

(* A read that keeps its own part of the invariant, and writes no event    *)
(* but its own, keeps the invariant.                                       *)
LEMMA OwnPartSuffices ==
    ASSUME ReadSound, NEW q \in Readers, OthersKept(q), ReadTyped', UNCHANGED status,
           trail' = trail \/ trail' = trail \cup {EventOf(q, Outcome(q))'},
           rpc'[q] \in Unrecorded => trail' = trail /\ rpc[q] \in Unrecorded,
           rpc[q] \notin Unrecorded => UNCHANGED <<rcmd, seen>>,
           (rpc'[q] = "idle") <=> (rcmd'[q] = None),
           (rpc'[q] = "done") <=> (rreply'[q] # None),
           rpc'[q] \in {"idle", "select"} => seen'[q] = None,
           rpc'[q] \in Decided \/ rreply'[q] = "OK" =>
              rcmd'[q].release \in Releases /\ seen'[q] \in Statuses /\ seen'[q] \in window'[q],
           rpc'[q] = "select" /\ rcmd'[q].release \in Releases =>
              status[rcmd'[q].release] \in window'[q],
           body'[q] # None => rreply'[q] = "OK",
           rpc'[q] = "respond" \/ rreply'[q] = "OK" =>
              AllowedRead(q)' /\ EventOf(q, Outcome(q))' \in trail',
           rpc'[q] = "refuse" => ~AllowedRead(q)' /\ EventOf(q, Outcome(q))' \in trail'
    PROVE  ReadSound'
<1> USE DEF ReadSound
<1>1. ReadPhases'
  BY DEF ReadPhases, OthersKept
<1>2. \A p \in Readers \ {q} :
         EventOf(p, Outcome(p))' = EventOf(p, Outcome(p)) /\ AllowedRead(p)' = AllowedRead(p)
  BY DEF OthersKept, EventOf, Outcome, AllowedRead
<1>3. ASSUME NEW e \in trail'
      PROVE  /\ e.by \in Readers /\ rpc'[e.by] \notin Unrecorded
             /\ e = EventOf(e.by, Outcome(e.by))'
  <2>1. CASE e \in trail /\ e.by # q
    BY <2>1, <1>2 DEF ReadTrail, OthersKept
  <2>2. CASE e \in trail /\ e.by = q
    <3>1. rpc[q] \notin Unrecorded /\ e = EventOf(q, Outcome(q))
      BY <2>2 DEF ReadTrail
    <3>2. EventOf(q, Outcome(q))' = EventOf(q, Outcome(q))
      BY <3>1 DEF EventOf, Outcome, AllowedRead
    <3> QED BY <2>2, <3>1, <3>2
  <2>3. CASE e \notin trail
    BY <2>3 DEF EventOf
  <2> QED BY <2>1, <2>2, <2>3
<1>4. ASSUME NEW p \in Readers
      PROVE  /\ rpc'[p] = "respond" \/ rreply'[p] = "OK" =>
                   AllowedRead(p)' /\ EventOf(p, Outcome(p))' \in trail'
             /\ rpc'[p] = "refuse" => ~AllowedRead(p)' /\ EventOf(p, Outcome(p))' \in trail'
  BY <1>2 DEF ReadTrail, OthersKept
<1>5. ReadTrail'
  BY <1>3, <1>4 DEF ReadTrail
<1> QED BY <1>1, <1>5
-----------------------------------------------------------------------------
\* A read that comes in keeps the invariant: its window opens on the row as it is.
LEMMA ReceiveSound ==
    ASSUME TypeOK, ReadSound, NEW q \in Readers, ReceiveRead(q), UNCHANGED status
    PROVE  ReadSound'
<1> USE DEF ReadSound
<1>1. PICK t \in ReadTargets :
         /\ rcmd' = [rcmd EXCEPT ![q] = t]
         /\ window' = [window EXCEPT ![q] = IF t.release = None THEN {} ELSE {status[t.release]}]
         /\ \/ ReadAnswer(q, "INSUFFICIENT_SCOPE")
            \/ ReadGoto(q, "select")
  BY DEF ReceiveRead
<1>2. t # None /\ t.release \in Releases \cup {None}
  BY ReadTargetsAssumption, ReadersAssumption DEF ReadTarget
<1>3. window'[q] \in SUBSET Statuses
  BY <1>1, <1>2 DEF ReadTyped, TypeOK
<1>4. rpc[q] = "idle" /\ rcmd[q] = None /\ rreply[q] = None /\ seen[q] = None /\ body[q] = None
  BY ReadersAssumption DEF ReceiveRead, ReadPhases, ReadReplies
<1>5. UNCHANGED <<seen, body, trail>>
  BY DEF ReceiveRead
<1>6. \/ rpc' = [rpc EXCEPT ![q] = "done"] /\ rreply' = [rreply EXCEPT ![q] = "INSUFFICIENT_SCOPE"]
      \/ rpc' = [rpc EXCEPT ![q] = "select"] /\ rreply' = rreply
  BY <1>1 DEF ReadAnswer, ReadGoto
<1>7. ReadTyped'
  BY <1>1, <1>3, <1>5, <1>6 DEF ReadTyped, ReadLabels, ReadReplies
<1>8. OthersKept(q)
  BY <1>1, <1>5, <1>6 DEF OthersKept, ReadTyped
<1>9. /\ rcmd'[q] # None /\ rpc'[q] \in {"done", "select"} /\ rreply'[q] # "OK"
      /\ (rpc'[q] = "done") <=> (rreply'[q] # None)
      /\ rcmd'[q].release \in Releases => status[rcmd'[q].release] \in window'[q]
  BY <1>1, <1>2, <1>4, <1>6, ReadersAssumption, NoneAssumption DEF ReadTyped, ReadReplies
<1> QED BY <1>4, <1>5, <1>7, <1>8, <1>9, OwnPartSuffices DEF Unrecorded, Decided

\* What the first session finds is in the window of the read.
LEMMA SelectSound ==
    ASSUME TypeOK, ReadSound, NEW q \in Readers, Select(q), UNCHANGED status
    PROVE  ReadSound'
<1> USE DEF ReadSound
<1>1. /\ rpc[q] = "select" /\ rcmd[q] \in ReadTargets /\ rreply[q] = None /\ body[q] = None
      /\ rcmd[q] # None /\ rcmd[q].release \in Releases \cup {None}
  BY ReadTargetFields, ReadersAssumption DEF Select, ReadPhases, ReadReplies
<1>2. UNCHANGED <<rcmd, body, trail, window>>
  BY DEF Select
<1>3. CASE rcmd[q].release \notin Releases
  <2>1. /\ rpc' = [rpc EXCEPT ![q] = "done"]
        /\ rreply' = [rreply EXCEPT ![q] = "SKILL_VERSION_NOT_FOUND"] /\ UNCHANGED seen
    BY <1>3 DEF Select, ReadAnswer
  <2>2. ReadTyped' /\ OthersKept(q)
    BY <1>2, <2>1 DEF ReadTyped, OthersKept, ReadLabels, ReadReplies
  <2> QED BY <1>1, <1>2, <2>1, <2>2, OwnPartSuffices, ReadersAssumption
          DEF Unrecorded, Decided, ReadTyped, ReadReplies
<1>4. CASE rcmd[q].release \in Releases
  <2>1. /\ seen' = [seen EXCEPT ![q] = status[rcmd[q].release]] /\ UNCHANGED rreply
        /\ \/ rpc' = [rpc EXCEPT ![q] = "record"]
           \/ rpc' = [rpc EXCEPT ![q] = "selectors"]
    BY <1>4 DEF Select, ReadGoto
  <2>2. status[rcmd[q].release] \in Statuses
    BY <1>4 DEF TypeOK
  <2>3. ReadTyped' /\ OthersKept(q)
    BY <1>2, <2>1, <2>2 DEF ReadTyped, OthersKept, ReadLabels
  <2>4. status[rcmd[q].release] \in window[q]
    BY <1>1, <1>4 DEF ReadPhases
  <2> QED BY <1>1, <1>2, <1>4, <2>1, <2>2, <2>3, <2>4, OwnPartSuffices, ReadersAssumption
          DEF Unrecorded, Decided, ReadTyped, ReadReplies
<1> QED BY <1>3, <1>4

\* The event of a read is recorded on what it has seen, allowed or denied.
LEMMA RecordSound ==
    ASSUME ReadSound, NEW q \in Readers, RecordRead(q) \/ RecordUnacknowledged(q),
           UNCHANGED status
    PROVE  ReadSound'
<1> USE DEF ReadSound
<1>1. /\ rpc[q] = "record" /\ rreply[q] = None /\ body[q] = None /\ rcmd[q] # None
      /\ rcmd[q].release \in Releases /\ seen[q] \in Statuses /\ seen[q] \in window[q]
  BY ReadersAssumption DEF RecordRead, RecordUnacknowledged, ReadPhases, ReadReplies, Decided
<1>2. UNCHANGED <<rcmd, seen, body, window>>
  BY DEF RecordRead, RecordUnacknowledged
<1>3. trail' = trail \cup {EventOf(q, Outcome(q))}
  BY DEF RecordRead, RecordUnacknowledged, Outcome, AllowedRead
<1>4. EventOf(q, Outcome(q)) \in ReadEvent
  BY <1>1, OutcomeTyped DEF Decided
<1>5. /\ EventOf(q, Outcome(q))' = EventOf(q, Outcome(q))
      /\ AllowedRead(q)' = AllowedRead(q)
  BY <1>2 DEF EventOf, Outcome, AllowedRead
<1>6. \/ /\ rpc' = [rpc EXCEPT ![q] = IF AllowedRead(q) THEN "respond" ELSE "refuse"]
         /\ UNCHANGED rreply
      \/ /\ rpc' = [rpc EXCEPT ![q] = "done"]
         /\ rreply' = [rreply EXCEPT ![q] = "INTERNAL_ERROR"]
  BY DEF RecordRead, RecordUnacknowledged, ReadGoto, ReadAnswer, AllowedRead
<1>7. ReadTyped' /\ OthersKept(q)
  BY <1>2, <1>3, <1>4, <1>6 DEF ReadTyped, OthersKept, ReadLabels, ReadReplies
<1>8. /\ rpc'[q] \in {"respond", "refuse", "done"}
      /\ rpc'[q] = "respond" => AllowedRead(q)
      /\ rpc'[q] = "refuse" => ~AllowedRead(q)
      /\ (rpc'[q] = "done") <=> (rreply'[q] # None)
      /\ rreply'[q] # "OK"
  BY <1>1, <1>6, ReadersAssumption DEF ReadTyped, ReadReplies
<1> QED BY <1>1, <1>2, <1>3, <1>5, <1>7, <1>8, OwnPartSuffices DEF Unrecorded, Decided

\* Only a read that is on record as allowed is answered with a body.
LEMMA RespondSound ==
    ASSUME ReadSound, NEW q \in Readers, RespondRead(q), UNCHANGED status
    PROVE  ReadSound'
<1> USE DEF ReadSound
<1>1. /\ rpc[q] = "respond" /\ rcmd[q] # None /\ rcmd[q].surface \in Surfaces
      /\ rcmd[q].release \in Releases /\ seen[q] \in Statuses /\ seen[q] \in window[q]
  BY ReadTargetFields, ReadersAssumption DEF RespondRead, ReadPhases, Decided
<1>2. /\ UNCHANGED <<rcmd, seen, trail, window>>
      /\ rpc' = [rpc EXCEPT ![q] = "done"] /\ rreply' = [rreply EXCEPT ![q] = "OK"]
  BY DEF RespondRead, ReadAnswer
<1>3. PICK a \in Loads[rcmd[q].release] :
         body' = [body EXCEPT ![q] =
             CASE rcmd[q].surface = "metadata" -> MetadataResponse(Rows[rcmd[q].release], seen[q])
               [] rcmd[q].surface = "content" -> ContentResponse(Rows[rcmd[q].release])
               [] rcmd[q].surface = "resolution" -> ResolutionResponse(Rows[rcmd[q].release], a)]
  BY DEF RespondRead
<1>4. PICK b \in Bodies : body' = [body EXCEPT ![q] = b]
  <2>1. CASE rcmd[q].surface = "metadata"
    <3>1. MetadataResponse(Rows[rcmd[q].release], seen[q]) \in Bodies
      BY <1>1 DEF Bodies
    <3> QED BY <2>1, <3>1, <1>3
  <2>2. CASE rcmd[q].surface = "content"
    <3>1. ContentResponse(Rows[rcmd[q].release]) \in Bodies
      BY <1>1 DEF Bodies
    <3> QED BY <2>2, <3>1, <1>3
  <2>3. CASE rcmd[q].surface = "resolution"
    <3>1. ResolutionResponse(Rows[rcmd[q].release], a) \in Bodies
      BY <1>1 DEF Bodies
    <3> QED BY <2>3, <3>1, <1>3
  <2> QED BY <1>1, <2>1, <2>2, <2>3 DEF Surfaces
<1>5. ReadTyped' /\ OthersKept(q)
  BY <1>2, <1>4 DEF ReadTyped, OthersKept, ReadLabels, ReadReplies
<1>6. AllowedRead(q) /\ EventOf(q, Outcome(q)) \in trail
  BY <1>1 DEF ReadTrail
<1>7. AllowedRead(q)' /\ EventOf(q, Outcome(q))' \in trail'
  BY <1>2, <1>6 DEF EventOf, Outcome, AllowedRead
<1>8. rpc'[q] = "done" /\ rreply'[q] = "OK" /\ rreply'[q] # None
  BY <1>2, ReadersAssumption DEF ReadTyped, ReadReplies
<1> QED BY <1>1, <1>2, <1>5, <1>7, <1>8, OwnPartSuffices DEF Unrecorded, Decided

(* The steps that write neither an event nor a body.                       *)
LEMMA QuietSound ==
    ASSUME ReadSound, NEW q \in Readers, UNCHANGED status,
           SelectSelectors(q) \/ RefuseRead(q) \/ FailRead(q) \/ CrashRead(q)
    PROVE  ReadSound'
<1> USE DEF ReadSound
<1>1. UNCHANGED <<rcmd, seen, body, trail, window>>
  BY DEF SelectSelectors, RefuseRead, FailRead, CrashRead
<1>2. /\ rpc[q] \notin {"idle", "done"} /\ rcmd[q] # None /\ rreply[q] = None /\ body[q] = None
      /\ rpc[q] \in Decided => /\ rcmd[q].release \in Releases
                               /\ seen[q] \in Statuses /\ seen[q] \in window[q]
  BY ReadersAssumption
     DEF SelectSelectors, RefuseRead, FailRead, CrashRead, ReadPhases, ReadReplies
<1>3. CASE SelectSelectors(q)
  <2>1. rpc[q] = "selectors" /\ rpc' = [rpc EXCEPT ![q] = "record"] /\ rreply' = rreply
    BY <1>3 DEF SelectSelectors, ReadGoto
  <2>2. ReadTyped' /\ OthersKept(q)
    BY <1>1, <2>1 DEF ReadTyped, OthersKept, ReadLabels
  <2> QED BY <1>1, <1>2, <2>1, <2>2, OwnPartSuffices, ReadersAssumption
          DEF Unrecorded, Decided, ReadTyped, ReadReplies
<1>4. CASE RefuseRead(q) \/ FailRead(q) \/ CrashRead(q)
  <2>1. PICK code \in ReadReplies \ {"OK"} :
           rpc' = [rpc EXCEPT ![q] = "done"] /\ rreply' = [rreply EXCEPT ![q] = code]
    BY <1>4 DEF RefuseRead, FailRead, CrashRead, ReadAnswer, ReadReplies
  <2>2. ReadTyped' /\ OthersKept(q)
    BY <1>1, <2>1 DEF ReadTyped, OthersKept, ReadLabels
  <2>3. rpc'[q] = "done" /\ rreply'[q] # None /\ rreply'[q] # "OK"
    BY <2>1, ReadersAssumption DEF ReadTyped
  <2> QED BY <1>1, <1>2, <2>2, <2>3, OwnPartSuffices DEF Unrecorded, Decided
<1> QED BY <1>3, <1>4

\* Every step keeps the invariant of the reads.
LEMMA ReadSoundNext ==
    ASSUME TypeOK, TypeOK', ReadSound, [ReadNext]_allVars
    PROVE  ReadSound'
<1>1. CASE UpdateStep
  BY <1>1, UpdateKeepsReads
<1>2. ASSUME NEW q \in Readers, ReadProgress(q)
      PROVE  ReadSound'
  BY <1>2, SelectSound, RecordSound, RespondSound, QuietSound DEF ReadProgress, vars
<1>3. ASSUME NEW q \in Readers, UNCHANGED vars,
             ReceiveRead(q) \/ FailRead(q) \/ RecordUnacknowledged(q) \/ CrashRead(q)
      PROVE  ReadSound'
  BY <1>3, ReceiveSound, RecordSound, QuietSound DEF vars
<1>4. CASE UNCHANGED allVars
  BY <1>4 DEF allVars, vars, readVars, ReadSound, ReadTyped, ReadPhases, ReadTrail, EventOf,
              Outcome, AllowedRead
<1> QED BY <1>1, <1>2, <1>3, <1>4 DEF ReadNext, ReadStep

\* The inductive invariant of the module, next to that of the updates.
LEMMA ReadInvariance == ReadSpec => [](TypeOK /\ ReadSound)
<1>1. ReadSpec => []TypeOK
  BY UpdatesRunAsAlone, TypeCorrect, PTL
<1>2. TypeOK /\ TypeOK' /\ ReadSound /\ [ReadNext]_allVars => ReadSound'
  BY ReadSoundNext
<1> QED BY <1>1, <1>2, ReadSoundInit, PTL DEF ReadSpec
-----------------------------------------------------------------------------
(* Types, for every set of reads and every catalog.                        *)
THEOREM ReadTypesCorrect == ReadSpec => []ReadTypeOK
<1>1. TypeOK /\ ReadSound => ReadTypeOK
  BY DEF ReadSound, ReadTyped, ReadTypeOK
<1> QED BY <1>1, ReadInvariance, PTL

(* No read is served that was not audited before as allowed, on a status   *)
(* the row had while it was being served.                                  *)
THEOREM ReadsAreAudited == ReadSpec => []ServedReadsAreAudited
<1>1. ASSUME ReadSound, NEW q \in Readers, rreply[q] = "OK"
      PROVE  \E e \in trail :
                /\ e.by = q /\ e.event = EventType[rcmd[q].surface]
                /\ e.scopes = rcmd[q].caller
                /\ ExactReadAllowed(e.scopes, e.lifecycle_status)
                /\ e.lifecycle_status \in window[q]
  <2>1. AllowedRead(q) /\ EventOf(q, Outcome(q)) \in trail /\ seen[q] \in window[q]
    BY <1>1 DEF ReadSound, ReadTrail, ReadPhases
  <2> QED BY <2>1 DEF EventOf, Outcome, AllowedRead
<1>2. ReadSound => ServedReadsAreAudited
  BY <1>1 DEF ServedReadsAreAudited
<1> QED BY <1>2, ReadInvariance, PTL

(* A read has one event at most, and a denied read never has a body.       *)
THEOREM TrailIsUnambiguous == ReadSpec => []OneStoryPerRead
<1>1. ASSUME ReadSound
      PROVE  OneStoryPerRead
  <2>1. \A e, f \in trail : e.by = f.by => e = f
    BY <1>1 DEF ReadSound, ReadTrail
  <2>2. ASSUME NEW e \in trail, e.event = DeniedRead, body[e.by] # None
        PROVE  FALSE
    <3>1. e = EventOf(e.by, Outcome(e.by)) /\ e.by \in Readers
      BY <1>1 DEF ReadSound, ReadTrail
    <3>2. rcmd[e.by].surface \in Surfaces /\ AllowedRead(e.by)
      BY <1>1, <2>2, <3>1, ReadTargetFields, ReadersAssumption
         DEF ReadSound, ReadPhases, ReadTrail, ReadReplies
    <3>3. e.event = EventType[rcmd[e.by].surface]
      BY <3>1, <3>2 DEF EventOf, Outcome
    <3> QED BY <2>2, <3>2, <3>3 DEF EventType, DeniedRead, Surfaces
  <2>3. ASSUME NEW q \in Readers, body[q] # None
        PROVE  \E e \in trail : e.by = q
    BY <1>1, <2>3 DEF ReadSound, ReadPhases, ReadTrail, EventOf
  <2> QED BY <2>1, <2>2, <2>3 DEF OneStoryPerRead
<1> QED BY <1>1, ReadInvariance, PTL
-----------------------------------------------------------------------------
(* What the reads have on record is what the contract would record.        *)
LEMMA RecordsAgree ==
    ASSUME ReadSound
    PROVE  /\ \A q \in Readers : rpc[q] \in Unrecorded => \A d \in OnRecord : d.by # q
           /\ \A q \in Readers : rpc[q] \in {"respond", "refuse"} => Contract!Decision(q) \in OnRecord
<1> USE DEF ReadSound
<1>1. ASSUME NEW q \in Readers, rpc[q] \in Unrecorded, NEW d \in OnRecord
      PROVE  d.by # q
  BY <1>1 DEF OnRecord, ReadTrail
<1>2. ASSUME NEW q \in Readers, rpc[q] \in {"respond", "refuse"}
      PROVE  Contract!Decision(q) \in OnRecord
  <2>1. EventOf(q, Outcome(q)) \in trail /\ rcmd[q].surface \in Surfaces
    BY <1>2, ReadTargetFields DEF ReadTrail
  <2>2. (Outcome(q) # DeniedRead) <=> AllowedRead(q)
    BY <2>1 DEF Outcome, EventType, DeniedRead, Surfaces
  <2>3. [by |-> q, lifecycle_status |-> seen[q], allowed |-> Outcome(q) # DeniedRead] \in OnRecord
    BY <2>1 DEF OnRecord, EventOf
  <2> QED BY <2>2, <2>3 DEF Contract!Decision, AllowedRead, Contract!ExactReadAllowed,
                            ExactReadAllowed, Contract!HasScope, HasScope
<1> QED BY <1>1, <1>2

\* Recording the event of a read is recording its decision in the contract.
LEMMA RecordImplemented ==
    ASSUME ReadSound, UNCHANGED vars, NEW q \in Readers, RecordRead(q) \/ RecordUnacknowledged(q)
    PROVE  Contract!Record(q)
<1> USE DEF ReadSound
<1>1. /\ rpc[q] = "record" /\ rreply[q] = None /\ seen[q] # None /\ rcmd[q].surface \in Surfaces
  BY ReadTargetFields, NoneAssumption
     DEF RecordRead, RecordUnacknowledged, ReadPhases, Decided
<1>2. UNCHANGED <<rcmd, seen>> /\ status' = status
  BY DEF RecordRead, RecordUnacknowledged, vars
<1>3. \/ UNCHANGED rreply
      \/ rreply' = [rreply EXCEPT ![q] = "INTERNAL_ERROR"]
  BY DEF RecordRead, RecordUnacknowledged, ReadGoto, ReadAnswer
<1>4. \A d \in OnRecord : d.by # q
  BY <1>1, RecordsAgree DEF Unrecorded
<1>5. trail' = trail \cup {EventOf(q, Outcome(q))}
  BY DEF RecordRead, RecordUnacknowledged, Outcome, AllowedRead
<1>6. (Outcome(q) # DeniedRead) <=> AllowedRead(q)
  BY <1>1 DEF Outcome, EventType, DeniedRead, Surfaces
<1>7. OnRecord' = OnRecord \cup
         {[by |-> q, lifecycle_status |-> seen[q], allowed |-> Outcome(q) # DeniedRead]}
  <2> DEFINE RecordOf(e) == [by |-> e.by, lifecycle_status |-> e.lifecycle_status,
                             allowed |-> e.event # DeniedRead]
  <2>1. PICK own : own = EventOf(q, Outcome(q))
    OBVIOUS
  <2>2. OnRecord' = {RecordOf(e) : e \in trail'} /\ OnRecord = {RecordOf(e) : e \in trail}
    BY DEF OnRecord
  <2>3. RecordOf(own) = [by |-> q, lifecycle_status |-> seen[q], allowed |-> Outcome(q) # DeniedRead]
    BY <2>1 DEF EventOf
  <2>4. trail' = trail \cup {own}
    BY <1>5, <2>1
  <2> HIDE DEF RecordOf
  <2>5. OnRecord' = OnRecord \cup {RecordOf(own)}
    BY <2>2, <2>4
  <2> QED BY <2>3, <2>5
<1>8. OnRecord' = OnRecord \cup {Contract!Decision(q)}
  BY <1>6, <1>7 DEF Contract!Decision, AllowedRead, Contract!ExactReadAllowed,
                    ExactReadAllowed, Contract!HasScope, HasScope
<1> QED BY <1>1, <1>2, <1>3, <1>4, <1>8 DEF Contract!Record

\* An answer, OK or forbidden, is as recorded in the contract.
LEMMA AnswerImplemented ==
    ASSUME ReadSound, UNCHANGED vars, NEW q \in Readers, RespondRead(q) \/ RefuseRead(q)
    PROVE  Contract!AnswerAsRecorded(q)
<1> USE DEF ReadSound
<1>1. /\ rpc[q] \in {"respond", "refuse"} /\ rreply[q] = None
      /\ (rpc[q] = "respond") <=> AllowedRead(q)
  BY DEF RespondRead, RefuseRead, ReadPhases, ReadTrail
<1>2. rreply' = [rreply EXCEPT ![q] = IF AllowedRead(q) THEN "OK" ELSE "POLICY_EXACT_READ_FORBIDDEN"]
  BY <1>1 DEF RespondRead, RefuseRead, ReadAnswer
<1>3. UNCHANGED <<rcmd, seen, trail>> /\ status' = status
  BY DEF RespondRead, RefuseRead, vars
<1>4. Contract!Decision(q) \in OnRecord
  BY <1>1, RecordsAgree
<1>5. /\ Contract!Decision(q).by = q
      /\ Contract!Decision(q).allowed <=> AllowedRead(q)
  BY DEF Contract!Decision, AllowedRead, Contract!ExactReadAllowed, ExactReadAllowed,
         Contract!HasScope, HasScope
<1>6. rreply' = [rreply EXCEPT ![q] = IF Contract!Decision(q).allowed
                                      THEN "OK" ELSE "POLICY_EXACT_READ_FORBIDDEN"]
  BY <1>2, <1>5
<1>7. OnRecord' = OnRecord
  BY <1>3 DEF OnRecord
<1> QED BY <1>1, <1>3, <1>4, <1>5, <1>6, <1>7 DEF Contract!AnswerAsRecorded

\* The other steps of a read ask, miss, take effect or abandon in the contract, or stutter.
LEMMA OtherStepsImplemented ==
    ASSUME ReadSound, UNCHANGED vars, NEW q \in Readers,
           ReceiveRead(q) \/ Select(q) \/ SelectSelectors(q) \/ FailRead(q) \/ CrashRead(q)
    PROVE  \/ Contract!Ask(q) \/ Contract!Miss(q) \/ Contract!TakeEffect(q) \/ Contract!Abandon(q)
           \/ UNCHANGED Contract!contractVars
<1> USE DEF ReadSound
<1>1. OnRecord' = OnRecord /\ status' = status
  BY DEF ReceiveRead, Select, SelectSelectors, FailRead, CrashRead, OnRecord, vars
<1>2. CASE ReceiveRead(q)
  <2>1. rcmd[q] = None /\ UNCHANGED seen
    BY <1>2 DEF ReceiveRead, ReadPhases
  <2>2. PICK t \in ReadTargets :
           /\ rcmd' = [rcmd EXCEPT ![q] = t]
           /\ \/ ~HasScope(t.caller, "read") /\ ReadAnswer(q, "INSUFFICIENT_SCOPE")
              \/ HasScope(t.caller, "read") /\ ReadGoto(q, "select")
    BY <1>2 DEF ReceiveRead
  <2> QED BY <1>1, <2>1, <2>2 DEF Contract!Ask, Contract!HasScope, HasScope, ReadAnswer, ReadGoto
<1>3. CASE Select(q)
  <2>1. /\ rcmd[q] # None /\ rreply[q] = None /\ seen[q] = None /\ UNCHANGED rcmd
        /\ rcmd[q].release \in Releases \cup {None}
    BY <1>3, ReadTargetFields DEF Select, ReadPhases
  <2>2. CASE rcmd[q].release \notin Releases
    BY <1>1, <1>3, <2>1, <2>2 DEF Select, ReadAnswer, Contract!Miss
  <2>3. CASE rcmd[q].release \in Releases
    BY <1>1, <1>3, <2>1, <2>3 DEF Select, ReadGoto, Contract!TakeEffect
  <2> QED BY <2>2, <2>3
<1>4. CASE SelectSelectors(q)
  BY <1>1, <1>4 DEF SelectSelectors, ReadGoto, Contract!contractVars
<1>5. CASE FailRead(q) \/ CrashRead(q)
  <2>1. rcmd[q] # None /\ rreply[q] = None /\ UNCHANGED <<rcmd, seen>>
    BY <1>5 DEF FailRead, CrashRead, ReadPhases
  <2>2. \E f \in Contract!Failures : rreply' = [rreply EXCEPT ![q] = f]
    BY <1>5 DEF FailRead, CrashRead, ReadAnswer, Contract!Failures
  <2> QED BY <1>1, <2>1, <2>2 DEF Contract!Abandon
<1> QED BY <1>2, <1>3, <1>4, <1>5

(* Exact reads do what AuditedRead promises: each takes effect at one      *)
(* moment, is recorded once and answered as recorded.                      *)
THEOREM ReadsImplementContract == ReadSpec => ImplementsContract
<1>1. ReadInit => Contract!Init
  BY DEF ReadInit, Init, Contract!Init, OnRecord
<1>2. ASSUME TypeOK', ReadSound, [ReadNext]_allVars
      PROVE  [Contract!Next]_(Contract!contractVars)
  <2>1. CASE UpdateStep
    <3>1. UNCHANGED <<rcmd, rreply, seen, trail>>
      BY <2>1 DEF UpdateStep
    <3>2. OnRecord' = OnRecord
      BY <3>1 DEF OnRecord
    <3>3. Contract!ChangeStatus
      BY <1>2, <3>1, <3>2 DEF TypeOK, Contract!ChangeStatus, Contract!Statuses, Statuses
    <3> QED BY <3>3 DEF Contract!Next
  <2>2. ASSUME NEW q \in Readers, ReadProgress(q)
        PROVE  [Contract!Next]_(Contract!contractVars)
    BY <1>2, <2>2, RecordImplemented, AnswerImplemented, OtherStepsImplemented
       DEF ReadProgress, Contract!Next
  <2>3. ASSUME NEW q \in Readers, UNCHANGED vars,
               ReceiveRead(q) \/ FailRead(q) \/ RecordUnacknowledged(q) \/ CrashRead(q)
        PROVE  [Contract!Next]_(Contract!contractVars)
    BY <1>2, <2>3, RecordImplemented, OtherStepsImplemented DEF Contract!Next
  <2>4. CASE UNCHANGED allVars
    BY <2>4 DEF allVars, vars, readVars, Contract!contractVars, OnRecord
  <2> QED BY <1>2, <2>1, <2>2, <2>3, <2>4 DEF ReadNext, ReadStep
<1> QED BY <1>1, <1>2, ReadInvariance, PTL DEF ReadSpec, ImplementsContract, Contract!Spec
-----------------------------------------------------------------------------
(* Selectors are read back in their order.                                 *)

\* Rows that the sort tells apart.
Sortable(rows) ==
    /\ IsFiniteSet(rows)
    /\ \A row \in rows : row.edge_type \in EdgeTypes /\ row.ordinal \in Nat
    /\ \A a, b \in rows : a.edge_type = b.edge_type /\ a.ordinal = b.ordinal => a = b

\* The sort has a number of its own for each edge type.
LEMMA EdgeOrders ==
    /\ \A e \in EdgeTypes : EdgeOrder[e] \in 0 .. 3
    /\ \A e, f \in EdgeTypes : EdgeOrder[e] = EdgeOrder[f] => e = f
    /\ "depends_on" \in EdgeTypes
BY DEF EdgeTypes, EdgeOrder

StrictlySorted(rows) ==
    /\ \A a \in rows : ~SortBefore(a, a)
    /\ \A a, b, c \in rows : SortBefore(a, b) /\ SortBefore(b, c) => SortBefore(a, c)
    /\ \A a, b \in rows : a = b \/ SortBefore(a, b) \/ SortBefore(b, a)

\* The sort key is a strict total order of the rows of a version.
LEMMA RowsAreSorted ==
    ASSUME NEW rows, Sortable(rows)
    PROVE  StrictlySorted(rows)
<1>1. \A row \in rows : row.ordinal \in Nat /\ EdgeOrder[row.edge_type] \in Int
  BY EdgeOrders DEF Sortable
<1>2. \A a, b \in rows : EdgeOrder[a.edge_type] = EdgeOrder[b.edge_type] => a.edge_type = b.edge_type
  BY EdgeOrders DEF Sortable
<1> QED
  BY <1>1, <1>2 DEF StrictlySorted, SortBefore, Sortable

\* All the rows, each once, in the order of the sort.
Arranged(s, rows) ==
    /\ Cardinality(rows) \in Nat /\ DOMAIN s = 1 .. Cardinality(rows)
    /\ \A i \in DOMAIN s : s[i] \in rows
    /\ \A row \in rows : \E i \in DOMAIN s : s[i] = row
    /\ \A i, j \in DOMAIN s : i < j => SortBefore(s[i], s[j])

\* Whatever order the rows were loaded in, sorting arranges them all by the sort key.
LEMMA SelectorsAreArranged ==
    ASSUME NEW rows, Sortable(rows), NEW a \in Arrangements(rows)
    PROVE  Arranged(SortRelationshipSelectors(a), rows)
<1> DEFINE n == Cardinality(rows)
           D == 1 .. n
           before == {p \in D \X D : SortBefore(a[p[1]], a[p[2]])}
           ahead(j) == {k \in D : \/ SortBefore(a[k], a[j])
                                  \/ ~SortBefore(a[j], a[k]) /\ k < j}
           s == SortRelationshipSelectors(a)
<1>1. n \in Nat /\ IsFiniteSet(D) /\ Cardinality(D) = n
  <2>1. n \in Nat
    BY FS_CardinalityType DEF Sortable
  <2> HIDE DEF n
  <2>2. IsFiniteSet(1 .. n) /\ Cardinality(1 .. n) = n
    BY <2>1, FS_Interval
  <2> QED
    BY <2>1, <2>2
<1>2. a \in [D -> rows] /\ DOMAIN a = D /\ \A row \in rows : \E i \in D : a[i] = row
  BY DEF Arrangements
<1>3. \A i, j \in D : a[i] = a[j] => i = j
  <2>1. a \in Surjection(D, rows)
    BY <1>2 DEF Surjection
  <2> HIDE DEF D, n
  <2>2. a \in Injection(D, rows)
    BY <1>1, <2>1, FS_SurjSameCardinalityImpliesInj DEF n
  <2> QED
    BY <2>2 DEF Injection, IsInjective
<1>4. StrictlySorted(rows)
  BY RowsAreSorted
<1>5. Orders(before, D)
  <2>1. \A i, j : <<i, j>> \in before <=> i \in D /\ j \in D /\ SortBefore(a[i], a[j])
    OBVIOUS
  <2>2. \A i \in D : a[i] \in rows
    BY <1>2
  <2> HIDE DEF before, D
  <2> QED
    BY <1>3, <1>4, <2>1, <2>2 DEF Orders, StrictlySorted
<1>6. ASSUME NEW j \in D PROVE ahead(j) = Ahead(before, D, j)
  <2>1. ASSUME NEW k \in D
        PROVE  (\/ SortBefore(a[k], a[j])
                \/ ~SortBefore(a[j], a[k]) /\ k < j) <=> SortBefore(a[k], a[j])
    <3>1. CASE k = j
      BY <3>1
    <3>2. CASE k # j
      BY <1>2, <1>3, <1>4, <3>2 DEF StrictlySorted
    <3> QED
      BY <3>1, <3>2
  <2>2. Ahead(before, D, j) = {k \in D : SortBefore(a[k], a[j])}
    BY DEF Ahead
  <2> QED
    BY <2>1, <2>2
<1>7. Numbered(before, D)
  <2> HIDE DEF before, D
  <2> QED
    BY <1>1, <1>5, Ranks
<1> DEFINE at(i) == CHOOSE j \in D : Cardinality(ahead(j)) = i - 1
<1>8. s = [i \in D |-> a[at(i)]]
  BY <1>2 DEF SortRelationshipSelectors, Sorted
<1>9. ASSUME NEW i \in D
      PROVE  at(i) \in D /\ Cardinality(Ahead(before, D, at(i))) = i - 1
  <2>1. i - 1 \in 0 .. Cardinality(D) - 1
    BY <1>1
  <2>2. PICK j \in D : Cardinality(Ahead(before, D, j)) = i - 1
    BY <1>7, <2>1 DEF Numbered
  <2>3. Cardinality(ahead(j)) = i - 1
    BY <1>6, <2>2
  <2>4. at(i) \in D /\ Cardinality(ahead(at(i))) = i - 1
    BY <2>3
  <2> HIDE DEF at
  <2> QED
    BY <1>6, <2>4
<1> HIDE DEF at, s
<1>10. DOMAIN s = D /\ \A i \in D : s[i] = a[at(i)] /\ s[i] \in rows
  BY <1>2, <1>8, <1>9
<1>11. ASSUME NEW row \in rows PROVE \E i \in DOMAIN s : s[i] = row
  <2>1. PICK j \in D : a[j] = row
    BY <1>2
  <2> DEFINE i == Cardinality(Ahead(before, D, j)) + 1
  <2>2. i \in D
    <3>1. Cardinality(Ahead(before, D, j)) \in 0 .. Cardinality(D) - 1
      BY <1>7 DEF Numbered
    <3> HIDE DEF before
    <3> QED
      BY <1>1, <3>1
  <2>3. Cardinality(Ahead(before, D, at(i))) = Cardinality(Ahead(before, D, j))
    <3>1. i - 1 = Cardinality(Ahead(before, D, j))
      BY <1>1, <1>7 DEF Numbered
    <3> QED
      BY <1>9, <2>2, <3>1
  <2>4. at(i) = j
    <3> HIDE DEF before, i
    <3>1. at(i) \in D
      BY <1>9, <2>2
    <3>2. Cardinality(Ahead(before, D, j)) \in Int
      BY <1>1, <1>7 DEF Numbered
    <3>3. ~ (<<at(i), j>> \in before) /\ ~ (<<j, at(i)>> \in before)
      BY <1>7, <2>3, <3>1, <3>2 DEF Numbered
    <3> QED
      BY <1>5, <3>1, <3>3 DEF Orders
  <2> QED
    BY <1>10, <2>1, <2>2, <2>4
<1>12. ASSUME NEW i \in D, NEW j \in D, i < j
       PROVE  SortBefore(s[i], s[j])
  <2>1. at(i) \in D /\ at(j) \in D
    BY <1>9
  <2>2. at(i) # at(j) /\ ~ (<<at(j), at(i)>> \in before)
    <3>1. /\ Cardinality(Ahead(before, D, at(i))) = i - 1
          /\ Cardinality(Ahead(before, D, at(j))) = j - 1
      BY <1>9
    <3>2. i \in Int /\ j \in Int
      BY <1>1
    <3>3. at(i) # at(j)
      BY <1>12, <3>1, <3>2
    <3> HIDE DEF before, D
    <3>4. <<at(j), at(i)>> \in before =>
              Cardinality(Ahead(before, D, at(j))) < Cardinality(Ahead(before, D, at(i)))
      BY <1>7, <2>1 DEF Numbered
    <3> QED
      BY <1>12, <3>1, <3>2, <3>3, <3>4
  <2>3. <<at(i), at(j)>> \in before
    <3> HIDE DEF before, D
    <3> QED
      BY <1>5, <2>1, <2>2 DEF Orders
  <2> QED
    BY <1>10, <2>3
<1> HIDE DEF D
<1>13. Arranged(s, rows)
  BY <1>1, <1>10, <1>11, <1>12 DEF Arranged, D
<1> QED
  BY <1>13 DEF s

RowAt(edges, edge, i) == [edge_type |-> edge, ordinal |-> i - 1, selector |-> edges[edge][i]]

RowsAt(edges, edge) == {RowAt(edges, edge, i) : i \in DOMAIN edges[edge]}

\* The rows of a request are those at each position of each edge type.
LEMMA SelectorRowsOfEdges ==
    ASSUME NEW edges
    PROVE  \A row : row \in SelectorRows(edges) <=>
              \E edge \in EdgeTypes : \E i \in DOMAIN edges[edge] : row = RowAt(edges, edge, i)
BY DEF SelectorRows, RowAt

\* The selectors of an edge type are a sequence.
LEMMA EdgesAreSequences ==
    ASSUME NEW edges \in Relationships, NEW edge \in EdgeTypes
    PROVE  /\ edges[edge] \in Seq(Selector) /\ Len(edges[edge]) \in Nat
           /\ DOMAIN edges[edge] = 1 .. Len(edges[edge])
BY DEF Relationships

\* No two rows that create_version writes for a request have the same sort key.
LEMMA RowsAreSortable ==
    ASSUME NEW edges \in Relationships
    PROVE  Sortable(SelectorRows(edges))
<1> DEFINE rows == SelectorRows(edges)
<1>1. ASSUME NEW edge \in EdgeTypes PROVE IsFiniteSet(RowsAt(edges, edge))
  <2> DEFINE row == [i \in DOMAIN edges[edge] |-> RowAt(edges, edge, i)]
  <2>1. IsFiniteSet(DOMAIN edges[edge])
    BY EdgesAreSequences, FS_Interval
  <2>2. row \in Surjection(DOMAIN edges[edge], RowsAt(edges, edge))
    BY DEF Surjection, RowsAt
  <2> HIDE DEF row
  <2> QED
    BY <2>1, <2>2, FS_Surjection
<1>2. IsFiniteSet(rows)
  <2> DEFINE of(edge) == RowsAt(edges, edge)
  <2>1. rows = of("depends_on") \cup of("extends") \cup of("conflicts_with") \cup of("overlaps_with")
    BY DEF SelectorRows, RowsAt, RowAt, EdgeTypes, EdgeOrder
  <2>2. /\ IsFiniteSet(of("depends_on")) /\ IsFiniteSet(of("extends"))
        /\ IsFiniteSet(of("conflicts_with")) /\ IsFiniteSet(of("overlaps_with"))
    BY <1>1 DEF EdgeTypes, EdgeOrder
  <2> HIDE DEF of, rows
  <2>3. IsFiniteSet(of("depends_on") \cup of("extends"))
    BY <2>2, FS_Union
  <2>4. IsFiniteSet(of("depends_on") \cup of("extends") \cup of("conflicts_with"))
    BY <2>2, <2>3, FS_Union
  <2>5. IsFiniteSet(of("depends_on") \cup of("extends") \cup of("conflicts_with")
                        \cup of("overlaps_with"))
    BY <2>2, <2>4, FS_Union
  <2> QED
    BY <2>1, <2>5
<1>3. ASSUME NEW row \in rows
      PROVE  /\ row.edge_type \in EdgeTypes /\ row.ordinal \in Nat
             /\ row = RowAt(edges, row.edge_type, row.ordinal + 1)
  <2>0. PICK edge \in EdgeTypes : \E i \in DOMAIN edges[edge] : row = RowAt(edges, edge, i)
    BY SelectorRowsOfEdges
  <2>1. PICK i \in DOMAIN edges[edge] : row = RowAt(edges, edge, i)
    BY <2>0
  <2>2. i \in Nat \ {0}
    BY EdgesAreSequences
  <2>3. row.edge_type = edge /\ row.ordinal = i - 1
    BY <2>1 DEF RowAt
  <2>4. row.ordinal \in Nat /\ row.ordinal + 1 = i
    BY <2>2, <2>3
  <2> QED
    BY <2>1, <2>3, <2>4
<1>4. \A a, b \in rows : a.edge_type = b.edge_type /\ a.ordinal = b.ordinal => a = b
  BY <1>3
<1> QED
  BY <1>2, <1>3, <1>4 DEF Sortable

\* The dependencies among the sorted rows stand in the order they were authored in.
LEMMA RespondedInOrder ==
    ASSUME NEW edges \in Relationships, NEW s, Arranged(s, SelectorRows(edges))
    PROVE  LET P == {i \in DOMAIN s : IsDependency(s[i])}
               authored == edges["depends_on"]
           IN  /\ P \in SUBSET Nat /\ IsFiniteSet(P) /\ Cardinality(P) = Len(authored)
               /\ \A k \in 1 .. Len(authored) : s[Nth(P, k)].selector = authored[k]
<1> DEFINE rows == SelectorRows(edges)
           P == {i \in DOMAIN s : IsDependency(s[i])}
           authored == edges["depends_on"]
           m == Len(authored)
           ordinal == [i \in P |-> s[i].ordinal]
<1>1. m \in Nat /\ DOMAIN authored = 1 .. m
  BY EdgesAreSequences, EdgeOrders
<1>2. /\ DOMAIN s = 1 .. Cardinality(rows) /\ Cardinality(rows) \in Nat
      /\ \A i \in DOMAIN s : s[i] \in rows
      /\ \A row \in rows : \E i \in DOMAIN s : s[i] = row
      /\ \A i, j \in DOMAIN s : i < j => SortBefore(s[i], s[j])
  BY DEF Arranged
<1> HIDE DEF rows, m
<1>3. P \in SUBSET Nat /\ P \in SUBSET DOMAIN s /\ IsFiniteSet(P)
  <2>1. IsFiniteSet(DOMAIN s)
    BY <1>2, FS_Interval
  <2>2. P \subseteq DOMAIN s
    OBVIOUS
  <2>3. DOMAIN s \subseteq Nat
    BY <1>2
  <2> QED
    BY <2>1, <2>2, <2>3, FS_Subset
<1>4. ASSUME NEW i \in P
      PROVE  /\ s[i].ordinal \in 0 .. m - 1
             /\ s[i].selector = authored[s[i].ordinal + 1]
             /\ s[i].edge_type = "depends_on" /\ s[i] \in rows
  <2>1. s[i] \in rows /\ s[i].edge_type = "depends_on"
    BY <1>2 DEF IsDependency
  <2>0. PICK edge \in EdgeTypes : \E k \in DOMAIN edges[edge] : s[i] = RowAt(edges, edge, k)
    BY <2>1, SelectorRowsOfEdges DEF rows
  <2>2. PICK k \in DOMAIN edges[edge] : s[i] = RowAt(edges, edge, k)
    BY <2>0
  <2>3. edge = "depends_on" /\ s[i].ordinal = k - 1 /\ s[i].selector = edges[edge][k]
    BY <2>1, <2>2 DEF RowAt
  <2>4. k \in 1 .. m
    BY <1>1, <2>2, <2>3
  <2>5. s[i].ordinal + 1 = k /\ k - 1 \in 0 .. m - 1
    BY <1>1, <2>3, <2>4
  <2> QED
    BY <2>1, <2>3, <2>5
<1>5. ASSUME NEW o \in 0 .. m - 1 PROVE \E i \in P : s[i].ordinal = o
  <2>1. o + 1 \in 1 .. m /\ (o + 1) - 1 = o
    BY <1>1
  <2>2. RowAt(edges, "depends_on", o + 1) \in rows
    BY <1>1, <2>1, SelectorRowsOfEdges, EdgeOrders DEF rows
  <2>3. PICK i \in DOMAIN s : s[i] = RowAt(edges, "depends_on", o + 1)
    BY <1>2, <2>2
  <2>4. s[i].edge_type = "depends_on" /\ s[i].ordinal = o
    BY <2>1, <2>3 DEF RowAt
  <2> QED
    BY <2>4 DEF IsDependency
<1>6. \A i, j \in P : i < j => s[i].ordinal < s[j].ordinal
  <2> SUFFICES ASSUME NEW i \in P, NEW j \in P, i < j PROVE s[i].ordinal < s[j].ordinal
    OBVIOUS
  <2>1. SortBefore(s[i], s[j]) /\ s[i].edge_type = s[j].edge_type
    BY <1>2, <1>4
  <2>2. EdgeOrder["depends_on"] \in Int
    BY EdgeOrders
  <2> QED
    BY <1>4, <2>1, <2>2 DEF SortBefore
<1> HIDE DEF P
<1>7. ASSUME NEW i \in P PROVE Place(P, i) = s[i].ordinal + 1
  <2> DEFINE Q == {j \in P : j <= i}
             o == s[i].ordinal
             f == [j \in Q |-> s[j].ordinal]
  <2>1. o \in Nat /\ i \in Nat
    BY <1>1, <1>3, <1>4
  <2>2. \A j \in P : j <= i <=> s[j].ordinal <= o
    <3> SUFFICES ASSUME NEW j \in P PROVE j <= i <=> s[j].ordinal <= o
      OBVIOUS
    <3>1. j \in Int /\ i \in Int /\ s[j].ordinal \in Int /\ s[i].ordinal \in Int
      BY <1>1, <1>3, <1>4
    <3>2. /\ j < i => s[j].ordinal < s[i].ordinal
          /\ i < j => s[i].ordinal < s[j].ordinal
      BY <1>6
    <3> QED
      BY <3>1, <3>2
  <2>3. f \in Surjection(Q, 0 .. o)
    <3>1. \A j \in Q : s[j].ordinal \in 0 .. o
      BY <1>1, <1>4, <2>1, <2>2
    <3>2. ASSUME NEW x \in 0 .. o PROVE \E j \in Q : s[j].ordinal = x
      <4>1. x \in 0 .. m - 1 /\ x <= o
        BY <1>1, <1>4, <2>1
      <4>2. PICK j \in P : s[j].ordinal = x
        BY <1>5, <4>1
      <4> QED
        BY <2>2, <4>1, <4>2
    <3> QED
      BY <3>1, <3>2 DEF Surjection
  <2>4. f \in Injection(Q, 0 .. o)
    <3>1. \A j, k \in Q : s[j].ordinal = s[k].ordinal => j = k
      <4> SUFFICES ASSUME NEW j \in Q, NEW k \in Q, s[j].ordinal = s[k].ordinal PROVE j = k
        OBVIOUS
      <4>1. j \in Int /\ k \in Int /\ s[j].ordinal \in Int /\ j \in P /\ k \in P
        BY <1>1, <1>3, <1>4
      <4> QED
        BY <1>6, <4>1
    <3>2. f \in [Q -> 0 .. o]
      BY <2>3 DEF Surjection
    <3> QED
      BY <3>1, <3>2 DEF Injection, IsInjective
  <2>5. IsFiniteSet(0 .. o) /\ Cardinality(0 .. o) = o + 1
    <3> HIDE DEF o
    <3> QED
      BY <2>1, FS_Interval
  <2> HIDE DEF Q, f, o
  <2>6. Cardinality(Q) = Cardinality(0 .. o)
    BY <2>3, <2>4, <2>5, FS_Injection
  <2> QED
    BY <2>5, <2>6 DEF Place, Q, o
<1>8. Cardinality(P) = m
  <2>1. ordinal \in Surjection(P, 0 .. m - 1)
    BY <1>4, <1>5 DEF Surjection
  <2>2. ordinal \in Injection(P, 0 .. m - 1)
    <3>1. \A j, k \in P : s[j].ordinal = s[k].ordinal => j = k
      <4> SUFFICES ASSUME NEW j \in P, NEW k \in P, s[j].ordinal = s[k].ordinal PROVE j = k
        OBVIOUS
      <4>1. j \in Int /\ k \in Int /\ s[j].ordinal \in Int
        BY <1>1, <1>3, <1>4
      <4> QED
        BY <1>6, <4>1
    <3>2. ordinal \in [P -> 0 .. m - 1]
      BY <2>1 DEF Surjection
    <3> QED
      BY <3>1, <3>2 DEF Injection, IsInjective
  <2>3. IsFiniteSet(0 .. m - 1) /\ Cardinality(0 .. m - 1) = m
    <3>1. m \in Nat /\ m - 1 \in Int
      BY <1>1
    <3> HIDE DEF ordinal
    <3> QED
      BY <3>1, FS_Interval
  <2> HIDE DEF ordinal
  <2> QED
    BY <2>1, <2>2, <2>3, FS_Injection
<1>9. ASSUME NEW k \in 1 .. m PROVE s[Nth(P, k)].selector = authored[k]
  <2>1. Listed(P)
    BY <1>3, Places
  <2>2. Nth(P, k) \in P /\ Place(P, Nth(P, k)) = k
    BY <1>8, <2>1 DEF Listed
  <2>3. s[Nth(P, k)].ordinal + 1 = k
    BY <1>7, <2>2
  <2> QED
    BY <1>4, <2>2, <2>3
<1> QED
  BY <1>3, <1>8, <1>9 DEF P, m

\* The answer's dependencies are the authored ones.
AsAuthored(v, b) == b.depends_on = Authored[v].relationships["depends_on"]

\* A resolution answers with the dependencies as authored, whatever order rows came in.
LEMMA DependenciesAsAuthored ==
    ASSUME NEW v \in Releases, NEW a \in Loads[v]
    PROVE  AsAuthored(v, ResolutionResponse(Rows[v], a))
<1> DEFINE edges == Authored[v].relationships
           authored == edges["depends_on"]
           s == SortRelationshipSelectors(a)
           P == {i \in DOMAIN s : IsDependency(s[i])}
           found == [k \in 1 .. Cardinality(P) |-> s[Nth(P, k)]]
<1>1. edges \in Relationships
  BY AuthoredAssumption DEF PublishRequest
<1>2. a \in Arrangements(SelectorRows(edges))
  BY DEF Loads, Rows, VersionRow
<1>3. Arranged(s, SelectorRows(edges))
  BY <1>1, <1>2, RowsAreSortable, SelectorsAreArranged
<1>4. authored \in Seq(Selector) /\ Len(authored) \in Nat
  BY <1>1, EdgesAreSequences, EdgeOrders
<1> HIDE DEF s, edges
<1>5. /\ Cardinality(P) = Len(authored)
      /\ \A k \in 1 .. Len(authored) : s[Nth(P, k)].selector = authored[k]
  BY <1>1, <1>3, RespondedInOrder
<1>6. AtPositions(s, P) = found
  BY DEF AtPositions, Nth, Place
<1>7. ResolutionResponse(Rows[v], a).depends_on = [k \in DOMAIN found |-> found[k].selector]
  <2> HIDE DEF found
  <2> QED
    BY <1>6 DEF ResolutionResponse, s
<1> HIDE DEF P
<1>8. DOMAIN found = 1 .. Len(authored)
  BY <1>5
<1>9. \A k \in 1 .. Len(authored) : found[k].selector = authored[k]
  BY <1>5
<1> HIDE DEF found, authored
<1>10. [k \in DOMAIN found |-> found[k].selector] = authored
  <2>1. authored = [k \in 1 .. Len(authored) |-> authored[k]]
    BY <1>4
  <2> QED
    BY <1>8, <1>9, <2>1
<1> QED
  BY <1>7, <1>10 DEF AsAuthored, authored, edges

AsPublished(v, surface, b) ==
    LET request == Authored[v]
    IN  /\ surface = "resolution" => AsAuthored(v, b)
        /\ surface = "content" =>
              b.raw_markdown = request.raw_markdown /\ b.etag = Digest(request.raw_markdown)
        /\ surface = "metadata" =>
              /\ b.content_checksum = Digest(request.raw_markdown)
              /\ b.metadata.attributes = request.metadata.attributes
              /\ (request.provenance = Null) <=> (b.provenance = Null)
              /\ request.provenance # Null =>
                    b.provenance.policy_profile = PublishedUnder[v]

\* A content body is the published text with its digest.
LEMMA ContentAsPublished ==
    ASSUME NEW v \in Releases
    PROVE  AsPublished(v, "content", ContentResponse(Rows[v]))
BY DEF AsPublished, ContentResponse, Rows, VersionRow, ContentRow

\* A metadata body has the attributes, checksum and provenance as published.
LEMMA MetadataAsPublished ==
    ASSUME NEW v \in Releases, NEW s
    PROVE  AsPublished(v, "metadata", MetadataResponse(Rows[v], s))
<1> DEFINE request == Authored[v]
           profile == PublishedUnder[v]
           b == MetadataResponse(Rows[v], s)
<1>1. /\ request.metadata \in Metadata /\ request.provenance \in Optional(ProvenanceInput)
      /\ profile \in ProfileNames
  BY AuthoredAssumption DEF PublishRequest
<1>2. /\ b.content_checksum = Digest(request.raw_markdown)
      /\ b.metadata = MetadataRow(request)
      /\ b.provenance = NormalizedProvenance(request.provenance, profile)
  BY DEF MetadataResponse, ProvenanceResponse, Rows, VersionRow, ContentRow
<1>3. MetadataRow(request).attributes = request.metadata.attributes
  BY <1>1 DEF MetadataRow, Metadata
<1>4. ASSUME request.provenance # Null
      PROVE  /\ NormalizedProvenance(request.provenance, profile) # Null
             /\ NormalizedProvenance(request.provenance, profile).policy_profile = profile
  <2> DEFINE p == request.provenance
             n == NormalizedProvenance(p, profile)
  <2>1. /\ p.repo_url \in Text /\ p.commit_sha \in Text
        /\ p.tree_path \in Optional(Text) /\ p.publisher_identity \in Optional(Text)
    BY <1>1, <1>4 DEF Optional, ProvenanceInput
  <2>2. \A t \in Text : Strip(t) \in Text /\ NormalizeText(t) \in Text
    BY DEF Text, Strip, NormalizeText, Lower
  <2>3. /\ (IF p.tree_path = Null THEN Null ELSE Strip(p.tree_path)) \in Optional(Text)
        /\ (IF p.publisher_identity = Null THEN Null ELSE Strip(p.publisher_identity))
                \in Optional(Text)
    BY <2>1, <2>2 DEF Optional
  <2>4. n = [repo_url |-> Strip(p.repo_url), commit_sha |-> NormalizeText(p.commit_sha),
             tree_path |-> IF p.tree_path = Null THEN Null ELSE Strip(p.tree_path),
             publisher_identity |-> IF p.publisher_identity = Null THEN Null
                                    ELSE Strip(p.publisher_identity),
             policy_profile |-> profile]
    BY <1>4 DEF NormalizedProvenance
  <2>5. n \in ProvenanceMetadata
    BY <1>1, <2>1, <2>2, <2>3, <2>4 DEF ProvenanceMetadata
  <2> QED
    BY <2>4, <2>5, ProvenanceAssumption
<1>5. request.provenance = Null => NormalizedProvenance(request.provenance, profile) = Null
  BY DEF NormalizedProvenance
<1> HIDE DEF b
<1>6. AsPublished(v, "metadata", b)
  BY <1>2, <1>3, <1>4, <1>5 DEF AsPublished
<1> QED
  BY <1>6 DEF b

(* A body is made when its read is answered, of the row alone, and neither *)
(* the read nor its body changes afterwards.                               *)
BodiesOK ==
    \A q \in Readers : body[q] # None => AsPublished(rcmd[q].release, rcmd[q].surface, body[q])

\* Every step keeps the bodies as published.
LEMMA BodiesStep ==
    ASSUME ReadSound, BodiesOK, [ReadNext]_allVars
    PROVE  BodiesOK'
<1> SUFFICES ASSUME NEW q \in Readers, body'[q] # None
             PROVE  AsPublished(rcmd'[q].release, rcmd'[q].surface, body'[q])
  BY DEF BodiesOK, AsPublished, AsAuthored
<1>1. CASE RespondRead(q)
  <2>1. /\ rcmd' = rcmd /\ rcmd[q].release \in Releases /\ rcmd[q].surface \in Surfaces
        /\ body \in [Readers -> {None} \cup Bodies]
    BY <1>1, ReadTargetFields
       DEF RespondRead, ReadSound, ReadTyped, ReadPhases, Decided
  <2>2. PICK a \in Loads[rcmd[q].release] :
            body' = [body EXCEPT ![q] =
                CASE rcmd[q].surface = "metadata" -> MetadataResponse(Rows[rcmd[q].release], seen[q])
                  [] rcmd[q].surface = "content" -> ContentResponse(Rows[rcmd[q].release])
                  [] rcmd[q].surface = "resolution" -> ResolutionResponse(Rows[rcmd[q].release], a)]
    BY <1>1 DEF RespondRead
  <2>3. CASE rcmd[q].surface = "metadata"
    BY <2>1, <2>2, <2>3, MetadataAsPublished
  <2>4. CASE rcmd[q].surface = "content"
    BY <2>1, <2>2, <2>4, ContentAsPublished
  <2>5. CASE rcmd[q].surface = "resolution"
    <3>1. body'[q] = ResolutionResponse(Rows[rcmd[q].release], a)
      BY <2>1, <2>2, <2>5
    <3> QED
      BY <2>1, <2>5, <3>1, DependenciesAsAuthored DEF AsPublished
  <2> QED
    BY <2>1, <2>3, <2>4, <2>5 DEF Surfaces
<1>2. CASE ~RespondRead(q)
  <2>1. body'[q] = body[q]
    BY <1>2 DEF ReadNext, UpdateStep, ReadStep, ReadProgress, ReceiveRead, Select, SelectSelectors,
                RecordRead, RespondRead, RefuseRead, FailRead, RecordUnacknowledged, CrashRead,
                allVars, readVars, ReadSound, ReadTyped
  <2>2. rpc[q] = "done"
    BY <2>1, ReadersAssumption DEF ReadSound, ReadPhases, ReadReplies
  <2>3. rcmd'[q] = rcmd[q]
    BY <2>2 DEF ReadNext, UpdateStep, ReadStep, ReadProgress, ReceiveRead, Select, SelectSelectors,
                RecordRead, RespondRead, RefuseRead, FailRead, RecordUnacknowledged, CrashRead,
                allVars, readVars, ReadSound, ReadTyped
  <2> QED
    BY <2>1, <2>3 DEF BodiesOK
<1> QED
  BY <1>1, <1>2

(* For any catalog and any updates: what is read back is what was          *)
(* published, the dependencies as authored, in their order, in whatever    *)
(* order the rows are loaded.                                              *)
THEOREM ReadBackCorrect == ReadSpec => []ReadBackIsAsPublished
<1>1. ReadInit => BodiesOK
  BY DEF ReadInit, BodiesOK
<1>2. ReadSound /\ BodiesOK /\ [ReadNext]_allVars => BodiesOK'
  BY BodiesStep
<1>3. BodiesOK => ReadBackIsAsPublished
  BY DEF BodiesOK, ReadBackIsAsPublished, AsPublished, AsAuthored
<1> QED
  BY <1>1, <1>2, <1>3, ReadInvariance, PTL DEF ReadSpec
-----------------------------------------------------------------------------
(* Updates and reads never wait for one another for ever: the row locks    *)
(* and the connections they wait for are with requests that wait for       *)
(* nothing, whatever the size of the pool.                                 *)
THEOREM NobodyWaitsInVain == ReadSpec => []HoldersCanGoOn
<1>1. ASSUME TypeOK, Phases, LocksAreHeld
      PROVE  HoldersCanGoOn
  <2> USE <1>1
  <2>1. ASSUME NEW r \in Requests, pc[r] = "update", lock[cmd[r].release] # None
        PROVE  \E h \in Requests : /\ lock[cmd[r].release] = h /\ cmd[h].release = cmd[r].release
                                   /\ pc[h] \in Locking
    <3>1. cmd[r].release \in Releases
      BY <2>1 DEF Phases, Permitted, TxnLabels
    <3> QED BY <2>1, <3>1 DEF LocksAreHeld, TypeOK
  <2>2. ASSUME NEW h \in Requests, pc[h] \in Locking
        PROVE  h \in CheckedOut /\ ~AwaitsLock(h) /\ ~AwaitsConnection(h)
    BY <2>2, ReadersAssumption DEF Locking, CheckedOut, AwaitsLock, AwaitsConnection
  <2>3. ASSUME NEW h \in Readers, rpc[h] = "selectors"
        PROVE  h \in CheckedOut /\ h \notin Requests /\ ~AwaitsConnection(h)
    BY <2>3, ReadersAssumption DEF CheckedOut, AwaitsConnection
  <2>4. ASSUME ~ConnectionFree
        PROVE  \E h \in CheckedOut : ~AwaitsConnection(h) /\ (h \in Requests => ~AwaitsLock(h))
    <3>1. CheckedOut # {}
      <4>1. ASSUME CheckedOut = {}
            PROVE  FALSE
        BY <2>4, <4>1, FS_EmptySet, PoolAssumption DEF ConnectionFree
      <4> QED BY <4>1
    <3>2. PICK x : x \in CheckedOut
      BY <3>1
    <3>3. CASE x \in Readers /\ rpc[x] = "selectors"
      BY <2>3, <3>3
    <3>4. CASE x \in Requests /\ pc[x] \in Locking
      BY <2>2, <3>4
    <3>5. CASE x \in Requests /\ pc[x] = "update"
      <4>1. CASE lock[cmd[x].release] = None
        <5>1. ~AwaitsLock(x) /\ ~AwaitsConnection(x)
          BY <3>5, <4>1, ReadersAssumption DEF AwaitsLock, AwaitsConnection
        <5> QED BY <3>2, <5>1
      <4>2. CASE lock[cmd[x].release] # None
        BY <2>1, <2>2, <3>5, <4>2
      <4> QED BY <4>1, <4>2
    <3> QED BY <3>2, <3>3, <3>4, <3>5 DEF CheckedOut, Locking
  <2> QED BY <2>1, <2>2, <2>4 DEF HoldersCanGoOn, AwaitsLock, AwaitsConnection
<1>2. Typed => TypeOK /\ Phases
  BY DEF Typed
<1> QED BY <1>1, <1>2, UpdatesRunAsAlone, Invariance, HoldersAreOpen, PTL
=============================================================================
