------------------------- MODULE SkillSearchProofs -------------------------
(***************************************************************************)
(* Proofs about SkillSearch, for any documents, requests and searches.     *)
(*                                                                         *)
(* Only the order of the steps of one search matters for its audit: its    *)
(* results do not change once they are made, and its one event is recorded *)
(* after they were made and before they are returned. OneEvent says so for *)
(* each label; it is inductive, and AnswersAreAudited is not.              *)
(*                                                                         *)
(* What is shown needs SearchInv: a search that has asked holds a request  *)
(* of its type and a moment of the clock, one that has read holds the      *)
(* answer to it over one snapshot of the documents, and one that has       *)
(* explained holds a card for each row of that answer, as of a moment      *)
(* between its start and now. The properties follow from it and from what  *)
(* the operators of SearchRanking compute: SearchRankingProofs.            *)
(***************************************************************************)
EXTENDS SkillSearch, SearchRankingProofs

Refusals == {"INSUFFICIENT_SCOPE", "POLICY_DISCOVERY_FORBIDDEN"}

ControlOK ==
    /\ pc \in [Searchers -> Labels]
    /\ reply \in [Searchers -> Replies \cup {None}]
    /\ asked = [q \in Searchers |-> asked[q]]
    /\ cards = [q \in Searchers |-> cards[q]]
    /\ \A q \in Searchers : pc[q] # "done" => reply[q] = None

Recorded(q) == SearchEvent(q) \in audit

OneEvent ==
    /\ \A e \in audit : /\ e.by \in Searchers
                        /\ e = SearchEvent(e.by)
                        /\ pc[e.by] \in {"respond", "done"}
                        /\ reply[e.by] \notin Refusals
    /\ \A q \in Searchers : pc[q] = "respond" \/ reply[q] = "OK" => Recorded(q)

AuditInv == ControlOK /\ OneEvent

\* What a step of search q may do to the others, and to the audit trail.
StepOf(q) ==
    \/ Discover(q) \/ AskService(q) \/ Select(q) \/ Explain(q) \/ RecordSearch(q)
    \/ Respond(q) \/ Fail(q) \/ RecordUnacknowledged(q) \/ Crash(q)

\* The fields of the event of a search.
LEMMA EventFields ==
    ASSUME NEW q
    PROVE  /\ SearchEvent(q).by = q
           /\ SearchEvent(q).scopes = asked[q].caller
           /\ SearchEvent(q).result_count = Len(cards[q])
BY DEF SearchEvent

\* The event of a search is told by its query and its results.
LEMMA EventFrame ==
    ASSUME NEW q, asked'[q] = asked[q], cards'[q] = cards[q]
    PROVE  SearchEvent(q)' = SearchEvent(q)
BY DEF SearchEvent, Request

\* An idle search that is received has left no event.
LEMMA ReceivedStep ==
    ASSUME AuditInv, NEW q \in Searchers, NEW query, NEW caller, pc[q] = "idle",
           Search(q, query, caller) \/ RefuseCaller(q, query, caller)
    PROVE  AuditInv'
<1>1. /\ audit' = audit /\ cards' = cards
      /\ asked' = [asked EXCEPT ![q] = [query |-> query, caller |-> caller]]
      /\ \/ pc' = [pc EXCEPT ![q] = "select"] /\ reply' = reply
         \/ /\ pc' = [pc EXCEPT ![q] = "done"]
            /\ \E code \in Refusals : reply' = [reply EXCEPT ![q] = code]
  BY DEF Search, RefuseCaller, Goto, Answer, Refusals
<1>2. reply[q] = None
  BY DEF AuditInv, ControlOK
<1>3. ControlOK'
  BY <1>1, <1>2 DEF AuditInv, ControlOK, Labels, Replies, Refusals
<1>4. \A p \in Searchers : p # q =>
        pc'[p] = pc[p] /\ reply'[p] = reply[p] /\ SearchEvent(p)' = SearchEvent(p)
  <2> SUFFICES ASSUME NEW p \in Searchers, p # q
               PROVE  pc'[p] = pc[p] /\ reply'[p] = reply[p] /\ SearchEvent(p)' = SearchEvent(p)
    OBVIOUS
  <2>1. asked'[p] = asked[p] /\ cards'[p] = cards[p]
    BY <1>1 DEF AuditInv, ControlOK
  <2>2. pc'[p] = pc[p] /\ reply'[p] = reply[p]
    BY <1>1 DEF AuditInv, ControlOK
  <2> QED BY <2>1, <2>2, EventFrame
<1>5. \A e \in audit : e.by # q
  BY DEF AuditInv, OneEvent
<1>6. pc'[q] # "respond" /\ reply'[q] # "OK"
  BY <1>1, <1>2, NoneAssumption DEF AuditInv, ControlOK, Refusals, Replies
<1>7. OneEvent'
  BY <1>1, <1>4, <1>5, <1>6 DEF AuditInv, OneEvent, Recorded
<1> QED BY <1>3, <1>7 DEF AuditInv

\* Steps that leave queries, results and the trail alone.
LEMMA QuietStep ==
    ASSUME AuditInv, NEW q \in Searchers, pc[q] # "idle", pc[q] # "done",
           UNCHANGED <<asked, cards, audit>>,
           \/ /\ \E label \in {"explain"} : pc' = [pc EXCEPT ![q] = label]
              /\ reply' = reply
              /\ pc[q] = "select"
           \/ /\ pc' = [pc EXCEPT ![q] = "done"]
              /\ \E code \in {"INTERNAL_ERROR", "LOST"} : reply' = [reply EXCEPT ![q] = code]
           \/ /\ pc' = [pc EXCEPT ![q] = "done"]
              /\ reply' = [reply EXCEPT ![q] = "OK"]
              /\ pc[q] = "respond"
    PROVE  AuditInv'
<1>1. reply[q] = None
  BY DEF AuditInv, ControlOK
<1>2. ControlOK'
  BY <1>1 DEF AuditInv, ControlOK, Labels, Replies
<1>3. \A p : SearchEvent(p)' = SearchEvent(p)
  BY DEF SearchEvent, Request
<1>4. \A p \in Searchers : p # q => pc'[p] = pc[p] /\ reply'[p] = reply[p]
  BY DEF AuditInv, ControlOK
<1>5. /\ pc[q] \in {"respond", "done"} => pc'[q] = "done"
      /\ pc'[q] # "respond"
      /\ reply'[q] \notin Refusals
      /\ reply'[q] = "OK" => pc[q] = "respond"
  BY <1>1, NoneAssumption DEF AuditInv, ControlOK, Refusals, Replies
<1>6. OneEvent'
  BY <1>3, <1>4, <1>5 DEF AuditInv, OneEvent, Recorded
<1> QED BY <1>2, <1>6 DEF AuditInv

\* The results are made before there is an event.
LEMMA ExplainStep ==
    ASSUME AuditInv, NEW q \in Searchers, Explain(q)
    PROVE  AuditInv'
<1>1. /\ pc[q] = "explain" /\ pc' = [pc EXCEPT ![q] = "record"]
      /\ UNCHANGED <<reply, asked, audit>>
      /\ \E results : cards' = [cards EXCEPT ![q] = results]
  BY DEF Explain, Goto
<1>2. ControlOK'
  BY <1>1 DEF AuditInv, ControlOK, Labels
<1>3. \A p \in Searchers : p # q => pc'[p] = pc[p] /\ SearchEvent(p)' = SearchEvent(p)
  <2> SUFFICES ASSUME NEW p \in Searchers, p # q
               PROVE  pc'[p] = pc[p] /\ SearchEvent(p)' = SearchEvent(p)
    OBVIOUS
  <2>1. pc'[p] = pc[p] /\ asked'[p] = asked[p] /\ cards'[p] = cards[p]
    BY <1>1 DEF AuditInv, ControlOK
  <2> QED BY <2>1, EventFrame
<1>4. /\ \A e \in audit : e.by # q
      /\ pc'[q] = "record" /\ reply[q] = None
  BY <1>1 DEF AuditInv, ControlOK, OneEvent
<1>5. OneEvent'
  BY <1>1, <1>3, <1>4, NoneAssumption DEF AuditInv, OneEvent, Recorded, Replies
<1> QED BY <1>2, <1>5 DEF AuditInv

\* The event is recorded, acknowledged or not.
LEMMA RecordStep ==
    ASSUME AuditInv, NEW q \in Searchers, RecordSearch(q) \/ RecordUnacknowledged(q)
    PROVE  AuditInv'
<1>1. /\ pc[q] = "record" /\ UNCHANGED <<asked, cards>>
      /\ audit' = audit \cup {SearchEvent(q)}
      /\ \/ pc' = [pc EXCEPT ![q] = "respond"] /\ reply' = reply
         \/ /\ pc' = [pc EXCEPT ![q] = "done"]
            /\ reply' = [reply EXCEPT ![q] = "INTERNAL_ERROR"]
  BY DEF RecordSearch, RecordUnacknowledged, Goto, Answer
<1>2. ControlOK'
  BY <1>1 DEF AuditInv, ControlOK, Labels, Replies
<1>3. \A p : SearchEvent(p)' = SearchEvent(p)
  BY <1>1 DEF SearchEvent, Request
<1>4. \A p \in Searchers : p # q => pc'[p] = pc[p] /\ reply'[p] = reply[p]
  BY <1>1 DEF AuditInv, ControlOK
<1>5. /\ pc'[q] \in {"respond", "done"} /\ reply[q] = None
      /\ reply'[q] \in {None, "INTERNAL_ERROR"}
  BY <1>1 DEF AuditInv, ControlOK
<1>6. SearchEvent(q).by = q
  BY EventFields
<1>7. \A e \in audit' : /\ e.by \in Searchers
                        /\ e = SearchEvent(e.by)'
                        /\ pc'[e.by] \in {"respond", "done"}
                        /\ reply'[e.by] \notin Refusals
  <2> SUFFICES ASSUME NEW e \in audit'
               PROVE  /\ e.by \in Searchers /\ e = SearchEvent(e.by)'
                      /\ pc'[e.by] \in {"respond", "done"} /\ reply'[e.by] \notin Refusals
    OBVIOUS
  <2>1. CASE e = SearchEvent(q)
    BY <2>1, <1>3, <1>5, <1>6, NoneAssumption DEF Refusals, Replies
  <2>2. CASE e \in audit
    <3>1. e.by \in Searchers /\ e.by # q
      BY <2>2, <1>1 DEF AuditInv, OneEvent
    <3> QED BY <2>2, <3>1, <1>3, <1>4 DEF AuditInv, OneEvent
  <2> QED BY <2>1, <2>2, <1>1
<1>8. \A p \in Searchers : pc'[p] = "respond" \/ reply'[p] = "OK" => SearchEvent(p)' \in audit'
  BY <1>1, <1>3, <1>4, <1>5 DEF AuditInv, OneEvent, Recorded
<1>9. OneEvent'
  BY <1>7, <1>8 DEF OneEvent, Recorded
<1> QED BY <1>2, <1>9 DEF AuditInv

\* One event of each search that was answered, in every reachable state.
LEMMA AuditInvInductive == Spec => []AuditInv
<1>1. Init => AuditInv
  BY NoneAssumption DEF Init, AuditInv, ControlOK, OneEvent, Labels, Replies
<1>2. AuditInv /\ [Next]_vars => AuditInv'
  <2> SUFFICES ASSUME AuditInv, [Next]_vars PROVE AuditInv'
    OBVIOUS
  <2>1. CASE UNCHANGED <<pc, asked, reply, cards, audit>>
    BY <2>1 DEF AuditInv, ControlOK, OneEvent, Recorded, SearchEvent, Request
  <2>2. ASSUME NEW q \in Searchers, StepOf(q) PROVE AuditInv'
    <3>1. CASE Discover(q)
      <4>1. PICK d \in Discoveries :
                \/ Search(q, DiscoveryQuery(d.request), d.caller)
                \/ RefuseCaller(q, DiscoveryQuery(d.request), d.caller)
        BY <3>1 DEF Discover
      <4> QED BY <3>1, <4>1, ReceivedStep DEF Discover
    <3>2. CASE AskService(q)
      BY <3>2, ReceivedStep DEF AskService
    <3>3. CASE Select(q)
      BY <3>3, QuietStep DEF Select, Goto
    <3>4. CASE Explain(q)
      BY <3>4, ExplainStep
    <3>5. CASE RecordSearch(q) \/ RecordUnacknowledged(q)
      BY <3>5, RecordStep
    <3>6. CASE Respond(q)
      BY <3>6, QuietStep DEF Respond, Answer
    <3>7. CASE Fail(q)
      BY <3>7, QuietStep DEF Fail, Answer
    <3>8. CASE Crash(q)
      BY <3>8, QuietStep DEF Crash, Answer
    <3> QED BY <2>2, <3>1, <3>2, <3>3, <3>4, <3>5, <3>6, <3>7, <3>8 DEF StepOf
  <2>3. \/ UNCHANGED <<pc, asked, reply, cards, audit>>
        \/ \E q \in Searchers : StepOf(q)
    BY DEF Next, vars, Tick, CommitPublish, CommitStatus, StepOf
  <2> QED BY <2>1, <2>2, <2>3
<1> QED BY <1>1, <1>2, PTL DEF Spec

(* For any number of searches beside any publishes and status updates:     *)
(* results are returned only after they were recorded, a search leaves at  *)
(* most one event, and a refused one none.                                 *)
THEOREM SearchesAreAudited == Spec => []AnswersAreAudited
<1>1. AuditInv => AnswersAreAudited
  <2> SUFFICES ASSUME AuditInv PROVE AnswersAreAudited
    OBVIOUS
  <2>1. ASSUME NEW q \in Searchers, reply[q] = "OK"
        PROVE  \E e \in audit : /\ e.by = q /\ e.scopes = asked[q].caller
                                /\ e.result_count = Len(cards[q])
    <3>1. SearchEvent(q) \in audit
      BY <2>1 DEF AuditInv, OneEvent, Recorded
    <3> QED BY <3>1, EventFields
  <2>2. \A e, f \in audit : e.by = f.by => e = f
    BY DEF AuditInv, OneEvent
  <2>3. \A e \in audit : reply[e.by] \notin Refusals
    BY DEF AuditInv, OneEvent
  <2> QED BY <2>1, <2>2, <2>3 DEF AnswersAreAudited, Refusals
<1> QED BY <1>1, AuditInvInductive, PTL
-----------------------------------------------------------------------------
(* Documents and their rows.                                               *)

DocumentState == [status: Statuses, published_at: Int]

DocumentsOK(docs) ==
    /\ DOMAIN docs \subseteq Releases /\ IsFiniteSet(DOMAIN docs)
    /\ \A v \in DOMAIN docs : docs[v] \in DocumentState

RowsOf(docs) == {DocumentRow(v, docs[v]) : v \in DOMAIN docs}

Tags(v) == Authored[v].metadata.tags

RowOf(row, v, state) ==
    /\ row.slug = Authored[v].slug /\ row.version = Authored[v].version
    /\ row.normalized_slug = SearchDocument(Authored[v]).normalized_slug
    /\ row.normalized_name = SearchDocument(Authored[v]).normalized_name
    /\ row.tags = UniqueTags(Tags(v)) /\ row.normalized_tags = TagSet(UniqueTags(Tags(v)))
    /\ row.search_source = SearchDocument(Authored[v]).search_source
    /\ row.trust_tier = Authored[v].trust_tier
    /\ row.content_size_bytes = Size(Authored[v].raw_markdown) /\ row.usage_count = 0
    /\ row.skill_version_fk = v
    /\ row.lifecycle_status = state.status /\ row.published_at = state.published_at

\* What a release was published with.
AuthoredAs(v) ==
    /\ Authored[v].slug \in Slugs /\ Authored[v].version \in Versions
    /\ Authored[v].trust_tier \in TrustTiers
    /\ Tags(v) \in Seq(Text)
    /\ SearchDocument(Authored[v]).normalized_slug \in Texts
    /\ SearchDocument(Authored[v]).normalized_name \in Texts
    /\ Size(Authored[v].raw_markdown) \in Nat

\* A release is published with what validation lets through.
LEMMA AuthoredReleases ==
    ASSUME NEW v \in Releases
    PROVE  AuthoredAs(v)
<1>1. Authored[v] \in PublishRequest(TrustTiers)
  BY AuthoredAssumption
<1>2. /\ Authored[v].slug \in Slugs /\ Authored[v].version \in Versions
      /\ Authored[v].trust_tier \in TrustTiers /\ Authored[v].raw_markdown \in Contents
      /\ Authored[v].metadata \in Metadata
  BY <1>1 DEF PublishRequest
<1>3. Tags(v) \in Seq(Text) /\ Authored[v].metadata.name \in Text
  BY <1>2 DEF Metadata, Tags
<1>4. SlugText[Authored[v].slug] \in Text
  BY <1>2, WordsAssumption
<1>5. SearchDocument(Authored[v]).normalized_slug \in Texts
  BY <1>4, WordsAreTexts DEF SearchDocument
<1>6. SearchDocument(Authored[v]).normalized_name \in Texts
  <2>1. MetadataRow(Authored[v]).name = Authored[v].metadata.name
    BY <1>2 DEF MetadataRow, Metadata
  <2> QED
    BY <1>3, <2>1, WordsAreTexts DEF SearchDocument
<1>7. Size(Authored[v].raw_markdown) \in Nat
  BY <1>2, SizeAssumption DEF Size
<1> QED
  BY <1>2, <1>3, <1>5, <1>6, <1>7 DEF AuthoredAs

\* The row of a document has the columns of its release and its current state.
LEMMA RowFields ==
    ASSUME NEW v \in Releases, NEW state
    PROVE  RowOf(DocumentRow(v, state), v, state)
<1> DEFINE document == SearchDocument(Authored[v])
           row == DocumentRow(v, state)
           fields == {"slug", "version", "normalized_slug", "normalized_name", "description",
                      "tags", "normalized_tags", "search_source", "trust_tier",
                      "content_size_bytes", "usage_count"}
<1>1. /\ DOMAIN document = fields
      /\ document.slug = Authored[v].slug /\ document.version = Authored[v].version
      /\ document.tags = MetadataRow(Authored[v]).tags
      /\ document.normalized_tags = TagSet(MetadataRow(Authored[v]).tags)
      /\ document.trust_tier = Authored[v].trust_tier
      /\ document.content_size_bytes = Size(Authored[v].raw_markdown)
      /\ document.usage_count = 0
  BY DEF SearchDocument
<1>2. MetadataRow(Authored[v]).tags = UniqueTags(Tags(v))
  <2>1. Authored[v].metadata \in Metadata
    BY AuthoredAssumption DEF PublishRequest
  <2> QED
    BY <2>1 DEF MetadataRow, Metadata, Tags
<1> HIDE DEF document
<1>3. \A field \in fields : row[field] = document[field]
  BY <1>1 DEF DocumentRow, document
<1>4. /\ row.skill_version_fk = v
      /\ row.lifecycle_status = state.status /\ row.published_at = state.published_at
  BY DEF DocumentRow
<1> HIDE DEF row
<1> QED
  BY <1>1, <1>2, <1>3, <1>4 DEF RowOf, row, document

\* The rows of any documents are rows that a search can rank.
LEMMA RowsOfDocuments ==
    ASSUME NEW docs, DocumentsOK(docs)
    PROVE  SearchRows(RowsOf(docs))
<1> DEFINE row == [v \in DOMAIN docs |-> DocumentRow(v, docs[v])]
<1>1. ASSUME NEW v \in DOMAIN docs
      PROVE  RowOf(DocumentRow(v, docs[v]), v, docs[v]) /\ SearchRow(DocumentRow(v, docs[v]))
  <2>1. v \in Releases /\ docs[v] \in DocumentState
    BY DEF DocumentsOK
  <2>2. RowOf(DocumentRow(v, docs[v]), v, docs[v])
    BY <2>1, RowFields
  <2>3. AuthoredAs(v)
    BY <2>1, AuthoredReleases
  <2>4. docs[v].published_at \in Int /\ v \in Int /\ Density[v] \in Nat
    BY <2>1, ReleasesAssumption, DensityAssumption DEF DocumentState
  <2>5. IsFiniteSet(TagSet(UniqueTags(Tags(v))))
    <3>1. UniqueTags(Tags(v)) \in Seq(Text)
      BY <2>3, UniqueTagsKeepTheSet DEF AuthoredAs, TagsKept
    <3> QED
      BY <3>1, TagSetIsFinite
  <2> QED
    BY <2>2, <2>3, <2>4, <2>5 DEF RowOf, SearchRow, AuthoredAs
<1>2. IsFiniteSet(RowsOf(docs))
  <2>1. row \in Surjection(DOMAIN docs, RowsOf(docs))
    BY DEF Surjection, RowsOf
  <2> HIDE DEF row
  <2> QED
    BY <2>1, FS_Surjection DEF DocumentsOK
<1>3. \A a, b \in RowsOf(docs) : a.skill_version_fk = b.skill_version_fk => a = b
  BY <1>1 DEF RowsOf, RowOf
<1> QED
  BY <1>1, <1>2, <1>3 DEF SearchRows, RowsOf
-----------------------------------------------------------------------------
(* What a search has at each label.  Its query and the moment it began are *)
(* kept, its window is counted back from that moment, its rows are the     *)
(* answer over one snapshot of the documents, and its cards explain these  *)
(* rows as of a moment since.  Later steps rely on no document, only on    *)
(* what the search holds.                                                  *)

WindowOf(query, start) ==
    IF query.fresh_within_days = Null THEN Null
    ELSE start - query.fresh_within_days * Day

FilterOf(query, after) ==
    [published_after |-> after, lifecycle_statuses |-> DiscoveryStatuses(query.status),
     trust_tiers |-> DiscoveryTrustTiers(query.trust_tier)]

RowsFor(query, after, docs) ==
    SearchCandidates(RowsOf(docs), NormalizeSearchRequest(query), FilterOf(query, after))

CardsFor(query, rows, now) ==
    [i \in DOMAIN rows |-> SkillSearchResult(rows[i], NormalizeSearchRequest(query), now)]

Accepted(query, caller, after, start) ==
    /\ query \in SkillSearchQuery
    /\ DiscoveryAllowed(caller, query.status)
    /\ after = WindowOf(query, start)

Answered(query, after, docs, rows) == DocumentsOK(docs) /\ rows = RowsFor(query, after, docs)

Timed(query, rows, results, start, now) ==
    \E t \in start .. now : results = CardsFor(query, rows, t)

AcceptedAt(q) == Accepted(asked[q].query, asked[q].caller, since[q], started[q])
AnsweredAt(q) == Answered(asked[q].query, since[q], snapshot[q], found[q])
TimedAt(q)    == Timed(asked[q].query, found[q], cards[q], started[q], clock)

Underway == {"select", "explain", "record", "respond"}

SearchState(q) ==
    /\ pc[q] # "idle" => asked[q].query \in SkillSearchQuery
    /\ started[q] \in 0 .. clock
    /\ since[q] \in Int \cup {Null}
    /\ pc[q] \in Underway \/ reply[q] = "OK" => AcceptedAt(q)
    /\ pc[q] = "explain" \/ HasCards(q) => AnsweredAt(q)
    /\ HasCards(q) => TimedAt(q)
    /\ pc[q] \in {"idle", "select"} => cards[q] = <<>>
    /\ cards[q] = <<>> \/ (pc[q] # "idle" /\ AcceptedAt(q) /\ AnsweredAt(q) /\ TimedAt(q))

SearchesOK ==
    /\ since = [q \in Searchers |-> since[q]] /\ found = [q \in Searchers |-> found[q]]
    /\ snapshot = [q \in Searchers |-> snapshot[q]]
    /\ started = [q \in Searchers |-> started[q]]
    /\ \A q \in Searchers : SearchState(q)

SearchInv ==
    /\ clock \in 0 .. MaxClock
    /\ DocumentsOK(documents)
    /\ SearchesOK

\* Time passes for a search that does not move.
LEMMA SearchFrame ==
    ASSUME NEW q \in Searchers, SearchState(q), clock \in Nat, clock' \in Nat, clock <= clock',
           pc'[q] = pc[q], reply'[q] = reply[q], asked'[q] = asked[q], since'[q] = since[q],
           found'[q] = found[q], cards'[q] = cards[q], snapshot'[q] = snapshot[q],
           started'[q] = started[q]
    PROVE  SearchState(q)'
<1>1. AcceptedAt(q)' <=> AcceptedAt(q)
  BY DEF AcceptedAt
<1>2. AnsweredAt(q)' <=> AnsweredAt(q)
  BY DEF AnsweredAt
<1>3. HasCards(q)' <=> HasCards(q)
  BY DEF HasCards
<1>4. started[q] \in 0 .. clock /\ started'[q] \in 0 .. clock'
  BY DEF SearchState
<1>5. TimedAt(q) => TimedAt(q)'
  <2>1. \A t \in started[q] .. clock : t \in started[q] .. clock'
    BY <1>4
  <2> QED
    BY <2>1 DEF TimedAt, Timed
<1> QED
  BY <1>1, <1>2, <1>3, <1>4, <1>5 DEF SearchState

Arranged ==
    /\ since = [q \in Searchers |-> since[q]] /\ found = [q \in Searchers |-> found[q]]
    /\ snapshot = [q \in Searchers |-> snapshot[q]]
    /\ started = [q \in Searchers |-> started[q]]

OnlyMoves(q) ==
    /\ clock' = clock /\ documents' = documents /\ Arranged'
    /\ \A p \in Searchers : p # q =>
          /\ pc'[p] = pc[p] /\ reply'[p] = reply[p] /\ asked'[p] = asked[p]
          /\ since'[p] = since[p] /\ found'[p] = found[p] /\ cards'[p] = cards[p]
          /\ snapshot'[p] = snapshot[p] /\ started'[p] = started[p]

\* A step of one search that keeps its own state keeps the invariant.
LEMMA MoveStep ==
    ASSUME SearchInv, NEW q \in Searchers, OnlyMoves(q), SearchState(q)'
    PROVE  SearchInv'
<1>1. clock \in Nat /\ clock' \in Nat /\ clock <= clock' /\ clock' \in 0 .. MaxClock
  BY BoundsAssumption DEF SearchInv, OnlyMoves
<1>2. DocumentsOK(documents)'
  BY DEF SearchInv, OnlyMoves
<1>3. ASSUME NEW p \in Searchers PROVE SearchState(p)'
  <2>1. CASE p = q
    BY <2>1
  <2>2. CASE p # q
    <3>1. SearchState(p)
      BY DEF SearchInv, SearchesOK
    <3> QED
      BY <1>1, <2>2, <3>1, SearchFrame DEF OnlyMoves
  <2> QED
    BY <2>1, <2>2
<1> QED
  BY <1>1, <1>2, <1>3 DEF SearchInv, SearchesOK, OnlyMoves, Arranged

\* The start of a freshness window is a moment, if there is any.
LEMMA WindowIsTyped ==
    ASSUME NEW query \in SkillSearchQuery, NEW start \in Nat
    PROVE  WindowOf(query, start) \in Int \cup {Null}
<1>1. CASE query.fresh_within_days = Null
  BY <1>1 DEF WindowOf
<1>2. CASE query.fresh_within_days # Null
  <2>1. query.fresh_within_days \in Nat
    BY <1>2 DEF SkillSearchQuery, Optional
  <2>2. query.fresh_within_days * Day \in Int
    BY <2>1, DayAssumption
  <2>3. start - query.fresh_within_days * Day \in Int
    <3> DEFINE days == query.fresh_within_days * Day
    <3> HIDE DEF days
    <3>1. days \in Int => start - days \in Int
      OBVIOUS
    <3> QED
      BY <2>2, <3>1 DEF days
  <2> QED
    BY <1>2, <2>3 DEF WindowOf
<1> QED
  BY <1>1, <1>2

\* A query that is received is typed, and its search starts now.
LEMMA ReceivedState ==
    ASSUME SearchInv, ControlOK, NEW q \in Searchers, pc[q] = "idle",
           NEW query \in SkillSearchQuery, NEW caller,
           Search(q, query, caller) \/ RefuseCaller(q, query, caller)
    PROVE  OnlyMoves(q) /\ SearchState(q)'
<1>1. /\ clock' = clock /\ documents' = documents
      /\ UNCHANGED <<found, cards, snapshot>>
      /\ asked' = [asked EXCEPT ![q] = [query |-> query, caller |-> caller]]
      /\ started' = [started EXCEPT ![q] = clock]
      /\ \/ /\ DiscoveryAllowed(caller, query.status)
            /\ since' = [since EXCEPT ![q] = PublishedAfter(NormalizeSearchRequest(query))]
            /\ pc' = [pc EXCEPT ![q] = "select"] /\ reply' = reply
         \/ /\ since' = since
            /\ pc' = [pc EXCEPT ![q] = "done"]
            /\ \E code \in Refusals : reply' = [reply EXCEPT ![q] = code]
  BY DEF Search, RefuseCaller, Goto, Answer, Refusals
<1>2. SearchState(q) /\ Arranged
  BY DEF SearchInv, SearchesOK, Arranged
<1>3. OnlyMoves(q)
  BY <1>1, <1>2 DEF OnlyMoves, Arranged, ControlOK
<1>4. clock \in Nat /\ clock \in 0 .. clock
  BY BoundsAssumption DEF SearchInv
<1>5. PublishedAfter(NormalizeSearchRequest(query)) = WindowOf(query, clock)
  BY DEF PublishedAfter, NormalizeSearchRequest, WindowOf
<1>6. /\ asked'[q].query = query /\ asked'[q].caller = caller /\ started'[q] = clock
      /\ cards'[q] = <<>> /\ reply[q] = None
  BY <1>1, <1>2 DEF ControlOK, SearchState, Arranged
<1>7. CASE /\ DiscoveryAllowed(caller, query.status)
           /\ since' = [since EXCEPT ![q] = PublishedAfter(NormalizeSearchRequest(query))]
           /\ pc' = [pc EXCEPT ![q] = "select"] /\ reply' = reply
  <2>1. pc'[q] = "select" /\ reply'[q] = None /\ since'[q] = WindowOf(query, clock)
    BY <1>2, <1>5, <1>6, <1>7 DEF ControlOK, Arranged
  <2>2. AcceptedAt(q)'
    BY <1>6, <1>7, <2>1 DEF AcceptedAt, Accepted
  <2>3. ~HasCards(q)'
    BY <2>1, NoneAssumption DEF HasCards, Replies
  <2>4. since'[q] \in Int \cup {Null}
    BY <1>4, <2>1, WindowIsTyped
  <2> QED
    BY <1>1, <1>3, <1>4, <1>6, <2>1, <2>2, <2>3, <2>4 DEF SearchState
<1>8. CASE /\ since' = since
           /\ pc' = [pc EXCEPT ![q] = "done"]
           /\ \E code \in Refusals : reply' = [reply EXCEPT ![q] = code]
  <2>1. pc'[q] = "done" /\ reply'[q] # "OK" /\ since'[q] = since[q]
    BY <1>8 DEF ControlOK, Refusals
  <2>2. ~HasCards(q)'
    BY <2>1 DEF HasCards
  <2> QED
    BY <1>1, <1>2, <1>3, <1>4, <1>6, <2>1, <2>2 DEF SearchState, Underway
<1> QED
  BY <1>1, <1>7, <1>8

\* The statement of a search leaves it with the answer over one snapshot.
LEMMA SelectState ==
    ASSUME SearchInv, ControlOK, NEW q \in Searchers, Select(q)
    PROVE  OnlyMoves(q) /\ SearchState(q)'
<1>1. /\ UNCHANGED <<clock, documents, reply, asked, since, cards, started>>
      /\ pc[q] = "select" /\ pc' = [pc EXCEPT ![q] = "explain"]
      /\ found' = [found EXCEPT ![q] = RowsFor(asked[q].query, since[q], documents)]
      /\ snapshot' = [snapshot EXCEPT ![q] = documents]
  BY DEF Select, Goto, RowsFor, RowsOf, Request, Filter, FilterOf
<1>2. SearchState(q) /\ Arranged /\ DocumentsOK(documents)
  BY DEF SearchInv, SearchesOK, Arranged
<1>3. OnlyMoves(q)
  BY <1>1, <1>2 DEF OnlyMoves, Arranged, ControlOK
<1>4. /\ pc'[q] = "explain" /\ reply'[q] = None /\ cards'[q] = <<>>
      /\ found'[q] = RowsFor(asked[q].query, since[q], documents) /\ snapshot'[q] = documents
  BY <1>1, <1>2 DEF ControlOK, Arranged, SearchState
<1>5. ~HasCards(q)'
  BY <1>4, NoneAssumption DEF HasCards, Replies
<1>6. AnsweredAt(q)'
  BY <1>1, <1>2, <1>4 DEF AnsweredAt, Answered
<1>7. AcceptedAt(q)'
  BY <1>1, <1>2 DEF AcceptedAt, SearchState, Underway
<1> QED
  BY <1>1, <1>2, <1>3, <1>4, <1>5, <1>6, <1>7 DEF SearchState

\* Explaining gives it the cards of these rows, as of a moment since it started.
LEMMA ExplainState ==
    ASSUME SearchInv, ControlOK, NEW q \in Searchers, Explain(q)
    PROVE  OnlyMoves(q) /\ SearchState(q)'
<1>1. /\ UNCHANGED <<clock, documents, reply, asked, since, found, snapshot, started>>
      /\ pc[q] = "explain" /\ pc' = [pc EXCEPT ![q] = "record"]
      /\ cards' = [cards EXCEPT ![q] = CardsFor(asked[q].query, found[q], clock)]
  BY DEF Explain, Goto, CardsFor, Request
<1>2. SearchState(q) /\ Arranged
  BY DEF SearchInv, SearchesOK, Arranged
<1>3. OnlyMoves(q)
  BY <1>1, <1>2 DEF OnlyMoves, Arranged, ControlOK
<1>4. /\ pc'[q] = "record" /\ reply'[q] = None
      /\ cards'[q] = CardsFor(asked[q].query, found[q], clock)
  BY <1>1, <1>2 DEF ControlOK, SearchState
<1>5. clock \in started[q] .. clock
  BY BoundsAssumption, <1>2 DEF SearchInv, SearchState
<1>6. TimedAt(q)'
  BY <1>1, <1>4, <1>5 DEF TimedAt, Timed
<1>7. AnsweredAt(q)' /\ AcceptedAt(q)'
  BY <1>1, <1>2 DEF AcceptedAt, AnsweredAt, SearchState, Underway
<1> QED
  BY <1>1, <1>2, <1>3, <1>4, <1>6, <1>7 DEF SearchState

\* The remaining steps change neither what a search holds nor what it has to hold.
LEMMA LaterState ==
    ASSUME SearchInv, ControlOK, NEW q \in Searchers,
           UNCHANGED <<clock, documents, asked, since, found, cards, snapshot, started>>,
           \/ pc[q] = "record" /\ pc' = [pc EXCEPT ![q] = "respond"] /\ reply' = reply
           \/ /\ pc[q] # "idle" /\ pc' = [pc EXCEPT ![q] = "done"]
              /\ \E code \in {"INTERNAL_ERROR", "LOST"} : reply' = [reply EXCEPT ![q] = code]
           \/ /\ pc[q] = "respond" /\ pc' = [pc EXCEPT ![q] = "done"]
              /\ reply' = [reply EXCEPT ![q] = "OK"]
    PROVE  OnlyMoves(q) /\ SearchState(q)'
<1>1. SearchState(q) /\ Arranged
  BY DEF SearchInv, SearchesOK, Arranged
<1>2. OnlyMoves(q)
  BY <1>1 DEF OnlyMoves, Arranged, ControlOK
<1>3. /\ pc[q] # "idle" /\ pc'[q] \in {"respond", "done"}
      /\ pc'[q] = "respond" => pc[q] = "record"
      /\ reply'[q] = "OK" => pc[q] = "respond" \/ (pc[q] = "record" /\ reply[q] = "OK")
  BY DEF ControlOK
<1>4. HasCards(q)' => HasCards(q)
  BY <1>3 DEF HasCards
<1>5. /\ AcceptedAt(q)' <=> AcceptedAt(q)
      /\ AnsweredAt(q)' <=> AnsweredAt(q)
      /\ TimedAt(q)' <=> TimedAt(q)
  BY DEF AcceptedAt, AnsweredAt, TimedAt
<1> QED
  BY <1>1, <1>2, <1>3, <1>4, <1>5 DEF SearchState, Underway

\* The facade's query is one that the service takes.
LEMMA DiscoveryAsks ==
    ASSUME NEW d \in Discoveries
    PROVE  DiscoveryQuery(d.request) \in SkillSearchQuery
<1> DEFINE r == d.request
           query == DiscoveryQuery(r)
<1>1. r.name \in Text /\ r.description \in Optional(Text) /\ r.tags \in Seq(Text)
  BY InputsAssumption DEF SkillDiscoveryRequest
<1>2. query.q \in Seq(Text)
  <2>1. Strip(r.name) \in Text
    BY <1>1, Normalized
  <2>2. r.description # Null => Strip(r.description) \in Text
    BY <1>1, Normalized DEF Optional
  <2> QED
    BY <2>1, <2>2 DEF DiscoveryQuery
<1>3. query.tags \in Seq(Text)
  BY <1>1, UniqueTagsKeepTheSet DEF DiscoveryQuery, TagsKept
<1> QED
  BY <1>2, <1>3, LimitAssumption DEF DiscoveryQuery, SkillSearchQuery, Optional

\* The service is asked in its own type.
LEMMA QueriesAsk ==
    ASSUME NEW s \in Queries
    PROVE  s.query \in SkillSearchQuery
BY InputsAssumption

\* The invariant holds initially.
LEMMA SearchInit == Init => SearchInv
<1> SUFFICES ASSUME Init PROVE SearchInv
  OBVIOUS
<1>1. clock \in 0 .. MaxClock
  BY BoundsAssumption DEF Init
<1>2. DocumentsOK(documents)
  BY DocumentsAssumption DEF Init, DocumentsOK, DocumentState
<1>3. ASSUME NEW q \in Searchers PROVE SearchState(q)
  <2>1. /\ pc[q] = "idle" /\ reply[q] = None /\ since[q] = Null /\ cards[q] = <<>>
        /\ started[q] = 0 /\ clock = 0
    BY DEF Init
  <2>2. ~HasCards(q) /\ reply[q] # "OK"
    BY <2>1, NoneAssumption DEF HasCards, Replies
  <2> QED
    BY <2>1, <2>2 DEF SearchState, Underway
<1> QED
  BY <1>1, <1>2, <1>3 DEF SearchInv, SearchesOK, Init

\* Searches that do not move, while documents are written or time passes.
LEMMA OthersMove ==
    ASSUME SearchInv, clock' \in 0 .. MaxClock, clock <= clock', DocumentsOK(documents)',
           UNCHANGED <<pc, asked, reply, since, found, cards, snapshot, started>>
    PROVE  SearchInv'
<1>1. clock \in Nat /\ clock' \in Nat
  BY BoundsAssumption DEF SearchInv
<1>2. ASSUME NEW q \in Searchers PROVE SearchState(q)'
  <2>1. SearchState(q)
    BY DEF SearchInv, SearchesOK
  <2> QED
    BY <1>1, <2>1, SearchFrame
<1> QED
  BY <1>2 DEF SearchInv, SearchesOK

\* A publish adds a document of a release.
LEMMA PublishedDocument ==
    ASSUME SearchInv, NEW v \in Releases, CommitPublish(v)
    PROVE  DocumentsOK(documents)'
<1>1. PICK ahead \in 0 .. MaxSkew :
          documents' = [w \in DOMAIN documents \cup {v} |->
              IF w = v THEN [status |-> "published", published_at |-> clock + ahead]
                       ELSE documents[w]]
  BY DEF CommitPublish
<1>2. clock + ahead \in Int
  BY BoundsAssumption DEF SearchInv
<1>3. [status |-> "published", published_at |-> clock + ahead] \in DocumentState
  BY <1>2 DEF DocumentState, Statuses
<1>4. IsFiniteSet(DOMAIN documents \cup {v})
  BY FS_AddElement DEF SearchInv, DocumentsOK
<1>5. DOMAIN documents' = DOMAIN documents \cup {v}
  BY <1>1
<1>6. ASSUME NEW w \in DOMAIN documents' PROVE documents'[w] \in DocumentState
  BY <1>1, <1>3, <1>5 DEF SearchInv, DocumentsOK
<1> QED
  BY <1>4, <1>5, <1>6 DEF SearchInv, DocumentsOK

\* An update keeps the documents those of releases.
LEMMA ChangedDocument ==
    ASSUME SearchInv, NEW v \in DOMAIN documents, NEW next \in Statuses, CommitStatus(v, next)
    PROVE  DocumentsOK(documents)'
<1>1. documents' = [documents EXCEPT ![v].status = next]
  BY DEF CommitStatus
<1>2. DOMAIN documents' = DOMAIN documents
  BY <1>1
<1>3. ASSUME NEW w \in DOMAIN documents PROVE documents'[w] \in DocumentState
  BY <1>1 DEF SearchInv, DocumentsOK, DocumentState
<1> QED
  BY <1>2, <1>3 DEF SearchInv, DocumentsOK

\* Every step of a search keeps the invariant.
LEMMA SearchStep ==
    ASSUME SearchInv, ControlOK, ControlOK', NEW q \in Searchers, StepOf(q)
    PROVE  SearchInv'
<1>1. OnlyMoves(q) /\ SearchState(q)'
  <2>1. CASE Discover(q)
    <3>1. PICK d \in Discoveries :
              \/ Search(q, DiscoveryQuery(d.request), d.caller)
              \/ RefuseCaller(q, DiscoveryQuery(d.request), d.caller)
      BY <2>1 DEF Discover
    <3> QED
      BY <2>1, <3>1, DiscoveryAsks, ReceivedState DEF Discover
  <2>2. CASE AskService(q)
    BY <2>2, QueriesAsk, ReceivedState DEF AskService
  <2>3. CASE Select(q)
    BY <2>3, SelectState
  <2>4. CASE Explain(q)
    BY <2>4, ExplainState
  <2>5. CASE RecordSearch(q)
    BY <2>5, LaterState DEF RecordSearch, Goto
  <2>6. CASE Respond(q)
    BY <2>6, LaterState DEF Respond, Answer
  <2>7. CASE Fail(q)
    BY <2>7, LaterState DEF Fail, Answer
  <2>8. CASE RecordUnacknowledged(q)
    BY <2>8, LaterState DEF RecordUnacknowledged, Answer
  <2>9. CASE Crash(q)
    BY <2>9, LaterState DEF Crash, Answer
  <2> QED
    BY <2>1, <2>2, <2>3, <2>4, <2>5, <2>6, <2>7, <2>8, <2>9 DEF StepOf
<1> QED
  BY <1>1, MoveStep

\* What a search holds at each label, in every reachable state.
LEMMA SearchInvInductive == Spec => []SearchInv
<1>1. ASSUME AuditInv, AuditInv', SearchInv, [Next]_vars PROVE SearchInv'
  <2>0. ControlOK /\ ControlOK' /\ clock \in 0 .. MaxClock /\ MaxClock \in Nat
    BY <1>1, BoundsAssumption DEF AuditInv, SearchInv
  <2>1. CASE Tick
    <3>1. clock' \in 0 .. MaxClock /\ clock <= clock'
      BY <2>0, <2>1 DEF Tick
    <3>2. DocumentsOK(documents)'
      BY <1>1, <2>1 DEF Tick, SearchInv
    <3> QED
      BY <1>1, <2>1, <3>1, <3>2, OthersMove DEF Tick
  <2>2. ASSUME NEW v \in Releases, CommitPublish(v) PROVE SearchInv'
    <3>1. clock' \in 0 .. MaxClock /\ clock <= clock'
      BY <2>0, <2>2 DEF CommitPublish
    <3> QED
      BY <1>1, <2>2, <3>1, PublishedDocument, OthersMove DEF CommitPublish
  <2>3. ASSUME NEW v \in DOMAIN documents, NEW next \in Statuses, CommitStatus(v, next)
        PROVE  SearchInv'
    <3>1. clock' \in 0 .. MaxClock /\ clock <= clock'
      BY <2>0, <2>3 DEF CommitStatus
    <3> QED
      BY <1>1, <2>3, <3>1, ChangedDocument, OthersMove DEF CommitStatus
  <2>4. ASSUME NEW q \in Searchers, StepOf(q) PROVE SearchInv'
    BY <1>1, <2>0, <2>4, SearchStep
  <2>5. CASE UNCHANGED vars
    <3>1. clock' \in 0 .. MaxClock /\ clock <= clock'
      BY <2>0, <2>5 DEF vars
    <3>2. DocumentsOK(documents)'
      BY <1>1, <2>5 DEF vars, SearchInv
    <3> QED
      BY <1>1, <2>5, <3>1, <3>2, OthersMove DEF vars
  <2> QED
    BY <1>1, <2>1, <2>2, <2>3, <2>4, <2>5 DEF Next, StepOf
<1> QED
  BY <1>1, SearchInit, AuditInvInductive, PTL DEF Spec
-----------------------------------------------------------------------------
(* What the statement finds is what the search asks for.                   *)

Meets(v, query, after, docs) ==
    /\ SaysTheText(v, NormalizeSearchRequest(query))
    /\ EffectiveTags(query) \subseteq TagSet(Tags(v))
    /\ docs[v].status \in DiscoveryStatuses(query.status)
    /\ Authored[v].trust_tier \in DiscoveryTrustTiers(query.trust_tier)
    /\ after # Null => docs[v].published_at >= after
    /\ query.max_footprint_bytes # Null =>
            Size(Authored[v].raw_markdown) <= query.max_footprint_bytes

\* What normalising keeps of a request.
LEMMA RequestFields ==
    ASSUME NEW query
    PROVE  /\ NormalizeSearchRequest(query).query_text = NormalizeSearchText(query.q)
           /\ NormalizeSearchRequest(query).effective_tags = EffectiveTags(query)
           /\ NormalizeSearchRequest(query).max_footprint_bytes = query.max_footprint_bytes
           /\ NormalizeSearchRequest(query).limit = query.limit
BY DEF NormalizeSearchRequest

\* A text contains itself.
LEMMA ContainsItself ==
    ASSUME NEW text \in Texts
    PROVE  Contains(text, text)
<1>1. Len(text) \in Nat /\ SubSeq(text, 1, Len(text)) = text
  BY DEF Texts
<1>2. 0 \in 0 .. (Len(text) - Len(text)) /\ 0 + 1 = 1 /\ 0 + Len(text) = Len(text)
  BY <1>1
<1> QED
  BY <1>1, <1>2 DEF Contains

\* The statement's text condition on a document's row, in plain terms.
LEMMA TextIsSaid ==
    ASSUME NEW v \in Releases, NEW row, NEW state, RowOf(row, v, state),
           NEW query \in SkillSearchQuery
    PROVE  TextMatch(row, NormalizeSearchRequest(query))
               <=> SaysTheText(v, NormalizeSearchRequest(query))
<1> DEFINE request == NormalizeSearchRequest(query)
           text == request.query_text
<1>1. AuthoredAs(v)
  BY AuthoredReleases
<1>2. row.normalized_slug \in Texts /\ row.normalized_name \in Texts
  BY <1>1 DEF AuthoredAs, RowOf
<1>3. text # Null => text \in Texts
  BY RequestFields, QueryTextIsText DEF SkillSearchQuery
<1>4. FullTextMatch(row, request) <=> ~LacksALexeme(v, request)
  <2>1. row.search_source = SearchDocument(Authored[v]).search_source
    BY DEF RowOf
  <2>2. LexemesIn(request.query_terms) = {}
            <=> \A word \in request.query_terms : LexemesOf[word] = {}
    <3> HIDE DEF request
    <3> QED BY DEF LexemesIn
  <2> HIDE DEF request
  <2> QED BY <2>1, <2>2 DEF FullTextMatch, LacksALexeme
<1>5. text # Null =>
          /\ Like(row.normalized_slug, BuildContainsPattern(text))
                <=> Contains(row.normalized_slug, text)
          /\ Like(row.normalized_name, BuildContainsPattern(text))
                <=> Contains(row.normalized_name, text)
          /\ Contains(text, text)
  BY <1>2, <1>3, PatternsAreLiteral, ContainsItself DEF LiteralMatch
<1> HIDE DEF request
<1>6. TextMatch(row, request) <=>
          \/ text = Null
          \/ FullTextMatch(row, request)
          \/ Contains(row.normalized_slug, text)
          \/ Contains(row.normalized_name, text)
  BY <1>5 DEF TextMatch
<1>7. SaysTheText(v, request) <=>
          \/ text = Null
          \/ FullTextMatch(row, request)
          \/ Contains(row.normalized_slug, text)
          \/ Contains(row.normalized_name, text)
  BY <1>4 DEF SaysTheText, ContainsTheText, RowOf
<1> QED
  BY <1>6, <1>7 DEF request

\* The conditions of the statement select exactly the documents that meet the request.
LEMMA FilteredIsMeant ==
    ASSUME NEW docs, DocumentsOK(docs), NEW v \in DOMAIN docs,
           NEW query \in SkillSearchQuery, NEW after
    PROVE  DocumentRow(v, docs[v]) \in
               Filtered(RowsOf(docs), NormalizeSearchRequest(query), FilterOf(query, after))
               <=> Meets(v, query, after, docs)
<1> DEFINE row == DocumentRow(v, docs[v])
           request == NormalizeSearchRequest(query)
           filter == FilterOf(query, after)
<1>1. v \in Releases
  BY DEF DocumentsOK
<1>2. RowOf(row, v, docs[v])
  BY <1>1, RowFields
<1>3. row \in RowsOf(docs)
  BY DEF RowsOf
<1>4. TextMatch(row, request) <=> SaysTheText(v, request)
  BY <1>1, <1>2, TextIsSaid
<1>5. row.normalized_tags = TagSet(Tags(v))
  BY <1>1, <1>2, AuthoredReleases, UniqueTagsKeepTheSet DEF RowOf, AuthoredAs, TagsKept
<1>6. /\ filter.published_after = after
      /\ filter.lifecycle_statuses = DiscoveryStatuses(query.status)
      /\ filter.trust_tiers = DiscoveryTrustTiers(query.trust_tier)
  BY DEF FilterOf
<1>7. /\ request.effective_tags = EffectiveTags(query)
      /\ request.max_footprint_bytes = query.max_footprint_bytes
  BY RequestFields
<1>8. /\ row.lifecycle_status = docs[v].status /\ row.published_at = docs[v].published_at
      /\ row.trust_tier = Authored[v].trust_tier
      /\ row.content_size_bytes = Size(Authored[v].raw_markdown)
  BY <1>2 DEF RowOf
<1> HIDE DEF row, request, filter
<1>9. row \in Filtered(RowsOf(docs), request, filter) <=>
          /\ TextMatch(row, request)
          /\ request.effective_tags \subseteq row.normalized_tags
          /\ filter.published_after # Null => row.published_at >= filter.published_after
          /\ request.max_footprint_bytes # Null =>
                row.content_size_bytes <= request.max_footprint_bytes
          /\ row.lifecycle_status \in filter.lifecycle_statuses
          /\ row.trust_tier \in filter.trust_tiers
  BY <1>3 DEF Filtered
<1>10. SaysTheText(v, request) <=> SaysTheText(v, NormalizeSearchRequest(query))
  BY DEF request
<1>11. row \in Filtered(RowsOf(docs), request, filter) <=> Meets(v, query, after, docs)
  BY <1>4, <1>5, <1>6, <1>7, <1>8, <1>9, <1>10 DEF Meets
<1> QED
  BY <1>11 DEF row, request, filter

\* Candidates of a search over docs.
Candidates(query, after, docs) ==
    ScoredSet(RowsOf(docs), NormalizeSearchRequest(query), FilterOf(query, after))

RankOf(v, query, docs) == Scored(DocumentRow(v, docs[v]), NormalizeSearchRequest(query))

\* The candidates are the rows of the documents that meet the request.
LEMMA CandidatesAreMeant ==
    ASSUME NEW docs, DocumentsOK(docs), NEW query \in SkillSearchQuery, NEW after
    PROVE  Candidates(query, after, docs) =
               {RankOf(v, query, docs) : v \in {w \in DOMAIN docs : Meets(w, query, after, docs)}}
<1> DEFINE F == Filtered(RowsOf(docs), NormalizeSearchRequest(query), FilterOf(query, after))
<1>1. F \subseteq RowsOf(docs)
  BY DEF Filtered
<1>2. \A v \in DOMAIN docs : DocumentRow(v, docs[v]) \in F <=> Meets(v, query, after, docs)
  BY FilteredIsMeant
<1> HIDE DEF F
<1>3. F = {DocumentRow(v, docs[v]) : v \in {w \in DOMAIN docs : Meets(w, query, after, docs)}}
  BY <1>1, <1>2 DEF RowsOf
<1> QED
  BY <1>3 DEF Candidates, ScoredSet, RankOf, F

Found(query, after, docs, rows) ==
    /\ Answers(rows, Candidates(query, after, docs), query.limit)
    /\ \A i \in DOMAIN rows : \E v \in DOMAIN docs :
          Meets(v, query, after, docs) /\ rows[i] = RankOf(v, query, docs)

\* The rows of an answer are the best of the documents that meet the request.
LEMMA RowsAreFound ==
    ASSUME NEW query \in SkillSearchQuery, NEW after, NEW docs, NEW rows,
           Answered(query, after, docs, rows)
    PROVE  Found(query, after, docs, rows)
<1>1. DocumentsOK(docs) /\ rows = RowsFor(query, after, docs)
  BY DEF Answered
<1>2. NormalizeSearchRequest(query).limit = query.limit /\ query.limit \in Nat
  BY RequestFields DEF SkillSearchQuery
<1>3. Answers(rows, Candidates(query, after, docs), query.limit)
  BY <1>1, <1>2, RowsOfDocuments, CandidatesAreTheBest DEF Candidates, RowsFor
<1>4. ASSUME NEW i \in DOMAIN rows
      PROVE  \E v \in DOMAIN docs : Meets(v, query, after, docs) /\ rows[i] = RankOf(v, query, docs)
  <2>1. rows[i] \in Candidates(query, after, docs)
    BY <1>3 DEF Answers
  <2> QED
    BY <1>1, <2>1, CandidatesAreMeant
<1> QED
  BY <1>3, <1>4 DEF Found

\* A card tells what the row of one document is, as of the moment t.
CardOf(card, v, state, scored, effective, t) ==
    /\ card.slug = Authored[v].slug /\ card.version = Authored[v].version
    /\ card.lifecycle_status = state.status
    /\ card.freshness_days = FreshnessDays(state.published_at, t)
    /\ card.matched_tags = TagSet(Tags(v)) \cap effective
    /\ card.reasons = Reasons(scored)

\* A card tells of its row.
LEMMA CardFields ==
    ASSUME NEW docs, DocumentsOK(docs), NEW v \in DOMAIN docs, NEW query, NEW t
    PROVE  CardOf(SkillSearchResult(RankOf(v, query, docs), NormalizeSearchRequest(query), t),
                  v, docs[v], RankOf(v, query, docs), EffectiveTags(query), t)
<1> DEFINE row == DocumentRow(v, docs[v])
           scored == RankOf(v, query, docs)
           request == NormalizeSearchRequest(query)
           card == SkillSearchResult(scored, request, t)
<1>1. v \in Releases
  BY DEF DocumentsOK
<1>2. RowOf(row, v, docs[v])
  BY <1>1, RowFields
<1>3. scored.row = row
  BY DEF RankOf, Scored
<1> HIDE DEF scored, request
<1>4. /\ card.slug = row.slug /\ card.version = row.version
      /\ card.lifecycle_status = row.lifecycle_status
      /\ card.freshness_days = FreshnessDays(row.published_at, t)
      /\ card.matched_tags = MatchedTags(row, request)
      /\ card.reasons = Reasons(scored)
  BY <1>3 DEF SkillSearchResult
<1>5. MatchedTags(row, request) = TagSet(Tags(v)) \cap EffectiveTags(query)
  <2>1. request.effective_tags = EffectiveTags(query)
    BY RequestFields DEF request
  <2>2. TagSet(row.tags) = TagSet(Tags(v))
    BY <1>1, <1>2, AuthoredReleases, UniqueTagsKeepTheSet DEF RowOf, AuthoredAs, TagsKept
  <2> QED
    BY <2>1, <2>2 DEF MatchedTags
<1> HIDE DEF card, row
<1>6. CardOf(card, v, docs[v], scored, EffectiveTags(query), t)
  BY <1>2, <1>4, <1>5 DEF CardOf, RowOf
<1> QED
  BY <1>6 DEF card, scored, request

\* What card i of search q is: one of the documents its statement saw.
Shows(q, i, v, t) ==
    /\ Meets(v, asked[q].query, since[q], snapshot[q])
    /\ found[q][i] = RankOf(v, asked[q].query, snapshot[q])
    /\ CardOf(cards[q][i], v, snapshot[q][v], found[q][i], EffectiveTags(asked[q].query), t)

CardsOK(q) ==
    /\ AcceptedAt(q) /\ DocumentsOK(snapshot[q])
    /\ Found(asked[q].query, since[q], snapshot[q], found[q])
    /\ cards[q] \in Seq({cards[q][i] : i \in DOMAIN cards[q]})
    /\ Len(cards[q]) = Len(found[q]) /\ DOMAIN cards[q] = DOMAIN found[q]
    /\ \E t \in started[q] .. clock : \A i \in DOMAIN cards[q] :
          \E v \in DOMAIN snapshot[q] : Shows(q, i, v, t)

\* A search with cards shows rows of its one snapshot, as of one moment.
LEMMA CardsShow ==
    ASSUME NEW q, AcceptedAt(q), AnsweredAt(q), TimedAt(q)
    PROVE  CardsOK(q)
<1> DEFINE query == asked[q].query
           rows == found[q]
           docs == snapshot[q]
<1>1. query \in SkillSearchQuery
  BY DEF AcceptedAt, Accepted
<1>2. Found(query, since[q], docs, rows) /\ DocumentsOK(docs)
  BY <1>1, RowsAreFound DEF AnsweredAt, Answered
<1>3. PICK t \in started[q] .. clock : cards[q] = CardsFor(query, rows, t)
  BY DEF TimedAt, Timed
<1>4. rows \in Seq(Candidates(query, since[q], docs))
  BY <1>2 DEF Found, Answers
<1>5. /\ DOMAIN rows = 1 .. Len(rows) /\ Len(rows) \in Nat
      /\ DOMAIN cards[q] = DOMAIN rows /\ Len(cards[q]) = Len(rows)
  BY <1>3, <1>4 DEF CardsFor
<1>6. cards[q] \in Seq({cards[q][i] : i \in DOMAIN cards[q]})
  <2> DEFINE S == {cards[q][i] : i \in DOMAIN cards[q]}
  <2>1. cards[q] = [i \in 1 .. Len(rows) |-> cards[q][i]]
    BY <1>3, <1>5 DEF CardsFor
  <2>2. \A i \in 1 .. Len(rows) : cards[q][i] \in S
    BY <1>5
  <2> HIDE DEF S
  <2>3. cards[q] \in [1 .. Len(rows) -> S]
    BY <2>1, <2>2
  <2> QED
    BY <1>5, <2>3, SeqDef DEF S
<1>7. ASSUME NEW i \in DOMAIN rows
      PROVE  \E v \in DOMAIN docs : Shows(q, i, v, t)
  <2>1. PICK v \in DOMAIN docs : Meets(v, query, since[q], docs) /\ rows[i] = RankOf(v, query, docs)
    BY <1>2 DEF Found
  <2>2. cards[q][i] = SkillSearchResult(rows[i], NormalizeSearchRequest(query), t)
    BY <1>3 DEF CardsFor
  <2>3. CardOf(cards[q][i], v, docs[v], rows[i], EffectiveTags(query), t)
    BY <1>2, <2>1, <2>2, CardFields
  <2> QED
    BY <2>1, <2>3 DEF Shows
<1> QED
  BY <1>2, <1>5, <1>6, <1>7 DEF CardsOK

\* So it is in every state of the invariant.
LEMMA CardsHeld ==
    ASSUME SearchInv, NEW q \in Searchers, HasCards(q)
    PROVE  CardsOK(q)
<1>1. SearchState(q)
  BY DEF SearchInv, SearchesOK
<1> QED
  BY <1>1, CardsShow DEF SearchState, HasCards, Underway

\* Cards and rows are of the same slugs.
LEMMA ShownSlug ==
    ASSUME NEW q, CardsOK(q), NEW i \in DOMAIN found[q]
    PROVE  cards[q][i].slug = found[q][i].row.slug
<1>1. PICK v \in DOMAIN snapshot[q], t \in started[q] .. clock : Shows(q, i, v, t)
  BY DEF CardsOK
<1>2. v \in Releases
  BY DEF CardsOK, DocumentsOK
<1> QED
  BY <1>1, <1>2, RowFields DEF Shows, CardOf, RankOf, Scored, RowOf

\* What the property wants are the documents that meet the request.
LEMMA WantedIsMeant ==
    ASSUME NEW q
    PROVE  Wanted(q) = {v \in DOMAIN snapshot[q] : Meets(v, asked[q].query, since[q], snapshot[q])}
BY RequestFields DEF Wanted, Eligible, Meets, Request, Tags
-----------------------------------------------------------------------------
(* What the answers show.                                                  *)

(* For any documents and any searches beside any publishes and status      *)
(* updates: a caller is shown a version only in a state that the profile   *)
(* lets it discover, and that the version had when the statement was run.  *)
THEOREM StatusesAreVisible == Spec => []OnlyVisibleStatuses
<1>1. SearchInv => OnlyVisibleStatuses
  <2> SUFFICES ASSUME SearchInv, NEW q \in Searchers, HasCards(q), NEW i \in DOMAIN cards[q]
               PROVE  /\ \/ cards[q][i].lifecycle_status \in
                                Profile.discovery_default_statuses
                                    \cup Profile.discovery_read_statuses
                         \/ /\ "admin" \in asked[q].caller
                            /\ cards[q][i].lifecycle_status \in Profile.discovery_admin_statuses
                      /\ \E v \in DOMAIN snapshot[q] :
                            /\ Coordinate(v) = <<cards[q][i].slug, cards[q][i].version>>
                            /\ snapshot[q][v].status = cards[q][i].lifecycle_status
    BY DEF OnlyVisibleStatuses
  <2>1. CardsOK(q)
    BY CardsHeld
  <2>2. PICK v \in DOMAIN snapshot[q], t \in started[q] .. clock : Shows(q, i, v, t)
    BY <2>1 DEF CardsOK
  <2>3. /\ cards[q][i].slug = Authored[v].slug /\ cards[q][i].version = Authored[v].version
        /\ cards[q][i].lifecycle_status = snapshot[q][v].status
        /\ snapshot[q][v].status \in DiscoveryStatuses(asked[q].query.status)
    BY <2>2 DEF Shows, CardOf, Meets
  <2>4. DiscoveryAllowed(asked[q].caller, asked[q].query.status)
    BY <2>1 DEF CardsOK, AcceptedAt, Accepted
  <2> QED
    BY <2>3, <2>4 DEF DiscoveryAllowed, DiscoveryStatuses, HasScope, Coordinate
<1> QED
  BY <1>1, SearchInvInductive, PTL

\* The reasons of a card, from the scores of its row.
LEMMA ReasonsTell ==
    ASSUME NEW scored, scored.tag_overlap_count \in Nat
    PROVE  /\ "tag_filter_match" \in Reasons(scored) <=> scored.tag_overlap_count > 0
           /\ Reasons(scored) # {}
<1> DEFINE pairs == {<<"exact_slug_match", scored.exact_slug_match>>,
                     <<"exact_name_match", scored.exact_name_match>>,
                     <<"text_match", scored.lexical_score>>,
                     <<"tag_filter_match", scored.tag_overlap_count>>}
           given == {reason \in pairs : reason[2] > 0}
<1>1. Reasons(scored) = IF given = {} THEN {"structured_filter_match"}
                        ELSE {reason[1] : reason \in given}
  BY DEF Reasons
<1>2. \A reason \in pairs : reason[1] = "tag_filter_match" => reason[2] = scored.tag_overlap_count
  OBVIOUS
<1>3. scored.tag_overlap_count > 0 =>
          <<"tag_filter_match", scored.tag_overlap_count>> \in given
  OBVIOUS
<1>4. <<"tag_filter_match", scored.tag_overlap_count>>[1] = "tag_filter_match"
  OBVIOUS
<1> HIDE DEF pairs
<1>5. \A reason \in given : reason \in pairs /\ reason[2] > 0
  OBVIOUS
<1> HIDE DEF given
<1>6. CASE given = {}
  BY <1>1, <1>3, <1>6
<1>7. CASE given # {}
  BY <1>1, <1>2, <1>3, <1>4, <1>5, <1>7
<1> QED
  BY <1>6, <1>7

(* For any documents and any searches: a card names every required tag as  *)
(* matched, says that a tag filter matched exactly when there was one, and *)
(* always gives a reason.                                                  *)
THEOREM CardsAreExplained == Spec => []CardsExplainTheFilter
<1>1. SearchInv => CardsExplainTheFilter
  <2> SUFFICES ASSUME SearchInv, NEW q \in Searchers, HasCards(q), NEW i \in DOMAIN cards[q]
               PROVE  /\ cards[q][i].matched_tags = Request(q).effective_tags
                      /\ ("tag_filter_match" \in cards[q][i].reasons)
                            = (Request(q).effective_tags # {})
                      /\ cards[q][i].reasons # {}
    BY DEF CardsExplainTheFilter
  <2> DEFINE effective == EffectiveTags(asked[q].query)
  <2>1. CardsOK(q)
    BY CardsHeld
  <2>2. PICK v \in DOMAIN snapshot[q], t \in started[q] .. clock : Shows(q, i, v, t)
    BY <2>1 DEF CardsOK
  <2>3. Request(q).effective_tags = effective
    BY RequestFields DEF Request
  <2>4. effective \subseteq TagSet(Tags(v))
    BY <2>2 DEF Shows, Meets
  <2>5. cards[q][i].matched_tags = effective /\ cards[q][i].reasons = Reasons(found[q][i])
    BY <2>2, <2>4 DEF Shows, CardOf
  <2>6. v \in Releases
    BY <2>1 DEF CardsOK, DocumentsOK
  <2>7. TagSet(Tags(v)) = DocumentRow(v, snapshot[q][v]).normalized_tags
    BY <2>6, RowFields, AuthoredReleases, UniqueTagsKeepTheSet DEF RowOf, AuthoredAs, TagsKept
  <2>8. found[q][i].tag_overlap_count = Cardinality(effective)
    <3>1. found[q][i] = Scored(DocumentRow(v, snapshot[q][v]), NormalizeSearchRequest(asked[q].query))
      BY <2>2 DEF Shows, RankOf
    <3>2. effective \cap DocumentRow(v, snapshot[q][v]).normalized_tags = effective
      BY <2>4, <2>7
    <3>3. NormalizeSearchRequest(asked[q].query).effective_tags = effective
      BY RequestFields
    <3>4. \A row, request : Scored(row, request).tag_overlap_count
              = Cardinality(request.effective_tags \cap row.normalized_tags)
      BY DEF Scored
    <3> HIDE DEF effective
    <3> QED
      BY <3>1, <3>2, <3>3, <3>4
  <2>9. IsFiniteSet(effective)
    BY <2>4, <2>6, AuthoredReleases, TagSetIsFinite, FS_Subset DEF AuthoredAs
  <2>10. Cardinality(effective) \in Nat /\ (Cardinality(effective) > 0 <=> effective # {})
    BY <2>9, FS_CardinalityType, FS_EmptySet
  <2>11. /\ "tag_filter_match" \in Reasons(found[q][i]) <=> found[q][i].tag_overlap_count > 0
         /\ Reasons(found[q][i]) # {}
    BY <2>8, <2>10, ReasonsTell
  <2> HIDE DEF effective
  <2> QED
    BY <2>3, <2>5, <2>8, <2>10, <2>11
<1> QED
  BY <1>1, SearchInvInductive, PTL

\* Whole days do not exceed the time.
LEMMA WholeDays ==
    ASSUME NEW a \in Nat
    PROVE  a \div Day \in Nat /\ (a \div Day) * Day <= a
BY DayAssumption

\* The age in days is never negative, rounds down, and is 0 for what is published later.
LEMMA AgeIsWhole ==
    ASSUME NEW p \in Int, NEW t \in Int
    PROVE  /\ FreshnessDays(p, t) \in Nat
           /\ p <= t => FreshnessDays(p, t) * Day <= t - p
           /\ p > t => FreshnessDays(p, t) = 0
<1>1. CASE p > t
  BY <1>1 DEF FreshnessDays
<1>2. CASE p <= t
  <2>1. t - p \in Nat
    BY <1>2
  <2>2. FreshnessDays(p, t) = (t - p) \div Day
    BY <1>2 DEF FreshnessDays
  <2> QED
    BY <1>2, <2>1, <2>2, WholeDays
<1> QED
  BY <1>1, <1>2

(* For any clocks and windows: a card's age exceeds the window that was    *)
(* asked for by no more than the search itself has taken.                  *)
THEOREM AgesAreInTheWindow == Spec => []AgeWithinWindow
<1>1. SearchInv => AgeWithinWindow
  <2> SUFFICES ASSUME SearchInv, NEW q \in Searchers, HasCards(q),
                      asked[q].query.fresh_within_days # Null, NEW i \in DOMAIN cards[q]
               PROVE  cards[q][i].freshness_days * Day <=
                          asked[q].query.fresh_within_days * Day + (clock - started[q])
    BY DEF AgeWithinWindow
  <2> DEFINE days == asked[q].query.fresh_within_days * Day
  <2>1. CardsOK(q)
    BY CardsHeld
  <2>2. PICK v \in DOMAIN snapshot[q], t \in started[q] .. clock : Shows(q, i, v, t)
    BY <2>1 DEF CardsOK
  <2> DEFINE p == snapshot[q][v].published_at
             age == FreshnessDays(p, t) * Day
  <2>3. asked[q].query.fresh_within_days \in Nat
    BY <2>1 DEF CardsOK, AcceptedAt, Accepted, SkillSearchQuery, Optional
  <2>4. days \in Nat
    BY <2>3, DayAssumption
  <2>5. since[q] = started[q] - days
    BY <2>1 DEF CardsOK, AcceptedAt, Accepted, WindowOf
  <2>6. /\ clock \in Int /\ started[q] \in Int /\ t \in Int
        /\ t <= clock /\ started[q] <= clock
    BY BoundsAssumption DEF SearchInv, SearchesOK, SearchState
  <2>7. p \in Int
    BY <2>1 DEF CardsOK, DocumentsOK, DocumentState
  <2>8. p >= since[q]
    <3>1. since[q] \in Int
      BY <2>4, <2>5, <2>6
    <3>2. since[q] # Null
      BY <3>1, NullAssumption
    <3> QED
      BY <2>2, <3>2 DEF Shows, Meets
  <2>9. cards[q][i].freshness_days = FreshnessDays(p, t)
    BY <2>2 DEF Shows, CardOf
  <2>10. age \in Nat /\ (p <= t => age <= t - p) /\ (p > t => age = 0)
    BY <2>6, <2>7, AgeIsWhole, DayAssumption
  <2> HIDE DEF days, p, age
  <2>11. age <= days + (clock - started[q])
    BY <2>4, <2>5, <2>6, <2>7, <2>8, <2>10
  <2> QED
    BY <2>9, <2>11 DEF age, days
<1> QED
  BY <1>1, SearchInvInductive, PTL

\* Cards are no more than asked for, of known slugs and versions.
LEMMA CardsTyped ==
    ASSUME SearchInv, NEW q \in Searchers, CardsOK(q)
    PROVE  /\ Len(cards[q]) <= asked[q].query.limit
           /\ \A i \in DOMAIN cards[q] :
                /\ cards[q][i].slug \in Slugs /\ cards[q][i].version \in Versions
                /\ cards[q][i].freshness_days \in Nat
<1>1. Len(cards[q]) <= asked[q].query.limit
  BY DEF CardsOK, Found, Answers
<1>2. ASSUME NEW i \in DOMAIN cards[q]
      PROVE  /\ cards[q][i].slug \in Slugs /\ cards[q][i].version \in Versions
             /\ cards[q][i].freshness_days \in Nat
  <2>1. PICK v \in DOMAIN snapshot[q], t \in started[q] .. clock : Shows(q, i, v, t)
    BY DEF CardsOK
  <2>2. v \in Releases /\ snapshot[q][v].published_at \in Int
    BY DEF CardsOK, DocumentsOK, DocumentState
  <2>3. t \in Int
    OBVIOUS
  <2> QED
    BY <2>1, <2>2, <2>3, AuthoredReleases, AgeIsWhole DEF Shows, CardOf, AuthoredAs
<1> QED
  BY <1>1, <1>2

(* For any values of the constants: the types, an answer within the limit  *)
(* that was asked for, and ages that are never negative.                   *)
THEOREM SearchesAreTyped == Spec => []SearchTypeOK
<1>1. AuditInv /\ SearchInv => SearchTypeOK
  <2> SUFFICES ASSUME AuditInv, SearchInv PROVE SearchTypeOK
    OBVIOUS
  <2>1. ASSUME NEW q \in Searchers
        PROVE  /\ since[q] \in Int \cup {Null}
               /\ pc[q] = "idle" \/ Len(cards[q]) <= asked[q].query.limit
               /\ \A i \in DOMAIN cards[q] :
                    /\ cards[q][i].slug \in Slugs /\ cards[q][i].version \in Versions
                    /\ cards[q][i].freshness_days \in Nat
    <3>1. SearchState(q)
      BY DEF SearchInv, SearchesOK
    <3>2. CASE cards[q] = <<>>
      <4>1. pc[q] # "idle" => asked[q].query.limit \in Nat
        BY <3>1 DEF SearchState, SkillSearchQuery
      <4> QED
        BY <3>1, <3>2, <4>1 DEF SearchState
    <3>3. CASE cards[q] # <<>>
      <4>1. CardsOK(q)
        BY <3>1, <3>3, CardsShow DEF SearchState
      <4> QED
        BY <3>1, <4>1, CardsTyped DEF SearchState
    <3> QED
      BY <3>2, <3>3
  <2>2. since \in [Searchers -> Int \cup {Null}]
    BY <2>1 DEF SearchInv, SearchesOK
  <2>3. \A v \in DOMAIN documents : documents[v] \in [status: Statuses, published_at: Int]
    BY DEF SearchInv, DocumentsOK, DocumentState
  <2> QED
    BY <2>1, <2>2, <2>3 DEF SearchTypeOK, AuditInv, ControlOK, SearchInv, DocumentsOK
<1> QED
  BY <1>1, AuditInvInductive, SearchInvInductive, PTL

(* For any texts and any parser: a document that has not all the lexemes   *)
(* of a query is found only if its slug or name contains the query as it   *)
(* was typed, and is always found then unless the answer is full.          *)
THEOREM SearchesMatchLiterally == Spec => []MatchesAreLiteral
<1>1. SearchInv => MatchesAreLiteral
  <2> SUFFICES ASSUME SearchInv, NEW q \in Searchers, HasCards(q),
                      Request(q).query_text # Null
               PROVE  /\ \A i \in DOMAIN cards[q] : \E v \in Eligible(q) :
                            /\ Coordinate(v) = <<cards[q][i].slug, cards[q][i].version>>
                            /\ LacksALexeme(v, Request(q)) => ContainsTheText(v, Request(q))
                      /\ Len(cards[q]) < asked[q].query.limit =>
                            \A v \in Eligible(q) : ContainsTheText(v, Request(q)) =>
                                \E i \in DOMAIN cards[q] : cards[q][i].slug = Authored[v].slug
    BY DEF MatchesAreLiteral
  <2>1. CardsOK(q)
    BY CardsHeld
  <2>2. ASSUME NEW i \in DOMAIN cards[q]
        PROVE  \E v \in Eligible(q) :
                  /\ Coordinate(v) = <<cards[q][i].slug, cards[q][i].version>>
                  /\ LacksALexeme(v, Request(q)) => ContainsTheText(v, Request(q))
    <3>1. PICK v \in DOMAIN snapshot[q], t \in started[q] .. clock : Shows(q, i, v, t)
      BY <2>1 DEF CardsOK
    <3>2. v \in Wanted(q)
      BY <3>1, WantedIsMeant DEF Shows
    <3>3. v \in Eligible(q) /\ SaysTheText(v, Request(q))
      BY <3>2 DEF Wanted
    <3> QED
      BY <3>1, <3>3 DEF Shows, CardOf, Coordinate, SaysTheText
  <2>3. ASSUME Len(cards[q]) < asked[q].query.limit, NEW v \in Eligible(q),
               ContainsTheText(v, Request(q))
        PROVE  \E i \in DOMAIN cards[q] : cards[q][i].slug = Authored[v].slug
    <3>1. /\ v \in DOMAIN snapshot[q]
          /\ Meets(v, asked[q].query, since[q], snapshot[q])
      <4>1. v \in Wanted(q)
        BY <2>3 DEF Wanted, SaysTheText
      <4> QED
        BY <4>1, WantedIsMeant
    <3>2. PICK i \in DOMAIN found[q] :
              found[q][i].row.slug = RankOf(v, asked[q].query, snapshot[q]).row.slug
      <4>1. RankOf(v, asked[q].query, snapshot[q])
                \in Candidates(asked[q].query, since[q], snapshot[q])
        BY <2>1, <3>1, CandidatesAreMeant DEF CardsOK, AcceptedAt, Accepted
      <4>2. Len(found[q]) < asked[q].query.limit /\ Len(found[q]) \in Nat
        BY <2>1, <2>3 DEF CardsOK
      <4>3. Len(found[q]) # asked[q].query.limit
        BY <2>1, <4>2 DEF CardsOK, AcceptedAt, Accepted, SkillSearchQuery
      <4> QED
        BY <2>1, <4>1, <4>3 DEF CardsOK, Found, Answers
    <3>3. RankOf(v, asked[q].query, snapshot[q]).row.slug = Authored[v].slug
      BY <2>1, <3>1, RowFields DEF CardsOK, DocumentsOK, RankOf, Scored, RowOf
    <3>4. cards[q][i].slug = found[q][i].row.slug
      BY <2>1, <3>2, ShownSlug
    <3> QED
      BY <2>1, <3>2, <3>3, <3>4 DEF CardsOK
  <2> QED
    BY <2>2, <2>3
<1> QED
  BY <1>1, SearchInvInductive, PTL

(* For any documents: no slug is returned twice, each is represented by    *)
(* its best wanted version, the cards come best first, and a slug is left  *)
(* out only if the answer is full of better ones.                          *)
THEOREM BestComeFirst == Spec => []BestCandidatesFirst
<1>1. SearchInv => BestCandidatesFirst
  <2> SUFFICES ASSUME SearchInv, NEW q \in Searchers, HasCards(q)
               PROVE  /\ \A i, j \in DOMAIN found[q] : i < j =>
                            /\ cards[q][i].slug # cards[q][j].slug
                            /\ Better(found[q][i], found[q][j])
                      /\ \A v \in Wanted(q) :
                            \/ \E i \in DOMAIN found[q] :
                                 /\ cards[q][i].slug = Authored[v].slug
                                 /\ ~Better(RankOf(v, asked[q].query, snapshot[q]), found[q][i])
                            \/ /\ Len(found[q]) = asked[q].query.limit
                               /\ \A i \in DOMAIN found[q] :
                                    Better(found[q][i], RankOf(v, asked[q].query, snapshot[q]))
    BY DEF BestCandidatesFirst, RankOf, Request
  <2>1. CardsOK(q)
    BY CardsHeld
  <2>2. Answers(found[q], Candidates(asked[q].query, since[q], snapshot[q]), asked[q].query.limit)
    BY <2>1 DEF CardsOK, Found
  <2>3. \A i \in DOMAIN found[q] : cards[q][i].slug = found[q][i].row.slug
    BY <2>1, ShownSlug
  <2>4. \A i, j \in DOMAIN found[q] : i < j =>
            cards[q][i].slug # cards[q][j].slug /\ Better(found[q][i], found[q][j])
    BY <2>2, <2>3 DEF Answers
  <2>5. ASSUME NEW v \in Wanted(q)
        PROVE  \/ \E i \in DOMAIN found[q] :
                    /\ cards[q][i].slug = Authored[v].slug
                    /\ ~Better(RankOf(v, asked[q].query, snapshot[q]), found[q][i])
               \/ /\ Len(found[q]) = asked[q].query.limit
                  /\ \A i \in DOMAIN found[q] :
                       Better(found[q][i], RankOf(v, asked[q].query, snapshot[q]))
    <3>1. /\ v \in DOMAIN snapshot[q]
          /\ Meets(v, asked[q].query, since[q], snapshot[q])
      BY WantedIsMeant
    <3>2. RankOf(v, asked[q].query, snapshot[q])
              \in Candidates(asked[q].query, since[q], snapshot[q])
      BY <2>1, <3>1, CandidatesAreMeant DEF CardsOK, AcceptedAt, Accepted
    <3>3. RankOf(v, asked[q].query, snapshot[q]).row.slug = Authored[v].slug
      BY <2>1, <3>1, RowFields DEF CardsOK, DocumentsOK, RankOf, Scored, RowOf
    <3> QED
      BY <2>2, <2>3, <3>2, <3>3 DEF Answers
  <2> QED
    BY <2>4, <2>5
<1> QED
  BY <1>1, SearchInvInductive, PTL
=============================================================================
