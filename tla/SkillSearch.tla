---------------------------- MODULE SkillSearch ----------------------------
(***************************************************************************)
(* Searches beside the publishes and status updates that write the search  *)
(* documents: POST /discovery through SkillDiscoveryService, and           *)
(* SkillSearchService.search with the filters that no route passes to it   *)
(* yet.                                                                    *)
(*                                                                         *)
(* A search looks at the clock, takes its candidates in one statement,     *)
(* looks at the clock again for their age, records itself in a transaction *)
(* of its own and then answers.  Documents and clock move meanwhile.       *)
(* published_at is the database's clock, which may be ahead.               *)
(***************************************************************************)
EXTENDS SearchRanking

CONSTANTS
    Releases,           \* version ids
    Authored,           \* the publish request of each release
    InitialDocuments,   \* releases published before, with their published_at
    Searchers,
    Discoveries,        \* [request, caller] of the discovery route
    Queries,            \* [query, caller] put to the service itself
    MaxSkew,            \* the database's clock is at most this far ahead
    MaxClock, MaxChanges,   \* bounds of the environment
    None

ASSUME ReleasesAssumption == Releases \subseteq Int
ASSUME AuthoredAssumption == Authored \in [Releases -> PublishRequest(TrustTiers)]
ASSUME DensityAssumption == Density \in [Releases -> Nat]
ASSUME DocumentsAssumption ==
    /\ DOMAIN InitialDocuments \subseteq Releases /\ IsFiniteSet(DOMAIN InitialDocuments)
    /\ \A v \in DOMAIN InitialDocuments :
          InitialDocuments[v] \in [status: Statuses, published_at: Int]
ASSUME InputsAssumption ==
    /\ Discoveries \subseteq [request: SkillDiscoveryRequest, caller: SUBSET Scopes]
    /\ Queries \subseteq [query: SkillSearchQuery, caller: SUBSET Scopes]
ASSUME BoundsAssumption == MaxClock \in Nat /\ MaxChanges \in Nat /\ MaxSkew \in Nat

Replies == {"OK", "INSUFFICIENT_SCOPE", "POLICY_DISCOVERY_FORBIDDEN", "INTERNAL_ERROR", "LOST"}

ASSUME NoneAssumption == None \notin Replies

VARIABLES
    clock,
    documents,          \* [status, published_at] of the committed documents
    changes,            \* status updates so far, bounded
    pc, asked, reply,   \* per search; asked is its query and caller
    since,              \* published_after
    found,              \* the rows of its statement
    cards,              \* its results
    audit,              \* durable search events
    snapshot,           \* history: the documents its statement saw
    started             \* history: the clock when it began

vars == <<clock, documents, changes, pc, asked, reply, since, found, cards, audit, snapshot, started>>

Labels == {"idle", "select", "explain", "record", "respond", "done"}

Init ==
    /\ clock = 0
    /\ documents = InitialDocuments
    /\ changes = 0
    /\ pc = [q \in Searchers |-> "idle"]
    /\ asked = [q \in Searchers |-> None]
    /\ reply = [q \in Searchers |-> None]
    /\ since = [q \in Searchers |-> Null]
    /\ found = [q \in Searchers |-> <<>>]
    /\ cards = [q \in Searchers |-> <<>>]
    /\ audit = {}
    /\ snapshot = [q \in Searchers |-> None]
    /\ started = [q \in Searchers |-> 0]
-----------------------------------------------------------------------------
(* The other routes, as far as they write documents, and time.             *)
Tick ==
    /\ clock < MaxClock
    /\ clock' = clock + 1
    /\ UNCHANGED <<documents, changes, pc, asked, reply, since, found, cards, audit, snapshot, started>>

\* create_version commits the document with the version.
CommitPublish(v) ==
    /\ v \notin DOMAIN documents
    /\ \E ahead \in 0..MaxSkew :
          documents' = [w \in DOMAIN documents \cup {v} |->
              IF w = v THEN [status |-> "published", published_at |-> clock + ahead]
                       ELSE documents[w]]
    /\ UNCHANGED <<clock, changes, pc, asked, reply, since, found, cards, audit, snapshot, started>>

CommitStatus(v, next) ==
    /\ changes < MaxChanges
    /\ changes' = changes + 1
    /\ documents' = [documents EXCEPT ![v].status = next]
    /\ UNCHANGED <<clock, pc, asked, reply, since, found, cards, audit, snapshot, started>>
-----------------------------------------------------------------------------
Goto(q, label) == pc' = [pc EXCEPT ![q] = label] /\ UNCHANGED reply

Answer(q, code) ==
    /\ pc' = [pc EXCEPT ![q] = "done"]
    /\ reply' = [reply EXCEPT ![q] = code]

Request(q) == NormalizeSearchRequest(asked[q].query)

PublishedAfter(request) ==
    IF request.fresh_within_days = Null THEN Null
    ELSE clock - request.fresh_within_days * Day

(* The governance filters, and the moment that published_after is counted  *)
(* back from.  A forbidden search is not audited.                          *)
Search(q, query, caller) ==
    /\ asked' = [asked EXCEPT ![q] = [query |-> query, caller |-> caller]]
    /\ started' = [started EXCEPT ![q] = clock]
    /\ IF DiscoveryAllowed(caller, query.status)
       THEN /\ since' = [since EXCEPT ![q] = PublishedAfter(NormalizeSearchRequest(query))]
            /\ Goto(q, "select")
       ELSE Answer(q, "POLICY_DISCOVERY_FORBIDDEN") /\ UNCHANGED since
    /\ UNCHANGED <<clock, documents, changes, found, cards, audit, snapshot>>

\* get_read_caller comes before the handler.
RefuseCaller(q, query, caller) ==
    /\ asked' = [asked EXCEPT ![q] = [query |-> query, caller |-> caller]]
    /\ started' = [started EXCEPT ![q] = clock]
    /\ Answer(q, "INSUFFICIENT_SCOPE")
    /\ UNCHANGED <<clock, documents, changes, since, found, cards, audit, snapshot>>

Discover(q) ==
    /\ pc[q] = "idle"
    /\ \E d \in Discoveries :
          IF HasScope(d.caller, "read") THEN Search(q, DiscoveryQuery(d.request), d.caller)
                                        ELSE RefuseCaller(q, DiscoveryQuery(d.request), d.caller)

AskService(q) ==
    /\ pc[q] = "idle"
    /\ \E s \in Queries : Search(q, s.query, s.caller)

\* A document's row: what was written at publication, and what has changed.
DocumentRow(v, state) ==
    LET document == SearchDocument(Authored[v])
    IN  [field \in DOMAIN document \cup {"skill_version_fk", "lifecycle_status", "published_at"} |->
            CASE field = "skill_version_fk" -> v
              [] field = "lifecycle_status" -> state.status
              [] field = "published_at" -> state.published_at
              [] OTHER -> document[field]]

Filter(q) ==
    [published_after |-> since[q],
     lifecycle_statuses |-> DiscoveryStatuses(asked[q].query.status),
     trust_tiers |-> DiscoveryTrustTiers(asked[q].query.trust_tier)]

(* search_candidates: one statement, one snapshot.                         *)
Select(q) ==
    /\ pc[q] = "select"
    /\ found' = [found EXCEPT ![q] =
            SearchCandidates({DocumentRow(v, documents[v]) : v \in DOMAIN documents}, Request(q), Filter(q))]
    /\ snapshot' = [snapshot EXCEPT ![q] = documents]
    /\ Goto(q, "explain")
    /\ UNCHANGED <<clock, documents, changes, asked, since, cards, audit, started>>

Explain(q) ==
    /\ pc[q] = "explain"
    /\ cards' = [cards EXCEPT ![q] =
            [i \in DOMAIN found[q] |-> SkillSearchResult(found[q][i], Request(q), clock)]]
    /\ Goto(q, "record")
    /\ UNCHANGED <<clock, documents, changes, asked, since, found, audit, snapshot, started>>

SearchEvent(q) ==
    [by |-> q, scopes |-> asked[q].caller,
     query_present |-> Request(q).query_text # Null,
     tag_count |-> Cardinality(TagSet(asked[q].query.tags)),
     language_present |-> asked[q].query.language # Null /\ ~Blank(asked[q].query.language),
     limit |-> asked[q].query.limit, result_count |-> Len(cards[q])]

RecordLater(q) ==
    /\ pc[q] = "record"
    /\ Goto(q, "respond")
    /\ UNCHANGED <<clock, documents, changes, asked, since, found, cards, audit, snapshot, started>>

RecordSearch(q) ==
    /\ pc[q] = "record"
    /\ audit' = audit \cup {SearchEvent(q)}
    /\ Goto(q, "respond")
    /\ UNCHANGED <<clock, documents, changes, asked, since, found, cards, snapshot, started>>

Respond(q) ==
    /\ pc[q] = "respond"
    /\ Answer(q, "OK")
    /\ UNCHANGED <<clock, documents, changes, asked, since, found, cards, audit, snapshot, started>>

\* A statement fails or finds no connection.
Fail(q) ==
    /\ pc[q] \in {"select", "record"}
    /\ Answer(q, "INTERNAL_ERROR")
    /\ UNCHANGED <<clock, documents, changes, asked, since, found, cards, audit, snapshot, started>>

\* The event's commit takes effect, its acknowledgement fails.
RecordUnacknowledged(q) ==
    /\ pc[q] = "record"
    /\ audit' = audit \cup {SearchEvent(q)}
    /\ Answer(q, "INTERNAL_ERROR")
    /\ UNCHANGED <<clock, documents, changes, asked, since, found, cards, snapshot, started>>

Crash(q) ==
    /\ pc[q] \notin {"idle", "done"}
    /\ Answer(q, "LOST")
    /\ UNCHANGED <<clock, documents, changes, asked, since, found, cards, audit, snapshot, started>>

Next ==
    \/ Tick
    \/ \E v \in Releases : CommitPublish(v)
    \/ \E v \in DOMAIN documents, next \in Statuses : CommitStatus(v, next)
    \/ \E q \in Searchers :
          \/ Discover(q) \/ AskService(q) \/ Select(q) \/ Explain(q) \/ RecordSearch(q)
          \/ Respond(q) \/ Fail(q) \/ RecordUnacknowledged(q) \/ Crash(q)

Spec == Init /\ [][Next]_vars
-----------------------------------------------------------------------------
(* The type invariant.  An age is never negative, although published_at    *)
(* may lie ahead of the service's clock.                                   *)
SearchTypeOK ==
    /\ clock \in 0..MaxClock
    /\ DOMAIN documents \subseteq Releases
    /\ \A v \in DOMAIN documents : documents[v] \in [status: Statuses, published_at: Int]
    /\ pc \in [Searchers -> Labels]
    /\ reply \in [Searchers -> Replies \cup {None}]
    /\ since \in [Searchers -> Int \cup {Null}]
    /\ \A q \in Searchers : pc[q] = "idle" \/ Len(cards[q]) <= asked[q].query.limit
    /\ \A q \in Searchers : \A i \in DOMAIN cards[q] :
          /\ cards[q][i].slug \in Slugs /\ cards[q][i].version \in Versions
          /\ cards[q][i].freshness_days \in Nat

HasCards(q) == pc[q] \in {"record", "respond"} \/ reply[q] = "OK"

Coordinate(v) == <<Authored[v].slug, Authored[v].version>>

\* What a search asks for, in plain terms.
ContainsTheText(v, request) ==
    LET document == SearchDocument(Authored[v])
    IN  \/ Contains(document.normalized_slug, request.query_text)
        \/ Contains(document.normalized_name, request.query_text)

\* A query of punctuation alone has no lexeme that a document could lack.
LacksALexeme(v, request) ==
    \/ \A word \in request.query_terms : LexemesOf[word] = {}
    \/ \E lexeme \in LexemesIn(request.query_terms) :
          lexeme \notin LexemesIn(SearchDocument(Authored[v]).search_source)

SaysTheText(v, request) ==
    request.query_text # Null => ContainsTheText(v, request) \/ ~LacksALexeme(v, request)

Eligible(q) ==
    LET query == asked[q].query
        request == Request(q)
    IN  {v \in DOMAIN snapshot[q] :
            /\ request.effective_tags \subseteq TagSet(Authored[v].metadata.tags)
            /\ snapshot[q][v].status \in DiscoveryStatuses(query.status)
            /\ Authored[v].trust_tier \in DiscoveryTrustTiers(query.trust_tier)
            /\ since[q] # Null => snapshot[q][v].published_at >= since[q]
            /\ query.max_footprint_bytes # Null =>
                    Size(Authored[v].raw_markdown) <= query.max_footprint_bytes}

Wanted(q) == {v \in Eligible(q) : SaysTheText(v, Request(q))}

(* Full-text search, to which the punctuation of a query means nothing,    *)
(* finds the documents that have all its lexemes.  Any other document is   *)
(* found for its slug or name, and there the query is taken literally: it  *)
(* is found only if one of them contains the query as it was typed, be its *)
(* characters wildcards of LIKE or the escape character itself, and it is  *)
(* always found if one of them does, unless the answer is full.            *)
MatchesAreLiteral ==
    \A q \in Searchers : HasCards(q) /\ Request(q).query_text # Null =>
        /\ \A i \in DOMAIN cards[q] : \E v \in Eligible(q) :
                /\ Coordinate(v) = <<cards[q][i].slug, cards[q][i].version>>
                /\ LacksALexeme(v, Request(q)) => ContainsTheText(v, Request(q))
        /\ Len(cards[q]) < asked[q].query.limit =>
                \A v \in Eligible(q) : ContainsTheText(v, Request(q)) =>
                    \E i \in DOMAIN cards[q] : cards[q][i].slug = Authored[v].slug

(* No slug is returned twice, each is represented by its best wanted       *)
(* version, the cards come best first, and a slug is left out only if the  *)
(* answer is full of better ones.                                          *)
BestCandidatesFirst ==
    \A q \in Searchers : HasCards(q) =>
        LET shown == found[q]
            Rank(v) == Scored(DocumentRow(v, snapshot[q][v]), Request(q))
        IN  /\ \A i, j \in DOMAIN shown : i < j =>
                    cards[q][i].slug # cards[q][j].slug /\ Better(shown[i], shown[j])
            /\ \A v \in Wanted(q) :
                  \/ \E i \in DOMAIN shown :
                        cards[q][i].slug = Authored[v].slug /\ ~Better(Rank(v), shown[i])
                  \/ /\ Len(shown) = asked[q].query.limit
                     /\ \A i \in DOMAIN shown : Better(shown[i], Rank(v))

(* A caller is shown a version only in a state that the profile lets it    *)
(* discover, and only one the version had when the statement was run:      *)
(* never the state of an update that was not committed then.               *)
OnlyVisibleStatuses ==
    \A q \in Searchers : HasCards(q) => \A i \in DOMAIN cards[q] :
        /\ \/ cards[q][i].lifecycle_status \in
                    Profile.discovery_default_statuses \cup Profile.discovery_read_statuses
           \/ /\ "admin" \in asked[q].caller
              /\ cards[q][i].lifecycle_status \in Profile.discovery_admin_statuses
        /\ \E v \in DOMAIN snapshot[q] :
              /\ Coordinate(v) = <<cards[q][i].slug, cards[q][i].version>>
              /\ snapshot[q][v].status = cards[q][i].lifecycle_status

(* Tags are normalised when a version is published, when a search is put   *)
(* and when its rows are explained: the three agree, so a card names every *)
(* required tag as matched, and no card's reasons are left empty.          *)
CardsExplainTheFilter ==
    \A q \in Searchers : HasCards(q) => \A i \in DOMAIN cards[q] :
        /\ cards[q][i].matched_tags = Request(q).effective_tags
        /\ ("tag_filter_match" \in cards[q][i].reasons) = (Request(q).effective_tags # {})
        /\ cards[q][i].reasons # {}

(* A card's age exceeds the window that was asked for by no more than the  *)
(* search itself has taken, although the clock is read before the          *)
(* statement for the window and after it for the age.                      *)
AgeWithinWindow ==
    \A q \in Searchers : HasCards(q) /\ asked[q].query.fresh_within_days # Null =>
        \A i \in DOMAIN cards[q] :
            cards[q][i].freshness_days * Day <=
                asked[q].query.fresh_within_days * Day + (clock - started[q])

(* Results are returned only after they were recorded, with the caller and *)
(* the number of results; a search leaves at most one event, and none when *)
(* it was refused.                                                         *)
AnswersAreAudited ==
    /\ \A q \in Searchers : reply[q] = "OK" =>
          \E e \in audit : /\ e.by = q /\ e.scopes = asked[q].caller
                           /\ e.result_count = Len(cards[q])
    /\ \A e, f \in audit : e.by = f.by => e = f
    /\ \A e \in audit : reply[e.by] \notin {"INSUFFICIENT_SCOPE", "POLICY_DISCOVERY_FORBIDDEN"}
=============================================================================
