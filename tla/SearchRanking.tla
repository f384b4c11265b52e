--------------------------- MODULE SearchRanking ---------------------------
(***************************************************************************)
(* Searching the search documents, as pure operators: normalisation of the *)
(* request, the conditions and the order of SEARCH_CANDIDATES_SQL and the  *)
(* explanation of its rows.                                                *)
(*                                                                         *)
(* Text is told apart character by character where LIKE does.  PostgreSQL's*)
(* full-text search enters by what it is used for: the lexemes its parser  *)
(* finds in a word, and how densely a document covers a query it matches.  *)
(***************************************************************************)
EXTENDS CatalogRecord, Governance

CONSTANTS
    LexemesOf,          \* the lexemes of a word under the 'simple' configuration, whose
                        \* parser drops punctuation or splits at it
    Density,            \* a document's ts_rank_cd for the queries it matches
    SlugPosition,       \* a slug's place in the order of the database's collation
    DiscoveryLimit,     \* 20
    Day                 \* ticks of the clock

ASSUME DayAssumption == Day \in Nat \ {0}
ASSUME LimitAssumption == DiscoveryLimit \in Nat \ {0}
ASSUME LexemesAssumption == LexemesOf \in [Words -> SUBSET Seq(STRING)]
ASSUME PositionAssumption == SlugPosition \in [Slugs -> Int]

SkillSearchQuery ==
    [q: Optional(Seq(Text)), tags: Seq(Text), language: Optional(Text),
     fresh_within_days: Optional(Nat), max_footprint_bytes: Optional(Nat),
     limit: Nat \ {0}, status: SUBSET Statuses, trust_tier: SUBSET TrustTiers]

SkillDiscoveryRequest ==
    [name: {t \in Text : ~Blank(t)}, description: Optional(Text), tags: Seq(Text)]

\* The validators of the discovery DTO and the query that the facade asks.
DiscoveryQuery(request) ==
    LET described == request.description # Null /\ ~Blank(request.description)
    IN  [q |-> IF described THEN <<Strip(request.name), Strip(request.description)>>
                            ELSE <<Strip(request.name)>>,
         tags |-> UniqueTags(request.tags), language |-> Null, fresh_within_days |-> Null,
         max_footprint_bytes |-> Null, limit |-> DiscoveryLimit,
         status |-> {}, trust_tier |-> {}]
-----------------------------------------------------------------------------
(* Normalised requests.                                                    *)

\* The normalised words of a query, without the blanks between them.
QueryWords(q) ==
    LET words == [i \in DOMAIN q |-> NormalizeText(q[i]).word]
    IN  AtPositions(words, {i \in DOMAIN q : words[i] # <<>>})

Joined(words) ==
    LET upTo[n \in 1..Len(words)] ==
            IF n = 1 THEN words[1] ELSE upTo[n - 1] \o <<" ">> \o words[n]
    IN  upTo[Len(words)]

NormalizeSearchText(q) ==
    IF q = Null \/ QueryWords(q) = <<>> THEN Null ELSE Joined(QueryWords(q))

TokenizeQuery(q) == IF q = Null THEN {} ELSE {QueryWords(q)[i] : i \in DOMAIN QueryWords(q)}

EffectiveTags(query) ==
    TagSet(query.tags) \cup
        (IF query.language = Null \/ Blank(query.language) THEN {}
         ELSE {NormalizeText(query.language).word})

NormalizeSearchRequest(query) ==
    [query_text |-> NormalizeSearchText(query.q), query_terms |-> TokenizeQuery(query.q),
     effective_tags |-> EffectiveTags(query),
     fresh_within_days |-> query.fresh_within_days,
     max_footprint_bytes |-> query.max_footprint_bytes, limit |-> query.limit]
-----------------------------------------------------------------------------
(* LIKE ... ESCAPE '\'.                                                    *)

Replace(text, character, by) ==
    LET upTo[n \in 0..Len(text)] ==
            IF n = 0 THEN <<>>
            ELSE upTo[n - 1] \o (IF text[n] = character THEN by ELSE <<text[n]>>)
    IN  upTo[Len(text)]

\* The pattern with the replacements in another order.
PatternEscapedLast(text) ==
    <<"%">> \o Replace(Replace(Replace(text, "%", <<"\\", "%">>), "_", <<"\\", "_">>),
                       "\\", <<"\\", "\\">>) \o <<"%">>

BuildContainsPattern(text) ==
    <<"%">> \o Replace(Replace(Replace(text, "\\", <<"\\", "\\">>), "%", <<"\\", "%">>),
                       "_", <<"\\", "_">>) \o <<"%">>

\* from[j]: the positions from which on text matches the pattern from j on.
Like(text, pattern) ==
    LET from[j \in 1..(Len(pattern) + 1)] ==
            IF j > Len(pattern) THEN {Len(text) + 1}
            ELSE CASE pattern[j] = "%" ->
                        {i \in 1..(Len(text) + 1) : \E k \in from[j + 1] : i <= k}
                   [] pattern[j] = "_" -> {i \in 1..Len(text) : i + 1 \in from[j + 1]}
                   [] pattern[j] = "\\" ->
                        {i \in 1..Len(text) : /\ j < Len(pattern) /\ text[i] = pattern[j + 1]
                                              /\ i + 1 \in from[j + 2]}
                   [] OTHER ->
                        {i \in 1..Len(text) : text[i] = pattern[j] /\ i + 1 \in from[j + 1]}
    IN  1 \in from[1]

Contains(text, part) ==
    \E i \in 0..(Len(text) - Len(part)) : SubSeq(text, i + 1, i + Len(part)) = part
-----------------------------------------------------------------------------
(* The statement.  A row joins a document with its status, its time of     *)
(* publication and its key.                                                *)

LexemesIn(words) == UNION {LexemesOf[word] : word \in words}

\* search_vector @@ plainto_tsquery: every lexeme of the query is one of the document's.
FullTextMatch(row, request) ==
    /\ LexemesIn(request.query_terms) # {}
    /\ LexemesIn(request.query_terms) \subseteq LexemesIn(row.search_source)

TextMatch(row, request) ==
    \/ request.query_text = Null
    \/ FullTextMatch(row, request)
    \/ request.query_text \in {row.normalized_slug, row.normalized_name}
    \/ \E text \in {row.normalized_slug, row.normalized_name} :
            Like(text, BuildContainsPattern(request.query_text))

Filtered(rows, request, filter) ==
    {row \in rows :
        /\ TextMatch(row, request)
        /\ request.effective_tags \subseteq row.normalized_tags
        /\ filter.published_after # Null => row.published_at >= filter.published_after
        /\ request.max_footprint_bytes # Null =>
                row.content_size_bytes <= request.max_footprint_bytes
        /\ row.lifecycle_status \in filter.lifecycle_statuses
        /\ row.trust_tier \in filter.trust_tiers}

Flag(condition) == IF condition THEN 1 ELSE 0

Scored(row, request) ==
    [row |-> row,
     exact_slug_match |-> Flag(row.normalized_slug = request.query_text),
     exact_name_match |-> Flag(row.normalized_name = request.query_text),
     lexical_score |-> IF FullTextMatch(row, request) THEN Density[row.skill_version_fk] ELSE 0,
     tag_overlap_count |-> Cardinality(request.effective_tags \cap row.normalized_tags)]

\* The ORDER BY, ascending columns negated.
RankKey(scored) ==
    <<scored.exact_slug_match, scored.exact_name_match, scored.lexical_score,
      scored.tag_overlap_count, scored.row.usage_count, scored.row.published_at,
      -scored.row.content_size_bytes, -SlugPosition[scored.row.slug],
      scored.row.skill_version_fk>>

Better(a, b) ==
    \E k \in DOMAIN RankKey(a) :
        /\ RankKey(a)[k] > RankKey(b)[k]
        /\ \A j \in 1..(k - 1) : RankKey(a)[j] = RankKey(b)[j]

\* The rows with skill_rank = 1.
BestOfSlugs(scored) ==
    {a \in scored : \A b \in scored : a.row.slug = b.row.slug => ~Better(b, a)}

Ordered(scored) ==
    [i \in 1..Cardinality(scored) |->
        CHOOSE a \in scored : Cardinality({b \in scored : Better(b, a)}) = i - 1]

Limited(seq, limit) == SubSeq(seq, 1, IF limit < Len(seq) THEN limit ELSE Len(seq))

\* The limit applied before the versions of a slug are collapsed.
CandidatesLimitedFirst(rows, request, filter) ==
    LET scored == {Scored(row, request) : row \in Filtered(rows, request, filter)}
        limited == Limited(Ordered(scored), request.limit)
    IN  Ordered(BestOfSlugs({limited[i] : i \in DOMAIN limited}))

SearchCandidates(rows, request, filter) ==
    LET scored == {Scored(row, request) : row \in Filtered(rows, request, filter)}
    IN  Limited(Ordered(BestOfSlugs(scored)), request.limit)
-----------------------------------------------------------------------------
(* The explanation of a row.                                               *)

MatchedTagsAsStored(row, request) ==
    {row.tags[i].word : i \in {k \in DOMAIN row.tags : ~row.tags[k].upper}}
        \cap request.effective_tags

MatchedTags(row, request) == TagSet(row.tags) \cap request.effective_tags

Reasons(scored) ==
    LET found == {reason \in {<<"exact_slug_match", scored.exact_slug_match>>,
                              <<"exact_name_match", scored.exact_name_match>>,
                              <<"text_match", scored.lexical_score>>,
                              <<"tag_filter_match", scored.tag_overlap_count>>} : reason[2] > 0}
    IN  IF found = {} THEN {"structured_filter_match"} ELSE {reason[1] : reason \in found}

MatchedFields(scored, request) ==
    LET row == scored.row
        Within(text) == \E term \in request.query_terms : Contains(text, term)
    IN  {field \in {"slug", "name", "description", "tags"} :
            CASE field = "slug" -> scored.exact_slug_match = 1 \/ Within(row.normalized_slug)
              [] field = "name" -> scored.exact_name_match = 1 \/ Within(row.normalized_name)
              [] field = "description" ->
                    row.description # Null /\ Within(NormalizeText(row.description).word)
              [] field = "tags" -> request.query_terms \cap TagSet(row.tags) # {}
                                        \/ MatchedTags(row, request) # {}}

AgeInDaysSigned(published_at, now) == (now - published_at) \div Day

\* Days told apart by their dates.
AgeInDates(published_at, now) ==
    IF published_at > now THEN 0 ELSE (now \div Day) - (published_at \div Day)

\* timedelta.days rounds down, as \div does.
FreshnessDays(published_at, now) ==
    IF published_at > now THEN 0 ELSE (now - published_at) \div Day

SkillSearchResult(scored, request, now) ==
    [slug |-> scored.row.slug, version |-> scored.row.version,
     lifecycle_status |-> scored.row.lifecycle_status, trust_tier |-> scored.row.trust_tier,
     published_at |-> scored.row.published_at,
     freshness_days |-> FreshnessDays(scored.row.published_at, now),
     content_size_bytes |-> scored.row.content_size_bytes,
     usage_count |-> scored.row.usage_count,
     matched_fields |-> MatchedFields(scored, request),
     matched_tags |-> MatchedTags(scored.row, request), reasons |-> Reasons(scored)]
=============================================================================
