--------------------------- MODULE CatalogRecord ---------------------------
(***************************************************************************)
(* What a published version is made of: the request, the rows it is stored *)
(* in, its search document and what the exact reads make of the rows.      *)
(*                                                                         *)
(* A text is a word, its case and the white space around it: what the      *)
(* normalisers tell apart.  The six metadata attributes are copied from    *)
(* field to field unchanged, so one value stands for each.  Content is a   *)
(* token, with the token's digest and size.                                *)
(***************************************************************************)
EXTENDS Integers, Sequences, FiniteSets

CONSTANTS
    Slugs, Versions, Constraints, Markers,
    Words,          \* sequences of lowercase characters; the empty one is blank
    Values,         \* of metadata attributes
    Contents,       \* markdown bodies
    ProfileNames,
    Null,           \* an absent field, an SQL NULL
    SlugText,       \* a slug as a text: slugs differ in case too
    SizeOf          \* a content's length in UTF-8 bytes

Text == [word: Words, upper: BOOLEAN, padded: BOOLEAN]

ASSUME WordsAssumption == Words \subseteq Seq(STRING) /\ SlugText \in [Slugs -> Text]
ASSUME SizeAssumption == SizeOf \in [Contents -> Nat]
ASSUME NullAssumption == Null \notin Int

Optional(S) == S \cup {Null}

Strip(text) == [text EXCEPT !.padded = FALSE]
Lower(text) == [text EXCEPT !.upper = FALSE]
Blank(text) == text.word = <<>>

\* normalize_text of the search document.
NormalizeText(text) == Lower(Strip(text))

\* The elements of seq at the given positions, in order.
AtPositions(seq, positions) ==
    [k \in 1..Cardinality(positions) |->
        seq[CHOOSE i \in positions : Cardinality({j \in positions : j <= i}) = k]]

\* seq sorted by Before, stably.
Sorted(seq, Before(_, _)) ==
    LET Ahead(j) == {k \in DOMAIN seq : \/ Before(seq[k], seq[j])
                                        \/ ~Before(seq[j], seq[k]) /\ k < j}
    IN  [i \in DOMAIN seq |-> seq[CHOOSE j \in DOMAIN seq : Cardinality(Ahead(j)) = i - 1]]
-----------------------------------------------------------------------------
(* The publish request and its validation.                                 *)

EdgeOrder == [depends_on |-> 0, extends |-> 1, conflicts_with |-> 2, overlaps_with |-> 3]
EdgeTypes == DOMAIN EdgeOrder

Attributes == {"headers", "inputs_schema", "outputs_schema",
               "token_estimate", "maturity_score", "security_score"}

Selector == [slug: Slugs, version: Optional(Versions),
             version_constraint: Optional(Constraints),
             optional: Optional(BOOLEAN), markers: Seq(Markers)]

\* A dependency names a version or a constraint; another relationship a version.
ValidDependency(selector) ==
    (selector.version = Null) # (selector.version_constraint = Null)

ValidRelation(selector) ==
    /\ selector.version # Null /\ selector.version_constraint = Null
    /\ selector.optional = Null /\ selector.markers = <<>>

Relationships ==
    {edges \in [EdgeTypes -> Seq(Selector)] :
        \A edge \in EdgeTypes : \A i \in DOMAIN edges[edge] :
            IF edge = "depends_on" THEN ValidDependency(edges[edge][i])
                                   ELSE ValidRelation(edges[edge][i])}

Metadata == [name: Text, description: Optional(Text), tags: Seq(Text),
             attributes: [Attributes -> Optional(Values)]]

\* Blank values are refused; an omitted trust tier is "untrusted".
ProvenanceInput ==
    [repo_url: {t \in Text : ~Blank(t)},
     commit_sha: {t \in Text : ~Blank(t) /\ ~t.padded},
     tree_path: Optional({t \in Text : ~Blank(t)}),
     publisher_identity: Optional({t \in Text : ~Blank(t)})]

PublishRequest(tiers) ==
    [slug: Slugs, version: Versions, raw_markdown: Contents, metadata: Metadata,
     trust_tier: tiers, provenance: Optional(ProvenanceInput),
     relationships: Relationships]

\* normalize_unique_tags: the first of equal tags, without the blank ones.
UniqueTags(tags) ==
    LET stripped == [i \in DOMAIN tags |-> Strip(tags[i])]
    IN  AtPositions(stripped, {i \in DOMAIN tags :
            ~Blank(stripped[i]) /\ \A j \in 1..(i - 1) : stripped[j] # stripped[i]})

ProvenanceMetadata ==
    [repo_url: Text, commit_sha: Text, tree_path: Optional(Text),
     publisher_identity: Optional(Text), policy_profile: ProfileNames]

ASSUME ProvenanceAssumption == Null \notin ProvenanceMetadata

NormalizedProvenance(provenance, profile) ==
    IF provenance = Null THEN Null
    ELSE [repo_url |-> Strip(provenance.repo_url),
          commit_sha |-> NormalizeText(provenance.commit_sha),
          tree_path |-> IF provenance.tree_path = Null THEN Null
                        ELSE Strip(provenance.tree_path),
          publisher_identity |-> IF provenance.publisher_identity = Null THEN Null
                                 ELSE Strip(provenance.publisher_identity),
          policy_profile |-> profile]
-----------------------------------------------------------------------------
(* The rows of one version.                                                *)

Digest(content) == <<"sha256", content>>
Size(content)   == SizeOf[content]

ContentRow(content) ==
    [raw_markdown |-> content, storage_size_bytes |-> Size(content),
     checksum_digest |-> Digest(content)]

MetadataRow(request) == [request.metadata EXCEPT !.tags = UniqueTags(request.metadata.tags)]

\* One row per authored selector, numbered from 0 within its edge type.
SelectorRows(edges) ==
    UNION {{[edge_type |-> edge, ordinal |-> i - 1, selector |-> edges[edge][i]] :
               i \in DOMAIN edges[edge]} : edge \in EdgeTypes}

VersionRow(request, profile) ==
    [slug |-> request.slug, version |-> request.version,
     content |-> ContentRow(request.raw_markdown),
     checksum_digest |-> Digest(request.raw_markdown),
     metadata_row |-> MetadataRow(request),
     trust_tier |-> request.trust_tier,
     provenance |-> NormalizedProvenance(request.provenance, profile),
     selectors |-> SelectorRows(request.relationships)]

TagSet(tags) == {NormalizeText(tags[i]).word : i \in {k \in DOMAIN tags : ~Blank(tags[k])}}

\* Its lifecycle_status is "published", its published_at the version's.
SearchDocument(request) ==
    LET metadata == MetadataRow(request)
        texts == {SlugText[request.slug], metadata.name}
                    \cup ({metadata.description} \ {Null})
                    \cup {metadata.tags[i] : i \in DOMAIN metadata.tags}
    IN  [slug |-> request.slug, version |-> request.version,
         normalized_slug |-> NormalizeText(SlugText[request.slug]).word,
         normalized_name |-> NormalizeText(metadata.name).word,
         description |-> metadata.description, tags |-> metadata.tags,
         normalized_tags |-> TagSet(metadata.tags),
         search_source |-> {NormalizeText(t).word : t \in texts},
         trust_tier |-> request.trust_tier,
         content_size_bytes |-> Size(request.raw_markdown), usage_count |-> 0]
-----------------------------------------------------------------------------
(* Reading the rows back.                                                  *)

\* The relationship is loaded in the order of the ordinals: rows of several
\* edge types with one ordinal come in any order.
Arrangements(rows) ==
    {seq \in [1..Cardinality(rows) -> rows] :
        /\ \A row \in rows : \E i \in DOMAIN seq : seq[i] = row
        /\ \A i, j \in DOMAIN seq : i < j => seq[i].ordinal <= seq[j].ordinal}

SortBefore(a, b) ==
    \/ EdgeOrder[a.edge_type] < EdgeOrder[b.edge_type]
    \/ a.edge_type = b.edge_type /\ a.ordinal < b.ordinal

SortRelationshipSelectors(seq) == Sorted(seq, SortBefore)

\* to_provenance, _provenance_response: the trust context names the profile
\* the version was published under.
ProvenanceResponse(row) == row.provenance

MetadataResponse(row, status) ==
    [slug |-> row.slug, version |-> row.version,
     version_checksum |-> row.checksum_digest,
     content_checksum |-> row.content.checksum_digest,
     size_bytes |-> row.content.storage_size_bytes,
     metadata |-> row.metadata_row, lifecycle_status |-> status,
     trust_tier |-> row.trust_tier, provenance |-> ProvenanceResponse(row)]

ContentResponse(row) ==
    [raw_markdown |-> row.content.raw_markdown, etag |-> row.content.checksum_digest,
     content_length |-> row.content.storage_size_bytes]

IsRelationship(row) == row.edge_type \in EdgeTypes

IsDependency(row) == row.edge_type = "depends_on"

ResolutionResponse(row, arrangement) ==
    LET sorted == SortRelationshipSelectors(arrangement)
        dependencies == AtPositions(sorted, {i \in DOMAIN sorted : IsDependency(sorted[i])})
    IN  [slug |-> row.slug, version |-> row.version,
         depends_on |-> [i \in DOMAIN dependencies |-> dependencies[i].selector]]
=============================================================================
