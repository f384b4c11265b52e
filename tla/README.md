# Verification of the Aptitude registry server

The server (`app/`) keeps immutable, versioned skills in PostgreSQL and serves
them over HTTP: publishing, lifecycle status updates, exact reads and ranked
discovery.  Requests run concurrently (FastAPI's threads, several processes); what
they share is the database, and within a process the settings, the SQLAlchemy
engine with its pool, the loggers and a few metrics.  The modules here model that
concurrency, and the decisions and projections made in the course of it.

## Inventory

Paths are relative to `app/` unless they say otherwise.

**Governance policy** (`core/governance.py`).  No state: a profile resolved from the
settings, and decisions on publishes, status transitions, exact reads and the
statuses discovery may ask for.  Correct when a decision depends on nothing but
its arguments and follows the documented order of refusals.

**Registry service, publish** (`core/skills/registry.py`, `persistence/
skill_registry_repository_writes.py`, `_base.py`, `_support.py`, `core/skills/
projections.py`).  State: the tables `skills`, `skill_contents`, `skill_metadata`,
`skill_versions`, `skill_relationship_selectors`, `skill_search_documents`,
`audit_events`.  One operation, `POST /skills/{slug}/versions`: the
policy, whose denial is audited in a transaction of its own; the lookup of the slug and
that of the version, each in a session that ends at once; and the write, which selects
or inserts the skill, selects or inserts the content, inserts metadata, version,
selectors, document and audit event, commits, and reloads.  Hard: every check is stale when the write runs;
inserts wait for other transactions' keys; any statement may fail, COMMIT may
take effect unacknowledged, the process may die; errors are classified after
the fact.  Correct when coordinates are immutable, publishes atomic, answers
reliable and denials audited.

**Registry service, lifecycle** (`core/skills/registry.py`,
`persistence/skill_registry_repository_status.py`).  State: `lifecycle_status` of
the version row and of its search document.  One operation,
`PATCH /skills/{slug}/versions/{version}/status`: a policy decision on a status
read in one session, then a transaction that loads the row again, updates row and
document, selects the current default and audits.  Hard: three reads of one
status at three moments, an ORM that writes only what differs from what it
loaded.  Correct when the policy is obeyed, row and document agree, the trail
explains both, and the answer's `is_current_default` is right.

**Audit** (`audit/recorder.py`, `core/audit_events.py`).  Appends events: inside
the caller's transaction for successes of publish and lifecycle, in one of its own for
denials, reads and searches.

**Exact reads** (`core/skills/exact_read.py`, `fetch.py`, `resolution.py`,
`persistence/skill_registry_repository_reads.py`).  Metadata, content and
resolution of one coordinate: row with status, policy, audit, answer, the database parts
each in a session of its own.  Hard: the status may change between them.  Correct when nothing is
served that was not allowed and audited, and what is served for a coordinate
never changes but for its status.

**Discovery and search** (`core/skills/discovery.py`, `search.py`, `intelligence/
search_ranking.py`, `persistence/skill_registry_repository_search.py`,
`_support.py`).  Filters over search documents, the best version per slug by a
nine-column order, a limit, explanations.  Hard: normalisation in four places, two
clocks read at three moments.  Correct when it shows only statuses the
caller may see, one version per slug, in a total order; LIKE patterns match
literally.

**Authentication** (`core/dependencies.py`): the caller of a token; scope
dependencies per route.

**Settings** (`core/settings.py`).  State: one memoised object per process.  Hard: who
read them first, and when.  Correct when a lifespan works with one version of them.

**Database engine** (`persistence/db.py`, `service_container.py`).  State: the module-level
engine, session factory and pool; init, dispose, ping.  Hard: they outlive a lifespan;
forty worker threads on fifteen connections, some held for a row's lock.
Correct when one pool is open per lifespan and everybody uses it.

**Readiness** (`observability/readiness.py`, `interface/api/health.py`): a probe pings
the database and sets a gauge.  **Request context** (`observability/context.py`,
`main.py`): context variables that each task and thread has a copy of.  **Logging and
metrics** (`observability/logging.py`, `metrics.py`): the process's logger tree,
configured at import and at each startup and disabled by migrations; two counters and
a gauge.  Correct when lines, events and counters tell of the request they belong to.

**Validation, projections and error envelopes** (`interface/validation.py`,
`interface/dto/`, `interface/api/errors.py`): stateless; they decide what a stored
version is made of and which code an answer carries.

## Plan

All steps are done.

1. `Governance`, `RegistryPublish`, `ImmutableCatalog` - publishing, the core.
2. `RegistryLifecycle` - status updates.
3. `RegistryReads`, over `CatalogRecord` - exact reads, composed with `RegistryLifecycle`
   through the rows and the pool; `AuditedRead` - the contract they implement.
4. `SearchRanking`, `SkillSearch` - the statement and the explanation of its rows as pure
   operators, and searches beside publishes, updates and time.
5. `LogRouting`, `ServerLifespan`, `RequestHandling` - the process's own shared state.
6. Proofs about the modules of 3 to 5: every safety property, action property and refinement
   that a passing run checks is a theorem.

What could still be added: a composition of `RegistryPublish` with `RegistryReads` over one
catalog; versions are immutable, so a publish meets a read only in whether the row is there.

## Modules

| module | models | instances for TLC |
| --- | --- | --- |
| `Governance` | policy profile and decisions, as operators | - |
| `RegistryPublish` | concurrent publishes, one SQL statement per step | `MCRegistryPublish` |
| `ImmutableCatalog` | abstract: what publishing promises | through `RegistryPublish!ImplementsCatalog` |
| `RegistryLifecycle` | concurrent status updates, one statement per step | `MCRegistryLifecycle` |
| `CatalogRecord` | request, rows, document and responses of a version, as operators | through the next ones |
| `RegistryReads` | exact reads beside `RegistryLifecycle`, on one pool | `MCRegistryReads` |
| `AuditedRead` | abstract: what an exact read promises | through `RegistryReads!ImplementsContract` |
| `SearchRanking` | normalisation, SQL conditions and order, explanations, as operators | through `SkillSearch` |
| `SkillSearch` | searches beside publishes, updates and time | `MCSkillSearch` |
| `LogRouting` | logger tree, handlers, lines, as operators | through the next ones |
| `ServerLifespan` | import, startup, shutdown, migration, settings, engine | through `RequestHandling` |
| `RequestHandling` | a request's path through the process | `MCServerProcess` |
| `RegistryPublishProofs`, `RegistryPublishOutcomes` | theorems about `RegistryPublish` | - |
| `RegistryLifecycleProofs`, `RegistryReadsProofs`, `SearchRankingProofs`, `SkillSearchProofs` | theorems about the module named | - |
| `ServerProcessProofs` | theorems about `ServerLifespan` and `RequestHandling` | - |
| `Counting` | lemmas about naturals and finite orders that several proofs use | - |

**RegistryPublish.**  A request has a program counter `pc` whose labels are the
database statements between which other requests can run; what lies between two
of them is one action.  `skills`, `contents`, `versions`, `docs` are the rows physically
in the tables, an uncommitted row being one whose `id`, the request that inserted
it, is not in `committed`.  `Visible` is what a READ COMMITTED statement sees
(PostgreSQL's default, which the engine does not change), `Durable` what a session of
its own sees.  An INSERT is enabled only when no row has its key; while an open
transaction holds the key neither `InsertX` nor `UniqueViolation` is, which is how
PostgreSQL waits; once the holder commits, `UniqueViolation` is enabled.  The metadata
row and the selector rows have no unique key and no reader here: metadata is
part of the version's step, the selectors are a label of their own because their
statements fail and are answered differently.  `Failure` has a statement fail anywhere,
COMMIT take effect unacknowledged, a reload fail after COMMIT, and the process die
between any two steps (`LOST`).  A denial is recorded in a transaction of its own
(`RecordDenial`), whose COMMIT may take effect unacknowledged too
(`RecordDenialUnacknowledged`): the event is on record and the answer an internal error.  A retry is another request with the same command.

**RegistryLifecycle.**  `status` and `doc` are committed values; `lock` is the row
lock that an UPDATE takes and the end of the transaction releases.  `previous`, `loaded`
and the lock's moment are the three times a request sees the status.  `StatusAfter`
is the ORM's: an UPDATE names `lifecycle_status` only if it differs from the
loaded one (`lifecycle_changed_at` always differs, so there always is an UPDATE).  The
document is loaded after the lock is held, so its value is always set.  Denials are recorded as
in `RegistryPublish`.

**CatalogRecord.**  `PublishRequest` is what validation lets through, `VersionRow` and
`SearchDocument` what `create_version` makes of it, `MetadataResponse`, `ContentResponse` and
`ResolutionResponse` what the exact reads make of the rows.  A text is a word, its case and
its padding, which is what the normalisers tell apart.

**RegistryReads.**  A read's label is its next database access; `seen` is the status its
first session found, on which policy, event and answer are all based; `trail` are the
durable events.  `CheckedOut` are the connections held between two steps: by open
updates, also while they wait for a row's lock, and by a read that still loads
selectors.  `window` is a history of the statuses of the row while the read was under way.

**SearchRanking, SkillSearch.**  The statement is a set of rows, filtered, scored, reduced to
the best row of each slug and cut off.  LIKE is defined character by character, with its
escapes; the full-text search enters by its use: `LexemesOf`, what PostgreSQL's parser makes of a
word (punctuation is lost, so `a_` and `a%` are one lexeme), and a density.
`SkillSearch` adds the moments: the clock before the statement, the statement's
snapshot, the clock after it, the event, the answer.  The discovery route leaves out most
filters that the service has; `AskService` uses these.

**LogRouting, ServerLifespan, RequestHandling.**  The first has the tree of loggers,
what `dictConfig`, the reset before it and alembic's `fileConfig` do to it, and which handlers a
record reaches with which fields.  The second has what happens once per process or
lifespan, `phase` being its place; a process may run the lifespan twice and migrations in between, as
the integration tests do; a log file that cannot be opened ends a startup (`LogFileFails`).  The third has a request's labels from the middleware to its
answer; each task and thread has its copy of the context, which is why `errorCode`
(`request.state`) is a variable of its own.  A handler has one of the outcomes its
route can have: the registry modules model what it does.  What the framework answers itself is there
too: a body that is no JSON is refused before the caller is authenticated (`ParseBody`), a method that a
route has not with 405, and outside the registry's routes the documentation, redirects, 404 and 405
(`Unrouted`).

**Data abstracted.**  Slugs, versions and digests are members of small sets; in
`RegistryPublish` provenance is none, valid or invalid and metadata and manifest are left
out (`CatalogRecord` has them).  The text
heuristic of `publish_version` is modelled by what it decides on the statements
that can fail (`PersistenceFailure`): a message quotes the failed SQL, and only
statements on the selector table have both words; words inside the parameters of a
request are not modelled.  IntegrityErrors that are not unique violations do not
occur: foreign keys resolve (`ReferencesResolve`), check constraints are what validation
already enforces.  A crash releases locks and rolls back at once, where PostgreSQL
needs to notice the lost connection first.  The six metadata attributes are copied
alike, so one value stands for each.  `usage_count` is 0, as nothing increments it.  In
`RequestHandling` one policy code stands for the three that a publish can be refused with, and
messages, details and durations are left out.  An environment variable that holds JSON is
taken to be set in one place only.  The libraries (LIKE, full-text search, the logging
package, the pool, the metrics client, alembic) are modelled as far as the code uses them.

## Runs

Requests send any command of a set, so a run is every assignment of commands in every
interleaving with every failure.

| run | instance | shows |
| --- | --- | --- |
| `publish_one_skill` | 3 publishes, 1 slug, 2 versions, 2 digests, both intents, refused callers | `TypeOK`, `ReferencesResolve`, `TransactionAtomicity`, `SkillsComeFromCreateSkill`, `DenialsAudited`, `ImplementsCatalog` |
| `publish_liveness` | 3 publishes, 2 slugs sharing content | `EveryRequestAnswered` |
| `publish_create_race` | 2 publishes | two `create_skill` of one slug both answered 201 |
| `publish_duplicate_reply` | 2 publishes | duplicate version reported of a skill that does not exist |
| `publish_false_failure` | 2 publishes | a stored publish is answered as a storage failure |
| `publish_false_exists` | 2 publishes | a failed statement on the selectors is answered as a slug that exists |
| `lifecycle` | 3 updates, 2 versions of a skill, an unknown version, a caller without the scope | `TypeOK`, `AuditExplainsStatus`, `AuditFollowsPolicy`, `DivergenceNeedsRepeatedTarget`, `ForbiddenOnlyWhenOvertaken`, `ArchivedIsNeverDefault`, `GapsAreOnRecord`, `DefaultStaleOnlyWhenRaced`, `EveryUpdateAnswered` |
| `lifecycle_unarchive` | 2 updates | an archived version does not stay archived |
| `lifecycle_discovery` | 4 updates | discovery finds a deprecated version as published |
| `reads` | 1 read of 7 (every surface, an unknown version, a caller without the scope), 2 updates of one version, 2 connections | `ReadTypeOK`, `ServedReadsAreAudited`, `OneStoryPerRead`, `ReadBackIsAsPublished`, `HoldersCanGoOn`, `EveryReadAnswered`, `ImplementsContract` |
| `search` | 1 search of 22, 4 versions of 3 skills, one published and one updated meanwhile, a day of 2 ticks, 2 ticks pass | `SearchTypeOK`, `MatchesAreLiteral`, `BestCandidatesFirst`, `OnlyVisibleStatuses`, `CardsExplainTheFilter`, `AgeWithinWindow`, `AnswersAreAudited` |
| `process` | 2 requests of 8, 2 startups in 2 processes, 4 settings files and 1 edit, the database goes away once | `ProcessTypeOK`, `OneVersionOfSettings`, `OnePoolPerLifespan`, `EachRecordOnce`, `LinesTellOneRequest`, `CountedOnce`, `GaugeNeverOverstates` |

Why these bounds: a race for a key needs two requests, a rolled-back holder that a
waiter and a later publish both see needs three; a request touches one row per
table, so a further slug or version adds no new conflict to one skill's.  Row and
document part ways with three updates already, but showing a deprecated version as
published needs four.  Reads change nothing that another read looks at, so one of them meets every
behaviour that updates can show it; two open updates, one waiting for the other's lock,
hold both connections.  Searches do not meet one another either; the words of `search` are
every character that LIKE treats specially, alone, before and after another, in the
query and in the names searched; its slugs differ in case only, and its limit is below
the number of slugs.  Two probes are what a race on the gauge needs; two startups, in one
process or in two, are one lifespan before and one after an edit, a failed startup, a
migration or a crash; the files are one that works, one that works differently, one whose
URL is refused and one that fails validation.  `MaxStartups`, `MaxProcesses`, `MaxEdits`,
`MaxFlips`, `MaxClock`, `MaxChanges` and `MaxSkew` bound the environment only.
The requests are symmetric in `publish_one_skill`, `process` and the violated runs of
publishes and updates; runs with a liveness property use no symmetry.  CHECK_DEADLOCK is off
because requests are finite in number and the system rests when all are answered.

`ImplementsCatalog` is the refinement to `ImmutableCatalog`: the catalog is the join of
the committed versions with the skill and content rows they refer to.  An entry is
appended only at a free coordinate and stays; 201 is answered only to the publisher of
an entry; a refusal (policy, scope, unknown skill, duplicate version) only to one
that has none and gets none.  `CONTENT_STORAGE_FAILURE`, `SKILL_ALREADY_EXISTS`, an
internal error or a lost answer promise nothing: each is also given to requests
that were stored, or whose skill does not exist.

`ImplementsContract` is the refinement to `AuditedRead`: a read takes effect at one moment
between request and answer, on the status `seen` then; the decision on that status is
on record once and before it is answered.  The mutant that records the row's status at
the time of the event instead of `seen` breaks it.

**Fairness.**  In `RegistryPublish` and `RegistryLifecycle`, weak fairness of
`Progress(r)` for each request: its thread keeps
running while its next statement is not blocked, and a blocked INSERT or UPDATE is
granted when its holder ends (PostgreSQL queues the waiters of a key or row).
Weak fairness is enough because a holder ends for good and only finitely many
requests compete.  In `RegistryReads` the same holds of `ReadProgress(q)`; a connection that is returned
goes to a thread that waits in the pool's queue, and as each request takes finitely many
connections, weak fairness is enough there too.  That there always is somebody to go on, whom
these conditions can push, is the safety property `HoldersCanGoOn`.  Nothing forces a request to arrive, to fail or to crash.
`SkillSearch` and `RequestHandling` have no fairness and no liveness property: nothing in
them waits for another actor except the shutdown for the requests in flight.

## What the violated runs show

- `_enforce_publish_intent` and `create_version` are separate transactions, and
  `_get_or_create_skill` adopts whatever it finds: two `create_skill` publishes of one
  slug with different versions both succeed, against the API contract.
- `is_duplicate_skill_version_error` takes any unique violation for the version key's:
  losing the race for a content digest, or for the slug itself, is answered
  `DUPLICATE_SKILL_VERSION`; the branch meant for the slug race is never reached.
- Under `create_skill` an error is taken for a duplicate slug if its text has "unique", "duplicate" or
  "constraint", and "slug".  The text quotes the statement, and those on the selector table name
  `target_slug` and `version_constraint`: their failure for whatever reason is answered
  `SKILL_ALREADY_EXISTS`, also for a slug that no skill has.
- The reload after COMMIT is inside the `try` whose handler reports that persistence
  failed: a stored version is reported as not stored, and its retry as a duplicate.
- A transition is decided on an unlocked read and not decided again: an archived
  version can become published or deprecated.
- The partial UPDATE lets row and document diverge, so that discovery and exact reads
  disagree on a version's status until its next update.

Met while modelling, and shown by no run: the middleware adds `X-Request-ID` to the answer that
`call_next` returns; when it raises, the plain 500 made outside of it has no such header, though
`docs/project/api-contract.md` has the server echo it on every response (`FailUnhandled`).

## Proofs

TLAPS checks these for any number of requests and any constants that satisfy
the named assumptions, which TLC evaluates on the instances.  They are of four kinds:

- types: `CommandsAssumption`, `ProfileAssumption`, `ReleasesAssumption`, `TargetsAssumption`,
  `ReadTargetsAssumption`, `AuthoredAssumption`, `InputsAssumption`, `CallsAssumption`,
  `EnvironmentAssumption`, `ProfilesAssumption`, `InteractiveAssumption`, `WordsAssumption` (a word
  is a sequence of strings, its characters), `LexemesAssumption` (any parser), `SizeAssumption`, `DensityAssumption`,
  `PositionAssumption`;
- a mark for nothing, or one actor, is none of what it stands beside: `NoneAssumption`,
  `NullAssumption`, `ProvenanceAssumption`, `UnsetAssumption`, `TextsAssumption`,
  `ReadersAssumption`;
- limits: `PoolAssumption`, `LimitAssumption`, `DayAssumption`, `BoundsAssumption`,
  `FlipsAssumption`, and finiteness of what is counted (`RequestsAssumption`,
  `DocumentsAssumption`);
- the logger names of the code: `AncestryAssumption`, `DescendantsAssumption`, `NamesAssumption`.

`Counting` holds what the proofs about data stand on.  The provers cannot use an induction theorem
whose parameter is an operator; `NaturalInduction` takes the set of numbers for which a claim
holds instead.  `Ranks` finds the elements of a finite set under a strict order by the number
of those ahead of them, which is how `ORDER BY` and `sorted` are modelled, and `Places` does so for
positions in a sequence.

`RegistryPublishProofs`.  The inductive invariant is `Typed /\ Sound`.  `Typed` adds to
`TypeOK` what each label implies (`Phases`: a request has a command once received,
holds a skill from `selectContent` on, has committed exactly when it reloads).  `Sound`
is `ReferencesResolve` and what makes it inductive: the tables' unique keys (`UniqueKeys`), that a row
belongs to a request that is committed or far enough in its transaction (`OwnRows`), and the rows a
transaction found are still there, committed or its own (`RowsHeld`).  That last part
is where the races are: a row that was found may belong to another request only if
that request has committed, so no rollback takes it away.

- `TypeCorrect`, `ReferencesNeverDangle`.

`RegistryPublishOutcomes` adds invariants next to it: `IntentKept`, `Pending` and
`Recorded` (documents and events are those of committed or denied requests).

- `WaitingIsAcyclic`: whoever holds the key that a request waits for is at a later
  statement (`HolderIsAhead`), so the request that is furthest waits for none.
- `OnlyCreateSkillCreates`, `PublishesAreAtomic`, `DenialsAreAudited`.
- `TablesImplementCatalog`.  The catalog equals what the
  committed requests asked for (`CatalogIsWhatWasAsked`), because references resolve to the
  named slug and digest; so COMMIT appends one entry, and `UniqueKeys` after the step
  makes its coordinate free.  Every other step leaves the catalog alone.

`RegistryLifecycleProofs`.  The inductive invariant is `TypeOK` with `Phases` (what a
request has at its label), `Decisions` (an open transaction was allowed on `previous`),
`Trail` (an event is the one its request makes, named after its decision) and `Held` (a
transaction past its UPDATE has the row's lock, and took no archived version for the
default).

- `TypeCorrect`, `TrailObeysPolicy`, `TrailExplainsStatus`, `OnlyTheOvertakenBreakPolicy`,
  `DefaultIsNotArchived`, for any profile; `OnlyRepeatedTargetsDiverge` for profiles in which
  no status may be set to itself, as in the default one
  (`DefaultProfileIsIrreflexive`).
- `TrailExplainsItsGaps`, from `Gaps`: what an open transaction has seen of its row has changed only
  by an update on record, as a status changes together with its event (`ChangesAreOnRecord`).
- `DefaultIsFreshUnlessRaced`, from `Defaults`: the row's own status is locked once the default is selected,
  so only an update of another version of the skill can make the answer stale.

`HoldersAreOpen`, a lemma there, is the converse of the first part of `Held`: a lock is always of
a transaction that is past its UPDATE of that row, however others have ended.

`RegistryReadsProofs`.  `UpdatesRunAsAlone`: every step of the composition is a step of
`RegistryLifecycle` or leaves it alone, since reads and the pool only restrict updates; so
every theorem about updates holds beside reads.  `ReadSound` is inductive next to it: `ReadPhases`
(what a read has at its label; `seen` is in `window`) and `ReadTrail` (an event is the one
that its read makes of what it saw, and a read about to be answered has its event).

- `ReadTypesCorrect`, `ReadsAreAudited`, `TrailIsUnambiguous`.
- `NobodyWaitsInVain`, for any size of the pool: if no connection is free, somebody holds one; a
  read between its two statements and an update past its lock wait for nothing, and an update
  that waits for a lock does so for such an update (`HoldersAreOpen`).
- `ReadBackCorrect`.  The keys of the sort, edge type and ordinal, are different for different rows of a
  version (`RowsAreSortable`), so the sort arranges them in one way whatever order they were loaded
  in (`SelectorsAreArranged`), and the dependencies among them stand at the places
  they were authored at (`RespondedInOrder`).  `BodiesOK` carries this from the answer on.
- `ReadsImplementContract`, one lemma per kind of step: the event becomes a record
  (`RecordImplemented`), the answers agree with it (`AnswerImplemented`), the rest
  stutters, takes effect or changes a status (`OtherStepsImplemented`).

`SearchRankingProofs` is about operators, for any rows and texts.

- `PatternsAreLiteral`: LIKE with the escaped pattern of a part matches exactly the texts that
  contain the part.  By induction over the part, each of its characters is in the
  pattern once, behind one escape if it is special (`EscapedAppended`: the later replacements do not escape the
  escapes of the earlier ones; `PatternLayout`), and by induction from the end of the pattern LIKE steps over
  these together (`PartsMatchLiterally`).
- `CandidatesAreTheBest`: the nine keys are a strict total order, as the last one is the primary key
  (`ScoredSetIsRankable`), so every slug has one best row, and cutting the ordered list off leaves out only
  what is worse than all the rest.
- `UniqueTagsKeepTheSet`: dropping repeated tags loses and adds none.

`SkillSearchProofs`: `SearchesAreAudited`, from `AuditInv`: a search's one event is the one it
would make now, as what it is made of no longer changes.  The other properties follow from `SearchInv`,
which is inductive: what a search holds at each label, from the request over the answer of one
snapshot to the cards made of it, and the moments between which this happened.

- `SearchesAreTyped`, `StatusesAreVisible`.
- `SearchesMatchLiterally`, for any parser: a document that lacks a lexeme of the query is found only if its slug or
  name contains the query as it was typed, and then always, unless the answer is full.  The rows that
  the statement's conditions leave are those of the documents that meet the request (`FilteredIsMeant`).
- `BestComeFirst`, from `CandidatesAreTheBest`.
- `CardsAreExplained`: the tags that validation keeps, that the document has, that the request asks for and that the
  explanation finds have the same normal forms.
- `AgesAreInTheWindow`: rounding days down and the two readings of the clock are on the safe side.

`ServerProcessProofs`.

- `SettingsAreOfTheStartup`: `SettingsInv` adds that the settings were valid, without which
  the active profile need not exist; `PolicyIsComplete` shows that merging any configured
  profile over the defaults leaves a rule for every tier.
- `PoolOfTheLifespan`: the property is inductive once the phases are known.
- `LinesAreOfTheirRequest`: `Story` says for each label what the middleware's context, the
  shared code and the response are; the property looks at them only after they were
  written.
- `RequestsAreCountedOnce`: `CountsRight` says it for any labels, `BornOK` that requests in flight
  belong to the running process, so that a restart, which loses the counters, loses the
  requests they counted.
- `GaugeIsEarned`: `GaugeInv` follows a probe from its ping to its report.
- `RecordsAreWrittenOnce`: configuring the loggers leaves nothing of what they were (`ConfiguredIsRouted`),
  and a record of a logger below a managed one stops there (`RecordStopsAtManaged`).
- `ProcessIsTyped`.

**Only model-checked.**  Liveness under fairness, and ENABLED, which TLAPS does not support:
`EveryRequestAnswered`, `EveryUpdateAnswered`, `EveryReadAnswered`.  What they need of safety is proved:
`WaitingIsAcyclic` for publishes, `NobodyWaitsInVain` for updates and reads.  The violated properties
are shown by their counterexamples.  No module has a RECURSIVE operator.

## Not modelled

- **Metrics exposition, documentation responses, examples** (`interface/api/operability.py`, `response_docs.py`,
  `interface/dto/examples.py`): output of what other modules keep, and text; no state
  and no decision.  The startup banner and the development runner likewise.
- **Migrations** run offline; the schema they leave is the tables' keys.  What their
  `fileConfig` does to the loggers is in `LogRouting`, as tests run them in process.
- **Messages and details of error envelopes**, durations, timestamps, a token's
  fingerprint and the provenance fields of audit events.  The patterns of slugs, versions and
  constraints, and the coercion of a variable's text, decide what is refused, not what happens
  to what is not.
- `is_visible_in_list` of the policy, which nothing calls.
- **uvicorn's own logging configuration**: the import of the application, which follows it,
  replaces it.

Looked at and left out, since this code cannot meet them: `ping` reads the engine twice without the
lock under which `dispose_engine` sets it to None, but a server that shuts down answers its requests
first; `init_engine` compares with a URL whose password is masked, but a startup always finds the
engine unset, as a shutdown disposes it and a failed startup never set it; a middleware task that
is cancelled leaves its context as it is, but each request has a task and a context of its own.
