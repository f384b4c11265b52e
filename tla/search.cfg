\* One search beside a publish, a status update and the passing of time.
CONSTANTS
    Profile <- DefaultProfile
    Slugs = {"a", "A", "b_"}
    Versions = {"1.0.0", "1.1.0"}
    Constraints = {}
    Markers = {}
    Words <- SearchWords
    Values = {}
    Contents = {"short", "long"}
    ProfileNames = {"default"}
    Null = Null
    SlugText <- SlugTexts
    SizeOf <- Bytes
    LexemesOf <- Parsed
    Density <- DensityOf
    SlugPosition <- Collation
    DiscoveryLimit = 2
    Day = 2
    Releases = {1, 2, 3, 4}
    Authored <- FourVersions
    InitialDocuments <- ThreePublished
    Searchers = {q1}
    Discoveries <- RouteRequests
    Queries <- ServiceQueries
    MaxSkew = 1
    MaxClock = 2
    MaxChanges = 1
    None = None
SPECIFICATION Spec
INVARIANTS
    SearchTypeOK
    MatchesAreLiteral
    BestCandidatesFirst
    OnlyVisibleStatuses
    CardsExplainTheFilter
    AgeWithinWindow
    AnswersAreAudited
CHECK_DEADLOCK FALSE
