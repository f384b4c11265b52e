\* An exact read beside two updates of the same version, on two connections.
CONSTANTS
    Profile <- DefaultProfile
    Requests = {r1, r2}
    Releases = {1, 2}
    Skills = {"alpha"}
    SkillOf <- OneSkill
    Targets <- ArchivingTargets
    None = None
    Slugs = {"alpha", "beta", "gamma"}
    Versions = {"1.0.0", "1.1.0"}
    Constraints = {">=1.0.0"}
    Markers = {"ci"}
    Words <- ReadsWords
    Values = {"json"}
    Contents = {"text"}
    ProfileNames = {"default", "strict"}
    Null = Null
    SlugText <- SlugsAsTexts
    SizeOf <- FourBytes
    Readers = {q1}
    ReadTargets <- ReadersTargets
    Authored <- TwoReleases
    PublishedUnder <- FirstUnderOldProfile
    PoolSize = 2
SPECIFICATION FairReadSpec
INVARIANTS
    ReadTypeOK
    ServedReadsAreAudited
    OneStoryPerRead
    ReadBackIsAsPublished
    HoldersCanGoOn
PROPERTIES
    EveryReadAnswered
    ImplementsContract
CHECK_DEADLOCK FALSE
