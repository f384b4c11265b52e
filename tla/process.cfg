\* Two requests beside the lifespan: two startups in two processes, one edit of the settings file.
CONSTANTS
    Profile <- DefaultProfile
    Descendants = {"app.main", "sqlalchemy.engine"}
    Ancestry <- LoggerTree
    Interactive = FALSE
    Unset = Unset
    Environments <- Containers
    SettingsFiles <- Files
    MalformedURLs = {"?"}
    PrintedURL <- Masked
    MaxStartups = 2
    MaxProcesses = 2
    MaxEdits = 1
    Requests = {r1, r2}
    Calls <- SomeCalls
    MaxFlips = 1
SYMMETRY AnyOrder
SPECIFICATION Spec
INVARIANTS
    ProcessTypeOK
    OneVersionOfSettings
    OnePoolPerLifespan
    EachRecordOnce
    LinesTellOneRequest
    CountedOnce
    GaugeNeverOverstates
CHECK_DEADLOCK FALSE
