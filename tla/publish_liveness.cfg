\* Publishes of two skills that share content: each is answered.
CONSTANTS
    Profile <- DefaultProfile
    Requests = {r1, r2, r3}
    Slugs = {"alpha", "beta"}
    Versions = {"1.0.0"}
    Digests = {"d1", "d2"}
    Commands <- ContendingCommands
    None = None
SPECIFICATION FairSpec
PROPERTIES
    EveryRequestAnswered
CHECK_DEADLOCK FALSE
