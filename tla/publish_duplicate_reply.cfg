\* Two skills published with the same content.
CONSTANTS
    Profile <- DefaultProfile
    Requests = {r1, r2}
    Slugs = {"alpha", "beta"}
    Versions = {"1.0.0"}
    Digests = {"d1", "d2"}
    Commands <- RaceCommands
    None = None
SYMMETRY Symmetry
SPECIFICATION Spec
INVARIANTS
    DuplicateMeansVersionExists
CHECK_DEADLOCK FALSE
