\* Two publishes of one skill, with relationship selectors.
CONSTANTS
    Profile <- DefaultProfile
    Requests = {r1, r2}
    Slugs = {"alpha"}
    Versions = {"1.0.0", "2.0.0"}
    Digests = {"d1", "d2"}
    Commands <- OneSkillCommands
    None = None
SYMMETRY Symmetry
SPECIFICATION Spec
INVARIANTS
    AlreadyExistsMeansSkillExists
CHECK_DEADLOCK FALSE
