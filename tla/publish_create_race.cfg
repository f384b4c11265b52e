\* Two create_skill publishes of one slug.
CONSTANTS
    Profile <- DefaultProfile
    Requests = {r1, r2}
    Slugs = {"alpha"}
    Versions = {"1.0.0", "2.0.0"}
    Digests = {"d1", "d2"}
    Commands <- SlugRaceCommands
    None = None
SYMMETRY Symmetry
SPECIFICATION Spec
INVARIANTS
    CreateSkillMeansNewSlug
CHECK_DEADLOCK FALSE
