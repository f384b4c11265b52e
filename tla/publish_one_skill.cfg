\* Three concurrent publishes of one skill, some of them refused.
CONSTANTS
    Profile <- DefaultProfile
    Requests = {r1, r2, r3}
    Slugs = {"alpha"}
    Versions = {"1.0.0", "2.0.0"}
    Digests = {"d1", "d2"}
    Commands <- OneSkillCommands
    None = None
SYMMETRY Symmetry
SPECIFICATION Spec
INVARIANTS
    TypeOK
    ReferencesResolve
    TransactionAtomicity
    SkillsComeFromCreateSkill
    DenialsAudited
PROPERTIES
    ImplementsCatalog
CHECK_DEADLOCK FALSE
