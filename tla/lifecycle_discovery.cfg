\* Four concurrent updates of one release.
CONSTANTS
    Profile <- DefaultProfile
    Requests = {r1, r2, r3, r4}
    Releases = {1}
    Skills = {"alpha"}
    SkillOf <- OneSkill
    Targets <- TogglingTargets
    None = None
SYMMETRY Symmetry
SPECIFICATION Spec
INVARIANTS
    DiscoveryShowsOnlyPublished
CHECK_DEADLOCK FALSE
