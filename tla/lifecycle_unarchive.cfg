\* Two concurrent updates of a skill.
CONSTANTS
    Profile <- DefaultProfile
    Requests = {r1, r2}
    Releases = {1, 2}
    Skills = {"alpha"}
    SkillOf <- OneSkill
    Targets <- ContendingTargets
    None = None
SYMMETRY Symmetry
SPECIFICATION Spec
INVARIANTS
    ArchivedIsFinal
CHECK_DEADLOCK FALSE
