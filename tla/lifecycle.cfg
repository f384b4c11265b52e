\* Three concurrent updates of two versions of a skill.
CONSTANTS
    Profile <- DefaultProfile
    Requests = {r1, r2, r3}
    Releases = {1, 2}
    Skills = {"alpha"}
    SkillOf <- OneSkill
    Targets <- ContendingTargets
    None = None
SPECIFICATION FairSpec
INVARIANTS
    TypeOK
    AuditExplainsStatus
    AuditFollowsPolicy
    DivergenceNeedsRepeatedTarget
PROPERTIES
    ForbiddenOnlyWhenOvertaken
    ArchivedIsNeverDefault
    GapsAreOnRecord
    DefaultStaleOnlyWhenRaced
    EveryUpdateAnswered
CHECK_DEADLOCK FALSE
