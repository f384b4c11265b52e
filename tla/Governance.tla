----------------------------- MODULE Governance -----------------------------
(***************************************************************************)
(* The policy decisions of app/core/governance.py as pure operators.       *)
(*                                                                         *)
(* A caller is the set of scopes its token maps to.  Provenance metadata   *)
(* is "none", "valid" or "invalid": what normalisation tells apart (a      *)
(* blank field or a commit sha that is not 7..64 hexadecimal digits is     *)
(* invalid).  A decision is "ALLOWED" or the code of the PolicyViolation   *)
(* that is raised.                                                         *)
(***************************************************************************)
CONSTANT
    \* @type: the active policy profile, resolved from the settings
    Profile

Scopes      == {"read", "publish", "admin"}
TrustTiers  == {"untrusted", "internal", "verified"}
Statuses    == {"published", "deprecated", "archived"}
Provenances == {"none", "valid", "invalid"}

PolicyProfile ==
    [publish_rules: [TrustTiers -> [required_scope: Scopes,
                                    provenance_required: BOOLEAN]],
     lifecycle_transitions: [Statuses -> SUBSET Statuses],
     discovery_default_statuses: SUBSET Statuses,
     discovery_read_statuses:    SUBSET Statuses,
     discovery_admin_statuses:   SUBSET Statuses,
     exact_read_statuses:        SUBSET Statuses]

\* GovernancePolicy.__init__ refuses a profile without a rule for every tier.
ASSUME ProfileAssumption == Profile \in PolicyProfile

DefaultProfile ==
    [publish_rules |->
        [tier \in TrustTiers |->
            [required_scope |-> IF tier = "verified" THEN "admin" ELSE "publish",
             provenance_required |-> tier # "untrusted"]],
     lifecycle_transitions |->
        [status \in Statuses |->
            IF status = "archived" THEN {}
                                   ELSE {"published", "deprecated", "archived"} \ {status}],
     discovery_default_statuses |-> {"published"},
     discovery_read_statuses    |-> {"published", "deprecated"},
     discovery_admin_statuses   |-> Statuses,
     exact_read_statuses        |-> {"published", "deprecated"}]

HasScope(caller, scope) == "admin" \in caller \/ scope \in caller

\* Provenance is normalised before the scope is looked at, so an invalid one
\* is reported even to a caller that may not publish the tier at all.
PublishDecision(caller, tier, provenance) ==
    LET rule == Profile.publish_rules[tier]
    IN  IF provenance = "invalid" THEN "POLICY_PROVENANCE_INVALID"
        ELSE IF ~HasScope(caller, rule.required_scope) THEN "POLICY_PUBLISH_FORBIDDEN"
        ELSE IF rule.provenance_required /\ provenance = "none" THEN "POLICY_PROVENANCE_REQUIRED"
        ELSE "ALLOWED"

TransitionAllowed(caller, current, next) ==
    /\ HasScope(caller, "admin")
    /\ next \in Profile.lifecycle_transitions[current]

\* Beside the profile's statuses, administrators read archived versions.
ExactReadAllowed(caller, stored) ==
    \/ stored \in Profile.exact_read_statuses /\ HasScope(caller, "read")
    \/ stored = "archived" /\ HasScope(caller, "admin")

\* Without requested statuses the profile's default ones are searched, unchecked.
DiscoveryUnchecked(caller, requested) == TRUE

DiscoveryAllowed(caller, requested) ==
    requested \subseteq (IF HasScope(caller, "admin") THEN Profile.discovery_admin_statuses
                                                     ELSE Profile.discovery_read_statuses)

DiscoveryStatuses(requested) ==
    IF requested = {} THEN Profile.discovery_default_statuses ELSE requested

DiscoveryTrustTiers(requested) == IF requested = {} THEN TrustTiers ELSE requested
=============================================================================
