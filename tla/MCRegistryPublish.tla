------------------------- MODULE MCRegistryPublish --------------------------
(***************************************************************************)
(* Instances of RegistryPublish for TLC.                                   *)
(***************************************************************************)
EXTENDS RegistryPublish, TLC

\* An allowed publish; the provenance and the tier play no role after policy.
Publish(intent, slug, version, digest, related) ==
    [intent |-> intent, slug |-> slug, version |-> version, digest |-> digest,
     related |-> related, caller |-> {"publish"}, tier |-> "untrusted", provenance |-> "none"]

Plain == Publish("create_skill", "alpha", "1.0.0", "d1", FALSE)

\* The same by an administrator, whom every tier is open to.
Verified(command) ==
    [command EXCEPT !.caller = {"admin"}, !.tier = "verified", !.provenance = "valid"]

\* One skill: both intents, two versions, two digests; and publishes that the
\* scope dependency or the policy refuses, one for each reason.
OneSkillCommands ==
    UNION {{Publish(i, "alpha", v, "d1", TRUE), Verified(Publish(i, "alpha", v, "d2", TRUE))} :
           i \in Intents, v \in {"1.0.0", "2.0.0"}}
    \cup {[Plain EXCEPT !.caller = {"read"}],
          [Plain EXCEPT !.provenance = "invalid"],
          [Plain EXCEPT !.tier = "internal"],
          [Verified(Plain) EXCEPT !.caller = {"read", "publish"}]}

\* Publishes that wait for each other's slug, content and version keys.
ContendingCommands ==
    {Plain,
     Publish("create_skill", "beta", "1.0.0", "d1", FALSE),
     Publish("publish_version", "alpha", "1.0.0", "d2", FALSE),
     Publish("publish_version", "alpha", "1.0.0", "d1", FALSE)}

\* The smallest sets that show what the claims of documents and comments miss.
RaceCommands ==
    {Publish("create_skill", s, "1.0.0", "d1", FALSE) : s \in {"alpha", "beta"}}

SlugRaceCommands ==
    {Publish("create_skill", "alpha", v, "d1", FALSE) : v \in {"1.0.0", "2.0.0"}}

Symmetry == Permutations(Requests)
=============================================================================
