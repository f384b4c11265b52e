--------------------------- MODULE MCRegistryReads ---------------------------
(***************************************************************************)
(* An instance of RegistryReads for TLC: two versions of a skill.  The     *)
(* first one was published with provenance and with three relationships,   *)
(* two of one edge type and two with the same ordinal.                     *)
(***************************************************************************)
EXTENDS RegistryReads, TLC

OneSkill == [v \in Releases |-> "alpha"]

ReadsWords == {<<>>, <<"lint">>, <<"sql">>} \cup {<<s>> : s \in Slugs}

Plain(word) == [word |-> word, upper |-> FALSE, padded |-> FALSE]
Loud(word)  == [word |-> word, upper |-> TRUE, padded |-> TRUE]

SlugsAsTexts == [s \in Slugs |-> Plain(<<s>>)]
FourBytes == [c \in Contents |-> 4]

DependencyOn(slug) ==
    [slug |-> slug, version |-> Null, version_constraint |-> ">=1.0.0",
     optional |-> TRUE, markers |-> <<"ci">>]

ExactlyOn(slug) ==
    [slug |-> slug, version |-> "1.0.0", version_constraint |-> Null,
     optional |-> Null, markers |-> <<>>]

NoRelationships == [edge \in EdgeTypes |-> <<>>]

Documented ==
    [name |-> Loud(<<"lint">>), description |-> Null,
     tags |-> <<Loud(<<"sql">>), Plain(<<"lint">>), Plain(<<>>), [Loud(<<"sql">>) EXCEPT !.padded = FALSE]>>,
     attributes |-> [a \in Attributes |-> IF a = "headers" THEN "json" ELSE Null]]

FirstRelease ==
    [slug |-> "alpha", version |-> "1.0.0", raw_markdown |-> "text",
     metadata |-> Documented, trust_tier |-> "internal",
     provenance |-> [repo_url |-> Plain(<<"sql">>), commit_sha |-> Plain(<<"lint">>),
                     tree_path |-> Null, publisher_identity |-> Loud(<<"sql">>)],
     relationships |-> [NoRelationships EXCEPT
                            !["depends_on"] = <<DependencyOn("gamma"), ExactlyOn("beta")>>,
                            !["conflicts_with"] = <<ExactlyOn("alpha")>>]]

SecondRelease ==
    [FirstRelease EXCEPT !.version = "1.1.0", !.trust_tier = "untrusted",
                         !.provenance = Null, !.relationships = NoRelationships]

TwoReleases == [v \in Releases |-> IF v = 1 THEN FirstRelease ELSE SecondRelease]
FirstUnderOldProfile == [v \in Releases |-> IF v = 1 THEN "default" ELSE "strict"]

\* Two administrators' updates of the first release.
ArchivingTargets ==
    {[release |-> 1, status |-> s, caller |-> {"admin"}] : s \in {"deprecated", "archived"}}

Reading(surface, release, caller) ==
    [surface |-> surface, release |-> release, caller |-> caller]

ReadersTargets ==
    {Reading(s, 1, {"read"}) : s \in Surfaces}
        \cup {Reading("content", 1, {"admin"}), Reading("metadata", 2, {"read"}),
              Reading("content", None, {"read"}), Reading("metadata", 1, {"publish"})}
=============================================================================
