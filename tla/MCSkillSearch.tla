--------------------------- MODULE MCSkillSearch ---------------------------
(***************************************************************************)
(* An instance of SkillSearch for TLC: four versions of three skills, two  *)
(* of whose slugs differ in case only, under names made of the characters  *)
(* that LIKE treats specially; a day of two ticks.                         *)
(***************************************************************************)
EXTENDS SkillSearch, TLC

Punctuation == {"%", "_", "\\"}

SearchWords ==
    {<<>>} \cup {<<c>> : c \in {"a"} \cup Punctuation}
           \cup {<<"a", "_">>, <<"a", "%">>, <<"\\", "%">>, <<"\\", "a">>,
                 <<"b", "_">>, <<"b", "a", "_">>}

\* In these words no punctuation stands between letters: what is left of one is one lexeme.
Letters(word) == SelectSeq(word, LAMBDA c : c \notin Punctuation)
Parsed == [word \in SearchWords |-> {Letters(word)} \ {<<>>}]

Plain(word) == [word |-> word, upper |-> FALSE, padded |-> FALSE]
Loud(word)  == [word |-> word, upper |-> TRUE, padded |-> TRUE]

SlugTexts == ("a" :> Plain(<<"a">>)) @@ ("A" :> [Plain(<<"a">>) EXCEPT !.upper = TRUE])
                @@ ("b_" :> Plain(<<"b", "_">>))
Collation == ("a" :> 1) @@ ("A" :> 2) @@ ("b_" :> 3)

Bytes == ("short" :> 1) @@ ("long" :> 2)

Skill(slug, version, name, tags, tier, content) ==
    [slug |-> slug, version |-> version, raw_markdown |-> content,
     metadata |-> [name |-> name, description |-> Null, tags |-> tags,
                   attributes |-> [a \in Attributes |-> Null]],
     trust_tier |-> tier, provenance |-> Null,
     relationships |-> [edge \in EdgeTypes |-> <<>>]]

FourVersions ==
    << Skill("a", "1.0.0", Plain(<<"a", "%">>), <<Loud(<<"a">>)>>, "untrusted", "long"),
       Skill("a", "1.1.0", Plain(<<"\\", "%">>), <<Plain(<<"a">>), Plain(<<"_">>)>>,
             "internal", "short"),
       Skill("A", "1.0.0", Loud(<<"\\", "a">>), <<Loud(<<"a">>)>>, "untrusted", "short"),
       Skill("b_", "1.0.0", Plain(<<"b", "a", "_">>), <<Loud(<<"_">>)>>, "verified", "short") >>

DensityOf == [v \in Releases |-> IF v = 1 THEN 2 ELSE 1]

Published(at) == [status |-> "published", published_at |-> at]
ThreePublished == (1 :> Published(-3)) @@ (2 :> Published(-2)) @@ (3 :> Published(-1))

Plainly ==
    [q |-> Null, tags |-> <<>>, language |-> Null, fresh_within_days |-> Null,
     max_footprint_bytes |-> Null, limit |-> 2, status |-> {}, trust_tier |-> {}]

ServiceQueries ==
    {[query |-> query, caller |-> {"read"}] : query \in
        {[Plainly EXCEPT !.q = <<Loud(word)>>, !.limit = 4] : word \in SearchWords}
        \cup {[Plainly EXCEPT !.fresh_within_days = 1],
              [Plainly EXCEPT !.fresh_within_days = 0],
              [Plainly EXCEPT !.fresh_within_days = 1, !.language = Loud(<<"a">>)],
              [Plainly EXCEPT !.max_footprint_bytes = 1, !.tags = <<Loud(<<"a">>)>>],
              [Plainly EXCEPT !.q = <<Plain(<<"a">>)>>, !.trust_tier = {"untrusted", "internal"}],
              [Plainly EXCEPT !.status = {"published", "deprecated"}]}}
    \cup {[query |-> [Plainly EXCEPT !.status = Statuses], caller |-> caller] :
              caller \in {{"read"}, {"admin"}}}

Discovering(name, description, tags) ==
    [name |-> name, description |-> description, tags |-> tags]

RouteRequests ==
    {[request |-> Discovering(Loud(<<"a">>), Plain(<<>>), <<>>), caller |-> {"read"}],
     [request |-> Discovering(Plain(<<"a">>), Loud(<<"a", "_">>),
                              <<Loud(<<"_">>), Plain(<<"_">>)>>), caller |-> {"read"}],
     [request |-> Discovering(Plain(<<"a">>), Null, <<>>), caller |-> {"publish"}]}
=============================================================================
