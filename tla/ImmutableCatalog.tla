-------------------------- MODULE ImmutableCatalog --------------------------
(***************************************************************************)
(* What publishing promises: an append-only catalog in which a coordinate  *)
(* slug@version is bound to one content digest for ever, and answers a     *)
(* publisher can rely on.  "CREATED" is given only to the publisher whose  *)
(* entry the catalog holds; an answer of Refusals only to one that has put *)
(* nothing there, and never will.  Every other answer promises nothing: it *)
(* leaves the publisher to look the coordinate up.                         *)
(***************************************************************************)
CONSTANTS
    Publishers, Slugs, Versions, Digests,
    Answers, Refusals,      \* all answers, and those that deny an entry
    None                    \* not an answer

VARIABLES catalog, answer

Entry == [slug: Slugs, version: Versions, digest: Digests, by: Publishers]

Init == catalog = {} /\ answer = [p \in Publishers |-> None]

SameCoordinate(e, f) == e.slug = f.slug /\ e.version = f.version

\* The catalog takes an entry of p: its first, at a free coordinate.
Append(p) ==
    \E e \in Entry :
        /\ e.by = p
        /\ \A f \in catalog : f.by # p /\ ~SameCoordinate(e, f)
        /\ catalog' = catalog \cup {e}

\* p is answered, once.
Reply(p) ==
    \E a \in Answers :
        /\ a = "CREATED" => \E e \in catalog' : e.by = p
        /\ a \in Refusals => \A e \in catalog' : e.by # p
        /\ answer' = [answer EXCEPT ![p] = a]

Step(p) ==
    /\ answer[p] = None
    /\ Append(p) \/ UNCHANGED catalog
    /\ Reply(p) \/ UNCHANGED answer

Next == \E p \in Publishers : Step(p)

Spec == Init /\ [][Next]_<<catalog, answer>>
=============================================================================
