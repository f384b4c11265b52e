------------------------ MODULE MCRegistryLifecycle -------------------------
(***************************************************************************)
(* Instances of RegistryLifecycle for TLC: releases 1 and 2 are versions   *)
(* of one skill.                                                           *)
(***************************************************************************)
EXTENDS RegistryLifecycle, TLC

OneSkill == [v \in Releases |-> "alpha"]

ByAdmin(releases) ==
    {[release |-> v, status |-> s, caller |-> {"admin"}] : v \in releases, s \in Statuses}

\* Every update of release 1, an update of another version of its skill, one
\* of a version that does not exist, and one by a caller that may only publish.
ContendingTargets ==
    ByAdmin({1}) \cup {[release |-> 2, status |-> "archived", caller |-> {"admin"}],
                       [release |-> None, status |-> "archived", caller |-> {"admin"}],
                       [release |-> 1, status |-> "archived", caller |-> {"read", "publish"}]}

\* Administrators who deprecate a release and publish it again.
TogglingTargets == {t \in ByAdmin({1}) : t.status # "archived"}

Symmetry == Permutations(Requests)
=============================================================================
