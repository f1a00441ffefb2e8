-------------------------- MODULE MCCwmpSession --------------------------
(***************************************************************************)
(* Instances of CwmpSession for TLC.                                       *)
(***************************************************************************)
EXTENDS CwmpSession, TLC

CONSTANTS s1, s2, p1, p2, k1

OneTask == {1}
TwoTasks == {1, 2}
ThreeTasks == {1, 2, 3}
SecondTask == {2}
ThirdTask == {3}
TwoSessions == {s1, s2}

\* The sessions of a device are interchangeable.
SessionSymmetry == Permutations({s1, s2})
=============================================================================
