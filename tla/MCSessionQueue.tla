--------------------------- MODULE MCSessionQueue ---------------------------
(***************************************************************************)
(* Instances of SessionQueue for TLC.                                      *)
(***************************************************************************)
EXTENDS SessionQueue, TLC

CONSTANTS s1, s2

OneTask == {1}
TwoTasks == {1, 2}
SecondTask == {2}
TwoSessions == {s1, s2}

\* The sessions of a device are interchangeable.
SessionSymmetry == Permutations({s1, s2})
=============================================================================
