--------------------------- MODULE MCNbiRequests ---------------------------
(***************************************************************************)
(* Instances of NbiRequests for TLC.                                       *)
(***************************************************************************)
EXTENDS NbiRequests, TLC

CONSTANTS s1, s2, c1, c2, p1

OneTask == {1}
ThreeTasks == {1, 2, 3}
TwoTasks == {1, 2}
TwoClients == {c1, c2}

\* Requests are interchangeable.
ClientSymmetry == Permutations({c1, c2})
=============================================================================
