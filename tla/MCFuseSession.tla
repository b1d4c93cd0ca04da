---------------------------- MODULE MCFuseSession ----------------------------
(***************************************************************************)
(* Two entries of the root and one under each, two requests at a time,     *)
(* over a driver with handles and inode numbers and one with neither.      *)
(***************************************************************************)
EXTENDS FuseSession, TLC

CONSTANTS t1, t2, a, b, c, i1, i2

MCPaths == {<<>>, <<a>>, <<b>>, <<a, c>>, <<b, c>>}
MCDrivers == {[handles |-> has, inos |-> has] : has \in BOOLEAN}
MCNumbering == {[handles |-> TRUE, inos |-> TRUE]}

Symmetry == Permutations({t1, t2}) \cup Permutations({a, b}) \cup Permutations({i1, i2})
=============================================================================
