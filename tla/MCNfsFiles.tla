------------------------------ MODULE MCNfsFiles ------------------------------
(***************************************************************************)
(* Two entries of the root and one under each, two requests at a time; the *)
(* directory a is there at the start.                                      *)
(***************************************************************************)
EXTENDS NfsFiles, TLC

CONSTANTS t1, t2, a, b, leaf, i1, i2, i3, i4, v1, v2

MCPaths == {<<>>, <<a>>, <<b>>, <<a, leaf>>, <<b, leaf>>}

MCInit == \E atb \in {None, 2} : InitWith(<<a>>, <<a, leaf>>, <<b>>, v1, atb)
MCSpec == MCInit /\ [][Next]_vars

Symmetry == Permutations({t1, t2})
=============================================================================
