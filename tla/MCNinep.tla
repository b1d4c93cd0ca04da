------------------------------- MODULE MCNinep -------------------------------
(***************************************************************************)
(* Two sessions on one tree: two entries of the root and one under a.      *)
(***************************************************************************)
EXTENDS NinepSession, TLC

CONSTANTS s1, s2, t1, t2, a, b, leaf, i1, i2, i3, w1, f1, f2, f3

MCPaths == {<<>>, <<a>>, <<b>>, <<a, leaf>>}

MCInit ==
  \/ \E atb \in {None, 1, 2} : InitWith(f1, f2, <<a>>, <<b>>, FALSE, atb)
  \/ \E atb \in {None, 2} : InitWith(f1, f2, <<a>>, <<b>>, TRUE, atb)
MCSpec == MCInit /\ [][Next]_vars

Symmetry == Permutations({t1, t2}) \cup Permutations({s1, s2})
=============================================================================
