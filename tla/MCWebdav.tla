------------------------------ MODULE MCWebdav ------------------------------
(***************************************************************************)
(* A collection a with a member leaf, and a second entry b: nothing, a file,  *)
(* or a collection with a member leaf of its own.                             *)
(***************************************************************************)
EXTENDS WebdavSession, TLC

CONSTANTS t1, t2, a, b, leaf, i1, i2, i3, i4, i5

MCPaths == {<<>>, <<a>>, <<b>>, <<a, leaf>>, <<b, leaf>>}

Made(i, dir) == [ino |-> i, dir |-> dir, mark |-> None]
Small == << Made(i1, TRUE), Made(i2, FALSE) >>
Named(atb, atbc) ==
  [e \in Entries |-> CASE e = <<a>> -> 1 [] e = <<a, leaf>> -> 2 [] e = <<b>> -> atb [] OTHER -> atbc]

Deep == {<<>>, <<a>>}
MCInit ==
  \E p \in Paths, depth \in {Zero, Infinity} :
    /\ p \notin Deep => depth = Zero
    /\ \/ p \notin {<<b>>, <<b, leaf>>} /\ InitWith(Small, Named(None, None), p, depth, TRUE)
       \/ InitWith(Small \o << Made(i3, TRUE), Made(i4, FALSE) >>, Named(3, 4), p, depth, TRUE)
MCSpec == MCInit /\ [][Next]_vars

Symmetry == Permutations({t1, t2})
=============================================================================
