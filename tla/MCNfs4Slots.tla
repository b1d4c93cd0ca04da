---------------------------- MODULE MCNfs4Slots -----------------------------
(***************************************************************************)
(* One slot, whose sequence ID wraps on the third request, and three       *)
(* transmissions: an original still running, its retry, and the next       *)
(* request with its own.                                                   *)
(***************************************************************************)
EXTENDS Nfs4Slots, TLC

CONSTANTS s1, k1, k2, k3

Plain == [cachethis |-> TRUE, size |-> "small", destroys |-> FALSE]
MCAsks == {Plain,
           [Plain EXCEPT !.size = "big"],
           [Plain EXCEPT !.size = "huge"],
           [Plain EXCEPT !.cachethis = FALSE],
           [Plain EXCEPT !.destroys = TRUE]}
Symmetry == Permutations({k1, k2, k3})
=============================================================================
