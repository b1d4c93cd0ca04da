-------------------------- MODULE MCNfs4OpenHandles --------------------------
(***************************************************************************)
(* Two open-owners and two COMPOUNDs at a time: one owner opens, upgrades, *)
(* closes and opens again while the other's state is revoked.              *)
(***************************************************************************)
EXTENDS Nfs4OpenHandles, TLC

CONSTANTS t1, t2, w1, w2

Symmetry == Permutations({t1, t2}) \cup Permutations({w1, w2})
=============================================================================
