----------------------------- MODULE MCNfs4State -----------------------------
(***************************************************************************)
(* Two clients with two owner strings each, one file of one byte, three    *)
(* stateids: enough for two clients to lock or to reserve in conflict, for *)
(* one lock-owner to lock under two opens, and for an open, its revocation *)
(* and another client's open in its place.                                 *)
(***************************************************************************)
EXTENDS Nfs4State, TLC

CONSTANTS c1, c2, w1, w2

ClientAndOwnerSymmetry == Permutations({c1, c2}) \cup Permutations({w1, w2})
=============================================================================
