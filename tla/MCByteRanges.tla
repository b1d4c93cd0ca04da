---------------------------- MODULE MCByteRanges ----------------------------
(***************************************************************************)
(* Two owners, two opens and four bytes, the last of which only a lock to  *)
(* the end of the file reaches: room for a range of one owner to be split  *)
(* in two around a range of the other.                                     *)
(***************************************************************************)
EXTENDS ByteRanges, TLC

CONSTANTS w1, w2, o1, o2

Symmetry == Permutations({w1, w2}) \cup Permutations({o1, o2})
=============================================================================
