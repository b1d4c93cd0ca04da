----------------------------- MODULE MCPathLock -----------------------------
(* PathLock with three readers and two writers that keep coming back. *)
EXTENDS PathLock

CONSTANTS r1, r2, r3, w1, w2
=============================================================================
