---------------------------- MODULE MCConnection ----------------------------
(* Instances of Connection small enough to check. *)
EXTENDS Connection, TLC

MCMaxSent == ("nfs" :> 3) @@ ("9p" :> 4)
=============================================================================
