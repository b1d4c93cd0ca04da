------------------------------ MODULE MCCodecs ------------------------------
(* The codecs at both sides of every version at which a FUSE layout changed. *)
EXTENDS Codecs

Minors == {3, 4, 8, 9, 12, 23, 32, 40}
MCContexts == [minor : Minors, setxattrExt : {FALSE}] \cup {[minor |-> 40, setxattrExt |-> TRUE]}
=============================================================================
