------------------------------- MODULE NfsRpc -------------------------------
(***************************************************************************)
(* src/nfs/rpc.ts: the headers every NFS call and reply travels under.     *)
(***************************************************************************)
EXTENDS Wire

Message(w, r) == [write |-> w, read |-> r]

\* A credential or a verifier: its flavor and up to 400 bytes nobody here opens.
writeAuth(f) == Sub(f, <<U32("flavor"), Opaque("body")>>)
readAuth(f) == Sub(f, <<U32("flavor"), AtMost(400, Opaque("body"))>>)   \* RPC_MAX_AUTH_BYTES
writeNoAuth(f) == Sub(f, <<Known("flavor", 0, 4), NoData("body")>>)

AuthSys ==
  Message(<<U32("stamp"), Opaque("machineName"), U32("uid"), U32("gid"), Array("gids", <<U32("gid")>>)>>,
          <<U32("stamp"), AtMost(255, Opaque("machineName")), U32("uid"), U32("gid"),
            AtMost(16, Array("gids", <<U32("gid")>>))>>)

\* mtype 0 is a call, and the version of RPC is always 2.
Call ==
  Message(<<U32("xid"), Const(0, 4), Known("rpcVersion", 2, 4)>> \o U32s(<<"program", "version", "procedure">>)
            \o <<writeAuth("cred"), writeAuth("verf"), Rest("args")>>,
          <<U32("xid"), Const(0, 4), U32("rpcVersion")>> \o U32s(<<"program", "version", "procedure">>)
            \o <<readAuth("cred"), readAuth("verf"), Rest("args")>>)

\* A reply: accepted (0), under a status of which PROG_MISMATCH, 2, says what
\* versions there are, and what follows it is left to the caller to read; or
\* denied (1), because of the version of RPC (0) or of the credential (1).
Reply ==
  <<U32("xid"), Const(1, 4),
    Union("replyStat",
      Arms({0}, <<readAuth("verf"),
                  Switch("acceptStat", Arms({0}, <<Rest("results")>>)
                                       @@ Arms({2}, U32s(<<"low", "high">>)), <<>>)>>)
      @@ Arms({1}, <<Union("rejectStat", Arms({0}, U32s(<<"low", "high">>)) @@ Arms({1}, <<U32("authStat")>>))>>))>>

ACCEPTED_REPLY_HEADER_SIZE == 24
\* The header of a successful reply and, written before it, its results.
acceptedReply ==
  <<U32("xid"), Const(1, 4),
    Union("replyStat", Arms({0}, <<writeNoAuth("verf"),
                                   Union("acceptStat", Arms({0}, <<Rest("results")>>))>>))>>
acceptError ==
  <<U32("xid"), Const(1, 4),
    Union("replyStat", Arms({0}, <<writeNoAuth("verf"),
                                   Union("acceptStat", Arms({2}, U32s(<<"low", "high">>))
                                                       @@ Arms({1, 3, 4, 5}, <<>>))>>))>>
authError ==
  <<U32("xid"), Const(1, 4),
    Union("replyStat", Arms({1}, <<Union("rejectStat", Arms({1}, <<U32("authStat")>>))>>))>>
rpcMismatch ==
  <<U32("xid"), Const(1, 4),
    Union("replyStat", Arms({1}, <<Union("rejectStat", Arms({0}, U32s(<<"low", "high">>)))>>))>>

-----------------------------------------------------------------------------
(* The record around a message on a stream: its length and the flag of its *)
(* last fragment.  Nothing of a record is handed on before all of it came. *)

frameRecord(m) == [m EXCEPT !.bytes = Num(Len(@), 4) \o @]
Assembled(items, bytes) ==
  LET mark == ReadBy(<<LenOf("record", 4)>>, bytes)
  IN  IF ~mark.ok \/ Len(bytes) < 4 + mark.env.record THEN Refused(Start)
      ELSE ReadBy(items, SubSeq(bytes, 5, 4 + mark.env.record))
=============================================================================
