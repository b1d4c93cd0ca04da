--------------------------- MODULE NinepProtocol ----------------------------
(***************************************************************************)
(* src/9p/protocol.ts and src/9p/wire.ts: the body of every 9P2000.L       *)
(* message, as its writer puts it together and its reader takes it apart,  *)
(* the frame around it, and the entries a directory page is made of.       *)
(***************************************************************************)
EXTENDS Wire

Message(w, r) == [write |-> w, read |-> r]

ReadQid(f) == Sub(f, <<U8("type"), U32("version"), U64("path")>>)
WriteQid(f) == Sub(f, <<U8("type"), U32("version"), U64("path")>>)
ReadTime(f) == Sub(f, <<U64("sec"), U64("nsec")>>)
WriteTime(f) == Sub(f, <<U64("sec"), U64("nsec")>>)

Version == Message(<<U32("msize"), String("version")>>, <<U32("msize"), String("version")>>)
Tauth == Message(<<U32("afid"), String("uname"), String("aname"), U32("nUname")>>,
                 <<U32("afid"), String("uname"), String("aname"), U32("nUname")>>)
Rauth == Message(<<WriteQid("aqid")>>, <<ReadQid("aqid")>>)
Tattach == Message(<<U32("fid"), U32("afid"), String("uname"), String("aname"), U32("nUname")>>,
                   <<U32("fid"), U32("afid"), String("uname"), String("aname"), U32("nUname")>>)
Rattach == Message(<<WriteQid("qid")>>, <<ReadQid("qid")>>)
Rlerror == Message(<<U32("ecode")>>, <<U32("ecode")>>)
Tflush == Message(<<U16("oldtag")>>, <<U16("oldtag")>>)
Twalk == Message(<<U32("fid"), U32("newfid"), CountOf("wnames", 2), Times("wnames", <<String("name")>>)>>,
                 <<U32("fid"), U32("newfid"), CountOf("wnames", 2), Times("wnames", <<String("name")>>)>>)
Rwalk == Message(<<CountOf("wqids", 2), Times("wqids", <<WriteQid("qid")>>)>>,
                 <<CountOf("wqids", 2), Times("wqids", <<ReadQid("qid")>>)>>)
Tread == Message(<<U32("fid"), U64("offset"), U32("count")>>, <<U32("fid"), U64("offset"), U32("count")>>)
Rread == Message(<<Blob("data")>>, <<Blob("data")>>)
Twrite == Message(<<U32("fid"), U64("offset"), Blob("data")>>, <<U32("fid"), U64("offset"), Blob("data")>>)
Rwrite == Message(<<U32("count")>>, <<U32("count")>>)
FidRequest == Message(<<U32("fid")>>, <<U32("fid")>>)
Rstatfs ==
  Message(U32s(<<"type", "bsize">>) \o U64s(<<"blocks", "bfree", "bavail", "files", "ffree", "fsid">>)
            \o <<U32("namelen")>>,
          U32s(<<"type", "bsize">>) \o U64s(<<"blocks", "bfree", "bavail", "files", "ffree", "fsid">>)
            \o <<U32("namelen")>>)
Tlopen == Message(<<U32("fid"), U32("flags")>>, <<U32("fid"), U32("flags")>>)
Rlopen == Message(<<WriteQid("qid"), U32("iounit")>>, <<ReadQid("qid"), U32("iounit")>>)
Tlcreate == Message(<<U32("fid"), String("name"), U32("flags"), U32("mode"), U32("gid")>>,
                    <<U32("fid"), String("name"), U32("flags"), U32("mode"), U32("gid")>>)
QidReply == Message(<<WriteQid("qid")>>, <<ReadQid("qid")>>)
Tsymlink == Message(<<U32("dfid"), String("name"), String("symtgt"), U32("gid")>>,
                    <<U32("dfid"), String("name"), String("symtgt"), U32("gid")>>)
Tmknod == Message(<<U32("dfid"), String("name")>> \o U32s(<<"mode", "major", "minor", "gid">>),
                  <<U32("dfid"), String("name")>> \o U32s(<<"mode", "major", "minor", "gid">>))
Tmkdir == Message(<<U32("dfid"), String("name"), U32("mode"), U32("gid")>>,
                  <<U32("dfid"), String("name"), U32("mode"), U32("gid")>>)
Trename == Message(<<U32("fid"), U32("dfid"), String("name")>>, <<U32("fid"), U32("dfid"), String("name")>>)
Trenameat == Message(<<U32("olddirfid"), String("oldname"), U32("newdirfid"), String("newname")>>,
                     <<U32("olddirfid"), String("oldname"), U32("newdirfid"), String("newname")>>)
Tunlinkat == Message(<<U32("dirfid"), String("name"), U32("flags")>>,
                     <<U32("dirfid"), String("name"), U32("flags")>>)
Tlink == Message(<<U32("dfid"), U32("fid"), String("name")>>, <<U32("dfid"), U32("fid"), String("name")>>)
Rreadlink == Message(<<String("target")>>, <<String("target")>>)
Tgetattr == Message(<<U32("fid"), U64("requestMask")>>, <<U32("fid"), U64("requestMask")>>)
Rgetattr ==
  Message(<<U64("valid"), WriteQid("qid")>> \o U32s(<<"mode", "uid", "gid">>)
            \o U64s(<<"nlink", "rdev", "size", "blksize", "blocks">>)
            \o <<WriteTime("atime"), WriteTime("mtime"), WriteTime("ctime"), WriteTime("btime")>>
            \o U64s(<<"gen", "dataVersion">>),
          <<U64("valid"), ReadQid("qid")>> \o U32s(<<"mode", "uid", "gid">>)
            \o U64s(<<"nlink", "rdev", "size", "blksize", "blocks">>)
            \o <<ReadTime("atime"), ReadTime("mtime"), ReadTime("ctime"), ReadTime("btime")>>
            \o U64s(<<"gen", "dataVersion">>))
Tsetattr ==
  Message(U32s(<<"fid", "valid", "mode", "uid", "gid">>)
            \o <<U64("size"), WriteTime("atime"), WriteTime("mtime")>>,
          U32s(<<"fid", "valid", "mode", "uid", "gid">>)
            \o <<U64("size"), ReadTime("atime"), ReadTime("mtime")>>)
Txattrwalk == Message(<<U32("fid"), U32("newfid"), String("name")>>,
                      <<U32("fid"), U32("newfid"), String("name")>>)
Rxattrwalk == Message(<<U64("size")>>, <<U64("size")>>)
Txattrcreate == Message(<<U32("fid"), String("name"), U64("attrSize"), U32("flags")>>,
                        <<U32("fid"), String("name"), U64("attrSize"), U32("flags")>>)
Treaddir == Message(<<U32("fid"), U64("offset"), U32("count")>>,
                    <<U32("fid"), U64("offset"), U32("count")>>)
Tfsync == Message(<<U32("fid"), U32("datasync")>>, <<U32("fid"), U32("datasync")>>)
Tlock == Message(<<U32("fid"), U8("type"), U32("flags"), U64("start"), U64("length"), U32("procId"),
                   String("clientId")>>,
                 <<U32("fid"), U8("type"), U32("flags"), U64("start"), U64("length"), U32("procId"),
                   String("clientId")>>)
Rlock == Message(<<U8("status")>>, <<U8("status")>>)
Tgetlock == Message(<<U32("fid"), U8("type"), U64("start"), U64("length"), U32("procId"), String("clientId")>>,
                    <<U32("fid"), U8("type"), U64("start"), U64("length"), U32("procId"), String("clientId")>>)
Rgetlock == Message(<<U8("type"), U64("start"), U64("length"), U32("procId"), String("clientId")>>,
                    <<U8("type"), U64("start"), U64("length"), U32("procId"), String("clientId")>>)
EmptyBody == Message(<<>>, <<End>>)

-----------------------------------------------------------------------------
(* A directory page is entries one after another; an entry's room is its   *)
(* qid, offset, type and counted name.                                     *)

direntSize(n) == 13 + 8 + 1 + 2 + n
WriteDirent == <<WriteQid("qid"), U64("offset"), U8("type"), String("name")>>
ReadDirent == <<ReadQid("qid"), U64("offset"), U8("type"), String("name")>>
Dirents == Message(<<Until("entries", WriteDirent)>>, <<Until("entries", ReadDirent)>>)

-----------------------------------------------------------------------------
(* The frame: the size of the whole message, its type and its tag.  The    *)
(* size is patched in once the body is written.                            *)

Header == <<LenOf("size", 4), LenOf("type", 1), U16("tag")>>
EncodeMessage(type, m) ==
  {LET h == CHOOSE h \in WriteAll(Header, <<>>,
                           [Blank EXCEPT !.env = [size |-> 7 + Len(b.bytes), type |-> type]]) : TRUE
   IN  [b EXCEPT !.bytes = h.bytes \o @, !.put = h.put \cup @] : b \in Written(m.write)}

DecodeMessage(m, bytes) ==
  LET h == ReadBy(Header, bytes)
      body == ReadBy(m.read \o <<End>>, SubSeq(bytes, 8, Len(bytes)))
  IN  IF ~h.ok \/ h.env.size # Len(bytes) THEN [ok |-> FALSE]
      ELSE [ok |-> body.ok, got |-> h.got \cup body.got]

\* The messages by the type that announces them, as the session dispatches them.
Messages ==
  [Rlerror |-> Rlerror, Tstatfs |-> FidRequest, Rstatfs |-> Rstatfs, Tlopen |-> Tlopen,
   Rlopen |-> Rlopen, Tlcreate |-> Tlcreate, Rlcreate |-> Rlopen, Tsymlink |-> Tsymlink,
   Rsymlink |-> QidReply, Tmknod |-> Tmknod, Rmknod |-> QidReply, Trename |-> Trename,
   Rrename |-> EmptyBody, Treadlink |-> FidRequest, Rreadlink |-> Rreadlink, Tgetattr |-> Tgetattr,
   Rgetattr |-> Rgetattr, Tsetattr |-> Tsetattr, Rsetattr |-> EmptyBody,
   Txattrwalk |-> Txattrwalk, Rxattrwalk |-> Rxattrwalk, Txattrcreate |-> Txattrcreate,
   Treaddir |-> Treaddir, Rreaddir |-> Rread, Tfsync |-> Tfsync, Tlock |-> Tlock, Rlock |-> Rlock,
   Tgetlock |-> Tgetlock, Rgetlock |-> Rgetlock, Tlink |-> Tlink, Tmkdir |-> Tmkdir,
   Rmkdir |-> QidReply, Trenameat |-> Trenameat, Tunlinkat |-> Tunlinkat, Tversion |-> Version,
   Rversion |-> Version, Tauth |-> Tauth, Rauth |-> Rauth, Tattach |-> Tattach,
   Rattach |-> Rattach, Tflush |-> Tflush, Rflush |-> EmptyBody, Twalk |-> Twalk, Rwalk |-> Rwalk,
   Tread |-> Tread, Rread |-> Rread, Twrite |-> Twrite, Rwrite |-> Rwrite, Tclunk |-> FidRequest,
   Rclunk |-> EmptyBody, Tremove |-> FidRequest, Rremove |-> EmptyBody]
=============================================================================
