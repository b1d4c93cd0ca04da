---------------------------- MODULE Nfs3Protocol ----------------------------
(***************************************************************************)
(* src/nfs/v3/protocol.ts: the arguments and the results of every NFSv3    *)
(* and MOUNT procedure, and the sizes the directory procedures budget a    *)
(* page with.  The code has a writer and a reader for each structure; here *)
(* they are the two halves of one message, and each half is translated     *)
(* from its own function.                                                  *)
(***************************************************************************)
EXTENDS Wire

Message(w, r) == [write |-> w, read |-> r]
Struct(f, w, r) == Message(Sub(f, w), Sub(f, r))
\* A structure whose writer and reader name the same fields, with no limit.
Same(w) == Message(w, w)
\* Arguments: the session ends every reader of them with end(), which refuses
\* what is left over.
Args(w, r) == Message(w, r \o <<End>>)

\* What a reader takes at most; a writer does not look.
Handle(f) == AtMost(64, Opaque(f))       \* NFS3_FHSIZE
Filename(f) == AtMost(1024, Opaque(f))
Nfspath(f) == AtMost(4096, Opaque(f))

Time(f) == Same(Sub(f, U32s(<<"seconds", "nseconds">>)))
SpecData(f) == Same(Sub(f, U32s(<<"major", "minor">>)))
Fattr ==
  Message(U32s(<<"type", "mode", "nlink", "uid", "gid">>) \o U64s(<<"size", "used">>)
          \o <<SpecData("rdev").write, U64("fsid"), U64("fileid"),
               Time("atime").write, Time("mtime").write, Time("ctime").write>>,
          U32s(<<"type", "mode", "nlink", "uid", "gid">>) \o U64s(<<"size", "used">>)
          \o <<SpecData("rdev").read, U64("fsid"), U64("fileid"),
               Time("atime").read, Time("mtime").read, Time("ctime").read>>)
PostOpAttr(f) == Message(Option(f, Fattr.write), Option(f, Fattr.read))
PostOpFh(f) == Message(Option(f, <<Opaque("fh")>>), Option(f, <<Handle("fh")>>))
WccData(f) ==
  Struct(f, <<Option("before", <<U64("size"), Time("mtime").write, Time("ctime").write>>), PostOpAttr("after").write>>,
            <<Option("before", <<U64("size"), Time("mtime").read, Time("ctime").read>>), PostOpAttr("after").read>>)

\* A time to set: only SET_TO_CLIENT_TIME, 2, has a value behind it.
SetTime(f) ==
  Message(Switch(f, Arms({0, 1}, <<>>) @@ Arms({2}, <<Time("time").write>>), <<>>),
          Switch(f, Arms({2}, <<Time("time").read>>), <<>>))
SattrFields == <<Option("mode", <<U32("v")>>), Option("uid", <<U32("v")>>), Option("gid", <<U32("v")>>),
                 Option("size", <<U64("v")>>)>>
Sattr(f) ==
  Struct(f, SattrFields \o <<SetTime("atime").write, SetTime("mtime").write>>,
            SattrFields \o <<SetTime("atime").read, SetTime("mtime").read>>)
DirOp(f) == Struct(f, <<Opaque("dir"), Opaque("name")>>, <<Handle("dir"), Filename("name")>>)

-----------------------------------------------------------------------------
(* The results several procedures share.                                   *)

WccRes == Message(<<U32("status"), WccData("wcc").write>>, <<U32("status"), WccData("wcc").read>>)
CreateRes ==
  Message(<<Status(<<PostOpFh("obj").write, PostOpAttr("attr").write>>, <<>>), WccData("dirWcc").write>>,
          <<Status(<<PostOpFh("obj").read, PostOpAttr("attr").read>>, <<>>), WccData("dirWcc").read>>)

\* A result that carries attributes, or weak cache data, whether it failed or not.
WithAttr(w, r) ==
  Message(<<Status(<<PostOpAttr("attr").write>> \o w, <<PostOpAttr("attr").write>>)>>,
          <<Status(<<PostOpAttr("attr").read>> \o r, <<PostOpAttr("attr").read>>)>>)
WithWcc(w, r) ==
  Message(<<Status(<<WccData("wcc").write>> \o w, <<WccData("wcc").write>>)>>,
          <<Status(<<WccData("wcc").read>> \o r, <<WccData("wcc").read>>)>>)

-----------------------------------------------------------------------------
(* The procedures, each with its arguments and its result.                 *)

NoArgs == Args(<<>>, <<>>)
EmptyRes == Same(<<>>)
PathArgs == Args(<<Opaque("dirpath")>>, <<AtMost(1024, Opaque("dirpath"))>>)
HandleArgs == Args(<<Opaque("fh")>>, <<Handle("fh")>>)
DirOpArgs == Args(<<DirOp("where").write>>, <<DirOp("where").read>>)

GETATTR3 ==
  <<HandleArgs, Message(<<Status(<<Sub("attr", Fattr.write)>>, <<>>)>>, <<Status(<<Sub("attr", Fattr.read)>>, <<>>)>>)>>
SETATTR3 ==
  <<Args(<<Opaque("object"), Sattr("attr").write, Option("guard", <<Time("ctime").write>>)>>,
         <<Handle("object"), Sattr("attr").read, Option("guard", <<Time("ctime").read>>)>>), WccRes>>
LOOKUP3 ==
  <<DirOpArgs,
    Message(<<Status(<<Opaque("object"), PostOpAttr("attr").write>>, <<>>), PostOpAttr("dirAttr").write>>,
            <<Status(<<Handle("object"), PostOpAttr("attr").read>>, <<>>), PostOpAttr("dirAttr").read>>)>>
ACCESS3 ==
  <<Args(<<Opaque("object"), U32("access")>>, <<Handle("object"), U32("access")>>),
    WithAttr(<<U32("access")>>, <<U32("access")>>)>>
READLINK3 == <<HandleArgs, WithAttr(<<Opaque("target")>>, <<Nfspath("target")>>)>>

\* READ and WRITE say how much they carry twice, and the two must agree.
READ3 ==
  <<Args(<<Opaque("file"), U64("offset"), U32("count")>>, <<Handle("file"), U64("offset"), U32("count")>>),
    WithAttr(<<LenOf("data", 4), Bool("eof"), Opaque("data")>>, <<LenOf("data", 4), Bool("eof"), Opaque("data")>>)>>
WRITE3 ==
  <<Args(<<Opaque("file"), U64("offset"), LenOf("data", 4), U32("stable"), Opaque("data")>>,
         <<Handle("file"), U64("offset"), LenOf("data", 4), U32("stable"), Opaque("data")>>),
    WithWcc(<<U32("count"), U32("committed"), Fixed("verf", 8)>>, <<U32("count"), U32("committed"), Fixed("verf", 8)>>)>>

\* EXCLUSIVE, 2, carries a verifier and every other mode attributes.
CREATE3 ==
  <<Args(<<DirOp("where").write, Switch("mode", Arms({2}, <<Fixed("verf", 8)>>), <<Sattr("attr").write>>)>>,
         <<DirOp("where").read, Switch("mode", Arms({2}, <<Fixed("verf", 8)>>), <<Sattr("attr").read>>)>>), CreateRes>>
MKDIR3 ==
  <<Args(<<DirOp("where").write, Sattr("attr").write>>, <<DirOp("where").read, Sattr("attr").read>>), CreateRes>>
SYMLINK3 ==
  <<Args(<<DirOp("where").write, Sattr("attr").write, Opaque("target")>>,
         <<DirOp("where").read, Sattr("attr").read, Nfspath("target")>>), CreateRes>>

\* 3 and 4 are devices, 6 and 7 a socket and a fifo; nothing follows another type.
MKNOD3 ==
  <<Args(<<DirOp("where").write,
           Switch("type", Arms({3, 4}, <<Sattr("attr").write, SpecData("spec").write>>)
                          @@ Arms({6, 7}, <<Sattr("attr").write>>), <<>>)>>,
         <<DirOp("where").read,
           Switch("type", Arms({3, 4}, <<Sattr("attr").read, SpecData("spec").read>>)
                          @@ Arms({6, 7}, <<Sattr("attr").read>>), <<>>)>>), CreateRes>>
RENAME3 ==
  <<Args(<<DirOp("from").write, DirOp("to").write>>, <<DirOp("from").read, DirOp("to").read>>),
    Message(<<U32("status"), WccData("fromWcc").write, WccData("toWcc").write>>,
            <<U32("status"), WccData("fromWcc").read, WccData("toWcc").read>>)>>
LINK3 ==
  <<Args(<<Opaque("file"), DirOp("link").write>>, <<Handle("file"), DirOp("link").read>>),
    Message(<<U32("status"), PostOpAttr("attr").write, WccData("linkdirWcc").write>>,
            <<U32("status"), PostOpAttr("attr").read, WccData("linkdirWcc").read>>)>>
COMMIT3 ==
  <<Args(<<Opaque("file"), U64("offset"), U32("count")>>, <<Handle("file"), U64("offset"), U32("count")>>),
    WithWcc(<<Fixed("verf", 8)>>, <<Fixed("verf", 8)>>)>>

FSSTAT3 ==
  <<HandleArgs,
    WithAttr(U64s(<<"tbytes", "fbytes", "abytes", "tfiles", "ffiles", "afiles">>) \o <<U32("invarsec")>>,
             U64s(<<"tbytes", "fbytes", "abytes", "tfiles", "ffiles", "afiles">>) \o <<U32("invarsec")>>)>>
FSINFO3 ==
  <<HandleArgs,
    WithAttr(U32s(<<"rtmax", "rtpref", "rtmult", "wtmax", "wtpref", "wtmult", "dtpref">>)
               \o <<U64("maxfilesize"), Time("timeDelta").write, U32("properties")>>,
             U32s(<<"rtmax", "rtpref", "rtmult", "wtmax", "wtpref", "wtmult", "dtpref">>)
               \o <<U64("maxfilesize"), Time("timeDelta").read, U32("properties")>>)>>
PATHCONF3 ==
  <<HandleArgs,
    WithAttr(<<U32("linkmax"), U32("nameMax"), Bool("noTrunc"), Bool("chownRestricted"),
               Bool("caseInsensitive"), Bool("casePreserving")>>,
             <<U32("linkmax"), U32("nameMax"), Bool("noTrunc"), Bool("chownRestricted"),
               Bool("caseInsensitive"), Bool("casePreserving")>>)>>

-----------------------------------------------------------------------------
(* Directories.                                                            *)

Entry == Message(<<U64("fileid"), Opaque("name"), U64("cookie")>>, <<U64("fileid"), Filename("name"), U64("cookie")>>)
READDIR3 ==
  <<Args(<<Opaque("dir"), U64("cookie"), Fixed("cookieverf", 8), U32("count")>>,
         <<Handle("dir"), U64("cookie"), Fixed("cookieverf", 8), U32("count")>>),
    WithAttr(<<Fixed("cookieverf", 8), List("entries", Entry.write), Bool("eof")>>,
             <<Fixed("cookieverf", 8), List("entries", Entry.read), Bool("eof")>>)>>
READDIRPLUS3 ==
  <<Args(<<Opaque("dir"), U64("cookie"), Fixed("cookieverf", 8), U32("dircount"), U32("maxcount")>>,
         <<Handle("dir"), U64("cookie"), Fixed("cookieverf", 8), U32("dircount"), U32("maxcount")>>),
    WithAttr(<<Fixed("cookieverf", 8),
               List("entries", Entry.write \o <<PostOpAttr("attr").write, PostOpFh("handle").write>>), Bool("eof")>>,
             <<Fixed("cookieverf", 8),
               List("entries", Entry.read \o <<PostOpAttr("attr").read, PostOpFh("handle").read>>), Bool("eof")>>)>>

\* What a page is charged for an entry: the flag that announces it is counted.
FATTR3_SIZE == 84
entrySize(name) == 4 + 8 + 4 + name + Padding(name, 4) + 8
entryPlusSize(name, fh, hasAttrs) ==
  entrySize(name) + (IF hasAttrs THEN 4 + FATTR3_SIZE ELSE 4) + 4 + 4 + fh + Padding(fh, 4)

-----------------------------------------------------------------------------
(* The MOUNT program.                                                      *)

MNT3 ==
  <<PathArgs,
    Message(<<Status(<<Opaque("fh"), Array("authFlavors", <<U32("flavor")>>)>>, <<>>)>>,
            <<Status(<<Handle("fh"), AtMost(64, Array("authFlavors", <<U32("flavor")>>))>>, <<>>)>>)>>
DUMP3 ==
  <<NoArgs,
    Message(<<List("mounts", <<Opaque("hostname"), Opaque("directory")>>)>>,
            <<AtMost(65536, List("mounts", <<AtMost(255, Opaque("hostname")), Filename("directory")>>))>>)>>
EXPORT3 ==
  <<NoArgs,
    Message(<<List("exports", <<Opaque("directory"), List("groups", <<Opaque("group")>>)>>)>>,
            <<AtMost(65536, List("exports",
                <<Filename("directory"), AtMost(4096, List("groups", <<AtMost(255, Opaque("group"))>>))>>))>>)>>

\* What each procedure is called with and answers, as the session dispatches them.
Procedures ==
  [GETATTR |-> GETATTR3, SETATTR |-> SETATTR3, LOOKUP |-> LOOKUP3, ACCESS |-> ACCESS3, READLINK |-> READLINK3,
   READ |-> READ3, WRITE |-> WRITE3, CREATE |-> CREATE3, MKDIR |-> MKDIR3, SYMLINK |-> SYMLINK3,
   MKNOD |-> MKNOD3, REMOVE |-> <<DirOpArgs, WccRes>>, RMDIR |-> <<DirOpArgs, WccRes>>, RENAME |-> RENAME3,
   LINK |-> LINK3, READDIR |-> READDIR3, READDIRPLUS |-> READDIRPLUS3, FSSTAT |-> FSSTAT3, FSINFO |-> FSINFO3,
   PATHCONF |-> PATHCONF3, COMMIT |-> COMMIT3, NULL |-> <<NoArgs, EmptyRes>>, MNT |-> MNT3, DUMP |-> DUMP3,
   UMNT |-> <<PathArgs, EmptyRes>>, UMNTALL |-> <<NoArgs, EmptyRes>>, EXPORT |-> EXPORT3]
=============================================================================
