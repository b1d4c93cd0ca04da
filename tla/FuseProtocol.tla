---------------------------- MODULE FuseProtocol ----------------------------
(***************************************************************************)
(* src/fuse/protocol.ts: the layout of every FUSE request and reply the    *)
(* server speaks, for every protocol version it negotiates.  A structure   *)
(* is a Codec: the bytes its encoder allocates, what the encoder writes    *)
(* and what the decoder reads.  Most structures grew with the protocol, so *)
(* each is a function of the context c: the minor version and whether the  *)
(* kernel negotiated the extended SETXATTR.                                *)
(***************************************************************************)
EXTENDS Wire

\* What the encoder allocates: a fixed part and, for each name in "plus", as
\* many bytes as plus says for every byte or element of it.
Codec(fixed, plus, w, r) == [fixed |-> fixed, plus |-> plus, write |-> w, read |-> r]
None == <<>>
One(f) == f :> 1
Both(f, g) == (f :> 1) @@ (g :> 1)

attrSize(minor) == IF minor >= 9 THEN 88 ELSE 80
entryOutSize(minor) == 40 + attrSize(minor)
attrOutSize(minor) == 16 + attrSize(minor)
kstatfsSize(minor) == IF minor >= 4 THEN 80 ELSE 48
initOutSize(minor) == IF minor < 5 THEN 8 ELSE IF minor < 23 THEN 24 ELSE 64
readWriteInSize(minor) == IF minor >= 9 THEN 40 ELSE 24

-----------------------------------------------------------------------------
(* The structures the others are made of.                                  *)

ReadAttr(c) ==
  U64s(<<"ino", "size", "blocks", "atime", "mtime", "ctime">>)
  \o U32s(<<"atimensec", "mtimensec", "ctimensec", "mode", "nlink", "uid", "gid", "rdev">>)
  \o When(c.minor >= 9, <<U32("blksize"), IF c.minor >= 32 THEN U32("flags") ELSE Skip(4)>>)
WriteAttr(c) ==
  U64s(<<"ino", "size", "blocks", "atime", "mtime", "ctime">>)
  \o U32s(<<"atimensec", "mtimensec", "ctimensec", "mode", "nlink", "uid", "gid", "rdev">>)
  \o When(c.minor >= 9, <<U32("blksize"), IF c.minor >= 32 THEN U32("flags") ELSE Const(0, 4)>>)

ReadFileLock == U64s(<<"start", "end">>) \o U32s(<<"type", "pid">>)
WriteFileLock == U64s(<<"start", "end">>) \o U32s(<<"type", "pid">>)

ReadEntryOut(c) ==
  U64s(<<"nodeid", "generation", "entryValid", "attrValid">>)
  \o U32s(<<"entryValidNsec", "attrValidNsec">>) \o <<Sub("attr", ReadAttr(c))>>
WriteEntryOut(c) ==
  U64s(<<"nodeid", "generation", "entryValid", "attrValid">>)
  \o U32s(<<"entryValidNsec", "attrValidNsec">>) \o <<Sub("attr", WriteAttr(c))>>
EntryOut(c) == Codec(entryOutSize(c.minor), None, WriteEntryOut(c), ReadEntryOut(c) \o <<End>>)

\* The backing id took the place of padding in 7.40.
ReadOpenOutLate(c) ==   \* mutant: read from the version after
  <<U64("fh"), U32("openFlags"), IF c.minor > 40 THEN U32("backingId") ELSE Skip(4)>>
ReadOpenOut(c) ==
  <<U64("fh"), U32("openFlags"), IF c.minor >= 40 THEN U32("backingId") ELSE Skip(4)>>
WriteOpenOut(c) ==
  <<U64("fh"), U32("openFlags"), IF c.minor >= 40 THEN U32("backingId") ELSE Const(0, 4)>>

Empty == Codec(0, None, <<>>, <<End>>)
RawData == Codec(0, One("data"), <<Rest("data")>>, <<Rest("data")>>)
NameIn == Codec(1, One("name"), <<Name("name")>>, <<Name("name"), End>>)

-----------------------------------------------------------------------------
(* Requests.                                                               *)

ForgetIn == Codec(8, None, <<U64("nlookup")>>, <<U64("nlookup"), End>>)
BatchForgetIn ==
  Codec(8, "forgets" :> 16,
        <<CountOf("forgets", 4), Skip(4), Times("forgets", U64s(<<"nodeid", "nlookup">>))>>,
        <<CountOf("forgets", 4), Skip(4), Times("forgets", U64s(<<"nodeid", "nlookup">>)), End>>)
GetattrIn == Codec(16, None, <<U32("getattrFlags"), Skip(4), U64("fh")>>,
                             <<U32("getattrFlags"), Skip(4), U64("fh"), End>>)
SetattrIn ==
  Codec(88, None,
        <<U32("valid"), Skip(4)>> \o U64s(<<"fh", "size", "lockOwner", "atime", "mtime", "ctime">>)
          \o U32s(<<"atimensec", "mtimensec", "ctimensec", "mode">>)
          \o <<Skip(4), U32("uid"), U32("gid"), Skip(4)>>,
        <<U32("valid"), Skip(4)>> \o U64s(<<"fh", "size", "lockOwner", "atime", "mtime", "ctime">>)
          \o U32s(<<"atimensec", "mtimensec", "ctimensec", "mode">>)
          \o <<Skip(4), U32("uid"), U32("gid"), Skip(4), End>>)
SymlinkIn == Codec(2, Both("name", "target"), <<Name("name"), Name("target")>>,
                                              <<Name("name"), Name("target"), End>>)

\* MKNOD and CREATE grew a umask in 7.12.
MknodIn(c) ==
  Codec(IF c.minor >= 12 THEN 17 ELSE 9, One("name"),
        <<U32("mode"), U32("rdev")>> \o When(c.minor >= 12, <<U32("umask"), Skip(4)>>) \o <<Name("name")>>,
        <<U32("mode"), U32("rdev")>> \o When(c.minor >= 12, <<U32("umask"), Skip(4)>>)
          \o <<Name("name"), End>>)
CreateIn(c) ==
  Codec(IF c.minor >= 12 THEN 17 ELSE 9, One("name"),
        <<U32("flags"), U32("mode")>> \o When(c.minor >= 12, <<U32("umask"), U32("openFlags")>>)
          \o <<Name("name")>>,
        <<U32("flags"), U32("mode")>> \o When(c.minor >= 12, <<U32("umask"), U32("openFlags")>>)
          \o <<Name("name"), End>>)
MkdirIn == Codec(9, One("name"), <<U32("mode"), U32("umask"), Name("name")>>,
                                 <<U32("mode"), U32("umask"), Name("name"), End>>)
RenameIn == Codec(10, Both("oldName", "newName"),
                  <<U64("newdir"), Name("oldName"), Name("newName")>>,
                  <<U64("newdir"), Name("oldName"), Name("newName"), End>>)
Rename2In == Codec(18, Both("oldName", "newName"),
                   <<U64("newdir"), U32("flags"), Skip(4), Name("oldName"), Name("newName")>>,
                   <<U64("newdir"), U32("flags"), Skip(4), Name("oldName"), Name("newName"), End>>)
LinkIn == Codec(9, One("name"), <<U64("oldnodeid"), Name("name")>>,
                                <<U64("oldnodeid"), Name("name"), End>>)
OpenIn == Codec(8, None, <<U32("flags"), U32("openFlags")>>, <<U32("flags"), U32("openFlags"), End>>)
ReleaseIn == Codec(24, None, <<U64("fh"), U32("flags"), U32("releaseFlags"), U64("lockOwner")>>,
                             <<U64("fh"), U32("flags"), U32("releaseFlags"), U64("lockOwner"), End>>)
FlushIn == Codec(24, None, <<U64("fh"), Skip(8), U64("lockOwner")>>,
                           <<U64("fh"), Skip(8), U64("lockOwner"), End>>)

\* READ and WRITE grew a lock owner and the open flags in 7.9.
ReadIn(c) ==
  Codec(readWriteInSize(c.minor), None,
        <<U64("fh"), U64("offset"), U32("size"), U32("readFlags")>>
          \o When(c.minor >= 9, <<U64("lockOwner"), U32("flags"), Skip(4)>>),
        <<U64("fh"), U64("offset"), U32("size"), U32("readFlags")>>
          \o When(c.minor >= 9, <<U64("lockOwner"), U32("flags"), Skip(4)>>) \o <<End>>)
WriteIn(c) ==
  Codec(readWriteInSize(c.minor), One("data"),
        <<U64("fh"), U64("offset"), LenOf("data", 4), U32("writeFlags")>>
          \o When(c.minor >= 9, <<U64("lockOwner"), U32("flags"), Skip(4)>>) \o <<Raw("data")>>,
        <<U64("fh"), U64("offset"), LenOf("data", 4), U32("writeFlags")>>
          \o When(c.minor >= 9, <<U64("lockOwner"), U32("flags"), Skip(4)>>) \o <<Raw("data"), End>>)
FsyncIn == Codec(16, None, <<U64("fh"), U32("fsyncFlags"), Skip(4)>>,
                           <<U64("fh"), U32("fsyncFlags"), Skip(4), End>>)
SetxattrIn(c) ==
  Codec(IF c.setxattrExt THEN 17 ELSE 9, Both("name", "value"),
        <<LenOf("value", 4), U32("flags")>> \o When(c.setxattrExt, <<U32("setxattrFlags"), Skip(4)>>)
          \o <<Name("name"), Raw("value")>>,
        <<LenOf("value", 4), U32("flags")>> \o When(c.setxattrExt, <<U32("setxattrFlags"), Skip(4)>>)
          \o <<Name("name"), Raw("value"), End>>)
GetxattrIn == Codec(9, One("name"), <<U32("size"), Skip(4), Name("name")>>,
                                    <<U32("size"), Skip(4), Name("name"), End>>)
ListxattrIn == Codec(8, None, <<U32("size"), Skip(4)>>, <<U32("size"), Skip(4), End>>)
LkIn == Codec(48, None,
              <<U64("fh"), U64("owner"), Sub("lk", WriteFileLock), U32("lkFlags"), Skip(4)>>,
              <<U64("fh"), U64("owner"), Sub("lk", ReadFileLock), U32("lkFlags"), Skip(4), End>>)
AccessIn == Codec(8, None, <<U32("mask"), Skip(4)>>, <<U32("mask"), Skip(4), End>>)

\* INIT is read before any version is known: by how much of it there is.
InitIn == Codec(64, None,
                U32s(<<"major", "minor", "maxReadahead", "flags", "flags2">>) \o <<Skip(44)>>,
                <<U32("major"), U32("minor"), IfLeft(8, U32s(<<"maxReadahead", "flags">>)),
                  IfLeft(4, <<U32("flags2")>>)>>)
InterruptIn == Codec(8, None, <<U64("unique")>>, <<U64("unique"), End>>)
PollIn == Codec(24, None, <<U64("fh"), U64("kh"), U32("flags"), U32("events")>>,
                          <<U64("fh"), U64("kh"), U32("flags"), U32("events"), End>>)
FallocateIn == Codec(32, None, U64s(<<"fh", "offset", "length">>) \o <<U32("mode"), Skip(4)>>,
                               U64s(<<"fh", "offset", "length">>) \o <<U32("mode"), Skip(4), End>>)
LseekIn == Codec(24, None, <<U64("fh"), U64("offset"), U32("whence"), Skip(4)>>,
                           <<U64("fh"), U64("offset"), U32("whence"), Skip(4), End>>)
BmapIn == Codec(16, None, <<U64("block"), U32("blocksize"), Skip(4)>>,
                          <<U64("block"), U32("blocksize"), Skip(4), End>>)

-----------------------------------------------------------------------------
(* Replies.                                                                *)

AttrOut(c) ==
  Codec(attrOutSize(c.minor), None,
        <<U64("attrValid"), U32("attrValidNsec"), Skip(4), Sub("attr", WriteAttr(c))>>,
        <<U64("attrValid"), U32("attrValidNsec"), Skip(4), Sub("attr", ReadAttr(c)), End>>)
OpenOut(c) == Codec(16, None, WriteOpenOut(c), ReadOpenOut(c) \o <<End>>)
CreateOut(c) ==
  Codec(entryOutSize(c.minor) + 16, None,
        <<Sub("entry", WriteEntryOut(c)), Sub("open", WriteOpenOut(c))>>,
        <<Sub("entry", ReadEntryOut(c)), Sub("open", ReadOpenOut(c)), End>>)
WriteOut == Codec(8, None, <<U32("size"), Skip(4)>>, <<U32("size"), Skip(4), End>>)
StatfsOut(c) ==
  Codec(kstatfsSize(c.minor), None,
        U64s(<<"blocks", "bfree", "bavail", "files", "ffree">>) \o U32s(<<"bsize", "namelen">>)
          \o When(c.minor >= 4, <<U32("frsize"), Skip(28)>>),
        U64s(<<"blocks", "bfree", "bavail", "files", "ffree">>) \o U32s(<<"bsize", "namelen">>)
          \o When(c.minor >= 4, <<U32("frsize"), Skip(28)>>) \o <<End>>)
GetxattrOut == Codec(8, None, <<U32("size"), Skip(4)>>, <<U32("size"), Skip(4), End>>)
LkOut == Codec(24, None, <<Sub("lk", WriteFileLock)>>, <<Sub("lk", ReadFileLock), End>>)

\* The reply to INIT: three layouts to write, one length-driven way to read.
InitOut(c) ==
  Codec(initOutSize(c.minor), None,
        <<U32("major"), U32("minor")>>
          \o When(c.minor >= 5, <<U32("maxReadahead"), U32("flags"), U16("maxBackground"),
                                  U16("congestionThreshold"), U32("maxWrite")>>)
          \o When(c.minor >= 23, <<U32("timeGran"), U16("maxPages"), U16("mapAlignment"),
                                   U32("flags2"), U32("maxStackDepth"), Skip(24)>>),
        <<U32("major"), U32("minor"), IfLeft(8, U32s(<<"maxReadahead", "flags">>)),
          IfLeft(8, <<U16("maxBackground"), U16("congestionThreshold"), U32("maxWrite")>>),
          IfLeft(4, <<U32("timeGran")>>), IfLeft(4, <<U16("maxPages"), U16("mapAlignment")>>),
          IfLeft(4, <<U32("flags2")>>), IfLeft(4, <<U32("maxStackDepth")>>)>>)
PollOut == Codec(8, None, <<U32("revents"), Skip(4)>>, <<U32("revents"), Skip(4), End>>)
LseekOut == Codec(8, None, <<U64("offset")>>, <<U64("offset"), End>>)
BmapOut == Codec(8, None, <<U64("block")>>, <<U64("block"), End>>)
ReadlinkOut == Codec(0, One("target"), <<Rest("target")>>, <<Rest("target")>>)

-----------------------------------------------------------------------------
(* Directories: entries one after another, each padded to eight bytes.     *)

direntSizeUnpadded(n) == 24 + n   \* mutant: the padding is not counted
direntSize(n) == 24 + n + Padding(24 + n, 8)
direntPlusSize(n, c) == entryOutSize(c.minor) + 24 + n + Padding(entryOutSize(c.minor) + 24 + n, 8)

ReadDirent == <<U64("ino"), U64("off"), LenOf("name", 4), U32("type"), Raw("name")>>
WriteDirent == <<U64("ino"), U64("off"), LenOf("name", 4), U32("type"), Raw("name")>>
DirentsOut == Codec(-1, None, <<Until("entries", <<Padded(8, WriteDirent)>>)>>,
                              <<Until("entries", <<Padded(8, ReadDirent)>>)>>)
DirentsPlusOut(c) ==
  Codec(-1, None, <<Until("entries", <<Padded(8, <<Sub("entry", WriteEntryOut(c))>> \o WriteDirent)>>)>>,
                  <<Until("entries", <<Padded(8, <<Sub("entry", ReadEntryOut(c))>> \o ReadDirent)>>)>>)

\* One entry takes the room DirentPacker.add sets aside for it.
DirentRoom(n) == Codec(direntSize(n), None, <<Padded(8, WriteDirent)>>, <<Padded(8, ReadDirent), End>>)
DirentPlusRoom(n, c) ==
  Codec(direntPlusSize(n, c), None,
        <<Padded(8, <<Sub("entry", WriteEntryOut(c))>> \o WriteDirent)>>,
        <<Padded(8, <<Sub("entry", ReadEntryOut(c))>> \o ReadDirent), End>>)

-----------------------------------------------------------------------------
(* The operations: what each sends and what answers it.                    *)

Op(request, reply) == [request |-> request, reply |-> reply]
SPECS(c) ==
  [LOOKUP |-> Op(NameIn, EntryOut(c)), FORGET |-> Op(ForgetIn, Empty),
   BATCH_FORGET |-> Op(BatchForgetIn, Empty), GETATTR |-> Op(GetattrIn, AttrOut(c)),
   SETATTR |-> Op(SetattrIn, AttrOut(c)), READLINK |-> Op(Empty, ReadlinkOut),
   SYMLINK |-> Op(SymlinkIn, EntryOut(c)), MKNOD |-> Op(MknodIn(c), EntryOut(c)),
   MKDIR |-> Op(MkdirIn, EntryOut(c)), UNLINK |-> Op(NameIn, Empty), RMDIR |-> Op(NameIn, Empty),
   RENAME |-> Op(RenameIn, Empty), RENAME2 |-> Op(Rename2In, Empty), LINK |-> Op(LinkIn, EntryOut(c)),
   OPEN |-> Op(OpenIn, OpenOut(c)), OPENDIR |-> Op(OpenIn, OpenOut(c)),
   CREATE |-> Op(CreateIn(c), CreateOut(c)), READ |-> Op(ReadIn(c), RawData),
   WRITE |-> Op(WriteIn(c), WriteOut), RELEASE |-> Op(ReleaseIn, Empty),
   RELEASEDIR |-> Op(ReleaseIn, Empty), FSYNC |-> Op(FsyncIn, Empty), FSYNCDIR |-> Op(FsyncIn, Empty),
   FLUSH |-> Op(FlushIn, Empty), READDIR |-> Op(ReadIn(c), DirentsOut),
   READDIRPLUS |-> Op(ReadIn(c), DirentsPlusOut(c)), STATFS |-> Op(Empty, StatfsOut(c)),
   ACCESS |-> Op(AccessIn, Empty), INIT |-> Op(InitIn, InitOut(c)), DESTROY |-> Op(Empty, Empty),
   INTERRUPT |-> Op(InterruptIn, Empty), SETXATTR |-> Op(SetxattrIn(c), Empty),
   GETXATTR |-> Op(GetxattrIn, RawData), LISTXATTR |-> Op(ListxattrIn, RawData),
   REMOVEXATTR |-> Op(NameIn, Empty), FALLOCATE |-> Op(FallocateIn, Empty),
   LSEEK |-> Op(LseekIn, LseekOut), GETLK |-> Op(LkIn, LkOut), SETLK |-> Op(LkIn, Empty),
   SETLKW |-> Op(LkIn, Empty), POLL |-> Op(PollIn, PollOut), BMAP |-> Op(BmapIn, BmapOut)]

-----------------------------------------------------------------------------
(* Whole messages.  The header counts the whole message and how many       *)
(* eight-byte units of extensions follow the body.                         *)

InHeader == <<LenOf("len", 4), U32("opcode"), U64("unique"), U64("nodeid")>>
            \o U32s(<<"uid", "gid", "pid">>) \o <<LenOf("totalExtlen", 2), Skip(2)>>
OutHeader == <<LenOf("len", 4), LenOf("error", 4), U64("unique")>>

\* A header whose lengths are those given, in front of the rest of a message.
Headed(header, lengths, body) ==
  LET h == CHOOSE h \in WriteAll(header, <<>>, [Blank EXCEPT !.env = lengths]) : TRUE
  IN  [body EXCEPT !.bytes = h.bytes \o @, !.put = h.put \cup @]

EncodeRequest(codec, units) ==
  LET ext == Content(<<"extensions">>, 8 * units)
  IN  {Headed(InHeader, [len |-> 40 + Len(m.bytes) + Len(ext), totalExtlen |-> units],
              Put([m EXCEPT !.env = Bind(@, "units", units)], <<"extensions">>, ext)) : m \in Written(codec.write)}

\* What follows the header once the header and the bytes there are agree.
After(h, codec, payload) ==
  LET body == ReadBy(codec.read, payload)
  IN  [ok |-> body.ok, got |-> h.got \cup body.got]

DecodeRequest(codec, bytes) ==
  LET h == ReadBy(InHeader, bytes)
      bodyEnd == h.env.len - 8 * h.env.totalExtlen
  IN  IF ~h.ok \/ h.env.len < 40 \/ h.env.len > Len(bytes) \/ bodyEnd < 40 THEN [ok |-> FALSE]
      ELSE After(Got(h, <<"extensions">>, SubSeq(bytes, bodyEnd + 1, h.env.len)),
                 codec, SubSeq(bytes, 41, bodyEnd))

\* A reply is a body under a zero, or an error and no body.
EncodeReply(codec) ==
  {Headed(OutHeader, [len |-> 16 + Len(m.bytes), error |-> 0], m) : m \in Written(codec.write)}
EncodeErrorReply(errno) == {Headed(OutHeader, [len |-> 16, error |-> errno], Blank)}

DecodeReplyOfRest(codec, bytes) ==   \* mutant: the body is whatever follows the header
  LET h == ReadBy(OutHeader, bytes)
  IN  IF ~h.ok \/ h.env.len < 16 THEN [ok |-> FALSE]
      ELSE IF h.env.error # 0 THEN h
      ELSE After(h, codec, SubSeq(bytes, 17, Len(bytes)))
DecodeReply(codec, bytes) ==
  LET h == ReadBy(OutHeader, bytes)
  IN  IF ~h.ok \/ h.env.len < 16 \/ h.env.len > Len(bytes) THEN [ok |-> FALSE]
      ELSE IF h.env.error # 0 THEN h
      ELSE After(h, codec, SubSeq(bytes, 17, h.env.len))
=============================================================================
