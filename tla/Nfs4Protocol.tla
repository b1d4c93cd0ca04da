---------------------------- MODULE Nfs4Protocol ----------------------------
(***************************************************************************)
(* src/nfs/v4/protocol.ts and the codecs of src/nfs/v4/attr.ts: every      *)
(* NFSv4.1 operation's arguments and results, the attributes, and the      *)
(* compound that carries the operations.  The code has a writer and a      *)
(* reader for each structure; here they are the two halves of one message, *)
(* and each half is translated from its own function.                      *)
(***************************************************************************)
EXTENDS Wire

Message(w, r) == [write |-> w, read |-> r]
Struct(f, w, r) == Message(Sub(f, w), Sub(f, r))
\* A structure whose writer and reader name the same fields, with no limit.
Same(w) == Message(w, w)

\* What a reader takes at most; a writer does not look.
Fh4(f) == AtMost(128, Opaque(f))             \* readFh4: NFS4_FHSIZE
Component4(f) == AtMost(1024, Opaque(f))     \* readComponent4: NFS4_MAX_COMPONENT
Linktext4(f) == AtMost(4096, Opaque(f))      \* NFS4_MAX_LINKTEXT
Limited(f) == AtMost(1024, Opaque(f))        \* NFS4_OPAQUE_LIMIT, NFS4_MAX_OWNER, _SEC_OID, _GSS_HANDLE
SecParms(items) == AtMost(16, Array("secParms", items))           \* NFS4_MAX_SEC_PARMS
OptionalOne(f, items) == AtMost(1, Array(f, items))               \* NFS4_MAX_OPTIONAL_ONE

Bitmap4(f) == Message(Array(f, <<U32("word")>>), AtMost(16, Array(f, <<U32("word")>>)))
Time4(f) == Same(Sub(f, <<U64("seconds"), U32("nseconds")>>))
Fsid4(f) == Same(Sub(f, U64s(<<"major", "minor">>)))
SpecData4(f) == Same(Sub(f, U32s(<<"major", "minor">>)))
\* Only SET_TO_CLIENT_TIME4, 1, has a value behind it.
SetTime4(f) ==
  Message(Switch(f, Arms({0}, <<>>) @@ Arms({1}, <<Time4("time").write>>), <<>>),
          Switch(f, Arms({1}, <<Time4("time").read>>), <<>>))

-----------------------------------------------------------------------------
(* Attributes.  A fattr4 is a bitmap and the values of its bits.  Its      *)
(* encoder walks the table of codecs and its decoder the bits in order, so *)
(* the two agree only while the table is in the order of the bits.  The    *)
(* bitmap is a number that says which of the masks at hand it is.          *)

attr(bit, w, r) == [bit |-> bit, write |-> w, read |-> r]
ATTR_CODECS ==
  <<attr(0, Bitmap4("supportedAttrs").write, Bitmap4("supportedAttrs").read),
    attr(1, U32("type"), U32("type")),
    attr(2, U32("fhExpireType"), U32("fhExpireType")), attr(3, U64("change"), U64("change")),
    attr(4, U64("size"), U64("size")), attr(5, Bool("linkSupport"), Bool("linkSupport")),
    attr(6, Bool("symlinkSupport"), Bool("symlinkSupport")), attr(7, Bool("namedAttr"), Bool("namedAttr")),
    attr(8, Fsid4("fsid").write, Fsid4("fsid").read), attr(9, Bool("uniqueHandles"), Bool("uniqueHandles")),
    attr(10, U32("leaseTime"), U32("leaseTime")), attr(11, U32("rdattrError"), U32("rdattrError")),
    attr(19, Opaque("filehandle"), Fh4("filehandle")), attr(20, U64("fileid"), U64("fileid")),
    attr(21, U64("filesAvail"), U64("filesAvail")), attr(22, U64("filesFree"), U64("filesFree")),
    attr(23, U64("filesTotal"), U64("filesTotal")), attr(27, U64("maxfilesize"), U64("maxfilesize")),
    attr(28, U32("maxlink"), U32("maxlink")), attr(29, U32("maxname"), U32("maxname")),
    attr(30, U64("maxread"), U64("maxread")), attr(31, U64("maxwrite"), U64("maxwrite")),
    attr(33, U32("mode"), U32("mode")), attr(35, U32("numlinks"), U32("numlinks")),
    attr(36, Opaque("owner"), Limited("owner")), attr(37, Opaque("ownerGroup"), Limited("ownerGroup")),
    attr(41, SpecData4("rawdev").write, SpecData4("rawdev").read),
    attr(42, U64("spaceAvail"), U64("spaceAvail")),
    attr(43, U64("spaceFree"), U64("spaceFree")), attr(44, U64("spaceTotal"), U64("spaceTotal")),
    attr(45, U64("spaceUsed"), U64("spaceUsed")),
    attr(47, Time4("timeAccess").write, Time4("timeAccess").read),
    attr(48, SetTime4("timeAccessSet").write, SetTime4("timeAccessSet").read),
    attr(51, Time4("timeDelta").write, Time4("timeDelta").read),
    attr(52, Time4("timeMetadata").write, Time4("timeMetadata").read),
    attr(53, Time4("timeModify").write, Time4("timeModify").read),
    attr(54, SetTime4("timeModifySet").write, SetTime4("timeModifySet").read)>>
BitsOf(table) == {table[i].bit : i \in DOMAIN table}
CodecByBit(table, bit) == table[CHOOSE i \in DOMAIN table : table[i].bit = bit]
AttrBits == BitsOf(ATTR_CODECS)

\* What encodeFattr and decodeFattr make of a set of attributes: the ones asked
\* for that are at hand, and the ones the bitmap says are there.
Writers(codecs) == [i \in DOMAIN codecs |-> codecs[i].write]
EncodedAttrs(mask) == Writers(SelectSeq(ATTR_CODECS, LAMBDA c : c.bit \in mask))
\* What follows an attribute the table does not know cannot be read.
Readers(table, bits) == [i \in DOMAIN bits |-> CodecByBit(table, bits[i]).read]
ReadUpTo(table, mask, unsupported) ==
  Readers(table, SelectSeq([i \in 1..76 |-> i - 1],
                           LAMBDA bit : bit \in mask /\ \A b \in unsupported : bit < b))
    \o When(unsupported = {}, <<End>>)
DecodedBy(table, mask) == ReadUpTo(table, mask, mask \ BitsOf(table))
DecodedAttrs(mask) == DecodedBy(ATTR_CODECS, mask)

\* The masks at hand, each under the number that stands for its bitmap: every
\* attribute alone and every two of them in a message about attributes, SIZE
\* and MODE or none inside the others.
Pairs(bits) == {p \in bits \X bits : p[1] <= p[2]}
MasksOf(bits) == [n \in {100 * p[1] + p[2] + 1 : p \in Pairs(bits)} |-> {(n - 1) \div 100, (n - 1) % 100}]
                 @@ (9998 :> bits \ {0, 6, 7, 9, 37, 54}) @@ (9999 :> {})
AllMasks == MasksOf(AttrBits)
FewMasks == <<{4, 33}, {}>>
FattrOf(f, masks, Values(_)) ==
  Union(f, [k \in DOMAIN masks |-> <<Boxed("attrVals", Values(masks[k]))>>])
Fattr4(f) == Message(FattrOf(f, FewMasks, EncodedAttrs), FattrOf(f, FewMasks, DecodedAttrs))
AnyFattr4 ==
  Message(<<FattrOf("attrmask", AllMasks, EncodedAttrs)>>, <<FattrOf("attrmask", AllMasks, DecodedAttrs)>>)

-----------------------------------------------------------------------------
(* The structures several operations share.                                *)

Stateid4(f) == Same(Sub(f, <<U32("seqid"), Fixed("other", 12)>>))
ChangeInfo4(f) == Same(Sub(f, <<Bool("atomic"), U64("before"), U64("after")>>))
Verifier4(f) == Fixed(f, 8)
SessionId4(f) == Fixed(f, 16)
StateOwner4(f) == Struct(f, <<U64("clientid"), Opaque("owner")>>, <<U64("clientid"), Limited("owner")>>)
ClientOwner4(f) ==
  Struct(f, <<Verifier4("verifier"), Opaque("ownerid")>>, <<Verifier4("verifier"), Limited("ownerid")>>)
ServerOwner4(f) == Struct(f, <<U64("minorId"), Opaque("majorId")>>, <<U64("minorId"), Limited("majorId")>>)
ImplId4 ==
  Message(<<Opaque("domain"), Opaque("name"), Time4("date").write>>,
          <<Limited("domain"), Limited("name"), Time4("date").read>>)
Nfsace4(f) ==
  Struct(f, U32s(<<"type", "flag", "accessMask">>) \o <<Opaque("who")>>,
            U32s(<<"type", "flag", "accessMask">>) \o <<Limited("who")>>)

\* 1 limits by size, 2 by blocks; nothing else has an arm.
SpaceLimit4(f) ==
  Same(Union(f, Arms({1}, <<U64("filesize")>>) @@ Arms({2}, U32s(<<"numBlocks", "bytesPerBlock">>))))
StateProtectOps4(f) ==
  Struct(f, <<Bitmap4("mustEnforce").write, Bitmap4("mustAllow").write>>,
            <<Bitmap4("mustEnforce").read, Bitmap4("mustAllow").read>>)
GssCbHandles4(f) ==
  Struct(f, <<U32("service"), Opaque("fromServer"), Opaque("fromClient")>>,
            <<U32("service"), Limited("fromServer"), Limited("fromClient")>>)
AuthSysParms(f) ==
  Struct(f, <<U32("stamp"), Opaque("machineName"), U32("uid"), U32("gid"), Array("gids", <<U32("gid")>>)>>,
            <<U32("stamp"), AtMost(255, Opaque("machineName")), U32("uid"), U32("gid"),
              AtMost(16, Array("gids", <<U32("gid")>>))>>)
\* 0 is AUTH_NONE, 1 AUTH_SYS and 6 RPCSEC_GSS.
CallbackSecParms4 ==
  Message(<<Union("secflavor", Arms({0}, <<>>) @@ Arms({1}, <<AuthSysParms("sysCred").write>>)
                               @@ Arms({6}, <<GssCbHandles4("handles").write>>))>>,
          <<Union("secflavor", Arms({0}, <<>>) @@ Arms({1}, <<AuthSysParms("sysCred").read>>)
                               @@ Arms({6}, <<GssCbHandles4("handles").read>>))>>)

\* What an operation answers: a status and, when it is NFS4_OK, the rest.
Res(w, r) == Message(<<Status(w, <<>>)>>, <<Status(r, <<>>)>>)
StatusRes == Same(<<U32("status")>>)
NoArgs == Same(<<>>)
op4(op, args, res) == [op |-> op, args |-> args, res |-> res]

-----------------------------------------------------------------------------
(* Names, directories and attributes: each operation with its number, its  *)
(* arguments and its result.                                               *)

ACCESS4 ==
  op4(3, Same(<<U32("access")>>), Res(U32s(<<"supported", "access">>), U32s(<<"supported", "access">>)))
\* 5 is a link, 3 and 4 devices; nothing follows any other type.
CreateType4 ==
  Message(Switch("type", Arms({5}, <<Opaque("linkdata")>>) @@ Arms({3, 4}, <<SpecData4("devdata").write>>), <<>>),
          Switch("type", Arms({5}, <<Linktext4("linkdata")>>) @@ Arms({3, 4}, <<SpecData4("devdata").read>>), <<>>))
CREATE4 ==
  op4(6, Message(<<CreateType4.write, Opaque("objname"), Fattr4("createattrs").write>>,
                 <<CreateType4.read, Component4("objname"), Fattr4("createattrs").read>>),
         Res(<<ChangeInfo4("cinfo").write, Bitmap4("attrset").write>>,
             <<ChangeInfo4("cinfo").read, Bitmap4("attrset").read>>))
GETATTR4 ==
  op4(9, Message(<<Bitmap4("attrRequest").write>>, <<Bitmap4("attrRequest").read>>),
         Res(<<Fattr4("attr").write>>, <<Fattr4("attr").read>>))
GETFH4 == op4(10, NoArgs, Res(<<Opaque("object")>>, <<Fh4("object")>>))
LINK4 ==
  op4(11, Message(<<Opaque("newname")>>, <<Component4("newname")>>),
          Res(<<ChangeInfo4("cinfo").write>>, <<ChangeInfo4("cinfo").read>>))
LOOKUP4 == op4(15, Message(<<Opaque("objname")>>, <<Component4("objname")>>), StatusRes)
\* VERIFY and NVERIFY, 37 and 17.
VERIFY4(op) == op4(op, Message(<<Fattr4("attr").write>>, <<Fattr4("attr").read>>), StatusRes)
PUTFH4 == op4(22, Message(<<Opaque("object")>>, <<Fh4("object")>>), StatusRes)
READDIR4 ==
  op4(26,
      Message(<<U64("cookie"), Verifier4("cookieverf"), U32("dircount"), U32("maxcount"), Bitmap4("attrRequest").write>>,
              <<U64("cookie"), Verifier4("cookieverf"), U32("dircount"), U32("maxcount"), Bitmap4("attrRequest").read>>),
      Res(<<Verifier4("cookieverf"), List("entries", <<U64("cookie"), Opaque("name"), Fattr4("attrs").write>>),
            Bool("eof")>>,
          <<Verifier4("cookieverf"), List("entries", <<U64("cookie"), Component4("name"), Fattr4("attrs").read>>),
            Bool("eof")>>))
READLINK4 == op4(27, NoArgs, Res(<<Opaque("link")>>, <<Linktext4("link")>>))
REMOVE4 ==
  op4(28, Message(<<Opaque("target")>>, <<Component4("target")>>),
          Res(<<ChangeInfo4("cinfo").write>>, <<ChangeInfo4("cinfo").read>>))
RENAME4 ==
  op4(29, Message(<<Opaque("oldname"), Opaque("newname")>>, <<Component4("oldname"), Component4("newname")>>),
          Res(<<ChangeInfo4("source").write, ChangeInfo4("target").write>>,
              <<ChangeInfo4("source").read, ChangeInfo4("target").read>>))
\* Only RPCSEC_GSS (6) has more to say than its flavor.
SecInfo4 ==
  Message(<<Switch("flavor", Arms({6}, <<Opaque("oid"), U32("qop"), U32("service")>>), <<>>)>>,
          <<Switch("flavor", Arms({6}, <<Limited("oid"), U32("qop"), U32("service")>>), <<>>)>>)
\* SECINFO names a file and SECINFO_NO_NAME says which; both answer flavors.
SECINFO4(op, args) ==
  op4(op, args, Res(<<Array("flavors", SecInfo4.write)>>, <<AtMost(64, Array("flavors", SecInfo4.read))>>))
\* SETATTR says which attributes it set even when it failed.
SETATTR4 ==
  op4(34, Message(<<Stateid4("stateid").write, Fattr4("attr").write>>,
                  <<Stateid4("stateid").read, Fattr4("attr").read>>),
          Message(<<U32("status"), Bitmap4("attrsset").write>>, <<U32("status"), Bitmap4("attrsset").read>>))

-----------------------------------------------------------------------------
(* Files, opens and locks.                                                 *)

COMMIT4 ==
  op4(5, Same(<<U64("offset"), U32("count")>>), Res(<<Verifier4("writeverf")>>, <<Verifier4("writeverf")>>))
CLOSE4 ==
  op4(4, Message(<<U32("seqid"), Stateid4("openStateid").write>>, <<U32("seqid"), Stateid4("openStateid").read>>),
         Res(<<Stateid4("openStateid").write>>, <<Stateid4("openStateid").read>>))

Locker4 ==
  Message(
    Union("newLockOwner",
          Arms({1}, <<U32("openSeqid"), Stateid4("openStateid").write, U32("lockSeqid"), StateOwner4("lockOwner").write>>)
          @@ Arms({0}, <<Stateid4("lockStateid").write, U32("lockSeqid")>>)),
    Union("newLockOwner",
          Arms({1}, <<U32("openSeqid"), Stateid4("openStateid").read, U32("lockSeqid"), StateOwner4("lockOwner").read>>)
          @@ Arms({0}, <<Stateid4("lockStateid").read, U32("lockSeqid")>>)))
Lock4denied ==
  Message(<<U64("offset"), U64("length"), U32("locktype"), StateOwner4("owner").write>>,
          <<U64("offset"), U64("length"), U32("locktype"), StateOwner4("owner").read>>)
\* NFS4ERR_DENIED says whose lock is in the way.
NFS4ERR_DENIED == 10010
LOCK4 ==
  op4(12, Message(<<U32("locktype"), Bool("reclaim"), U64("offset"), U64("length"), Locker4.write>>,
                  <<U32("locktype"), Bool("reclaim"), U64("offset"), U64("length"), Locker4.read>>),
          Message(<<Switch("status", Arms({0}, <<Stateid4("lockStateid").write>>)
                                     @@ Arms({NFS4ERR_DENIED}, Lock4denied.write), <<>>)>>,
                  <<Switch("status", Arms({0}, <<Stateid4("lockStateid").read>>)
                                     @@ Arms({NFS4ERR_DENIED}, Lock4denied.read), <<>>)>>))
LOCKT4 ==
  op4(13, Message(<<U32("locktype"), U64("offset"), U64("length"), StateOwner4("owner").write>>,
                  <<U32("locktype"), U64("offset"), U64("length"), StateOwner4("owner").read>>),
          Message(<<Switch("status", Arms({0}, <<>>) @@ Arms({NFS4ERR_DENIED}, Lock4denied.write), <<>>)>>,
                  <<Switch("status", Arms({NFS4ERR_DENIED}, Lock4denied.read), <<>>)>>))
LOCKU4 ==
  op4(14, Message(<<U32("locktype"), U32("seqid"), Stateid4("lockStateid").write, U64("offset"), U64("length")>>,
                  <<U32("locktype"), U32("seqid"), Stateid4("lockStateid").read, U64("offset"), U64("length")>>),
          Res(<<Stateid4("lockStateid").write>>, <<Stateid4("lockStateid").read>>))

\* 0 and 1 are UNCHECKED and GUARDED, 2 EXCLUSIVE and 3 EXCLUSIVE with attributes.
CreateHow4 ==
  Message(Union("mode", Arms({0, 1}, <<Fattr4("createattrs").write>>) @@ Arms({2}, <<Verifier4("createverf")>>)
                        @@ Arms({3}, <<Verifier4("verf"), Fattr4("attrs").write>>)),
          Union("mode", Arms({0, 1}, <<Fattr4("createattrs").read>>) @@ Arms({2}, <<Verifier4("createverf")>>)
                        @@ Arms({3}, <<Verifier4("verf"), Fattr4("attrs").read>>)))
OpenFlag4 ==
  Message(Switch("opentype", Arms({0}, <<>>) @@ Arms({1}, <<CreateHow4.write>>), <<>>),
          Switch("opentype", Arms({1}, <<CreateHow4.read>>), <<>>))
\* NULL, PREVIOUS, DELEGATE_CUR, DELEGATE_PREV, FH, DELEG_CUR_FH, DELEG_PREV_FH.
OpenClaim4 ==
  Message(Union("claim", Arms({0}, <<Opaque("file")>>) @@ Arms({1}, <<U32("delegateType")>>)
                         @@ Arms({2}, <<Stateid4("delegateStateid").write, Opaque("file")>>)
                         @@ Arms({3}, <<Opaque("fileDelegatePrev")>>) @@ Arms({4, 6}, <<>>)
                         @@ Arms({5}, <<Stateid4("ocDelegateStateid").write>>)),
          Union("claim", Arms({0}, <<Component4("file")>>) @@ Arms({1}, <<U32("delegateType")>>)
                         @@ Arms({2}, <<Stateid4("delegateStateid").read, Component4("file")>>)
                         @@ Arms({3}, <<Component4("fileDelegatePrev")>>) @@ Arms({4, 6}, <<>>)
                         @@ Arms({5}, <<Stateid4("ocDelegateStateid").read>>)))
\* Why there is no delegation: 1 contention, 2 resources; nothing follows another.
OpenNoneDelegation4 ==
  Same(Switch("why", Arms({1}, <<Bool("willPushDeleg")>>) @@ Arms({2}, <<Bool("willSignalAvail")>>), <<>>))
OpenDelegation4 ==
  Message(Union("delegation", Arms({0}, <<>>)
                @@ Arms({1}, <<Stateid4("stateid").write, Bool("recall"), Nfsace4("permissions").write>>)
                @@ Arms({2}, <<Stateid4("stateid").write, Bool("recall"), SpaceLimit4("spaceLimit").write,
                               Nfsace4("permissions").write>>)
                @@ Arms({3}, <<OpenNoneDelegation4.write>>)),
          Union("delegation", Arms({0}, <<>>)
                @@ Arms({1}, <<Stateid4("stateid").read, Bool("recall"), Nfsace4("permissions").read>>)
                @@ Arms({2}, <<Stateid4("stateid").read, Bool("recall"), SpaceLimit4("spaceLimit").read,
                               Nfsace4("permissions").read>>)
                @@ Arms({3}, <<OpenNoneDelegation4.read>>)))
OPEN4 ==
  op4(18, Message(U32s(<<"seqid", "shareAccess", "shareDeny">>)
                    \o <<StateOwner4("owner").write, OpenFlag4.write, OpenClaim4.write>>,
                  U32s(<<"seqid", "shareAccess", "shareDeny">>)
                    \o <<StateOwner4("owner").read, OpenFlag4.read, OpenClaim4.read>>),
          Res(<<Stateid4("stateid").write, ChangeInfo4("cinfo").write, U32("rflags"), Bitmap4("attrset").write,
                OpenDelegation4.write>>,
              <<Stateid4("stateid").read, ChangeInfo4("cinfo").read, U32("rflags"), Bitmap4("attrset").read,
                OpenDelegation4.read>>))
OPEN_DOWNGRADE4 ==
  op4(21, Message(<<Stateid4("openStateid").write>> \o U32s(<<"seqid", "shareAccess", "shareDeny">>),
                  <<Stateid4("openStateid").read>> \o U32s(<<"seqid", "shareAccess", "shareDeny">>)),
          Res(<<Stateid4("openStateid").write>>, <<Stateid4("openStateid").read>>))
READ4 ==
  op4(25, Message(<<Stateid4("stateid").write, U64("offset"), U32("count")>>,
                  <<Stateid4("stateid").read, U64("offset"), U32("count")>>),
          Res(<<Bool("eof"), Opaque("data")>>, <<Bool("eof"), Opaque("data")>>))
WRITE4 ==
  op4(38, Message(<<Stateid4("stateid").write, U64("offset"), U32("stable"), Opaque("data")>>,
                  <<Stateid4("stateid").read, U64("offset"), U32("stable"), Opaque("data")>>),
          Res(<<U32("count"), U32("committed"), Verifier4("writeverf")>>,
              <<U32("count"), U32("committed"), Verifier4("writeverf")>>))

-----------------------------------------------------------------------------
(* Clients and sessions.                                                   *)

BACKCHANNEL_CTL4 ==
  op4(40, Message(<<U32("cbProgram"), Array("secParms", CallbackSecParms4.write)>>,
                  <<U32("cbProgram"), SecParms(CallbackSecParms4.read)>>), StatusRes)
BIND_CONN_TO_SESSION4 ==
  op4(41, Same(<<SessionId4("sessionid"), U32("dir"), Bool("rdmaMode")>>),
          Res(<<SessionId4("sessionid"), U32("dir"), Bool("rdmaMode")>>,
              <<SessionId4("sessionid"), U32("dir"), Bool("rdmaMode")>>))
SsvList(f, items) == AtMost(64, Array(f, items))   \* NFS4_MAX_SSV_LIST
SsvSpParms4 ==
  Message(<<StateProtectOps4("ops").write, Array("hashAlgs", <<Opaque("oid")>>), Array("encrAlgs", <<Opaque("oid")>>),
            U32("window"), U32("numGssHandles")>>,
          <<StateProtectOps4("ops").read, SsvList("hashAlgs", <<Limited("oid")>>),
            SsvList("encrAlgs", <<Limited("oid")>>), U32("window"), U32("numGssHandles")>>)
SsvProtInfo4 ==
  Message(<<StateProtectOps4("ops").write>> \o U32s(<<"hashAlg", "encrAlg", "ssvLen", "window">>)
            \o <<Array("handles", <<Opaque("handle")>>)>>,
          <<StateProtectOps4("ops").read>> \o U32s(<<"hashAlg", "encrAlg", "ssvLen", "window">>)
            \o <<SsvList("handles", <<Limited("handle")>>)>>)
\* 0 is SP4_NONE, 1 SP4_MACH_CRED and 2 SP4_SSV, which an argument and a result
\* each fill in their own way.
StateProtect4(ssv) ==
  Message(Union("how", Arms({0}, <<>>) @@ Arms({1}, <<StateProtectOps4("machOps").write>>) @@ Arms({2}, ssv.write)),
          Union("how", Arms({0}, <<>>) @@ Arms({1}, <<StateProtectOps4("machOps").read>>) @@ Arms({2}, ssv.read)))
EXCHANGE_ID4 ==
  op4(42,
      Message(<<ClientOwner4("clientowner").write, U32("flags"), StateProtect4(SsvSpParms4).write,
                OptionalOne("implId", ImplId4.write)>>,
              <<ClientOwner4("clientowner").read, U32("flags"), StateProtect4(SsvSpParms4).read,
                OptionalOne("implId", ImplId4.read)>>),
      Res(<<U64("clientid"), U32("sequenceid"), U32("flags"), StateProtect4(SsvProtInfo4).write,
            ServerOwner4("serverOwner").write, Opaque("serverScope"), OptionalOne("implId", ImplId4.write)>>,
          <<U64("clientid"), U32("sequenceid"), U32("flags"), StateProtect4(SsvProtInfo4).read,
            ServerOwner4("serverOwner").read, Limited("serverScope"), OptionalOne("implId", ImplId4.read)>>))
ChannelAttrs4(f) ==
  Same(Sub(f, U32s(<<"headerpadsize", "maxrequestsize", "maxresponsesize", "maxresponsesizeCached",
                     "maxoperations", "maxrequests">>) \o <<OptionalOne("rdmaIrd", <<U32("ird")>>)>>))
CREATE_SESSION4 ==
  op4(43,
      Message(<<U64("clientid"), U32("sequence"), U32("flags"), ChannelAttrs4("foreChan").write,
                ChannelAttrs4("backChan").write, U32("cbProgram"), Array("secParms", CallbackSecParms4.write)>>,
              <<U64("clientid"), U32("sequence"), U32("flags"), ChannelAttrs4("foreChan").read,
                ChannelAttrs4("backChan").read, U32("cbProgram"), SecParms(CallbackSecParms4.read)>>),
      Res(<<SessionId4("sessionid"), U32("sequence"), U32("flags"), ChannelAttrs4("foreChan").write,
            ChannelAttrs4("backChan").write>>,
          <<SessionId4("sessionid"), U32("sequence"), U32("flags"), ChannelAttrs4("foreChan").read,
            ChannelAttrs4("backChan").read>>))
DESTROY_SESSION4 == op4(44, Same(<<SessionId4("sessionid")>>), StatusRes)
DESTROY_CLIENTID4 == op4(57, Same(<<U64("clientid")>>), StatusRes)
FREE_STATEID4 == op4(45, Message(<<Stateid4("stateid").write>>, <<Stateid4("stateid").read>>), StatusRes)
SEQUENCE4 ==
  op4(53,
      Same(<<SessionId4("sessionid")>> \o U32s(<<"sequenceid", "slotid", "highestSlotid">>) \o <<Bool("cachethis")>>),
      Res(<<SessionId4("sessionid")>>
            \o U32s(<<"sequenceid", "slotid", "highestSlotid", "targetHighestSlotid", "statusFlags">>),
          <<SessionId4("sessionid")>>
            \o U32s(<<"sequenceid", "slotid", "highestSlotid", "targetHighestSlotid", "statusFlags">>)))
TEST_STATEID4 ==
  op4(55, Message(<<Array("stateids", <<Stateid4("stateid").write>>)>>,
                  <<AtMost(4096, Array("stateids", <<Stateid4("stateid").read>>))>>),
          Res(<<Array("statusCodes", <<U32("code")>>)>>, <<AtMost(4096, Array("statusCodes", <<U32("code")>>))>>))
RECLAIM_COMPLETE4 == op4(58, Same(<<Bool("oneFs")>>), StatusRes)

-----------------------------------------------------------------------------
(* The table of operations, and the compound: a list of them, each behind  *)
(* its number, which selects the codec of what follows.                    *)

OP_CODECS ==
  [ACCESS |-> ACCESS4, CLOSE |-> CLOSE4, COMMIT |-> COMMIT4, CREATE |-> CREATE4, GETATTR |-> GETATTR4,
   GETFH |-> GETFH4, LINK |-> LINK4, LOCK |-> LOCK4, LOCKT |-> LOCKT4, LOCKU |-> LOCKU4, LOOKUP |-> LOOKUP4,
   LOOKUPP |-> op4(16, NoArgs, StatusRes), NVERIFY |-> VERIFY4(17), OPEN |-> OPEN4,
   OPEN_DOWNGRADE |-> OPEN_DOWNGRADE4, PUTFH |-> PUTFH4, PUTPUBFH |-> op4(23, NoArgs, StatusRes),
   PUTROOTFH |-> op4(24, NoArgs, StatusRes), READ |-> READ4, READDIR |-> READDIR4, READLINK |-> READLINK4,
   REMOVE |-> REMOVE4, RENAME |-> RENAME4, RESTOREFH |-> op4(31, NoArgs, StatusRes),
   SAVEFH |-> op4(32, NoArgs, StatusRes),
   SECINFO |-> SECINFO4(33, Message(<<Opaque("name")>>, <<Component4("name")>>)),
   SETATTR |-> SETATTR4, VERIFY |-> VERIFY4(37), WRITE |-> WRITE4, BACKCHANNEL_CTL |-> BACKCHANNEL_CTL4,
   BIND_CONN_TO_SESSION |-> BIND_CONN_TO_SESSION4, EXCHANGE_ID |-> EXCHANGE_ID4,
   CREATE_SESSION |-> CREATE_SESSION4, DESTROY_SESSION |-> DESTROY_SESSION4, FREE_STATEID |-> FREE_STATEID4,
   SECINFO_NO_NAME |-> SECINFO4(52, Same(<<U32("style")>>)), SEQUENCE |-> SEQUENCE4,
   TEST_STATEID |-> TEST_STATEID4, DESTROY_CLIENTID |-> DESTROY_CLIENTID4,
   RECLAIM_COMPLETE |-> RECLAIM_COMPLETE4, ILLEGAL |-> op4(10044, NoArgs, StatusRes)]

opCodec4(table, op) == table[CHOOSE name \in DOMAIN table : table[name].op = op]
\* Which operations of the table a compound at hand carries: the ones in "ops".
Argops(table, ops, Side(_)) == Union("op", [o \in ops |-> Side(opCodec4(table, o).args)])
Resops(table, ops, Side(_)) == Union("op", [o \in ops |-> Side(opCodec4(table, o).res)])
WriteSide(m) == m.write
ReadSide(m) == m.read
CompoundArgs(table, ops) ==
  Message(<<Opaque("tag"), U32("minorversion"), Array("argarray", <<Argops(table, ops, WriteSide)>>)>>,
          <<Limited("tag"), U32("minorversion"), AtMost(4096, Array("argarray", <<Argops(table, ops, ReadSide)>>)), End>>)
CompoundRes(table, ops) ==
  Message(<<U32("status"), Opaque("tag"), Array("resarray", <<Resops(table, ops, WriteSide)>>)>>,
          <<U32("status"), Limited("tag"), AtMost(4096, Array("resarray", <<Resops(table, ops, ReadSide)>>))>>)
=============================================================================
