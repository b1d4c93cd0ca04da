------------------------------- MODULE Codecs -------------------------------
(***************************************************************************)
(* One message on its way from the code that writes it to the code that    *)
(* reads it: every request and every reply of FUSE, 9P, ONC RPC, NFSv3,    *)
(* MOUNT and NFSv4.1, and every entry of a directory page.  The transport  *)
(* may lose the end of a message; it changes nothing else.                 *)
(***************************************************************************)
EXTENDS Wire, FiniteSetsExt

CONSTANTS Contexts,   \* what FUSE negotiated: a minor version and the extended SETXATTR
          Cuts        \* how many bytes of the end of a message are lost

ASSUME CodecsAssumption ==
  Contexts \subseteq [minor : Nat, setxattrExt : BOOLEAN] /\ Cuts \subseteq Nat /\ 0 \in Cuts

VARIABLES what,       \* [of, name, c, codec]: a message, by name, under a FUSE context
          sent,       \* the message as written
          heard,      \* what its reader made of it
          lost        \* the bytes the reader never saw

vars == <<what, sent, heard, lost>>
Pending == [ok |-> FALSE, over |-> FALSE, got |-> {<<"nothing", <<>>>>}]

Fuse == INSTANCE FuseProtocol
Ninep == INSTANCE NinepProtocol
Rpc == INSTANCE NfsRpc
Nfs3 == INSTANCE Nfs3Protocol
Nfs4 == INSTANCE Nfs4Protocol
NoContext == [minor |-> 0, setxattrExt |-> FALSE]

-----------------------------------------------------------------------------
(* The codecs by name.                                                     *)

RpcMessages ==
  [call |-> Rpc!Call, authSys |-> Rpc!AuthSys, acceptedReply |-> Rpc!Message(Rpc!acceptedReply, Rpc!Reply),
   acceptError |-> Rpc!Message(Rpc!acceptError, Rpc!Reply), authError |-> Rpc!Message(Rpc!authError, Rpc!Reply),
   rpcMismatch |-> Rpc!Message(Rpc!rpcMismatch, Rpc!Reply)]
Compounds(table) ==
  [call |-> Nfs4!CompoundArgs(table, {24, 15, 10, 53, 12}), reply |-> Nfs4!CompoundRes(table, {24, 15, 10, 53, 12})]

\* An entry of a page, as it is written and as the page is charged for it.
FlagThen(items) == <<Const(1, 4)>> \o items
Entries(c) ==
  [fuse |-> Fuse!DirentRoom(3).write, fusePlus |-> Fuse!DirentPlusRoom(3, c).write,
   ninep |-> Ninep!WriteDirent, nfs3 |-> FlagThen(Nfs3!Entry.write),
   nfs3Plus |-> FlagThen(Nfs3!Entry.write \o <<Nfs3!PostOpAttr("attr").write, Const(1, 4), Opaque("fh")>>)]
EntryRoom(name, env, c) ==
  CASE name = "fuse"     -> Fuse!direntSize(env.name)
    [] name = "fusePlus" -> Fuse!direntPlusSize(env.name, c)
    [] name = "ninep"    -> Ninep!direntSize(env.name)
    [] name = "nfs3"     -> Nfs3!entrySize(env.name)
    [] name = "nfs3Plus" -> Nfs3!entryPlusSize(env.name, env.fh, env.attr = 1)

\* What a FUSE encoder allocates for a message whose lengths are those of env.
Room(codec, env) == codec.fixed + MapThenSumSet(LAMBDA f : codec.plus[f] * env[f], DOMAIN codec.plus)

\* The bytes set aside for the message before it is written, or -1.
Allocated(w, m) ==
  CASE w.of = "FUSE request" -> 40 + Room(w.codec, m.env) + 8 * m.env.units
    [] w.of = "FUSE reply" /\ w.codec.fixed # -1 -> 16 + Room(w.codec, m.env)
    [] w.of = "entry"        -> EntryRoom(w.name, m.env, w.c)
    [] w.of = "RPC" /\ w.name = "acceptedReply"
                             -> 4 + Rpc!ACCEPTED_REPLY_HEADER_SIZE
                                + Cardinality({i \in DOMAIN m.bytes : m.bytes[i][1] # <<>>
                                               /\ m.bytes[i][1][Len(m.bytes[i][1])] = "results"})
    [] OTHER                 -> -1

\* What the reader of the message makes of the bytes that reach it.
Heard(w, bytes) ==
  CASE w.of = "FUSE request"                -> Fuse!DecodeRequest(w.codec, bytes)
    [] w.of \in {"FUSE reply", "FUSE error"} -> Fuse!DecodeReply(w.codec, bytes)
    [] w.of = "9P"                          -> Ninep!DecodeMessage(w.codec, bytes)
    [] w.of = "RPC"                         -> Rpc!Assembled(w.codec.read, bytes)
    [] w.of = "XDR"                         -> ReadBy(w.codec.read, bytes)

-----------------------------------------------------------------------------
(* Sending.                                                                *)

What(of, name, c, codec) == [of |-> of, name |-> name, c |-> c, codec |-> codec]
Plain(of, codecs) == {What(of, name, NoContext, codecs[name]) : name \in DOMAIN codecs}
Fused(c) ==
  LET specs == Fuse!SPECS(c)
      entries == Entries(c)
  IN  {What("FUSE request", name, c, specs[name].request) : name \in DOMAIN specs}
        \cup {What(of, name, c, specs[name].reply) : of \in {"FUSE reply", "FUSE error"}, name \in DOMAIN specs}
        \cup {What("entry", name, c, [write |-> entries[name]]) : name \in DOMAIN entries}
XdrOf(procedures, ops) ==
  Plain("XDR", [name \in DOMAIN procedures |-> procedures[name][1]])
    \cup Plain("XDR", [name \in DOMAIN procedures |-> procedures[name][2]])
    \cup Plain("XDR", [name \in DOMAIN ops |-> ops[name].args])
    \cup Plain("XDR", [name \in DOMAIN ops |-> ops[name].res])
    \cup Plain("XDR", Compounds(ops))
    \cup Plain("XDR", [fattr4 |-> Nfs4!AnyFattr4])
Xdr == XdrOf(Nfs3!Procedures, Nfs4!OP_CODECS)

Init ==
  /\ what \in UNION {Fused(c) : c \in Contexts} \cup Plain("9P", Ninep!Messages) \cup Plain("RPC", RpcMessages) \cup Xdr
  /\ sent = Blank /\ heard = Pending /\ lost = 0

Puts(of, messages) ==
  /\ what.of = of /\ sent = Blank
  /\ sent' \in messages
  /\ UNCHANGED <<what, heard, lost>>

SendFuseRequest == \E units \in {0, 1} : Puts("FUSE request", Fuse!EncodeRequest(what.codec, units))
SendFuseReply == Puts("FUSE reply", Fuse!EncodeReply(what.codec))
SendFuseError == Puts("FUSE error", Fuse!EncodeErrorReply(5))
SendNinep == Puts("9P", Ninep!EncodeMessage(100, what.codec))
SendRpc == Puts("RPC", {Rpc!frameRecord(m) : m \in Written(what.codec.write)})
SendXdr == Puts("XDR", Written(what.codec.write))
WriteEntry == Puts("entry", Written(what.codec.write))

\* The message arrives, all of it or without its end.
Deliver ==
  /\ sent # Blank /\ what.of # "entry" /\ heard = Pending
  /\ \E cut \in Cuts :
       /\ cut <= Len(sent.bytes)
       /\ lost' = cut
       /\ heard' = LET h == Heard(what, SubSeq(sent.bytes, 1, Len(sent.bytes) - cut))
                   IN  [ok |-> h.ok, over |-> what.of \in {"RPC", "XDR"} /\ h.over, got |-> IF h.ok THEN h.got ELSE {}]
  /\ UNCHANGED <<what, sent>>

Next ==
  \/ SendFuseRequest \/ SendFuseReply \/ SendFuseError \/ SendNinep \/ SendRpc \/ SendXdr
  \/ WriteEntry \/ Deliver
Spec == Init /\ [][Next]_vars

-----------------------------------------------------------------------------

\* Every field a writer puts into a message is the field its reader takes out
\* of it, and the reader takes nothing else: no version of the protocol and no
\* arm of a union makes the two disagree about a width, an order or a padding.
\* All a reader may refuse of a whole message is a length or a count its limit
\* does not allow.
RoundTrips == heard # Pending /\ lost = 0 => heard.over \/ (heard.ok /\ heard.got = sent.put)

\* The bytes set aside for a message, or charged to a page for an entry, are
\* the bytes that are written: a buffer is never overrun, a page never grows
\* past the size the client asked for.
SizesAgree ==
  sent # Blank /\ Allocated(what, sent) # -1 =>
    Len(sent.bytes) = Allocated(what, sent)

\* A message whose end was lost is refused, whatever it is: no reader takes a
\* part of a message for the whole of another.
CutShortIsRefused == lost > 0 => ~heard.ok
=============================================================================
