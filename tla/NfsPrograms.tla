----------------------------- MODULE NfsPrograms -----------------------------
(***************************************************************************)
(* The handlers of src/nfs/v3/session.ts and src/nfs/v4/session.ts that    *)
(* name, find and list files, as programs over the tables of NfsHandles.   *)
(*                                                                         *)
(* A handler is a sequence of segments.  A segment is one awaited driver   *)
(* call on a path and what the handler does, in one turn of the event      *)
(* loop, when the call returns: a sequence of steps, each a name and its   *)
(* paths.  Only what reads or changes a table is here; a driver call whose *)
(* answer goes no further than the reply is left out.                      *)
(*                                                                         *)
(* p names the object, d is its directory, q a second name.                *)
(***************************************************************************)
EXTENDS NfsHandles

Segment(call, p, then) ==
  [call |-> call, on |-> p, and |-> p, then |-> then, orElse |-> <<>>, quiet |-> FALSE]

\* A call with two names, and a call whose failure has its own continuation.
Segment2(call, p, q, then) == [Segment(call, p, then) EXCEPT !.and = q]
Else(segment, program) == [segment EXCEPT !.orElse = program]

\* What the handler awaits after its change, and what it asks before it.
Await(p) == Segment("await", p, <<>>)
Ask(p) == Segment("ask", p, <<>>)

-----------------------------------------------------------------------------
(* What the replies repeat                                                 *)

\* #attrOf.
AttrOf(p) == Segment("lstat", p, << <<"bind", p>> >>)

\* #postOp: the attributes are a hint, and so is their failure.
PostOp(p) == [AttrOf(p) EXCEPT !.quiet = TRUE]

\* The object's handle and attributes in the reply of LOOKUP and READDIRPLUS.
Found(p) == Segment("lstat", p, << <<"bind", p>>, <<"grant", p>> >>)

\* #created and #createFailed.
Created3(p, d) == << Found(p), PostOp(d) >>

Invalidate(d) == <<"invalidate", d>>

-----------------------------------------------------------------------------
(* v3: what describes, reads or writes a file a handle names               *)

Getattr3(p) == << AttrOf(p) >>
Access3(p) == << PostOp(p) >>
Readlink3(p) == << Segment("io", p, <<>>), PostOp(p) >>
Commit3(p) == << PostOp(p) >>
Fsstat3(p) == << PostOp(p) >>
Fsinfo3(p) == << PostOp(p) >>
Pathconf3(p) == << PostOp(p) >>

\* READ and WRITE go to the path their handle resolved to, without the lock.
ReadFile3(p) == << Segment("io", p, <<>>), PostOp(p) >>
Write3(p) == << Ask(p), Segment("io", p, <<>>), PostOp(p) >>

Setattr3(p) == << Ask(p), Segment("io", p, << <<"forget", p>> >>), PostOp(p) >>

Lookup3(p, d) == << Found(p), PostOp(d) >>

-----------------------------------------------------------------------------
(* v3: what adds a name                                                    *)

\* #createExclusive: the verifier is kept as soon as the file is there.
CreateExclusive3(p, d) ==
  << Else(Segment("create", p, << <<"remember", p>> >>),
          << Segment("none", p, << <<"match", p>> >>) >> \o Created3(p, d)),
     Segment("await", p, << Invalidate(d) >>),
     Await(p) >> \o Created3(p, d)

CreateGuarded3(p, d) ==
  << Segment("create", p, <<>>), Segment("await", p, << Invalidate(d) >>), Await(p) >>
    \o Created3(p, d)

\* UNCHECKED of a file that is there opens it, and creates it if it has gone.
CreateUnchecked3(p, d) ==
  << Else(Segment("create", p, <<>>),
          << Segment("none", p, << Invalidate(d) >>), Segment("createAny", p, <<>>), Await(p) >>
            \o Created3(p, d)),
     Segment("await", p, << Invalidate(d) >>),
     Await(p) >> \o Created3(p, d)

Mkdir3(p, d) == << Segment("mkdir", p, << Invalidate(d) >>), Await(p) >> \o Created3(p, d)
Symlink3(p, d) == << Segment("create", p, << Invalidate(d) >>), Await(p) >> \o Created3(p, d)
Mknod3(p, d) == << Segment("create", p, << Invalidate(d) >>) >> \o Created3(p, d)

Link3(p, d, q) ==
  << Segment2("link", p, q, << Invalidate(d) >>), AttrOf(p), PostOp(q), PostOp(d) >>

-----------------------------------------------------------------------------
(* v3: what takes a name away                                              *)

Remove3(p, d) ==
  << Segment("remove", p, << Invalidate(d), <<"unbind", p>>, <<"forget", p>> >>), PostOp(d) >>

\* mutant: RENAME drops the snapshot of the directory it took the name from only
Rename3OneParent(q, e, p, d) ==
  << Segment2("rename", p, q, << <<"remap", q, p>>, <<"forget", q>>, <<"forget", p>>,
                                 Invalidate(e) >>), PostOp(e), PostOp(d) >>

Rename3(q, e, p, d) ==
  << Segment2("rename", p, q, << <<"remap", q, p>>, <<"forget", q>>, <<"forget", p>>,
                                 Invalidate(e), Invalidate(d) >>), PostOp(e), PostOp(d) >>

-----------------------------------------------------------------------------
(* Listing                                                                 *)

\* #page at cookie 0, and at a cookie the client was given before.
FirstPage(d) == Segment("readdir", d, << <<"snapshot", d>>, <<"page", d>> >>)
NextPage(d) == Segment("none", d, << <<"resume", d>>, <<"page", d>> >>)
Relist(d) == Segment("readdir", d, << <<"relist", d>>, <<"page", d>> >>)

\* One entry of the page: #fileid asks the table before the driver.
ReaddirEntry3(p, known) ==
  IF known THEN << Segment("none", p, << <<"at", p>> >>) >> ELSE << PostOp(p) >>
ReaddirplusEntry3(p) == << [Found(p) EXCEPT !.quiet = TRUE] >>

\* #entryAttrs: with rdattr_error asked for, a failure is one entry's only.
EntryAttrs4(p, wantsRdattrError) == << [Found(p) EXCEPT !.quiet = wantsRdattrError] >>

-----------------------------------------------------------------------------
(* v4                                                                      *)

Lookup4(p) == << Found(p) >>
Lookupp4(p, d) == << Ask(p), Found(d) >>
Getattr4(p) == << AttrOf(p) >>
Verify4(p) == << AttrOf(p) >>
Access4(p) == << Ask(p) >>
Readlink4(p) == << Segment("io", p, <<>>) >>
Commit4(p) == << Ask(p) >>
Secinfo4(p) == << AttrOf(p) >>
SecinfoNoName4(p) == << AttrOf(p) >>
Setattr4(p) == << Segment("io", p, << <<"forget", p>> >>) >>

Create4(p, d) ==
  << Ask(d), Segment("mkdir", p, << Invalidate(d) >>), Await(p), Found(p) >>

Link4(p, d, q) == << Segment2("link", p, q, << Invalidate(d) >>), AttrOf(p) >>

\* REMOVE asks what it removes, and rmdir or unlink refuses if that has changed.
Remove4(p, d) ==
  << Ask(p),
     Segment("remove", p, << Invalidate(d), <<"unbind", p>>, <<"forget", p>> >>) >>

Rename4(q, e, p, d) ==
  << Segment2("rename", p, q, << <<"remap", q, p>>, <<"forget", q>>, <<"forget", p>>,
                                 Invalidate(e), Invalidate(d) >>) >>

\* #open from its bind on: the state, then its driver handle, then the reply.
Open4(p) ==
  << Segment("lstat", p, << <<"bind", p>>, <<"open", p>> >>),
     Else(Segment("open", p, <<>>), << Segment("none", p, << <<"undo", p>> >>) >>) >>

\* v4's #close of the new file reports its failure and goes on.
CloseNew4(p) == [Await(p) EXCEPT !.quiet = TRUE]

\* A creating OPEN whose attributes fail leaves before it invalidates.
OpenCreate4(p, d) ==
  << Else(Segment("create", p, <<>>), << Segment("none", p, << Invalidate(d) >>) >> \o Open4(p)),
     CloseNew4(p),
     Segment("await", p, << Invalidate(d) >>) >> \o Open4(p)

OpenGuarded4(p, d) ==
  << Segment("create", p, <<>>), CloseNew4(p), Segment("await", p, << Invalidate(d) >>) >> \o Open4(p)

\* #openCreateExclusive keeps the verifier twice: with the file, and again when
\* the attributes have been applied or have failed.
OpenCreateExclusive4(p, d) ==
  << Else(Segment("create", p, << <<"remember", p>> >>),
          << Segment("none", p, << <<"match", p>>, Invalidate(d) >>) >> \o Open4(p)),
     CloseNew4(p),
     Await(p),
     Else(Segment("await", p, << <<"remember", p>>, Invalidate(d) >>),
          << Segment("none", p, << <<"remember", p>>, <<"refuse", p>> >>) >>) >> \o Open4(p)
=============================================================================
