---------------------------- MODULE NinepSession ----------------------------
(***************************************************************************)
(* The 9P sessions of src/9p/session.ts: several connections of one server *)
(* over one driver and one lock table, each with its own fids, identities  *)
(* and PathLock.                                                           *)
(*                                                                         *)
(* A task is a request being handled: the segments it has left, each an    *)
(* awaited driver call and the steps the handler does in one turn when the *)
(* call returns.  The call takes effect in a step of its own, and the      *)
(* other requests run in between.                                          *)
(***************************************************************************)
EXTENDS NinepTables

CONSTANTS
  Sessions,     \* connections of one server
  Tasks,        \* requests in flight at one time
  MaxRequests,  \* bound: requests over a run
  MaxHandles,   \* bound: driver handles opened over a run
  PageSize      \* entries in a reply of Treaddir

ASSUME SessionAssumption ==
  MaxRequests \in Nat /\ MaxHandles \in Nat /\ PageSize \in Nat \ {0}

VARIABLES
  fids,      \* each session's FidTable
  qids,      \* each session's qid identities
  session,   \* each session's #generation, whether a version is agreed (#msize), #destroyed
  locks,     \* the P9LockTable of the server
  tree,      \* the driver
  handles,   \* the driver: the file of each handle opened, and how often it was closed
  keep,      \* the driver: capabilities.handles
  tasks,     \* the requests in flight
  requests,  \* how many requests there have been
  believes,  \* the clients: the fids each takes to be in use
  told,      \* the clients: the files each qid was given for
  left,      \* history: the fids left behind by a request a reset overtook
  taken      \* history: the files whose last name another session took away

server == <<fids, qids, session, locks>>
driver == <<tree, handles, keep>>
clients == <<believes, told, left, taken>>
vars == <<server, driver, clients, tasks, requests>>

Idle == [s |-> None, todo |-> <<>>, at |-> "idle", gen |-> 0, n |-> None, new |-> None,
         object |-> None, locked |-> FALSE, writer |-> FALSE, changes |-> FALSE, uses |-> {},
         file |-> None, handle |-> None, page |-> <<>>, adds |-> {}, drops |-> {},
         told |-> {}, failed |-> FALSE, flag |-> FALSE]

Busy == {t \in Tasks : tasks[t] # Idle}
Segment1(t) == Head(tasks[t].todo)
Awaits(t, call) == tasks[t].at = "driver" /\ Segment1(t).call = call

\* An awaited call; what is done when it fails, if that is not to fail.
Segment(call, p, then) == [call |-> call, on |-> p, and |-> p, then |-> then, orElse |-> "fail"]
Segment2(call, p, q, then) == [Segment(call, p, then) EXCEPT !.and = q]
Hint(segment) == [segment EXCEPT !.orElse = "next"]
Partial(segment) == [segment EXCEPT !.orElse = "reply"]
Ask(p) == Segment("ask", p, <<>>)
Closing == Segment("close", Top, <<>>)
CloseOf(h) == Segment("closeOf", h, <<>>)

-----------------------------------------------------------------------------
(* The handlers, as programs                                               *)

\* #qidOf.
QidOfPath(p) == Segment("lstat", p, << <<"qid", p>> >>)

\* #claim: an owner the driver cannot set is left as it is.
Claim(p) == Ask(p)

Attach(p) == << Segment("lstat", p, << <<"attach", p>>, <<"qid", p>> >>) >>

\* A name that is not there ends the walk early, with no fid; the first fails.
Walk(steps, p) ==
  LET clone == << <<"clone", p>> >>
      look(i) == IF i = Len(steps) THEN [QidOfPath(steps[i]) EXCEPT !.then = @ \o clone]
                 ELSE QidOfPath(steps[i])
  IN IF steps = <<>> THEN << Segment("none", p, clone) >>
     ELSE [i \in DOMAIN steps |-> IF i = 1 THEN look(i) ELSE Partial(look(i))]

\* #fidAttributes: an open fid answers by its handle, with the qid it was opened under.
Getattr(o) ==
  << IF o.handle # None THEN Segment("fstat", o.handle, << <<"pinned", o.path>> >>)
     ELSE QidOfPath(o.path) >>

Statfs(p) == << Ask(p) >>
Readlink(p) == << Ask(p) >>
Setattr(p) == << Ask(p), Ask(p) >>

\* The listing is read at offset 0 only.
Readdir(p) == << Segment("readdir", p, << <<"snapshot", p>> >>) >>

\* Each entry after the offset is asked for, and left out when it has gone.
Page(p, names, offset) ==
  [i \in 1 .. (Len(names) - offset) |->
     LET e == Append(p, names[offset + i])
     IN Hint(Segment("lstat", e, << <<"pack", e, offset + i>> >>))]

\* #lopen: what there is decides; O_TRUNC asks again for the new size.
Lopen(p) == << Segment("lstat", p, << <<"kind", p>> >>) >>
LopenFile(p, trunc) ==
  LET calls == << Segment("open", p, <<>>) >> \o (IF keep THEN <<>> ELSE << Closing >>)
                 \o (IF trunc THEN << Segment("lstat", p, <<>>) >> ELSE <<>>)
  IN [calls EXCEPT ![Len(calls)].then = << <<"opened", p>> >>]

Lcreate(p) ==
  << Segment("create", p, <<>>) >> \o (IF keep THEN <<>> ELSE << Closing >>)
    \o << Claim(p), Segment("lstat", p, << <<"qid", p>>, <<"lcreated", p>> >>) >>

\* #withHandle: the fid's own handle, or one opened for the call.
WithHandle(o) ==
  IF o.handle # None THEN << Segment("io", o.path, <<>>) >>
  ELSE << Segment("open", o.path, << <<"unlock", o.path>> >>), Segment("io", o.path, <<>>), Closing >>

Mkdir(p) == << Segment("mkdir", p, <<>>), Claim(p), QidOfPath(p) >>
Symlink(p) == << Segment("make", p, <<>>), Claim(p), QidOfPath(p) >>
Mknod(p) == << Segment("make", p, <<>>), Claim(p), QidOfPath(p) >>
Link(p, q) == << Segment2("link", p, q, <<>>) >>
RenameTo(from, to) == << Segment2("rename", to, from, << <<"renamed", from, to>> >>) >>
Unlinkat(p) == << Segment("remove", p, << <<"released", p>> >>) >>

\* #remove, after the clunk.
RemoveFid(p, h) ==
  (IF h = None THEN <<>> ELSE << CloseOf(h) >>) \o
    << Ask(p), Segment("remove", p, << <<"released", p>> >>) >>

-----------------------------------------------------------------------------
(* Steps                                                                   *)

Context(t) ==
  [fids |-> fids, qids |-> qids, locks |-> locks, session |-> session, req |-> tasks[t]]

QidStep(c, p) ==
  LET key == KeyOf(tree, c.req.file)
      table == c.qids[c.req.s]
  IN [c EXCEPT !.qids[c.req.s] = QidPathFor(@, p, key),
               !.req.told = @ \cup {<<QidOf(table, p, key), c.req.file>>}]

FailStep(c) == [c EXCEPT !.req.failed = TRUE]

\* mutant: the fid is created before the directory is looked at
AttachStepFirst(c, p) ==
  IF InUse(c.fids[c.req.s], c.req.n) THEN FailStep(c)
  ELSE [c EXCEPT !.fids[c.req.s] = CreateFid(@, c.req.n, p, c.req.file), !.req.adds = {c.req.n},
                 !.req.failed = ~IsDir(tree, c.req.file)]

\* `create`: the fid has to be free.
AttachStep(c, p) ==
  IF InUse(c.fids[c.req.s], c.req.n) \/ ~IsDir(tree, c.req.file) THEN FailStep(c)
  ELSE [c EXCEPT !.fids[c.req.s] = CreateFid(@, c.req.n, p, c.req.file), !.req.adds = {c.req.n}]

CloneStep(c, p) ==
  LET t == c.fids[c.req.s] IN
  IF ~InUse(t, c.req.n) \/ (c.req.new # c.req.n /\ InUse(t, c.req.new)) THEN FailStep(c)
  ELSE [c EXCEPT !.fids[c.req.s] = CloneFid(@, c.req.n, c.req.new, p, FileAt(tree, p)),
                 !.req.adds = {c.req.new}]

\* mutant: the fid is not looked up again
EnsureNotOpen(t, req) == t.objects[req.object].open = Closed

\* #ensureOpenable: the fid is this object still, and nobody has opened it.
EnsureOpenable(t, req) ==
  /\ t.at[req.n] = req.object
  /\ t.objects[req.object].open = Closed

\* The `open` a fid is given; a driver that keeps no handles leaves it none.
OpenedAs(o, req, kind, q) ==
  [o EXCEPT !.open = kind, !.qid = q,
            !.handle = IF kind = OpenFile /\ keep THEN req.handle ELSE None]

OpenedStep(c, p) ==
  LET t == c.fids[c.req.s]
      kind == IF IsDir(tree, c.req.file) THEN OpenDir ELSE OpenFile
      q == QidOf(c.qids[c.req.s], p, KeyOf(tree, c.req.file))
  IN IF ~EnsureOpenable(t, c.req) THEN FailStep(c)
     ELSE [QidStep(c, p) EXCEPT !.fids[c.req.s].objects[c.req.object] = OpenedAs(@, c.req, kind, q),
                                !.req.handle = None]

\* A directory is opened without the driver, a file with it.
KindStep(c, p) ==
  IF IsDir(tree, c.req.file) THEN OpenedStep(c, p)
  ELSE [c EXCEPT !.req.todo = << Head(@) >> \o LopenFile(p, c.req.flag)]

\* The qid has been asked for by now; the fid becomes the new file.
LcreatedStep(c, p) ==
  LET t == c.fids[c.req.s]
      q == c.qids[c.req.s].byPath[p]
  IN IF ~EnsureOpenable(t, c.req) \/ t.objects[c.req.object].path # Parent(p) THEN FailStep(c)
     ELSE [c EXCEPT !.fids[c.req.s].objects[c.req.object] =
                       OpenedAs([MoveFid(@, p) EXCEPT !.file = c.req.file, !.adrift = FALSE],
                                c.req, OpenFile, q),
                    !.req.handle = None]

SnapshotStep(c, p) ==
  LET names == Head(c.req.page) IN
  [c EXCEPT !.fids[c.req.s].objects[c.req.object].cursor =
              [listed |-> names, given |-> {}, dir |-> FileAt(tree, p)],
            !.req.todo = << Head(@) >> \o Page(p, names, 0),
            !.req.page = <<>>]

\* The reply takes PageSize entries and ends at the next one there is; noteOffset
\* goes to the cursor the fid has now.
PackStep(c, p, offset) ==
  IF Len(c.req.page) = PageSize
  THEN [QidStep(c, p) EXCEPT !.req.todo = << Head(@) >>, !.req.told = c.req.told]
  ELSE [QidStep(c, p) EXCEPT
          !.req.page = Append(@, offset),
          !.fids[c.req.s].objects[c.req.object].cursor =
             IF @ = NoCursor THEN @ ELSE [@ EXCEPT !.given = @ \cup {offset}]]

\* #renameTo, once the driver has renamed.
RenamedStep(c, from, to) ==
  [c EXCEPT !.fids[c.req.s] = RemapFids(@, from, to, FileAt(tree, to)),
            !.qids[c.req.s] = RemapQids(@, from, to),
            !.locks = RemapLocks(@, from, to)]

\* #released.
ReleasedStep(c, p) ==
  [c EXCEPT !.qids[c.req.s] = ReleaseQid(@, p), !.locks = ReleaseLocks(@, p)]

Apply(c, step) ==
  CASE step[1] = "qid"      -> QidStep(c, step[2])
    [] step[1] = "pinned"   -> [c EXCEPT !.req.told = @ \cup
                                  {<<c.fids[c.req.s].objects[c.req.object].qid, c.req.file>>}]
    [] step[1] = "attach"   -> AttachStep(c, step[2])
    [] step[1] = "clone"    -> CloneStep(c, step[2])
    [] step[1] = "kind"     -> KindStep(c, step[2])
    [] step[1] = "opened"   -> OpenedStep(c, step[2])
    [] step[1] = "lcreated" -> LcreatedStep(c, step[2])
    [] step[1] = "snapshot" -> SnapshotStep(c, step[2])
    [] step[1] = "pack"     -> PackStep(c, step[2], step[3])
    [] step[1] = "renamed"  -> RenamedStep(c, step[2], step[3])
    [] step[1] = "released" -> ReleasedStep(c, step[2])
    [] step[1] = "agree"    -> [c EXCEPT !.session[c.req.s].agreed = ~c.session[c.req.s].destroyed]
    [] step[1] = "unlock"   -> [c EXCEPT !.req.locked = FALSE]

Turn(c) ==
  FoldLeft(LAMBDA acc, step : IF acc.req.failed THEN acc ELSE Apply(acc, step),
           c, Head(c.req.todo).then)

-----------------------------------------------------------------------------
(* The driver                                                              *)

Answered(t, task) ==
  /\ tasks' = [tasks EXCEPT ![t] = [task EXCEPT !.at = "resumed"]]
  /\ UNCHANGED <<qids, session, locks, keep, believes, told, left, requests>>

\* History: what session s does to the names at and under ps, the other sessions
\* are not told, and the session itself follows a rename only.
Adrift(s, ps, own) ==
  [r \in Sessions |-> [fids[r] EXCEPT !.objects =
     [i \in DOMAIN @ |->
        IF (r # s \/ own) /\ \E p \in ps : Inside(@[i].path, p)
        THEN [@[i] EXCEPT !.adrift = TRUE] ELSE @[i]]]]

OpenFiles == {handles[h].file : h \in {h \in DOMAIN handles : handles[h].closed = 0}}

\* An inode number comes back once its file has no name and no handle, and the
\* request that took the last name has its answer.
Unheard == {t \in Busy : tasks[t].at = "resumed" /\ Segment1(t).call \in {"remove", "rename"}}
UsableInos == FreeInos(tree, OpenFiles \cup {tasks[t].file : t \in Unheard})

Makes(t) ==
  LET p == Segment1(t).on IN
  /\ \E call \in {"mkdir", "make"} : Awaits(t, call)
  /\ CanMake(tree, p)
  /\ \E i \in UsableInos : tree' = Make(tree, p, i, Segment1(t).call = "mkdir", None)
  /\ Answered(t, tasks[t])
  /\ UNCHANGED <<handles, fids, taken>>

OpenHandle(t, f) ==
  /\ Len(handles) < MaxHandles
  /\ handles' = Append(handles, [file |-> f, closed |-> 0])
  /\ Answered(t, [tasks[t] EXCEPT !.handle = Len(handles) + 1])
  /\ UNCHANGED <<fids, taken>>

\* open, and open with O_CREAT of what is there.
Opens(t) ==
  LET f == FileAt(tree, Segment1(t).on) IN
  /\ Awaits(t, "open") \/ Awaits(t, "create")
  /\ f # None /\ ~IsDir(tree, f)
  /\ OpenHandle(t, f)
  /\ UNCHANGED tree

Creates(t) ==
  LET p == Segment1(t).on IN
  /\ Awaits(t, "create")
  /\ CanMake(tree, p)
  /\ \E i \in UsableInos : tree' = Make(tree, p, i, FALSE, None)
  /\ OpenHandle(t, Len(tree.files) + 1)

\* close, whatever it answers: of the request's own handle, and of a fid's.
Closes(t) ==
  /\ \/ /\ Awaits(t, "close")
        /\ handles' = [handles EXCEPT ![tasks[t].handle].closed = @ + 1]
        /\ Answered(t, [tasks[t] EXCEPT !.handle = None])
     \/ /\ Awaits(t, "closeOf")
        /\ handles' = [handles EXCEPT ![Segment1(t).on].closed = @ + 1]
        /\ Answered(t, tasks[t])
  /\ UNCHANGED <<tree, fids, taken>>

\* lstat of a name, and a call on a handle.
Reaches(t) ==
  /\ \/ LET f == FileAt(tree, Segment1(t).on)
        IN Awaits(t, "lstat") /\ f # None /\ Answered(t, [tasks[t] EXCEPT !.file = f])
     \/ LET h == handles[Segment1(t).on]
        IN Awaits(t, "fstat") /\ h.closed = 0 /\ Answered(t, [tasks[t] EXCEPT !.file = h.file])
     \/ Awaits(t, "io") /\ Answered(t, tasks[t])
  /\ UNCHANGED <<tree, handles, fids, taken>>

Lists(t) ==
  LET d == Segment1(t).on IN
  /\ Awaits(t, "readdir")
  /\ IsDir(tree, FileAt(tree, d))
  /\ Answered(t, [tasks[t] EXCEPT !.page = << SetToSeq(Listing(tree, d)) >>])
  /\ UNCHANGED <<tree, handles, fids, taken>>

\* History: the last names other sessions lose when s takes those at and under p.
Taken(s, p) ==
  [r \in Sessions |-> IF r = s THEN taken[r]
     ELSE taken[r] \cup ({FileAt(tree, q) : q \in {q \in Entries : Inside(q, p)}} \ {None})]

Removes(t) ==
  LET p == Segment1(t).on IN
  /\ Awaits(t, "remove")
  /\ CanRemove(tree, p)
  /\ tree' = Removed(tree, p)
  /\ fids' = Adrift(tasks[t].s, {p}, TRUE)
  /\ taken' = Taken(tasks[t].s, p)
  /\ Answered(t, [tasks[t] EXCEPT !.file = FileAt(tree, p)])
  /\ UNCHANGED handles

Renames(t) ==
  LET from == Segment1(t).and
      to == Segment1(t).on
  IN /\ Awaits(t, "rename")
     /\ CanRename(tree, from, to)
     /\ tree' = Renamed(tree, from, to)
     /\ fids' = Adrift(tasks[t].s, {from, to}, FALSE)
     /\ taken' = Taken(tasks[t].s, to)
     /\ Answered(t, [tasks[t] EXCEPT !.file = FileAt(tree, to)])
     /\ UNCHANGED handles

MakesLink(t) ==
  /\ Awaits(t, "link")
  /\ CanLink(tree, Segment1(t).on, Segment1(t).and)
  /\ tree' = Linked(tree, Segment1(t).on, Segment1(t).and)
  /\ Answered(t, tasks[t])
  /\ UNCHANGED <<handles, fids, taken>>

Driver(t) ==
  \/ Makes(t) \/ Opens(t) \/ Creates(t) \/ Closes(t) \/ Reaches(t) \/ Lists(t)
  \/ Removes(t) \/ Renames(t) \/ MakesLink(t)

-----------------------------------------------------------------------------
(* #run: the request goes on, or replies                                   *)

\* What the client makes of the reply: a clunk or a remove gives up its fid
\* whatever the answer, and one a reset overtook gives it nothing.
Replies(t, req) ==
  LET s == req.s
      overtaken == req.gen # session[s].gen
      good == ~req.failed /\ ~overtaken
  IN /\ tasks' = [tasks EXCEPT ![t] = Idle]
     /\ believes' = [believes EXCEPT ![s] = (@ \ (IF overtaken THEN {} ELSE req.drops))
                                              \cup (IF good THEN req.adds ELSE {})]
     /\ told' = IF good THEN told \cup {<<s, x[1], x[2]>> : x \in req.told} ELSE told
     /\ left' = [left EXCEPT ![s] = @ \cup IF overtaken THEN req.adds ELSE {}]

Goes(t, req) ==
  IF req.todo # <<>>
  THEN /\ tasks' = [tasks EXCEPT ![t] = [req EXCEPT !.at = "driver"]]
       /\ UNCHANGED <<believes, told, left>>
  ELSE Replies(t, req)

\* A request that fails closes the handle it opened and no fid has.
Failing(req) ==
  [req EXCEPT !.failed = TRUE, !.told = {}, !.adds = {},
              !.todo = IF req.handle = None THEN <<>> ELSE << Closing >>]

\* Waiting for nothing, or for an answer of no consequence.
NeedsNoDriver(t) == \E call \in {"none", "ask"} : Awaits(t, call)

Resumes(t) ==
  LET c == Turn(Context(t)) IN
  /\ tasks[t].at = "resumed" \/ NeedsNoDriver(t)
  /\ fids' = c.fids /\ qids' = c.qids /\ locks' = c.locks /\ session' = c.session
  /\ Goes(t, IF c.req.failed /\ ~tasks[t].failed THEN Failing(c.req)
             ELSE [c.req EXCEPT !.todo = Tail(@)])
  /\ UNCHANGED <<driver, taken, requests>>

Fails(t) ==
  LET req == tasks[t] IN
  /\ tasks[t].at = "driver" /\ Segment1(t).call \notin {"none", "close", "closeOf"}
  /\ Goes(t, CASE Segment1(t).orElse = "next" -> [req EXCEPT !.todo = Tail(@)]
               [] Segment1(t).orElse = "reply" -> [req EXCEPT !.todo = <<>>]
               [] OTHER -> Failing(req))
  /\ UNCHANGED <<fids, qids, session, locks, driver, taken, requests>>

-----------------------------------------------------------------------------
(* The start of a request                                                  *)

\* The PathLock of the session.
LockIsFree(req) ==
  LET mine == {u \in Busy : tasks[u].s = req.s} IN
  IF req.writer THEN \A u \in mine : ~tasks[u].locked
  ELSE req.locked => \A u \in mine : ~tasks[u].writer

Crosses(req, other) ==
  /\ req.changes \/ other.changes
  /\ \E p \in req.uses \ {Top}, q \in other.uses \ {Top} : Inside(p, q) \/ Inside(q, p)

\* The fid numbers a request of this session would give, and those it takes.
Giving(s) == {tasks[u].new : u \in {u \in Busy : tasks[u].s = s}}
UsedBy(s) == {tasks[u].n : u \in {u \in Busy : tasks[u].s = s}}
Free(s) == Fids \ (believes[s] \cup Giving(s))

\* #dispatch: a version is agreed and the session is not destroyed.
Allowed(s) == session[s].agreed /\ ~session[s].destroyed /\ requests < MaxRequests

\* Bound: a request that only asks counts for two.
Weigh(n) == requests + n <= MaxRequests /\ requests' = requests + n
Weight(program) == IF \A seg \in ToSet(program) : seg.call = "ask" THEN 2 ELSE 1

\* The handler up to its first await; what it does before that is in the primed
\* fids and locks of its action.
Begin(t, req, program) ==
  /\ tasks[t] = Idle
  /\ LockIsFree(req)
  /\ \A u \in Busy : ~Crosses(req, tasks[u])
  /\ Weigh(Weight(program))
  /\ tasks' = [tasks EXCEPT ![t] = [req EXCEPT !.todo = program, !.at = "driver"]]
  /\ UNCHANGED <<qids, session, driver, clients>>

Starts(t, req, program) == Begin(t, req, program) /\ UNCHANGED <<fids, locks>>

Object(s, n) == Fid(fids[s], n)

Req(s, n, ps) ==
  [Idle EXCEPT !.s = s, !.gen = session[s].gen, !.n = n, !.object = fids[s].at[n],
               !.locked = TRUE, !.uses = ps]
Change(s, n, ps) == [Req(s, n, ps) EXCEPT !.changes = TRUE]
OutsideLock(req) == [req EXCEPT !.locked = FALSE]

TAttach(t, s, n, p) ==
  Starts(t, [Req(s, n, {p}) EXCEPT !.new = n], Attach(p))

\* A client walks a fid in place when nothing else is using it.
TWalk(t, s, n, new, names) ==
  LET o == Object(s, n)
      steps == [i \in DOMAIN names |-> o.path \o SubSeq(names, 1, i)]
      end == o.path \o names
  IN /\ o.open = Closed /\ ToSet(steps) \subseteq Paths
     /\ new = n => n \notin UsedBy(s)
     /\ Starts(t, [Req(s, n, ToSet(steps) \cup {end}) EXCEPT !.new = new], Walk(steps, end))

\* #clunk and the first half of #remove, in one turn.
Clunked(s, n) ==
  /\ fids' = [fids EXCEPT ![s] = ClunkFid(@, n)]
  /\ locks' = ReleaseFid(locks, s, n)

TClunk(t, s, n) ==
  LET h == Object(s, n).handle IN
  /\ Begin(t, OutsideLock([Req(s, n, {}) EXCEPT !.drops = {n}]),
           IF h = None THEN << Segment("none", Top, <<>>) >> ELSE << CloseOf(h) >>)
  /\ Clunked(s, n)

TRemove(t, s, n) ==
  LET o == Object(s, n) IN
  /\ Begin(t, [Change(s, n, {o.path}) EXCEPT !.drops = {n}], RemoveFid(o.path, o.handle))
  /\ Clunked(s, n)

\* What asks about the fid's file.
TAsk(t, s, n) ==
  LET o == Object(s, n)
      req == Req(s, n, {o.path})
  IN \/ Starts(t, req, Getattr(o))
     \/ Starts(t, req, Statfs(o.path))
     \/ Starts(t, req, Readlink(o.path))
     \/ Starts(t, req, Setattr(o.path))

\* Treaddir: a rewind drops the cursor before the directory is listed again, and
\* any other offset is one the cursor gave.
TReaddir(t, s, n, offset) ==
  LET o == Object(s, n)
      req == Req(s, n, {o.path} \cup {p \in Entries : Parent(p) = o.path})
      rest == Page(o.path, o.cursor.listed, offset)
  IN /\ o.open = OpenDir
     /\ \/ /\ offset = 0
           /\ Begin(t, req, Readdir(o.path))
           /\ fids' = [fids EXCEPT ![s].objects[fids[s].at[n]].cursor = NoCursor]
           /\ UNCHANGED locks
        \/ /\ offset \in o.cursor.given
           /\ Starts(t, req, IF rest = <<>> THEN << Segment("none", o.path, <<>>) >> ELSE rest)

TLopen(t, s, n, trunc) ==
  LET o == Object(s, n) IN
  /\ o.open = Closed
  /\ Starts(t, [Req(s, n, {o.path}) EXCEPT !.flag = trunc], Lopen(o.path))

TLcreate(t, s, n, name) ==
  LET o == Object(s, n)
      p == Append(o.path, name)
  IN /\ o.open = Closed /\ p \in Paths
     /\ Starts(t, Change(s, n, {p}), Lcreate(p))

\* Tread, Twrite and Tfsync run outside the lock.
TIo(t, s, n) ==
  LET o == Object(s, n) IN
  /\ o.open = OpenFile
  /\ Starts(t, [Req(s, n, {o.path}) EXCEPT !.locked = o.handle = None], WithHandle(o))

TMake(t, s, n, name) ==
  LET p == Append(Object(s, n).path, name)
      req == Change(s, n, {p})
  IN /\ p \in Paths
     /\ Starts(t, req, Mkdir(p)) \/ Starts(t, req, Symlink(p)) \/ Starts(t, req, Mknod(p))

TLink(t, s, n, m, name) ==
  LET p == Append(Object(s, m).path, name)
      q == Object(s, n).path
  IN p \in Paths /\ Starts(t, Change(s, n, {p, q}), Link(p, q))

\* Trename of a fid, and Trenameat of a name.
TRename(t, s, n, m, name) ==
  LET from == Object(s, n).path
      to == Append(Object(s, m).path, name)
  IN /\ to \in Paths /\ from # Top
     /\ Starts(t, [Change(s, n, {from, to}) EXCEPT !.writer = TRUE], RenameTo(from, to))

TRenameat(t, s, n, name, m, newname) ==
  LET from == Append(Object(s, n).path, name)
      to == Append(Object(s, m).path, newname)
  IN /\ from \in Paths /\ to \in Paths
     /\ Starts(t, [Change(s, n, {from, to}) EXCEPT !.writer = TRUE], RenameTo(from, to))

TUnlinkat(t, s, n, name) ==
  LET p == Append(Object(s, n).path, name) IN
  p \in Paths /\ Starts(t, Change(s, n, {p}), Unlinkat(p))

\* #setlk and #getlk answer at once.
TLock(s, n, owner, type, range) ==
  LET o == Object(s, n) IN
  /\ \A u \in Busy : ~Crosses([tasks[u] EXCEPT !.uses = {o.path}, !.changes = FALSE], tasks[u])
  /\ Weigh(1)
  /\ locks' = IF type = "UNLCK" THEN [locks EXCEPT ![o.path] = Unlocked(@, owner, range)]
              ELSE IF LockStatus(locks[o.path], owner, type, range) = "SUCCESS"
              THEN [locks EXCEPT ![o.path] =
                      Granted(@, <<s, n>>, owner, type, range, IF o.adrift THEN None ELSE o.file)]
              ELSE locks
  /\ UNCHANGED <<fids, qids, session, driver, clients, tasks>>

\* #reset, up to the closing of what was open.
Reset(s) ==
  /\ fids' = [fids EXCEPT ![s] = [@ EXCEPT !.at = [n \in Fids |-> None]]]
  /\ qids' = [qids EXCEPT ![s] = ClearQids(@)]
  /\ locks' = ReleaseAll(locks, s)
  /\ left' = [left EXCEPT ![s] = {}]

\* Tversion and destroy(): each handle is closed in turn, and then a version is
\* agreed, unless the session was destroyed meanwhile.
TVersion(t, s, destroy) ==
  LET req == [Req(s, CHOOSE n \in Fids : TRUE, {}) EXCEPT !.gen = @ + 1, !.drops = Fids] IN
  /\ tasks[t] = Idle /\ ~session[s].destroyed
  /\ destroy \/ \A u \in Busy : tasks[u].s = s => tasks[u].drops # Fids
  /\ Weigh(1)
  /\ session' = [session EXCEPT ![s] = [gen |-> @.gen + 1, agreed |-> FALSE, destroyed |-> destroy]]
  /\ tasks' = [tasks EXCEPT ![t] =
       [OutsideLock(req) EXCEPT !.at = "driver",
          !.todo = SetToSeq({CloseOf(h) : h \in OpenHandles(fids[s])}) \o << Segment("none", Top, << <<"agree">> >>) >>]]
  /\ Reset(s)
  /\ UNCHANGED <<driver, believes, told, taken>>

-----------------------------------------------------------------------------
\* The sessions after their clients have attached fid `root` and walked fid
\* `fid` to p, a file or a directory (dir), which one of them has open; q is
\* another name of it, the name of another like it, or nothing.
InitWith(root, fid, p, q, dir, atq) ==
  LET inos == SetToSeq(Inos)
      made(n) == [ino |-> inos[n], dir |-> dir, mark |-> None]
      known == QidPathFor(QidPathFor(NewQidTable, Top, NoKey), p, inos[1])
      walked == CreateFid(CreateFid(NewFidTable, root, Top, RootFile), fid, p, 1)
  IN /\ keep \in BOOLEAN
     /\ tree = [NewTree EXCEPT !.files = << made(1) >> \o (IF atq = 2 THEN << made(2) >> ELSE <<>>),
                               !.names = [e \in Entries |-> CASE e = p -> 1 [] e = q -> atq [] OTHER -> None]]
     /\ handles = IF keep /\ ~dir THEN << [file |-> 1, closed |-> 0] >> ELSE <<>>
     /\ \E s \in Sessions :
          fids = [r \in Sessions |->
            IF r # s THEN walked
            ELSE [walked EXCEPT !.objects[2] =
                    [@ EXCEPT !.open = IF dir THEN OpenDir ELSE OpenFile, !.qid = 2,
                              !.handle = Len(handles),
                              !.cursor = IF dir THEN [listed |-> <<>>, given |-> {}, dir |-> 1] ELSE @]]]
     /\ qids = [s \in Sessions |-> known]
     /\ session = [s \in Sessions |-> [gen |-> 0, agreed |-> TRUE, destroyed |-> FALSE]]
     /\ locks = NewLockTable
     /\ believes = [s \in Sessions |-> {root, fid}]
     /\ told = {<<s, 1, RootFile>> : s \in Sessions} \cup {<<s, 2, 1>> : s \in Sessions}
     /\ left = [s \in Sessions |-> {}] /\ taken = [s \in Sessions |-> {}]
     /\ tasks = [t \in Tasks |-> Idle] /\ requests = 0

Names == {Last(p) : p \in Entries}

\* The requests of a client of session s about a fid it takes to be in use; a
\* fid being given up or walked in place is left alone.
Request(t, s) ==
  \/ \E n \in Free(s), p \in Paths : TAttach(t, s, n, p)
  \/ \E n \in believes[s] : InUse(fids[s], n) /\ n \notin Giving(s) /\
       \/ \E new \in Free(s) \cup {n}, p \in Paths : Len(p) <= 2 /\ TWalk(t, s, n, new, p)
       \/ TClunk(t, s, n) \/ TRemove(t, s, n) \/ TAsk(t, s, n)
       \/ \E offset \in 0 .. Cardinality(Paths) : TReaddir(t, s, n, offset)
       \/ \E trunc \in BOOLEAN : TLopen(t, s, n, trunc)
       \/ TIo(t, s, n)
       \/ \E name \in Names : TLcreate(t, s, n, name) \/ TMake(t, s, n, name) \/ TUnlinkat(t, s, n, name)
       \/ \E name \in Names, m \in believes[s] \ Giving(s) : InUse(fids[s], m) /\
            \/ TLink(t, s, n, m, name) \/ TRename(t, s, n, m, name)
            \/ \E newname \in Names : TRenameat(t, s, n, name, m, newname)

Locks(s) ==
  \E n \in believes[s], owner \in LockOwners, type \in {"R", "W", "UNLCK"}, range \in LockRanges :
    InUse(fids[s], n) /\ n \notin Giving(s) /\ TLock(s, n, owner, type, range)

Next ==
  \/ \E t \in Busy : Driver(t) \/ Resumes(t) \/ Fails(t)
  \/ \E s \in Sessions : Allowed(s) /\ (Locks(s) \/ \E t \in Tasks \ Busy : Request(t, s))
  \/ \E s \in Sessions, t \in Tasks, destroy \in BOOLEAN : TVersion(t, s, destroy)

-----------------------------------------------------------------------------
(* Properties                                                              *)

\* #reset and #lopen, on what a fid had open: every driver handle is a live
\* fid's, or a request's that has yet to close it, and none is closed twice.
HandlesAccountedFor ==
  \A h \in DOMAIN handles :
    LET held == {s \in Sessions : h \in OpenHandles(fids[s])}
        due == {t \in Busy : tasks[t].handle = h \/ CloseOf(h) \in ToSet(tasks[t].todo)}
    IN /\ handles[h].closed = 0 => (held # {} \/ due # {})
       /\ handles[h].closed = 1 => held = {}
       /\ handles[h].closed <= 1

\* fids.ts, on identities: a qid path the client was given never denotes two
\* files, but for a file another session removed.
QidsNameOneFile ==
  \A x, y \in told : (x[1] = y[1] /\ x[2] = y[2]) => (x[3] = y[3] \/ {x[3], y[3]} \cap taken[x[1]] # {})

Settled == \A t \in Busy : ~tasks[t].changes

\* locks.ts, on renames and removals: a range taken through a fid that stood for
\* its file stays at that file's name, and is held through a fid in use.
LocksFollowTheirFile ==
  \A p \in Paths : \A l \in ToSet(locks[p]) :
    /\ InUse(fids[l.open[1]], l.open[2])
    /\ Settled /\ l.file # None => FileAt(tree, p) = l.file

\* What the client takes to be in use is what the table has, once it has heard
\* of its requests, but for the fids of requests a Tversion overtook.
FidsAgree ==
  \A s \in Sessions :
    (~session[s].destroyed /\ \A t \in Busy : tasks[t].s # s) =>
      \A n \in Fids \ left[s] : InUse(fids[s], n) <=> n \in believes[s]

\* fids.ts, on remap: a fid names its file through every rename of it and of what
\* is above it, and a listing under way is its directory's; and the fids there
\* are are those the client uses.
FidsFollowRenames ==
  /\ FidsAgree
  /\ Settled => \A s \in Sessions, n \in Fids :
       LET o == Object(s, n) IN
       InUse(fids[s], n) /\ ~o.adrift =>
         FileAt(tree, o.path) = o.file /\ o.cursor.dir \in {None, o.file}
=============================================================================
