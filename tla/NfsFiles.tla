------------------------------- MODULE NfsFiles -------------------------------
(***************************************************************************)
(* The NFSv3 and NFSv4.1 sessions of src/nfs/session.ts over the tables    *)
(* they share, with the driver and the clients on either side.             *)
(*                                                                         *)
(* A task is a request being handled, running one of the programs of       *)
(* NfsPrograms.  Each await is two steps: the driver's call takes effect,  *)
(* by what its path holds then, and the handler resumes; the other tasks   *)
(* run in between.  RENAME is the writer of the PathLock, READ and WRITE   *)
(* of v3 take no lock, and everything else is a reader.                    *)
(***************************************************************************)
EXTENDS NfsPrograms

CONSTANTS
  Tasks,        \* requests in flight at one time; each is an open-owner too
  Verifiers,    \* create verifiers, each one client's for one file
  Versions,     \* the NFS versions in use
  MaxRequests,  \* bound: requests over a run
  PageSize,     \* names in a page of a listing
  Orderly       \* no request uses a name another one is changing, and nothing
                \* is in flight at destroy()

ASSUME FilesAssumption ==
  /\ Versions \subseteq {3, 4}
  /\ MaxRequests \in Nat /\ PageSize \in Nat \ {0}
  /\ Orderly \in BOOLEAN

VARIABLES
  table,      \* the FileHandleTable
  snapshots,  \* the DirectorySnapshots of each session
  exclusives, \* the ExclusiveCreates
  opens,      \* the v4 state table: the file key, owner and file of each open
  tasks,      \* the requests in flight
  requests,   \* how many requests there have been
  destroyed,  \* destroy() has been called
  tree,       \* the driver; the mark of a file is its create verifier
  held,       \* the clients: the handles they were given
  denotes,    \* the clients: the files each handle was given for
  pages,      \* the clients: where they are in a listing
  told        \* the clients: the verifiers and files of answered exclusive creates

server == <<table, snapshots, exclusives, opens>>
clients == <<held, denotes, pages, told>>
vars == <<server, tree, clients, tasks, requests, destroyed>>

NoVerifier == "none"

Idle == [todo |-> <<>>, catch |-> <<>>, at |-> "idle", version |-> 3, locked |-> TRUE,
         writer |-> FALSE, changes |-> FALSE, uses |-> {}, via |-> None, verf |-> NoVerifier,
         file |-> None, links |-> 0, page |-> <<>>, listing |-> {}, from |-> 0,
         bound |-> None, opened |-> {}, grants |-> {}, told |-> None, failed |-> FALSE,
         flag |-> FALSE]

Busy == {t \in Tasks : tasks[t] # Idle}
Segment1(t) == Head(tasks[t].todo)
Awaits(t, call) == tasks[t].at = "driver" /\ Segment1(t).call = call

-----------------------------------------------------------------------------
(* Steps: what a handler does to the tables in one turn.  A context is the *)
(* tables and the request.                                                 *)

Context(t) == [table |-> table, snapshots |-> snapshots, exclusives |-> exclusives,
               opens |-> opens, req |-> tasks[t]]

BindStep(c, p) ==
  LET key == KeyOf(tree, c.req.file) IN
  [c EXCEPT !.table = Bind(@, p, key, c.req.links), !.req.bound = BoundTo(c.table, p, key)]

\* The snapshots of both sessions after one has changed the names of d.
Invalidated(c, n) ==
  [v \in {3, 4} |->
     IF v = c.req.version THEN SnapshotDelete(c.snapshots[v], n)
     ELSE [i \in DOMAIN c.snapshots[v] |->
             [c.snapshots[v][i] EXCEPT !.crossed = @ \/ c.snapshots[v][i].id = n]]]

InvalidateStep(c, d) ==
  LET n == c.table.byPath[d] IN
  [c EXCEPT !.table = At(@, d), !.snapshots = IF n = None THEN @ ELSE Invalidated(c, n)]

\* A removed directory's own snapshot goes with it.
UnbindStep(c, p) ==
  LET n == c.table.byPath[p] IN
  [c EXCEPT !.table = Unbind(@, p), !.snapshots = IF n = None THEN @ ELSE Invalidated(c, n)]

SnapshotStep(c) ==
  [c EXCEPT !.snapshots[c.req.version] = SnapshotSet(@, c.req.via, Head(c.req.page))]

ResumeStep(c, d) ==
  LET mine == c.snapshots[c.req.version]
      hit == \E e \in ToSet(SnapshotOf(mine, c.req.via)) : e.names = c.req.listing
      found == [c EXCEPT !.snapshots[c.req.version] = SnapshotGet(@, c.req.via)]
  IN IF hit THEN [found EXCEPT !.req.page = << c.req.listing >>]
     ELSE [found EXCEPT !.req.todo = << Head(@), Relist(d) >> \o Tail(@)]

\* The verifier is a hash of the names, so the same names make it match.
RelistStep(c) ==
  IF c.req.page = << c.req.listing >> THEN SnapshotStep(c) ELSE [c EXCEPT !.req.failed = TRUE]

\* The entries of the page, as the version and the request's kind list them.
EntryPrograms(c, p) ==
  IF c.req.version = 4 THEN EntryAttrs4(p, c.req.flag)
  ELSE IF c.req.flag THEN ReaddirplusEntry3(p)
  ELSE ReaddirEntry3(p, c.table.byPath[p] # None)

PageStep(c, d) ==
  LET all == SetToSeq(Head(c.req.page))
      last == IF c.req.from + PageSize < Len(all) THEN c.req.from + PageSize ELSE Len(all)
      entries == FlattenSeq([i \in 1 .. (last - c.req.from) |-> EntryPrograms(c, Append(d, all[c.req.from + i]))])
  IN IF c.req.page = <<>> THEN c
     ELSE [c EXCEPT !.req.todo = << Head(@) >> \o entries \o Tail(@),
                    !.req.listing = Head(c.req.page), !.req.from = last, !.req.page = <<>>]

OpenStep(c, t) ==
  LET o == [key |-> c.req.bound, owner |-> t, file |-> c.req.file] IN
  IF IsDir(tree, c.req.file) THEN [c EXCEPT !.req.failed = TRUE]
  ELSE [c EXCEPT !.opens = @ \cup {o}, !.req.opened = {o} \ c.opens,
                 !.table = IF \E x \in c.opens : x.key = o.key THEN @ ELSE Pin(@, o.key),
                 !.req.grants = @ \cup {<<o.key, o.file>>}]

\* The states os go; with the last one of its file, #unpinFile.
Unpinned(tb, left, os) ==
  FoldSet(LAMBDA n, u : Unpin(u, n), tb, {o.key : o \in os} \ {o.key : o \in left})

\* OPEN failed: the state it made goes, an upgraded one stays as it is.
UndoStep(c) ==
  [c EXCEPT !.opens = @ \ c.req.opened, !.req.failed = TRUE,
            !.table = Unpinned(@, c.opens \ c.req.opened, c.req.opened \cap c.opens)]

Apply(c, step, t) ==
  CASE step[1] = "bind"       -> BindStep(c, step[2])
    [] step[1] = "grant"      -> [c EXCEPT !.req.grants = @ \cup {<<c.req.bound, c.req.file>>}]
    [] step[1] = "at"         -> [c EXCEPT !.table = At(@, step[2])]
    [] step[1] = "invalidate" -> InvalidateStep(c, step[2])
    [] step[1] = "unbind"     -> UnbindStep(c, step[2])
    [] step[1] = "remap"      -> [c EXCEPT !.table = Remap(@, step[2], step[3])]
    [] step[1] = "forget"     -> [c EXCEPT !.exclusives = ExclusiveForget(@, step[2])]
    [] step[1] = "remember"   -> [c EXCEPT !.exclusives = ExclusiveSet(@, step[2], c.req.verf),
                                           !.req.told = IF @ = None THEN c.req.file ELSE @]
    [] step[1] = "match"      -> [c EXCEPT !.exclusives = ExclusiveMatch(@, step[2]),
                                           !.req.told = c.req.file,
                                           !.req.failed = ~Matches(c.exclusives, step[2], c.req.verf)]
    [] step[1] = "snapshot"   -> SnapshotStep(c)
    [] step[1] = "resume"     -> ResumeStep(c, step[2])
    [] step[1] = "relist"     -> RelistStep(c)
    [] step[1] = "page"       -> PageStep(c, step[2])
    [] step[1] = "open"       -> OpenStep(c, t)
    [] step[1] = "undo"       -> UndoStep(c)
    [] step[1] = "refuse"     -> [c EXCEPT !.req.failed = TRUE]

\* The steps of a segment, up to one that fails.
Turn(c, t) ==
  FoldLeft(LAMBDA acc, step : IF acc.req.failed THEN acc ELSE Apply(acc, step, t),
           c, Head(c.req.todo).then)

-----------------------------------------------------------------------------
(* The driver                                                              *)

\* An inode number comes back once its file has no name and no handle, and the
\* request that took the last name has its answer.
Unheard == {t \in Busy : tasks[t].at = "resumed" /\ Segment1(t).call \in {"remove", "rename"}}
UsableInos == FreeInos(tree, {o.file : o \in opens} \cup {tasks[t].file : t \in Unheard})

\* The call on task t's behalf has taken effect.
Answered(t, task) ==
  /\ tasks' = [tasks EXCEPT ![t] = [task EXCEPT !.at = "resumed"]]
  /\ UNCHANGED <<server, clients, requests, destroyed>>

Makes(p, dir, verf) ==
  /\ CanMake(tree, p)
  /\ \E i \in UsableInos : tree' = Make(tree, p, i, dir, verf)

Creates(t) ==
  /\ Awaits(t, "create") \/ Awaits(t, "createAny")
  /\ Makes(Segment1(t).on, FALSE, tasks[t].verf)
  /\ Answered(t, [tasks[t] EXCEPT !.file = Len(tree.files) + 1])

MakesDirectory(t) ==
  /\ Awaits(t, "mkdir")
  /\ Makes(Segment1(t).on, TRUE, NoVerifier)
  /\ Answered(t, tasks[t])

\* lstat, and a call that reads or changes the file at the path.
Reaches(t) ==
  LET f == FileAt(tree, Segment1(t).on) IN
  /\ \E call \in {"lstat", "io", "createAny", "open"} : Awaits(t, call)
  /\ f # None
  /\ Segment1(t).call \in {"createAny", "open"} => ~IsDir(tree, f)
  /\ Answered(t, IF Segment1(t).call = "lstat"
                 THEN [tasks[t] EXCEPT !.file = f, !.links = Links(tree, f)] ELSE tasks[t])
  /\ UNCHANGED tree

Lists(t) ==
  LET d == Segment1(t).on IN
  /\ Awaits(t, "readdir")
  /\ IsDir(tree, FileAt(tree, d))
  /\ Answered(t, [tasks[t] EXCEPT !.page = << Listing(tree, d) >>])
  /\ UNCHANGED tree

Removes(t) ==
  LET p == Segment1(t).on IN
  /\ Awaits(t, "remove")
  /\ CanRemove(tree, p)
  /\ tree' = Removed(tree, p)
  /\ Answered(t, [tasks[t] EXCEPT !.file = FileAt(tree, p)])

Renames(t) ==
  LET from == Segment1(t).and
      to == Segment1(t).on
  IN /\ Awaits(t, "rename")
     /\ CanRename(tree, from, to)
     /\ tree' = Renamed(tree, from, to)
     /\ Answered(t, [tasks[t] EXCEPT !.file = FileAt(tree, to)])

MakesLink(t) ==
  /\ Awaits(t, "link")
  /\ CanLink(tree, Segment1(t).on, Segment1(t).and)
  /\ tree' = Linked(tree, Segment1(t).on, Segment1(t).and)
  /\ Answered(t, tasks[t])

-----------------------------------------------------------------------------
(* The handlers                                                            *)

\* The request goes on with its next segment, or replies.
Goes(t, req) ==
  IF req.todo # <<>>
  THEN /\ tasks' = [tasks EXCEPT ![t] = [req EXCEPT !.at = "driver", !.failed = FALSE]]
       /\ UNCHANGED <<clients, requests, destroyed>>
  ELSE /\ tasks' = [tasks EXCEPT ![t] = Idle]
       /\ held' = held \cup {g[1] : g \in req.grants}
       /\ denotes' = [n \in Ids |-> denotes[n] \cup {g[2] : g \in {g \in req.grants : g[1] = n}}]
       /\ pages' = IF req.from = 0 \/ req.from = Cardinality(req.listing) THEN pages
                   ELSE pages \cup {[version |-> req.version, id |-> req.via,
                                     listing |-> req.listing, from |-> req.from]}
       /\ told' = IF req.told = None THEN told ELSE told \cup {<<req.verf, req.told>>}
       /\ UNCHANGED <<requests, destroyed>>

\* The request with its reply refused: what it has for the client is not given.
Refused(req) ==
  [req EXCEPT !.todo = req.catch, !.catch = <<>>, !.grants = {}, !.told = None, !.from = 0,
              !.file = None, !.links = 0, !.bound = None]

Resumes(t) ==
  LET c == Turn(Context(t), t)
      req == IF c.req.failed THEN Refused(c.req)
             ELSE [c.req EXCEPT !.todo = Tail(@), !.file = None, !.links = 0, !.bound = None]
  IN /\ tasks[t].at = "resumed" \/ \E call \in {"ask", "await", "none"} : Awaits(t, call)
     /\ \A step \in ToSet(Segment1(t).then) :
          step[1] = "bind" => CanBind(table, step[2], KeyOf(tree, tasks[t].file))
     /\ table' = c.table /\ snapshots' = c.snapshots
     /\ exclusives' = c.exclusives /\ opens' = c.opens
     /\ Goes(t, req)
     /\ UNCHANGED tree

\* What a request whose driver call failed goes on with.
AfterFailure(t) ==
  LET req == tasks[t]
      exists == Segment1(t).call = "create" => FileAt(tree, Segment1(t).on) # None
  IN IF Segment1(t).quiet THEN [req EXCEPT !.todo = Tail(@)]
     ELSE IF Segment1(t).orElse # <<>> /\ exists
     THEN [req EXCEPT !.todo = Segment1(t).orElse, !.file = FileAt(tree, Segment1(t).on)]
     ELSE Refused(req)

\* The snapshots a handler that failed after its change has left as they were.
LeftBehind(t) ==
  LET missed == {table.byPath[step[2]] : step \in
                   {step \in UNION {ToSet(s.then) : s \in ToSet(tasks[t].todo)} : step[1] = "invalidate"}}
  IN [v \in {3, 4} |-> [i \in DOMAIN snapshots[v] |->
        [snapshots[v][i] EXCEPT !.crossed = @ \/ snapshots[v][i].id \in missed]]]

Fails(t) ==
  /\ tasks[t].at = "driver" /\ Segment1(t).call # "none"
  /\ snapshots' = IF Segment1(t).call = "await" THEN LeftBehind(t) ELSE snapshots
  /\ Goes(t, AfterFailure(t))
  /\ UNCHANGED <<tree, table, exclusives, opens>>

-----------------------------------------------------------------------------
(* The start of a request                                                  *)

\* mutant: RENAME runs as one more reader
NoLock(req) == TRUE

\* The PathLock: a rename runs with no reader, and with what takes no lock.
LockIsFree(req) ==
  IF req.writer THEN \A u \in Busy : ~tasks[u].locked
  ELSE req.locked => \A u \in Busy : ~tasks[u].writer

Crosses(req, other) ==
  /\ req.changes \/ other.changes
  /\ \E p \in req.uses \ {Top}, q \in other.uses \ {Top} : Inside(p, q) \/ Inside(q, p)

\* Bound: a request counts for two, unless it grants a handle with
\* nothing else, lists, opens, renames or removes, or creates what may be there.
Telling == {"remember", "unbind", "remap", "open", "snapshot", "resume"}
Weight(program) ==
  LET first == Head(program) IN
  IF \/ /\ \E s \in ToSet(program) : \E step \in ToSet(s.then) : step[1] \in Telling
        /\ first.call = "create" => first.orElse # <<>>
     \/ first.call = "lstat" /\ Len(first.then) = 2
  THEN 1 ELSE 2

\* The handler up to its first await.
Begin(t, req, program, catch, through) ==
  /\ tasks[t] = Idle /\ ~destroyed /\ requests + Weight(program) <= MaxRequests
  /\ req.version \in Versions
  /\ LockIsFree(req)
  /\ Orderly => \A u \in Busy : ~Crosses(req, tasks[u])
  /\ requests' = requests + Weight(program)
  /\ table' = FoldSet(LAMBDA n, tb : Resolve(tb, n), table, through)
  /\ tasks' = [tasks EXCEPT ![t] = [req EXCEPT !.todo = program, !.catch = catch, !.at = "driver"]]
  /\ UNCHANGED <<snapshots, exclusives, opens, tree, clients, destroyed>>

Req(v, uses) == [Idle EXCEPT !.version = v, !.uses = uses]
Change(v, uses) == [Req(v, uses) EXCEPT !.changes = TRUE]

\* The handlers of one file, through its handle n.
OnFile3(t, n) ==
  LET p == PathOf(table, n)
      req == [Req(3, {p}) EXCEPT !.via = n]
      free == [req EXCEPT !.locked = FALSE]
  IN \/ Begin(t, req, Getattr3(p), <<>>, {n})
     \/ Begin(t, req, Access3(p), <<>>, {n})
     \/ Begin(t, req, Readlink3(p), << PostOp(p) >>, {n})
     \/ Begin(t, req, Commit3(p), <<>>, {n})
     \/ Begin(t, req, Fsstat3(p), <<>>, {n})
     \/ Begin(t, req, Fsinfo3(p), <<>>, {n})
     \/ Begin(t, req, Pathconf3(p), <<>>, {n})
     \/ Begin(t, req, Setattr3(p), << PostOp(p) >>, {n})
     \/ Begin(t, free, ReadFile3(p), << PostOp(p) >>, {n})
     \/ Begin(t, free, Write3(p), << PostOp(p) >>, {n})

OnFile4(t, n) ==
  LET p == PathOf(table, n)
      req == [Req(4, {p}) EXCEPT !.via = n]
  IN \/ Begin(t, req, Getattr4(p), <<>>, {n})
     \/ Begin(t, req, Verify4(p), <<>>, {n})
     \/ Begin(t, req, Access4(p), <<>>, {n})
     \/ Begin(t, req, Readlink4(p), <<>>, {n})
     \/ Begin(t, req, Commit4(p), <<>>, {n})
     \/ Begin(t, req, Setattr4(p), <<>>, {n})
     \/ Begin(t, req, Open4(p), <<>>, {n})
     \/ p # Top /\ Begin(t, req, Lookupp4(p, Parent(p)), <<>>, {n})
     \/ p # Top /\ Begin(t, req, SecinfoNoName4(Parent(p)), <<>>, {n})

\* The handlers of an entry p of the directory whose handle is n.
OnEntry3(t, n, p) ==
  LET d == PathOf(table, n)
      new == Change(3, {p})
      bad == << PostOp(d) >>
  IN /\ Parent(p) = d
     /\ \/ Begin(t, Req(3, {p}), Lookup3(p, d), bad, {n})
        \/ Begin(t, new, CreateGuarded3(p, d), bad, {n})
        \/ Begin(t, new, CreateUnchecked3(p, d), bad, {n})
        \/ \E v \in Verifiers : Begin(t, [new EXCEPT !.verf = v], CreateExclusive3(p, d), bad, {n})
        \/ Begin(t, new, Mkdir3(p, d), bad, {n})
        \/ Begin(t, new, Symlink3(p, d), bad, {n})
        \/ Begin(t, new, Mknod3(p, d), bad, {n})
        \/ Begin(t, new, Remove3(p, d), bad, {n})

OnEntry4(t, n, p) ==
  LET d == PathOf(table, n)
      new == Change(4, {p})
  IN /\ Parent(p) = d
     /\ \/ Begin(t, Req(4, {p}), Lookup4(p), <<>>, {n})
        \/ Begin(t, Req(4, {p}), Secinfo4(p), <<>>, {n})
        \/ Begin(t, new, Create4(p, d), <<>>, {n})
        \/ Begin(t, new, OpenCreate4(p, d), <<>>, {n})
        \/ Begin(t, new, OpenGuarded4(p, d), <<>>, {n})
        \/ \E v \in Verifiers : Begin(t, [new EXCEPT !.verf = v], OpenCreateExclusive4(p, d), <<>>, {n})
        \/ Begin(t, new, Remove4(p, d), <<>>, {n})

OnTwo(t, n, p, m, q) ==
  LET d == PathOf(table, n)
      e == PathOf(table, m)
      posts == << PostOp(e), PostOp(d) >>
      moving(v) == [Change(v, {p, q}) EXCEPT !.writer = TRUE]
  IN /\ Parent(p) = d
     /\ \/ e = q /\ Begin(t, Change(3, {p, q}), Link3(p, d, q), posts, {n, m})
        \/ e = q /\ Begin(t, Change(4, {p, q}), Link4(p, d, q), <<>>, {n, m})
        \/ q # Top /\ Parent(q) = e /\ Begin(t, moving(3), Rename3(q, e, p, d), posts, {n, m})
        \/ q # Top /\ Parent(q) = e /\ Begin(t, moving(4), Rename4(q, e, p, d), <<>>, {n, m})

\* READDIR, READDIRPLUS and v4's READDIR, from the start or from a cookie.
Lister(v, n, d, plus) ==
  [Req(v, {d} \cup {p \in Entries : Parent(p) = d}) EXCEPT !.via = n, !.flag = plus]

Readdir(t, n, v, plus) ==
  LET d == PathOf(table, n) IN
  Begin(t, Lister(v, n, d, plus),
        << FirstPage(d) >> \o (IF v = 3 THEN << PostOp(d) >> ELSE <<>>),
        IF v = 3 THEN << PostOp(d) >> ELSE <<>>, {n})

ReaddirOn(t, g, plus) ==
  LET d == PathOf(table, g.id) IN
  Begin(t, [Lister(g.version, g.id, d, plus) EXCEPT !.listing = g.listing, !.from = g.from],
        << NextPage(d) >> \o (IF g.version = 3 THEN << PostOp(d) >> ELSE <<>>),
        IF g.version = 3 THEN << PostOp(d) >> ELSE <<>>, {g.id})

\* CLOSE and the end of a lease.
Close(o) ==
  /\ ~destroyed /\ requests < MaxRequests /\ requests' = requests + 1
  /\ opens' = opens \ {o}
  /\ table' = Unpinned(table, opens \ {o}, {o})
  /\ UNCHANGED <<snapshots, exclusives, tree, clients, tasks, destroyed>>

\* The window of the exclusive creates passes; a handler looks at its record in
\* one turn, so between requests is often enough.
Passes ==
  /\ ~destroyed /\ Busy = {}
  /\ exclusives # ExclusiveAge(exclusives)
  /\ exclusives' = ExclusiveAge(exclusives)
  /\ UNCHANGED <<table, snapshots, opens, tree, clients, tasks, requests, destroyed>>

\* Both sessions' destroy: the tables of requests go, the handles stay unpinned.
Destroy ==
  /\ ~destroyed
  /\ Orderly => Busy = {}
  /\ destroyed' = TRUE
  /\ snapshots' = [v \in {3, 4} |-> <<>>]
  /\ exclusives' = <<>>
  /\ table' = Unpinned(table, {}, opens)
  /\ opens' = {}
  /\ UNCHANGED <<tree, clients, tasks, requests>>

-----------------------------------------------------------------------------
\* The tables after a client of each version has been at work: the directory d,
\* listed by both, and its file p, created by verifier v and open, with q its
\* second link, another file or nothing.
InitWith(d, p, q, v, atq) ==
  LET inos == SetToSeq(Inos)
      links == IF atq = 2 THEN 2 ELSE 1
      made(n, dir, verf) == [ino |-> inos[n], dir |-> dir, mark |-> verf]
  IN \E t \in Tasks :
       /\ table = Pin(Bind(Bind(NewTable, d, inos[1], 1), p, inos[2], links), 3)
       /\ opens = {[key |-> 3, owner |-> t, file |-> 2]}
       /\ snapshots = [n \in {3, 4} |-> SnapshotSet(<<>>, 2, {Last(p)})]
       /\ exclusives = ExclusiveSet(<<>>, p, v)
       /\ tree = [NewTree EXCEPT
                    !.files = << made(1, TRUE, NoVerifier), made(2, FALSE, v) >>
                                \o (IF atq = 3 THEN << made(3, FALSE, NoVerifier) >> ELSE <<>>),
                    !.names = [e \in Entries |-> CASE e = d -> 1 [] e = p -> 2 [] e = q -> atq
                                                    [] OTHER -> None]]
       /\ held = {1, 2, 3}
       /\ denotes = [n \in Ids |-> CASE n = 1 -> {RootFile} [] n \in {2, 3} -> {n - 1} [] OTHER -> {}]
       /\ tasks = [u \in Tasks |-> Idle] /\ requests = 0 /\ destroyed = FALSE
       /\ pages = {} /\ told = {}

Driver(t) ==
  \/ Creates(t) \/ MakesDirectory(t) \/ Reaches(t) \/ Lists(t)
  \/ Removes(t) \/ Renames(t) \/ MakesLink(t)

\* The handles a client holds that do not answer ESTALE.
Reached == {n \in held : Resolves(table, n)}

Request(t, n) ==
  \/ OnFile3(t, n) \/ OnFile4(t, n)
  \/ \E p \in Entries : OnEntry3(t, n, p) \/ OnEntry4(t, n, p)
  \/ \E p \in Entries, q \in Paths, m \in Reached : OnTwo(t, n, p, m, q)
  \/ \E v \in {3, 4}, plus \in BOOLEAN : Readdir(t, n, v, plus)
  \/ \E g \in pages, plus \in BOOLEAN : g.id = n /\ ReaddirOn(t, g, plus)

Next ==
  \/ \E t \in Busy : Driver(t) \/ Resumes(t) \/ Fails(t)
  \/ requests < MaxRequests /\ \E t \in Tasks \ Busy, n \in Reached : Request(t, n)
  \/ \E o \in opens : Close(o)
  \/ Passes
  \/ Destroy

-----------------------------------------------------------------------------
(* Properties                                                              *)

\* The maps of the handle table describe one set of entries, each live one but
\* the root with a name and no name with two; a pin is an open state's.
TableAgrees ==
  /\ table \in Table
  /\ \A p \in Paths, n \in Ids : table.byPath[p] = n <=> p \in ToSet(table.paths[n])
  /\ \A k \in Inos : table.byKey[k] # None =>
       table.byKey[k] \in Live(table) /\ table.key[table.byKey[k]] = k
  /\ \A n \in Ids \ {Root} : n \in Live(table) <=> table.paths[n] # <<>>
  /\ \A n \in Ids : table.pins[n] <= 1 /\ (table.pins[n] = 1 => \E o \in opens : o.key = n)

\* handles.ts: "the client is told ESTALE, never handed somebody else's file".
\* With no change of names under way, a handle that resolves names a file it
\* was given for; and no request is about to read or write another one.
ReachesItsFile ==
  /\ TableAgrees
  /\ (\A t \in Busy : ~tasks[t].changes) =>
       \A n \in held : Resolves(table, n) =>
         FileAt(tree, PathOf(table, n)) \in denotes[n] \cup {None}
  /\ \A t \in Busy : Awaits(t, "io") => FileAt(tree, Segment1(t).on) \in denotes[tasks[t].via] \cup {None}

\* handles.ts, on pins: one file's open states share one file key, however full
\* the table is and whatever it evicts, unless a name of the file was removed
\* while another was left.
OneStatePerFile ==
  \A o, x \in opens : (o.file = x.file /\ o.file \notin tree.cut) => o.key = x.key

\* handles.ts, the invalidation rule, for the changes of the session that keeps
\* the snapshot: whatever is cached for a directory that can be named is its
\* listing, once the changes under way are done.
SnapshotsAreCurrent ==
  (\A t \in Busy : ~tasks[t].changes) =>
    \A v \in {3, 4} : \A e \in ToSet(snapshots[v]) :
      (~e.crossed /\ Resolves(table, e.id)) => e.names = Listing(tree, PathOf(table, e.id))

\* util.ts, on exclusive creates: "a worse answer than the RFC's but never a
\* wrong file".  A client told its exclusive create succeeded has the file it
\* created itself.
NeverAWrongFile == \A x \in told : tree.files[x[2]].mark = x[1]

\* handles.ts: the cap is soft for pinned entries only.  The table grows past it
\* only where every other entry is pinned.
GrowsForPinsOnly ==
  [][Len(table'.order) > Len(table.order) /\ Len(table'.order) + 1 > Cap =>
       Cardinality({n \in ToSet(table'.order) : table'.pins[n] = 0}) <= 1]_table
=============================================================================
