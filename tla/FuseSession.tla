----------------------------- MODULE FuseSession ----------------------------
(***************************************************************************)
(* The namespace and open-file handlers of src/fuse/session.ts over the    *)
(* inode table, with the driver and the kernel on either side.             *)
(*                                                                         *)
(* A task is a request being handled.  Its handler resolves nodeids to     *)
(* paths, awaits the driver, and changes the table when it resumes; a      *)
(* driver call takes effect at some moment while it is awaited, and by     *)
(* what the driver's path holds then.  RENAME runs as the writer of the    *)
(* PathLock and everything else here as a reader.  FORGET takes no lock    *)
(* and awaits nothing.  A reply reaches the kernel with the step that      *)
(* produces it.                                                            *)
(***************************************************************************)
EXTENDS FuseInodes

CONSTANTS
  Tasks,       \* requests in flight at one time
  MaxRequests, \* bound: requests over a run, FORGET and RELEASE not counted
  MaxFiles,    \* bound: files the driver creates over a run
  MaxOpens,    \* bound: open files over a run
  MaxLookups,  \* bound: lookups of one nodeid the kernel has not forgotten
  Drivers,     \* the drivers' capabilities: handles, inode numbers
  Orderly      \* no request uses a name another one is changing, and nothing
               \* is in flight at destroy()

ASSUME SessionAssumption ==
  /\ MaxRequests \in Nat /\ MaxFiles \in Nat /\ MaxOpens \in Nat /\ MaxLookups \in Nat
  /\ Drivers \subseteq [handles : BOOLEAN, inos : BOOLEAN]
  /\ Orderly \in BOOLEAN

VARIABLES
  table,       \* #inodes
  opens,       \* #files: the inode and the driver handle of each fh
  nextFh,      \* #nextFh
  tasks,       \* the requests in flight
  requests,    \* how many requests there have been
  destroyed,   \* #destroyed
  toClose,     \* the handles destroy() still has to close
  cleared,     \* destroy() has cleared the inode table
  names,       \* the driver: the file at each path
  files,       \* the driver: inode number and kind of every file so far
  handles,     \* the driver: the file of each handle, and how often it was closed
  driver,      \* the driver's capabilities
  held,        \* the kernel: lookups it has yet to forget
  denotes      \* the kernel: the files the lookups of a nodeid it holds were for

session == <<table, opens, nextFh>>
teardown == <<destroyed, toClose, cleared>>
backing == <<names, files, handles>>
kernel == <<held, denotes>>
vars == <<session, teardown, backing, kernel, tasks, requests, driver>>

Entries == Paths \ {Top}
Files == 1 .. MaxFiles
RootFile == MaxFiles + 1
Names == {p[Len(p)] : p \in Entries}

FileAt(p) == IF p = Top THEN RootFile ELSE names[p]
IsDir(f) == f = RootFile \/ (f \in DOMAIN files /\ files[f].dir)

\* The `(dev, ino)` of a file the driver has answered lstat for.
KeyOf(f) == IF driver.inos THEN files[f].ino ELSE NoKey

Idle == [op |-> "none", at |-> "idle", nodes |-> {}, path |-> Top, from |-> Top,
         page |-> {}, file |-> None, handle |-> None, owed |-> <<>>]

Step(t, task) == tasks' = [tasks EXCEPT ![t] = task]
At(t, op, at) == tasks[t].op = op /\ tasks[t].at = at
Busy == {t \in Tasks : tasks[t].at # "idle"}

-----------------------------------------------------------------------------
(* The start of a request                                                  *)

Changing == {"create", "make", "link", "remove", "rename"}
Used(task) == {task.path, task.from} \cup task.page

\* What the kernel does not have in flight together.  It changes an entry under
\* its directory's lock, which listing the directory takes too; a LOOKUP that
\* revalidates an entry and whatever names a nodeid take no such lock, and wait
\* for a change under way only where Orderly says so.
Conflict(task, other) ==
  /\ {task.op, other.op} \cap Changing # {}
  /\ Orderly \/ {task.op, other.op} \subseteq Changing \cup {"readdir"}
  /\ (Used(task) \ {Top}) \cap Used(other) # {}

Known(n) == n = Root \/ held[n] > 0

\* mutant: RENAME runs as one more reader
NoLock(op) == TRUE

\* The PathLock: a rename runs alone.
LockIsFree(op) ==
  IF op = "rename" THEN Busy = {} ELSE \A u \in Busy : tasks[u].op # "rename"

\* #dispatch takes the request, one on a nodeid the kernel holds (else ESTALE).
MayBegin(t) == tasks[t] = Idle /\ ~destroyed /\ requests < MaxRequests

\* The handler up to its first await.
Begin(t, task) ==
  /\ requests' = requests + 1
  /\ \A n \in task.nodes : Known(n) /\ n \in table.live
  /\ LockIsFree(task.op)
  /\ \A u \in Busy : ~Conflict(task, tasks[u])
  /\ Step(t, task)
  /\ UNCHANGED <<session, teardown, backing, kernel, driver>>

Request(op, at, n) ==
  [Idle EXCEPT !.op = op, !.at = at, !.nodes = {n}, !.path = PathOf(table, n)]

\* #childOf.
ChildRequest(op, at, n, name) ==
  [Request(op, at, n) EXCEPT !.path = Append(PathOf(table, n), name)]

CanName(n, name) == HasPath(table, n) /\ Append(PathOf(table, n), name) \in Paths

\* Room for the open file of one more request.
RoomToOpen ==
  LET opening == {u \in Busy : /\ tasks[u].op \in {"create", "open"}
                               /\ ~driver.handles \/ tasks[u].at = "driver"}
      used == IF driver.handles THEN Len(handles) ELSE nextFh - 1
  IN used + Cardinality(opening) < MaxOpens

Lookup(t, n, name) == CanName(n, name) /\ Begin(t, ChildRequest("lookup", "lstat", n, name))

\* MKDIR, SYMLINK and MKNOD.
Make(t, n, name) == CanName(n, name) /\ Begin(t, ChildRequest("make", "driver", n, name))

\* UNLINK and RMDIR.
RemoveEntry(t, n, name) == CanName(n, name) /\ Begin(t, ChildRequest("remove", "driver", n, name))

Create(t, n, name) ==
  CanName(n, name) /\ RoomToOpen /\ Begin(t, ChildRequest("create", "driver", n, name))

Link(t, old, n, name) ==
  /\ CanName(n, name) /\ HasPath(table, old)
  /\ Begin(t, [ChildRequest("link", "driver", n, name) EXCEPT
                 !.nodes = {old, n}, !.from = PathOf(table, old)])

Rename(t, n, name, m, newName) ==
  /\ CanName(n, name) /\ CanName(m, newName)
  /\ Begin(t, [ChildRequest("rename", "driver", m, newName) EXCEPT
                 !.nodes = {n, m}, !.from = Append(PathOf(table, n), name)])

Open(t, n) == HasPath(table, n) /\ RoomToOpen /\ Begin(t, Request("open", "driver", n))

\* READDIRPLUS: the listing may be an earlier page's, so its names may be gone.
Readdir(t, n, listed) ==
  /\ HasPath(table, n) /\ listed # {}
  /\ listed \subseteq Children(PathOf(table, n))
  /\ Begin(t, [Request("readdir", "page", n) EXCEPT !.page = listed])

HandlesOn(n) == {o.handle : o \in {o \in opens : o.node = n}} \ {None}

\* #handleFor: GETATTR and the like describe the inode by its path, or by a
\* handle on it that the kernel names or that is all an orphan has left.
Getattr(t, n) == HasPath(table, n) /\ Begin(t, Request("reach", "driver", n))

GetattrByHandle(t, n, h) ==
  /\ h \in HandlesOn(n)
  /\ Begin(t, [Idle EXCEPT !.op = "reach", !.at = "driver", !.nodes = {n}, !.handle = h])

\* #withHandle for a driver with no per-open state: the path is opened again.
Reopen(t, o) ==
  /\ o.handle = None /\ HasPath(table, o.node)
  /\ Begin(t, Request("reach", "driver", o.node))

-----------------------------------------------------------------------------
(* The driver                                                              *)

Present(f) == \/ \E p \in Entries : names[p] = f
              \/ \E h \in DOMAIN handles : handles[h].file = f /\ handles[h].closed = 0

\* An unlink or a rename of which the handler has not heard yet.
Unheard == {t \in Busy : tasks[t].at = "done"}

\* Inode numbers come back once no name and no handle is left, and the request
\* that took the last name away has its answer.
FreeInos ==
  Inos \ ({files[f].ino : f \in {f \in DOMAIN files : Present(f)}}
            \cup {files[tasks[t].file].ino : t \in {t \in Unheard : tasks[t].file # None}})

Opened(f) == IF driver.handles THEN Append(handles, [file |-> f, closed |-> 0]) ELSE handles
OpenedHandle == IF driver.handles THEN Len(handles) + 1 ELSE None
Closed(h) == IF h = None THEN handles ELSE [handles EXCEPT ![h].closed = @ + 1]

Awaits(t, op) == At(t, op, "driver")

\* The call on task t's behalf has taken effect.
Done(t, task) ==
  /\ Step(t, task)
  /\ UNCHANGED <<session, teardown, kernel, driver, requests>>

NewFile(p, dir) ==
  /\ FileAt(p) = None /\ IsDir(FileAt(Parent(p)))
  /\ Len(files) < MaxFiles
  /\ \E i \in FreeInos : files' = Append(files, [ino |-> i, dir |-> dir])
  /\ names' = [names EXCEPT ![p] = Len(files) + 1]

DriverMakes(t, dir) ==
  /\ Awaits(t, "make")
  /\ NewFile(tasks[t].path, dir)
  /\ Done(t, [tasks[t] EXCEPT !.at = "lstat"])
  /\ UNCHANGED handles

DriverCreates(t) ==
  /\ Awaits(t, "create")
  /\ NewFile(tasks[t].path, FALSE)
  /\ handles' = Opened(Len(files) + 1)
  /\ Done(t, [tasks[t] EXCEPT !.at = "lstat", !.handle = OpenedHandle])

\* open, or CREATE of a file that is there.
DriverOpens(t) ==
  LET f == FileAt(tasks[t].path) IN
  /\ Awaits(t, "open") \/ Awaits(t, "create")
  /\ f # None /\ ~IsDir(f)
  /\ handles' = Opened(f)
  /\ Done(t, IF tasks[t].op = "create"
             THEN [tasks[t] EXCEPT !.at = "lstat", !.handle = OpenedHandle]
             ELSE [tasks[t] EXCEPT !.at = "opened", !.handle = OpenedHandle])
  /\ UNCHANGED <<names, files>>

DriverLinks(t) ==
  LET f == FileAt(tasks[t].from) IN
  /\ Awaits(t, "link")
  /\ f # None /\ ~IsDir(f)
  /\ FileAt(tasks[t].path) = None /\ IsDir(FileAt(Parent(tasks[t].path)))
  /\ names' = [names EXCEPT ![tasks[t].path] = f]
  /\ Done(t, [tasks[t] EXCEPT !.at = "lstat"])
  /\ UNCHANGED <<files, handles>>

EmptyAt(p) == \A q \in Children(p) : names[q] = None

DriverRemoves(t) ==
  LET p == tasks[t].path IN
  /\ Awaits(t, "remove")
  /\ FileAt(p) # None /\ EmptyAt(p)
  /\ names' = [names EXCEPT ![p] = None]
  /\ Done(t, [tasks[t] EXCEPT !.at = "done", !.file = FileAt(p)])
  /\ UNCHANGED <<files, handles>>

\* rename(2): two links of one file are left as they are.
Renamed(from, to) ==
  IF FileAt(from) = FileAt(to) THEN names
  ELSE [p \in Entries |->
          CASE Inside(p, to) -> IF Moved(p, to, from) \in Entries
                                THEN names[Moved(p, to, from)] ELSE None
            [] ~Inside(p, to) /\ Inside(p, from) -> None
            [] OTHER -> names[p]]

\* bound: everything under `from`, in the driver or the table, has a name under `to`.
FitsUnder(from, to) ==
  \A p \in Entries : (Inside(p, from) /\ (names[p] # None \/ table.byPath[p] # None))
                       => Moved(p, from, to) \in Paths

DriverRenames(t) ==
  LET from == tasks[t].from
      to == tasks[t].path
  IN /\ Awaits(t, "rename")
     /\ FileAt(from) # None /\ IsDir(FileAt(Parent(to)))
     /\ from = to \/ ~(Inside(from, to) \/ Inside(to, from))
     /\ FileAt(to) # None => (IsDir(FileAt(from)) = IsDir(FileAt(to)) /\ EmptyAt(to))
     /\ FitsUnder(from, to)
     /\ names' = Renamed(from, to)
     /\ Done(t, [tasks[t] EXCEPT !.at = "done", !.file = FileAt(to)])
     /\ UNCHANGED <<files, handles>>

DriverLstats(t) ==
  /\ tasks[t].at = "lstat"
  /\ FileAt(tasks[t].path) # None
  /\ Done(t, [tasks[t] EXCEPT !.at = "resumed", !.file = FileAt(tasks[t].path)])
  /\ UNCHANGED backing

\* The answer to a request of op "reach" changes nothing here.
DriverReaches(t) ==
  /\ Awaits(t, "reach")
  /\ Done(t, Idle)
  /\ UNCHANGED backing

DriverLstatsEntry(t, p) ==
  /\ tasks[t].at = "page" /\ p \in tasks[t].page
  /\ Done(t, [tasks[t] EXCEPT !.at = IF FileAt(p) = None THEN "page" ELSE "entry",
                              !.path = p, !.page = @ \ {p}, !.file = FileAt(p)])
  /\ UNCHANGED backing

-----------------------------------------------------------------------------
(* The handlers' continuations                                             *)

\* #addFile.
AddFile(n, h) ==
  /\ opens' = opens \cup {[fh |-> nextFh, node |-> n, handle |-> h]}
  /\ nextFh' = nextFh + 1

HandOut(n, f) ==
  /\ held' = [held EXCEPT ![n] = @ + 1]
  /\ denotes' = [denotes EXCEPT ![n] = @ \cup {f}]

\* The lookups of n the tasks of T have in their READDIRPLUS pages so far.
Owing(T, n) ==
  UNION {{t} \X {i \in DOMAIN tasks[t].owed : tasks[t].owed[i].node = n} : t \in T}

Owed(T, n) == Cardinality(Owing(T, n))

\* #bindEntry and #lookup after their lstat, with the rest of #create.
BindsEntry(t) ==
  LET task == tasks[t]
      key == KeyOf(task.file)
      n == BoundTo(table, task.path, key)
  IN /\ task.at = "resumed"
     /\ CanBind(table, task.path, key) /\ held[n] + Owed(Tasks, n) < MaxLookups
     /\ table' = Acquire(Bind(table, task.path, key), n)
     /\ HandOut(n, task.file)
     /\ IF task.op = "create" THEN AddFile(n, task.handle) ELSE UNCHANGED <<opens, nextFh>>
     /\ Step(t, Idle)
     /\ UNCHANGED <<teardown, backing, driver, requests>>

OpenResumes(t) ==
  /\ tasks[t].at = "opened"
  /\ \E n \in tasks[t].nodes : AddFile(n, tasks[t].handle)
  /\ Step(t, Idle)
  /\ UNCHANGED <<table, teardown, backing, kernel, driver, requests>>

RemoveResumes(t) ==
  /\ At(t, "remove", "done")
  /\ table' = Unbind(table, tasks[t].path)
  /\ Step(t, Idle)
  /\ UNCHANGED <<opens, nextFh, teardown, backing, kernel, driver, requests>>

RenameResumes(t) ==
  /\ At(t, "rename", "done")
  /\ table' = Remap(table, tasks[t].from, tasks[t].path)
  /\ Step(t, Idle)
  /\ UNCHANGED <<opens, nextFh, teardown, backing, kernel, driver, requests>>

\* One entry of a READDIRPLUS page, its lookup owed to the reply.
EntryBound(t) ==
  LET task == tasks[t]
      key == KeyOf(task.file)
      n == BoundTo(table, task.path, key)
  IN /\ task.at = "entry"
     /\ CanBind(table, task.path, key) /\ held[n] + Owed(Tasks, n) < MaxLookups
     /\ table' = Acquire(Bind(table, task.path, key), n)
     /\ Step(t, [task EXCEPT !.at = "page",
                             !.owed = Append(@, [node |-> n, file |-> task.file])])
     /\ UNCHANGED <<opens, nextFh, teardown, backing, kernel, driver, requests>>

\* The page is full, or its entries are all in it.
PageEnds(t) ==
  /\ tasks[t].at = "page"
  /\ held' = [n \in Nodeids |-> held[n] + Owed({t}, n)]
  /\ denotes' = [n \in Nodeids |->
                   denotes[n] \cup {e.file : e \in {e \in ToSet(tasks[t].owed) : e.node = n}}]
  /\ Step(t, Idle)
  /\ UNCHANGED <<session, teardown, backing, driver, requests>>

\* mutant: a handler that fails leaves its handle open
LeavesOpen(t) == handles

\* What an unwound CREATE or OPEN closes.
Unwound(t) == IF tasks[t].op \in {"create", "open"} THEN Closed(tasks[t].handle) ELSE handles

\* The driver refuses a call, or the O_TRUNC of an OPEN.
Fails(t) ==
  /\ tasks[t].at \in {"driver", "lstat", "opened"}
  /\ handles' = Unwound(t)
  /\ Step(t, Idle)
  /\ UNCHANGED <<session, teardown, names, files, kernel, driver, requests>>

-----------------------------------------------------------------------------
(* RELEASE, FORGET and destroy                                             *)

\* The kernel releases a file with no request on it in flight.
InUse(h) == h # None /\ \E u \in Busy : tasks[u].handle = h

\* #removeFile.
Removed(o) == opens \ {o}

Release(o) ==
  /\ ~destroyed /\ ~InUse(o.handle)
  /\ opens' = Removed(o)
  /\ handles' = Closed(o.handle)
  /\ UNCHANGED <<table, nextFh, teardown, names, files, kernel, tasks, driver, requests>>

\* The kernel keeps an inode it names in a request or has open.
Pinned(n) == (\E u \in Busy : n \in tasks[u].nodes) \/ \E o \in opens : o.node = n

ForgetLookups(n, count) ==
  /\ ~destroyed /\ n # Root /\ ~Pinned(n)
  /\ count <= held[n]
  /\ held' = [held EXCEPT ![n] = @ - count]
  /\ denotes' = [denotes EXCEPT ![n] = IF held[n] = count THEN {} ELSE @]
  /\ table' = Forget(table, n, count)
  /\ UNCHANGED <<opens, nextFh, teardown, backing, tasks, driver, requests>>

\* destroy() up to its first close.
Destroy ==
  /\ ~destroyed
  /\ Orderly => Busy = {}
  /\ destroyed' = TRUE
  /\ toClose' = {o.handle : o \in opens} \ {None}
  /\ opens' = {}
  /\ UNCHANGED <<table, nextFh, cleared, backing, kernel, tasks, driver, requests>>

DestroyCloses(h) ==
  /\ h \in toClose
  /\ handles' = Closed(h)
  /\ toClose' = toClose \ {h}
  /\ UNCHANGED <<session, destroyed, cleared, names, files, kernel, tasks, driver, requests>>

DestroyClears ==
  /\ destroyed /\ toClose = {} /\ ~cleared
  /\ table' = Clear(table)
  /\ cleared' = TRUE
  /\ UNCHANGED <<opens, nextFh, destroyed, toClose, backing, kernel, tasks, driver, requests>>

-----------------------------------------------------------------------------
Init ==
  /\ table = NewTable /\ opens = {} /\ nextFh = 1
  /\ tasks = [t \in Tasks |-> Idle] /\ requests = 0
  /\ destroyed = FALSE /\ toClose = {} /\ cleared = FALSE
  /\ names = [p \in Entries |-> None] /\ files = <<>> /\ handles = <<>>
  /\ driver \in Drivers
  /\ held = [n \in Nodeids |-> 0]
  /\ denotes = [n \in Nodeids |-> IF n = Root THEN {RootFile} ELSE {}]

Starts(t) ==
  /\ MayBegin(t)
  /\ \/ \E n \in table.live, name \in Names :
          \/ Lookup(t, n, name) \/ Make(t, n, name)
          \/ RemoveEntry(t, n, name) \/ Create(t, n, name)
          \/ \E m \in table.live :
               \/ Link(t, m, n, name)
               \/ \E newName \in Names : Rename(t, n, name, m, newName)
     \/ \E n \in table.live :
          \/ Open(t, n) \/ Getattr(t, n)
          \/ \E h \in HandlesOn(n) : GetattrByHandle(t, n, h)
          \/ HasPath(table, n) /\ \E S \in SUBSET Children(PathOf(table, n)) : Readdir(t, n, S)
     \/ \E o \in opens : Reopen(t, o)

DriverActs(t) ==
  \/ \E dir \in BOOLEAN : DriverMakes(t, dir)
  \/ DriverCreates(t) \/ DriverOpens(t) \/ DriverLinks(t)
  \/ DriverRemoves(t) \/ DriverRenames(t)
  \/ DriverLstats(t) \/ DriverReaches(t)
  \/ \E p \in tasks[t].page : DriverLstatsEntry(t, p)

Resumes(t) ==
  \/ BindsEntry(t) \/ OpenResumes(t) \/ RemoveResumes(t) \/ RenameResumes(t)
  \/ EntryBound(t) \/ PageEnds(t) \/ Fails(t)

Next ==
  \/ \E t \in Tasks : Starts(t) \/ DriverActs(t) \/ Resumes(t)
  \/ \E o \in opens : Release(o)
  \/ \E n \in table.live, count \in 1 .. MaxLookups : ForgetLookups(n, count)
  \/ Destroy \/ DestroyClears
  \/ \E h \in toClose : DestroyCloses(h)

Spec == Init /\ [][Next]_vars

-----------------------------------------------------------------------------
(* Properties                                                              *)

Task ==
  [op : {"none", "lookup", "reach", "open", "readdir"} \cup Changing,
   at : {"idle", "driver", "lstat", "resumed", "opened", "page", "entry", "done"},
   nodes : SUBSET Nodeids, path : Paths, from : Paths, page : SUBSET Entries,
   file : 0 .. RootFile, handle : Nat,
   owed : Seq([node : Nodeids, file : Files])]

\* The type invariant.
TypeOK ==
  /\ table \in Table
  /\ opens \subseteq [fh : Nat, node : Nodeids, handle : Nat] /\ nextFh \in Nat
  /\ tasks \in [Tasks -> Task] /\ requests \in Nat
  /\ destroyed \in BOOLEAN /\ toClose \subseteq Nat /\ cleared \in BOOLEAN
  /\ names \in [Entries -> 0 .. MaxFiles]
  /\ files \in Seq([ino : Inos, dir : BOOLEAN])
  /\ handles \in Seq([file : Files, closed : Nat])
  /\ driver \in Drivers
  /\ held \in [Nodeids -> Nat]
  /\ denotes \in [Nodeids -> SUBSET (Files \cup {RootFile})]

\* The three maps and the Inode objects tell one story: a path is found at the
\* inode that lists it and nowhere else, an identity at the one inode with a
\* path that has it, so two links of a file never get two nodeids.  What LINK's
\* reply and every rename rely on (inodes.ts:83-86, 283-292).
TableAgrees == PathsAgree(table) /\ KeysAgree(table)

\* The table keeps an inode for exactly the lookups the kernel may still
\* forget, those of a READDIRPLUS page under way included: a nodeid the kernel
\* holds is never a ghost, and no inode stays behind that no FORGET can name
\* (inodes.ts:44-50, session.ts:1703-1710).
LookupsMatch ==
  ~destroyed =>
    \A n \in Nodeids \ {Root} :
      /\ n \in table.live <=> held[n] + Owed(Tasks, n) > 0
      /\ n \in table.live => table.inodes[n].nlookup = held[n] + Owed(Tasks, n)

\* With nothing in flight, each path in the table holds in the driver the file
\* its nodeid was handed out for (lock.ts:4-9, inodes.ts:19-22).
NamesAreCurrent ==
  (Busy = {} /\ ~destroyed) =>
    \A n \in table.live : \A p \in Tracked(table, n) : FileAt(p) \in denotes[n]

\* A nodeid is handed out for one file only, whatever happened to its names and
\* to its inode number in the meantime (inodes.ts:158-163, 275-280), and the
\* table leads to that file.
NodeidsNameTheirFiles ==
  /\ \A n \in Nodeids : Cardinality(denotes[n]) <= 1
  /\ TableAgrees
  /\ NamesAreCurrent

\* Whenever the driver gets to a call on a nodeid's path or handle, an open and
\* a read through an old fh included, it finds that nodeid's file there, renames
\* of it or above it notwithstanding (session.ts:1361-1377, 1417-1420).
ReachesItsFile ==
  \A t \in Tasks : (Awaits(t, "open") \/ Awaits(t, "reach")) =>
    LET h == tasks[t].handle
        f == IF h = None THEN FileAt(tasks[t].path) ELSE handles[h].file
    IN \A n \in tasks[t].nodes : f \in denotes[n]

\* Every driver handle still open belongs to an open file, to a request under
\* way or to destroy()'s list, and none is closed twice (session.ts:1472-1479,
\* 1503-1510, 1542-1545).
HandlesAccountedFor ==
  /\ \A h \in DOMAIN handles : handles[h].closed <= 1
  /\ {h \in DOMAIN handles : handles[h].closed = 0}
       = ({o.handle : o \in opens} \cup toClose
            \cup {tasks[t].handle : t \in {t \in Tasks : tasks[t].op \in {"create", "open"}}})
         \ {None}

=============================================================================
