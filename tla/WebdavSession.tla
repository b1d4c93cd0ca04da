---------------------------- MODULE WebdavSession ----------------------------
(***************************************************************************)
(* The WebDAV share of src/webdav/session.ts: its requests over one lock   *)
(* table and one driver, with nothing that keeps them apart.               *)
(*                                                                         *)
(* A task is a request being handled, a sequence of segments.  A segment   *)
(* is an awaited driver call and the steps the handler does in one turn    *)
(* when the call returns; the call takes effect in a step of its own.      *)
(***************************************************************************)
EXTENDS DavLocks

CONSTANTS
  Tasks,        \* requests in flight at one time
  MaxRequests,  \* bound: requests over a run, each with its weight
  MaxTime       \* bound: the clock

ASSUME WebdavAssumption == MaxRequests \in Nat /\ MaxTime \in Nat

VARIABLES
  table,      \* the DavLockTable
  minted,     \* tokens minted so far
  clock,      \* options.now
  tree,       \* the driver
  tasks,      \* the requests in flight
  requests,   \* how many requests there have been
  trespasses, \* history: the writes that went against a lock
  lost        \* history: the transfers that deleted what they were to transfer

vars == <<table, minted, clock, tree, tasks, requests, trespasses, lost>>

\* p and q are the two URLs; source and existing what the handler found there.
Idle == [kind |-> "idle", todo |-> <<>>, at |-> "idle", p |-> Top, q |-> Top, now |-> 0,
         submitted |-> {}, conditional |-> FALSE, file |-> None, source |-> None,
         existing |-> None, page |-> <<>>, depth |-> Zero, exclusive |-> TRUE, overwrite |-> TRUE,
         bad |-> {}, born |-> 0, crossed |-> FALSE, changes |-> FALSE, refused |-> FALSE]

Busy == {t \in Tasks : tasks[t] # Idle}
Segment1(t) == Head(tasks[t].todo)
Awaits(t, call) == tasks[t].at = "driver" /\ Segment1(t).call = call

\* A call that fails refuses the request, or is one failure more of a
\* multistatus, or does not matter.
Segment(call, p, then) == [call |-> call, on |-> p, and |-> p, then |-> then, orElse |-> "refuse"]
Segment2(call, p, q, then) == [Segment(call, p, then) EXCEPT !.and = q]
Reported(segment) == [segment EXCEPT !.orElse = "bad"]
Ask(p) == Segment("ask", p, <<>>)
Now(steps) == Segment("none", Top, steps)

-----------------------------------------------------------------------------
(* The handlers                                                            *)

\* #guard: an If header is looked at before the method, but for LOCK.
Guarded(req, program) ==
  IF req.conditional THEN << Segment("stat", req.p, << <<"if">> >>) >> \o program ELSE program

Stat(p) == Segment("stat", p, << <<"mapped">> >>)
RequireCollection(d) == Segment("stat", d, << <<"collection">> >>)
\* #discardUnmapped, by the clock of now or by one looked at before.
Discard(p) == Now(<< <<"discard", p>> >>)
DiscardUnmapped(p) == Now(<< <<"clock">>, <<"discard", p>> >>)
Discarding(segment) == \E i \in DOMAIN segment.then : segment.then[i][1] \in {"discard", "remove"}

Options == << Now(<<>>) >>
Get(p) == << Stat(p), Segment("io", p, <<>>), Ask(p) >>
Propfind(p, depth) ==
  IF depth = Infinity THEN << Now(<<>>) >>
  ELSE << Ask(p), Segment("stat", p, << <<"mapped">>, <<"discovery">>, <<"members of", p, depth>> >>) >>
ListMembers(p) == << Segment("readdir", p, <<>>), Ask(p), Now(<< <<"discovery">> >>) >>
Proppatch(p) == << Ask(p), Stat(p), Now(<< <<"writable", p, FALSE>> >>), Segment("io", p, <<>>) >>

\* #write: the resource is opened at the first byte of the body.
Write(p) == << Ask(p), Segment("put", p, <<>>), Ask(p) >>

Put(p) ==
  << Segment("stat", p, << <<"notCollection">>, <<"existing">> >>),
     RequireCollection(Parent(p)),
     Now(<< <<"writable", p, TRUE>> >>) >> \o Write(p) \o << Ask(p) >>

Mkcol(p) ==
  << Ask(p), Segment("stat", p, << <<"unmapped">> >>), RequireCollection(Parent(p)),
     Now(<< <<"writable", p, TRUE>> >>), Segment("mkdir", p, <<>>) >>

\* #deleteTree, a collection; what has gone by itself is no failure.
DeleteTree(d) == Reported(Segment("readdir", d, << <<"delete", d>> >>))
DeleteMember(p, dir) == IF dir THEN DeleteTree(p) ELSE Reported(Segment("unlink", p, <<>>))
DeleteSelf(d) == Reported(Segment("rmdir", d, <<>>))

Delete(p) ==
  << Segment("stat", p, << <<"mapped">>, <<"source">>, <<"writable", p, TRUE>>, <<"members", p>>,
                           <<"deleteSource", p>> >>) >>
DeleteSource(p, dir) ==
  << IF dir THEN DeleteTree(p) ELSE Segment("unlink", p, <<>>), DiscardUnmapped(p) >>

\* #copyFile and #copyTree.
CopyFile(s, d) == Reported(Segment("open", s, << <<"copyBytes", d>> >>))
CopyBytes(d) == Reported(Segment("put", d, <<>>))
CopyTree(s, d, dir, deep) ==
  IF ~dir THEN CopyFile(s, d)
  ELSE Reported(Segment("mkdir", d, IF deep THEN << <<"copyInto", s, d>> >> ELSE <<>>))
CopyMembers(s, d) == Segment("readdir", s, << <<"copyMembers", s, d>> >>)
CopyMember(s, d) == Segment("stat", s, << <<"copyMember", s, d>> >>)

\* #copyOrMove up to the checks, and after them.
CopyOrMove(p, q) ==
  << Segment("stat", p, << <<"mapped">>, <<"source">>, <<"outside">> >>),
     Ask(p),
     RequireCollection(Parent(q)),
     Segment("stat", q, << <<"existing">>, <<"transferable">>, <<"transfer">> >>) >>
Overwriting(q, dir) ==
  << DeleteMember(q, dir), Now(<< <<"deleted">> >>) >>

\* mutant: a MOVE discards the locks of its source only
MoveDiscardsSource(p, q) == << Segment2("rename", q, p, << <<"clock">> >>), Discard(p) >>

Move(p, q) == << Segment2("rename", q, p, << <<"clock">> >>), Discard(p), Discard(q) >>
Copy(p, q, dir, deep) == << CopyTree(p, q, dir, deep), DiscardUnmapped(q) >>

\* #lock: the If header, the conflicts, the empty resource, the grant.
LockNew(p, conditional) ==
  << Ask(p) >>
    \o (IF conditional THEN << Segment("stat", p, << <<"if">> >>) >> ELSE <<>>)
    \o << Segment("stat", p, << <<"existing">>, <<"conflict">>, <<"lockable">> >>) >>
LockEmpty(p) ==
  << RequireCollection(Parent(p)), Now(<< <<"writable", p, TRUE>> >>), Segment("create", p, <<>>), Ask(p) >>
Grant == << Now(<< <<"grant">> >>) >>

\* #refreshLock.
RefreshLock(p, token) ==
  << Ask(p), Now(<< <<"find", token>> >>), Segment("stat", p, << <<"if">>, <<"refresh", token>> >>) >>

-----------------------------------------------------------------------------
(* Steps                                                                   *)

Context(t) == [table |-> table, minted |-> minted, req |-> tasks[t]]

Refuse(c) == [c EXCEPT !.req.refused = TRUE, !.req.todo = << Head(@) >>]
Require(c, holds) == IF holds THEN c ELSE Refuse(c)
Then(c, program) == [c EXCEPT !.req.todo = << Head(@) >> \o program \o Tail(@)]

Submitted(req, l) == l.token \in req.submitted

\* #requireWritable.
Writable(c, p, membership) ==
  LET req == c.req
      above == IF membership /\ req.existing = None THEN {p, Parent(p)} ELSE {p}
  IN \A x \in above : \A l \in Covering(c.table, x, req.now) : Submitted(req, l)

\* mutant: locked members are looked for at the source only
LockedMembersOfSource(c, p) ==
  {l \in Within(c.table, p, c.req.now) : l.path # p /\ ~Submitted(c.req, l) /\ p = c.req.p}

\* #lockedMembers.
LockedMembers(c, p) == {l \in Within(c.table, p, c.req.now) : l.path # p /\ ~Submitted(c.req, l)}

\* History: a transfer that stops once it has deleted what was there, or a discard
\* that cannot ask for a name, leaves the locks of what has gone.
Halfway(req) ==
  Discarding(Last(req.todo)) /\ (req.kind \in {"COPY", "MOVE"} \/ Discarding(Head(req.todo)))
LeftBehind(locks, req) ==
  LET places == IF Discarding(Head(req.todo)) THEN {req.p, req.q} ELSE {req.q}
  IN  {IF \E p \in places : Inside(l.path, p) THEN [l EXCEPT !.quiet = FALSE] ELSE l : l \in locks}

TransferableStep(c) ==
  LET req == c.req
      move == req.kind = "MOVE"
      writable == /\ move => Writable([c EXCEPT !.req.existing = None], req.p, TRUE)
                  /\ Writable(c, req.q, TRUE)
      locked == (IF move THEN LockedMembers(c, req.p) ELSE {})
                \cup (IF req.existing = None THEN {} ELSE LockedMembers(c, req.q))
  IN Require(c, writable /\ locked = {} /\ (req.existing # None => req.overwrite))

TransferStep(c) ==
  LET req == c.req IN
  Then(c, (IF req.existing = None THEN <<>> ELSE Overwriting(req.q, IsDir(tree, req.existing)))
          \o (IF req.kind = "MOVE" THEN Move(req.p, req.q)
              ELSE Copy(req.p, req.q, IsDir(tree, req.source), req.depth = Infinity)))

\* One stat for each lock there is below p when it begins.
DiscardStep(c, p) ==
  LET within == SetToSeq(Within(c.table, p, c.req.now))
  IN  Then(c, [i \in 1 .. Len(within) |->
                 Segment("stat", within[i].path, << <<"remove", within[i].token>> >>)])

GrantStep(c) ==
  LET req == c.req IN
  IF Conflict(c.table, req.p, req.depth, req.exclusive, req.now) # {} THEN Refuse(c)
  ELSE IF Full(c.table, req.now)
  THEN Refuse(c)
  ELSE [c EXCEPT !.minted = @ + 1,
                 !.table = Create(@, c.minted + 1, req.p, req.depth, req.exclusive, req.now, ~req.crossed)]

RefreshStep(c, token) ==
  IF Find(c.table, token, c.req.now) = {} THEN Refuse(c)
  ELSE [c EXCEPT !.table = Refresh(@, token, c.req.now)]

Apply(c, step) ==
  LET req == c.req IN
  CASE step[1] = "if" ->
         Require(c, \E l \in Covering(c.table, req.p, req.now) : Submitted(req, l))
    [] step[1] = "mapped"        -> Require(c, req.file # None)
    [] step[1] = "unmapped"      -> Require(c, req.file = None)
    [] step[1] = "collection"    -> Require(c, IsDir(tree, req.file))
    [] step[1] = "notCollection" -> Require(c, ~IsDir(tree, req.file))
    [] step[1] = "existing"      -> [c EXCEPT !.req.existing = req.file]
    [] step[1] = "source"        -> [c EXCEPT !.req.source = req.file]
    [] step[1] = "outside"       -> Require(c, ~IsDir(tree, req.file) \/ ~Inside(req.q, req.p))
    [] step[1] = "writable"      -> Require(c, Writable(c, step[2], step[3]))
    [] step[1] = "members"       -> Require(c, LockedMembers(c, step[2]) = {})
    [] step[1] = "deleteSource"  -> Then(c, DeleteSource(step[2], IsDir(tree, req.source)))
    [] step[1] = "delete"        ->
         Then(c, [i \in 1 .. Len(req.page) |->
                    DeleteMember(Append(step[2], req.page[i].name), req.page[i].dir)]
                 \o << DeleteSelf(step[2]) >>)
    [] step[1] = "deleted"       ->
         IF req.bad = {} THEN c ELSE Refuse([c EXCEPT !.table = LeftBehind(@, req)])
    [] step[1] = "transferable"  -> TransferableStep(c)
    [] step[1] = "transfer"      -> TransferStep(c)
    [] step[1] = "copyInto"      -> Then(c, << CopyMembers(step[2], step[3]) >>)
    [] step[1] = "copyMembers"   ->
         Then(c, [i \in 1 .. Len(req.page) |->
                    CopyMember(Append(step[2], req.page[i].name), Append(step[3], req.page[i].name))])
    [] step[1] = "copyMember"    ->
         IF req.file = None THEN c ELSE Then(c, << CopyTree(step[2], step[3], IsDir(tree, req.file), TRUE) >>)
    [] step[1] = "copyBytes"     -> Then(c, << CopyBytes(step[2]) >>)
    [] step[1] = "clock"         -> [c EXCEPT !.req.now = clock]
    [] step[1] = "discard"       -> DiscardStep(c, step[2])
    [] step[1] = "remove"        ->
         IF req.file = None THEN [c EXCEPT !.table = RemoveLock(@, step[2])] ELSE c
    [] step[1] = "members of"    ->
         IF step[3] = One /\ IsDir(tree, req.file) THEN Then(c, ListMembers(step[2])) ELSE c
    [] step[1] = "conflict"      ->
         Require(c, Conflict(c.table, req.p, req.depth, req.exclusive, req.now) = {})
    [] step[1] = "lockable"      ->
         Then(c, (IF req.existing = None THEN LockEmpty(req.p) ELSE <<>>) \o Grant)
    [] step[1] = "grant"         -> GrantStep(c)
    [] step[1] = "find"          ->
         Require(c, \E l \in Find(c.table, step[2], req.now) : InScope(l, req.p))
    [] step[1] = "refresh"       -> RefreshStep(c, step[2])
    [] OTHER                     -> c  \* "discovery" only looks

\* The steps that look a lock up: whoever looks sweeps the table.
Looking == {"if", "writable", "members", "transferable", "discard", "conflict", "grant", "find",
            "refresh", "discovery"}
Swept(c, step) == IF step[1] \in Looking THEN [c EXCEPT !.table = Sweep(@, c.req.now)] ELSE c

Turn(c) ==
  LET steps == Head(c.req.todo).then
      after[i \in 0 .. Len(steps)] ==
        IF i = 0 THEN c
        ELSE IF after[i - 1].req.refused THEN after[i - 1]
        ELSE Apply(Swept(after[i - 1], steps[i]), steps[i])
  IN  after[Len(steps)]

-----------------------------------------------------------------------------
(* The driver                                                              *)

Answered(t, task) ==
  /\ tasks' = [tasks EXCEPT ![t] = [task EXCEPT !.at = "resumed"]]
  /\ UNCHANGED <<table, minted, clock, requests>>

\* What is not there when a transfer begins, below a destination that is free.
Fresh(req, p) ==
  req.kind \in {"COPY", "MOVE"} /\ req.existing = None /\ p # req.q /\ Inside(p, req.q)

\* History: the locks of before the request that cover what it writes at p, or
\* names it adds or takes away there, and whose tokens it does not have; but not
\* one left on a name that is gone, of which there is none but after a failure or
\* where requests change the same names.
Against(t, p, membership) ==
  LET req == tasks[t]
      places == IF membership /\ ~(p = req.q /\ req.existing # None) THEN {p, Parent(p)} ELSE {p}
  IN {l.token : l \in {l \in UNION {Covering(table, x, clock) : x \in places} :
                          /\ l.token <= req.born /\ ~Submitted(req, l)
                          /\ Fresh(req, l.path) => (l.quiet /\ ~req.crossed)}}

Writes(t, against) == trespasses' = trespasses \cup against

\* Bound: a name past the paths there are cannot be made.
At(p) == IF p \in Paths THEN FileAt(tree, p) ELSE None

\* A name is made: by open, or by mkdir.
Makes(t) ==
  LET p == Segment1(t).on IN
  /\ \E call \in {"put", "create", "mkdir"} : Awaits(t, call)
  /\ p \in Paths /\ CanMake(tree, p)
  /\ tree' = Make(tree, p, CHOOSE i \in FreeInos(tree, {}) : TRUE, Segment1(t).call = "mkdir", None)
  /\ Writes(t, Against(t, p, TRUE))
  /\ Answered(t, tasks[t])
  /\ UNCHANGED lost

\* What is there is read, asked about, or written over.
Reaches(t) ==
  LET f == At(Segment1(t).on) IN
  /\ \/ Awaits(t, "stat") /\ UNCHANGED trespasses
     \/ Awaits(t, "open") /\ f # None /\ ~IsDir(tree, f) /\ UNCHANGED trespasses
     \/ Awaits(t, "io") /\ f # None /\ Writes(t, IF tasks[t].kind = "PROPPATCH"
                                                 THEN Against(t, Segment1(t).on, FALSE) ELSE {})
     \/ /\ Awaits(t, "put") \/ Awaits(t, "create")
        /\ f # None /\ ~IsDir(tree, f)
        /\ Writes(t, Against(t, Segment1(t).on, FALSE))
  /\ Answered(t, IF Segment1(t).call = "stat" THEN [tasks[t] EXCEPT !.file = f] ELSE tasks[t])
  /\ UNCHANGED <<tree, lost>>

Lists(t) ==
  LET d == Segment1(t).on IN
  /\ Awaits(t, "readdir") /\ IsDir(tree, At(d))
  /\ Answered(t, [tasks[t] EXCEPT !.page =
       SetToSeq({[name |-> n, dir |-> IsDir(tree, FileAt(tree, Append(d, n)))] : n \in Listing(tree, d)})])
  /\ UNCHANGED <<tree, trespasses, lost>>

Removes(t) ==
  LET p == Segment1(t).on IN
  /\ \E call \in {"unlink", "rmdir"} : Awaits(t, call)
  /\ p \in Paths /\ CanRemove(tree, p) /\ IsDir(tree, FileAt(tree, p)) = (Segment1(t).call = "rmdir")
  /\ tree' = Removed(tree, p)
  /\ Writes(t, Against(t, p, TRUE))
  /\ lost' = IF tasks[t].kind \in {"COPY", "MOVE"} /\ FileAt(tree, p) = tasks[t].source
             THEN lost \cup {tasks[t].kind} ELSE lost
  /\ Answered(t, tasks[t])

Renames(t) ==
  LET from == Segment1(t).and
      to == Segment1(t).on
  IN /\ Awaits(t, "rename") /\ CanRename(tree, from, to)
     /\ tree' = Renamed(tree, from, to)
     /\ Writes(t, UNION {Against(t, p, p \in {from, to}) :
                           p \in {p \in Entries : Inside(p, from) \/ Inside(p, to)}})
     /\ Answered(t, tasks[t])
     /\ UNCHANGED lost

Driver(t) == Makes(t) \/ Reaches(t) \/ Lists(t) \/ Removes(t) \/ Renames(t)

-----------------------------------------------------------------------------
(* handleRequest                                                           *)

\* #deleteTree leaves a collection in which something would not go.
Leaves(s, bad) == s.call = "rmdir" /\ \E p \in bad : Inside(p, s.on)
Rest(req) ==
  LET next == Tail(req.todo)
      rest[i \in 0 .. Len(next)] ==
        IF i = 0 THEN <<>>
        ELSE IF Leaves(next[i], req.bad) THEN rest[i - 1] ELSE Append(rest[i - 1], next[i])
  IN  rest[Len(next)]

Goes(t, req) ==
  tasks' = [tasks EXCEPT ![t] = IF Rest(req) = <<>> THEN Idle
                                ELSE [req EXCEPT !.todo = Rest(req), !.at = "driver", !.file = None]]

Resumes(t) ==
  LET c == Turn(Context(t)) IN
  /\ tasks[t].at = "resumed" \/ \E call \in {"ask", "none"} : Awaits(t, call)
  /\ c.minted <= MaxToken
  /\ table' = c.table /\ minted' = c.minted
  /\ Goes(t, c.req)
  /\ UNCHANGED <<clock, tree, requests, trespasses, lost>>

\* Whether the call could have gone well.
CouldDo(t) == ENABLED Driver(t)

\* A call that fails; in #deleteTree, one that finds nothing has not failed.
\* Bound: a failure that need not be counts for a request.
Fails(t) ==
  LET req == tasks[t]
      s == Segment1(t)
      gone == At(s.on) = None /\ s.call \in {"readdir", "unlink", "rmdir"}
  IN /\ req.at = "driver" /\ s.call \notin {"none", "ask"}
     /\ Goes(t, IF s.orElse = "refuse" THEN [req EXCEPT !.refused = TRUE, !.todo = << s >>]
                ELSE IF gone THEN req ELSE [req EXCEPT !.bad = @ \cup {s.on}])
     /\ requests' = requests + IF CouldDo(t) THEN 1 ELSE 0
     /\ requests' <= MaxRequests
     /\ table' = IF s.orElse = "refuse" /\ Halfway(req) THEN LeftBehind(table, req) ELSE table
     /\ UNCHANGED <<minted, lost, clock, tree, trespasses>>

-----------------------------------------------------------------------------
(* The start of a request                                                  *)

Overlap(req, other) ==
  \E p \in {req.p, req.q} \ {Top}, q \in {other.p, other.q} \ {Top} : Inside(p, q) \/ Inside(q, p)

\* A client submits tokens that were minted, right ones or not.
Begin(t, req, program, weight) ==
  LET crossing == {u \in Busy : (req.changes \/ tasks[u].changes) /\ Overlap(req, tasks[u])} IN
  /\ tasks[t] = Idle /\ requests + weight <= MaxRequests
  /\ requests' = requests + weight
  /\ tasks' = [u \in Tasks |->
       IF u = t THEN [req EXCEPT !.todo = program, !.at = "driver", !.now = clock, !.born = minted,
                                 !.crossed = crossing # {}]
       ELSE IF u \in crossing THEN [tasks[u] EXCEPT !.crossed = TRUE] ELSE tasks[u]]
  /\ UNCHANGED <<table, minted, clock, tree, trespasses, lost>>

Req(kind, p, q, submitted) ==
  [Idle EXCEPT !.kind = kind, !.p = p, !.q = q, !.submitted = submitted,
               !.conditional = submitted # {}, !.changes = TRUE]

\* Bound: a refresh counts for one request, a lock for two, a write for three,
\* what changes nothing, and a lock with an If header, for all there may be.
Reads(t, p) ==
  LET req == [Req("GET", p, p, {}) EXCEPT !.changes = FALSE] IN
  \/ Begin(t, req, Options, MaxRequests)
  \/ Begin(t, req, Get(p), MaxRequests)
  \/ \E depth \in {Zero, One, Infinity} : Begin(t, req, Propfind(p, depth), MaxRequests)

Methods(t, p, submitted) ==
  LET req(kind) == Req(kind, p, p, submitted)
      start(kind, program) == Begin(t, req(kind), Guarded(req(kind), program), 3)
  IN \/ start("PROPPATCH", Proppatch(p))
     \/ p # Top /\ (start("PUT", Put(p)) \/ start("MKCOL", Mkcol(p)) \/ start("DELETE", Delete(p)))

\* Bound: the If header of a transfer has a list that holds whatever is locked.
Transfers(t, p, q, submitted) ==
  LET req(kind, depth, overwrite) ==
        [Req(kind, p, q, submitted) EXCEPT !.depth = depth, !.overwrite = overwrite,
                                           !.conditional = FALSE]
  IN /\ p # Top /\ q # Top /\ p # q
     /\ \/ \E overwrite \in BOOLEAN :
             Begin(t, req("MOVE", Infinity, overwrite),
                   Guarded(req("MOVE", Infinity, overwrite), CopyOrMove(p, q)), 3)
        \/ \E depth \in {Zero, Infinity} :
             Begin(t, req("COPY", depth, TRUE),
                   Guarded(req("COPY", depth, TRUE), CopyOrMove(p, q)), 3)

LocksOf(t, p, submitted) ==
  \/ \E depth \in {Zero, Infinity}, exclusive \in BOOLEAN :
       Begin(t, [Req("LOCK", p, p, submitted) EXCEPT !.depth = depth, !.exclusive = exclusive],
             LockNew(p, submitted # {}), IF submitted = {} THEN 2 ELSE MaxRequests)
  \/ \E token \in submitted :
       Begin(t, [Req("LOCK", p, p, submitted) EXCEPT !.changes = FALSE], RefreshLock(p, token), 1)

\* UNLOCK answers in one turn.
Unlock(p, token) ==
  /\ requests < MaxRequests /\ requests' = requests + 1
  /\ table' = LET swept == Sweep(table, clock) IN
              IF \E l \in Find(swept, token, clock) : InScope(l, p) THEN RemoveLock(swept, token) ELSE swept
  /\ UNCHANGED <<minted, clock, tree, tasks, trespasses, lost>>

\* Bound: time that passes counts for a request.
Tick ==
  /\ clock < MaxTime /\ clock' = clock + 1
  /\ requests < MaxRequests /\ requests' = requests + 1
  /\ UNCHANGED <<table, minted, tree, tasks, trespasses, lost>>

-----------------------------------------------------------------------------
\* A share with some files in it and a client's lock taken at path p.
InitWith(files, names, p, depth, exclusive) ==
  /\ tree = [NewTree EXCEPT !.files = files, !.names = names]
  /\ table = {Lock(1, p, depth, exclusive, Timeout, TRUE)}
  /\ minted = 1 /\ clock = 0 /\ requests = 0
  /\ tasks = [t \in Tasks |-> Idle]
  /\ trespasses = {} /\ lost = {}

Next ==
  \/ \E t \in Busy : Driver(t) \/ Resumes(t) \/ Fails(t)
  \/ /\ requests < MaxRequests
     /\ \E t \in Tasks \ Busy, p \in Paths :
          \/ Reads(t, p)
          \/ \E submitted \in {{}, {minted}} :
               \/ Methods(t, p, submitted) \/ LocksOf(t, p, submitted)
               \/ \E q \in Paths : Transfers(t, p, q, submitted)
  \/ \E p \in Paths, token \in Tokens : Unlock(p, token)
  \/ Tick

-----------------------------------------------------------------------------
(* Properties                                                              *)

\* locks.ts, on conflicts: "two locks whose scopes overlap conflict unless both
\* are shared", and at most the cap are held.
LocksAreCompatible ==
  LET live == Sweep(table, clock) IN
  /\ Cardinality(live) <= MaxLocks
  /\ \A l, m \in live : l # m =>
       /\ l.token # m.token
       /\ (l.exclusive \/ m.exclusive) => \A p \in Paths : ~(InScope(l, p) /\ InScope(m, p))

\* #requireWritable and #lockedMembers: no request has written where a lock of
\* before it applied whose token it did not submit, but for the locks Against
\* leaves out.
WritesHoldTheirLocks == trespasses = {}

\* #discardUnmapped: the root of every lock is a name that is there, once the
\* requests are done, unless the lock was granted while its name was changing or
\* a transfer stopped halfway.
RootsAreMapped ==
  Busy = {} => \A l \in Sweep(table, clock) : l.quiet => FileAt(tree, l.path) # None

\* #copyOrMove, on overwriting: "the result is the source and nothing of what
\* used to be there", so what is deleted is never the source.
TransfersKeepTheirSource == lost = {}
=============================================================================
