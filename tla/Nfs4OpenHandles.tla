--------------------------- MODULE Nfs4OpenHandles --------------------------
(***************************************************************************)
(* The driver handles behind NFSv4.1 open states: #bindHandle,             *)
(* #closeHandle, #drainReleased and destroy of src/nfs/v4/session.ts,      *)
(* under the OPEN, OPEN_DOWNGRADE and CLOSE handlers that reach them.      *)
(*                                                                         *)
(* A task is a COMPOUND of one operation.  Each await is a place where the *)
(* other tasks run: OPEN awaits the driver's open with the state table     *)
(* already changed, and every operation ends by draining #released, one    *)
(* awaited close after the other.  The state table is reduced to what      *)
(* these handlers see of it: an owner's open state on the one file, its    *)
(* access bits and its seqid.  Denials and locks change nothing here and   *)
(* are Nfs4State's.                                                        *)
(***************************************************************************)
EXTENDS Integers, Sequences, SequencesExt, FiniteSets

CONSTANTS
  Tasks,       \* COMPOUNDs in progress at one time
  Owners,      \* open-owners, each of a client of its own
  MaxOther,    \* bound: open states over a run
  MaxHandles,  \* bound: driver handles over a run
  MaxSeqid,    \* bound: the seqid of an open state
  Orderly      \* requests of one owner come one at a time (see OwnerFree)

ASSUME OrderlyAssumption == Orderly \in BOOLEAN

\* "none" is nobody's name, and the bounds let a run begin.
ASSUME BoundsAssumption ==
  /\ "none" \notin Owners
  /\ MaxOther \in Nat /\ MaxHandles \in Nat /\ MaxSeqid \in Nat \ {0}

VARIABLES
  states,      \* the open states by `other`: owner, access, seqid
  bound,       \* #openHandles: `other` to driver handle
  released,    \* #released
  handles,     \* the driver's handles: flags, and how often each was closed
  known,       \* the open states whose stateid a client has been told
  tasks,       \* what each COMPOUND is doing
  destroyed,   \* destroy() has been called
  closing      \* the keys destroy() still has to close

vars == <<states, bound, released, handles, known, tasks, destroyed, closing>>

Others == 1 .. MaxOther
Accesses == {{"R"}, {"W"}, {"R", "W"}}
None == 0

Live(o) == states[o].owner # "none"
Unused(o) == ~Live(o) /\ states[o].seqid = 0
Free == [owner |-> "none", access |-> {}, seqid |-> 0]

Done == [at |-> "idle", key |-> None, owner |-> "none", seqid |-> 0, flags |-> {},
         upgraded |-> FALSE, existing |-> None]

Opening(t) == tasks[t].at = "opening"
OpenTasks == {t \in Tasks : Opening(t)}

\* A request of this owner is still being answered.
Busy(w) == \E t \in Tasks : tasks[t].owner = w

\* Under Orderly a client waits for the answer to an open-owner's request
\* before it sends the next, and its lease outlasts the request.
OwnerFree(w) == Orderly => ~Busy(w)

Begin(t) == tasks[t].at = "idle" /\ ~destroyed
Step(t, task) == tasks' = [tasks EXCEPT ![t] = task]

-----------------------------------------------------------------------------
(* The driver                                                              *)

IsOpen(h) == h # None /\ handles[h].closed = 0
Opened(flags) == Append(handles, [flags |-> flags, closed |-> 0])

\* `close` of a handle, or of none: every call counts.
Closed(hs, h) == IF h = None THEN hs ELSE [hs EXCEPT ![h].closed = @ + 1]

-----------------------------------------------------------------------------
(* state.open, state.close and what they leave in #released                *)

StateOf(w) == {o \in Others : states[o].owner = w}
NewOther == CHOOSE o \in Others : Unused(o) /\ \A p \in Others : Unused(p) => o <= p

\* The open state of an OPEN: the owner's own, or a new one.
OtherFor(w) == IF StateOf(w) = {} THEN NewOther ELSE CHOOSE o \in StateOf(w) : TRUE

AccessAfter(w, access) == states[OtherFor(w)].access \cup access

\* #dropOpenState of the open states in os; their `other` is not used again.
Dropped(os) ==
  [o \in Others |-> IF o \in os THEN [Free EXCEPT !.seqid = 1] ELSE states[o]]

-----------------------------------------------------------------------------
(* OPEN                                                                    *)

\* mutant: an open that has a handle keeps it
KeepsHandleAlways(o, access) == bound[o] # None

\* #bindHandle's early return: the handle there already has these flags.
KeepsHandle(o, access) == bound[o] # None /\ handles[bound[o]].flags = access

\* #open from the last await before state.open to the driver's open.
Open(t, w, access) ==
  LET o == OtherFor(w)
      all == AccessAfter(w, access)
      task == [Done EXCEPT !.key = o, !.owner = w]
  IN /\ Begin(t)
     /\ OwnerFree(w)
     /\ StateOf(w) # {} \/ \E p \in Others : Unused(p)
     /\ states[o].seqid < MaxSeqid
     /\ Len(handles) + Cardinality(OpenTasks) < MaxHandles
     /\ states' = [states EXCEPT ![o] =
                     [owner |-> w, access |-> all, seqid |-> @.seqid + 1]]
     /\ IF KeepsHandle(o, all)
        THEN Step(t, [task EXCEPT !.at = "opened"])
        ELSE Step(t, [task EXCEPT !.at = "opening", !.flags = all,
                                  !.seqid = states[o].seqid + 1,
                                  !.upgraded = StateOf(w) # {}, !.existing = bound[o]])
     /\ UNCHANGED <<bound, released, handles, known, destroyed, closing>>

\* What #bindHandle closes once the new handle is in its place.
ReplacedHandle(t) == tasks[t].existing

DriverOpens(t) ==
  /\ Opening(t)
  /\ handles' = Closed(Opened(tasks[t].flags), ReplacedHandle(t))
  /\ bound' = [bound EXCEPT ![tasks[t].key] = Len(handles) + 1]
  /\ Step(t, [Done EXCEPT !.at = "opened", !.key = tasks[t].key, !.owner = tasks[t].owner])
  /\ UNCHANGED <<states, released, known, destroyed, closing>>

\* The catch clause: a first OPEN takes its state back, unless the stateid is
\* no longer the current one.
Undoes(t) ==
  ~tasks[t].upgraded /\ Live(tasks[t].key) /\ states[tasks[t].key].seqid = tasks[t].seqid

DriverFails(t) ==
  LET o == tasks[t].key IN
  /\ Opening(t)
  /\ IF Undoes(t)
     THEN states' = Dropped({o}) /\ released' = Append(released, o)
     ELSE UNCHANGED <<states, released>>
  /\ Step(t, [Done EXCEPT !.at = "draining", !.owner = tasks[t].owner])
  /\ UNCHANGED <<bound, handles, known, destroyed, closing>>

\* The rest of #open: the stateid goes into the reply.
OpenReturns(t) ==
  /\ tasks[t].at = "opened"
  /\ known' = known \cup {tasks[t].key}
  /\ Step(t, [Done EXCEPT !.at = "draining", !.owner = tasks[t].owner])
  /\ UNCHANGED <<states, bound, released, handles, destroyed, closing>>

-----------------------------------------------------------------------------
(* CLOSE and the other ends of an open state                               *)

\* CLOSE with the current stateid.
Close(t, o) ==
  /\ Begin(t)
  /\ Live(o)
  /\ o \in known
  /\ OwnerFree(states[o].owner)
  /\ states' = Dropped({o})
  /\ released' = Append(released, o)
  /\ Step(t, [Done EXCEPT !.at = "draining", !.owner = states[o].owner])
  /\ UNCHANGED <<bound, handles, known, destroyed, closing>>

\* #revoke and #forget: a request of anybody's ends the open states of lapsed
\* or replaced clients, several at once.
Revoke(t, os) ==
  /\ Begin(t)
  /\ os # {}
  /\ \A o \in os : Live(o) /\ OwnerFree(states[o].owner)
  /\ states' = Dropped(os)
  /\ released' = released \o SetToSeq(os)
  /\ Step(t, [Done EXCEPT !.at = "draining"])
  /\ UNCHANGED <<bound, handles, known, destroyed, closing>>

\* mutant: no access at all is let through
NarrowingsToNone(o) == SUBSET states[o].access

Narrowings(o) == {a \in Accesses : a \subseteq states[o].access}

\* OPEN_DOWNGRADE narrows the state and leaves the handle.
OpenDowngrade(t, o) ==
  /\ Begin(t)
  /\ Live(o)
  /\ o \in known
  /\ OwnerFree(states[o].owner)
  /\ states[o].seqid < MaxSeqid
  /\ \E access \in Narrowings(o) :
       states' = [states EXCEPT ![o].access = access, ![o].seqid = @ + 1]
  /\ Step(t, [Done EXCEPT !.at = "draining", !.owner = states[o].owner])
  /\ UNCHANGED <<bound, released, handles, known, destroyed, closing>>

\* mutant: the entry stays behind in #openHandles
BoundAfterCloseKept(o) == bound

\* #closeHandle(o): the entry goes, then its handle is closed.
BoundAfterClose(o) == [bound EXCEPT ![o] = None]

\* One turn of #drainReleased: the close of what it shifted is awaited.
DrainOne(t) ==
  LET o == Head(released) IN
  /\ tasks[t].at = "draining"
  /\ released # <<>>
  /\ released' = Tail(released)
  /\ bound' = BoundAfterClose(o)
  /\ handles' = Closed(handles, bound[o])
  /\ UNCHANGED <<states, known, tasks, destroyed, closing>>

\* mutant: what is queued meanwhile is left for the next request
DrainsNoMoreOnce(t) == TRUE

DrainsNoMore(t) == released = <<>>

Return(t) ==
  /\ tasks[t].at = "draining"
  /\ DrainsNoMore(t)
  /\ Step(t, Done)
  /\ UNCHANGED <<states, bound, released, handles, known, destroyed, closing>>

-----------------------------------------------------------------------------
(* destroy                                                                 *)

\* Under Orderly the server stops with no OPEN waiting for the driver.
Destroy ==
  /\ ~destroyed
  /\ Orderly => OpenTasks = {}
  /\ destroyed' = TRUE
  /\ closing' = SetToSeq({o \in Others : bound[o] # None}) \o released
  /\ released' = <<>>
  /\ UNCHANGED <<states, bound, handles, known, tasks>>

DestroyOne ==
  LET o == Head(closing) IN
  /\ closing # <<>>
  /\ closing' = Tail(closing)
  /\ bound' = BoundAfterClose(o)
  /\ handles' = Closed(handles, bound[o])
  /\ UNCHANGED <<states, released, known, tasks, destroyed>>

-----------------------------------------------------------------------------
Init ==
  /\ states = [o \in Others |-> Free]
  /\ bound = [o \in Others |-> None]
  /\ released = <<>>
  /\ handles = <<>>
  /\ known = {}
  /\ tasks = [t \in Tasks |-> Done]
  /\ destroyed = FALSE
  /\ closing = <<>>

Next ==
  \/ \E t \in Tasks :
       \/ DriverOpens(t)
       \/ DriverFails(t)
       \/ OpenReturns(t)
       \/ DrainOne(t)
       \/ Return(t)
       \/ \E w \in Owners, access \in Accesses : Open(t, w, access)
       \/ \E o \in Others : Close(t, o) \/ OpenDowngrade(t, o)
       \/ \E os \in SUBSET Others : Revoke(t, os)
  \/ Destroy
  \/ DestroyOne

Spec == Init /\ [][Next]_vars

-----------------------------------------------------------------------------
(* Properties                                                              *)

\* The shape of the state; an open state has some access, and no handle is
\* named that the driver did not give out.
TypeOK ==
  /\ states \in [Others -> [owner : Owners \cup {"none"}, access : SUBSET {"R", "W"},
                            seqid : 0 .. MaxSeqid]]
  /\ \A o \in Others : Live(o) <=> states[o].access # {}
  /\ bound \in [Others -> 0 .. Len(handles)]
  /\ handles \in Seq([flags : Accesses, closed : Nat])
  /\ released \in Seq(Others) /\ closing \in Seq(Others)
  /\ known \subseteq Others
  /\ \A t \in Tasks : /\ tasks[t].at \in {"idle", "opening", "opened", "draining"}
                       /\ tasks[t].existing \in 0 .. Len(handles)
  /\ destroyed \in BOOLEAN

\* session.ts: "a driver handle exists exactly while the open state that named
\* it does".  Whenever no COMPOUND is in progress, the driver's open handles
\* are those of the live open states, one each, and after destroy there are
\* none.  However many COMPOUNDs drain #released while destroy sweeps what is
\* left, none is closed twice.
HandlesMatchStates ==
  /\ \A h \in 1 .. Len(handles) : handles[h].closed <= 1
  /\ (\A t \in Tasks : tasks[t].at = "idle") /\ closing = <<>> =>
       /\ released = <<>>
       /\ \A o \in Others : IsOpen(bound[o]) <=> Live(o) /\ ~destroyed
       /\ \A h \in 1 .. Len(handles) : IsOpen(h) =>
            Cardinality({o \in Others : bound[o] = h}) = 1

\* An OPEN about to be answered has a handle in #openHandles that can do all
\* its stateid grants: #bindHandle's promise of a wider handle for an upgrade.
GrantIsBacked ==
  \A t \in Tasks : tasks[t].at = "opened" /\ ~destroyed =>
    LET o == tasks[t].key IN
    IsOpen(bound[o]) /\ states[o].access \subseteq handles[bound[o]].flags
=============================================================================
