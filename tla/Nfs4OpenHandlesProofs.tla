------------------------ MODULE Nfs4OpenHandlesProofs ------------------------
(***************************************************************************)
(* The driver's handles of Nfs4OpenHandles are the live open states, for   *)
(* every number of COMPOUNDs, open-owners, states and handles, as long as  *)
(* the requests of one open-owner come one at a time (Orderly).            *)
(***************************************************************************)
EXTENDS Nfs4OpenHandles, FiniteSetTheorems, SequenceTheorems, TLAPS

-----------------------------------------------------------------------------
(* The inductive invariant                                                 *)

Bound(o) == bound[o] # None
InOpen(t) == tasks[t].at \in {"opening", "opened"}

TaskType ==
  [at : {"idle", "opening", "opened", "draining"}, key : 0 .. MaxOther,
   owner : Owners \cup {"none"}, seqid : Nat, flags : SUBSET {"R", "W"},
   upgraded : BOOLEAN, existing : Nat]

TaskTypes == tasks \in [Tasks -> TaskType]

\* An owner has one open state on the file, and one request in progress.
OwnersInOrder ==
  /\ \A o, p \in Others : Live(o) /\ states[o].owner = states[p].owner => o = p
  /\ \A t, u \in Tasks :
       tasks[t].owner # "none" /\ tasks[t].owner = tasks[u].owner => t = u

\* While an OPEN waits for the driver, and until it has answered, its state is
\* as it left it: all that could change it is the same owner's.
OpenInOrder(t) ==
  LET o == tasks[t].key IN
  /\ InOpen(t) => o \in Others
  /\ Opening(t) =>
       /\ ~destroyed /\ Live(o) /\ states[o].owner = tasks[t].owner
       /\ states[o].access = tasks[t].flags /\ states[o].seqid = tasks[t].seqid
       /\ bound[o] = tasks[t].existing
       /\ Bound(o) <=> tasks[t].upgraded
  /\ tasks[t].at = "opened" /\ ~destroyed =>
       /\ Live(o) /\ states[o].owner = tasks[t].owner /\ Bound(o)
       /\ states[o].access \subseteq handles[bound[o]].flags

OpensInOrder == \A t \in Tasks : OpenInOrder(t)

\* The open handles are the entries of #openHandles, and each is there once.
EntriesInOrder ==
  /\ \A o \in Others : Bound(o) => IsOpen(bound[o])
  /\ \A o, p \in Others : Bound(o) /\ bound[o] = bound[p] => o = p
  /\ \A h \in 1 .. Len(handles) :
       /\ handles[h].closed <= 1
       /\ handles[h].closed = 0 => \E o \in Others : bound[o] = h

\* An open state has its entry, or a first OPEN is getting it; an entry has
\* its open state, or waits in a queue to be closed.
StatesInOrder ==
  \A o \in Others :
    /\ Live(o) /\ ~destroyed =>
         Bound(o) \/ \E t \in Tasks : Opening(t) /\ tasks[t].key = o /\ ~tasks[t].upgraded
    /\ Bound(o) => IF destroyed THEN o \in Range(closing)
                                ELSE Live(o) \/ o \in Range(released)

\* #released holds states that are gone for good, and somebody is draining it.
QueuesInOrder ==
  /\ \A o \in Range(released) : ~Live(o) /\ ~Unused(o)
  /\ released # <<>> => \E t \in Tasks : tasks[t].at = "draining"
  /\ destroyed => released = <<>>
  /\ ~destroyed => closing = <<>>

HandlesInv ==
  /\ TypeOK
  /\ TaskTypes
  /\ OwnersInOrder
  /\ OpensInOrder
  /\ EntriesInOrder
  /\ StatesInOrder
  /\ QueuesInOrder

-----------------------------------------------------------------------------
(* Queues                                                                  *)

\* What a queue holds after its first element is taken.
LEMMA TailRange ==
  ASSUME NEW S, NEW s \in Seq(S), s # <<>>
  PROVE  /\ Head(s) \in S /\ Tail(s) \in Seq(S)
         /\ Head(s) \in Range(s)
         /\ Range(Tail(s)) \subseteq Range(s)
         /\ Range(s) \subseteq Range(Tail(s)) \cup {Head(s)}
<1>1. Len(s) \in Nat \ {0}
  BY EmptySeq
<1>2. /\ Head(s) \in S /\ Tail(s) \in Seq(S) /\ Len(Tail(s)) = Len(s) - 1
      /\ \A i \in 1 .. Len(Tail(s)) : Tail(s)[i] = s[i + 1]
  BY HeadTailProperties
<1>3. Range(s) = {s[i] : i \in 1 .. Len(s)} /\ Range(Tail(s)) = {Tail(s)[i] : i \in 1 .. Len(Tail(s))}
  BY <1>2, RangeEquality
<1>4. Head(s) = s[1]
  <2>1. SubSeq(s, 1, Len(s)) = s
    BY SubSeqFull
  <2>2. 1 \in 1 .. Len(s) /\ Len(s) \in 1 .. Len(s)
    BY <1>1
  <2>3. Head(SubSeq(s, 1, Len(s))) = s[1]
    BY <2>2, HeadTailOfSubSeq
  <2> QED
    BY <2>1, <2>3
<1>5. \A i \in 1 .. Len(s) : i # 1 =>
        i - 1 \in 1 .. Len(Tail(s)) /\ Tail(s)[i - 1] = s[i]
  <2>1. ASSUME NEW i \in 1 .. Len(s), i # 1
        PROVE  i - 1 \in 1 .. Len(Tail(s)) /\ Tail(s)[i - 1] = s[i]
    <3>1. i - 1 \in 1 .. Len(Tail(s)) /\ (i - 1) + 1 = i
      BY <1>1, <1>2, <2>1
    <3> QED
      BY <1>2, <3>1
  <2> QED
    BY <2>1
<1>6. \A i \in 1 .. Len(Tail(s)) : i + 1 \in 1 .. Len(s)
  BY <1>1, <1>2
<1>7. Head(s) \in Range(s)
  BY <1>1, <1>3, <1>4
<1>8. Range(Tail(s)) \subseteq Range(s)
  BY <1>2, <1>3, <1>6
<1>9. Range(s) \subseteq Range(Tail(s)) \cup {Head(s)}
  BY <1>3, <1>4, <1>5
<1> QED
  BY <1>2, <1>7, <1>8, <1>9

LEMMA AppendRange ==
  ASSUME NEW S, NEW s \in Seq(S), NEW e \in S
  PROVE  /\ Append(s, e) \in Seq(S)
         /\ Range(Append(s, e)) = Range(s) \cup {e}
<1>1. Append(s, e) \in Seq(S) /\ Append(s, e) = s \o <<e>> /\ <<e>> \in Seq(S)
  BY AppendProperties, AppendIsConcat
<1>2. Range(<<e>>) = {e}
  BY DEF Range
<1>3. Range(s \o <<e>>) = Range(s) \cup Range(<<e>>)
  BY <1>1, RangeConcatenation
<1> QED
  BY <1>1, <1>2, <1>3

\* SetToSeq lists the whole set.
LEMMA SetToSeqRange ==
  ASSUME NEW S, IsFiniteSet(S)
  PROVE  SetToSeq(S) \in Seq(S) /\ Range(SetToSeq(S)) = S
<1> DEFINE n == Cardinality(S)
<1>1. n \in Nat /\ ExistsBijection(1 .. n, S)
  BY FS_CardinalityType
<1>2. PICK g \in Bijection(1 .. n, S) : TRUE
  BY <1>1 DEF ExistsBijection
<1>3. g \in [1 .. n -> S] /\ IsInjective(g)
  BY <1>2 DEF Bijection, Injection
<1> DEFINE f == SetToSeq(S)
<1>4. f \in [1 .. n -> S] /\ IsInjective(f)
  BY <1>3 DEF SetToSeq
<1>5. f \in Injection(1 .. n, S)
  BY <1>4 DEF Injection
<1>6. Cardinality(1 .. n) = n
  <2>1. 1 \in Int /\ n \in Int
    BY <1>1
  <2>2. Cardinality(1 .. n) = IF 1 > n THEN 0 ELSE n - 1 + 1
    BY <2>1, FS_Interval
  <2> QED
    BY <1>1, <2>2
<1>7. f \in Surjection(1 .. n, S)
  BY <1>5, <1>6, FS_Injection
<1>8. f \in Seq(S)
  BY <1>1, <1>4
<1>9. DOMAIN f = 1 .. n
  BY <1>4
<1>10. Range(f) = S
  BY <1>7, <1>9, <1>4 DEF Surjection, Range
<1> QED
  BY <1>8, <1>10

\* The sets of open states are finite.
LEMMA OthersFinite ==
  ASSUME NEW os \in SUBSET Others
  PROVE  IsFiniteSet(os)
<1>1. MaxOther \in Int /\ 1 \in Int
  BY BoundsAssumption
<1>2. IsFiniteSet(1 .. MaxOther)
  BY <1>1, FS_Interval
<1>3. IsFiniteSet(Others)
  BY <1>2 DEF Others
<1> QED
  BY <1>3, FS_Subset

-----------------------------------------------------------------------------
(* Tasks                                                                   *)

LEMMA DoneTyped ==
  /\ Done \in TaskType
  /\ Done.at = "idle" /\ Done.owner = "none"
  BY BoundsAssumption DEF Done, TaskType, None

\* What the steps make of Done.
LEMMA AtChanged ==
  ASSUME NEW r \in TaskType, NEW at \in {"idle", "opening", "opened", "draining"}
  PROVE  /\ [r EXCEPT !.at = at] \in TaskType
         /\ [r EXCEPT !.at = at].at = at
         /\ [r EXCEPT !.at = at].owner = r.owner
  BY DEF TaskType

LEMMA OwnerChanged ==
  ASSUME NEW r \in TaskType, NEW at \in {"idle", "opening", "opened", "draining"},
         NEW w \in Owners \cup {"none"}
  PROVE  /\ [r EXCEPT !.at = at, !.owner = w] \in TaskType
         /\ [r EXCEPT !.at = at, !.owner = w].at = at
         /\ [r EXCEPT !.at = at, !.owner = w].owner = w
  BY DEF TaskType

\* A COMPOUND that goes on to drain #released, with an owner and without.
LEMMA DrainingTyped ==
  ASSUME NEW w \in Owners \cup {"none"}
  PROVE  /\ [Done EXCEPT !.at = "draining", !.owner = w] \in TaskType
         /\ [Done EXCEPT !.at = "draining", !.owner = w].at = "draining"
         /\ [Done EXCEPT !.at = "draining", !.owner = w].owner = w
<1>1. "draining" \in {"idle", "opening", "opened", "draining"}
  OBVIOUS
<1> QED
  BY <1>1, DoneTyped, OwnerChanged

LEMMA RevokerTyped ==
  /\ [Done EXCEPT !.at = "draining"] \in TaskType
  /\ [Done EXCEPT !.at = "draining"].at = "draining"
  /\ [Done EXCEPT !.at = "draining"].owner = "none"
<1>1. "draining" \in {"idle", "opening", "opened", "draining"}
  OBVIOUS
<1> QED
  BY <1>1, DoneTyped, AtChanged

\* An OPEN that has what it answers with.
LEMMA OpenedTyped ==
  ASSUME NEW w \in Owners \cup {"none"}, NEW o \in Others
  PROVE  /\ [Done EXCEPT !.at = "opened", !.key = o, !.owner = w] \in TaskType
         /\ [Done EXCEPT !.at = "opened", !.key = o, !.owner = w].at = "opened"
         /\ [Done EXCEPT !.at = "opened", !.key = o, !.owner = w].owner = w
         /\ [Done EXCEPT !.at = "opened", !.key = o, !.owner = w].key = o
<1>1. "opened" \in {"idle", "opening", "opened", "draining"}
  OBVIOUS
<1>2. o \in 0 .. MaxOther
  BY BoundsAssumption DEF Others
<1> QED
  BY <1>1, <1>2, DoneTyped DEF TaskType

\* A step of one COMPOUND is a step of no other.
LEMMA StepTyped ==
  ASSUME TaskTypes, NEW t \in Tasks, NEW x \in TaskType, Step(t, x)
  PROVE  /\ TaskTypes'
         /\ tasks'[t] = x
         /\ \A u \in Tasks : u # t => tasks'[u] = tasks[u]
  BY DEF TaskTypes, Step

\* The fields of a COMPOUND.
LEMMA TaskFields ==
  ASSUME TaskTypes, NEW t \in Tasks
  PROVE  /\ tasks[t].at \in {"idle", "opening", "opened", "draining"}
         /\ tasks[t].key \in 0 .. MaxOther
         /\ tasks[t].owner \in Owners \cup {"none"}
         /\ tasks[t].seqid \in Nat
         /\ tasks[t].flags \in SUBSET {"R", "W"}
         /\ tasks[t].upgraded \in BOOLEAN
         /\ tasks[t].existing \in Nat
<1>1. tasks[t] \in TaskType
  BY DEF TaskTypes
<1> QED
  BY <1>1 DEF TaskType

\* The parts of the type invariant.
StateTypes ==
  /\ states \in [Others -> [owner : Owners \cup {"none"}, access : SUBSET {"R", "W"},
                            seqid : 0 .. MaxSeqid]]
  /\ \A o \in Others : Live(o) <=> states[o].access # {}

HandleTypes ==
  /\ bound \in [Others -> 0 .. Len(handles)]
  /\ handles \in Seq([flags : Accesses, closed : Nat])
  /\ \A t \in Tasks : tasks[t].existing \in 0 .. Len(handles)

QueueTypes ==
  /\ released \in Seq(Others) /\ closing \in Seq(Others)
  /\ known \subseteq Others
  /\ destroyed \in BOOLEAN

AtTypes == \A t \in Tasks : tasks[t].at \in {"idle", "opening", "opened", "draining"}

LEMMA TypeParts ==
  TypeOK <=> StateTypes /\ HandleTypes /\ QueueTypes /\ AtTypes
  BY DEF TypeOK, StateTypes, HandleTypes, QueueTypes, AtTypes

LEMMA TypePartsNext ==
  ASSUME TaskTypes', StateTypes', HandleTypes', QueueTypes'
  PROVE  TypeOK'
<1>1. AtTypes'
  BY TaskFields DEF AtTypes, TaskTypes, TaskType
<1> QED
  BY <1>1 DEF TypeOK, StateTypes, HandleTypes, QueueTypes, AtTypes

LEMMA Lengths ==
  ASSUME HandlesInv
  PROVE  /\ Len(handles) \in Nat
         /\ Range(released) \subseteq Others
         /\ Range(closing) \subseteq Others
<1>1. /\ handles \in Seq([flags : Accesses, closed : Nat])
      /\ released \in Seq(Others) /\ closing \in Seq(Others)
  BY TypeParts DEF HandlesInv, HandleTypes, QueueTypes
<1>2. Len(handles) \in Nat
  BY <1>1, LenProperties
<1>3. Range(released) \subseteq Others
  BY <1>1, RangeOfSeq
<1>4. Range(closing) \subseteq Others
  BY <1>1, RangeOfSeq
<1> QED
  BY <1>2, <1>3, <1>4

-----------------------------------------------------------------------------
(* The start, and the steps that change no state                           *)

LEMMA InitHolds ==
  ASSUME Init
  PROVE  HandlesInv
<1>1. None = 0 /\ 0 \in 0 .. MaxSeqid /\ {} \in SUBSET {"R", "W"}
  BY BoundsAssumption DEF None
<1>2. \A o \in Others : /\ states[o].owner = "none" /\ states[o].access = {}
                         /\ states[o].seqid = 0 /\ bound[o] = 0
  BY <1>1 DEF Init, Free
<1>3. \A t \in Tasks : tasks[t] = Done
  BY DEF Init
<1>4. /\ handles = <<>> /\ released = <<>> /\ closing = <<>> /\ known = {} /\ destroyed = FALSE
      /\ Len(handles) = 0 /\ Range(released) = {} /\ Range(closing) = {}
  BY DEF Init, Range
<1>5. Done.at = "idle" /\ Done.owner = "none" /\ Done.existing = 0
  BY DEF Done, None
<1>6. states \in [Others -> [owner : Owners \cup {"none"}, access : SUBSET {"R", "W"},
                             seqid : 0 .. MaxSeqid]]
  BY <1>1 DEF Init, Free
<1>7. bound \in [Others -> 0 .. Len(handles)]
  BY <1>1, <1>4 DEF Init
<1>8. TypeOK
  <2>1. StateTypes
    <3>1. \A o \in Others : ~Live(o) /\ states[o].access = {}
      BY <1>2 DEF Live
    <3>2. \A o \in Others : Live(o) <=> states[o].access # {}
      BY <3>1
    <3> QED
      BY <1>6, <3>2 DEF StateTypes
  <2>2. HandleTypes
    BY <1>3, <1>4, <1>5, <1>7 DEF HandleTypes
  <2>3. QueueTypes
    <3>1. released \in Seq(Others) /\ closing \in Seq(Others) /\ known \subseteq Others
      BY <1>4
    <3>2. destroyed \in BOOLEAN
      BY <1>4
    <3> QED
      BY <3>1, <3>2 DEF QueueTypes
  <2>4. AtTypes
    BY <1>3, <1>5 DEF AtTypes
  <2> QED
    BY <2>1, <2>2, <2>3, <2>4, TypeParts
<1>9. TaskTypes
  BY DoneTyped DEF TaskTypes, Init
<1>10. OwnersInOrder
  BY <1>2, <1>3, <1>5 DEF OwnersInOrder, Live
<1>11. OpensInOrder
  BY <1>3, <1>5 DEF OpensInOrder, OpenInOrder, InOpen, Opening
<1>12. EntriesInOrder
  BY <1>1, <1>2, <1>4 DEF EntriesInOrder, Bound
<1>13. StatesInOrder
  BY <1>1, <1>2 DEF StatesInOrder, Bound, Live
<1>14. QueuesInOrder
  BY <1>4 DEF QueuesInOrder
<1> QED
  BY <1>8, <1>9, <1>10, <1>11, <1>12, <1>13, <1>14 DEF HandlesInv

LEMMA ReturnKeeps ==
  ASSUME HandlesInv, NEW t \in Tasks, Return(t)
  PROVE  HandlesInv'
<1> USE DEF HandlesInv
<1>1. /\ tasks[t].at = "draining" /\ released = <<>>
      /\ Step(t, Done)
      /\ UNCHANGED <<states, bound, released, handles, known, destroyed, closing>>
  BY DEF Return, DrainsNoMore
<1>2. /\ TaskTypes'
      /\ tasks'[t] = Done
      /\ \A u \in Tasks : u # t => tasks'[u] = tasks[u]
  BY <1>1, DoneTyped, StepTyped
<1>3. tasks'[t].at = "idle" /\ tasks'[t].owner = "none" /\ tasks'[t].existing = 0
  BY <1>2, DoneTyped DEF Done, None
<1>4. TypeOK'
  <2>1. StateTypes'
    BY <1>1, TypeParts DEF StateTypes, Live
  <2>2. HandleTypes'
    BY <1>1, <1>2, <1>3, TypeParts, Lengths DEF HandleTypes
  <2>3. QueueTypes'
    BY <1>1, TypeParts DEF QueueTypes
  <2> QED
    BY <1>2, <2>1, <2>2, <2>3, TypePartsNext
<1>5. OwnersInOrder'
  BY <1>1, <1>2, <1>3 DEF OwnersInOrder, Live
<1>6. OpensInOrder'
  BY <1>1, <1>2, <1>3 DEF OpensInOrder, OpenInOrder, InOpen, Opening, Live, Bound
<1>7. EntriesInOrder'
  BY <1>1 DEF EntriesInOrder, Bound, IsOpen
<1>8. StatesInOrder'
  <2>1. \A u \in Tasks : Opening(u) => u # t
    BY <1>1 DEF Opening
  <2> QED
    BY <1>1, <1>2, <2>1 DEF StatesInOrder, Bound, Live, Opening
<1>9. QueuesInOrder'
  BY <1>1 DEF QueuesInOrder, Live, Unused
<1> QED
  BY <1>2, <1>4, <1>5, <1>6, <1>7, <1>8, <1>9

LEMMA OpenReturnsKeeps ==
  ASSUME HandlesInv, NEW t \in Tasks, OpenReturns(t)
  PROVE  HandlesInv'
<1> USE DEF HandlesInv
<1> DEFINE x == [Done EXCEPT !.at = "draining", !.owner = tasks[t].owner]
<1>1. /\ tasks[t].at = "opened"
      /\ known' = known \cup {tasks[t].key}
      /\ Step(t, x)
      /\ UNCHANGED <<states, bound, released, handles, destroyed, closing>>
  BY DEF OpenReturns
<1>2. x \in TaskType /\ x.at = "draining" /\ x.owner = tasks[t].owner
  <2>1. tasks[t].owner \in Owners \cup {"none"}
    BY TaskFields
  <2> QED
    BY <2>1, DrainingTyped
<1>3. /\ TaskTypes'
      /\ tasks'[t] = x
      /\ \A u \in Tasks : u # t => tasks'[u] = tasks[u]
  BY <1>1, <1>2, StepTyped
<1>4. tasks'[t].at = "draining" /\ tasks'[t].owner = tasks[t].owner /\ tasks'[t].existing = 0
  BY <1>2, <1>3 DEF Done, None
<1> HIDE DEF x
<1>5. TypeOK'
  <2>1. tasks[t].key \in Others
    BY <1>1 DEF OpensInOrder, OpenInOrder, InOpen
  <2>2. StateTypes'
    BY <1>1, TypeParts DEF StateTypes, Live
  <2>3. HandleTypes'
    BY <1>1, <1>3, <1>4, TypeParts, Lengths DEF HandleTypes
  <2>4. QueueTypes'
    BY <1>1, <2>1, TypeParts DEF QueueTypes
  <2> QED
    BY <1>3, <2>2, <2>3, <2>4, TypePartsNext
<1>6. OwnersInOrder'
  BY <1>1, <1>3, <1>4 DEF OwnersInOrder, Live
<1>7. OpensInOrder'
  BY <1>1, <1>3, <1>4 DEF OpensInOrder, OpenInOrder, InOpen, Opening, Live, Bound
<1>8. EntriesInOrder'
  BY <1>1 DEF EntriesInOrder, Bound, IsOpen
<1>9. StatesInOrder'
  <2>1. \A u \in Tasks : Opening(u) => u # t
    BY <1>1 DEF Opening
  <2> QED
    BY <1>1, <1>3, <2>1 DEF StatesInOrder, Bound, Live, Opening
<1>10. QueuesInOrder'
  BY <1>1, <1>3, <1>4 DEF QueuesInOrder, Live, Unused
<1> QED
  BY <1>3, <1>5, <1>6, <1>7, <1>8, <1>9, <1>10

-----------------------------------------------------------------------------
(* CLOSE, revocation and a failed OPEN end open states                     *)

LEMMA DroppedTyped ==
  ASSUME StateTypes, NEW os \in SUBSET Others, states' = Dropped(os)
  PROVE  /\ StateTypes'
         /\ \A o \in os : ~Live(o)' /\ states'[o].seqid = 1
         /\ \A o \in Others \ os : states'[o] = states[o]
<1> DEFINE new == [Free EXCEPT !.seqid = 1]
<1>1. \A o \in Others : states'[o] = IF o \in os THEN new ELSE states[o]
  BY DEF Dropped
<1>2. new.owner = "none" /\ new.access = {} /\ new.seqid = 1
  BY DEF Free
<1>3. new \in [owner : Owners \cup {"none"}, access : SUBSET {"R", "W"}, seqid : 0 .. MaxSeqid]
  BY BoundsAssumption DEF Free
<1>4. states' = [o \in Others |-> IF o \in os THEN new ELSE states[o]]
  BY DEF Dropped
<1> HIDE DEF new
<1>5. states' \in [Others -> [owner : Owners \cup {"none"}, access : SUBSET {"R", "W"},
                              seqid : 0 .. MaxSeqid]]
  BY <1>3, <1>4 DEF StateTypes
<1>6. \A o \in os : states'[o].owner = "none" /\ states'[o].access = {} /\ states'[o].seqid = 1
  BY <1>1, <1>2
<1>7. \A o \in Others \ os : states'[o] = states[o]
  BY <1>1
<1>8. \A o \in Others : Live(o)' <=> states'[o].access # {}
  BY <1>6, <1>7 DEF StateTypes, Live
<1> QED
  BY <1>5, <1>6, <1>7, <1>8 DEF StateTypes, Live

\* The open states in os end, and a COMPOUND goes on to drain #released.  The
\* others in progress name none of them.
LEMMA DropKeeps ==
  ASSUME HandlesInv, ~destroyed, NEW t \in Tasks, NEW x \in TaskType, Step(t, x),
         x.at = "draining", x.existing = 0,
         x.owner = "none" \/ x.owner = tasks[t].owner \/ ~Busy(x.owner),
         NEW os \in SUBSET Others, \A o \in os : Live(o), states' = Dropped(os),
         released' \in Seq(Others), Range(released') = Range(released) \cup os,
         tasks[t].at # "opened",
         \A u \in Tasks : u # t /\ InOpen(u) => tasks[u].key \notin os,
         Opening(t) => (tasks[t].upgraded \/ tasks[t].key \in os),
         UNCHANGED <<bound, handles, known, destroyed, closing>>
  PROVE  HandlesInv'
<1> USE DEF HandlesInv
<1>1. /\ StateTypes'
      /\ \A o \in os : ~Live(o)' /\ states'[o].seqid = 1
      /\ \A o \in Others \ os : states'[o] = states[o]
  BY TypeParts, DroppedTyped
<1>2. /\ TaskTypes'
      /\ tasks'[t] = x
      /\ \A u \in Tasks : u # t => tasks'[u] = tasks[u]
  BY StepTyped
<1>3. \A o \in os : states'[o].owner = "none"
  BY <1>1 DEF Live
<1>4. TypeOK'
  <2>1. HandleTypes'
    BY <1>2, TypeParts, Lengths DEF HandleTypes
  <2>2. QueueTypes'
    BY TypeParts DEF QueueTypes
  <2> QED
    BY <1>1, <1>2, <2>1, <2>2, TypePartsNext
<1>5. OwnersInOrder'
  <2>1. \A o, p \in Others : Live(o)' /\ states'[o].owner = states'[p].owner => o = p
    BY <1>1, <1>3 DEF OwnersInOrder, Live
  <2>2. \A u, v \in Tasks : tasks'[u].owner # "none" /\ tasks'[u].owner = tasks'[v].owner => u = v
    BY <1>2 DEF OwnersInOrder, Busy
  <2> QED
    BY <2>1, <2>2 DEF OwnersInOrder
<1>6. OpensInOrder'
  <2>1. \A u \in Tasks : InOpen(u)' => /\ u # t /\ tasks'[u] = tasks[u] /\ InOpen(u)
                                       /\ tasks[u].key \in Others \ os
    BY <1>2 DEF InOpen, OpensInOrder, OpenInOrder
  <2>2. \A u \in Tasks : InOpen(u)' =>
          tasks'[u] = tasks[u] /\ states'[tasks[u].key] = states[tasks[u].key]
    BY <1>1, <2>1
  <2> QED
    BY <2>1, <2>2 DEF OpensInOrder, OpenInOrder, InOpen, Opening, Live, Bound
<1>7. EntriesInOrder'
  BY DEF EntriesInOrder, Bound, IsOpen
<1>8. StatesInOrder'
  <2>1. SUFFICES ASSUME NEW o \in Others
                 PROVE  /\ Live(o)' => \/ Bound(o)
                                       \/ \E u \in Tasks : /\ Opening(u)' /\ tasks'[u].key = o
                                                           /\ ~tasks'[u].upgraded
                        /\ Bound(o) => Live(o)' \/ o \in Range(released')
    BY DEF StatesInOrder, Bound
  <2>2. ASSUME Live(o)', ~Bound(o)
        PROVE  \E u \in Tasks : Opening(u)' /\ tasks'[u].key = o /\ ~tasks'[u].upgraded
    <3>1. o \notin os /\ Live(o)
      BY <1>1, <2>2 DEF Live
    <3>2. PICK u \in Tasks : Opening(u) /\ tasks[u].key = o /\ ~tasks[u].upgraded
      BY <2>2, <3>1 DEF StatesInOrder
    <3>3. u # t
      BY <3>1, <3>2
    <3> QED
      BY <1>2, <3>2, <3>3 DEF Opening
  <2>3. Bound(o) => Live(o)' \/ o \in Range(released')
    BY <1>1 DEF StatesInOrder, Live
  <2> QED
    BY <2>2, <2>3
<1>9. QueuesInOrder'
  <2>1. \A o \in Range(released') : ~Live(o)' /\ ~Unused(o)'
    BY <1>1, <1>3, Lengths DEF QueuesInOrder, Live, Unused
  <2>2. tasks'[t].at = "draining"
    BY <1>2
  <2> QED
    BY <2>1, <2>2 DEF QueuesInOrder
<1> QED
  BY <1>2, <1>4, <1>5, <1>6, <1>7, <1>8, <1>9

LEMMA CloseKeeps ==
  ASSUME HandlesInv, Orderly, NEW t \in Tasks, NEW o \in Others, Close(t, o)
  PROVE  HandlesInv'
<1> DEFINE x == [Done EXCEPT !.at = "draining", !.owner = states[o].owner]
<1>1. /\ tasks[t].at = "idle" /\ ~destroyed /\ Live(o) /\ ~Busy(states[o].owner)
      /\ states' = Dropped({o})
      /\ released' = Append(released, o)
      /\ Step(t, x)
      /\ UNCHANGED <<bound, handles, known, destroyed, closing>>
  BY DEF Close, Begin, OwnerFree
<1>2. states[o].owner \in Owners \cup {"none"} /\ released \in Seq(Others)
  BY TypeParts DEF HandlesInv, StateTypes, QueueTypes
<1>3. x \in TaskType /\ x.at = "draining" /\ x.owner = states[o].owner
  BY <1>2, DrainingTyped
<1>4. x.existing = 0
  BY DEF Done, None
<1>5. released' \in Seq(Others) /\ Range(released') = Range(released) \cup {o}
  BY <1>1, <1>2, AppendRange
<1>6. \A u \in Tasks : InOpen(u) => tasks[u].key \notin {o}
  BY <1>1 DEF HandlesInv, OpensInOrder, OpenInOrder, InOpen, Opening, Busy
<1>7. tasks[t].at # "opened" /\ ~Opening(t) /\ {o} \in SUBSET Others /\ (\A p \in {o} : Live(p))
  BY <1>1 DEF Opening
<1> HIDE DEF x
<1> QED
  BY <1>1, <1>3, <1>4, <1>5, <1>6, <1>7, DropKeeps

LEMMA RevokeKeeps ==
  ASSUME HandlesInv, Orderly, NEW t \in Tasks, NEW os \in SUBSET Others, Revoke(t, os)
  PROVE  HandlesInv'
<1> DEFINE x == [Done EXCEPT !.at = "draining"]
<1>1. /\ tasks[t].at = "idle" /\ ~destroyed
      /\ \A o \in os : Live(o) /\ ~Busy(states[o].owner)
      /\ states' = Dropped(os)
      /\ released' = released \o SetToSeq(os)
      /\ Step(t, x)
      /\ UNCHANGED <<bound, handles, known, destroyed, closing>>
  BY DEF Revoke, Begin, OwnerFree
<1>2. released \in Seq(Others)
  BY TypeParts DEF HandlesInv, QueueTypes
<1>3. x \in TaskType /\ x.at = "draining" /\ x.owner = "none"
  BY RevokerTyped
<1>4. x.existing = 0
  BY DEF Done, None
<1>5. released' \in Seq(Others) /\ Range(released') = Range(released) \cup os
  <2>1. SetToSeq(os) \in Seq(os) /\ Range(SetToSeq(os)) = os
    BY OthersFinite, SetToSeqRange
  <2>2. SetToSeq(os) \in Seq(Others)
    BY <2>1, SeqMonotonic
  <2>3. released \o SetToSeq(os) \in Seq(Others)
    BY <1>2, <2>2, ConcatProperties
  <2>4. Range(released \o SetToSeq(os)) = Range(released) \cup Range(SetToSeq(os))
    BY <1>2, <2>2, RangeConcatenation
  <2> QED
    BY <1>1, <2>1, <2>3, <2>4
<1>6. \A u \in Tasks : InOpen(u) => tasks[u].key \notin os
  BY <1>1 DEF HandlesInv, OpensInOrder, OpenInOrder, InOpen, Opening, Busy
<1>7. tasks[t].at # "opened" /\ ~Opening(t)
  BY <1>1 DEF Opening
<1> HIDE DEF x
<1> QED
  BY <1>1, <1>3, <1>4, <1>5, <1>6, <1>7, DropKeeps

\* A first OPEN takes its state back; an upgrade leaves it with the handle it had.
LEMMA DriverFailsKeeps ==
  ASSUME HandlesInv, Orderly, NEW t \in Tasks, DriverFails(t)
  PROVE  HandlesInv'
<1> DEFINE o == tasks[t].key
           x == [Done EXCEPT !.at = "draining", !.owner = tasks[t].owner]
<1>1. /\ Opening(t)
      /\ IF Undoes(t)
         THEN states' = Dropped({o}) /\ released' = Append(released, o)
         ELSE UNCHANGED <<states, released>>
      /\ Step(t, x)
      /\ UNCHANGED <<bound, handles, known, destroyed, closing>>
  BY DEF DriverFails
<1>2. /\ released \in Seq(Others) /\ tasks[t].owner \in Owners \cup {"none"}
      /\ states \in [Others -> [owner : Owners \cup {"none"}, access : SUBSET {"R", "W"},
                                seqid : 0 .. MaxSeqid]]
  BY TypeParts, TaskFields DEF HandlesInv, StateTypes, QueueTypes
<1>3. x \in TaskType /\ x.at = "draining" /\ x.owner = tasks[t].owner
  BY <1>2, DrainingTyped
<1>4. x.existing = 0
  BY DEF Done, None
<1>5. /\ o \in Others /\ ~destroyed /\ Live(o) /\ states[o].seqid = tasks[t].seqid
      /\ states[o].owner = tasks[t].owner
  BY <1>1 DEF HandlesInv, OpensInOrder, OpenInOrder, InOpen, Opening
<1>6. tasks[t].at # "opened"
  BY <1>1 DEF Opening
<1> HIDE DEF x
<1>7. CASE ~tasks[t].upgraded
  <2>1. Undoes(t)
    BY <1>5, <1>7 DEF Undoes
  <2>2. states' = Dropped({o}) /\ released' = Append(released, o)
    BY <1>1, <2>1
  <2>3. released' \in Seq(Others) /\ Range(released') = Range(released) \cup {o}
    BY <1>2, <1>5, <2>2, AppendRange
  <2>4. \A u \in Tasks : u # t /\ InOpen(u) => tasks[u].key \notin {o}
    BY <1>5 DEF HandlesInv, OpensInOrder, OpenInOrder, OwnersInOrder, InOpen, Opening, Live
  <2>5. {o} \in SUBSET Others /\ (\A p \in {o} : Live(p)) /\ o \in {o}
    BY <1>5
  <2> QED
    BY <1>1, <1>3, <1>4, <1>5, <1>6, <2>2, <2>3, <2>4, <2>5, DropKeeps
<1>8. CASE tasks[t].upgraded
  <2>1. states' = states /\ released' = released
    BY <1>1, <1>8 DEF Undoes
  <2>2. Dropped({}) = states
    BY <1>2 DEF Dropped
  <2>3. /\ released' \in Seq(Others) /\ Range(released') = Range(released) \cup {}
        /\ {} \in SUBSET Others
    BY <1>2, <2>1
  <2> QED
    BY <1>1, <1>3, <1>4, <1>5, <1>6, <1>8, <2>1, <2>2, <2>3, DropKeeps
<1> QED
  BY <1>7, <1>8

-----------------------------------------------------------------------------
(* OPEN_DOWNGRADE and OPEN change one open state                           *)

LEMMA NarrowedTyped ==
  ASSUME StateTypes, NEW o \in Others, Live(o), states[o].seqid < MaxSeqid,
         NEW access \in Narrowings(o),
         states' = [states EXCEPT ![o].access = access, ![o].seqid = @ + 1]
  PROVE  /\ StateTypes'
         /\ states'[o].owner = states[o].owner /\ Live(o)'
         /\ \A p \in Others : p # o => states'[p] = states[p]
<1>1. access \in SUBSET {"R", "W"} /\ access # {}
  BY DEF Narrowings, Accesses
<1>2. states[o] \in [owner : Owners \cup {"none"}, access : SUBSET {"R", "W"},
                     seqid : 0 .. MaxSeqid]
  BY DEF StateTypes
<1> DEFINE new == [states[o] EXCEPT !.access = access, !.seqid = @ + 1]
<1>3. states' = [states EXCEPT ![o] = new]
  OBVIOUS
<1>4. states[o].seqid + 1 \in 0 .. MaxSeqid
  BY <1>2, BoundsAssumption
<1>5. /\ new \in [owner : Owners \cup {"none"}, access : SUBSET {"R", "W"}, seqid : 0 .. MaxSeqid]
      /\ new.owner = states[o].owner /\ new.access = access
  BY <1>1, <1>2, <1>4
<1> HIDE DEF new
<1>6. /\ states' \in [Others -> [owner : Owners \cup {"none"}, access : SUBSET {"R", "W"},
                                 seqid : 0 .. MaxSeqid]]
      /\ states'[o] = new
      /\ \A p \in Others : p # o => states'[p] = states[p]
  BY <1>3, <1>5 DEF StateTypes
<1>7. states'[o].owner = states[o].owner /\ states'[o].access # {} /\ Live(o)'
  BY <1>1, <1>5, <1>6 DEF Live
<1>8. \A p \in Others : Live(p)' <=> states'[p].access # {}
  BY <1>6, <1>7 DEF StateTypes, Live
<1> QED
  BY <1>6, <1>7, <1>8 DEF StateTypes

LEMMA OpenDowngradeKeeps ==
  ASSUME HandlesInv, Orderly, NEW t \in Tasks, NEW o \in Others, OpenDowngrade(t, o)
  PROVE  HandlesInv'
<1> USE DEF HandlesInv
<1> DEFINE x == [Done EXCEPT !.at = "draining", !.owner = states[o].owner]
<1>1. /\ tasks[t].at = "idle" /\ ~destroyed /\ Live(o) /\ ~Busy(states[o].owner)
      /\ states[o].seqid < MaxSeqid
      /\ Step(t, x)
      /\ UNCHANGED <<bound, released, handles, known, destroyed, closing>>
  BY DEF OpenDowngrade, Begin, OwnerFree
<1>2. PICK access \in Narrowings(o) :
        states' = [states EXCEPT ![o].access = access, ![o].seqid = @ + 1]
  BY DEF OpenDowngrade
<1>3. /\ StateTypes'
      /\ states'[o].owner = states[o].owner /\ Live(o)'
      /\ \A p \in Others : p # o => states'[p] = states[p]
  BY <1>1, <1>2, TypeParts, NarrowedTyped
<1>4. states[o].owner \in Owners \cup {"none"}
  BY TypeParts DEF StateTypes
<1>5. x \in TaskType /\ x.at = "draining" /\ x.owner = states[o].owner
  BY <1>4, DrainingTyped
<1>6. x.existing = 0
  BY DEF Done, None
<1> HIDE DEF x
<1>7. /\ TaskTypes'
      /\ tasks'[t] = x
      /\ \A u \in Tasks : u # t => tasks'[u] = tasks[u]
  BY <1>1, <1>5, StepTyped
<1>8. \A p \in Others : states'[p].owner = states[p].owner
  BY <1>3
<1>9. TypeOK'
  <2>1. HandleTypes'
    BY <1>1, <1>6, <1>7, TypeParts, Lengths DEF HandleTypes
  <2>2. QueueTypes'
    BY <1>1, TypeParts DEF QueueTypes
  <2> QED
    BY <1>3, <1>7, <2>1, <2>2, TypePartsNext
<1>10. OwnersInOrder'
  <2>1. \A p, q \in Others : Live(p)' /\ states'[p].owner = states'[q].owner => p = q
    BY <1>8 DEF OwnersInOrder, Live
  <2>2. \A u, v \in Tasks : tasks'[u].owner # "none" /\ tasks'[u].owner = tasks'[v].owner => u = v
    BY <1>1, <1>5, <1>7 DEF OwnersInOrder, Busy
  <2> QED
    BY <2>1, <2>2 DEF OwnersInOrder
<1>11. OpensInOrder'
  <2>1. \A u \in Tasks : InOpen(u)' =>
          u # t /\ tasks'[u] = tasks[u] /\ InOpen(u) /\ tasks[u].key \in Others
    BY <1>5, <1>7 DEF InOpen, OpensInOrder, OpenInOrder
  <2>2. \A u \in Tasks : InOpen(u) => tasks[u].key # o
    BY <1>1 DEF OpensInOrder, OpenInOrder, InOpen, Opening, Busy
  <2>3. \A u \in Tasks : InOpen(u)' =>
          tasks'[u] = tasks[u] /\ states'[tasks[u].key] = states[tasks[u].key]
    BY <1>3, <2>1, <2>2
  <2> QED
    BY <1>1, <2>1, <2>3 DEF OpensInOrder, OpenInOrder, InOpen, Opening, Live, Bound
<1>12. EntriesInOrder'
  BY <1>1 DEF EntriesInOrder, Bound, IsOpen
<1>13. StatesInOrder'
  <2>1. \A u \in Tasks : Opening(u) => u # t /\ Opening(u)' /\ tasks'[u] = tasks[u]
    BY <1>1, <1>7 DEF Opening
  <2>2. \A p \in Others : Live(p)' <=> Live(p)
    BY <1>8 DEF Live
  <2>3. \A p \in Others : Live(p) =>
          Bound(p) \/ \E u \in Tasks : Opening(u) /\ tasks[u].key = p /\ ~tasks[u].upgraded
    BY <1>1 DEF StatesInOrder
  <2>4. \A p \in Others : Live(p) =>
          Bound(p) \/ \E u \in Tasks : Opening(u)' /\ tasks'[u].key = p /\ ~tasks'[u].upgraded
    BY <2>1, <2>3
  <2>5. \A p \in Others : Bound(p) => Live(p) \/ p \in Range(released)
    BY <1>1 DEF StatesInOrder
  <2> QED
    BY <1>1, <2>2, <2>4, <2>5 DEF StatesInOrder, Bound
<1>14. QueuesInOrder'
  <2>1. \A p \in Range(released) : p # o /\ ~Live(p) /\ ~Unused(p) /\ p \in Others
    BY <1>1, Lengths DEF QueuesInOrder
  <2>2. \A p \in Range(released) : ~Live(p)' /\ ~Unused(p)'
    BY <1>3, <2>1 DEF Live, Unused
  <2>3. tasks'[t].at = "draining"
    BY <1>5, <1>7
  <2> QED
    BY <1>1, <2>2, <2>3 DEF QueuesInOrder
<1> QED
  BY <1>7, <1>9, <1>10, <1>11, <1>12, <1>13, <1>14

\* Every non-empty set of naturals has a least element.
LEMMA LeastOf ==
  ASSUME NEW T \in SUBSET Nat, T # {}
  PROVE  \E x \in T : \A y \in T : x <= y
<1> DEFINE R == {ss \in Nat \X Nat : ss[1] < ss[2]}
<1>1. IsWellFoundedOn(R, Nat)
  BY NatLessThanWellFounded DEF OpToRel
<1>2. PICK x \in T : \A y \in T : ~ (<<y, x>> \in R)
  <2> HIDE DEF R
  <2> QED
    BY <1>1, WFMin
<1>3. ASSUME NEW y \in T, y < x
      PROVE  FALSE
  <2>1. <<y, x>> \in Nat \X Nat /\ <<y, x>>[1] = y /\ <<y, x>>[2] = x
    BY <1>3
  <2>2. <<y, x>> \in R
    BY <1>3, <2>1
  <2> HIDE DEF R
  <2> QED
    BY <1>2, <2>2
<1> QED
  BY <1>3

\* The open state of an OPEN is its owner's, or one that was never used.
LEMMA OtherForIs ==
  ASSUME NEW w \in Owners, StateOf(w) # {} \/ \E p \in Others : Unused(p)
  PROVE  /\ OtherFor(w) \in Others
         /\ StateOf(w) # {} => Live(OtherFor(w)) /\ states[OtherFor(w)].owner = w
         /\ StateOf(w) = {} => Unused(OtherFor(w))
<1>1. CASE StateOf(w) # {}
  <2>1. OtherFor(w) \in StateOf(w)
    BY <1>1 DEF OtherFor
  <2> QED
    BY <1>1, <2>1, BoundsAssumption DEF StateOf, Live
<1>2. CASE StateOf(w) = {}
  <2>1. {p \in Others : Unused(p)} \in SUBSET Nat /\ {p \in Others : Unused(p)} # {}
    BY <1>2 DEF Others
  <2>2. PICK o \in {p \in Others : Unused(p)} : \A q \in {p \in Others : Unused(p)} : o <= q
    BY <2>1, LeastOf
  <2>3. o \in Others /\ Unused(o) /\ \A p \in Others : Unused(p) => o <= p
    BY <2>2
  <2>4. NewOther \in Others /\ Unused(NewOther)
    BY <2>3 DEF NewOther
  <2> QED
    BY <1>2, <2>4 DEF OtherFor
<1> QED
  BY <1>1, <1>2

LEMMA KeptTyped ==
  ASSUME NEW w \in Owners \cup {"none"}, NEW o \in Others
  PROVE  LET task == [Done EXCEPT !.key = o, !.owner = w]
             x == [task EXCEPT !.at = "opened"]
         IN /\ x \in TaskType /\ x.at = "opened" /\ x.key = o /\ x.owner = w
            /\ x.existing = 0
<1>1. "opened" \in {"idle", "opening", "opened", "draining"}
  OBVIOUS
<1>2. o \in 0 .. MaxOther
  BY BoundsAssumption DEF Others
<1>3. Done.existing = 0
  BY DEF Done, None
<1> DEFINE task == [Done EXCEPT !.key = o, !.owner = w]
<1>4. task \in TaskType /\ task.key = o /\ task.owner = w /\ task.existing = 0
  BY <1>2, <1>3, DoneTyped DEF TaskType
<1> HIDE DEF task
<1>5. [task EXCEPT !.at = "opened"] \in TaskType
  BY <1>1, <1>4 DEF TaskType
<1>6. /\ [task EXCEPT !.at = "opened"].at = "opened"
      /\ [task EXCEPT !.at = "opened"].key = o
      /\ [task EXCEPT !.at = "opened"].owner = w
      /\ [task EXCEPT !.at = "opened"].existing = 0
  BY <1>4 DEF TaskType
<1> QED
  BY <1>5, <1>6 DEF task

\* An OPEN of w takes its open state up to what it asks for.  x is the COMPOUND
\* afterwards: it waits for the driver, or had the handle already.
LEMMA GrantKeeps ==
  ASSUME HandlesInv, ~destroyed, NEW t \in Tasks, tasks[t].at = "idle",
         NEW w \in Owners, ~Busy(w),
         NEW o \in Others, states[o].seqid < MaxSeqid,
         StateOf(w) # {} => Live(o) /\ states[o].owner = w,
         StateOf(w) = {} => Unused(o),
         NEW all \in Accesses, StateTypes', Live(o)',
         states'[o].owner = w, states'[o].access = all,
         states'[o].seqid = states[o].seqid + 1,
         \A p \in Others : p # o => states'[p] = states[p],
         NEW x \in TaskType, Step(t, x), x.key = o, x.owner = w,
         \/ x.at = "opened" /\ x.existing = 0 /\ Bound(o) /\ handles[bound[o]].flags = all
         \/ /\ x.at = "opening" /\ x.flags = all /\ x.seqid = states[o].seqid + 1
            /\ x.existing = bound[o] /\ (x.upgraded <=> StateOf(w) # {}),
         UNCHANGED <<bound, released, handles, known, destroyed, closing>>
  PROVE  HandlesInv'
<1> USE DEF HandlesInv
<1>1. /\ StateTypes'
      /\ states'[o].owner = w /\ states'[o].access = all
      /\ states'[o].seqid = states[o].seqid + 1 /\ Live(o)'
      /\ \A p \in Others : p # o => states'[p] = states[p]
  OBVIOUS
<1>2. /\ TaskTypes'
      /\ tasks'[t] = x
      /\ \A u \in Tasks : u # t => tasks'[u] = tasks[u]
  BY StepTyped
<1>3. w # "none" /\ bound[o] \in 0 .. Len(handles)
  BY TypeParts, BoundsAssumption DEF HandleTypes
<1>4. \A u \in Tasks : InOpen(u) => tasks[u].key \in Others /\ tasks[u].key # o
  <2>1. \A u \in Tasks : InOpen(u) => /\ tasks[u].key \in Others /\ Live(tasks[u].key)
                                       /\ states[tasks[u].key].owner = tasks[u].owner
    BY DEF OpensInOrder, OpenInOrder, InOpen, Opening
  <2>2. \A u \in Tasks : tasks[u].owner # w
    BY DEF Busy
  <2> QED
    BY <2>1, <2>2 DEF Unused
<1>5. Live(o) => Bound(o)
  BY <1>4 DEF StatesInOrder, InOpen, Opening
<1>6. o \notin Range(released) /\ (~Live(o) => ~Bound(o))
  <2>1. o \notin Range(released)
    BY DEF QueuesInOrder, Unused
  <2> QED
    BY <2>1 DEF StatesInOrder
<1>7. TypeOK'
  <2>1. x.existing \in 0 .. Len(handles)
    BY <1>3, Lengths
  <2>2. HandleTypes'
    BY <1>2, <2>1, TypeParts, Lengths DEF HandleTypes
  <2>3. QueueTypes'
    BY TypeParts DEF QueueTypes
  <2> QED
    BY <1>1, <1>2, <2>2, <2>3, TypePartsNext
<1>8. OwnersInOrder'
  <2>1. \A p \in Others : p # o => states[p].owner # w
    BY <1>3 DEF OwnersInOrder, Live, StateOf
  <2>2. \A p, q \in Others : Live(p)' /\ states'[p].owner = states'[q].owner => p = q
    BY <1>1, <2>1 DEF OwnersInOrder, Live
  <2>3. \A u, v \in Tasks : tasks'[u].owner # "none" /\ tasks'[u].owner = tasks'[v].owner => u = v
    BY <1>2 DEF OwnersInOrder, Busy
  <2> QED
    BY <2>2, <2>3 DEF OwnersInOrder
<1>9. OpensInOrder'
  <2>1. ASSUME NEW u \in Tasks, u # t
        PROVE  OpenInOrder(u)'
    <3>1. tasks'[u] = tasks[u]
      BY <1>2, <2>1
    <3>2. InOpen(u) => states'[tasks[u].key] = states[tasks[u].key]
      BY <1>1, <1>4
    <3> QED
      BY <3>1, <3>2, <2>1 DEF OpensInOrder, OpenInOrder, InOpen, Opening, Live, Bound
  <2>2. OpenInOrder(t)'
    <3>1. /\ tasks'[t].key = o /\ tasks'[t].owner = w
          /\ Live(o)' /\ states'[o].owner = w
      BY <1>1, <1>2
    <3>2. CASE x.at = "opened"
      <4>1. /\ Bound(o)' /\ states'[o].access \subseteq handles'[bound'[o]].flags
            /\ ~Opening(t)'
        BY <1>1, <1>2, <3>2 DEF Bound, Opening
      <4> QED
        BY <3>1, <4>1 DEF OpenInOrder
    <3>3. CASE x.at = "opening"
      <4>1. /\ states'[o].access = tasks'[t].flags /\ states'[o].seqid = tasks'[t].seqid
            /\ bound'[o] = tasks'[t].existing /\ tasks'[t].at = "opening"
        BY <1>1, <1>2, <3>3
      <4>2. Bound(o)' <=> tasks'[t].upgraded
        BY <1>2, <1>5, <1>6, <3>3 DEF Bound, Unused
      <4> QED
        BY <3>1, <4>1, <4>2 DEF OpenInOrder
    <3> QED
      BY <3>2, <3>3
  <2> QED
    BY <2>1, <2>2 DEF OpensInOrder
<1>10. EntriesInOrder'
  BY DEF EntriesInOrder, Bound, IsOpen
<1>11. StatesInOrder'
  <2>1. \A u \in Tasks : Opening(u) => u # t /\ Opening(u)' /\ tasks'[u] = tasks[u]
    BY <1>2 DEF Opening
  <2>2. \A p \in Others : p # o => (Live(p)' <=> Live(p))
    BY <1>1 DEF Live
  <2>3. \A p \in Others : Live(p) =>
          Bound(p) \/ \E u \in Tasks : Opening(u) /\ tasks[u].key = p /\ ~tasks[u].upgraded
    BY DEF StatesInOrder
  <2>4. \A p \in Others : Live(p) =>
          Bound(p) \/ \E u \in Tasks : Opening(u)' /\ tasks'[u].key = p /\ ~tasks'[u].upgraded
    BY <2>1, <2>3
  <2>5. ~Bound(o) => Opening(t)' /\ tasks'[t].key = o /\ ~tasks'[t].upgraded
    BY <1>2, <1>5 DEF Opening
  <2>6. \A p \in Others : Live(p)' =>
          Bound(p) \/ \E u \in Tasks : Opening(u)' /\ tasks'[u].key = p /\ ~tasks'[u].upgraded
    BY <2>2, <2>4, <2>5
  <2>7. \A p \in Others : Bound(p) => Live(p)' \/ p \in Range(released)
    BY <1>1, <2>2 DEF StatesInOrder
  <2> QED
    BY <2>6, <2>7 DEF StatesInOrder, Bound
<1>12. QueuesInOrder'
  <2>1. \A p \in Range(released) : p # o /\ ~Live(p) /\ ~Unused(p) /\ p \in Others
    BY <1>6, Lengths DEF QueuesInOrder
  <2>2. \A p \in Range(released) : ~Live(p)' /\ ~Unused(p)'
    BY <1>1, <2>1 DEF Live, Unused
  <2>3. released # <<>> => \E u \in Tasks : tasks'[u].at = "draining"
    BY <1>2 DEF QueuesInOrder
  <2> QED
    BY <2>2, <2>3 DEF QueuesInOrder
<1> QED
  BY <1>2, <1>7, <1>8, <1>9, <1>10, <1>11, <1>12

LEMMA AccessUnion ==
  ASSUME NEW a \in SUBSET {"R", "W"}, NEW b \in Accesses
  PROVE  a \cup b \in Accesses
  BY DEF Accesses

LEMMA OpenKeeps ==
  ASSUME HandlesInv, Orderly, NEW t \in Tasks, NEW w \in Owners, NEW access \in Accesses,
         Open(t, w, access)
  PROVE  HandlesInv'
<1>1. PICK o \in Others : /\ o = OtherFor(w)
                          /\ StateOf(w) # {} => Live(o) /\ states[o].owner = w
                          /\ StateOf(w) = {} => Unused(o)
  BY OtherForIs DEF Open
<1>2. PICK all \in Accesses : all = AccessAfter(w, access)
  <2>1. states[o].access \in SUBSET {"R", "W"}
    BY TypeParts DEF HandlesInv, StateTypes
  <2> QED
    BY <1>1, <2>1, AccessUnion DEF AccessAfter
<1>3. PICK u \in BOOLEAN : u <=> StateOf(w) # {}
  OBVIOUS
<1> DEFINE task == [Done EXCEPT !.key = o, !.owner = w]
           kept == [task EXCEPT !.at = "opened"]
           x == [task EXCEPT !.at = "opening", !.flags = all, !.seqid = states[o].seqid + 1,
                             !.upgraded = u, !.existing = bound[o]]
<1>4. /\ tasks[t].at = "idle" /\ ~destroyed /\ ~Busy(w) /\ states[o].seqid < MaxSeqid
      /\ states' = [states EXCEPT ![o] =
                      [owner |-> w, access |-> all, seqid |-> @.seqid + 1]]
      /\ UNCHANGED <<bound, released, handles, known, destroyed, closing>>
  BY <1>1, <1>2 DEF Open, Begin, OwnerFree
<1>5. IF KeepsHandle(o, all) THEN Step(t, kept) ELSE Step(t, x)
  <2>1. u = (StateOf(w) # {})
    BY <1>3
  <2> QED
    BY <1>1, <1>2, <2>1 DEF Open
<1>6. StateTypes
  BY TypeParts DEF HandlesInv
<1>7. /\ StateTypes'
      /\ states'[o].owner = w /\ states'[o].access = all
      /\ states'[o].seqid = states[o].seqid + 1 /\ Live(o)'
      /\ \A p \in Others : p # o => states'[p] = states[p]
  <2> DEFINE new == [owner |-> w, access |-> all, seqid |-> states[o].seqid + 1]
  <2>1. states' = [states EXCEPT ![o] = new]
    BY <1>4
  <2>2. all \in SUBSET {"R", "W"} /\ all # {}
    BY DEF Accesses
  <2>3. states[o].seqid \in 0 .. MaxSeqid
    BY <1>6 DEF StateTypes
  <2>4. states[o].seqid + 1 \in 0 .. MaxSeqid
    BY <1>4, <2>3, BoundsAssumption
  <2>5. /\ new \in [owner : Owners \cup {"none"}, access : SUBSET {"R", "W"},
                    seqid : 0 .. MaxSeqid]
        /\ new.owner = w /\ new.access = all /\ new.seqid = states[o].seqid + 1
    BY <2>2, <2>4
  <2> HIDE DEF new
  <2>6. /\ states' \in [Others -> [owner : Owners \cup {"none"}, access : SUBSET {"R", "W"},
                                   seqid : 0 .. MaxSeqid]]
        /\ states'[o] = new
        /\ \A p \in Others : p # o => states'[p] = states[p]
    BY <1>6, <2>1, <2>5 DEF StateTypes
  <2>7. states'[o].owner # "none" /\ states'[o].access # {} /\ Live(o)'
    BY <2>2, <2>5, <2>6, BoundsAssumption DEF Live
  <2>8. \A p \in Others : Live(p)' <=> states'[p].access # {}
    BY <1>6, <2>6, <2>7 DEF StateTypes, Live
  <2> QED
    BY <2>5, <2>6, <2>7, <2>8 DEF StateTypes
<1>8. states[o].seqid + 1 \in Nat /\ bound[o] \in Nat /\ all \in SUBSET {"R", "W"}
  <2>1. states[o].seqid \in Nat
    BY <1>6, BoundsAssumption DEF StateTypes
  <2>2. bound[o] \in 0 .. Len(handles) /\ Len(handles) \in Nat
    BY TypeParts, Lengths DEF HandlesInv, HandleTypes
  <2> QED
    BY <2>1, <2>2 DEF Accesses
<1>9. /\ kept \in TaskType /\ kept.at = "opened" /\ kept.key = o /\ kept.owner = w
      /\ kept.existing = 0
  BY KeptTyped
<1>10. /\ x \in TaskType /\ x.at = "opening" /\ x.key = o /\ x.owner = w
       /\ x.flags = all /\ x.seqid = states[o].seqid + 1 /\ x.existing = bound[o]
       /\ x.upgraded = u
  <2>1. PICK n \in Nat, h \in Nat : n = states[o].seqid + 1 /\ h = bound[o]
    BY <1>8
  <2>2. task \in TaskType /\ task.key = o /\ task.owner = w
    <3>1. o \in 0 .. MaxOther
      BY BoundsAssumption DEF Others
    <3> QED
      BY <3>1, DoneTyped DEF TaskType
  <2>3. "opening" \in {"idle", "opening", "opened", "draining"}
    OBVIOUS
  <2>4. x = [task EXCEPT !.at = "opening", !.flags = all, !.seqid = n,
                         !.upgraded = u, !.existing = h]
    BY <2>1
  <2> HIDE DEF task, x
  <2>5. x \in TaskType
    BY <1>8, <2>2, <2>3, <2>4 DEF TaskType
  <2>6. x.at = "opening" /\ x.key = o /\ x.owner = w
    BY <2>2, <2>4 DEF TaskType
  <2>7. x.flags = all /\ x.seqid = n /\ x.existing = h /\ x.upgraded = u
    BY <2>2, <2>4 DEF TaskType
  <2> QED
    BY <2>1, <2>5, <2>6, <2>7
<1> HIDE DEF task, kept, x
<1>11. CASE KeepsHandle(o, all)
  <2>1. Step(t, kept) /\ Bound(o) /\ handles[bound[o]].flags = all
    BY <1>5, <1>11 DEF KeepsHandle, Bound
  <2> QED
    BY <1>1, <1>4, <1>7, <1>9, <2>1, GrantKeeps
<1>12. CASE ~KeepsHandle(o, all)
  <2>1. Step(t, x) /\ (x.upgraded <=> StateOf(w) # {})
    BY <1>3, <1>5, <1>10, <1>12
  <2> QED
    BY <1>1, <1>4, <1>7, <1>10, <2>1, GrantKeeps
<1> QED
  BY <1>11, <1>12

-----------------------------------------------------------------------------
(* The driver's handles                                                    *)

HandleType == [flags : Accesses, closed : Nat]

LEMMA ClosedIs ==
  ASSUME NEW hs \in Seq(HandleType), NEW e \in 0 .. Len(hs)
  PROVE  /\ Closed(hs, e) \in Seq(HandleType) /\ Len(Closed(hs, e)) = Len(hs)
         /\ \A h \in 1 .. Len(hs) :
              /\ h # e => Closed(hs, e)[h] = hs[h]
              /\ h = e => /\ Closed(hs, e)[h].flags = hs[h].flags
                          /\ Closed(hs, e)[h].closed = hs[h].closed + 1
<1>1. CASE e = None
  BY <1>1 DEF Closed, None
<1>2. CASE e # None
  <2>1. e \in 1 .. Len(hs) /\ Len(hs) \in Nat
    BY <1>2, LenProperties DEF None
  <2>2. hs[e] \in HandleType
    BY <2>1, ElementOfSeq
  <2> DEFINE new == [hs[e] EXCEPT !.closed = @ + 1]
  <2>3. new \in HandleType /\ new.flags = hs[e].flags /\ new.closed = hs[e].closed + 1
    BY <2>2 DEF HandleType
  <2>4. Closed(hs, e) = [hs EXCEPT ![e] = new]
    BY <1>2 DEF Closed
  <2> HIDE DEF new
  <2>5. /\ [hs EXCEPT ![e] = new] \in Seq(HandleType)
        /\ Len([hs EXCEPT ![e] = new]) = Len(hs)
        /\ \A j \in 1 .. Len(hs) : [hs EXCEPT ![e] = new][j] = IF j = e THEN new ELSE hs[j]
    BY <2>1, <2>3, ExceptSeq
  <2> QED
    BY <2>3, <2>4, <2>5
<1> QED
  BY <1>1, <1>2

LEMMA OpenedIs ==
  ASSUME NEW hs \in Seq(HandleType), hs = handles, NEW flags \in Accesses
  PROVE  /\ Opened(flags) \in Seq(HandleType) /\ Len(Opened(flags)) = Len(hs) + 1
         /\ \A h \in 1 .. Len(hs) : Opened(flags)[h] = hs[h]
         /\ Opened(flags)[Len(hs) + 1].flags = flags
         /\ Opened(flags)[Len(hs) + 1].closed = 0
<1> DEFINE new == [flags |-> flags, closed |-> 0]
<1>1. new \in HandleType /\ new.flags = flags /\ new.closed = 0
  BY DEF HandleType
<1>2. Opened(flags) = Append(hs, new)
  BY DEF Opened
<1> HIDE DEF new
<1> QED
  BY <1>1, <1>2, AppendProperties

\* A handle that leaves #openHandles is closed for the first and last time.
LEMMA CloseHandleKeeps ==
  ASSUME HandlesInv, NEW o \in Others, tasks' = tasks,
         bound' = BoundAfterClose(o), handles' = Closed(handles, bound[o])
  PROVE  /\ HandleTypes' /\ EntriesInOrder'
         /\ ~Bound(o)'
         /\ \A p \in Others : p # o => bound'[p] = bound[p]
         /\ \A h \in 1 .. Len(handles) : handles'[h].flags = handles[h].flags
<1>1. /\ handles \in Seq(HandleType) /\ bound \in [Others -> 0 .. Len(handles)]
      /\ \A t \in Tasks : tasks[t].existing \in 0 .. Len(handles)
  BY TypeParts DEF HandlesInv, HandleTypes, HandleType
<1>2. Len(handles) \in Nat /\ bound[o] \in 0 .. Len(handles) /\ 0 \in 0 .. Len(handles)
  BY <1>1, Lengths
<1>3. /\ handles' \in Seq(HandleType) /\ Len(handles') = Len(handles)
      /\ \A h \in 1 .. Len(handles) :
           /\ h # bound[o] => handles'[h] = handles[h]
           /\ h = bound[o] => /\ handles'[h].flags = handles[h].flags
                              /\ handles'[h].closed = handles[h].closed + 1
  BY <1>1, <1>2, ClosedIs
<1>4. /\ bound' \in [Others -> 0 .. Len(handles)] /\ bound'[o] = 0
      /\ \A p \in Others : p # o => bound'[p] = bound[p]
  BY <1>1, <1>2 DEF BoundAfterClose, None
<1>5. HandleTypes'
  BY <1>1, <1>3, <1>4 DEF HandleTypes, HandleType
<1>6. EntriesInOrder'
  <2>1. \A p \in Others : /\ Bound(p) => handles[bound[p]].closed = 0 /\ bound[p] \in 1 .. Len(handles)
                          /\ bound[p] \in 0 .. Len(handles)
    BY <1>1, <1>2 DEF HandlesInv, EntriesInOrder, Bound, IsOpen, None
  <2>2. \A p, q \in Others : Bound(p) /\ bound[p] = bound[q] => p = q
    BY DEF HandlesInv, EntriesInOrder
  <2>3. \A p \in Others : Bound(p)' => p # o /\ bound'[p] = bound[p] /\ Bound(p)
    BY <1>4 DEF Bound, None
  <2>4. \A p \in Others : Bound(p)' => IsOpen(bound[p])'
    <3>1. ASSUME NEW p \in Others, Bound(p)'
          PROVE  bound'[p] # None /\ handles'[bound'[p]].closed = 0
      <4>1. p # o /\ bound'[p] = bound[p] /\ Bound(p)
        BY <2>3, <3>1
      <4>2. bound[p] # bound[o]
        BY <2>2, <4>1
      <4>3. bound[p] \in 1 .. Len(handles) /\ handles[bound[p]].closed = 0
        BY <2>1, <4>1
      <4>4. handles'[bound[p]] = handles[bound[p]]
        BY <1>3, <4>2, <4>3
      <4> QED
        BY <4>1, <4>3, <4>4 DEF Bound
    <3> QED
      BY <3>1 DEF IsOpen
  <2>5. \A p, q \in Others : Bound(p)' /\ bound'[p] = bound'[q] => p = q
    BY <1>4, <2>2, <2>3 DEF Bound, None
  <2>6. ASSUME NEW h \in 1 .. Len(handles)
        PROVE  /\ handles'[h].closed <= 1
               /\ handles'[h].closed = 0 => \E p \in Others : bound'[p] = h
    <3>1. /\ handles[h].closed <= 1
          /\ handles[h].closed = 0 => \E p \in Others : bound[p] = h
      BY DEF HandlesInv, EntriesInOrder
    <3>2. CASE h = bound[o]
      <4>1. handles[h].closed = 0
        BY <2>1, <3>2 DEF Bound, None
      <4> QED
        BY <1>3, <3>2, <4>1
    <3>3. CASE h # bound[o]
      BY <1>3, <1>4, <3>1, <3>3
    <3> QED
      BY <3>2, <3>3
  <2> QED
    BY <1>3, <2>4, <2>5, <2>6 DEF EntriesInOrder
<1>7. \A h \in 1 .. Len(handles) : handles'[h].flags = handles[h].flags
  BY <1>3
<1> QED
  BY <1>4, <1>5, <1>6, <1>7 DEF Bound, None

LEMMA DrainOneKeeps ==
  ASSUME HandlesInv, NEW t \in Tasks, DrainOne(t)
  PROVE  HandlesInv'
<1> USE DEF HandlesInv
<1>1. released \in Seq(Others) /\ released # <<>> /\ ~destroyed /\ tasks[t].at = "draining"
  BY TypeParts DEF QueueTypes, QueuesInOrder, DrainOne
<1>2. PICK o \in Others : o = Head(released)
  BY <1>1, TailRange
<1>3. /\ bound' = BoundAfterClose(o) /\ handles' = Closed(handles, bound[o])
      /\ released' = Tail(released)
      /\ UNCHANGED <<states, known, tasks, destroyed, closing>>
  BY <1>2 DEF DrainOne
<1>4. /\ released' \in Seq(Others) /\ o \in Range(released)
      /\ Range(released') \subseteq Range(released)
      /\ Range(released) \subseteq Range(released') \cup {o}
  BY <1>1, <1>2, <1>3, TailRange
<1>5. /\ HandleTypes' /\ EntriesInOrder'
      /\ ~Bound(o)'
      /\ \A p \in Others : p # o => bound'[p] = bound[p]
      /\ \A h \in 1 .. Len(handles) : handles'[h].flags = handles[h].flags
  BY <1>3, CloseHandleKeeps
<1>6. ~Live(o)
  BY <1>4 DEF QueuesInOrder
<1>7. TaskTypes'
  BY <1>3 DEF TaskTypes
<1>8. TypeOK'
  <2>1. StateTypes'
    BY <1>3, TypeParts DEF StateTypes, Live
  <2>2. QueueTypes'
    BY <1>3, <1>4, TypeParts DEF QueueTypes
  <2> QED
    BY <1>5, <1>7, <2>1, <2>2, TypePartsNext
<1>9. OwnersInOrder'
  BY <1>3 DEF OwnersInOrder, Live
<1>10. OpensInOrder'
  <2>1. ASSUME NEW u \in Tasks, InOpen(u)
        PROVE  /\ tasks[u].key \in Others /\ bound'[tasks[u].key] = bound[tasks[u].key]
               /\ Bound(tasks[u].key) =>
                    handles'[bound[tasks[u].key]].flags = handles[bound[tasks[u].key]].flags
    <3>1. tasks[u].key \in Others /\ tasks[u].key # o
      BY <1>1, <1>6, <2>1 DEF OpensInOrder, OpenInOrder, InOpen, Opening
    <3>2. Bound(tasks[u].key) => bound[tasks[u].key] \in 1 .. Len(handles)
      BY <3>1, TypeParts, Lengths DEF HandleTypes, Bound, None
    <3> QED
      BY <1>5, <3>1, <3>2
  <2>2. ASSUME NEW u \in Tasks
        PROVE  OpenInOrder(u)'
    BY <1>3, <2>1 DEF OpensInOrder, OpenInOrder, InOpen, Opening, Live, Bound
  <2> QED
    BY <2>2 DEF OpensInOrder
<1>11. StatesInOrder'
  <2>1. ASSUME NEW p \in Others
        PROVE  /\ Live(p) => \/ Bound(p)'
                             \/ \E u \in Tasks : /\ Opening(u) /\ tasks[u].key = p
                                                 /\ ~tasks[u].upgraded
               /\ Bound(p)' => Live(p) \/ p \in Range(released')
    <3>1. /\ Live(p) => \/ Bound(p)
                        \/ \E u \in Tasks : Opening(u) /\ tasks[u].key = p /\ ~tasks[u].upgraded
          /\ Bound(p) => Live(p) \/ p \in Range(released)
      BY <1>1 DEF StatesInOrder
    <3> QED
      BY <1>4, <1>5, <1>6, <3>1 DEF Bound
  <2> QED
    BY <1>1, <1>3, <2>1 DEF StatesInOrder, Live, Opening
<1>12. QueuesInOrder'
  <2>1. \A p \in Range(released') : ~Live(p) /\ ~Unused(p)
    BY <1>4 DEF QueuesInOrder
  <2> QED
    BY <1>1, <1>3, <2>1 DEF QueuesInOrder, Live, Unused
<1> QED
  BY <1>5, <1>7, <1>8, <1>9, <1>10, <1>11, <1>12

LEMMA DestroyOneKeeps ==
  ASSUME HandlesInv, DestroyOne
  PROVE  HandlesInv'
<1> USE DEF HandlesInv
<1>1. closing \in Seq(Others) /\ closing # <<>> /\ destroyed
  BY TypeParts DEF QueueTypes, QueuesInOrder, DestroyOne
<1>2. PICK o \in Others : o = Head(closing)
  BY <1>1, TailRange
<1>3. /\ bound' = BoundAfterClose(o) /\ handles' = Closed(handles, bound[o])
      /\ closing' = Tail(closing)
      /\ UNCHANGED <<states, released, known, tasks, destroyed>>
  BY <1>2 DEF DestroyOne
<1>4. closing' \in Seq(Others) /\ Range(closing) \subseteq Range(closing') \cup {o}
  BY <1>1, <1>2, <1>3, TailRange
<1>5. /\ HandleTypes' /\ EntriesInOrder'
      /\ ~Bound(o)'
      /\ \A p \in Others : p # o => bound'[p] = bound[p]
  BY <1>3, CloseHandleKeeps
<1>6. TaskTypes'
  BY <1>3 DEF TaskTypes
<1>7. TypeOK'
  <2>1. StateTypes'
    BY <1>3, TypeParts DEF StateTypes, Live
  <2>2. QueueTypes'
    BY <1>3, <1>4, TypeParts DEF QueueTypes
  <2> QED
    BY <1>5, <1>6, <2>1, <2>2, TypePartsNext
<1>8. OwnersInOrder'
  BY <1>3 DEF OwnersInOrder, Live
<1>9. OpensInOrder'
  BY <1>1, <1>3 DEF OpensInOrder, OpenInOrder, InOpen, Opening
<1>10. StatesInOrder'
  <2>1. \A p \in Others : Bound(p)' => p # o /\ p \in Range(closing)
    BY <1>1, <1>5 DEF StatesInOrder, Bound
  <2> QED
    BY <1>1, <1>3, <1>4, <2>1 DEF StatesInOrder
<1>11. QueuesInOrder'
  BY <1>1, <1>3 DEF QueuesInOrder, Live, Unused
<1> QED
  BY <1>5, <1>6, <1>7, <1>8, <1>9, <1>10, <1>11

\* destroy() takes over what is in #openHandles and what waits in #released.
LEMMA DestroyKeeps ==
  ASSUME HandlesInv, Orderly, Destroy
  PROVE  HandlesInv'
<1> USE DEF HandlesInv
<1> DEFINE os == {o \in Others : bound[o] # None}
<1>1. /\ ~destroyed /\ OpenTasks = {} /\ destroyed' = TRUE
      /\ closing' = SetToSeq(os) \o released
      /\ released' = <<>>
      /\ UNCHANGED <<states, bound, handles, known, tasks>>
  BY DEF Destroy
<1>2. \A t \in Tasks : ~Opening(t)
  BY <1>1 DEF OpenTasks
<1>3. closing' \in Seq(Others) /\ Range(closing') = os \cup Range(released)
  <2>1. os \in SUBSET Others
    OBVIOUS
  <2> HIDE DEF os
  <2>2. SetToSeq(os) \in Seq(os) /\ Range(SetToSeq(os)) = os
    BY <2>1, OthersFinite, SetToSeqRange
  <2>3. SetToSeq(os) \in Seq(Others)
    BY <2>1, <2>2, SeqMonotonic
  <2>4. released \in Seq(Others)
    BY TypeParts DEF QueueTypes
  <2>5. SetToSeq(os) \o released \in Seq(Others)
    BY <2>3, <2>4, ConcatProperties
  <2>6. Range(SetToSeq(os) \o released) = Range(SetToSeq(os)) \cup Range(released)
    BY <2>3, <2>4, RangeConcatenation
  <2> QED
    BY <1>1, <2>2, <2>5, <2>6
<1>4. released' \in Seq(Others) /\ Range(released') = {}
  BY <1>1 DEF Range
<1>5. TaskTypes'
  BY <1>1 DEF TaskTypes
<1>6. TypeOK'
  <2>1. StateTypes'
    BY <1>1, TypeParts DEF StateTypes, Live
  <2>2. HandleTypes'
    BY <1>1, TypeParts DEF HandleTypes
  <2>3. QueueTypes'
    <3>1. destroyed' \in BOOLEAN
      BY <1>1
    <3>2. known' \subseteq Others
      BY <1>1, TypeParts DEF QueueTypes
    <3> QED
      BY <1>3, <1>4, <3>1, <3>2 DEF QueueTypes
  <2> QED
    BY <1>5, <2>1, <2>2, <2>3, TypePartsNext
<1>7. OwnersInOrder'
  BY <1>1 DEF OwnersInOrder, Live
<1>8. OpensInOrder'
  <2>1. \A t \in Tasks : InOpen(t) => tasks[t].key \in Others
    BY DEF OpensInOrder, OpenInOrder
  <2> QED
    BY <1>1, <1>2, <2>1 DEF OpensInOrder, OpenInOrder, InOpen, Opening
<1>9. EntriesInOrder'
  BY <1>1 DEF EntriesInOrder, Bound, IsOpen
<1>10. StatesInOrder'
  <2>1. \A p \in Others : Bound(p) => p \in os
    BY DEF Bound
  <2> QED
    BY <1>1, <1>3, <2>1 DEF StatesInOrder, Bound
<1>11. QueuesInOrder'
  BY <1>1, <1>4 DEF QueuesInOrder
<1> QED
  BY <1>5, <1>6, <1>7, <1>8, <1>9, <1>10, <1>11

\* The driver answers an OPEN: the new handle is in place before the one it
\* replaces is closed.
LEMMA DriverOpensKeeps ==
  ASSUME HandlesInv, NEW t \in Tasks, DriverOpens(t)
  PROVE  HandlesInv'
<1> USE DEF HandlesInv
<1>1. PICK o \in Others : o = tasks[t].key
  BY DEF OpensInOrder, OpenInOrder, InOpen, Opening, DriverOpens
<1>2. PICK flags \in Accesses : flags = tasks[t].flags
  <2>1. Opening(t) /\ Live(o) /\ states[o].access = tasks[t].flags
    BY <1>1 DEF OpensInOrder, OpenInOrder, DriverOpens
  <2>2. states[o].access \in SUBSET {"R", "W"} /\ states[o].access # {}
    BY <2>1, TypeParts DEF StateTypes
  <2> QED
    BY <2>1, <2>2 DEF Accesses
<1>3. PICK e \in 0 .. Len(handles) : e = tasks[t].existing
  BY TypeParts DEF HandleTypes
<1>4. PICK w \in Owners \cup {"none"} : w = tasks[t].owner
  BY TaskFields
<1> DEFINE x == [Done EXCEPT !.at = "opened", !.key = o, !.owner = w]
           hs == Closed(Opened(flags), e)
           n == Len(handles) + 1
<1>5. /\ Opening(t) /\ handles' = hs
      /\ bound' = [bound EXCEPT ![o] = n]
      /\ Step(t, x)
      /\ UNCHANGED <<states, released, known, destroyed, closing>>
  BY <1>1, <1>2, <1>3, <1>4 DEF DriverOpens, ReplacedHandle
<1>6. /\ ~destroyed /\ Live(o) /\ states[o].owner = w /\ states[o].access = flags /\ bound[o] = e
  BY <1>1, <1>2, <1>3, <1>4, <1>5 DEF OpensInOrder, OpenInOrder
<1>7. x \in TaskType /\ x.at = "opened" /\ x.owner = w /\ x.key = o
  BY OpenedTyped
<1>8. x.existing = 0
  BY DEF Done, None
<1> HIDE DEF x
<1>9. /\ TaskTypes'
      /\ tasks'[t] = x
      /\ \A u \in Tasks : u # t => tasks'[u] = tasks[u]
  BY <1>5, <1>7, StepTyped
<1>10. /\ handles \in Seq(HandleType) /\ Len(handles) \in Nat
       /\ bound \in [Others -> 0 .. Len(handles)]
       /\ \A u \in Tasks : tasks[u].existing \in 0 .. Len(handles)
  BY TypeParts, Lengths DEF HandleTypes, HandleType
<1>11. /\ handles' \in Seq(HandleType) /\ Len(handles') = n
       /\ handles'[n].flags = flags /\ handles'[n].closed = 0
       /\ \A h \in 1 .. Len(handles) :
            /\ h # e => handles'[h] = handles[h]
            /\ h = e => /\ handles'[h].flags = handles[h].flags
                        /\ handles'[h].closed = handles[h].closed + 1
  <2>1. /\ Opened(flags) \in Seq(HandleType) /\ Len(Opened(flags)) = n
        /\ \A h \in 1 .. Len(handles) : Opened(flags)[h] = handles[h]
        /\ Opened(flags)[n].flags = flags /\ Opened(flags)[n].closed = 0
    BY <1>10, OpenedIs
  <2>2. e \in 0 .. Len(Opened(flags)) /\ e # n /\ n \in 1 .. n
    BY <1>10, <2>1
  <2>3. /\ hs \in Seq(HandleType) /\ Len(hs) = Len(Opened(flags))
        /\ \A h \in 1 .. Len(Opened(flags)) :
             /\ h # e => hs[h] = Opened(flags)[h]
             /\ h = e => /\ hs[h].flags = Opened(flags)[h].flags
                         /\ hs[h].closed = Opened(flags)[h].closed + 1
    BY <2>1, <2>2, ClosedIs
  <2>4. \A h \in 1 .. Len(handles) : h \in 1 .. n
    BY <1>10
  <2> HIDE DEF hs
  <2>5. hs[n] = Opened(flags)[n]
    BY <2>1, <2>2, <2>3
  <2> HIDE DEF n
  <2> QED
    BY <1>5, <2>1, <2>3, <2>4, <2>5
<1>12. /\ bound' \in [Others -> 0 .. n] /\ bound'[o] = n
       /\ \A p \in Others : p # o => bound'[p] = bound[p]
  <2>1. n \in 0 .. n /\ \A i \in 0 .. Len(handles) : i \in 0 .. n
    BY <1>10
  <2> HIDE DEF n
  <2> QED
    BY <1>5, <1>10, <2>1
<1> HIDE DEF hs
<1>13. n \in Nat \ {0} /\ n = Len(handles) + 1
  BY <1>10
<1> HIDE DEF n
<1>14. TypeOK'
  <2>1. HandleTypes'
    <3>1. \A u \in Tasks : tasks'[u].existing \in 0 .. n
      BY <1>8, <1>9, <1>10, <1>13
    <3> QED
      BY <1>11, <1>12, <3>1 DEF HandleTypes, HandleType
  <2>2. StateTypes'
    BY <1>5, TypeParts DEF StateTypes, Live
  <2>3. QueueTypes'
    BY <1>5, TypeParts DEF QueueTypes
  <2> QED
    BY <1>9, <2>1, <2>2, <2>3, TypePartsNext
<1>15. OwnersInOrder'
  BY <1>4, <1>5, <1>7, <1>9 DEF OwnersInOrder, Live
<1>16. OpensInOrder'
  <2>1. ASSUME NEW u \in Tasks, u # t
        PROVE  OpenInOrder(u)'
    <3>1. tasks'[u] = tasks[u]
      BY <1>9, <2>1
    <3>2. InOpen(u) => tasks[u].key \in Others /\ tasks[u].key # o
      BY <1>1, <1>4, <1>6, <2>1 DEF OpensInOrder, OpenInOrder, OwnersInOrder, InOpen, Opening, Live
    <3>3. InOpen(u) => bound'[tasks[u].key] = bound[tasks[u].key]
      BY <1>12, <3>2
    <3>4. InOpen(u) /\ Bound(tasks[u].key) => bound[tasks[u].key] \in 1 .. Len(handles)
      BY <1>10, <3>2 DEF Bound, None
    <3>5. InOpen(u) /\ Bound(tasks[u].key) =>
            handles'[bound[tasks[u].key]].flags = handles[bound[tasks[u].key]].flags
      BY <1>11, <3>4
    <3> QED
      BY <1>5, <3>1, <3>2, <3>3, <3>5 DEF OpensInOrder, OpenInOrder, InOpen, Opening, Live, Bound
  <2>2. OpenInOrder(t)'
    <3>1. tasks'[t].at = "opened" /\ tasks'[t].key = o /\ tasks'[t].owner = w
      BY <1>7, <1>9
    <3>2. Live(o)' /\ states'[o].owner = w /\ Bound(o)'
      BY <1>5, <1>6, <1>12, <1>13 DEF Live, Bound, None
    <3>3. states'[o].access \subseteq handles'[bound'[o]].flags
      BY <1>5, <1>6, <1>11, <1>12
    <3> QED
      BY <3>1, <3>2, <3>3 DEF OpenInOrder, Opening
  <2> QED
    BY <2>1, <2>2 DEF OpensInOrder
<1>17. EntriesInOrder'
  <2>1. \A p \in Others : Bound(p) => handles[bound[p]].closed = 0 /\ bound[p] \in 1 .. Len(handles)
    BY <1>10 DEF EntriesInOrder, Bound, IsOpen, None
  <2>2. \A p, q \in Others : Bound(p) /\ bound[p] = bound[q] => p = q
    BY DEF EntriesInOrder
  <2>3. ASSUME NEW p \in Others, Bound(p)', p # o
        PROVE  bound'[p] = bound[p] /\ handles'[bound[p]].closed = 0 /\ bound'[p] # n
    <3>1. bound'[p] = bound[p] /\ Bound(p) /\ bound[p] # e
      BY <1>6, <1>12, <2>2, <2>3 DEF Bound
    <3> QED
      BY <1>11, <1>13, <2>1, <3>1
  <2>4. \A p \in Others : Bound(p)' => IsOpen(bound[p])'
    BY <1>11, <1>12, <2>3 DEF IsOpen, Bound
  <2>5. \A p, q \in Others : Bound(p)' /\ bound'[p] = bound'[q] => p = q
    <3>1. \A p \in Others : p # o => bound'[p] = bound[p] /\ bound'[p] # n
      BY <1>10, <1>12, <1>13
    <3> QED
      BY <1>12, <2>2, <3>1 DEF Bound
  <2>6. ASSUME NEW h \in 1 .. n
        PROVE  /\ handles'[h].closed <= 1
               /\ handles'[h].closed = 0 => \E p \in Others : bound'[p] = h
    <3>1. CASE h = n
      BY <1>11, <1>12, <3>1
    <3>2. CASE h # n
      <4>1. /\ h \in 1 .. Len(handles) /\ handles[h].closed <= 1
            /\ handles[h].closed = 0 => \E p \in Others : bound[p] = h
        BY <1>10, <1>13, <3>2 DEF EntriesInOrder
      <4>2. CASE h = e
        <5>1. handles[h].closed = 0
          BY <1>6, <1>13, <2>1, <4>1, <4>2 DEF Bound, None
        <5> QED
          BY <1>11, <4>1, <4>2, <5>1
      <4>3. CASE h # e
        BY <1>6, <1>11, <1>12, <4>1, <4>3
      <4> QED
        BY <4>2, <4>3
    <3> QED
      BY <3>1, <3>2
  <2> QED
    BY <1>11, <2>4, <2>5, <2>6 DEF EntriesInOrder
<1>18. StatesInOrder'
  <2>1. ASSUME NEW p \in Others
        PROVE  /\ Live(p) => \/ Bound(p)'
                             \/ \E u \in Tasks : /\ Opening(u)' /\ tasks'[u].key = p
                                                 /\ ~tasks'[u].upgraded
               /\ Bound(p)' => Live(p) \/ p \in Range(released)
    <3>1. CASE p = o
      BY <1>6, <1>12, <1>13, <3>1 DEF Bound, None
    <3>2. CASE p # o
      <4>1. /\ Live(p) => \/ Bound(p)
                          \/ \E u \in Tasks : Opening(u) /\ tasks[u].key = p /\ ~tasks[u].upgraded
            /\ Bound(p) => Live(p) \/ p \in Range(released)
        BY <1>6 DEF StatesInOrder
      <4>2. Bound(p)' <=> Bound(p)
        BY <1>12, <3>2 DEF Bound
      <4>3. \A u \in Tasks : Opening(u) /\ tasks[u].key = p => Opening(u)' /\ tasks'[u] = tasks[u]
        BY <1>1, <1>9, <3>2 DEF Opening
      <4> QED
        BY <4>1, <4>2, <4>3
    <3> QED
      BY <3>1, <3>2
  <2> QED
    BY <1>5, <1>6, <2>1 DEF StatesInOrder, Live
<1>19. QueuesInOrder'
  <2>1. released # <<>> => \E u \in Tasks : tasks'[u].at = "draining"
    BY <1>5, <1>9 DEF QueuesInOrder, Opening
  <2> QED
    BY <1>5, <2>1 DEF QueuesInOrder, Live, Unused
<1> QED
  BY <1>9, <1>14, <1>15, <1>16, <1>17, <1>18, <1>19

-----------------------------------------------------------------------------
(* The theorems                                                            *)

LEMMA NextKeeps ==
  ASSUME HandlesInv, Orderly, [Next]_vars
  PROVE  HandlesInv'
<1>1. CASE UNCHANGED vars
  <2>1. UNCHANGED <<states, bound, released, handles, known, tasks, destroyed, closing>>
    BY <1>1 DEF vars
  <2>2. TypeOK' /\ TaskTypes'
    <3>1. TaskTypes'
      BY <2>1 DEF HandlesInv, TaskTypes
    <3>2. StateTypes'
      BY <2>1, TypeParts DEF HandlesInv, StateTypes, Live
    <3>3. HandleTypes'
      BY <2>1, TypeParts DEF HandlesInv, HandleTypes
    <3>4. QueueTypes'
      BY <2>1, TypeParts DEF HandlesInv, QueueTypes
    <3> QED
      BY <3>1, <3>2, <3>3, <3>4, TypePartsNext
  <2>3. OwnersInOrder'
    BY <2>1 DEF HandlesInv, OwnersInOrder, Live
  <2>4. OpensInOrder'
    BY <2>1 DEF HandlesInv, OpensInOrder, OpenInOrder, InOpen, Opening, Live, Bound
  <2>5. EntriesInOrder'
    BY <2>1 DEF HandlesInv, EntriesInOrder, Bound, IsOpen
  <2>6. StatesInOrder'
    BY <2>1 DEF HandlesInv, StatesInOrder, Bound, Live, Opening
  <2>7. QueuesInOrder'
    BY <2>1 DEF HandlesInv, QueuesInOrder, Live, Unused
  <2> QED
    BY <2>2, <2>3, <2>4, <2>5, <2>6, <2>7 DEF HandlesInv
<1>2. ASSUME NEW t \in Tasks,
             \/ DriverOpens(t)
             \/ DriverFails(t)
             \/ OpenReturns(t)
             \/ DrainOne(t)
             \/ Return(t)
             \/ \E w \in Owners, access \in Accesses : Open(t, w, access)
             \/ \E o \in Others : Close(t, o) \/ OpenDowngrade(t, o)
             \/ \E os \in SUBSET Others : Revoke(t, os)
      PROVE  HandlesInv'
  BY <1>2, DriverOpensKeeps, DriverFailsKeeps, OpenReturnsKeeps, DrainOneKeeps, ReturnKeeps,
     OpenKeeps, CloseKeeps, OpenDowngradeKeeps, RevokeKeeps
<1>3. CASE Destroy
  BY <1>3, DestroyKeeps
<1>4. CASE DestroyOne
  BY <1>4, DestroyOneKeeps
<1> QED
  BY <1>1, <1>2, <1>3, <1>4 DEF Next

\* The inductive invariant of the driver's handles holds in every reachable
\* state, whatever the numbers of COMPOUNDs, open-owners, states and handles, if
\* the requests of one open-owner come one at a time.
THEOREM HandlesInvariant ==
  ASSUME Orderly
  PROVE  Spec => []HandlesInv
<1>1. Init => HandlesInv
  BY InitHolds
<1>2. HandlesInv /\ [Next]_vars => HandlesInv'
  BY NextKeeps
<1> QED
  BY <1>1, <1>2, PTL DEF Spec

\* The state of #openHandles, #released and the driver keeps its types.
THEOREM HandlesAreTyped ==
  ASSUME Orderly
  PROVE  Spec => []TypeOK
<1>1. HandlesInv => TypeOK
  BY DEF HandlesInv
<1> QED
  BY <1>1, HandlesInvariant, PTL

\* session.ts: a driver handle exists exactly while the open state that named it
\* does.  No handle is closed twice, and whenever no COMPOUND is in progress the
\* open handles and the live open states are one for one.
THEOREM HandlesAreTheStates ==
  ASSUME Orderly
  PROVE  Spec => []HandlesMatchStates
<1>1. ASSUME HandlesInv
      PROVE  HandlesMatchStates
  <2> USE <1>1 DEF HandlesInv
  <2>1. \A h \in 1 .. Len(handles) : handles[h].closed <= 1
    BY DEF EntriesInOrder
  <2>2. ASSUME \A t \in Tasks : tasks[t].at = "idle", closing = <<>>
        PROVE  /\ released = <<>>
               /\ \A o \in Others : IsOpen(bound[o]) <=> Live(o) /\ ~destroyed
               /\ \A h \in 1 .. Len(handles) : IsOpen(h) =>
                    Cardinality({o \in Others : bound[o] = h}) = 1
    <3>1. released = <<>>
      BY <2>2 DEF QueuesInOrder
    <3>2. Range(released) = {} /\ Range(closing) = {}
      BY <2>2, <3>1 DEF Range
    <3>3. ASSUME NEW o \in Others
          PROVE  IsOpen(bound[o]) <=> Live(o) /\ ~destroyed
      <4>1. IsOpen(bound[o]) <=> Bound(o)
        BY DEF EntriesInOrder, Bound, IsOpen
      <4>2. Live(o) /\ ~destroyed => Bound(o)
        BY <2>2 DEF StatesInOrder, Opening
      <4>3. Bound(o) => Live(o) /\ ~destroyed
        BY <3>2 DEF StatesInOrder
      <4> QED
        BY <4>1, <4>2, <4>3
    <3>4. ASSUME NEW h \in 1 .. Len(handles), IsOpen(h)
          PROVE  Cardinality({o \in Others : bound[o] = h}) = 1
      <4>1. PICK o \in Others : bound[o] = h
        BY <3>4 DEF EntriesInOrder, IsOpen
      <4>2. \A p \in Others : bound[p] = h => p = o
        BY <3>4, <4>1 DEF EntriesInOrder, Bound, IsOpen
      <4>3. {p \in Others : bound[p] = h} = {o}
        BY <4>1, <4>2
      <4> QED
        BY <4>3, FS_Singleton
    <3> QED
      BY <3>1, <3>3, <3>4
  <2> QED
    BY <2>1, <2>2 DEF HandlesMatchStates
<1> QED
  BY <1>1, HandlesInvariant, PTL

\* #bindHandle's promise: an OPEN about to be answered has a handle that can do
\* all its stateid grants, however the driver's answers interleave.
THEOREM GrantsAreBacked ==
  ASSUME Orderly
  PROVE  Spec => []GrantIsBacked
<1>1. HandlesInv => GrantIsBacked
  BY DEF HandlesInv, OpensInOrder, OpenInOrder, InOpen, EntriesInOrder, GrantIsBacked
<1> QED
  BY <1>1, HandlesInvariant, PTL

=============================================================================
