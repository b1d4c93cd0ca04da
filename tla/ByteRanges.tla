----------------------------- MODULE ByteRanges -----------------------------
(***************************************************************************)
(* The list of granted byte ranges of one file, `FileState.locks` of       *)
(* src/nfs/v4/state.ts, and the functions that keep it: rangeOf,           *)
(* overlaps, conflicts, subtractRange, coalesce and replaceRange.          *)
(*                                                                         *)
(* Nfs4State keeps the same locks byte by byte.  Here `held` is that set,  *)
(* updated as Nfs4State updates it, beside the list the code has; the      *)
(* properties say the two are the same thing.                              *)
(***************************************************************************)
EXTENDS Integers, FiniteSets, SequencesExt

CONSTANTS
  Owners,            \* lock-owners
  Opens,             \* the opens locks are taken under
  MaxFileLen,        \* NFS4_MAXFILELEN, 2^64 - 1
  MaxLocksPerFile

ASSUME BoundsAssumption == MaxFileLen \in Nat \ {0} /\ MaxLocksPerFile \in Nat

VARIABLES
  locks,    \* FileState.locks
  held      \* the bytes locked: what the list stands for

vars == <<locks, held>>

Types == {"R", "W"}
EofEnd == MaxFileLen + 1
Bytes == 0 .. MaxFileLen
ByteRange == [owner : Owners, open : Opens, type : Types, start : Bytes, end : 1 .. EofEnd]

-----------------------------------------------------------------------------
(* Requests                                                                *)

NoRange == [start |-> 0, end |-> 0]

\* (offset, length) as [start, end), or NoRange where the answer is INVAL.
RangeOf(offset, length) ==
  CASE length = 0 -> NoRange
    [] length = MaxFileLen -> [start |-> offset, end |-> EofEnd]
    [] length \notin {0, MaxFileLen} ->
         IF offset + length > MaxFileLen THEN NoRange
         ELSE [start |-> offset, end |-> offset + length]

Asked == {RangeOf(offset, length) : offset, length \in 0 .. MaxFileLen} \ {NoRange}

-----------------------------------------------------------------------------
(* The list                                                                *)

\* mutant: ranges that only touch overlap
OverlapsTouching(l, range) == l.start <= range.end /\ range.start <= l.end

Overlaps(l, range) == l.start < range.end /\ range.start < l.end

\* mutant: a read lock stops a writer, a write lock stops nobody
ConflictsWriterOnly(l, owner, type) == l.owner # owner /\ type = "W"

Conflicts(l, owner, type) == l.owner # owner /\ "W" \in {l.type, type}

\* mutant: what lies behind the cut goes with it
PiecesFront(l, owner, range) ==
  IF l.owner # owner \/ ~Overlaps(l, range) THEN <<l>>
  ELSE IF l.start < range.start THEN <<[l EXCEPT !.end = range.start]>> ELSE <<>>

\* What subtractRange keeps of one range.
Pieces(l, owner, range) ==
  IF l.owner # owner \/ ~Overlaps(l, range) THEN <<l>>
  ELSE (IF l.start < range.start THEN <<[l EXCEPT !.end = range.start]>> ELSE <<>>)
       \o (IF l.end > range.end THEN <<[l EXCEPT !.start = range.end]>> ELSE <<>>)

\* The sequences of `parts`, one after the other.
Joined(parts) ==
  LET upto[i \in 0 .. Len(parts)] == IF i = 0 THEN <<>> ELSE upto[i - 1] \o parts[i]
  IN  upto[Len(parts)]

SubtractRange(ls, owner, range) == Joined([i \in 1 .. Len(ls) |-> Pieces(ls[i], owner, range)])

\* By start; ranges that start together keep their order.
Insert(sorted, l) ==
  InsertAt(sorted, SelectLastInSeq(sorted, LAMBDA m : m.start <= l.start) + 1, l)
Sorted(ls) ==
  LET upto[i \in 0 .. Len(ls)] == IF i = 0 THEN <<>> ELSE Insert(upto[i - 1], ls[i])
  IN  upto[Len(ls)]

\* mutants: whatever stands last in the list; the same, if it is of l's group
LastAny(merged, l) == Len(merged)
LastAdjacent(merged, l) ==
  IF /\ merged # <<>>
     /\ Last(merged).owner = l.owner
     /\ Last(merged).open = l.open
  THEN Len(merged) ELSE 0

\* The place in `merged` of the last range of l's group, 0 if there is none.
LastOf(merged, l) ==
  SelectLastInSeq(merged, LAMBDA m : m.owner = l.owner /\ m.open = l.open)

Joins(merged, l) ==
  LET last == LastOf(merged, l)
  IN  last # 0 /\ merged[last].type = l.type /\ merged[last].end >= l.start

Merge(merged, l) ==
  IF Joins(merged, l)
  THEN [merged EXCEPT ![LastOf(merged, l)].end = IF @ > l.end THEN @ ELSE l.end]
  ELSE Append(merged, l)

Coalesce(ls) ==
  LET sorted == Sorted(ls)
      upto[i \in 0 .. Len(sorted)] == IF i = 0 THEN <<>> ELSE Merge(upto[i - 1], sorted[i])
  IN  upto[Len(sorted)]

ReplaceRange(ls, granted) ==
  Coalesce(Append(SubtractRange(ls, granted.owner, granted), granted))

-----------------------------------------------------------------------------
(* LOCK, LOCKU and the end of a lock state                                 *)

BytesOf(range) == range.start .. range.end - 1

Without(owner, range) == {b \in held : b.owner # owner \/ b.byte \notin BytesOf(range)}

Denied(owner, type, range) ==
  \E i \in 1 .. Len(locks) : Overlaps(locks[i], range) /\ Conflicts(locks[i], owner, type)

\* A LOCK that is neither DENIED nor told to come back later.
Lock(owner, open, type, range) ==
  /\ ~Denied(owner, type, range)
  /\ Len(locks) < MaxLocksPerFile
  /\ locks' = ReplaceRange(locks, [owner |-> owner, open |-> open, type |-> type,
                                   start |-> range.start, end |-> range.end])
  /\ held' = Without(owner, range) \cup
       {[owner |-> owner, open |-> open, type |-> type, byte |-> b] : b \in BytesOf(range)}

Locku(owner, range) ==
  /\ locks' = SubtractRange(locks, owner, range)
  /\ held' = Without(owner, range)

\* #dropLockState of an owner under an open.
DropLockState(owner, open) ==
  /\ locks' = Joined([i \in 1 .. Len(locks) |->
                       IF locks[i].owner # owner \/ locks[i].open # open THEN <<locks[i]>> ELSE <<>>])
  /\ held' = {b \in held : b.owner # owner \/ b.open # open}

-----------------------------------------------------------------------------
Init == locks = <<>> /\ held = {}

Next ==
  \E owner \in Owners :
    \/ \E open \in Opens : DropLockState(owner, open)
    \/ \E range \in Asked : Locku(owner, range)
    \/ \E open \in Opens, type \in Types, range \in Asked : Lock(owner, open, type, range)

Spec == Init /\ [][Next]_vars

-----------------------------------------------------------------------------
(* Properties                                                              *)

\* Touching ranges of one owner, open and type are one range, whoever's ranges
\* sort between them, so the cap counts what the client sees (coalesce).
NoneTouch ==
  \A i, j \in 1 .. Len(locks) :
    /\ locks[i].owner = locks[j].owner
    /\ locks[i].open = locks[j].open
    /\ locks[i].type = locks[j].type
    => locks[i].end # locks[j].start

\* The list stands for exactly the bytes held, with the type and the open of
\* the last LOCK of each, no byte is in two ranges of one owner, and there are
\* no more ranges than it takes: splitting and merging lose nothing and add
\* nothing (subtractRange, coalesce).
ListIsTheBytes ==
  /\ held = UNION {{[owner |-> l.owner, open |-> l.open, type |-> l.type, byte |-> b] :
                      b \in BytesOf(l)} : l \in ToSet(locks)}
  /\ \A i, j \in 1 .. Len(locks) :
       i # j /\ locks[i].owner = locks[j].owner => ~Overlaps(locks[i], locks[j])
  /\ NoneTouch

\* A request is denied when one of its bytes is another owner's and one of the
\* two is a write lock, and never otherwise (overlaps, conflicts, rangeOf).
DeniedByBytes ==
  \A owner \in Owners, type \in Types, range \in Asked :
    Denied(owner, type, range) <=>
      \E b \in held : /\ b.owner # owner
                      /\ b.byte \in BytesOf(range)
                      /\ "W" \in {b.type, type}
=============================================================================
