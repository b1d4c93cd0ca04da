----------------------------- MODULE NinepTables -----------------------------
(***************************************************************************)
(* What a 9P session remembers: the fid table and the qid identities of    *)
(* src/9p/fids.ts, and the lock table of src/9p/locks.ts that the sessions *)
(* of one server share.  Every method is synchronous, so each is an        *)
(* operator from a table to the table it leaves.                           *)
(***************************************************************************)
EXTENDS DriverTree

CONSTANTS
  Fids,         \* fid numbers
  LockOwners,   \* (client_id, proc_id) pairs
  MaxByte,      \* the last byte a range can start at
  MaxPerFile,   \* maxLocksPerFile
  MaxQid,       \* bound: qid identities a session allocates
  MaxFidObjects \* bound: fids a session creates

ASSUME NinepAssumption ==
  MaxByte \in Nat /\ MaxPerFile \in Nat \ {0} /\ MaxQid \in Nat /\ MaxFidObjects \in Nat

-----------------------------------------------------------------------------
(* Fids: a FidEntry is an object, and a request keeps the object its fid   *)
(* named when it began.  `file` is the model's own: the file the fid stands *)
(* for; `adrift` says the server has no way left to follow it.             *)

NoCursor == [listed |-> <<>>, given |-> {}, dir |-> None]
Closed == "closed"
OpenDir == "directory"
OpenFile == "file"

Entry(p, f) ==
  [path |-> p, open |-> Closed, handle |-> None, qid |-> None, cursor |-> NoCursor,
   file |-> f, adrift |-> FALSE]

NewFidTable == [objects |-> <<>>, at |-> [n \in Fids |-> None]]

\* `require`: the object of a fid in use.
Fid(t, n) == t.objects[t.at[n]]
InUse(t, n) == t.at[n] # None
OpenHandles(t) == {Fid(t, n).handle : n \in {n \in Fids : InUse(t, n)}} \ {None}

CreateFid(t, n, p, f) ==
  [t EXCEPT !.objects = Append(@, Entry(p, f)), !.at[n] = Len(t.objects) + 1]

\* The setter of FidEntry.path: a fid that moves has no cursor.
MoveFid(o, p) == IF o.path = p THEN o ELSE [o EXCEPT !.path = p, !.cursor = NoCursor]

\* `clone` and the session's assignment of the path the walk ended at.
CloneFid(t, n, new, p, f) ==
  IF new = n THEN [t EXCEPT !.objects[t.at[n]] = [MoveFid(@, p) EXCEPT !.file = f, !.adrift = FALSE]]
  ELSE CreateFid(t, new, p, f)

ClunkFid(t, n) == [t EXCEPT !.at[n] = None]

\* mutant: a fid at the replaced name pages the old listing
RemapFidsKeepsCursor(t, from, to, f) ==
  IF from = to THEN t ELSE
  [t EXCEPT !.objects = [i \in DOMAIN @ |->
     IF \A n \in Fids : t.at[n] # i THEN @[i]
     ELSE IF Inside(@[i].path, from) THEN MoveFid(@[i], Moved(@[i].path, from, to))
     ELSE IF @[i].path = to THEN [@[i] EXCEPT !.file = f]
     ELSE @[i]]]

\* The fid half of `remap`; f is the file the rename moved to `to`.
RemapFids(t, from, to, f) ==
  IF from = to THEN t ELSE
  [t EXCEPT !.objects = [i \in DOMAIN @ |->
     IF \A n \in Fids : t.at[n] # i THEN @[i]
     ELSE IF Inside(@[i].path, from) THEN MoveFid(@[i], Moved(@[i].path, from, to))
     ELSE IF @[i].path = to THEN [@[i] EXCEPT !.cursor = NoCursor, !.file = f]
     ELSE IF Inside(@[i].path, to) THEN [@[i] EXCEPT !.cursor = NoCursor]
     ELSE @[i]]]

-----------------------------------------------------------------------------
(* Qid identities                                                          *)

Qids == 1 .. MaxQid

NewQidTable ==
  [byPath |-> [p \in Paths |-> None], byKey |-> [k \in Inos |-> None],
   key |-> [q \in Qids |-> NoKey], next |-> 1]

BoundPaths(q, id) == {p \in Paths : q.byPath[p] = id}

\* mutant: the inode number of a removed file still means its identity
DetachQidOnly(q, p) == [q EXCEPT !.byPath[p] = None]

DetachQid(q, p) ==
  LET id == q.byPath[p] IN
  [q EXCEPT !.byPath[p] = None,
            !.byKey = [k \in Inos |-> IF BoundPaths(q, id) = {p} /\ k = q.key[id] /\ @[k] = id
                                      THEN None ELSE @[k]]]

AttachQid(q, id, p) ==
  [q EXCEPT !.byPath[p] = id,
            !.byKey = [k \in Inos |-> IF k = q.key[id] THEN id ELSE @[k]]]

\* The identity `qidPathFor` answers with.
QidOf(q, p, key) ==
  LET known == q.byPath[p] IN
  CASE key # NoKey /\ q.byKey[key] # None -> q.byKey[key]
    [] (key = NoKey \/ q.byKey[key] = None) /\ known # None /\ q.key[known] \in {NoKey, key} -> known
    [] OTHER -> q.next

QidPathFor(q, p, key) ==
  LET id == QidOf(q, p, key)
      minted == IF id = q.next THEN [q EXCEPT !.next = @ + 1, !.key[id] = key] ELSE q
      freed == IF q.byPath[p] \notin {None, id} THEN DetachQid(minted, p) ELSE minted
      adopted == IF freed.key[id] = NoKey THEN [freed EXCEPT !.key[id] = key] ELSE freed
  IN AttachQid(adopted, id, p)

ReleaseQid(q, p) == IF q.byPath[p] = None THEN q ELSE DetachQid(q, p)

\* remapSubtree over the identities.
RemapQids(q, from, to) ==
  LET tracked(r, at) == SetToSeq({p \in Paths : Inside(p, at) /\ r.byPath[p] # None})
      freed == FoldLeft(DetachQid, q, tracked(q, to))
      moving == tracked(freed, from)
      lifted == FoldLeft(LAMBDA r, p : [r EXCEPT !.byPath[p] = None], freed, moving)
  IN IF from = to THEN q
     ELSE FoldLeft(LAMBDA r, p : AttachQid(r, freed.byPath[p], Moved(p, from, to)), lifted, moving)

\* `clear` forgets every identity, and goes on numbering where it was.
ClearQids(q) == [NewQidTable EXCEPT !.key = q.key, !.next = q.next]

-----------------------------------------------------------------------------
(* P9LockTable: the ranges of each path.  Its algebra is the one of        *)
(* src/nfs/v4/state.ts written again, a range taken through a fid of a     *)
(* session where that one is taken under an open.                          *)

Algebra == INSTANCE ByteRanges WITH Owners <- LockOwners, Opens <- {}, MaxFileLen <- MaxByte,
             MaxLocksPerFile <- MaxPerFile, locks <- <<>>, held <- {}

EofEnd == MaxByte + 1
NewLockTable == [p \in Paths |-> <<>>]

\* (start, length) as [start, end); an empty one where the answer is EINVAL.
LockRange(start, length) ==
  LET end == IF length = 0 THEN EofEnd ELSE start + length
  IN IF end > EofEnd THEN [start |-> 0, end |-> 0] ELSE [start |-> start, end |-> end]

LockRanges == {LockRange(s, l) : s \in 0 .. MaxByte, l \in 0 .. MaxByte + 1} \ {[start |-> 0, end |-> 0]}

Blocking(ls, owner, type, range) ==
  {i \in DOMAIN ls : Algebra!Overlaps(ls[i], range) /\ Algebra!Conflicts(ls[i], owner, type)}

LockStatus(ls, owner, type, range) ==
  CASE Blocking(ls, owner, type, range) # {} -> "BLOCKED"
    [] Blocking(ls, owner, type, range) = {} -> IF Len(ls) >= MaxPerFile THEN "ERROR" ELSE "SUCCESS"

\* `by` is the session and fid the range is taken through.
Granted(ls, by, owner, type, range, f) ==
  Algebra!ReplaceRange(ls, [owner |-> owner, open |-> by, type |-> type, start |-> range.start,
                            end |-> range.end, file |-> f])

Unlocked(ls, owner, range) == Algebra!SubtractRange(ls, owner, range)

Drop(table, matches(_)) == [p \in Paths |-> SelectSeq(table[p], LAMBDA l : ~matches(l))]

ReleaseFid(table, s, n) == Drop(table, LAMBDA l : l.open = <<s, n>>)
ReleaseAll(table, s) == Drop(table, LAMBDA l : l.open[1] = s)

ReleaseLocks(table, p) == [table EXCEPT ![p] = <<>>]

\* mutant: the locks stay with the old name
RemapLocksNot(table, from, to) == table

RemapLocks(table, from, to) ==
  IF from = to THEN table
  ELSE [p \in Paths |->
          CASE Inside(p, to) -> IF Moved(p, to, from) \in Paths THEN table[Moved(p, to, from)] ELSE <<>>
            [] ~Inside(p, to) /\ Inside(p, from) -> <<>>
            [] OTHER -> table[p]]
=============================================================================
