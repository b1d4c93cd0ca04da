------------------------------ MODULE NfsHandles ------------------------------
(***************************************************************************)
(* The tables the two NFS sessions keep of files: the file handle table    *)
(* and the directory snapshots of src/nfs/handles.ts, and the exclusive    *)
(* creates of src/nfs/util.ts.                                             *)
(*                                                                         *)
(* Every method is synchronous, so each is an operator from a table to the *)
(* table it leaves.  A JS Map whose insertion order is an LRU order is a   *)
(* sequence, oldest first.  A path is the sequence of its names; an        *)
(* identity `dev:ino` is the number alone, NoKey for a driver that reports *)
(* none.                                                                   *)
(***************************************************************************)
EXTENDS DriverTree

CONSTANTS
  MaxId,        \* bound: handle ids over a run
  Cap,          \* maxHandles; 0 for none
  SnapshotCap,  \* snapshotCache
  ExclusiveCap  \* the limit of ExclusiveCreates

ASSUME HandlesAssumption ==
  /\ MaxId \in Nat \ {0} /\ Cap \in Nat
  /\ SnapshotCap \in Nat \ {0} /\ ExclusiveCap \in Nat \ {0}

Root == 1
Ids == Root .. MaxId

-----------------------------------------------------------------------------
(* FileHandleTable                                                         *)

\* order is #byId without the root, the least recently used entry first.
Table ==
  [key : [Ids -> Inos \cup {NoKey}], paths : [Ids -> Seq(Paths)], pins : [Ids -> Nat],
   order : Seq(Ids), byPath : [Paths -> Ids \cup {None}],
   byKey : [Inos -> Ids \cup {None}], next : 2 .. MaxId + 1]

NewTable ==
  [key |-> [n \in Ids |-> NoKey],
   paths |-> [n \in Ids |-> IF n = Root THEN <<Top>> ELSE <<>>],
   pins |-> [n \in Ids |-> 0],
   order |-> <<>>,
   byPath |-> [p \in Paths |-> IF p = Top THEN Root ELSE None],
   byKey |-> [k \in Inos |-> None],
   next |-> Root + 1]

Live(t) == {Root} \cup ToSet(t.order)

Touch(t, n) ==
  IF Cap > 0 /\ n \in ToSet(t.order) THEN [t EXCEPT !.order = Append(Remove(@, n), n)] ELSE t

\* The names of entry n that byPath agrees with.
Names(t, n) == SelectSeq(t.paths[n], LAMBDA p : t.byPath[p] = n)

\* resolve: decode and pathOf find the entry and a name of it, else ESTALE.
Resolves(t, n) == n \in Live(t) /\ Names(t, n) # <<>>
PathOf(t, n) == Head(Names(t, n))

\* The names pathOf met that were another entry's are gone with it.
Resolve(t, n) ==
  Touch([t EXCEPT !.paths[n] =
           SubSeq(@, CHOOSE i \in DOMAIN @ : @[i] = PathOf(t, n), Len(@))], n)

At(t, p) == IF t.byPath[p] = None THEN t ELSE Touch(t, t.byPath[p])

\* mutant: the dropped entry is still found by its identity
DropEntryKeepsKey(t, n) ==
  [t EXCEPT !.order = Remove(@, n), !.pins[n] = 0, !.paths[n] = <<>>]

\* #dropEntry; what the object holds after it is out of reach is cleared.
DropEntry(t, n) ==
  LET nameless == [t EXCEPT !.byKey =
                     [k \in Inos |-> IF k = t.key[n] /\ @[k] = n THEN None ELSE @[k]]]
  IN IF n = Root THEN nameless
     ELSE [nameless EXCEPT !.order = Remove(@, n), !.pins[n] = 0, !.paths[n] = <<>>]

DetachPath(t, n, p) ==
  LET u == [t EXCEPT !.paths[n] = Remove(@, p),
                     !.byPath = [@ EXCEPT ![p] = IF @ = n THEN None ELSE @]]
  IN IF u.paths[n] = <<>> THEN DropEntry(u, n) ELSE u

AttachPath(t, n, p) ==
  Touch([t EXCEPT !.paths[n] = IF p \in ToSet(@) THEN @ ELSE Append(@, p),
                  !.byPath[p] = n,
                  !.byKey = [k \in Inos |-> IF k = t.key[n] THEN n ELSE t.byKey[k]]], n)

\* #pruneToNlink: the oldest names go until there are no more than links.
PruneToNlink(t, n, links) ==
  LET extra == Len(t.paths[n]) - links
      oldest == SubSeq(t.paths[n], 1, extra)
  IN IF links < 1 \/ extra <= 0 THEN t
     ELSE FoldLeft(LAMBDA u, p : DetachPath(u, n, p), t, oldest)

\* mutant: the LRU takes a pinned entry too
VictimsAll(t, keep) == SelectSeq(t.order, LAMBDA n : n # keep)

\* mutant: a pinned entry at the front of the LRU stops the eviction
VictimsFront(t, keep) ==
  IF t.order # <<>> /\ t.pins[Head(t.order)] > 0 THEN <<>>
  ELSE SelectSeq(t.order, LAMBDA n : n # keep /\ t.pins[n] = 0)

\* #lruVictim, and those that would be after it.
Victims(t, keep) == SelectSeq(t.order, LAMBDA n : n # keep /\ t.pins[n] = 0)

Evict(t, n) == DropEntry(FoldLeft(LAMBDA u, p : DetachPath(u, n, p), t, t.paths[n]), n)

EnforceLimit(t, keep) ==
  LET over == Len(t.order) + 1 - Cap
      victims == Victims(t, keep)
  IN IF Cap = 0 \/ over <= 0 THEN t
     ELSE FoldLeft(Evict, t, SubSeq(victims, 1, IF over < Len(victims) THEN over
                                                ELSE Len(victims)))

SameFile(t, p, key) == t.byPath[p] # None /\ t.key[t.byPath[p]] \in {NoKey, key}

\* The id of the entry `bind` returns.
BoundTo(t, p, key) ==
  CASE key # NoKey /\ t.byKey[key] # None -> t.byKey[key]
    [] (key = NoKey \/ t.byKey[key] = None) /\ SameFile(t, p, key) -> t.byPath[p]
    [] OTHER -> t.next

CanBind(t, p, key) == BoundTo(t, p, key) <= MaxId

Bind(t, p, key, links) ==
  LET n == BoundTo(t, p, key)
      minted == IF n = t.next
                THEN [t EXCEPT !.key[n] = key, !.order = Append(@, n), !.next = @ + 1]
                ELSE t
      freed == IF t.byPath[p] \notin {None, n} THEN DetachPath(minted, t.byPath[p], p) ELSE minted
      adopted == IF freed.key[n] = NoKey THEN [freed EXCEPT !.key[n] = key] ELSE freed
  IN EnforceLimit(PruneToNlink(AttachPath(adopted, n, p), n, links), n)

\* mutant: an open file keeps its removed name
UnbindClosed(t, p) ==
  IF t.byPath[p] = None \/ t.pins[t.byPath[p]] > 0 THEN t ELSE DetachPath(t, t.byPath[p], p)

Unbind(t, p) == IF t.byPath[p] = None THEN t ELSE DetachPath(t, t.byPath[p], p)

Pin(t, n) == IF n \in Live(t) THEN [t EXCEPT !.pins[n] = @ + 1] ELSE t
Unpin(t, n) == IF n \in Live(t) /\ t.pins[n] > 0 THEN [t EXCEPT !.pins[n] = @ - 1] ELSE t

\* remap: remapSubtree over byPath, whose order only decides how recently used
\* the moved entries are among each other.
Remap(t, from, to) ==
  LET tracked(u, q) == SetToSeq({p \in Paths : Inside(p, q) /\ u.byPath[p] # None})
      freed == IF from = to THEN t
               ELSE FoldLeft(LAMBDA u, p : DetachPath(u, u.byPath[p], p), t, tracked(t, to))
      moving == tracked(freed, from)
      lifted == FoldLeft(LAMBDA u, p : [u EXCEPT !.paths[u.byPath[p]] = Remove(@, p),
                                                 !.byPath[p] = None], freed, moving)
  IN FoldLeft(LAMBDA u, p : AttachPath(u, freed.byPath[p], Moved(p, from, to)), lifted, moving)

-----------------------------------------------------------------------------
(* DirectorySnapshots: a sequence, the least recently used one first.      *)
(* `crossed` is the model's own: another session has changed the           *)
(* directory since.                                                        *)

Without(s, n) == SelectSeq(s, LAMBDA e : e.id # n)
SnapshotOf(s, n) == SelectSeq(s, LAMBDA e : e.id = n)

Newest(s, limit) == IF Len(s) > limit THEN SubSeq(s, Len(s) - limit + 1, Len(s)) ELSE s

SnapshotGet(s, n) == Without(s, n) \o SnapshotOf(s, n)

SnapshotSet(s, n, names) ==
  Newest(Append(Without(s, n), [id |-> n, names |-> names, crossed |-> FALSE]), SnapshotCap)

SnapshotDelete(s, n) == Without(s, n)

-----------------------------------------------------------------------------
(* ExclusiveCreates: a sequence, the oldest insertion first; `fresh` until *)
(* the window has passed.                                                  *)

NotAt(s, p) == SelectSeq(s, LAMBDA e : e.path # p)

ExclusiveSet(s, p, verf) ==
  Newest(Append(NotAt(s, p), [path |-> p, verf |-> verf, fresh |-> TRUE]), ExclusiveCap)

\* mutant: any record of the path will do
MatchesPath(s, p, verf) == \E e \in ToSet(s) : e.path = p /\ e.fresh

Matches(s, p, verf) == \E e \in ToSet(s) : e.path = p /\ e.fresh /\ e.verf = verf

\* `match` drops the record it finds too old.
ExclusiveMatch(s, p) == SelectSeq(s, LAMBDA e : e.path # p \/ e.fresh)

ExclusiveForget(s, p) == SelectSeq(s, LAMBDA e : ~Inside(e.path, p))

\* The clock: every record there is outlives its window.
ExclusiveAge(s) == [i \in DOMAIN s |-> [s[i] EXCEPT !.fresh = FALSE]]
=============================================================================
