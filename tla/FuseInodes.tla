----------------------------- MODULE FuseInodes -----------------------------
(***************************************************************************)
(* The inode table of src/fuse/inodes.ts, with the subtree walk of         *)
(* src/subtree.ts it hands a rename to.                                    *)
(*                                                                         *)
(* Every method is synchronous, so each is an operator from a table to the *)
(* table it leaves: a record of the Inode objects, the three maps and the  *)
(* next nodeid.  An object outlives its entry in byNodeid, as an open file *)
(* may still hold it.  A path is the sequence of its names; an identity    *)
(* `dev:ino` is the number alone, NoKey for a driver that reports none.    *)
(***************************************************************************)
EXTENDS Integers, Sequences, SequencesExt, FiniteSets

CONSTANTS
  Paths,       \* bound: the paths there are, each with the ones above it
  Inos,        \* the driver's inode numbers
  MaxNodeid    \* bound: nodeids over a run

Top == <<>>
Parent(p) == SubSeq(p, 1, Len(p) - 1)

ASSUME InodesAssumption ==
  /\ Top \in Paths
  /\ \A p \in Paths : p \in Seq(ToSet(p))
  /\ \A p \in Paths \ {Top} : Parent(p) \in Paths
  /\ MaxNodeid \in Nat \ {0}

Root == 1
Nodeids == Root .. MaxNodeid
None == 0
NoKey == 0

ASSUME NoKeyAssumption == NoKey \notin Inos

\* isPathInside of src/path.ts.
Inside(p, q) == Len(q) <= Len(p) /\ SubSeq(p, 1, Len(q)) = q

Children(p) == {q \in Paths \ {Top} : Parent(q) = p}

Inode == [key : Inos \cup {NoKey}, nlookup : Nat, paths : Seq(Paths)]
Unborn == [key |-> NoKey, nlookup |-> 0, paths |-> <<>>]

Table ==
  [inodes : [Nodeids -> Inode], live : SUBSET Nodeids,
   byPath : [Paths -> Nodeids \cup {None}], byKey : [Inos -> Nodeids \cup {None}],
   next : 2 .. MaxNodeid + 1]

NewTable ==
  [inodes |-> [n \in Nodeids |->
                 IF n = Root THEN [Unborn EXCEPT !.nlookup = 1, !.paths = <<Top>>]
                             ELSE Unborn],
   live |-> {Root},
   byPath |-> [p \in Paths |-> IF p = Top THEN Root ELSE None],
   byKey |-> [k \in Inos |-> None],
   next |-> Root + 1]

\* A set of paths is kept in the order they were added: s less what is in gone.
Without(s, gone) ==
  LET kept[i \in 0 .. Len(s)] ==
        IF i = 0 THEN <<>>
        ELSE IF s[i] \in gone THEN kept[i - 1] ELSE Append(kept[i - 1], s[i])
  IN kept[Len(s)]

Tracked(t, n) == ToSet(t.inodes[n].paths)

\* requirePath: the nodeid is known and its inode is not orphaned.
HasPath(t, n) == n \in t.live /\ t.inodes[n].paths # <<>>
PathOf(t, n) == Head(t.inodes[n].paths)

-----------------------------------------------------------------------------
\* mutant: an inode gives up an identity another one has taken over
ReleaseAlways(t, n) == [t EXCEPT !.byKey = [k \in Inos |-> IF k = t.inodes[n].key THEN None ELSE @[k]]]

\* mutant: an orphan goes on being found by its identity
KeepsKey(t, n) == t

ReleaseKey(t, n) ==
  [t EXCEPT !.byKey =
     [k \in Inos |-> IF k = t.inodes[n].key /\ t.byKey[k] = n THEN None ELSE t.byKey[k]]]

AttachPath(t, n, p) ==
  [t EXCEPT !.inodes[n].paths = IF p \in ToSet(@) THEN @ ELSE Append(@, p),
            !.byPath[p] = n,
            !.byKey = [k \in Inos |-> IF k = t.inodes[n].key THEN n ELSE t.byKey[k]]]

DetachPath(t, n, p) ==
  LET u == [t EXCEPT !.inodes[n].paths = Without(@, {p}), !.byPath[p] = None]
  IN IF u.inodes[n].paths = <<>> THEN ReleaseKey(u, n) ELSE u

-----------------------------------------------------------------------------
(* bind, acquire, forget, unbind, clear                                    *)

SameFile(t, p, key) ==
  /\ t.byPath[p] # None
  /\ t.inodes[t.byPath[p]].key \in {NoKey, key}

\* The nodeid `bind` returns.
BoundTo(t, p, key) ==
  CASE key # NoKey /\ t.byKey[key] # None -> t.byKey[key]
    [] (key = NoKey \/ t.byKey[key] = None) /\ SameFile(t, p, key) -> t.byPath[p]
    [] OTHER -> t.next

CanBind(t, p, key) == BoundTo(t, p, key) <= MaxNodeid

Bind(t, p, key) ==
  LET n == BoundTo(t, p, key)
      minted == IF n = t.next
                THEN [t EXCEPT !.inodes[n].key = key, !.live = @ \cup {n}, !.next = @ + 1]
                ELSE t
      freed == IF t.byPath[p] \notin {None, n}
               THEN DetachPath(minted, t.byPath[p], p)
               ELSE minted
      adopted == IF freed.inodes[n].key = NoKey
                 THEN [freed EXCEPT !.inodes[n].key = key]
                 ELSE freed
  IN AttachPath(adopted, n, p)

\* mutant: the reply is not counted
HandedOutFree(t, n) == t

Acquire(t, n) == [t EXCEPT !.inodes[n].nlookup = @ + 1]

\* mutant: an inode is dropped below zero only
DropsLater(t, n, count) == t.inodes[n].nlookup < count

\* FORGET is the last one of this inode.
DropsInode(t, n, count) == t.inodes[n].nlookup <= count

Forget(t, n, count) ==
  LET dropped ==
        [t EXCEPT !.inodes[n] = [@ EXCEPT !.nlookup = t.inodes[n].nlookup - count,
                                          !.paths = <<>>],
                  !.byPath = [p \in Paths |-> IF p \in Tracked(t, n) THEN None ELSE @[p]],
                  !.live = @ \ {n}]
  IN CASE n \notin t.live \ {Root} -> t
       [] n \in t.live \ {Root} /\ DropsInode(t, n, count) -> ReleaseKey(dropped, n)
       [] OTHER -> [t EXCEPT !.inodes[n].nlookup = @ - count]

Unbind(t, p) == IF t.byPath[p] = None THEN t ELSE DetachPath(t, t.byPath[p], p)

Clear(t) ==
  [t EXCEPT !.live = {Root},
            !.inodes[Root].paths = <<Top>>,
            !.byPath = NewTable.byPath,
            !.byKey = NewTable.byKey]

-----------------------------------------------------------------------------
(* remap                                                                   *)

\* What a path at or under `from` is called after the rename.
Moved(p, from, to) == IF Inside(p, from) THEN to \o SubSeq(p, Len(from) + 1, Len(p)) ELSE p

\* The first pass: every tracked path the rename's destination replaces.
Replaced(t, to) ==
  LET gone == {p \in Paths : Inside(p, to) /\ t.byPath[p] # None}
      losers == {t.byPath[p] : p \in gone}
      orphans == {n \in losers : Tracked(t, n) \subseteq gone}
  IN [t EXCEPT !.inodes = [n \in Nodeids |->
                             IF n \in losers
                             THEN [t.inodes[n] EXCEPT !.paths = Without(t.inodes[n].paths, gone)]
                             ELSE t.inodes[n]],
               !.byPath = [p \in Paths |-> IF p \in gone THEN None ELSE @[p]],
               !.byKey = [k \in Inos |->
                            IF @[k] \in orphans /\ t.inodes[@[k]].key = k THEN None ELSE @[k]]]

\* mutant: only the renamed path itself moves
MovedAlone(t, from, to) ==
  IF t.byPath[from] = None THEN t
  ELSE AttachPath(DetachPath(t, t.byPath[from], from), t.byPath[from], to)

\* The last two passes: a moved path goes to the end of its inode's paths, so
\* another link of the file becomes the primary one.
Rewritten(t, from, to) ==
  LET moving == {p \in Paths : Inside(p, from) /\ t.byPath[p] # None}
      arriving == {Moved(p, from, to) : p \in moving}
      origin(q) == CHOOSE p \in moving : Moved(p, from, to) = q
      movers == {t.byPath[p] : p \in moving}
      relinked(ps) ==
        LET leaving == Without(ps, Paths \ moving)
        IN Without(ps, moving) \o [i \in DOMAIN leaving |-> Moved(leaving[i], from, to)]
  IN [t EXCEPT !.inodes = [n \in Nodeids |->
                             IF n \in movers
                             THEN [t.inodes[n] EXCEPT !.paths = relinked(t.inodes[n].paths)]
                             ELSE t.inodes[n]],
               !.byPath = [p \in Paths |-> CASE p \in arriving -> t.byPath[origin(p)]
                                             [] p \in moving \ arriving -> None
                                             [] OTHER -> @[p]],
               !.byKey = [k \in Inos |->
                            IF \E n \in movers : t.inodes[n].key = k
                            THEN CHOOSE n \in movers : t.inodes[n].key = k
                            ELSE @[k]]]

Remap(t, from, to) == Rewritten(IF from = to THEN t ELSE Replaced(t, to), from, to)

-----------------------------------------------------------------------------
(* What the maps and the Inode objects agree on                            *)

\* A path is found at the inode that lists it and nowhere else.
PathsAgree(t) ==
  /\ \A p \in Paths, n \in t.live : t.byPath[p] = n <=> p \in Tracked(t, n)
  /\ \A p \in Paths : t.byPath[p] \in t.live \cup {None}

\* An identity is found at the one inode with a path that has it.
KeysAgree(t) ==
  /\ \A k \in Inos, n \in t.live :
       t.byKey[k] = n <=> (t.inodes[n].key = k /\ Tracked(t, n) # {})
  /\ \A k \in Inos : t.byKey[k] \in t.live \cup {None}
=============================================================================
