------------------------------ MODULE DriverTree ------------------------------
(***************************************************************************)
(* The driver behind the servers, as src/types.ts declares it and as they  *)
(* use it: a tree of files, each reached by its names, with inode numbers  *)
(* that come back.  A tree is a record, and each call that succeeds is an  *)
(* operator from a tree to the tree it leaves.                             *)
(***************************************************************************)
EXTENDS Integers, Sequences, SequencesExt, FiniteSets

CONSTANTS
  Paths,    \* bound: the paths there are, each with the ones above it
  Inos,     \* the driver's inode numbers
  MaxFiles  \* bound: files created over a run

None == 0
NoKey == 0
Top == <<>>
Parent(p) == SubSeq(p, 1, Len(p) - 1)
Entries == Paths \ {Top}

ASSUME TreeAssumption ==
  /\ Top \in Paths /\ IsFiniteSet(Paths)
  /\ \A p \in Paths : p \in Seq(ToSet(p))
  /\ \A p \in Entries : Parent(p) \in Paths
  /\ NoKey \notin Inos
  /\ MaxFiles \in Nat

\* isPathInside of src/path.ts.
Inside(p, q) == Len(q) <= Len(p) /\ SubSeq(p, 1, Len(q)) = q

\* What a path at or under `from` is called after a rename.
Moved(p, from, to) == IF Inside(p, from) THEN to \o SubSeq(p, Len(from) + 1, Len(p)) ELSE p

Files == 1 .. MaxFiles
RootFile == MaxFiles + 1

\* names: the file at each path.  files: each file so far, its inode number,
\* whether it is a directory, and the mark of the request that made it.  cut:
\* history, the files that lost a name and kept another.
NewTree == [names |-> [p \in Entries |-> None], files |-> <<>>, cut |-> {}]

FileAt(tree, p) == IF p = Top THEN RootFile ELSE tree.names[p]
IsDir(tree, f) == f = RootFile \/ (f \in DOMAIN tree.files /\ tree.files[f].dir)
KeyOf(tree, f) == IF f = RootFile THEN NoKey ELSE tree.files[f].ino
NamesOf(tree, f) == {p \in Entries : tree.names[p] = f}
Links(tree, f) == Cardinality(NamesOf(tree, f))
Listing(tree, d) == {Last(p) : p \in {p \in Entries : Parent(p) = d /\ tree.names[p] # None}}
EmptyAt(tree, p) == \A q \in Entries : Parent(q) = p => tree.names[q] = None

\* Inode numbers no file uses that has a name or is in `kept`.
FreeInos(tree, kept) ==
  Inos \ {tree.files[f].ino : f \in {f \in DOMAIN tree.files : NamesOf(tree, f) # {} \/ f \in kept}}

CanMake(tree, p) ==
  /\ FileAt(tree, p) = None /\ IsDir(tree, FileAt(tree, Parent(p)))
  /\ Len(tree.files) < MaxFiles
Make(tree, p, ino, dir, mark) ==
  [tree EXCEPT !.files = Append(@, [ino |-> ino, dir |-> dir, mark |-> mark]),
               !.names[p] = Len(tree.files) + 1]

\* The files of the names ps that keep another name.
Cuts(tree, ps) == {f \in Files : ps \cap NamesOf(tree, f) # {} /\ NamesOf(tree, f) \ ps # {}}

CanRemove(tree, p) == p # Top /\ FileAt(tree, p) # None /\ EmptyAt(tree, p)
Removed(tree, p) == [tree EXCEPT !.names[p] = None, !.cut = @ \cup Cuts(tree, {p})]

CanRename(tree, from, to) ==
  /\ from # Top /\ to # Top
  /\ FileAt(tree, from) # None /\ IsDir(tree, FileAt(tree, Parent(to)))
  /\ from = to \/ ~(Inside(from, to) \/ Inside(to, from))
  /\ FileAt(tree, to) # None =>
       (IsDir(tree, FileAt(tree, from)) = IsDir(tree, FileAt(tree, to)) /\ EmptyAt(tree, to))
  /\ \A p \in Entries : (Inside(p, from) /\ tree.names[p] # None) => Moved(p, from, to) \in Paths

\* rename(2): two links of one file are left as they are.
Renamed(tree, from, to) ==
  IF FileAt(tree, from) = FileAt(tree, to) THEN [tree EXCEPT !.cut = @ \cup {FileAt(tree, to)}]
  ELSE [tree EXCEPT
          !.names = [p \in Entries |->
             CASE Inside(p, to) -> IF Moved(p, to, from) \in Entries
                                   THEN tree.names[Moved(p, to, from)] ELSE None
               [] ~Inside(p, to) /\ Inside(p, from) -> None
               [] OTHER -> tree.names[p]],
          !.cut = @ \cup Cuts(tree, {to})]

CanLink(tree, p, q) ==
  /\ FileAt(tree, q) # None /\ ~IsDir(tree, FileAt(tree, q))
  /\ FileAt(tree, p) = None /\ IsDir(tree, FileAt(tree, Parent(p)))
Linked(tree, p, q) == [tree EXCEPT !.names[p] = FileAt(tree, q)]
=============================================================================
