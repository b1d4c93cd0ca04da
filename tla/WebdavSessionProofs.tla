------------------------- MODULE WebdavSessionProofs -------------------------
(***************************************************************************)
(* The write locks of a WebDAV share never stand against each other,       *)
(* whatever its requests interleave to, for any files, any number of       *)
(* requests at a time and any cap on the locks.                            *)
(***************************************************************************)
EXTENDS WebdavSession, FiniteSetTheorems, FunctionTheorems, SequenceTheorems,
        WellFoundedInduction, TLAPS

(* The lock table: no lock grants what another forbids, whether or not its *)
(* time is up.                                                             *)
Apart(l, m) ==
  l # m => /\ l.token # m.token
           /\ (l.exclusive \/ m.exclusive) => \A p \in Paths : ~(InScope(l, p) /\ InScope(m, p))

LockFields == {"token", "path", "depth", "exclusive", "expires", "quiet"}
IsLock(l, last) == DOMAIN l = LockFields /\ l.token \in 1 .. last /\ l.path \in Paths

TableInv(locks, last) ==
  /\ last \in Nat
  /\ IsFiniteSet(locks) /\ Cardinality(locks) <= MaxLocks
  /\ \A l \in locks : IsLock(l, last)
  /\ \A l, m \in locks : Apart(l, m)

(* A request: the segments it has left, each with its steps.               *)
IsSegment(s) == Len(s.then) \in Nat
IsProgram(segments) ==
  /\ \E S : segments \in Seq(S)
  /\ \A i \in 1 .. Len(segments) : IsSegment(segments[i])
IsRequest(req) ==
  /\ {"todo", "page", "p"} \subseteq DOMAIN req
  /\ req.p \in Paths
  /\ Len(req.page) \in Nat
  /\ IsProgram(req.todo)

TasksInv ==
  /\ DOMAIN tasks = Tasks
  /\ \A t \in Tasks : IsRequest(tasks[t]) /\ (tasks[t] # Idle => tasks[t].todo # <<>>)

(* LocksAreCompatible is about the locks whose time is not up; a request   *)
(* that began earlier may still see the others, and what a request does    *)
(* next hangs on the segments it has left.                                 *)
LocksInv == TableInv(table, minted) /\ TasksInv

-----------------------------------------------------------------------------
(* The table                                                               *)

LEMMA Nested ==
  ASSUME NEW x \in Paths, NEW p \in Paths, NEW q \in Paths, Inside(x, p), Inside(x, q)
  PROVE  Inside(p, q) \/ Inside(q, p)
<1>1. x \in Seq(ToSet(x)) /\ p \in Seq(ToSet(p)) /\ q \in Seq(ToSet(q))
  BY TreeAssumption
<1>2. Len(x) \in Nat /\ Len(p) \in Nat /\ Len(q) \in Nat
  BY <1>1, LenProperties
<1>3. ASSUME NEW u \in Paths, NEW v \in Paths, u = SubSeq(x, 1, Len(u)), v = SubSeq(x, 1, Len(v)),
             Len(u) \in Nat, Len(v) \in Nat, Len(v) <= Len(x), Len(u) <= Len(v)
      PROVE  Inside(v, u)
  <2>1. v \in Seq(ToSet(v)) /\ u \in Seq(ToSet(u))
    BY TreeAssumption
  <2>2. SubSeq(v, 1, Len(u)) = u
    <3>1. \A i \in 1 .. Len(u) : u[i] = v[i]
      BY <1>1, <1>2, <1>3
    <3>2. \A i \in 1 .. Len(u) : v[i] \in ToSet(v)
      BY <1>3, <2>1, ElementOfSeq
    <3>3. /\ SubSeq(v, 1, Len(u)) \in Seq(ToSet(v)) /\ Len(SubSeq(v, 1, Len(u))) = Len(u)
          /\ \A i \in 1 .. Len(u) : SubSeq(v, 1, Len(u))[i] = v[i]
      BY <1>3, <3>2, SubSeqProperties
    <3>4. u \in Seq(ToSet(v))
      BY <1>3, <2>1, <3>1, <3>2
    <3> QED
      BY <3>1, <3>3, <3>4, SeqEqual
  <2> QED
    BY <1>3, <2>2 DEF Inside
<1> QED
  BY <1>2, <1>3 DEF Inside

(* What is left of a table is still one.                                   *)
LEMMA FewerLocks ==
  ASSUME NEW locks, NEW last, TableInv(locks, last), NEW fewer \in SUBSET locks
  PROVE  TableInv(fewer, last)
<1>1. IsFiniteSet(fewer) /\ Cardinality(fewer) <= Cardinality(locks)
  BY FS_Subset DEF TableInv
<1>2. Cardinality(fewer) \in Nat /\ Cardinality(locks) \in Nat /\ MaxLocks \in Nat
  BY <1>1, FS_CardinalityType, DavAssumption DEF TableInv
<1> QED
  BY <1>1, <1>2 DEF TableInv

(* A change to the deadlines or the history of locks.                      *)
LEMMA LocksChanged ==
  ASSUME NEW locks, NEW last, TableInv(locks, last), NEW change, DOMAIN change = locks,
         \A l \in locks : /\ DOMAIN change[l] = LockFields
                          /\ change[l].token = l.token /\ change[l].path = l.path
                          /\ change[l].depth = l.depth /\ change[l].exclusive = l.exclusive
  PROVE  TableInv({change[l] : l \in locks}, last)
<1> DEFINE new == {change[l] : l \in locks}
           f == [l \in locks |-> change[l]]
<1>1. f \in Surjection(locks, new)
  BY DEF Surjection
<1>2. IsFiniteSet(new) /\ Cardinality(new) <= Cardinality(locks)
  BY <1>1, FS_Surjection DEF TableInv
<1>3. Cardinality(new) \in Nat /\ Cardinality(locks) \in Nat /\ MaxLocks \in Nat
  BY <1>2, FS_CardinalityType, DavAssumption DEF TableInv
<1>4. \A l \in new : IsLock(l, last)
  BY DEF TableInv, IsLock
<1>5. \A l, m \in new : Apart(l, m)
  <2> TAKE l, m \in new
  <2>1. PICK l0 \in locks, m0 \in locks : l = change[l0] /\ m = change[m0]
    OBVIOUS
  <2>2. Apart(l0, m0)
    BY DEF TableInv
  <2>3. \A p \in Paths : (InScope(l, p) <=> InScope(l0, p)) /\ (InScope(m, p) <=> InScope(m0, p))
    BY <2>1 DEF InScope
  <2> HIDE DEF new
  <2> QED
    BY <2>1, <2>2, <2>3 DEF Apart
<1> QED
  BY <1>2, <1>3, <1>4, <1>5 DEF TableInv

(* Two scopes that meet: the root of one is in the other.                  *)
LEMMA ScopesMeet ==
  ASSUME NEW l, NEW m, NEW x \in Paths, l.path \in Paths, m.path \in Paths,
         InScope(l, x), InScope(m, x)
  PROVE  InScope(l, m.path) \/ (m.depth = Infinity /\ Inside(l.path, m.path))
BY Nested DEF InScope

(* create: the lock granted conflicts with none in force.                  *)
LEMMA LockCreated ==
  ASSUME NEW locks, NEW last, TableInv(locks, last), NEW p \in Paths, NEW depth, NEW exclusive,
         NEW now, NEW quiet,
         Conflict(locks, p, depth, exclusive, now) = {}, ~Full(locks, now)
  PROVE  TableInv(Create(locks, last + 1, p, depth, exclusive, now, quiet), last + 1)
<1> DEFINE old == Sweep(locks, now)
           n == Lock(last + 1, p, depth, exclusive, now + Timeout, quiet)
<1>1. Create(locks, last + 1, p, depth, exclusive, now, quiet) = old \cup {n}
  BY DEF Create
<1>2. TableInv(old, last)
  BY FewerLocks DEF Sweep
<1>3. /\ n.token = last + 1 /\ n.path = p /\ n.depth = depth /\ n.exclusive = exclusive
      /\ DOMAIN n = LockFields
  BY DEF Lock, LockFields
<1>4. last \in Nat /\ \A l \in old : l.token \in 1 .. last /\ l.path \in Paths /\ DOMAIN l = LockFields
  BY <1>2 DEF TableInv, IsLock
<1>5. IsFiniteSet(old \cup {n}) /\ Cardinality(old \cup {n}) <= MaxLocks
  <2>1. IsFiniteSet(old) /\ ~(Cardinality(old) >= MaxLocks)
    BY <1>2 DEF TableInv, Full
  <2> HIDE DEF old, n
  <2>2. Cardinality(old) \in Nat /\ MaxLocks \in Nat
    BY <2>1, FS_CardinalityType, DavAssumption
  <2>3. IsFiniteSet(old \cup {n}) /\ Cardinality(old \cup {n}) = IF n \in old THEN Cardinality(old) ELSE Cardinality(old) + 1
    BY <2>1, FS_AddElement
  <2> QED
    BY <2>1, <2>2, <2>3
<1>6. ASSUME NEW l \in old
      PROVE  Apart(l, n) /\ Apart(n, l)
  <2>1. l.token # n.token
    BY <1>3, <1>4
  <2>2. ASSUME l.exclusive \/ exclusive, NEW x \in Paths, InScope(l, x), InScope(n, x)
        PROVE  FALSE
    <3>1. InScope(l, p) \/ (depth = Infinity /\ Inside(l.path, p))
      BY <1>3, <1>4, <2>2, ScopesMeet
    <3>2. l \in Covering(locks, p, now) \/ (depth = Infinity /\ l \in Within(locks, p, now))
      BY <3>1 DEF Covering, Within
    <3>3. l \in Conflict(locks, p, depth, exclusive, now)
      BY <2>2, <3>2 DEF Conflict
    <3> QED
      BY <3>3
  <2>3. n.exclusive = exclusive
    BY <1>3
  <2> HIDE DEF n
  <2> QED
    BY <2>1, <2>2, <2>3 DEF Apart
<1>7. \A l \in old \cup {n} : IsLock(l, last + 1)
  <2> HIDE DEF old, n
  <2> QED
    BY <1>3, <1>4 DEF IsLock
<1>8. \A l, m \in old \cup {n} : Apart(l, m)
  <2>1. \A l, m \in old : Apart(l, m)
    BY <1>2 DEF TableInv
  <2>2. Apart(n, n)
    BY DEF Apart
  <2> HIDE DEF old, n
  <2> QED
    BY <1>6, <2>1, <2>2
<1> QED
  BY <1>1, <1>4, <1>5, <1>7, <1>8 DEF TableInv

(* refresh: a lock in force gets a new deadline.                           *)
LEMMA LockRefreshed ==
  ASSUME NEW locks, NEW last, TableInv(locks, last), NEW token, NEW now
  PROVE  TableInv(Refresh(locks, token, now), last)
<1> DEFINE old == Sweep(locks, now)
           change == [l \in old |-> IF l.token = token THEN [l EXCEPT !.expires = now + Timeout] ELSE l]
<1>1. TableInv(old, last)
  BY FewerLocks DEF Sweep
<1>2. \A l \in old : DOMAIN l = LockFields
  BY <1>1 DEF TableInv, IsLock
<1>3. ASSUME NEW l \in old
      PROVE  /\ DOMAIN change[l] = LockFields
             /\ change[l].token = l.token /\ change[l].path = l.path
             /\ change[l].depth = l.depth /\ change[l].exclusive = l.exclusive
  BY <1>2 DEF LockFields
<1>4. Refresh(locks, token, now) = {change[l] : l \in old}
  BY DEF Refresh
<1>5. DOMAIN change = old
  OBVIOUS
<1> HIDE DEF old, change
<1> QED
  BY <1>1, <1>3, <1>4, <1>5, LocksChanged

LEMMA LocksLeftBehind ==
  ASSUME NEW locks, NEW last, TableInv(locks, last), NEW req
  PROVE  TableInv(LeftBehind(locks, req), last)
<1> DEFINE places == IF Discarding(Head(req.todo)) THEN {req.p, req.q} ELSE {req.q}
           change == [l \in locks |-> IF \E p \in places : Inside(l.path, p)
                                      THEN [l EXCEPT !.quiet = FALSE] ELSE l]
<1>1. \A l \in locks : DOMAIN l = LockFields
  BY DEF TableInv, IsLock
<1>2. LeftBehind(locks, req) = {change[l] : l \in locks}
  BY DEF LeftBehind
<1>3. ASSUME NEW l \in locks
      PROVE  /\ DOMAIN change[l] = LockFields
             /\ change[l].token = l.token /\ change[l].path = l.path
             /\ change[l].depth = l.depth /\ change[l].exclusive = l.exclusive
  <2> HIDE DEF places
  <2> QED
    BY <1>1 DEF LockFields
<1>4. DOMAIN change = locks
  OBVIOUS
<1> HIDE DEF change
<1> QED
  BY <1>2, <1>3, <1>4, LocksChanged

-----------------------------------------------------------------------------
(* What requests are made of                                               *)

LEMMA Lengths ==
  /\ Len(<<>>) \in Nat
  /\ \A a : Len(<<a>>) \in Nat
  /\ \A a, b : Len(<<a, b>>) \in Nat
  /\ \A a, b, c : Len(<<a, b, c>>) \in Nat
  /\ \A a, b, c, d, e : Len(<<a, b, c, d, e>>) \in Nat
OBVIOUS

LEMMA Segments ==
  /\ \A call, p, then : Len(then) \in Nat => IsSegment(Segment(call, p, then))
  /\ \A call, p, q, then : Len(then) \in Nat => IsSegment(Segment2(call, p, q, then))
  /\ \A call, p, then : Len(then) \in Nat => IsSegment(Reported(Segment(call, p, then)))
BY DEF IsSegment, Segment, Segment2, Reported

LEMMA NoProgram == IsProgram(<<>>)
<1>1. <<>> \in Seq({}) /\ Len(<<>>) = 0
  OBVIOUS
<1> QED
  BY <1>1 DEF IsProgram

LEMMA Program1 == ASSUME NEW a, IsSegment(a) PROVE IsProgram(<<a>>)
<1> DEFINE s == <<a>>
<1>1. s \in Seq({a}) /\ Len(s) = 1 /\ s[1] = a
  OBVIOUS
<1> HIDE DEF s
<1>2. IsProgram(s)
  BY <1>1 DEF IsProgram
<1> QED
  BY <1>2 DEF s

LEMMA Concatenated ==
  ASSUME NEW p, NEW q, IsProgram(p), IsProgram(q)
  PROVE  IsProgram(p \o q) /\ (p # <<>> \/ q # <<>> => p \o q # <<>>)
<1>1. PICK S : p \in Seq(S)
  BY DEF IsProgram
<1>2. PICK R : q \in Seq(R)
  BY DEF IsProgram
<1>3. p \in Seq(S \cup R) /\ q \in Seq(S \cup R)
  BY <1>1, <1>2, SeqMonotonic
<1>4. /\ p \o q \in Seq(S \cup R) /\ Len(p \o q) = Len(p) + Len(q)
      /\ \A i \in 1 .. Len(p) + Len(q) : (p \o q)[i] = IF i <= Len(p) THEN p[i] ELSE q[i - Len(p)]
  BY <1>3, ConcatProperties
<1>5. Len(p) \in Nat /\ Len(q) \in Nat
  BY <1>1, <1>2, LenProperties
<1>6. \A i \in 1 .. Len(p \o q) : IsSegment((p \o q)[i])
  <2> TAKE i \in 1 .. Len(p \o q)
  <2>1. CASE i <= Len(p)
    BY <1>4, <1>5, <2>1 DEF IsProgram
  <2>2. CASE ~(i <= Len(p))
    <3>1. i - Len(p) \in 1 .. Len(q)
      BY <1>4, <1>5, <2>2
    <3>2. IsSegment(q[i - Len(p)])
      BY <3>1 DEF IsProgram
    <3> QED
      BY <1>4, <2>2, <3>2
  <2> QED
    BY <2>1, <2>2
<1>7. p # <<>> \/ q # <<>> => p \o q # <<>>
  BY <1>3, ConcatEqualIffEmpty
<1> QED
  BY <1>4, <1>6, <1>7 DEF IsProgram

LEMMA Program2 == ASSUME NEW a, NEW b, IsSegment(a), IsSegment(b) PROVE IsProgram(<<a, b>>)
<1> DEFINE s == <<a, b>>
<1>1. s \in Seq({a, b}) /\ Len(s) = 2 /\ s[1] = a /\ s[2] = b
  OBVIOUS
<1> HIDE DEF s
<1>2. IsProgram(s)
  BY <1>1 DEF IsProgram
<1> QED
  BY <1>2 DEF s

LEMMA Program3 ==
  ASSUME NEW a, NEW b, NEW c, IsSegment(a), IsSegment(b), IsSegment(c)
  PROVE  IsProgram(<<a, b, c>>)
<1> DEFINE s == <<a, b, c>>
<1>1. s \in Seq({a, b, c}) /\ Len(s) = 3 /\ s[1] = a /\ s[2] = b /\ s[3] = c
  OBVIOUS
<1> HIDE DEF s
<1>2. IsProgram(s)
  BY <1>1 DEF IsProgram
<1> QED
  BY <1>2 DEF s

LEMMA Program4 ==
  ASSUME NEW a, NEW b, NEW c, NEW d, IsSegment(a), IsSegment(b), IsSegment(c), IsSegment(d)
  PROVE  IsProgram(<<a, b, c, d>>)
<1> DEFINE s == <<a, b, c, d>>
<1>1. s \in Seq({a, b, c, d}) /\ Len(s) = 4 /\ s[1] = a /\ s[2] = b /\ s[3] = c /\ s[4] = d
  OBVIOUS
<1> HIDE DEF s
<1>2. IsProgram(s)
  BY <1>1 DEF IsProgram
<1> QED
  BY <1>2 DEF s

LEMMA Program5 ==
  ASSUME NEW a, NEW b, NEW c, NEW d, NEW e,
         IsSegment(a), IsSegment(b), IsSegment(c), IsSegment(d), IsSegment(e)
  PROVE  IsProgram(<<a, b, c, d, e>>)
<1> DEFINE s == <<a, b, c, d, e>>
<1>1. /\ s \in Seq({a, b, c, d, e}) /\ Len(s) = 5
      /\ s[1] = a /\ s[2] = b /\ s[3] = c /\ s[4] = d /\ s[5] = e
  OBVIOUS
<1> HIDE DEF s
<1>2. IsProgram(s)
  BY <1>1 DEF IsProgram
<1> QED
  BY <1>2 DEF s

(* A program with a segment for each of n things.                          *)
LEMMA ProgramOfEach ==
  ASSUME NEW n \in Nat, NEW f, f = [i \in 1 .. n |-> f[i]], \A i \in 1 .. n : IsSegment(f[i])
  PROVE  IsProgram(f)
<1> DEFINE S == {f[i] : i \in 1 .. n}
<1>1. \A i \in 1 .. n : f[i] \in S
  OBVIOUS
<1>2. f \in [1 .. n -> S]
  BY <1>1
<1> HIDE DEF S
<1>3. f \in Seq(S) /\ Len(f) = n
  BY <1>2
<1> QED
  BY <1>3 DEF IsProgram

(* Every request begins with one.                                          *)
LEMMA ProgramsBegin ==
  ASSUME NEW p, NEW q, NEW token, NEW depth, NEW conditional
  PROVE  /\ \A x \in {Options, Get(p), Propfind(p, depth), Proppatch(p), Put(p), Mkcol(p), Delete(p),
                      CopyOrMove(p, q), LockNew(p, conditional), RefreshLock(p, token)} :
              IsProgram(x) /\ x # <<>>
<1>0. /\ \A x : IsSegment(Stat(x)) /\ IsSegment(RequireCollection(x)) /\ IsSegment(Ask(x))
      /\ \A then : Len(then) \in Nat => IsSegment(Now(then))
  <2>1. ASSUME NEW x PROVE IsSegment(Segment("stat", x, << <<"mapped">> >>))
    BY Segments, Lengths
  <2>2. ASSUME NEW x PROVE IsSegment(Segment("stat", x, << <<"collection">> >>))
    BY Segments, Lengths
  <2>3. ASSUME NEW x PROVE IsSegment(Segment("ask", x, <<>>))
    BY Segments, Lengths
  <2>4. \A then : Len(then) \in Nat => IsSegment(Segment("none", Top, then))
    BY Segments
  <2> QED
    BY <2>1, <2>2, <2>3, <2>4 DEF Stat, RequireCollection, Ask, Now
<1>1. IsProgram(Options) /\ Options # <<>>
  BY <1>0, Lengths, Program1 DEF Options
<1>2. IsProgram(Get(p)) /\ Get(p) # <<>>
  BY <1>0, Lengths, Segments, Program3 DEF Get
<1>3. IsProgram(Propfind(p, depth)) /\ Propfind(p, depth) # <<>>
  <2> DEFINE s == Segment("stat", p, << <<"mapped">>, <<"discovery">>, <<"members of", p, depth>> >>)
  <2>1. IsSegment(s)
    BY Lengths, Segments
  <2> HIDE DEF s
  <2>2. IsProgram(<<Ask(p), s>>) /\ <<Ask(p), s>> # <<>>
    BY <1>0, <2>1, Program2
  <2>3. IsProgram(<< Now(<<>>) >>) /\ << Now(<<>>) >> # <<>>
    BY <1>0, Lengths, Program1
  <2> QED
    BY <2>2, <2>3 DEF Propfind, s
<1>4. IsProgram(Proppatch(p)) /\ Proppatch(p) # <<>>
  BY <1>0, Lengths, Segments, Program4 DEF Proppatch
<1>5. IsProgram(Put(p)) /\ Put(p) # <<>>
  <2> DEFINE s == Segment("stat", p, << <<"notCollection">>, <<"existing">> >>)
             n == Now(<< <<"writable", p, TRUE>> >>)
             first == << s, RequireCollection(Parent(p)), n >>
  <2>1. IsSegment(s) /\ IsSegment(n)
    BY <1>0, Lengths, Segments
  <2>2. IsProgram(first) /\ first # <<>>
    <3> HIDE DEF s, n
    <3> QED
      BY <1>0, <2>1, Program3
  <2>3. IsProgram(Write(p)) /\ IsProgram(<< Ask(p) >>)
    BY <1>0, Lengths, Segments, Program3, Program1 DEF Write
  <2>4. Put(p) = first \o Write(p) \o << Ask(p) >>
    BY DEF Put
  <2> HIDE DEF first
  <2> QED
    BY <2>2, <2>3, <2>4, Concatenated
<1>6. IsProgram(Mkcol(p)) /\ Mkcol(p) # <<>>
  <2> DEFINE s == Segment("stat", p, << <<"unmapped">> >>)
             n == Now(<< <<"writable", p, TRUE>> >>)
             m == Segment("mkdir", p, <<>>)
  <2>1. IsSegment(s) /\ IsSegment(n) /\ IsSegment(m)
    BY <1>0, Lengths, Segments
  <2>2. Mkcol(p) = << Ask(p), s, RequireCollection(Parent(p)), n, m >>
    BY DEF Mkcol
  <2> HIDE DEF s, n, m
  <2> QED
    BY <1>0, <2>1, <2>2, Program5
<1>7. IsProgram(Delete(p)) /\ Delete(p) # <<>>
  BY Lengths, Segments, Program1 DEF Delete
<1>8. IsProgram(CopyOrMove(p, q)) /\ CopyOrMove(p, q) # <<>>
  <2> DEFINE s == Segment("stat", p, << <<"mapped">>, <<"source">>, <<"outside">> >>)
             d == Segment("stat", q, << <<"existing">>, <<"transferable">>, <<"transfer">> >>)
  <2>1. IsSegment(s) /\ IsSegment(d)
    BY Lengths, Segments
  <2>2. CopyOrMove(p, q) = << s, Ask(p), RequireCollection(Parent(q)), d >>
    BY DEF CopyOrMove
  <2> HIDE DEF s, d
  <2> QED
    BY <1>0, <2>1, <2>2, Program4
<1>9. IsProgram(LockNew(p, conditional)) /\ LockNew(p, conditional) # <<>>
  <2> DEFINE s == Segment("stat", p, << <<"if">> >>)
             d == Segment("stat", p, << <<"existing">>, <<"conflict">>, <<"lockable">> >>)
             mid == IF conditional THEN << s >> ELSE <<>>
  <2>1. IsSegment(s) /\ IsSegment(d)
    BY Lengths, Segments
  <2>2. LockNew(p, conditional) = << Ask(p) >> \o mid \o << d >>
    BY DEF LockNew
  <2> HIDE DEF s, d
  <2>3. IsProgram(mid) /\ IsProgram(<< d >>) /\ IsProgram(<< Ask(p) >>) /\ << Ask(p) >> # <<>>
    BY <1>0, <2>1, Program1, NoProgram
  <2> HIDE DEF mid
  <2> QED
    BY <2>2, <2>3, Concatenated
<1>10. IsProgram(RefreshLock(p, token)) /\ RefreshLock(p, token) # <<>>
  <2> DEFINE n == Now(<< <<"find", token>> >>)
             s == Segment("stat", p, << <<"if">>, <<"refresh", token>> >>)
  <2>1. IsSegment(s) /\ IsSegment(n)
    BY <1>0, Lengths, Segments
  <2>2. RefreshLock(p, token) = << Ask(p), n, s >>
    BY DEF RefreshLock
  <2> HIDE DEF s, n
  <2> QED
    BY <1>0, <2>1, <2>2, Program3
<1> QED
  BY <1>1, <1>2, <1>3, <1>4, <1>5, <1>6, <1>7, <1>8, <1>9, <1>10

LEMMA GuardedBegins ==
  ASSUME NEW req, NEW program, IsProgram(program), program # <<>>
  PROVE  IsProgram(Guarded(req, program)) /\ Guarded(req, program) # <<>>
<1> DEFINE s == Segment("stat", req.p, << <<"if">> >>)
<1>1. IsSegment(s)
  BY Lengths, Segments
<1>2. Guarded(req, program) = IF req.conditional THEN << s >> \o program ELSE program
  BY DEF Guarded
<1> HIDE DEF s
<1>3. IsProgram(<< s >>)
  BY <1>1, Program1
<1> QED
  BY <1>2, <1>3, Concatenated

-----------------------------------------------------------------------------
(* The steps of a turn                                                     *)

IsContext(c) ==
  /\ DOMAIN c = {"table", "minted", "req"}
  /\ TableInv(c.table, c.minted)
  /\ IsRequest(c.req) /\ c.req.todo # <<>>

LEMMA HeadAndTail ==
  ASSUME NEW p, IsProgram(p), p # <<>>
  PROVE  IsSegment(Head(p)) /\ IsProgram(<< Head(p) >>) /\ IsProgram(Tail(p))
<1>1. PICK S : p \in Seq(S)
  BY DEF IsProgram
<1>2. Len(p) \in Nat \ {0} /\ Head(p) = p[1]
  BY <1>1, EmptySeq
<1>3. IsSegment(Head(p))
  BY <1>2 DEF IsProgram
<1>4. Tail(p) \in Seq(S) /\ Len(Tail(p)) = Len(p) - 1 /\ \A i \in 1 .. Len(Tail(p)) : Tail(p)[i] = p[i + 1]
  BY <1>1, HeadTailProperties
<1>5. \A i \in 1 .. Len(Tail(p)) : IsSegment(Tail(p)[i])
  <2> TAKE i \in 1 .. Len(Tail(p))
  <2>1. i + 1 \in 1 .. Len(p)
    BY <1>2, <1>4
  <2> QED
    BY <1>4, <2>1 DEF IsProgram
<1> QED
  BY <1>3, <1>4, <1>5, Program1 DEF IsProgram

LEMMA TodoReplaced ==
  ASSUME NEW req, IsRequest(req), NEW program, IsProgram(program)
  PROVE  /\ IsRequest([req EXCEPT !.todo = program])
         /\ [req EXCEPT !.todo = program].todo = program
BY DEF IsRequest

LEMMA ThenKeeps ==
  ASSUME NEW c, IsContext(c), NEW program, IsProgram(program)
  PROVE  IsContext(Then(c, program))
<1> DEFINE todo == << Head(c.req.todo) >> \o program \o Tail(c.req.todo)
           r == [c.req EXCEPT !.todo = todo]
<1>1. IsProgram(c.req.todo) /\ c.req.todo # <<>>
  BY DEF IsContext, IsRequest
<1>2. IsProgram(<< Head(c.req.todo) >>) /\ IsProgram(Tail(c.req.todo)) /\ << Head(c.req.todo) >> # <<>>
  BY <1>1, HeadAndTail
<1>3. IsProgram(<< Head(c.req.todo) >> \o program) /\ << Head(c.req.todo) >> \o program # <<>>
  BY <1>2, Concatenated
<1>4. IsProgram(todo) /\ todo # <<>>
  BY <1>2, <1>3, Concatenated
<1>5. Then(c, program) = [c EXCEPT !.req = r]
  BY DEF Then
<1> HIDE DEF todo
<1>6. IsRequest(r) /\ r.todo = todo
  BY <1>4, TodoReplaced DEF IsContext
<1> HIDE DEF r
<1> QED
  BY <1>4, <1>5, <1>6 DEF IsContext

LEMMA RefuseKeeps ==
  ASSUME NEW c, IsContext(c)
  PROVE  IsContext(Refuse(c))
<1> DEFINE todo == << Head(c.req.todo) >>
           q == [c.req EXCEPT !.refused = TRUE]
           r == [q EXCEPT !.todo = todo]
<1>1. IsProgram(c.req.todo) /\ c.req.todo # <<>>
  BY DEF IsContext, IsRequest
<1>2. IsProgram(todo) /\ todo # <<>>
  BY <1>1, HeadAndTail
<1>3. IsRequest(q) /\ q.todo = c.req.todo
  BY DEF IsContext, IsRequest
<1>4. Refuse(c) = [c EXCEPT !.req = r]
  BY <1>3 DEF Refuse, IsContext
<1> HIDE DEF todo, q
<1>5. IsRequest(r) /\ r.todo = todo
  BY <1>2, <1>3, TodoReplaced
<1> HIDE DEF r
<1> QED
  BY <1>2, <1>4, <1>5 DEF IsContext

LEMMA RequireKeeps ==
  ASSUME NEW c, IsContext(c), NEW holds
  PROVE  IsContext(Require(c, holds))
BY RefuseKeeps DEF Require

LEMMA TableReplaced ==
  ASSUME NEW c, IsContext(c), NEW locks, TableInv(locks, c.minted)
  PROVE  IsContext([c EXCEPT !.table = locks])
BY DEF IsContext

LEMMA SweptKeeps ==
  ASSUME NEW c, IsContext(c), NEW step
  PROVE  IsContext(Swept(c, step))
<1>1. TableInv(Sweep(c.table, c.req.now), c.minted)
  BY FewerLocks DEF Sweep, IsContext
<1> QED
  BY <1>1, TableReplaced DEF Swept

LEMMA GrantKeeps ==
  ASSUME NEW c, IsContext(c)
  PROVE  IsContext(GrantStep(c))
<1> DEFINE req == c.req
           new == Create(c.table, c.minted + 1, req.p, req.depth, req.exclusive, req.now, ~req.crossed)
<1>1. CASE Conflict(c.table, req.p, req.depth, req.exclusive, req.now) # {} \/ Full(c.table, req.now)
  BY <1>1, RefuseKeeps DEF GrantStep
<1>2. CASE Conflict(c.table, req.p, req.depth, req.exclusive, req.now) = {} /\ ~Full(c.table, req.now)
  <2>1. TableInv(new, c.minted + 1)
    BY <1>2, LockCreated DEF IsContext, IsRequest
  <2>2. GrantStep(c) = [c EXCEPT !.minted = c.minted + 1, !.table = new]
    BY <1>2 DEF GrantStep
  <2> HIDE DEF new
  <2> QED
    BY <2>1, <2>2 DEF IsContext
<1> QED
  BY <1>1, <1>2

LEMMA RefreshKeeps ==
  ASSUME NEW c, IsContext(c), NEW token
  PROVE  IsContext(RefreshStep(c, token))
<1>1. TableInv(Refresh(c.table, token, c.req.now), c.minted)
  BY LockRefreshed DEF IsContext
<1> QED
  BY <1>1, TableReplaced, RefuseKeeps DEF RefreshStep

(* Either half of an overwriting transfer.                                 *)
LEMMA TransfersGoOn ==
  /\ \A q, dir : IsProgram(Overwriting(q, dir))
  /\ \A p, q : IsProgram(Move(p, q))
  /\ \A p, q, dir, deep : IsProgram(Copy(p, q, dir, deep))
  /\ \A p, dir : IsProgram(DeleteSource(p, dir))
  /\ \A p, dir : IsSegment(DeleteMember(p, dir))
  /\ \A p, q, dir, deep : IsSegment(CopyTree(p, q, dir, deep))
<1>1. ASSUME NEW p PROVE IsSegment(DeleteTree(p))
  BY Lengths, Segments DEF DeleteTree
<1>2. ASSUME NEW p, NEW dir PROVE IsSegment(DeleteMember(p, dir))
  BY <1>1, Lengths, Segments DEF DeleteMember
<1>3. ASSUME NEW p PROVE IsSegment(Discard(p)) /\ IsSegment(DiscardUnmapped(p))
  BY Lengths, Segments DEF Discard, DiscardUnmapped, Now
<1>4. ASSUME NEW p, NEW q, NEW dir, NEW deep PROVE IsSegment(CopyTree(p, q, dir, deep))
  <2>1. IsSegment(CopyFile(p, q))
    BY Lengths, Segments DEF CopyFile
  <2> DEFINE then == IF deep THEN << <<"copyInto", p, q>> >> ELSE <<>>
  <2>2. Len(then) \in Nat
    BY Lengths
  <2>3. CopyTree(p, q, dir, deep) = IF ~dir THEN CopyFile(p, q) ELSE Reported(Segment("mkdir", q, then))
    BY DEF CopyTree
  <2> HIDE DEF then
  <2> QED
    BY <2>1, <2>2, <2>3, Segments
<1>5. ASSUME NEW q, NEW dir PROVE IsProgram(Overwriting(q, dir))
  <2>1. IsSegment(Now(<< <<"deleted">> >>))
    BY Lengths, Segments DEF Now
  <2> QED
    BY <1>2, <2>1, Program2 DEF Overwriting
<1>6. ASSUME NEW p, NEW q PROVE IsProgram(Move(p, q))
  <2> DEFINE s == Segment2("rename", q, p, << <<"clock">> >>)
  <2>1. IsSegment(s)
    BY Lengths, Segments
  <2>2. Move(p, q) = << s, Discard(p), Discard(q) >>
    BY DEF Move
  <2> HIDE DEF s
  <2> QED
    BY <1>3, <2>1, <2>2, Program3
<1>7. ASSUME NEW p, NEW q, NEW dir, NEW deep PROVE IsProgram(Copy(p, q, dir, deep))
  BY <1>3, <1>4, Program2 DEF Copy
<1>8. ASSUME NEW p, NEW dir PROVE IsProgram(DeleteSource(p, dir))
  <2> DEFINE s == IF dir THEN DeleteTree(p) ELSE Segment("unlink", p, <<>>)
  <2>1. IsSegment(s)
    BY <1>1, Lengths, Segments
  <2>2. DeleteSource(p, dir) = << s, DiscardUnmapped(p) >>
    BY DEF DeleteSource
  <2> HIDE DEF s
  <2> QED
    BY <1>3, <2>1, <2>2, Program2
<1> QED
  BY <1>2, <1>4, <1>5, <1>6, <1>7, <1>8

LEMMA TransferKeeps ==
  ASSUME NEW c, IsContext(c)
  PROVE  IsContext(TransferStep(c))
<1> DEFINE req == c.req
           first == IF req.existing = None THEN <<>> ELSE Overwriting(req.q, IsDir(tree, req.existing))
           second == IF req.kind = "MOVE" THEN Move(req.p, req.q)
                     ELSE Copy(req.p, req.q, IsDir(tree, req.source), req.depth = Infinity)
<1>1. IsProgram(first) /\ IsProgram(second)
  BY NoProgram, TransfersGoOn
<1>2. TransferStep(c) = Then(c, first \o second)
  BY DEF TransferStep
<1> HIDE DEF first, second
<1>3. IsProgram(first \o second)
  BY <1>1, Concatenated
<1> QED
  BY <1>2, <1>3, ThenKeeps

LEMMA DiscardKeeps ==
  ASSUME NEW c, IsContext(c), NEW p
  PROVE  IsContext(DiscardStep(c, p))
<1> DEFINE S == Within(c.table, p, c.req.now)
           within == SetToSeq(S)
           f == [i \in 1 .. Len(within) |-> Segment("stat", within[i].path, << <<"remove", within[i].token>> >>)]
<1>1. IsFiniteSet(S)
  <2>1. S \in SUBSET c.table /\ IsFiniteSet(c.table)
    BY DEF Within, Sweep, IsContext, TableInv
  <2> QED
    BY <2>1, FS_Subset
<1> HIDE DEF S
<1>2. Len(within) \in Nat
  <2>1. Cardinality(S) \in Nat /\ ExistsBijection(1 .. Cardinality(S), S)
    BY <1>1, FS_CardinalityType
  <2>2. \E g \in [1 .. Cardinality(S) -> S] : IsInjective(g)
    BY <2>1 DEF ExistsBijection, Bijection, Injection, IsInjective
  <2>3. within \in [1 .. Cardinality(S) -> S]
    BY <2>2 DEF SetToSeq
  <2> HIDE DEF within
  <2> QED
    BY <2>1, <2>3
<1> HIDE DEF within
<1>3. \A i \in 1 .. Len(within) : IsSegment(f[i])
  BY Lengths, Segments
<1>4. f = [i \in 1 .. Len(within) |-> f[i]]
  OBVIOUS
<1>5. DiscardStep(c, p) = Then(c, f)
  BY DEF DiscardStep, within, S
<1> HIDE DEF f
<1>6. IsProgram(f)
  BY <1>2, <1>3, <1>4, ProgramOfEach
<1> QED
  BY <1>5, <1>6, ThenKeeps

(* The members of a collection, each with a segment of its own.            *)
LEMMA MembersKeep ==
  ASSUME NEW c, IsContext(c), NEW p, NEW q
  PROVE  /\ IsContext(Then(c, [i \in 1 .. Len(c.req.page) |->
                                 DeleteMember(Append(p, c.req.page[i].name), c.req.page[i].dir)]
                              \o << DeleteSelf(p) >>))
         /\ IsContext(Then(c, [i \in 1 .. Len(c.req.page) |->
                                 CopyMember(Append(p, c.req.page[i].name), Append(q, c.req.page[i].name))]))
<1> DEFINE n == Len(c.req.page)
           f == [i \in 1 .. n |-> DeleteMember(Append(p, c.req.page[i].name), c.req.page[i].dir)]
           g == [i \in 1 .. n |-> CopyMember(Append(p, c.req.page[i].name), Append(q, c.req.page[i].name))]
<1>1. n \in Nat
  BY DEF IsContext, IsRequest
<1> HIDE DEF n
<1>2. IsProgram(f)
  <2>1. f = [i \in 1 .. n |-> f[i]] /\ \A i \in 1 .. n : IsSegment(f[i])
    BY TransfersGoOn
  <2> HIDE DEF f
  <2> QED
    BY <1>1, <2>1, ProgramOfEach
<1>3. IsProgram(g)
  <2>0. ASSUME NEW x, NEW y PROVE IsSegment(CopyMember(x, y))
    BY Lengths, Segments DEF CopyMember
  <2>1. g = [i \in 1 .. n |-> g[i]] /\ \A i \in 1 .. n : IsSegment(g[i])
    BY <2>0
  <2> HIDE DEF g
  <2> QED
    BY <1>1, <2>1, ProgramOfEach
<1>4. IsProgram(<< DeleteSelf(p) >>)
  BY Lengths, Segments, Program1 DEF DeleteSelf
<1> HIDE DEF f, g
<1>5. IsContext(Then(c, f \o << DeleteSelf(p) >>)) /\ IsContext(Then(c, g))
  BY <1>2, <1>3, <1>4, Concatenated, ThenKeeps
<1> QED
  BY <1>5 DEF f, g, n

LEMMA FieldsKeep ==
  ASSUME NEW c, IsContext(c), NEW x
  PROVE  /\ IsContext([c EXCEPT !.req.existing = x])
         /\ IsContext([c EXCEPT !.req.source = x])
         /\ IsContext([c EXCEPT !.req.now = x])
BY DEF IsContext, IsRequest

LEMMA ApplyKeeps ==
  ASSUME NEW c, IsContext(c), NEW step
  PROVE  IsContext(Apply(c, step))
<1> DEFINE req == c.req
<1>1. CASE step[1] = "if"
  BY <1>1, RequireKeeps DEF Apply
<1>2. CASE step[1] = "mapped"
  BY <1>2, RequireKeeps DEF Apply
<1>3. CASE step[1] = "unmapped"
  BY <1>3, RequireKeeps DEF Apply
<1>4. CASE step[1] = "collection"
  BY <1>4, RequireKeeps DEF Apply
<1>5. CASE step[1] = "notCollection"
  BY <1>5, RequireKeeps DEF Apply
<1>6. CASE step[1] = "existing"
  BY <1>6, FieldsKeep DEF Apply
<1>7. CASE step[1] = "source"
  BY <1>7, FieldsKeep DEF Apply
<1>8. CASE step[1] = "outside"
  BY <1>8, RequireKeeps DEF Apply
<1>9. CASE step[1] = "writable"
  BY <1>9, RequireKeeps DEF Apply
<1>10. CASE step[1] = "members"
  BY <1>10, RequireKeeps DEF Apply
<1>11. CASE step[1] = "deleteSource"
  BY <1>11, TransfersGoOn, ThenKeeps DEF Apply
<1>12. CASE step[1] = "delete"
  BY <1>12, MembersKeep DEF Apply
<1>13. CASE step[1] = "deleted"
  <2> DEFINE d == [c EXCEPT !.table = LeftBehind(c.table, req)]
  <2>1. Apply(c, step) = IF req.bad = {} THEN c ELSE Refuse(d)
    BY <1>13 DEF Apply
  <2>2. IsContext(d)
    BY LocksLeftBehind, TableReplaced DEF IsContext
  <2> HIDE DEF d
  <2> QED
    BY <2>1, <2>2, RefuseKeeps
<1>14. CASE step[1] = "transferable"
  BY <1>14, RequireKeeps DEF Apply, TransferableStep
<1>15. CASE step[1] = "transfer"
  BY <1>15, TransferKeeps DEF Apply
<1>16. CASE step[1] = "copyInto"
  <2>1. IsProgram(<< CopyMembers(step[2], step[3]) >>)
    BY Lengths, Segments, Program1 DEF CopyMembers
  <2> QED
    BY <1>16, <2>1, ThenKeeps DEF Apply
<1>17. CASE step[1] = "copyMembers"
  BY <1>17, MembersKeep DEF Apply
<1>18. CASE step[1] = "copyMember"
  <2>1. IsProgram(<< CopyTree(step[2], step[3], IsDir(tree, req.file), TRUE) >>)
    BY TransfersGoOn, Program1
  <2> QED
    BY <1>18, <2>1, ThenKeeps DEF Apply
<1>19. CASE step[1] = "copyBytes"
  <2>1. IsProgram(<< CopyBytes(step[2]) >>)
    BY Lengths, Segments, Program1 DEF CopyBytes
  <2> QED
    BY <1>19, <2>1, ThenKeeps DEF Apply
<1>20. CASE step[1] = "clock"
  BY <1>20, FieldsKeep DEF Apply
<1>21. CASE step[1] = "discard"
  BY <1>21, DiscardKeeps DEF Apply
<1>22. CASE step[1] = "remove"
  <2>1. TableInv(RemoveLock(c.table, step[2]), c.minted)
    BY FewerLocks DEF RemoveLock, IsContext
  <2> QED
    BY <1>22, <2>1, TableReplaced DEF Apply
<1>23. CASE step[1] = "members of"
  <2>1. IsProgram(ListMembers(step[2]))
    BY Lengths, Segments, Program3 DEF ListMembers, Ask, Now
  <2> QED
    BY <1>23, <2>1, ThenKeeps DEF Apply
<1>24. CASE step[1] = "conflict"
  BY <1>24, RequireKeeps DEF Apply
<1>25. CASE step[1] = "lockable"
  <2> DEFINE first == IF req.existing = None THEN LockEmpty(req.p) ELSE <<>>
  <2>1. IsProgram(LockEmpty(req.p))
    <3> DEFINE n == Now(<< <<"writable", req.p, TRUE>> >>)
    <3>1. IsSegment(n) /\ IsSegment(RequireCollection(Parent(req.p))) /\ IsSegment(Ask(req.p))
      BY Lengths, Segments DEF Now, RequireCollection, Ask
    <3>2. IsSegment(Segment("create", req.p, <<>>))
      BY Lengths, Segments
    <3>3. LockEmpty(req.p) = << RequireCollection(Parent(req.p)), n, Segment("create", req.p, <<>>), Ask(req.p) >>
      BY DEF LockEmpty
    <3> HIDE DEF n, req
    <3> QED
      BY <3>1, <3>2, <3>3, Program4
  <2>2. IsProgram(Grant)
    BY Lengths, Segments, Program1 DEF Grant, Now
  <2>3. Apply(c, step) = Then(c, first \o Grant)
    BY <1>25 DEF Apply
  <2>4. IsProgram(first)
    BY <2>1, NoProgram
  <2> HIDE DEF first
  <2> QED
    BY <2>2, <2>3, <2>4, Concatenated, ThenKeeps
<1>26. CASE step[1] = "grant"
  BY <1>26, GrantKeeps DEF Apply
<1>27. CASE step[1] = "find"
  BY <1>27, RequireKeeps DEF Apply
<1>28. CASE step[1] = "refresh"
  BY <1>28, RefreshKeeps DEF Apply
<1>29. CASE step[1] \notin {"if", "mapped", "unmapped", "collection", "notCollection", "existing", "source",
                            "outside", "writable", "members", "deleteSource", "delete", "deleted",
                            "transferable", "transfer", "copyInto", "copyMembers", "copyMember",
                            "copyBytes", "clock", "discard", "remove", "members of", "conflict",
                            "lockable", "grant", "find", "refresh"}
  BY <1>29 DEF Apply
<1> QED
  BY <1>1, <1>2, <1>3, <1>4, <1>5, <1>6, <1>7, <1>8, <1>9, <1>10, <1>11, <1>12, <1>13, <1>14, <1>15,
     <1>16, <1>17, <1>18, <1>19, <1>20, <1>21, <1>22, <1>23, <1>24, <1>25, <1>26, <1>27, <1>28, <1>29

-----------------------------------------------------------------------------
(* The loops: of the steps of a segment, and of the segments left.         *)

LEMMA Turns ==
  ASSUME NEW n \in Nat, NEW T, 0 \in T,
         \A i \in 1 .. n : i - 1 \in T => i \in T
  PROVE  \A i \in 0 .. n : i \in T
<1> DEFINE Bad == {i \in 0 .. n : i \notin T}
<1> SUFFICES ASSUME Bad # {} PROVE FALSE
  OBVIOUS
<1>1. PICK x \in Bad : \A y \in Bad : ~(y < x)
  <2>1. Bad \subseteq Nat
    OBVIOUS
  <2> HIDE DEF Bad
  <2>2. PICK x \in Bad : \A y \in Bad : ~(<<y, x>> \in OpToRel(<, Nat))
    BY <2>1, NatLessThanWellFounded, WFMin
  <2>3. ASSUME NEW y \in Bad, y < x PROVE <<y, x>> \in OpToRel(<, Nat)
    BY <2>1, <2>3 DEF OpToRel
  <2> QED
    BY <2>2, <2>3
<1>2. x \in 1 .. n /\ x - 1 \in 0 .. n /\ x - 1 < x
  BY <1>1
<1>3. x - 1 \notin T
  BY <1>1, <1>2
<1> QED
  BY <1>1, <1>2, <1>3

(* A turn takes its steps one after the other, up to a refusal.            *)
Stepped(c, step) == IF c.req.refused THEN c ELSE Apply(Swept(c, step), step)

TurnOf(f, c, steps, n) ==
  f = [i \in 0 .. n |-> IF i = 0 THEN c ELSE Stepped(f[i - 1], steps[i])]

LEMMA TurnIsALoop ==
  ASSUME NEW c, NEW n \in Nat, NEW steps
  PROVE  \E f : TurnOf(f, c, steps, n)
<1> DEFINE Run(k, f) == f = [i \in 0 .. k |-> IF i = 0 THEN c ELSE Stepped(f[i - 1], steps[i])]
           T == {k \in 0 .. n : \E f : Run(k, f)}
<1>1. 0 \in T
  <2> DEFINE g == [i \in 0 .. 0 |-> c]
  <2>1. g = [i \in 0 .. 0 |-> g[i]] /\ \A i \in 0 .. 0 : i = 0 /\ g[i] = c
    OBVIOUS
  <2> HIDE DEF g
  <2>2. ASSUME NEW i \in 0 .. 0
        PROVE  g[i] = IF i = 0 THEN c ELSE Stepped(g[i - 1], steps[i])
    BY <2>1
  <2>3. Run(0, g)
    BY <2>1, <2>2
  <2> QED
    BY <2>3
<1>2. ASSUME NEW k \in 1 .. n, k - 1 \in T
      PROVE  k \in T
  <2>1. PICK f : Run(k - 1, f)
    BY <1>2
  <2> DEFINE g == [i \in 0 .. k |-> IF i = k THEN Stepped(f[k - 1], steps[k]) ELSE f[i]]
  <2>2. ASSUME NEW i \in 0 .. k
        PROVE  g[i] = IF i = 0 THEN c ELSE Stepped(g[i - 1], steps[i])
    <3>1. CASE i = k
      <4>1. k # 0 /\ k - 1 \in 0 .. k /\ k - 1 # k
        OBVIOUS
      <4>2. g[k] = Stepped(f[k - 1], steps[k]) /\ g[k - 1] = f[k - 1]
        BY <4>1
      <4> QED
        BY <3>1, <4>1, <4>2
    <3>2. CASE i # k
      <4>1. i \in 0 .. k - 1
        BY <3>2
      <4>2. f[i] = IF i = 0 THEN c ELSE Stepped(f[i - 1], steps[i])
        BY <2>1, <4>1
      <4>3. g[i] = f[i]
        BY <3>2
      <4>4. i # 0 => i - 1 \in 0 .. k /\ i - 1 # k
        BY <4>1
      <4>5. i # 0 => g[i - 1] = f[i - 1]
        BY <4>4
      <4> QED
        BY <4>2, <4>3, <4>5
    <3> QED
      BY <3>1, <3>2
  <2>3. g = [i \in 0 .. k |-> g[i]]
    OBVIOUS
  <2> HIDE DEF g
  <2>4. Run(k, g)
    BY <2>2, <2>3
  <2> QED
    BY <2>4
<1>3. \A k \in 0 .. n : k \in T
  <2>1. \A k \in 1 .. n : k - 1 \in T => k \in T
    BY <1>2
  <2> HIDE DEF T
  <2> QED
    BY <1>1, <2>1, Turns
<1>4. n \in T
  BY <1>3
<1> QED
  BY <1>4 DEF TurnOf

LEMMA TurnKeeps ==
  ASSUME NEW c, IsContext(c)
  PROVE  IsContext(Turn(c))
<1> DEFINE steps == Head(c.req.todo).then
           n == Len(steps)
           f == CHOOSE g : TurnOf(g, c, steps, n)
<1>1. n \in Nat
  BY HeadAndTail DEF IsContext, IsRequest, IsSegment
<1>2. Turn(c) = f[n]
  BY DEF Turn, Stepped, TurnOf
<1> HIDE DEF n, steps
<1>3. \E g : TurnOf(g, c, steps, n)
  BY <1>1, TurnIsALoop
<1>4. TurnOf(f, c, steps, n)
  BY <1>3
<1> HIDE DEF f
<1>5. ASSUME NEW i \in 0 .. n
      PROVE  f[i] = IF i = 0 THEN c ELSE Stepped(f[i - 1], steps[i])
  BY <1>4 DEF TurnOf
<1> DEFINE T == {i \in 0 .. n : IsContext(f[i])}
<1>6. 0 \in T
  <2>1. 0 \in 0 .. n
    BY <1>1
  <2> QED
    BY <1>5, <2>1
<1>7. ASSUME NEW i \in 1 .. n, i - 1 \in T
      PROVE  i \in T
  <2>1. IsContext(f[i - 1])
    BY <1>7
  <2>2. f[i] = Stepped(f[i - 1], steps[i])
    <3>1. i \in 0 .. n /\ i # 0
      BY <1>1
    <3> QED
      BY <1>5, <3>1
  <2>3. IsContext(f[i])
    BY <2>1, <2>2, SweptKeeps, ApplyKeeps DEF Stepped
  <2> QED
    BY <1>1, <2>3
<1>8. \A i \in 0 .. n : i \in T
  <2>1. \A i \in 1 .. n : i - 1 \in T => i \in T
    BY <1>7
  <2> HIDE DEF T
  <2> QED
    BY <1>1, <1>6, <2>1, Turns
<1>9. n \in T
  BY <1>1, <1>8
<1> QED
  BY <1>2, <1>9

(* What is left of a request: its segments but the first, less some.       *)
More(rest, s, bad) == IF Leaves(s, bad) THEN rest ELSE Append(rest, s)
RestOf(f, next, bad, n) ==
  f = [i \in 0 .. n |-> IF i = 0 THEN <<>> ELSE More(f[i - 1], next[i], bad)]

LEMMA RestIsALoop ==
  ASSUME NEW next, NEW bad, NEW n \in Nat
  PROVE  \E f : RestOf(f, next, bad, n)
<1> DEFINE Run(k, f) == f = [i \in 0 .. k |-> IF i = 0 THEN <<>>
                                               ELSE More(f[i - 1], next[i], bad)]
           T == {k \in 0 .. n : \E f : Run(k, f)}
<1>1. 0 \in T
  <2> DEFINE g == [i \in 0 .. 0 |-> <<>>]
  <2>1. g = [i \in 0 .. 0 |-> g[i]] /\ \A i \in 0 .. 0 : i = 0 /\ g[i] = <<>>
    OBVIOUS
  <2> HIDE DEF g
  <2>2. ASSUME NEW i \in 0 .. 0
        PROVE  g[i] = IF i = 0 THEN <<>> ELSE More(g[i - 1], next[i], bad)
    BY <2>1
  <2>3. Run(0, g)
    BY <2>1, <2>2
  <2> QED
    BY <2>3
<1>2. ASSUME NEW k \in 1 .. n, k - 1 \in T
      PROVE  k \in T
  <2>1. PICK f : Run(k - 1, f)
    BY <1>2
  <2> DEFINE g == [i \in 0 .. k |-> IF i = k THEN More(f[k - 1], next[k], bad) ELSE f[i]]
  <2>2. ASSUME NEW i \in 0 .. k
        PROVE  g[i] = IF i = 0 THEN <<>> ELSE More(g[i - 1], next[i], bad)
    <3>1. CASE i = k
      <4>1. k # 0 /\ k - 1 \in 0 .. k /\ k - 1 # k
        OBVIOUS
      <4>2. g[k] = More(f[k - 1], next[k], bad) /\ g[k - 1] = f[k - 1]
        BY <4>1
      <4> QED
        BY <3>1, <4>1, <4>2
    <3>2. CASE i # k
      <4>1. i \in 0 .. k - 1
        BY <3>2
      <4>2. f[i] = IF i = 0 THEN <<>> ELSE More(f[i - 1], next[i], bad)
        BY <2>1, <4>1
      <4>3. g[i] = f[i]
        BY <3>2
      <4>4. i # 0 => i - 1 \in 0 .. k /\ i - 1 # k
        BY <4>1
      <4>5. i # 0 => g[i - 1] = f[i - 1]
        BY <4>4
      <4> QED
        BY <4>2, <4>3, <4>5
    <3> QED
      BY <3>1, <3>2
  <2>3. g = [i \in 0 .. k |-> g[i]]
    OBVIOUS
  <2> HIDE DEF g
  <2>4. Run(k, g)
    BY <2>2, <2>3
  <2> QED
    BY <2>4
<1>3. \A k \in 0 .. n : k \in T
  <2>1. \A k \in 1 .. n : k - 1 \in T => k \in T
    BY <1>2
  <2> HIDE DEF T
  <2> QED
    BY <1>1, <2>1, Turns
<1>4. n \in T
  BY <1>3
<1> QED
  BY <1>4 DEF RestOf

LEMMA RestIsAProgram ==
  ASSUME NEW req, IsProgram(req.todo), req.todo # <<>>
  PROVE  IsProgram(Rest(req))
<1> DEFINE next == Tail(req.todo)
           bad == req.bad
           n == Len(next)
           f == CHOOSE g : RestOf(g, next, bad, n)
<1>1. IsProgram(next)
  BY HeadAndTail
<1>2. PICK S : next \in Seq(S)
  BY <1>1 DEF IsProgram
<1>3. n \in Nat /\ \A i \in 1 .. n : IsSegment(next[i]) /\ next[i] \in S
  BY <1>1, <1>2, LenProperties, ElementOfSeq DEF IsProgram
<1>4. Rest(req) = f[n]
  BY DEF Rest, RestOf, More
<1> HIDE DEF n, bad
<1> HIDE DEF next
<1>5. \E g : RestOf(g, next, bad, n)
  BY <1>3, RestIsALoop
<1>6. RestOf(f, next, bad, n)
  BY <1>5
<1> HIDE DEF f
<1>7. ASSUME NEW i \in 0 .. n
      PROVE  f[i] = IF i = 0 THEN <<>>
                    ELSE IF Leaves(next[i], bad) THEN f[i - 1] ELSE Append(f[i - 1], next[i])
  BY <1>6 DEF RestOf, More
<1> DEFINE T == {i \in 0 .. n : IsProgram(f[i])}
<1>8. 0 \in T
  <2>1. 0 \in 0 .. n
    BY <1>3
  <2> QED
    BY <1>7, <2>1, NoProgram
<1>9. ASSUME NEW i \in 1 .. n, i - 1 \in T
      PROVE  i \in T
  <2>1. IsProgram(f[i - 1])
    BY <1>9
  <2>2. f[i] = IF Leaves(next[i], bad) THEN f[i - 1] ELSE Append(f[i - 1], next[i])
    <3>1. i \in 0 .. n /\ i # 0
      BY <1>3
    <3> QED
      BY <1>7, <3>1
  <2>3. IsProgram(<< next[i] >>)
    BY <1>3, Program1
  <2>4. Append(f[i - 1], next[i]) = f[i - 1] \o << next[i] >>
    <3>1. PICK R : f[i - 1] \in Seq(R)
      BY <2>1 DEF IsProgram
    <3>2. f[i - 1] \in Seq(R \cup {next[i]})
      BY <3>1, SeqMonotonic
    <3> QED
      BY <3>2, AppendIsConcat
  <2>5. IsProgram(f[i])
    BY <2>1, <2>2, <2>3, <2>4, Concatenated
  <2> QED
    BY <1>3, <2>5
<1>10. \A i \in 0 .. n : i \in T
  <2>1. \A i \in 1 .. n : i - 1 \in T => i \in T
    BY <1>9
  <2> HIDE DEF T
  <2> QED
    BY <1>3, <1>8, <2>1, Turns
<1>11. n \in T
  BY <1>3, <1>10
<1> QED
  BY <1>4, <1>11

-----------------------------------------------------------------------------
(* The requests                                                            *)

LEMMA IdleIsARequest == IsRequest(Idle) /\ Idle.todo = <<>>
<1>1. /\ {"todo", "page", "p"} \subseteq DOMAIN Idle
      /\ Idle.p = Top /\ Idle.page = <<>> /\ Idle.todo = <<>>
  BY DEF Idle
<1>2. IsProgram(Idle.todo) /\ Idle.p \in Paths
  BY <1>1, NoProgram, TreeAssumption
<1>3. Len(Idle.page) \in Nat
  BY <1>1, Lengths
<1> QED
  BY <1>1, <1>2, <1>3 DEF IsRequest

LEMMA OneTaskChanges ==
  ASSUME TasksInv, NEW t \in Tasks, NEW req, IsRequest(req), req.todo # <<>> \/ req = Idle,
         tasks' = [tasks EXCEPT ![t] = req]
  PROVE  TasksInv'
BY DEF TasksInv

LEMMA BusyTask ==
  ASSUME TasksInv, NEW t \in Busy
  PROVE  t \in Tasks /\ IsRequest(tasks[t]) /\ tasks[t].todo # <<>>
BY DEF TasksInv, Busy

LEMMA GoesKeeps ==
  ASSUME TasksInv, NEW t \in Tasks, NEW req, IsRequest(req), req.todo # <<>>, Goes(t, req)
  PROVE  TasksInv'
<1> DEFINE rest == Rest(req)
           next == [req EXCEPT !.todo = rest, !.at = "driver", !.file = None]
<1>1. IsProgram(rest)
  BY RestIsAProgram DEF IsRequest
<1>2. CASE rest = <<>>
  <2>1. tasks' = [tasks EXCEPT ![t] = Idle]
    BY <1>2 DEF Goes
  <2> QED
    BY <2>1, IdleIsARequest, OneTaskChanges
<1>3. CASE rest # <<>>
  <2>1. tasks' = [tasks EXCEPT ![t] = next]
    BY <1>3 DEF Goes
  <2> HIDE DEF rest
  <2>2. IsRequest(next) /\ next.todo = rest
    BY <1>1 DEF IsRequest
  <2> HIDE DEF next
  <2> QED
    BY <1>3, <2>1, <2>2, OneTaskChanges
<1> QED
  BY <1>2, <1>3

LEMMA AnsweredKeeps ==
  ASSUME LocksInv, NEW t \in Tasks, NEW req, IsRequest(req), req.todo # <<>>, Answered(t, req)
  PROVE  LocksInv'
<1> DEFINE next == [req EXCEPT !.at = "resumed"]
<1>1. IsRequest(next) /\ next.todo # <<>>
  BY DEF IsRequest
<1>2. tasks' = [tasks EXCEPT ![t] = next] /\ UNCHANGED <<table, minted>>
  BY DEF Answered
<1> HIDE DEF next
<1>3. TasksInv'
  BY <1>1, <1>2, OneTaskChanges DEF LocksInv
<1> QED
  BY <1>2, <1>3 DEF LocksInv

(* A collection has finitely many members, so its page is a sequence.      *)
LEMMA PagesEnd ==
  ASSUME NEW d
  PROVE  Len(SetToSeq({[name |-> n, dir |-> IsDir(tree, FileAt(tree, Append(d, n)))] : n \in Listing(tree, d)})) \in Nat
<1> DEFINE ps == {p \in Entries : Parent(p) = d /\ tree.names[p] # None}
           ns == Listing(tree, d)
           S == {[name |-> n, dir |-> IsDir(tree, FileAt(tree, Append(d, n)))] : n \in ns}
           f == [p \in ps |-> Last(p)]
           g == [n \in ns |-> [name |-> n, dir |-> IsDir(tree, FileAt(tree, Append(d, n)))]]
           page == SetToSeq(S)
<1>1. IsFiniteSet(ps)
  <2>1. ps \in SUBSET Paths
    BY DEF Entries
  <2> QED
    BY <2>1, TreeAssumption, FS_Subset
<1>2. IsFiniteSet(ns)
  <2>1. f \in Surjection(ps, ns)
    BY DEF Surjection, Listing
  <2> HIDE DEF ns, f, ps
  <2> QED
    BY <1>1, <2>1, FS_Surjection
<1>3. IsFiniteSet(S)
  <2> HIDE DEF ns
  <2>1. g \in Surjection(ns, S)
    BY DEF Surjection
  <2> HIDE DEF g, S
  <2> QED
    BY <1>2, <2>1, FS_Surjection
<1> HIDE DEF S
<1>4. Cardinality(S) \in Nat /\ ExistsBijection(1 .. Cardinality(S), S)
  BY <1>3, FS_CardinalityType
<1>5. \E h \in [1 .. Cardinality(S) -> S] : IsInjective(h)
  BY <1>4 DEF ExistsBijection, Bijection, Injection, IsInjective
<1>6. page \in [1 .. Cardinality(S) -> S]
  BY <1>5 DEF SetToSeq
<1> HIDE DEF page
<1>7. Len(page) \in Nat
  BY <1>4, <1>6
<1> QED
  BY <1>7 DEF page, S

LEMMA DriverKeeps ==
  ASSUME LocksInv, NEW t \in Busy, Driver(t)
  PROVE  LocksInv'
<1> DEFINE req == tasks[t]
<1>1. t \in Tasks /\ IsRequest(req) /\ req.todo # <<>>
  BY BusyTask DEF LocksInv
<1>2. CASE Makes(t) \/ Removes(t) \/ Renames(t)
  <2>1. Answered(t, req)
    BY <1>2 DEF Makes, Removes, Renames
  <2> QED
    BY <1>1, <2>1, AnsweredKeeps
<1>3. CASE Reaches(t)
  <2>1. PICK f : Answered(t, IF Segment1(t).call = "stat" THEN [req EXCEPT !.file = f] ELSE req)
    BY <1>3 DEF Reaches
  <2>2. IsRequest([req EXCEPT !.file = f]) /\ [req EXCEPT !.file = f].todo # <<>>
    BY <1>1 DEF IsRequest
  <2> QED
    BY <1>1, <2>1, <2>2, AnsweredKeeps
<1>4. CASE Lists(t)
  <2> DEFINE d == Segment1(t).on
             page == SetToSeq({[name |-> n, dir |-> IsDir(tree, FileAt(tree, Append(d, n)))] : n \in Listing(tree, d)})
  <2>1. Answered(t, [req EXCEPT !.page = page])
    BY <1>4 DEF Lists
  <2>2. Len(page) \in Nat
    BY PagesEnd
  <2> HIDE DEF page
  <2>3. IsRequest([req EXCEPT !.page = page]) /\ [req EXCEPT !.page = page].todo # <<>>
    BY <1>1, <2>2 DEF IsRequest
  <2> QED
    BY <1>1, <2>1, <2>3, AnsweredKeeps
<1> QED
  BY <1>2, <1>3, <1>4 DEF Driver

LEMMA ResumesKeeps ==
  ASSUME LocksInv, NEW t \in Busy, Resumes(t)
  PROVE  LocksInv'
<1> DEFINE c == Turn(Context(t))
<1>1. t \in Tasks /\ IsRequest(tasks[t]) /\ tasks[t].todo # <<>>
  BY BusyTask DEF LocksInv
<1>2. IsContext(Context(t))
  <2>1. /\ DOMAIN Context(t) = {"table", "minted", "req"}
        /\ Context(t).table = table /\ Context(t).minted = minted /\ Context(t).req = tasks[t]
    BY DEF Context
  <2> QED
    BY <1>1, <2>1 DEF IsContext, LocksInv
<1>3. IsContext(c)
  BY <1>2, TurnKeeps
<1>4. table' = c.table /\ minted' = c.minted /\ Goes(t, c.req)
  BY DEF Resumes
<1> HIDE DEF c
<1>5. TasksInv'
  BY <1>1, <1>3, <1>4, GoesKeeps DEF IsContext, LocksInv
<1> QED
  BY <1>3, <1>4, <1>5 DEF IsContext, LocksInv

LEMMA FailsKeeps ==
  ASSUME LocksInv, NEW t \in Busy, Fails(t)
  PROVE  LocksInv'
<1> DEFINE req == tasks[t]
           s == Segment1(t)
           gone == At(s.on) = None /\ s.call \in {"readdir", "unlink", "rmdir"}
           next == IF s.orElse = "refuse" THEN [req EXCEPT !.refused = TRUE, !.todo = << s >>]
                   ELSE IF gone THEN req ELSE [req EXCEPT !.bad = @ \cup {s.on}]
<1>1. t \in Tasks /\ IsRequest(req) /\ req.todo # <<>>
  BY BusyTask DEF LocksInv
<1>2. /\ Goes(t, next) /\ minted' = minted
      /\ table' = IF s.orElse = "refuse" /\ Halfway(req) THEN LeftBehind(table, req) ELSE table
  BY DEF Fails
<1>3. IsProgram(<< s >>) /\ << s >> # <<>>
  BY <1>1, HeadAndTail DEF IsRequest, Segment1
<1> HIDE DEF s, gone
<1>4. IsRequest(next) /\ next.todo # <<>>
  <2>1. CASE s.orElse = "refuse"
    <3> DEFINE todo == << s >>
               x == [req EXCEPT !.refused = TRUE, !.todo = todo]
    <3>1. next = x
      BY <2>1
    <3>2. IsProgram(todo) /\ todo # <<>>
      BY <1>3
    <3> HIDE DEF todo
    <3>3. IsRequest(x) /\ x.todo = todo
      BY <1>1, <3>2 DEF IsRequest
    <3> HIDE DEF x
    <3> QED
      BY <3>1, <3>2, <3>3
  <2>2. CASE s.orElse # "refuse"
    BY <1>1, <2>2 DEF IsRequest
  <2> QED
    BY <2>1, <2>2
<1> HIDE DEF next
<1>5. TasksInv'
  BY <1>1, <1>2, <1>4, GoesKeeps DEF LocksInv
<1>6. TableInv(table', minted)
  BY <1>2, LocksLeftBehind DEF LocksInv
<1> QED
  BY <1>2, <1>5, <1>6 DEF LocksInv

LEMMA BeginKeeps ==
  ASSUME LocksInv, NEW t \in Tasks, NEW req, IsRequest(req), NEW program, IsProgram(program), program # <<>>,
         NEW weight, Begin(t, req, program, weight)
  PROVE  LocksInv'
<1> DEFINE crossing == {u \in Busy : (req.changes \/ tasks[u].changes) /\ Overlap(req, tasks[u])}
           next == [req EXCEPT !.todo = program, !.at = "driver", !.now = clock, !.born = minted,
                               !.crossed = crossing # {}]
<1>1. /\ UNCHANGED <<table, minted>>
      /\ tasks' = [u \in Tasks |-> IF u = t THEN next
                                   ELSE IF u \in crossing THEN [tasks[u] EXCEPT !.crossed = TRUE] ELSE tasks[u]]
  BY DEF Begin
<1>2. crossing \subseteq Busy
  OBVIOUS
<1> HIDE DEF crossing
<1>3. IsRequest(next) /\ next.todo = program
  BY DEF IsRequest
<1> HIDE DEF next
<1>4. ASSUME NEW u \in Tasks
      PROVE  IsRequest(tasks'[u]) /\ (tasks'[u] # Idle => tasks'[u].todo # <<>>)
  <2>1. CASE u = t
    BY <1>1, <1>3, <2>1
  <2>2. CASE u # t /\ u \in crossing
    <3>1. IsRequest(tasks[u]) /\ tasks[u].todo # <<>>
      BY <1>2, <2>2, BusyTask DEF LocksInv
    <3>2. tasks'[u] = [tasks[u] EXCEPT !.crossed = TRUE]
      BY <1>1, <2>2
    <3> QED
      BY <3>1, <3>2 DEF IsRequest
  <2>3. CASE u # t /\ u \notin crossing
    BY <1>1, <2>3 DEF LocksInv, TasksInv
  <2> QED
    BY <2>1, <2>2, <2>3
<1>5. DOMAIN tasks' = Tasks
  BY <1>1
<1> QED
  BY <1>1, <1>4, <1>5 DEF LocksInv, TasksInv

LEMMA RequestsBegin ==
  ASSUME NEW kind, NEW p \in Paths, NEW q, NEW submitted
  PROVE  /\ IsRequest(Req(kind, p, q, submitted))
         /\ IsRequest([Req(kind, p, q, submitted) EXCEPT !.changes = FALSE])
         /\ \A depth, overwrite :
              IsRequest([Req(kind, p, q, submitted) EXCEPT !.depth = depth, !.overwrite = overwrite,
                                                           !.conditional = FALSE])
         /\ \A depth, exclusive :
              IsRequest([Req(kind, p, q, submitted) EXCEPT !.depth = depth, !.exclusive = exclusive])
<1> DEFINE req == Req(kind, p, q, submitted)
<1>1. /\ DOMAIN req = DOMAIN Idle /\ req.p = p /\ req.page = Idle.page /\ req.todo = Idle.todo
      /\ {"todo", "page", "p"} \subseteq DOMAIN req
  BY DEF Req, Idle
<1>2. IsRequest(req)
  BY <1>1, IdleIsARequest DEF IsRequest
<1> HIDE DEF req
<1>3. IsRequest([req EXCEPT !.changes = FALSE])
  BY <1>2 DEF IsRequest
<1>4. \A depth, overwrite : IsRequest([req EXCEPT !.depth = depth, !.overwrite = overwrite, !.conditional = FALSE])
  BY <1>2 DEF IsRequest
<1>5. \A depth, exclusive : IsRequest([req EXCEPT !.depth = depth, !.exclusive = exclusive])
  BY <1>2 DEF IsRequest
<1> QED
  BY <1>2, <1>3, <1>4, <1>5 DEF req

LEMMA ReadsKeep ==
  ASSUME LocksInv, NEW t \in Tasks, NEW p \in Paths, Reads(t, p)
  PROVE  LocksInv'
<1> DEFINE req == [Req("GET", p, p, {}) EXCEPT !.changes = FALSE]
<1>1. PICK program : /\ Begin(t, req, program, MaxRequests)
                     /\ \/ program \in {Options, Get(p)}
                        \/ \E depth : program = Propfind(p, depth)
  BY DEF Reads
<1>2. IsRequest(req)
  BY RequestsBegin
<1>3. IsProgram(program) /\ program # <<>>
  BY <1>1, ProgramsBegin
<1> HIDE DEF req
<1> QED
  BY <1>1, <1>2, <1>3, BeginKeeps

LEMMA MethodsKeep ==
  ASSUME LocksInv, NEW t \in Tasks, NEW p \in Paths, NEW submitted, Methods(t, p, submitted)
  PROVE  LocksInv'
<1>1. PICK kind, program :
         /\ Begin(t, Req(kind, p, p, submitted), Guarded(Req(kind, p, p, submitted), program), 3)
         /\ program \in {Proppatch(p), Put(p), Mkcol(p), Delete(p)}
  BY DEF Methods
<1>2. IsProgram(program) /\ program # <<>>
  BY <1>1, ProgramsBegin
<1>3. IsRequest(Req(kind, p, p, submitted))
  BY RequestsBegin
<1>4. /\ IsProgram(Guarded(Req(kind, p, p, submitted), program))
      /\ Guarded(Req(kind, p, p, submitted), program) # <<>>
  BY <1>2, GuardedBegins
<1> QED
  BY <1>1, <1>3, <1>4, BeginKeeps

LEMMA TransfersKeep ==
  ASSUME LocksInv, NEW t \in Tasks, NEW p \in Paths, NEW q, NEW submitted, Transfers(t, p, q, submitted)
  PROVE  LocksInv'
<1> DEFINE req(kind, depth, overwrite) ==
             [Req(kind, p, q, submitted) EXCEPT !.depth = depth, !.overwrite = overwrite,
                                                !.conditional = FALSE]
<1>1. PICK kind, depth, overwrite :
         Begin(t, req(kind, depth, overwrite), Guarded(req(kind, depth, overwrite), CopyOrMove(p, q)), 3)
  BY DEF Transfers
<1> DEFINE x == req(kind, depth, overwrite)
<1>2. IsRequest(x)
  BY RequestsBegin
<1> HIDE DEF x
<1>3. IsProgram(CopyOrMove(p, q)) /\ CopyOrMove(p, q) # <<>>
  BY ProgramsBegin
<1>4. IsProgram(Guarded(x, CopyOrMove(p, q))) /\ Guarded(x, CopyOrMove(p, q)) # <<>>
  BY <1>3, GuardedBegins
<1>5. Begin(t, x, Guarded(x, CopyOrMove(p, q)), 3)
  BY <1>1 DEF x
<1> QED
  BY <1>2, <1>4, <1>5, BeginKeeps

LEMMA LocksOfKeep ==
  ASSUME LocksInv, NEW t \in Tasks, NEW p \in Paths, NEW submitted, LocksOf(t, p, submitted)
  PROVE  LocksInv'
<1>1. CASE \E depth, exclusive :
             Begin(t, [Req("LOCK", p, p, submitted) EXCEPT !.depth = depth, !.exclusive = exclusive],
                   LockNew(p, submitted # {}), IF submitted = {} THEN 2 ELSE MaxRequests)
  <2>1. PICK depth, exclusive :
             Begin(t, [Req("LOCK", p, p, submitted) EXCEPT !.depth = depth, !.exclusive = exclusive],
                   LockNew(p, submitted # {}), IF submitted = {} THEN 2 ELSE MaxRequests)
    BY <1>1
  <2>2. IsRequest([Req("LOCK", p, p, submitted) EXCEPT !.depth = depth, !.exclusive = exclusive])
    BY RequestsBegin
  <2>3. IsProgram(LockNew(p, submitted # {})) /\ LockNew(p, submitted # {}) # <<>>
    BY ProgramsBegin
  <2> QED
    BY <2>1, <2>2, <2>3, BeginKeeps
<1>2. CASE \E token :
             Begin(t, [Req("LOCK", p, p, submitted) EXCEPT !.changes = FALSE], RefreshLock(p, token), 1)
  <2>1. PICK token :
             Begin(t, [Req("LOCK", p, p, submitted) EXCEPT !.changes = FALSE], RefreshLock(p, token), 1)
    BY <1>2
  <2>2. IsRequest([Req("LOCK", p, p, submitted) EXCEPT !.changes = FALSE])
    BY RequestsBegin
  <2>3. IsProgram(RefreshLock(p, token)) /\ RefreshLock(p, token) # <<>>
    BY ProgramsBegin
  <2> QED
    BY <2>1, <2>2, <2>3, BeginKeeps
<1> QED
  BY <1>1, <1>2 DEF LocksOf

LEMMA UnlockKeeps ==
  ASSUME LocksInv, NEW p, NEW token, Unlock(p, token)
  PROVE  LocksInv'
<1>1. table' \in SUBSET table /\ UNCHANGED <<minted, tasks>>
  BY DEF Unlock, Sweep, RemoveLock
<1>2. TableInv(table', minted)
  BY <1>1, FewerLocks DEF LocksInv
<1> QED
  BY <1>1, <1>2 DEF LocksInv, TasksInv

-----------------------------------------------------------------------------

LEMMA LocksNext == LocksInv /\ [Next]_vars => LocksInv'
<1> SUFFICES ASSUME LocksInv, [Next]_vars PROVE LocksInv'
  OBVIOUS
<1>1. CASE \E t \in Busy : Driver(t) \/ Resumes(t) \/ Fails(t)
  BY <1>1, DriverKeeps, ResumesKeeps, FailsKeeps
<1>2. CASE \E t \in Tasks, p \in Paths :
             \/ Reads(t, p)
             \/ \E submitted : \/ Methods(t, p, submitted) \/ LocksOf(t, p, submitted)
                               \/ \E q : Transfers(t, p, q, submitted)
  BY <1>2, ReadsKeep, MethodsKeep, LocksOfKeep, TransfersKeep
<1>3. CASE \E p \in Paths, token \in Tokens : Unlock(p, token)
  BY <1>3, UnlockKeeps
<1>4. CASE Tick \/ UNCHANGED vars
  <2>1. UNCHANGED <<table, minted, tasks>>
    BY <1>4 DEF Tick, vars
  <2> QED
    BY <2>1 DEF LocksInv, TasksInv
<1> QED
  BY <1>1, <1>2, <1>3, <1>4 DEF Next

LEMMA LocksInit ==
  ASSUME NEW files, NEW names, NEW p \in Paths, NEW depth, NEW exclusive,
         InitWith(files, names, p, depth, exclusive)
  PROVE  LocksInv
<1> DEFINE l == Lock(1, p, depth, exclusive, Timeout, TRUE)
<1>1. table = {l} /\ minted = 1 /\ tasks = [t \in Tasks |-> Idle]
  BY DEF InitWith
<1>2. l.token = 1 /\ l.path = p /\ DOMAIN l = LockFields
  BY DEF Lock, LockFields
<1> HIDE DEF l
<1>3. IsFiniteSet({l}) /\ Cardinality({l}) = 1 /\ MaxLocks \in Nat \ {0}
  BY FS_Singleton, DavAssumption
<1>4. TableInv(table, minted)
  BY <1>1, <1>2, <1>3 DEF TableInv, IsLock, Apart
<1>5. TasksInv
  BY <1>1, IdleIsARequest DEF TasksInv
<1> QED
  BY <1>4, <1>5 DEF LocksInv

LEMMA LocksCompatible == LocksInv => LocksAreCompatible
<1> SUFFICES ASSUME LocksInv PROVE LocksAreCompatible
  OBVIOUS
<1> DEFINE live == Sweep(table, clock)
<1>1. TableInv(live, minted)
  BY FewerLocks DEF Sweep, LocksInv
<1> HIDE DEF live
<1>2. /\ Cardinality(live) <= MaxLocks
      /\ \A l, m \in live : l # m =>
           /\ l.token # m.token
           /\ (l.exclusive \/ m.exclusive) => \A p \in Paths : ~(InScope(l, p) /\ InScope(m, p))
  BY <1>1 DEF TableInv, Apart
<1> QED
  BY <1>2 DEF LocksAreCompatible, live

(* From any files and any lock on them, whatever requests interleave, fail *)
(* halfway or outlive a lock: no two locks in force overlap unless both    *)
(* are shared, no token names two of them, and there are never more than   *)
(* the cap (DavLockTable of locks.ts under the handlers of session.ts).    *)
THEOREM LocksNeverConflict ==
  ASSUME NEW CONSTANT files, NEW CONSTANT names, NEW CONSTANT p \in Paths,
         NEW CONSTANT depth, NEW CONSTANT exclusive
  PROVE  InitWith(files, names, p, depth, exclusive) /\ [][Next]_vars => []LocksAreCompatible
<1>1. InitWith(files, names, p, depth, exclusive) => LocksInv
  BY LocksInit
<1>2. LocksInv /\ [Next]_vars => LocksInv'
  BY LocksNext
<1>3. LocksInv => LocksAreCompatible
  BY LocksCompatible
<1> QED
  BY <1>1, <1>2, <1>3, PTL
=============================================================================
