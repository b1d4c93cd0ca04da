------------------------- MODULE FuseSessionProofs --------------------------
(***************************************************************************)
(* Proofs about FuseInodes and FuseSession: the three maps and the Inode   *)
(* objects go on telling one story through every method of the table, what *)
(* becomes of the driver's handles and of the kernel's lookups, and, under *)
(* Orderly, that a nodeid leads to the file it was handed out for.         *)
(***************************************************************************)
EXTENDS FuseSession, FiniteSetTheorems, SequenceTheorems, WellFoundedInduction, TLAPS

-----------------------------------------------------------------------------
(* Sequences                                                               *)

\* Every non-empty set of naturals has a least element.
LEMMA LeastNat ==
  ASSUME NEW T \in SUBSET Nat, T # {}
  PROVE  \E x \in T : \A y \in T : x <= y
<1> DEFINE R == {ss \in Nat \X Nat : ss[1] < ss[2]}
<1>1. IsWellFoundedOn(R, Nat)
  BY NatLessThanWellFounded DEF OpToRel
<1>2. PICK x \in T : \A y \in T : ~ (<<y, x>> \in R)
  <2> HIDE DEF R
  <2> QED
    BY <1>1, WFMin
<1>3. ASSUME NEW y \in T, y < x
      PROVE  FALSE
  <2>1. <<y, x>> \in Nat \X Nat /\ <<y, x>>[1] = y /\ <<y, x>>[2] = x
    BY <1>3
  <2>2. <<y, x>> \in R
    BY <1>3, <2>1
  <2> HIDE DEF R
  <2> QED
    BY <1>2, <1>3, <2>2
<1> QED
  BY <1>2, <1>3

LEMMA RangeOfAppend ==
  ASSUME NEW S, NEW s \in Seq(S), NEW e \in S
  PROVE  Append(s, e) \in Seq(S) /\ ToSet(Append(s, e)) = ToSet(s) \cup {e}
<1> DEFINE a == Append(s, e)
<1>1. /\ a \in Seq(S) /\ Len(a) = Len(s) + 1 /\ Len(s) \in Nat
      /\ \A i \in 1 .. Len(s) : a[i] = s[i]
      /\ a[Len(s) + 1] = e
      /\ DOMAIN a = 1 .. Len(s) + 1 /\ DOMAIN s = 1 .. Len(s)
  OBVIOUS
<1> HIDE DEF a
<1>2. \A x \in ToSet(a) : x \in ToSet(s) \cup {e}
  BY <1>1 DEF ToSet
<1>3. \A x \in ToSet(s) : x \in ToSet(a)
  <2>1. \A i \in 1 .. Len(s) : i \in 1 .. Len(s) + 1
    BY <1>1
  <2> QED
    BY <1>1, <2>1 DEF ToSet
<1>4. e \in ToSet(a)
  <2>1. Len(s) + 1 \in 1 .. Len(s) + 1
    BY <1>1
  <2> QED
    BY <1>1, <2>1 DEF ToSet
<1> QED
  BY <1>1, <1>2, <1>3, <1>4 DEF a

\* What is left of a sequence is its elements but those taken out.
LEMMA WithoutIs ==
  ASSUME NEW S, NEW s \in Seq(S), NEW gone
  PROVE  Without(s, gone) \in Seq(S) /\ ToSet(Without(s, gone)) = ToSet(s) \ gone
<1> DEFINE Keeps(f, n) ==
             f = [i \in 0 .. n |->
                    IF i = 0 THEN <<>>
                    ELSE IF s[i] \in gone THEN f[i - 1] ELSE Append(f[i - 1], s[i])]
           kept == CHOOSE f : Keeps(f, Len(s))
<1>1. Len(s) \in Nat /\ DOMAIN s = 1 .. Len(s) /\ \A i \in 1 .. Len(s) : s[i] \in S
  OBVIOUS
<1>2. \E f : Keeps(f, Len(s))
  <2> DEFINE Bad == {n \in 0 .. Len(s) : ~ \E f : Keeps(f, n)}
  <2>1. SUFFICES ASSUME Bad # {} PROVE FALSE
    BY <1>1
  <2>2. PICK m \in Bad : \A n \in Bad : m <= n
    <3>1. Bad \in SUBSET Nat
      BY <1>1
    <3> HIDE DEF Bad
    <3> QED
      BY <2>1, <3>1, LeastNat
  <2>3. m \in 0 .. Len(s) /\ ~ \E f : Keeps(f, m)
    BY <2>2
  <2>4. m # 0
    <3>1. Keeps([i \in 0 .. 0 |-> <<>>], 0)
      OBVIOUS
    <3> HIDE DEF Keeps
    <3> QED
      BY <2>3, <3>1
  <2>5. m - 1 \in 0 .. Len(s) /\ m - 1 \notin Bad
    <3>1. m - 1 \in 0 .. Len(s) /\ ~(m <= m - 1)
      BY <1>1, <2>3, <2>4
    <3> HIDE DEF Bad
    <3> QED
      BY <2>2, <3>1
  <2>6. PICK f : Keeps(f, m - 1)
    BY <2>5
  <2> DEFINE last == IF s[m] \in gone THEN f[m - 1] ELSE Append(f[m - 1], s[m])
             g == [i \in 0 .. m |-> IF i = m THEN last ELSE f[i]]
  <2>7. \A i \in 0 .. m - 1 : f[i] = IF i = 0 THEN <<>>
                                     ELSE IF s[i] \in gone THEN f[i - 1]
                                     ELSE Append(f[i - 1], s[i])
    BY <2>6
  <2>8. /\ \A i \in 0 .. m - 1 : g[i] = f[i]
        /\ g[m] = last
    BY <1>1, <2>3
  <2>9. \A i \in 0 .. m : g[i] = IF i = 0 THEN <<>>
                                 ELSE IF s[i] \in gone THEN g[i - 1]
                                 ELSE Append(g[i - 1], s[i])
    <3>1. ASSUME NEW i \in 0 .. m - 1, i # 0
          PROVE  g[i] = IF s[i] \in gone THEN g[i - 1] ELSE Append(g[i - 1], s[i])
      <4>1. i - 1 \in 0 .. m - 1
        BY <1>1, <2>3, <3>1
      <4> HIDE DEF g
      <4> QED
        BY <2>7, <2>8, <3>1, <4>1
    <3>2. g[m] = IF s[m] \in gone THEN g[m - 1] ELSE Append(g[m - 1], s[m])
      <4>1. m - 1 \in 0 .. m - 1
        BY <1>1, <2>3, <2>4
      <4> HIDE DEF g
      <4> QED
        BY <2>8, <4>1
    <3>3. g[0] = <<>>
      <4>1. 0 \in 0 .. m - 1
        BY <1>1, <2>3, <2>4
      <4> HIDE DEF g
      <4> QED
        BY <2>7, <2>8, <4>1
    <3>4. \A i \in 0 .. m : i = m \/ i \in 0 .. m - 1
      BY <1>1, <2>3
    <3> HIDE DEF g
    <3> QED
      BY <2>4, <3>1, <3>2, <3>3, <3>4
  <2>10. Keeps(g, m)
    <3>1. g = [i \in 0 .. m |-> g[i]]
      OBVIOUS
    <3> HIDE DEF g
    <3> QED
      BY <2>9, <3>1
  <2> HIDE DEF Keeps, g
  <2> QED
    BY <2>3, <2>10
<1>3. Keeps(kept, Len(s))
  <2> HIDE DEF Keeps
  <2> QED
    BY <1>2
<1>4. Without(s, gone) = kept[Len(s)]
  BY DEF Without
<1> HIDE DEF kept
<1>5. /\ kept[0] = <<>>
      /\ \A i \in 1 .. Len(s) :
           kept[i] = IF s[i] \in gone THEN kept[i - 1] ELSE Append(kept[i - 1], s[i])
  <2>1. \A i \in 0 .. Len(s) : kept[i] = IF i = 0 THEN <<>>
                                         ELSE IF s[i] \in gone THEN kept[i - 1]
                                         ELSE Append(kept[i - 1], s[i])
    BY <1>3
  <2>2. 0 \in 0 .. Len(s) /\ \A i \in 1 .. Len(s) : i \in 0 .. Len(s) /\ i # 0
    BY <1>1
  <2> QED
    BY <2>1, <2>2
<1> DEFINE Right(i) == kept[i] \in Seq(S) /\ ToSet(kept[i]) = {s[j] : j \in 1 .. i} \ gone
           Wrong == {i \in 0 .. Len(s) : ~Right(i)}
<1>6. Wrong = {}
  <2>1. SUFFICES ASSUME Wrong # {} PROVE FALSE
    OBVIOUS
  <2>2. PICK m \in Wrong : \A n \in Wrong : m <= n
    <3>1. Wrong \in SUBSET Nat
      BY <1>1
    <3> HIDE DEF Wrong
    <3> QED
      BY <2>1, <3>1, LeastNat
  <2>3. m \in 0 .. Len(s) /\ ~Right(m)
    BY <2>2
  <2>4. m # 0
    <3>1. kept[0] \in Seq(S) /\ ToSet(kept[0]) = {}
      BY <1>5 DEF ToSet
    <3>2. {s[j] : j \in 1 .. 0} = {}
      OBVIOUS
    <3> QED
      BY <2>3, <3>1, <3>2
  <2>5. m - 1 \in 0 .. Len(s) /\ m - 1 \notin Wrong /\ m \in 1 .. Len(s)
    <3>1. m - 1 \in 0 .. Len(s) /\ ~(m <= m - 1) /\ m \in 1 .. Len(s)
      BY <1>1, <2>3, <2>4
    <3> HIDE DEF Wrong
    <3> QED
      BY <2>2, <3>1
  <2>6. Right(m - 1)
    BY <2>5
  <2>7. {s[j] : j \in 1 .. m} = {s[j] : j \in 1 .. m - 1} \cup {s[m]}
    <3>1. \A j \in 1 .. m : j = m \/ j \in 1 .. m - 1
      BY <2>5
    <3>2. m \in 1 .. m /\ \A j \in 1 .. m - 1 : j \in 1 .. m
      BY <2>5
    <3> QED
      BY <3>1, <3>2
  <2>8. kept[m] = IF s[m] \in gone THEN kept[m - 1] ELSE Append(kept[m - 1], s[m])
    BY <1>5, <2>5
  <2>9. Right(m)
    <3>1. CASE s[m] \in gone
      BY <2>6, <2>7, <2>8, <3>1
    <3>2. CASE s[m] \notin gone
      <4>1. s[m] \in S
        BY <1>1, <2>5
      <4>2. kept[m] \in Seq(S) /\ ToSet(kept[m]) = ToSet(kept[m - 1]) \cup {s[m]}
        BY <2>6, <2>8, <3>2, <4>1, RangeOfAppend
      <4> QED
        BY <2>6, <2>7, <3>2, <4>2
    <3> QED
      BY <3>1, <3>2
  <2> QED
    BY <2>3, <2>9
<1>7. Right(Len(s))
  <2>1. Len(s) \in 0 .. Len(s)
    BY <1>1
  <2> HIDE DEF Right
  <2> QED
    BY <1>6, <2>1
<1> QED
  BY <1>1, <1>4, <1>7 DEF ToSet

-----------------------------------------------------------------------------
(* Paths                                                                   *)

AllNames == UNION {ToSet(p) : p \in Paths}

LEMMA PathIsSeq ==
  ASSUME NEW p \in Paths
  PROVE  p \in Seq(AllNames)
<1>1. p \in Seq(ToSet(p)) /\ ToSet(p) \subseteq AllNames
  BY InodesAssumption DEF AllNames
<1> QED
  BY <1>1, SeqMonotonic

LEMMA InsideIs ==
  ASSUME NEW p \in Seq(AllNames), NEW q \in Seq(AllNames)
  PROVE  Inside(p, q) <=> (Len(q) <= Len(p) /\ \A i \in 1 .. Len(q) : p[i] = q[i])
<1>1. Len(p) \in Nat /\ Len(q) \in Nat
  OBVIOUS
<1>2. SUFFICES ASSUME Len(q) <= Len(p)
               PROVE  SubSeq(p, 1, Len(q)) = q <=> \A i \in 1 .. Len(q) : p[i] = q[i]
  BY <1>1 DEF Inside
<1> DEFINE r == SubSeq(p, 1, Len(q))
<1>3. r \in Seq(AllNames) /\ Len(r) = Len(q) /\ \A i \in 1 .. Len(q) : r[i] = p[i]
  <2>1. \A i \in 1 .. Len(q) : p[i] \in AllNames
    BY <1>1, <1>2
  <2>2. /\ r \in Seq(AllNames) /\ Len(r) = IF 1 <= Len(q) THEN Len(q) - 1 + 1 ELSE 0
        /\ \A i \in 1 .. Len(q) - 1 + 1 : r[i] = p[1 + i - 1]
    BY <1>1, <2>1, SubSeqProperties
  <2> HIDE DEF r
  <2>3. \A i \in 1 .. Len(q) : i \in 1 .. Len(q) - 1 + 1 /\ 1 + i - 1 = i
    BY <1>1
  <2> QED
    BY <1>1, <2>2, <2>3
<1> HIDE DEF r
<1>4. (\A i \in 1 .. Len(q) : p[i] = q[i]) => r = q
  BY <1>3, SeqEqual
<1> QED
  BY <1>3, <1>4 DEF r

LEMMA MovedIs ==
  ASSUME NEW p \in Seq(AllNames), NEW from \in Seq(AllNames), NEW to \in Seq(AllNames),
         Inside(p, from)
  PROVE  LET m == Moved(p, from, to)
         IN /\ m \in Seq(AllNames)
            /\ Len(m) = Len(to) + Len(p) - Len(from)
            /\ \A i \in 1 .. Len(to) : m[i] = to[i]
            /\ \A i \in Len(from) + 1 .. Len(p) : m[Len(to) + i - Len(from)] = p[i]
<1> DEFINE tail == SubSeq(p, Len(from) + 1, Len(p))
           m == to \o tail
<1>1. Len(p) \in Nat /\ Len(from) \in Nat /\ Len(to) \in Nat /\ Len(from) <= Len(p)
  BY InsideIs
<1>2. /\ tail \in Seq(AllNames) /\ Len(tail) = Len(p) - Len(from)
      /\ \A j \in 1 .. Len(p) - Len(from) : tail[j] = p[Len(from) + j]
  <2>1. \A i \in Len(from) + 1 .. Len(p) : p[i] \in AllNames
    BY <1>1
  <2>2. /\ tail \in Seq(AllNames)
        /\ Len(tail) = IF Len(from) + 1 <= Len(p) THEN Len(p) - (Len(from) + 1) + 1 ELSE 0
        /\ \A i \in 1 .. Len(p) - (Len(from) + 1) + 1 : tail[i] = p[Len(from) + 1 + i - 1]
    BY <1>1, <2>1, SubSeqProperties
  <2> HIDE DEF tail
  <2>3. \A j \in 1 .. Len(p) - Len(from) :
          j \in 1 .. Len(p) - (Len(from) + 1) + 1 /\ Len(from) + 1 + j - 1 = Len(from) + j
    BY <1>1
  <2> QED
    BY <1>1, <2>2, <2>3
<1> HIDE DEF tail
<1>3. /\ m \in Seq(AllNames) /\ Len(m) = Len(to) + Len(tail)
      /\ \A i \in 1 .. Len(to) + Len(tail) :
           m[i] = IF i <= Len(to) THEN to[i] ELSE tail[i - Len(to)]
  BY <1>2, ConcatProperties
<1> HIDE DEF m
<1>4. \A i \in 1 .. Len(to) : m[i] = to[i]
  <2>1. \A i \in 1 .. Len(to) : i \in 1 .. Len(to) + Len(tail) /\ i <= Len(to)
    BY <1>1, <1>2
  <2> QED
    BY <1>3, <2>1
<1>5. ASSUME NEW i \in Len(from) + 1 .. Len(p)
      PROVE  m[Len(to) + i - Len(from)] = p[i]
  <2>1. PICK j : j = i - Len(from)
    OBVIOUS
  <2>2. j \in 1 .. Len(p) - Len(from) /\ Len(from) + j = i /\ Len(to) + i - Len(from) = Len(to) + j
    BY <1>1, <2>1
  <2>3. m[Len(to) + j] = tail[j]
    <3>0. Len(tail) \in Nat
      BY <1>2, LenProperties
    <3>1. PICK a \in Nat, b \in Nat : a = Len(to) /\ b = Len(tail)
      BY <1>1, <3>0
    <3>2. j \in 1 .. b
      BY <1>2, <2>2, <3>1
    <3>3. a + j \in 1 .. a + b /\ ~(a + j <= a) /\ (a + j) - a = j
      BY <3>2
    <3>4. \A q \in 1 .. a + b : m[q] = IF q <= a THEN to[q] ELSE tail[q - a]
      BY <1>3, <3>1
    <3>5. m[a + j] = IF a + j <= a THEN to[a + j] ELSE tail[(a + j) - a]
      BY <3>3, <3>4
    <3> QED
      BY <3>1, <3>3, <3>5
  <2>4. tail[j] = p[Len(from) + j]
    BY <1>2, <2>2
  <2> QED
    BY <2>2, <2>3, <2>4
<1>6. Moved(p, from, to) = m
  BY DEF Moved, m, tail
<1> QED
  BY <1>1, <1>2, <1>3, <1>4, <1>5, <1>6

\* A rename carries a subtree to its destination, path by path and one for one.
LEMMA MovedInside ==
  ASSUME NEW p \in Seq(AllNames), NEW from \in Seq(AllNames), NEW to \in Seq(AllNames),
         Inside(p, from)
  PROVE  Inside(Moved(p, from, to), to)
<1>1. Len(p) \in Nat /\ Len(from) \in Nat /\ Len(to) \in Nat /\ Len(from) <= Len(p)
  BY InsideIs
<1> DEFINE m == Moved(p, from, to)
<1>2. /\ m \in Seq(AllNames) /\ Len(m) = Len(to) + Len(p) - Len(from)
      /\ \A i \in 1 .. Len(to) : m[i] = to[i]
  BY MovedIs
<1> HIDE DEF m
<1>3. Len(to) <= Len(m)
  BY <1>1, <1>2
<1>4. Inside(m, to)
  BY <1>2, <1>3, InsideIs
<1> QED
  BY <1>4 DEF m

LEMMA MovedApart ==
  ASSUME NEW p \in Seq(AllNames), NEW q \in Seq(AllNames),
         NEW from \in Seq(AllNames), NEW to \in Seq(AllNames),
         Inside(p, from), Inside(q, from), Moved(p, from, to) = Moved(q, from, to)
  PROVE  p = q
<1>1. /\ Len(p) \in Nat /\ Len(q) \in Nat /\ Len(from) \in Nat /\ Len(to) \in Nat
      /\ Len(from) <= Len(p) /\ Len(from) <= Len(q)
      /\ \A i \in 1 .. Len(from) : p[i] = from[i] /\ q[i] = from[i]
  BY InsideIs
<1> DEFINE m == Moved(p, from, to)
           n == Moved(q, from, to)
<1>0. ASSUME NEW r \in Seq(AllNames), Inside(r, from)
      PROVE  /\ Len(Moved(r, from, to)) = Len(to) + Len(r) - Len(from)
             /\ \A i \in Len(from) + 1 .. Len(r) :
                  Moved(r, from, to)[Len(to) + i - Len(from)] = r[i]
  BY <1>0, MovedIs
<1>2. /\ Len(m) = Len(to) + Len(p) - Len(from)
      /\ \A i \in Len(from) + 1 .. Len(p) : m[Len(to) + i - Len(from)] = p[i]
  BY <1>0
<1>3. /\ Len(m) = Len(to) + Len(q) - Len(from)
      /\ \A i \in Len(from) + 1 .. Len(q) : m[Len(to) + i - Len(from)] = q[i]
  <2>1. /\ Len(n) = Len(to) + Len(q) - Len(from)
        /\ \A i \in Len(from) + 1 .. Len(q) : n[Len(to) + i - Len(from)] = q[i]
    BY <1>0
  <2>2. m = n
    OBVIOUS
  <2> HIDE DEF m, n
  <2> QED
    BY <2>1, <2>2
<1> HIDE DEF m
<1>4. m \in Seq(AllNames)
  BY MovedIs DEF m
<1>5. Len(p) = Len(q)
  BY <1>1, <1>2, <1>3, <1>4
<1>6. \A i \in 1 .. Len(p) : p[i] = q[i]
  <2>1. \A i \in 1 .. Len(p) : i \in 1 .. Len(from) \/ i \in Len(from) + 1 .. Len(p)
    BY <1>1
  <2> QED
    BY <1>1, <1>2, <1>3, <1>5, <2>1
<1> QED
  BY <1>5, <1>6, SeqEqual

LEMMA MovedNowhere ==
  ASSUME NEW p \in Seq(AllNames), NEW from \in Seq(AllNames), Inside(p, from)
  PROVE  Moved(p, from, from) = p
<1>1. /\ Len(p) \in Nat /\ Len(from) \in Nat /\ Len(from) <= Len(p)
      /\ \A i \in 1 .. Len(from) : p[i] = from[i]
  BY InsideIs
<1> DEFINE m == Moved(p, from, from)
<1>2. /\ m \in Seq(AllNames) /\ Len(m) = Len(from) + Len(p) - Len(from)
      /\ \A i \in 1 .. Len(from) : m[i] = from[i]
      /\ \A i \in Len(from) + 1 .. Len(p) : m[Len(from) + i - Len(from)] = p[i]
  BY MovedIs
<1> HIDE DEF m
<1>3. Len(m) = Len(p)
  BY <1>1, <1>2
<1>4. \A i \in 1 .. Len(p) : m[i] = p[i]
  <2>1. \A i \in 1 .. Len(p) : i \in 1 .. Len(from) \/ (i \in Len(from) + 1 .. Len(p)
                                                         /\ Len(from) + i - Len(from) = i)
    BY <1>1
  <2> QED
    BY <1>1, <1>2, <2>1
<1>5. m = p
  BY <1>2, <1>3, <1>4, SeqEqual
<1> QED
  BY <1>5 DEF m

\* Of two subtrees with a path in common, one is in the other.
LEMMA InsideBoth ==
  ASSUME NEW p \in Seq(AllNames), NEW q \in Seq(AllNames), NEW r \in Seq(AllNames),
         Inside(p, q), Inside(p, r)
  PROVE  Inside(q, r) \/ Inside(r, q)
<1>1. /\ Len(p) \in Nat /\ Len(q) \in Nat /\ Len(r) \in Nat
      /\ Len(q) <= Len(p) /\ Len(r) <= Len(p)
      /\ \A i \in 1 .. Len(q) : p[i] = q[i]
      /\ \A i \in 1 .. Len(r) : p[i] = r[i]
  BY InsideIs
<1>2. CASE Len(q) <= Len(r)
  BY <1>1, <1>2, InsideIs
<1>3. CASE Len(r) <= Len(q)
  BY <1>1, <1>3, InsideIs
<1> QED
  BY <1>1, <1>2, <1>3

LEMMA TopIsOutside ==
  ASSUME NEW q \in Paths \ {Top}
  PROVE  ~Inside(Top, q)
<1>1. q \in Seq(AllNames) /\ q # <<>>
  BY PathIsSeq DEF Top
<1>2. Len(q) \in Nat \ {0} /\ Len(Top) = 0
  BY <1>1, EmptySeq DEF Top
<1> QED
  BY <1>2 DEF Inside

-----------------------------------------------------------------------------
(* The table's invariant.  A nodeid that was not handed out yet is blank,   *)
(* and the root keeps its one path and never has an identity.               *)

Blank(t) == \A n \in Nodeids : n >= t.next => (n \notin t.live /\ t.inodes[n] = Unborn)

RootKept(t) ==
  Root \in t.live /\ t.inodes[Root].key = NoKey /\ Tracked(t, Root) = {Top}

TableOK(t) == t \in Table /\ Blank(t) /\ RootKept(t) /\ PathsAgree(t) /\ KeysAgree(t)

\* The kernel's lookups are no business of the maps.
SameLookups(t, u) ==
  /\ u.live = t.live
  /\ \A n \in Nodeids : u.inodes[n].nlookup = t.inodes[n].nlookup

\* Nor are an inode's paths of its identity.
SameKeys(t, u) == \A n \in Nodeids : u.inodes[n].key = t.inodes[n].key

LEMMA TableParts ==
  ASSUME NEW t \in Table
  PROVE  /\ t.inodes \in [Nodeids -> Inode] /\ t.live \in SUBSET Nodeids
         /\ t.byPath \in [Paths -> Nodeids \cup {None}] /\ t.byKey \in [Inos -> Nodeids \cup {None}]
         /\ t.next \in 2 .. MaxNodeid + 1
BY DEF Table

LEMMA TrackedTyped ==
  ASSUME NEW t \in Table, NEW n \in Nodeids
  PROVE  /\ t.inodes[n] \in Inode /\ t.inodes[n].paths \in Seq(Paths)
         /\ t.inodes[n].key \in Inos \cup {NoKey} /\ t.inodes[n].nlookup \in Nat
         /\ Tracked(t, n) \subseteq Paths
         /\ Tracked(t, n) = {} <=> t.inodes[n].paths = <<>>
<1>1. t.inodes[n] \in Inode
  BY TableParts
<1>2. /\ t.inodes[n].paths \in Seq(Paths) /\ t.inodes[n].key \in Inos \cup {NoKey}
      /\ t.inodes[n].nlookup \in Nat
  BY <1>1 DEF Inode
<1> DEFINE ps == t.inodes[n].paths
<1>3. ToSet(ps) \subseteq Paths /\ (ToSet(ps) = {} <=> ps = <<>>)
  <2>1. ps \in Seq(Paths)
    BY <1>2
  <2> HIDE DEF ps
  <2>2. Len(ps) \in Nat /\ DOMAIN ps = 1 .. Len(ps) /\ \A i \in 1 .. Len(ps) : ps[i] \in Paths
    BY <2>1
  <2>3. ps # <<>> => Len(ps) # 0
    BY <2>1, EmptySeq
  <2>4. ps # <<>> => 1 \in DOMAIN ps
    BY <2>2, <2>3
  <2>5. DOMAIN (<<>>) = {}
    OBVIOUS
  <2> QED
    BY <2>2, <2>4, <2>5 DEF ToSet
<1> QED
  BY <1>1, <1>2, <1>3 DEF Tracked

\* One inode's paths replaced.
LEMMA PathsReplaced ==
  ASSUME NEW I \in [Nodeids -> Inode], NEW n \in Nodeids, NEW ps \in Seq(Paths)
  PROVE  LET J == [I EXCEPT ![n] = [I[n] EXCEPT !.paths = ps]]
         IN /\ J \in [Nodeids -> Inode]
            /\ J[n].paths = ps /\ J[n].key = I[n].key /\ J[n].nlookup = I[n].nlookup
            /\ \A m \in Nodeids \ {n} : J[m] = I[m]
<1> DEFINE x == [I[n] EXCEPT !.paths = ps]
<1>1. I[n] \in Inode
  OBVIOUS
<1>2. x \in Inode /\ x.paths = ps /\ x.key = I[n].key /\ x.nlookup = I[n].nlookup
  BY <1>1 DEF Inode
<1> HIDE DEF x
<1>3. LET J == [I EXCEPT ![n] = x]
      IN J \in [Nodeids -> Inode] /\ J[n] = x /\ \A m \in Nodeids \ {n} : J[m] = I[m]
  BY <1>2
<1> QED
  BY <1>2, <1>3 DEF x

LEMMA AttachIs ==
  ASSUME NEW t \in Table, NEW n \in Nodeids, NEW p \in Paths
  PROVE  LET u == AttachPath(t, n, p)
         IN /\ u \in Table /\ SameLookups(t, u) /\ u.next = t.next
            /\ \A m \in Nodeids : u.inodes[m].key = t.inodes[m].key
            /\ \A m \in Nodeids \ {n} : u.inodes[m] = t.inodes[m]
            /\ Tracked(u, n) = Tracked(t, n) \cup {p}
            /\ \A q \in Paths : u.byPath[q] = IF q = p THEN n ELSE t.byPath[q]
            /\ \A k \in Inos : u.byKey[k] = IF k = t.inodes[n].key THEN n ELSE t.byKey[k]
<1> DEFINE old == t.inodes[n].paths
           ps == IF p \in ToSet(old) THEN old ELSE Append(old, p)
           J == [t.inodes EXCEPT ![n] = [t.inodes[n] EXCEPT !.paths = ps]]
           B == [t.byPath EXCEPT ![p] = n]
           K == [k \in Inos |-> IF k = t.inodes[n].key THEN n ELSE t.byKey[k]]
           u == [t EXCEPT !.inodes = J, !.byPath = B, !.byKey = K]
<1>1. AttachPath(t, n, p) = u
  BY DEF AttachPath, Table
<1>2. ps \in Seq(Paths) /\ ToSet(ps) = ToSet(old) \cup {p}
  <2>1. old \in Seq(Paths)
    BY TrackedTyped
  <2> HIDE DEF old
  <2> QED
    BY <2>1, RangeOfAppend
<1> HIDE DEF ps
<1>3. /\ J \in [Nodeids -> Inode]
      /\ J[n].paths = ps /\ J[n].key = t.inodes[n].key /\ J[n].nlookup = t.inodes[n].nlookup
      /\ \A m \in Nodeids \ {n} : J[m] = t.inodes[m]
  BY <1>2, TableParts, PathsReplaced
<1> HIDE DEF J
<1>4. B \in [Paths -> Nodeids \cup {None}] /\ \A q \in Paths : B[q] = IF q = p THEN n ELSE t.byPath[q]
  BY TableParts
<1> HIDE DEF B
<1>5. /\ K \in [Inos -> Nodeids \cup {None}]
      /\ \A k \in Inos : K[k] = IF k = t.inodes[n].key THEN n ELSE t.byKey[k]
  BY TableParts
<1> HIDE DEF K
<1>6. /\ u \in Table /\ u.inodes = J /\ u.byPath = B /\ u.byKey = K
      /\ u.live = t.live /\ u.next = t.next
  BY <1>3, <1>4, <1>5 DEF Table
<1> HIDE DEF u
<1> QED
  BY <1>1, <1>2, <1>3, <1>4, <1>5, <1>6 DEF SameLookups, Tracked

\* attachPath puts right what it is called to put right: the inode's identity.
LEMMA AttachAgrees ==
  ASSUME NEW t \in Table, Blank(t), RootKept(t), PathsAgree(t),
         NEW n \in t.live \ {Root}, NEW p \in Paths \ {Top}, t.byPath[p] \in {None, n},
         \A k \in Inos : t.byKey[k] \in t.live \cup {None},
         \A k \in Inos, m \in t.live \ {n} :
           t.byKey[k] = m <=> (t.inodes[m].key = k /\ Tracked(t, m) # {}),
         \A k \in Inos : t.byKey[k] = n => t.inodes[n].key = k,
         \A k \in Inos : t.inodes[n].key = k => t.byKey[k] \in {None, n}
  PROVE  TableOK(AttachPath(t, n, p)) /\ SameLookups(t, AttachPath(t, n, p))
<1> DEFINE u == AttachPath(t, n, p)
<1>1. n \in Nodeids /\ t.live \subseteq Nodeids /\ None \notin Nodeids
  BY TableParts DEF Nodeids, None, Root
<1>2. /\ u \in Table /\ SameLookups(t, u) /\ u.next = t.next
      /\ \A m \in Nodeids : u.inodes[m].key = t.inodes[m].key
      /\ \A m \in Nodeids \ {n} : u.inodes[m] = t.inodes[m]
      /\ Tracked(u, n) = Tracked(t, n) \cup {p}
      /\ \A q \in Paths : u.byPath[q] = IF q = p THEN n ELSE t.byPath[q]
      /\ \A k \in Inos : u.byKey[k] = IF k = t.inodes[n].key THEN n ELSE t.byKey[k]
  BY <1>1, AttachIs
<1> HIDE DEF u
<1>3. u.live = t.live /\ \A m \in Nodeids \ {n} : Tracked(u, m) = Tracked(t, m)
  BY <1>2 DEF SameLookups, Tracked
<1>4. Blank(u)
  BY <1>1, <1>2, <1>3 DEF Blank
<1>5. RootKept(u)
  BY <1>1, <1>2, <1>3 DEF RootKept
<1>6. PathsAgree(u)
  <2>1. ASSUME NEW q \in Paths, NEW m \in u.live
        PROVE  u.byPath[q] = m <=> q \in Tracked(u, m)
    BY <1>1, <1>2, <1>3 DEF PathsAgree
  <2>2. \A q \in Paths : u.byPath[q] \in u.live \cup {None}
    BY <1>2, <1>3 DEF PathsAgree
  <2> QED
    BY <2>1, <2>2 DEF PathsAgree
<1>7. KeysAgree(u)
  <2>1. ASSUME NEW k \in Inos
        PROVE  u.byKey[k] = n <=> (u.inodes[n].key = k /\ Tracked(u, n) # {})
    BY <1>1, <1>2, <1>3
  <2>2. ASSUME NEW k \in Inos, NEW m \in u.live \ {n}
        PROVE  u.byKey[k] = m <=> (u.inodes[m].key = k /\ Tracked(u, m) # {})
    BY <1>1, <1>2, <1>3
  <2>3. \A k \in Inos : u.byKey[k] \in u.live \cup {None}
    BY <1>2, <1>3
  <2> QED
    BY <1>1, <2>1, <2>2, <2>3 DEF KeysAgree
<1> QED
  BY <1>2, <1>4, <1>5, <1>6, <1>7 DEF TableOK, u

\* releaseKey.
LEMMA ReleaseIs ==
  ASSUME NEW t \in Table, NEW n \in Nodeids
  PROVE  LET u == ReleaseKey(t, n)
         IN /\ u \in Table /\ u.inodes = t.inodes /\ u.live = t.live /\ u.byPath = t.byPath
            /\ u.next = t.next
            /\ \A k \in Inos : u.byKey[k] = IF k = t.inodes[n].key /\ t.byKey[k] = n
                                            THEN None ELSE t.byKey[k]
<1> DEFINE K == [k \in Inos |-> IF k = t.inodes[n].key /\ t.byKey[k] = n
                                THEN None ELSE t.byKey[k]]
           u == [t EXCEPT !.byKey = K]
<1>1. ReleaseKey(t, n) = u
  BY DEF ReleaseKey
<1>2. /\ K \in [Inos -> Nodeids \cup {None}]
      /\ \A k \in Inos : K[k] = IF k = t.inodes[n].key /\ t.byKey[k] = n
                                THEN None ELSE t.byKey[k]
  BY TableParts
<1> HIDE DEF K
<1>3. /\ u \in Table /\ u.inodes = t.inodes /\ u.live = t.live /\ u.byPath = t.byPath
      /\ u.next = t.next /\ u.byKey = K
  BY <1>2 DEF Table
<1> HIDE DEF u
<1> QED
  BY <1>1, <1>2, <1>3

LEMMA DetachIs ==
  ASSUME NEW t \in Table, NEW n \in Nodeids, NEW p \in Paths
  PROVE  LET u == DetachPath(t, n, p)
         IN /\ u \in Table /\ SameLookups(t, u) /\ u.next = t.next
            /\ \A m \in Nodeids : u.inodes[m].key = t.inodes[m].key
            /\ \A m \in Nodeids \ {n} : u.inodes[m] = t.inodes[m]
            /\ Tracked(u, n) = Tracked(t, n) \ {p}
            /\ \A q \in Paths : u.byPath[q] = IF q = p THEN None ELSE t.byPath[q]
            /\ \A k \in Inos : u.byKey[k] =
                 IF Tracked(u, n) = {} /\ k = t.inodes[n].key /\ t.byKey[k] = n
                 THEN None ELSE t.byKey[k]
<1> DEFINE old == t.inodes[n].paths
           ps == Without(old, {p})
           J == [t.inodes EXCEPT ![n] = [t.inodes[n] EXCEPT !.paths = ps]]
           B == [t.byPath EXCEPT ![p] = None]
           v == [t EXCEPT !.inodes = J, !.byPath = B]
           u == DetachPath(t, n, p)
<1>1. u = IF v.inodes[n].paths = <<>> THEN ReleaseKey(v, n) ELSE v
  BY DEF DetachPath, Table
<1>2. ps \in Seq(Paths) /\ ToSet(ps) = ToSet(old) \ {p}
  <2>1. old \in Seq(Paths)
    BY TrackedTyped
  <2> HIDE DEF old
  <2> QED
    BY <2>1, WithoutIs
<1> HIDE DEF ps
<1>3. /\ J \in [Nodeids -> Inode]
      /\ J[n].paths = ps /\ J[n].key = t.inodes[n].key /\ J[n].nlookup = t.inodes[n].nlookup
      /\ \A m \in Nodeids \ {n} : J[m] = t.inodes[m]
  BY <1>2, TableParts, PathsReplaced
<1> HIDE DEF J
<1>4. /\ B \in [Paths -> Nodeids \cup {None}]
      /\ \A q \in Paths : B[q] = IF q = p THEN None ELSE t.byPath[q]
  BY TableParts
<1> HIDE DEF B
<1>5. /\ v \in Table /\ v.inodes = J /\ v.byPath = B /\ v.byKey = t.byKey
      /\ v.live = t.live /\ v.next = t.next
  BY <1>3, <1>4 DEF Table
<1> HIDE DEF v, u
<1>6. /\ u \in Table /\ u.inodes = J /\ u.byPath = B /\ u.live = t.live /\ u.next = t.next
      /\ \A k \in Inos : u.byKey[k] =
           IF v.inodes[n].paths = <<>> /\ k = t.inodes[n].key /\ t.byKey[k] = n
           THEN None ELSE t.byKey[k]
  <2>1. CASE v.inodes[n].paths = <<>>
    <3>1. u = ReleaseKey(v, n)
      BY <1>1, <2>1
    <3>2. /\ u \in Table /\ u.inodes = v.inodes /\ u.live = v.live /\ u.byPath = v.byPath
          /\ u.next = v.next
          /\ \A k \in Inos : u.byKey[k] = IF k = v.inodes[n].key /\ v.byKey[k] = n
                                          THEN None ELSE v.byKey[k]
      BY <1>5, <3>1, ReleaseIs
    <3> QED
      BY <1>3, <1>5, <2>1, <3>2
  <2>2. CASE v.inodes[n].paths # <<>>
    BY <1>1, <1>5, <2>2
  <2> QED
    BY <2>1, <2>2
<1>7. v.inodes[n].paths = <<>> <=> Tracked(u, n) = {}
  <2>1. Tracked(u, n) = {} <=> u.inodes[n].paths = <<>>
    BY <1>6, TrackedTyped
  <2> QED
    BY <1>5, <1>6, <2>1
<1>8. Tracked(u, n) = Tracked(t, n) \ {p}
  BY <1>2, <1>3, <1>6 DEF Tracked
<1>9. SameLookups(t, u)
  BY <1>3, <1>6 DEF SameLookups
<1> QED
  BY <1>3, <1>4, <1>6, <1>7, <1>8, <1>9 DEF u

\* detachPath, whether or not it orphans the inode.
LEMMA DetachAgrees ==
  ASSUME NEW t, TableOK(t), NEW n \in t.live, NEW p \in Paths \ {Top}, t.byPath[p] = n
  PROVE  /\ TableOK(DetachPath(t, n, p)) /\ SameLookups(t, DetachPath(t, n, p))
         /\ n # Root
<1> DEFINE u == DetachPath(t, n, p)
<1>1. t \in Table /\ n \in Nodeids /\ t.live \subseteq Nodeids /\ None \notin Nodeids
  BY TableParts DEF Nodeids, None, Root, TableOK
<1>2. /\ u \in Table /\ SameLookups(t, u) /\ u.next = t.next
      /\ \A m \in Nodeids : u.inodes[m].key = t.inodes[m].key
      /\ \A m \in Nodeids \ {n} : u.inodes[m] = t.inodes[m]
      /\ Tracked(u, n) = Tracked(t, n) \ {p}
      /\ \A q \in Paths : u.byPath[q] = IF q = p THEN None ELSE t.byPath[q]
      /\ \A k \in Inos : u.byKey[k] =
           IF Tracked(u, n) = {} /\ k = t.inodes[n].key /\ t.byKey[k] = n
           THEN None ELSE t.byKey[k]
  BY <1>1, DetachIs
<1> HIDE DEF u
<1>3. u.live = t.live /\ \A m \in Nodeids \ {n} : Tracked(u, m) = Tracked(t, m)
  BY <1>2 DEF SameLookups, Tracked
<1>4. n # Root /\ p \in Tracked(t, n)
  BY DEF TableOK, RootKept, PathsAgree
<1>5. Blank(u)
  BY <1>1, <1>2, <1>3 DEF Blank, TableOK
<1>6. RootKept(u)
  BY <1>1, <1>2, <1>3, <1>4 DEF RootKept, TableOK
<1>7. PathsAgree(u)
  <2>1. ASSUME NEW q \in Paths, NEW m \in u.live
        PROVE  u.byPath[q] = m <=> q \in Tracked(u, m)
    BY <1>1, <1>2, <1>3 DEF PathsAgree, TableOK
  <2>2. \A q \in Paths : u.byPath[q] \in u.live \cup {None}
    BY <1>2, <1>3 DEF PathsAgree, TableOK
  <2> QED
    BY <2>1, <2>2 DEF PathsAgree
<1>8. KeysAgree(u)
  <2>1. ASSUME NEW k \in Inos
        PROVE  u.byKey[k] = n <=> (u.inodes[n].key = k /\ Tracked(u, n) # {})
    BY <1>1, <1>2, <1>3, <1>4 DEF KeysAgree, TableOK
  <2>2. ASSUME NEW k \in Inos, NEW m \in u.live \ {n}
        PROVE  u.byKey[k] = m <=> (u.inodes[m].key = k /\ Tracked(u, m) # {})
    BY <1>1, <1>2, <1>3 DEF KeysAgree, TableOK
  <2>3. \A k \in Inos : u.byKey[k] \in u.live \cup {None}
    BY <1>2, <1>3 DEF KeysAgree, TableOK
  <2> QED
    BY <1>1, <2>1, <2>2, <2>3 DEF KeysAgree
<1> QED
  BY <1>2, <1>4, <1>5, <1>6, <1>7, <1>8 DEF TableOK, u

LEMMA UnbindAgrees ==
  ASSUME NEW t, TableOK(t), NEW p \in Paths \ {Top}
  PROVE  LET u == Unbind(t, p)
         IN /\ TableOK(u) /\ SameLookups(t, u) /\ SameKeys(t, u)
            /\ \A q \in Paths : u.byPath[q] = IF q = p THEN None ELSE t.byPath[q]
<1>1. CASE t.byPath[p] = None
  BY <1>1 DEF Unbind, SameLookups, SameKeys
<1>2. CASE t.byPath[p] # None
  <2> DEFINE n == t.byPath[p]
  <2>1. n \in t.live /\ t \in Table /\ n \in Nodeids
    BY <1>2, TableParts DEF TableOK, PathsAgree
  <2>2. Unbind(t, p) = DetachPath(t, n, p)
    BY <1>2 DEF Unbind
  <2>3. TableOK(DetachPath(t, n, p)) /\ SameLookups(t, DetachPath(t, n, p))
    BY <2>1, DetachAgrees
  <2>4. LET u == DetachPath(t, n, p)
        IN /\ \A m \in Nodeids : u.inodes[m].key = t.inodes[m].key
           /\ \A q \in Paths : u.byPath[q] = IF q = p THEN None ELSE t.byPath[q]
    BY <2>1, DetachIs
  <2> QED
    BY <2>2, <2>3, <2>4 DEF SameKeys
<1> QED
  BY <1>1, <1>2

LEMMA KeyReplaced ==
  ASSUME NEW I \in [Nodeids -> Inode], NEW n \in Nodeids, NEW key \in Inos \cup {NoKey}
  PROVE  LET J == [I EXCEPT ![n] = [I[n] EXCEPT !.key = key]]
         IN /\ J \in [Nodeids -> Inode]
            /\ J[n].paths = I[n].paths /\ J[n].key = key /\ J[n].nlookup = I[n].nlookup
            /\ \A m \in Nodeids \ {n} : J[m] = I[m]
<1> DEFINE x == [I[n] EXCEPT !.key = key]
<1>1. I[n] \in Inode
  OBVIOUS
<1>2. x \in Inode /\ x.key = key /\ x.paths = I[n].paths /\ x.nlookup = I[n].nlookup
  BY <1>1 DEF Inode
<1> HIDE DEF x
<1>3. LET J == [I EXCEPT ![n] = x]
      IN J \in [Nodeids -> Inode] /\ J[n] = x /\ \A m \in Nodeids \ {n} : J[m] = I[m]
  BY <1>2
<1> QED
  BY <1>2, <1>3 DEF x

\* The nodeid bind answers with: a new one, or one that has the identity or no
\* other claim on it.
LEMMA BoundIs ==
  ASSUME NEW t, TableOK(t), NEW p \in Paths \ {Top}, NEW key \in Inos \cup {NoKey},
         CanBind(t, p, key)
  PROVE  LET n == BoundTo(t, p, key)
         IN /\ n \in Nodeids \ {Root}
            /\ n \in t.live \/ (n = t.next /\ n \notin t.live /\ t.inodes[n] = Unborn)
            /\ key \in Inos => t.byKey[key] \in {None, n}
            /\ n \in t.live => t.inodes[n].key \in {NoKey, key}
<1> DEFINE n == BoundTo(t, p, key)
<1>1. /\ t \in Table /\ t.live \subseteq Nodeids /\ None \notin Nodeids /\ t.next \in Nat
      /\ t.next >= 2 /\ n <= MaxNodeid
  BY TableParts, InodesAssumption DEF Nodeids, None, Root, TableOK, CanBind
<1>2. CASE key # NoKey /\ t.byKey[key] # None
  <2>1. n = t.byKey[key] /\ n \in t.live /\ key \in Inos
    BY <1>2 DEF BoundTo, TableOK, KeysAgree
  <2>2. t.inodes[n].key = key
    BY <2>1 DEF TableOK, KeysAgree
  <2>3. n # Root
    BY <1>2, <2>2 DEF TableOK, RootKept
  <2> QED
    BY <1>1, <2>1, <2>2, <2>3
<1>3. CASE (key = NoKey \/ t.byKey[key] = None) /\ SameFile(t, p, key)
  <2>1. n = t.byPath[p] /\ n \in t.live /\ t.inodes[n].key \in {NoKey, key}
    BY <1>3 DEF BoundTo, SameFile, TableOK, PathsAgree
  <2>2. p \in Tracked(t, n)
    BY <2>1 DEF TableOK, PathsAgree
  <2>3. n # Root
    BY <2>2 DEF TableOK, RootKept
  <2> QED
    BY <1>1, <1>3, <2>1, <2>3, NoKeyAssumption
<1>4. CASE (key = NoKey \/ t.byKey[key] = None) /\ ~SameFile(t, p, key)
  <2>1. n = t.next
    BY <1>4 DEF BoundTo
  <2>2. n \in Nodeids /\ n # Root
    BY <1>1, <2>1, InodesAssumption DEF Nodeids, Root
  <2>3. n \notin t.live /\ t.inodes[n] = Unborn
    BY <1>1, <2>1, <2>2 DEF TableOK, Blank
  <2> QED
    BY <1>4, <2>1, <2>2, <2>3, NoKeyAssumption
<1> QED
  BY <1>2, <1>3, <1>4

Minted(t, n, key) ==
  [t EXCEPT !.inodes[n].key = key, !.live = @ \cup {n}, !.next = @ + 1]

\* A nodeid never used before joins the table, with no path yet.
LEMMA MintAgrees ==
  ASSUME NEW t, TableOK(t), NEW n \in Nodeids, n = t.next, n \notin t.live,
         t.inodes[n] = Unborn, NEW key \in Inos \cup {NoKey}
  PROVE  LET u == Minted(t, n, key)
         IN /\ TableOK(u) /\ u.live = t.live \cup {n} /\ u.byPath = t.byPath /\ u.byKey = t.byKey
            /\ u.inodes[n].key = key
            /\ \A m \in Nodeids : u.inodes[m].nlookup = t.inodes[m].nlookup
            /\ \A m \in Nodeids \ {n} : u.inodes[m].key = t.inodes[m].key
<1>1. /\ t \in Table /\ t.live \subseteq Nodeids /\ None \notin Nodeids /\ t.next \in Nat
      /\ t.next >= 2 /\ n \in Nat /\ MaxNodeid \in Nat /\ n <= MaxNodeid
  BY TableParts, InodesAssumption DEF Nodeids, None, Root, TableOK
<1> DEFINE J == [t.inodes EXCEPT ![n] = [t.inodes[n] EXCEPT !.key = key]]
           L == t.live \cup {n}
           N == t.next + 1
           u == [t EXCEPT !.inodes = J, !.live = L, !.next = N]
<1>2. Minted(t, n, key) = u
  BY <1>1 DEF Table, Minted
<1>3. /\ J \in [Nodeids -> Inode]
      /\ J[n].paths = t.inodes[n].paths /\ J[n].key = key
      /\ J[n].nlookup = t.inodes[n].nlookup
      /\ \A m \in Nodeids \ {n} : J[m] = t.inodes[m]
  <2>1. t.inodes \in [Nodeids -> Inode]
    BY <1>1, TableParts
  <2> QED
    BY <2>1, KeyReplaced
<1> HIDE DEF J
<1>4. L \in SUBSET Nodeids
  BY <1>1
<1>5. N \in 2 .. MaxNodeid + 1
  BY <1>1
<1> HIDE DEF L, N
<1>6. /\ u \in Table /\ u.inodes = J /\ u.live = L /\ u.next = N
      /\ u.byPath = t.byPath /\ u.byKey = t.byKey
  BY <1>1, <1>3, <1>4, <1>5 DEF Table
<1> HIDE DEF u
<1>7. Tracked(u, n) = {} /\ \A m \in Nodeids \ {n} : Tracked(u, m) = Tracked(t, m)
  BY <1>3, <1>6 DEF Tracked, Unborn, ToSet
<1>8. Blank(u)
  <2>1. \A m \in Nodeids : m >= N => (m >= t.next /\ m # n)
    BY <1>1 DEF N, Nodeids, Root
  <2> QED
    BY <1>3, <1>6, <2>1 DEF L, Blank, TableOK
<1>9. RootKept(u)
  <2>1. n # Root
    BY DEF TableOK, RootKept
  <2> QED
    BY <1>1, <1>3, <1>6, <1>7, <2>1 DEF L, RootKept, TableOK
<1>10. PathsAgree(u)
  <2>1. ASSUME NEW q \in Paths, NEW m \in u.live
        PROVE  u.byPath[q] = m <=> q \in Tracked(u, m)
    <3>1. t.byPath[q] # n
      BY <1>1 DEF TableOK, PathsAgree
    <3> QED
      BY <1>1, <1>6, <1>7, <3>1 DEF L, PathsAgree, TableOK
  <2>2. \A q \in Paths : u.byPath[q] \in u.live \cup {None}
    BY <1>6 DEF L, PathsAgree, TableOK
  <2> QED
    BY <2>1, <2>2 DEF PathsAgree
<1>11. KeysAgree(u)
  <2>1. ASSUME NEW k \in Inos, NEW m \in u.live
        PROVE  u.byKey[k] = m <=> (u.inodes[m].key = k /\ Tracked(u, m) # {})
    <3>1. t.byKey[k] # n
      BY <1>1 DEF TableOK, KeysAgree
    <3> QED
      BY <1>1, <1>3, <1>6, <1>7, <3>1 DEF L, KeysAgree, TableOK
  <2>2. \A k \in Inos : u.byKey[k] \in u.live \cup {None}
    BY <1>6 DEF L, KeysAgree, TableOK
  <2> QED
    BY <2>1, <2>2 DEF KeysAgree
<1>12. \A m \in Nodeids : u.inodes[m].nlookup = t.inodes[m].nlookup
  BY <1>3, <1>6
<1> QED
  BY <1>2, <1>3, <1>6, <1>8, <1>9, <1>10, <1>11, <1>12 DEF TableOK, L

LEMMA BindAgrees ==
  ASSUME NEW t, TableOK(t), NEW p \in Paths \ {Top}, NEW key \in Inos \cup {NoKey},
         CanBind(t, p, key)
  PROVE  LET n == BoundTo(t, p, key)
             u == Bind(t, p, key)
         IN /\ TableOK(u) /\ n \in Nodeids \ {Root} /\ u.live = t.live \cup {n}
            /\ \A m \in Nodeids : u.inodes[m].nlookup = t.inodes[m].nlookup
            /\ n \notin t.live => t.inodes[n] = Unborn
            /\ u.inodes[n].key = key
            /\ \A m \in Nodeids \ {n} : u.inodes[m].key = t.inodes[m].key
            /\ \A q \in Paths : u.byPath[q] = IF q = p THEN n ELSE t.byPath[q]
<1> DEFINE n == BoundTo(t, p, key)
<1>1. /\ n \in Nodeids \ {Root}
      /\ n \in t.live \/ (n = t.next /\ n \notin t.live /\ t.inodes[n] = Unborn)
      /\ key \in Inos => t.byKey[key] \in {None, n}
      /\ n \in t.live => t.inodes[n].key \in {NoKey, key}
  BY BoundIs
<1> HIDE DEF n
<1> DEFINE minted == IF n = t.next
                     THEN [t EXCEPT !.inodes[n].key = key, !.live = @ \cup {n}, !.next = @ + 1]
                     ELSE t
           freed == IF t.byPath[p] \notin {None, n} THEN DetachPath(minted, t.byPath[p], p)
                                                    ELSE minted
           adopted == IF freed.inodes[n].key = NoKey THEN [freed EXCEPT !.inodes[n].key = key]
                                                     ELSE freed
<1>2. Bind(t, p, key) = AttachPath(adopted, n, p)
  BY DEF Bind, n
<1>3. t \in Table /\ t.live \subseteq Nodeids /\ None \notin Nodeids
  BY TableParts DEF TableOK, Nodeids, None, Root
<1>4. /\ TableOK(minted) /\ minted.live = t.live \cup {n} /\ minted.byPath = t.byPath
      /\ minted.byKey = t.byKey /\ minted.inodes[n].key \in {NoKey, key}
      /\ \A m \in Nodeids : minted.inodes[m].nlookup = t.inodes[m].nlookup
      /\ \A m \in Nodeids \ {n} : minted.inodes[m].key = t.inodes[m].key
  <2>1. CASE n = t.next
    <3>1. n \notin t.live /\ t.inodes[n] = Unborn
      BY <1>1, <2>1, <1>3 DEF TableOK, Blank, Nodeids, Root
    <3> DEFINE v == Minted(t, n, key)
    <3>2. /\ TableOK(v) /\ v.live = t.live \cup {n} /\ v.byPath = t.byPath /\ v.byKey = t.byKey
          /\ v.inodes[n].key = key
          /\ \A m \in Nodeids : v.inodes[m].nlookup = t.inodes[m].nlookup
          /\ \A m \in Nodeids \ {n} : v.inodes[m].key = t.inodes[m].key
      <4>1. n \in Nodeids /\ n = t.next
        BY <1>1, <2>1
      <4> QED
        BY <3>1, <4>1, MintAgrees
    <3>3. minted = v
      BY <2>1 DEF Minted
    <3> HIDE DEF v, minted
    <3> QED
      BY <3>2, <3>3
  <2>2. CASE n # t.next
    BY <1>1, <2>2
  <2> QED
    BY <2>1, <2>2
<1> HIDE DEF minted
<1>5. /\ TableOK(freed) /\ freed.live = minted.live
      /\ \A m \in Nodeids : freed.inodes[m].nlookup = t.inodes[m].nlookup
      /\ freed.byPath[p] \in {None, n}
      /\ freed.inodes[n].key = minted.inodes[n].key
      /\ \A k \in Inos : freed.byKey[k] \in {None, minted.byKey[k]}
      /\ \A m \in Nodeids : freed.inodes[m].key = minted.inodes[m].key
      /\ \A q \in Paths \ {p} : freed.byPath[q] = t.byPath[q]
  <2>1. CASE t.byPath[p] \in {None, n}
    BY <1>4, <2>1
  <2>2. CASE t.byPath[p] \notin {None, n}
    <3> DEFINE b == t.byPath[p]
    <3>1. b \in minted.live /\ b \in Nodeids /\ b # n /\ minted.byPath[p] = b
      BY <1>3, <1>4, <2>2 DEF TableOK, PathsAgree
    <3>2. freed = DetachPath(minted, b, p)
      BY <2>2
    <3> HIDE DEF b, freed
    <3>3. TableOK(freed) /\ SameLookups(minted, freed)
      BY <1>4, <3>1, <3>2, DetachAgrees
    <3>4. minted \in Table
      BY <1>4 DEF TableOK
    <3>5. /\ \A m \in Nodeids : freed.inodes[m].key = minted.inodes[m].key
          /\ \A q \in Paths : freed.byPath[q] = IF q = p THEN None ELSE minted.byPath[q]
          /\ \A k \in Inos : freed.byKey[k] =
               IF Tracked(freed, b) = {} /\ k = minted.inodes[b].key /\ minted.byKey[k] = b
               THEN None ELSE minted.byKey[k]
      BY <3>1, <3>2, <3>4, DetachIs
    <3> QED
      BY <1>1, <1>4, <3>3, <3>5 DEF SameLookups
  <2> QED
    BY <2>1, <2>2
<1> HIDE DEF freed
<1>6. /\ adopted \in Table /\ adopted.live = freed.live /\ adopted.byPath = freed.byPath
      /\ adopted.byKey = freed.byKey /\ adopted.next = freed.next
      /\ adopted.inodes[n].key = key
      /\ \A m \in Nodeids \ {n} : adopted.inodes[m] = freed.inodes[m]
      /\ \A m \in Nodeids : adopted.inodes[m].nlookup = freed.inodes[m].nlookup
      /\ \A m \in Nodeids : Tracked(adopted, m) = Tracked(freed, m)
  <2> DEFINE J == [freed.inodes EXCEPT ![n] = [freed.inodes[n] EXCEPT !.key = key]]
             v == [freed EXCEPT !.inodes = J]
  <2>1. freed \in Table
    BY <1>5 DEF TableOK
  <2>2. [freed EXCEPT !.inodes[n].key = key] = v
    BY <2>1 DEF Table
  <2>3. /\ J \in [Nodeids -> Inode]
        /\ J[n].paths = freed.inodes[n].paths /\ J[n].key = key
        /\ J[n].nlookup = freed.inodes[n].nlookup
        /\ \A m \in Nodeids \ {n} : J[m] = freed.inodes[m]
    BY <1>1, <2>1, TableParts, KeyReplaced
  <2> HIDE DEF J
  <2>4. /\ v \in Table /\ v.inodes = J /\ v.live = freed.live /\ v.next = freed.next
        /\ v.byPath = freed.byPath /\ v.byKey = freed.byKey
    BY <2>1, <2>3 DEF Table
  <2> HIDE DEF v
  <2>5. CASE freed.inodes[n].key = NoKey
    BY <2>2, <2>3, <2>4, <2>5 DEF Tracked
  <2>6. CASE freed.inodes[n].key # NoKey
    BY <1>4, <1>5, <2>1, <2>6
  <2> QED
    BY <2>5, <2>6
<1> HIDE DEF adopted
<1>7. Blank(adopted) /\ RootKept(adopted) /\ PathsAgree(adopted)
  <2>1. Blank(adopted)
    <3>1. \A m \in Nodeids : m >= adopted.next => m # n
      BY <1>4, <1>5, <1>6 DEF TableOK, Blank
    <3> QED
      BY <1>5, <1>6, <3>1 DEF TableOK, Blank
  <2>2. RootKept(adopted)
    BY <1>1, <1>3, <1>5, <1>6 DEF TableOK, RootKept, Nodeids, Root
  <2>3. PathsAgree(adopted)
    <3>1. freed.live \subseteq Nodeids
      BY <1>5, TableParts DEF TableOK
    <3> QED
      BY <1>5, <1>6, <3>1 DEF TableOK, PathsAgree
  <2> QED
    BY <2>1, <2>2, <2>3
<1>8. TableOK(AttachPath(adopted, n, p)) /\ SameLookups(adopted, AttachPath(adopted, n, p))
  <2>1. n \in adopted.live \ {Root} /\ adopted.byPath[p] \in {None, n}
    BY <1>1, <1>4, <1>5, <1>6
  <2>2. \A k \in Inos : adopted.byKey[k] \in adopted.live \cup {None}
    BY <1>5, <1>6 DEF TableOK, KeysAgree
  <2>3. \A k \in Inos, m \in adopted.live \ {n} :
          adopted.byKey[k] = m <=> (adopted.inodes[m].key = k /\ Tracked(adopted, m) # {})
    <3>1. freed.live \subseteq Nodeids
      BY <1>5, TableParts DEF TableOK
    <3> QED
      BY <1>5, <1>6, <3>1 DEF TableOK, KeysAgree
  <2>4. \A k \in Inos : adopted.byKey[k] = n => adopted.inodes[n].key = k
    <3>1. ASSUME NEW k \in Inos, adopted.byKey[k] = n
          PROVE  freed.inodes[n].key = k
      BY <1>4, <1>5, <1>6, <3>1 DEF TableOK, KeysAgree
    <3> QED
      BY <1>4, <1>5, <1>6, <3>1, NoKeyAssumption
  <2>5. \A k \in Inos : adopted.inodes[n].key = k => adopted.byKey[k] \in {None, n}
    BY <1>1, <1>4, <1>5, <1>6
  <2> QED
    BY <1>6, <1>7, <2>1, <2>2, <2>3, <2>4, <2>5, AttachAgrees
<1>9. n \notin t.live => t.inodes[n] = Unborn
  BY <1>1
<1> DEFINE u == Bind(t, p, key)
<1>10. /\ TableOK(u) /\ n \in Nodeids \ {Root} /\ u.live = t.live \cup {n}
       /\ \A m \in Nodeids : u.inodes[m].nlookup = t.inodes[m].nlookup
  BY <1>1, <1>2, <1>4, <1>5, <1>6, <1>8 DEF SameLookups
<1>11. /\ \A m \in Nodeids : u.inodes[m].key = adopted.inodes[m].key
       /\ \A q \in Paths : u.byPath[q] = IF q = p THEN n ELSE adopted.byPath[q]
  BY <1>1, <1>2, <1>6, AttachIs
<1> HIDE DEF u
<1>12. /\ u.inodes[n].key = key
       /\ \A m \in Nodeids \ {n} : u.inodes[m].key = t.inodes[m].key
       /\ \A q \in Paths : u.byPath[q] = IF q = p THEN n ELSE t.byPath[q]
  BY <1>1, <1>4, <1>5, <1>6, <1>11
<1> QED
  BY <1>9, <1>10, <1>12 DEF n, u

LEMMA LookupsReplaced ==
  ASSUME NEW I \in [Nodeids -> Inode], NEW n \in Nodeids, NEW c \in Nat
  PROVE  LET J == [I EXCEPT ![n] = [I[n] EXCEPT !.nlookup = c]]
         IN /\ J \in [Nodeids -> Inode]
            /\ J[n].paths = I[n].paths /\ J[n].key = I[n].key /\ J[n].nlookup = c
            /\ \A m \in Nodeids \ {n} : J[m] = I[m]
<1> DEFINE x == [I[n] EXCEPT !.nlookup = c]
<1>1. I[n] \in Inode
  OBVIOUS
<1>2. x \in Inode /\ x.nlookup = c /\ x.paths = I[n].paths /\ x.key = I[n].key
  BY <1>1 DEF Inode
<1> HIDE DEF x
<1>3. LET J == [I EXCEPT ![n] = x]
      IN J \in [Nodeids -> Inode] /\ J[n] = x /\ \A m \in Nodeids \ {n} : J[m] = I[m]
  BY <1>2
<1> QED
  BY <1>2, <1>3 DEF x

Counted(t, n, c) == [t EXCEPT !.inodes = [t.inodes EXCEPT ![n] = [t.inodes[n] EXCEPT !.nlookup = c]]]

LEMMA CountedAgrees ==
  ASSUME NEW t, TableOK(t), NEW n \in t.live, NEW c \in Nat
  PROVE  LET u == Counted(t, n, c)
         IN /\ TableOK(u) /\ u.live = t.live /\ u.inodes[n].nlookup = c
            /\ u.byPath = t.byPath /\ SameKeys(t, u)
            /\ \A m \in Nodeids \ {n} : u.inodes[m].nlookup = t.inodes[m].nlookup
<1> DEFINE J == [t.inodes EXCEPT ![n] = [t.inodes[n] EXCEPT !.nlookup = c]]
           u == [t EXCEPT !.inodes = J]
<1>1. t \in Table /\ t.live \subseteq Nodeids /\ n \in Nodeids /\ t.inodes \in [Nodeids -> Inode]
  BY TableParts DEF TableOK
<1>2. /\ J \in [Nodeids -> Inode]
      /\ J[n].paths = t.inodes[n].paths /\ J[n].key = t.inodes[n].key /\ J[n].nlookup = c
      /\ \A m \in Nodeids \ {n} : J[m] = t.inodes[m]
  BY <1>1, LookupsReplaced
<1> HIDE DEF J
<1>3. /\ u \in Table /\ u.inodes = J /\ u.live = t.live /\ u.next = t.next
      /\ u.byPath = t.byPath /\ u.byKey = t.byKey
  BY <1>1, <1>2 DEF Table
<1> HIDE DEF u
<1>4. \A m \in Nodeids : Tracked(u, m) = Tracked(t, m) /\ u.inodes[m].key = t.inodes[m].key
  BY <1>2, <1>3 DEF Tracked
<1>5. Blank(u)
  <2>1. \A m \in Nodeids : m >= t.next => m # n
    BY DEF TableOK, Blank
  <2> QED
    BY <1>2, <1>3, <2>1 DEF TableOK, Blank
<1>6. RootKept(u)
  BY <1>1, <1>3, <1>4 DEF TableOK, RootKept
<1>7. PathsAgree(u)
  BY <1>1, <1>3, <1>4 DEF TableOK, PathsAgree
<1>8. KeysAgree(u)
  BY <1>1, <1>3, <1>4 DEF TableOK, KeysAgree
<1> QED
  BY <1>2, <1>3, <1>4, <1>5, <1>6, <1>7, <1>8 DEF TableOK, SameKeys, Counted, u, J

LEMMA AcquireAgrees ==
  ASSUME NEW t, TableOK(t), NEW n \in t.live
  PROVE  LET u == Acquire(t, n)
         IN /\ TableOK(u) /\ u.live = t.live /\ u.byPath = t.byPath /\ SameKeys(t, u)
            /\ u.inodes[n].nlookup = t.inodes[n].nlookup + 1
            /\ \A m \in Nodeids \ {n} : u.inodes[m].nlookup = t.inodes[m].nlookup
<1> DEFINE c == t.inodes[n].nlookup + 1
<1>1. t \in Table /\ n \in Nodeids
  BY TableParts DEF TableOK
<1>2. c \in Nat
  BY <1>1, TrackedTyped
<1>3. Acquire(t, n) = Counted(t, n, c)
  BY <1>1 DEF Acquire, Counted, Table
<1> HIDE DEF c
<1>4. LET u == Counted(t, n, c)
      IN /\ TableOK(u) /\ u.live = t.live /\ u.inodes[n].nlookup = c
         /\ u.byPath = t.byPath /\ SameKeys(t, u)
         /\ \A m \in Nodeids \ {n} : u.inodes[m].nlookup = t.inodes[m].nlookup
  BY <1>2, CountedAgrees
<1> QED
  BY <1>3, <1>4 DEF c

\* forget: an inode whose last lookup goes is dropped with its paths.
LEMMA ForgetAgrees ==
  ASSUME NEW t, TableOK(t), NEW n \in t.live \ {Root}, NEW count \in Nat,
         count <= t.inodes[n].nlookup
  PROVE  LET u == Forget(t, n, count)
         IN /\ TableOK(u)
            /\ \A m \in Nodeids \ {n} : u.inodes[m].nlookup = t.inodes[m].nlookup
            /\ u.inodes[n].nlookup = t.inodes[n].nlookup - count
            /\ u.live = IF count = t.inodes[n].nlookup THEN t.live \ {n} ELSE t.live
            /\ \A p \in Paths : u.byPath[p] \in {None, t.byPath[p]}
            /\ SameKeys(t, u)
<1> DEFINE c == t.inodes[n].nlookup - count
<1>1. /\ t \in Table /\ t.live \subseteq Nodeids /\ n \in Nodeids
      /\ t.inodes \in [Nodeids -> Inode] /\ None \notin Nodeids
  BY TableParts DEF TableOK, Nodeids, Root, None
<1>2. t.inodes[n] \in Inode /\ t.inodes[n].nlookup \in Nat
  BY <1>1, TrackedTyped
<1>3. c \in Nat
  BY <1>2
<1>4. CASE count # t.inodes[n].nlookup
  <2>1. ~DropsInode(t, n, count)
    BY <1>2, <1>4 DEF DropsInode
  <2>2. Forget(t, n, count) = Counted(t, n, c)
    BY <1>1, <2>1 DEF Forget, Counted, Table
  <2> HIDE DEF c
  <2>3. LET u == Counted(t, n, c)
        IN /\ TableOK(u) /\ u.live = t.live /\ u.inodes[n].nlookup = c
           /\ u.byPath = t.byPath /\ SameKeys(t, u)
           /\ \A m \in Nodeids \ {n} : u.inodes[m].nlookup = t.inodes[m].nlookup
    BY <1>3, CountedAgrees
  <2> QED
    BY <1>4, <2>2, <2>3 DEF c
<1>5. CASE count = t.inodes[n].nlookup
  <2> DEFINE x == [t.inodes[n] EXCEPT !.nlookup = c, !.paths = <<>>]
             J == [t.inodes EXCEPT ![n] = x]
             B == [p \in Paths |-> IF p \in Tracked(t, n) THEN None ELSE t.byPath[p]]
             L == t.live \ {n}
             v == [t EXCEPT !.inodes = J, !.byPath = B, !.live = L]
             u == Forget(t, n, count)
  <2>1. DropsInode(t, n, count)
    BY <1>2, <1>5 DEF DropsInode
  <2>2. u = ReleaseKey(v, n)
    <3> DEFINE d == [t EXCEPT !.inodes[n] = [@ EXCEPT !.nlookup = t.inodes[n].nlookup - count,
                                                      !.paths = <<>>],
                              !.byPath = [p \in Paths |-> IF p \in Tracked(t, n) THEN None ELSE @[p]],
                              !.live = @ \ {n}]
    <3>1. d = v
      BY <1>1 DEF Table
    <3>2. u = ReleaseKey(d, n)
      BY <2>1 DEF Forget
    <3> HIDE DEF d, v, u
    <3> QED
      BY <3>1, <3>2
  <2> HIDE DEF c
  <2>3. x \in Inode /\ x.nlookup = c /\ x.paths = <<>> /\ x.key = t.inodes[n].key
    <3>1. PICK r : r = t.inodes[n]
      OBVIOUS
    <3>2. <<>> \in Seq(Paths)
      OBVIOUS
    <3>3. PICK none \in Seq(Paths) : none = <<>>
      BY <3>2
    <3>4. LET y == [r EXCEPT !.nlookup = c, !.paths = none]
          IN y \in Inode /\ y.nlookup = c /\ y.paths = none /\ y.key = r.key
      BY <1>2, <1>3, <3>1 DEF Inode
    <3> QED
      BY <3>1, <3>3, <3>4
  <2> HIDE DEF x
  <2>4. J \in [Nodeids -> Inode] /\ J[n] = x /\ \A m \in Nodeids \ {n} : J[m] = t.inodes[m]
    BY <1>1, <2>3
  <2>5. /\ B \in [Paths -> Nodeids \cup {None}]
        /\ \A p \in Paths : B[p] = IF p \in Tracked(t, n) THEN None ELSE t.byPath[p]
    BY <1>1, TableParts
  <2>6. L \in SUBSET Nodeids
    BY <1>1
  <2> HIDE DEF J, B, L
  <2>7. /\ v \in Table /\ v.inodes = J /\ v.live = L /\ v.next = t.next
        /\ v.byPath = B /\ v.byKey = t.byKey
    BY <1>1, <2>4, <2>5, <2>6 DEF Table
  <2> HIDE DEF v, u
  <2>8. /\ u \in Table /\ u.inodes = J /\ u.live = L /\ u.byPath = B /\ u.next = t.next
        /\ \A k \in Inos : u.byKey[k] = IF k = t.inodes[n].key /\ t.byKey[k] = n
                                        THEN None ELSE t.byKey[k]
    <3>1. /\ u \in Table /\ u.inodes = v.inodes /\ u.live = v.live /\ u.byPath = v.byPath
          /\ u.next = v.next
          /\ \A k \in Inos : u.byKey[k] = IF k = v.inodes[n].key /\ v.byKey[k] = n
                                          THEN None ELSE v.byKey[k]
      BY <1>1, <2>2, <2>7, ReleaseIs
    <3> QED
      BY <2>3, <2>4, <2>7, <3>1
  <2>9. /\ \A m \in Nodeids \ {n} : Tracked(u, m) = Tracked(t, m) /\ u.inodes[m] = t.inodes[m]
        /\ u.inodes[n].nlookup = c
    BY <2>3, <2>4, <2>8 DEF Tracked
  <2>10. Blank(u)
    <3>1. \A m \in Nodeids : m >= t.next => m # n
      BY DEF TableOK, Blank
    <3> QED
      BY <2>8, <2>9, <3>1 DEF TableOK, Blank, L
  <2>11. RootKept(u)
    <3>1. Root \in Nodeids \ {n}
      BY <1>1 DEF TableOK, RootKept
    <3> QED
      BY <2>8, <2>9, <3>1 DEF TableOK, RootKept, L
  <2>12. PathsAgree(u)
    <3>1. ASSUME NEW p \in Paths, NEW m \in u.live
          PROVE  u.byPath[p] = m <=> p \in Tracked(u, m)
      BY <1>1, <2>5, <2>8, <2>9 DEF TableOK, PathsAgree, L
    <3>2. \A p \in Paths : u.byPath[p] \in u.live \cup {None}
      BY <1>1, <2>5, <2>8, <2>9 DEF TableOK, PathsAgree, L
    <3> QED
      BY <3>1, <3>2 DEF PathsAgree
  <2>13. KeysAgree(u)
    <3>1. ASSUME NEW k \in Inos, NEW m \in u.live
          PROVE  u.byKey[k] = m <=> (u.inodes[m].key = k /\ Tracked(u, m) # {})
      BY <1>1, <2>8, <2>9 DEF TableOK, KeysAgree, L
    <3>2. \A k \in Inos : u.byKey[k] \in u.live \cup {None}
      BY <1>1, <2>8 DEF TableOK, KeysAgree, L
    <3> QED
      BY <3>1, <3>2 DEF KeysAgree
  <2>14. SameKeys(t, u)
    BY <1>1, <2>3, <2>4, <2>8, <2>9 DEF SameKeys
  <2> QED
    BY <1>5, <2>5, <2>8, <2>9, <2>10, <2>11, <2>12, <2>13, <2>14 DEF TableOK, u, c, L
<1> QED
  BY <1>4, <1>5

\* clear, once destroy() is through.
LEMMA ClearAgrees ==
  ASSUME NEW t, TableOK(t)
  PROVE  /\ TableOK(Clear(t)) /\ Clear(t).live = {Root} /\ SameKeys(t, Clear(t))
         /\ \A p \in Paths : Clear(t).byPath[p] = IF p = Top THEN Root ELSE None
<1> DEFINE J == [t.inodes EXCEPT ![Root] = [t.inodes[Root] EXCEPT !.paths = <<Top>>]]
           B == [p \in Paths |-> IF p = Top THEN Root ELSE None]
           K == [k \in Inos |-> None]
           u == [t EXCEPT !.live = {Root}, !.inodes = J, !.byPath = B, !.byKey = K]
<1>1. /\ t \in Table /\ t.live \subseteq Nodeids /\ Root \in Nodeids
      /\ t.inodes \in [Nodeids -> Inode] /\ None \notin Nodeids
      /\ Top \in Paths /\ <<Top>> \in Seq(Paths) /\ t.next \in Nat /\ t.next > Root
  BY TableParts, InodesAssumption DEF TableOK, Nodeids, Root, None
<1>2. Clear(t) = u
  BY <1>1 DEF Clear, NewTable, Table
<1>3. /\ J \in [Nodeids -> Inode]
      /\ J[Root].paths = <<Top>> /\ J[Root].key = t.inodes[Root].key
      /\ \A m \in Nodeids \ {Root} : J[m] = t.inodes[m]
  <2>1. PICK ps \in Seq(Paths) : ps = <<Top>>
    BY <1>1
  <2>2. LET I == [t.inodes EXCEPT ![Root] = [t.inodes[Root] EXCEPT !.paths = ps]]
        IN /\ I \in [Nodeids -> Inode]
           /\ I[Root].paths = ps /\ I[Root].key = t.inodes[Root].key
           /\ \A m \in Nodeids \ {Root} : I[m] = t.inodes[m]
    BY <1>1, PathsReplaced
  <2> QED
    BY <2>1, <2>2
<1>4. /\ B \in [Paths -> Nodeids \cup {None}] /\ K \in [Inos -> Nodeids \cup {None}]
      /\ \A p \in Paths : B[p] = IF p = Top THEN Root ELSE None
      /\ \A k \in Inos : K[k] = None
  BY <1>1
<1> HIDE DEF J, B, K
<1>5. /\ u \in Table /\ u.inodes = J /\ u.live = {Root} /\ u.next = t.next
      /\ u.byPath = B /\ u.byKey = K
  BY <1>1, <1>3, <1>4 DEF Table
<1> HIDE DEF u
<1>6. Tracked(u, Root) = {Top} /\ u.inodes[Root].key = NoKey
  BY <1>3, <1>5 DEF Tracked, ToSet, TableOK, RootKept
<1>7. Blank(u)
  <2>1. \A m \in Nodeids : m >= t.next => m # Root
    BY DEF TableOK, Blank, RootKept
  <2> QED
    BY <1>3, <1>5, <2>1 DEF TableOK, Blank
<1>8. TableOK(u)
  BY <1>1, <1>4, <1>5, <1>6, <1>7, NoKeyAssumption
     DEF TableOK, RootKept, PathsAgree, KeysAgree
<1>9. SameKeys(t, u)
  <2>1. \A m \in Nodeids : u.inodes[m].key = t.inodes[m].key
    BY <1>3, <1>5
  <2> QED
    BY <2>1 DEF SameKeys
<1> QED
  BY <1>2, <1>4, <1>5, <1>8, <1>9

LEMMA NewTableAgrees == TableOK(NewTable)
<1> DEFINE t == NewTable
           J == [n \in Nodeids |->
                   IF n = Root THEN [Unborn EXCEPT !.nlookup = 1, !.paths = <<Top>>] ELSE Unborn]
           B == [p \in Paths |-> IF p = Top THEN Root ELSE None]
           K == [k \in Inos |-> None]
<1>1. /\ t.inodes = J /\ t.live = {Root} /\ t.next = Root + 1 /\ t.byPath = B /\ t.byKey = K
      /\ t = [inodes |-> J, live |-> {Root}, byPath |-> B, byKey |-> K, next |-> Root + 1]
  BY DEF NewTable
<1>2. /\ Root \in Nodeids /\ None \notin Nodeids /\ Root + 1 \in 2 .. MaxNodeid + 1
      /\ Top \in Paths /\ <<Top>> \in Seq(Paths)
  BY InodesAssumption DEF Nodeids, Root, None
<1>3. /\ J[Root].key = NoKey /\ J[Root].paths = <<Top>>
      /\ \A n \in Nodeids \ {Root} : J[n] = Unborn
      /\ J \in [Nodeids -> Inode]
  <2>0. <<>> \in Seq(Paths)
    OBVIOUS
  <2>1. PICK none \in Seq(Paths), top \in Seq(Paths) : none = <<>> /\ top = <<Top>>
    BY <1>2, <2>0
  <2>2. Unborn \in Inode /\ Unborn.key = NoKey
    BY <2>1 DEF Unborn, Inode
  <2> DEFINE r == [Unborn EXCEPT !.nlookup = 1, !.paths = top]
  <2>3. r \in Inode /\ r.key = NoKey /\ r.paths = top
    BY <2>2 DEF Inode
  <2>4. \A n \in Nodeids : J[n] = IF n = Root THEN r ELSE Unborn
    BY <2>1
  <2>5. J = [n \in Nodeids |-> IF n = Root THEN r ELSE Unborn]
    BY <2>1
  <2> HIDE DEF r, J
  <2> QED
    BY <1>2, <2>1, <2>2, <2>3, <2>4, <2>5
<1>4. /\ B \in [Paths -> Nodeids \cup {None}] /\ K \in [Inos -> Nodeids \cup {None}]
      /\ \A p \in Paths : B[p] = IF p = Top THEN Root ELSE None
      /\ \A k \in Inos : K[k] = None
  BY <1>2
<1> HIDE DEF J, B, K
<1>5. t \in Table
  BY <1>1, <1>2, <1>3, <1>4 DEF Table
<1> HIDE DEF t
<1>6. Tracked(t, Root) = {Top} /\ t.inodes[Root].key = NoKey
  BY <1>1, <1>3 DEF Tracked, ToSet
<1>7. Blank(t)
  <2>1. \A m \in Nodeids : m >= Root + 1 => m # Root
    BY DEF Root
  <2> QED
    BY <1>1, <1>3, <2>1 DEF Blank
<1> QED
  BY <1>1, <1>2, <1>4, <1>5, <1>6, <1>7, NoKeyAssumption
     DEF TableOK, RootKept, PathsAgree, KeysAgree, t

-----------------------------------------------------------------------------
(* remap                                                                   *)

LEMMA RangeOfConcat ==
  ASSUME NEW S, NEW s \in Seq(S), NEW r \in Seq(S)
  PROVE  s \o r \in Seq(S) /\ ToSet(s \o r) = ToSet(s) \cup ToSet(r)
<1> DEFINE c == s \o r
<1>1. /\ Len(s) \in Nat /\ Len(r) \in Nat
      /\ DOMAIN s = 1 .. Len(s) /\ DOMAIN r = 1 .. Len(r)
  OBVIOUS
<1>2. /\ c \in Seq(S) /\ Len(c) = Len(s) + Len(r)
      /\ \A i \in 1 .. Len(s) + Len(r) : c[i] = IF i <= Len(s) THEN s[i] ELSE r[i - Len(s)]
  BY ConcatProperties
<1> HIDE DEF c
<1>3. DOMAIN c = 1 .. Len(s) + Len(r)
  BY <1>2
<1>4. \A x \in ToSet(c) : x \in ToSet(s) \cup ToSet(r)
  <2>1. ASSUME NEW i \in 1 .. Len(s) + Len(r)
        PROVE  c[i] \in ToSet(s) \cup ToSet(r)
    <3>1. CASE i <= Len(s)
      <4>1. i \in 1 .. Len(s) /\ c[i] = s[i]
        BY <1>1, <1>2, <3>1
      <4> QED
        BY <1>1, <4>1 DEF ToSet
    <3>2. CASE ~(i <= Len(s))
      <4>1. i - Len(s) \in 1 .. Len(r) /\ c[i] = r[i - Len(s)]
        BY <1>1, <1>2, <3>2
      <4> QED
        BY <1>1, <4>1 DEF ToSet
    <3> QED
      BY <3>1, <3>2
  <2> QED
    BY <1>3, <2>1 DEF ToSet
<1>5. \A x \in ToSet(s) : x \in ToSet(c)
  <2>1. \A i \in 1 .. Len(s) : i \in 1 .. Len(s) + Len(r) /\ c[i] = s[i]
    BY <1>1, <1>2
  <2> QED
    BY <1>1, <1>3, <2>1 DEF ToSet
<1>6. \A x \in ToSet(r) : x \in ToSet(c)
  <2>1. ASSUME NEW j \in 1 .. Len(r)
        PROVE  \E i \in 1 .. Len(s) + Len(r) : c[i] = r[j]
    <3>1. PICK i : i = Len(s) + j
      OBVIOUS
    <3>2. i \in 1 .. Len(s) + Len(r) /\ ~(i <= Len(s)) /\ i - Len(s) = j
      BY <1>1, <3>1
    <3> QED
      BY <1>2, <3>2
  <2> QED
    BY <1>1, <1>3, <2>1 DEF ToSet
<1> QED
  BY <1>2, <1>4, <1>5, <1>6 DEF c

\* Many inodes' paths replaced at once.
Relinked(I, N, new) ==
  [n \in Nodeids |-> IF n \in N THEN [I[n] EXCEPT !.paths = new[n]] ELSE I[n]]

LEMMA ManyReplaced ==
  ASSUME NEW I \in [Nodeids -> Inode], NEW N, NEW new,
         \A n \in Nodeids : n \in N => new[n] \in Seq(Paths)
  PROVE  LET J == Relinked(I, N, new)
         IN /\ J \in [Nodeids -> Inode]
            /\ \A n \in Nodeids : /\ J[n].key = I[n].key /\ J[n].nlookup = I[n].nlookup
                                  /\ J[n].paths = IF n \in N THEN new[n] ELSE I[n].paths
                                  /\ n \notin N => J[n] = I[n]
<1> DEFINE x(n) == IF n \in N THEN [I[n] EXCEPT !.paths = new[n]] ELSE I[n]
<1>1. ASSUME NEW n \in Nodeids
      PROVE  /\ x(n) \in Inode /\ x(n).key = I[n].key /\ x(n).nlookup = I[n].nlookup
             /\ x(n).paths = IF n \in N THEN new[n] ELSE I[n].paths
             /\ n \notin N => x(n) = I[n]
  <2>1. I[n] \in Inode
    OBVIOUS
  <2>2. CASE n \in N
    <3>1. PICK ps \in Seq(Paths) : ps = new[n]
      BY <2>2
    <3>2. LET y == [I[n] EXCEPT !.paths = ps]
          IN y \in Inode /\ y.key = I[n].key /\ y.nlookup = I[n].nlookup /\ y.paths = ps
      BY <2>1 DEF Inode
    <3> QED
      BY <2>2, <3>1, <3>2
  <2>3. CASE n \notin N
    BY <2>1, <2>3
  <2> QED
    BY <2>2, <2>3
<1> HIDE DEF x
<1>2. LET J == [n \in Nodeids |-> x(n)]
      IN J \in [Nodeids -> Inode] /\ \A n \in Nodeids : J[n] = x(n)
  BY <1>1
<1>3. Relinked(I, N, new) = [n \in Nodeids |-> x(n)]
  BY DEF Relinked, x
<1> QED
  BY <1>1, <1>2, <1>3

\* What a rename replaces loses its paths at and under the destination.
LEMMA ReplacedAgrees ==
  ASSUME NEW t, TableOK(t), NEW to \in Paths \ {Top}
  PROVE  LET u == Replaced(t, to)
         IN /\ TableOK(u) /\ SameLookups(t, u) /\ SameKeys(t, u)
            /\ \A p \in Paths : u.byPath[p] = IF Inside(p, to) THEN None ELSE t.byPath[p]
<1> DEFINE gone == {p \in Paths : Inside(p, to) /\ t.byPath[p] # None}
           losers == {t.byPath[p] : p \in gone}
           orphans == {n \in losers : Tracked(t, n) \subseteq gone}
           left == [n \in Nodeids |-> Without(t.inodes[n].paths, gone)]
           J == Relinked(t.inodes, losers, left)
           B == [p \in Paths |-> IF p \in gone THEN None ELSE t.byPath[p]]
           K == [k \in Inos |-> IF t.byKey[k] \in orphans /\ t.inodes[t.byKey[k]].key = k
                                THEN None ELSE t.byKey[k]]
           u == [t EXCEPT !.inodes = J, !.byPath = B, !.byKey = K]
<1>1. Replaced(t, to) = u
  BY DEF Replaced, Relinked
<1>2. /\ t \in Table /\ t.live \subseteq Nodeids /\ None \notin Nodeids /\ Root \in Nodeids
      /\ t.inodes \in [Nodeids -> Inode]
  BY TableParts DEF TableOK, Nodeids, Root, None, RootKept
<1>3. losers \subseteq t.live /\ Top \notin gone /\ gone \subseteq Paths
  BY TopIsOutside DEF TableOK, PathsAgree
<1>4. \A p \in gone : t.byPath[p] \in losers
  OBVIOUS
<1>5. \A p \in Paths : p \in gone <=> (Inside(p, to) /\ t.byPath[p] # None)
  OBVIOUS
<1>6. \A n : n \in orphans <=> (n \in losers /\ Tracked(t, n) \subseteq gone)
  OBVIOUS
<1> HIDE DEF gone, losers, orphans
<1>7. \A n \in Nodeids : left[n] \in Seq(Paths) /\ ToSet(left[n]) = Tracked(t, n) \ gone
  <2>1. ASSUME NEW n \in Nodeids
        PROVE  left[n] \in Seq(Paths) /\ ToSet(left[n]) = Tracked(t, n) \ gone
    <3>1. t.inodes[n].paths \in Seq(Paths)
      BY <1>2, TrackedTyped
    <3> QED
      BY <3>1, WithoutIs DEF Tracked
  <2> QED
    BY <2>1
<1> HIDE DEF left
<1>8. /\ J \in [Nodeids -> Inode]
      /\ \A n \in Nodeids : /\ J[n].key = t.inodes[n].key /\ J[n].nlookup = t.inodes[n].nlookup
                            /\ J[n].paths = IF n \in losers THEN left[n] ELSE t.inodes[n].paths
                            /\ n \notin losers => J[n] = t.inodes[n]
  BY <1>2, <1>7, ManyReplaced
<1>9. /\ B \in [Paths -> Nodeids \cup {None}]
      /\ \A p \in Paths : B[p] = IF p \in gone THEN None ELSE t.byPath[p]
  BY <1>2, TableParts
<1>10. /\ K \in [Inos -> Nodeids \cup {None}]
       /\ \A k \in Inos : K[k] = IF t.byKey[k] \in orphans /\ t.inodes[t.byKey[k]].key = k
                                 THEN None ELSE t.byKey[k]
  BY <1>2, TableParts
<1> HIDE DEF J, B, K
<1>11. /\ u \in Table /\ u.inodes = J /\ u.byPath = B /\ u.byKey = K
       /\ u.live = t.live /\ u.next = t.next
  BY <1>2, <1>8, <1>9, <1>10 DEF Table
<1> HIDE DEF u
<1>12. \A n \in t.live : Tracked(u, n) = Tracked(t, n) \ gone
  <2>1. ASSUME NEW n \in t.live, n \notin losers
        PROVE  Tracked(u, n) = Tracked(t, n) /\ Tracked(t, n) \cap gone = {}
    <3>1. Tracked(u, n) = Tracked(t, n)
      BY <1>2, <1>8, <1>11, <2>1 DEF Tracked
    <3>2. ASSUME NEW p \in gone
          PROVE  p \notin Tracked(t, n)
      BY <1>3, <1>4, <2>1 DEF TableOK, PathsAgree
    <3> QED
      BY <3>1, <3>2
  <2>2. ASSUME NEW n \in losers
        PROVE  Tracked(u, n) = Tracked(t, n) \ gone
    <3>1. n \in Nodeids
      BY <1>2, <1>3
    <3> QED
      BY <1>7, <1>8, <1>11, <2>2, <3>1 DEF Tracked
  <2> QED
    BY <2>1, <2>2
<1>13. Blank(u)
  <2>1. ASSUME NEW n \in Nodeids, n >= t.next
        PROVE  n \notin losers
    BY <1>3, <2>1 DEF TableOK, Blank
  <2> QED
    BY <1>8, <1>11, <2>1 DEF TableOK, Blank
<1>14. RootKept(u)
  BY <1>2, <1>3, <1>8, <1>11, <1>12 DEF TableOK, RootKept
<1>15. PathsAgree(u)
  <2>1. ASSUME NEW p \in Paths, NEW n \in u.live
        PROVE  u.byPath[p] = n <=> p \in Tracked(u, n)
    BY <1>2, <1>9, <1>11, <1>12 DEF TableOK, PathsAgree
  <2>2. \A p \in Paths : u.byPath[p] \in u.live \cup {None}
    BY <1>9, <1>11 DEF TableOK, PathsAgree
  <2> QED
    BY <2>1, <2>2 DEF PathsAgree
<1>16. KeysAgree(u)
  <2>1. ASSUME NEW k \in Inos, NEW n \in u.live
        PROVE  u.byKey[k] = n <=> (u.inodes[n].key = k /\ Tracked(u, n) # {})
    <3>0. n \in t.live /\ n \in Nodeids /\ u.inodes[n].key = t.inodes[n].key
      BY <1>2, <1>8, <1>11
    <3>1. t.byKey[k] = n <=> (t.inodes[n].key = k /\ Tracked(t, n) # {})
      BY <3>0 DEF TableOK, KeysAgree
    <3>2. ASSUME t.byKey[k] = n
          PROVE  n \in orphans <=> Tracked(u, n) = {}
      <4>1. PICK p \in Tracked(t, n) : TRUE
        BY <3>1, <3>2
      <4>2. p \in Paths /\ t.byPath[p] = n
        BY <1>2, <3>0, <4>1, TrackedTyped DEF TableOK, PathsAgree
      <4>3. Tracked(t, n) \subseteq gone => n \in losers
        BY <1>4, <4>1, <4>2
      <4> QED
        BY <1>6, <1>12, <3>0, <4>3
    <3>3. u.byKey[k] = IF t.byKey[k] \in orphans /\ t.inodes[t.byKey[k]].key = k
                       THEN None ELSE t.byKey[k]
      BY <1>10, <1>11
    <3>4. CASE t.byKey[k] = n
      BY <1>2, <3>0, <3>1, <3>2, <3>3, <3>4
    <3>5. CASE t.byKey[k] # n
      BY <1>2, <1>12, <3>0, <3>1, <3>3, <3>5
    <3> QED
      BY <3>4, <3>5
  <2>2. \A k \in Inos : u.byKey[k] \in u.live \cup {None}
    BY <1>10, <1>11 DEF TableOK, KeysAgree
  <2> QED
    BY <2>1, <2>2 DEF KeysAgree
<1>17. SameLookups(t, u) /\ SameKeys(t, u)
  BY <1>8, <1>11 DEF SameLookups, SameKeys
<1>18. \A p \in Paths : u.byPath[p] = IF Inside(p, to) THEN None ELSE t.byPath[p]
  BY <1>5, <1>9, <1>11
<1> QED
  BY <1>1, <1>11, <1>13, <1>14, <1>15, <1>16, <1>17, <1>18 DEF TableOK

\* The tracked paths under `from` are renamed where the destination holds no
\* other tracked path.
LEMMA RewrittenAgrees ==
  ASSUME NEW t, TableOK(t), NEW from \in Paths \ {Top}, NEW to \in Paths \ {Top},
         \A p \in Paths : (Inside(p, from) /\ t.byPath[p] # None) => Moved(p, from, to) \in Paths,
         \A p \in Paths : (Inside(p, to) /\ t.byPath[p] # None) => Inside(p, from)
  PROVE  LET u == Rewritten(t, from, to)
         IN /\ TableOK(u) /\ SameLookups(t, u) /\ SameKeys(t, u)
            /\ \A q \in Paths : u.byPath[q] # None =>
                 \E p \in Paths : t.byPath[p] = u.byPath[q] /\ q = Moved(p, from, to)
<1> DEFINE M(p) == Moved(p, from, to)
           moving == {p \in Paths : Inside(p, from) /\ t.byPath[p] # None}
           arriving == {M(p) : p \in moving}
           origin(q) == CHOOSE p \in moving : M(p) = q
           movers == {t.byPath[p] : p \in moving}
           staying(n) == Without(t.inodes[n].paths, moving)
           leaving(n) == Without(t.inodes[n].paths, Paths \ moving)
           moved(n) == [i \in DOMAIN leaving(n) |-> M(leaving(n)[i])]
           new == [n \in Nodeids |-> staying(n) \o moved(n)]
           J == Relinked(t.inodes, movers, new)
           B == [p \in Paths |-> CASE p \in arriving -> t.byPath[origin(p)]
                                   [] p \in moving \ arriving -> None
                                   [] OTHER -> t.byPath[p]]
           K == [k \in Inos |-> IF \E n \in movers : t.inodes[n].key = k
                                THEN CHOOSE n \in movers : t.inodes[n].key = k
                                ELSE t.byKey[k]]
           u == [t EXCEPT !.inodes = J, !.byPath = B, !.byKey = K]
<1>1. Rewritten(t, from, to) = u
  BY DEF Rewritten, Relinked
<1>2. /\ t \in Table /\ t.live \subseteq Nodeids /\ None \notin Nodeids /\ Root \in Nodeids
      /\ t.inodes \in [Nodeids -> Inode] /\ t.byPath \in [Paths -> Nodeids \cup {None}]
      /\ t.byKey \in [Inos -> Nodeids \cup {None}]
  BY TableParts DEF TableOK, Nodeids, Root, None, RootKept
<1>3. movers \subseteq t.live /\ Top \notin moving /\ moving \subseteq Paths /\ arriving \subseteq Paths
  BY TopIsOutside DEF TableOK, PathsAgree
<1>4. /\ \A p \in moving : t.byPath[p] \in movers
      /\ \A n \in movers : \E p \in moving : t.byPath[p] = n
      /\ \A p \in moving : M(p) \in arriving
      /\ \A q \in arriving : \E p \in moving : M(p) = q
  OBVIOUS
<1>5. \A p \in Paths : (Inside(p, to) /\ t.byPath[p] # None) => p \in moving
  OBVIOUS
<1>6. \A q \in arriving : Inside(q, to)
  <2>1. \A p \in moving : Inside(M(p), to)
    <3>1. \A p \in Paths : p \in Seq(AllNames)
      BY PathIsSeq
    <3>2. \A p \in moving : p \in Seq(AllNames) /\ Inside(p, from)
      BY <3>1
    <3> QED
      BY <3>1, <3>2, MovedInside
  <2> QED
    BY <2>1
<1>7. ASSUME NEW p \in moving
      PROVE  origin(M(p)) = p
  <2>1. \A q \in Paths : q \in Seq(AllNames)
    BY PathIsSeq
  <2>2. ASSUME NEW q \in moving, M(q) = M(p)
        PROVE  q = p
    <3>1. /\ p \in Seq(AllNames) /\ q \in Seq(AllNames) /\ from \in Seq(AllNames)
          /\ to \in Seq(AllNames) /\ Inside(p, from) /\ Inside(q, from)
      BY <2>1
    <3> QED
      BY <2>2, <3>1, MovedApart
  <2> HIDE DEF M, moving
  <2> QED
    BY <2>2
<1>0. \A p \in Paths \ moving : t.byPath[p] # None => Moved(p, from, to) = p
  BY DEF Moved
<1> HIDE DEF M, moving, arriving, movers, origin
<1>8. \A n \in Nodeids : /\ new[n] \in Seq(Paths)
                         /\ ToSet(new[n]) = (Tracked(t, n) \ moving)
                                              \cup {M(p) : p \in Tracked(t, n) \cap moving}
  <2> TAKE n \in Nodeids
  <2> DEFINE ps == t.inodes[n].paths
             l == leaving(n)
             m == moved(n)
  <2>1. ps \in Seq(Paths)
    BY <1>2, TrackedTyped
  <2>2. staying(n) \in Seq(Paths) /\ ToSet(staying(n)) = ToSet(ps) \ moving
    BY <2>1, WithoutIs
  <2>3. l \in Seq(Paths) /\ ToSet(l) = ToSet(ps) \ (Paths \ moving)
    BY <2>1, WithoutIs
  <2>4. ToSet(l) = Tracked(t, n) \cap moving
    BY <1>2, <2>3, TrackedTyped DEF Tracked
  <2> HIDE DEF l
  <2>5. m = [i \in DOMAIN l |-> M(l[i])]
    BY DEF l
  <2> HIDE DEF m
  <2>6. Len(l) \in Nat /\ DOMAIN l = 1 .. Len(l) /\ \A i \in DOMAIN l : l[i] \in moving
    BY <2>3, <2>4 DEF ToSet
  <2>7. m \in Seq(Paths)
    <3>1. \A i \in 1 .. Len(l) : M(l[i]) \in Paths
      BY <1>3, <1>4, <2>6
    <3>2. m \in [1 .. Len(l) -> Paths]
      BY <2>5, <2>6, <3>1
    <3> QED
      BY <2>6, <3>2
  <2>8. ToSet(m) = {M(p) : p \in ToSet(l)}
    <3>1. DOMAIN m = DOMAIN l /\ \A i \in DOMAIN l : m[i] = M(l[i])
      BY <2>5
    <3> QED
      BY <3>1 DEF ToSet
  <2>9. new[n] = staying(n) \o m
    BY DEF m, new
  <2> HIDE DEF staying, new
  <2>10. new[n] \in Seq(Paths) /\ ToSet(new[n]) = ToSet(staying(n)) \cup ToSet(m)
    BY <2>2, <2>7, <2>9, RangeOfConcat
  <2> QED
    BY <2>2, <2>4, <2>8, <2>10 DEF Tracked
<1> HIDE DEF staying, leaving, moved, new
<1>9. /\ J \in [Nodeids -> Inode]
      /\ \A n \in Nodeids : /\ J[n].key = t.inodes[n].key /\ J[n].nlookup = t.inodes[n].nlookup
                            /\ J[n].paths = IF n \in movers THEN new[n] ELSE t.inodes[n].paths
                            /\ n \notin movers => J[n] = t.inodes[n]
  BY <1>2, <1>8, ManyReplaced
<1>10. \A q \in arriving : origin(q) \in moving /\ M(origin(q)) = q
  BY <1>4, <1>7
<1>11. /\ B \in [Paths -> Nodeids \cup {None}]
       /\ \A p \in arriving : B[p] = t.byPath[origin(p)]
       /\ \A p \in moving \ arriving : B[p] = None
       /\ \A p \in Paths \ (moving \cup arriving) : B[p] = t.byPath[p]
  BY <1>2, <1>3, <1>10
<1>12. \A k \in Inos : K[k] = t.byKey[k]
  <2>1. ASSUME NEW k \in Inos, NEW n \in movers, t.inodes[n].key = k
        PROVE  t.byKey[k] = n
    <3>1. PICK p \in moving : t.byPath[p] = n
      BY <1>4
    <3>2. p \in Tracked(t, n)
      BY <1>3, <3>1 DEF TableOK, PathsAgree
    <3> QED
      BY <1>3, <2>1, <3>2 DEF TableOK, KeysAgree
  <2> QED
    BY <2>1
<1>13. K \in [Inos -> Nodeids \cup {None}]
  <2>1. K = [k \in Inos |-> K[k]]
    OBVIOUS
  <2> HIDE DEF K
  <2> QED
    BY <1>2, <1>12, <2>1
<1> HIDE DEF J, B, K
<1>14. /\ u \in Table /\ u.inodes = J /\ u.byPath = B /\ u.byKey = K
       /\ u.live = t.live /\ u.next = t.next
  BY <1>2, <1>9, <1>11, <1>13 DEF Table
<1> HIDE DEF u
<1>15. \A n \in t.live : Tracked(u, n) = (Tracked(t, n) \ moving)
                                           \cup {M(p) : p \in Tracked(t, n) \cap moving}
  <2>1. ASSUME NEW n \in t.live, n \notin movers
        PROVE  Tracked(u, n) = Tracked(t, n) /\ Tracked(t, n) \cap moving = {}
    <3>1. Tracked(u, n) = Tracked(t, n)
      BY <1>2, <1>9, <1>14, <2>1 DEF Tracked
    <3>2. ASSUME NEW p \in moving
          PROVE  p \notin Tracked(t, n)
      BY <1>3, <1>4, <2>1 DEF TableOK, PathsAgree
    <3> QED
      BY <3>1, <3>2
  <2>2. ASSUME NEW n \in movers
        PROVE  Tracked(u, n) = (Tracked(t, n) \ moving)
                                 \cup {M(p) : p \in Tracked(t, n) \cap moving}
    <3>1. n \in Nodeids
      BY <1>2, <1>3
    <3> QED
      BY <1>8, <1>9, <1>14, <2>2, <3>1 DEF Tracked
  <2> QED
    BY <2>1, <2>2
<1>16. Blank(u)
  <2>1. ASSUME NEW n \in Nodeids, n >= t.next
        PROVE  n \notin movers
    BY <1>3, <2>1 DEF TableOK, Blank
  <2> QED
    BY <1>9, <1>14, <2>1 DEF TableOK, Blank
<1>17. RootKept(u)
  BY <1>2, <1>3, <1>9, <1>14, <1>15 DEF TableOK, RootKept
<1>18. PathsAgree(u)
  <2>1. ASSUME NEW q \in Paths, NEW n \in u.live
        PROVE  u.byPath[q] = n <=> q \in Tracked(u, n)
    <3>1. n \in t.live /\ n \in Nodeids
      BY <1>2, <1>14
    <3>2. \A p \in Paths : t.byPath[p] = n <=> p \in Tracked(t, n)
      BY <3>1 DEF TableOK, PathsAgree
    <3>3. CASE q \in arriving
      <4>1. u.byPath[q] = t.byPath[origin(q)] /\ origin(q) \in moving /\ M(origin(q)) = q
        BY <1>10, <1>11, <1>14, <3>3
      <4>2. q \notin Tracked(t, n) \ moving
        BY <1>2, <1>5, <1>6, <3>1, <3>2, <3>3
      <4>3. \A p \in Tracked(t, n) \cap moving : M(p) = q => p = origin(q)
        BY <1>7
      <4> QED
        BY <1>3, <1>15, <3>1, <3>2, <4>1, <4>2, <4>3
    <3>4. CASE q \in moving \ arriving
      BY <1>2, <1>4, <1>11, <1>14, <1>15, <3>1, <3>4
    <3>5. CASE q \in Paths \ (moving \cup arriving)
      BY <1>4, <1>11, <1>14, <1>15, <3>1, <3>2, <3>5
    <3> QED
      BY <3>3, <3>4, <3>5
  <2>2. \A q \in Paths : u.byPath[q] \in u.live \cup {None}
    <3>1. \A q \in Paths : t.byPath[q] \in t.live \cup {None}
      BY DEF TableOK, PathsAgree
    <3> QED
      BY <1>3, <1>10, <1>11, <1>14, <3>1
  <2> QED
    BY <2>1, <2>2 DEF PathsAgree
<1>19. KeysAgree(u)
  <2>1. \A n \in t.live : Tracked(u, n) = {} <=> Tracked(t, n) = {}
    BY <1>15
  <2> QED
    BY <1>2, <1>9, <1>12, <1>14, <2>1 DEF TableOK, KeysAgree
<1>20. SameLookups(t, u) /\ SameKeys(t, u)
  BY <1>9, <1>14 DEF SameLookups, SameKeys
<1>21. ASSUME NEW q \in Paths, u.byPath[q] # None
       PROVE  \E p \in Paths : t.byPath[p] = u.byPath[q] /\ q = Moved(p, from, to)
  <2>1. CASE q \in arriving
    <3>1. u.byPath[q] = t.byPath[origin(q)] /\ origin(q) \in moving /\ M(origin(q)) = q
      BY <1>10, <1>11, <1>14, <2>1
    <3> QED
      BY <1>3, <3>1 DEF M
  <2>2. CASE q \notin arriving
    <3>1. q \notin moving /\ u.byPath[q] = t.byPath[q]
      BY <1>11, <1>14, <1>21, <2>2
    <3> QED
      BY <1>0, <1>21, <3>1
  <2> QED
    BY <2>1, <2>2
<1> QED
  BY <1>1, <1>14, <1>16, <1>17, <1>18, <1>19, <1>20, <1>21 DEF TableOK

\* remap: a rename of a path onto itself or onto another one.
LEMMA RemapAgrees ==
  ASSUME NEW t, TableOK(t), NEW from \in Paths \ {Top}, NEW to \in Paths \ {Top},
         \A p \in Paths : (Inside(p, from) /\ t.byPath[p] # None) => Moved(p, from, to) \in Paths
  PROVE  LET u == Remap(t, from, to)
         IN /\ TableOK(u) /\ SameLookups(t, u) /\ SameKeys(t, u)
            /\ \A q \in Paths : u.byPath[q] # None =>
                 \E p \in Paths : /\ t.byPath[p] = u.byPath[q] /\ q = Moved(p, from, to)
                                  /\ from = to \/ ~Inside(p, to)
<1>1. CASE from = to
  BY <1>1, RewrittenAgrees DEF Remap
<1>2. CASE from # to
  <2> DEFINE u == Replaced(t, to)
             v == Rewritten(u, from, to)
  <2>1. /\ TableOK(u) /\ SameLookups(t, u) /\ SameKeys(t, u)
        /\ \A p \in Paths : u.byPath[p] = IF Inside(p, to) THEN None ELSE t.byPath[p]
    BY ReplacedAgrees
  <2>2. Remap(t, from, to) = v
    BY <1>2 DEF Remap
  <2> HIDE DEF u
  <2>3. /\ TableOK(v) /\ SameLookups(u, v) /\ SameKeys(u, v)
        /\ \A q \in Paths : v.byPath[q] # None =>
             \E p \in Paths : u.byPath[p] = v.byPath[q] /\ q = Moved(p, from, to)
    <3>1. TableOK(u)
      BY <2>1
    <3>2. \A p \in Paths : (Inside(p, from) /\ u.byPath[p] # None) => Moved(p, from, to) \in Paths
      BY <2>1
    <3>3. \A p \in Paths : (Inside(p, to) /\ u.byPath[p] # None) => Inside(p, from)
      BY <2>1
    <3> QED
      BY <3>1, <3>2, <3>3, RewrittenAgrees
  <2> HIDE DEF v
  <2>4. ASSUME NEW q \in Paths, v.byPath[q] # None
        PROVE  \E p \in Paths : t.byPath[p] = v.byPath[q] /\ q = Moved(p, from, to) /\ ~Inside(p, to)
    <3>1. PICK p \in Paths : u.byPath[p] = v.byPath[q] /\ q = Moved(p, from, to)
      BY <2>3, <2>4
    <3>2. t.byPath[p] = v.byPath[q] /\ ~Inside(p, to)
      BY <2>1, <2>4, <3>1
    <3> QED
      BY <3>1, <3>2
  <2>5. SameLookups(t, v) /\ SameKeys(t, v)
    BY <2>1, <2>3 DEF SameLookups, SameKeys
  <2> QED
    BY <1>2, <2>2, <2>3, <2>4, <2>5
<1> QED
  BY <1>1, <1>2

-----------------------------------------------------------------------------
(* The inductive invariant of the driver's handles.  Each open one has one  *)
(* owner: an open file, destroy()'s list, or a CREATE or OPEN under way.    *)

IsTask(x) ==
  x = [op |-> x.op, at |-> x.at, nodes |-> x.nodes, path |-> x.path, from |-> x.from,
       page |-> x.page, file |-> x.file, handle |-> x.handle, owed |-> x.owed]

\* The handle a task has to close if it fails.
Holding(x) == IF x.op \in {"create", "open"} THEN x.handle ELSE None

\* A CREATE or OPEN has no handle before the driver has answered, and leaves by
\* handing it over or by closing it.
StageOK(x) ==
  /\ IsTask(x)
  /\ x.op = "create" => x.at \in {"driver", "lstat", "resumed"}
  /\ x.op = "open" => x.at \in {"driver", "opened"}
  /\ x.at = "opened" => x.op = "open"
  /\ (x.op \in {"create", "open"} /\ x.at = "driver") => x.handle = None

TasksInOrder == tasks = [t \in Tasks |-> tasks[t]] /\ \A t \in Tasks : StageOK(tasks[t])

IsHandle(x) == x = [file |-> x.file, closed |-> x.closed] /\ x.closed \in {0, 1}

HandlesInOrder ==
  /\ Len(handles) \in Nat
  /\ handles = [h \in 1 .. Len(handles) |-> handles[h]]
  /\ \A h \in 1 .. Len(handles) : IsHandle(handles[h])

Owned(h) ==
  \/ \E o \in opens : o.handle = h
  \/ h \in toClose
  \/ \E t \in Tasks : Holding(tasks[t]) = h

\* An owner names a handle that is open, and an open handle has an owner.
Accounted ==
  /\ \A h \in 1 .. Len(handles) : handles[h].closed = 0 <=> Owned(h)
  /\ \A o \in opens : o.handle \in 0 .. Len(handles)
  /\ toClose \subseteq 1 .. Len(handles)
  /\ \A t \in Tasks : Holding(tasks[t]) \in 0 .. Len(handles)
  /\ ~destroyed => toClose = {}

OwnedOnce ==
  /\ \A o, q \in opens : (o.handle = q.handle /\ o.handle # None) => o = q
  /\ \A o \in opens : o.handle \notin toClose
  /\ \A o \in opens, t \in Tasks : o.handle = Holding(tasks[t]) => o.handle = None
  /\ \A t \in Tasks : Holding(tasks[t]) \notin toClose
  /\ \A t, u \in Tasks :
       (Holding(tasks[t]) = Holding(tasks[u]) /\ Holding(tasks[t]) # None) => t = u

HandlesInv == TasksInOrder /\ HandlesInOrder /\ Accounted /\ OwnedOnce
-----------------------------------------------------------------------------
(* What the steps are made of                                              *)

Fields(S) ==
  [op : S, at : S, nodes : S, path : S, from : S, page : S, file : S, handle : S, owed : S]

LEMMA TaskFields ==
  ASSUME NEW x
  PROVE  IsTask(x) <=> \E S : x \in Fields(S)
<1> DEFINE S == {x.op, x.at, x.nodes, x.path, x.from, x.page, x.file, x.handle, x.owed}
<1>1. IsTask(x) => x \in Fields(S)
  BY DEF IsTask, Fields
<1>2. ASSUME NEW T, x \in Fields(T)
      PROVE  IsTask(x)
  BY <1>2 DEF IsTask, Fields
<1> QED
  BY <1>1, <1>2

\* A task that moves on, the fields named apart, is a task.
LEMMA TaskUpdated ==
  ASSUME NEW x, IsTask(x), NEW at, NEW file, NEW handle, NEW path, NEW page, NEW owed
  PROVE  /\ IsTask([x EXCEPT !.at = at])
         /\ IsTask([x EXCEPT !.at = at, !.file = file])
         /\ IsTask([x EXCEPT !.at = at, !.handle = handle])
         /\ IsTask([x EXCEPT !.at = at, !.owed = owed])
         /\ IsTask([x EXCEPT !.at = at, !.path = path, !.page = page, !.file = file])
<1>1. PICK S : x \in Fields(S)
  BY TaskFields
<1> DEFINE T == S \cup {at, file, handle, path, page, owed}
<1>2. x \in Fields(T)
  BY <1>1 DEF Fields
<1>3. {at, file, handle, path, page, owed} \subseteq T
  OBVIOUS
<1> HIDE DEF T
<1>4. [x EXCEPT !.at = at] \in Fields(T)
  BY <1>2, <1>3 DEF Fields
<1>5. [x EXCEPT !.at = at, !.file = file] \in Fields(T)
  BY <1>2, <1>3 DEF Fields
<1>6. [x EXCEPT !.at = at, !.handle = handle] \in Fields(T)
  BY <1>2, <1>3 DEF Fields
<1>7. [x EXCEPT !.at = at, !.owed = owed] \in Fields(T)
  BY <1>2, <1>3 DEF Fields
<1>8. [x EXCEPT !.at = at, !.path = path, !.page = page, !.file = file] \in Fields(T)
  BY <1>2, <1>3 DEF Fields
<1> QED
  BY <1>4, <1>5, <1>6, <1>7, <1>8, TaskFields

LEMMA IdleTask ==
  /\ IsTask(Idle) /\ Idle.op = "none" /\ Idle.at = "idle" /\ Idle.nodes = {}
  /\ Idle.path = Top /\ Idle.from = Top /\ Idle.page = {} /\ Idle.file = None
  /\ Idle.handle = None /\ Idle.owed = <<>>
BY DEF IsTask, Idle

\* The tasks requests begin as.
LEMMA RequestTask ==
  ASSUME NEW op, NEW at, NEW n
  PROVE  LET u == Request(op, at, n)
         IN /\ IsTask(u) /\ u.op = op /\ u.at = at /\ u.nodes = {n}
            /\ u.path = PathOf(table, n) /\ u.from = Top /\ u.page = {} /\ u.file = None
            /\ u.handle = None /\ u.owed = <<>>
<1>1. PICK S : Idle \in Fields(S)
  BY IdleTask, TaskFields
<1> DEFINE T == S \cup {op, at, {n}, PathOf(table, n)}
           u == [Idle EXCEPT !.op = op, !.at = at, !.nodes = {n}, !.path = PathOf(table, n)]
<1>2. Idle \in Fields(T)
  BY <1>1 DEF Fields
<1>3. u \in Fields(T)
  BY <1>2 DEF Fields
<1>4. /\ u.op = op /\ u.at = at /\ u.nodes = {n} /\ u.path = PathOf(table, n)
      /\ u.from = Idle.from /\ u.page = Idle.page /\ u.file = Idle.file
      /\ u.handle = Idle.handle /\ u.owed = Idle.owed
  BY <1>2 DEF Fields
<1> QED
  BY <1>3, <1>4, TaskFields, IdleTask DEF Request

LEMMA ChildTask ==
  ASSUME NEW op, NEW at, NEW n, NEW name
  PROVE  LET u == ChildRequest(op, at, n, name)
         IN /\ IsTask(u) /\ u.op = op /\ u.at = at /\ u.nodes = {n}
            /\ u.path = Append(PathOf(table, n), name) /\ u.from = Top /\ u.page = {}
            /\ u.file = None /\ u.handle = None /\ u.owed = <<>>
<1> DEFINE r == Request(op, at, n)
           u == [r EXCEPT !.path = Append(PathOf(table, n), name)]
<1>1. /\ IsTask(r) /\ r.op = op /\ r.at = at /\ r.nodes = {n}
      /\ r.from = Top /\ r.page = {} /\ r.file = None /\ r.handle = None /\ r.owed = <<>>
  BY RequestTask
<1> HIDE DEF r
<1>2. IsTask(u)
  BY <1>1, SMTT(30) DEF IsTask
<1>3. /\ u.op = op /\ u.at = at /\ u.nodes = {n} /\ u.path = Append(PathOf(table, n), name)
      /\ u.from = Top /\ u.page = {} /\ u.file = None /\ u.handle = None /\ u.owed = <<>>
  BY <1>1 DEF IsTask
<1> QED
  BY <1>2, <1>3 DEF ChildRequest, r

LEMMA OtherTasks ==
  ASSUME NEW x, IsTask(x), NEW nodes, NEW from, NEW page, NEW handle
  PROVE  /\ IsTask([x EXCEPT !.nodes = nodes, !.from = from])
         /\ IsTask([x EXCEPT !.page = page])
         /\ IsTask([x EXCEPT !.op = "reach", !.at = "driver", !.nodes = nodes, !.handle = handle])
<1>1. PICK S : x \in Fields(S)
  BY TaskFields
<1> DEFINE T == S \cup {nodes, from, page, handle, "reach", "driver"}
<1>2. x \in Fields(T)
  BY <1>1 DEF Fields
<1>3. {nodes, from, page, handle, "reach", "driver"} \subseteq T
  OBVIOUS
<1> HIDE DEF T
<1>4. [x EXCEPT !.nodes = nodes, !.from = from] \in Fields(T)
  BY <1>2, <1>3 DEF Fields
<1>5. [x EXCEPT !.page = page] \in Fields(T)
  BY <1>2, <1>3 DEF Fields
<1>6. [x EXCEPT !.op = "reach", !.at = "driver", !.nodes = nodes, !.handle = handle] \in Fields(T)
  BY <1>2, <1>3 DEF Fields
<1> QED
  BY <1>4, <1>5, <1>6, TaskFields

LEMMA InitHolds == Init => HandlesInv
<1> SUFFICES ASSUME Init PROVE HandlesInv
  OBVIOUS
<1> USE DEF Init
<1>1. TasksInOrder
  BY DEF TasksInOrder, StageOK, IsTask, Idle
<1>2. HandlesInOrder
  BY DEF HandlesInOrder
<1>3. \A t \in Tasks : Holding(tasks[t]) = None
  BY DEF Holding, Idle
<1>4. Accounted
  BY <1>3 DEF Accounted, None
<1>5. OwnedOnce
  BY <1>3 DEF OwnedOnce
<1> QED
  BY <1>1, <1>2, <1>4, <1>5 DEF HandlesInv

\* A step of one task leaves the others.
LEMMA OneTaskSteps ==
  ASSUME TasksInOrder, NEW t \in Tasks, NEW u, StageOK(u), Step(t, u)
  PROVE  /\ TasksInOrder'
         /\ tasks'[t] = u
         /\ \A s \in Tasks \ {t} : tasks'[s] = tasks[s]
BY DEF TasksInOrder, Step

\* A step that leaves a task its handle, and the handles as they are.
LEMMA HoldingKept ==
  ASSUME HandlesInv, NEW t \in Tasks, NEW u, StageOK(u), Step(t, u),
         Holding(u) = Holding(tasks[t]),
         UNCHANGED <<handles, opens, toClose, destroyed>>
  PROVE  HandlesInv'
<1> DEFINE H(s) == Holding(tasks[s])
<1>1. TasksInOrder' /\ \A s \in Tasks : H(s)' = H(s)
  BY OneTaskSteps DEF HandlesInv
<1>2. HandlesInOrder'
  BY DEF HandlesInv, HandlesInOrder
<1> QED
  BY <1>1, <1>2 DEF HandlesInv, Accounted, Owned, OwnedOnce
\* open and create of a driver with handles: a new one, open and the task's.
LEMMA HandleTaken ==
  ASSUME HandlesInv, NEW t \in Tasks, NEW u, StageOK(u), Step(t, u), NEW f,
         Holding(tasks[t]) = None, Holding(u) = OpenedHandle, handles' = Opened(f),
         UNCHANGED <<opens, toClose, destroyed>>
  PROVE  HandlesInv'
<1> DEFINE H(s) == Holding(tasks[s])
<1>1. TasksInOrder' /\ H(t)' = OpenedHandle /\ \A s \in Tasks \ {t} : H(s)' = H(s)
  BY OneTaskSteps DEF HandlesInv
<1>2. CASE driver.handles
  <2>0. PICK n : n = Len(handles) + 1
    OBVIOUS
  <2>1. Len(handles) \in Nat /\ handles = [h \in 1 .. Len(handles) |-> handles[h]]
    BY DEF HandlesInv, HandlesInOrder
  <2>2. /\ Len(handles') = n
        /\ handles' = [h \in 1 .. n |-> handles'[h]]
        /\ \A h \in 1 .. Len(handles) : handles'[h] = handles[h]
        /\ handles'[n] = [file |-> f, closed |-> 0]
    <3> DEFINE e == [file |-> f, closed |-> 0]
               S == {handles[h] : h \in 1 .. Len(handles)} \cup {e}
    <3>1. handles \in Seq(S)
      BY <2>1
    <3>2. handles' = Append(handles, e)
      BY <1>2 DEF Opened
    <3> HIDE DEF S, e
    <3>3. e \in S
      BY DEF S
    <3>4. /\ Len(handles') = n
          /\ \A h \in 1 .. Len(handles) : handles'[h] = handles[h]
          /\ handles'[n] = e /\ handles' \in Seq(S)
      BY <2>0, <3>1, <3>2, <3>3
    <3>5. handles' = [h \in 1 .. Len(handles') |-> handles'[h]]
      BY <3>4
    <3> QED
      BY <3>4, <3>5 DEF e
  <2>3. HandlesInOrder'
    <3>1. n \in Nat /\ \A h \in 1 .. n : h = n \/ h \in 1 .. Len(handles)
      BY <2>0, <2>1
    <3>2. \A h \in 1 .. n : IsHandle(handles'[h])
      BY <2>2, <3>1 DEF HandlesInv, HandlesInOrder, IsHandle
    <3> QED
      BY <2>2, <3>1, <3>2 DEF HandlesInOrder, IsHandle
  <2>4. OpenedHandle = n
    BY <1>2, <2>0 DEF OpenedHandle
  <2>5. ~Owned(n)
    BY <2>0, <2>1 DEF HandlesInv, Accounted, Owned
  <2>6. \A h \in 1 .. Len(handles) : Owned(h)' <=> Owned(h)
    <3>1. \A h \in 1 .. Len(handles) : h # None /\ h # n
      BY <2>0, <2>1 DEF None
    <3> QED
      BY <1>1, <2>4, <3>1 DEF Owned
  <2>7. Owned(n)'
    BY <1>1, <2>4 DEF Owned
  <2>8. Accounted'
    <3>1. \A h \in 1 .. n : h = n \/ h \in 1 .. Len(handles)
      BY <2>0, <2>1
    <3>2. \A h \in 1 .. Len(handles') : handles'[h].closed = 0 <=> Owned(h)'
      BY <2>2, <2>6, <2>7, <3>1 DEF HandlesInv, Accounted
    <3>3. 0 .. Len(handles) \subseteq 0 .. n /\ 1 .. Len(handles) \subseteq 1 .. n /\ n \in 0 .. n
      BY <2>0, <2>1
    <3> QED
      BY <1>1, <2>2, <2>4, <3>2, <3>3 DEF HandlesInv, Accounted
  <2>9. OwnedOnce'
    BY <1>1, <2>4, <2>5 DEF HandlesInv, OwnedOnce, Owned
  <2> QED
    BY <1>1, <2>3, <2>8, <2>9 DEF HandlesInv
<1>3. CASE ~driver.handles
  BY <1>3, HoldingKept DEF Opened, OpenedHandle
<1> QED
  BY <1>2, <1>3

\* #addFile: the handle goes from the task to the open file.
LEMMA HandleHandedOver ==
  ASSUME HandlesInv, NEW t \in Tasks, Step(t, Idle), NEW o,
         o.handle = Holding(tasks[t]), opens' = opens \cup {o},
         UNCHANGED <<handles, toClose, destroyed>>
  PROVE  HandlesInv'
<1> DEFINE H(s) == Holding(tasks[s])
<1>1. StageOK(Idle) /\ Holding(Idle) = None
  BY DEF StageOK, Holding, Idle, IsTask
<1>2. TasksInOrder' /\ H(t)' = None /\ \A s \in Tasks \ {t} : H(s)' = H(s)
  BY <1>1, OneTaskSteps DEF HandlesInv
<1>3. HandlesInOrder'
  BY DEF HandlesInv, HandlesInOrder
<1>4. Len(handles) \in Nat
  BY DEF HandlesInv, HandlesInOrder
<1>5. Accounted'
  <2>1. \A h \in 1 .. Len(handles) : Owned(h)' <=> Owned(h)
    BY <1>2, <1>4 DEF Owned, None
  <2> QED
    BY <1>2, <1>4, <2>1 DEF HandlesInv, Accounted, None
<1>6. OwnedOnce'
  <2>1. \A q \in opens : q.handle = o.handle => o.handle = None
    BY DEF HandlesInv, OwnedOnce
  <2>2. \A p, q \in opens' : (p.handle = q.handle /\ p.handle # None) => p = q
    BY <2>1 DEF HandlesInv, OwnedOnce
  <2>3. \A s \in Tasks \ {t} : H(s) = o.handle => o.handle = None
    BY DEF HandlesInv, OwnedOnce
  <2>4. o.handle \notin toClose
    BY DEF HandlesInv, OwnedOnce
  <2>5. \A q \in opens', s \in Tasks : q.handle = H(s)' => q.handle = None
    BY <1>2, <2>3 DEF HandlesInv, OwnedOnce
  <2>6. None \notin toClose
    BY <1>4 DEF HandlesInv, Accounted, None
  <2> QED
    BY <1>2, <2>2, <2>4, <2>5, <2>6 DEF HandlesInv, OwnedOnce
<1> QED
  BY <1>2, <1>3, <1>5, <1>6 DEF HandlesInv

\* What a close of an open handle does to the driver.
LEMMA ClosedOne ==
  ASSUME HandlesInOrder, NEW h \in 1 .. Len(handles), handles[h].closed = 0,
         handles' = Closed(h)
  PROVE  /\ HandlesInOrder'
         /\ Len(handles') = Len(handles)
         /\ handles'[h].closed = 1
         /\ \A g \in 1 .. Len(handles) : g # h => handles'[g] = handles[g]
<1>1. Len(handles) \in Nat /\ handles = [g \in 1 .. Len(handles) |-> handles[g]]
  BY DEF HandlesInOrder
<1>2. h # None
  BY <1>1 DEF None
<1> DEFINE e == [handles[h] EXCEPT !.closed = @ + 1]
           S == {handles[g] : g \in 1 .. Len(handles)} \cup {e}
<1>3. handles' = [handles EXCEPT ![h] = e]
  BY <1>2 DEF Closed
<1>4. IsHandle(e) /\ e.closed = 1
  <2>1. handles[h] = [file |-> handles[h].file, closed |-> handles[h].closed]
    BY DEF HandlesInOrder, IsHandle
  <2> QED
    BY <2>1 DEF IsHandle
<1>5. handles \in Seq(S)
  BY <1>1
<1> HIDE DEF S, e
<1>6. e \in S
  BY DEF S
<1>7. handles' \in Seq(S) /\ Len(handles') = Len(handles)
  BY <1>1, <1>3, <1>5, <1>6
<1>8. handles'[h] = e /\ \A g \in 1 .. Len(handles) : g # h => handles'[g] = handles[g]
  BY <1>1, <1>3
<1>9. handles' = [g \in 1 .. Len(handles') |-> handles'[g]]
  BY <1>7
<1>10. \A g \in 1 .. Len(handles') : IsHandle(handles'[g])
  BY <1>4, <1>7, <1>8 DEF HandlesInOrder, IsHandle
<1> QED
  BY <1>1, <1>4, <1>7, <1>8, <1>9, <1>10 DEF HandlesInOrder, IsHandle

\* An unwound CREATE or OPEN closes what it has.
LEMMA HandleUnwound ==
  ASSUME HandlesInv, NEW t \in Tasks, Step(t, Idle),
         handles' = Closed(Holding(tasks[t])),
         UNCHANGED <<opens, toClose, destroyed>>
  PROVE  HandlesInv'
<1> DEFINE H(s) == Holding(tasks[s])
<1>1. StageOK(Idle) /\ Holding(Idle) = None
  BY DEF StageOK, Holding, Idle, IsTask
<1>2. TasksInOrder' /\ H(t)' = None /\ \A s \in Tasks \ {t} : H(s)' = H(s)
  BY <1>1, OneTaskSteps DEF HandlesInv
<1>3. Len(handles) \in Nat /\ H(t) \in 0 .. Len(handles)
  BY DEF HandlesInv, HandlesInOrder, Accounted
<1>4. CASE H(t) = None
  BY <1>1, <1>4, HoldingKept DEF Closed
<1>5. CASE H(t) # None
  <2>0. PICK h : h = H(t)
    OBVIOUS
  <2>1. h \in 1 .. Len(handles) /\ h # None
    BY <1>3, <1>5, <2>0 DEF None
  <2>2. handles[h].closed = 0
    BY <2>0, <2>1 DEF HandlesInv, Accounted, Owned
  <2>3. /\ HandlesInOrder'
        /\ Len(handles') = Len(handles)
        /\ handles'[h].closed = 1
        /\ \A g \in 1 .. Len(handles) : g # h => handles'[g] = handles[g]
    BY <2>0, <2>1, <2>2, ClosedOne DEF HandlesInv
  <2>4. ~Owned(h)'
    BY <1>2, <2>0, <2>1 DEF HandlesInv, OwnedOnce, Owned
  <2>5. \A g \in 1 .. Len(handles) : g # h => (Owned(g)' <=> Owned(g))
    <3>1. \A g \in 1 .. Len(handles) : g # None
      BY <1>3 DEF None
    <3> QED
      BY <1>2, <2>0, <3>1 DEF Owned
  <2>6. Accounted'
    <3>1. \A g \in 1 .. Len(handles') : handles'[g].closed = 0 <=> Owned(g)'
      BY <2>3, <2>4, <2>5 DEF HandlesInv, Accounted
    <3>2. None \in 0 .. Len(handles)
      BY <1>3 DEF None
    <3> QED
      BY <1>2, <2>3, <3>1, <3>2 DEF HandlesInv, Accounted
  <2>7. OwnedOnce'
    <3>1. None \notin toClose
      BY <1>3 DEF HandlesInv, Accounted, None
    <3> QED
      BY <1>2, <3>1 DEF HandlesInv, OwnedOnce
  <2> QED
    BY <1>2, <2>3, <2>6, <2>7 DEF HandlesInv
<1> QED
  BY <1>4, <1>5

\* RELEASE.
LEMMA ReleaseKeeps ==
  ASSUME HandlesInv, NEW o \in opens, Release(o)
  PROVE  HandlesInv'
<1> USE DEF Release, Removed
<1>1. TasksInOrder'
  BY DEF HandlesInv, TasksInOrder
<1>2. \A s \in Tasks : Holding(tasks[s])' = Holding(tasks[s])
  OBVIOUS
<1>3. Len(handles) \in Nat /\ o.handle \in 0 .. Len(handles)
  BY DEF HandlesInv, HandlesInOrder, Accounted
<1>4. OwnedOnce'
  BY <1>2 DEF HandlesInv, OwnedOnce, teardown
<1>5. CASE o.handle = None
  <2>1. handles' = handles
    BY <1>5 DEF Closed
  <2>2. \A h \in 1 .. Len(handles) : Owned(h)' <=> Owned(h)
    <3>1. \A h \in 1 .. Len(handles) : h # None
      BY <1>3 DEF None
    <3> QED
      BY <1>2, <1>5, <3>1 DEF Owned, teardown
  <2> QED
    BY <1>1, <1>2, <1>4, <2>1, <2>2 DEF HandlesInv, HandlesInOrder, Accounted, teardown
<1>6. CASE o.handle # None
  <2>0. PICK h : h = o.handle
    OBVIOUS
  <2>1. h \in 1 .. Len(handles) /\ h # None
    BY <1>3, <1>6, <2>0 DEF None
  <2>2. handles[h].closed = 0
    BY <2>0, <2>1 DEF HandlesInv, Accounted, Owned
  <2>3. /\ HandlesInOrder'
        /\ Len(handles') = Len(handles)
        /\ handles'[h].closed = 1
        /\ \A g \in 1 .. Len(handles) : g # h => handles'[g] = handles[g]
    BY <2>0, <2>1, <2>2, ClosedOne DEF HandlesInv
  <2>4. ~Owned(h)'
    BY <1>2, <2>0, <2>1 DEF HandlesInv, OwnedOnce, Owned, teardown
  <2>5. \A g \in 1 .. Len(handles) : g # h => (Owned(g)' <=> Owned(g))
    BY <1>2, <2>0 DEF Owned, teardown
  <2>6. \A g \in 1 .. Len(handles') : handles'[g].closed = 0 <=> Owned(g)'
    BY <2>3, <2>4, <2>5 DEF HandlesInv, Accounted
  <2>7. Accounted'
    BY <1>2, <2>3, <2>6 DEF HandlesInv, Accounted, teardown
  <2> QED
    BY <1>1, <1>4, <2>3, <2>7 DEF HandlesInv
<1> QED
  BY <1>5, <1>6

\* destroy() takes the open files' handles upon itself, and closes each.
LEMMA DestroyKeeps ==
  ASSUME HandlesInv, Destroy
  PROVE  HandlesInv'
<1> USE DEF Destroy
<1>1. TasksInOrder' /\ HandlesInOrder'
  BY DEF HandlesInv, TasksInOrder, HandlesInOrder, backing
<1>2. \A s \in Tasks : Holding(tasks[s])' = Holding(tasks[s])
  OBVIOUS
<1>3. Len(handles) \in Nat /\ handles' = handles
  BY DEF HandlesInv, HandlesInOrder, backing
<1>4. toClose = {} /\ opens' = {} /\ toClose' = {o.handle : o \in opens} \ {None}
  BY DEF HandlesInv, Accounted
<1>5. \A h \in 1 .. Len(handles) : Owned(h)' <=> Owned(h)
  <2>1. \A h \in 1 .. Len(handles) : h # None
    BY <1>3 DEF None
  <2> QED
    BY <1>2, <1>4, <2>1 DEF Owned
<1>6. Accounted'
  <2>1. toClose' \subseteq 1 .. Len(handles)
    <3>1. \A o \in opens : o.handle # None => o.handle \in 1 .. Len(handles)
      BY <1>3 DEF HandlesInv, Accounted, None
    <3> QED
      BY <1>4, <3>1
  <2> QED
    BY <1>2, <1>3, <1>4, <1>5, <2>1 DEF HandlesInv, Accounted
<1>7. OwnedOnce'
  BY <1>2, <1>4 DEF HandlesInv, OwnedOnce
<1> QED
  BY <1>1, <1>6, <1>7 DEF HandlesInv

LEMMA DestroyClosesKeeps ==
  ASSUME HandlesInv, NEW h \in toClose, DestroyCloses(h)
  PROVE  HandlesInv'
<1> USE DEF DestroyCloses
<1>1. TasksInOrder'
  BY DEF HandlesInv, TasksInOrder
<1>2. \A s \in Tasks : Holding(tasks[s])' = Holding(tasks[s])
  OBVIOUS
<1>3. Len(handles) \in Nat /\ h \in 1 .. Len(handles) /\ opens' = opens
  BY DEF HandlesInv, HandlesInOrder, Accounted, session
<1>4. handles[h].closed = 0
  BY <1>3 DEF HandlesInv, Accounted, Owned
<1>5. /\ HandlesInOrder'
      /\ Len(handles') = Len(handles)
      /\ handles'[h].closed = 1
      /\ \A g \in 1 .. Len(handles) : g # h => handles'[g] = handles[g]
  BY <1>3, <1>4, ClosedOne DEF HandlesInv
<1>6. ~Owned(h)'
  BY <1>2, <1>3 DEF HandlesInv, OwnedOnce, Owned
<1>7. \A g \in 1 .. Len(handles) : g # h => (Owned(g)' <=> Owned(g))
  BY <1>2, <1>3 DEF Owned
<1>8. \A g \in 1 .. Len(handles') : handles'[g].closed = 0 <=> Owned(g)'
  BY <1>5, <1>6, <1>7 DEF HandlesInv, Accounted
<1>9. Accounted'
  BY <1>2, <1>3, <1>5, <1>8 DEF HandlesInv, Accounted
<1>10. OwnedOnce'
  BY <1>2, <1>3 DEF HandlesInv, OwnedOnce
<1> QED
  BY <1>1, <1>5, <1>9, <1>10 DEF HandlesInv

-----------------------------------------------------------------------------
(* The actions                                                             *)

\* A step that leaves the tasks, the open files and the handles alone.
LEMMA NothingMoved ==
  ASSUME HandlesInv, UNCHANGED <<tasks, opens, toClose, destroyed, handles>>
  PROVE  HandlesInv'
BY DEF HandlesInv, TasksInOrder, HandlesInOrder, Accounted, Owned, OwnedOnce

LEMMA BeginKeeps ==
  ASSUME HandlesInv, NEW t \in Tasks, tasks[t] = Idle, NEW u, Begin(t, u),
         StageOK(u), Holding(u) = None
  PROVE  HandlesInv'
<1>1. Holding(tasks[t]) = None
  BY DEF Holding, Idle
<1> QED
  BY <1>1, HoldingKept DEF Begin, session, teardown, backing

LEMMA StartsKeeps ==
  ASSUME HandlesInv, NEW t \in Tasks, Starts(t)
  PROVE  HandlesInv'
<1>1. tasks[t] = Idle
  BY DEF Starts, MayBegin
<1>2. ASSUME NEW op, NEW at, NEW n,
             at # "opened", op \in {"create", "open"} => at = "driver"
      PROVE  /\ StageOK(Request(op, at, n)) /\ Holding(Request(op, at, n)) = None
  BY <1>2, RequestTask DEF StageOK, Holding
<1>3. ASSUME NEW op, NEW at, NEW n, NEW name,
             at # "opened", op \in {"create", "open"} => at = "driver"
      PROVE  /\ StageOK(ChildRequest(op, at, n, name))
             /\ Holding(ChildRequest(op, at, n, name)) = None
  BY <1>3, ChildTask DEF StageOK, Holding
<1>4. ASSUME NEW n, NEW name,
             \/ Lookup(t, n, name) \/ Make(t, n, name)
             \/ RemoveEntry(t, n, name) \/ Create(t, n, name)
      PROVE  HandlesInv'
  BY <1>1, <1>3, <1>4, BeginKeeps DEF Lookup, Make, RemoveEntry, Create
<1>5. ASSUME NEW n, NEW name, NEW m, Link(t, m, n, name)
      PROVE  HandlesInv'
  <2> DEFINE r == ChildRequest("link", "driver", n, name)
             u == [r EXCEPT
                     !.nodes = {m, n}, !.from = PathOf(table, m)]
  <2>1. Begin(t, u)
    BY <1>5 DEF Link
  <2>2. StageOK(u) /\ Holding(u) = None
    <3>1. IsTask(r) /\ r.op \notin {"create", "open"} /\ r.at # "opened"
      BY ChildTask
    <3> HIDE DEF r
    <3>2. IsTask(u)
      BY <3>1, OtherTasks
    <3>3. u.op = r.op /\ u.at = r.at
      BY <3>1 DEF IsTask
    <3> QED
      BY <3>1, <3>2, <3>3 DEF StageOK, Holding
  <2> HIDE DEF u
  <2> QED
    BY <1>1, <2>1, <2>2, BeginKeeps
<1>6. ASSUME NEW n, NEW name, NEW m, NEW newName, Rename(t, n, name, m, newName)
      PROVE  HandlesInv'
  <2> DEFINE r == ChildRequest("rename", "driver", m, newName)
             u == [r EXCEPT
                     !.nodes = {n, m}, !.from = Append(PathOf(table, n), name)]
  <2>1. Begin(t, u)
    BY <1>6 DEF Rename
  <2>2. StageOK(u) /\ Holding(u) = None
    <3>1. IsTask(r) /\ r.op \notin {"create", "open"} /\ r.at # "opened"
      BY ChildTask
    <3> HIDE DEF r
    <3>2. IsTask(u)
      BY <3>1, OtherTasks
    <3>3. u.op = r.op /\ u.at = r.at
      BY <3>1 DEF IsTask
    <3> QED
      BY <3>1, <3>2, <3>3 DEF StageOK, Holding
  <2> HIDE DEF u
  <2> QED
    BY <1>1, <2>1, <2>2, BeginKeeps
<1>7. ASSUME NEW n, Open(t, n) \/ Getattr(t, n)
      PROVE  HandlesInv'
  BY <1>1, <1>2, <1>7, BeginKeeps DEF Open, Getattr
<1>8. ASSUME NEW n, NEW h, GetattrByHandle(t, n, h)
      PROVE  HandlesInv'
  <2> DEFINE u == [Idle EXCEPT !.op = "reach", !.at = "driver", !.nodes = {n}, !.handle = h]
  <2>1. Begin(t, u)
    BY <1>8 DEF GetattrByHandle
  <2>2. StageOK(u) /\ Holding(u) = None
    <3>1. IsTask(u)
      BY IdleTask, OtherTasks
    <3>2. u.op = "reach" /\ u.at = "driver"
      BY IdleTask DEF IsTask
    <3> QED
      BY <3>1, <3>2 DEF StageOK, Holding
  <2> HIDE DEF u
  <2> QED
    BY <1>1, <2>1, <2>2, BeginKeeps
<1>9. ASSUME NEW n, NEW S, Readdir(t, n, S)
      PROVE  HandlesInv'
  <2> DEFINE r == Request("readdir", "page", n)
             u == [r EXCEPT !.page = S]
  <2>1. Begin(t, u)
    BY <1>9 DEF Readdir
  <2>2. StageOK(u) /\ Holding(u) = None
    <3>1. IsTask(r) /\ r.op \notin {"create", "open"} /\ r.at # "opened"
      BY RequestTask
    <3> HIDE DEF r
    <3>2. IsTask(u)
      BY <3>1, OtherTasks
    <3>3. u.op = r.op /\ u.at = r.at
      BY <3>1 DEF IsTask
    <3> QED
      BY <3>1, <3>2, <3>3 DEF StageOK, Holding
  <2> HIDE DEF u
  <2> QED
    BY <1>1, <2>1, <2>2, BeginKeeps
<1>10. ASSUME NEW o, Reopen(t, o)
       PROVE  HandlesInv'
  BY <1>1, <1>2, <1>10, BeginKeeps DEF Reopen
<1> QED
  BY <1>4, <1>5, <1>6, <1>7, <1>8, <1>9, <1>10 DEF Starts

LEMMA DriverActsKeeps ==
  ASSUME HandlesInv, NEW t \in Tasks, DriverActs(t)
  PROVE  HandlesInv'
<1> DEFINE x == tasks[t]
<1>1. StageOK(x)
  BY DEF HandlesInv, TasksInOrder
<1>2. ASSUME NEW u, Done(t, u), StageOK(u), Holding(u) = Holding(x), handles' = handles
      PROVE  HandlesInv'
  BY <1>2, HoldingKept DEF Done, session, teardown
<1>3. ASSUME NEW u, NEW f, Done(t, u), StageOK(u), Holding(x) = None, Holding(u) = OpenedHandle,
             handles' = Opened(f)
      PROVE  HandlesInv'
  BY <1>3, HandleTaken DEF Done, session, teardown
<1>4. ASSUME NEW dir, DriverMakes(t, dir)
      PROVE  HandlesInv'
  <2> DEFINE u == [x EXCEPT !.at = "lstat"]
  <2>1. Done(t, u) /\ handles' = handles /\ x.op = "make"
    BY <1>4 DEF DriverMakes, Awaits, At
  <2>2. StageOK(u) /\ Holding(u) = Holding(x)
    <3>1. IsTask(x)
      BY <1>1 DEF StageOK
    <3>2. IsTask(u)
      BY <3>1, TaskUpdated
    <3>3. u.op = x.op /\ u.at = "lstat" /\ u.handle = x.handle
      BY <3>1 DEF IsTask
    <3> QED
      BY <1>1, <2>1, <3>2, <3>3 DEF StageOK, Holding
  <2> HIDE DEF u
  <2> QED
    BY <1>2, <2>1, <2>2
<1>5. ASSUME DriverCreates(t)
      PROVE  HandlesInv'
  <2> DEFINE u == [x EXCEPT !.at = "lstat", !.handle = OpenedHandle]
  <2>1. Done(t, u) /\ handles' = Opened(Len(files) + 1) /\ x.op = "create" /\ x.at = "driver"
    BY <1>5 DEF DriverCreates, Awaits, At
  <2>2. StageOK(u) /\ Holding(u) = OpenedHandle /\ Holding(x) = None
    <3>1. IsTask(x)
      BY <1>1 DEF StageOK
    <3>2. IsTask(u)
      BY <3>1, TaskUpdated
    <3>3. u.op = x.op /\ u.at = "lstat" /\ u.handle = OpenedHandle
      BY <3>1 DEF IsTask
    <3> HIDE DEF u
    <3> QED
      BY <1>1, <2>1, <3>2, <3>3 DEF StageOK, Holding
  <2> HIDE DEF u
  <2> QED
    BY <1>3, <2>1, <2>2
<1>6. ASSUME DriverOpens(t)
      PROVE  HandlesInv'
  <2> DEFINE f == FileAt(x.path)
             u == [x EXCEPT !.at = "lstat", !.handle = OpenedHandle]
             v == [x EXCEPT !.at = "opened", !.handle = OpenedHandle]
  <2>1. handles' = Opened(f) /\ x.op \in {"create", "open"} /\ x.at = "driver"
    BY <1>6 DEF DriverOpens, Awaits, At
  <2>2. (x.op = "create" /\ Done(t, u)) \/ (x.op = "open" /\ Done(t, v))
    BY <1>6, <2>1 DEF DriverOpens
  <2>3. x.op = "create" => (StageOK(u) /\ Holding(u) = OpenedHandle /\ Holding(x) = None)
    <3>1. IsTask(x)
      BY <1>1 DEF StageOK
    <3>2. IsTask(u)
      BY <3>1, TaskUpdated
    <3>3. u.op = x.op /\ u.at = "lstat" /\ u.handle = OpenedHandle
      BY <3>1 DEF IsTask
    <3> QED
      BY <1>1, <2>1, <3>2, <3>3 DEF StageOK, Holding
  <2>4. x.op = "open" => (StageOK(v) /\ Holding(v) = OpenedHandle /\ Holding(x) = None)
    <3>1. IsTask(x)
      BY <1>1 DEF StageOK
    <3>2. IsTask(v)
      BY <3>1, TaskUpdated
    <3>3. v.op = x.op /\ v.at = "opened" /\ v.handle = OpenedHandle
      BY <3>1 DEF IsTask
    <3> HIDE DEF u, v, f
    <3> QED
      BY <1>1, <2>1, <3>2, <3>3 DEF StageOK, Holding
  <2> HIDE DEF u, v, f
  <2> QED
    BY <1>3, <2>1, <2>2, <2>3, <2>4
<1>7. ASSUME DriverLinks(t)
      PROVE  HandlesInv'
  <2> DEFINE u == [x EXCEPT !.at = "lstat"]
  <2>1. Done(t, u) /\ handles' = handles /\ x.op = "link"
    BY <1>7 DEF DriverLinks, Awaits, At
  <2>2. StageOK(u) /\ Holding(u) = Holding(x)
    <3>1. IsTask(x)
      BY <1>1 DEF StageOK
    <3>2. IsTask(u)
      BY <3>1, TaskUpdated
    <3>3. u.op = x.op /\ u.at = "lstat" /\ u.handle = x.handle
      BY <3>1 DEF IsTask
    <3> QED
      BY <1>1, <2>1, <3>2, <3>3 DEF StageOK, Holding
  <2> HIDE DEF u
  <2> QED
    BY <1>2, <2>1, <2>2
<1>8. ASSUME DriverRemoves(t)
      PROVE  HandlesInv'
  <2> DEFINE u == [x EXCEPT !.at = "done", !.file = FileAt(x.path)]
  <2>1. Done(t, u) /\ handles' = handles /\ x.op = "remove"
    BY <1>8 DEF DriverRemoves, Awaits, At
  <2>2. StageOK(u) /\ Holding(u) = Holding(x)
    <3>1. IsTask(x)
      BY <1>1 DEF StageOK
    <3>2. IsTask(u)
      BY <3>1, TaskUpdated
    <3>3. u.op = x.op /\ u.at = "done" /\ u.handle = x.handle
      BY <3>1 DEF IsTask
    <3> HIDE DEF u
    <3> QED
      BY <1>1, <2>1, <3>2, <3>3 DEF StageOK, Holding
  <2> HIDE DEF u
  <2> QED
    BY <1>2, <2>1, <2>2
<1>9. ASSUME DriverRenames(t)
      PROVE  HandlesInv'
  <2> DEFINE u == [x EXCEPT !.at = "done", !.file = FileAt(x.path)]
  <2>1. Done(t, u) /\ handles' = handles /\ x.op = "rename"
    BY <1>9 DEF DriverRenames, Awaits, At
  <2>2. StageOK(u) /\ Holding(u) = Holding(x)
    <3>1. IsTask(x)
      BY <1>1 DEF StageOK
    <3>2. IsTask(u)
      BY <3>1, TaskUpdated
    <3>3. u.op = x.op /\ u.at = "done" /\ u.handle = x.handle
      BY <3>1 DEF IsTask
    <3> QED
      BY <1>1, <2>1, <3>2, <3>3 DEF StageOK, Holding
  <2> HIDE DEF u
  <2> QED
    BY <1>2, <2>1, <2>2
<1>10. ASSUME DriverLstats(t)
       PROVE  HandlesInv'
  <2> DEFINE u == [x EXCEPT !.at = "resumed", !.file = FileAt(x.path)]
  <2>1. Done(t, u) /\ handles' = handles /\ x.at = "lstat"
    BY <1>10 DEF DriverLstats, backing
  <2>2. StageOK(u) /\ Holding(u) = Holding(x)
    <3>1. IsTask(x)
      BY <1>1 DEF StageOK
    <3>2. IsTask(u)
      BY <3>1, TaskUpdated
    <3>3. u.op = x.op /\ u.at = "resumed" /\ u.handle = x.handle
      BY <3>1 DEF IsTask
    <3> HIDE DEF u
    <3> QED
      BY <1>1, <2>1, <3>2, <3>3 DEF StageOK, Holding
  <2> HIDE DEF u
  <2> QED
    BY <1>2, <2>1, <2>2
<1>11. ASSUME DriverReaches(t)
       PROVE  HandlesInv'
  <2>1. Done(t, Idle) /\ handles' = handles /\ x.op = "reach"
    BY <1>11 DEF DriverReaches, Awaits, At, backing
  <2>2. StageOK(Idle) /\ Holding(Idle) = Holding(x)
    BY <2>1 DEF StageOK, IsTask, Holding, Idle
  <2> QED
    BY <1>2, <2>1, <2>2
<1>12. ASSUME NEW p, DriverLstatsEntry(t, p)
       PROVE  HandlesInv'
  <2> DEFINE u == [x EXCEPT !.at = IF FileAt(p) = None THEN "page" ELSE "entry",
                            !.path = p, !.page = @ \ {p}, !.file = FileAt(p)]
  <2>1. Done(t, u) /\ handles' = handles /\ x.at = "page"
    BY <1>12 DEF DriverLstatsEntry, backing
  <2>2. x.op \notin {"create", "open"}
    BY <1>1, <2>1 DEF StageOK
  <2>3. StageOK(u) /\ Holding(u) = Holding(x)
    <3>1. IsTask(x)
      BY <1>1 DEF StageOK
    <3>2. IsTask(u)
      BY <3>1, TaskUpdated
    <3>3. u.op = x.op /\ u.at = (IF FileAt(p) = None THEN "page" ELSE "entry") /\ u.handle = x.handle
      BY <3>1 DEF IsTask
    <3> HIDE DEF u
    <3> QED
      BY <1>1, <2>2, <3>2, <3>3 DEF StageOK, Holding
  <2> HIDE DEF u
  <2> QED
    BY <1>2, <2>1, <2>3
<1> QED
  BY <1>4, <1>5, <1>6, <1>7, <1>8, <1>9, <1>10, <1>11, <1>12 DEF DriverActs

LEMMA ResumesKeeps ==
  ASSUME HandlesInv, NEW t \in Tasks, Resumes(t)
  PROVE  HandlesInv'
<1> DEFINE x == tasks[t]
<1>1. StageOK(x)
  BY DEF HandlesInv, TasksInOrder
<1>2. StageOK(Idle) /\ Holding(Idle) = None
  BY DEF StageOK, Holding, Idle, IsTask
<1>3. ASSUME Step(t, Idle), x.op \notin {"create", "open"},
             UNCHANGED <<handles, opens, toClose, destroyed>>
      PROVE  HandlesInv'
  BY <1>2, <1>3, HoldingKept DEF Holding
<1>4. ASSUME Step(t, Idle), x.op \in {"create", "open"}, NEW n, AddFile(n, x.handle),
             UNCHANGED <<handles, toClose, destroyed>>
      PROVE  HandlesInv'
  <2> DEFINE o == [fh |-> nextFh, node |-> n, handle |-> x.handle]
  <2>1. o.handle = Holding(x) /\ opens' = opens \cup {o}
    BY <1>4 DEF Holding, AddFile
  <2> HIDE DEF o
  <2> QED
    BY <1>4, <2>1, HandleHandedOver
<1>5. CASE BindsEntry(t)
  <2>1. Step(t, Idle) /\ x.at = "resumed" /\ UNCHANGED <<handles, toClose, destroyed>>
    BY <1>5 DEF BindsEntry, teardown, backing
  <2>2. CASE x.op = "create"
    <3>1. PICK n : AddFile(n, x.handle)
      BY <1>5, <2>2 DEF BindsEntry
    <3> QED
      BY <1>4, <2>1, <2>2, <3>1
  <2>3. CASE x.op # "create"
    <3>1. opens' = opens
      BY <1>5, <2>3 DEF BindsEntry
    <3>2. x.op # "open"
      BY <1>1, <2>1 DEF StageOK
    <3> QED
      BY <1>3, <2>1, <2>3, <3>1, <3>2
  <2> QED
    BY <2>2, <2>3
<1>6. CASE OpenResumes(t)
  <2>1. Step(t, Idle) /\ x.at = "opened" /\ UNCHANGED <<handles, toClose, destroyed>>
    BY <1>6 DEF OpenResumes, teardown, backing
  <2>2. PICK n : AddFile(n, x.handle)
    BY <1>6 DEF OpenResumes
  <2> QED
    BY <1>1, <1>4, <2>1, <2>2 DEF StageOK
<1>7. CASE RemoveResumes(t) \/ RenameResumes(t)
  BY <1>3, <1>7 DEF RemoveResumes, RenameResumes, At, teardown, backing
<1>8. CASE EntryBound(t)
  <2> DEFINE n == BoundTo(table, x.path, KeyOf(x.file))
             u == [x EXCEPT !.at = "page",
                            !.owed = Append(@, [node |-> n, file |-> x.file])]
  <2>1. Step(t, u) /\ x.at = "entry" /\ UNCHANGED <<handles, opens, toClose, destroyed>>
    BY <1>8 DEF EntryBound, teardown, backing
  <2>2. x.op \notin {"create", "open"}
    BY <1>1, <2>1 DEF StageOK
  <2>3. StageOK(u) /\ Holding(u) = Holding(x)
    <3>1. IsTask(x)
      BY <1>1 DEF StageOK
    <3>2. IsTask(u)
      BY <3>1, TaskUpdated
    <3>3. u.op = x.op /\ u.at = "page" /\ u.handle = x.handle
      BY <3>1 DEF IsTask
    <3> HIDE DEF u
    <3> QED
      BY <1>1, <2>2, <3>2, <3>3 DEF StageOK, Holding
  <2> HIDE DEF u
  <2> QED
    BY <2>1, <2>3, HoldingKept
<1>9. CASE PageEnds(t)
  <2>1. Step(t, Idle) /\ x.at = "page" /\ UNCHANGED <<handles, opens, toClose, destroyed>>
    BY <1>9 DEF PageEnds, session, teardown, backing
  <2> QED
    BY <1>1, <1>3, <2>1 DEF StageOK
<1>10. CASE Fails(t)
  <2>1. Step(t, Idle) /\ handles' = Unwound(t) /\ UNCHANGED <<opens, toClose, destroyed>>
    BY <1>10 DEF Fails, session, teardown
  <2>2. handles' = Closed(Holding(x))
    BY <2>1 DEF Unwound, Holding, Closed
  <2> QED
    BY <2>1, <2>2, HandleUnwound
<1> QED
  BY <1>5, <1>6, <1>7, <1>8, <1>9, <1>10 DEF Resumes

LEMMA NextKeeps == HandlesInv /\ [Next]_vars => HandlesInv'
<1> SUFFICES ASSUME HandlesInv, [Next]_vars
             PROVE  HandlesInv'
  OBVIOUS
<1>1. CASE UNCHANGED vars
  BY <1>1, NothingMoved DEF vars, session, teardown, backing
<1>2. ASSUME NEW n, NEW count, ForgetLookups(n, count)
      PROVE  HandlesInv'
  BY <1>2, NothingMoved DEF ForgetLookups, teardown, backing
<1>3. CASE DestroyClears
  BY <1>3, NothingMoved DEF DestroyClears, backing
<1> QED
  BY <1>1, <1>2, <1>3, StartsKeeps, DriverActsKeeps, ResumesKeeps, ReleaseKeeps,
     DestroyKeeps, DestroyClosesKeeps DEF Next

-----------------------------------------------------------------------------
(* The theorems                                                            *)

\* Each open driver handle has one owner - an open file, destroy()'s list, or a
\* CREATE or OPEN under way - in every reachable state, Orderly or not.
THEOREM HandlesAreOwned == Spec => []HandlesInv
BY InitHolds, NextKeeps, PTL DEF Spec

\* No driver handle outlives its open file, the request opening it or destroy(),
\* and none is closed twice (session.ts:1472-1479, 1503-1510, 1542-1545).
THEOREM HandlesAreAccountedFor == Spec => []HandlesAccountedFor
<1>1. ASSUME HandlesInv
      PROVE  HandlesAccountedFor
  <2>1. DOMAIN handles = 1 .. Len(handles) /\ Len(handles) \in Nat
    BY <1>1 DEF HandlesInv, HandlesInOrder
  <2>2. \A h \in DOMAIN handles : handles[h].closed <= 1
    BY <1>1, <2>1 DEF HandlesInv, HandlesInOrder, IsHandle
  <2> DEFINE Owners == ({o.handle : o \in opens} \cup toClose
                          \cup {tasks[t].handle :
                                  t \in {t \in Tasks : tasks[t].op \in {"create", "open"}}})
                       \ {None}
  <2>3. \A h \in Owners : h \in 1 .. Len(handles) /\ Owned(h)
    <3>1. \A h \in 0 .. Len(handles) : h # None => h \in 1 .. Len(handles)
      BY <2>1 DEF None
    <3> QED
      BY <1>1, <3>1 DEF HandlesInv, Accounted, Owned, Holding
  <2>4. \A h \in 1 .. Len(handles) : Owned(h) => h \in Owners
    <3>1. \A h \in 1 .. Len(handles) : h # None
      BY <2>1 DEF None
    <3> QED
      BY <3>1 DEF Owned, Holding
  <2>5. \A h \in 1 .. Len(handles) : handles[h].closed = 0 <=> Owned(h)
    BY <1>1 DEF HandlesInv, Accounted
  <2>6. {h \in DOMAIN handles : handles[h].closed = 0} = Owners
    <3> HIDE DEF Owners
    <3> QED
      BY <2>1, <2>3, <2>4, <2>5
  <2> QED
    BY <2>2, <2>6 DEF HandlesAccountedFor
<1> QED
  BY <1>1, HandlesAreOwned, PTL

-----------------------------------------------------------------------------
(* The inductive invariant of the inode table and the kernel's lookups      *)

\* A task is where its handler may be, with what it has by then.
InOrder(x) ==
  /\ x.op \in Changing \cup {"lookup"} => x.path \in Entries
  /\ x.op = "rename" => x.from \in Entries
  /\ x.at \in {"lstat", "resumed"} => x.op \in {"lookup", "create", "make", "link"}
  /\ x.at \in {"resumed", "entry"} => x.file \in DOMAIN files
  /\ x.at = "entry" => x.path \in Entries
  /\ x.at \in {"page", "entry"} <=> x.op = "readdir"
  /\ x.op # "readdir" => x.owed = <<>>
  /\ x.at = "done" => x.op \in {"remove", "rename"}
  /\ x.at = "opened" => x.op = "open"
  /\ x.at = "idle" <=> x.op = "none"

StagesInOrder == \A t \in Tasks : InOrder(tasks[t])

\* The PathLock.
RenamesAlone == \A t \in Busy : tasks[t].op = "rename" => Busy = {t}

\* A rename the driver has done finds every tracked path a name.
LandsIn(x) ==
  \A p \in Paths : (Inside(p, x.from) /\ table.byPath[p] # None)
                     => Moved(p, x.from, x.path) \in Paths

RenamesFit == \A t \in Tasks : At(t, "rename", "done") => LandsIn(tasks[t])

NamesInOrder == Len(files) <= MaxFiles /\ \A p \in Entries : names[p] \in 0 .. Len(files)

OwedFinite == \A n \in Nodeids : IsFiniteSet(Owing(Tasks, n))

TableInv ==
  /\ TypeOK /\ NamesInOrder /\ TableOK(table)
  /\ StagesInOrder /\ RenamesAlone /\ RenamesFit
  /\ OwedFinite /\ LookupsMatch

\* TypeOK by who keeps what.
TasksTyped == tasks \in [Tasks -> Task] /\ requests \in Nat
OpensTyped == opens \subseteq [fh : Nat, node : Nodeids, handle : Nat] /\ nextFh \in Nat
TeardownTyped == destroyed \in BOOLEAN /\ toClose \subseteq Nat /\ cleared \in BOOLEAN
BackingTyped ==
  /\ names \in [Entries -> 0 .. MaxFiles] /\ NamesInOrder
  /\ files \in Seq([ino : Inos, dir : BOOLEAN])
  /\ handles \in Seq([file : Files, closed : Nat])
KernelTyped ==
  held \in [Nodeids -> Nat] /\ denotes \in [Nodeids -> SUBSET (Files \cup {RootFile})]

LEMMA TypesAre ==
  (TypeOK /\ NamesInOrder) <=>
    /\ table \in Table /\ OpensTyped /\ TasksTyped /\ TeardownTyped /\ BackingTyped
    /\ driver \in Drivers /\ KernelTyped
BY DEF TypeOK, OpensTyped, TasksTyped, TeardownTyped, BackingTyped, KernelTyped

Ops == {"none", "lookup", "reach", "open", "readdir"} \cup Changing
Stages == {"idle", "driver", "lstat", "resumed", "opened", "page", "entry", "done"}
Owed1 == [node : Nodeids, file : Files]

\* A task of the right fields.
LEMMA TaskIs ==
  ASSUME NEW u, IsTask(u), u.op \in Ops, u.at \in Stages, u.nodes \in SUBSET Nodeids,
         u.path \in Paths, u.from \in Paths, u.page \in SUBSET Entries,
         u.file \in 0 .. RootFile, u.handle \in Nat, u.owed \in Seq(Owed1)
  PROVE  u \in Task
BY DEF IsTask, Task, Ops, Stages, Owed1

LEMMA TaskHas ==
  ASSUME NEW u \in Task
  PROVE  /\ IsTask(u) /\ u.op \in Ops /\ u.at \in Stages /\ u.nodes \in SUBSET Nodeids
         /\ u.path \in Paths /\ u.from \in Paths /\ u.page \in SUBSET Entries
         /\ u.file \in 0 .. RootFile /\ u.handle \in Nat /\ u.owed \in Seq(Owed1)
BY DEF IsTask, Task, Ops, Stages, Owed1

LEMMA Constants ==
  /\ None \in 0 .. RootFile /\ MaxFiles \in Nat /\ RootFile \in Nat /\ None \in Nat
  /\ Top \in Paths /\ Root \in Nodeids /\ None \notin Nodeids /\ None \notin Files
  /\ <<>> \in Seq(Owed1)
<1>1. <<>> \in Seq(Owed1)
  OBVIOUS
<1> QED
  BY <1>1, SessionAssumption, InodesAssumption DEF None, RootFile, Root, Nodeids, Files

LEMMA IdleInOrder == Idle \in Task /\ InOrder(Idle)
<1>1. Idle \in Task
  BY IdleTask, Constants, TaskIs DEF Ops, Stages
<1>2. InOrder(Idle)
  BY IdleTask DEF InOrder, Changing
<1> QED
  BY <1>1, <1>2

\* The pages' lookups of one nodeid.
LEMMA OwingIs ==
  ASSUME NEW n, NEW T
  PROVE  \A o : o \in Owing(T, n) <=>
           \E t \in T : \E i \in DOMAIN tasks[t].owed :
              o = <<t, i>> /\ tasks[t].owed[i].node = n
BY DEF Owing

\* A step that leaves each task the lookups of its page.
LEMMA OwedKept ==
  ASSUME \A t \in Tasks : tasks'[t].owed = tasks[t].owed
  PROVE  \A n : Owing(Tasks, n)' = Owing(Tasks, n) /\ Owed(Tasks, n)' = Owed(Tasks, n)
<1> TAKE n
<1> DEFINE O(t) == {t} \X {i \in DOMAIN tasks[t].owed : tasks[t].owed[i].node = n}
<1>1. \A t \in Tasks : O(t)' = O(t)
  OBVIOUS
<1>2. Owing(Tasks, n) = UNION {O(t) : t \in Tasks}
  BY DEF Owing
<1>3. Owing(Tasks, n)' = UNION {O(t)' : t \in Tasks}
  BY DEF Owing
<1>4. Owing(Tasks, n)' = Owing(Tasks, n)
  <2> HIDE DEF O
  <2> QED
    BY <1>1, <1>2, <1>3
<1> QED
  BY <1>4 DEF Owed

LEMMA OneTaskMoves ==
  ASSUME TasksTyped, NEW t \in Tasks, NEW u \in Task, Step(t, u)
  PROVE  /\ tasks' \in [Tasks -> Task] /\ tasks'[t] = u
         /\ \A s \in Tasks \ {t} : tasks'[s] = tasks[s]
BY DEF TasksTyped, Step

\* What a step of one task under way has to keep of the tasks' order.
LEMMA OrderKept ==
  ASSUME TableInv, NEW t \in Tasks, tasks[t].at # "idle", NEW u \in Task, Step(t, u),
         InOrder(u)', u.op \in {tasks[t].op, "none"},
         (u.op = "rename" /\ u.at = "done") => LandsIn(u)',
         DOMAIN files \subseteq DOMAIN files'
  PROVE  tasks' \in [Tasks -> Task] /\ StagesInOrder' /\ RenamesAlone' /\ RenamesFit'
<1>1. TasksTyped
  BY DEF TableInv, TypeOK, TasksTyped
<1>2. /\ tasks' \in [Tasks -> Task] /\ tasks'[t] = u
      /\ \A s \in Tasks \ {t} : tasks'[s] = tasks[s]
  BY <1>1, OneTaskMoves
<1>3. \A s \in Tasks : InOrder(tasks[s])'
  <2>1. ASSUME NEW s \in Tasks \ {t}
        PROVE  InOrder(tasks[s])'
    <3>1. InOrder(tasks[s])
      BY DEF TableInv, StagesInOrder
    <3> QED
      BY <1>2, <3>1 DEF InOrder
  <2>2. InOrder(tasks[t])'
    BY <1>2 DEF InOrder
  <2> QED
    BY <2>1, <2>2
<1>4. Busy' \subseteq Busy /\ t \in Busy
  BY <1>2 DEF Busy
<1>5. RenamesAlone'
  <2>1. ASSUME NEW s \in Busy', tasks'[s].op = "rename"
        PROVE  Busy' = {s}
    <3>1. tasks[s].op = "rename"
      BY <1>2, <2>1 DEF Busy
    <3> QED
      BY <1>4, <2>1, <3>1 DEF TableInv, RenamesAlone
  <2> QED
    BY <2>1 DEF RenamesAlone
<1>6. RenamesFit'
  <2>1. ASSUME NEW s \in Tasks, At(s, "rename", "done")'
        PROVE  LandsIn(tasks[s])'
    <3>1. CASE s = t
      BY <1>2, <2>1, <3>1 DEF At, LandsIn
    <3>2. CASE s # t
      <4>1. s \in Busy /\ tasks[s].op = "rename"
        BY <1>2, <2>1, <3>2 DEF At, Busy
      <4> QED
        BY <1>4, <3>2, <4>1 DEF TableInv, RenamesAlone
    <3> QED
      BY <3>1, <3>2
  <2> QED
    BY <2>1 DEF RenamesFit
<1> QED
  BY <1>2, <1>3, <1>5, <1>6 DEF StagesInOrder

\* A step of one task that changes no lookup.
LEMMA StepKeeps ==
  ASSUME TableInv, NEW t \in Tasks, tasks[t].at # "idle", NEW u \in Task, Step(t, u),
         InOrder(u)', u.op \in {tasks[t].op, "none"}, u.owed = tasks[t].owed,
         (u.op = "rename" /\ u.at = "done") => LandsIn(u)',
         DOMAIN files \subseteq DOMAIN files',
         TableOK(table'), SameLookups(table, table'), OpensTyped', BackingTyped',
         UNCHANGED <<teardown, kernel, driver, requests>>
  PROVE  TableInv'
<1>1. tasks' \in [Tasks -> Task] /\ StagesInOrder' /\ RenamesAlone' /\ RenamesFit'
  BY OrderKept
<1>2. /\ TasksTyped /\ TeardownTyped /\ KernelTyped /\ driver \in Drivers
  BY TypesAre DEF TableInv
<1>3. \A s \in Tasks : tasks'[s].owed = tasks[s].owed
  BY <1>2, OneTaskMoves
<1>4. \A n : Owing(Tasks, n)' = Owing(Tasks, n) /\ Owed(Tasks, n)' = Owed(Tasks, n)
  BY <1>3, OwedKept
<1>5. OwedFinite'
  BY <1>4 DEF TableInv, OwedFinite
<1>6. held' = held /\ destroyed' = destroyed
  BY DEF kernel, teardown
<1>7. LookupsMatch'
  BY <1>4, <1>6 DEF TableInv, LookupsMatch, SameLookups
<1>8. TasksTyped' /\ TeardownTyped' /\ KernelTyped' /\ driver' \in Drivers
  BY <1>1, <1>2 DEF TasksTyped, TeardownTyped, KernelTyped, teardown, kernel
<1>9. table' \in Table
  BY DEF TableOK
<1>10. (TypeOK /\ NamesInOrder)'
  <2>1. (TypeOK /\ NamesInOrder)' <=>
          (/\ table \in Table /\ OpensTyped /\ TasksTyped /\ TeardownTyped /\ BackingTyped
           /\ driver \in Drivers /\ KernelTyped)'
    BY TypesAre, PTL
  <2> QED
    BY <1>8, <1>9, <2>1
<1>11. TableOK(table)'
  OBVIOUS
<1> QED
  BY <1>1, <1>5, <1>7, <1>10, <1>11 DEF TableInv

-----------------------------------------------------------------------------
(* The start of a request                                                  *)

LEMMA TableInitHolds == Init => TableInv
<1> SUFFICES ASSUME Init PROVE TableInv
  OBVIOUS
<1> USE DEF Init
<1>1. TableOK(table)
  BY NewTableAgrees
<1>2. \A t \in Tasks : tasks[t] = Idle
  OBVIOUS
<1>3. TasksTyped
  BY IdleInOrder DEF TasksTyped
<1>4. OpensTyped /\ TeardownTyped
  BY DEF OpensTyped, TeardownTyped
<1>5. BackingTyped
  <2>1. Len(files) = 0 /\ files \in Seq([ino : Inos, dir : BOOLEAN])
        /\ handles \in Seq([file : Files, closed : Nat])
    OBVIOUS
  <2>2. None \in 0 .. MaxFiles /\ None \in 0 .. 0 /\ 0 <= MaxFiles
    BY Constants DEF None
  <2>3. NamesInOrder /\ names \in [Entries -> 0 .. MaxFiles]
    BY <2>1, <2>2 DEF NamesInOrder
  <2> QED
    BY <2>1, <2>3 DEF BackingTyped
<1>6. KernelTyped
  BY DEF KernelTyped
<1>7. TypeOK /\ NamesInOrder
  BY <1>1, <1>3, <1>4, <1>5, <1>6, TypesAre DEF TableOK
<1>8. StagesInOrder /\ RenamesAlone /\ RenamesFit
  BY <1>2, IdleInOrder, IdleTask DEF StagesInOrder, RenamesAlone, RenamesFit, Busy, At
<1>9. \A n : Owing(Tasks, n) = {}
  <2>1. \A n, o : o \notin Owing(Tasks, n)
    BY <1>2, IdleTask, OwingIs
  <2> QED
    BY <2>1
<1>10. OwedFinite /\ \A n : Owed(Tasks, n) = 0
  BY <1>9, FS_EmptySet DEF OwedFinite, Owed
<1>11. LookupsMatch
  <2>1. table.live = {Root} /\ \A n \in Nodeids : held[n] = 0
    BY DEF NewTable
  <2> QED
    BY <1>10, <2>1 DEF LookupsMatch
<1> QED
  BY <1>1, <1>7, <1>8, <1>10, <1>11 DEF TableInv

LEMMA BeginKeepsTable ==
  ASSUME TableInv, NEW t \in Tasks, tasks[t] = Idle, NEW u \in Task, Begin(t, u), InOrder(u),
         u.owed = <<>>, u.at \notin {"idle", "done"}
  PROVE  TableInv'
<1> USE DEF Begin
<1>1. /\ TasksTyped /\ OpensTyped /\ TeardownTyped /\ BackingTyped /\ KernelTyped
      /\ driver \in Drivers /\ table \in Table
  BY TypesAre DEF TableInv
<1>2. /\ tasks' \in [Tasks -> Task] /\ tasks'[t] = u
      /\ \A s \in Tasks \ {t} : tasks'[s] = tasks[s]
  BY <1>1, OneTaskMoves
<1>3. UNCHANGED <<table, opens, nextFh, destroyed, toClose, cleared, names, files, handles,
                  held, denotes, driver>>
  BY DEF session, teardown, backing, kernel
<1>4. StagesInOrder'
  <2>1. ASSUME NEW s \in Tasks \ {t}
        PROVE  InOrder(tasks[s])'
    <3>1. InOrder(tasks[s])
      BY DEF TableInv, StagesInOrder
    <3> QED
      BY <1>2, <1>3, <3>1 DEF InOrder
  <2>2. InOrder(tasks[t])'
    BY <1>2, <1>3 DEF InOrder
  <2> QED
    BY <2>1, <2>2 DEF StagesInOrder
<1>5. RenamesAlone'
  <2>1. \A s \in Tasks : s \in Busy' <=> (s = t \/ s \in Busy)
    BY <1>2 DEF Busy
  <2>2. CASE u.op = "rename"
    <3>1. Busy = {}
      BY <2>2 DEF LockIsFree
    <3>2. Busy' = {t}
      BY <2>1, <3>1 DEF Busy
    <3> QED
      BY <3>2 DEF RenamesAlone
  <2>3. CASE u.op # "rename"
    <3>1. \A s \in Busy : tasks[s].op # "rename"
      BY <2>3 DEF LockIsFree
    <3>2. \A s \in Busy' : tasks'[s].op # "rename"
      BY <1>2, <2>1, <2>3, <3>1 DEF Busy
    <3> QED
      BY <3>2 DEF RenamesAlone
  <2> QED
    BY <2>2, <2>3
<1>6. RenamesFit'
  <2>1. ASSUME NEW s \in Tasks, At(s, "rename", "done")'
        PROVE  LandsIn(tasks[s])'
    <3>1. s # t /\ At(s, "rename", "done") /\ tasks'[s] = tasks[s]
      BY <1>2, <2>1 DEF At
    <3>2. LandsIn(tasks[s])
      BY <3>1 DEF TableInv, RenamesFit
    <3> QED
      BY <1>3, <3>1, <3>2 DEF LandsIn
  <2> QED
    BY <2>1 DEF RenamesFit
<1>7. \A n : Owing(Tasks, n)' = Owing(Tasks, n) /\ Owed(Tasks, n)' = Owed(Tasks, n)
  <2>1. \A s \in Tasks : tasks'[s].owed = tasks[s].owed
    BY <1>2, IdleTask
  <2> QED
    BY <2>1, OwedKept
<1>8. OwedFinite' /\ LookupsMatch'
  BY <1>3, <1>7 DEF TableInv, OwedFinite, LookupsMatch
<1>9. (TypeOK /\ NamesInOrder)'
  <2>1. TasksTyped'
    BY <1>1, <1>2 DEF TasksTyped
  <2>2. OpensTyped' /\ TeardownTyped' /\ KernelTyped' /\ BackingTyped'
    BY <1>1, <1>3 DEF OpensTyped, TeardownTyped, KernelTyped, BackingTyped, NamesInOrder
  <2>3. (TypeOK /\ NamesInOrder)' <=>
          (/\ table \in Table /\ OpensTyped /\ TasksTyped /\ TeardownTyped /\ BackingTyped
           /\ driver \in Drivers /\ KernelTyped)'
    BY TypesAre, PTL
  <2> QED
    BY <1>1, <1>3, <2>1, <2>2, <2>3
<1>10. TableOK(table)'
  BY <1>3 DEF TableInv
<1> QED
  BY <1>4, <1>5, <1>6, <1>8, <1>9, <1>10 DEF TableInv

\* requirePath and #childOf answer with paths.
LEMMA Naming ==
  ASSUME TableOK(table), NEW n \in table.live
  PROVE  /\ HasPath(table, n) => PathOf(table, n) \in Paths
         /\ \A name : CanName(n, name) =>
              (HasPath(table, n) /\ Append(PathOf(table, n), name) \in Entries)
<1>1. n \in Nodeids /\ table.inodes[n].paths \in Seq(Paths)
  BY TableParts, TrackedTyped DEF TableOK
<1>2. ASSUME HasPath(table, n)
      PROVE  PathOf(table, n) \in Paths
  <2> DEFINE ps == table.inodes[n].paths
  <2>1. ps # <<>>
    BY <1>2 DEF HasPath
  <2> HIDE DEF ps
  <2>2. Head(ps) \in Paths
    BY <1>1, <2>1, HeadTailProperties DEF ps
  <2> QED
    BY <2>2 DEF PathOf, ps
<1>3. ASSUME NEW name, CanName(n, name)
      PROVE  Append(PathOf(table, n), name) \in Entries
  <2>1. PathOf(table, n) \in Seq(AllNames) /\ Append(PathOf(table, n), name) \in Paths
    BY <1>2, <1>3, PathIsSeq DEF CanName
  <2>2. Append(PathOf(table, n), name) # Top
    <3> DEFINE p == PathOf(table, n)
               S == AllNames \cup {name}
    <3>1. p \in Seq(S)
      BY <2>1, SeqMonotonic
    <3>2. name \in S
      OBVIOUS
    <3> HIDE DEF p, S
    <3>3. Len(Append(p, name)) = Len(p) + 1 /\ Len(p) \in Nat
      BY <3>1, <3>2
    <3>4. Append(p, name) # <<>>
      BY <3>3
    <3> QED
      BY <3>4 DEF p, Top
  <2> QED
    BY <2>1, <2>2 DEF Entries
<1> QED
  BY <1>2, <1>3 DEF CanName

\* A request on one nodeid, and one on an entry of it.
LEMMA RequestTyped ==
  ASSUME TableInv, NEW n \in table.live, HasPath(table, n),
         NEW op \in {"open", "reach"}
  PROVE  LET u == Request(op, "driver", n)
         IN /\ u \in Task /\ InOrder(u) /\ u.owed = <<>> /\ u.at = "driver"
<1> DEFINE u == Request(op, "driver", n)
<1>1. /\ IsTask(u) /\ u.op = op /\ u.at = "driver" /\ u.nodes = {n}
      /\ u.path = PathOf(table, n) /\ u.from = Top /\ u.page = {} /\ u.file = None
      /\ u.handle = None /\ u.owed = <<>>
  BY RequestTask
<1> HIDE DEF u
<1>2. TableOK(table) /\ n \in Nodeids
  BY TableParts DEF TableInv, TableOK
<1>3. PathOf(table, n) \in Paths
  BY <1>2, Naming
<1>4. u \in Task
  <2>1. u.op \in Ops /\ u.at \in Stages
    BY <1>1 DEF Ops, Stages
  <2> QED
    BY <1>1, <1>2, <1>3, <2>1, Constants, TaskIs
<1>5. InOrder(u)
  BY <1>1 DEF InOrder, Changing
<1> QED
  BY <1>1, <1>4, <1>5 DEF u

LEMMA ChildTyped ==
  ASSUME TableInv, NEW n \in table.live, NEW name, CanName(n, name),
         NEW op \in (Changing \cup {"lookup"}) \ {"rename"}, NEW at \in {"driver", "lstat"},
         at = "lstat" => op = "lookup"
  PROVE  LET u == ChildRequest(op, at, n, name)
         IN u \in Task /\ InOrder(u) /\ u.owed = <<>> /\ u.at = at
<1> DEFINE u == ChildRequest(op, at, n, name)
<1>1. /\ IsTask(u) /\ u.op = op /\ u.at = at /\ u.nodes = {n}
      /\ u.path = Append(PathOf(table, n), name) /\ u.from = Top /\ u.page = {}
      /\ u.file = None /\ u.handle = None /\ u.owed = <<>>
  BY ChildTask
<1> HIDE DEF u
<1>2. TableOK(table) /\ n \in Nodeids
  BY TableParts DEF TableInv, TableOK
<1>3. u.path \in Entries /\ u.path \in Paths
  BY <1>1, <1>2, Naming DEF Entries
<1>4. op \in Ops /\ at \in Stages
  BY DEF Ops, Stages
<1>5. u \in Task
  BY <1>1, <1>2, <1>3, <1>4, Constants, TaskIs
<1>6. InOrder(u)
  BY <1>1, <1>3 DEF InOrder, Changing
<1> QED
  BY <1>1, <1>5, <1>6 DEF u

OnPair(u, nodes, from) == [u EXCEPT !.nodes = nodes, !.from = from]

\* LINK and RENAME are on two.
LEMMA PairTyped ==
  ASSUME TableInv, NEW n \in table.live, NEW name, CanName(n, name),
         NEW op \in {"link", "rename"}, NEW nodes \in SUBSET Nodeids, NEW from \in Paths,
         op = "rename" => from \in Entries
  PROVE  LET v == OnPair(ChildRequest(op, "driver", n, name), nodes, from)
         IN v \in Task /\ InOrder(v) /\ v.owed = <<>> /\ v.at = "driver"
<1> DEFINE u == ChildRequest(op, "driver", n, name)
           v == OnPair(u, nodes, from)
<1>1. /\ IsTask(u) /\ u.op = op /\ u.at = "driver"
      /\ u.path = Append(PathOf(table, n), name) /\ u.page = {}
      /\ u.file = None /\ u.handle = None /\ u.owed = <<>>
  BY ChildTask
<1> HIDE DEF u
<1>2. TableOK(table)
  BY DEF TableInv
<1>3. u.path \in Entries /\ u.path \in Paths
  BY <1>1, <1>2, Naming DEF Entries
<1>4. IsTask(v)
  BY <1>1, OtherTasks DEF OnPair
<1>5. /\ v.op = op /\ v.at = "driver" /\ v.nodes = nodes /\ v.path = u.path /\ v.from = from
      /\ v.page = {} /\ v.file = None /\ v.handle = None /\ v.owed = <<>>
  BY <1>1 DEF IsTask, OnPair
<1> HIDE DEF v
<1>6. v \in Task
  <2>1. op \in Ops /\ "driver" \in Stages
    BY DEF Ops, Stages, Changing
  <2> QED
    BY <1>3, <1>4, <1>5, <2>1, Constants, TaskIs
<1>7. InOrder(v)
  BY <1>3, <1>5 DEF InOrder, Changing
<1> QED
  BY <1>5, <1>6, <1>7 DEF u, v

LEMMA StartsKeepsTable ==
  ASSUME TableInv, NEW t \in Tasks, Starts(t)
  PROVE  TableInv'
<1>1. tasks[t] = Idle
  BY DEF Starts, MayBegin
<1>2. TableOK(table) /\ table.live \subseteq Nodeids
  BY TableParts DEF TableInv, TableOK
<1>3. ASSUME NEW n \in table.live, NEW name,
             \/ Lookup(t, n, name) \/ Make(t, n, name)
             \/ RemoveEntry(t, n, name) \/ Create(t, n, name)
      PROVE  TableInv'
  <2>1. PICK op \in Changing \cup {"lookup"}, at \in {"driver", "lstat"} :
          /\ at = "lstat" => op = "lookup"
          /\ op # "rename" /\ CanName(n, name) /\ Begin(t, ChildRequest(op, at, n, name))
    <3>1. CASE Lookup(t, n, name)
      BY <3>1 DEF Lookup
    <3>2. CASE Make(t, n, name)
      BY <3>2 DEF Make, Changing
    <3>3. CASE RemoveEntry(t, n, name)
      BY <3>3 DEF RemoveEntry, Changing
    <3>4. CASE Create(t, n, name)
      BY <3>4 DEF Create, Changing
    <3> QED
      BY <1>3, <3>1, <3>2, <3>3, <3>4
  <2> DEFINE u == ChildRequest(op, at, n, name)
  <2>2. u \in Task /\ InOrder(u) /\ u.owed = <<>> /\ u.at = at
    BY <2>1, ChildTyped
  <2>3. Begin(t, u)
    BY <2>1
  <2> HIDE DEF u
  <2> QED
    BY <1>1, <2>2, <2>3, BeginKeepsTable
<1>4. ASSUME NEW n \in table.live, NEW name, NEW m \in table.live, Link(t, m, n, name)
      PROVE  TableInv'
  <2> DEFINE from == PathOf(table, m)
             u == OnPair(ChildRequest("link", "driver", n, name), {m, n}, from)
  <2>1. CanName(n, name) /\ HasPath(table, m) /\ Begin(t, u)
    BY <1>4 DEF Link, OnPair
  <2>2. from \in Paths /\ {m, n} \in SUBSET Nodeids
    BY <1>2, <2>1, Naming
  <2> HIDE DEF from
  <2>3. u \in Task /\ InOrder(u) /\ u.owed = <<>> /\ u.at = "driver"
    BY <2>1, <2>2, PairTyped
  <2> HIDE DEF u
  <2> QED
    BY <1>1, <2>1, <2>3, BeginKeepsTable
<1>5. ASSUME NEW n \in table.live, NEW name, NEW m \in table.live, NEW newName,
             Rename(t, n, name, m, newName)
      PROVE  TableInv'
  <2> DEFINE from == Append(PathOf(table, n), name)
             u == OnPair(ChildRequest("rename", "driver", m, newName), {n, m}, from)
  <2>1. CanName(n, name) /\ CanName(m, newName) /\ Begin(t, u)
    BY <1>5 DEF Rename, OnPair
  <2>2. from \in Entries /\ from \in Paths /\ {n, m} \in SUBSET Nodeids
    BY <1>2, <2>1, Naming DEF Entries
  <2> HIDE DEF from
  <2>3. u \in Task /\ InOrder(u) /\ u.owed = <<>> /\ u.at = "driver"
    BY <2>1, <2>2, PairTyped
  <2> HIDE DEF u
  <2> QED
    BY <1>1, <2>1, <2>3, BeginKeepsTable
<1>6. ASSUME NEW n \in table.live, NEW op \in {"open", "reach"}, HasPath(table, n),
             Begin(t, Request(op, "driver", n))
      PROVE  TableInv'
  <2> DEFINE u == Request(op, "driver", n)
  <2>1. u \in Task /\ InOrder(u) /\ u.owed = <<>> /\ u.at = "driver"
    BY <1>6, RequestTyped
  <2>2. Begin(t, u)
    BY <1>6
  <2> HIDE DEF u
  <2> QED
    BY <1>1, <2>1, <2>2, BeginKeepsTable
<1>7. ASSUME NEW n \in table.live, Open(t, n) \/ Getattr(t, n)
      PROVE  TableInv'
  BY <1>6, <1>7 DEF Open, Getattr
<1>8. ASSUME NEW o \in opens, Reopen(t, o)
      PROVE  TableInv'
  <2>1. o.node \in table.live
    BY <1>8 DEF Reopen, HasPath
  <2> QED
    BY <1>6, <1>8, <2>1 DEF Reopen
<1>9. ASSUME NEW n \in table.live, NEW h, GetattrByHandle(t, n, h)
      PROVE  TableInv'
  <2> DEFINE u == [Idle EXCEPT !.op = "reach", !.at = "driver", !.nodes = {n}, !.handle = h]
  <2>1. h \in HandlesOn(n) /\ Begin(t, u)
    BY <1>9 DEF GetattrByHandle
  <2>2. h \in Nat
    <3>1. \A o \in opens : o.handle \in Nat
      BY DEF TableInv, TypeOK
    <3> QED
      BY <2>1, <3>1 DEF HandlesOn
  <2>3. IsTask(u)
    BY IdleTask, OtherTasks
  <2>4. /\ u.op = "reach" /\ u.at = "driver" /\ u.nodes = {n} /\ u.path = Top /\ u.from = Top
        /\ u.page = {} /\ u.file = None /\ u.handle = h /\ u.owed = <<>>
    BY IdleTask DEF IsTask
  <2> HIDE DEF u
  <2>5. u \in Task
    <3>1. u.op \in Ops /\ u.at \in Stages
      BY <2>4 DEF Ops, Stages
    <3> QED
      BY <1>2, <2>2, <2>3, <2>4, <3>1, Constants, TaskIs
  <2>6. InOrder(u)
    BY <2>4 DEF InOrder, Changing
  <2> QED
    BY <1>1, <2>1, <2>4, <2>5, <2>6, BeginKeepsTable
<1>10. ASSUME NEW n \in table.live, NEW S, Readdir(t, n, S)
       PROVE  TableInv'
  <2> DEFINE r == Request("readdir", "page", n)
             u == [r EXCEPT !.page = S]
  <2>1. HasPath(table, n) /\ S \subseteq Children(PathOf(table, n)) /\ Begin(t, u)
    BY <1>10 DEF Readdir
  <2>2. S \in SUBSET Entries /\ PathOf(table, n) \in Paths
    BY <1>2, <2>1, Naming DEF Children, Entries
  <2>3. /\ IsTask(r) /\ r.op = "readdir" /\ r.at = "page" /\ r.nodes = {n}
        /\ r.path = PathOf(table, n) /\ r.from = Top /\ r.file = None
        /\ r.handle = None /\ r.owed = <<>>
    BY RequestTask
  <2> HIDE DEF r
  <2>4. IsTask(u)
    BY <2>3, OtherTasks
  <2>5. /\ u.op = "readdir" /\ u.at = "page" /\ u.nodes = {n} /\ u.path = PathOf(table, n)
        /\ u.from = Top /\ u.page = S /\ u.file = None /\ u.handle = None /\ u.owed = <<>>
    BY <2>3 DEF IsTask
  <2> HIDE DEF u
  <2>6. u \in Task
    <3>1. u.op \in Ops /\ u.at \in Stages
      BY <2>5 DEF Ops, Stages
    <3> QED
      BY <1>2, <2>2, <2>4, <2>5, <3>1, Constants, TaskIs
  <2>7. InOrder(u)
    BY <2>5 DEF InOrder, Changing
  <2> QED
    BY <1>1, <2>1, <2>5, <2>6, <2>7, BeginKeepsTable
<1> QED
  BY <1>3, <1>4, <1>5, <1>7, <1>8, <1>9, <1>10 DEF Starts

-----------------------------------------------------------------------------
(* The driver's steps                                                      *)

\* What a path holds in the driver.
LEMMA FileAtIs ==
  ASSUME BackingTyped, NEW p \in Paths
  PROVE  /\ FileAt(p) \in 0 .. RootFile
         /\ p \in Entries => FileAt(p) \in 0 .. Len(files)
         /\ (p \in Entries /\ FileAt(p) # None) => FileAt(p) \in DOMAIN files
         /\ (FileAt(p) # None /\ ~IsDir(FileAt(p))) => p \in Entries
         /\ DOMAIN files = 1 .. Len(files) /\ DOMAIN files \subseteq Files
         /\ Len(files) \in Nat /\ Len(files) <= MaxFiles
<1>1. /\ Len(files) \in Nat /\ DOMAIN files = 1 .. Len(files) /\ Len(files) <= MaxFiles
      /\ MaxFiles \in Nat /\ RootFile = MaxFiles + 1
  BY Constants DEF BackingTyped, NamesInOrder, RootFile
<1>2. CASE p = Top
  <2>1. FileAt(p) = RootFile /\ IsDir(FileAt(p)) /\ p \notin Entries
    BY <1>2 DEF FileAt, IsDir, Entries
  <2>2. RootFile \in 0 .. RootFile /\ DOMAIN files \subseteq Files
    BY <1>1 DEF Files
  <2> QED
    BY <1>1, <2>1, <2>2
<1>3. CASE p # Top
  <2>1. p \in Entries /\ FileAt(p) = names[p]
    BY <1>3 DEF FileAt, Entries
  <2>2. FileAt(p) \in 0 .. Len(files)
    BY <2>1 DEF BackingTyped, NamesInOrder
  <2>3. /\ FileAt(p) \in 0 .. RootFile
        /\ FileAt(p) # None => FileAt(p) \in DOMAIN files
        /\ DOMAIN files \subseteq Files
    BY <1>1, <2>2 DEF Files, None
  <2> QED
    BY <1>1, <2>1, <2>2, <2>3
<1> QED
  BY <1>2, <1>3

LEMMA NewFileTyped ==
  ASSUME BackingTyped, NEW p \in Entries, NEW dir \in BOOLEAN, NewFile(p, dir)
  PROVE  /\ names' \in [Entries -> 0 .. MaxFiles] /\ NamesInOrder'
         /\ files' \in Seq([ino : Inos, dir : BOOLEAN])
         /\ DOMAIN files \subseteq DOMAIN files' /\ Len(files) + 1 \in Files
<1>1. PICK i \in FreeInos : files' = Append(files, [ino |-> i, dir |-> dir])
  BY DEF NewFile
<1>2. i \in Inos
  BY DEF FreeInos
<1> DEFINE e == [ino |-> i, dir |-> dir]
<1>3. e \in [ino : Inos, dir : BOOLEAN]
  BY <1>2
<1> HIDE DEF e
<1>4. /\ files \in Seq([ino : Inos, dir : BOOLEAN]) /\ files' = Append(files, e)
      /\ Len(files) \in Nat
  BY <1>1 DEF BackingTyped, e
<1>5. /\ files' \in Seq([ino : Inos, dir : BOOLEAN]) /\ Len(files') = Len(files) + 1
      /\ DOMAIN files = 1 .. Len(files) /\ DOMAIN files' = 1 .. Len(files')
  BY <1>3, <1>4
<1>6. Len(files) < MaxFiles /\ names' = [names EXCEPT ![p] = Len(files) + 1] /\ MaxFiles \in Nat
  BY Constants DEF NewFile
<1>7. DOMAIN files \subseteq DOMAIN files' /\ Len(files) + 1 \in Files /\ Len(files') <= MaxFiles
  BY <1>4, <1>5, <1>6 DEF Files
<1>8. \A q \in Entries : names'[q] \in 0 .. Len(files')
  BY <1>4, <1>5, <1>6 DEF BackingTyped, NamesInOrder
<1>9. names' \in [Entries -> 0 .. MaxFiles]
  BY <1>4, <1>6 DEF BackingTyped
<1> QED
  BY <1>5, <1>7, <1>8, <1>9 DEF NamesInOrder

LEMMA OpenedTyped ==
  ASSUME BackingTyped, NEW f \in Files
  PROVE  Opened(f) \in Seq([file : Files, closed : Nat]) /\ OpenedHandle \in Nat
<1> DEFINE e == [file |-> f, closed |-> 0]
<1>1. e \in [file : Files, closed : Nat]
  OBVIOUS
<1> HIDE DEF e
<1>2. Append(handles, e) \in Seq([file : Files, closed : Nat]) /\ Len(handles) + 1 \in Nat
  BY <1>1 DEF BackingTyped
<1> QED
  BY <1>2, Constants DEF BackingTyped, Opened, OpenedHandle, e

LEMMA ClosedTyped ==
  ASSUME BackingTyped, NEW h
  PROVE  Closed(h) \in Seq([file : Files, closed : Nat])
<1>1. handles \in Seq([file : Files, closed : Nat])
  BY DEF BackingTyped
<1>2. CASE h \in DOMAIN handles
  <2> DEFINE e == [handles[h] EXCEPT !.closed = @ + 1]
  <2>1. e \in [file : Files, closed : Nat]
    <3>1. handles[h] \in [file : Files, closed : Nat]
      <4> DEFINE R == [file : Files, closed : Nat]
      <4> HIDE DEF R, e
      <4>1. handles \in Seq(R)
        BY <1>1 DEF R
      <4>2. handles[h] \in R
        BY <1>2, <4>1
      <4> QED
        BY <4>2 DEF R
    <3>2. \A r \in [file : Files, closed : Nat] :
            [r EXCEPT !.closed = r.closed + 1] \in [file : Files, closed : Nat]
      OBVIOUS
    <3> QED
      BY <3>1, <3>2
  <2> HIDE DEF e
  <2>2. [handles EXCEPT ![h] = e] \in Seq([file : Files, closed : Nat])
    BY <1>1, <1>2, <2>1
  <2> QED
    BY <1>1, <2>2 DEF Closed, e
<1>3. CASE h \notin DOMAIN handles
  <2> DEFINE e == [handles[h] EXCEPT !.closed = @ + 1]
  <2>1. [handles EXCEPT ![h] = e] = handles
    <3> HIDE DEF e
    <3>1. handles = [i \in 1 .. Len(handles) |-> handles[i]] /\ DOMAIN handles = 1 .. Len(handles)
      BY <1>1
    <3> QED
      BY <1>3, <3>1
  <2> QED
    BY <1>1, <2>1 DEF Closed
<1> QED
  BY <1>2, <1>3

LEMMA DoneKeeps ==
  ASSUME TableInv, NEW t \in Tasks, tasks[t].at # "idle", NEW u \in Task, Done(t, u),
         InOrder(u)', u.op \in {tasks[t].op, "none"}, u.owed = tasks[t].owed,
         (u.op = "rename" /\ u.at = "done") => LandsIn(u),
         DOMAIN files \subseteq DOMAIN files', BackingTyped'
  PROVE  TableInv'
<1>1. UNCHANGED <<table, opens, nextFh, teardown, kernel, driver, requests>> /\ Step(t, u)
  BY DEF Done, session
<1>2. TableOK(table') /\ SameLookups(table, table')
  BY <1>1 DEF TableInv, SameLookups
<1>3. OpensTyped'
  BY <1>1 DEF TableInv, TypeOK, OpensTyped
<1>4. (u.op = "rename" /\ u.at = "done") => LandsIn(u)'
  BY <1>1 DEF LandsIn
<1>5. UNCHANGED <<teardown, kernel, driver, requests>>
  BY <1>1
<1> QED
  BY <1>1, <1>2, <1>3, <1>4, <1>5, StepKeeps

LEMMA DriverActsKeepsTable ==
  ASSUME TableInv, NEW t \in Tasks, DriverActs(t)
  PROVE  TableInv'
<1>0. PICK x : x = tasks[t]
  OBVIOUS
<1>1. x \in Task /\ InOrder(x) /\ BackingTyped /\ x.path \in Paths /\ x.from \in Paths
  <2>1. TasksTyped /\ BackingTyped
    BY TypesAre DEF TableInv
  <2>2. x \in Task
    BY <1>0, <2>1 DEF TasksTyped
  <2> QED
    BY <1>0, <2>1, <2>2, TaskHas DEF TableInv, StagesInOrder
\* What Done leaves to show of each step.
<1>2. ASSUME NEW u \in Task, x.at # "idle", Done(t, u), InOrder(u)', u.op \in {x.op, "none"},
             u.owed = x.owed, (u.op = "rename" /\ u.at = "done") => LandsIn(u),
             DOMAIN files \subseteq DOMAIN files', BackingTyped'
      PROVE  TableInv'
  BY <1>0, <1>2, DoneKeeps
<1>3. CASE \E dir \in BOOLEAN : DriverMakes(t, dir)
  <2>1. PICK dir \in BOOLEAN : DriverMakes(t, dir)
    BY <1>3
  <2>2. PICK u : u = [x EXCEPT !.at = "lstat"]
    OBVIOUS
  <2>3. x.op = "make" /\ x.at = "driver" /\ Done(t, u) /\ handles' = handles
        /\ NewFile(x.path, dir)
    BY <1>0, <2>1, <2>2 DEF DriverMakes, Awaits, At
  <2>4. x.path \in Entries /\ x.owed = <<>>
    BY <1>1, <2>3 DEF InOrder, Changing
  <2>5. BackingTyped' /\ DOMAIN files \subseteq DOMAIN files'
    BY <1>1, <2>3, <2>4, NewFileTyped DEF BackingTyped
  <2>6. u \in Task /\ u.op = x.op /\ u.at = "lstat" /\ u.path = x.path /\ u.owed = x.owed
    BY <1>1, <2>2 DEF Task
  <2>7. InOrder(u)'
    BY <2>3, <2>4, <2>6 DEF InOrder, Changing
  <2> QED
    BY <1>2, <2>3, <2>5, <2>6, <2>7
<1>4. CASE DriverCreates(t)
  <2>1. PICK h : h = OpenedHandle
    OBVIOUS
  <2>2. PICK u : u = [x EXCEPT !.at = "lstat", !.handle = h]
    OBVIOUS
  <2>3. x.op = "create" /\ x.at = "driver" /\ Done(t, u) /\ handles' = Opened(Len(files) + 1)
        /\ NewFile(x.path, FALSE)
    BY <1>0, <1>4, <2>1, <2>2 DEF DriverCreates, Awaits, At
  <2>4. x.path \in Entries /\ x.owed = <<>>
    BY <1>1, <2>3 DEF InOrder, Changing
  <2>5. /\ names' \in [Entries -> 0 .. MaxFiles] /\ NamesInOrder'
        /\ files' \in Seq([ino : Inos, dir : BOOLEAN])
        /\ DOMAIN files \subseteq DOMAIN files' /\ Len(files) + 1 \in Files
    BY <1>1, <2>3, <2>4, NewFileTyped
  <2>6. handles' \in Seq([file : Files, closed : Nat]) /\ h \in Nat
    BY <1>1, <2>1, <2>3, <2>5, OpenedTyped
  <2>7. BackingTyped'
    BY <2>5, <2>6 DEF BackingTyped
  <2>8. u \in Task /\ u.op = x.op /\ u.at = "lstat" /\ u.path = x.path /\ u.owed = x.owed
    BY <1>1, <2>2, <2>6 DEF Task
  <2>9. InOrder(u)'
    BY <2>3, <2>4, <2>8 DEF InOrder, Changing
  <2> QED
    BY <1>2, <2>3, <2>5, <2>7, <2>8, <2>9
<1>5. CASE DriverOpens(t)
  <2>1. PICK h : h = OpenedHandle
    OBVIOUS
  <2>2. PICK at \in {"lstat", "opened"} :
          /\ Done(t, [x EXCEPT !.at = at, !.handle = h])
          /\ x.op = IF at = "lstat" THEN "create" ELSE "open"
          /\ x.at = "driver" /\ handles' = Opened(FileAt(x.path))
          /\ FileAt(x.path) # None /\ ~IsDir(FileAt(x.path))
          /\ names' = names /\ files' = files
    BY <1>0, <1>5, <2>1 DEF DriverOpens, Awaits, At
  <2>3. PICK u : u = [x EXCEPT !.at = at, !.handle = h]
    OBVIOUS
  <2>4. FileAt(x.path) \in Files
    BY <1>1, <2>2, FileAtIs
  <2>5. handles' \in Seq([file : Files, closed : Nat]) /\ h \in Nat
    BY <1>1, <2>1, <2>2, <2>4, OpenedTyped
  <2>6. BackingTyped'
    BY <1>1, <2>2, <2>5 DEF BackingTyped, NamesInOrder
  <2>7. u \in Task /\ u.op = x.op /\ u.at = at /\ u.path = x.path /\ u.owed = x.owed
    BY <1>1, <2>3, <2>5 DEF Task
  <2>8. Done(t, u) /\ DOMAIN files \subseteq DOMAIN files'
    BY <2>2, <2>3
  <2>9. InOrder(u)'
    <3>1. at = "lstat" => x.path \in Entries
      BY <1>1, <2>2 DEF InOrder, Changing
    <3>2. x.owed = <<>>
      BY <1>1, <2>2 DEF InOrder
    <3> QED
      BY <1>1, <2>2, <2>7, <3>1, <3>2 DEF InOrder, Changing
  <2> QED
    BY <1>2, <2>2, <2>6, <2>7, <2>8, <2>9
<1>6. CASE DriverLinks(t)
  <2>1. PICK f : f = FileAt(x.from)
    OBVIOUS
  <2>2. PICK u : u = [x EXCEPT !.at = "lstat"]
    OBVIOUS
  <2>3. /\ x.op = "link" /\ x.at = "driver" /\ Done(t, u) /\ f # None /\ ~IsDir(f)
        /\ names' = [names EXCEPT ![x.path] = f] /\ files' = files /\ handles' = handles
    BY <1>0, <1>6, <2>1, <2>2 DEF DriverLinks, Awaits, At
  <2>4. x.path \in Entries /\ x.owed = <<>>
    BY <1>1, <2>3 DEF InOrder, Changing
  <2>5. f \in 0 .. Len(files) /\ f \in 0 .. MaxFiles
    <3>1. /\ f \in DOMAIN files /\ DOMAIN files = 1 .. Len(files) /\ Len(files) \in Nat
          /\ Len(files) <= MaxFiles /\ MaxFiles \in Nat
      BY <1>1, <2>1, <2>3, FileAtIs, Constants
    <3> QED
      BY <3>1
  <2>6. BackingTyped'
    BY <1>1, <2>3, <2>4, <2>5 DEF BackingTyped, NamesInOrder
  <2>7. u \in Task /\ u.op = x.op /\ u.at = "lstat" /\ u.path = x.path /\ u.owed = x.owed
    BY <1>1, <2>2 DEF Task
  <2>8. InOrder(u)'
    BY <2>3, <2>4, <2>7 DEF InOrder, Changing
  <2> QED
    BY <1>2, <2>3, <2>6, <2>7, <2>8
<1>7. CASE DriverRemoves(t)
  <2>1. PICK f : f = FileAt(x.path)
    OBVIOUS
  <2>2. PICK u : u = [x EXCEPT !.at = "done", !.file = f]
    OBVIOUS
  <2>3. /\ x.op = "remove" /\ x.at = "driver" /\ Done(t, u)
        /\ names' = [names EXCEPT ![x.path] = None] /\ files' = files /\ handles' = handles
    BY <1>0, <1>7, <2>1, <2>2 DEF DriverRemoves, Awaits, At
  <2>4. x.path \in Entries /\ x.owed = <<>>
    BY <1>1, <2>3 DEF InOrder, Changing
  <2>5. f \in 0 .. RootFile /\ None \in 0 .. Len(files) /\ None \in 0 .. MaxFiles
    <3>1. f \in 0 .. RootFile /\ Len(files) \in Nat /\ MaxFiles \in Nat
      BY <1>1, <2>1, FileAtIs, Constants
    <3> QED
      BY <3>1 DEF None
  <2>6. BackingTyped'
    BY <1>1, <2>3, <2>4, <2>5 DEF BackingTyped, NamesInOrder
  <2>7. u \in Task /\ u.op = x.op /\ u.at = "done" /\ u.path = x.path /\ u.owed = x.owed
    BY <1>1, <2>2, <2>5 DEF Task
  <2>8. InOrder(u)'
    BY <2>3, <2>4, <2>7 DEF InOrder, Changing
  <2> QED
    BY <1>2, <2>3, <2>6, <2>7, <2>8
<1>8. CASE DriverRenames(t)
  <2>1. PICK f : f = FileAt(x.path)
    OBVIOUS
  <2>2. PICK u : u = [x EXCEPT !.at = "done", !.file = f]
    OBVIOUS
  <2>3. /\ x.op = "rename" /\ x.at = "driver" /\ Done(t, u) /\ FitsUnder(x.from, x.path)
        /\ names' = Renamed(x.from, x.path) /\ files' = files /\ handles' = handles
    BY <1>0, <1>8, <2>1, <2>2 DEF DriverRenames, Awaits, At
  <2>4. x.path \in Entries /\ x.from \in Entries /\ x.owed = <<>>
    BY <1>1, <2>3 DEF InOrder, Changing
  <2>5. f \in 0 .. RootFile /\ Len(files) \in Nat /\ MaxFiles \in Nat
    BY <1>1, <2>1, FileAtIs, Constants
  <2>6. BackingTyped'
    <3>1. None \in 0 .. Len(files) /\ None \in 0 .. MaxFiles
      BY <2>5 DEF None
    <3>2. \A p \in Entries : names[p] \in 0 .. Len(files) /\ names[p] \in 0 .. MaxFiles
      BY <1>1 DEF BackingTyped, NamesInOrder
    <3> DEFINE g(p) == CASE Inside(p, x.path) -> IF Moved(p, x.path, x.from) \in Entries
                                                 THEN names[Moved(p, x.path, x.from)] ELSE None
                         [] ~Inside(p, x.path) /\ Inside(p, x.from) -> None
                         [] OTHER -> names[p]
    <3>3. \A p \in Entries : g(p) \in 0 .. Len(files) /\ g(p) \in 0 .. MaxFiles
      BY <3>1, <3>2
    <3>4. names' = names \/ names' = [p \in Entries |-> g(p)]
      BY <2>3 DEF Renamed
    <3> HIDE DEF g
    <3>5. /\ names' \in [Entries -> 0 .. MaxFiles]
          /\ \A p \in Entries : names'[p] \in 0 .. Len(files)
      BY <1>1, <3>2, <3>3, <3>4 DEF BackingTyped
    <3> QED
      BY <1>1, <2>3, <3>5 DEF BackingTyped, NamesInOrder
  <2>7. /\ u \in Task /\ u.op = x.op /\ u.at = "done" /\ u.path = x.path /\ u.from = x.from
        /\ u.owed = x.owed
    BY <1>1, <2>2, <2>5 DEF Task
  <2>8. InOrder(u)'
    BY <2>3, <2>4, <2>7 DEF InOrder, Changing
  <2>9. LandsIn(u)
    <3>1. ~Inside(Top, x.from)
      BY <2>4, TopIsOutside DEF Entries
    <3> QED
      BY <2>3, <2>7, <3>1 DEF LandsIn, FitsUnder, Entries
  <2> QED
    BY <1>2, <2>3, <2>6, <2>7, <2>8, <2>9
<1>9. CASE DriverLstats(t)
  <2>1. PICK f : f = FileAt(x.path)
    OBVIOUS
  <2>2. PICK u : u = [x EXCEPT !.at = "resumed", !.file = f]
    OBVIOUS
  <2>3. x.at = "lstat" /\ f # None /\ Done(t, u) /\ UNCHANGED <<names, files, handles>>
    BY <1>0, <1>9, <2>1, <2>2 DEF DriverLstats, backing
  <2>4. x.path \in Entries /\ x.op \in {"lookup", "create", "make", "link"} /\ x.owed = <<>>
    BY <1>1, <2>3 DEF InOrder, Changing
  <2>5. f \in 0 .. RootFile /\ f \in DOMAIN files
    BY <1>1, <2>1, <2>3, <2>4, FileAtIs
  <2>6. BackingTyped'
    BY <1>1, <2>3 DEF BackingTyped, NamesInOrder
  <2>7. /\ u \in Task /\ u.op = x.op /\ u.at = "resumed" /\ u.path = x.path /\ u.file = f
        /\ u.owed = x.owed
    BY <1>1, <2>2, <2>5 DEF Task
  <2>8. InOrder(u)'
    BY <2>3, <2>4, <2>5, <2>7 DEF InOrder, Changing
  <2> QED
    BY <1>2, <2>3, <2>6, <2>7, <2>8
<1>10. CASE DriverReaches(t)
  <2>1. PICK u : u = Idle
    OBVIOUS
  <2>2. x.op = "reach" /\ x.at = "driver" /\ Done(t, u) /\ UNCHANGED <<names, files, handles>>
    BY <1>0, <1>10, <2>1 DEF DriverReaches, Awaits, At, backing
  <2>3. u \in Task /\ u.op = "none" /\ u.at = "idle" /\ u.owed = <<>> /\ x.owed = <<>>
    BY <1>1, <2>1, <2>2, IdleInOrder, IdleTask DEF InOrder
  <2>4. InOrder(u)'
    BY <2>3 DEF InOrder, Changing
  <2>5. BackingTyped'
    BY <1>1, <2>2 DEF BackingTyped, NamesInOrder
  <2> QED
    BY <1>2, <2>2, <2>3, <2>4, <2>5
<1>11. CASE \E p \in x.page : DriverLstatsEntry(t, p)
  <2>1. PICK p \in x.page : DriverLstatsEntry(t, p)
    BY <1>11
  <2>2. PICK f : f = FileAt(p)
    OBVIOUS
  <2>3. PICK at \in {"page", "entry"} : at = IF f = None THEN "page" ELSE "entry"
    OBVIOUS
  <2>4. PICK rest : rest = x.page \ {p}
    OBVIOUS
  <2>5. PICK u : u = [x EXCEPT !.at = at, !.path = p, !.page = rest, !.file = f]
    OBVIOUS
  <2>6. x.at = "page" /\ Done(t, u) /\ UNCHANGED <<names, files, handles>>
    BY <1>0, <2>1, <2>2, <2>3, <2>4, <2>5 DEF DriverLstatsEntry, backing
  <2>7. x.op = "readdir" /\ p \in Entries /\ p \in Paths /\ rest \in SUBSET Entries
    BY <1>1, <2>4, <2>6, TaskHas DEF InOrder, Entries
  <2>8. f \in 0 .. RootFile /\ (at = "entry" => f \in DOMAIN files)
    BY <1>1, <2>2, <2>3, <2>7, FileAtIs
  <2>9. BackingTyped'
    BY <1>1, <2>6 DEF BackingTyped, NamesInOrder
  <2>10. u \in Task /\ u.op = x.op /\ u.at = at /\ u.path = p /\ u.file = f /\ u.owed = x.owed
    BY <1>1, <2>5, <2>7, <2>8 DEF Task
  <2>11. InOrder(u)'
    BY <2>6, <2>7, <2>8, <2>10 DEF InOrder, Changing
  <2> QED
    BY <1>2, <2>6, <2>7, <2>9, <2>10, <2>11
<1> QED
  BY <1>0, <1>3, <1>4, <1>5, <1>6, <1>7, <1>8, <1>9, <1>10, <1>11 DEF DriverActs

-----------------------------------------------------------------------------
(* The continuations                                                        *)

\* TableInv by its parts, for a step that hands lookups out.
LEMMA Assembled ==
  ASSUME TableInv, tasks' \in [Tasks -> Task], requests' = requests, driver' = driver,
         StagesInOrder', RenamesAlone', RenamesFit', TableOK(table'),
         OpensTyped', TeardownTyped', BackingTyped', KernelTyped',
         OwedFinite', LookupsMatch'
  PROVE  TableInv'
<1>1. TasksTyped' /\ driver' \in Drivers
  BY TypesAre DEF TableInv, TasksTyped
<1>2. table' \in Table
  BY DEF TableOK
<1>3. (TypeOK /\ NamesInOrder)'
  <2>1. (TypeOK /\ NamesInOrder)' <=>
          (/\ table \in Table /\ OpensTyped /\ TasksTyped /\ TeardownTyped /\ BackingTyped
           /\ driver \in Drivers /\ KernelTyped)'
    BY TypesAre, PTL
  <2> QED
    BY <1>1, <1>2, <2>1
<1>4. TableOK(table)'
  OBVIOUS
<1> QED
  BY <1>3, <1>4 DEF TableInv

\* The typing a step keeps of what it leaves alone.
LEMMA TypingKept ==
  ASSUME TableInv
  PROVE  /\ UNCHANGED <<opens, nextFh>> => OpensTyped'
         /\ UNCHANGED teardown => TeardownTyped'
         /\ UNCHANGED backing => BackingTyped'
         /\ UNCHANGED kernel => KernelTyped'
<1>1. OpensTyped /\ TeardownTyped /\ BackingTyped /\ KernelTyped
  BY TypesAre DEF TableInv
<1> QED
  BY <1>1 DEF OpensTyped, TeardownTyped, BackingTyped, KernelTyped, NamesInOrder, teardown,
              backing, kernel

\* Lookups are counted.
LEMMA OwedIs ==
  ASSUME TableInv, NEW n \in Nodeids
  PROVE  held[n] \in Nat /\ Owed(Tasks, n) \in Nat /\ held[n] + Owed(Tasks, n) \in Nat
<1>1. held[n] \in Nat
  BY DEF TableInv, TypeOK
<1>2. Owed(Tasks, n) \in Nat
  BY FS_CardinalityType DEF TableInv, OwedFinite, Owed
<1> QED
  BY <1>1, <1>2

\* The table a reply on an entry leaves.
LEMMA ReplyAgrees ==
  ASSUME TableInv, NEW p \in Entries, NEW f \in DOMAIN files, CanBind(table, p, KeyOf(f))
  PROVE  LET n == BoundTo(table, p, KeyOf(f))
             u == Acquire(Bind(table, p, KeyOf(f)), n)
         IN /\ TableOK(u) /\ n \in Nodeids \ {Root} /\ u.live = table.live \cup {n}
            /\ u.inodes[n].nlookup = table.inodes[n].nlookup + 1
            /\ \A m \in Nodeids \ {n} : u.inodes[m].nlookup = table.inodes[m].nlookup
            /\ n \notin table.live => table.inodes[n].nlookup = 0
            /\ u.inodes[n].key = KeyOf(f)
            /\ \A m \in Nodeids \ {n} : u.inodes[m].key = table.inodes[m].key
            /\ \A q \in Paths : u.byPath[q] = IF q = p THEN n ELSE table.byPath[q]
<1> DEFINE key == KeyOf(f)
           n == BoundTo(table, p, key)
           v == Bind(table, p, key)
           u == Acquire(v, n)
<1>1. key \in Inos \cup {NoKey}
  <2>1. files[f] \in [ino : Inos, dir : BOOLEAN]
    <3> DEFINE R == [ino : Inos, dir : BOOLEAN]
    <3> HIDE DEF R
    <3>1. files \in Seq(R)
      BY DEF TableInv, TypeOK, R
    <3>2. files[f] \in R
      BY <3>1
    <3> QED
      BY <3>2 DEF R
  <2> QED
    BY <2>1 DEF KeyOf
<1>2. p \in Paths \ {Top} /\ TableOK(table)
  BY DEF Entries, TableInv
<1> HIDE DEF key
<1>3. CanBind(table, p, key)
  BY DEF key
<1>4. /\ TableOK(v) /\ n \in Nodeids \ {Root} /\ v.live = table.live \cup {n}
      /\ \A m \in Nodeids : v.inodes[m].nlookup = table.inodes[m].nlookup
      /\ n \notin table.live => table.inodes[n] = Unborn
      /\ v.inodes[n].key = key
      /\ \A m \in Nodeids \ {n} : v.inodes[m].key = table.inodes[m].key
      /\ \A q \in Paths : v.byPath[q] = IF q = p THEN n ELSE table.byPath[q]
  BY <1>1, <1>2, <1>3, BindAgrees
<1> HIDE DEF n, v
<1>5. /\ TableOK(u) /\ u.live = v.live /\ u.byPath = v.byPath /\ SameKeys(v, u)
      /\ u.inodes[n].nlookup = v.inodes[n].nlookup + 1
      /\ \A m \in Nodeids \ {n} : u.inodes[m].nlookup = v.inodes[m].nlookup
  BY <1>4, AcquireAgrees
<1>6. n \notin table.live => table.inodes[n].nlookup = 0
  BY <1>4 DEF Unborn
<1> HIDE DEF u
<1>7. /\ u.inodes[n].key = key
      /\ \A m \in Nodeids \ {n} : u.inodes[m].key = table.inodes[m].key
      /\ \A q \in Paths : u.byPath[q] = IF q = p THEN n ELSE table.byPath[q]
  BY <1>4, <1>5 DEF SameKeys
<1> QED
  BY <1>4, <1>5, <1>6, <1>7 DEF key, n, v, u

\* One more lookup on either side.
LEMMA OneMoreMatches ==
  ASSUME TableInv, NEW n \in Nodeids \ {Root}, destroyed' = destroyed,
         table'.live = table.live \cup {n},
         table'.inodes[n].nlookup = table.inodes[n].nlookup + 1,
         \A m \in Nodeids \ {n} : table'.inodes[m].nlookup = table.inodes[m].nlookup,
         n \notin table.live => table.inodes[n].nlookup = 0,
         held'[n] + Owed(Tasks, n)' = held[n] + Owed(Tasks, n) + 1,
         \A m \in Nodeids \ {n} : held'[m] + Owed(Tasks, m)' = held[m] + Owed(Tasks, m)
  PROVE  LookupsMatch'
<1> SUFFICES ASSUME ~destroyed, NEW m \in Nodeids \ {Root}
             PROVE  /\ m \in table'.live <=> held'[m] + Owed(Tasks, m)' > 0
                    /\ m \in table'.live =>
                         table'.inodes[m].nlookup = held'[m] + Owed(Tasks, m)'
  BY DEF LookupsMatch
<1> DEFINE c == held[m] + Owed(Tasks, m)
           d == held'[m] + Owed(Tasks, m)'
<1>1. /\ m \in table.live <=> c > 0
      /\ m \in table.live => table.inodes[m].nlookup = c
  BY DEF TableInv, LookupsMatch
<1>2. c \in Nat
  BY OwedIs
<1>3. d = IF m = n THEN c + 1 ELSE c
  OBVIOUS
<1> HIDE DEF c, d
<1>4. /\ m \in table'.live <=> d > 0
      /\ m \in table'.live => table'.inodes[m].nlookup = d
  <2>1. CASE m = n
    BY <1>1, <1>2, <1>3, <2>1
  <2>2. CASE m # n
    BY <1>1, <1>2, <1>3, <2>2
  <2> QED
    BY <2>1, <2>2
<1> QED
  BY <1>4 DEF d

\* AddFile and the handle it is given.
LEMMA AddFileTyped ==
  ASSUME OpensTyped, NEW n \in Nodeids, NEW h \in Nat, AddFile(n, h)
  PROVE  OpensTyped'
<1> DEFINE o == [fh |-> nextFh, node |-> n, handle |-> h]
<1>1. o \in [fh : Nat, node : Nodeids, handle : Nat]
  BY DEF OpensTyped
<1> HIDE DEF o
<1>2. opens' = opens \cup {o} /\ nextFh' = nextFh + 1
  BY DEF AddFile, o
<1> QED
  BY <1>1, <1>2 DEF OpensTyped

LEMMA BindsEntryKeeps ==
  ASSUME TableInv, NEW t \in Tasks, BindsEntry(t)
  PROVE  TableInv'
<1>0. PICK x : x = tasks[t]
  OBVIOUS
<1>1. /\ x \in Task /\ InOrder(x) /\ OpensTyped /\ BackingTyped /\ KernelTyped
      /\ x.handle \in Nat
  <2>1. TasksTyped /\ OpensTyped /\ BackingTyped /\ KernelTyped
    BY TypesAre DEF TableInv
  <2>2. x \in Task
    BY <1>0, <2>1 DEF TasksTyped
  <2> QED
    BY <1>0, <2>1, <2>2, TaskHas DEF TableInv, StagesInOrder
<1>2. PICK n : n = BoundTo(table, x.path, KeyOf(x.file))
  OBVIOUS
<1>3. /\ x.at = "resumed" /\ CanBind(table, x.path, KeyOf(x.file))
      /\ table' = Acquire(Bind(table, x.path, KeyOf(x.file)), n)
      /\ held' = [held EXCEPT ![n] = @ + 1]
      /\ denotes' = [denotes EXCEPT ![n] = @ \cup {x.file}]
      /\ Step(t, Idle)
  BY <1>0, <1>2 DEF BindsEntry, HandOut
<1>4. AddFile(n, x.handle) \/ UNCHANGED <<opens, nextFh>>
  BY <1>0, <1>2 DEF BindsEntry
<1>5. UNCHANGED teardown /\ UNCHANGED backing /\ driver' = driver /\ requests' = requests
  BY DEF BindsEntry
<1>6. x.path \in Entries /\ x.file \in DOMAIN files /\ x.owed = <<>> /\ x.op # "none"
  BY <1>1, <1>3 DEF InOrder, Changing
<1>7. /\ TableOK(table') /\ n \in Nodeids \ {Root} /\ table'.live = table.live \cup {n}
      /\ table'.inodes[n].nlookup = table.inodes[n].nlookup + 1
      /\ \A m \in Nodeids \ {n} : table'.inodes[m].nlookup = table.inodes[m].nlookup
      /\ n \notin table.live => table.inodes[n].nlookup = 0
  BY <1>2, <1>3, <1>6, ReplyAgrees
<1>8. \A m : Owing(Tasks, m)' = Owing(Tasks, m) /\ Owed(Tasks, m)' = Owed(Tasks, m)
  <2>1. \A s \in Tasks : tasks'[s].owed = tasks[s].owed
    BY <1>0, <1>3, <1>6, IdleTask DEF Step, TableInv, TypeOK
  <2> QED
    BY <2>1, OwedKept
<1>9. tasks' \in [Tasks -> Task] /\ StagesInOrder' /\ RenamesAlone' /\ RenamesFit'
  <2>1. PICK u : u = Idle
    OBVIOUS
  <2>2. u \in Task /\ u.op = "none" /\ u.at = "idle" /\ u.owed = <<>> /\ Step(t, u)
    BY <1>3, <2>1, IdleInOrder, IdleTask
  <2>3. InOrder(u)'
    BY <2>2 DEF InOrder, Changing
  <2>4. DOMAIN files \subseteq DOMAIN files' /\ tasks[t].at # "idle"
    BY <1>0, <1>3, <1>5 DEF backing
  <2> QED
    BY <2>2, <2>3, <2>4, OrderKept
<1>10. LookupsMatch'
  <2>1. \A m \in Nodeids : held'[m] = IF m = n THEN held[m] + 1 ELSE held[m]
    BY <1>1, <1>3 DEF KernelTyped
  <2>2. \A m \in Nodeids : held[m] \in Nat /\ Owed(Tasks, m) \in Nat
    BY OwedIs
  <2>3. held'[n] + Owed(Tasks, n)' = held[n] + Owed(Tasks, n) + 1
    BY <1>7, <1>8, <2>1, <2>2
  <2>4. \A m \in Nodeids \ {n} : held'[m] + Owed(Tasks, m)' = held[m] + Owed(Tasks, m)
    BY <1>8, <2>1, <2>2
  <2>5. destroyed' = destroyed
    BY <1>5 DEF teardown
  <2> QED
    BY <1>7, <2>3, <2>4, <2>5, OneMoreMatches
<1>11. OwedFinite'
  BY <1>8 DEF TableInv, OwedFinite
<1>12. KernelTyped'
  <2>1. DOMAIN files \subseteq Files
    BY <1>1, Constants, FileAtIs
  <2> QED
    BY <1>1, <1>3, <1>6, <1>7, <2>1 DEF KernelTyped
<1>13. OpensTyped'
  BY <1>1, <1>4, <1>7, AddFileTyped, TypingKept
<1>14. TeardownTyped' /\ BackingTyped'
  BY <1>5, TypingKept
<1> QED
  BY <1>5, <1>7, <1>9, <1>10, <1>11, <1>12, <1>13, <1>14, Assembled

LEMMA EntryBoundKeeps ==
  ASSUME TableInv, NEW t \in Tasks, EntryBound(t)
  PROVE  TableInv'
<1>0. PICK x : x = tasks[t]
  OBVIOUS
<1>1. /\ x \in Task /\ InOrder(x) /\ BackingTyped /\ x.owed \in Seq(Owed1)
      /\ TasksTyped
  <2>1. TasksTyped /\ BackingTyped
    BY TypesAre DEF TableInv
  <2>2. x \in Task
    BY <1>0, <2>1 DEF TasksTyped
  <2> QED
    BY <1>0, <2>1, <2>2, TaskHas DEF TableInv, StagesInOrder
<1>2. PICK n : n = BoundTo(table, x.path, KeyOf(x.file))
  OBVIOUS
<1>3. PICK e : e = [node |-> n, file |-> x.file]
  OBVIOUS
<1>4. PICK more : more = Append(x.owed, e)
  OBVIOUS
<1>5. PICK u : u = [x EXCEPT !.at = "page", !.owed = more]
  OBVIOUS
<1>6. /\ x.at = "entry" /\ CanBind(table, x.path, KeyOf(x.file))
      /\ table' = Acquire(Bind(table, x.path, KeyOf(x.file)), n)
      /\ Step(t, u)
  BY <1>0, <1>2, <1>3, <1>4, <1>5 DEF EntryBound
<1>7. /\ UNCHANGED <<opens, nextFh>> /\ UNCHANGED teardown /\ UNCHANGED backing
      /\ UNCHANGED kernel /\ driver' = driver /\ requests' = requests
  BY DEF EntryBound
<1>8. x.op = "readdir" /\ x.path \in Entries /\ x.file \in DOMAIN files
  BY <1>1, <1>6 DEF InOrder, Changing
<1>9. /\ TableOK(table') /\ n \in Nodeids \ {Root} /\ table'.live = table.live \cup {n}
      /\ table'.inodes[n].nlookup = table.inodes[n].nlookup + 1
      /\ \A m \in Nodeids \ {n} : table'.inodes[m].nlookup = table.inodes[m].nlookup
      /\ n \notin table.live => table.inodes[n].nlookup = 0
  BY <1>2, <1>6, <1>8, ReplyAgrees
<1>10. e \in Owed1 /\ e.node = n
  <2>1. DOMAIN files \subseteq Files
    BY <1>1, Constants, FileAtIs
  <2> QED
    BY <1>3, <1>8, <1>9, <2>1 DEF Owed1
<1>11. /\ more \in Seq(Owed1) /\ DOMAIN more = DOMAIN x.owed \cup {Len(x.owed) + 1}
       /\ Len(x.owed) + 1 \notin DOMAIN x.owed /\ more[Len(x.owed) + 1] = e
       /\ \A i \in DOMAIN x.owed : more[i] = x.owed[i]
  BY <1>1, <1>4, <1>10
<1>12. u \in Task /\ u.op = "readdir" /\ u.at = "page" /\ u.owed = more
  BY <1>1, <1>5, <1>8, <1>11 DEF Task, Owed1
<1>13. tasks' \in [Tasks -> Task] /\ StagesInOrder' /\ RenamesAlone' /\ RenamesFit'
  <2>1. InOrder(u)'
    BY <1>12 DEF InOrder, Changing
  <2>2. DOMAIN files \subseteq DOMAIN files' /\ tasks[t].at # "idle"
    BY <1>0, <1>6, <1>7 DEF backing
  <2>3. u.op \in {tasks[t].op, "none"} /\ ~(u.op = "rename" /\ u.at = "done")
    BY <1>0, <1>8, <1>12
  <2> QED
    BY <1>6, <1>12, <2>1, <2>2, <2>3, OrderKept
<1>14. tasks'[t].owed = more /\ \A s \in Tasks \ {t} : tasks'[s].owed = tasks[s].owed
  BY <1>1, <1>6, <1>12, OneTaskMoves
<1> DEFINE new == <<t, Len(x.owed) + 1>>
<1>15. Owing(Tasks, n)' = Owing(Tasks, n) \cup {new} /\ new \notin Owing(Tasks, n)
  <2>1. \A o : o \in Owing(Tasks, n)' <=>
          \E s \in Tasks : \E i \in DOMAIN tasks'[s].owed :
             o = <<s, i>> /\ tasks'[s].owed[i].node = n
    BY DEF Owing
  <2>2. \A o : o \in Owing(Tasks, n)' <=> (o \in Owing(Tasks, n) \/ o = new)
    BY <1>0, <1>10, <1>11, <1>14, <2>1, OwingIs
  <2>3. new \notin Owing(Tasks, n)
    BY <1>0, <1>11, OwingIs
  <2> HIDE DEF new
  <2> QED
    BY <2>2, <2>3
<1>16. \A m \in Nodeids \ {n} : Owing(Tasks, m)' = Owing(Tasks, m)
  <2> TAKE m \in Nodeids \ {n}
  <2>1. \A o : o \in Owing(Tasks, m)' <=>
          \E s \in Tasks : \E i \in DOMAIN tasks'[s].owed :
             o = <<s, i>> /\ tasks'[s].owed[i].node = m
    BY DEF Owing
  <2>2. \A o : o \in Owing(Tasks, m)' <=> o \in Owing(Tasks, m)
    BY <1>0, <1>10, <1>11, <1>14, <2>1, OwingIs
  <2> QED
    BY <2>2
<1> HIDE DEF new
<1>17. IsFiniteSet(Owing(Tasks, n)')
       /\ Cardinality(Owing(Tasks, n)') = Cardinality(Owing(Tasks, n)) + 1
  <2>1. IsFiniteSet(Owing(Tasks, n))
    BY <1>9 DEF TableInv, OwedFinite
  <2> QED
    BY <1>15, <2>1, FS_AddElement
<1>18. OwedFinite'
  BY <1>16, <1>17 DEF TableInv, OwedFinite
<1>19. Owed(Tasks, n)' = Owed(Tasks, n) + 1
       /\ \A m \in Nodeids \ {n} : Owed(Tasks, m)' = Owed(Tasks, m)
  BY <1>16, <1>17 DEF Owed
<1>20. LookupsMatch'
  <2>1. held' = held /\ destroyed' = destroyed
    BY <1>7 DEF kernel, teardown
  <2>2. \A m \in Nodeids : held[m] \in Nat /\ Owed(Tasks, m) \in Nat
    BY OwedIs
  <2>3. held'[n] + Owed(Tasks, n)' = held[n] + Owed(Tasks, n) + 1
    BY <1>9, <1>19, <2>1, <2>2
  <2>4. \A m \in Nodeids \ {n} : held'[m] + Owed(Tasks, m)' = held[m] + Owed(Tasks, m)
    BY <1>19, <2>1
  <2> QED
    BY <1>9, <2>1, <2>3, <2>4, OneMoreMatches
<1>21. OpensTyped' /\ TeardownTyped' /\ BackingTyped' /\ KernelTyped'
  BY <1>7, TypingKept
<1> QED
  BY <1>7, <1>9, <1>13, <1>18, <1>20, <1>21, Assembled

\* The lookups of a page pass from the table's account to the kernel's.
LEMMA PageEndsKeeps ==
  ASSUME TableInv, NEW t \in Tasks, PageEnds(t)
  PROVE  TableInv'
<1>0. PICK x : x = tasks[t]
  OBVIOUS
<1>1. x \in Task /\ InOrder(x) /\ x.owed \in Seq(Owed1) /\ TasksTyped /\ KernelTyped
  <2>1. TasksTyped /\ KernelTyped
    BY TypesAre DEF TableInv
  <2>2. x \in Task
    BY <1>0, <2>1 DEF TasksTyped
  <2> QED
    BY <1>0, <2>1, <2>2, TaskHas DEF TableInv, StagesInOrder
<1>2. /\ x.at = "page" /\ Step(t, Idle)
      /\ held' = [n \in Nodeids |-> held[n] + Owed({t}, n)]
      /\ denotes' = [n \in Nodeids |->
                       denotes[n] \cup {e.file : e \in {e \in ToSet(x.owed) : e.node = n}}]
  BY <1>0 DEF PageEnds
<1>3. /\ table' = table /\ UNCHANGED <<opens, nextFh>> /\ UNCHANGED teardown
      /\ UNCHANGED backing /\ driver' = driver /\ requests' = requests
  BY DEF PageEnds, session
<1>4. tasks' \in [Tasks -> Task] /\ StagesInOrder' /\ RenamesAlone' /\ RenamesFit'
  <2>1. PICK u : u = Idle
    OBVIOUS
  <2>2. u \in Task /\ u.op = "none" /\ u.at = "idle" /\ Step(t, u)
    BY <1>2, <2>1, IdleInOrder, IdleTask
  <2>3. InOrder(u)'
    BY <2>1, <2>2, IdleTask DEF InOrder, Changing
  <2>4. DOMAIN files \subseteq DOMAIN files' /\ tasks[t].at # "idle"
    BY <1>0, <1>2, <1>3 DEF backing
  <2> QED
    BY <2>2, <2>3, <2>4, OrderKept
<1>5. tasks'[t].owed = <<>> /\ \A s \in Tasks \ {t} : tasks'[s].owed = tasks[s].owed
  BY <1>1, <1>2, IdleInOrder, IdleTask, OneTaskMoves
<1>6. ASSUME NEW n \in Nodeids
      PROVE  /\ IsFiniteSet(Owing(Tasks, n)')
             /\ held'[n] + Owed(Tasks, n)' = held[n] + Owed(Tasks, n)
             /\ held'[n] \in Nat
  <2> DEFINE all == Owing(Tasks, n)
             mine == Owing({t}, n)
             rest == Owing(Tasks, n)'
  <2>1. \A o : o \in rest <=>
          \E s \in Tasks : \E i \in DOMAIN tasks'[s].owed :
             o = <<s, i>> /\ tasks'[s].owed[i].node = n
    BY DEF Owing
  <2>2. \A o : o \in all <=>
          \E s \in Tasks : \E i \in DOMAIN tasks[s].owed :
             o = <<s, i>> /\ tasks[s].owed[i].node = n
    BY OwingIs
  <2>3. \A o : o \in mine <=>
          \E i \in DOMAIN tasks[t].owed : o = <<t, i>> /\ tasks[t].owed[i].node = n
    BY OwingIs
  <2> HIDE DEF all, mine, rest
  <2>4. \A o : o \in rest => (o \in all /\ o \notin mine)
    <3> TAKE o
    <3> HAVE o \in rest
    <3>1. PICK s \in Tasks : \E i \in DOMAIN tasks'[s].owed :
             o = <<s, i>> /\ tasks'[s].owed[i].node = n
      BY <2>1
    <3>2. s # t
      <4>1. DOMAIN tasks'[t].owed = {}
        BY <1>5
      <4> QED
        BY <3>1, <4>1
    <3>3. PICK i \in DOMAIN tasks[s].owed : o = <<s, i>> /\ tasks[s].owed[i].node = n
      BY <1>5, <3>1, <3>2
    <3>4. o \in all
      BY <2>2, <3>3
    <3>5. o \notin mine
      BY <2>3, <3>2, <3>3
    <3> QED
      BY <3>4, <3>5
  <2>5. \A o : o \in all => (o \in rest \/ o \in mine)
    <3> TAKE o
    <3> HAVE o \in all
    <3>1. PICK s \in Tasks : \E i \in DOMAIN tasks[s].owed :
             o = <<s, i>> /\ tasks[s].owed[i].node = n
      BY <2>2
    <3>2. CASE s = t
      BY <2>3, <3>1, <3>2
    <3>3. CASE s # t
      <4>1. tasks'[s].owed = tasks[s].owed
        BY <1>5, <3>3
      <4> QED
        BY <2>1, <3>1, <4>1
    <3> QED
      BY <3>2, <3>3
  <2>6. \A o : o \in mine => o \in all
    BY <2>2, <2>3
  <2>7. IsFiniteSet(all)
    BY DEF TableInv, OwedFinite, all
  <2>8. all = rest \cup mine /\ rest \cap mine = {} /\ rest \subseteq all /\ mine \subseteq all
    BY <2>4, <2>5, <2>6
  <2>9. IsFiniteSet(rest) /\ IsFiniteSet(mine)
    BY <2>7, <2>8, FS_Subset
  <2>10. /\ Cardinality(all) = Cardinality(rest) + Cardinality(mine)
         /\ Cardinality(rest) \in Nat /\ Cardinality(mine) \in Nat
    <3>1. Cardinality(rest) \in Nat /\ Cardinality(mine) \in Nat
      BY <2>9, FS_CardinalityType
    <3>2. Cardinality(rest \cup mine)
            = Cardinality(rest) + Cardinality(mine) - Cardinality(rest \cap mine)
      BY <2>9, FS_Union
    <3>3. Cardinality(rest \cap mine) = 0
      BY <2>8, FS_EmptySet
    <3> QED
      BY <2>8, <3>1, <3>2, <3>3
  <2>11. /\ Owed(Tasks, n) = Cardinality(all) /\ Owed(Tasks, n)' = Cardinality(rest)
         /\ held'[n] = held[n] + Cardinality(mine) /\ held[n] \in Nat
    BY <1>1, <1>2 DEF Owed, all, rest, mine, KernelTyped
  <2>12. IsFiniteSet(Owing(Tasks, n)')
    BY <2>9 DEF rest
  <2> QED
    BY <2>10, <2>11, <2>12
<1>7. OwedFinite'
  BY <1>6 DEF OwedFinite
<1>8. LookupsMatch'
  <2>1. destroyed' = destroyed
    BY <1>3 DEF teardown
  <2> QED
    BY <1>3, <1>6, <2>1 DEF TableInv, LookupsMatch
<1>9. KernelTyped'
  <2>1. held' \in [Nodeids -> Nat]
    BY <1>2, <1>6
  <2>2. \A e \in ToSet(x.owed) : e.file \in Files
    <3> DEFINE s == x.owed
    <3>1. s \in Seq(Owed1)
      BY <1>1
    <3> HIDE DEF s
    <3>2. \A i \in DOMAIN s : s[i] \in Owed1
      BY <3>1
    <3> QED
      BY <3>2 DEF ToSet, Owed1, s
  <2>3. \A n \in Nodeids :
          denotes[n] \cup {e.file : e \in {e \in ToSet(x.owed) : e.node = n}}
            \in SUBSET (Files \cup {RootFile})
    BY <1>1, <2>2 DEF KernelTyped
  <2>4. denotes' \in [Nodeids -> SUBSET (Files \cup {RootFile})]
    BY <1>2, <2>3
  <2> QED
    BY <2>1, <2>4 DEF KernelTyped
<1>10. OpensTyped' /\ TeardownTyped' /\ BackingTyped'
  BY <1>3, TypingKept
<1>11. TableOK(table')
  BY <1>3 DEF TableInv
<1> QED
  BY <1>3, <1>4, <1>7, <1>8, <1>9, <1>10, <1>11, Assembled

LEMMA ResumesKeepsTable ==
  ASSUME TableInv, NEW t \in Tasks, Resumes(t)
  PROVE  TableInv'
<1>0. PICK x : x = tasks[t]
  OBVIOUS
<1>1. /\ x \in Task /\ InOrder(x) /\ OpensTyped /\ BackingTyped /\ TableOK(table)
      /\ x.handle \in Nat /\ x.nodes \in SUBSET Nodeids
  <2>1. TasksTyped /\ OpensTyped /\ BackingTyped
    BY TypesAre DEF TableInv
  <2>2. x \in Task
    BY <1>0, <2>1 DEF TasksTyped
  <2> QED
    BY <1>0, <2>1, <2>2, TaskHas DEF TableInv, StagesInOrder
\* What is left to show of a step that ends a request on no page.
<1>2. ASSUME Step(t, Idle), x.at # "idle", x.owed = <<>>, TableOK(table'),
             SameLookups(table, table'), OpensTyped', BackingTyped', files' = files,
             UNCHANGED teardown, UNCHANGED kernel, driver' = driver, requests' = requests
      PROVE  TableInv'
  <2>1. PICK u : u = Idle
    OBVIOUS
  <2>2. u \in Task /\ u.op = "none" /\ u.at = "idle" /\ u.owed = <<>> /\ Step(t, u)
    BY <1>2, <2>1, IdleInOrder, IdleTask
  <2>3. InOrder(u)'
    BY <2>2 DEF InOrder, Changing
  <2>4. tasks[t].at # "idle" /\ u.op \in {tasks[t].op, "none"} /\ u.owed = tasks[t].owed
        /\ ~(u.op = "rename" /\ u.at = "done") /\ DOMAIN files \subseteq DOMAIN files'
    BY <1>0, <1>2, <2>2
  <2>5. UNCHANGED <<teardown, kernel, driver, requests>>
    BY <1>2
  <2> QED
    BY <1>2, <2>2, <2>3, <2>4, <2>5, StepKeeps
<1>3. CASE OpenResumes(t)
  <2>1. /\ x.at = "opened" /\ Step(t, Idle) /\ table' = table /\ UNCHANGED teardown
        /\ UNCHANGED backing /\ UNCHANGED kernel /\ driver' = driver /\ requests' = requests
    BY <1>0, <1>3 DEF OpenResumes
  <2>2. PICK n \in x.nodes : AddFile(n, x.handle)
    BY <1>0, <1>3 DEF OpenResumes
  <2>3. OpensTyped'
    BY <1>1, <2>2, AddFileTyped
  <2>4. x.owed = <<>>
    BY <1>1, <2>1 DEF InOrder
  <2>5. TableOK(table') /\ SameLookups(table, table')
    BY <1>1, <2>1 DEF SameLookups
  <2>6. BackingTyped' /\ files' = files
    BY <2>1, TypingKept DEF backing
  <2> QED
    BY <1>2, <2>1, <2>3, <2>4, <2>5, <2>6
<1>4. CASE RemoveResumes(t)
  <2>1. /\ x.op = "remove" /\ x.at = "done" /\ Step(t, Idle) /\ table' = Unbind(table, x.path)
        /\ UNCHANGED <<opens, nextFh>> /\ UNCHANGED teardown
        /\ UNCHANGED backing /\ UNCHANGED kernel /\ driver' = driver /\ requests' = requests
    BY <1>0, <1>4 DEF RemoveResumes, At
  <2>2. x.owed = <<>> /\ x.path \in Paths \ {Top}
    BY <1>1, <2>1 DEF InOrder, Changing, Entries
  <2>3. TableOK(table') /\ SameLookups(table, table')
    BY <1>1, <2>1, <2>2, UnbindAgrees
  <2>4. OpensTyped' /\ BackingTyped' /\ files' = files
    BY <2>1, TypingKept DEF backing
  <2> QED
    BY <1>2, <2>1, <2>2, <2>3, <2>4
<1>5. CASE RenameResumes(t)
  <2>1. /\ x.op = "rename" /\ x.at = "done" /\ Step(t, Idle)
        /\ table' = Remap(table, x.from, x.path)
        /\ UNCHANGED <<opens, nextFh>> /\ UNCHANGED teardown
        /\ UNCHANGED backing /\ UNCHANGED kernel /\ driver' = driver /\ requests' = requests
    BY <1>0, <1>5 DEF RenameResumes, At
  <2>2. x.owed = <<>> /\ x.path \in Paths \ {Top} /\ x.from \in Paths \ {Top}
    BY <1>1, <2>1 DEF InOrder, Changing, Entries
  <2>3. \A p \in Paths : (Inside(p, x.from) /\ table.byPath[p] # None)
                           => Moved(p, x.from, x.path) \in Paths
    BY <1>0, <2>1 DEF TableInv, RenamesFit, At, LandsIn
  <2>4. TableOK(table') /\ SameLookups(table, table')
    BY <1>1, <2>1, <2>2, <2>3, RemapAgrees
  <2>5. OpensTyped' /\ BackingTyped' /\ files' = files
    BY <2>1, TypingKept DEF backing
  <2> QED
    BY <1>2, <2>1, <2>2, <2>4, <2>5
<1>6. CASE Fails(t)
  <2>1. /\ x.at \in {"driver", "lstat", "opened"} /\ Step(t, Idle) /\ handles' = Unwound(t)
        /\ table' = table /\ UNCHANGED <<opens, nextFh>> /\ UNCHANGED teardown
        /\ names' = names /\ files' = files
        /\ UNCHANGED kernel /\ driver' = driver /\ requests' = requests
    BY <1>0, <1>6 DEF Fails, session
  <2>2. x.owed = <<>>
    BY <1>1, <2>1 DEF InOrder
  <2>3. TableOK(table') /\ SameLookups(table, table')
    BY <1>1, <2>1 DEF SameLookups
  <2>4. handles' \in Seq([file : Files, closed : Nat])
    BY <1>1, <2>1, ClosedTyped DEF Unwound, BackingTyped
  <2>5. BackingTyped'
    BY <1>1, <2>1, <2>4 DEF BackingTyped, NamesInOrder
  <2>6. OpensTyped'
    BY <2>1, TypingKept
  <2> QED
    BY <1>2, <2>1, <2>2, <2>3, <2>5, <2>6
<1> QED
  BY <1>3, <1>4, <1>5, <1>6, BindsEntryKeeps, EntryBoundKeeps, PageEndsKeeps DEF Resumes

-----------------------------------------------------------------------------
(* RELEASE, FORGET and destroy                                              *)

\* A step no request takes: the table finds nothing new but the root.
LEMMA NoTaskMoves ==
  ASSUME TableInv, tasks' = tasks, files' = files,
         \A p \in Paths : table'.byPath[p] # None => (table.byPath[p] # None \/ p = Top)
  PROVE  /\ tasks' \in [Tasks -> Task] /\ StagesInOrder' /\ RenamesAlone' /\ RenamesFit'
         /\ \A n : Owing(Tasks, n)' = Owing(Tasks, n) /\ Owed(Tasks, n)' = Owed(Tasks, n)
         /\ OwedFinite'
<1>1. tasks \in [Tasks -> Task]
  BY DEF TableInv, TypeOK
<1>2. StagesInOrder' /\ RenamesAlone'
  BY DEF TableInv, StagesInOrder, InOrder, RenamesAlone, Busy
<1>3. RenamesFit'
  <2>1. ASSUME NEW s \in Tasks, At(s, "rename", "done")'
        PROVE  LandsIn(tasks[s])'
    <3>1. At(s, "rename", "done") /\ LandsIn(tasks[s]) /\ InOrder(tasks[s])
      BY <2>1 DEF At, TableInv, RenamesFit, StagesInOrder
    <3>2. tasks[s].from \in Paths \ {Top}
      BY <3>1 DEF At, InOrder, Entries
    <3>3. ~Inside(Top, tasks[s].from)
      BY <3>2, TopIsOutside
    <3> QED
      BY <3>1, <3>3 DEF LandsIn
  <2> QED
    BY <2>1 DEF RenamesFit
<1>4. \A n : Owing(Tasks, n)' = Owing(Tasks, n) /\ Owed(Tasks, n)' = Owed(Tasks, n)
  BY OwedKept
<1>5. OwedFinite'
  BY <1>4 DEF TableInv, OwedFinite
<1> QED
  BY <1>1, <1>2, <1>3, <1>4, <1>5

\* A step that leaves the tasks, the table and the kernel alone.
LEMMA TableLeftAlone ==
  ASSUME TableInv, tasks' = tasks, files' = files, names' = names, table' = table,
         UNCHANGED kernel, driver' = driver, requests' = requests, destroyed' \in BOOLEAN,
         destroyed => destroyed', OpensTyped', TeardownTyped',
         handles' \in Seq([file : Files, closed : Nat])
  PROVE  TableInv'
<1>1. /\ tasks' \in [Tasks -> Task] /\ StagesInOrder' /\ RenamesAlone' /\ RenamesFit'
      /\ \A n : Owing(Tasks, n)' = Owing(Tasks, n) /\ Owed(Tasks, n)' = Owed(Tasks, n)
      /\ OwedFinite'
  BY NoTaskMoves
<1>2. held' = held
  BY DEF kernel
<1>3. LookupsMatch'
  BY <1>1, <1>2 DEF TableInv, LookupsMatch
<1>4. BackingTyped'
  BY TypesAre DEF TableInv, BackingTyped, NamesInOrder
<1>5. KernelTyped' /\ TableOK(table')
  BY TypingKept DEF TableInv
<1> QED
  BY <1>1, <1>3, <1>4, <1>5, Assembled

LEMMA ReleaseKeepsTable ==
  ASSUME TableInv, NEW o \in opens, Release(o)
  PROVE  TableInv'
<1>1. OpensTyped /\ BackingTyped
  BY TypesAre DEF TableInv
<1>2. /\ opens' = Removed(o) /\ handles' = Closed(o.handle) /\ nextFh' = nextFh
      /\ UNCHANGED teardown /\ tasks' = tasks /\ files' = files /\ names' = names
      /\ table' = table /\ UNCHANGED kernel /\ driver' = driver /\ requests' = requests
  BY DEF Release
<1>3. OpensTyped'
  BY <1>1, <1>2 DEF OpensTyped, Removed
<1>4. handles' \in Seq([file : Files, closed : Nat])
  BY <1>1, <1>2, ClosedTyped
<1>5. destroyed' = destroyed /\ destroyed' \in BOOLEAN
  BY <1>2 DEF teardown, TableInv, TypeOK
<1>6. TeardownTyped'
  BY <1>2, TypingKept
<1> QED
  BY <1>2, <1>3, <1>4, <1>5, <1>6, TableLeftAlone

LEMMA DestroyKeepsTable ==
  ASSUME TableInv, Destroy
  PROVE  TableInv'
<1>1. OpensTyped /\ TeardownTyped /\ BackingTyped
  BY TypesAre DEF TableInv
<1>2. /\ destroyed' = TRUE /\ toClose' = {o.handle : o \in opens} \ {None} /\ opens' = {}
      /\ nextFh' = nextFh /\ cleared' = cleared /\ UNCHANGED backing
      /\ tasks' = tasks /\ table' = table /\ UNCHANGED kernel /\ driver' = driver
      /\ requests' = requests
  BY DEF Destroy
<1>3. OpensTyped' /\ TeardownTyped'
  BY <1>1, <1>2 DEF OpensTyped, TeardownTyped
<1>4. files' = files /\ names' = names /\ handles' = handles
  BY <1>2 DEF backing
<1>5. handles' \in Seq([file : Files, closed : Nat])
  BY <1>1, <1>4 DEF BackingTyped
<1> QED
  BY <1>2, <1>3, <1>4, <1>5, TableLeftAlone

LEMMA DestroyClosesKeepsTable ==
  ASSUME TableInv, NEW h \in toClose, DestroyCloses(h)
  PROVE  TableInv'
<1>1. TeardownTyped /\ BackingTyped
  BY TypesAre DEF TableInv
<1>2. /\ handles' = Closed(h) /\ toClose' = toClose \ {h} /\ UNCHANGED <<opens, nextFh>>
      /\ destroyed' = destroyed /\ cleared' = cleared /\ tasks' = tasks /\ table' = table
      /\ names' = names /\ files' = files /\ UNCHANGED kernel /\ driver' = driver
      /\ requests' = requests
  BY DEF DestroyCloses, session
<1>3. TeardownTyped' /\ destroyed' \in BOOLEAN
  BY <1>1, <1>2 DEF TeardownTyped
<1>4. handles' \in Seq([file : Files, closed : Nat])
  BY <1>1, <1>2, ClosedTyped
<1>5. OpensTyped'
  BY <1>2, TypingKept
<1> QED
  BY <1>2, <1>3, <1>4, <1>5, TableLeftAlone

LEMMA DestroyClearsKeepsTable ==
  ASSUME TableInv, DestroyClears
  PROVE  TableInv'
<1>1. /\ destroyed /\ destroyed' = destroyed /\ toClose' = toClose /\ cleared' = TRUE
      /\ table' = Clear(table) /\ UNCHANGED <<opens, nextFh>> /\ UNCHANGED backing
      /\ UNCHANGED kernel /\ tasks' = tasks /\ driver' = driver /\ requests' = requests
  BY DEF DestroyClears
<1>2. TableOK(table') /\ \A p \in Paths : table'.byPath[p] # None => p = Top
  BY <1>1, ClearAgrees DEF TableInv
<1>3. files' = files
  BY <1>1 DEF backing
<1>4. /\ tasks' \in [Tasks -> Task] /\ StagesInOrder' /\ RenamesAlone' /\ RenamesFit'
      /\ OwedFinite'
  BY <1>1, <1>2, <1>3, NoTaskMoves
<1>5. LookupsMatch'
  BY <1>1 DEF LookupsMatch
<1>6. TeardownTyped'
  BY <1>1, TypesAre DEF TableInv, TeardownTyped
<1>7. OpensTyped' /\ BackingTyped' /\ KernelTyped'
  BY <1>1, TypingKept
<1> QED
  BY <1>1, <1>2, <1>4, <1>5, <1>6, <1>7, Assembled

\* FORGET drops an inode with the last lookup it was handed out for.
LEMMA ForgetKeepsTable ==
  ASSUME TableInv, NEW n \in table.live, NEW count \in 1 .. MaxLookups,
         ForgetLookups(n, count)
  PROVE  TableInv'
<1>1. /\ ~destroyed /\ n # Root /\ count <= held[n]
      /\ held' = [held EXCEPT ![n] = @ - count]
      /\ denotes' = [denotes EXCEPT ![n] = IF held[n] = count THEN {} ELSE @]
      /\ table' = Forget(table, n, count) /\ UNCHANGED <<opens, nextFh>>
      /\ UNCHANGED teardown /\ UNCHANGED backing /\ tasks' = tasks /\ driver' = driver
      /\ requests' = requests
  BY DEF ForgetLookups
<1>2. KernelTyped /\ TableOK(table) /\ n \in Nodeids \ {Root} /\ count \in Nat
  <2>1. count \in Nat
    BY SessionAssumption
  <2> QED
    BY <1>1, <2>1, TypesAre, TableParts DEF TableInv, TableOK
<1>3. \A m \in Nodeids : held[m] \in Nat /\ Owed(Tasks, m) \in Nat
  BY OwedIs
<1>4. table.inodes[n].nlookup = held[n] + Owed(Tasks, n)
  BY <1>1, <1>2 DEF TableInv, LookupsMatch
<1>5. count <= table.inodes[n].nlookup
  <2>1. held[n] \in Nat /\ Owed(Tasks, n) \in Nat
    BY <1>2, <1>3
  <2> DEFINE k == held[n]
             j == Owed(Tasks, n)
  <2>2. k \in Nat /\ j \in Nat /\ count <= k /\ table.inodes[n].nlookup = k + j
    BY <1>1, <1>4, <2>1
  <2> HIDE DEF k, j
  <2> QED
    BY <1>2, <2>2
<1>6. /\ TableOK(table')
      /\ \A m \in Nodeids \ {n} : table'.inodes[m].nlookup = table.inodes[m].nlookup
      /\ table'.inodes[n].nlookup = table.inodes[n].nlookup - count
      /\ table'.live = IF count = table.inodes[n].nlookup THEN table.live \ {n} ELSE table.live
      /\ \A p \in Paths : table'.byPath[p] \in {None, table.byPath[p]}
  <2> DEFINE u == Forget(table, n, count)
  <2>1. n \in table.live \ {Root} /\ count \in Nat /\ TableOK(table)
    BY <1>2
  <2>2. /\ TableOK(u)
        /\ \A m \in Nodeids \ {n} : u.inodes[m].nlookup = table.inodes[m].nlookup
        /\ u.inodes[n].nlookup = table.inodes[n].nlookup - count
        /\ u.live = IF count = table.inodes[n].nlookup THEN table.live \ {n} ELSE table.live
        /\ \A p \in Paths : u.byPath[p] \in {None, table.byPath[p]}
        /\ SameKeys(table, u)
    BY <1>5, <2>1, ForgetAgrees
  <2>3. table' = u
    BY <1>1
  <2> HIDE DEF u
  <2> QED
    BY <2>2, <2>3
<1>7. files' = files /\ destroyed' = destroyed
  BY <1>1 DEF backing, teardown
<1>8. /\ tasks' \in [Tasks -> Task] /\ StagesInOrder' /\ RenamesAlone' /\ RenamesFit'
      /\ OwedFinite'
      /\ \A m : Owing(Tasks, m)' = Owing(Tasks, m) /\ Owed(Tasks, m)' = Owed(Tasks, m)
  <2>1. \A p \in Paths : table'.byPath[p] # None => table.byPath[p] # None
    BY <1>6
  <2> QED
    BY <1>1, <1>7, <2>1, NoTaskMoves
<1>9. \A m \in Nodeids : held'[m] = IF m = n THEN held[m] - count ELSE held[m]
  BY <1>1, <1>2 DEF KernelTyped
<1>10. LookupsMatch'
  <2>1. ASSUME NEW m \in Nodeids \ {Root}
        PROVE  /\ m \in table'.live <=> held'[m] + Owed(Tasks, m)' > 0
               /\ m \in table'.live => table'.inodes[m].nlookup = held'[m] + Owed(Tasks, m)'
    <3>1. /\ m \in table.live <=> held[m] + Owed(Tasks, m) > 0
          /\ m \in table.live => table.inodes[m].nlookup = held[m] + Owed(Tasks, m)
      BY <1>1 DEF TableInv, LookupsMatch
    <3>2. Owed(Tasks, m)' = Owed(Tasks, m) /\ held[m] \in Nat /\ Owed(Tasks, m) \in Nat
      BY <1>3, <1>8
    <3>3. CASE m = n
      BY <1>1, <1>2, <1>4, <1>6, <1>9, <3>2, <3>3
    <3>4. CASE m # n
      BY <1>6, <1>9, <3>1, <3>2, <3>4
    <3> QED
      BY <3>3, <3>4
  <2> QED
    BY <2>1 DEF LookupsMatch
<1>11. KernelTyped'
  <2>1. held' \in [Nodeids -> Nat]
    <3>1. held[n] - count \in Nat
      BY <1>1, <1>2, <1>3
    <3> QED
      BY <1>1, <1>2, <3>1 DEF KernelTyped
  <2>2. denotes' \in [Nodeids -> SUBSET (Files \cup {RootFile})]
    BY <1>1, <1>2 DEF KernelTyped
  <2> QED
    BY <2>1, <2>2 DEF KernelTyped
<1>12. OpensTyped' /\ TeardownTyped' /\ BackingTyped'
  BY <1>1, TypingKept
<1> QED
  BY <1>1, <1>6, <1>8, <1>10, <1>11, <1>12, Assembled

LEMMA TableNextKeeps == TableInv /\ [Next]_vars => TableInv'
<1> SUFFICES ASSUME TableInv, [Next]_vars
             PROVE  TableInv'
  OBVIOUS
<1>1. CASE UNCHANGED vars
  <2>1. /\ tasks' = tasks /\ table' = table /\ UNCHANGED <<opens, nextFh>>
        /\ UNCHANGED teardown /\ UNCHANGED backing /\ UNCHANGED kernel
        /\ driver' = driver /\ requests' = requests
    BY <1>1 DEF vars, session
  <2>2. OpensTyped' /\ TeardownTyped' /\ BackingTyped'
    BY <2>1, TypingKept
  <2>3. /\ files' = files /\ names' = names /\ destroyed' = destroyed
        /\ handles' \in Seq([file : Files, closed : Nat])
    BY <2>1, <2>2 DEF backing, teardown, BackingTyped
  <2>4. destroyed' \in BOOLEAN
    BY <2>2 DEF TeardownTyped
  <2> QED
    BY <2>1, <2>2, <2>3, <2>4, TableLeftAlone
<1> QED
  BY <1>1, StartsKeepsTable, DriverActsKeepsTable, ResumesKeepsTable, ReleaseKeepsTable,
     ForgetKeepsTable, DestroyKeepsTable, DestroyClearsKeepsTable, DestroyClosesKeepsTable
     DEF Next

\* The inductive invariant, in every reachable state, Orderly or not: whatever
\* requests interleave and whatever the driver answers.
THEOREM TableIsKept == Spec => []TableInv
BY TableInitHolds, TableNextKeeps, PTL DEF Spec

\* Every variable has its type: the table's maps name nodeids, no lookup count
\* goes negative, a path a handler resolved is a path.
THEOREM TypesHold == Spec => []TypeOK
<1>1. TableInv => TypeOK
  BY DEF TableInv
<1> QED
  BY <1>1, TableIsKept, PTL

\* The inode table keeps an inode for exactly the lookups the kernel may still
\* forget, those of a READDIRPLUS page under way included, and counts them right
\* (inodes.ts:44-50, session.ts:1703-1710).
THEOREM LookupsAlwaysMatch == Spec => []LookupsMatch
<1>1. TableInv => LookupsMatch
  BY DEF TableInv
<1> QED
  BY <1>1, TableIsKept, PTL

\* The path map, the identity map and the Inode objects agree after any sequence
\* of binds, unlinks, renames of a subtree, forgets and clears
\* (inodes.ts:83-86, 283-292): the part of NodeidsNameTheirFiles that needs
\* nothing of the order requests come in.
THEOREM TablesAlwaysAgree == Spec => []TableAgrees
<1>1. TableInv => TableAgrees
  BY DEF TableInv, TableOK, TableAgrees
<1> QED
  BY <1>1, TableIsKept, PTL

\* A rename the driver has done runs alone, and every path the table tracks
\* under its source has a place under its destination: what Remap relies on.
THEOREM RenamesAlwaysAlone == Spec => [](RenamesAlone /\ RenamesFit)
<1>1. TableInv => RenamesAlone /\ RenamesFit
  BY DEF TableInv
<1> QED
  BY <1>1, TableIsKept, PTL

-----------------------------------------------------------------------------
(* More on paths                                                            *)

LEMMA ParentIs ==
  ASSUME NEW p \in Entries
  PROVE  /\ p \in Paths /\ Parent(p) \in Paths /\ Len(p) \in Nat /\ Len(p) # 0
         /\ Len(Parent(p)) = Len(p) - 1 /\ Inside(p, Parent(p)) /\ Parent(p) # p
<1>1. p \in Paths /\ p # Top /\ Parent(p) \in Paths
  BY InodesAssumption DEF Entries
<1>2. p \in Seq(AllNames) /\ Parent(p) \in Seq(AllNames)
  BY <1>1, PathIsSeq
<1>3. Len(p) \in Nat /\ Len(p) # 0
  BY <1>1, <1>2, EmptySeq DEF Top
<1>4. /\ Len(Parent(p)) = Len(p) - 1
      /\ \A i \in 1 .. Len(p) - 1 : Parent(p)[i] = p[i]
  <2>1. \A i \in 1 .. Len(p) - 1 : p[i] \in AllNames
    BY <1>2, <1>3
  <2>2. /\ Len(SubSeq(p, 1, Len(p) - 1)) = IF 1 <= Len(p) - 1 THEN Len(p) - 1 - 1 + 1 ELSE 0
        /\ \A i \in 1 .. Len(p) - 1 - 1 + 1 : SubSeq(p, 1, Len(p) - 1)[i] = p[1 + i - 1]
    BY <1>2, <1>3, <2>1, SubSeqProperties
  <2> DEFINE r == SubSeq(p, 1, Len(p) - 1)
  <2>3. Len(r) = Len(p) - 1
    BY <1>3, <2>2
  <2>4. ASSUME NEW i \in 1 .. Len(p) - 1
        PROVE  r[i] = p[i]
    <3>1. i \in 1 .. Len(p) - 1 - 1 + 1 /\ 1 + i - 1 = i
      BY <1>3
    <3> QED
      BY <2>2, <3>1
  <2> QED
    BY <2>3, <2>4 DEF Parent
<1>5. Inside(p, Parent(p))
  BY <1>2, <1>3, <1>4, InsideIs
<1> QED
  BY <1>1, <1>3, <1>4, <1>5

LEMMA InsideOrder ==
  ASSUME NEW p \in Seq(AllNames), NEW q \in Seq(AllNames), NEW r \in Seq(AllNames)
  PROVE  /\ Inside(p, p)
         /\ Inside(p, q) /\ Inside(q, r) => Inside(p, r)
         /\ Inside(p, q) /\ Inside(q, p) => p = q
         /\ Inside(p, q) => Len(q) <= Len(p)
<1>1. Len(p) \in Nat /\ Len(q) \in Nat /\ Len(r) \in Nat
  OBVIOUS
<1>2. Inside(p, p)
  BY <1>1, InsideIs
<1>3. ASSUME Inside(p, q), Inside(q, r)
      PROVE  Inside(p, r)
  <2>1. Len(q) <= Len(p) /\ \A i \in 1 .. Len(q) : p[i] = q[i]
    BY <1>3, InsideIs
  <2>2. Len(r) <= Len(q) /\ \A i \in 1 .. Len(r) : q[i] = r[i]
    BY <1>3, InsideIs
  <2>3. Len(r) <= Len(p) /\ \A i \in 1 .. Len(r) : p[i] = r[i]
    BY <1>1, <2>1, <2>2
  <2> QED
    BY <2>3, InsideIs
<1>4. ASSUME Inside(p, q), Inside(q, p)
      PROVE  p = q
  <2>1. Len(p) = Len(q) /\ \A i \in 1 .. Len(p) : p[i] = q[i]
    BY <1>1, <1>4, InsideIs
  <2> QED
    BY <2>1, SeqEqual
<1> QED
  BY <1>2, <1>3, <1>4, InsideIs

\* Strictly inside a path is inside it with one's parent.
LEMMA ParentInside ==
  ASSUME NEW p \in Entries, NEW q \in Seq(AllNames), Inside(p, q), p # q
  PROVE  Inside(Parent(p), q)
<1>1. /\ p \in Seq(AllNames) /\ Parent(p) \in Seq(AllNames) /\ Len(p) \in Nat
      /\ Len(Parent(p)) = Len(p) - 1 /\ Inside(p, Parent(p)) /\ Len(q) \in Nat
  BY ParentIs, PathIsSeq
<1>2. Inside(Parent(p), q) \/ Inside(q, Parent(p))
  BY <1>1, InsideBoth
<1>3. ASSUME Inside(q, Parent(p))
      PROVE  Len(q) = Len(p) \/ Len(q) = Len(p) - 1
  BY <1>1, <1>3, InsideOrder
<1>4. CASE Inside(q, Parent(p)) /\ Len(q) = Len(p)
  <2>1. \A i \in 1 .. Len(p) : p[i] = q[i]
    BY <1>1, <1>4, InsideIs
  <2> QED
    BY <1>1, <1>4, <2>1, SeqEqual
<1>5. CASE Inside(q, Parent(p)) /\ Len(q) = Len(p) - 1
  <2>1. \A i \in 1 .. Len(q) : Parent(p)[i] = q[i]
    BY <1>1, <1>5, InsideIs
  <2>2. Parent(p) = q
    BY <1>1, <1>5, <2>1, SeqEqual
  <2> QED
    BY <1>1, <2>2, InsideOrder
<1> QED
  BY <1>2, <1>3, <1>4, <1>5

\* What is above a path is a path.
LEMMA AboveIsPath ==
  ASSUME NEW p \in Paths, NEW q \in Seq(AllNames), Inside(p, q)
  PROVE  q \in Paths
<1> DEFINE R == {r \in Paths : Inside(r, q)}
           T == {Len(r) : r \in R}
<1>1. \A r \in R : r \in Seq(AllNames) /\ Len(r) \in Nat
  BY PathIsSeq
<1>2. T \in SUBSET Nat /\ T # {}
  BY <1>1
<1> HIDE DEF T
<1>3. PICK k \in T : \A l \in T : k <= l
  BY <1>2, LeastNat
<1>4. PICK r \in R : Len(r) = k
  BY <1>3 DEF T
<1>5. SUFFICES ASSUME r # q PROVE FALSE
  BY <1>4
<1>6. r # Top
  <2>1. Len(q) \in Nat
    OBVIOUS
  <2>2. ASSUME r = Top
        PROVE  FALSE
    <3>1. Len(q) = 0
      BY <1>1, <2>1, <2>2 DEF Inside, Top
    <3>2. q = <<>>
      BY <3>1, EmptySeq
    <3> QED
      BY <1>5, <2>2, <3>2 DEF Top
  <2> QED
    BY <2>2
<1>7. r \in Entries
  BY <1>6 DEF Entries
<1>8. Parent(r) \in Paths /\ Len(Parent(r)) = Len(r) - 1 /\ Len(r) \in Nat /\ Inside(Parent(r), q)
  BY <1>5, <1>7, ParentIs, ParentInside
<1>9. Len(Parent(r)) \in T
  BY <1>8 DEF T
<1> QED
  BY <1>3, <1>4, <1>8, <1>9

\* A path moved there and back, and two moved together.
LEMMA MovedBack ==
  ASSUME NEW q \in Seq(AllNames), NEW from \in Seq(AllNames), NEW to \in Seq(AllNames),
         Inside(q, to)
  PROVE  LET p == Moved(q, to, from)
         IN p \in Seq(AllNames) /\ Inside(p, from) /\ Moved(p, from, to) = q
<1> DEFINE p == Moved(q, to, from)
           r == Moved(p, from, to)
<1>1. /\ p \in Seq(AllNames) /\ Len(p) = Len(from) + Len(q) - Len(to)
      /\ \A i \in Len(to) + 1 .. Len(q) : p[Len(from) + i - Len(to)] = q[i]
  BY MovedIs
<1>2. Inside(p, from)
  BY MovedInside
<1>3. Len(q) \in Nat /\ Len(to) \in Nat /\ Len(from) \in Nat /\ Len(to) <= Len(q)
      /\ \A i \in 1 .. Len(to) : q[i] = to[i]
  BY InsideIs
<1> HIDE DEF p
<1>4. /\ r \in Seq(AllNames) /\ Len(r) = Len(to) + Len(p) - Len(from)
      /\ \A i \in 1 .. Len(to) : r[i] = to[i]
      /\ \A i \in Len(from) + 1 .. Len(p) : r[Len(to) + i - Len(from)] = p[i]
  <2>1. r \in Seq(AllNames) /\ Len(r) = Len(to) + Len(p) - Len(from)
    BY <1>1, <1>2, MovedIs
  <2>2. \A i \in 1 .. Len(to) : r[i] = to[i]
    BY <1>1, <1>2, MovedIs
  <2>3. \A i \in Len(from) + 1 .. Len(p) : r[Len(to) + i - Len(from)] = p[i]
    BY <1>1, <1>2, MovedIs
  <2> HIDE DEF r
  <2> QED
    BY <2>1, <2>2, <2>3
<1> HIDE DEF r
<1>5. Len(r) = Len(q)
  BY <1>1, <1>3, <1>4
<1>6. ASSUME NEW i \in 1 .. Len(q)
      PROVE  r[i] = q[i]
  <2>1. CASE i <= Len(to)
    BY <1>3, <1>4, <2>1
  <2>2. CASE i > Len(to)
    <3> DEFINE j == Len(from) + i - Len(to)
    <3>1. j \in Len(from) + 1 .. Len(p) /\ Len(to) + j - Len(from) = i
      BY <1>1, <1>3, <2>2
    <3>2. p[j] = q[i]
      BY <1>1, <1>3, <2>2
    <3>3. r[Len(to) + j - Len(from)] = p[j]
      BY <1>4, <3>1
    <3> HIDE DEF j
    <3> QED
      BY <3>1, <3>2, <3>3
  <2> QED
    BY <1>3, <2>1, <2>2
<1>7. r = q
  BY <1>4, <1>5, <1>6, SeqEqual
<1> QED
  BY <1>1, <1>2, <1>7 DEF p, r

LEMMA MovedNested ==
  ASSUME NEW p \in Seq(AllNames), NEW q \in Seq(AllNames), NEW from \in Seq(AllNames),
         NEW to \in Seq(AllNames), Inside(p, q), Inside(q, from)
  PROVE  Inside(Moved(p, from, to), Moved(q, from, to))
<1>1. Inside(p, from)
  BY InsideOrder
<1> DEFINE m == Moved(p, from, to)
           l == Moved(q, from, to)
<1> HIDE DEF l
<1>2. /\ m \in Seq(AllNames) /\ Len(m) = Len(to) + Len(p) - Len(from)
      /\ \A i \in 1 .. Len(to) : m[i] = to[i]
      /\ \A i \in Len(from) + 1 .. Len(p) : m[Len(to) + i - Len(from)] = p[i]
  <2>1. m \in Seq(AllNames) /\ Len(m) = Len(to) + Len(p) - Len(from)
    BY <1>1, MovedIs
  <2>2. \A i \in 1 .. Len(to) : m[i] = to[i]
    BY <1>1, MovedIs
  <2>3. \A i \in Len(from) + 1 .. Len(p) : m[Len(to) + i - Len(from)] = p[i]
    BY <1>1, MovedIs
  <2> HIDE DEF m
  <2> QED
    BY <2>1, <2>2, <2>3
<1> HIDE DEF m
<1> USE DEF l
<1>3. /\ l \in Seq(AllNames) /\ Len(l) = Len(to) + Len(q) - Len(from)
      /\ \A i \in 1 .. Len(to) : l[i] = to[i]
      /\ \A i \in Len(from) + 1 .. Len(q) : l[Len(to) + i - Len(from)] = q[i]
  <2>1. l \in Seq(AllNames) /\ Len(l) = Len(to) + Len(q) - Len(from)
    BY MovedIs
  <2>2. \A i \in 1 .. Len(to) : l[i] = to[i]
    BY MovedIs
  <2>3. \A i \in Len(from) + 1 .. Len(q) : l[Len(to) + i - Len(from)] = q[i]
    BY MovedIs
  <2> HIDE DEF l
  <2> QED
    BY <2>1, <2>2, <2>3
<1>4. /\ Len(p) \in Nat /\ Len(q) \in Nat /\ Len(to) \in Nat /\ Len(from) \in Nat
      /\ Len(q) <= Len(p) /\ Len(from) <= Len(q) /\ \A i \in 1 .. Len(q) : p[i] = q[i]
  BY InsideIs
<1> HIDE DEF l
<1>5. Len(l) <= Len(m) /\ Len(l) \in Nat
  BY <1>2, <1>3, <1>4
<1>6. ASSUME NEW i \in 1 .. Len(l)
      PROVE  m[i] = l[i]
  <2>1. CASE i <= Len(to)
    BY <1>2, <1>3, <1>4, <1>5, <2>1
  <2>2. CASE i > Len(to)
    <3> DEFINE j == Len(from) + i - Len(to)
    <3>1. j \in Len(from) + 1 .. Len(q) /\ Len(to) + j - Len(from) = i /\ j \in 1 .. Len(q)
          /\ j \in Len(from) + 1 .. Len(p)
      BY <1>3, <1>4, <2>2
    <3> HIDE DEF j
    <3>2. m[Len(to) + j - Len(from)] = p[j] /\ l[Len(to) + j - Len(from)] = q[j] /\ p[j] = q[j]
      BY <1>2, <1>3, <1>4, <3>1
    <3> QED
      BY <3>1, <3>2
  <2> QED
    BY <1>4, <1>5, <2>1, <2>2
<1> QED
  BY <1>2, <1>3, <1>5, <1>6, InsideIs DEF m, l

-----------------------------------------------------------------------------
(* The driver's tree                                                        *)

UnderDirs ==
  \A p, q \in Entries : (names[p] # None /\ Inside(p, q) /\ p # q) => IsDir(names[q])

DirsOnce == \A p, q \in Entries : (IsDir(names[p]) /\ names[p] = names[q]) => p = q

\* A file with a name, with a handle, or whose last name a request not yet
\* answered took away, has its inode number.
Kept(f) ==
  f \in DOMAIN files /\ (Present(f) \/ \E t \in Unheard : tasks[t].file = f)

InosApart == \A f, g : (Kept(f) /\ Kept(g) /\ files[f].ino = files[g].ino) => f = g

TreeFits == UnderDirs /\ DirsOnce /\ InosApart

LEMMA EntryIs ==
  ASSUME NEW p \in Entries
  PROVE  p \in Paths /\ p \in Seq(AllNames) /\ p # Top /\ ~Inside(Top, p) /\ FileAt(p) = names[p]
BY PathIsSeq, TopIsOutside DEF Entries, FileAt

LEMMA DirIs ==
  ASSUME BackingTyped
  PROVE  /\ ~IsDir(None) /\ IsDir(RootFile)
         /\ \A p \in Entries : names[p] \in 0 .. Len(files) /\ names[p] # RootFile
         /\ \A p \in Entries : IsDir(names[p]) => names[p] \in DOMAIN files
         /\ RootFile \notin DOMAIN files /\ None \notin DOMAIN files
<1>1. /\ MaxFiles \in Nat /\ Len(files) \in Nat /\ Len(files) <= MaxFiles
      /\ DOMAIN files = 1 .. Len(files) /\ \A p \in Entries : names[p] \in 0 .. Len(files)
  BY Constants DEF BackingTyped, NamesInOrder
<1>2. RootFile \notin 0 .. Len(files) /\ None \notin DOMAIN files /\ None # RootFile
  BY <1>1 DEF RootFile, None
<1> QED
  BY <1>1, <1>2 DEF IsDir

\* Everything above an entry's directory is a directory.
LEMMA DirsAbove ==
  ASSUME BackingTyped, UnderDirs, NEW p \in Entries, IsDir(FileAt(Parent(p))),
         NEW q \in Entries, Inside(p, q), p # q
  PROVE  IsDir(names[q])
<1>1. p \in Seq(AllNames) /\ q \in Seq(AllNames) /\ ~Inside(Top, q) /\ FileAt(q) = names[q]
  BY EntryIs
<1>2. Inside(Parent(p), q) /\ Parent(p) \in Paths
  BY <1>1, ParentInside, ParentIs
<1>3. CASE Parent(p) = q
  BY <1>1, <1>3
<1>4. CASE Parent(p) # q
  <2>1. Parent(p) \in Entries
    BY <1>1, <1>2 DEF Entries
  <2>2. IsDir(names[Parent(p)]) /\ names[Parent(p)] # None
    BY <2>1, EntryIs, DirIs
  <2> QED
    BY <1>2, <1>4, <2>1, <2>2 DEF UnderDirs
<1> QED
  BY <1>3, <1>4

\* What has nothing in it has nothing under it.
LEMMA NothingBelow ==
  ASSUME BackingTyped, UnderDirs, NEW p \in Entries, EmptyAt(p)
  PROVE  \A q \in Entries : (Inside(q, p) /\ q # p) => names[q] = None
<1> DEFINE B == {q \in Entries : Inside(q, p) /\ q # p /\ names[q] # None}
           T == {Len(q) : q \in B}
<1>1. \A q \in B : q \in Seq(AllNames) /\ Len(q) \in Nat
  BY ParentIs, EntryIs
<1>2. SUFFICES ASSUME B # {}
               PROVE  FALSE
  BY <1>2
<1>3. T \in SUBSET Nat /\ T # {}
  BY <1>1, <1>2
<1> HIDE DEF T
<1>4. PICK k \in T : \A l \in T : k <= l
  BY <1>3, LeastNat
<1>5. PICK q \in B : Len(q) = k
  BY <1>4 DEF T
<1>6. /\ Parent(q) \in Paths /\ Len(Parent(q)) = Len(q) - 1 /\ Len(q) \in Nat
      /\ Inside(Parent(q), p) /\ Inside(q, Parent(q)) /\ Parent(q) # q
  BY <1>1, EntryIs, ParentIs, ParentInside
<1>7. Parent(q) # p
  <2>1. ASSUME Parent(q) = p
        PROVE  FALSE
    <3>1. q \in Children(p)
      BY <2>1 DEF Children, Entries
    <3> QED
      BY <3>1 DEF EmptyAt
  <2> QED
    BY <2>1
<1>8. Parent(q) \in Entries
  BY <1>6, EntryIs DEF Entries
<1>9. IsDir(names[Parent(q)])
  BY <1>6, <1>8 DEF UnderDirs
<1>10. names[Parent(q)] # None
  BY <1>9, DirIs
<1>11. Len(Parent(q)) \in T
  BY <1>6, <1>7, <1>8, <1>10 DEF T
<1> QED
  BY <1>4, <1>5, <1>6, <1>11

\* A file is given a free name in a directory; a directory has none yet.
LEMMA NewNameFits ==
  ASSUME BackingTyped, UnderDirs, DirsOnce, NEW p \in Entries, NEW f,
         FileAt(p) = None, IsDir(FileAt(Parent(p))), names' = [names EXCEPT ![p] = f],
         \A g \in 0 .. Len(files) : IsDir(g)' <=> IsDir(g),
         IsDir(f)' => f \notin 0 .. Len(files)
  PROVE  UnderDirs' /\ DirsOnce'
<1>1. names[p] = None /\ \A q \in Entries : names[q] \in 0 .. Len(files)
  BY EntryIs, DirIs
<1>2. names'[p] = f /\ \A q \in Entries \ {p} : names'[q] = names[q]
  BY DEF BackingTyped
<1>4. ASSUME NEW q \in Entries, NEW r \in Entries, names'[q] # None, Inside(q, r), q # r
      PROVE  IsDir(names[r])'
  <2>1. IsDir(names[r])
    <3>1. CASE q = p
      BY <1>4, <3>1, DirsAbove
    <3>2. CASE q # p
      BY <1>2, <1>4, <3>2 DEF UnderDirs
    <3> QED
      BY <3>1, <3>2
  <2>2. r # p
    BY <1>1, <2>1, DirIs
  <2>3. names'[r] = names[r] /\ names[r] \in 0 .. Len(files)
    BY <1>1, <1>2, <2>2
  <2>4. PICK g : g = names[r]
    OBVIOUS
  <2>5. IsDir(g)'
    BY <2>1, <2>3, <2>4
  <2> QED
    BY <2>3, <2>4, <2>5 DEF IsDir
<1>5. ASSUME NEW q \in Entries, NEW r \in Entries, IsDir(names[q])', names'[q] = names'[r]
      PROVE  q = r
  <2>1. PICK g : g = names'[q]
    OBVIOUS
  <2>2. IsDir(g)' /\ g = names'[r]
    BY <1>5, <2>1 DEF IsDir
  <2>3. CASE q = p \/ r = p
    <3>1. g = f
      BY <1>2, <2>1, <2>2, <2>3
    <3>2. g \notin 0 .. Len(files)
      BY <2>2, <3>1
    <3> QED
      BY <1>1, <1>2, <2>1, <2>2, <3>2
  <2>4. CASE q # p /\ r # p
    <3>1. g = names[q] /\ g = names[r]
      BY <1>2, <2>1, <2>2, <2>4
    <3>2. IsDir(g)
      BY <1>1, <2>2, <3>1
    <3> QED
      BY <3>1, <3>2 DEF DirsOnce
  <2> QED
    BY <2>3, <2>4
<1> QED
  BY <1>4, <1>5 DEF UnderDirs, DirsOnce

\* A name with nothing under it goes away.
LEMMA NameGoneFits ==
  ASSUME BackingTyped, UnderDirs, DirsOnce, NEW p \in Entries, EmptyAt(p),
         names' = [names EXCEPT ![p] = None], files' = files
  PROVE  UnderDirs' /\ DirsOnce'
<1>1. names'[p] = None /\ \A q \in Entries \ {p} : names'[q] = names[q]
  BY DEF BackingTyped
<1>2. \A g : IsDir(g)' <=> IsDir(g)
  BY DEF IsDir
<1>3. ~IsDir(None)
  BY DirIs
<1>4. ASSUME NEW q \in Entries, NEW r \in Entries, names'[q] # None, Inside(q, r), q # r
      PROVE  IsDir(names[r])'
  <2>1. q # p /\ names[q] # None
    BY <1>1, <1>4
  <2>2. r # p
    BY <1>4, <2>1, NothingBelow
  <2>3. IsDir(names[r])
    BY <1>4, <2>1 DEF UnderDirs
  <2> QED
    BY <1>1, <2>2, <2>3 DEF IsDir
<1>5. ASSUME NEW q \in Entries, NEW r \in Entries, IsDir(names[q])', names'[q] = names'[r]
      PROVE  q = r
  <2>1. PICK g : g = names'[q]
    OBVIOUS
  <2>2. IsDir(g) /\ g = names'[r]
    BY <1>5, <2>1 DEF IsDir
  <2>3. q # p /\ r # p
    BY <1>1, <1>3, <2>1, <2>2
  <2>4. g = names[q] /\ g = names[r]
    BY <1>1, <2>1, <2>2, <2>3
  <2> QED
    BY <2>2, <2>4 DEF DirsOnce
<1> QED
  BY <1>4, <1>5 DEF UnderDirs, DirsOnce

\* Where a rename takes each name from.
TakenFrom(q, from, to) == IF Inside(q, to) THEN Moved(q, to, from) ELSE q

LEMMA RenamedIs ==
  ASSUME BackingTyped, NEW from \in Entries, NEW to \in Entries,
         FileAt(from) # FileAt(to), from = to \/ ~(Inside(from, to) \/ Inside(to, from)),
         names' = Renamed(from, to)
  PROVE  /\ from # to /\ ~Inside(from, to) /\ ~Inside(to, from)
         /\ \A q \in Entries : names'[q] # None =>
              LET r == TakenFrom(q, from, to)
              IN /\ r \in Entries /\ names'[q] = names[r]
                 /\ Inside(q, to) => Inside(r, from)
                 /\ ~Inside(q, from)
         /\ \A q \in Entries : ~Inside(q, to) /\ ~Inside(q, from) => names'[q] = names[q]
<1>1. from # to /\ ~Inside(from, to) /\ ~Inside(to, from)
  OBVIOUS
<1>2. names' = [p \in Entries |->
                  CASE Inside(p, to) -> IF Moved(p, to, from) \in Entries
                                        THEN names[Moved(p, to, from)] ELSE None
                    [] ~Inside(p, to) /\ Inside(p, from) -> None
                    [] OTHER -> names[p]]
  BY DEF Renamed
<1>3. from \in Seq(AllNames) /\ to \in Seq(AllNames)
  BY EntryIs
<1>4. ASSUME NEW q \in Entries, names'[q] # None
      PROVE  LET r == TakenFrom(q, from, to)
             IN /\ r \in Entries /\ names'[q] = names[r]
                /\ Inside(q, to) => Inside(r, from)
                /\ ~Inside(q, from)
  <2>1. q \in Seq(AllNames)
    BY EntryIs
  <2>2. CASE Inside(q, to)
    <3>1. ~Inside(q, from)
      BY <1>1, <1>3, <2>1, <2>2, InsideBoth
    <3>2. Moved(q, to, from) \in Entries /\ names'[q] = names[Moved(q, to, from)]
      BY <1>2, <1>4, <2>2
    <3>3. Inside(Moved(q, to, from), from)
      BY <1>3, <2>1, <2>2, MovedInside
    <3> QED
      BY <2>2, <3>1, <3>2, <3>3 DEF TakenFrom
  <2>3. CASE ~Inside(q, to)
    <3>1. ~Inside(q, from)
      BY <1>2, <1>4, <2>3
    <3>2. names'[q] = names[q]
      BY <1>2, <2>3, <3>1
    <3> QED
      BY <2>3, <3>1, <3>2 DEF TakenFrom
  <2> QED
    BY <2>2, <2>3
<1>5. \A q \in Entries : ~Inside(q, to) /\ ~Inside(q, from) => names'[q] = names[q]
  BY <1>2
<1> QED
  BY <1>1, <1>4, <1>5

\* A rename leaves a tree of directories with one name each.
LEMMA RenamedFits ==
  ASSUME BackingTyped, UnderDirs, DirsOnce, NEW from \in Entries, NEW to \in Entries,
         from = to \/ ~(Inside(from, to) \/ Inside(to, from)),
         IsDir(FileAt(Parent(to))), names' = Renamed(from, to), files' = files
  PROVE  /\ UnderDirs' /\ DirsOnce'
         /\ \A f : (f # None /\ \E q \in Entries : names'[q] = f) => \E r \in Entries : names[r] = f
<1>1. CASE FileAt(from) = FileAt(to)
  <2>1. names' = names
    BY <1>1 DEF Renamed
  <2> QED
    BY <2>1 DEF UnderDirs, DirsOnce, IsDir
<1>2. CASE FileAt(from) # FileAt(to)
  <2>1. from # to /\ ~Inside(from, to) /\ ~Inside(to, from)
    BY <1>2, RenamedIs
  <2>2. \A q \in Entries : names'[q] # None =>
          LET r == TakenFrom(q, from, to)
          IN /\ r \in Entries /\ names'[q] = names[r]
             /\ Inside(q, to) => Inside(r, from)
             /\ ~Inside(q, from)
    BY <1>2, RenamedIs
  <2>3. \A q \in Entries : ~Inside(q, to) /\ ~Inside(q, from) => names'[q] = names[q]
    BY <1>2, RenamedIs
  <2>4. from \in Seq(AllNames) /\ to \in Seq(AllNames) /\ from \in Paths
    BY EntryIs
  <2>5. ASSUME NEW q \in Entries, NEW s \in Entries, names'[q] # None, Inside(q, s), q # s
        PROVE  IsDir(names[s])'
    <3>1. q \in Seq(AllNames) /\ s \in Seq(AllNames)
      BY EntryIs
    <3>2. CASE Inside(q, to) /\ Inside(s, to)
      <4> DEFINE m == Moved(q, to, from)
                 l == Moved(s, to, from)
      <4>1. m \in Entries /\ names[m] # None /\ m \in Seq(AllNames)
        BY <2>2, <2>5, <3>2, EntryIs DEF TakenFrom
      <4>2. Inside(m, l) /\ l \in Seq(AllNames) /\ Inside(l, from)
        BY <2>4, <2>5, <3>1, <3>2, MovedNested, MovedIs, MovedInside
      <4>3. m # l
        BY <2>4, <2>5, <3>1, <3>2, MovedApart
      <4>4. l \in Entries
        <5>1. l \in Paths
          BY <4>1, <4>2, AboveIsPath, EntryIs
        <5>2. l # Top
          BY <4>2, EntryIs
        <5> QED
          BY <5>1, <5>2 DEF Entries
      <4>5. IsDir(names[l])
        BY <4>1, <4>2, <4>3, <4>4 DEF UnderDirs
      <4>6. names'[s] = names[l]
        <5>1. names' = [p \in Entries |->
                          CASE Inside(p, to) -> IF Moved(p, to, from) \in Entries
                                                THEN names[Moved(p, to, from)] ELSE None
                            [] ~Inside(p, to) /\ Inside(p, from) -> None
                            [] OTHER -> names[p]]
          BY <1>2 DEF Renamed
        <5> QED
          BY <3>2, <4>4, <5>1
      <4> QED
        BY <4>5, <4>6 DEF IsDir
    <3>3. CASE Inside(q, to) /\ ~Inside(s, to)
      <4>1. Inside(to, s) /\ to # s
        BY <2>4, <2>5, <3>1, <3>3, InsideBoth, InsideOrder
      <4>2. IsDir(names[s])
        BY <4>1, DirsAbove
      <4>3. ~Inside(s, from)
        BY <2>1, <2>4, <3>1, <4>1, InsideOrder
      <4>4. names'[s] = names[s]
        BY <2>3, <3>3, <4>3
      <4> QED
        BY <4>2, <4>4 DEF IsDir
    <3>4. CASE ~Inside(q, to)
      <4>1. ~Inside(q, from) /\ names'[q] = names[q]
        BY <2>2, <2>5, <3>4 DEF TakenFrom
      <4>2. ~Inside(s, to) /\ ~Inside(s, from)
        BY <2>4, <2>5, <3>1, <3>4, <4>1, InsideOrder
      <4>3. IsDir(names[s]) /\ names'[s] = names[s]
        BY <2>3, <2>5, <4>1, <4>2 DEF UnderDirs
      <4> QED
        BY <4>3 DEF IsDir
    <3> QED
      BY <3>2, <3>3, <3>4
  <2>6. ASSUME NEW q \in Entries, NEW s \in Entries, IsDir(names[q])', names'[q] = names'[s]
        PROVE  q = s
    <3>1. IsDir(names'[q])
      BY <2>6 DEF IsDir
    <3>2. names'[q] # None
      BY <3>1, DirIs
    <3> DEFINE m == TakenFrom(q, from, to)
               l == TakenFrom(s, from, to)
    <3>3. /\ m \in Entries /\ l \in Entries /\ names'[q] = names[m] /\ names'[s] = names[l]
          /\ ~Inside(q, from) /\ ~Inside(s, from)
          /\ Inside(q, to) => Inside(m, from) 
          /\ Inside(s, to) => Inside(l, from)
      BY <2>2, <2>6, <3>2
    <3>4. m = l
      BY <2>6, <3>1, <3>3 DEF DirsOnce
    <3>5. CASE Inside(q, to) /\ Inside(s, to)
      <4>1. Moved(q, to, from) = Moved(s, to, from)
        BY <3>4, <3>5 DEF TakenFrom
      <4> QED
        BY <2>4, <3>5, <4>1, EntryIs, MovedApart
    <3>6. CASE ~(Inside(q, to) /\ Inside(s, to))
      BY <3>3, <3>4, <3>6 DEF TakenFrom
    <3> QED
      BY <3>5, <3>6
  <2> QED
    BY <2>2, <2>5, <2>6 DEF UnderDirs, DirsOnce
<1> QED
  BY <1>1, <1>2

-----------------------------------------------------------------------------
(* Handles and inode numbers                                                *)

\* A handle stays a handle, on its file.
HandlesLast ==
  \A h \in DOMAIN handles : h \in DOMAIN handles' /\ handles'[h].file = handles[h].file

LEMMA OpenedLasts ==
  ASSUME BackingTyped, NEW f \in Files, handles' = Opened(f)
  PROVE  /\ HandlesLast
         /\ \A h \in DOMAIN handles' :
              (h \in DOMAIN handles /\ handles'[h] = handles[h]) \/ handles'[h].file = f
         /\ OpenedHandle # None =>
              OpenedHandle \in DOMAIN handles' /\ handles'[OpenedHandle].file = f
<1> DEFINE e == [file |-> f, closed |-> 0]
<1>1. /\ e \in [file : Files, closed : Nat] /\ e.file = f /\ Len(handles) \in Nat
      /\ handles \in Seq([file : Files, closed : Nat]) /\ DOMAIN handles = 1 .. Len(handles)
  BY DEF BackingTyped
<1>2. handles' = IF driver.handles THEN Append(handles, e) ELSE handles
  BY DEF Opened
<1> HIDE DEF e
<1>3. CASE driver.handles
  <2>1. /\ DOMAIN handles' = 1 .. Len(handles) + 1 /\ handles'[Len(handles) + 1] = e
        /\ \A h \in 1 .. Len(handles) : handles'[h] = handles[h]
    <3> DEFINE R == [file : Files, closed : Nat]
    <3>1. e \in R /\ handles \in Seq(R)
      BY <1>1
    <3> HIDE DEF R
    <3> QED
      BY <1>1, <1>2, <1>3, <3>1
  <2>2. OpenedHandle = Len(handles) + 1
    BY <1>3 DEF OpenedHandle
  <2>3. \A h \in DOMAIN handles' : h \in DOMAIN handles \/ h = Len(handles) + 1
    BY <1>1, <2>1
  <2>4. DOMAIN handles \subseteq DOMAIN handles' /\ Len(handles) + 1 \in DOMAIN handles'
    BY <1>1, <2>1
  <2> QED
    BY <1>1, <2>1, <2>2, <2>3, <2>4 DEF HandlesLast
<1>4. CASE ~driver.handles
  BY <1>2, <1>4 DEF HandlesLast, OpenedHandle
<1> QED
  BY <1>3, <1>4

LEMMA ClosedLasts ==
  ASSUME BackingTyped, NEW h, handles' = Closed(h)
  PROVE  /\ HandlesLast /\ DOMAIN handles' = DOMAIN handles
         /\ \A i \in DOMAIN handles : handles'[i].closed = 0 => handles[i].closed = 0
<1> DEFINE R == [file : Files, closed : Nat]
<1>1. handles \in Seq(R) /\ DOMAIN handles = 1 .. Len(handles)
  BY DEF BackingTyped
<1>2. \A i \in DOMAIN handles : handles[i] \in R
  <2> HIDE DEF R
  <2> QED
    BY <1>1
<1>3. \A i \in DOMAIN handles : handles[i].closed \in Nat
  BY <1>2
<1>4. CASE h = None
  BY <1>4 DEF Closed, HandlesLast
<1>5. CASE h # None
  <2>1. handles' = [handles EXCEPT ![h].closed = handles[h].closed + 1]
    BY <1>5 DEF Closed
  <2>2. /\ DOMAIN handles' = DOMAIN handles
        /\ \A i \in DOMAIN handles : i # h => handles'[i] = handles[i]
        /\ h \in DOMAIN handles =>
             handles'[h] = [handles[h] EXCEPT !.closed = handles[h].closed + 1]
    BY <2>1
  <2>3. ASSUME h \in DOMAIN handles
        PROVE  handles'[h].file = handles[h].file /\ handles'[h].closed = handles[h].closed + 1
    <3>1. handles[h] = [file |-> handles[h].file, closed |-> handles[h].closed]
      BY <1>2, <2>3
    <3> QED
      BY <2>2, <2>3, <3>1
  <2>4. \A i \in DOMAIN handles : handles'[i].file = handles[i].file
    BY <2>2, <2>3
  <2>5. \A i \in DOMAIN handles : handles'[i].closed = 0 => handles[i].closed = 0
    BY <1>3, <2>2, <2>3
  <2> QED
    BY <2>2, <2>4, <2>5 DEF HandlesLast
<1> QED
  BY <1>4, <1>5

\* A step that keeps no file it did not keep before.
LEMMA KeptShrinks ==
  ASSUME InosApart, files' = files,
         \A f \in DOMAIN files : (\E q \in Entries : names'[q] = f) => Kept(f),
         \A h \in DOMAIN handles' :
           (handles'[h].closed = 0 /\ handles'[h].file \in DOMAIN files) => Kept(handles'[h].file),
         \A s \in Tasks : (tasks'[s].at = "done" /\ tasks'[s].file \in DOMAIN files)
                            => Kept(tasks'[s].file)
  PROVE  InosApart'
<1>1. ASSUME NEW f, Kept(f)'
      PROVE  Kept(f) /\ files'[f] = files[f]
  <2>1. f \in DOMAIN files
    BY <1>1 DEF Kept
  <2>2. CASE Present(f)'
    <3>1. (\E q \in Entries : names'[q] = f)
          \/ \E h \in DOMAIN handles' : handles'[h].file = f /\ handles'[h].closed = 0
      BY <2>2 DEF Present
    <3> QED
      BY <2>1, <3>1
  <2>3. CASE ~Present(f)'
    <3>1. \E s \in Tasks : tasks'[s].at = "done" /\ tasks'[s].file = f
      BY <1>1, <2>3 DEF Kept, Unheard, Busy
    <3> QED
      BY <2>1, <3>1
  <2> QED
    BY <2>2, <2>3
<1> QED
  BY <1>1 DEF InosApart

\* The same with a new file.
LEMMA NewFileApart ==
  ASSUME BackingTyped, InosApart, NEW p \in Entries, NEW dir \in BOOLEAN, NewFile(p, dir),
         \A h \in DOMAIN handles' :
           (handles'[h].closed = 0 /\ handles'[h].file \in DOMAIN files) => Kept(handles'[h].file),
         \A s \in Tasks : (tasks'[s].at = "done" /\ tasks'[s].file \in DOMAIN files)
                            => Kept(tasks'[s].file)
  PROVE  /\ InosApart' /\ DOMAIN files' = DOMAIN files \cup {Len(files) + 1}
         /\ \A f \in DOMAIN files : files'[f] = files[f]
         /\ files'[Len(files) + 1].dir = dir /\ Len(files) + 1 \notin 0 .. Len(files)
<1>1. PICK i \in FreeInos : files' = Append(files, [ino |-> i, dir |-> dir])
  BY DEF NewFile
<1> DEFINE e == [ino |-> i, dir |-> dir]
           R == [ino : Inos, dir : BOOLEAN]
           m == Len(files) + 1
<1>2. e \in R /\ e.ino = i /\ e.dir = dir
  BY DEF FreeInos
<1>3. files \in Seq(R) /\ Len(files) \in Nat /\ DOMAIN files = 1 .. Len(files)
      /\ files' = Append(files, e)
  BY <1>1 DEF BackingTyped
<1>4. names' = [names EXCEPT ![p] = m] /\ names \in [Entries -> 0 .. MaxFiles]
  BY DEF NewFile, BackingTyped
<1> HIDE DEF e, R
<1>5. DOMAIN files' = 1 .. m /\ files'[m] = e /\ \A f \in DOMAIN files : files'[f] = files[f]
  BY <1>2, <1>3
<1>6. /\ DOMAIN files' = DOMAIN files \cup {m} /\ m \notin DOMAIN files /\ m # None
      /\ m \notin 0 .. Len(files)
  BY <1>3, <1>5 DEF None
<1>7. ASSUME NEW f \in DOMAIN files, Kept(f)'
      PROVE  Kept(f)
  <2>1. CASE Present(f)'
    <3>1. (\E q \in Entries : names'[q] = f)
          \/ \E h \in DOMAIN handles' : handles'[h].file = f /\ handles'[h].closed = 0
      BY <2>1 DEF Present
    <3>2. ASSUME NEW q \in Entries, names'[q] = f
          PROVE  Kept(f)
      <4>1. q # p /\ names[q] = f
        BY <1>4, <1>6, <3>2
      <4> QED
        BY <4>1 DEF Kept, Present
    <3> QED
      BY <3>1, <3>2
  <2>2. CASE ~Present(f)'
    <3>1. \E s \in Tasks : tasks'[s].at = "done" /\ tasks'[s].file = f
      BY <1>7, <2>2 DEF Kept, Unheard, Busy
    <3> QED
      BY <3>1
  <2> QED
    BY <2>1, <2>2
<1>8. ASSUME NEW f \in DOMAIN files, Kept(f)
      PROVE  files[f].ino # i
  <2>1. f # None
    BY <1>3 DEF None
  <2>2. i \notin {files[g].ino : g \in {g \in DOMAIN files : Present(g)}}
        /\ i \notin {files[tasks[s].file].ino : s \in {s \in Unheard : tasks[s].file # None}}
    BY DEF FreeInos
  <2>3. CASE Present(f)
    BY <2>2, <2>3
  <2>4. CASE ~Present(f)
    <3>1. PICK s \in Unheard : tasks[s].file = f
      BY <1>8, <2>4 DEF Kept
    <3> QED
      BY <2>1, <2>2, <3>1
  <2> QED
    BY <2>3, <2>4
<1>9. ASSUME NEW f, NEW g, Kept(f)', Kept(g)', (files[f].ino = files[g].ino)'
      PROVE  f = g
  <2>1. f \in DOMAIN files \cup {m} /\ g \in DOMAIN files \cup {m}
    BY <1>6, <1>9 DEF Kept
  <2>2. CASE f \in DOMAIN files /\ g \in DOMAIN files
    BY <1>5, <1>7, <1>9, <2>2 DEF InosApart
  <2>3. CASE f \in DOMAIN files /\ g = m
    BY <1>2, <1>5, <1>7, <1>8, <1>9, <2>3
  <2>4. CASE f = m /\ g \in DOMAIN files
    BY <1>2, <1>5, <1>7, <1>8, <1>9, <2>4
  <2> QED
    BY <2>1, <2>2, <2>3, <2>4
<1> QED
  BY <1>2, <1>5, <1>6, <1>9 DEF InosApart

-----------------------------------------------------------------------------
(* The kernel and the table                                                 *)

OwedFor(x, n, f) == \E i \in DOMAIN x.owed : x.owed[i].node = n /\ x.owed[i].file = f

\* Nodeid n has gone out for file f, in a reply or in a page under way.
IsFor(n, f) == f \in denotes[n] \/ \E t \in Tasks : OwedFor(tasks[t], n, f)

OneFile == \A n \in Nodeids : \A f, g : IsFor(n, f) /\ IsFor(n, g) => f = g

ForFiles ==
  /\ \A f : IsFor(Root, f) <=> f = RootFile
  /\ \A n \in Nodeids \ {Root} : \A f : IsFor(n, f) => f \in DOMAIN files

KeysFit ==
  \A n \in table.live \ {Root} : \A f : IsFor(n, f) => table.inodes[n].key = KeyOf(f)

HeldFor == \A n \in Nodeids : Known(n) <=> denotes[n] # {}

KernelFits == OneFile /\ ForFiles /\ KeysFit /\ HeldFor

\* Only a live nodeid is for anything.
LEMMA ForIsLive ==
  ASSUME TableInv, HeldFor, ~destroyed, NEW n \in Nodeids \ {Root}, NEW f, IsFor(n, f)
  PROVE  n \in table.live
<1>1. held[n] \in Nat /\ Owed(Tasks, n) \in Nat /\ IsFiniteSet(Owing(Tasks, n))
  BY OwedIs DEF TableInv, OwedFinite
<1>2. SUFFICES held[n] + Owed(Tasks, n) > 0
  BY DEF TableInv, LookupsMatch
<1>3. CASE f \in denotes[n]
  <2>1. held[n] > 0
    BY <1>3 DEF HeldFor, Known
  <2> QED
    BY <1>1, <2>1
<1>4. CASE f \notin denotes[n]
  <2>1. PICK s \in Tasks : OwedFor(tasks[s], n, f)
    BY <1>4 DEF IsFor
  <2>2. PICK i \in DOMAIN tasks[s].owed : tasks[s].owed[i].node = n
    BY <2>1 DEF OwedFor
  <2>3. <<s, i>> \in Owing(Tasks, n)
    BY <2>2, OwingIs
  <2>4. Owed(Tasks, n) # 0
    BY <1>1, <2>3, FS_EmptySet DEF Owed
  <2> QED
    BY <1>1, <2>4
<1> QED
  BY <1>3, <1>4

\* What a nodeid the kernel holds is for, its lookups were for.
LEMMA ForIsDenoted ==
  ASSUME KernelFits, NEW n \in Nodeids, Known(n), NEW f, IsFor(n, f)
  PROVE  denotes[n] = {f}
<1>1. PICK g : g \in denotes[n]
  BY DEF KernelFits, HeldFor
<1>2. \A h \in denotes[n] : IsFor(n, h)
  BY DEF IsFor
<1> QED
  BY <1>1, <1>2 DEF KernelFits, OneFile

\* No lookup moves.
LEMMA ForSame ==
  ASSUME denotes' = denotes, \A s \in Tasks : tasks'[s].owed = tasks[s].owed
  PROVE  \A n, f : IsFor(n, f)' <=> IsFor(n, f)
BY DEF IsFor, OwedFor

\* No nodeid goes out for another file.
LEMMA KernelKept ==
  ASSUME KernelFits, \A n \in Nodeids : \A f : IsFor(n, f)' => IsFor(n, f),
         IsFor(Root, RootFile)', HeldFor',
         \A f \in DOMAIN files : f \in DOMAIN files' /\ files'[f] = files[f], driver' = driver,
         table'.live \subseteq table.live, table.live \subseteq Nodeids, SameKeys(table, table')
  PROVE  KernelFits'
<1>1. OneFile'
  BY DEF KernelFits, OneFile
<1>2. ForFiles'
  <2>1. \A f : IsFor(Root, f)' <=> f = RootFile
    BY Constants DEF KernelFits, ForFiles
  <2>2. \A n \in Nodeids \ {Root} : \A f : IsFor(n, f)' => f \in DOMAIN files'
    BY DEF KernelFits, ForFiles
  <2> QED
    BY <2>1, <2>2 DEF ForFiles
<1>3. KeysFit'
  <2>1. ASSUME NEW n \in table'.live \ {Root}, NEW f, IsFor(n, f)'
        PROVE  table'.inodes[n].key = KeyOf(f)'
    <3>1. n \in table.live \ {Root} /\ n \in Nodeids /\ IsFor(n, f)
      BY <2>1
    <3>2. table.inodes[n].key = KeyOf(f) /\ f \in DOMAIN files
      BY <3>1 DEF KernelFits, KeysFit, ForFiles
    <3>3. table'.inodes[n].key = table.inodes[n].key
      BY <3>1 DEF SameKeys
    <3> QED
      BY <3>2, <3>3 DEF KeyOf
  <2> QED
    BY <2>1 DEF KeysFit
<1> QED
  BY <1>1, <1>2, <1>3 DEF KernelFits

LEMMA KernelSame ==
  ASSUME KernelFits, held' = held, denotes' = denotes,
         \A s \in Tasks : tasks'[s].owed = tasks[s].owed,
         \A f \in DOMAIN files : f \in DOMAIN files' /\ files'[f] = files[f], driver' = driver,
         table'.live \subseteq table.live, table.live \subseteq Nodeids, SameKeys(table, table')
  PROVE  KernelFits'
<1>1. \A n, f : IsFor(n, f)' <=> IsFor(n, f)
  BY ForSame
<1>2. IsFor(Root, RootFile)
  BY DEF KernelFits, ForFiles
<1>3. IsFor(Root, RootFile)'
  <2>1. PICK r : r = RootFile
    OBVIOUS
  <2>2. IsFor(Root, r)'
    BY <1>1, <1>2, <2>1
  <2> QED
    BY <2>1, <2>2 DEF IsFor
<1>4. HeldFor'
  BY DEF KernelFits, HeldFor, Known
<1> QED
  BY <1>1, <1>3, <1>4, KernelKept

\* A nodeid goes out once more, for the file it is for.
LEMMA KernelBinds ==
  ASSUME KernelFits, TableInv, NEW n \in Nodeids \ {Root}, NEW f \in DOMAIN files,
         \A g : IsFor(n, g) => g = f,
         \A m \in Nodeids : \A g : IsFor(m, g)' <=> (IsFor(m, g) \/ (m = n /\ g = f)),
         UNCHANGED <<files, driver>>, table'.live = table.live \cup {n},
         table'.inodes[n].key = KeyOf(f),
         \A m \in Nodeids \ {n} : table'.inodes[m].key = table.inodes[m].key,
         HeldFor'
  PROVE  KernelFits'
<1>1. OneFile'
  BY DEF KernelFits, OneFile
<1>2. ForFiles'
  BY Constants DEF KernelFits, ForFiles
<1>3. KeysFit'
  <2>1. ASSUME NEW m \in table'.live \ {Root}, NEW g, IsFor(m, g)'
        PROVE  table'.inodes[m].key = KeyOf(g)'
    <3>1. KeyOf(g)' = KeyOf(g)
      BY DEF KeyOf
    <3>2. CASE m = n
      BY <2>1, <3>1, <3>2 DEF KernelFits, OneFile
    <3>3. CASE m # n
      <4>1. m \in table.live \ {Root} /\ m \in Nodeids /\ IsFor(m, g)
        BY <2>1, <3>3, TableParts DEF TableInv, TableOK
      <4> QED
        BY <3>1, <3>3, <4>1 DEF KernelFits, KeysFit
    <3> QED
      BY <3>2, <3>3
  <2> QED
    BY <2>1 DEF KeysFit
<1> QED
  BY <1>1, <1>2, <1>3 DEF KernelFits

-----------------------------------------------------------------------------
(* What the table, the requests and the open files lead to                  *)

RenameDone == \E t \in Tasks : At(t, "rename", "done")

\* The file of nodeid n was unlinked from p, and the handler is yet to hear.
GoneFrom(p, n) ==
  \E t \in Tasks : At(t, "remove", "done") /\ tasks[t].path = p /\ IsFor(n, tasks[t].file)

\* A path of the table holds the file its nodeid is for, unless a rename the
\* driver has done is still to be followed.
NamesHold ==
  ~RenameDone =>
    \A p \in Paths : table.byPath[p] # None =>
      IsFor(table.byPath[p], FileAt(p)) \/ GoneFrom(p, table.byPath[p])

\* It then leads there by where the rename took it.
Follows(x) ==
  \A p \in Paths :
    (table.byPath[p] # None /\ (x.from = x.path \/ ~Inside(p, x.path)))
      => IsFor(table.byPath[p], FileAt(Moved(p, x.from, x.path)))

RenamedHold == \A t \in Tasks : At(t, "rename", "done") => Follows(tasks[t])

HandleFor(h, n) == h \in DOMAIN handles /\ handles[h].file \in denotes[n]

\* What a request has seen is still so, and what it names leads to its file.
TaskFit(x) ==
  /\ x.at \in {"resumed", "entry"} => FileAt(x.path) = x.file
  /\ (x.op = "create" /\ x.at \in {"lstat", "resumed"} /\ x.handle # None) =>
       x.handle \in DOMAIN handles /\ handles[x.handle].file = FileAt(x.path)
  /\ (x.at = "driver" /\ (x.op = "open" \/ (x.op = "reach" /\ x.handle = None))) =>
       \A n \in x.nodes : FileAt(x.path) \in denotes[n]
  /\ (x.handle # None /\ ((x.op = "open" /\ x.at = "opened") \/ (x.op = "reach" /\ x.at = "driver"))) =>
       \A n \in x.nodes : HandleFor(x.handle, n)

TasksFit == \A t \in Tasks : TaskFit(tasks[t])

OpensFit == \A o \in opens : o.handle # None => HandleFor(o.handle, o.node)

Separate == \A t, u \in Busy : t # u => ~Conflict(tasks[t], tasks[u])

NoneAfter == destroyed => Busy = {}

PinnedHeld == \A n \in Nodeids : Pinned(n) => Known(n)

FilesInv ==
  /\ KernelFits /\ TreeFits /\ NamesHold /\ RenamedHold
  /\ TasksFit /\ OpensFit /\ Separate /\ NoneAfter /\ PinnedHeld

\* With anything but a rename under way, no rename is.
LEMMA NoRename ==
  ASSUME TableInv, NEW t \in Busy, tasks[t].op # "rename" \/ tasks[t].at # "done"
  PROVE  ~RenameDone
<1>1. ASSUME NEW s \in Tasks, At(s, "rename", "done")
      PROVE  FALSE
  <2>1. s \in Busy /\ tasks[s].op = "rename"
    BY <1>1 DEF At, Busy
  <2>2. Busy = {s}
    BY <2>1 DEF TableInv, RenamesAlone
  <2> QED
    BY <1>1, <2>2 DEF At
<1> QED
  BY <1>1 DEF RenameDone

LEMMA NoneRenamed ==
  ASSUME ~RenameDone'
  PROVE  RenamedHold'
BY DEF RenameDone, RenamedHold

\* No rename of another is done after a step of one under way.
LEMMA NoRenameAfter ==
  ASSUME TableInv, NEW t \in Tasks, tasks[t].at # "idle", NEW u \in Task, Step(t, u),
         u.op # "rename" \/ u.at # "done"
  PROVE  ~RenameDone'
<1>1. tasks'[t] = u /\ \A s \in Tasks \ {t} : tasks'[s] = tasks[s]
  BY OneTaskMoves DEF TableInv, TypeOK, TasksTyped
<1>2. ASSUME NEW s \in Tasks, At(s, "rename", "done")'
      PROVE  FALSE
  <2>1. s # t
    BY <1>1, <1>2 DEF At
  <2>2. s \in Busy /\ t \in Busy /\ tasks[s].op = "rename"
    BY <1>1, <1>2, <2>1 DEF At, Busy
  <2> QED
    BY <2>1, <2>2 DEF TableInv, RenamesAlone
<1> QED
  BY <1>2 DEF RenameDone

\* Each path of the table leads where it should by itself, or as before.
LEMMA NamesKept ==
  ASSUME NamesHold, ~RenameDone,
         \A p \in Paths : table'.byPath[p] # None =>
           \/ IsFor(table.byPath[p], FileAt(p))'
           \/ GoneFrom(p, table.byPath[p])'
           \/ /\ table'.byPath[p] = table.byPath[p] /\ FileAt(p)' = FileAt(p)
              /\ \A f : IsFor(table.byPath[p], f) => IsFor(table.byPath[p], f)'
              /\ \A s \in Tasks : (At(s, "remove", "done") /\ tasks[s].path = p)
                                    => tasks'[s] = tasks[s]
  PROVE  NamesHold'
<1>1. SUFFICES ASSUME NEW p \in Paths, table'.byPath[p] # None
               PROVE  IsFor(table.byPath[p], FileAt(p))' \/ GoneFrom(p, table.byPath[p])'
  BY DEF NamesHold
<1>2. CASE /\ table'.byPath[p] = table.byPath[p] /\ FileAt(p)' = FileAt(p)
           /\ \A f : IsFor(table.byPath[p], f) => IsFor(table.byPath[p], f)'
           /\ \A s \in Tasks : (At(s, "remove", "done") /\ tasks[s].path = p)
                                 => tasks'[s] = tasks[s]
  <2>1. IsFor(table.byPath[p], FileAt(p)) \/ GoneFrom(p, table.byPath[p])
    BY <1>1, <1>2 DEF NamesHold
  <2>2. PICK n : n = table.byPath[p]
    OBVIOUS
  <2>3. \A f : IsFor(n, f) => IsFor(n, f)'
    BY <1>2, <2>2 DEF IsFor
  <2>4. CASE IsFor(n, FileAt(p))
    <3>1. IsFor(n, FileAt(p))'
      BY <1>2, <2>3, <2>4 DEF IsFor
    <3> QED
      BY <1>2, <2>2, <3>1 DEF IsFor
  <2>5. CASE GoneFrom(p, n)
    <3>1. PICK s \in Tasks : At(s, "remove", "done") /\ tasks[s].path = p /\ IsFor(n, tasks[s].file)
      BY <2>5 DEF GoneFrom
    <3>2. tasks'[s] = tasks[s]
      BY <1>2, <3>1
    <3>3. At(s, "remove", "done")' /\ tasks'[s].path = p /\ IsFor(n, tasks[s].file)'
      BY <2>3, <3>1, <3>2 DEF At, IsFor
    <3>4. GoneFrom(p, n)'
      BY <3>3 DEF GoneFrom
    <3> QED
      BY <1>2, <2>2, <3>4 DEF GoneFrom, IsFor
  <2> QED
    BY <2>1, <2>2, <2>4, <2>5
<1> QED
  BY <1>1, <1>2

\* A rename done waits while lookups are forgotten and files released.
LEMMA RenamedKept ==
  ASSUME RenamedHold, tasks' = tasks, names' = names,
         \A p \in Paths : table'.byPath[p] # None =>
           /\ table'.byPath[p] = table.byPath[p]
           /\ \A f : IsFor(table.byPath[p], f) => IsFor(table.byPath[p], f)'
  PROVE  RenamedHold'
<1>1. \A p : FileAt(p)' = FileAt(p)
  BY DEF FileAt
<1>2. ASSUME NEW t \in Tasks, At(t, "rename", "done"), NEW p \in Paths, table'.byPath[p] # None,
             tasks[t].from = tasks[t].path \/ ~Inside(p, tasks[t].path)
      PROVE  IsFor(table.byPath[p], FileAt(Moved(p, tasks[t].from, tasks[t].path)))'
  <2>1. PICK n : n = table.byPath[p]
    OBVIOUS
  <2>2. PICK f : f = FileAt(Moved(p, tasks[t].from, tasks[t].path))
    OBVIOUS
  <2>3. IsFor(n, f)
    BY <1>2, <2>1, <2>2 DEF RenamedHold, Follows
  <2>4. IsFor(n, f)'
    BY <1>2, <2>1, <2>3 DEF IsFor
  <2>5. table'.byPath[p] = n /\ FileAt(Moved(p, tasks[t].from, tasks[t].path))' = f
    BY <1>1, <1>2, <2>1, <2>2
  <2> QED
    BY <2>4, <2>5 DEF IsFor
<1> QED
  BY <1>2 DEF RenamedHold, Follows, At

-----------------------------------------------------------------------------
(* A step of one request                                                    *)

LEMMA ConflictIs ==
  ASSUME Orderly, NEW x, NEW y, NEW p, p # Top, p \in Used(x), p \in Used(y), x.op \in Changing
  PROVE  Conflict(x, y) /\ Conflict(y, x)
BY DEF Conflict

LEMMA FitsStill ==
  ASSUME NEW x, TaskFit(x), FileAt(x.path)' = FileAt(x.path), HandlesLast,
         \A n \in x.nodes : denotes[n] \subseteq denotes'[n]
  PROVE  TaskFit(x)'
<1> DEFINE f == FileAt(x.path)
<1>1. FileAt(x.path)' = f
  OBVIOUS
<1> HIDE DEF f
<1>2. x.at \in {"resumed", "entry"} => (FileAt(x.path) = x.file)'
  BY <1>1 DEF TaskFit, f
<1>3. (x.op = "create" /\ x.at \in {"lstat", "resumed"} /\ x.handle # None) =>
        (x.handle \in DOMAIN handles /\ handles[x.handle].file = FileAt(x.path))'
  BY <1>1 DEF TaskFit, HandlesLast, f
<1>4. (x.at = "driver" /\ (x.op = "open" \/ (x.op = "reach" /\ x.handle = None))) =>
        \A n \in x.nodes : (FileAt(x.path) \in denotes[n])'
  BY <1>1 DEF TaskFit, f
<1>5. (x.handle # None /\ ((x.op = "open" /\ x.at = "opened") \/ (x.op = "reach" /\ x.at = "driver"))) =>
        \A n \in x.nodes : HandleFor(x.handle, n)'
  BY DEF TaskFit, HandleFor, HandlesLast
<1> QED
  BY <1>2, <1>3, <1>4, <1>5 DEF TaskFit

LEMMA IdleFits ==
  ASSUME NEW x, x.at = "idle"
  PROVE  TaskFit(x)
BY DEF TaskFit

\* A step of request t that leaves the others what they use.
LEMMA StepFits ==
  ASSUME TableInv, FilesInv, NEW t \in Tasks, tasks[t].at # "idle", NEW u \in Task, Step(t, u),
         \/ u.at = "idle"
         \/ u.op = tasks[t].op /\ u.nodes = tasks[t].nodes /\ Used(u) \subseteq Used(tasks[t]),
         destroyed' = destroyed, TaskFit(u)', HandlesLast,
         \A s \in Busy \ {t} : FileAt(tasks[s].path)' = FileAt(tasks[s].path),
         \A n \in Nodeids : denotes[n] \subseteq denotes'[n] /\ (Known(n) => Known(n)'),
         \A o \in opens' :
           o \in opens \/ (Known(o.node)' /\ (o.handle # None => HandleFor(o.handle, o.node)'))
  PROVE  TasksFit' /\ OpensFit' /\ Separate' /\ NoneAfter' /\ PinnedHeld'
<1>1. tasks'[t] = u /\ \A s \in Tasks \ {t} : tasks'[s] = tasks[s]
  BY OneTaskMoves DEF TableInv, TypeOK, TasksTyped
<1>2. Busy' \subseteq Busy /\ t \in Busy
  BY <1>1 DEF Busy
<1>3. TasksFit'
  <2>1. ASSUME NEW s \in Tasks
        PROVE  TaskFit(tasks[s])'
    <3>1. CASE s = t
      BY <1>1, <3>1 DEF TaskFit, HandleFor
    <3>2. CASE s # t
      <4>1. PICK x : x = tasks[s]
        OBVIOUS
      <4>2. TaskFit(x) /\ x.nodes \subseteq Nodeids
        BY <4>1, TaskHas DEF FilesInv, TasksFit, TableInv, TypeOK
      <4>3. TaskFit(x)'
        <5>1. CASE x.at = "idle"
          BY <5>1 DEF TaskFit
        <5>2. CASE x.at # "idle"
          <6>1. FileAt(x.path)' = FileAt(x.path)
            <7>1. s \in Busy \ {t}
              BY <3>2, <4>1, <5>2 DEF Busy
            <7>2. tasks'[s] = x
              BY <1>1, <3>2, <4>1
            <7> QED
              BY <4>1, <7>1, <7>2 DEF FileAt
          <6> QED
            BY <4>2, <6>1, FitsStill
        <5> QED
          BY <5>1, <5>2
      <4>4. tasks'[s] = x
        BY <1>1, <3>2, <4>1
      <4> QED
        BY <4>3, <4>4 DEF TaskFit, HandleFor
    <3> QED
      BY <3>1, <3>2
  <2> QED
    BY <2>1 DEF TasksFit
<1>4. \A o \in opens : o.node \in Nodeids
  BY DEF TableInv, TypeOK
<1>5. OpensFit'
  <2>1. ASSUME NEW o \in opens, o.handle # None
        PROVE  HandleFor(o.handle, o.node)'
    <3>1. HandleFor(o.handle, o.node) /\ o.node \in Nodeids
      BY <1>4, <2>1 DEF FilesInv, OpensFit
    <3> QED
      BY <3>1 DEF HandleFor, HandlesLast
  <2> QED
    BY <2>1 DEF OpensFit, HandleFor
<1>6. Separate'
  <2>1. ASSUME NEW r \in Busy', NEW s \in Busy', r # s
        PROVE  ~Conflict(tasks'[r], tasks'[s])
    <3>1. ~Conflict(tasks[r], tasks[s])
      BY <1>2, <2>1 DEF FilesInv, Separate
    <3>2. \A q \in Busy' : tasks'[q].op = tasks[q].op /\ Used(tasks'[q]) \subseteq Used(tasks[q])
      BY <1>1 DEF Busy
    <3> QED
      BY <2>1, <3>1, <3>2 DEF Conflict
  <2> QED
    BY <2>1 DEF Separate
<1>7. NoneAfter'
  BY <1>2 DEF FilesInv, NoneAfter
<1>8. PinnedHeld'
  <2>1. ASSUME NEW n \in Nodeids, Pinned(n)'
        PROVE  Known(n)'
    <3>1. CASE \E s \in Busy' : n \in tasks'[s].nodes
      <4>1. PICK s \in Busy' : n \in tasks'[s].nodes
        BY <3>1
      <4>2. n \in tasks[s].nodes /\ s \in Busy
        BY <1>1, <1>2, <4>1 DEF Busy
      <4> QED
        BY <4>2 DEF FilesInv, PinnedHeld, Pinned
    <3>2. CASE \E o \in opens' : o.node = n
      BY <3>2 DEF FilesInv, PinnedHeld, Pinned
    <3> QED
      BY <2>1, <3>1, <3>2 DEF Pinned
  <2> QED
    BY <2>1 DEF PinnedHeld
<1> QED
  BY <1>3, <1>5, <1>6, <1>7, <1>8

-----------------------------------------------------------------------------
(* Requests begin                                                           *)

LEMMA BeginAlone ==
  ASSUME TableInv, NEW t, NEW u, Begin(t, u)
  PROVE  ~RenameDone
<1>1. ASSUME NEW s \in Tasks, At(s, "rename", "done")
      PROVE  FALSE
  <2>1. s \in Busy /\ tasks[s].op = "rename"
    BY <1>1 DEF At, Busy
  <2>2. LockIsFree(u.op)
    BY DEF Begin
  <2> QED
    BY <2>1, <2>2 DEF LockIsFree
<1> QED
  BY <1>1 DEF RenameDone

LEMMA BeginFits ==
  ASSUME TableInv, FilesInv, NEW t \in Tasks, tasks[t] = Idle, ~destroyed, NEW u \in Task,
         Begin(t, u), u.owed = <<>>, u.at \notin {"idle", "done"}, TaskFit(u)
  PROVE  FilesInv'
<1>1. tasks'[t] = u /\ \A s \in Tasks \ {t} : tasks'[s] = tasks[s]
  BY OneTaskMoves DEF TableInv, TypeOK, TasksTyped, Begin
<1>2. UNCHANGED <<table, opens, nextFh, destroyed, toClose, cleared, names, files, handles,
                  held, denotes, driver>>
  BY DEF Begin, session, teardown, backing, kernel
<1>3. \A s \in Tasks : tasks'[s].owed = tasks[s].owed
  BY <1>1, IdleTask
<1>4. \A n, f : IsFor(n, f)' <=> IsFor(n, f)
  BY <1>2, <1>3, ForSame
<1>5. KernelFits'
  <2>1. table.live \subseteq Nodeids /\ SameKeys(table, table')
    BY <1>2, TableParts DEF TableInv, TableOK, SameKeys
  <2> QED
    BY <1>2, <1>3, <2>1, KernelSame DEF FilesInv
<1>6. TreeFits'
  <2>1. \A f \in DOMAIN files : (\E q \in Entries : names'[q] = f) => Kept(f)
    BY <1>2 DEF Kept, Present
  <2>2. \A h \in DOMAIN handles' :
          (handles'[h].closed = 0 /\ handles'[h].file \in DOMAIN files) => Kept(handles'[h].file)
    BY <1>2 DEF Kept, Present
  <2>3. \A s \in Tasks : (tasks'[s].at = "done" /\ tasks'[s].file \in DOMAIN files)
                           => Kept(tasks'[s].file)
    BY <1>1 DEF Kept, Unheard, Busy
  <2>4. InosApart'
    BY <1>2, <2>1, <2>2, <2>3, KeptShrinks DEF FilesInv, TreeFits
  <2>5. UnderDirs' /\ DirsOnce'
    BY <1>2 DEF FilesInv, TreeFits, UnderDirs, DirsOnce, IsDir
  <2> QED
    BY <2>4, <2>5 DEF TreeFits
<1>7. ~RenameDone /\ ~RenameDone'
  <2>1. ~RenameDone
    BY BeginAlone
  <2> QED
    BY <1>1, <2>1 DEF RenameDone, At
<1>8. NamesHold'
  <2>1. \A p : FileAt(p)' = FileAt(p)
    BY <1>2 DEF FileAt
  <2>2. \A s \in Tasks : At(s, "remove", "done") => tasks'[s] = tasks[s]
    BY <1>1, IdleTask DEF At
  <2> QED
    BY <1>2, <1>4, <1>7, <2>1, <2>2, NamesKept DEF FilesInv
<1>9. RenamedHold'
  BY <1>7, NoneRenamed
<1>10. TasksFit' /\ OpensFit'
  <2>1. ASSUME NEW s \in Tasks
        PROVE  TaskFit(tasks[s])'
    <3>1. PICK x : x = tasks'[s]
      OBVIOUS
    <3>2. TaskFit(x)
      BY <1>1, <3>1 DEF FilesInv, TasksFit
    <3>3. TaskFit(x)'
      BY <1>2, <3>2 DEF TaskFit, HandleFor, FileAt
    <3> QED
      BY <3>1, <3>3 DEF TaskFit, HandleFor, FileAt
  <2> QED
    BY <1>2, <2>1 DEF TasksFit, FilesInv, OpensFit, HandleFor
<1>11. Busy' = Busy \cup {t} /\ t \notin Busy
  BY <1>1, IdleTask DEF Busy
<1>12. Separate'
  <2>1. \A s \in Busy : ~Conflict(u, tasks[s]) /\ ~Conflict(tasks[s], u)
    BY DEF Begin, Conflict
  <2>2. ASSUME NEW r \in Busy', NEW s \in Busy', r # s
        PROVE  ~Conflict(tasks'[r], tasks'[s])
    <3>1. CASE r = t
      <4>1. s \in Busy /\ tasks'[r] = u /\ tasks'[s] = tasks[s]
        BY <1>1, <1>11, <2>2, <3>1 DEF Busy
      <4> QED
        BY <2>1, <4>1
    <3>2. CASE s = t
      <4>1. r \in Busy /\ tasks'[s] = u /\ tasks'[r] = tasks[r]
        BY <1>1, <1>11, <2>2, <3>2 DEF Busy
      <4> QED
        BY <2>1, <4>1
    <3>3. CASE r # t /\ s # t
      <4>1. r \in Busy /\ s \in Busy /\ tasks'[s] = tasks[s] /\ tasks'[r] = tasks[r]
        BY <1>1, <1>11, <2>2, <3>3 DEF Busy
      <4>2. ~Conflict(tasks[r], tasks[s])
        BY <2>2, <4>1 DEF FilesInv, Separate
      <4> QED
        BY <4>1, <4>2
    <3> QED
      BY <3>1, <3>2, <3>3
  <2> QED
    BY <2>2 DEF Separate, Conflict, Used
<1>13. NoneAfter'
  BY <1>2 DEF NoneAfter
<1>14. PinnedHeld'
  <2>1. \A n \in u.nodes : Known(n)
    BY DEF Begin
  <2>2. ASSUME NEW n \in Nodeids, Pinned(n)'
        PROVE  Known(n)
    <3>1. CASE \E s \in Busy' : n \in tasks'[s].nodes
      <4>1. PICK s \in Busy' : n \in tasks'[s].nodes
        BY <3>1
      <4>2. CASE s = t
        BY <1>1, <2>1, <4>1, <4>2
      <4>3. CASE s # t
        <5>1. n \in tasks[s].nodes /\ s \in Busy
          BY <1>1, <1>11, <4>1, <4>3 DEF Busy
        <5> QED
          BY <5>1 DEF FilesInv, PinnedHeld, Pinned
      <4> QED
        BY <4>2, <4>3
    <3>2. CASE \E o \in opens : o.node = n
      BY <3>2 DEF FilesInv, PinnedHeld, Pinned
    <3> QED
      BY <1>2, <2>2, <3>1, <3>2 DEF Pinned
  <2> QED
    BY <1>2, <2>2 DEF PinnedHeld, Known
<1> QED
  BY <1>5, <1>6, <1>8, <1>9, <1>10, <1>12, <1>13, <1>14 DEF FilesInv

\* With the names settled, a nodeid's path leads to its file.
LEMMA RequestFits ==
  ASSUME TableInv, FilesInv, Orderly, NEW n \in table.live, HasPath(table, n),
         NEW op \in {"open", "reach"}, NEW t \in Tasks, Begin(t, Request(op, "driver", n))
  PROVE  TaskFit(Request(op, "driver", n))
<1> DEFINE u == Request(op, "driver", n)
           p == PathOf(table, n)
<1>1. u.op = op /\ u.at = "driver" /\ u.nodes = {n} /\ u.path = p /\ u.handle = None
  BY RequestTask
<1>2. Begin(t, u)
  OBVIOUS
<1> HIDE DEF u
<1>3. Known(n) /\ n \in Nodeids /\ \A s \in Busy : ~Conflict(u, tasks[s])
  BY <1>1, <1>2, TableParts DEF Begin, TableInv, TableOK
<1>4. ~RenameDone
  BY <1>2, BeginAlone
<1>5. p \in Paths /\ p \in Tracked(table, n)
  <2>1. table.inodes[n].paths \in Seq(Paths) /\ table.inodes[n].paths # <<>>
    BY <1>3, TrackedTyped DEF HasPath, TableInv, TableOK
  <2>2. PICK s : s = table.inodes[n].paths
    OBVIOUS
  <2>3. Head(s) \in Paths /\ Head(s) \in ToSet(s)
    <3>1. s \in Seq(Paths) /\ s # <<>>
      BY <2>1, <2>2
    <3>2. Head(s) = s[1] /\ 1 \in DOMAIN s /\ s[1] \in Paths
      BY <3>1, EmptySeq
    <3> QED
      BY <3>2 DEF ToSet
  <2> QED
    BY <2>2, <2>3 DEF PathOf, Tracked
<1>6. table.byPath[p] = n /\ n # None
  BY <1>3, <1>5, Constants DEF TableInv, TableOK, PathsAgree
<1>7. ~GoneFrom(p, n)
  <2>1. ASSUME NEW s \in Tasks, At(s, "remove", "done"), tasks[s].path = p
        PROVE  FALSE
    <3>1. p \in Entries /\ s \in Busy
      BY <2>1 DEF TableInv, StagesInOrder, InOrder, At, Changing, Busy
    <3>2. Conflict(u, tasks[s])
      <4>1. p # Top /\ p \in Used(u) /\ p \in Used(tasks[s]) /\ tasks[s].op \in Changing
        BY <1>1, <2>1, <3>1, EntryIs DEF Used, At, Changing
      <4> QED
        BY <4>1, ConflictIs
    <3> QED
      BY <1>3, <3>1, <3>2
  <2> QED
    BY <2>1 DEF GoneFrom
<1>8. IsFor(n, FileAt(p))
  BY <1>4, <1>5, <1>6, <1>7 DEF FilesInv, NamesHold
<1>9. denotes[n] = {FileAt(p)}
  BY <1>3, <1>8, ForIsDenoted DEF FilesInv
<1> QED
  BY <1>1, <1>9 DEF TaskFit, u

LEMMA StartsFits ==
  ASSUME TableInv, FilesInv, Orderly, NEW t \in Tasks, Starts(t)
  PROVE  FilesInv'
<1>1. tasks[t] = Idle /\ ~destroyed
  BY DEF Starts, MayBegin
<1>2. TableOK(table) /\ table.live \subseteq Nodeids
  BY TableParts DEF TableInv, TableOK
<1>3. ASSUME NEW n \in table.live, NEW name,
             \/ Lookup(t, n, name) \/ Make(t, n, name)
             \/ RemoveEntry(t, n, name) \/ Create(t, n, name)
      PROVE  FilesInv'
  <2>1. PICK op \in Changing \cup {"lookup"}, at \in {"driver", "lstat"} :
          /\ at = "lstat" => op = "lookup"
          /\ op # "rename" /\ CanName(n, name) /\ Begin(t, ChildRequest(op, at, n, name))
    <3>1. CASE Lookup(t, n, name)
      BY <3>1 DEF Lookup
    <3>2. CASE Make(t, n, name)
      BY <3>2 DEF Make, Changing
    <3>3. CASE RemoveEntry(t, n, name)
      BY <3>3 DEF RemoveEntry, Changing
    <3>4. CASE Create(t, n, name)
      BY <3>4 DEF Create, Changing
    <3> QED
      BY <1>3, <3>1, <3>2, <3>3, <3>4
  <2> DEFINE u == ChildRequest(op, at, n, name)
  <2>2. u \in Task /\ u.owed = <<>> /\ u.at = at /\ u.op = op
    BY <2>1, ChildTyped, ChildTask
  <2>3. Begin(t, u)
    BY <2>1
  <2> HIDE DEF u
  <2>4. TaskFit(u)
    BY <2>1, <2>2 DEF TaskFit, Changing
  <2> QED
    BY <1>1, <2>2, <2>3, <2>4, BeginFits
<1>4. ASSUME NEW n \in table.live, NEW name, NEW m \in table.live, Link(t, m, n, name)
      PROVE  FilesInv'
  <2> DEFINE from == PathOf(table, m)
             r == ChildRequest("link", "driver", n, name)
             u == OnPair(r, {m, n}, from)
  <2>1. CanName(n, name) /\ HasPath(table, m) /\ Begin(t, u)
    BY <1>4 DEF Link, OnPair
  <2>2. from \in Paths /\ {m, n} \in SUBSET Nodeids
    BY <1>2, <2>1, Naming
  <2>3. r.op = "link" /\ IsTask(r)
    BY ChildTask
  <2> HIDE DEF from
  <2>4. u \in Task /\ u.owed = <<>> /\ u.at = "driver"
    BY <2>1, <2>2, PairTyped
  <2> HIDE DEF r
  <2>5. u.op = "link"
    BY <2>3 DEF OnPair, IsTask
  <2> HIDE DEF u
  <2>6. TaskFit(u)
    BY <2>4, <2>5 DEF TaskFit
  <2> QED
    BY <1>1, <2>1, <2>4, <2>6, BeginFits
<1>5. ASSUME NEW n \in table.live, NEW name, NEW m \in table.live, NEW newName,
             Rename(t, n, name, m, newName)
      PROVE  FilesInv'
  <2> DEFINE from == Append(PathOf(table, n), name)
             r == ChildRequest("rename", "driver", m, newName)
             u == OnPair(r, {n, m}, from)
  <2>1. CanName(n, name) /\ CanName(m, newName) /\ Begin(t, u)
    BY <1>5 DEF Rename, OnPair
  <2>2. from \in Entries /\ from \in Paths /\ {n, m} \in SUBSET Nodeids
    BY <1>2, <2>1, Naming DEF Entries
  <2>3. r.op = "rename" /\ IsTask(r)
    BY ChildTask
  <2> HIDE DEF from
  <2>4. u \in Task /\ u.owed = <<>> /\ u.at = "driver"
    BY <2>1, <2>2, PairTyped
  <2> HIDE DEF r
  <2>5. u.op = "rename"
    BY <2>3 DEF OnPair, IsTask
  <2> HIDE DEF u
  <2>6. TaskFit(u)
    BY <2>4, <2>5 DEF TaskFit
  <2> QED
    BY <1>1, <2>1, <2>4, <2>6, BeginFits
<1>6. ASSUME NEW n \in table.live, NEW op \in {"open", "reach"}, HasPath(table, n),
             Begin(t, Request(op, "driver", n))
      PROVE  FilesInv'
  <2> DEFINE u == Request(op, "driver", n)
  <2>1. u \in Task /\ u.owed = <<>> /\ u.at = "driver" /\ TaskFit(u)
    BY <1>6, RequestTyped, RequestFits
  <2>2. Begin(t, u)
    BY <1>6
  <2> HIDE DEF u
  <2> QED
    BY <1>1, <2>1, <2>2, BeginFits
<1>7. ASSUME NEW n \in table.live, Open(t, n) \/ Getattr(t, n)
      PROVE  FilesInv'
  BY <1>6, <1>7 DEF Open, Getattr
<1>8. ASSUME NEW o \in opens, Reopen(t, o)
      PROVE  FilesInv'
  <2>1. o.node \in table.live
    BY <1>8 DEF Reopen, HasPath
  <2> QED
    BY <1>6, <1>8, <2>1 DEF Reopen
<1>9. ASSUME NEW n \in table.live, NEW h, GetattrByHandle(t, n, h)
      PROVE  FilesInv'
  <2> DEFINE u == [Idle EXCEPT !.op = "reach", !.at = "driver", !.nodes = {n}, !.handle = h]
  <2>1. h \in HandlesOn(n) /\ Begin(t, u)
    BY <1>9 DEF GetattrByHandle
  <2>2. h \in Nat /\ h # None /\ HandleFor(h, n)
    <3>1. \A o \in opens : o.handle \in Nat
      BY DEF TableInv, TypeOK
    <3>2. PICK o \in opens : o.node = n /\ o.handle = h /\ h # None
      BY <2>1 DEF HandlesOn
    <3> QED
      BY <3>1, <3>2 DEF FilesInv, OpensFit
  <2>3. IsTask(u)
    BY IdleTask, OtherTasks
  <2>4. /\ u.op = "reach" /\ u.at = "driver" /\ u.nodes = {n} /\ u.path = Top /\ u.from = Top
        /\ u.page = {} /\ u.file = None /\ u.handle = h /\ u.owed = <<>>
    BY IdleTask DEF IsTask
  <2> HIDE DEF u
  <2>5. u \in Task
    <3>1. u.op \in Ops /\ u.at \in Stages
      BY <2>4 DEF Ops, Stages
    <3> QED
      BY <1>2, <2>2, <2>3, <2>4, <3>1, Constants, TaskIs
  <2>6. TaskFit(u)
    BY <2>2, <2>4 DEF TaskFit
  <2> QED
    BY <1>1, <2>1, <2>4, <2>5, <2>6, BeginFits
<1>10. ASSUME NEW n \in table.live, NEW S, Readdir(t, n, S)
       PROVE  FilesInv'
  <2> DEFINE r == Request("readdir", "page", n)
             u == [r EXCEPT !.page = S]
  <2>1. HasPath(table, n) /\ S \subseteq Children(PathOf(table, n)) /\ Begin(t, u)
    BY <1>10 DEF Readdir
  <2>2. S \in SUBSET Entries /\ PathOf(table, n) \in Paths
    BY <1>2, <2>1, Naming DEF Children, Entries
  <2>3. /\ IsTask(r) /\ r.op = "readdir" /\ r.at = "page" /\ r.nodes = {n}
        /\ r.path = PathOf(table, n) /\ r.from = Top /\ r.file = None
        /\ r.handle = None /\ r.owed = <<>>
    BY RequestTask
  <2> HIDE DEF r
  <2>4. IsTask(u)
    BY <2>3, OtherTasks
  <2>5. /\ u.op = "readdir" /\ u.at = "page" /\ u.nodes = {n} /\ u.path = PathOf(table, n)
        /\ u.from = Top /\ u.page = S /\ u.file = None /\ u.handle = None /\ u.owed = <<>>
    BY <2>3 DEF IsTask
  <2> HIDE DEF u
  <2>6. u \in Task
    <3>1. u.op \in Ops /\ u.at \in Stages
      BY <2>5 DEF Ops, Stages
    <3> QED
      BY <1>2, <2>2, <2>4, <2>5, <3>1, Constants, TaskIs
  <2>7. TaskFit(u)
    BY <2>5 DEF TaskFit
  <2> QED
    BY <1>1, <2>1, <2>5, <2>6, <2>7, BeginFits
<1> QED
  BY <1>3, <1>4, <1>5, <1>7, <1>8, <1>9, <1>10 DEF Starts

-----------------------------------------------------------------------------
(* The driver acts                                                          *)

LEMMA DoneFits ==
  ASSUME TableInv, FilesInv, NEW t \in Tasks, tasks[t].at # "idle", NEW u \in Task, Done(t, u),
         \/ u.at = "idle"
         \/ u.op = tasks[t].op /\ u.nodes = tasks[t].nodes /\ Used(u) \subseteq Used(tasks[t]),
         u.owed = tasks[t].owed, TaskFit(u)', HandlesLast,
         \A s \in Busy \ {t} : FileAt(tasks[s].path)' = FileAt(tasks[s].path),
         \A f \in DOMAIN files : f \in DOMAIN files' /\ files'[f] = files[f],
         TreeFits', NamesHold', RenamedHold'
  PROVE  FilesInv'
<1>1. UNCHANGED <<table, opens, destroyed, held, denotes, driver>> /\ Step(t, u)
  BY DEF Done, session, teardown, kernel
<1>2. \A s \in Tasks : tasks'[s].owed = tasks[s].owed
  BY <1>1, OneTaskMoves DEF TableInv, TypeOK, TasksTyped
<1>3. KernelFits'
  <2>1. table.live \subseteq Nodeids /\ SameKeys(table, table')
    BY <1>1, TableParts DEF TableInv, TableOK, SameKeys
  <2> QED
    BY <1>1, <1>2, <2>1, KernelSame DEF FilesInv
<1>4. TasksFit' /\ OpensFit' /\ Separate' /\ NoneAfter' /\ PinnedHeld'
  <2>1. \A n \in Nodeids : denotes[n] \subseteq denotes'[n] /\ (Known(n) => Known(n)')
    BY <1>1 DEF Known
  <2> QED
    BY <1>1, <2>1, StepFits
<1> QED
  BY <1>3, <1>4 DEF FilesInv

\* No unlink a request might run into is waiting for its handler.
LEMMA NotGone ==
  ASSUME TableInv, FilesInv, Orderly, NEW t \in Busy, tasks[t].at # "done",
         NEW p \in Used(tasks[t]), NEW n
  PROVE  ~GoneFrom(p, n)
<1>1. ASSUME NEW s \in Tasks, At(s, "remove", "done"), tasks[s].path = p
      PROVE  FALSE
  <2>1. s \in Busy /\ s # t /\ p \in Entries /\ tasks[s].op \in Changing
    BY <1>1 DEF TableInv, StagesInOrder, InOrder, At, Changing, Busy
  <2>2. p # Top /\ p \in Used(tasks[s])
    BY <1>1, <2>1, EntryIs DEF Used
  <2>3. Conflict(tasks[s], tasks[t])
    BY <2>1, <2>2, ConflictIs
  <2> QED
    BY <2>1, <2>3 DEF FilesInv, Separate
<1> QED
  BY <1>1 DEF GoneFrom

\* A free name is not in the table.
LEMMA FreeIsUntracked ==
  ASSUME TableInv, FilesInv, Orderly, NEW t \in Busy, tasks[t].at = "driver",
         NEW p \in Used(tasks[t]), p \in Paths, FileAt(p) = None
  PROVE  table.byPath[p] = None
<1>1. SUFFICES ASSUME table.byPath[p] # None
               PROVE  FALSE
  OBVIOUS
<1>2. PICK n : n = table.byPath[p]
  OBVIOUS
<1>3. n \in Nodeids
  BY <1>1, <1>2, TableParts DEF TableInv, TableOK, PathsAgree
<1>4. ~RenameDone
  BY NoRename
<1>5. ~GoneFrom(p, n)
  BY NotGone
<1>6. IsFor(n, None)
  BY <1>1, <1>2, <1>4, <1>5 DEF FilesInv, NamesHold
<1>7. BackingTyped
  BY TypesAre DEF TableInv
<1>8. CASE n = Root
  <2>1. None = RootFile
    BY <1>6, <1>8 DEF FilesInv, KernelFits, ForFiles
  <2> QED
    BY <1>7, <2>1, DirIs
<1>9. CASE n # Root
  <2>1. None \in DOMAIN files
    BY <1>3, <1>6, <1>9 DEF FilesInv, KernelFits, ForFiles
  <2> QED
    BY <1>7, <2>1, DirIs
<1> QED
  BY <1>8, <1>9

\* What the table tracks is left where it is.
LEMMA StillHold ==
  ASSUME TableInv, FilesInv, NEW t \in Tasks, tasks[t].at \notin {"idle", "done"}, NEW u \in Task,
         Done(t, u), u.op # "rename" \/ u.at # "done", u.owed = tasks[t].owed,
         \A p \in Paths : table.byPath[p] # None => FileAt(p)' = FileAt(p)
  PROVE  NamesHold' /\ RenamedHold'
<1>1. UNCHANGED <<table, denotes>> /\ Step(t, u) /\ t \in Busy
  BY DEF Done, session, kernel, Busy
<1>2. tasks'[t] = u /\ \A s \in Tasks \ {t} : tasks'[s] = tasks[s]
  BY <1>1, OneTaskMoves DEF TableInv, TypeOK, TasksTyped
<1>3. \A n, f : IsFor(n, f)' <=> IsFor(n, f)
  BY <1>1, <1>2, ForSame
<1>4. ~RenameDone /\ ~RenameDone'
  BY <1>1, NoRename, NoRenameAfter
<1>5. \A s \in Tasks : At(s, "remove", "done") => tasks'[s] = tasks[s]
  BY <1>2 DEF At
<1>6. NamesHold'
  BY <1>1, <1>3, <1>4, <1>5, NamesKept DEF FilesInv
<1> QED
  BY <1>4, <1>6, NoneRenamed

\* One name changes, and only its request uses it.
LEMMA OneNameChanges ==
  ASSUME TableInv, FilesInv, Orderly, NEW t \in Busy, tasks[t].op \in Changing,
         tasks[t].path \in Entries, NEW u \in Task, Step(t, u),
         NEW f, names' = [names EXCEPT ![tasks[t].path] = f]
  PROVE  /\ \A q \in Paths \ {tasks[t].path} : FileAt(q)' = FileAt(q)
         /\ \A s \in Busy \ {t} : FileAt(tasks[s].path)' = FileAt(tasks[s].path)
<1>1. PICK p : p = tasks[t].path
  OBVIOUS
<1>2. \A q \in Paths \ {p} : FileAt(q)' = FileAt(q)
  BY <1>1, TypesAre DEF TableInv, BackingTyped, FileAt, Entries
<1>3. ASSUME NEW s \in Busy \ {t}
      PROVE  tasks[s].path # p /\ tasks[s].path \in Paths
  <2>1. tasks[s].path \in Paths
    BY TaskHas DEF TableInv, TypeOK, Busy
  <2>2. ASSUME tasks[s].path = p
        PROVE  Conflict(tasks[t], tasks[s])
    <3>1. p # Top /\ p \in Used(tasks[t]) /\ p \in Used(tasks[s])
      BY <1>1, <2>2, EntryIs DEF Used
    <3> QED
      BY <3>1, ConflictIs
  <2> QED
    BY <2>1, <2>2 DEF FilesInv, Separate
<1>4. ASSUME NEW s \in Busy \ {t}
      PROVE  FileAt(tasks[s].path)' = FileAt(tasks[s].path)
  <2>1. tasks'[s] = tasks[s]
    BY OneTaskMoves DEF TableInv, TypeOK, TasksTyped, Busy
  <2>2. PICK q : q = tasks[s].path
    OBVIOUS
  <2>3. FileAt(q)' = FileAt(q)
    BY <1>2, <1>3, <2>2
  <2> QED
    BY <2>1, <2>2, <2>3 DEF FileAt
<1> QED
  BY <1>1, <1>2, <1>3, <1>4

\* The driver's tree stays as it is, and no request learns of a name gone.
LEMMA TreeSame ==
  ASSUME TableInv, FilesInv, NEW t \in Tasks, tasks[t].at # "idle", NEW u \in Task, Step(t, u),
         u.at # "done", names' = names, files' = files,
         \A h \in DOMAIN handles' :
           (handles'[h].closed = 0 /\ handles'[h].file \in DOMAIN files) => Kept(handles'[h].file)
  PROVE  TreeFits'
<1>1. tasks'[t] = u /\ \A s \in Tasks \ {t} : tasks'[s] = tasks[s]
  BY OneTaskMoves DEF TableInv, TypeOK, TasksTyped
<1>2. \A s \in Tasks : (tasks'[s].at = "done" /\ tasks'[s].file \in DOMAIN files)
                         => Kept(tasks'[s].file)
  BY <1>1 DEF Kept, Unheard, Busy
<1>3. \A f \in DOMAIN files : (\E q \in Entries : names'[q] = f) => Kept(f)
  BY DEF Kept, Present
<1>4. InosApart'
  BY <1>2, <1>3, KeptShrinks DEF FilesInv, TreeFits
<1>5. UnderDirs' /\ DirsOnce'
  BY DEF FilesInv, TreeFits, UnderDirs, DirsOnce, IsDir
<1> QED
  BY <1>4, <1>5 DEF TreeFits

LEMMA OpenIsKept ==
  ASSUME NEW h \in DOMAIN handles, handles[h].closed = 0, handles[h].file \in DOMAIN files
  PROVE  Kept(handles[h].file)
BY DEF Kept, Present

\* A driver call that changes none of the driver's names.
LEMMA QuietDone ==
  ASSUME TableInv, FilesInv, NEW t \in Tasks, tasks[t].at \notin {"idle", "done"}, NEW u \in Task,
         Done(t, u), u.at # "done",
         \/ u.at = "idle"
         \/ u.op = tasks[t].op /\ u.nodes = tasks[t].nodes /\ Used(u) \subseteq Used(tasks[t]),
         u.owed = tasks[t].owed, TaskFit(u)', HandlesLast,
         names' = names, files' = files,
         \A h \in DOMAIN handles' :
           (handles'[h].closed = 0 /\ handles'[h].file \in DOMAIN files) => Kept(handles'[h].file)
  PROVE  FilesInv'
<1>1. Step(t, u)
  BY DEF Done
<1>2. TreeFits'
  BY <1>1, TreeSame
<1>3. \A p : FileAt(p)' = FileAt(p)
  BY DEF FileAt
<1>4. NamesHold' /\ RenamedHold'
  BY <1>3, StillHold
<1>5. \A s \in Busy \ {t} : FileAt(tasks[s].path)' = FileAt(tasks[s].path)
  <2>1. \A s \in Busy \ {t} : tasks'[s] = tasks[s]
    BY <1>1, OneTaskMoves DEF TableInv, TypeOK, TasksTyped, Busy
  <2> QED
    BY <1>3, <2>1 DEF FileAt
<1> QED
  BY <1>2, <1>4, <1>5, DoneFits

\* A free name is given to a file.
LEMMA NamedDone ==
  ASSUME TableInv, FilesInv, Orderly, NEW t \in Tasks, tasks[t].at = "driver",
         tasks[t].op \in Changing \ {"rename"}, tasks[t].path \in Entries,
         FileAt(tasks[t].path) = None, NEW f, names' = [names EXCEPT ![tasks[t].path] = f],
         NEW u \in Task, Done(t, u), u.at = "lstat", u.op = tasks[t].op, u.nodes = tasks[t].nodes,
         Used(u) \subseteq Used(tasks[t]), u.owed = tasks[t].owed, TaskFit(u)', HandlesLast,
         \A g \in DOMAIN files : g \in DOMAIN files' /\ files'[g] = files[g], TreeFits'
  PROVE  FilesInv'
<1>1. Step(t, u) /\ t \in Busy /\ UNCHANGED table
  BY DEF Done, Busy, session
<1>2. table.byPath[tasks[t].path] = None
  BY <1>1, FreeIsUntracked DEF Used, Entries
<1>3. /\ \A q \in Paths \ {tasks[t].path} : FileAt(q)' = FileAt(q)
      /\ \A s \in Busy \ {t} : FileAt(tasks[s].path)' = FileAt(tasks[s].path)
  BY <1>1, OneNameChanges
<1>4. NamesHold' /\ RenamedHold'
  <2>1. ASSUME NEW p \in Paths, table.byPath[p] # None
        PROVE  FileAt(p)' = FileAt(p)
    <3>1. p # tasks[t].path
      BY <1>2, <2>1
    <3> QED
      BY <1>3, <3>1
  <2> QED
    BY <2>1, StillHold
<1> QED
  BY <1>3, <1>4, DoneFits

LEMMA MakesFits ==
  ASSUME TableInv, FilesInv, Orderly, NEW t \in Tasks, NEW dir \in BOOLEAN, DriverMakes(t, dir)
  PROVE  FilesInv'
<1>1. PICK x : x = tasks[t]
  OBVIOUS
<1>2. x \in Task /\ InOrder(x) /\ BackingTyped
  BY <1>1, TypesAre DEF TableInv, TasksTyped, StagesInOrder
<1>3. PICK u : u = [x EXCEPT !.at = "lstat"]
  OBVIOUS
<1>4. x.op = "make" /\ x.at = "driver" /\ Done(t, u) /\ handles' = handles /\ NewFile(x.path, dir)
  BY <1>1, <1>3 DEF DriverMakes, Awaits, At
<1>5. x.path \in Entries
  BY <1>2, <1>4 DEF InOrder, Changing
<1>6. /\ u \in Task /\ u.op = x.op /\ u.at = "lstat" /\ u.path = x.path /\ u.from = x.from
      /\ u.page = x.page /\ u.nodes = x.nodes /\ u.owed = x.owed
  BY <1>2, <1>3 DEF Task
<1>7. tasks'[t] = u /\ \A s \in Tasks \ {t} : tasks'[s] = tasks[s]
  BY <1>4, <1>6, OneTaskMoves DEF TableInv, TypeOK, TasksTyped, Done
<1>8. /\ FileAt(x.path) = None /\ IsDir(FileAt(Parent(x.path)))
      /\ names' = [names EXCEPT ![x.path] = Len(files) + 1]
  BY <1>4 DEF NewFile
<1>9. /\ InosApart' /\ DOMAIN files' = DOMAIN files \cup {Len(files) + 1}
      /\ \A f \in DOMAIN files : files'[f] = files[f]
      /\ Len(files) + 1 \notin 0 .. Len(files)
  <2>1. \A s \in Tasks : (tasks'[s].at = "done" /\ tasks'[s].file \in DOMAIN files)
                           => Kept(tasks'[s].file)
    BY <1>6, <1>7 DEF Kept, Unheard, Busy
  <2> QED
    BY <1>2, <1>4, <1>5, <2>1, OpenIsKept, NewFileApart DEF FilesInv, TreeFits
<1>10. TreeFits'
  <2>1. \A g \in 0 .. Len(files) : IsDir(g)' <=> IsDir(g)
    BY <1>9 DEF IsDir
  <2> QED
    BY <1>2, <1>5, <1>8, <1>9, <2>1, NewNameFits DEF FilesInv, TreeFits
<1>11. TaskFit(u)'
  BY <1>4, <1>6 DEF TaskFit
<1>12. HandlesLast
  BY <1>4 DEF HandlesLast
<1>13. Used(u) \subseteq Used(x)
  BY <1>6 DEF Used
<1> QED
  BY <1>1, <1>4, <1>5, <1>6, <1>8, <1>9, <1>10, <1>11, <1>12, <1>13, NamedDone DEF Changing

LEMMA CreatesFits ==
  ASSUME TableInv, FilesInv, Orderly, NEW t \in Tasks, DriverCreates(t)
  PROVE  FilesInv'
<1>1. PICK x : x = tasks[t]
  OBVIOUS
<1>2. x \in Task /\ InOrder(x) /\ BackingTyped
  BY <1>1, TypesAre DEF TableInv, TasksTyped, StagesInOrder
<1>3. PICK h : h = OpenedHandle
  OBVIOUS
<1>4. PICK u : u = [x EXCEPT !.at = "lstat", !.handle = h]
  OBVIOUS
<1>5. /\ x.op = "create" /\ x.at = "driver" /\ Done(t, u)
      /\ handles' = Opened(Len(files) + 1) /\ NewFile(x.path, FALSE)
  BY <1>1, <1>3, <1>4 DEF DriverCreates, Awaits, At
<1>6. x.path \in Entries
  BY <1>2, <1>5 DEF InOrder, Changing
<1>7. Len(files) + 1 \in Files
  BY <1>2, <1>5, <1>6, NewFileTyped
<1>8. h \in Nat
  BY <1>2, <1>3, <1>7, OpenedTyped
<1>9. /\ u \in Task /\ u.op = x.op /\ u.at = "lstat" /\ u.path = x.path /\ u.from = x.from
      /\ u.page = x.page /\ u.nodes = x.nodes /\ u.owed = x.owed /\ u.handle = h
  BY <1>2, <1>4, <1>8 DEF Task
<1>10. tasks'[t] = u /\ \A s \in Tasks \ {t} : tasks'[s] = tasks[s]
  BY <1>5, <1>9, OneTaskMoves DEF TableInv, TypeOK, TasksTyped, Done
<1>11. /\ FileAt(x.path) = None /\ IsDir(FileAt(Parent(x.path)))
       /\ names' = [names EXCEPT ![x.path] = Len(files) + 1]
  BY <1>5 DEF NewFile
<1>12. /\ HandlesLast
       /\ \A i \in DOMAIN handles' :
            (i \in DOMAIN handles /\ handles'[i] = handles[i]) \/ handles'[i].file = Len(files) + 1
       /\ h # None => h \in DOMAIN handles' /\ handles'[h].file = Len(files) + 1
  BY <1>2, <1>3, <1>5, <1>7, OpenedLasts
<1>13. /\ InosApart' /\ DOMAIN files' = DOMAIN files \cup {Len(files) + 1}
       /\ \A f \in DOMAIN files : files'[f] = files[f]
       /\ Len(files) + 1 \notin 0 .. Len(files)
       /\ files'[Len(files) + 1].dir = FALSE
  <2>1. \A s \in Tasks : (tasks'[s].at = "done" /\ tasks'[s].file \in DOMAIN files)
                           => Kept(tasks'[s].file)
    BY <1>9, <1>10 DEF Kept, Unheard, Busy
  <2>2. \A i \in DOMAIN handles' :
          (handles'[i].closed = 0 /\ handles'[i].file \in DOMAIN files) => Kept(handles'[i].file)
    <3>1. Len(files) + 1 \notin DOMAIN files
      BY <1>2, FileAtIs, Constants
    <3> QED
      BY <1>12, <3>1, OpenIsKept
  <2> QED
    BY <1>2, <1>5, <1>6, <2>1, <2>2, NewFileApart DEF FilesInv, TreeFits
<1>14. TreeFits'
  <2>1. \A g \in 0 .. Len(files) : IsDir(g)' <=> IsDir(g)
    BY <1>13 DEF IsDir
  <2> QED
    BY <1>2, <1>6, <1>11, <1>13, <2>1, NewNameFits DEF FilesInv, TreeFits
<1>15. TaskFit(u)'
  <2>1. FileAt(x.path)' = Len(files) + 1
    BY <1>2, <1>6, <1>11, EntryIs DEF FileAt, BackingTyped
  <2> QED
    BY <1>5, <1>9, <1>12, <2>1 DEF TaskFit
<1>16. Used(u) \subseteq Used(x)
  BY <1>9 DEF Used
<1> QED
  BY <1>1, <1>5, <1>6, <1>9, <1>11, <1>12, <1>13, <1>14, <1>15, <1>16, NamedDone DEF Changing

LEMMA OpensFits ==
  ASSUME TableInv, FilesInv, NEW t \in Tasks, DriverOpens(t)
  PROVE  FilesInv'
<1>1. PICK x : x = tasks[t]
  OBVIOUS
<1>2. x \in Task /\ InOrder(x) /\ BackingTyped /\ TaskFit(x)
  BY <1>1, TypesAre DEF TableInv, TasksTyped, StagesInOrder, FilesInv, TasksFit
<1>3. PICK h : h = OpenedHandle
  OBVIOUS
<1>4. PICK at \in {"lstat", "opened"} :
        /\ Done(t, [x EXCEPT !.at = at, !.handle = h])
        /\ x.op = IF at = "lstat" THEN "create" ELSE "open"
        /\ x.at = "driver" /\ handles' = Opened(FileAt(x.path))
        /\ FileAt(x.path) # None /\ ~IsDir(FileAt(x.path))
        /\ names' = names /\ files' = files
  BY <1>1, <1>3 DEF DriverOpens, Awaits, At
<1>5. PICK u : u = [x EXCEPT !.at = at, !.handle = h]
  OBVIOUS
<1>6. PICK f : f = FileAt(x.path)
  OBVIOUS
<1>7. x.path \in Paths
  BY <1>2, TaskHas
<1>8. f \in Files /\ f \in DOMAIN files /\ x.path \in Entries
  BY <1>2, <1>4, <1>6, <1>7, FileAtIs
<1>9. h \in Nat
  BY <1>2, <1>3, <1>8, OpenedTyped
<1>10. /\ u \in Task /\ u.op = x.op /\ u.at = at /\ u.path = x.path /\ u.from = x.from
       /\ u.page = x.page /\ u.nodes = x.nodes /\ u.owed = x.owed /\ u.handle = h
  BY <1>2, <1>5, <1>9 DEF Task
<1>11. /\ HandlesLast
       /\ \A i \in DOMAIN handles' :
            (i \in DOMAIN handles /\ handles'[i] = handles[i]) \/ handles'[i].file = f
       /\ h # None => h \in DOMAIN handles' /\ handles'[h].file = f
  BY <1>2, <1>3, <1>4, <1>6, <1>8, OpenedLasts
<1>12. Done(t, u) /\ denotes' = denotes
  BY <1>4, <1>5 DEF Done, kernel
<1>13. TaskFit(u)'
  <2>1. FileAt(x.path)' = f
    BY <1>4, <1>6 DEF FileAt
  <2>2. x.op = "open" => \A n \in x.nodes : f \in denotes[n]
    BY <1>2, <1>4, <1>6 DEF TaskFit
  <2>3. (u.op = "open" /\ u.handle # None) => \A n \in u.nodes : HandleFor(u.handle, n)'
    BY <1>10, <1>11, <1>12, <2>2 DEF HandleFor
  <2> QED
    BY <1>4, <1>10, <1>11, <2>1, <2>3 DEF TaskFit
<1>14. \A i \in DOMAIN handles' :
         (handles'[i].closed = 0 /\ handles'[i].file \in DOMAIN files) => Kept(handles'[i].file)
  <2>1. Kept(f)
    BY <1>6, <1>8, EntryIs DEF Kept, Present
  <2> QED
    BY <1>11, <2>1, OpenIsKept
<1>15. Used(u) \subseteq Used(x)
  BY <1>10 DEF Used
<1> QED
  BY <1>1, <1>4, <1>10, <1>11, <1>12, <1>13, <1>14, <1>15, QuietDone

LEMMA LinksFits ==
  ASSUME TableInv, FilesInv, Orderly, NEW t \in Tasks, DriverLinks(t)
  PROVE  FilesInv'
<1>1. PICK x : x = tasks[t]
  OBVIOUS
<1>2. x \in Task /\ InOrder(x) /\ BackingTyped
  BY <1>1, TypesAre DEF TableInv, TasksTyped, StagesInOrder
<1>3. PICK f : f = FileAt(x.from)
  OBVIOUS
<1>4. PICK u : u = [x EXCEPT !.at = "lstat"]
  OBVIOUS
<1>5. /\ x.op = "link" /\ x.at = "driver" /\ Done(t, u) /\ f # None /\ ~IsDir(f)
      /\ FileAt(x.path) = None /\ IsDir(FileAt(Parent(x.path)))
      /\ names' = [names EXCEPT ![x.path] = f] /\ files' = files /\ handles' = handles
  BY <1>1, <1>3, <1>4 DEF DriverLinks, Awaits, At
<1>6. x.path \in Entries /\ x.from \in Paths
  BY <1>2, <1>5, TaskHas DEF InOrder, Changing
<1>7. f \in DOMAIN files /\ x.from \in Entries
  BY <1>2, <1>3, <1>5, <1>6, FileAtIs
<1>8. /\ u \in Task /\ u.op = x.op /\ u.at = "lstat" /\ u.path = x.path /\ u.from = x.from
      /\ u.page = x.page /\ u.nodes = x.nodes /\ u.owed = x.owed
  BY <1>2, <1>4 DEF Task
<1>9. tasks'[t] = u /\ \A s \in Tasks \ {t} : tasks'[s] = tasks[s]
  BY <1>5, <1>8, OneTaskMoves DEF TableInv, TypeOK, TasksTyped, Done
<1>10. InosApart'
  <2>1. \A g \in DOMAIN files : (\E q \in Entries : names'[q] = g) => Kept(g)
    <3>1. names[x.from] = f
      BY <1>3, <1>7, EntryIs
    <3>2. Kept(f)
      BY <1>7, <3>1 DEF Kept, Present
    <3>3. \A q \in Entries : names'[q] = f \/ names'[q] = names[q]
      BY <1>2, <1>5 DEF BackingTyped
    <3> QED
      BY <3>2, <3>3 DEF Kept, Present
  <2>2. \A s \in Tasks : (tasks'[s].at = "done" /\ tasks'[s].file \in DOMAIN files)
                           => Kept(tasks'[s].file)
    BY <1>8, <1>9 DEF Kept, Unheard, Busy
  <2> QED
    BY <1>5, <2>1, <2>2, OpenIsKept, KeptShrinks DEF FilesInv, TreeFits
<1>11. TreeFits'
  <2>1. \A g : IsDir(g)' <=> IsDir(g)
    BY <1>5 DEF IsDir
  <2> QED
    BY <1>2, <1>5, <1>6, <1>10, <2>1, NewNameFits DEF FilesInv, TreeFits
<1>12. TaskFit(u)'
  BY <1>5, <1>8 DEF TaskFit
<1>13. HandlesLast
  BY <1>5 DEF HandlesLast
<1>14. Used(u) \subseteq Used(x)
  BY <1>8 DEF Used
<1> QED
  BY <1>1, <1>5, <1>6, <1>8, <1>11, <1>12, <1>13, <1>14, NamedDone DEF Changing

LEMMA RemovesFits ==
  ASSUME TableInv, FilesInv, Orderly, NEW t \in Tasks, DriverRemoves(t)
  PROVE  FilesInv'
<1>1. PICK x : x = tasks[t]
  OBVIOUS
<1>2. x \in Task /\ InOrder(x) /\ BackingTyped
  BY <1>1, TypesAre DEF TableInv, TasksTyped, StagesInOrder
<1>3. PICK f : f = FileAt(x.path)
  OBVIOUS
<1>4. PICK u : u = [x EXCEPT !.at = "done", !.file = f]
  OBVIOUS
<1>5. /\ x.op = "remove" /\ x.at = "driver" /\ Done(t, u) /\ f # None /\ EmptyAt(x.path)
      /\ names' = [names EXCEPT ![x.path] = None] /\ files' = files /\ handles' = handles
  BY <1>1, <1>3, <1>4 DEF DriverRemoves, Awaits, At
<1>6. x.path \in Entries /\ x.path \in Paths
  BY <1>2, <1>5, EntryIs DEF InOrder, Changing
<1>7. f \in DOMAIN files /\ names[x.path] = f /\ f \in 0 .. RootFile
  BY <1>2, <1>3, <1>5, <1>6, FileAtIs, EntryIs
<1>8. /\ u \in Task /\ u.op = x.op /\ u.at = "done" /\ u.path = x.path /\ u.from = x.from
      /\ u.page = x.page /\ u.nodes = x.nodes /\ u.owed = x.owed /\ u.file = f
  BY <1>2, <1>4, <1>7 DEF Task
<1>9. tasks'[t] = u /\ \A s \in Tasks \ {t} : tasks'[s] = tasks[s]
  BY <1>5, <1>8, OneTaskMoves DEF TableInv, TypeOK, TasksTyped, Done
<1>10. InosApart'
  <2>1. \A g \in DOMAIN files : (\E q \in Entries : names'[q] = g) => Kept(g)
    <3>1. \A q \in Entries : names'[q] = None \/ names'[q] = names[q]
      BY <1>2, <1>5 DEF BackingTyped
    <3>2. None \notin DOMAIN files
      BY <1>2, DirIs
    <3> QED
      BY <3>1, <3>2 DEF Kept, Present
  <2>2. Kept(f)
    BY <1>6, <1>7 DEF Kept, Present
  <2>3. \A s \in Tasks : (tasks'[s].at = "done" /\ tasks'[s].file \in DOMAIN files)
                           => Kept(tasks'[s].file)
    BY <1>8, <1>9, <2>2 DEF Kept, Unheard, Busy
  <2> QED
    BY <1>5, <2>1, <2>3, OpenIsKept, KeptShrinks DEF FilesInv, TreeFits
<1>11. TreeFits'
  BY <1>2, <1>5, <1>6, <1>10, NameGoneFits DEF FilesInv, TreeFits
<1>12. Step(t, u) /\ t \in Busy /\ UNCHANGED <<table, denotes>>
  BY <1>1, <1>5 DEF Done, Busy, session, kernel
<1>13. /\ \A q \in Paths \ {x.path} : FileAt(q)' = FileAt(q)
       /\ \A s \in Busy \ {t} : FileAt(tasks[s].path)' = FileAt(tasks[s].path)
  BY <1>1, <1>5, <1>6, <1>8, <1>12, OneNameChanges DEF Changing
<1>14. ~RenameDone /\ ~RenameDone'
  BY <1>1, <1>5, <1>8, <1>12, NoRename, NoRenameAfter
<1>15. NamesHold'
  <2>1. \A n, g : IsFor(n, g)' <=> IsFor(n, g)
    BY <1>1, <1>8, <1>9, <1>12, ForSame
  <2>2. \A s \in Tasks : At(s, "remove", "done") => tasks'[s] = tasks[s]
    BY <1>1, <1>5, <1>9 DEF At
  <2>3. ASSUME NEW p \in Paths, table'.byPath[p] # None, p = x.path
        PROVE  GoneFrom(p, table.byPath[p])'
    <3>1. PICK n : n = table.byPath[p]
      OBVIOUS
    <3>2. ~GoneFrom(p, n)
      BY <1>1, <1>5, <1>12, <2>3, NotGone DEF Used
    <3>3. IsFor(n, f)
      BY <1>3, <1>12, <1>14, <2>3, <3>1, <3>2 DEF FilesInv, NamesHold
    <3>4. At(t, "remove", "done")' /\ tasks'[t].path = p /\ IsFor(n, tasks[t].file)'
      <4>1. IsFor(n, f)'
        BY <2>1, <3>3
      <4> QED
        BY <1>5, <1>8, <1>9, <2>3, <4>1 DEF At, IsFor
    <3>5. GoneFrom(p, n)'
      BY <3>4 DEF GoneFrom
    <3> QED
      BY <1>12, <3>1, <3>5 DEF GoneFrom, IsFor
  <2>4. ASSUME NEW p \in Paths, table'.byPath[p] # None, p # x.path
        PROVE  /\ table'.byPath[p] = table.byPath[p] /\ FileAt(p)' = FileAt(p)
               /\ \A g : IsFor(table.byPath[p], g) => IsFor(table.byPath[p], g)'
               /\ \A s \in Tasks : (At(s, "remove", "done") /\ tasks[s].path = p)
                                     => tasks'[s] = tasks[s]
    BY <1>12, <1>13, <2>1, <2>2, <2>4 DEF IsFor
  <2> QED
    BY <1>14, <2>3, <2>4, NamesKept DEF FilesInv
<1>16. TaskFit(u)' /\ RenamedHold'
  BY <1>5, <1>8, <1>14, NoneRenamed DEF TaskFit
<1>17. HandlesLast /\ Used(u) \subseteq Used(x)
  BY <1>5, <1>8 DEF HandlesLast, Used
<1> QED
  BY <1>1, <1>5, <1>8, <1>11, <1>13, <1>15, <1>16, <1>17, DoneFits

LEMMA LstatsFits ==
  ASSUME TableInv, FilesInv, NEW t \in Tasks, DriverLstats(t)
  PROVE  FilesInv'
<1>1. PICK x : x = tasks[t]
  OBVIOUS
<1>2. x \in Task /\ InOrder(x) /\ BackingTyped /\ TaskFit(x) /\ x.path \in Paths
  BY <1>1, TypesAre, TaskHas DEF TableInv, TasksTyped, StagesInOrder, FilesInv, TasksFit
<1>3. PICK f : f = FileAt(x.path)
  OBVIOUS
<1>4. PICK u : u = [x EXCEPT !.at = "resumed", !.file = f]
  OBVIOUS
<1>5. x.at = "lstat" /\ f # None /\ Done(t, u) /\ UNCHANGED <<names, files, handles>>
  BY <1>1, <1>3, <1>4 DEF DriverLstats, backing
<1>6. f \in 0 .. RootFile
  BY <1>2, <1>3, FileAtIs
<1>7. /\ u \in Task /\ u.op = x.op /\ u.at = "resumed" /\ u.path = x.path /\ u.from = x.from
      /\ u.page = x.page /\ u.nodes = x.nodes /\ u.owed = x.owed /\ u.file = f
      /\ u.handle = x.handle
  BY <1>2, <1>4, <1>6 DEF Task
<1>8. FileAt(x.path)' = f
  BY <1>3, <1>5 DEF FileAt
<1>9. TaskFit(u)'
  <2>1. (u.op = "create" /\ u.handle # None) =>
          (u.handle \in DOMAIN handles' /\ handles'[u.handle].file = f)
    BY <1>2, <1>3, <1>5, <1>7 DEF TaskFit
  <2> QED
    BY <1>7, <1>8, <2>1 DEF TaskFit
<1>10. HandlesLast /\ Used(u) \subseteq Used(x)
  BY <1>5, <1>7 DEF HandlesLast, Used
<1> QED
  BY <1>1, <1>5, <1>7, <1>9, <1>10, OpenIsKept, QuietDone

LEMMA ReachesFits ==
  ASSUME TableInv, FilesInv, NEW t \in Tasks, DriverReaches(t)
  PROVE  FilesInv'
<1>1. PICK u : u = Idle
  OBVIOUS
<1>2. tasks[t].op = "reach" /\ tasks[t].at = "driver" /\ Done(t, u)
      /\ UNCHANGED <<names, files, handles>>
  BY <1>1 DEF DriverReaches, Awaits, At, backing
<1>3. u \in Task /\ u.at = "idle" /\ u.owed = <<>> /\ u.op = "none"
  BY <1>1, IdleInOrder, IdleTask
<1>4. tasks[t].owed = <<>>
  BY <1>2 DEF TableInv, StagesInOrder, InOrder
<1>5. TaskFit(u)' /\ HandlesLast
  BY <1>2, <1>3 DEF TaskFit, HandlesLast
<1> QED
  BY <1>2, <1>3, <1>4, <1>5, OpenIsKept, QuietDone

LEMMA LstatsEntryFits ==
  ASSUME TableInv, FilesInv, NEW t \in Tasks, NEW p \in tasks[t].page, DriverLstatsEntry(t, p)
  PROVE  FilesInv'
<1>1. PICK x : x = tasks[t]
  OBVIOUS
<1>2. x \in Task /\ InOrder(x) /\ BackingTyped /\ x.page \in SUBSET Entries
  BY <1>1, TypesAre, TaskHas DEF TableInv, TasksTyped, StagesInOrder
<1>3. PICK f : f = FileAt(p)
  OBVIOUS
<1>4. PICK at \in {"page", "entry"} : at = IF f = None THEN "page" ELSE "entry"
  OBVIOUS
<1>5. PICK rest : rest = x.page \ {p}
  OBVIOUS
<1>6. PICK u : u = [x EXCEPT !.at = at, !.path = p, !.page = rest, !.file = f]
  OBVIOUS
<1>7. x.at = "page" /\ Done(t, u) /\ UNCHANGED <<names, files, handles>>
  BY <1>1, <1>3, <1>4, <1>5, <1>6 DEF DriverLstatsEntry, backing
<1>8. x.op = "readdir" /\ p \in Entries /\ p \in Paths /\ rest \in SUBSET Entries
  BY <1>1, <1>2, <1>5, <1>7 DEF InOrder, Entries
<1>9. f \in 0 .. RootFile
  BY <1>2, <1>3, <1>8, FileAtIs
<1>10. /\ u \in Task /\ u.op = x.op /\ u.at = at /\ u.path = p /\ u.from = x.from
       /\ u.page = rest /\ u.nodes = x.nodes /\ u.owed = x.owed /\ u.file = f
  BY <1>2, <1>6, <1>8, <1>9 DEF Task
<1>11. FileAt(p)' = f
  BY <1>3, <1>7 DEF FileAt
<1>12. TaskFit(u)'
  BY <1>8, <1>10, <1>11 DEF TaskFit
<1>13. HandlesLast /\ Used(u) \subseteq Used(x)
  BY <1>1, <1>5, <1>7, <1>10 DEF HandlesLast, Used
<1> QED
  BY <1>1, <1>7, <1>10, <1>12, <1>13, OpenIsKept, QuietDone

LEMMA MovedWhole ==
  ASSUME NEW from \in Seq(AllNames), NEW to \in Seq(AllNames)
  PROVE  Moved(from, from, to) = to
<1> DEFINE m == Moved(from, from, to)
<1>1. Inside(from, from) /\ Len(from) \in Nat /\ Len(to) \in Nat
  BY InsideOrder
<1>2. /\ m \in Seq(AllNames) /\ Len(m) = Len(to) + Len(from) - Len(from)
      /\ \A i \in 1 .. Len(to) : m[i] = to[i]
  BY <1>1, MovedIs
<1> HIDE DEF m
<1>3. Len(m) = Len(to)
  BY <1>1, <1>2
<1>4. m = to
  BY <1>2, <1>3, SeqEqual
<1> QED
  BY <1>4 DEF m

\* Where a rename takes a tracked path, the driver finds the same file.
LEMMA RenamedFollows ==
  ASSUME BackingTyped, UnderDirs, DirsOnce, NEW from \in Entries, NEW to \in Entries,
         from = to \/ ~(Inside(from, to) \/ Inside(to, from)),
         names' = Renamed(from, to), FileAt(from) # None,
         NEW p \in Paths, FileAt(p) # None, from = to \/ ~Inside(p, to),
         Inside(p, from) => Moved(p, from, to) \in Paths
  PROVE  FileAt(Moved(p, from, to))' = FileAt(p)
<1>1. /\ from \in Seq(AllNames) /\ to \in Seq(AllNames) /\ p \in Seq(AllNames)
      /\ from # Top /\ to # Top /\ ~Inside(Top, from) /\ ~Inside(Top, to)
      /\ FileAt(from) = names[from] /\ FileAt(to) = names[to]
  BY EntryIs, PathIsSeq
<1>2. CASE from = to
  <2>1. Moved(p, from, to) = p
    BY <1>1, <1>2, MovedNowhere DEF Moved
  <2>2. names' = names
    BY <1>2 DEF Renamed
  <2> QED
    BY <2>1, <2>2 DEF FileAt
<1>3. CASE from # to /\ FileAt(from) = FileAt(to)
  <2>1. names' = names
    BY <1>3 DEF Renamed
  <2>2. ~IsDir(names[from])
    BY <1>1, <1>3 DEF DirsOnce
  <2>3. CASE Inside(p, from)
    <3>1. p \in Entries /\ FileAt(p) = names[p]
      BY <1>1, <2>3, EntryIs DEF Entries
    <3>2. p = from
      BY <2>2, <2>3, <3>1 DEF UnderDirs
    <3>3. Moved(p, from, to) = to
      BY <1>1, <3>2, MovedWhole
    <3> QED
      BY <1>1, <1>3, <2>1, <3>2, <3>3 DEF FileAt
  <2>4. CASE ~Inside(p, from)
    BY <2>1, <2>4 DEF Moved, FileAt
  <2> QED
    BY <2>3, <2>4
<1>4. CASE from # to /\ FileAt(from) # FileAt(to)
  <2>1. ~Inside(p, to)
    BY <1>4
  <2>2. CASE Inside(p, from)
    <3> DEFINE m == Moved(p, from, to)
    <3>1. p \in Entries /\ FileAt(p) = names[p]
      BY <1>1, <2>2, EntryIs DEF Entries
    <3>2. m \in Paths /\ Inside(m, to)
      BY <1>1, <2>2, MovedInside
    <3>3. Moved(m, to, from) = p
      BY <1>1, <2>2, MovedBack
    <3> HIDE DEF m
    <3>4. m \in Entries /\ m # Top
      BY <1>1, <3>2 DEF Entries
    <3>5. names' = [q \in Entries |->
                      CASE Inside(q, to) -> IF Moved(q, to, from) \in Entries
                                            THEN names[Moved(q, to, from)] ELSE None
                        [] ~Inside(q, to) /\ Inside(q, from) -> None
                        [] OTHER -> names[q]]
      BY <1>4 DEF Renamed
    <3>6. names'[m] = names[p]
      BY <3>1, <3>2, <3>3, <3>4, <3>5
    <3>7. FileAt(m)' = FileAt(p)
      BY <3>1, <3>4, <3>6 DEF FileAt, m
    <3> QED
      BY <3>7 DEF m
  <2>3. CASE ~Inside(p, from)
    <3>1. Moved(p, from, to) = p
      BY <2>3 DEF Moved
    <3>2. CASE p = Top
      BY <3>1, <3>2 DEF FileAt
    <3>3. CASE p # Top
      <4>1. p \in Entries
        BY <3>3 DEF Entries
      <4>2. names'[p] = names[p]
        BY <1>4, <2>1, <2>3, <4>1, RenamedIs
      <4> QED
        BY <3>1, <4>2 DEF FileAt
    <3> QED
      BY <3>2, <3>3
  <2> QED
    BY <2>2, <2>3
<1> QED
  BY <1>2, <1>3, <1>4

LEMMA RenamesFits ==
  ASSUME TableInv, FilesInv, NEW t \in Tasks, DriverRenames(t)
  PROVE  FilesInv'
<1>1. PICK x : x = tasks[t]
  OBVIOUS
<1>2. x \in Task /\ InOrder(x) /\ BackingTyped
  BY <1>1, TypesAre DEF TableInv, TasksTyped, StagesInOrder
<1>3. PICK f : f = FileAt(x.path)
  OBVIOUS
<1>4. PICK u : u = [x EXCEPT !.at = "done", !.file = f]
  OBVIOUS
<1>5. /\ x.op = "rename" /\ x.at = "driver" /\ Done(t, u) /\ FitsUnder(x.from, x.path)
      /\ FileAt(x.from) # None /\ IsDir(FileAt(Parent(x.path)))
      /\ x.from = x.path \/ ~(Inside(x.from, x.path) \/ Inside(x.path, x.from))
      /\ names' = Renamed(x.from, x.path) /\ files' = files /\ handles' = handles
  BY <1>1, <1>3, <1>4 DEF DriverRenames, Awaits, At
<1>6. x.path \in Entries /\ x.path \in Paths /\ x.from \in Entries
  BY <1>2, <1>5, EntryIs DEF InOrder, Changing
<1>7. f \in 0 .. RootFile
  BY <1>2, <1>3, <1>6, FileAtIs
<1>8. /\ u \in Task /\ u.op = x.op /\ u.at = "done" /\ u.path = x.path /\ u.from = x.from
      /\ u.page = x.page /\ u.nodes = x.nodes /\ u.owed = x.owed /\ u.file = f
  BY <1>2, <1>4, <1>7 DEF Task
<1>9. tasks'[t] = u /\ \A s \in Tasks \ {t} : tasks'[s] = tasks[s]
  BY <1>5, <1>8, OneTaskMoves DEF TableInv, TypeOK, TasksTyped, Done
<1>10. Step(t, u) /\ Busy = {t} /\ UNCHANGED <<table, denotes>>
  <2>1. t \in Busy
    BY <1>1, <1>5 DEF Busy
  <2> QED
    BY <1>1, <1>5, <2>1 DEF Done, session, kernel, TableInv, RenamesAlone
<1>11. UnderDirs /\ DirsOnce /\ InosApart
  BY DEF FilesInv, TreeFits
<1>12. /\ UnderDirs' /\ DirsOnce'
       /\ \A g : (g # None /\ \E q \in Entries : names'[q] = g) => \E r \in Entries : names[r] = g
  BY <1>2, <1>5, <1>6, <1>11, RenamedFits
<1>13. TreeFits'
  <2>1. \A g \in DOMAIN files : (\E q \in Entries : names'[q] = g) => Kept(g)
    <3>1. None \notin DOMAIN files
      BY <1>2, DirIs
    <3> QED
      BY <1>12, <3>1 DEF Kept, Present
  <2>2. f \in DOMAIN files => Kept(f)
    BY <1>3, <1>6, EntryIs DEF Kept, Present
  <2>3. \A s \in Tasks : (tasks'[s].at = "done" /\ tasks'[s].file \in DOMAIN files)
                           => Kept(tasks'[s].file)
    BY <1>8, <1>9, <2>2 DEF Kept, Unheard, Busy
  <2>4. InosApart'
    BY <1>5, <1>11, <2>1, <2>3, OpenIsKept, KeptShrinks
  <2> QED
    BY <1>12, <2>4 DEF TreeFits
<1>14. \A n, g : IsFor(n, g)' <=> IsFor(n, g)
  BY <1>1, <1>8, <1>9, <1>10, ForSame
<1>15. ~RenameDone /\ RenameDone'
  <2>1. ~RenameDone
    BY <1>1, <1>5, <1>10, NoRename
  <2> QED
    BY <1>5, <1>8, <1>9, <2>1 DEF RenameDone, At
<1>16. RenamedHold'
  <2>1. ASSUME NEW s \in Tasks, At(s, "rename", "done")'
        PROVE  s = t
    <3>1. s # t => s \in Busy
      BY <1>9, <2>1 DEF At, Busy
    <3> QED
      BY <1>10, <3>1
  <2>2. ASSUME NEW p \in Paths, table.byPath[p] # None, x.from = x.path \/ ~Inside(p, x.path)
        PROVE  IsFor(table.byPath[p], FileAt(Moved(p, x.from, x.path)))'
    <3>1. PICK n : n = table.byPath[p]
      OBVIOUS
    <3>2. PICK g : g = FileAt(p)
      OBVIOUS
    <3>3. ~GoneFrom(p, n)
      BY <1>1, <1>5, <1>10 DEF GoneFrom, At, Busy
    <3>4. IsFor(n, g)
      BY <1>15, <2>2, <3>1, <3>2, <3>3 DEF FilesInv, NamesHold
    <3>5. g # None
      <4>1. n \in Nodeids
        BY <2>2, <3>1, TableParts DEF TableInv, TableOK, PathsAgree
      <4>2. g = RootFile \/ g \in DOMAIN files
        BY <3>4, <4>1 DEF FilesInv, KernelFits, ForFiles
      <4> QED
        BY <1>2, <4>2, DirIs
    <3>6. Inside(p, x.from) => Moved(p, x.from, x.path) \in Paths
      <4>1. ASSUME Inside(p, x.from)
            PROVE  p \in Entries
        BY <1>6, <4>1, EntryIs DEF Entries
      <4> QED
        BY <1>5, <2>2, <4>1 DEF FitsUnder
    <3>7. FileAt(Moved(p, x.from, x.path))' = g
      BY <1>2, <1>5, <1>6, <1>11, <2>2, <3>2, <3>5, <3>6, RenamedFollows
    <3>8. IsFor(n, g)'
      BY <1>14, <3>4
    <3> QED
      BY <1>10, <3>1, <3>7, <3>8 DEF IsFor
  <2>3. Follows(u)'
    BY <1>8, <1>10, <2>2 DEF Follows
  <2> QED
    BY <1>9, <2>1, <2>3 DEF RenamedHold, Follows
<1>17. NamesHold'
  BY <1>15 DEF NamesHold
<1>18. TaskFit(u)'
  BY <1>5, <1>8 DEF TaskFit
<1>19. HandlesLast /\ Used(u) \subseteq Used(x)
  BY <1>5, <1>8 DEF HandlesLast, Used
<1>20. \A s \in Busy \ {t} : FileAt(tasks[s].path)' = FileAt(tasks[s].path)
  BY <1>10
<1> QED
  BY <1>1, <1>5, <1>8, <1>13, <1>16, <1>17, <1>18, <1>19, <1>20, DoneFits

LEMMA DriverActsFits ==
  ASSUME TableInv, FilesInv, Orderly, NEW t \in Tasks, DriverActs(t)
  PROVE  FilesInv'
BY MakesFits, CreatesFits, OpensFits, LinksFits, RemovesFits, RenamesFits, LstatsFits,
   ReachesFits, LstatsEntryFits DEF DriverActs

-----------------------------------------------------------------------------
(* The handlers' continuations                                              *)

LEMMA ContinuesFits ==
  ASSUME TableInv, FilesInv, NEW t \in Tasks, tasks[t].at # "idle", NEW u \in Task, Step(t, u),
         u.at # "done",
         \/ u.at = "idle"
         \/ u.op = tasks[t].op /\ u.nodes = tasks[t].nodes /\ Used(u) \subseteq Used(tasks[t]),
         UNCHANGED <<names, files, driver, destroyed>>, TaskFit(u)', HandlesLast,
         \A h \in DOMAIN handles' :
           (handles'[h].closed = 0 /\ handles'[h].file \in DOMAIN files) => Kept(handles'[h].file),
         \A n \in Nodeids : denotes[n] \subseteq denotes'[n] /\ (Known(n) => Known(n)'),
         \A o \in opens' :
           o \in opens \/ (Known(o.node)' /\ (o.handle # None => HandleFor(o.handle, o.node)')),
         KernelFits', NamesHold'
  PROVE  FilesInv'
<1>1. TreeFits'
  BY TreeSame
<1>2. RenamedHold'
  BY NoRenameAfter, NoneRenamed
<1>3. \A s \in Busy \ {t} : FileAt(tasks[s].path)' = FileAt(tasks[s].path)
  <2>1. \A s \in Busy \ {t} : tasks'[s] = tasks[s]
    BY OneTaskMoves DEF TableInv, TypeOK, TasksTyped, Busy
  <2> QED
    BY <2>1 DEF FileAt
<1>4. TasksFit' /\ OpensFit' /\ Separate' /\ NoneAfter' /\ PinnedHeld'
  BY <1>3, StepFits
<1> QED
  BY <1>1, <1>2, <1>4 DEF FilesInv

\* The table as it was, or with the paths of some inodes gone.
LEMMA NamesStay ==
  ASSUME TableInv, FilesInv, NEW t \in Tasks, tasks[t].at # "idle", NEW u \in Task, Step(t, u),
         u.op # "rename" \/ u.at # "done", tasks[t].op # "rename" \/ tasks[t].at # "done",
         names' = names, \A n \in Nodeids : \A f : IsFor(n, f) => IsFor(n, f)',
         \A p \in Paths : table'.byPath[p] # None => table'.byPath[p] = table.byPath[p],
         At(t, "remove", "done") => table'.byPath[tasks[t].path] = None
  PROVE  NamesHold'
<1>1. tasks'[t] = u /\ (\A s \in Tasks \ {t} : tasks'[s] = tasks[s]) /\ t \in Busy
  BY OneTaskMoves DEF TableInv, TypeOK, TasksTyped, Busy
<1>2. ~RenameDone /\ ~RenameDone'
  BY <1>1, NoRename, NoRenameAfter
<1>3. \A p : FileAt(p)' = FileAt(p)
  BY DEF FileAt
<1>4. ASSUME NEW p \in Paths, table'.byPath[p] # None
      PROVE  /\ table'.byPath[p] = table.byPath[p] /\ FileAt(p)' = FileAt(p)
             /\ \A f : IsFor(table.byPath[p], f) => IsFor(table.byPath[p], f)'
             /\ \A s \in Tasks : (At(s, "remove", "done") /\ tasks[s].path = p)
                                   => tasks'[s] = tasks[s]
  <2>1. table'.byPath[p] = table.byPath[p]
    BY <1>4
  <2>2. PICK n : n = table.byPath[p]
    OBVIOUS
  <2>3. n \in Nodeids
    BY <1>4, <2>1, <2>2, TableParts DEF TableInv, TableOK, PathsAgree
  <2>4. \A f : IsFor(n, f) => IsFor(n, f)'
    BY <2>3
  <2>5. \A f : IsFor(n, f) => IsFor(table.byPath[p], f)'
    BY <2>1, <2>2, <2>4 DEF IsFor
  <2> QED
    BY <1>1, <1>3, <1>4, <2>1, <2>2, <2>5
<1> QED
  BY <1>2, <1>4, NamesKept DEF FilesInv

\* A lookup finds a nodeid that is for this file or for none yet.
LEMMA BoundToItsFile ==
  ASSUME TableInv, FilesInv, Orderly, NEW t \in Tasks, tasks[t].at \in {"resumed", "entry"},
         CanBind(table, tasks[t].path, KeyOf(tasks[t].file))
  PROVE  LET n == BoundTo(table, tasks[t].path, KeyOf(tasks[t].file))
         IN \A g : IsFor(n, g) => g = tasks[t].file
<1>1. PICK x : x = tasks[t]
  OBVIOUS
<1>2. x \in Task /\ InOrder(x) /\ BackingTyped /\ TaskFit(x)
  BY <1>1, TypesAre DEF TableInv, TasksTyped, StagesInOrder, FilesInv, TasksFit
<1>3. PICK p : p = x.path
  OBVIOUS
<1>4. PICK f : f = x.file
  OBVIOUS
<1>5. PICK key : key = KeyOf(f)
  OBVIOUS
<1>6. PICK n : n = BoundTo(table, p, key)
  OBVIOUS
<1>7. p \in Entries /\ f \in DOMAIN files /\ FileAt(p) = f /\ names[p] = f /\ t \in Busy
  <2>1. p \in Entries /\ f \in DOMAIN files
    BY <1>1, <1>2, <1>3, <1>4 DEF InOrder, Changing
  <2>2. FileAt(p) = f
    BY <1>1, <1>2, <1>3, <1>4 DEF TaskFit
  <2> QED
    BY <2>1, <2>2, EntryIs DEF Busy
<1>8. Kept(f)
  BY <1>7 DEF Kept, Present
<1>9. ~RenameDone /\ ~destroyed
  BY <1>7, NoRename DEF FilesInv, NoneAfter
<1>10. ~GoneFrom(p, n)
  BY <1>1, <1>3, <1>7, NotGone DEF Used
<1>11. TableOK(table) /\ table.live \subseteq Nodeids /\ CanBind(table, p, key) /\ p \in Paths
  BY <1>1, <1>3, <1>4, <1>5, <1>7, EntryIs, TableParts DEF TableInv, TableOK
<1>12. key \in Inos \cup {NoKey} /\ (key # NoKey => (driver.inos /\ key = files[f].ino))
  <2>1. files[f].ino \in Inos
    <3> DEFINE R == [ino : Inos, dir : BOOLEAN]
    <3>1. files \in Seq(R)
      BY <1>2 DEF BackingTyped
    <3> HIDE DEF R
    <3>2. files[f] \in R
      BY <1>7, <3>1
    <3> QED
      BY <3>2 DEF R
  <2> QED
    BY <1>5, <2>1 DEF KeyOf
<1>13. n \in Nodeids \ {Root}
  BY <1>6, <1>7, <1>11, <1>12, BoundIs DEF Entries
<1>14. ASSUME NEW g, IsFor(n, g)
       PROVE  g = f
  <2>1. n \in table.live
    BY <1>9, <1>13, <1>14, ForIsLive DEF FilesInv, KernelFits
  <2>2. g \in DOMAIN files /\ table.inodes[n].key = KeyOf(g)
    BY <1>13, <1>14, <2>1 DEF FilesInv, KernelFits, ForFiles, KeysFit
  <2>3. CASE key # NoKey /\ table.byKey[key] # None
    <3>1. n = table.byKey[key]
      BY <1>6, <2>3 DEF BoundTo
    <3>2. key \in Inos
      BY <1>12, <2>3
    <3>3. table.inodes[n].key = key /\ Tracked(table, n) # {}
      BY <1>11, <2>1, <3>1, <3>2 DEF TableOK, KeysAgree
    <3>4. files[g].ino = files[f].ino
      BY <1>12, <2>2, <2>3, <3>3 DEF KeyOf
    <3>5. Kept(g)
      <4>1. PICK q \in Tracked(table, n) : TRUE
        BY <3>3
      <4>2. q \in Paths
        BY <1>11, <1>13, TrackedTyped DEF TableOK
      <4>3. table.byPath[q] = n /\ n # None
        BY <1>11, <1>13, <2>1, <4>1, <4>2, Constants DEF TableOK, PathsAgree
      <4>4. IsFor(n, FileAt(q)) \/ GoneFrom(q, n)
        BY <1>9, <4>2, <4>3 DEF FilesInv, NamesHold
      <4>5. CASE IsFor(n, FileAt(q))
        <5>1. FileAt(q) = g
          BY <1>13, <1>14, <4>5 DEF FilesInv, KernelFits, OneFile
        <5>2. q # Top
          BY <1>2, <2>2, <5>1, DirIs DEF FileAt
        <5>3. q \in Entries /\ names[q] = g
          BY <4>2, <5>1, <5>2 DEF Entries, FileAt
        <5> QED
          BY <2>2, <5>3 DEF Kept, Present
      <4>6. CASE GoneFrom(q, n)
        <5>1. PICK s \in Tasks : At(s, "remove", "done") /\ IsFor(n, tasks[s].file)
          BY <4>6 DEF GoneFrom
        <5>2. tasks[s].file = g
          BY <1>13, <1>14, <5>1 DEF FilesInv, KernelFits, OneFile
        <5> QED
          BY <2>2, <5>1, <5>2 DEF Kept, Unheard, Busy, At
      <4> QED
        BY <4>4, <4>5, <4>6
    <3> QED
      BY <1>8, <3>4, <3>5 DEF FilesInv, TreeFits, InosApart
  <2>4. CASE ~(key # NoKey /\ table.byKey[key] # None)
    <3>1. n = table.byPath[p] /\ table.byPath[p] # None
      <4>1. CASE SameFile(table, p, key)
        <5>1. n = table.byPath[p]
          BY <1>6, <2>4, <4>1 DEF BoundTo
        <5> QED
          BY <4>1, <5>1 DEF SameFile
      <4>2. CASE ~SameFile(table, p, key)
        <5>1. n = table.next
          BY <1>6, <2>4, <4>2 DEF BoundTo
        <5>2. n \notin table.live
          <6>1. n >= table.next
            BY <1>13, <5>1 DEF Nodeids
          <6> QED
            BY <1>11, <1>13, <6>1 DEF TableOK, Blank
        <5> QED
          BY <2>1, <5>2
      <4> QED
        BY <4>1, <4>2
    <3>2. IsFor(n, f)
      BY <1>7, <1>9, <1>10, <1>11, <3>1 DEF FilesInv, NamesHold
    <3> QED
      BY <1>13, <1>14, <3>2 DEF FilesInv, KernelFits, OneFile
  <2> QED
    BY <2>3, <2>4
<1> QED
  BY <1>1, <1>3, <1>4, <1>5, <1>6, <1>14

\* A lookup of a path, its nodeid handed out or owed for the file there.
LEMMA ReplyFits ==
  ASSUME TableInv, FilesInv, Orderly, NEW t \in Tasks, tasks[t].at \in {"resumed", "entry"},
         CanBind(table, tasks[t].path, KeyOf(tasks[t].file)),
         NEW n, n = BoundTo(table, tasks[t].path, KeyOf(tasks[t].file)),
         table' = Acquire(Bind(table, tasks[t].path, KeyOf(tasks[t].file)), n),
         NEW u \in Task, Step(t, u), u.at # "done", UNCHANGED <<names, files, driver>>,
         \A m \in Nodeids : \A g : IsFor(m, g)' <=> (IsFor(m, g) \/ (m = n /\ g = tasks[t].file)),
         HeldFor'
  PROVE  KernelFits' /\ NamesHold'
<1>1. PICK x : x = tasks[t]
  OBVIOUS
<1>2. PICK p : p = x.path
  OBVIOUS
<1>3. PICK f : f = x.file
  OBVIOUS
<1>4. p \in Entries /\ f \in DOMAIN files /\ FileAt(p) = f /\ p \in Paths
  <2>1. InOrder(x) /\ TaskFit(x)
    BY <1>1 DEF TableInv, StagesInOrder, FilesInv, TasksFit
  <2>2. p \in Entries /\ f \in DOMAIN files
    BY <1>1, <1>2, <1>3, <2>1 DEF InOrder, Changing
  <2>3. FileAt(p) = f
    BY <1>1, <1>2, <1>3, <2>1 DEF TaskFit
  <2> QED
    BY <2>2, <2>3 DEF Entries
<1>5. /\ TableOK(table') /\ n \in Nodeids \ {Root} /\ table'.live = table.live \cup {n}
      /\ table'.inodes[n].key = KeyOf(f)
      /\ \A m \in Nodeids \ {n} : table'.inodes[m].key = table.inodes[m].key
      /\ \A q \in Paths : table'.byPath[q] = IF q = p THEN n ELSE table.byPath[q]
  BY <1>1, <1>2, <1>3, <1>4, ReplyAgrees
<1>6. \A g : IsFor(n, g) => g = f
  BY <1>1, <1>3, BoundToItsFile
<1>7. \A m \in Nodeids : \A g : IsFor(m, g)' <=> (IsFor(m, g) \/ (m = n /\ g = f))
  BY <1>1, <1>3
<1>8. KernelFits'
  BY <1>4, <1>5, <1>6, <1>7, KernelBinds DEF FilesInv
<1>9. t \in Busy /\ ~RenameDone
  BY NoRename DEF Busy
<1>10. \A q : FileAt(q)' = FileAt(q)
  BY DEF FileAt
<1>11. \A s \in Tasks : At(s, "remove", "done") => tasks'[s] = tasks[s]
  BY OneTaskMoves DEF TableInv, TypeOK, TasksTyped, At
<1>12. ASSUME NEW q \in Paths, table'.byPath[q] # None
       PROVE  \/ IsFor(table.byPath[q], FileAt(q))'
              \/ /\ table'.byPath[q] = table.byPath[q] /\ FileAt(q)' = FileAt(q)
                 /\ \A g : IsFor(table.byPath[q], g) => IsFor(table.byPath[q], g)'
                 /\ \A s \in Tasks : (At(s, "remove", "done") /\ tasks[s].path = q)
                                       => tasks'[s] = tasks[s]
  <2>1. CASE q = p
    <3>1. IsFor(n, f)'
      BY <1>5, <1>7
    <3>2. table'.byPath[q] = n /\ FileAt(q)' = f
      BY <1>4, <1>5, <1>10, <2>1
    <3> QED
      BY <3>1, <3>2 DEF IsFor
  <2>2. CASE q # p
    <3>1. PICK m : m = table.byPath[q]
      OBVIOUS
    <3>2. table'.byPath[q] = m
      BY <1>5, <2>2, <3>1
    <3>3. m \in Nodeids
      BY <1>12, <3>1, <3>2, TableParts DEF TableInv, TableOK, PathsAgree
    <3>4. \A g : IsFor(m, g) => IsFor(m, g)'
      BY <1>7, <3>3
    <3>5. \A g : IsFor(table.byPath[q], g) => IsFor(table.byPath[q], g)'
      BY <3>1, <3>2, <3>4 DEF IsFor
    <3> QED
      BY <1>10, <1>11, <3>1, <3>2, <3>5
  <2> QED
    BY <2>1, <2>2
<1>13. NamesHold'
  BY <1>9, <1>12, NamesKept DEF FilesInv
<1> QED
  BY <1>8, <1>13

LEMMA BindsEntryFits ==
  ASSUME TableInv, FilesInv, Orderly, NEW t \in Tasks, BindsEntry(t)
  PROVE  FilesInv'
<1>0. PICK x : x = tasks[t]
  OBVIOUS
<1>1. x \in Task /\ InOrder(x) /\ TaskFit(x) /\ KernelTyped /\ BackingTyped
  BY <1>0, TypesAre DEF TableInv, TasksTyped, StagesInOrder, FilesInv, TasksFit
<1>2. PICK n : n = BoundTo(table, x.path, KeyOf(x.file))
  OBVIOUS
<1>3. /\ x.at = "resumed" /\ CanBind(table, x.path, KeyOf(x.file))
      /\ table' = Acquire(Bind(table, x.path, KeyOf(x.file)), n)
      /\ held' = [held EXCEPT ![n] = @ + 1]
      /\ denotes' = [denotes EXCEPT ![n] = @ \cup {x.file}]
      /\ Step(t, Idle)
  BY <1>0, <1>2 DEF BindsEntry, HandOut
<1>4. (x.op = "create" /\ AddFile(n, x.handle)) \/ opens' = opens
  BY <1>0, <1>2 DEF BindsEntry
<1>5. UNCHANGED <<names, files, handles, driver, destroyed>>
  BY DEF BindsEntry, backing, teardown
<1>6. x.path \in Entries /\ x.file \in DOMAIN files /\ x.owed = <<>>
      /\ FileAt(x.path) = x.file
  BY <1>1, <1>3 DEF InOrder, Changing, TaskFit
<1>7. n \in Nodeids \ {Root}
  BY <1>2, <1>3, <1>6, ReplyAgrees
<1>8. PICK u : u = Idle
  OBVIOUS
<1>9. u \in Task /\ u.at = "idle" /\ u.owed = <<>> /\ Step(t, u) /\ TaskFit(u)'
  BY <1>3, <1>8, IdleInOrder, IdleTask DEF TaskFit
<1>10. /\ \A m \in Nodeids : held'[m] = IF m = n THEN held[m] + 1 ELSE held[m]
       /\ \A m \in Nodeids : denotes'[m] = IF m = n THEN denotes[m] \cup {x.file} ELSE denotes[m]
       /\ \A m \in Nodeids : held[m] \in Nat
  BY <1>1, <1>3 DEF KernelTyped
<1>11. \A s \in Tasks : tasks'[s].owed = tasks[s].owed
  BY <1>0, <1>6, <1>9, OneTaskMoves DEF TableInv, TypeOK, TasksTyped
<1>12. \A m \in Nodeids : \A g : IsFor(m, g)' <=> (IsFor(m, g) \/ (m = n /\ g = x.file))
  <2> TAKE m \in Nodeids
  <2> TAKE g
  <2>1. \A s \in Tasks : OwedFor(tasks[s], m, g)' <=> OwedFor(tasks[s], m, g)
    BY <1>11 DEF OwedFor
  <2>2. g \in denotes'[m] <=> (g \in denotes[m] \/ (m = n /\ g = x.file))
    BY <1>10
  <2> QED
    BY <2>1, <2>2 DEF IsFor
<1>13. HeldFor'
  <2>1. ASSUME NEW m \in Nodeids
        PROVE  Known(m)' <=> denotes'[m] # {}
    <3>1. Known(m) <=> denotes[m] # {}
      BY DEF FilesInv, KernelFits, HeldFor
    <3>2. CASE m = n
      <4>1. held'[m] > 0
        BY <1>10, <3>2
      <4>2. x.file \in denotes'[m]
        BY <1>10, <3>2
      <4>3. denotes'[m] # {}
        BY <4>2
      <4>4. Known(m)'
        BY <4>1 DEF Known
      <4> QED
        BY <4>3, <4>4
    <3>3. CASE m # n
      <4>1. held'[m] = held[m] /\ denotes'[m] = denotes[m]
        BY <1>10, <3>3
      <4> QED
        BY <3>1, <4>1 DEF Known
    <3> QED
      BY <3>2, <3>3
  <2> QED
    BY <2>1 DEF HeldFor
<1>14. KernelFits' /\ NamesHold'
  <2>1. /\ tasks[t].at \in {"resumed", "entry"} /\ n = BoundTo(table, tasks[t].path, KeyOf(tasks[t].file))
        /\ CanBind(table, tasks[t].path, KeyOf(tasks[t].file)) /\ u.at # "done"
        /\ table' = Acquire(Bind(table, tasks[t].path, KeyOf(tasks[t].file)), n)
        /\ \A m \in Nodeids : \A g :
             IsFor(m, g)' <=> (IsFor(m, g) \/ (m = n /\ g = tasks[t].file))
    BY <1>0, <1>2, <1>3, <1>9, <1>12
  <2> QED
    BY <1>5, <1>9, <1>13, <2>1, ReplyFits
<1>15. HandlesLast
  BY <1>5 DEF HandlesLast
<1>16. \A h \in DOMAIN handles' :
         (handles'[h].closed = 0 /\ handles'[h].file \in DOMAIN files) => Kept(handles'[h].file)
  BY <1>5 DEF Kept, Present
<1>17. \A m \in Nodeids : denotes[m] \subseteq denotes'[m] /\ (Known(m) => Known(m)')
  <2>1. ASSUME NEW m \in Nodeids
        PROVE  denotes[m] \subseteq denotes'[m] /\ (held[m] > 0 => held'[m] > 0)
    <3>1. denotes[m] \subseteq denotes'[m]
      BY <1>10
    <3>2. held'[m] = held[m] \/ held'[m] = held[m] + 1
      BY <1>10
    <3>3. held[m] \in Nat
      BY <1>10
    <3> QED
      BY <3>1, <3>2, <3>3
  <2> QED
    BY <2>1 DEF Known
<1>18. ASSUME NEW o \in opens', o \notin opens
       PROVE  Known(o.node)' /\ (o.handle # None => HandleFor(o.handle, o.node)')
  <2>1. x.op = "create" /\ o = [fh |-> nextFh, node |-> n, handle |-> x.handle]
    BY <1>4, <1>18 DEF AddFile
  <2>2. o.node = n /\ o.handle = x.handle
    BY <2>1
  <2>3. Known(n)'
    BY <1>7, <1>10 DEF Known
  <2>4. ASSUME x.handle # None
        PROVE  x.handle \in DOMAIN handles' /\ handles'[x.handle].file \in denotes'[n]
    <3>1. x.handle \in DOMAIN handles /\ handles[x.handle].file = x.file
      BY <1>1, <1>3, <1>6, <2>1, <2>4 DEF TaskFit
    <3>2. x.file \in denotes'[n]
      BY <1>7, <1>10
    <3> QED
      BY <1>5, <3>1, <3>2
  <2> QED
    BY <2>2, <2>3, <2>4 DEF Known, HandleFor
<1>19. tasks[t].at # "idle" /\ u.at # "done"
  BY <1>0, <1>3, <1>9
<1> QED
  BY <1>5, <1>9, <1>14, <1>15, <1>16, <1>17, <1>18, <1>19, ContinuesFits

LEMMA EntryBoundFits ==
  ASSUME TableInv, FilesInv, Orderly, NEW t \in Tasks, EntryBound(t)
  PROVE  FilesInv'
<1>0. PICK x : x = tasks[t]
  OBVIOUS
<1>1. x \in Task /\ InOrder(x) /\ TaskFit(x) /\ x.owed \in Seq(Owed1) /\ BackingTyped
  <2>1. x \in Task /\ BackingTyped
    BY <1>0, TypesAre DEF TableInv, TasksTyped
  <2> QED
    BY <1>0, <2>1, TaskHas DEF TableInv, StagesInOrder, FilesInv, TasksFit
<1>2. PICK n : n = BoundTo(table, x.path, KeyOf(x.file))
  OBVIOUS
<1>3. PICK e : e = [node |-> n, file |-> x.file]
  OBVIOUS
<1>4. PICK more : more = Append(x.owed, e)
  OBVIOUS
<1>5. PICK u : u = [x EXCEPT !.at = "page", !.owed = more]
  OBVIOUS
<1>6. /\ x.at = "entry" /\ CanBind(table, x.path, KeyOf(x.file))
      /\ table' = Acquire(Bind(table, x.path, KeyOf(x.file)), n)
      /\ Step(t, u)
  BY <1>0, <1>2, <1>3, <1>4, <1>5 DEF EntryBound
<1>7. UNCHANGED <<names, files, handles, driver, destroyed, opens, held, denotes>>
  BY DEF EntryBound, backing, teardown, kernel
<1>8. x.op = "readdir" /\ x.path \in Entries /\ x.file \in DOMAIN files
  BY <1>1, <1>6 DEF InOrder, Changing
<1>9. n \in Nodeids \ {Root}
  BY <1>2, <1>6, <1>8, ReplyAgrees
<1>10. e \in Owed1 /\ e.node = n /\ e.file = x.file
  <2>1. DOMAIN files \subseteq Files
    BY <1>1, Constants, FileAtIs
  <2> QED
    BY <1>3, <1>8, <1>9, <2>1 DEF Owed1
<1>11. /\ more \in Seq(Owed1) /\ DOMAIN more = DOMAIN x.owed \cup {Len(x.owed) + 1}
       /\ more[Len(x.owed) + 1] = e /\ \A i \in DOMAIN x.owed : more[i] = x.owed[i]
  BY <1>1, <1>4, <1>10
<1>12. /\ u \in Task /\ u.op = x.op /\ u.at = "page" /\ u.owed = more /\ u.nodes = x.nodes
       /\ u.path = x.path /\ u.from = x.from /\ u.page = x.page
  BY <1>1, <1>5, <1>8, <1>11 DEF Task, Owed1
<1>13. tasks'[t].owed = more /\ \A s \in Tasks \ {t} : tasks'[s].owed = tasks[s].owed
  BY <1>6, <1>12, OneTaskMoves DEF TableInv, TypeOK, TasksTyped
<1>14. \A m \in Nodeids : \A g : IsFor(m, g)' <=> (IsFor(m, g) \/ (m = n /\ g = x.file))
  <2> TAKE m \in Nodeids
  <2> TAKE g
  <2>1. OwedFor(tasks[t], m, g)' <=> (OwedFor(tasks[t], m, g) \/ (m = n /\ g = x.file))
    BY <1>0, <1>10, <1>11, <1>13 DEF OwedFor
  <2>2. \A s \in Tasks \ {t} : OwedFor(tasks[s], m, g)' <=> OwedFor(tasks[s], m, g)
    BY <1>13 DEF OwedFor
  <2> QED
    BY <1>7, <2>1, <2>2 DEF IsFor
<1>15. HeldFor'
  BY <1>7 DEF FilesInv, KernelFits, HeldFor, Known
<1>16. KernelFits' /\ NamesHold'
  <2>1. /\ tasks[t].at \in {"resumed", "entry"} /\ n = BoundTo(table, tasks[t].path, KeyOf(tasks[t].file))
        /\ CanBind(table, tasks[t].path, KeyOf(tasks[t].file)) /\ u.at # "done"
        /\ table' = Acquire(Bind(table, tasks[t].path, KeyOf(tasks[t].file)), n)
        /\ \A m \in Nodeids : \A g :
             IsFor(m, g)' <=> (IsFor(m, g) \/ (m = n /\ g = tasks[t].file))
    BY <1>0, <1>2, <1>6, <1>12, <1>14
  <2> QED
    BY <1>6, <1>7, <1>12, <1>15, <2>1, ReplyFits
<1>17. HandlesLast
  BY <1>7 DEF HandlesLast
<1>18. \A h \in DOMAIN handles' :
         (handles'[h].closed = 0 /\ handles'[h].file \in DOMAIN files) => Kept(handles'[h].file)
  BY <1>7 DEF Kept, Present
<1>19. \A m \in Nodeids : denotes[m] \subseteq denotes'[m] /\ (Known(m) => Known(m)')
  BY <1>7 DEF Known
<1>20. TaskFit(u)'
  BY <1>8, <1>12 DEF TaskFit
<1>21. /\ tasks[t].at # "idle" /\ u.at # "done" /\ u.op = tasks[t].op /\ u.nodes = tasks[t].nodes
       /\ Used(u) \subseteq Used(tasks[t])
  BY <1>0, <1>6, <1>12 DEF Used
<1>22. \A o \in opens' : o \in opens
  BY <1>7
<1> QED
  BY <1>6, <1>7, <1>12, <1>16, <1>17, <1>18, <1>19, <1>20, <1>21, <1>22, ContinuesFits

\* The lookups of a page go out together.
LEMMA PageEndsFits ==
  ASSUME TableInv, FilesInv, NEW t \in Tasks, PageEnds(t)
  PROVE  FilesInv'
<1>0. PICK x : x = tasks[t]
  OBVIOUS
<1>1. x \in Task /\ x.owed \in Seq(Owed1) /\ KernelTyped
  <2>1. x \in Task /\ KernelTyped
    BY <1>0, TypesAre DEF TableInv, TasksTyped
  <2> QED
    BY <2>1, TaskHas
<1>2. /\ x.at = "page" /\ Step(t, Idle)
      /\ held' = [n \in Nodeids |-> held[n] + Owed({t}, n)]
      /\ denotes' = [n \in Nodeids |->
                       denotes[n] \cup {e.file : e \in {e \in ToSet(x.owed) : e.node = n}}]
  BY <1>0 DEF PageEnds
<1>3. UNCHANGED <<table, opens, names, files, handles, driver, destroyed>>
  BY DEF PageEnds, session, backing, teardown
<1>4. PICK u : u = Idle
  OBVIOUS
<1>5. u \in Task /\ u.at = "idle" /\ u.owed = <<>> /\ Step(t, u) /\ TaskFit(u)'
  BY <1>2, <1>4, IdleInOrder, IdleTask DEF TaskFit
<1>6. tasks'[t].owed = <<>> /\ \A s \in Tasks \ {t} : tasks'[s].owed = tasks[s].owed
  BY <1>5, OneTaskMoves DEF TableInv, TypeOK, TasksTyped
<1>7. \A m \in Nodeids : \A g :
        g \in denotes'[m] <=> (g \in denotes[m] \/ OwedFor(tasks[t], m, g))
  <2> TAKE m \in Nodeids
  <2> TAKE g
  <2>1. denotes'[m] = denotes[m] \cup {e.file : e \in {e \in ToSet(x.owed) : e.node = m}}
    BY <1>2
  <2>2. ToSet(x.owed) = {x.owed[i] : i \in DOMAIN x.owed}
    BY DEF ToSet
  <2> QED
    BY <1>0, <2>1, <2>2 DEF OwedFor
<1>8. \A m \in Nodeids : \A g : IsFor(m, g)' <=> IsFor(m, g)
  <2> TAKE m \in Nodeids
  <2> TAKE g
  <2>1. ~OwedFor(tasks[t], m, g)'
    <3>1. DOMAIN tasks'[t].owed = {}
      BY <1>6
    <3> QED
      BY <3>1 DEF OwedFor
  <2>2. \A s \in Tasks \ {t} : OwedFor(tasks[s], m, g)' <=> OwedFor(tasks[s], m, g)
    BY <1>6 DEF OwedFor
  <2> QED
    BY <1>7, <2>1, <2>2 DEF IsFor
<1>9. ASSUME NEW m \in Nodeids
      PROVE  /\ held[m] \in Nat /\ held'[m] \in Nat /\ held'[m] >= held[m]
             /\ held'[m] > 0 <=> (held[m] > 0 \/ \E g : OwedFor(tasks[t], m, g))
  <2> DEFINE mine == Owing({t}, m)
  <2>1. \A o : o \in mine <=>
          \E i \in DOMAIN tasks[t].owed : o = <<t, i>> /\ tasks[t].owed[i].node = m
    BY OwingIs
  <2>2. \A o : o \in mine => o \in Owing(Tasks, m)
    BY <2>1, OwingIs
  <2>3. IsFiniteSet(mine)
    BY <2>2, FS_Subset DEF TableInv, OwedFinite
  <2>4. Cardinality(mine) \in Nat /\ (Cardinality(mine) = 0 <=> mine = {})
    BY <2>3, FS_CardinalityType, FS_EmptySet
  <2>5. mine # {} <=> \E g : OwedFor(tasks[t], m, g)
    <3>1. ASSUME NEW o \in mine
          PROVE  \E g : OwedFor(tasks[t], m, g)
      BY <2>1 DEF OwedFor
    <3>2. ASSUME NEW g, OwedFor(tasks[t], m, g)
          PROVE  mine # {}
      BY <2>1, <3>2 DEF OwedFor
    <3> QED
      BY <3>1, <3>2
  <2>6. held'[m] = held[m] + Cardinality(mine) /\ held[m] \in Nat
    BY <1>1, <1>2 DEF Owed, KernelTyped
  <2> HIDE DEF mine
  <2> QED
    BY <2>4, <2>5, <2>6
<1>10. HeldFor'
  <2>1. ASSUME NEW m \in Nodeids
        PROVE  Known(m)' <=> denotes'[m] # {}
    <3>1. Known(m) <=> denotes[m] # {}
      BY DEF FilesInv, KernelFits, HeldFor
    <3>2. denotes'[m] # {} <=> (denotes[m] # {} \/ \E g : OwedFor(tasks[t], m, g))
      BY <1>7
    <3>3. held'[m] > 0 <=> (held[m] > 0 \/ \E g : OwedFor(tasks[t], m, g))
      BY <1>9
    <3>4. (m = Root \/ held[m] > 0) <=> denotes[m] # {}
      BY <3>1 DEF Known
    <3>5. (m = Root \/ held'[m] > 0) <=> denotes'[m] # {}
      BY <3>2, <3>3, <3>4
    <3> QED
      BY <3>5 DEF Known
  <2> QED
    BY <2>1 DEF HeldFor
<1>11. IsFor(Root, RootFile)'
  <2>1. PICK r : r = RootFile
    OBVIOUS
  <2>2. IsFor(Root, r)
    BY <2>1 DEF FilesInv, KernelFits, ForFiles
  <2>3. IsFor(Root, r)'
    BY <1>8, <2>2, Constants
  <2> QED
    BY <2>1, <2>3 DEF IsFor
<1>12. KernelFits'
  <2>1. table.live \subseteq Nodeids /\ SameKeys(table, table')
    BY <1>3, TableParts DEF TableInv, TableOK, SameKeys
  <2> QED
    BY <1>3, <1>8, <1>10, <1>11, <2>1, KernelKept DEF FilesInv
<1>13. NamesHold'
  <2>1. tasks[t].at = "page" /\ ~At(t, "remove", "done")
    BY <1>0, <1>2 DEF At
  <2> QED
    BY <1>3, <1>5, <1>8, <2>1, NamesStay
<1>14. HandlesLast
  BY <1>3 DEF HandlesLast
<1>15. \A h \in DOMAIN handles' :
         (handles'[h].closed = 0 /\ handles'[h].file \in DOMAIN files) => Kept(handles'[h].file)
  BY <1>3 DEF Kept, Present
<1>16. \A m \in Nodeids : denotes[m] \subseteq denotes'[m] /\ (Known(m) => Known(m)')
  <2> TAKE m \in Nodeids
  <2>1. denotes[m] \subseteq denotes'[m]
    BY <1>7
  <2>2. held[m] > 0 => held'[m] > 0
    BY <1>9
  <2> QED
    BY <2>1, <2>2 DEF Known
<1> QED
  BY <1>0, <1>2, <1>3, <1>5, <1>12, <1>13, <1>14, <1>15, <1>16, ContinuesFits

\* An OPEN hands its handle over to the open file.
LEMMA OpenResumesFits ==
  ASSUME TableInv, HandlesInv, FilesInv, NEW t \in Tasks, OpenResumes(t)
  PROVE  FilesInv'
<1>0. PICK x : x = tasks[t]
  OBVIOUS
<1>1. x \in Task /\ x.nodes \subseteq Nodeids /\ TaskFit(x) /\ StageOK(x)
  <2>1. x \in Task
    BY <1>0, TypesAre DEF TableInv, TasksTyped
  <2> QED
    BY <1>0, <2>1, TaskHas DEF FilesInv, TasksFit, HandlesInv, TasksInOrder
<1>2. x.at = "opened" /\ Step(t, Idle) /\ x.op = "open"
  BY <1>0, <1>1 DEF OpenResumes, StageOK
<1>3. PICK n \in x.nodes : AddFile(n, x.handle)
  BY <1>0 DEF OpenResumes
<1>4. UNCHANGED <<table, names, files, handles, driver, destroyed, held, denotes>>
  BY DEF OpenResumes, backing, teardown, kernel
<1>5. PICK u : u = Idle
  OBVIOUS
<1>6. u \in Task /\ u.at = "idle" /\ u.owed = <<>> /\ Step(t, u) /\ TaskFit(u)'
  BY <1>2, <1>5, IdleInOrder, IdleTask DEF TaskFit
<1>7. \A s \in Tasks : tasks'[s].owed = tasks[s].owed
  <2>1. x.owed = <<>>
    BY <1>0, <1>2 DEF TableInv, StagesInOrder, InOrder
  <2> QED
    BY <1>0, <1>6, <2>1, OneTaskMoves DEF TableInv, TypeOK, TasksTyped
<1>8. \A m, g : IsFor(m, g)' <=> IsFor(m, g)
  BY <1>4, <1>7, ForSame
<1>9. KernelFits'
  <2>1. table.live \subseteq Nodeids /\ SameKeys(table, table')
    BY <1>4, TableParts DEF TableInv, TableOK, SameKeys
  <2> QED
    BY <1>4, <1>7, <2>1, KernelSame DEF FilesInv
<1>10. NamesHold'
  <2>1. tasks[t].at = "opened" /\ ~At(t, "remove", "done")
    BY <1>0, <1>2 DEF At
  <2> QED
    BY <1>4, <1>6, <1>8, <2>1, NamesStay
<1>11. HandlesLast
  BY <1>4 DEF HandlesLast
<1>12. \A h \in DOMAIN handles' :
         (handles'[h].closed = 0 /\ handles'[h].file \in DOMAIN files) => Kept(handles'[h].file)
  BY <1>4 DEF Kept, Present
<1>13. \A m \in Nodeids : denotes[m] \subseteq denotes'[m] /\ (Known(m) => Known(m)')
  BY <1>4 DEF Known
<1>14. ASSUME NEW o \in opens', o \notin opens
       PROVE  Known(o.node)' /\ (o.handle # None => HandleFor(o.handle, o.node)')
  <2>1. o = [fh |-> nextFh, node |-> n, handle |-> x.handle]
    BY <1>3, <1>14 DEF AddFile
  <2>2. o.node = n /\ o.handle = x.handle
    BY <2>1
  <2>3. Pinned(n)
    BY <1>0, <1>2, <1>3 DEF Pinned, Busy
  <2>4. Known(n)
    BY <1>1, <1>3, <2>3 DEF FilesInv, PinnedHeld
  <2>5. x.handle # None => HandleFor(x.handle, n)
    BY <1>1, <1>2, <1>3 DEF TaskFit
  <2> QED
    BY <1>4, <2>2, <2>4, <2>5 DEF Known, HandleFor
<1>15. tasks[t].at # "idle" /\ u.at # "done"
  BY <1>0, <1>2, <1>6
<1> QED
  BY <1>4, <1>6, <1>9, <1>10, <1>11, <1>12, <1>13, <1>14, <1>15, ContinuesFits

\* The request ends with its lookups as they were.
LEMMA EndsSame ==
  ASSUME TableInv, FilesInv, NEW t \in Tasks, tasks[t].at \notin {"idle", "page", "entry"},
         Step(t, Idle), UNCHANGED <<held, denotes, files, driver>>,
         table'.live \subseteq table.live, SameKeys(table, table')
  PROVE  /\ \A m, g : IsFor(m, g)' <=> IsFor(m, g)
         /\ KernelFits' /\ \A m \in Nodeids : denotes[m] \subseteq denotes'[m] /\ (Known(m) => Known(m)')
<1>1. PICK u : u = Idle
  OBVIOUS
<1>2. u \in Task /\ u.owed = <<>> /\ Step(t, u)
  BY <1>1, IdleInOrder, IdleTask
<1>3. \A s \in Tasks : tasks'[s].owed = tasks[s].owed
  <2>1. tasks[t].owed = <<>>
    BY DEF TableInv, StagesInOrder, InOrder
  <2> QED
    BY <1>2, <2>1, OneTaskMoves DEF TableInv, TypeOK, TasksTyped
<1>4. \A m, g : IsFor(m, g)' <=> IsFor(m, g)
  BY <1>3, ForSame
<1>5. KernelFits'
  <2>1. table.live \subseteq Nodeids
    BY TableParts DEF TableInv, TableOK
  <2> QED
    BY <1>3, <2>1, KernelSame DEF FilesInv
<1> QED
  BY <1>4, <1>5 DEF Known

\* An unlink's handler takes the path out of the table.
LEMMA RemoveResumesFits ==
  ASSUME TableInv, FilesInv, NEW t \in Tasks, RemoveResumes(t)
  PROVE  FilesInv'
<1>1. PICK p : p = tasks[t].path
  OBVIOUS
<1>2. /\ At(t, "remove", "done") /\ table' = Unbind(table, p) /\ Step(t, Idle)
      /\ UNCHANGED <<opens, names, files, handles, held, denotes, driver, destroyed>>
  BY <1>1 DEF RemoveResumes, backing, teardown, kernel
<1>3. p \in Paths \ {Top}
  BY <1>1, <1>2 DEF TableInv, StagesInOrder, InOrder, At, Changing, Entries
<1>4. /\ TableOK(table') /\ table'.live = table.live /\ SameKeys(table, table')
      /\ \A q \in Paths : table'.byPath[q] = IF q = p THEN None ELSE table.byPath[q]
  BY <1>2, <1>3, UnbindAgrees DEF TableInv, SameLookups
<1>5. PICK u : u = Idle
  OBVIOUS
<1>6. u \in Task /\ u.at = "idle" /\ Step(t, u) /\ TaskFit(u)'
  BY <1>2, <1>5, IdleInOrder, IdleTask DEF TaskFit
<1>7. /\ \A m, g : IsFor(m, g)' <=> IsFor(m, g)
      /\ KernelFits' /\ \A m \in Nodeids : denotes[m] \subseteq denotes'[m] /\ (Known(m) => Known(m)')
  BY <1>2, <1>4, EndsSame DEF At
<1>8. NamesHold'
  <2>1. tasks[t].at # "idle" /\ tasks[t].op # "rename" /\ u.at # "done"
    BY <1>2, <1>6 DEF At
  <2>2. \A q \in Paths : table'.byPath[q] # None => table'.byPath[q] = table.byPath[q]
    BY <1>4
  <2>3. table'.byPath[tasks[t].path] = None
    BY <1>1, <1>3, <1>4
  <2> QED
    BY <1>2, <1>6, <1>7, <2>1, <2>2, <2>3, NamesStay
<1>9. HandlesLast
  BY <1>2 DEF HandlesLast
<1>10. \A h \in DOMAIN handles' :
         (handles'[h].closed = 0 /\ handles'[h].file \in DOMAIN files) => Kept(handles'[h].file)
  BY <1>2 DEF Kept, Present
<1>11. tasks[t].at # "idle" /\ u.at # "done" /\ opens' = opens
  BY <1>2, <1>6 DEF At
<1> QED
  BY <1>2, <1>6, <1>7, <1>8, <1>9, <1>10, <1>11, ContinuesFits

\* A rename's handler follows it in the table.
LEMMA RenameResumesFits ==
  ASSUME TableInv, FilesInv, NEW t \in Tasks, RenameResumes(t)
  PROVE  FilesInv'
<1>1. PICK x : x = tasks[t]
  OBVIOUS
<1>2. /\ At(t, "rename", "done") /\ table' = Remap(table, x.from, x.path) /\ Step(t, Idle)
      /\ UNCHANGED <<opens, names, files, handles, held, denotes, driver, destroyed>>
  BY <1>1 DEF RenameResumes, backing, teardown, kernel
<1>3. x.from \in Paths \ {Top} /\ x.path \in Paths \ {Top} /\ LandsIn(x) /\ Follows(x)
  <2>1. LandsIn(x) /\ Follows(x)
    BY <1>1, <1>2 DEF TableInv, RenamesFit, FilesInv, RenamedHold
  <2> QED
    BY <1>1, <1>2, <2>1 DEF TableInv, StagesInOrder, InOrder, At, Changing, Entries
<1>4. /\ table'.live = table.live /\ SameKeys(table, table')
      /\ \A q \in Paths : table'.byPath[q] # None =>
           \E p \in Paths : /\ table.byPath[p] = table'.byPath[q] /\ q = Moved(p, x.from, x.path)
                            /\ x.from = x.path \/ ~Inside(p, x.path)
  BY <1>2, <1>3, RemapAgrees DEF TableInv, SameLookups, LandsIn
<1>5. PICK u : u = Idle
  OBVIOUS
<1>6. u \in Task /\ u.at = "idle" /\ Step(t, u) /\ TaskFit(u)'
  BY <1>2, <1>5, IdleInOrder, IdleTask DEF TaskFit
<1>7. /\ \A m, g : IsFor(m, g)' <=> IsFor(m, g)
      /\ KernelFits' /\ \A m \in Nodeids : denotes[m] \subseteq denotes'[m] /\ (Known(m) => Known(m)')
  BY <1>2, <1>4, EndsSame DEF At
<1>8. NamesHold'
  <2>1. ASSUME NEW q \in Paths, table'.byPath[q] # None
        PROVE  IsFor(table.byPath[q], FileAt(q))'
    <3>1. PICK p \in Paths : /\ table.byPath[p] = table'.byPath[q] /\ q = Moved(p, x.from, x.path)
                             /\ x.from = x.path \/ ~Inside(p, x.path)
      BY <1>4, <2>1
    <3>2. PICK n : n = table.byPath[p]
      OBVIOUS
    <3>3. PICK f : f = FileAt(q)
      OBVIOUS
    <3>4. IsFor(n, f)
      BY <1>3, <2>1, <3>1, <3>2, <3>3 DEF Follows
    <3>5. IsFor(n, f)' /\ table'.byPath[q] = n /\ FileAt(q)' = f
      BY <1>2, <1>7, <3>1, <3>2, <3>3, <3>4 DEF FileAt
    <3> QED
      BY <3>5 DEF IsFor
  <2> QED
    BY <2>1 DEF NamesHold
<1>9. HandlesLast
  BY <1>2 DEF HandlesLast
<1>10. \A h \in DOMAIN handles' :
         (handles'[h].closed = 0 /\ handles'[h].file \in DOMAIN files) => Kept(handles'[h].file)
  BY <1>2 DEF Kept, Present
<1>11. tasks[t].at # "idle" /\ u.at # "done" /\ opens' = opens
  BY <1>2, <1>6 DEF At
<1> QED
  BY <1>2, <1>6, <1>7, <1>8, <1>9, <1>10, <1>11, ContinuesFits

\* What a close leaves open was open.
LEMMA StillKept ==
  ASSUME BackingTyped, NEW h, handles' = Closed(h)
  PROVE  /\ HandlesLast
         /\ \A i \in DOMAIN handles' :
              (handles'[i].closed = 0 /\ handles'[i].file \in DOMAIN files) => Kept(handles'[i].file)
<1>1. /\ HandlesLast /\ DOMAIN handles' = DOMAIN handles
      /\ \A i \in DOMAIN handles : handles'[i].closed = 0 => handles[i].closed = 0
  BY ClosedLasts
<1> QED
  BY <1>1 DEF HandlesLast, Kept, Present

\* A request that fails closes the handle it had.
LEMMA FailsFits ==
  ASSUME TableInv, FilesInv, NEW t \in Tasks, Fails(t)
  PROVE  FilesInv'
<1>1. /\ tasks[t].at \in {"driver", "lstat", "opened"} /\ Step(t, Idle) /\ handles' = Unwound(t)
      /\ UNCHANGED <<table, opens, names, files, held, denotes, driver, destroyed>>
  BY DEF Fails, session, teardown, kernel
<1>2. PICK u : u = Idle
  OBVIOUS
<1>3. u \in Task /\ u.at = "idle" /\ Step(t, u) /\ TaskFit(u)'
  BY <1>1, <1>2, IdleInOrder, IdleTask DEF TaskFit
<1>4. /\ \A m, g : IsFor(m, g)' <=> IsFor(m, g)
      /\ KernelFits' /\ \A m \in Nodeids : denotes[m] \subseteq denotes'[m] /\ (Known(m) => Known(m)')
  <2>1. table'.live \subseteq table.live /\ SameKeys(table, table')
    BY <1>1 DEF SameKeys
  <2> QED
    BY <1>1, <2>1, EndsSame
<1>5. NamesHold'
  <2>1. tasks[t].at \notin {"idle", "done"} /\ ~At(t, "remove", "done")
    BY <1>1 DEF At
  <2> QED
    BY <1>1, <1>3, <1>4, <2>1, NamesStay
<1>6. /\ HandlesLast
      /\ \A i \in DOMAIN handles' :
           (handles'[i].closed = 0 /\ handles'[i].file \in DOMAIN files) => Kept(handles'[i].file)
  <2>1. PICK h : handles' = Closed(h)
    BY <1>1 DEF Unwound, Closed
  <2>2. BackingTyped
    BY TypesAre DEF TableInv
  <2> QED
    BY <2>1, <2>2, StillKept
<1>7. tasks[t].at # "idle" /\ u.at # "done" /\ opens' = opens
  BY <1>1, <1>3
<1> QED
  BY <1>1, <1>3, <1>4, <1>5, <1>6, <1>7, ContinuesFits

LEMMA ResumesFits ==
  ASSUME TableInv, HandlesInv, FilesInv, Orderly, NEW t \in Tasks, Resumes(t)
  PROVE  FilesInv'
BY BindsEntryFits, OpenResumesFits, RemoveResumesFits, RenameResumesFits, EntryBoundFits,
   PageEndsFits, FailsFits DEF Resumes

-----------------------------------------------------------------------------
(* RELEASE, FORGET and destroy                                              *)

\* A step of no request that leaves the kernel what it pins.
LEMMA AsideFits ==
  ASSUME TableInv, FilesInv, UNCHANGED <<tasks, names, files, driver>>, HandlesLast,
         \A h \in DOMAIN handles' :
           (handles'[h].closed = 0 /\ handles'[h].file \in DOMAIN files) => Kept(handles'[h].file),
         opens' \subseteq opens, destroyed' => Busy = {}, KernelFits',
         \A n \in Nodeids : Pinned(n) => (denotes[n] \subseteq denotes'[n] /\ (Known(n) => Known(n)')),
         \A p \in Paths : table'.byPath[p] # None =>
           /\ table'.byPath[p] = table.byPath[p]
           /\ \A f : IsFor(table.byPath[p], f) => IsFor(table.byPath[p], f)'
  PROVE  FilesInv'
<1>1. TreeFits'
  <2>1. \A s \in Tasks : (tasks'[s].at = "done" /\ tasks'[s].file \in DOMAIN files)
                            => Kept(tasks'[s].file)
    BY DEF Kept, Unheard, Busy
  <2>2. \A f \in DOMAIN files : (\E q \in Entries : names'[q] = f) => Kept(f)
    BY DEF Kept, Present
  <2>3. InosApart'
    BY <2>1, <2>2, KeptShrinks DEF FilesInv, TreeFits
  <2>4. UnderDirs' /\ DirsOnce'
    BY DEF FilesInv, TreeFits, UnderDirs, DirsOnce, IsDir
  <2> QED
    BY <2>3, <2>4 DEF TreeFits
<1>2. NamesHold'
  <2>1. CASE RenameDone
    <3>1. RenameDone'
      BY <2>1 DEF RenameDone, At
    <3> QED
      BY <3>1 DEF NamesHold
  <2>2. CASE ~RenameDone
    <3>1. \A p : FileAt(p)' = FileAt(p)
      BY DEF FileAt
    <3> QED
      BY <2>2, <3>1, NamesKept DEF FilesInv
  <2> QED
    BY <2>1, <2>2
<1>3. RenamedHold'
  BY RenamedKept DEF FilesInv
<1>4. \A n \in Nodeids : Pinned(n)' => Pinned(n)
  BY DEF Pinned, Busy
<1>5. TasksFit'
  <2>1. ASSUME NEW s \in Tasks
        PROVE  TaskFit(tasks[s])'
    <3>1. PICK x : x = tasks[s]
      OBVIOUS
    <3>2. TaskFit(x) /\ x.nodes \subseteq Nodeids /\ tasks'[s] = x
      BY <3>1, TaskHas DEF FilesInv, TasksFit, TableInv, TypeOK
    <3>3. TaskFit(x)'
      <4>1. CASE x.at = "idle"
        BY <4>1 DEF TaskFit
      <4>2. CASE x.at # "idle"
        <5>1. \A n \in x.nodes : denotes[n] \subseteq denotes'[n]
          BY <3>1, <3>2, <4>2 DEF Pinned, Busy
        <5>2. FileAt(x.path)' = FileAt(x.path)
          BY DEF FileAt
        <5> QED
          BY <3>2, <5>1, <5>2, FitsStill
      <4> QED
        BY <4>1, <4>2
    <3> QED
      BY <3>2, <3>3 DEF TaskFit, HandleFor
  <2> QED
    BY <2>1 DEF TasksFit
<1>6. OpensFit'
  <2>1. ASSUME NEW o \in opens', o.handle # None
        PROVE  HandleFor(o.handle, o.node)'
    <3>1. o \in opens /\ o.node \in Nodeids
      BY DEF TableInv, TypeOK
    <3>2. HandleFor(o.handle, o.node) /\ denotes[o.node] \subseteq denotes'[o.node]
      BY <2>1, <3>1 DEF FilesInv, OpensFit, Pinned
    <3> QED
      BY <3>2 DEF HandleFor, HandlesLast
  <2> QED
    BY <2>1 DEF OpensFit, HandleFor
<1>7. Separate'
  BY DEF FilesInv, Separate, Busy
<1>8. NoneAfter'
  BY DEF NoneAfter, Busy
<1>9. PinnedHeld'
  <2>1. ASSUME NEW n \in Nodeids, Pinned(n)'
        PROVE  Known(n)'
    <3>1. Pinned(n)
      BY <1>4, <2>1
    <3> QED
      BY <3>1 DEF FilesInv, PinnedHeld
  <2> QED
    BY <2>1 DEF PinnedHeld
<1> QED
  BY <1>1, <1>2, <1>3, <1>5, <1>6, <1>7, <1>8, <1>9 DEF FilesInv

\* The same with the table's names and the kernel left alone.
LEMMA KernelAsideFits ==
  ASSUME TableInv, FilesInv, UNCHANGED <<tasks, names, files, driver, held, denotes>>, HandlesLast,
         \A h \in DOMAIN handles' :
           (handles'[h].closed = 0 /\ handles'[h].file \in DOMAIN files) => Kept(handles'[h].file),
         opens' \subseteq opens, destroyed' => Busy = {},
         table'.live \subseteq table.live, SameKeys(table, table'),
         \A p \in Paths : table'.byPath[p] # None => table'.byPath[p] = table.byPath[p]
  PROVE  FilesInv'
<1>1. \A n, f : IsFor(n, f)' <=> IsFor(n, f)
  BY ForSame
<1>2. KernelFits'
  <2>1. table.live \subseteq Nodeids
    BY TableParts DEF TableInv, TableOK
  <2> QED
    BY <2>1, KernelSame DEF FilesInv
<1>3. ASSUME NEW p \in Paths, table'.byPath[p] # None
      PROVE  /\ table'.byPath[p] = table.byPath[p]
             /\ \A f : IsFor(table.byPath[p], f) => IsFor(table.byPath[p], f)'
  <2>1. PICK n : n = table.byPath[p] /\ n = table'.byPath[p]
    BY <1>3
  <2>2. \A f : IsFor(n, f) => IsFor(table.byPath[p], f)'
    BY <1>1, <2>1 DEF IsFor
  <2> QED
    BY <2>1, <2>2
<1>4. \A n \in Nodeids : Pinned(n) => (denotes[n] \subseteq denotes'[n] /\ (Known(n) => Known(n)'))
  BY DEF Known
<1> QED
  BY <1>2, <1>3, <1>4, AsideFits

LEMMA ReleaseFits ==
  ASSUME TableInv, FilesInv, NEW o \in opens, Release(o)
  PROVE  FilesInv'
<1>1. /\ opens' = opens \ {o} /\ handles' = Closed(o.handle)
      /\ UNCHANGED <<table, names, files, held, denotes, tasks, driver, destroyed>>
  BY DEF Release, Removed, teardown, kernel
<1>2. BackingTyped
  BY TypesAre DEF TableInv
<1>3. /\ HandlesLast
      /\ \A h \in DOMAIN handles' :
           (handles'[h].closed = 0 /\ handles'[h].file \in DOMAIN files) => Kept(handles'[h].file)
  BY <1>1, <1>2, StillKept
<1>4. destroyed' => Busy = {}
  BY <1>1 DEF FilesInv, NoneAfter
<1>5. SameKeys(table, table') /\ opens' \subseteq opens
  BY <1>1 DEF SameKeys
<1> QED
  BY <1>1, <1>3, <1>4, <1>5, KernelAsideFits

LEMMA DestroyFits ==
  ASSUME TableInv, FilesInv, Orderly, Destroy
  PROVE  FilesInv'
<1>1. /\ opens' = {} /\ Busy = {}
      /\ UNCHANGED <<table, names, files, handles, held, denotes, tasks, driver>>
  BY DEF Destroy, backing, kernel
<1>2. /\ HandlesLast /\ SameKeys(table, table')
      /\ \A h \in DOMAIN handles' :
           (handles'[h].closed = 0 /\ handles'[h].file \in DOMAIN files) => Kept(handles'[h].file)
  BY <1>1 DEF HandlesLast, SameKeys, Kept, Present
<1> QED
  BY <1>1, <1>2, KernelAsideFits

LEMMA DestroyClosesFits ==
  ASSUME TableInv, FilesInv, NEW h \in toClose, DestroyCloses(h)
  PROVE  FilesInv'
<1>1. /\ handles' = Closed(h)
      /\ UNCHANGED <<table, opens, names, files, held, denotes, tasks, driver, destroyed>>
  BY DEF DestroyCloses, session, kernel
<1>2. BackingTyped
  BY TypesAre DEF TableInv
<1>3. /\ HandlesLast
      /\ \A i \in DOMAIN handles' :
           (handles'[i].closed = 0 /\ handles'[i].file \in DOMAIN files) => Kept(handles'[i].file)
  BY <1>1, <1>2, StillKept
<1>4. destroyed' => Busy = {}
  BY <1>1 DEF FilesInv, NoneAfter
<1>5. SameKeys(table, table')
  BY <1>1 DEF SameKeys
<1> QED
  BY <1>1, <1>3, <1>4, <1>5, KernelAsideFits

LEMMA DestroyClearsFits ==
  ASSUME TableInv, FilesInv, DestroyClears
  PROVE  FilesInv'
<1>1. /\ table' = Clear(table) /\ destroyed
      /\ UNCHANGED <<opens, names, files, handles, held, denotes, tasks, driver, destroyed>>
  BY DEF DestroyClears, backing, kernel
<1>2. /\ table'.live = {Root} /\ SameKeys(table, table')
      /\ \A p \in Paths : table'.byPath[p] = IF p = Top THEN Root ELSE None
  BY <1>1, ClearAgrees DEF TableInv
<1>3. Root \in table.live /\ table.byPath[Top] = Root
  BY Constants DEF TableInv, TableOK, RootKept, PathsAgree
<1>4. /\ HandlesLast
      /\ \A h \in DOMAIN handles' :
           (handles'[h].closed = 0 /\ handles'[h].file \in DOMAIN files) => Kept(handles'[h].file)
  BY <1>1 DEF HandlesLast, Kept, Present
<1>5. destroyed' => Busy = {}
  BY <1>1 DEF FilesInv, NoneAfter
<1>6. \A p \in Paths : table'.byPath[p] # None => table'.byPath[p] = table.byPath[p]
  BY <1>2, <1>3
<1>7. table'.live \subseteq table.live
  BY <1>2, <1>3
<1> QED
  BY <1>1, <1>2, <1>4, <1>5, <1>6, <1>7, KernelAsideFits

\* A nodeid whose lookups are forgotten is for nothing, unless a page under way
\* has one more.
LEMMA ForgetFits ==
  ASSUME TableInv, FilesInv, NEW n \in table.live, NEW count \in 1 .. MaxLookups,
         ForgetLookups(n, count)
  PROVE  FilesInv'
<1>1. /\ ~destroyed /\ n # Root /\ ~Pinned(n) /\ count <= held[n]
      /\ held' = [held EXCEPT ![n] = @ - count]
      /\ denotes' = [denotes EXCEPT ![n] = IF held[n] = count THEN {} ELSE @]
      /\ table' = Forget(table, n, count)
      /\ UNCHANGED <<opens, destroyed, names, files, handles, tasks, driver>>
  BY DEF ForgetLookups, teardown, backing
<1>2. KernelTyped /\ TableOK(table) /\ n \in Nodeids \ {Root} /\ count \in Nat /\ count > 0
      /\ table.live \subseteq Nodeids
  <2>1. count \in Nat /\ count > 0
    BY SessionAssumption
  <2> QED
    BY <1>1, <2>1, TypesAre, TableParts DEF TableInv, TableOK
<1>3. held[n] \in Nat /\ Owed(Tasks, n) \in Nat
      /\ table.inodes[n].nlookup = held[n] + Owed(Tasks, n)
  BY <1>1, <1>2, OwedIs DEF TableInv, LookupsMatch
<1>4. PICK u : u = Forget(table, n, count)
  OBVIOUS
<1>5. count <= table.inodes[n].nlookup
  <2> DEFINE k == held[n]
             j == Owed(Tasks, n)
  <2>1. k \in Nat /\ j \in Nat /\ count <= k /\ table.inodes[n].nlookup = k + j
    BY <1>1, <1>3
  <2> HIDE DEF k, j
  <2> QED
    BY <1>2, <2>1
<1>6. /\ TableOK(u) /\ SameKeys(table, u)
      /\ u.live = IF count = table.inodes[n].nlookup THEN table.live \ {n} ELSE table.live
      /\ \A p \in Paths : u.byPath[p] \in {None, table.byPath[p]}
  <2> DEFINE v == Forget(table, n, count)
  <2>1. n \in table.live \ {Root} /\ count \in Nat /\ TableOK(table)
    BY <1>2
  <2>2. /\ TableOK(v)
        /\ \A m \in Nodeids \ {n} : v.inodes[m].nlookup = table.inodes[m].nlookup
        /\ v.inodes[n].nlookup = table.inodes[n].nlookup - count
        /\ v.live = IF count = table.inodes[n].nlookup THEN table.live \ {n} ELSE table.live
        /\ \A p \in Paths : v.byPath[p] \in {None, table.byPath[p]}
        /\ SameKeys(table, v)
    BY <1>5, <2>1, ForgetAgrees
  <2>3. u = v
    BY <1>4
  <2> HIDE DEF v
  <2> QED
    BY <2>2, <2>3
<1>7. table' = u
  BY <1>1, <1>4
<1>8. /\ \A m \in Nodeids \ {n} : held'[m] = held[m] /\ denotes'[m] = denotes[m]
      /\ held'[n] = held[n] - count
      /\ denotes'[n] = IF held[n] = count THEN {} ELSE denotes[n]
  BY <1>1, <1>2 DEF KernelTyped
<1>9. \A m \in Nodeids : \A f : IsFor(m, f)' => IsFor(m, f)
  <2> TAKE m \in Nodeids
  <2> TAKE f
  <2>1. f \in denotes'[m] => f \in denotes[m]
    BY <1>8
  <2>2. \A s \in Tasks : OwedFor(tasks[s], m, f)' <=> OwedFor(tasks[s], m, f)
    BY <1>1 DEF OwedFor
  <2> QED
    BY <2>1, <2>2 DEF IsFor
<1>10. \A m \in Nodeids : (m \in u.live \/ m # n) => \A f : IsFor(m, f) => IsFor(m, f)'
  <2>1. ASSUME NEW m \in Nodeids, m \in u.live \/ m # n, NEW f, IsFor(m, f)
        PROVE  IsFor(m, f)'
    <3>1. \A s \in Tasks : OwedFor(tasks[s], m, f)' <=> OwedFor(tasks[s], m, f)
      BY <1>1 DEF OwedFor
    <3>2. CASE denotes'[m] = denotes[m]
      BY <2>1, <3>1, <3>2 DEF IsFor
    <3>3. CASE denotes'[m] # denotes[m]
      <4>1. m = n /\ held[n] = count
        BY <1>8, <3>3
      <4>2. count # table.inodes[n].nlookup
        BY <1>6, <2>1, <4>1
      <4>3. Owed(Tasks, n) # 0
        <5> DEFINE k == held[n]
                   j == Owed(Tasks, n)
        <5>1. k \in Nat /\ k = count /\ k + j # count
          BY <1>3, <4>1, <4>2
        <5> HIDE DEF k, j
        <5>2. j # 0
          BY <5>1
        <5> QED
          BY <5>2 DEF j
      <4>4. Owing(Tasks, n) # {}
        BY <4>3, FS_EmptySet DEF Owed
      <4>5. PICK s \in Tasks : \E i \in DOMAIN tasks[s].owed : tasks[s].owed[i].node = n
        BY <4>4, OwingIs
      <4>6. PICK g : OwedFor(tasks[s], n, g)
        BY <4>5 DEF OwedFor
      <4>7. IsFor(n, g)
        BY <4>6 DEF IsFor
      <4>8. f = g
        BY <1>2, <2>1, <4>1, <4>7 DEF FilesInv, KernelFits, OneFile
      <4>9. OwedFor(tasks[s], m, f)'
        BY <3>1, <4>1, <4>6, <4>8
      <4> QED
        BY <4>9 DEF IsFor
    <3> QED
      BY <3>2, <3>3
  <2> QED
    BY <2>1
<1>11. HeldFor'
  <2>1. ASSUME NEW m \in Nodeids
        PROVE  (m = Root \/ held'[m] > 0) <=> denotes'[m] # {}
    <3>1. (m = Root \/ held[m] > 0) <=> denotes[m] # {}
      BY DEF FilesInv, KernelFits, HeldFor, Known
    <3>2. CASE m # n
      BY <1>8, <3>1, <3>2
    <3>3. CASE m = n
      <4>1. held[n] > 0 /\ (held[n] - count > 0 <=> held[n] # count)
        BY <1>1, <1>2, <1>3
      <4>2. held'[n] > 0 <=> held[n] # count
        BY <1>8, <4>1
      <4>3. denotes'[n] # {} <=> held[n] # count
        BY <1>8, <3>1, <3>3, <4>1
      <4> QED
        BY <1>1, <3>3, <4>2, <4>3
    <3> QED
      BY <3>2, <3>3
  <2> QED
    BY <2>1 DEF HeldFor, Known
<1>12. KernelFits'
  <2>1. IsFor(Root, RootFile)'
    <3>1. PICK r : r = RootFile
      OBVIOUS
    <3>2. IsFor(Root, r)
      BY <3>1 DEF FilesInv, KernelFits, ForFiles
    <3>3. IsFor(Root, r)'
      BY <1>1, <1>10, <3>2, Constants
    <3> QED
      BY <3>1, <3>3 DEF IsFor
  <2>2. table'.live \subseteq table.live /\ SameKeys(table, table')
    BY <1>6, <1>7
  <2> QED
    BY <1>1, <1>2, <1>9, <1>11, <2>1, <2>2, KernelKept DEF FilesInv
<1>13. ASSUME NEW p \in Paths, table'.byPath[p] # None
       PROVE  /\ table'.byPath[p] = table.byPath[p]
              /\ \A f : IsFor(table.byPath[p], f) => IsFor(table.byPath[p], f)'
  <2>1. PICK m : m = table'.byPath[p]
    OBVIOUS
  <2>2. m = table.byPath[p] /\ m \in u.live /\ m \in Nodeids
    BY <1>6, <1>7, <1>13, <2>1, TableParts DEF TableOK, PathsAgree
  <2>3. \A f : IsFor(m, f) => IsFor(m, f)'
    BY <1>10, <2>2
  <2>4. \A f : IsFor(table.byPath[p], f) => IsFor(table.byPath[p], f)'
    BY <2>1, <2>2, <2>3 DEF IsFor
  <2> QED
    BY <2>1, <2>2, <2>4
<1>14. \A m \in Nodeids : Pinned(m) => (denotes[m] \subseteq denotes'[m] /\ (Known(m) => Known(m)'))
  BY <1>1, <1>8 DEF Known
<1>15. /\ HandlesLast /\ opens' \subseteq opens
       /\ \A h \in DOMAIN handles' :
            (handles'[h].closed = 0 /\ handles'[h].file \in DOMAIN files) => Kept(handles'[h].file)
  BY <1>1 DEF HandlesLast, Kept, Present
<1> QED
  BY <1>1, <1>12, <1>13, <1>14, <1>15, AsideFits

-----------------------------------------------------------------------------
(* The theorems                                                            *)

LEMMA FilesInitHolds == Init => FilesInv
<1> SUFFICES ASSUME Init
             PROVE  FilesInv
  OBVIOUS
<1>1. /\ table = NewTable /\ opens = {} /\ files = <<>> /\ handles = <<>> /\ destroyed = FALSE
      /\ tasks = [t \in Tasks |-> Idle] /\ names = [p \in Entries |-> None]
      /\ held = [n \in Nodeids |-> 0]
      /\ denotes = [n \in Nodeids |-> IF n = Root THEN {RootFile} ELSE {}]
  BY DEF Init
<1>2. \A t \in Tasks : tasks[t].op = "none" /\ tasks[t].at = "idle" /\ tasks[t].owed = <<>>
  BY <1>1, IdleTask
<1>3. Busy = {}
  BY <1>2 DEF Busy
<1>4. \A n \in Nodeids : \A f : IsFor(n, f) <=> (n = Root /\ f = RootFile)
  <2>1. \A n, f : ~\E t \in Tasks : OwedFor(tasks[t], n, f)
    BY <1>2 DEF OwedFor
  <2> QED
    BY <1>1, <2>1 DEF IsFor
<1>5. KernelFits
  <2>1. OneFile
    BY <1>4 DEF OneFile
  <2>2. ForFiles
    BY <1>4, Constants DEF ForFiles
  <2>3. KeysFit
    <3>1. table.live = {Root}
      BY <1>1 DEF NewTable
    <3> QED
      BY <3>1 DEF KeysFit
  <2>4. HeldFor
    <3>1. \A n \in Nodeids : ~(held[n] > 0) /\ (denotes[n] # {} <=> n = Root)
      BY <1>1
    <3> QED
      BY <3>1 DEF HeldFor, Known
  <2> QED
    BY <2>1, <2>2, <2>3, <2>4 DEF KernelFits
<1>6. TreeFits
  <2>1. \A p \in Entries : names[p] = None
    BY <1>1
  <2>2. UnderDirs
    BY <2>1 DEF UnderDirs
  <2>3. \A p \in Entries : ~IsDir(names[p])
    BY <1>1, <2>1, Constants DEF IsDir, RootFile, None
  <2>4. DirsOnce
    BY <2>3 DEF DirsOnce
  <2>5. InosApart
    BY <1>1 DEF InosApart, Kept
  <2> QED
    BY <2>2, <2>4, <2>5 DEF TreeFits
<1>7. NamesHold
  <2>1. \A p \in Paths : table.byPath[p] = IF p = Top THEN Root ELSE None
    BY <1>1 DEF NewTable
  <2>2. \A p \in Paths : table.byPath[p] # None => p = Top /\ table.byPath[p] = Root
    BY <2>1
  <2>3. IsFor(Root, FileAt(Top))
    BY <1>4, Constants DEF FileAt
  <2>4. ASSUME NEW p \in Paths, table.byPath[p] # None
        PROVE  IsFor(table.byPath[p], FileAt(p))
    <3>1. p = Top /\ table.byPath[p] = Root
      BY <2>2, <2>4
    <3> QED
      BY <2>3, <3>1 DEF FileAt, IsFor
  <2> QED
    BY <2>4 DEF NamesHold
<1>8. RenamedHold /\ TasksFit
  BY <1>2 DEF RenamedHold, At, TasksFit, TaskFit
<1>9. OpensFit /\ Separate /\ NoneAfter /\ PinnedHeld
  BY <1>1, <1>3 DEF OpensFit, Separate, NoneAfter, PinnedHeld, Pinned
<1> QED
  BY <1>5, <1>6, <1>7, <1>8, <1>9 DEF FilesInv

LEMMA FilesNextKeeps ==
  ASSUME Orderly, TableInv, HandlesInv, FilesInv, [Next]_vars
  PROVE  FilesInv'
<1>1. CASE UNCHANGED vars
  <2>1. UNCHANGED <<table, opens, names, files, handles, held, denotes, tasks, driver, destroyed>>
    BY <1>1 DEF vars, session, teardown, backing, kernel
  <2>2. /\ HandlesLast /\ SameKeys(table, table')
        /\ \A h \in DOMAIN handles' :
             (handles'[h].closed = 0 /\ handles'[h].file \in DOMAIN files) => Kept(handles'[h].file)
    BY <2>1 DEF HandlesLast, SameKeys, Kept, Present
  <2>3. destroyed' => Busy = {}
    BY <2>1 DEF FilesInv, NoneAfter
  <2>4. /\ opens' \subseteq opens /\ table'.live \subseteq table.live
        /\ \A p \in Paths : table'.byPath[p] # None => table'.byPath[p] = table.byPath[p]
    BY <2>1
  <2> QED
    BY <2>1, <2>2, <2>3, <2>4, KernelAsideFits
<1>2. CASE \E t \in Tasks : Starts(t) \/ DriverActs(t) \/ Resumes(t)
  BY <1>2, StartsFits, DriverActsFits, ResumesFits
<1>3. CASE \E o \in opens : Release(o)
  BY <1>3, ReleaseFits
<1>4. CASE \E n \in table.live, count \in 1 .. MaxLookups : ForgetLookups(n, count)
  BY <1>4, ForgetFits
<1>5. CASE Destroy \/ DestroyClears
  BY <1>5, DestroyFits, DestroyClearsFits
<1>6. CASE \E h \in toClose : DestroyCloses(h)
  BY <1>6, DestroyClosesFits
<1> QED
  BY <1>1, <1>2, <1>3, <1>4, <1>5, <1>6 DEF Next

\* The inductive invariant, where no request uses a name another one is
\* changing and nothing is in flight at destroy(): every nodeid handed out is for
\* one file, every path of the table leads to it unless an unlink or a rename the
\* driver has done is still to be heard of, and what a request under way has
\* resolved or looked up is still so.
THEOREM FilesAreKept ==
  ASSUME Orderly
  PROVE  Spec => []FilesInv
<1>1. TableInv /\ HandlesInv /\ FilesInv /\ [Next]_vars => FilesInv'
  BY FilesNextKeeps
<1> QED
  BY <1>1, FilesInitHolds, TableIsKept, HandlesAreOwned, PTL DEF Spec

\* A nodeid is handed out for one file only, whatever happened to its names and
\* to its inode number in the meantime (inodes.ts:158-163, 275-280), and with
\* nothing in flight the table leads to that file (lock.ts:4-9, inodes.ts:19-22).
THEOREM NodeidsAlwaysNameTheirFiles ==
  ASSUME Orderly
  PROVE  Spec => []NodeidsNameTheirFiles
<1>1. ASSUME TableInv, FilesInv
      PROVE  NodeidsNameTheirFiles
  <2> USE <1>1
  <2>1. ASSUME NEW n \in Nodeids
        PROVE  Cardinality(denotes[n]) <= 1
    <3>1. CASE denotes[n] = {}
      BY <3>1, FS_EmptySet
    <3>2. CASE denotes[n] # {}
      <4>1. PICK f : f \in denotes[n]
        BY <3>2
      <4>2. \A g \in denotes[n] : g = f
        BY <4>1 DEF FilesInv, KernelFits, OneFile, IsFor
      <4>3. denotes[n] = {f}
        BY <4>1, <4>2
      <4>4. Cardinality({f}) = 1
        BY FS_Singleton
      <4> QED
        BY <4>3, <4>4
    <3> QED
      BY <3>1, <3>2
  <2>2. TableAgrees
    BY DEF TableInv, TableOK, TableAgrees
  <2>3. ASSUME Busy = {}, ~destroyed, NEW n \in table.live, NEW p \in Tracked(table, n)
        PROVE  FileAt(p) \in denotes[n]
    <3>1. \A t \in Tasks : tasks[t].at = "idle" /\ tasks[t].owed = <<>>
      <4>1. \A t \in Tasks : tasks[t].at = "idle"
        BY <2>3 DEF Busy
      <4> QED
        BY <4>1 DEF TableInv, StagesInOrder, InOrder
    <3>2. n \in Nodeids /\ p \in Paths /\ table.byPath[p] = n
      BY TableParts, TrackedTyped DEF TableInv, TableOK, PathsAgree
    <3>3. ~RenameDone /\ ~GoneFrom(p, n)
      BY <3>1 DEF RenameDone, GoneFrom, At
    <3>4. IsFor(n, FileAt(p))
      BY <3>2, <3>3, Constants DEF FilesInv, NamesHold
    <3>5. \A f : IsFor(n, f) => f \in denotes[n]
      BY <3>1 DEF IsFor, OwedFor
    <3> QED
      BY <3>4, <3>5
  <2> QED
    BY <2>1, <2>2, <2>3 DEF NodeidsNameTheirFiles, NamesAreCurrent
<1> QED
  BY <1>1, FilesAreKept, TableIsKept, PTL

\* Whenever the driver gets to a call on a nodeid's path or handle, an open and
\* a read through an old fh included, it finds that nodeid's file there, renames
\* of it or above it notwithstanding (session.ts:1361-1377, 1417-1420).
THEOREM EveryCallReachesItsFile ==
  ASSUME Orderly
  PROVE  Spec => []ReachesItsFile
<1>1. ASSUME HandlesInv, FilesInv
      PROVE  ReachesItsFile
  <2>1. SUFFICES ASSUME NEW t \in Tasks, Awaits(t, "open") \/ Awaits(t, "reach"),
                        NEW n \in tasks[t].nodes
                 PROVE  (IF tasks[t].handle = None THEN FileAt(tasks[t].path)
                         ELSE handles[tasks[t].handle].file) \in denotes[n]
    BY DEF ReachesItsFile
  <2>2. TaskFit(tasks[t]) /\ StageOK(tasks[t])
    BY <1>1 DEF FilesInv, TasksFit, HandlesInv, TasksInOrder
  <2>3. CASE tasks[t].handle = None
    BY <2>1, <2>2, <2>3 DEF TaskFit, Awaits, At
  <2>4. CASE tasks[t].handle # None
    BY <2>1, <2>2, <2>4 DEF TaskFit, StageOK, Awaits, At, HandleFor
  <2> QED
    BY <2>3, <2>4
<1> QED
  BY <1>1, FilesAreKept, HandlesAreOwned, PTL
=============================================================================
