-------------------------- MODULE ByteRangesProofs --------------------------
(***************************************************************************)
(* The list of byte ranges stands for the bytes held, for any file size,   *)
(* any number of owners and opens and any cap: splitting, sorting and      *)
(* merging lose nothing and add nothing.                                   *)
(*                                                                         *)
(* The functions of the list are loops.  What a loop does is proved of     *)
(* every turn of it, by induction over a set of turns; the three loops are *)
(* shown once to be what their turns say.                                  *)
(***************************************************************************)
EXTENDS ByteRanges, SequenceTheorems, WellFoundedInduction, TLAPS

-----------------------------------------------------------------------------
(* Loops.                                                                  *)

LEMMA Turns ==
  ASSUME NEW n \in Nat, NEW T, 0 \in T,
         \A i \in 1 .. n : i - 1 \in T => i \in T
  PROVE  \A i \in 0 .. n : i \in T
<1> DEFINE Bad == {i \in 0 .. n : i \notin T}
<1> SUFFICES ASSUME Bad # {} PROVE FALSE
  OBVIOUS
<1>1. PICK x \in Bad : \A y \in Bad : ~(y < x)
  <2>1. Bad \subseteq Nat
    OBVIOUS
  <2> HIDE DEF Bad
  <2>2. PICK x \in Bad : \A y \in Bad : ~(<<y, x>> \in OpToRel(<, Nat))
    BY <2>1, NatLessThanWellFounded, WFMin
  <2>3. ASSUME NEW y \in Bad, y < x PROVE <<y, x>> \in OpToRel(<, Nat)
    BY <2>1, <2>3 DEF OpToRel
  <2> QED
    BY <2>2, <2>3
<1>2. x \in 1 .. n /\ x - 1 \in 0 .. n /\ x - 1 < x
  BY <1>1
<1>3. x - 1 \notin T
  BY <1>1, <1>2
<1> QED
  BY <1>1, <1>2, <1>3

(* The n turns of a loop, each a function, and what stands after each turn *)
(* of a loop that starts from `start`.                                     *)
Loops(n, A) == [1 .. n -> [A -> A]]
RunOf(n, A, start, step) ==
  {f \in [0 .. n -> A] : f[0] = start /\ \A i \in 1 .. n : f[i] = step[i][f[i - 1]]}

LEMMA Loop ==
  ASSUME NEW n \in Nat, NEW A, NEW start \in A, NEW step \in Loops(n, A)
  PROVE  RunOf(n, A, start, step) # {}
<1> USE DEF Loops
<1> DEFINE Run(k, f) == f[0] = start /\ \A i \in 1 .. k : f[i] = step[i][f[i - 1]]
           T == {k \in 0 .. n : \E f \in [0 .. k -> A] : Run(k, f)}
<1>1. 0 \in T
  <2> DEFINE g == [j \in 0 .. 0 |-> start]
  <2>1. g \in [0 .. 0 -> A] /\ g[0] = start
    OBVIOUS
  <2>2. \A i \in 1 .. 0 : FALSE
    OBVIOUS
  <2> HIDE DEF g
  <2>3. Run(0, g)
    BY <2>1, <2>2
  <2> QED
    BY <2>1, <2>3
<1>2. ASSUME NEW k \in 1 .. n, k - 1 \in T
      PROVE  k \in T
  <2>1. PICK f \in [0 .. k - 1 -> A] : Run(k - 1, f)
    BY <1>2
  <2> DEFINE g == [j \in 0 .. k |-> IF j = k THEN step[k][f[k - 1]] ELSE f[j]]
  <2>2. f[k - 1] \in A /\ step[k] \in [A -> A]
    OBVIOUS
  <2>3. g \in [0 .. k -> A]
    BY <2>2
  <2>4. g[0] = start
    BY <2>1
  <2>5. ASSUME NEW i \in 1 .. k PROVE g[i] = step[i][g[i - 1]]
    <3>1. CASE i = k
      BY <3>1
    <3>2. CASE i # k
      BY <2>1, <3>2
    <3> QED
      BY <3>1, <3>2
  <2> HIDE DEF g
  <2>6. Run(k, g)
    BY <2>4, <2>5
  <2> HIDE DEF Run
  <2>7. \E h \in [0 .. k -> A] : Run(k, h)
    BY <2>3, <2>6
  <2> QED
    BY <2>7
<1>3. \A k \in 0 .. n : k \in T
  <2>1. \A k \in 1 .. n : k - 1 \in T => k \in T
    BY <1>2
  <2> HIDE DEF T
  <2> QED
    BY <1>1, <2>1, Turns
<1>4. n \in T
  BY <1>3
<1>5. \E f \in [0 .. n -> A] : Run(n, f)
  BY <1>4
<1> QED
  BY <1>5 DEF RunOf

LEMMA JoinedLoop ==
  ASSUME NEW S, NEW parts \in Seq(Seq(S))
  PROVE  \E u \in [0 .. Len(parts) -> Seq(S)] :
           /\ u[0] = <<>>
           /\ \A i \in 1 .. Len(parts) : u[i] = u[i - 1] \o parts[i]
           /\ Joined(parts) = u[Len(parts)]
<1> DEFINE n == Len(parts)
           A == Seq(S)
           step == [i \in 1 .. n |-> [s \in A |-> s \o parts[i]]]
           Is(f) == f = [i \in 0 .. n |-> IF i = 0 THEN <<>> ELSE f[i - 1] \o parts[i]]
<1>0. n \in Nat /\ \A i \in 1 .. n : parts[i] \in Seq(S)
  BY LenProperties
<1>1. step \in [1 .. n -> [A -> A]]
  BY <1>0
<1>2. <<>> \in A
  BY EmptySeq
<1> HIDE DEF A, n
<1>3. PICK f \in [0 .. n -> A] : f[0] = <<>> /\ \A i \in 1 .. n : f[i] = step[i][f[i - 1]]
  <2> HIDE DEF step
  <2>1. n \in Nat /\ step \in Loops(n, A)
    BY <1>0, <1>1 DEF Loops
  <2>2. RunOf(n, A, <<>>, step) # {}
    BY <1>2, <2>1, Loop
  <2> QED
    BY <2>2 DEF RunOf
<1>4. ASSUME NEW i \in 1 .. n PROVE f[i] = f[i - 1] \o parts[i]
  <2>1. f[i - 1] \in A
    BY <1>0
  <2>2. step[i] = [s \in A |-> s \o parts[i]]
    OBVIOUS
  <2> HIDE DEF step
  <2>3. f[i] = step[i][f[i - 1]]
    BY <1>3
  <2> QED
    BY <2>1, <2>2, <2>3
<1>5. Is(f)
  <2>1. f = [i \in 0 .. n |-> f[i]]
    OBVIOUS
  <2>2. ASSUME NEW i \in 0 .. n
        PROVE  f[i] = IF i = 0 THEN <<>> ELSE f[i - 1] \o parts[i]
    <3> HIDE DEF step
    <3>0. f[0] = <<>>
      BY <1>3
    <3>1. CASE i = 0
      BY <3>0, <3>1
    <3>2. CASE i # 0
      <4>1. i \in 1 .. n
        BY <1>0, <3>2
      <4> QED
        BY <1>4, <3>2, <4>1
    <3> QED
      BY <3>1, <3>2
  <2> QED
    BY <2>1, <2>2
<1> DEFINE u == CHOOSE g : Is(g)
<1>6. Is(u)
  BY <1>5
<1>7. Joined(parts) = u[n]
  BY DEF Joined, n
<1> HIDE DEF u
<1>8. u[0] = <<>> /\ \A i \in 1 .. n : u[i] = u[i - 1] \o parts[i]
  <2>1. ASSUME NEW i \in 0 .. n
        PROVE  u[i] = IF i = 0 THEN <<>> ELSE u[i - 1] \o parts[i]
    BY <1>6
  <2>2. 0 \in 0 .. n /\ \A i \in 1 .. n : i \in 0 .. n /\ i # 0
    BY <1>0
  <2> QED
    BY <2>1, <2>2
<1> DEFINE T == {i \in 0 .. n : u[i] \in A}
<1>9. \A i \in 0 .. n : i \in T
  <2>1. 0 \in T
    BY <1>0, <1>2, <1>8
  <2>2. ASSUME NEW i \in 1 .. n, i - 1 \in T PROVE i \in T
    <3>1. u[i - 1] \in A /\ parts[i] \in A
      BY <1>0, <2>2 DEF A
    <3>2. u[i - 1] \o parts[i] \in A
      BY <3>1, ConcatProperties DEF A
    <3>3. u[i] \in A
      BY <1>8, <3>2
    <3> QED
      BY <3>3
  <2>3. n \in Nat /\ \A i \in 1 .. n : i - 1 \in T => i \in T
    BY <1>0, <2>2
  <2> HIDE DEF T
  <2> QED
    BY <2>1, <2>3, Turns
<1>10. u \in [0 .. n -> A]
  BY <1>6, <1>9
<1> QED
  BY <1>7, <1>8, <1>10 DEF A, n

(* A property of pairs that holds within each part and between two parts   *)
(* holds within all of them together.                                      *)
Pairwise(s, R) == \A i, j \in 1 .. Len(s) : i # j => <<s[i], s[j]>> \in R

In(s) == {s[k] : k \in 1 .. Len(s)}

LEMMA ConcatKeeps ==
  ASSUME NEW S, NEW R, NEW s \in Seq(S), NEW p \in Seq(S), Pairwise(s, R), Pairwise(p, R),
         \A x \in In(s), y \in In(p) : <<x, y>> \in R /\ <<y, x>> \in R
  PROVE  Pairwise(s \o p, R) /\ In(s \o p) = In(s) \cup In(p)
<1> DEFINE t == s \o p
<1>1. Len(s) \in Nat /\ Len(p) \in Nat /\ Len(t) = Len(s) + Len(p)
  BY ConcatProperties, LenProperties
<1>2. \A k \in 1 .. Len(s) : k \in 1 .. Len(t) /\ t[k] = s[k]
  BY <1>1, ConcatProperties
<1>3. \A a \in 1 .. Len(p) : Len(s) + a \in 1 .. Len(t) /\ t[Len(s) + a] = p[a]
  <2>1. ASSUME NEW a \in 1 .. Len(p) PROVE Len(s) + a \in 1 .. Len(t) /\ t[Len(s) + a] = p[a]
    <3>1. Len(s) + a \in 1 .. Len(s) + Len(p) /\ ~(Len(s) + a <= Len(s)) /\ Len(s) + a - Len(s) = a
      BY <1>1
    <3> QED
      BY <1>1, <3>1, ConcatProperties
  <2> QED
    BY <2>1
<1>4. ASSUME NEW k \in 1 .. Len(t), k \notin 1 .. Len(s)
      PROVE  \E a \in 1 .. Len(p) : k = Len(s) + a
  <2>1. k - Len(s) \in 1 .. Len(p) /\ k = Len(s) + (k - Len(s))
    BY <1>1, <1>4
  <2> QED
    BY <2>1
<1> HIDE DEF t
<1>5. In(t) = In(s) \cup In(p)
  <2>1. ASSUME NEW x \in In(t) PROVE x \in In(s) \cup In(p)
    <3>1. PICK k \in 1 .. Len(t) : x = t[k]
      BY <2>1 DEF In
    <3>2. CASE k \in 1 .. Len(s)
      BY <1>2, <3>1, <3>2 DEF In
    <3>3. CASE k \notin 1 .. Len(s)
      BY <1>3, <1>4, <3>1, <3>3 DEF In
    <3> QED
      BY <3>2, <3>3
  <2>2. In(s) \subseteq In(t)
    BY <1>2 DEF In
  <2>3. In(p) \subseteq In(t)
    BY <1>3 DEF In
  <2> QED
    BY <2>1, <2>2, <2>3
<1>6. ASSUME NEW i \in 1 .. Len(t), NEW j \in 1 .. Len(t), i # j
      PROVE  <<t[i], t[j]>> \in R
  <2>1. CASE i \in 1 .. Len(s) /\ j \in 1 .. Len(s)
    BY <1>2, <1>6, <2>1 DEF Pairwise
  <2>2. CASE i \in 1 .. Len(s) /\ j \notin 1 .. Len(s)
    <3>1. PICK b \in 1 .. Len(p) : j = Len(s) + b
      BY <1>4, <2>2
    <3>2. t[i] = s[i] /\ t[j] = p[b] /\ s[i] \in In(s) /\ p[b] \in In(p)
      BY <1>2, <1>3, <2>2, <3>1 DEF In
    <3> QED
      BY <3>2
  <2>3. CASE i \notin 1 .. Len(s) /\ j \in 1 .. Len(s)
    <3>1. PICK a \in 1 .. Len(p) : i = Len(s) + a
      BY <1>4, <2>3
    <3>2. t[i] = p[a] /\ t[j] = s[j] /\ p[a] \in In(p) /\ s[j] \in In(s)
      BY <1>2, <1>3, <2>3, <3>1 DEF In
    <3> QED
      BY <3>2
  <2>4. CASE i \notin 1 .. Len(s) /\ j \notin 1 .. Len(s)
    <3>1. PICK a \in 1 .. Len(p) : i = Len(s) + a
      BY <1>4, <2>4
    <3>2. PICK b \in 1 .. Len(p) : j = Len(s) + b
      BY <1>4, <2>4
    <3>3. a # b /\ t[i] = p[a] /\ t[j] = p[b]
      BY <1>3, <1>6, <3>1, <3>2
    <3> QED
      BY <3>3 DEF Pairwise
  <2> QED
    BY <2>1, <2>2, <2>3, <2>4
<1> QED
  BY <1>5, <1>6 DEF t, Pairwise

Across(parts, R) ==
  \A i, j \in 1 .. Len(parts) : i # j =>
    \A a \in 1 .. Len(parts[i]), b \in 1 .. Len(parts[j]) : <<parts[i][a], parts[j][b]>> \in R

(* The elements of j are those of the parts.                               *)
Collects(j, parts) ==
  /\ \A k \in 1 .. Len(j) : \E i \in 1 .. Len(parts) : \E a \in 1 .. Len(parts[i]) : j[k] = parts[i][a]
  /\ \A i \in 1 .. Len(parts) : \A a \in 1 .. Len(parts[i]) : \E k \in 1 .. Len(j) : j[k] = parts[i][a]

LEMMA JoinedKeeps ==
  ASSUME NEW S, NEW R, NEW parts \in Seq(Seq(S)),
         \A i \in 1 .. Len(parts) : Pairwise(parts[i], R), Across(parts, R)
  PROVE  Joined(parts) \in Seq(S) /\ Pairwise(Joined(parts), R) /\ Collects(Joined(parts), parts)
<1> DEFINE n == Len(parts)
           From(i) == UNION {In(parts[j]) : j \in 1 .. i}
<1>1. PICK u \in [0 .. n -> Seq(S)] :
        /\ u[0] = <<>>
        /\ \A i \in 1 .. n : u[i] = u[i - 1] \o parts[i]
        /\ Joined(parts) = u[n]
  BY JoinedLoop
<1>2. n \in Nat /\ \A i \in 1 .. n : parts[i] \in Seq(S)
  BY LenProperties
<1> DEFINE T == {i \in 0 .. n : Pairwise(u[i], R) /\ In(u[i]) = From(i)}
<1>3. 0 \in T
  <2>1. Len(u[0]) = 0
    BY <1>1, EmptySeq
  <2>2. Pairwise(u[0], R) /\ In(u[0]) = {}
    BY <2>1 DEF Pairwise, In
  <2>3. From(0) = {}
    OBVIOUS
  <2> QED
    BY <1>2, <2>2, <2>3
<1>4. ASSUME NEW i \in 1 .. n, i - 1 \in T
      PROVE  i \in T
  <2>1. i - 1 \in 0 .. n /\ i \in 0 .. n
    BY <1>2
  <2>2. u[i - 1] \in Seq(S) /\ parts[i] \in Seq(S) /\ u[i] = u[i - 1] \o parts[i]
    BY <1>1, <1>2, <2>1
  <2>3. Pairwise(u[i - 1], R) /\ In(u[i - 1]) = From(i - 1)
    BY <1>4
  <2>4. Pairwise(parts[i], R)
    OBVIOUS
  <2>5. ASSUME NEW x \in In(u[i - 1]), NEW y \in In(parts[i])
        PROVE  <<x, y>> \in R /\ <<y, x>> \in R
    <3>1. PICK j \in 1 .. i - 1 : x \in In(parts[j])
      BY <2>3
    <3>2. PICK b \in 1 .. Len(parts[j]) : x = parts[j][b]
      BY <3>1 DEF In
    <3>3. PICK a \in 1 .. Len(parts[i]) : y = parts[i][a]
      BY DEF In
    <3>4. j \in 1 .. n /\ j # i
      BY <1>2
    <3> QED
      BY <3>2, <3>3, <3>4 DEF Across
  <2>6. Pairwise(u[i], R) /\ In(u[i]) = In(u[i - 1]) \cup In(parts[i])
    <3> DEFINE s == u[i - 1]
               p == parts[i]
    <3>1. s \in Seq(S) /\ p \in Seq(S) /\ Pairwise(s, R) /\ Pairwise(p, R) /\ u[i] = s \o p
      BY <2>2, <2>3, <2>4
    <3>2. \A x \in In(s), y \in In(p) : <<x, y>> \in R /\ <<y, x>> \in R
      BY <2>5
    <3> HIDE DEF s, p
    <3>3. Pairwise(s \o p, R) /\ In(s \o p) = In(s) \cup In(p)
      BY <3>1, <3>2, ConcatKeeps
    <3> QED
      BY <3>1, <3>3 DEF s, p
  <2>7. From(i) = From(i - 1) \cup In(parts[i])
    <3>1. 1 .. i = (1 .. i - 1) \cup {i}
      BY <1>2
    <3> QED
      BY <3>1
  <2> HIDE DEF From
  <2> QED
    BY <2>1, <2>3, <2>6, <2>7
<1>5. \A i \in 0 .. n : i \in T
  <2>1. n \in Nat /\ \A i \in 1 .. n : i - 1 \in T => i \in T
    BY <1>2, <1>4
  <2> HIDE DEF T
  <2> QED
    BY <1>3, <2>1, Turns
<1>6. u[n] \in Seq(S) /\ Pairwise(u[n], R) /\ In(u[n]) = From(n)
  BY <1>2, <1>5
<1>7. ASSUME NEW k \in 1 .. Len(u[n])
      PROVE  \E i \in 1 .. n : \E a \in 1 .. Len(parts[i]) : u[n][k] = parts[i][a]
  <2>1. u[n][k] \in From(n)
    BY <1>6 DEF In
  <2>2. PICK i \in 1 .. n : u[n][k] \in In(parts[i])
    BY <2>1
  <2> QED
    BY <2>2 DEF In
<1>8. ASSUME NEW i \in 1 .. n, NEW a \in 1 .. Len(parts[i])
      PROVE  \E k \in 1 .. Len(u[n]) : u[n][k] = parts[i][a]
  <2>1. parts[i][a] \in In(parts[i])
    BY DEF In
  <2>2. parts[i][a] \in From(n)
    BY <2>1
  <2>3. parts[i][a] \in In(u[n])
    BY <1>6, <2>2
  <2> QED
    BY <2>3 DEF In
<1>9. Joined(parts) = u[n]
  BY <1>1
<1> QED
  BY <1>6, <1>7, <1>8, <1>9 DEF Collects

-----------------------------------------------------------------------------
(* The last of some places in a list.                                      *)

LEMMA LastPlace ==
  ASSUME NEW n \in Nat, NEW I \in SUBSET (1 .. n), I # {}
  PROVE  Max(I) \in I /\ \A i \in I : i <= Max(I)
<1> DEFINE T == {k \in 0 .. n : (\E i \in I : i <= k) => \E m \in I : m <= k /\ \A i \in I : i <= k => i <= m}
<1>1. 0 \in T
  OBVIOUS
<1>2. ASSUME NEW k \in 1 .. n, k - 1 \in T
      PROVE  k \in T
  <2>1. CASE k \in I
    <3>1. k <= k /\ \A i \in I : i <= k => i <= k
      OBVIOUS
    <3> QED
      BY <2>1, <3>1
  <2>2. CASE k \notin I
    <3>1. \A i \in I : i <= k <=> i <= k - 1
      BY <2>2
    <3> QED
      BY <1>2, <3>1
  <2> QED
    BY <2>1, <2>2
<1>3. n \in T
  <2>1. \A k \in 1 .. n : k - 1 \in T => k \in T
    BY <1>2
  <2> HIDE DEF T
  <2>2. \A k \in 0 .. n : k \in T
    BY <1>1, <2>1, Turns
  <2> QED
    BY <2>2
<1>4. PICK m \in I : \A i \in I : i <= n => i <= m
  <2>1. PICK e \in I : e \in 1 .. n
    OBVIOUS
  <2>2. \E i \in I : i <= n
    BY <2>1
  <2> QED
    BY <1>3, <2>2
<1>5. \A i \in I : m >= i
  BY <1>4
<1>6. Max(I) \in I /\ \A i \in I : Max(I) >= i
  BY <1>5 DEF Max
<1> QED
  BY <1>6

-----------------------------------------------------------------------------
(* Sorting.                                                                *)

(* What a list holds: ranges of at least one byte.                         *)
Granted == {l \in ByteRange : l.start < l.end}

Before(s, l) == SelectLastInSeq(s, LAMBDA m : m.start <= l.start)

(* What Insert puts where.                                                 *)
LEMMA InsertPlaces ==
  ASSUME NEW s \in Seq(Granted), NEW l \in Granted
  PROVE  /\ Insert(s, l) \in Seq(Granted)
         /\ Len(s) \in Nat /\ Len(Insert(s, l)) = Len(s) + 1
         /\ Before(s, l) \in 0 .. Len(s)
         /\ \A k \in 1 .. Len(s) + 1 :
              Insert(s, l)[k] = IF k <= Before(s, l) THEN s[k]
                                ELSE IF k = Before(s, l) + 1 THEN l ELSE s[k - 1]
         /\ Before(s, l) # 0 => s[Before(s, l)].start <= l.start
         /\ \A k \in 1 .. Len(s) : k > Before(s, l) => l.start < s[k].start
<1> DEFINE I == {i \in 1 .. Len(s) : s[i].start <= l.start}
           b == Before(s, l)
           front == SubSeq(s, 1, b)
           back == SubSeq(s, b + 1, Len(s))
<1>1. Len(s) \in Nat /\ \A i \in 1 .. Len(s) : s[i] \in Granted
  BY LenProperties
<1>2. \A g \in Granted : g.start \in Int
  BY DEF Granted, ByteRange, Bytes
<1>3. b = IF I # {} THEN Max(I) ELSE 0
  BY DEF Before, SelectLastInSeq
<1>4. /\ b \in 0 .. Len(s)
      /\ b # 0 => s[b].start <= l.start
      /\ \A k \in 1 .. Len(s) : k > b => ~(s[k].start <= l.start)
  <2>1. CASE I = {}
    BY <1>1, <1>3, <2>1
  <2>2. CASE I # {}
    <3>1. Max(I) \in I /\ \A i \in I : i <= Max(I)
      <4>1. Len(s) \in Nat /\ I \in SUBSET (1 .. Len(s)) /\ I # {}
        BY <1>1, <2>2
      <4> HIDE DEF I
      <4> QED
        BY <4>1, LastPlace
    <3>2. b = Max(I)
      BY <1>3, <2>2
    <3>3. /\ b \in 1 .. Len(s) /\ s[b].start <= l.start
          /\ \A k \in 1 .. Len(s) : s[k].start <= l.start => k <= b
      BY <3>1, <3>2
    <3> HIDE DEF b
    <3> QED
      BY <1>1, <3>3
  <2> QED
    BY <2>1, <2>2
<1>5. Insert(s, l) = front \o <<l>> \o back
  <2>1. (b + 1) - 1 = b
    BY <1>4
  <2>2. Insert(s, l) = InsertAt(s, b + 1, l)
    BY DEF Insert, Before
  <2> HIDE DEF b
  <2>3. InsertAt(s, b + 1, l) = SubSeq(s, 1, (b + 1) - 1) \o <<l>> \o SubSeq(s, b + 1, Len(s))
    BY DEF InsertAt
  <2>4. SubSeq(s, 1, (b + 1) - 1) = SubSeq(s, 1, b)
    BY <2>1
  <2> QED
    BY <2>2, <2>3, <2>4
<1> HIDE DEF b
<1>6. /\ front \in Seq(Granted) /\ Len(front) = b /\ \A k \in 1 .. b : front[k] = s[k]
      /\ back \in Seq(Granted) /\ Len(back) = Len(s) - b /\ \A k \in 1 .. Len(s) - b : back[k] = s[b + k]
  <2>1. /\ front \in Seq(Granted) /\ Len(front) = IF 1 <= b THEN b - 1 + 1 ELSE 0
        /\ \A k \in 1 .. b - 1 + 1 : front[k] = s[1 + k - 1]
    BY <1>1, <1>4, SubSeqProperties
  <2>2. /\ back \in Seq(Granted) /\ Len(back) = IF b + 1 <= Len(s) THEN Len(s) - (b + 1) + 1 ELSE 0
        /\ \A k \in 1 .. Len(s) - (b + 1) + 1 : back[k] = s[b + 1 + k - 1]
    BY <1>1, <1>4, SubSeqProperties
  <2> HIDE DEF front, back
  <2>3. \A k \in 1 .. b : 1 + k - 1 = k
    BY <1>4
  <2>4. \A k \in 1 .. Len(s) - b : b + 1 + k - 1 = b + k
    BY <1>4
  <2> QED
    BY <1>1, <1>4, <2>1, <2>2, <2>3, <2>4
<1> HIDE DEF front, back
<1> DEFINE one == <<l>>
           fl == front \o one
<1>7. one \in Seq(Granted) /\ Len(one) = 1 /\ one[1] = l
  OBVIOUS
<1>8. /\ fl \in Seq(Granted) /\ Len(fl) = b + 1
      /\ \A k \in 1 .. b + 1 : fl[k] = IF k <= b THEN front[k] ELSE one[k - b]
  <2> HIDE DEF one
  <2>1. front \in Seq(Granted) /\ one \in Seq(Granted)
    BY <1>6, <1>7
  <2>2. /\ fl \in Seq(Granted) /\ Len(fl) = Len(front) + Len(one)
        /\ \A k \in 1 .. Len(front) + Len(one) :
             fl[k] = IF k <= Len(front) THEN front[k] ELSE one[k - Len(front)]
    BY <2>1, ConcatProperties
  <2>3. Len(front) = b /\ Len(one) = 1
    BY <1>6, <1>7
  <2> HIDE DEF fl
  <2> QED
    BY <2>2, <2>3
<1> HIDE DEF fl, one
<1>9. /\ fl \o back \in Seq(Granted) /\ Len(fl \o back) = b + 1 + (Len(s) - b)
      /\ \A k \in 1 .. b + 1 + (Len(s) - b) : (fl \o back)[k] = IF k <= b + 1 THEN fl[k] ELSE back[k - (b + 1)]
  <2>1. /\ fl \o back \in Seq(Granted) /\ Len(fl \o back) = Len(fl) + Len(back)
        /\ \A k \in 1 .. Len(fl) + Len(back) :
             (fl \o back)[k] = IF k <= Len(fl) THEN fl[k] ELSE back[k - Len(fl)]
    <3>1. fl \in Seq(Granted) /\ back \in Seq(Granted)
      BY <1>6, <1>8
    <3> QED
      BY <3>1, ConcatProperties
  <2>2. Len(fl) = b + 1 /\ Len(back) = Len(s) - b
    BY <1>6, <1>8
  <2> QED
    BY <2>1, <2>2
<1>10. Insert(s, l) = fl \o back
  BY <1>5 DEF fl, one
<1>11. b + 1 + (Len(s) - b) = Len(s) + 1
  BY <1>1, <1>4
<1>12. ASSUME NEW k \in 1 .. Len(s) + 1
       PROVE  Insert(s, l)[k] = IF k <= b THEN s[k] ELSE IF k = b + 1 THEN l ELSE s[k - 1]
  <2>1. CASE k <= b
    BY <1>4, <1>6, <1>8, <1>9, <1>10, <1>11, <2>1
  <2>2. CASE k = b + 1
    <3>1. k - b = 1 /\ ~(k <= b) /\ k \in 1 .. b + 1 /\ k <= b + 1
      BY <1>4, <2>2
    <3> QED
      BY <1>7, <1>8, <1>9, <1>10, <1>11, <2>2, <3>1
  <2>3. CASE k > b + 1
    <3>1. k - (b + 1) \in 1 .. Len(s) - b /\ b + (k - (b + 1)) = k - 1 /\ ~(k <= b + 1) /\ ~(k <= b) /\ k # b + 1
      BY <1>1, <1>4, <2>3
    <3> QED
      BY <1>6, <1>9, <1>10, <1>11, <3>1
  <2> QED
    BY <1>4, <2>1, <2>2, <2>3
<1>13. \A k \in 1 .. Len(s) : k > b => l.start < s[k].start
  BY <1>1, <1>2, <1>4
<1> QED
  BY <1>1, <1>4, <1>9, <1>10, <1>11, <1>12, <1>13 DEF b

LEMMA SortedLoop ==
  ASSUME NEW ls \in Seq(Granted)
  PROVE  \E u \in [0 .. Len(ls) -> Seq(Granted)] :
           /\ u[0] = <<>>
           /\ \A i \in 1 .. Len(ls) : u[i] = Insert(u[i - 1], ls[i])
           /\ Sorted(ls) = u[Len(ls)]
<1> DEFINE n == Len(ls)
           A == Seq(Granted)
           step == [i \in 1 .. n |-> [s \in A |-> Insert(s, ls[i])]]
           Is(f) == f = [i \in 0 .. n |-> IF i = 0 THEN <<>> ELSE Insert(f[i - 1], ls[i])]
<1>0. n \in Nat /\ \A i \in 1 .. n : ls[i] \in Granted
  BY LenProperties
<1>1. step \in [1 .. n -> [A -> A]]
  <2>1. \A i \in 1 .. n : \A s \in A : Insert(s, ls[i]) \in A
    BY <1>0, InsertPlaces
  <2> QED
    BY <2>1
<1>2. <<>> \in A
  BY EmptySeq
<1> HIDE DEF A, n
<1>3. PICK f \in [0 .. n -> A] : f[0] = <<>> /\ \A i \in 1 .. n : f[i] = step[i][f[i - 1]]
  <2> HIDE DEF step
  <2>1. n \in Nat /\ step \in Loops(n, A)
    BY <1>0, <1>1 DEF Loops
  <2>2. RunOf(n, A, <<>>, step) # {}
    BY <1>2, <2>1, Loop
  <2> QED
    BY <2>2 DEF RunOf
<1>4. ASSUME NEW i \in 1 .. n PROVE f[i] = Insert(f[i - 1], ls[i])
  <2>1. f[i - 1] \in A
    BY <1>0
  <2>2. step[i] = [s \in A |-> Insert(s, ls[i])]
    OBVIOUS
  <2> HIDE DEF step
  <2>3. f[i] = step[i][f[i - 1]]
    BY <1>3
  <2> QED
    BY <2>1, <2>2, <2>3
<1>5. Is(f)
  <2>1. f = [i \in 0 .. n |-> f[i]]
    OBVIOUS
  <2>2. ASSUME NEW i \in 0 .. n
        PROVE  f[i] = IF i = 0 THEN <<>> ELSE Insert(f[i - 1], ls[i])
    <3> HIDE DEF step
    <3>0. f[0] = <<>>
      BY <1>3
    <3>1. CASE i = 0
      BY <3>0, <3>1
    <3>2. CASE i # 0
      <4>1. i \in 1 .. n
        BY <1>0, <3>2
      <4> QED
        BY <1>4, <3>2, <4>1
    <3> QED
      BY <3>1, <3>2
  <2> QED
    BY <2>1, <2>2
<1> DEFINE u == CHOOSE g : Is(g)
<1>6. Is(u)
  BY <1>5
<1>7. Sorted(ls) = u[n]
  BY DEF Sorted, n
<1> HIDE DEF u
<1>8. u[0] = <<>> /\ \A i \in 1 .. n : u[i] = Insert(u[i - 1], ls[i])
  <2>1. ASSUME NEW i \in 0 .. n
        PROVE  u[i] = IF i = 0 THEN <<>> ELSE Insert(u[i - 1], ls[i])
    BY <1>6
  <2>2. 0 \in 0 .. n /\ \A i \in 1 .. n : i \in 0 .. n /\ i # 0
    BY <1>0
  <2> QED
    BY <2>1, <2>2
<1> DEFINE T == {i \in 0 .. n : u[i] \in A}
<1>9. \A i \in 0 .. n : i \in T
  <2>1. 0 \in T
    BY <1>0, <1>2, <1>8
  <2>2. ASSUME NEW i \in 1 .. n, i - 1 \in T PROVE i \in T
    <3>1. u[i - 1] \in A
      BY <2>2
    <3>2. Insert(u[i - 1], ls[i]) \in A
      BY <1>0, <3>1, InsertPlaces DEF A
    <3>3. u[i] \in A
      BY <1>8, <3>2
    <3> QED
      BY <3>3
  <2>3. n \in Nat /\ \A i \in 1 .. n : i - 1 \in T => i \in T
    BY <1>0, <2>2
  <2> HIDE DEF T
  <2> QED
    BY <2>1, <2>3, Turns
<1>10. u \in [0 .. n -> A]
  BY <1>6, <1>9
<1> QED
  BY <1>7, <1>8, <1>10 DEF A, n

Ordered(s) == \A i, j \in 1 .. Len(s) : i < j => s[i].start <= s[j].start
SameRanges(s, t) == {s[i] : i \in 1 .. Len(s)} = {t[i] : i \in 1 .. Len(t)}

Fits(s, l, R) == \A k \in 1 .. Len(s) : <<s[k], l>> \in R /\ <<l, s[k]>> \in R

LEMMA InsertKeeps ==
  ASSUME NEW R, NEW s \in Seq(Granted), NEW l \in Granted, Ordered(s), Pairwise(s, R), Fits(s, l, R)
  PROVE  Ordered(Insert(s, l)) /\ Pairwise(Insert(s, l), R) /\ In(Insert(s, l)) = In(s) \cup {l}
<1> DEFINE b == Before(s, l)
           t == Insert(s, l)
           n == Len(s)
           Old(k) == IF k <= b THEN k ELSE k - 1
<1>1. /\ n \in Nat /\ Len(t) = n + 1 /\ b \in 0 .. n
      /\ \A k \in 1 .. n + 1 : t[k] = IF k <= b THEN s[k] ELSE IF k = b + 1 THEN l ELSE s[k - 1]
      /\ b # 0 => s[b].start <= l.start
      /\ \A k \in 1 .. n : k > b => l.start < s[k].start
  BY InsertPlaces
<1>2. l.start \in Int /\ \A i \in 1 .. n : s[i].start \in Int
  BY LenProperties DEF Granted, ByteRange, Bytes
<1>3. ASSUME NEW k \in 1 .. n + 1, k # b + 1
      PROVE  Old(k) \in 1 .. n /\ t[k] = s[Old(k)]
  BY <1>1, <1>3
<1>4. \A k \in 1 .. n : k <= b => s[k].start <= l.start
  <2> SUFFICES ASSUME NEW k \in 1 .. n, k <= b PROVE s[k].start <= l.start
    OBVIOUS
  <2>1. b \in 1 .. n /\ s[b].start <= l.start
    BY <1>1
  <2>2. s[k].start <= s[b].start
    BY <1>2, <2>1 DEF Ordered
  <2> QED
    BY <1>2, <2>1, <2>2
<1>5. b + 1 \in 1 .. n + 1 /\ t[b + 1] = l
  BY <1>1
<1> HIDE DEF b, t
<1>6. ASSUME NEW i \in 1 .. n + 1, NEW j \in 1 .. n + 1, i < j
      PROVE  t[i].start <= t[j].start
  <2>1. CASE i = b + 1
    <3>1. Old(j) \in 1 .. n /\ Old(j) > b /\ t[j] = s[Old(j)]
      BY <1>1, <1>3, <1>6, <2>1
    <3>2. l.start < s[Old(j)].start
      BY <1>1, <3>1
    <3> QED
      BY <1>2, <1>5, <2>1, <3>1, <3>2
  <2>2. CASE j = b + 1
    <3>1. Old(i) \in 1 .. n /\ Old(i) <= b /\ t[i] = s[Old(i)]
      BY <1>1, <1>3, <1>6, <2>2
    <3> QED
      BY <1>4, <1>5, <2>2, <3>1
  <2>3. CASE i # b + 1 /\ j # b + 1
    <3>1. /\ Old(i) \in 1 .. n /\ t[i] = s[Old(i)] /\ Old(j) \in 1 .. n /\ t[j] = s[Old(j)]
      BY <1>3, <2>3
    <3>2. Old(i) < Old(j)
      BY <1>1, <1>6, <2>3
    <3> QED
      BY <3>1, <3>2 DEF Ordered
  <2> QED
    BY <2>1, <2>2, <2>3
<1>7. ASSUME NEW i \in 1 .. n + 1, NEW j \in 1 .. n + 1, i # j
      PROVE  <<t[i], t[j]>> \in R
  <2>1. CASE i = b + 1
    BY <1>3, <1>5, <1>7, <2>1 DEF Fits
  <2>2. CASE j = b + 1
    BY <1>3, <1>5, <1>7, <2>2 DEF Fits
  <2>3. CASE i # b + 1 /\ j # b + 1
    <3>1. /\ Old(i) \in 1 .. n /\ t[i] = s[Old(i)] /\ Old(j) \in 1 .. n /\ t[j] = s[Old(j)]
      BY <1>3, <2>3
    <3>2. Old(i) # Old(j)
      BY <1>1, <1>7, <2>3
    <3> QED
      BY <3>1, <3>2 DEF Pairwise
  <2> QED
    BY <2>1, <2>2, <2>3
<1>8. ASSUME NEW k \in 1 .. n
      PROVE  \E i \in 1 .. n + 1 : t[i] = s[k]
  <2>1. CASE k <= b
    <3>1. k \in 1 .. n + 1 /\ k # b + 1 /\ Old(k) = k
      BY <1>1, <2>1
    <3> QED
      BY <1>3, <3>1
  <2>2. CASE ~(k <= b)
    <3>1. k + 1 \in 1 .. n + 1 /\ k + 1 # b + 1 /\ Old(k + 1) = k
      BY <1>1, <2>2
    <3> QED
      BY <1>3, <3>1
  <2> QED
    BY <2>1, <2>2
<1>9. {t[i] : i \in 1 .. n + 1} = {s[i] : i \in 1 .. n} \cup {l}
  <2> HIDE DEF Old, n
  <2>1. \A i \in 1 .. n + 1 : t[i] \in {s[k] : k \in 1 .. n} \cup {l}
    BY <1>3, <1>5
  <2>2. \A k \in 1 .. n : s[k] \in {t[i] : i \in 1 .. n + 1}
    BY <1>8
  <2>3. l \in {t[i] : i \in 1 .. n + 1}
    BY <1>5
  <2> QED
    BY <2>1, <2>2, <2>3
<1>10. Ordered(t)
  BY <1>1, <1>6 DEF Ordered
<1>11. Pairwise(t, R)
  BY <1>1, <1>7 DEF Pairwise
<1>12. In(t) = In(s) \cup {l}
  BY <1>1, <1>9 DEF In
<1> QED
  BY <1>10, <1>11, <1>12 DEF t

(* Sorting keeps the ranges, and what held of any two of them.             *)
LEMMA SortedKeeps ==
  ASSUME NEW R, NEW ls \in Seq(Granted), Pairwise(ls, R)
  PROVE  /\ Sorted(ls) \in Seq(Granted) /\ Ordered(Sorted(ls))
         /\ Pairwise(Sorted(ls), R) /\ SameRanges(Sorted(ls), ls)
<1> DEFINE n == Len(ls)
<1>1. PICK u \in [0 .. n -> Seq(Granted)] :
        /\ u[0] = <<>>
        /\ \A i \in 1 .. n : u[i] = Insert(u[i - 1], ls[i])
        /\ Sorted(ls) = u[n]
  BY SortedLoop
<1>2. n \in Nat /\ \A i \in 1 .. n : ls[i] \in Granted
  BY LenProperties
<1> DEFINE Of(i) == {u[i][k] : k \in 1 .. Len(u[i])} = {ls[k] : k \in 1 .. i}
           T == {i \in 0 .. n : Ordered(u[i]) /\ Pairwise(u[i], R) /\ Of(i)}
<1>3. 0 \in T
  <2>1. Len(u[0]) = 0
    BY <1>1, EmptySeq
  <2>2. Ordered(u[0]) /\ Pairwise(u[0], R)
    BY <2>1 DEF Ordered, Pairwise
  <2>3. 1 .. 0 = {}
    OBVIOUS
  <2>4. Of(0)
    BY <2>1, <2>3
  <2>5. 0 \in 0 .. n
    BY <1>2
  <2> HIDE DEF Of
  <2> QED
    BY <2>2, <2>4, <2>5
<1>4. ASSUME NEW i \in 1 .. n, i - 1 \in T
      PROVE  i \in T
  <2> DEFINE s == u[i - 1]
  <2>1. i - 1 \in 0 .. n /\ i \in 0 .. n /\ i \in 1 .. n /\ s \in Seq(Granted) /\ ls[i] \in Granted
    BY <1>2
  <2>2. Ordered(s) /\ Pairwise(s, R) /\ Of(i - 1)
    BY <1>4
  <2>3. ASSUME NEW k \in 1 .. Len(s)
        PROVE  <<s[k], ls[i]>> \in R /\ <<ls[i], s[k]>> \in R
    <3>1. PICK j \in 1 .. i - 1 : s[k] = ls[j]
      BY <2>2
    <3>2. j \in 1 .. n /\ j # i
      BY <1>2
    <3> QED
      BY <2>1, <3>1, <3>2 DEF Pairwise
  <2>4. u[i] = Insert(s, ls[i])
    BY <1>1
  <2> HIDE DEF s
  <2>5. /\ Ordered(u[i]) /\ Pairwise(u[i], R)
        /\ {u[i][k] : k \in 1 .. Len(u[i])} = {s[k] : k \in 1 .. Len(s)} \cup {ls[i]}
    <3> DEFINE l == ls[i]
               t == Insert(s, l)
    <3>1. s \in Seq(Granted) /\ l \in Granted /\ Ordered(s) /\ Pairwise(s, R)
      BY <2>1, <2>2
    <3>2. Fits(s, l, R)
      BY <2>3 DEF Fits
    <3> HIDE DEF l
    <3>3. Ordered(t) /\ Pairwise(t, R) /\ In(t) = In(s) \cup {l}
      BY <3>1, <3>2, InsertKeeps
    <3>4. u[i] = t
      BY <2>4 DEF l
    <3> HIDE DEF t
    <3> QED
      BY <3>3, <3>4 DEF l, In
  <2>6. {ls[k] : k \in 1 .. i} = {ls[k] : k \in 1 .. i - 1} \cup {ls[i]}
    <3>1. 1 .. i = (1 .. i - 1) \cup {i}
      BY <1>2
    <3> QED
      BY <3>1
  <2>7. Of(i)
    BY <2>2, <2>5, <2>6 DEF s
  <2> QED
    BY <2>1, <2>5, <2>7
<1>5. n \in T
  <2>1. n \in Nat /\ \A i \in 1 .. n : i - 1 \in T => i \in T
    BY <1>2, <1>4
  <2> HIDE DEF T
  <2>2. \A i \in 0 .. n : i \in T
    BY <1>3, <2>1, Turns
  <2> QED
    BY <2>1, <2>2
<1>6. u[n] \in Seq(Granted)
  BY <1>2
<1> QED
  BY <1>1, <1>5, <1>6 DEF SameRanges

-----------------------------------------------------------------------------
(* Merging.                                                                *)

SameGroup(m, l) == m.owner = l.owner /\ m.open = l.open

LEMMA LastOfGroup ==
  ASSUME NEW m \in Seq(Granted), NEW l
  PROVE  /\ Len(m) \in Nat /\ LastOf(m, l) \in 0 .. Len(m)
         /\ LastOf(m, l) # 0 => SameGroup(m[LastOf(m, l)], l)
         /\ \A k \in 1 .. Len(m) : k > LastOf(m, l) => ~SameGroup(m[k], l)
<1> DEFINE I == {i \in 1 .. Len(m) : m[i].owner = l.owner /\ m[i].open = l.open}
           last == LastOf(m, l)
<1>1. Len(m) \in Nat
  BY LenProperties
<1>2. last = IF I # {} THEN Max(I) ELSE 0
  BY DEF LastOf, SelectLastInSeq
<1>3. CASE I = {}
  BY <1>1, <1>2, <1>3 DEF SameGroup
<1>4. CASE I # {}
  <2>1. Max(I) \in I /\ \A i \in I : i <= Max(I)
    <3>1. Len(m) \in Nat /\ I \in SUBSET (1 .. Len(m)) /\ I # {}
      BY <1>1, <1>4
    <3> HIDE DEF I
    <3> QED
      BY <3>1, LastPlace
  <2>2. last = Max(I)
    BY <1>2, <1>4
  <2>3. /\ last \in 1 .. Len(m) /\ m[last].owner = l.owner /\ m[last].open = l.open
        /\ \A k \in 1 .. Len(m) : m[k].owner = l.owner /\ m[k].open = l.open => k <= last
    BY <2>1, <2>2
  <2> HIDE DEF last
  <2>4. \A k \in 1 .. Len(m) : k > last => ~(m[k].owner = l.owner /\ m[k].open = l.open)
    BY <1>1, <2>3
  <2> QED
    BY <1>1, <2>3, <2>4 DEF SameGroup, last
<1> QED
  BY <1>3, <1>4

LEMMA GrantedTypes ==
  ASSUME NEW l \in Granted
  PROVE  /\ l.owner \in Owners /\ l.open \in Opens /\ l.type \in Types
         /\ l.start \in Nat /\ l.end \in Nat /\ l.start < l.end /\ l.start <= MaxFileLen /\ l.end <= EofEnd
BY BoundsAssumption DEF Granted, ByteRange, Bytes, EofEnd

(* What becomes of the range l is merged with.                             *)
Extended(m, l) == [m EXCEPT !.end = IF @ > l.end THEN @ ELSE l.end]

LEMMA ExtendedType ==
  ASSUME NEW m \in Granted, NEW l \in Granted
  PROVE  /\ Extended(m, l) \in Granted
         /\ Extended(m, l).owner = m.owner /\ Extended(m, l).open = m.open /\ Extended(m, l).type = m.type
         /\ Extended(m, l).start = m.start
         /\ Extended(m, l).end = IF m.end > l.end THEN m.end ELSE l.end
BY BoundsAssumption DEF Extended, Granted, ByteRange, Bytes, EofEnd

LEMMA MergePlaces ==
  ASSUME NEW m \in Seq(Granted), NEW l \in Granted
  PROVE  /\ Merge(m, l) \in Seq(Granted)
         /\ Joins(m, l) =>
              /\ LastOf(m, l) \in 1 .. Len(m) /\ Len(Merge(m, l)) = Len(m)
              /\ \A k \in 1 .. Len(m) :
                   Merge(m, l)[k] = IF k = LastOf(m, l) THEN Extended(m[k], l) ELSE m[k]
         /\ ~Joins(m, l) =>
              /\ Len(Merge(m, l)) = Len(m) + 1
              /\ \A k \in 1 .. Len(m) : Merge(m, l)[k] = m[k]
              /\ Merge(m, l)[Len(m) + 1] = l
<1> DEFINE last == LastOf(m, l)
<1>1. CASE Joins(m, l)
  <2>1. last \in 1 .. Len(m)
    BY <1>1, LastOfGroup DEF Joins
  <2>2. m[last] \in Granted
    BY <2>1, ElementOfSeq
  <2>3. Extended(m[last], l) \in Granted
    BY <2>2, ExtendedType
  <2>4. Merge(m, l) = [m EXCEPT ![last] = Extended(m[last], l)]
    BY <1>1 DEF Merge, Extended
  <2> HIDE DEF last
  <2>5. /\ Merge(m, l) \in Seq(Granted) /\ Len(Merge(m, l)) = Len(m)
        /\ \A k \in 1 .. Len(m) : Merge(m, l)[k] = IF k = last THEN Extended(m[last], l) ELSE m[k]
    BY <2>1, <2>3, <2>4, ExceptSeq
  <2> QED
    BY <1>1, <2>1, <2>5 DEF last
<1>2. CASE ~Joins(m, l)
  <2>1. Merge(m, l) = Append(m, l)
    BY <1>2 DEF Merge
  <2> QED
    BY <1>2, <2>1, AppendProperties
<1> QED
  BY <1>1, <1>2

LEMMA CoalesceLoop ==
  ASSUME NEW ls, Sorted(ls) \in Seq(Granted)
  PROVE  LET sorted == Sorted(ls)
         IN  \E u \in [0 .. Len(sorted) -> Seq(Granted)] :
               /\ u[0] = <<>>
               /\ \A i \in 1 .. Len(sorted) : u[i] = Merge(u[i - 1], sorted[i])
               /\ Coalesce(ls) = u[Len(sorted)]
<1> DEFINE sorted == Sorted(ls)
           n == Len(sorted)
           A == Seq(Granted)
           step == [i \in 1 .. n |-> [s \in A |-> Merge(s, sorted[i])]]
           Is(f) == f = [i \in 0 .. n |-> IF i = 0 THEN <<>> ELSE Merge(f[i - 1], sorted[i])]
           u == CHOOSE g : Is(g)
<1>1. Coalesce(ls) = u[n]
  BY DEF Coalesce
<1>0. n \in Nat /\ \A i \in 1 .. n : sorted[i] \in Granted
  BY LenProperties
<1> HIDE DEF sorted, u
<1>2. step \in [1 .. n -> [A -> A]]
  <2>1. \A i \in 1 .. n : \A s \in A : Merge(s, sorted[i]) \in A
    BY <1>0, MergePlaces
  <2> QED
    BY <2>1
<1>3. <<>> \in A
  BY EmptySeq
<1> HIDE DEF A, n
<1>4. PICK f \in [0 .. n -> A] : f[0] = <<>> /\ \A i \in 1 .. n : f[i] = step[i][f[i - 1]]
  <2> HIDE DEF step
  <2>1. n \in Nat /\ step \in Loops(n, A)
    BY <1>0, <1>2 DEF Loops
  <2>2. RunOf(n, A, <<>>, step) # {}
    BY <1>3, <2>1, Loop
  <2> QED
    BY <2>2 DEF RunOf
<1>5. ASSUME NEW i \in 1 .. n PROVE f[i] = Merge(f[i - 1], sorted[i])
  <2>1. f[i - 1] \in A
    BY <1>0
  <2>2. step[i] = [s \in A |-> Merge(s, sorted[i])]
    OBVIOUS
  <2> HIDE DEF step
  <2>3. f[i] = step[i][f[i - 1]]
    BY <1>4
  <2> QED
    BY <2>1, <2>2, <2>3
<1>6. Is(f)
  <2>1. f = [i \in 0 .. n |-> f[i]]
    OBVIOUS
  <2>2. ASSUME NEW i \in 0 .. n
        PROVE  f[i] = IF i = 0 THEN <<>> ELSE Merge(f[i - 1], sorted[i])
    <3> HIDE DEF step
    <3>0. f[0] = <<>>
      BY <1>4
    <3>1. CASE i = 0
      BY <3>0, <3>1
    <3>2. CASE i # 0
      <4>1. i \in 1 .. n
        BY <1>0, <3>2
      <4> QED
        BY <1>5, <3>2, <4>1
    <3> QED
      BY <3>1, <3>2
  <2> QED
    BY <2>1, <2>2
<1>7. Is(u)
  BY <1>6 DEF u
<1>8. u[0] = <<>> /\ \A i \in 1 .. n : u[i] = Merge(u[i - 1], sorted[i])
  <2>1. ASSUME NEW i \in 0 .. n
        PROVE  u[i] = IF i = 0 THEN <<>> ELSE Merge(u[i - 1], sorted[i])
    BY <1>7
  <2>2. 0 \in 0 .. n /\ \A i \in 1 .. n : i \in 0 .. n /\ i # 0
    BY <1>0
  <2> QED
    BY <2>1, <2>2
<1> DEFINE T == {i \in 0 .. n : u[i] \in A}
<1>9. \A i \in 0 .. n : i \in T
  <2>1. 0 \in T
    BY <1>0, <1>3, <1>8
  <2>2. ASSUME NEW i \in 1 .. n, i - 1 \in T PROVE i \in T
    <3>1. u[i - 1] \in A
      BY <2>2
    <3>2. Merge(u[i - 1], sorted[i]) \in A
      BY <1>0, <3>1, MergePlaces DEF A
    <3>3. u[i] \in A
      BY <1>8, <3>2
    <3> QED
      BY <3>3
  <2>3. n \in Nat /\ \A i \in 1 .. n : i - 1 \in T => i \in T
    BY <1>0, <2>2
  <2> HIDE DEF T
  <2> QED
    BY <2>1, <2>3, Turns
<1>10. u \in [0 .. n -> A]
  BY <1>7, <1>9
<1> QED
  BY <1>1, <1>8, <1>10 DEF A, n, sorted

(* The bytes of a range, and of a list of them.                            *)
BytesHeld(l) == {[owner |-> l.owner, open |-> l.open, type |-> l.type, byte |-> b] : b \in BytesOf(l)}
Stands(s) == UNION {BytesHeld(s[i]) : i \in 1 .. Len(s)}

Precedes(a, b) == a.owner = b.owner => a.end <= b.start
Laid(s) ==
  \A i, j \in 1 .. Len(s) : i < j =>
    Precedes(s[i], s[j]) /\ (SameGroup(s[i], s[j]) /\ s[i].type = s[j].type => s[i].end # s[j].start)

Behind(m, x) == \A k \in 1 .. Len(m) : Precedes(m[k], x)

LEMMA MergeKeeps ==
  ASSUME NEW m \in Seq(Granted), NEW l \in Granted, Laid(m), Behind(m, l)
  PROVE  /\ Laid(Merge(m, l)) /\ Stands(Merge(m, l)) = Stands(m) \cup BytesHeld(l)
         /\ \A x \in Granted : Precedes(l, x) /\ Behind(m, x) => Behind(Merge(m, l), x)
<1> DEFINE n == Len(m)
           last == LastOf(m, l)
           t == Merge(m, l)
<1>0. /\ n \in Nat /\ \A k \in 1 .. n : m[k] \in Granted
      /\ last \in 0 .. n /\ (last # 0 => SameGroup(m[last], l))
      /\ \A k \in 1 .. n : k > last => ~SameGroup(m[k], l)
  BY LenProperties, LastOfGroup
<1>1. \A k \in 1 .. n : /\ m[k].start \in Nat /\ m[k].end \in Nat /\ m[k].start < m[k].end
  BY <1>0, GrantedTypes
<1>2. l.start \in Nat /\ l.end \in Nat /\ l.start < l.end
  BY GrantedTypes
<1>3. CASE Joins(m, l)
  <2>1. /\ last \in 1 .. n /\ m[last].type = l.type /\ m[last].end >= l.start /\ SameGroup(m[last], l)
    BY <1>0, <1>3 DEF Joins
  <2>2. m[last].end = l.start
    BY <1>1, <1>2, <2>1 DEF Behind, Precedes, SameGroup
  <2> DEFINE e == Extended(m[last], l)
  <2>3. /\ e \in Granted /\ e.owner = l.owner /\ e.open = l.open /\ e.type = l.type
        /\ e.owner = m[last].owner /\ e.open = m[last].open /\ e.type = m[last].type
        /\ e.start = m[last].start /\ e.end = l.end
    BY <1>0, <1>1, <1>2, <2>1, <2>2, ExtendedType DEF SameGroup
  <2>4. Len(t) = n /\ \A k \in 1 .. n : t[k] = IF k = last THEN e ELSE m[k]
    <3>1. /\ Len(t) = n
          /\ \A k \in 1 .. n : t[k] = IF k = last THEN Extended(m[k], l) ELSE m[k]
      BY <1>3, MergePlaces
    <3> HIDE DEF t, last
    <3> QED
      BY <3>1
  <2> HIDE DEF e, t, last
  <2>5. \A k \in 1 .. n : k > last => m[k].owner # l.owner
    <3> SUFFICES ASSUME NEW k \in 1 .. n, k > last, m[k].owner = l.owner PROVE FALSE
      OBVIOUS
    <3>1. m[last].end <= m[k].start
      BY <1>0, <2>1 DEF Laid, Precedes, SameGroup
    <3>2. m[k].end <= l.start
      BY DEF Behind, Precedes
    <3> QED
      BY <1>1, <1>2, <2>1, <2>2, <3>1, <3>2
  <2>6. Laid(t)
    <3> SUFFICES ASSUME NEW i \in 1 .. n, NEW j \in 1 .. n, i < j
                 PROVE  Precedes(t[i], t[j])
                        /\ (SameGroup(t[i], t[j]) /\ t[i].type = t[j].type => t[i].end # t[j].start)
      BY <2>4 DEF Laid
    <3>1. CASE i = last
      <4>1. t[i].owner # t[j].owner
        BY <2>3, <2>4, <2>5, <3>1
      <4> QED
        BY <4>1 DEF Precedes, SameGroup
    <3>2. CASE j = last
      <4>1. t[i] = m[i] /\ t[j] = e
        BY <2>4, <3>2
      <4>2. Precedes(m[i], m[last]) /\ (SameGroup(m[i], m[last]) /\ m[i].type = m[last].type => m[i].end # m[last].start)
        BY <3>2 DEF Laid
      <4> QED
        BY <2>3, <4>1, <4>2 DEF Precedes, SameGroup
    <3>3. CASE i # last /\ j # last
      BY <2>4, <3>3 DEF Laid
    <3> QED
      BY <3>1, <3>2, <3>3
  <2>7. BytesHeld(e) = BytesHeld(m[last]) \cup BytesHeld(l)
    <3>1. BytesOf(e) = BytesOf(m[last]) \cup BytesOf(l)
      BY <1>1, <1>2, <2>1, <2>2, <2>3 DEF BytesOf
    <3>2. m[last].owner = l.owner /\ m[last].open = l.open /\ m[last].type = l.type
      BY <2>1 DEF SameGroup
    <3> QED
      BY <2>3, <3>1, <3>2 DEF BytesHeld
  <2>8. Stands(t) = Stands(m) \cup BytesHeld(l)
    <3>1. Stands(t) = UNION {BytesHeld(t[i]) : i \in 1 .. n}
      BY <2>4 DEF Stands
    <3>2. ASSUME NEW x \in Stands(t) PROVE x \in Stands(m) \cup BytesHeld(l)
      <4>1. PICK i \in 1 .. n : x \in BytesHeld(t[i])
        BY <3>1
      <4> QED
        BY <2>1, <2>4, <2>7, <4>1 DEF Stands
    <3>3. ASSUME NEW x \in Stands(m) PROVE x \in Stands(t)
      <4>1. PICK i \in 1 .. n : x \in BytesHeld(m[i])
        BY DEF Stands
      <4> QED
        BY <2>4, <2>7, <3>1, <4>1
    <3>4. ASSUME NEW x \in BytesHeld(l) PROVE x \in Stands(t)
      BY <2>1, <2>4, <2>7, <3>1
    <3> QED
      BY <3>2, <3>3, <3>4
  <2>9. ASSUME NEW x \in Granted, Precedes(l, x), Behind(m, x)
        PROVE  Behind(t, x)
    BY <2>3, <2>4, <2>9 DEF Precedes, Behind
  <2> QED
    BY <2>6, <2>8, <2>9 DEF t
<1>4. CASE ~Joins(m, l)
  <2>1. Len(t) = n + 1 /\ t[n + 1] = l /\ \A k \in 1 .. n : t[k] = m[k]
    BY <1>4, MergePlaces
  <2>2. ASSUME NEW k \in 1 .. n, SameGroup(m[k], l), m[k].type = l.type
        PROVE  m[k].end # l.start
    <3>1. last \in 1 .. n /\ k <= last /\ SameGroup(m[last], l)
      BY <1>0, <2>2
    <3>2. m[last].type # l.type \/ ~(m[last].end >= l.start)
      BY <1>4, <3>1 DEF Joins
    <3>3. CASE k = last
      BY <1>1, <1>2, <2>2, <3>1, <3>2, <3>3
    <3>4. CASE k < last
      <4>1. m[k].end <= m[last].start
        BY <2>2, <3>1, <3>4 DEF Laid, Precedes, SameGroup
      <4>2. m[last].end <= l.start
        BY <3>1 DEF Behind, Precedes, SameGroup
      <4> QED
        BY <1>1, <1>2, <3>1, <4>1, <4>2
    <3> QED
      BY <1>0, <3>1, <3>3, <3>4
  <2> HIDE DEF t
  <2>3. Laid(t)
    <3> SUFFICES ASSUME NEW i \in 1 .. n + 1, NEW j \in 1 .. n + 1, i < j
                 PROVE  Precedes(t[i], t[j])
                        /\ (SameGroup(t[i], t[j]) /\ t[i].type = t[j].type => t[i].end # t[j].start)
      BY <2>1 DEF Laid
    <3>1. i \in 1 .. n /\ t[i] = m[i]
      BY <1>0, <2>1
    <3>2. CASE j = n + 1
      BY <2>1, <2>2, <3>1, <3>2 DEF Behind
    <3>3. CASE j # n + 1
      <4>1. j \in 1 .. n /\ t[j] = m[j]
        BY <1>0, <2>1, <3>3
      <4> QED
        BY <3>1, <4>1 DEF Laid
    <3> QED
      BY <3>2, <3>3
  <2>4. Stands(t) = Stands(m) \cup BytesHeld(l)
    <3>1. 1 .. n + 1 = (1 .. n) \cup {n + 1}
      BY <1>0
    <3>2. Stands(t) = UNION {BytesHeld(t[i]) : i \in (1 .. n) \cup {n + 1}}
      BY <2>1, <3>1 DEF Stands
    <3> QED
      BY <2>1, <3>2 DEF Stands
  <2>5. ASSUME NEW x \in Granted, Precedes(l, x), Behind(m, x)
        PROVE  Behind(t, x)
    <3>1. \A k \in 1 .. Len(t) : k \in 1 .. n \/ k = n + 1
      BY <1>0, <2>1
    <3> QED
      BY <2>1, <2>5, <3>1 DEF Behind
  <2> QED
    BY <2>3, <2>4, <2>5 DEF t
<1> QED
  BY <1>3, <1>4

(* Two ranges of one owner share no byte; nor do they touch, if they are   *)
(* of one group and type.                                                  *)
Apart(a, b) == a.owner = b.owner => a.end <= b.start \/ b.end <= a.start
Clear(a, b) ==
  /\ Apart(a, b)
  /\ SameGroup(a, b) /\ a.type = b.type => a.end # b.start /\ b.end # a.start
ApartPairs == {p \in Granted \X Granted : Apart(p[1], p[2])}
ClearPairs == {p \in Granted \X Granted : Clear(p[1], p[2])}

LEMMA LaidIsClear ==
  ASSUME NEW s \in Seq(Granted), Laid(s)
  PROVE  Pairwise(s, ClearPairs)
<1> SUFFICES ASSUME NEW i \in 1 .. Len(s), NEW j \in 1 .. Len(s), i # j
             PROVE  <<s[i], s[j]>> \in ClearPairs
  BY DEF Pairwise
<1>1. Len(s) \in Nat /\ s[i] \in Granted /\ s[j] \in Granted
  BY LenProperties
<1>2. /\ s[i].start \in Nat /\ s[i].end \in Nat /\ s[i].start < s[i].end
      /\ s[j].start \in Nat /\ s[j].end \in Nat /\ s[j].start < s[j].end
  BY <1>1, GrantedTypes
<1>3. Clear(s[i], s[j])
  <2>1. CASE i < j
    BY <1>2, <2>1 DEF Laid, Precedes, Clear, Apart, SameGroup
  <2>2. CASE j < i
    BY <1>2, <2>2 DEF Laid, Precedes, Clear, Apart, SameGroup
  <2> QED
    BY <1>1, <2>1, <2>2
<1> QED
  BY <1>1, <1>3 DEF ClearPairs

(* Merging keeps the bytes of ranges that are apart, and clears them.      *)
LEMMA CoalesceKeeps ==
  ASSUME NEW ls \in Seq(Granted), Pairwise(ls, ApartPairs)
  PROVE  /\ Coalesce(ls) \in Seq(Granted) /\ Pairwise(Coalesce(ls), ClearPairs)
         /\ Stands(Coalesce(ls)) = Stands(ls)
<1> DEFINE sorted == Sorted(ls)
           n == Len(sorted)
<1>1. /\ sorted \in Seq(Granted) /\ Ordered(sorted)
      /\ Pairwise(sorted, ApartPairs) /\ SameRanges(sorted, ls)
  BY SortedKeeps
<1>2. PICK u \in [0 .. n -> Seq(Granted)] :
        /\ u[0] = <<>>
        /\ \A i \in 1 .. n : u[i] = Merge(u[i - 1], sorted[i])
        /\ Coalesce(ls) = u[n]
  BY <1>1, CoalesceLoop
<1> HIDE DEF sorted
<1>3. n \in Nat /\ \A i \in 1 .. n : sorted[i] \in Granted
  BY <1>1, LenProperties
<1>4. ASSUME NEW i \in 1 .. n, NEW j \in 1 .. n, i < j
      PROVE  Precedes(sorted[i], sorted[j])
  <2>1. Apart(sorted[i], sorted[j])
    <3>1. i # j
      BY <1>3, <1>4
    <3>2. <<sorted[i], sorted[j]>> \in ApartPairs
      BY <1>1, <3>1 DEF Pairwise
    <3> QED
      BY <3>2 DEF ApartPairs
  <2>2. sorted[i].start <= sorted[j].start
    BY <1>1, <1>4 DEF Ordered
  <2>3. /\ sorted[i].start \in Nat /\ sorted[i].end \in Nat /\ sorted[i].start < sorted[i].end
        /\ sorted[j].start \in Nat /\ sorted[j].end \in Nat /\ sorted[j].start < sorted[j].end
    BY <1>3, GrantedTypes
  <2> QED
    BY <2>1, <2>2, <2>3 DEF Apart, Precedes
<1> DEFINE Of(i) == Stands(u[i]) = UNION {BytesHeld(sorted[k]) : k \in 1 .. i}
           Done(i) == \A j \in 1 .. n : i < j => Behind(u[i], sorted[j])
           T == {i \in 0 .. n : Laid(u[i]) /\ Of(i) /\ Done(i)}
<1>5. 0 \in T
  <2>1. Len(u[0]) = 0 /\ 1 .. 0 = {}
    BY <1>2, EmptySeq
  <2>2. Laid(u[0]) /\ Done(0)
    BY <2>1 DEF Laid, Behind
  <2>3. Of(0)
    BY <2>1 DEF Stands
  <2> QED
    BY <1>3, <2>2, <2>3
<1>6. ASSUME NEW i \in 1 .. n, i - 1 \in T
      PROVE  i \in T
  <2> DEFINE m == u[i - 1]
             l == sorted[i]
  <2>1. i - 1 \in 0 .. n /\ i \in 0 .. n /\ i - 1 < i /\ m \in Seq(Granted) /\ l \in Granted /\ u[i] = Merge(m, l)
    BY <1>2, <1>3
  <2>2. Laid(m) /\ Of(i - 1) /\ Done(i - 1)
    BY <1>6
  <2>3. Behind(m, l)
    BY <2>1, <2>2
  <2>4. \A k \in 1 .. n : i < k => Precedes(l, sorted[k]) /\ Behind(m, sorted[k])
    BY <1>4, <2>1, <2>2
  <2>5. /\ Laid(u[i]) /\ Stands(u[i]) = Stands(m) \cup BytesHeld(l)
        /\ \A x \in Granted : Precedes(l, x) /\ Behind(m, x) => Behind(u[i], x)
    <3> HIDE DEF m, l
    <3>1. Laid(m) /\ Behind(m, l)
      BY <2>2, <2>3
    <3>2. /\ Laid(Merge(m, l)) /\ Stands(Merge(m, l)) = Stands(m) \cup BytesHeld(l)
          /\ \A x \in Granted : Precedes(l, x) /\ Behind(m, x) => Behind(Merge(m, l), x)
      BY <2>1, <3>1, MergeKeeps
    <3> QED
      BY <2>1, <3>2
  <2> HIDE DEF m, l
  <2>6. Done(i)
    BY <1>3, <2>4, <2>5
  <2>7. Of(i)
    <3>1. 1 .. i = (1 .. i - 1) \cup {i}
      BY <1>3
    <3> QED
      BY <2>2, <2>5, <3>1 DEF m, l
  <2> QED
    BY <2>1, <2>5, <2>6, <2>7
<1>7. n \in T
  <2>1. n \in Nat /\ \A i \in 1 .. n : i - 1 \in T => i \in T
    BY <1>3, <1>6
  <2> HIDE DEF T
  <2>2. \A i \in 0 .. n : i \in T
    BY <1>5, <2>1, Turns
  <2> QED
    BY <2>1, <2>2
<1>8. u[n] \in Seq(Granted)
  BY <1>3
<1>9. UNION {BytesHeld(sorted[k]) : k \in 1 .. n} = Stands(ls)
  <2>1. ASSUME NEW x \in UNION {BytesHeld(sorted[k]) : k \in 1 .. n} PROVE x \in Stands(ls)
    <3>1. PICK k \in 1 .. n : x \in BytesHeld(sorted[k])
      OBVIOUS
    <3>2. PICK i \in 1 .. Len(ls) : ls[i] = sorted[k]
      BY <1>1 DEF SameRanges
    <3> QED
      BY <3>1, <3>2 DEF Stands
  <2>2. ASSUME NEW x \in Stands(ls) PROVE x \in UNION {BytesHeld(sorted[k]) : k \in 1 .. n}
    <3>1. PICK i \in 1 .. Len(ls) : x \in BytesHeld(ls[i])
      BY DEF Stands
    <3>2. PICK k \in 1 .. n : ls[i] = sorted[k]
      BY <1>1 DEF SameRanges
    <3> QED
      BY <3>1, <3>2
  <2> QED
    BY <2>1, <2>2
<1>10. Laid(u[n]) /\ Stands(u[n]) = Stands(ls)
  BY <1>7, <1>9
<1> QED
  BY <1>2, <1>8, <1>10, LaidIsClear

-----------------------------------------------------------------------------
(* Splitting.                                                              *)

Within(p, l) ==
  p.owner = l.owner /\ p.open = l.open /\ p.type = l.type /\ l.start <= p.start /\ p.end <= l.end

LEMMA ClearWithin ==
  ASSUME NEW a \in Granted, NEW b \in Granted, NEW p \in Granted, NEW q \in Granted,
         Clear(a, b), Within(p, a), Within(q, b)
  PROVE  Clear(p, q)
<1>1. /\ a.start \in Nat /\ a.end \in Nat /\ a.start < a.end /\ b.start \in Nat /\ b.end \in Nat /\ b.start < b.end
      /\ p.start \in Nat /\ p.end \in Nat /\ p.start < p.end /\ q.start \in Nat /\ q.end \in Nat /\ q.start < q.end
  BY GrantedTypes
<1>2. CASE a.owner # b.owner
  BY <1>2 DEF Clear, Apart, Within, SameGroup
<1>3. CASE a.owner = b.owner /\ a.end <= b.start
  BY <1>1, <1>3 DEF Clear, Apart, Within, SameGroup
<1>4. CASE a.owner = b.owner /\ b.end <= a.start
  BY <1>1, <1>4 DEF Clear, Apart, Within, SameGroup
<1> QED
  BY <1>2, <1>3, <1>4 DEF Clear, Apart

(* Ranges cut into parts of themselves stay clear of one another.          *)
Cuts(parts, ls) ==
  /\ Len(parts) = Len(ls)
  /\ \A i \in 1 .. Len(ls) :
       Pairwise(parts[i], ClearPairs) /\ \A a \in 1 .. Len(parts[i]) : Within(parts[i][a], ls[i])

LEMMA CutKeeps ==
  ASSUME NEW ls \in Seq(Granted), Pairwise(ls, ClearPairs), NEW parts \in Seq(Seq(Granted)), Cuts(parts, ls)
  PROVE  /\ Joined(parts) \in Seq(Granted) /\ Pairwise(Joined(parts), ClearPairs)
         /\ Collects(Joined(parts), parts)
         /\ Stands(Joined(parts)) = UNION {Stands(parts[i]) : i \in 1 .. Len(ls)}
<1> USE DEF Cuts
<1> DEFINE j == Joined(parts)
<1>1. \A i \in 1 .. Len(ls) : ls[i] \in Granted /\ parts[i] \in Seq(Granted)
  BY LenProperties
<1>2. \A i \in 1 .. Len(ls) : \A a \in 1 .. Len(parts[i]) : parts[i][a] \in Granted
  BY <1>1, ElementOfSeq
<1>3. ASSUME NEW i \in 1 .. Len(parts), NEW k \in 1 .. Len(parts), i # k,
             NEW a \in 1 .. Len(parts[i]), NEW b \in 1 .. Len(parts[k])
      PROVE  <<parts[i][a], parts[k][b]>> \in ClearPairs
  <2>1. Clear(ls[i], ls[k])
    BY <1>3 DEF Pairwise, ClearPairs
  <2>2. Clear(parts[i][a], parts[k][b])
    BY <1>1, <1>2, <2>1, ClearWithin
  <2> QED
    BY <1>2, <2>2 DEF ClearPairs
<1>4. j \in Seq(Granted) /\ Pairwise(j, ClearPairs) /\ Collects(j, parts)
  <2>1. \A i \in 1 .. Len(parts) : Pairwise(parts[i], ClearPairs)
    OBVIOUS
  <2>2. Across(parts, ClearPairs)
    BY <1>3 DEF Across
  <2> QED
    BY <2>1, <2>2, JoinedKeeps
<1> HIDE DEF j
<1>5. ASSUME NEW x \in Stands(j) PROVE x \in UNION {Stands(parts[i]) : i \in 1 .. Len(ls)}
  <2>1. PICK k \in 1 .. Len(j) : x \in BytesHeld(j[k])
    BY DEF Stands
  <2>2. PICK i \in 1 .. Len(parts) : \E a \in 1 .. Len(parts[i]) : j[k] = parts[i][a]
    BY <1>4 DEF Collects
  <2> QED
    BY <2>1, <2>2 DEF Stands
<1>6. ASSUME NEW x \in UNION {Stands(parts[i]) : i \in 1 .. Len(ls)} PROVE x \in Stands(j)
  <2>1. PICK i \in 1 .. Len(parts) : x \in Stands(parts[i])
    OBVIOUS
  <2>2. PICK a \in 1 .. Len(parts[i]) : x \in BytesHeld(parts[i][a])
    BY <2>1 DEF Stands
  <2>3. PICK k \in 1 .. Len(j) : j[k] = parts[i][a]
    BY <1>4 DEF Collects
  <2> QED
    BY <2>2, <2>3 DEF Stands
<1> QED
  BY <1>4, <1>5, <1>6 DEF j

AskedRange(range) ==
  range.start \in Nat /\ range.end \in Nat /\ range.start < range.end /\ range.start <= MaxFileLen /\ range.end <= EofEnd

LEMMA AskedTypes == \A range \in Asked : AskedRange(range)
<1> SUFFICES ASSUME NEW offset \in 0 .. MaxFileLen, NEW length \in 0 .. MaxFileLen, RangeOf(offset, length) # NoRange
             PROVE  AskedRange(RangeOf(offset, length))
  BY DEF Asked
<1>0. NoRange = [start |-> 0, end |-> 0]
  BY DEF NoRange
<1>1. MaxFileLen \in Nat \ {0}
  BY BoundsAssumption
<1>2. CASE length = 0
  <2>1. RangeOf(offset, length) = NoRange
    BY <1>1, <1>2 DEF RangeOf
  <2> QED
    BY <2>1
<1>3. CASE length = MaxFileLen
  <2>1. RangeOf(offset, length) = [start |-> offset, end |-> EofEnd]
    BY <1>1, <1>3 DEF RangeOf
  <2> QED
    BY <1>1, <2>1 DEF AskedRange, EofEnd
<1>4. CASE length \notin {0, MaxFileLen}
  <2>1. offset + length <= MaxFileLen /\ RangeOf(offset, length) = [start |-> offset, end |-> offset + length]
    BY <1>1, <1>4 DEF RangeOf
  <2> QED
    BY <1>1, <1>4, <2>1 DEF AskedRange, EofEnd
<1> QED
  BY <1>2, <1>3, <1>4

Spared(b, owner, range) == b.owner # owner \/ b.byte \notin BytesOf(range)

LEMMA PiecesKeep ==
  ASSUME NEW l \in Granted, NEW owner, NEW range, AskedRange(range)
  PROVE  LET p == Pieces(l, owner, range)
         IN  /\ p \in Seq(Granted) /\ Pairwise(p, ClearPairs)
             /\ \A a \in 1 .. Len(p) :
                  Within(p[a], l) /\ (p[a].owner = owner => p[a].end <= range.start \/ range.end <= p[a].start)
             /\ Stands(p) = {b \in BytesHeld(l) : Spared(b, owner, range)}
<1> DEFINE p == Pieces(l, owner, range)
           f == [l EXCEPT !.end = range.start]
           g == [l EXCEPT !.start = range.end]
<1>1. /\ l.owner \in Owners /\ l.open \in Opens /\ l.type \in Types
      /\ l.start \in Nat /\ l.end \in Nat /\ l.start < l.end /\ l.start <= MaxFileLen /\ l.end <= EofEnd
  BY GrantedTypes
<1>2. /\ range.start \in Nat /\ range.end \in Nat /\ range.start < range.end
      /\ range.start <= MaxFileLen /\ range.end <= EofEnd /\ MaxFileLen \in Nat /\ EofEnd = MaxFileLen + 1
  BY BoundsAssumption DEF AskedRange, EofEnd
<1>3. f.owner = l.owner /\ f.open = l.open /\ f.type = l.type /\ f.start = l.start /\ f.end = range.start
  BY DEF Granted, ByteRange
<1>4. g.owner = l.owner /\ g.open = l.open /\ g.type = l.type /\ g.start = range.end /\ g.end = l.end
  BY DEF Granted, ByteRange
<1>5. l.start < range.start /\ Overlaps(l, range) => f \in Granted
  BY <1>1, <1>2 DEF Granted, ByteRange, Bytes, Overlaps
<1>6. range.end < l.end /\ Overlaps(l, range) => g \in Granted
  BY <1>1, <1>2 DEF Granted, ByteRange, Bytes, Overlaps
<1>7. \A b \in BytesHeld(l) : b.owner = l.owner /\ b.byte \in Nat /\ l.start <= b.byte /\ b.byte < l.end
  BY <1>1 DEF BytesHeld, BytesOf
<1>8. BytesOf(range) = {b \in Nat : range.start <= b /\ b < range.end}
  BY <1>2 DEF BytesOf
<1> HIDE DEF f, g
<1>9. CASE l.owner # owner \/ ~Overlaps(l, range)
  <2>1. p = <<l>>
    BY <1>9 DEF Pieces
  <2>2. p \in Seq(Granted) /\ Len(p) = 1 /\ p[1] = l
    BY <2>1
  <2>3. Stands(p) = BytesHeld(l)
    BY <2>2 DEF Stands
  <2>4. \A b \in BytesHeld(l) : Spared(b, owner, range)
    BY <1>1, <1>2, <1>7, <1>8, <1>9 DEF Spared, Overlaps
  <2>5. Pairwise(p, ClearPairs)
    BY <2>2 DEF Pairwise
  <2>6. Within(l, l) /\ (l.owner = owner => l.end <= range.start \/ range.end <= l.start)
    BY <1>1, <1>2, <1>9 DEF Within, Overlaps
  <2> HIDE DEF p
  <2> QED
    BY <2>2, <2>3, <2>4, <2>5, <2>6 DEF p
<1>10. CASE l.owner = owner /\ Overlaps(l, range)
  <2> DEFINE front == IF l.start < range.start THEN <<f>> ELSE <<>>
             back == IF l.end > range.end THEN <<g>> ELSE <<>>
  <2>1. p = front \o back
    BY <1>10 DEF Pieces, f, g
  <2>2. \A b \in BytesHeld(l) : Spared(b, owner, range) <=> b.byte < range.start \/ range.end <= b.byte
    BY <1>2, <1>7, <1>8, <1>10 DEF Spared
  <2>3. BytesHeld(f) = {b \in BytesHeld(l) : b.byte < range.start}
    <3>1. BytesOf(f) = {b \in BytesOf(l) : b < range.start}
      BY <1>1, <1>2, <1>3, <1>10 DEF BytesOf, Overlaps
    <3> QED
      BY <1>3, <3>1 DEF BytesHeld
  <2>4. BytesHeld(g) = {b \in BytesHeld(l) : range.end <= b.byte}
    <3>1. BytesOf(g) = {b \in BytesOf(l) : range.end <= b}
      BY <1>1, <1>2, <1>4, <1>10 DEF BytesOf, Overlaps
    <3> QED
      BY <1>4, <3>1 DEF BytesHeld
  <2>5. Within(f, l) /\ Within(g, l)
    BY <1>1, <1>2, <1>3, <1>4, <1>10 DEF Within, Overlaps
  <2>6. Clear(f, g) /\ Clear(g, f)
    BY <1>1, <1>2, <1>3, <1>4, <1>10 DEF Clear, Apart, Overlaps
  <2>7. CASE l.start < range.start /\ l.end > range.end
    <3>1. f \in Granted /\ g \in Granted
      BY <1>1, <1>2, <1>5, <1>6, <1>10, <2>7
    <3> DEFINE one == <<f>>
               two == <<g>>
    <3>2. /\ one \in Seq(Granted) /\ Len(one) = 1 /\ one[1] = f
          /\ two \in Seq(Granted) /\ Len(two) = 1 /\ two[1] = g
          /\ p = one \o two
      BY <2>1, <2>7, <3>1
    <3>3. p \in Seq(Granted) /\ Len(p) = 2 /\ p[1] = f /\ p[2] = g
      <4> HIDE DEF one, two, p
      <4>1. /\ one \o two \in Seq(Granted) /\ Len(one \o two) = Len(one) + Len(two)
            /\ \A i \in 1 .. Len(one) + Len(two) :
                 (one \o two)[i] = IF i <= Len(one) THEN one[i] ELSE two[i - Len(one)]
        BY <3>2, ConcatProperties
      <4> QED
        BY <3>2, <4>1
    <3>4. Stands(p) = BytesHeld(f) \cup BytesHeld(g)
      <4>1. 1 .. 2 = {1, 2}
        OBVIOUS
      <4> QED
        BY <3>3, <4>1 DEF Stands
    <3> HIDE DEF p
    <3>5. Stands(p) = {b \in BytesHeld(l) : Spared(b, owner, range)}
      BY <2>2, <2>3, <2>4, <3>4
    <3>6. Pairwise(p, ClearPairs)
      BY <2>6, <3>1, <3>3 DEF Pairwise, ClearPairs
    <3>7. \A a \in 1 .. Len(p) : p[a] = f \/ p[a] = g
      BY <3>3
    <3> QED
      BY <1>2, <1>3, <1>4, <2>5, <3>3, <3>5, <3>6, <3>7 DEF p
  <2>8. CASE l.start < range.start /\ ~(l.end > range.end)
    <3>1. f \in Granted
      BY <1>5, <1>10, <2>8
    <3>2. p = <<f>>
      BY <2>1, <2>8
    <3>3. p \in Seq(Granted) /\ Len(p) = 1 /\ p[1] = f
      BY <3>1, <3>2
    <3>4. Stands(p) = BytesHeld(f)
      BY <3>3 DEF Stands
    <3> HIDE DEF p
    <3>5. Stands(p) = {b \in BytesHeld(l) : Spared(b, owner, range)}
      BY <1>1, <1>2, <1>7, <2>2, <2>3, <2>8, <3>4
    <3>6. Pairwise(p, ClearPairs)
      BY <3>3 DEF Pairwise
    <3> QED
      BY <1>2, <1>3, <2>5, <3>3, <3>5, <3>6 DEF p
  <2>9. CASE ~(l.start < range.start) /\ l.end > range.end
    <3>1. g \in Granted
      BY <1>1, <1>2, <1>6, <1>10, <2>9
    <3>2. p = <<g>>
      BY <2>1, <2>9
    <3>3. p \in Seq(Granted) /\ Len(p) = 1 /\ p[1] = g
      BY <3>1, <3>2
    <3>4. Stands(p) = BytesHeld(g)
      BY <3>3 DEF Stands
    <3> HIDE DEF p
    <3>5. Stands(p) = {b \in BytesHeld(l) : Spared(b, owner, range)}
      BY <1>1, <1>2, <1>7, <2>2, <2>4, <2>9, <3>4
    <3>6. Pairwise(p, ClearPairs)
      BY <3>3 DEF Pairwise
    <3> QED
      BY <1>2, <1>4, <2>5, <3>3, <3>5, <3>6 DEF p
  <2>10. CASE ~(l.start < range.start) /\ ~(l.end > range.end)
    <3>1. p = <<>>
      BY <2>1, <2>10
    <3>2. p \in Seq(Granted) /\ Len(p) = 0
      BY <3>1
    <3>3. Stands(p) = {}
      BY <3>2 DEF Stands
    <3> HIDE DEF p
    <3>4. {b \in BytesHeld(l) : Spared(b, owner, range)} = {}
      BY <1>1, <1>2, <1>7, <2>2, <2>10
    <3>5. Pairwise(p, ClearPairs)
      BY <3>2 DEF Pairwise
    <3> QED
      BY <3>2, <3>3, <3>4, <3>5 DEF p
  <2> QED
    BY <2>7, <2>8, <2>9, <2>10
<1> QED
  BY <1>9, <1>10

LEMMA SubtractKeeps ==
  ASSUME NEW ls \in Seq(Granted), Pairwise(ls, ClearPairs), NEW owner, NEW range, AskedRange(range)
  PROVE  LET s == SubtractRange(ls, owner, range)
         IN  /\ s \in Seq(Granted) /\ Pairwise(s, ClearPairs)
             /\ Stands(s) = {b \in Stands(ls) : Spared(b, owner, range)}
             /\ \A k \in 1 .. Len(s) : s[k].owner = owner => s[k].end <= range.start \/ range.end <= s[k].start
<1> DEFINE n == Len(ls)
           parts == [i \in 1 .. n |-> Pieces(ls[i], owner, range)]
<1>1. n \in Nat /\ \A i \in 1 .. n : ls[i] \in Granted
  BY LenProperties
<1>2. \A i \in 1 .. n :
        /\ parts[i] \in Seq(Granted) /\ Pairwise(parts[i], ClearPairs)
        /\ \A a \in 1 .. Len(parts[i]) :
             /\ Within(parts[i][a], ls[i])
             /\ parts[i][a].owner = owner => parts[i][a].end <= range.start \/ range.end <= parts[i][a].start
        /\ Stands(parts[i]) = {b \in BytesHeld(ls[i]) : Spared(b, owner, range)}
  BY <1>1, PiecesKeep
<1>3. SubtractRange(ls, owner, range) = Joined(parts)
  BY DEF SubtractRange
<1>4. parts \in Seq(Seq(Granted)) /\ Len(parts) = n
  <2>1. parts \in [1 .. n -> Seq(Granted)]
    BY <1>2
  <2> HIDE DEF parts, n
  <2> QED
    BY <1>1, <2>1
<1> HIDE DEF parts
<1>5. /\ Joined(parts) \in Seq(Granted) /\ Pairwise(Joined(parts), ClearPairs)
      /\ \A k \in 1 .. Len(Joined(parts)) :
           \E i \in 1 .. n : \E a \in 1 .. Len(parts[i]) : Joined(parts)[k] = parts[i][a]
      /\ Stands(Joined(parts)) = UNION {Stands(parts[i]) : i \in 1 .. n}
  <2>1. Cuts(parts, ls)
    BY <1>2, <1>4 DEF Cuts
  <2>2. /\ Joined(parts) \in Seq(Granted) /\ Pairwise(Joined(parts), ClearPairs)
        /\ Collects(Joined(parts), parts)
        /\ Stands(Joined(parts)) = UNION {Stands(parts[i]) : i \in 1 .. Len(ls)}
    BY <1>4, <2>1, CutKeeps
  <2> QED
    BY <1>4, <2>2 DEF Collects
<1>6. UNION {Stands(parts[i]) : i \in 1 .. n} = {b \in Stands(ls) : Spared(b, owner, range)}
  BY <1>2 DEF Stands
<1> DEFINE s == SubtractRange(ls, owner, range)
<1>7. ASSUME NEW k \in 1 .. Len(s), s[k].owner = owner
      PROVE  s[k].end <= range.start \/ range.end <= s[k].start
  <2> HIDE DEF s
  <2>1. PICK i \in 1 .. n : \E a \in 1 .. Len(parts[i]) : s[k] = parts[i][a]
    BY <1>3, <1>5 DEF s
  <2>2. PICK a \in 1 .. Len(parts[i]) : s[k] = parts[i][a]
    BY <2>1
  <2> QED
    BY <1>2, <1>7, <2>2
<1>8. s \in Seq(Granted) /\ Pairwise(s, ClearPairs) /\ Stands(s) = {b \in Stands(ls) : Spared(b, owner, range)}
  BY <1>3, <1>5, <1>6
<1> QED
  BY <1>7, <1>8

(* What #dropLockState leaves.                                             *)
Rest(ls, owner, open) ==
  Joined([i \in 1 .. Len(ls) |-> IF ls[i].owner # owner \/ ls[i].open # open THEN <<ls[i]>> ELSE <<>>])

LEMMA DropKeeps ==
  ASSUME NEW ls \in Seq(Granted), Pairwise(ls, ClearPairs), NEW owner, NEW open
  PROVE  /\ Rest(ls, owner, open) \in Seq(Granted) /\ Pairwise(Rest(ls, owner, open), ClearPairs)
         /\ Stands(Rest(ls, owner, open)) = {b \in Stands(ls) : b.owner # owner \/ b.open # open}
<1> DEFINE n == Len(ls)
           parts == [i \in 1 .. n |-> IF ls[i].owner # owner \/ ls[i].open # open THEN <<ls[i]>> ELSE <<>>]
<1>1. n \in Nat /\ \A i \in 1 .. n : ls[i] \in Granted
  BY LenProperties
<1>2. ASSUME NEW i \in 1 .. n
      PROVE  /\ parts[i] \in Seq(Granted) /\ Pairwise(parts[i], ClearPairs)
             /\ \A a \in 1 .. Len(parts[i]) : Within(parts[i][a], ls[i])
             /\ Stands(parts[i]) = {b \in BytesHeld(ls[i]) : b.owner # owner \/ b.open # open}
  <2>1. \A b \in BytesHeld(ls[i]) : b.owner = ls[i].owner /\ b.open = ls[i].open
    BY DEF BytesHeld
  <2>2. ls[i].start \in Nat /\ ls[i].end \in Nat
    BY <1>1, GrantedTypes
  <2>3. CASE ls[i].owner # owner \/ ls[i].open # open
    <3>1. parts[i] \in Seq(Granted) /\ Len(parts[i]) = 1 /\ parts[i][1] = ls[i]
      BY <1>1, <2>3
    <3>2. Stands(parts[i]) = BytesHeld(ls[i])
      BY <3>1 DEF Stands
    <3>3. Stands(parts[i]) = {b \in BytesHeld(ls[i]) : b.owner # owner \/ b.open # open}
      BY <2>1, <2>3, <3>2
    <3>4. Pairwise(parts[i], ClearPairs)
      BY <3>1 DEF Pairwise
    <3>5. Within(ls[i], ls[i])
      BY <2>2 DEF Within
    <3> HIDE DEF parts
    <3> QED
      BY <3>1, <3>3, <3>4, <3>5
  <2>4. CASE ~(ls[i].owner # owner \/ ls[i].open # open)
    <3>1. parts[i] \in Seq(Granted) /\ Len(parts[i]) = 0
      BY <2>4
    <3>2. Stands(parts[i]) = {}
      BY <3>1 DEF Stands
    <3>3. Stands(parts[i]) = {b \in BytesHeld(ls[i]) : b.owner # owner \/ b.open # open}
      BY <2>1, <2>4, <3>2
    <3>4. Pairwise(parts[i], ClearPairs)
      BY <3>1 DEF Pairwise
    <3> HIDE DEF parts
    <3> QED
      BY <3>1, <3>3, <3>4
  <2> QED
    BY <2>3, <2>4
<1>3. parts \in Seq(Seq(Granted)) /\ Len(parts) = n
  <2>1. parts \in [1 .. n -> Seq(Granted)]
    BY <1>2
  <2> HIDE DEF parts, n
  <2> QED
    BY <1>1, <2>1
<1> HIDE DEF parts
<1>4. /\ Joined(parts) \in Seq(Granted) /\ Pairwise(Joined(parts), ClearPairs)
      /\ Stands(Joined(parts)) = UNION {Stands(parts[i]) : i \in 1 .. n}
  <2>1. Cuts(parts, ls)
    BY <1>2, <1>3 DEF Cuts
  <2> QED
    BY <1>3, <2>1, CutKeeps
<1>5. UNION {Stands(parts[i]) : i \in 1 .. n} = {b \in Stands(ls) : b.owner # owner \/ b.open # open}
  BY <1>2 DEF Stands
<1> QED
  BY <1>4, <1>5 DEF parts, Rest

-----------------------------------------------------------------------------
(* The list and the bytes.                                                 *)

(* ListIsTheBytes with the types it leaves out, of which the one that      *)
(* matters is that no range is empty.                                      *)
ListInv == locks \in Seq(Granted) /\ Pairwise(locks, ClearPairs) /\ held = Stands(locks)

LEMMA ListInvInit == Init => ListInv
<1> SUFFICES ASSUME Init PROVE ListInv
  OBVIOUS
<1>1. locks \in Seq(Granted) /\ Len(locks) = 0
  BY EmptySeq DEF Init
<1>2. Pairwise(locks, ClearPairs) /\ Stands(locks) = {}
  BY <1>1 DEF Pairwise, Stands
<1> QED
  BY <1>1, <1>2 DEF Init, ListInv

LEMMA LockKeeps ==
  ASSUME ListInv, NEW owner \in Owners, NEW open \in Opens, NEW type \in Types, NEW range \in Asked,
         Lock(owner, open, type, range)
  PROVE  ListInv'
<1> DEFINE g == [owner |-> owner, open |-> open, type |-> type, start |-> range.start, end |-> range.end]
           s == SubtractRange(locks, owner, range)
           t == Append(s, g)
<1>1. AskedRange(range)
  BY AskedTypes
<1>2. g \in Granted
  <2>1. /\ range.start \in Nat /\ range.end \in Nat /\ range.start < range.end
        /\ range.start <= MaxFileLen /\ range.end <= EofEnd /\ MaxFileLen \in Nat /\ EofEnd = MaxFileLen + 1
    BY <1>1, BoundsAssumption DEF AskedRange, EofEnd
  <2>2. range.start \in Bytes /\ range.end \in 1 .. EofEnd
    BY <2>1 DEF Bytes
  <2> QED
    BY <2>1, <2>2 DEF Granted, ByteRange
<1>3. /\ s \in Seq(Granted) /\ Pairwise(s, ClearPairs)
      /\ Stands(s) = {b \in Stands(locks) : Spared(b, owner, range)}
      /\ \A k \in 1 .. Len(s) : s[k].owner = owner => s[k].end <= range.start \/ range.end <= s[k].start
  BY <1>1, SubtractKeeps DEF ListInv
<1>4. locks' = Coalesce(t)
  <2>1. SubtractRange(locks, g.owner, g) = s
    <3>1. \A l : Pieces(l, owner, g) = Pieces(l, owner, range)
      BY DEF Pieces, Overlaps
    <3> QED
      BY <3>1 DEF SubtractRange
  <2>2. locks' = ReplaceRange(locks, g)
    BY DEF Lock
  <2> HIDE DEF g, s
  <2> QED
    BY <2>1, <2>2 DEF ReplaceRange
<1>5. g.owner = owner /\ g.start = range.start /\ g.end = range.end
  OBVIOUS
<1>6. BytesHeld(g) = {[owner |-> owner, open |-> open, type |-> type, byte |-> b] : b \in BytesOf(range)}
  BY DEF BytesHeld, BytesOf
<1> HIDE DEF s, g
<1>7. /\ t \in Seq(Granted) /\ Len(s) \in Nat /\ Len(t) = Len(s) + 1
      /\ \A i \in 1 .. Len(s) : t[i] = s[i]
      /\ t[Len(s) + 1] = g
  BY <1>2, <1>3, AppendProperties, LenProperties
<1> HIDE DEF t
<1>8. Pairwise(t, ApartPairs)
  <2> SUFFICES ASSUME NEW i \in 1 .. Len(t), NEW j \in 1 .. Len(t), i # j
               PROVE  <<t[i], t[j]>> \in ApartPairs
    BY DEF Pairwise
  <2>1. t[i] \in Granted /\ t[j] \in Granted
    BY <1>7, ElementOfSeq
  <2>2. \A k \in 1 .. Len(s) : Apart(s[k], g) /\ Apart(g, s[k])
    BY <1>3, <1>5 DEF Apart
  <2>3. CASE i = Len(s) + 1
    <3>1. j \in 1 .. Len(s)
      BY <1>7, <2>3
    <3> QED
      BY <1>7, <2>1, <2>2, <2>3, <3>1 DEF ApartPairs
  <2>4. CASE j = Len(s) + 1
    <3>1. i \in 1 .. Len(s)
      BY <1>7, <2>4
    <3> QED
      BY <1>7, <2>1, <2>2, <2>4, <3>1 DEF ApartPairs
  <2>5. CASE i # Len(s) + 1 /\ j # Len(s) + 1
    <3>1. i \in 1 .. Len(s) /\ j \in 1 .. Len(s)
      BY <1>7, <2>5
    <3>2. Clear(s[i], s[j])
      BY <1>3, <3>1 DEF Pairwise, ClearPairs
    <3> QED
      BY <1>7, <2>1, <3>1, <3>2 DEF Clear, ApartPairs
  <2> QED
    BY <2>3, <2>4, <2>5
<1>9. /\ locks' \in Seq(Granted) /\ Pairwise(locks', ClearPairs) /\ Stands(locks') = Stands(t)
  BY <1>4, <1>7, <1>8, CoalesceKeeps
<1>10. Stands(t) = Stands(s) \cup BytesHeld(g)
  <2>1. 1 .. Len(s) + 1 = (1 .. Len(s)) \cup {Len(s) + 1}
    BY <1>7
  <2>2. Stands(t) = UNION {BytesHeld(t[i]) : i \in (1 .. Len(s)) \cup {Len(s) + 1}}
    BY <1>7, <2>1 DEF Stands
  <2> QED
    BY <1>7, <2>2 DEF Stands
<1>11. held' = {b \in held : Spared(b, owner, range)} \cup BytesHeld(g)
  BY <1>6 DEF Lock, Without, Spared
<1>12. Stands(locks)' = Stands(locks')
  BY DEF Stands
<1>13. held' = Stands(locks')
  BY <1>3, <1>9, <1>10, <1>11 DEF ListInv
<1> QED
  BY <1>9, <1>12, <1>13 DEF ListInv, Pairwise

LEMMA ListInvStep == ListInv /\ [Next]_vars => ListInv'
<1> SUFFICES ASSUME ListInv, [Next]_vars PROVE ListInv'
  OBVIOUS
<1>0. Stands(locks)' = Stands(locks')
  BY DEF Stands
<1>1. ASSUME NEW owner \in Owners, NEW open \in Opens, DropLockState(owner, open)
      PROVE  ListInv'
  <2>1. /\ locks' \in Seq(Granted) /\ Pairwise(locks', ClearPairs)
        /\ Stands(locks') = {b \in Stands(locks) : b.owner # owner \/ b.open # open}
    <3>1. locks' = Rest(locks, owner, open)
      BY <1>1 DEF DropLockState, Rest
    <3>2. locks \in Seq(Granted) /\ Pairwise(locks, ClearPairs)
      BY DEF ListInv
    <3>3. /\ Rest(locks, owner, open) \in Seq(Granted) /\ Pairwise(Rest(locks, owner, open), ClearPairs)
          /\ Stands(Rest(locks, owner, open)) = {b \in Stands(locks) : b.owner # owner \/ b.open # open}
      BY <3>2, DropKeeps
    <3> QED
      BY <3>1, <3>3
  <2>2. held' = {b \in held : b.owner # owner \/ b.open # open}
    BY <1>1 DEF DropLockState
  <2>3. held' = Stands(locks')
    BY <2>1, <2>2 DEF ListInv
  <2> QED
    BY <1>0, <2>1, <2>3 DEF ListInv, Pairwise
<1>2. ASSUME NEW owner \in Owners, NEW range \in Asked, Locku(owner, range)
      PROVE  ListInv'
  <2>1. AskedRange(range)
    BY AskedTypes
  <2>2. /\ locks' \in Seq(Granted) /\ Pairwise(locks', ClearPairs)
        /\ Stands(locks') = {b \in Stands(locks) : Spared(b, owner, range)}
    BY <1>2, <2>1, SubtractKeeps DEF ListInv, Locku
  <2>3. held' = {b \in held : Spared(b, owner, range)}
    BY <1>2 DEF Locku, Without, Spared
  <2>4. held' = Stands(locks')
    BY <2>2, <2>3 DEF ListInv
  <2> QED
    BY <1>0, <2>2, <2>4 DEF ListInv, Pairwise
<1>3. ASSUME NEW owner \in Owners, NEW open \in Opens, NEW type \in Types, NEW range \in Asked,
             Lock(owner, open, type, range)
      PROVE  ListInv'
  BY <1>3, LockKeeps
<1>4. CASE UNCHANGED vars
  BY <1>4 DEF vars, ListInv, Pairwise, Stands
<1> QED
  BY <1>1, <1>2, <1>3, <1>4 DEF Next

LEMMA ListInvIsExact == ListInv => ListIsTheBytes
<1> SUFFICES ASSUME ListInv PROVE ListIsTheBytes
  OBVIOUS
<1>1. Len(locks) \in Nat /\ DOMAIN locks = 1 .. Len(locks) /\ \A i \in 1 .. Len(locks) : locks[i] \in Granted
  BY LenProperties DEF ListInv
<1>2. held = UNION {{[owner |-> l.owner, open |-> l.open, type |-> l.type, byte |-> b] :
                       b \in BytesOf(l)} : l \in ToSet(locks)}
  <2>1. held = UNION {BytesHeld(l) : l \in ToSet(locks)}
    BY <1>1 DEF ListInv, Stands, ToSet
  <2> QED
    BY <2>1 DEF BytesHeld
<1>3. ASSUME NEW i \in 1 .. Len(locks), NEW j \in 1 .. Len(locks), i # j
      PROVE  Clear(locks[i], locks[j])
  BY <1>3 DEF ListInv, Pairwise, ClearPairs
<1>4. \A i \in 1 .. Len(locks) :
        locks[i].start \in Nat /\ locks[i].end \in Nat /\ locks[i].start < locks[i].end
  BY <1>1, GrantedTypes
<1>5. \A i, j \in 1 .. Len(locks) :
        i # j /\ locks[i].owner = locks[j].owner => ~Overlaps(locks[i], locks[j])
  BY <1>3, <1>4 DEF Clear, Apart, Overlaps
<1>6. NoneTouch
  <2> SUFFICES ASSUME NEW i \in 1 .. Len(locks), NEW j \in 1 .. Len(locks), locks[i].owner = locks[j].owner,
                      locks[i].open = locks[j].open, locks[i].type = locks[j].type
               PROVE  locks[i].end # locks[j].start
    BY DEF NoneTouch
  <2>1. CASE i = j
    BY <1>4, <2>1
  <2>2. CASE i # j
    BY <1>3, <2>2 DEF Clear, SameGroup
  <2> QED
    BY <2>1, <2>2
<1> QED
  BY <1>2, <1>5, <1>6 DEF ListIsTheBytes

LEMMA ListInvDenies == ListInv => DeniedByBytes
<1> SUFFICES ASSUME ListInv, NEW owner \in Owners, NEW type \in Types, NEW range \in Asked
             PROVE  Denied(owner, type, range) <=>
                      \E b \in held : b.owner # owner /\ b.byte \in BytesOf(range) /\ "W" \in {b.type, type}
  BY DEF DeniedByBytes
<1>1. range.start \in Nat /\ range.end \in Nat /\ range.start < range.end
  BY AskedTypes DEF AskedRange
<1>2. \A i \in 1 .. Len(locks) :
        locks[i].start \in Nat /\ locks[i].end \in Nat /\ locks[i].start < locks[i].end
  BY GrantedTypes, ElementOfSeq DEF ListInv
<1>3. ASSUME Denied(owner, type, range)
      PROVE  \E b \in held : b.owner # owner /\ b.byte \in BytesOf(range) /\ "W" \in {b.type, type}
  <2>1. PICK i \in 1 .. Len(locks) : Overlaps(locks[i], range) /\ Conflicts(locks[i], owner, type)
    BY <1>3 DEF Denied
  <2> DEFINE at == IF locks[i].start > range.start THEN locks[i].start ELSE range.start
             b == [owner |-> locks[i].owner, open |-> locks[i].open, type |-> locks[i].type, byte |-> at]
  <2>2. at \in BytesOf(locks[i]) /\ at \in BytesOf(range)
    BY <1>1, <1>2, <2>1 DEF Overlaps, BytesOf
  <2>3. b \in held
    <3>1. b \in BytesHeld(locks[i])
      BY <2>2 DEF BytesHeld
    <3> HIDE DEF b, at
    <3> QED
      BY <3>1 DEF ListInv, Stands
  <2>4. b.owner # owner /\ "W" \in {b.type, type}
    BY <2>1 DEF Conflicts
  <2>5. b.byte = at
    OBVIOUS
  <2> HIDE DEF b, at
  <2> QED
    BY <2>2, <2>3, <2>4, <2>5
<1>4. ASSUME NEW b \in held, b.owner # owner, b.byte \in BytesOf(range), "W" \in {b.type, type}
      PROVE  Denied(owner, type, range)
  <2>1. PICK i \in 1 .. Len(locks) : b \in BytesHeld(locks[i])
    BY DEF ListInv, Stands
  <2>2. b.owner = locks[i].owner /\ b.type = locks[i].type /\ b.byte \in BytesOf(locks[i])
    BY <2>1 DEF BytesHeld
  <2>3. Overlaps(locks[i], range)
    BY <1>1, <1>2, <1>4, <2>2 DEF Overlaps, BytesOf
  <2> QED
    BY <1>4, <2>2, <2>3 DEF Denied, Conflicts
<1> QED
  BY <1>3, <1>4

LEMMA ListInvariant == Spec => []ListInv
<1>1. Init => ListInv
  BY ListInvInit
<1>2. ListInv /\ [Next]_vars => ListInv'
  BY ListInvStep
<1> QED
  BY <1>1, <1>2, PTL DEF Spec

(* The list stands for exactly the bytes held, in as few ranges as it      *)
(* takes: subtractRange, coalesce and replaceRange lose and add nothing.   *)
THEOREM ListIsExact == Spec => []ListIsTheBytes
<1>1. ListInv => ListIsTheBytes
  BY ListInvIsExact
<1> QED
  BY <1>1, ListInvariant, PTL

(* A request is denied for a byte it shares with another owner's lock, and *)
(* for nothing else: overlaps and conflicts, of the list the others keep.  *)
THEOREM DenialsAreByBytes == Spec => []DeniedByBytes
<1>1. ListInv => DeniedByBytes
  BY ListInvDenies
<1> QED
  BY <1>1, ListInvariant, PTL
=============================================================================
