-------------------------- MODULE ConnectionProofs --------------------------
(***************************************************************************)
(* The safety of a Connection, for any window, any high-water mark, any    *)
(* sizes and tags, any number of requests and any way the stream delivers  *)
(* them.  Four inductive invariants, each resting on those before it:      *)
(*   WindowInv   the counter of #pump covers what it bounds;               *)
(*   FramingInv  all that was sent is dispatched, in a record, in the      *)
(*               assembler or on the stream, in that order;                *)
(*   TagsInv     what was dispatched runs or is answered, once, and the    *)
(*               answer to a flush follows that of what it names;          *)
(*   LimitInv    both sides keep to one size before it is relied upon.     *)
(***************************************************************************)
EXTENDS Connection, FiniteSetTheorems, FunctionTheorems, SequenceTheorems, WellFoundedInduction, TLAPS

(* The counter is never below what it counts.                              *)
Counted ==
  /\ IsFiniteSet(running) /\ inflight \in Nat
  /\ \E S : writing \in Seq(S)
  /\ Cardinality(running) + Len(writing) <= inflight
  /\ inflight <= Window

(* The stream is full only while a reply waits for it to drain.            *)
FullOnlyWhileParked ==
  /\ parked \in BOOLEAN /\ congested \in BOOLEAN
  /\ \E S : out \in Seq(S)
  /\ Len(out) <= HighWater
  /\ ~parked /\ ~stopped => Len(out) < HighWater
  /\ parked => writing # <<>>
  /\ congested /\ ~stopped => parked

(* WindowHolds is not inductive: it says neither that the counter the code *)
(* compares with the window covers what it bounds, nor that a stream with  *)
(* room has less in it than its mark.                                      *)
WindowInv == Counted /\ FullOnlyWhileParked

(* n new elements make a finite set larger by n at most.                   *)
LEMMA ImageIsBounded ==
  ASSUME NEW n \in Nat, NEW f, f = [i \in 1..n |-> f[i]]
  PROVE  LET T == {f[i] : i \in 1..n}
         IN  IsFiniteSet(T) /\ Cardinality(T) <= n
<1> DEFINE T == {f[i] : i \in 1..n}
<1>1. f \in Surjection(1..n, T)
  BY DEF Surjection
<1>2. IsFiniteSet(1..n) /\ Cardinality(1..n) = n
  BY FS_Interval
<1>3. IsFiniteSet(T) /\ Cardinality(T) <= Cardinality(1..n)
  BY <1>1, <1>2, FS_Surjection
<1> QED
  BY <1>2, <1>3

LEMMA UnionIsBounded ==
  ASSUME NEW S, NEW T, IsFiniteSet(S), IsFiniteSet(T)
  PROVE  IsFiniteSet(S \cup T) /\ Cardinality(S \cup T) <= Cardinality(S) + Cardinality(T)
<1>1. IsFiniteSet(S \cup T) /\ Cardinality(S \cup T) = Cardinality(S) + Cardinality(T) - Cardinality(S \cap T)
  BY FS_Union
<1>2. IsFiniteSet(S \cap T)
  BY FS_Subset, S \cap T \in SUBSET S
<1>3. Cardinality(S) \in Nat /\ Cardinality(T) \in Nat /\ Cardinality(S \cap T) \in Nat
  BY <1>2, FS_CardinalityType
<1> QED
  BY <1>1, <1>3

(* Dispatching keeps the count: as many requests are added to it as to the *)
(* session, and no more than there is room for.                            *)
LEMMA PumpCounts ==
  ASSUME NEW recs, NEW flight \in Nat, NEW cong, NEW stop, NEW waiting \in Nat,
         IsFiniteSet(running), flight <= Window, Cardinality(running) + waiting <= flight,
         Pump(recs, flight, cong, stop)
  PROVE  /\ IsFiniteSet(running') /\ inflight' \in Nat /\ inflight' <= Window
         /\ Cardinality(running') + waiting <= inflight'
         /\ congested' = cong
<1> DEFINE room == Room(flight, cong, stop)
           n == Cardinality((1..room) \cap DOMAIN recs)
           f == [i \in 1..n |-> Entry(recs, i)]
           new == {f[i] : i \in 1..n}
<1>1. room \in Nat /\ flight + room <= Window
  BY ConnectionAssumption DEF Room
<1>2. n \in Nat /\ n <= room
  <2>1. IsFiniteSet(1..room) /\ Cardinality(1..room) = room
    BY <1>1, FS_Interval
  <2>2. ((1..room) \cap DOMAIN recs) \in SUBSET (1..room)
    OBVIOUS
  <2> HIDE DEF room
  <2>3. IsFiniteSet((1..room) \cap DOMAIN recs) /\ n <= Cardinality(1..room)
    BY <2>1, <2>2, FS_Subset
  <2> QED
    BY <2>1, <2>3, FS_CardinalityType
<1>3. inflight' = flight + n /\ congested' = cong /\ running' = running \cup {Entry(recs, i) : i \in 1..n}
  BY DEF Pump
<1> HIDE DEF room, n
<1>4. running' = running \cup new
  BY <1>3
<1>5. IsFiniteSet(new) /\ Cardinality(new) <= n
  <2>1. f = [i \in 1..n |-> f[i]]
    OBVIOUS
  <2> HIDE DEF f
  <2> QED
    BY <1>2, <2>1, ImageIsBounded
<1> HIDE DEF new
<1>6. IsFiniteSet(running') /\ Cardinality(running') <= Cardinality(running) + Cardinality(new)
  BY <1>4, <1>5, UnionIsBounded
<1>7. Cardinality(running) \in Nat /\ Cardinality(new) \in Nat /\ Cardinality(running') \in Nat
  BY <1>5, <1>6, FS_CardinalityType
<1>8. Window \in Nat
  BY ConnectionAssumption
<1> HIDE DEF f
<1> QED
  BY <1>1, <1>2, <1>3, <1>5, <1>6, <1>7, <1>8

LEMMA AppendCounts ==
  ASSUME NEW s, NEW e, \E S : s \in Seq(S)
  PROVE  (\E S : Append(s, e) \in Seq(S)) /\ Len(Append(s, e)) = Len(s) + 1 /\ Len(s) \in Nat
<1> PICK S : s \in Seq(S)
  OBVIOUS
<1>1. s \in Seq(S \cup {e})
  BY SeqMonotonic, S \in SUBSET (S \cup {e})
<1>2. Append(s, e) \in Seq(S \cup {e}) /\ Len(Append(s, e)) = Len(s) + 1 /\ Len(s) \in Nat
  BY <1>1, AppendProperties
<1> QED
  BY <1>2

LEMMA TailCounts ==
  ASSUME NEW s, s # <<>>, \E S : s \in Seq(S)
  PROVE  (\E S : Tail(s) \in Seq(S)) /\ Len(Tail(s)) = Len(s) - 1 /\ Len(s) \in Nat \ {0}
<1> PICK S : s \in Seq(S)
  OBVIOUS
<1>1. Tail(s) \in Seq(S) /\ Len(Tail(s)) = Len(s) - 1
  BY HeadTailProperties
<1>2. Len(s) \in Nat /\ Len(s) # 0
  BY EmptySeq, LenProperties
<1> QED
  BY <1>1, <1>2

-----------------------------------------------------------------------------

LEMMA WindowInvInit == Init => WindowInv
<1> SUFFICES ASSUME Init PROVE WindowInv
  OBVIOUS
<1>1. Counted
  BY FS_EmptySet, EmptySeq, ConnectionAssumption DEF Init, Counted
<1>2. FullOnlyWhileParked
  <2>1. Len(out) = 0 /\ \E S : out \in Seq(S)
    BY EmptySeq DEF Init
  <2>2. HighWater \in Nat /\ 0 < HighWater
    BY ConnectionAssumption
  <2>3. parked = FALSE /\ congested = FALSE
    BY DEF Init
  <2>4. Len(out) <= HighWater /\ Len(out) < HighWater
    BY <2>1, <2>2
  <2> QED
    BY <2>1, <2>3, <2>4 DEF FullOnlyWhileParked
<1> QED
  BY <1>1, <1>2 DEF WindowInv

LEMMA WindowInvHolds == WindowInv => WindowHolds
<1> SUFFICES ASSUME WindowInv PROVE WindowHolds
  OBVIOUS
<1>1. Cardinality(running) \in Nat /\ Len(writing) \in Nat
  BY FS_CardinalityType, LenProperties DEF WindowInv, Counted
<1> QED
  BY <1>1, ConnectionAssumption DEF WindowInv, Counted, FullOnlyWhileParked, WindowHolds

LEMMA WindowInvStep == WindowInv /\ [Next]_vars => WindowInv'
<1> SUFFICES ASSUME WindowInv, [Next]_vars PROVE WindowInv'
  OBVIOUS
<1> USE DEF WindowInv
<1>0. /\ Cardinality(running) \in Nat /\ Len(writing) \in Nat /\ Len(out) \in Nat
      /\ HighWater \in Nat \ {0} /\ Window \in Nat \ {0}
  BY FS_CardinalityType, LenProperties, ConnectionAssumption DEF Counted, FullOnlyWhileParked
<1>1. CASE Call \/ Flush \/ Version \/ UNCHANGED vars
  <2>1. UNCHANGED <<running, inflight, writing, parked, out, congested, stopped>>
    BY <1>1 DEF Call, Flush, Version, Sends, vars
  <2> QED
    BY <2>1 DEF Counted, FullOnlyWhileParked
<1>2. CASE Receive
  <2>1. /\ out # <<>> /\ out' = Tail(out)
        /\ UNCHANGED <<running, inflight, writing, parked, congested, stopped>>
    BY <1>2 DEF Receive
  <2>2. (\E S : out' \in Seq(S)) /\ Len(out') = Len(out) - 1
    BY <2>1, TailCounts DEF FullOnlyWhileParked
  <2>3. Counted'
    BY <2>1 DEF Counted
  <2>4. FullOnlyWhileParked'
    BY <1>0, <2>1, <2>2 DEF FullOnlyWhileParked
  <2> QED
    BY <2>3, <2>4
<1>3. ASSUME NEW x \in running, Settle(x)
      PROVE  WindowInv'
  <2>1. PICK e : writing' = Append(writing, e)
    BY <1>3 DEF Settle
  <2>2. running' = running \ {x} /\ UNCHANGED <<inflight, parked, out, congested, stopped>>
    BY <1>3 DEF Settle
  <2>3. (\E S : writing' \in Seq(S)) /\ Len(writing') = Len(writing) + 1
    BY <2>1, AppendCounts DEF Counted
  <2>4. IsFiniteSet(running') /\ Cardinality(running') = Cardinality(running) - 1
    BY <1>3, <2>2, FS_RemoveElement DEF Counted
  <2>5. Counted'
    BY <1>0, <2>2, <2>3, <2>4 DEF Counted
  <2>6. writing' # <<>>
    BY <1>0, <2>3, EmptySeq
  <2>7. FullOnlyWhileParked'
    BY <2>2, <2>6 DEF FullOnlyWhileParked
  <2> QED
    BY <2>5, <2>7
<1>4. CASE Read
  <2>1. PICK recs, stop : Pump(recs, inflight, congested, stop)
    BY <1>4 DEF Read
  <2>2. ~stopped /\ UNCHANGED <<writing, parked, out>>
    BY <1>4 DEF Read
  <2>3. /\ IsFiniteSet(running') /\ inflight' \in Nat /\ inflight' <= Window
        /\ Cardinality(running') + Len(writing) <= inflight' /\ congested' = congested
    BY <1>0, <2>1, PumpCounts DEF Counted
  <2>4. Counted'
    BY <2>2, <2>3 DEF Counted
  <2>5. FullOnlyWhileParked'
    BY <2>1, <2>2, <2>3 DEF FullOnlyWhileParked
  <2> QED
    BY <2>4, <2>5
<1>5. CASE Send
  <2>1. writing # <<>> /\ ~parked /\ stopped' = stopped /\ out' = IF stopped THEN out ELSE Append(out, Head(writing))
    BY <1>5 DEF Send
  <2>2. (\E S : out' \in Seq(S)) /\ Len(out') = IF stopped THEN Len(out) ELSE Len(out) + 1
    BY <2>1, AppendCounts DEF FullOnlyWhileParked
  <2>3. Len(out') \in Nat /\ Len(out') <= HighWater
    BY <1>0, <2>1, <2>2 DEF FullOnlyWhileParked
  <2>4. CASE Len(out') >= HighWater /\ ~stopped
    <3>1. congested' = TRUE /\ parked' = TRUE /\ UNCHANGED <<running, inflight, writing>>
      BY <1>5, <2>4 DEF Send
    <3>2. Counted'
      BY <3>1 DEF Counted
    <3>3. FullOnlyWhileParked'
      BY <2>1, <2>2, <2>3, <3>1 DEF FullOnlyWhileParked
    <3> QED
      BY <3>2, <3>3
  <2>5. CASE ~(Len(out') >= HighWater /\ ~stopped)
    <3>1. writing' = Tail(writing) /\ parked' = FALSE /\ Pump(records, inflight - 1, congested, stopped)
      BY <1>5, <2>5 DEF Send
    <3>2. (\E S : writing' \in Seq(S)) /\ Len(writing') = Len(writing) - 1 /\ Len(writing) >= 1
      BY <1>0, <2>1, <3>1, TailCounts DEF Counted
    <3>3. /\ inflight - 1 \in Nat /\ inflight - 1 <= Window /\ Len(writing') \in Nat
          /\ Cardinality(running) + Len(writing') <= inflight - 1
      BY <1>0, <3>2 DEF Counted
    <3>4. /\ IsFiniteSet(running') /\ inflight' \in Nat /\ inflight' <= Window
          /\ Cardinality(running') + Len(writing') <= inflight' /\ congested' = congested
      BY <3>1, <3>3, PumpCounts DEF Counted
    <3>5. Counted'
      BY <3>2, <3>4 DEF Counted
    <3>6. ~stopped => Len(out') < HighWater
      BY <1>0, <2>1, <2>2, <2>3, <2>5 DEF FullOnlyWhileParked
    <3>7. FullOnlyWhileParked'
      BY <2>1, <2>2, <2>3, <3>1, <3>4, <3>6 DEF FullOnlyWhileParked
    <3> QED
      BY <3>5, <3>7
  <2> QED
    BY <2>4, <2>5
<1>6. CASE Drain
  <2>1. /\ congested /\ out = <<>> /\ ~stopped /\ parked' = FALSE /\ writing' = Tail(writing)
        /\ Pump(records, inflight - 1, FALSE, stopped) /\ UNCHANGED <<out, stopped>>
    BY <1>6 DEF Drain
  <2>2. (\E S : writing' \in Seq(S)) /\ Len(writing') = Len(writing) - 1 /\ Len(writing) >= 1
    BY <1>0, <2>1, TailCounts DEF Counted, FullOnlyWhileParked
  <2>3. /\ inflight - 1 \in Nat /\ inflight - 1 <= Window /\ Len(writing') \in Nat
        /\ Cardinality(running) + Len(writing') <= inflight - 1
    BY <1>0, <2>2 DEF Counted
  <2>4. /\ IsFiniteSet(running') /\ inflight' \in Nat /\ inflight' <= Window
        /\ Cardinality(running') + Len(writing') <= inflight' /\ congested' = FALSE
    BY <2>1, <2>3, PumpCounts DEF Counted
  <2>5. Counted'
    BY <2>2, <2>4 DEF Counted
  <2>6. Len(out') = 0 /\ \E S : out' \in Seq(S)
    BY <2>1, EmptySeq
  <2>7. HighWater \in Nat /\ 0 < HighWater /\ parked' = FALSE /\ congested' = FALSE
    BY <1>0, <2>1, <2>4
  <2>8. Len(out') <= HighWater /\ Len(out') < HighWater
    BY <2>6, <2>7
  <2>9. FullOnlyWhileParked'
    BY <2>6, <2>7, <2>8 DEF FullOnlyWhileParked
  <2> QED
    BY <2>5, <2>9
<1>7. CASE Stop
  <2>1. stopped' = TRUE /\ UNCHANGED <<running, out, congested>>
    BY <1>7 DEF Stop
  <2>2. CASE parked
    <3>1. parked' = FALSE /\ writing' = Tail(writing) /\ inflight' = inflight - 1
      BY <1>7, <2>2 DEF Stop
    <3>2. (\E S : writing' \in Seq(S)) /\ Len(writing') = Len(writing) - 1 /\ Len(writing) >= 1
      BY <1>0, <2>2, <3>1, TailCounts DEF Counted, FullOnlyWhileParked
    <3>3. Counted'
      BY <1>0, <2>1, <3>1, <3>2 DEF Counted
    <3>4. FullOnlyWhileParked'
      BY <1>0, <2>1, <3>1 DEF FullOnlyWhileParked
    <3> QED
      BY <3>3, <3>4
  <2>3. CASE ~parked
    BY <1>7, <2>1, <2>3 DEF Stop, Counted, FullOnlyWhileParked
  <2> QED
    BY <2>2, <2>3
<1> QED
  BY <1>1, <1>2, <1>3, <1>4, <1>5, <1>6, <1>7 DEF Next, Serve

(* The requests in the session and the replies waiting for the stream are  *)
(* never more than the window together, nor does the stream hold more than *)
(* its high-water mark: NfsConnection's and P9ConnectionImpl's #pump,      *)
(* #dispatch, #send and #drain.                                            *)
THEOREM WindowIsBounded == Spec => []WindowHolds
<1>1. Init => WindowInv
  BY WindowInvInit
<1>2. WindowInv /\ [Next]_vars => WindowInv'
  BY WindowInvStep
<1>3. WindowInv => WindowHolds
  BY WindowInvHolds
<1> QED
  BY <1>1, <1>2, <1>3, PTL DEF Spec

-----------------------------------------------------------------------------
(* What is on the stream.                                                  *)

Units == [id : Nat, at : Nat, len : Nat, last : BOOLEAN]
Requests ==
  [id : Nat, op : {"call", "flush", "version"}, tag : Nat, old : Nat, size : Nat \ {0}, cut : Nat]
Assemblers ==
  [bytes : Seq(Units), parts : Seq(Units), count : Nat, limit : Nat, failed : BOOLEAN,
   out : Seq(Seq(Units))]

HeaderUnit(id, len, last) == [id |-> id, at |-> 0, len |-> len, last |-> last]
DataUnit(id, at) == [id |-> id, at |-> at, len |-> 0, last |-> FALSE]

InTwo(m) == m.cut \in 1 .. (m.size - 1)
FramedLen(m) == IF InTwo(m) THEN m.size + 4 ELSE m.size + 2
FramedUnit(m, j) ==
  IF InTwo(m)
    THEN IF j <= 2 THEN HeaderUnit(m.id, m.cut, FALSE)
         ELSE IF j <= m.cut + 2 THEN DataUnit(m.id, j - 2)
         ELSE IF j <= m.cut + 4 THEN HeaderUnit(m.id, m.size - m.cut, TRUE)
         ELSE DataUnit(m.id, j - 4)
    ELSE IF j <= 2 THEN HeaderUnit(m.id, m.size, TRUE) ELSE DataUnit(m.id, j - 2)

LEMMA FunctionIsASequence ==
  ASSUME NEW S, NEW n \in Nat, NEW f \in [1 .. n -> S]
  PROVE  f \in Seq(S) /\ Len(f) = n
  BY SeqDef, LenProperties

LEMMA HeaderIs ==
  ASSUME NEW id \in Nat, NEW len \in Nat, NEW last \in BOOLEAN
  PROVE  /\ Header(id, len, last) \in Seq(Units) /\ Len(Header(id, len, last)) = 2
         /\ \A j \in 1 .. 2 : Header(id, len, last)[j] = HeaderUnit(id, len, last)
<1>1. Header(id, len, last) \in [1 .. 2 -> Units]
  BY DEF Header, Units
<1>2. \A j \in 1 .. 2 : Header(id, len, last)[j] = HeaderUnit(id, len, last)
  BY DEF Header, HeaderUnit
<1> QED
  BY <1>1, <1>2, FunctionIsASequence

(* The data of a whole request, and what follows the first units of it. *)
LEMMA WholeDataIs ==
  ASSUME NEW id \in Nat, NEW n \in Nat
  PROVE  /\ Data(id, 1, n) \in Seq(Units) /\ Len(Data(id, 1, n)) = n
         /\ \A j \in 1 .. n : Data(id, 1, n)[j] = DataUnit(id, j)
<1>1. n - 1 + 1 = n /\ \A j \in 1 .. n : 1 + j - 1 = j
  OBVIOUS
<1>2. Data(id, 1, n) = [j \in 1 .. n |-> DataUnit(id, j)]
  BY <1>1 DEF Data, DataUnit
<1>3. [j \in 1 .. n |-> DataUnit(id, j)] \in [1 .. n -> Units]
  BY DEF DataUnit, Units
<1> QED
  BY <1>2, <1>3, FunctionIsASequence

LEMMA LastDataIs ==
  ASSUME NEW id \in Nat, NEW cut \in Nat, NEW size \in Nat, cut <= size
  PROVE  /\ Data(id, cut + 1, size) \in Seq(Units) /\ Len(Data(id, cut + 1, size)) = size - cut
         /\ \A j \in 1 .. size - cut : Data(id, cut + 1, size)[j] = DataUnit(id, cut + j)
<1>1. size - cut \in Nat /\ size - (cut + 1) + 1 = size - cut /\ \A j \in 1 .. size - cut : cut + 1 + j - 1 = cut + j
  OBVIOUS
<1>2. Data(id, cut + 1, size) = [j \in 1 .. size - cut |-> DataUnit(id, cut + j)]
  BY <1>1 DEF Data, DataUnit
<1>3. [j \in 1 .. size - cut |-> DataUnit(id, cut + j)] \in [1 .. size - cut -> Units]
  BY DEF DataUnit, Units
<1> QED
  BY <1>1, <1>2, <1>3, FunctionIsASequence

LEMMA FramedIs ==
  ASSUME NEW m \in Requests
  PROVE  LET s == Framed(m.id, m.size, m.cut)
         IN  /\ s \in Seq(Units) /\ Len(s) = FramedLen(m)
             /\ \A j \in 1 .. FramedLen(m) : s[j] = FramedUnit(m, j)
<1> DEFINE s == Framed(m.id, m.size, m.cut)
<1>0. m.id \in Nat /\ m.size \in Nat \ {0} /\ m.cut \in Nat
  BY DEF Requests
<1>1. CASE InTwo(m)
  <2> DEFINE h1 == Header(m.id, m.cut, FALSE)
             d1 == Data(m.id, 1, m.cut)
             h2 == Header(m.id, m.size - m.cut, TRUE)
             d2 == Data(m.id, m.cut + 1, m.size)
  <2>0. m.size - m.cut \in Nat /\ m.cut <= m.size /\ m.cut + 1 \in Nat \ {0} /\ m.cut + 1 <= m.size + 1 /\ 1 <= m.cut
    BY <1>0, <1>1 DEF InTwo
  <2>1. h1 \in Seq(Units) /\ Len(h1) = 2 /\ \A j \in 1 .. 2 : h1[j] = HeaderUnit(m.id, m.cut, FALSE)
    BY <1>0, HeaderIs
  <2>2. d1 \in Seq(Units) /\ Len(d1) = m.cut /\ \A j \in 1 .. m.cut : d1[j] = DataUnit(m.id, j)
    BY <1>0, WholeDataIs
  <2>3. /\ h2 \in Seq(Units) /\ Len(h2) = 2
        /\ \A j \in 1 .. 2 : h2[j] = HeaderUnit(m.id, m.size - m.cut, TRUE)
    BY <1>0, <2>0, HeaderIs
  <2>4. /\ d2 \in Seq(Units) /\ Len(d2) = m.size - m.cut
        /\ \A j \in 1 .. m.size - m.cut : d2[j] = DataUnit(m.id, m.cut + j)
    BY <1>0, <2>0, LastDataIs
  <2>5. s = h1 \o d1 \o h2 \o d2
    BY <1>1 DEF Framed, InTwo
  <2> HIDE DEF h1, d1, h2, d2, s
  <2> DEFINE s2 == h1 \o d1
             s3 == s2 \o h2
  <2>6. s2 \in Seq(Units) /\ Len(s2) = 2 + m.cut
        /\ \A j \in 1 .. 2 + m.cut : s2[j] = IF j <= 2 THEN h1[j] ELSE d1[j - 2]
    <3>1. Len(h1) + Len(d1) = 2 + m.cut
      BY <1>0, <2>1, <2>2
    <3>2. /\ s2 \in Seq(Units) /\ Len(s2) = Len(h1) + Len(d1)
          /\ \A j \in 1 .. Len(h1) + Len(d1) : s2[j] = IF j <= Len(h1) THEN h1[j] ELSE d1[j - Len(h1)]
      BY <2>1, <2>2, ConcatProperties
    <3> HIDE DEF s2
    <3> QED
      BY <2>1, <3>1, <3>2
  <2> HIDE DEF s2
  <2>7. s3 \in Seq(Units) /\ Len(s3) = 4 + m.cut
        /\ \A j \in 1 .. 4 + m.cut : s3[j] = IF j <= 2 + m.cut THEN s2[j] ELSE h2[j - (2 + m.cut)]
    <3>1. /\ s3 \in Seq(Units) /\ Len(s3) = Len(s2) + Len(h2)
          /\ \A j \in 1 .. Len(s2) + Len(h2) : s3[j] = IF j <= Len(s2) THEN s2[j] ELSE h2[j - Len(s2)]
      BY <2>3, <2>6, ConcatProperties
    <3>2. Len(s2) + Len(h2) = 4 + m.cut
      BY <1>0, <2>3, <2>6
    <3> HIDE DEF s3
    <3> QED
      BY <2>6, <3>1, <3>2
  <2>8. s = s3 \o d2
    BY <2>5 DEF s2
  <2> HIDE DEF s3
  <2>9. /\ s \in Seq(Units) /\ Len(s) = m.size + 4
        /\ \A j \in 1 .. m.size + 4 : s[j] = IF j <= 4 + m.cut THEN s3[j] ELSE d2[j - (4 + m.cut)]
    <3>1. /\ s \in Seq(Units) /\ Len(s) = Len(s3) + Len(d2)
          /\ \A j \in 1 .. Len(s3) + Len(d2) : s[j] = IF j <= Len(s3) THEN s3[j] ELSE d2[j - Len(s3)]
      BY <2>4, <2>7, <2>8, ConcatProperties
    <3>2. Len(s3) + Len(d2) = m.size + 4
      BY <1>0, <2>4, <2>7
    <3> QED
      BY <2>7, <3>1, <3>2
  <2>10. FramedLen(m) = m.size + 4
    BY <1>1 DEF FramedLen
  <2>11. ASSUME NEW j \in 1 .. m.size + 4
         PROVE  s[j] = FramedUnit(m, j)
    <3>1. CASE j <= 2
      <4>1. j \in 1 .. 2 /\ j \in 1 .. 2 + m.cut /\ j \in 1 .. 4 + m.cut /\ j <= 2 + m.cut /\ j <= 4 + m.cut
        BY <1>0, <3>1
      <4>2. s[j] = HeaderUnit(m.id, m.cut, FALSE)
        <5>1. s[j] = s3[j]
          BY <2>9, <4>1
        <5>2. s3[j] = s2[j]
          BY <2>7, <4>1
        <5>3. s2[j] = h1[j]
          BY <2>6, <3>1, <4>1
        <5> QED
          BY <2>1, <4>1, <5>1, <5>2, <5>3
      <4> QED
        BY <1>1, <3>1, <4>2 DEF FramedUnit
    <3>2. CASE ~(j <= 2) /\ j <= m.cut + 2
      <4>1. j - 2 \in 1 .. m.cut /\ j <= 2 + m.cut /\ j <= 4 + m.cut /\ j \in 1 .. 2 + m.cut /\ j \in 1 .. 4 + m.cut
        BY <1>0, <3>2
      <4>2. s[j] = DataUnit(m.id, j - 2)
        BY <2>2, <2>6, <2>7, <2>9, <3>2, <4>1
      <4> QED
        BY <1>1, <3>2, <4>2 DEF FramedUnit
    <3>3. CASE ~(j <= 2) /\ ~(j <= m.cut + 2) /\ j <= m.cut + 4
      <4>1. j - (2 + m.cut) \in 1 .. 2 /\ ~(j <= 2 + m.cut) /\ j <= 4 + m.cut /\ j \in 1 .. 4 + m.cut
        BY <1>0, <3>3
      <4>2. s[j] = HeaderUnit(m.id, m.size - m.cut, TRUE)
        <5>1. s[j] = s3[j]
          BY <2>9, <4>1
        <5>2. s3[j] = h2[j - (2 + m.cut)]
          BY <2>7, <4>1
        <5> QED
          BY <2>3, <4>1, <5>1, <5>2
      <4> QED
        BY <1>1, <3>3, <4>2 DEF FramedUnit
    <3>4. CASE ~(j <= 2) /\ ~(j <= m.cut + 2) /\ ~(j <= m.cut + 4)
      <4>1. j - (4 + m.cut) \in 1 .. m.size - m.cut /\ ~(j <= 4 + m.cut) /\ m.cut + (j - (4 + m.cut)) = j - 4
        BY <1>0, <2>0, <3>4
      <4>2. s[j] = DataUnit(m.id, j - 4)
        BY <2>4, <2>9, <4>1
      <4> QED
        BY <1>1, <3>4, <4>2 DEF FramedUnit
    <3> QED
      BY <3>1, <3>2, <3>3, <3>4
  <2> QED
    BY <2>9, <2>10, <2>11 DEF s
<1>2. CASE ~InTwo(m)
  <2> DEFINE h1 == Header(m.id, m.size, TRUE)
             d1 == Data(m.id, 1, m.size)
  <2>1. h1 \in Seq(Units) /\ Len(h1) = 2 /\ \A j \in 1 .. 2 : h1[j] = HeaderUnit(m.id, m.size, TRUE)
    BY <1>0, HeaderIs
  <2>2. d1 \in Seq(Units) /\ Len(d1) = m.size /\ \A j \in 1 .. m.size : d1[j] = DataUnit(m.id, j)
    BY <1>0, WholeDataIs
  <2>3. s = h1 \o d1
    BY <1>2 DEF Framed, InTwo
  <2> HIDE DEF h1, d1, s
  <2>4. /\ s \in Seq(Units) /\ Len(s) = m.size + 2
        /\ \A j \in 1 .. m.size + 2 : s[j] = IF j <= 2 THEN h1[j] ELSE d1[j - 2]
    <3>1. Len(h1) + Len(d1) = m.size + 2
      BY <1>0, <2>1, <2>2
    <3>2. /\ s \in Seq(Units) /\ Len(s) = Len(h1) + Len(d1)
          /\ \A j \in 1 .. Len(h1) + Len(d1) : s[j] = IF j <= Len(h1) THEN h1[j] ELSE d1[j - Len(h1)]
      BY <2>1, <2>2, <2>3, ConcatProperties
    <3> QED
      BY <2>1, <3>1, <3>2
  <2>5. FramedLen(m) = m.size + 2
    BY <1>2 DEF FramedLen
  <2>6. ASSUME NEW j \in 1 .. m.size + 2
        PROVE  s[j] = FramedUnit(m, j)
    <3>1. j <= 2 => j \in 1 .. 2
      OBVIOUS
    <3>2. ~(j <= 2) => j - 2 \in 1 .. m.size
      BY <1>0
    <3> QED
      BY <1>2, <2>1, <2>2, <2>4, <3>1, <3>2 DEF FramedUnit
  <2> QED
    BY <2>4, <2>5, <2>6 DEF s
<1> QED
  BY <1>1, <1>2

-----------------------------------------------------------------------------
(* The whole stream: all units ever sent, and before which unit of it each *)
(* request starts.                                                         *)

Streamed(U, starts, sent) ==
  /\ U \in Seq(Units) /\ starts \in [Nat -> Nat]
  /\ starts[1] = 0 /\ starts[Len(sent) + 1] = Len(U)
  /\ \A i \in 1 .. Len(sent) :
       /\ starts[i + 1] = starts[i] + FramedLen(sent[i]) /\ starts[i + 1] <= Len(U)
       /\ \A j \in 1 .. FramedLen(sent[i]) : U[starts[i] + j] = FramedUnit(sent[i], j)

Numbered(sent) == sent \in Seq(Requests) /\ \A i \in 1 .. Len(sent) : sent[i].id = i

(* The stream V is U with the framed request m at its end.                  *)
Extended(U, V, st, more, m) ==
  /\ Streamed(V, st, more) /\ V \in Seq(Units) /\ Len(V) = Len(U) + FramedLen(m)
  /\ \A j \in 1 .. Len(U) : V[j] = U[j]
  /\ \A j \in 1 .. FramedLen(m) : V[Len(U) + j] = Framed(m.id, m.size, m.cut)[j]

LEMMA StreamGrows ==
  ASSUME NEW U, NEW starts, NEW sent, Numbered(sent), Streamed(U, starts, sent), NEW m \in Requests
  PROVE  Extended(U, U \o Framed(m.id, m.size, m.cut),
                  [starts EXCEPT ![Len(sent) + 2] = Len(U) + FramedLen(m)], Append(sent, m), m)
<1> DEFINE n == Len(sent)
           s == Framed(m.id, m.size, m.cut)
           V == U \o s
           ends == Len(U) + FramedLen(m)
           st == [starts EXCEPT ![n + 2] = ends]
           more == Append(sent, m)
<1>1. s \in Seq(Units) /\ Len(s) = FramedLen(m) /\ \A j \in 1 .. FramedLen(m) : s[j] = FramedUnit(m, j)
  BY FramedIs
<1>2. FramedLen(m) \in Nat
  BY <1>1, LenProperties
<1>3. n \in Nat /\ Len(U) \in Nat /\ U \in Seq(Units)
  BY LenProperties DEF Streamed, Numbered
<1>4. more \in Seq(Requests) /\ Len(more) = n + 1 /\ more[n + 1] = m /\ \A i \in 1 .. n : more[i] = sent[i]
  BY AppendProperties DEF Numbered
<1> HIDE DEF s, more
<1>5. /\ V \in Seq(Units) /\ Len(V) = ends
      /\ \A j \in 1 .. ends : V[j] = IF j <= Len(U) THEN U[j] ELSE s[j - Len(U)]
  <2>1. /\ V \in Seq(Units) /\ Len(V) = Len(U) + Len(s)
        /\ \A j \in 1 .. Len(U) + Len(s) : V[j] = IF j <= Len(U) THEN U[j] ELSE s[j - Len(U)]
    BY <1>1, <1>3, ConcatProperties
  <2> HIDE DEF V
  <2> QED
    BY <1>1, <2>1
<1> HIDE DEF V
<1>6. \A j \in 1 .. Len(U) : V[j] = U[j]
  BY <1>2, <1>3, <1>5
<1>7. \A j \in 1 .. FramedLen(m) : V[Len(U) + j] = s[j]
  <2> TAKE j \in 1 .. FramedLen(m)
  <2>1. Len(U) + j \in 1 .. ends /\ ~(Len(U) + j <= Len(U)) /\ Len(U) + j - Len(U) = j
    BY <1>2, <1>3
  <2> QED
    BY <1>5, <2>1
<1>8. ends \in Nat /\ n + 2 \in Nat /\ n + 1 \in Nat /\ n + 1 # n + 2 /\ 1 # n + 2
  BY <1>2, <1>3
<1> HIDE DEF ends
<1>9. st \in [Nat -> Nat] /\ st[n + 2] = ends /\ \A i \in 1 .. n + 1 : st[i] = starts[i]
  <2>1. starts \in [Nat -> Nat]
    BY DEF Streamed
  <2>2. st \in [Nat -> Nat] /\ st[n + 2] = ends
    BY <1>8, <2>1
  <2>3. ASSUME NEW i \in 1 .. n + 1
        PROVE  st[i] = starts[i]
    <3>1. i \in Nat /\ i # n + 2
      BY <1>3
    <3> QED
      BY <2>1, <3>1
  <2> QED
    BY <2>2, <2>3
<1> HIDE DEF st
<1>10. ASSUME NEW i \in 1 .. n + 1
       PROVE  /\ st[i + 1] = st[i] + FramedLen(more[i]) /\ st[i + 1] <= Len(V)
              /\ \A j \in 1 .. FramedLen(more[i]) : V[st[i] + j] = FramedUnit(more[i], j)
  <2>1. CASE i = n + 1
    <3>1. st[i] = Len(U) /\ st[i + 1] = ends /\ more[i] = m
      <4>1. i + 1 = n + 2 /\ n + 1 \in 1 .. n + 1
        BY <1>3, <2>1
      <4> QED
        BY <1>4, <1>9, <2>1, <4>1 DEF Streamed
    <3> QED
      BY <1>1, <1>5, <1>7, <1>8, <3>1 DEF ends
  <2>2. CASE i # n + 1
    <3>1. i \in 1 .. n /\ i + 1 \in 1 .. n + 1 /\ i \in 1 .. n + 1
      BY <1>3, <2>2
    <3>2. st[i] = starts[i] /\ st[i + 1] = starts[i + 1] /\ more[i] = sent[i]
      BY <1>4, <1>9, <3>1
    <3>3. /\ starts[i + 1] = starts[i] + FramedLen(sent[i]) /\ starts[i + 1] <= Len(U)
          /\ \A j \in 1 .. FramedLen(sent[i]) : U[starts[i] + j] = FramedUnit(sent[i], j)
      BY <3>1 DEF Streamed
    <3>4. sent[i] \in Requests /\ starts[i] \in Nat
      BY <3>1 DEF Streamed, Numbered
    <3>5. FramedLen(sent[i]) \in Nat
      <4>1. Len(Framed(sent[i].id, sent[i].size, sent[i].cut)) = FramedLen(sent[i])
            /\ Framed(sent[i].id, sent[i].size, sent[i].cut) \in Seq(Units)
        BY <3>4, FramedIs
      <4> QED
        BY <4>1, LenProperties
    <3>6. ASSUME NEW j \in 1 .. FramedLen(sent[i])
          PROVE  V[starts[i] + j] = U[starts[i] + j]
      <4>1. starts[i] + j \in 1 .. Len(U)
        BY <1>3, <3>3, <3>4, <3>5
      <4> QED
        BY <1>6, <4>1
    <3>7. starts[i + 1] <= Len(V)
      BY <1>2, <1>3, <1>5, <3>3, <3>4, <3>5 DEF ends
    <3> QED
      BY <3>2, <3>3, <3>6, <3>7
  <2> QED
    BY <2>1, <2>2
<1>11. st[1] = 0 /\ st[Len(more) + 1] = Len(V)
  <2>1. n + 1 + 1 = n + 2 /\ 1 \in 1 .. n + 1
    BY <1>3
  <2> QED
    BY <1>4, <1>5, <1>9, <2>1 DEF Streamed
<1>12. Streamed(V, st, more)
  BY <1>4, <1>5, <1>9, <1>10, <1>11 DEF Streamed
<1> QED
  BY <1>5, <1>6, <1>7, <1>12 DEF V, st, s, more, ends, Extended

-----------------------------------------------------------------------------
(* One turn of the loop of push.                                           *)

(* What the assembler holds is the stream from c on.                       *)
Holding(bytes, c, U) ==
  /\ bytes \in Seq(Units) /\ c \in Nat /\ c + Len(bytes) <= Len(U)
  /\ \A j \in 1 .. Len(bytes) : bytes[j] = U[c + j]

(* All that came before c is cut up: the first k requests, and the first   *)
(* fragment of the next one if that is where c is.                         *)
CutUpTo(parts, count, k, c, starts, sent) ==
  /\ k \in 0 .. Len(sent)
  /\ \/ c = starts[k + 1] /\ parts = <<>> /\ count = 0
     \/ /\ k < Len(sent) /\ InTwo(sent[k + 1]) /\ c = starts[k + 1] + 2 + sent[k + 1].cut
        /\ parts = Data(k + 1, 1, sent[k + 1].cut) /\ count = 1

(* The messages made are the requests after the first `from`.              *)
Made(messages, from, sent) ==
  /\ messages \in Seq(Seq(Units)) /\ from + Len(messages) <= Len(sent)
  /\ \A i \in 1 .. Len(messages) : messages[i] = Data(from + i, 1, sent[from + i].size)

(* The data of the fragment at the head, and with it that of its record.   *)
Body(a, n) == SubSeq(a.bytes, 3, n)
Whole(a, n) == a.parts \o Body(a, n)

LEMMA FragmentTaken ==
  ASSUME NEW U, NEW c \in Nat, NEW a \in Assemblers, Holding(a.bytes, c, U), Len(U) \in Nat,
         NEW n \in Nat, 2 <= n, n <= Len(a.bytes)
  PROVE  /\ Holding(After(a, n), c + n, U)
         /\ c + n + Len(After(a, n)) = c + Len(a.bytes)
         /\ Body(a, n) \in Seq(Units) /\ Len(Body(a, n)) = n - 2
         /\ \A j \in 1 .. n - 2 : Body(a, n)[j] = U[c + 2 + j]
<1> DEFINE bytes == a.bytes
           all == Len(bytes)
           rest == SubSeq(bytes, n + 1, all)
           body == SubSeq(bytes, 3, n)
<1>1. bytes \in Seq(Units) /\ all \in Nat /\ c \in Nat
  BY LenProperties DEF Holding
<1>2. \A i \in 1 .. all : bytes[i] \in Units
  BY <1>1, ElementOfSeq
<1>3. /\ rest \in Seq(Units) /\ Len(rest) = all - n
      /\ \A j \in 1 .. all - n : rest[j] = bytes[n + j]
  <2>1. /\ n + 1 \in Int /\ all \in Int /\ all - (n + 1) + 1 = all - n
        /\ \A i \in (n + 1) .. all : bytes[i] \in Units
    BY <1>1, <1>2
  <2>2. /\ rest \in Seq(Units) /\ Len(rest) = IF n + 1 <= all THEN all - (n + 1) + 1 ELSE 0
        /\ \A j \in 1 .. all - (n + 1) + 1 : rest[j] = bytes[n + 1 + j - 1]
    BY <2>1, SubSeqProperties
  <2> HIDE DEF rest
  <2>3. \A j \in 1 .. all - n : n + 1 + j - 1 = n + j
    BY <1>1
  <2> QED
    BY <1>1, <2>1, <2>2, <2>3
<1>4. /\ body \in Seq(Units) /\ Len(body) = n - 2
      /\ \A j \in 1 .. n - 2 : body[j] = bytes[2 + j]
  <2>1. /\ 3 \in Int /\ n \in Int /\ n - 3 + 1 = n - 2
        /\ \A i \in 3 .. n : bytes[i] \in Units
    BY <1>1, <1>2
  <2>2. /\ body \in Seq(Units) /\ Len(body) = IF 3 <= n THEN n - 3 + 1 ELSE 0
        /\ \A j \in 1 .. n - 3 + 1 : body[j] = bytes[3 + j - 1]
    BY <2>1, SubSeqProperties
  <2> HIDE DEF body
  <2>3. \A j \in 1 .. n - 2 : 3 + j - 1 = 2 + j
    OBVIOUS
  <2> QED
    BY <2>1, <2>2, <2>3
<1> HIDE DEF rest, body, all
<1>5. After(a, n) = rest
  BY DEF After, rest, all
<1>6. \A j \in 1 .. all : bytes[j] = U[c + j]
  BY DEF Holding, all
<1>7. ASSUME NEW j \in 1 .. all - n
      PROVE  rest[j] = U[c + n + j]
  <2>1. n + j \in 1 .. all /\ c + (n + j) = c + n + j
    BY <1>1
  <2> QED
    BY <1>3, <1>6, <2>1
<1>8. ASSUME NEW j \in 1 .. n - 2
      PROVE  body[j] = U[c + 2 + j]
  <2>1. 2 + j \in 1 .. all /\ c + (2 + j) = c + 2 + j
    BY <1>1 DEF all
  <2> QED
    BY <1>4, <1>6, <2>1
<1>9. c + n \in Nat /\ c + n + Len(rest) = c + all /\ c + all <= Len(U)
  <2>1. c + all <= Len(U) /\ n <= all /\ all \in Nat
    BY <1>1 DEF Holding, all
  <2> QED
    BY <1>1, <1>3, <2>1
<1> QED
  BY <1>3, <1>4, <1>5, <1>7, <1>8, <1>9 DEF Holding, Body, body, all

(* What the loop of push keeps true, whatever it has been given: every unit *)
(* between the requests cut out before and the end of what has arrived is   *)
(* in a message, in a part or still to be cut up.                           *)
Reading(a, base, end, limit, U, starts, sent) ==
  /\ a \in Assemblers /\ a.limit = limit
  /\ ~a.failed =>
       /\ Made(a.out, base, sent)
       /\ \E c \in Nat :
            /\ CutUpTo(a.parts, a.count, base + Len(a.out), c, starts, sent)
            /\ Holding(a.bytes, c, U) /\ c + Len(a.bytes) = end
  /\ (\A i \in (base + 1) .. Len(sent) : sent[i].size <= limit) => ~a.failed

LEMMA SecondFragment ==
  ASSUME NEW m \in Requests, InTwo(m)
  PROVE  /\ FramedUnit(m, m.cut + 3) = HeaderUnit(m.id, m.size - m.cut, TRUE)
         /\ \A j \in 1 .. m.size - m.cut : FramedUnit(m, m.cut + 4 + j) = DataUnit(m.id, m.cut + j)
<1>1. m.cut \in Nat /\ m.size \in Nat
  BY DEF Requests
<1>2. FramedUnit(m, m.cut + 3) = HeaderUnit(m.id, m.size - m.cut, TRUE)
  <2>1. ~(m.cut + 3 <= 2) /\ ~(m.cut + 3 <= m.cut + 2) /\ m.cut + 3 <= m.cut + 4
    BY <1>1
  <2> QED
    BY <2>1 DEF FramedUnit
<1>3. ASSUME NEW j \in 1 .. m.size - m.cut
      PROVE  FramedUnit(m, m.cut + 4 + j) = DataUnit(m.id, m.cut + j)
  <2>0. j \in Nat /\ j >= 1
    BY <1>1
  <2>1. ~(m.cut + 4 + j <= 2) /\ ~(m.cut + 4 + j <= m.cut + 2) /\ ~(m.cut + 4 + j <= m.cut + 4)
    BY <1>1, <2>0
  <2>2. (m.cut + 4 + j) - 4 = m.cut + j
    BY <1>1, <2>0
  <2> DEFINE at == m.cut + 4 + j
  <2>3. ~(at <= 2) /\ ~(at <= m.cut + 2) /\ ~(at <= m.cut + 4) /\ at - 4 = m.cut + j
    BY <2>1, <2>2
  <2> HIDE DEF at
  <2>4. FramedUnit(m, at) = DataUnit(m.id, at - 4)
    BY <2>3 DEF FramedUnit
  <2> QED
    BY <2>3, <2>4 DEF at
<1> QED
  BY <1>2, <1>3

LEMMA DataJoins ==
  ASSUME NEW id \in Nat, NEW from \in Nat, NEW body \in Seq(Units),
         \A j \in 1 .. Len(body) : body[j] = DataUnit(id, from + j)
  PROVE  Data(id, 1, from) \o body = Data(id, 1, from + Len(body))
<1> DEFINE len == Len(body)
           parts == Data(id, 1, from)
           whole == Data(id, 1, from + len)
           both == parts \o body
<1>0. len \in Nat /\ from + len \in Nat
  BY LenProperties
<1>1. parts \in Seq(Units) /\ Len(parts) = from /\ \A j \in 1 .. from : parts[j] = DataUnit(id, j)
  BY WholeDataIs
<1>2. /\ whole \in Seq(Units) /\ Len(whole) = from + len
      /\ \A j \in 1 .. from + len : whole[j] = DataUnit(id, j)
  BY <1>0, WholeDataIs
<1> HIDE DEF parts, whole
<1>3. /\ both \in Seq(Units) /\ Len(both) = from + len
      /\ \A j \in 1 .. from + len : both[j] = IF j <= from THEN parts[j] ELSE body[j - from]
  BY <1>1, ConcatProperties
<1>4. \A j \in 1 .. len : body[j] = DataUnit(id, from + j)
  OBVIOUS
<1> HIDE DEF both, len
<1>5. ASSUME NEW j \in 1 .. from + len
      PROVE  both[j] = whole[j]
  <2>1. CASE j <= from
    <3>1. j \in 1 .. from
      BY <1>0, <2>1
    <3> QED
      BY <1>1, <1>2, <1>3, <2>1, <3>1
  <2>2. CASE ~(j <= from)
    <3>1. j - from \in 1 .. len /\ from + (j - from) = j
      BY <1>0, <2>2
    <3>2. both[j] = body[j - from]
      BY <1>3, <2>2
    <3>3. body[j - from] = DataUnit(id, from + (j - from))
      BY <1>4, <3>1
    <3> QED
      BY <1>2, <3>1, <3>2, <3>3
  <2> QED
    BY <2>1, <2>2
<1>6. both = whole
  BY <1>2, <1>3, <1>5, SeqEqual
<1> QED
  BY <1>6 DEF both, parts, whole, len

LEMMA NoDataIsEmpty ==
  ASSUME NEW id \in Nat
  PROVE  Data(id, 1, 0) = <<>>
<1>1. Data(id, 1, 0) \in Seq(Units) /\ Len(Data(id, 1, 0)) = 0
  BY WholeDataIs
<1> QED
  BY <1>1, EmptySeq

LEMMA OneMoreMade ==
  ASSUME NEW sent, Numbered(sent), NEW base \in Nat, NEW out1, Made(out1, base, sent),
         base + Len(out1) < Len(sent)
  PROVE  LET e == Data(base + Len(out1) + 1, 1, sent[base + Len(out1) + 1].size)
         IN  Made(Append(out1, e), base, sent) /\ Len(Append(out1, e)) = Len(out1) + 1
<1> DEFINE e == Data(base + Len(out1) + 1, 1, sent[base + Len(out1) + 1].size)
<1>1. out1 \in Seq(Seq(Units)) /\ Len(out1) \in Nat /\ Len(sent) \in Nat
  BY LenProperties DEF Made, Numbered
<1> DEFINE n == Len(out1)
<1>2. base + n + 1 \in 1 .. Len(sent) /\ base + n + 1 \in Nat
  BY <1>1
<1>3. sent[base + n + 1] \in Requests
  BY <1>2, ElementOfSeq DEF Numbered
<1>4. sent[base + n + 1].size \in Nat
  BY <1>3 DEF Requests
<1>5. e \in Seq(Units)
  BY <1>2, <1>4, WholeDataIs
<1>6. e = Data(base + n + 1, 1, sent[base + n + 1].size)
  OBVIOUS
<1> HIDE DEF e
<1> DEFINE more == Append(out1, e)
<1>7. /\ more \in Seq(Seq(Units)) /\ Len(more) = n + 1
      /\ \A i \in 1 .. n : more[i] = out1[i]
      /\ more[n + 1] = e
  BY <1>1, <1>5, AppendProperties
<1> HIDE DEF more
<1>8. ASSUME NEW i \in 1 .. n + 1
      PROVE  more[i] = Data(base + i, 1, sent[base + i].size)
  <2>1. CASE i = n + 1
    <3>1. base + i = base + n + 1
      BY <1>1, <2>1
    <3> QED
      BY <1>7, <1>6, <2>1, <3>1
  <2>2. CASE i # n + 1
    <3>1. i \in 1 .. n
      BY <1>1, <2>2
    <3> QED
      BY <1>7, <3>1 DEF Made
  <2> QED
    BY <2>1, <2>2
<1>9. base + (n + 1) <= Len(sent)
  BY <1>1
<1> HIDE DEF n
<1>10. Made(more, base, sent) /\ Len(more) = n + 1
  BY <1>7, <1>8, <1>9 DEF Made
<1> QED
  BY <1>10 DEF more, n, e

(* The `len` units after the header at c are those of a request after the   *)
(* first `from`.                                                           *)
DataAt(U, c, id, from, len) == \A j \in 1 .. len : U[c + 2 + j] = DataUnit(id, from + j)

LEMMA FragmentAdds ==
  ASSUME NEW U, Len(U) \in Nat, NEW c \in Nat, NEW a \in Assemblers, Holding(a.bytes, c, U),
         NEW id \in Nat, NEW from \in Nat, NEW len \in Nat, a.parts = Data(id, 1, from),
         DataAt(U, c, id, from, len),
         NEW n \in Nat, n = 2 + len, n <= Len(a.bytes), NEW to \in Nat, to = from + len,
         NEW e \in Nat, e = c + 2 + len
  PROVE  /\ Whole(a, n) = Data(id, 1, to)
         /\ Body(a, n) \in Seq(Units)
         /\ Holding(After(a, n), e, U)
         /\ e + Len(After(a, n)) = c + Len(a.bytes)
<1>1. 2 <= n /\ n - 2 = len /\ c + n = e /\ n <= Len(a.bytes)
  OBVIOUS
<1>2. Holding(After(a, n), c + n, U)
  BY <1>1, FragmentTaken
<1>3. c + n + Len(After(a, n)) = c + Len(a.bytes)
  BY <1>1, <1>2, FragmentTaken
<1>4. Body(a, n) \in Seq(Units) /\ Len(Body(a, n)) = n - 2
  BY <1>1, <1>2, FragmentTaken
<1>5. \A j \in 1 .. n - 2 : Body(a, n)[j] = U[c + 2 + j]
  BY <1>1, <1>2, FragmentTaken
<1>6. PICK body \in Seq(Units) : body = Body(a, n)
  BY <1>4
<1>7. \A j \in 1 .. Len(body) : body[j] = DataUnit(id, from + j)
  BY <1>1, <1>4, <1>5, <1>6 DEF DataAt
<1>8. Data(id, 1, from) \o body = Data(id, 1, from + Len(body))
  BY <1>7, DataJoins
<1> QED
  BY <1>1, <1>2, <1>3, <1>4, <1>6, <1>8 DEF Whole

(* The fragment at c is of request k + 1: `len` units after the first       *)
(* `from`, the half of a record or what makes it whole.                    *)
FragmentAt(a, k, c, from, len, half, U, starts, sent) ==
  LET m == sent[k + 1]
  IN  /\ k < Len(sent) /\ m \in Requests /\ m.id = k + 1
      /\ from + len <= m.size
      /\ Head(a.bytes) = HeaderUnit(k + 1, len, ~half)
      /\ DataAt(U, c, k + 1, from, len)
      /\ a.parts = Data(k + 1, 1, from) /\ a.count \in {0, 1}
      /\ half => InTwo(m) /\ from = 0 /\ len = m.cut /\ a.count = 0 /\ c + 2 + len = starts[k + 1] + 2 + m.cut
      /\ ~half => from + len = m.size /\ c + 2 + len = starts[k + 2]
      /\ ~InTwo(m) => from = 0

LEMMA NextFragment ==
  ASSUME NEW U, NEW starts, NEW sent, Numbered(sent), Streamed(U, starts, sent),
         NEW a \in Assemblers, NEW k \in Nat, NEW c \in Nat, CutUpTo(a.parts, a.count, k, c, starts, sent),
         Holding(a.bytes, c, U), 2 <= Len(a.bytes)
  PROVE  \E from, len \in Nat, half \in BOOLEAN : FragmentAt(a, k, c, from, len, half, U, starts, sent)
<1>1. a.bytes \in Seq(Units) /\ Len(a.bytes) \in Nat /\ Len(U) \in Nat /\ Len(sent) \in Nat
  BY LenProperties DEF Holding, Streamed, Numbered
<1>2. Head(a.bytes) = U[c + 1] /\ c + 2 <= Len(U)
  <2>1. 1 \in 1 .. Len(a.bytes) /\ c + 2 <= c + Len(a.bytes)
    BY <1>1
  <2>2. Head(a.bytes) = a.bytes[1]
    OBVIOUS
  <2>3. c + 2 <= Len(U)
    BY <1>1 DEF Holding
  <2> QED
    BY <1>1, <2>1, <2>2, <2>3 DEF Holding
<1>3. k < Len(sent)
  <2>1. k \in 0 .. Len(sent)
    BY DEF CutUpTo
  <2>2. CASE c = starts[k + 1] /\ k = Len(sent)
    BY <1>1, <1>2, <2>2 DEF Streamed
  <2> QED
    BY <1>1, <2>1, <2>2 DEF CutUpTo
<1>4. k + 1 \in 1 .. Len(sent) /\ k + 1 \in Nat /\ k + 1 + 1 = k + 2
  BY <1>1, <1>3
<1>5. PICK m \in Requests : m = sent[k + 1] /\ m.id = k + 1
  BY <1>4, ElementOfSeq DEF Numbered
<1>6. PICK first \in Nat : first = starts[k + 1]
  <2>1. starts \in [Nat -> Nat]
    BY DEF Streamed
  <2> QED
    BY <1>4, <2>1
<1>7. /\ starts[k + 2] = first + FramedLen(m)
      /\ \A j \in 1 .. FramedLen(m) : U[first + j] = FramedUnit(m, j)
  <2>1. /\ starts[k + 1 + 1] = starts[k + 1] + FramedLen(sent[k + 1])
        /\ \A j \in 1 .. FramedLen(sent[k + 1]) : U[starts[k + 1] + j] = FramedUnit(sent[k + 1], j)
    BY <1>4 DEF Streamed
  <2> QED
    BY <1>4, <1>5, <1>6, <2>1
<1>8. PICK size \in Nat \ {0}, cut \in Nat : size = m.size /\ cut = m.cut
  BY <1>5 DEF Requests
<1>9. CASE c = first /\ InTwo(m)
  <2>1. cut < size /\ FramedLen(m) = size + 4 /\ cut >= 1
    BY <1>8, <1>9 DEF InTwo, FramedLen
  <2>2. U[c + 1] = HeaderUnit(k + 1, cut, FALSE)
    <3>1. 1 \in 1 .. FramedLen(m) /\ FramedUnit(m, 1) = HeaderUnit(m.id, m.cut, FALSE)
      BY <1>8, <1>9, <2>1 DEF FramedUnit
    <3> QED
      BY <1>5, <1>7, <1>8, <1>9, <3>1
  <2>3. ASSUME NEW j \in 1 .. cut
        PROVE  U[c + 2 + j] = DataUnit(k + 1, 0 + j)
    <3>1. 2 + j \in 1 .. FramedLen(m) /\ first + (2 + j) = first + 2 + j /\ (2 + j) - 2 = j /\ 0 + j = j
          /\ ~(2 + j <= 2) /\ 2 + j <= m.cut + 2
      BY <1>8, <2>1
    <3>2. FramedUnit(m, 2 + j) = DataUnit(m.id, j)
      BY <1>9, <3>1 DEF FramedUnit
    <3> QED
      BY <1>5, <1>7, <1>9, <3>1, <3>2
  <2>4. a.parts = Data(k + 1, 1, 0) /\ a.count = 0
    <3>1. c # first + 2 + cut
      BY <1>9
    <3>2. a.parts = <<>> /\ a.count = 0
      BY <1>5, <1>6, <1>8, <3>1 DEF CutUpTo
    <3> QED
      BY <1>4, <3>2, NoDataIsEmpty
  <2>5. FragmentAt(a, k, c, 0, cut, TRUE, U, starts, sent)
    <3>1. HeaderUnit(k + 1, cut, ~TRUE) = HeaderUnit(k + 1, cut, FALSE)
      OBVIOUS
    <3>2. Head(a.bytes) = HeaderUnit(k + 1, cut, ~TRUE)
      BY <1>2, <2>2, <3>1
    <3>3. InTwo(sent[k + 1]) /\ cut = sent[k + 1].cut /\ 0 + cut <= sent[k + 1].size /\ 0 = 0
          /\ c + 2 + cut = starts[k + 1] + 2 + sent[k + 1].cut
      BY <1>5, <1>6, <1>8, <1>9, <2>1
    <3> QED
      BY <1>3, <1>5, <2>3, <2>4, <3>2, <3>3 DEF FragmentAt, DataAt
  <2> QED
    BY <2>5
<1>10. CASE c = first /\ ~InTwo(m)
  <2>1. FramedLen(m) = size + 2
    BY <1>8, <1>10 DEF FramedLen
  <2>2. U[c + 1] = HeaderUnit(k + 1, size, TRUE)
    <3>1. 1 \in 1 .. FramedLen(m) /\ FramedUnit(m, 1) = HeaderUnit(m.id, m.size, TRUE)
      BY <1>10, <2>1 DEF FramedUnit
    <3> QED
      BY <1>5, <1>7, <1>8, <1>10, <3>1
  <2>3. ASSUME NEW j \in 1 .. size
        PROVE  U[c + 2 + j] = DataUnit(k + 1, 0 + j)
    <3>1. 2 + j \in 1 .. FramedLen(m) /\ first + (2 + j) = first + 2 + j /\ (2 + j) - 2 = j /\ 0 + j = j
          /\ ~(2 + j <= 2)
      BY <1>8, <2>1
    <3>2. FramedUnit(m, 2 + j) = DataUnit(m.id, j)
      BY <1>10, <3>1 DEF FramedUnit
    <3> QED
      BY <1>5, <1>7, <1>10, <3>1, <3>2
  <2>4. a.parts = Data(k + 1, 1, 0) /\ a.count = 0
    <3>1. a.parts = <<>> /\ a.count = 0
      BY <1>5, <1>10 DEF CutUpTo
    <3> QED
      BY <1>4, <3>1, NoDataIsEmpty
  <2>5. 0 + size = m.size /\ c + 2 + size = starts[k + 2]
    BY <1>7, <1>8, <1>10, <2>1
  <2>6. FragmentAt(a, k, c, 0, size, FALSE, U, starts, sent)
    <3>1. HeaderUnit(k + 1, size, ~FALSE) = HeaderUnit(k + 1, size, TRUE)
      OBVIOUS
    <3>2. Head(a.bytes) = HeaderUnit(k + 1, size, ~FALSE)
      BY <1>2, <2>2, <3>1
    <3>3. 0 + size <= sent[k + 1].size /\ 0 + size = sent[k + 1].size
      BY <1>5, <1>8
    <3> QED
      BY <1>3, <1>5, <2>3, <2>4, <2>5, <3>2, <3>3 DEF FragmentAt, DataAt
  <2> QED
    BY <2>6
<1>11. CASE c # first
  <2>1. InTwo(m) /\ c = first + 2 + cut /\ a.parts = Data(k + 1, 1, cut) /\ a.count = 1
    BY <1>5, <1>6, <1>8, <1>11 DEF CutUpTo
  <2>2. cut < size /\ FramedLen(m) = size + 4 /\ cut >= 1
    BY <1>8, <2>1 DEF InTwo, FramedLen
  <2>3. PICK len \in Nat : len = size - cut /\ cut + len = size
    BY <2>2
  <2>4. U[c + 1] = HeaderUnit(k + 1, len, TRUE)
    <3>1. cut + 3 \in 1 .. FramedLen(m) /\ first + (cut + 3) = c + 1
      BY <2>1, <2>2
    <3>2. FramedUnit(m, cut + 3) = HeaderUnit(m.id, len, TRUE)
      BY <1>8, <2>1, <2>3, SecondFragment
    <3> QED
      BY <1>5, <1>7, <3>1, <3>2
  <2>5. ASSUME NEW j \in 1 .. len
        PROVE  U[c + 2 + j] = DataUnit(k + 1, cut + j)
    <3>1. cut + 4 + j \in 1 .. FramedLen(m) /\ first + (cut + 4 + j) = c + 2 + j
      BY <2>1, <2>2, <2>3
    <3>2. FramedUnit(m, cut + 4 + j) = DataUnit(m.id, cut + j)
      BY <1>8, <2>1, <2>3, SecondFragment
    <3> QED
      BY <1>5, <1>7, <3>1, <3>2
  <2>6. c + 2 + len = starts[k + 2]
    BY <1>7, <2>1, <2>2, <2>3
  <2>7. FragmentAt(a, k, c, cut, len, FALSE, U, starts, sent)
    <3>1. HeaderUnit(k + 1, len, ~FALSE) = HeaderUnit(k + 1, len, TRUE)
      OBVIOUS
    <3>2. Head(a.bytes) = HeaderUnit(k + 1, len, ~FALSE)
      BY <1>2, <2>4, <3>1
    <3>3. InTwo(sent[k + 1]) /\ cut + len <= sent[k + 1].size /\ cut + len = sent[k + 1].size
      BY <1>5, <1>8, <2>1, <2>3
    <3> QED
      BY <1>3, <1>5, <2>1, <2>5, <2>6, <3>2, <3>3 DEF FragmentAt, DataAt
  <2> QED
    BY <2>7
<1> QED
  BY <1>9, <1>10, <1>11

(* What becomes of a fragment that is there: the half of a record joins the *)
(* parts, what makes a record whole makes a message.                       *)
IsCut(a, half, base, k, c, n, e, next, U, starts, sent) ==
  /\ Holding(After(a, n), e, U)
  /\ e + Len(After(a, n)) = c + Len(a.bytes)
  /\ half => CutUpTo(Whole(a, n), 1, k, e, starts, sent)
  /\ ~half => CutUpTo(<<>>, 0, next, e, starts, sent)
  /\ ~half => Made(Append(a.out, Whole(a, n)), base, sent)
  /\ Whole(a, n) \in Seq(Units)
  /\ Body(a, n) \in Seq(Units)

LEMMA FragmentCut ==
  ASSUME NEW U, NEW starts, NEW sent, Numbered(sent), Streamed(U, starts, sent), NEW base \in Nat,
         NEW a \in Assemblers, Made(a.out, base, sent), NEW k \in Nat, k = base + Len(a.out),
         NEW c \in Nat, Holding(a.bytes, c, U),
         NEW from \in Nat, NEW len \in Nat, NEW half \in BOOLEAN,
         FragmentAt(a, k, c, from, len, half, U, starts, sent),
         NEW n \in Nat, n = 2 + len, n <= Len(a.bytes), NEW e \in Nat, e = c + 2 + len,
         NEW next \in Nat, next = k + 1
  PROVE  IsCut(a, half, base, k, c, n, e, next, U, starts, sent)
<1>1. Len(sent) \in Nat /\ Len(U) \in Nat /\ Len(a.out) \in Nat
  BY LenProperties DEF Numbered, Streamed, Made
<1>2. PICK m \in Requests : m = sent[k + 1]
  BY DEF FragmentAt
<1>3. PICK size \in Nat \ {0}, cut \in Nat : size = m.size /\ cut = m.cut
  BY DEF Requests
<1>4. PICK id \in Nat : id = k + 1
  OBVIOUS
<1>5. PICK to \in Nat : to = from + len
  OBVIOUS
<1>6. k < Len(sent) /\ a.parts = Data(id, 1, from)
  BY <1>4 DEF FragmentAt
<1>7. DataAt(U, c, id, from, len)
  BY <1>4 DEF FragmentAt
<1>8. Whole(a, n) = Data(id, 1, to)
  BY <1>1, <1>6, <1>5, <1>7, FragmentAdds
<1>9. Body(a, n) \in Seq(Units) /\ Holding(After(a, n), e, U) /\ e + Len(After(a, n)) = c + Len(a.bytes)
  BY <1>1, <1>6, <1>5, <1>7, <1>8, FragmentAdds
<1>10. Whole(a, n) \in Seq(Units)
  <2>1. Data(id, 1, to) \in Seq(Units)
    BY WholeDataIs
  <2> QED
    BY <1>8, <2>1
<1>11. PICK whole \in Seq(Units) : whole = Whole(a, n)
  BY <1>10
<1>12. ASSUME half
       PROVE  CutUpTo(whole, 1, k, e, starts, sent)
  <2>1. InTwo(m) /\ to = cut /\ e = starts[k + 1] + 2 + m.cut
    BY <1>2, <1>3, <1>12, <1>5 DEF FragmentAt
  <2>2. k \in 0 .. Len(sent)
    BY <1>1, <1>6
  <2>3. whole = Data(k + 1, 1, m.cut)
    BY <1>3, <1>8, <1>11, <1>4, <2>1
  <2> QED
    BY <1>2, <1>6, <2>1, <2>2, <2>3 DEF CutUpTo
<1>13. ASSUME ~half
       PROVE  CutUpTo(<<>>, 0, next, e, starts, sent) /\ Made(Append(a.out, whole), base, sent)
  <2>1. to = m.size /\ e = starts[k + 2]
    BY <1>2, <1>13, <1>5 DEF FragmentAt
  <2>2. next \in 0 .. Len(sent) /\ next + 1 = k + 2
    BY <1>1, <1>6
  <2>3. CutUpTo(<<>>, 0, next, e, starts, sent)
    BY <2>1, <2>2 DEF CutUpTo
  <2>4. whole = Data(base + Len(a.out) + 1, 1, sent[base + Len(a.out) + 1].size)
    BY <1>2, <1>8, <1>11, <1>4, <2>1
  <2>5. base + Len(a.out) < Len(sent)
    BY <1>6
  <2>6. Made(Append(a.out, whole), base, sent)
    BY <2>4, <2>5, OneMoreMade
  <2> QED
    BY <2>3, <2>6
<1> QED
  BY <1>10, <1>11, <1>12, <1>13, <1>9 DEF IsCut

LEMMA RecordTurn ==
  ASSUME NEW U, NEW starts, NEW sent, Numbered(sent), Streamed(U, starts, sent), NEW base \in Nat,
         NEW limit \in Nat, NEW end \in Nat, NEW most \in Nat, most > 1,
         NEW a \in Assemblers, Reading(a, base, end, limit, U, starts, sent)
  PROVE  Reading(RecordStep(a, most), base, end, limit, U, starts, sent)
<1>1. a \in Assemblers /\ a.limit = limit
  BY DEF Reading
<1>2. CASE a.failed \/ Len(a.bytes) < 2
  BY <1>2 DEF RecordStep
<1>3. CASE ~a.failed /\ ~(Len(a.bytes) < 2)
  <2>1. PICK c \in Nat :
           /\ CutUpTo(a.parts, a.count, base + Len(a.out), c, starts, sent)
           /\ Holding(a.bytes, c, U) /\ c + Len(a.bytes) = end
    BY <1>3 DEF Reading
  <2>2. Made(a.out, base, sent)
    BY <1>3 DEF Reading
  <2>3. Len(a.out) \in Nat /\ Len(sent) \in Nat /\ Len(a.bytes) \in Nat /\ a.out \in Seq(Seq(Units))
    BY <1>1, <2>2, LenProperties DEF Made, Numbered, Assemblers
  <2>4. PICK k \in Nat : k = base + Len(a.out)
    BY <2>3
  <2>5. 2 <= Len(a.bytes) /\ CutUpTo(a.parts, a.count, k, c, starts, sent)
    BY <1>3, <2>1, <2>3, <2>4
  <2>6. PICK from \in Nat, len \in Nat, half \in BOOLEAN : FragmentAt(a, k, c, from, len, half, U, starts, sent)
    BY <1>1, <2>1, <2>5, NextFragment
  <2>7. /\ Head(a.bytes) = HeaderUnit(k + 1, len, ~half) /\ a.parts = Data(k + 1, 1, from)
        /\ a.count \in {0, 1} /\ (half => a.count = 0) /\ k < Len(sent) /\ from + len <= sent[k + 1].size
        /\ sent[k + 1] \in Requests
    BY <2>6 DEF FragmentAt
  <2>8. Head(a.bytes).len = len /\ Head(a.bytes).last = ~half
    BY <2>7 DEF HeaderUnit
  <2>9. Len(a.parts) = from
    <3>1. PICK id \in Nat : id = k + 1
      OBVIOUS
    <3>2. Data(id, 1, from) \in Seq(Units)
      BY WholeDataIs
    <3>3. Len(Data(id, 1, from)) = from
      BY <3>2, WholeDataIs
    <3> QED
      BY <2>7, <3>1, <3>3
  <2>10. RecordStep(a, most) =
           IF from + len > a.limit \/ a.count >= most THEN [a EXCEPT !.failed = TRUE]
           ELSE IF Len(a.bytes) < 2 + len THEN a
           ELSE IF ~half
             THEN [a EXCEPT !.bytes = After(a, 2 + len), !.parts = <<>>, !.count = 0,
                            !.out = Append(a.out, Whole(a, 2 + len))]
             ELSE [a EXCEPT !.bytes = After(a, 2 + len), !.parts = Whole(a, 2 + len), !.count = a.count + 1]
    BY <1>3, <2>8, <2>9 DEF RecordStep, Whole, Body
  <2>11. CASE from + len > a.limit \/ a.count >= most
    <3> DEFINE b == [a EXCEPT !.failed = TRUE]
    <3>1. RecordStep(a, most) = b
      BY <2>10, <2>11
    <3>2. b \in Assemblers /\ b.limit = limit /\ b.failed = TRUE
      BY <1>1 DEF Assemblers
    <3> HIDE DEF b
    <3>3. ~(\A i \in (base + 1) .. Len(sent) : sent[i].size <= limit)
      <4>1. k + 1 \in (base + 1) .. Len(sent)
        BY <2>3, <2>4, <2>7
      <4>2. PICK size \in Nat : size = sent[k + 1].size
        BY <2>7 DEF Requests
      <4>3. PICK count \in {0, 1} : count = a.count
        BY <2>7
      <4>4. ~(count >= most)
        OBVIOUS
      <4>5. from + len > limit
        BY <1>1, <2>11, <4>3, <4>4
      <4>6. ~(size <= limit)
        BY <2>7, <4>2, <4>5
      <4> QED
        BY <4>1, <4>2, <4>6
    <3> QED
      BY <3>1, <3>2, <3>3 DEF Reading
  <2>12. CASE ~(from + len > a.limit \/ a.count >= most) /\ Len(a.bytes) < 2 + len
    BY <2>10, <2>12
  <2>13. CASE ~(from + len > a.limit \/ a.count >= most) /\ ~(Len(a.bytes) < 2 + len)
    <3>1. PICK n \in Nat, e \in Nat, next \in Nat : n = 2 + len /\ e = c + 2 + len /\ next = k + 1
      OBVIOUS
    <3>2. n <= Len(a.bytes)
      BY <2>3, <2>13, <3>1
    <3>0. IsCut(a, half, base, k, c, n, e, next, U, starts, sent)
      BY <2>1, <2>2, <2>4, <2>6, <3>1, <3>2, FragmentCut
    <3>3. Holding(After(a, n), e, U)
      BY <3>0 DEF IsCut
    <3>4. e + Len(After(a, n)) = c + Len(a.bytes)
      BY <3>0 DEF IsCut
    <3>5. half => CutUpTo(Whole(a, n), 1, k, e, starts, sent)
      BY <3>0 DEF IsCut
    <3>6. ~half => CutUpTo(<<>>, 0, next, e, starts, sent) /\ Made(Append(a.out, Whole(a, n)), base, sent)
      BY <3>0 DEF IsCut
    <3>7. Whole(a, n) \in Seq(Units)
      BY <3>0 DEF IsCut
    <3>8. PICK rest \in Seq(Units), whole \in Seq(Units) : rest = After(a, n) /\ whole = Whole(a, n)
      BY <3>3, <3>7 DEF Holding
    <3>9. Append(a.out, whole) \in Seq(Seq(Units)) /\ Len(Append(a.out, whole)) = Len(a.out) + 1
      BY <2>3, AppendProperties
    <3>10. CASE half
      <4> DEFINE b == [a EXCEPT !.bytes = rest, !.parts = whole, !.count = 1]
      <4>1. RecordStep(a, most) = b
        <5>1. a.count + 1 = 1
          <6>1. a.count = 0
            BY <2>7, <3>10
          <6> QED
            BY <6>1
        <5>2. RecordStep(a, most) = [a EXCEPT !.bytes = After(a, 2 + len), !.parts = Whole(a, 2 + len),
                                              !.count = a.count + 1]
          BY <2>10, <2>13, <3>10
        <5> QED
          BY <3>1, <3>8, <5>1, <5>2
      <4>2. b \in Assemblers /\ b.limit = limit /\ b.failed = FALSE /\ b.bytes = rest /\ b.parts = whole
            /\ b.count = 1 /\ b.out = a.out
        BY <1>1, <1>3 DEF Assemblers
      <4> HIDE DEF b
      <4>3. CutUpTo(b.parts, b.count, base + Len(b.out), e, starts, sent)
        BY <2>4, <3>5, <3>8, <3>10, <4>2
      <4>4. Holding(b.bytes, e, U) /\ e + Len(b.bytes) = end
        BY <2>1, <3>3, <3>4, <3>8, <4>2
      <4> QED
        BY <2>2, <4>1, <4>2, <4>3, <4>4 DEF Reading
    <3>11. CASE ~half
      <4> DEFINE b == [a EXCEPT !.bytes = rest, !.parts = <<>>, !.count = 0, !.out = Append(a.out, whole)]
      <4>1. RecordStep(a, most) = b
        BY <2>10, <2>13, <3>1, <3>8, <3>11
      <4>2. b \in Assemblers /\ b.limit = limit /\ b.failed = FALSE /\ b.bytes = rest /\ b.parts = <<>>
            /\ b.count = 0 /\ b.out = Append(a.out, whole)
        <5>1. <<>> \in Seq(Units)
          OBVIOUS
        <5>2. PICK more \in Seq(Seq(Units)) : more = Append(a.out, whole)
          BY <3>9
        <5> QED
          BY <1>1, <1>3, <5>1, <5>2 DEF Assemblers
      <4> HIDE DEF b
      <4>3. base + Len(b.out) = next
        BY <2>3, <2>4, <3>1, <3>9, <4>2
      <4>4. CutUpTo(b.parts, b.count, base + Len(b.out), e, starts, sent)
        BY <3>6, <3>11, <4>2, <4>3
      <4>5. Holding(b.bytes, e, U) /\ e + Len(b.bytes) = end
        BY <2>1, <3>3, <3>4, <3>8, <4>2
      <4>6. Made(b.out, base, sent)
        BY <3>6, <3>8, <3>11, <4>2
      <4> QED
        BY <4>1, <4>2, <4>4, <4>5, <4>6 DEF Reading
    <3> QED
      BY <3>10, <3>11
  <2> QED
    BY <2>11, <2>12, <2>13
<1> QED
  BY <1>2, <1>3

(* No request is cut in two: those of 9P.                                  *)
InOneFrame(sent) == \A i \in 1 .. Len(sent) : ~InTwo(sent[i])

LEMMA FrameTurn ==
  ASSUME NEW U, NEW starts, NEW sent, Numbered(sent), Streamed(U, starts, sent), NEW base \in Nat,
         NEW limit \in Nat, NEW end \in Nat, InOneFrame(sent),
         NEW a \in Assemblers, Reading(a, base, end, limit, U, starts, sent)
  PROVE  Reading(FrameStep(a), base, end, limit, U, starts, sent)
<1>1. a.limit = limit
  BY DEF Reading
<1>2. CASE a.failed \/ Len(a.bytes) < 2
  BY <1>2 DEF FrameStep
<1>3. CASE ~a.failed /\ ~(Len(a.bytes) < 2)
  <2>1. PICK c \in Nat :
           /\ CutUpTo(a.parts, a.count, base + Len(a.out), c, starts, sent)
           /\ Holding(a.bytes, c, U) /\ c + Len(a.bytes) = end
    BY <1>3 DEF Reading
  <2>2. Made(a.out, base, sent)
    BY <1>3 DEF Reading
  <2>3. Len(a.out) \in Nat /\ Len(sent) \in Nat /\ Len(a.bytes) \in Nat /\ a.out \in Seq(Seq(Units))
    BY <2>2, LenProperties DEF Made, Numbered, Assemblers
  <2>4. PICK k \in Nat : k = base + Len(a.out)
    BY <2>3
  <2>5. 2 <= Len(a.bytes) /\ CutUpTo(a.parts, a.count, k, c, starts, sent)
    BY <1>3, <2>1, <2>3, <2>4
  <2>6. PICK from \in Nat, len \in Nat, half \in BOOLEAN : FragmentAt(a, k, c, from, len, half, U, starts, sent)
    BY <2>1, <2>5, NextFragment
  <2>7. /\ Head(a.bytes) = HeaderUnit(k + 1, len, ~half) /\ a.parts = Data(k + 1, 1, from)
        /\ k < Len(sent) /\ from + len <= sent[k + 1].size /\ sent[k + 1] \in Requests
    BY <2>6 DEF FragmentAt
  <2>8. Head(a.bytes).len = len
    BY <2>7 DEF HeaderUnit
  <2>9. ~InTwo(sent[k + 1])
    <3>1. k + 1 \in 1 .. Len(sent)
      BY <2>3, <2>7
    <3> QED
      BY <3>1 DEF InOneFrame
  <2>10. ~half /\ from = 0
    BY <2>6, <2>9 DEF FragmentAt
  <2>11. a.parts = <<>> /\ a.count = 0
    <3>1. ~(k < Len(sent) /\ InTwo(sent[k + 1]) /\ c = starts[k + 1] + 2 + sent[k + 1].cut)
      BY <2>9
    <3> QED
      BY <2>5, <3>1 DEF CutUpTo
  <2>12. FrameStep(a) =
           IF len > a.limit THEN [a EXCEPT !.failed = TRUE]
           ELSE IF Len(a.bytes) < 2 + len THEN a
           ELSE [a EXCEPT !.bytes = After(a, 2 + len), !.out = Append(a.out, Body(a, 2 + len))]
    BY <1>3, <2>8 DEF FrameStep, Body
  <2>13. CASE len > a.limit
    <3> DEFINE b == [a EXCEPT !.failed = TRUE]
    <3>1. FrameStep(a) = b
      BY <2>13, <2>12
    <3>2. b \in Assemblers /\ b.limit = limit /\ b.failed = TRUE
      BY <1>1 DEF Assemblers
    <3> HIDE DEF b
    <3>3. ~(\A i \in (base + 1) .. Len(sent) : sent[i].size <= limit)
      <4>1. k + 1 \in (base + 1) .. Len(sent)
        BY <2>3, <2>4, <2>7
      <4>2. PICK size \in Nat : size = sent[k + 1].size
        BY <2>7 DEF Requests
      <4>3. len > limit
        BY <1>1, <2>13
      <4>4. ~(size <= limit)
        BY <2>7, <4>2, <4>3
      <4> QED
        BY <4>1, <4>2, <4>4
    <3> QED
      BY <3>1, <3>2, <3>3 DEF Reading
  <2>14. CASE ~(len > a.limit) /\ Len(a.bytes) < 2 + len
    BY <2>12, <2>14
  <2>15. CASE ~(len > a.limit) /\ ~(Len(a.bytes) < 2 + len)
    <3>1. PICK n \in Nat, e \in Nat, next \in Nat : n = 2 + len /\ e = c + 2 + len /\ next = k + 1
      OBVIOUS
    <3>2. n <= Len(a.bytes)
      BY <2>3, <2>15, <3>1
    <3>0. IsCut(a, half, base, k, c, n, e, next, U, starts, sent)
      BY <2>1, <2>2, <2>4, <2>6, <3>1, <3>2, FragmentCut
    <3>3. Holding(After(a, n), e, U)
      BY <3>0 DEF IsCut
    <3>4. e + Len(After(a, n)) = c + Len(a.bytes)
      BY <3>0 DEF IsCut
    <3>5. CutUpTo(<<>>, 0, next, e, starts, sent) /\ Made(Append(a.out, Whole(a, n)), base, sent)
      BY <2>10, <3>0 DEF IsCut
    <3>6. Body(a, n) \in Seq(Units)
      BY <3>0 DEF IsCut
    <3>7. PICK rest \in Seq(Units), body \in Seq(Units) : rest = After(a, n) /\ body = Body(a, n)
      BY <3>3, <3>6 DEF Holding
    <3>8. Whole(a, n) = body
      BY <2>11, <3>7, ConcatEmptySeq DEF Whole
    <3>9. Append(a.out, body) \in Seq(Seq(Units)) /\ Len(Append(a.out, body)) = Len(a.out) + 1
      BY <2>3, AppendProperties
    <3> DEFINE b == [a EXCEPT !.bytes = rest, !.out = Append(a.out, body)]
    <3>10. FrameStep(a) = b
      BY <2>15, <2>12, <3>1, <3>7
    <3>11. b \in Assemblers /\ b.limit = limit /\ b.failed = FALSE /\ b.bytes = rest /\ b.parts = <<>>
           /\ b.count = 0 /\ b.out = Append(a.out, body)
      <4>1. PICK more \in Seq(Seq(Units)) : more = Append(a.out, body)
        BY <3>9
      <4> QED
        BY <1>1, <1>3, <2>11, <4>1 DEF Assemblers
    <3> HIDE DEF b
    <3>12. base + Len(b.out) = next
      BY <2>3, <2>4, <3>1, <3>9, <3>11
    <3>13. CutUpTo(b.parts, b.count, base + Len(b.out), e, starts, sent)
      BY <3>5, <3>11, <3>12
    <3>14. Holding(b.bytes, e, U) /\ e + Len(b.bytes) = end
      BY <2>1, <3>3, <3>4, <3>7, <3>11
    <3>15. Made(b.out, base, sent)
      BY <3>5, <3>8, <3>11
    <3> QED
      BY <3>10, <3>11, <3>13, <3>14, <3>15 DEF Reading
  <2> QED
    BY <2>13, <2>14, <2>15
<1> QED
  BY <1>2, <1>3

-----------------------------------------------------------------------------
(* The loop of push.                                                       *)

LEMMA Turns ==
  ASSUME NEW n \in Nat, NEW T, 0 \in T,
         \A i \in 1 .. n : i - 1 \in T => i \in T
  PROVE  \A i \in 0 .. n : i \in T
<1> DEFINE Bad == {i \in 0 .. n : i \notin T}
<1> SUFFICES ASSUME Bad # {} PROVE FALSE
  OBVIOUS
<1>1. PICK x \in Bad : \A y \in Bad : ~(y < x)
  <2>1. Bad \subseteq Nat
    OBVIOUS
  <2> HIDE DEF Bad
  <2>2. PICK x \in Bad : \A y \in Bad : ~(<<y, x>> \in OpToRel(<, Nat))
    BY <2>1, NatLessThanWellFounded, WFMin
  <2>3. ASSUME NEW y \in Bad, y < x PROVE <<y, x>> \in OpToRel(<, Nat)
    BY <2>1, <2>3 DEF OpToRel
  <2> QED
    BY <2>2, <2>3
<1>2. x \in 1 .. n /\ x - 1 \in 0 .. n /\ x - 1 < x
  BY <1>1
<1>3. x - 1 \notin T
  BY <1>1, <1>2
<1> QED
  BY <1>1, <1>2, <1>3

CutOnce(a, frames, most) == IF frames THEN FrameStep(a) ELSE RecordStep(a, most)
CutTurns(f, a, frames, most, n) ==
  f = [i \in 0 .. n |-> IF i = 0 THEN a ELSE CutOnce(f[i - 1], frames, most)]
CutUp(a, frames, most, n) == (CHOOSE f : CutTurns(f, a, frames, most, n))[n]
Joined(a, piece) == [a EXCEPT !.bytes = @ \o piece, !.out = <<>>]

LEMMA PushRecordIs ==
  ASSUME NEW a, NEW piece, NEW most
  PROVE  PushRecord(a, piece, most) =
           CutUp(Joined(a, piece), FALSE, most, Len(Joined(a, piece).bytes) \div 2)
<1>1. \A b : CutOnce(b, FALSE, most) = RecordStep(b, most)
  BY DEF CutOnce
<1> QED
  BY <1>1 DEF PushRecord, Push, CutTurns, CutUp, Joined

LEMMA PushFrameIs ==
  ASSUME NEW a, NEW piece, NEW most
  PROVE  PushFrame(a, piece) =
           CutUp(Joined(a, piece), TRUE, most, Len(Joined(a, piece).bytes) \div 2)
<1>1. \A b : CutOnce(b, TRUE, most) = FrameStep(b)
  BY DEF CutOnce
<1> QED
  BY <1>1 DEF PushFrame, Push, CutTurns, CutUp, Joined

LEMMA CutIsALoop ==
  ASSUME NEW a, NEW n \in Nat, NEW frames, NEW most
  PROVE  \E f : CutTurns(f, a, frames, most, n)
<1> DEFINE T == {k \in 0 .. n : \E f : CutTurns(f, a, frames, most, k)}
<1>1. 0 \in T
  <2> DEFINE g == [i \in 0 .. 0 |-> a]
  <2>1. g = [i \in 0 .. 0 |-> g[i]] /\ \A i \in 0 .. 0 : i = 0 /\ g[i] = a
    OBVIOUS
  <2> HIDE DEF g
  <2>2. ASSUME NEW i \in 0 .. 0
        PROVE  g[i] = IF i = 0 THEN a ELSE CutOnce(g[i - 1], frames, most)
    BY <2>1
  <2>3. CutTurns(g, a, frames, most, 0)
    BY <2>1, <2>2 DEF CutTurns
  <2> QED
    BY <2>3
<1>2. ASSUME NEW k \in 1 .. n, k - 1 \in T
      PROVE  k \in T
  <2>1. PICK f : CutTurns(f, a, frames, most, k - 1)
    BY <1>2
  <2> DEFINE g == [i \in 0 .. k |-> IF i = k THEN CutOnce(f[k - 1], frames, most) ELSE f[i]]
  <2>2. ASSUME NEW i \in 0 .. k
        PROVE  g[i] = IF i = 0 THEN a ELSE CutOnce(g[i - 1], frames, most)
    <3>1. CASE i = k
      <4>1. k # 0 /\ k - 1 \in 0 .. k /\ k - 1 # k
        OBVIOUS
      <4>2. g[k] = CutOnce(f[k - 1], frames, most) /\ g[k - 1] = f[k - 1]
        BY <4>1
      <4> QED
        BY <3>1, <4>1, <4>2
    <3>2. CASE i # k
      <4>1. i \in 0 .. k - 1
        BY <3>2
      <4>2. f[i] = IF i = 0 THEN a ELSE CutOnce(f[i - 1], frames, most)
        BY <2>1, <4>1 DEF CutTurns
      <4>3. g[i] = f[i]
        BY <3>2
      <4>4. i # 0 => i - 1 \in 0 .. k /\ i - 1 # k
        BY <4>1
      <4>5. i # 0 => g[i - 1] = f[i - 1]
        BY <4>4
      <4> QED
        BY <4>2, <4>3, <4>5
    <3> QED
      BY <3>1, <3>2
  <2>3. g = [i \in 0 .. k |-> g[i]]
    OBVIOUS
  <2> HIDE DEF g
  <2>4. CutTurns(g, a, frames, most, k)
    BY <2>2, <2>3 DEF CutTurns
  <2> QED
    BY <2>4
<1>3. \A k \in 0 .. n : k \in T
  <2>1. \A k \in 1 .. n : k - 1 \in T => k \in T
    BY <1>2
  <2> HIDE DEF T
  <2> QED
    BY <1>1, <2>1, Turns
<1>4. n \in T
  BY <1>3
<1> QED
  BY <1>4

LEMMA CutUpReads ==
  ASSUME NEW U, NEW starts, NEW sent, Numbered(sent), Streamed(U, starts, sent), NEW base \in Nat,
         NEW limit \in Nat, NEW end \in Nat, NEW most \in Nat, most > 1,
         NEW frames \in BOOLEAN, frames => InOneFrame(sent), NEW n \in Nat,
         NEW a, Reading(a, base, end, limit, U, starts, sent)
  PROVE  Reading(CutUp(a, frames, most, n), base, end, limit, U, starts, sent)
<1> DEFINE f == CHOOSE g : CutTurns(g, a, frames, most, n)
           T == {i \in 0 .. n : Reading(f[i], base, end, limit, U, starts, sent)}
<1>1. CutTurns(f, a, frames, most, n)
  BY CutIsALoop
<1> HIDE DEF f
<1>2. \A i \in 0 .. n : f[i] = IF i = 0 THEN a ELSE CutOnce(f[i - 1], frames, most)
  BY <1>1 DEF CutTurns
<1>3. 0 \in T
  BY <1>2
<1>4. ASSUME NEW i \in 1 .. n, i - 1 \in T
      PROVE  i \in T
  <2>1. PICK b : b = f[i - 1]
    OBVIOUS
  <2>2. Reading(b, base, end, limit, U, starts, sent)
    BY <1>4, <2>1
  <2>3. b \in Assemblers
    BY <2>2 DEF Reading
  <2>4. Reading(CutOnce(b, frames, most), base, end, limit, U, starts, sent)
    <3>1. CASE frames
      <4>1. Reading(FrameStep(b), base, end, limit, U, starts, sent)
        BY <2>2, <2>3, <3>1, FrameTurn
      <4> QED
        BY <3>1, <4>1 DEF CutOnce
    <3>2. CASE ~frames
      <4>1. Reading(RecordStep(b, most), base, end, limit, U, starts, sent)
        BY <2>2, <2>3, RecordTurn
      <4> QED
        BY <3>2, <4>1 DEF CutOnce
    <3> QED
      BY <3>1, <3>2
  <2>5. i \in 0 .. n /\ i # 0
    OBVIOUS
  <2>6. f[i] = CutOnce(b, frames, most)
    BY <1>2, <2>1, <2>5
  <2> QED
    BY <2>4, <2>5, <2>6
<1>5. \A i \in 0 .. n : i \in T
  <2>1. \A i \in 1 .. n : i - 1 \in T => i \in T
    BY <1>4
  <2> HIDE DEF T
  <2> QED
    BY <1>3, <2>1, Turns
<1>6. Reading(f[n], base, end, limit, U, starts, sent)
  BY <1>5
<1> QED
  BY <1>6 DEF CutUp, f

-----------------------------------------------------------------------------
(* Pieces of the stream, and of what has been made of it.                  *)

First(s, n) == SubSeq(s, 1, n)
Rest(s, n) == SubSeq(s, n + 1, Len(s))

LEMMA FirstIs ==
  ASSUME NEW S, NEW s \in Seq(S), NEW n \in Nat, n <= Len(s)
  PROVE  First(s, n) \in Seq(S) /\ Len(First(s, n)) = n /\ \A j \in 1 .. n : First(s, n)[j] = s[j]
<1>0. Len(s) \in Nat
  BY LenProperties
<1>1. 1 \in Int /\ n \in Int /\ n - 1 + 1 = n /\ \A i \in 1 .. n : s[i] \in S
  BY <1>0, ElementOfSeq
<1>2. /\ First(s, n) \in Seq(S) /\ Len(First(s, n)) = IF 1 <= n THEN n - 1 + 1 ELSE 0
      /\ \A j \in 1 .. n - 1 + 1 : First(s, n)[j] = s[1 + j - 1]
  BY <1>1, SubSeqProperties DEF First
<1>3. \A j \in 1 .. n : 1 + j - 1 = j
  OBVIOUS
<1> QED
  BY <1>1, <1>2, <1>3

LEMMA RestIs ==
  ASSUME NEW S, NEW s \in Seq(S), NEW n \in Nat, n <= Len(s)
  PROVE  /\ Rest(s, n) \in Seq(S) /\ Len(Rest(s, n)) = Len(s) - n
         /\ \A j \in 1 .. Len(s) - n : Rest(s, n)[j] = s[n + j]
<1>0. PICK all \in Nat : all = Len(s)
  BY LenProperties
<1>1. n + 1 \in Int /\ all \in Int /\ all - (n + 1) + 1 = all - n /\ \A i \in (n + 1) .. all : s[i] \in S
  BY <1>0, ElementOfSeq
<1>2. /\ Rest(s, n) \in Seq(S) /\ Len(Rest(s, n)) = IF n + 1 <= all THEN all - (n + 1) + 1 ELSE 0
      /\ \A j \in 1 .. all - (n + 1) + 1 : Rest(s, n)[j] = s[n + 1 + j - 1]
  BY <1>0, <1>1, SubSeqProperties DEF Rest
<1>3. \A j \in 1 .. all - n : n + 1 + j - 1 = n + j
  OBVIOUS
<1>4. Len(Rest(s, n)) = all - n
  BY <1>0, <1>1, <1>2
<1> QED
  BY <1>0, <1>1, <1>2, <1>3, <1>4

SplitAt(s, n, c, e, U) ==
  /\ Holding(First(s, n), c, U) /\ Len(First(s, n)) = n
  /\ Holding(Rest(s, n), e, U) /\ e + Len(Rest(s, n)) = c + Len(s)

LEMMA HoldingSplits ==
  ASSUME NEW U, NEW c \in Nat, NEW s \in Seq(Units), Holding(s, c, U), Len(U) \in Nat,
         NEW n \in Nat, n <= Len(s), NEW e \in Nat, e = c + n
  PROVE  SplitAt(s, n, c, e, U)
<1>0. PICK all \in Nat : all = Len(s)
  BY LenProperties
<1>1. /\ First(s, n) \in Seq(Units) /\ Len(First(s, n)) = n
      /\ \A j \in 1 .. n : First(s, n)[j] = s[j]
  BY FirstIs
<1>2. /\ Rest(s, n) \in Seq(Units) /\ Len(Rest(s, n)) = all - n
      /\ \A j \in 1 .. all - n : Rest(s, n)[j] = s[n + j]
  BY <1>0, RestIs
<1>3. c + all <= Len(U) /\ \A j \in 1 .. all : s[j] = U[c + j]
  BY <1>0 DEF Holding
<1>4. ASSUME NEW j \in 1 .. n
      PROVE  First(s, n)[j] = U[c + j]
  <2>1. j \in 1 .. all
    BY <1>0
  <2> QED
    BY <1>1, <1>3, <2>1
<1>5. ASSUME NEW j \in 1 .. all - n
      PROVE  Rest(s, n)[j] = U[e + j]
  <2>1. n + j \in 1 .. all /\ c + (n + j) = e + j
    BY <1>0
  <2> QED
    BY <1>2, <1>3, <2>1
<1>6. c + n <= Len(U) /\ e + (all - n) = c + all /\ e + (all - n) <= Len(U)
  BY <1>0, <1>3
<1>7. Holding(First(s, n), c, U)
  BY <1>1, <1>4, <1>6 DEF Holding
<1>8. Holding(Rest(s, n), e, U)
  BY <1>2, <1>5, <1>6 DEF Holding
<1>9. e + Len(Rest(s, n)) = c + Len(s)
  BY <1>0, <1>2, <1>6
<1> QED
  BY <1>1, <1>7, <1>8, <1>9 DEF SplitAt

LEMMA HoldingJoins ==
  ASSUME NEW U, NEW c \in Nat, NEW s, Holding(s, c, U), Len(U) \in Nat,
         NEW e \in Nat, e = c + Len(s), NEW t, Holding(t, e, U)
  PROVE  Holding(s \o t, c, U) /\ Len(s \o t) = Len(s) + Len(t)
<1>0. PICK m \in Nat, n \in Nat : m = Len(s) /\ n = Len(t)
  BY LenProperties DEF Holding
<1>1. s \in Seq(Units) /\ t \in Seq(Units)
  BY DEF Holding
<1>2. PICK both : both = s \o t
  OBVIOUS
<1>3. /\ both \in Seq(Units) /\ Len(both) = m + n
      /\ \A j \in 1 .. m + n : both[j] = IF j <= m THEN s[j] ELSE t[j - m]
  BY <1>0, <1>1, <1>2, ConcatProperties
<1>4. \A j \in 1 .. m : s[j] = U[c + j]
  BY <1>0 DEF Holding
<1>5. \A j \in 1 .. n : t[j] = U[e + j]
  BY <1>0 DEF Holding
<1>6. ASSUME NEW j \in 1 .. m + n
      PROVE  both[j] = U[c + j]
  <2>1. CASE j <= m
    <3>1. j \in 1 .. m
      BY <2>1
    <3> QED
      BY <1>3, <1>4, <2>1, <3>1
  <2>2. CASE ~(j <= m)
    <3>1. j - m \in 1 .. n /\ e + (j - m) = c + j
      BY <1>0, <2>2
    <3>2. both[j] = t[j - m]
      BY <1>3, <2>2
    <3>3. t[j - m] = U[e + (j - m)]
      BY <1>5, <3>1
    <3> QED
      BY <3>1, <3>2, <3>3
  <2> QED
    BY <2>1, <2>2
<1>7. c + (m + n) <= Len(U)
  <2>1. e + n <= Len(U)
    BY <1>0 DEF Holding
  <2> QED
    BY <1>0, <2>1
<1>8. Holding(both, c, U)
  BY <1>3, <1>6, <1>7 DEF Holding
<1> QED
  BY <1>0, <1>2, <1>3, <1>8

LEMMA HoldingGrows ==
  ASSUME NEW U, NEW V, NEW c \in Nat, NEW s, Holding(s, c, U), Len(U) \in Nat, Len(V) \in Nat,
         Len(U) <= Len(V), \A j \in 1 .. Len(U) : V[j] = U[j]
  PROVE  Holding(s, c, V)
<1>0. PICK m \in Nat : m = Len(s)
  BY LenProperties DEF Holding
<1>1. s \in Seq(Units) /\ c + m <= Len(U) /\ \A j \in 1 .. m : s[j] = U[c + j]
  BY <1>0 DEF Holding
<1>2. ASSUME NEW j \in 1 .. m
      PROVE  s[j] = V[c + j]
  <2>1. c + j \in 1 .. Len(U)
    BY <1>0, <1>1
  <2> QED
    BY <1>1, <2>1
<1>3. c + m <= Len(V)
  BY <1>1
<1> QED
  BY <1>0, <1>1, <1>2, <1>3 DEF Holding

LEMMA MadeSplits ==
  ASSUME NEW sent, Numbered(sent), NEW base \in Nat, NEW s, Made(s, base, sent),
         NEW n \in Nat, n <= Len(s), NEW e \in Nat, e = base + n
  PROVE  /\ Made(First(s, n), base, sent) /\ Len(First(s, n)) = n
         /\ Made(Rest(s, n), e, sent) /\ e + Len(Rest(s, n)) = base + Len(s)
<1>0. PICK all \in Nat, most \in Nat : all = Len(s) /\ most = Len(sent)
  BY LenProperties DEF Made, Numbered
<1>1. s \in Seq(Seq(Units)) /\ base + all <= most
  BY <1>0 DEF Made
<1>2. /\ First(s, n) \in Seq(Seq(Units)) /\ Len(First(s, n)) = n
      /\ \A j \in 1 .. n : First(s, n)[j] = s[j]
  BY <1>1, FirstIs
<1>3. /\ Rest(s, n) \in Seq(Seq(Units)) /\ Len(Rest(s, n)) = all - n
      /\ \A j \in 1 .. all - n : Rest(s, n)[j] = s[n + j]
  BY <1>0, <1>1, RestIs
<1>4. \A i \in 1 .. all : s[i] = Data(base + i, 1, sent[base + i].size)
  BY <1>0 DEF Made
<1>5. ASSUME NEW i \in 1 .. n
      PROVE  First(s, n)[i] = Data(base + i, 1, sent[base + i].size)
  <2>1. i \in 1 .. all
    BY <1>0
  <2> QED
    BY <1>2, <1>4, <2>1
<1>6. ASSUME NEW i \in 1 .. all - n
      PROVE  Rest(s, n)[i] = Data(e + i, 1, sent[e + i].size)
  <2>1. n + i \in 1 .. all /\ base + (n + i) = e + i
    BY <1>0
  <2>2. s[n + i] = Data(base + (n + i), 1, sent[base + (n + i)].size)
    BY <1>4, <2>1
  <2> QED
    BY <1>3, <2>1, <2>2
<1>7. base + n <= most /\ e + (all - n) = base + all /\ e + (all - n) <= most
  BY <1>0, <1>1
<1>8. Made(First(s, n), base, sent)
  BY <1>0, <1>2, <1>5, <1>7 DEF Made
<1>9. Made(Rest(s, n), e, sent)
  BY <1>0, <1>3, <1>6, <1>7 DEF Made
<1>10. e + Len(Rest(s, n)) = base + Len(s)
  BY <1>0, <1>3, <1>7
<1> QED
  BY <1>2, <1>8, <1>9, <1>10

LEMMA MadeJoins ==
  ASSUME NEW sent, Numbered(sent), NEW base \in Nat, NEW s, Made(s, base, sent),
         NEW e \in Nat, e = base + Len(s), NEW t, Made(t, e, sent)
  PROVE  Made(s \o t, base, sent) /\ Len(s \o t) = Len(s) + Len(t)
<1>0. PICK m \in Nat, n \in Nat, most \in Nat : m = Len(s) /\ n = Len(t) /\ most = Len(sent)
  BY LenProperties DEF Made, Numbered
<1>1. s \in Seq(Seq(Units)) /\ t \in Seq(Seq(Units)) /\ e + n <= most
  BY <1>0 DEF Made
<1>2. PICK both : both = s \o t
  OBVIOUS
<1>3. /\ both \in Seq(Seq(Units)) /\ Len(both) = m + n
      /\ \A j \in 1 .. m + n : both[j] = IF j <= m THEN s[j] ELSE t[j - m]
  BY <1>0, <1>1, <1>2, ConcatProperties
<1>4. \A i \in 1 .. m : s[i] = Data(base + i, 1, sent[base + i].size)
  BY <1>0 DEF Made
<1>5. \A i \in 1 .. n : t[i] = Data(e + i, 1, sent[e + i].size)
  BY <1>0 DEF Made
<1>6. ASSUME NEW i \in 1 .. m + n
      PROVE  both[i] = Data(base + i, 1, sent[base + i].size)
  <2>1. CASE i <= m
    <3>1. i \in 1 .. m
      BY <2>1
    <3> QED
      BY <1>3, <1>4, <2>1, <3>1
  <2>2. CASE ~(i <= m)
    <3>1. i - m \in 1 .. n /\ e + (i - m) = base + i
      BY <1>0, <2>2
    <3>2. both[i] = t[i - m]
      BY <1>3, <2>2
    <3>3. t[i - m] = Data(e + (i - m), 1, sent[e + (i - m)].size)
      BY <1>5, <3>1
    <3> QED
      BY <3>1, <3>2, <3>3
  <2> QED
    BY <2>1, <2>2
<1>7. base + (m + n) <= most
  BY <1>0, <1>1
<1>8. Made(both, base, sent)
  BY <1>0, <1>3, <1>6, <1>7 DEF Made
<1> QED
  BY <1>0, <1>2, <1>3, <1>8

LEMMA MadeGrows ==
  ASSUME NEW sent, Numbered(sent), NEW m \in Requests, NEW base \in Nat, NEW s, Made(s, base, sent)
  PROVE  Made(s, base, Append(sent, m))
<1>0. PICK all \in Nat, most \in Nat : all = Len(s) /\ most = Len(sent)
  BY LenProperties DEF Made, Numbered
<1>1. PICK more : more = Append(sent, m)
  OBVIOUS
<1>2. Len(more) = most + 1 /\ \A i \in 1 .. most : more[i] = sent[i]
  BY <1>0, <1>1, AppendProperties DEF Numbered
<1>3. /\ s \in Seq(Seq(Units)) /\ base + all <= most
      /\ \A i \in 1 .. all : s[i] = Data(base + i, 1, sent[base + i].size)
  BY <1>0 DEF Made
<1>4. ASSUME NEW i \in 1 .. all
      PROVE  s[i] = Data(base + i, 1, more[base + i].size)
  <2>1. base + i \in 1 .. most
    BY <1>3
  <2> QED
    BY <1>2, <1>3, <2>1
<1>5. base + all <= most + 1
  BY <1>3
<1> QED
  BY <1>0, <1>1, <1>2, <1>3, <1>4, <1>5 DEF Made

LEMMA CutUpGrows ==
  ASSUME NEW sent, Numbered(sent), NEW m \in Requests, NEW parts, NEW count, NEW k \in Nat, NEW c \in Nat,
         NEW starts \in [Nat -> Nat], NEW end \in Nat, CutUpTo(parts, count, k, c, starts, sent)
  PROVE  CutUpTo(parts, count, k, c, [starts EXCEPT ![Len(sent) + 2] = end], Append(sent, m))
<1>0. PICK most \in Nat : most = Len(sent)
  BY LenProperties DEF Numbered
<1>1. PICK more : more = Append(sent, m)
  OBVIOUS
<1>2. Len(more) = most + 1 /\ \A i \in 1 .. most : more[i] = sent[i]
  BY <1>0, <1>1, AppendProperties DEF Numbered
<1>3. PICK st : st = [starts EXCEPT ![most + 2] = end]
  OBVIOUS
<1>4. k \in 0 .. most
  BY <1>0 DEF CutUpTo
<1>5. st[k + 1] = starts[k + 1]
  <2>1. k + 1 \in Nat /\ k + 1 # most + 2
    BY <1>4
  <2> QED
    BY <1>3, <2>1
<1>6. k < most => more[k + 1] = sent[k + 1]
  <2>1. k < most => k + 1 \in 1 .. most
    BY <1>4
  <2> QED
    BY <1>2, <2>1
<1>7. k \in 0 .. most + 1 /\ (k < most => k < most + 1)
  BY <1>4
<1>8. CutUpTo(parts, count, k, c, st, more)
  BY <1>0, <1>2, <1>5, <1>6, <1>7 DEF CutUpTo
<1> QED
  BY <1>0, <1>1, <1>3, <1>8

(* What has arrived is read on from where the assembler had got to.        *)
Pushed(frames, a, piece, most) == IF frames THEN PushFrame(a, piece) ELSE PushRecord(a, piece, most)

LEMMA PushReads ==
  ASSUME NEW U, NEW starts, NEW sent, Numbered(sent), Streamed(U, starts, sent), NEW base \in Nat,
         NEW a \in Assemblers, ~a.failed, base <= Len(sent), NEW limit \in Nat, limit = a.limit,
         NEW c \in Nat, CutUpTo(a.parts, a.count, base, c, starts, sent), Holding(a.bytes, c, U),
         NEW e \in Nat, e = c + Len(a.bytes), NEW piece, Holding(piece, e, U),
         NEW end \in Nat, end = e + Len(piece), NEW most \in Nat, most > 1,
         NEW frames \in BOOLEAN, frames => InOneFrame(sent)
  PROVE  Reading(Pushed(frames, a, piece, most), base, end, limit, U, starts, sent)
<1>1. Len(U) \in Nat /\ Len(a.bytes) \in Nat /\ Len(piece) \in Nat /\ a.bytes \in Seq(Units) /\ Len(sent) \in Nat
  BY LenProperties DEF Streamed, Holding, Numbered
<1>2. PICK both \in Seq(Units) : both = a.bytes \o piece /\ Holding(both, c, U) /\ Len(both) = Len(a.bytes) + Len(piece)
  <2>1. Holding(a.bytes \o piece, c, U)
    BY <1>1, HoldingJoins
  <2>2. Len(a.bytes \o piece) = Len(a.bytes) + Len(piece)
    BY <1>1, <2>1, HoldingJoins
  <2> QED
    BY <2>1, <2>2 DEF Holding
<1>3. PICK b : b = Joined(a, piece)
  OBVIOUS
<1>4. /\ b \in Assemblers /\ b.bytes = both /\ b.out = <<>> /\ b.failed = FALSE /\ b.limit = limit
      /\ b.parts = a.parts /\ b.count = a.count
  <2>1. <<>> \in Seq(Seq(Units))
    OBVIOUS
  <2> QED
    BY <1>2, <1>3, <2>1 DEF Joined, Assemblers
<1>5. Len(b.out) = 0 /\ base + Len(b.out) = base
  BY <1>4, EmptySeq
<1>6. Made(b.out, base, sent)
  <2>1. b.out \in Seq(Seq(Units)) /\ base + Len(b.out) <= Len(sent)
    BY <1>4, <1>5 DEF Assemblers
  <2>2. 1 .. Len(b.out) = {}
    BY <1>5
  <2> QED
    BY <2>1, <2>2 DEF Made
<1>7. c + Len(b.bytes) = end
  BY <1>1, <1>2, <1>4
<1>8. Reading(b, base, end, limit, U, starts, sent)
  BY <1>2, <1>4, <1>5, <1>6, <1>7 DEF Reading
<1>9. PICK n \in Nat : n = Len(b.bytes) \div 2
  <2>1. Len(both) \in Nat
    BY LenProperties
  <2> QED
    BY <1>4, <2>1
<1>10. Reading(CutUp(b, frames, most, n), base, end, limit, U, starts, sent)
  BY <1>8, CutUpReads
<1>11. Pushed(frames, a, piece, most) = CutUp(b, frames, most, n)
  <2>1. CASE frames
    <3>1. PushFrame(a, piece) = CutUp(Joined(a, piece), TRUE, most, Len(Joined(a, piece).bytes) \div 2)
      BY PushFrameIs
    <3>2. frames = TRUE
      BY <2>1
    <3> QED
      BY <1>3, <1>9, <3>1, <3>2 DEF Pushed
  <2>2. CASE ~frames
    <3>1. PushRecord(a, piece, most) = CutUp(Joined(a, piece), FALSE, most, Len(Joined(a, piece).bytes) \div 2)
      BY PushRecordIs
    <3>2. frames = FALSE
      BY <2>2
    <3> QED
      BY <1>3, <1>9, <3>1, <3>2 DEF Pushed
  <2> QED
    BY <2>1, <2>2
<1> QED
  BY <1>10, <1>11

-----------------------------------------------------------------------------
(* The records of a connection are its client's requests.                  *)

Entries == [m : Requests, waits : SUBSET Nat, refused : BOOLEAN]
Replies == [m : Requests, msize : Nat]

(* The values of a connection, whatever it has done.                       *)
TypesInv ==
  /\ kind \in Kinds /\ ceiling \in Nat \ {0} /\ msize \in Nat
  /\ client \in [sent : Seq(Requests), owed : SUBSET Requests, size : Nat]
  /\ Numbered(client.sent) /\ (kind = "9p" => InOneFrame(client.sent))
  /\ wire \in Seq(Units) /\ asm \in Assemblers
  /\ running \in SUBSET Entries /\ writing \in Seq(Replies) /\ out \in Seq(Replies)

(* Everything sent is in the session, in a record, in the assembler or on  *)
(* the stream, in that order and with nothing lost between them.           *)
Accounted(U, starts) ==
  /\ Streamed(U, starts, client.sent)
  /\ ~stopped =>
       /\ ~asm.failed
       /\ \E c, e \in Nat :
            /\ CutUpTo(asm.parts, asm.count, Len(dispatched) + Len(records), c, starts, client.sent)
            /\ Holding(asm.bytes, c, U) /\ e = c + Len(asm.bytes)
            /\ Holding(wire, e, U) /\ e + Len(wire) = Len(U)

FramingInv ==
  /\ TypesInv
  /\ Made(dispatched, 0, client.sent)
  /\ Made(records, Len(dispatched), client.sent)
  /\ \E U, starts : Accounted(U, starts)

LEMMA FramingInvInit == Init => FramingInv
<1> SUFFICES ASSUME Init PROVE FramingInv
  OBVIOUS
<1>1. client.sent = <<>> /\ client.owed = {} /\ client.size \in Nat /\ <<>> \in Seq(Requests) /\ Len(client.sent) = 0
  BY ConnectionAssumption, EmptySeq DEF Init
<1>2. client \in [sent : Seq(Requests), owed : SUBSET Requests, size : Nat]
  BY <1>1 DEF Init
<1>3. <<>> \in Seq(Units) /\ <<>> \in Seq(Seq(Units)) /\ <<>> \in Seq(Replies) /\ <<>> = <<>> /\ {} \in SUBSET Entries
  OBVIOUS
<1>4. asm \in Assemblers /\ asm.bytes = <<>> /\ asm.parts = <<>> /\ asm.count = 0 /\ ~asm.failed
  BY <1>3, ConnectionAssumption DEF Init, Assembler, Assemblers
<1>5. Numbered(client.sent) /\ InOneFrame(client.sent)
  BY <1>1 DEF Numbered, InOneFrame
<1>6. TypesInv
  BY <1>2, <1>3, <1>4, <1>5, ConnectionAssumption DEF Init, TypesInv
<1>7. Len(dispatched) = 0 /\ Len(records) = 0 /\ dispatched = <<>> /\ records = <<>>
  BY EmptySeq DEF Init
<1>8. Made(dispatched, 0, client.sent) /\ Made(records, Len(dispatched), client.sent)
  BY <1>1, <1>3, <1>7 DEF Made
<1> DEFINE starts == [i \in Nat |-> 0]
<1>9. Streamed(<<>>, starts, client.sent)
  <2>1. starts \in [Nat -> Nat] /\ starts[1] = 0 /\ starts[0 + 1] = 0
    OBVIOUS
  <2> HIDE DEF starts
  <2>2. Len(client.sent) = 0 /\ 1 .. 0 = {} /\ Len(<<>>) = 0 /\ <<>> \in Seq(Units)
    BY <1>1
  <2> QED
    BY <2>1, <2>2 DEF Streamed
<1>10. CutUpTo(asm.parts, asm.count, 0, 0, starts, client.sent)
  BY <1>1, <1>4 DEF CutUpTo
<1> HIDE DEF starts
<1>11. Holding(<<>>, 0, <<>>)
  BY <1>3 DEF Holding
<1>12. Accounted(<<>>, starts)
  <2>1. Len(dispatched) + Len(records) = 0 /\ 0 = 0 + Len(asm.bytes) /\ wire = <<>> /\ 0 + Len(wire) = Len(<<>>)
    BY <1>4, <1>7 DEF Init
  <2> QED
    BY <1>4, <1>9, <1>10, <1>11, <2>1 DEF Accounted
<1> QED
  BY <1>6, <1>8, <1>12 DEF FramingInv

(* A new request goes to the end of all there is.                          *)
LEMMA SendsFramed ==
  ASSUME FramingInv, NEW op \in {"call", "flush", "version"}, NEW tag \in Nat, NEW old \in Nat,
         NEW size \in Nat \ {0}, NEW cut \in Nat, kind = "9p" => cut = 0,
         Sends(op, tag, old, size, cut)
  PROVE  FramingInv'
<1> DEFINE sent == client.sent
<1>1. PICK m \in Requests : m = Request(Len(sent) + 1, op, tag, old, size, cut)
  <2>1. PICK id \in Nat : id = Len(sent) + 1
    BY LenProperties DEF FramingInv, TypesInv, Numbered
  <2>2. Request(id, op, tag, old, size, cut) \in Requests
    BY DEF Request, Requests
  <2> QED
    BY <2>1, <2>2
<1>2. m.id = Len(sent) + 1 /\ m.size = size /\ m.cut = cut
  BY <1>1 DEF Request
<1>3. /\ client' = [client EXCEPT !.sent = Append(@, m), !.owed = @ \cup {m}]
      /\ wire' = wire \o Framed(m.id, m.size, m.cut)
      /\ UNCHANGED <<kind, ceiling, asm, records, dispatched, running, msize, writing, out, stopped>>
  BY <1>1, <1>2 DEF Sends
<1>4. /\ client \in [sent : Seq(Requests), owed : SUBSET Requests, size : Nat] /\ Numbered(sent)
      /\ kind = "9p" => InOneFrame(sent)
  BY DEF FramingInv, TypesInv
<1>5. PICK n \in Nat : n = Len(sent)
  BY <1>4, LenProperties
<1>6. PICK more \in Seq(Requests) : more = Append(sent, m) /\ Len(more) = n + 1 /\ more[n + 1] = m
                                    /\ \A i \in 1 .. n : more[i] = sent[i]
  <2>1. PICK reqs \in Seq(Requests) : reqs = sent
    BY <1>4
  <2>2. /\ Append(reqs, m) \in Seq(Requests) /\ Len(Append(reqs, m)) = n + 1 /\ Append(reqs, m)[n + 1] = m
        /\ \A i \in 1 .. n : Append(reqs, m)[i] = reqs[i]
    BY <1>5, <2>1, AppendProperties
  <2> QED
    BY <2>1, <2>2
<1>7. /\ client'.sent = more
      /\ client' \in [sent : Seq(Requests), owed : SUBSET Requests, size : Nat]
  BY <1>3, <1>4, <1>6
<1>8. Numbered(more)
  <2>1. ASSUME NEW i \in 1 .. n + 1
        PROVE  more[i].id = i
    <3>1. CASE i = n + 1
      BY <1>2, <1>5, <1>6, <3>1
    <3>2. CASE i # n + 1
      <4>1. i \in 1 .. n
        BY <3>2
      <4> QED
        BY <1>4, <1>5, <1>6, <4>1 DEF Numbered
    <3> QED
      BY <3>1, <3>2
  <2> QED
    BY <1>6, <2>1 DEF Numbered
<1>9. ASSUME kind = "9p"
      PROVE  InOneFrame(more)
  <2>1. ASSUME NEW i \in 1 .. n + 1
        PROVE  ~InTwo(more[i])
    <3>1. CASE i = n + 1
      <4>1. m.cut = 0
        BY <1>2, <1>9
      <4> QED
        BY <1>6, <3>1, <4>1 DEF InTwo
    <3>2. CASE i # n + 1
      <4>1. i \in 1 .. n
        BY <3>2
      <4> QED
        BY <1>4, <1>5, <1>6, <1>9, <4>1 DEF InOneFrame
    <3> QED
      BY <3>1, <3>2
  <2> QED
    BY <1>6, <2>1 DEF InOneFrame
<1>10. PICK s \in Seq(Units) : s = Framed(m.id, m.size, m.cut) /\ Len(s) = FramedLen(m)
  BY FramedIs
<1>11. wire \in Seq(Units) /\ wire' \in Seq(Units)
  <2>1. wire \in Seq(Units)
    BY DEF FramingInv, TypesInv
  <2>2. wire \o s \in Seq(Units)
    BY <2>1, ConcatProperties
  <2> QED
    BY <1>3, <1>10, <2>1, <2>2
<1>12. TypesInv'
  BY <1>3, <1>7, <1>8, <1>9, <1>11 DEF FramingInv, TypesInv
<1>13. Len(dispatched) \in Nat /\ Len(records) \in Nat
  BY LenProperties DEF FramingInv, Made
<1>14. Made(dispatched, 0, more)
  BY <1>4, <1>6, MadeGrows DEF FramingInv
<1>15. Made(records, Len(dispatched), more)
  <2>1. PICK base \in Nat : base = Len(dispatched)
    BY <1>13
  <2>2. Made(records, base, sent)
    BY <2>1 DEF FramingInv
  <2>3. Made(records, base, Append(sent, m))
    BY <1>4, <2>2, MadeGrows
  <2> QED
    BY <1>6, <2>1, <2>3
<1>16. \E U, starts : Accounted(U, starts)'
  <2>1. PICK U, starts : Accounted(U, starts)
    BY DEF FramingInv
  <2>2. Streamed(U, starts, sent) /\ Len(U) \in Nat /\ starts \in [Nat -> Nat] /\ U \in Seq(Units)
    BY <2>1, LenProperties DEF Accounted, Streamed
  <2>3. PICK ends \in Nat : ends = Len(U) + FramedLen(m)
    <3>1. FramedLen(m) \in Nat
      BY <1>10, LenProperties
    <3> QED
      BY <2>2, <3>1
  <2>4. PICK V, st : V = U \o Framed(m.id, m.size, m.cut) /\ st = [starts EXCEPT ![Len(sent) + 2] = ends]
    OBVIOUS
  <2>5. /\ Streamed(V, st, more) /\ V \in Seq(Units) /\ Len(V) = ends
        /\ \A j \in 1 .. Len(U) : V[j] = U[j]
        /\ \A j \in 1 .. FramedLen(m) : V[Len(U) + j] = s[j]
    <3>1. Extended(U, V, st, more, m)
      BY <1>4, <1>6, <2>2, <2>4, <2>3, StreamGrows
    <3> QED
      BY <1>10, <2>3, <3>1 DEF Extended
  <2>6. FramedLen(m) \in Nat /\ Len(U) <= Len(V) /\ Len(V) \in Nat
    <3>1. FramedLen(m) \in Nat
      BY <1>10, LenProperties
    <3> QED
      BY <2>2, <2>5, <2>3, <3>1
  <2>7. ASSUME ~stopped
        PROVE  /\ ~asm.failed
               /\ \E c, e \in Nat :
                    /\ CutUpTo(asm.parts, asm.count, Len(dispatched) + Len(records), c, st, more)
                    /\ Holding(asm.bytes, c, V) /\ e = c + Len(asm.bytes)
                    /\ Holding(wire', e, V) /\ e + Len(wire') = Len(V)
    <3>1. PICK c, e \in Nat :
             /\ CutUpTo(asm.parts, asm.count, Len(dispatched) + Len(records), c, starts, sent)
             /\ Holding(asm.bytes, c, U) /\ e = c + Len(asm.bytes)
             /\ Holding(wire, e, U) /\ e + Len(wire) = Len(U)
      BY <2>1, <2>7 DEF Accounted
    <3>2. PICK k \in Nat : k = Len(dispatched) + Len(records)
      BY <1>13
    <3>3. CutUpTo(asm.parts, asm.count, k, c, [starts EXCEPT ![Len(sent) + 2] = ends], Append(sent, m))
      BY <1>4, <2>2, <3>1, <3>2, CutUpGrows
    <3>4. Holding(asm.bytes, c, V)
      BY <2>2, <2>5, <2>6, <3>1, HoldingGrows
    <3>5. Holding(wire, e, V)
      BY <2>2, <2>5, <2>6, <3>1, HoldingGrows
    <3>6. PICK f \in Nat : f = e + Len(wire)
      BY <1>11, LenProperties
    <3>7. Holding(s, f, V)
      <4>1. f = Len(U)
        BY <3>1, <3>6
      <4>2. \A j \in 1 .. Len(s) : s[j] = V[f + j]
        BY <1>10, <2>5, <4>1
      <4>3. f + Len(s) <= Len(V)
        BY <1>10, <2>2, <2>5, <2>6, <2>3, <4>1
      <4> QED
        BY <4>2, <4>3 DEF Holding
    <3>8. Holding(wire \o s, e, V)
      BY <2>6, <3>5, <3>6, <3>7, HoldingJoins
    <3>9. e + Len(wire') = Len(V)
      <4>1. Len(wire \o s) = Len(wire) + Len(s)
        BY <2>6, <3>5, <3>6, <3>7, <3>8, HoldingJoins
      <4>2. PICK w \in Nat, l \in Nat, u \in Nat : w = Len(wire) /\ l = Len(s) /\ u = Len(U)
        BY <1>10, <1>11, <2>2, LenProperties
      <4>3. e + w = u /\ Len(wire') = w + l /\ Len(V) = u + l
        BY <1>3, <1>10, <2>5, <2>3, <3>1, <4>1, <4>2
      <4> QED
        BY <4>3
    <3>10. ~asm.failed
      BY <2>1, <2>7 DEF Accounted
    <3> QED
      BY <1>3, <1>6, <1>10, <2>4, <3>1, <3>2, <3>3, <3>4, <3>8, <3>10, <3>9
  <2>8. Accounted(V, st)'
    BY <1>3, <1>7, <2>5, <2>7 DEF Accounted
  <2> QED
    BY <2>8
<1> QED
  BY <1>3, <1>7, <1>12, <1>14, <1>15, <1>16 DEF FramingInv

LEMMA AskedIs ==
  ASSUME Numbered(client.sent), NEW base \in Nat, NEW recs, Made(recs, base, client.sent),
         NEW i \in 1 .. Len(recs)
  PROVE  /\ Asked(recs[i]) = client.sent[base + i] /\ Asked(recs[i]) \in Requests
         /\ Asked(recs[i]).id = base + i /\ base + i \in 1 .. Len(client.sent)
<1>1. PICK n \in Nat, all \in Nat : n = Len(recs) /\ all = Len(client.sent) /\ base + n <= all
  BY LenProperties DEF Made, Numbered
<1>2. PICK k \in 1 .. all : k = base + i
  BY <1>1
<1>3. PICK m \in Requests : m = client.sent[k] /\ m.id = k
  BY <1>1, <1>2, ElementOfSeq DEF Numbered
<1>4. PICK size \in Nat \ {0} : size = m.size
  BY DEF Requests
<1>5. recs[i] = Data(k, 1, size)
  BY <1>2, <1>3, <1>4 DEF Made
<1>6. Data(k, 1, size)[1] = DataUnit(k, 1)
  <2>1. 1 \in 1 .. size
    OBVIOUS
  <2>2. \A j \in 1 .. size : Data(k, 1, size)[j] = DataUnit(k, j)
    BY <1>1, WholeDataIs
  <2> QED
    BY <2>1, <2>2
<1>7. Head(recs[i]).id = k
  <2>1. Head(recs[i]) = recs[i][1]
    OBVIOUS
  <2> QED
    BY <1>5, <1>6, <2>1 DEF DataUnit
<1> QED
  BY <1>1, <1>2, <1>3, <1>7 DEF Asked

(* The first n records go to the session.                                  *)
Dispatching(recs, n) ==
  /\ n \in 0 .. Len(recs) /\ Len(recs) \in Nat /\ Len(dispatched) \in Nat
  /\ Len(dispatched') = Len(dispatched) + n
  /\ Len(dispatched') + Len(records') = Len(dispatched) + Len(recs)
  /\ Made(dispatched', 0, client.sent) /\ Made(records', Len(dispatched'), client.sent)
  /\ running' = running \cup {Entry(recs, i) : i \in 1 .. n}

LEMMA PumpDispatches ==
  ASSUME TypesInv, NEW recs, NEW flight, NEW cong, NEW stop, Pump(recs, flight, cong, stop),
         Made(dispatched, 0, client.sent), Made(recs, Len(dispatched), client.sent)
  PROVE  /\ \E n \in Nat : Dispatching(recs, n) /\ n = Cardinality((1 .. Room(flight, cong, stop)) \cap DOMAIN recs)
         /\ running' \in SUBSET Entries /\ msize' \in Nat
<1> DEFINE n == Cardinality((1 .. Room(flight, cong, stop)) \cap DOMAIN recs)
           sent == client.sent
<1>1. PICK d \in Nat, all \in Nat : d = Len(dispatched) /\ all = Len(recs)
  BY LenProperties DEF Made
<1>2. Numbered(sent) /\ running \in SUBSET Entries /\ msize \in Nat
  BY DEF TypesInv
<1>3. n \in Nat /\ n <= all
  <2>1. DOMAIN recs = 1 .. all
    BY <1>1 DEF Made
  <2>2. IsFiniteSet(1 .. all) /\ Cardinality(1 .. all) = all
    BY FS_Interval
  <2>3. ((1 .. Room(flight, cong, stop)) \cap DOMAIN recs) \in SUBSET (1 .. all)
    BY <2>1
  <2>4. IsFiniteSet((1 .. Room(flight, cong, stop)) \cap DOMAIN recs) /\ n <= Cardinality(1 .. all)
    BY <2>2, <2>3, FS_Subset
  <2> QED
    BY <2>2, <2>4, FS_CardinalityType
<1>4. /\ records' = Rest(recs, n)
      /\ dispatched' = dispatched \o First(recs, n)
      /\ running' = running \cup {Entry(recs, i) : i \in 1 .. n}
      /\ msize' \in {0, msize}
  BY DEF Pump, Rest, First
<1>5. n = Cardinality((1 .. Room(flight, cong, stop)) \cap DOMAIN recs)
  OBVIOUS
<1> HIDE DEF n
<1>6. PICK e \in Nat, k \in Nat : k = n /\ e = d + k
  BY <1>3
<1>7. /\ Made(First(recs, k), d, sent) /\ Len(First(recs, k)) = k
      /\ Made(Rest(recs, k), e, sent) /\ e + Len(Rest(recs, k)) = d + Len(recs)
  <2>1. Made(recs, d, sent) /\ k <= Len(recs)
    BY <1>1, <1>3, <1>6
  <2>2. Made(First(recs, k), d, sent)
    BY <1>2, <1>6, <2>1, MadeSplits
  <2>3. Made(Rest(recs, k), e, sent)
    BY <1>2, <1>6, <2>1, MadeSplits
  <2>4. Len(First(recs, k)) = k
    BY <1>2, <1>6, <2>1, <2>2, MadeSplits
  <2>5. e + Len(Rest(recs, k)) = d + Len(recs)
    BY <1>2, <1>6, <2>1, <2>3, MadeSplits
  <2> QED
    BY <2>2, <2>3, <2>4, <2>5
<1>8. Made(dispatched', 0, sent) /\ Len(dispatched') = e
  <2>1. PICK t : t = First(recs, k) /\ Made(t, d, sent) /\ Len(t) = k
    BY <1>7
  <2>2. d = 0 + Len(dispatched)
    BY <1>1
  <2>3. Made(dispatched \o t, 0, sent)
    BY <1>2, <2>1, <2>2, MadeJoins
  <2>4. Len(dispatched \o t) = Len(dispatched) + Len(t)
    BY <1>2, <2>1, <2>2, <2>3, MadeJoins
  <2> QED
    BY <1>1, <1>4, <1>6, <2>1, <2>3, <2>4
<1>9. ASSUME NEW i \in 1 .. n
      PROVE  Entry(recs, i) \in Entries
  <2>1. i \in 1 .. Len(recs)
    BY <1>1, <1>3
  <2>2. Made(recs, d, sent)
    BY <1>1
  <2>3. PICK m \in Requests : m = Asked(recs[i])
    BY <1>2, <2>1, <2>2, AskedIs
  <2>4. ASSUME NEW tag
        PROVE  Holders(recs, i, tag) \in SUBSET Nat
    <3>1. ASSUME NEW x \in running
          PROVE  x.m.id \in Nat
      <4>1. x \in Entries
        BY <1>2
      <4>2. x.m \in Requests
        BY <4>1 DEF Entries
      <4> QED
        BY <4>2 DEF Requests
    <3>2. ASSUME NEW j \in 1 .. (i - 1)
          PROVE  Asked(recs[j]).id \in Nat
      <4>1. j \in 1 .. Len(recs)
        BY <1>1, <1>3
      <4>2. Asked(recs[j]) \in Requests
        BY <1>2, <2>2, <4>1, AskedIs
      <4> QED
        BY <4>2 DEF Requests
    <3> QED
      BY <3>1, <3>2 DEF Holders, Registered
  <2>5. PICK waits \in SUBSET Nat : waits = (IF m.op = "flush" THEN Holders(recs, i, m.old) ELSE {})
    BY <2>4
  <2>6. PICK refused \in BOOLEAN : refused = (m.op # "flush" /\ Holders(recs, i, m.tag) # {})
    OBVIOUS
  <2>7. Entry(recs, i) = [m |-> m, waits |-> waits, refused |-> refused]
    BY <2>3, <2>5, <2>6 DEF Entry
  <2> QED
    BY <2>7 DEF Entries
<1>10. running' \in SUBSET Entries /\ msize' \in Nat
  BY <1>2, <1>4, <1>9
<1>11. Dispatching(recs, n)
  <2>1. Len(dispatched') + Len(records') = d + Len(recs)
    BY <1>4, <1>6, <1>7, <1>8
  <2>2. Made(records', Len(dispatched'), sent)
    BY <1>4, <1>6, <1>7, <1>8
  <2>3. Len(dispatched') = d + n
    BY <1>6, <1>8
  <2>4. n \in 0 .. Len(recs)
    BY <1>1, <1>3
  <2> QED
    BY <1>1, <1>4, <1>8, <2>1, <2>2, <2>3, <2>4 DEF Dispatching
<1> QED
  BY <1>3, <1>5, <1>10, <1>11

(* Dispatching what had been cut up before changes nothing else.           *)
LEMMA PumpFramed ==
  ASSUME FramingInv, NEW flight, NEW cong, NEW stop, Pump(records, flight, cong, stop),
         UNCHANGED <<kind, ceiling, client, wire, stopped>>,
         writing' \in Seq(Replies), out' \in Seq(Replies),
         NEW limit \in Nat, asm' = [asm EXCEPT !.limit = limit]
  PROVE  FramingInv'
<1>1. TypesInv /\ Made(dispatched, 0, client.sent) /\ Made(records, Len(dispatched), client.sent)
  BY DEF FramingInv
<1>2. PICK n \in Nat : Dispatching(records, n)
  BY <1>1, PumpDispatches
<1>3. running' \in SUBSET Entries /\ msize' \in Nat
  BY <1>1, PumpDispatches
<1>4. /\ asm' \in Assemblers /\ asm'.bytes = asm.bytes /\ asm'.parts = asm.parts /\ asm'.count = asm.count
      /\ asm'.failed = asm.failed
  BY <1>1 DEF TypesInv, Assemblers
<1>5. TypesInv'
  BY <1>1, <1>3, <1>4 DEF TypesInv
<1>6. Made(dispatched', 0, client.sent) /\ Made(records', Len(dispatched'), client.sent)
      /\ Len(dispatched') + Len(records') = Len(dispatched) + Len(records)
  BY <1>2 DEF Dispatching
<1>7. PICK U, starts : Accounted(U, starts)
  BY DEF FramingInv
<1>8. Accounted(U, starts)'
  BY <1>4, <1>6, <1>7 DEF Accounted
<1> QED
  BY <1>5, <1>6, <1>8 DEF FramingInv

(* What has been cut up goes to the session, in its turn; requests within  *)
(* the limit do not end the connection.                                    *)
ReadsOn ==
  /\ asm'.limit = asm.limit /\ asm'.failed = stopped'
  /\ \E recs : Pump(recs, inflight, congested, stopped') /\ Made(recs, Len(dispatched), client.sent)
  /\ (\A i \in (Len(dispatched) + Len(records) + 1) .. Len(client.sent) : client.sent[i].size <= asm.limit)
       => ~asm'.failed

LEMMA ReadFramed == FramingInv /\ Read => FramingInv' /\ ReadsOn
<1> SUFFICES ASSUME FramingInv, Read PROVE FramingInv' /\ ReadsOn
  OBVIOUS
<1> DEFINE sent == client.sent
<1>1. TypesInv /\ Made(dispatched, 0, sent) /\ Made(records, Len(dispatched), sent)
  BY DEF FramingInv
<1>2. /\ ~stopped /\ wire \in Seq(Units) /\ Numbered(sent) /\ (kind = "9p" => InOneFrame(sent)) /\ asm \in Assemblers
      /\ kind \in {"nfs", "9p"}
  BY <1>1, ConnectionAssumption DEF Read, TypesInv
<1>3. PICK U, starts : Accounted(U, starts)
  BY DEF FramingInv
<1>4. PICK c, e \in Nat :
             /\ CutUpTo(asm.parts, asm.count, Len(dispatched) + Len(records), c, starts, sent)
             /\ Holding(asm.bytes, c, U) /\ e = c + Len(asm.bytes)
             /\ Holding(wire, e, U) /\ e + Len(wire) = Len(U)
  BY <1>2, <1>3 DEF Accounted
<1>5. Streamed(U, starts, sent) /\ ~asm.failed /\ Len(U) \in Nat
  BY <1>2, <1>3, LenProperties DEF Accounted, Streamed
<1>6. PICK most \in Pieces :
       LET n == IF most < Len(wire) THEN most ELSE Len(wire)
           piece == SubSeq(wire, 1, n)
           a == IF kind = "nfs" THEN PushRecord(asm, piece, MaxFragments) ELSE PushFrame(asm, piece)
       IN  /\ wire' = SubSeq(wire, n + 1, Len(wire))
           /\ asm' = [a EXCEPT !.out = <<>>]
           /\ stopped' = a.failed
           /\ Pump(IF a.failed THEN <<>> ELSE records \o a.out, inflight, congested, a.failed)
  BY DEF Read
<1>7. PICK n \in Nat : n = (IF most < Len(wire) THEN most ELSE Len(wire)) /\ n <= Len(wire)
  BY <1>2, LenProperties, ConnectionAssumption
<1>8. PICK piece, a : piece = First(wire, n) /\ a = Pushed(kind = "9p", asm, piece, MaxFragments)
  OBVIOUS
<1>9. /\ wire' = Rest(wire, n) /\ asm' = [a EXCEPT !.out = <<>>] /\ stopped' = a.failed
      /\ Pump(IF a.failed THEN <<>> ELSE records \o a.out, inflight, congested, a.failed)
  BY <1>2, <1>6, <1>7, <1>8 DEF Rest, First, Pushed
<1>10. UNCHANGED <<kind, ceiling, client, writing, out>>
  BY DEF Read
<1>11. PICK f \in Nat : f = e + n
  OBVIOUS
<1>12. Holding(piece, e, U) /\ Len(piece) = n
  <2>1. SplitAt(wire, n, e, f, U)
    BY <1>2, <1>4, <1>5, <1>7, <1>11, HoldingSplits
  <2>2. Holding(First(wire, n), e, U) /\ Len(First(wire, n)) = n
    BY <2>1 DEF SplitAt
  <2> QED
    BY <1>8, <2>2
<1>13. Holding(wire', f, U) /\ f + Len(wire') = Len(U)
  <2>1. SplitAt(wire, n, e, f, U)
    BY <1>2, <1>4, <1>5, <1>7, <1>11, HoldingSplits
  <2>2. Holding(Rest(wire, n), f, U) /\ f + Len(Rest(wire, n)) = e + Len(wire)
    BY <2>1 DEF SplitAt
  <2> QED
    BY <1>4, <1>9, <2>2
<1>14. PICK d \in Nat, r \in Nat, base \in Nat : d = Len(dispatched) /\ r = Len(records) /\ base = d + r
                                                /\ base <= Len(sent)
  BY <1>1, <1>2, LenProperties DEF Made
<1>15. PICK limit \in Nat : limit = asm.limit
  BY <1>2 DEF Assemblers
<1>16. Reading(a, base, f, limit, U, starts, sent)
  <2>1. CutUpTo(asm.parts, asm.count, base, c, starts, sent)
    BY <1>4, <1>14
  <2>2. f = e + Len(piece)
    BY <1>11, <1>12
  <2>3. PICK frames \in BOOLEAN : frames = (kind = "9p")
    OBVIOUS
  <2>4. frames => InOneFrame(sent)
    BY <1>2, <2>3
  <2>5. MaxFragments \in Nat /\ MaxFragments > 1
    BY ConnectionAssumption
  <2>6. Reading(Pushed(frames, asm, piece, MaxFragments), base, f, limit, U, starts, sent)
    BY <1>2, <1>4, <1>5, <1>12, <1>14, <1>15, <2>1, <2>2, <2>4, <2>5, PushReads
  <2> QED
    BY <1>8, <2>3, <2>6
<1>17. a \in Assemblers
  BY <1>16 DEF Reading
<1>18. /\ asm' \in Assemblers /\ asm'.bytes = a.bytes /\ asm'.parts = a.parts /\ asm'.count = a.count
       /\ asm'.failed = a.failed
  <2>1. <<>> \in Seq(Seq(Units))
    OBVIOUS
  <2> QED
    BY <1>9, <1>17, <2>1 DEF Assemblers
<1>19. PICK recs : recs = (IF a.failed THEN <<>> ELSE records \o a.out)
  OBVIOUS
<1>20. Made(recs, d, sent) /\ (~a.failed => Len(recs) = r + Len(a.out))
  <2>1. CASE a.failed
    <3>1. recs = <<>> /\ Len(recs) = 0 /\ recs \in Seq(Seq(Units)) /\ 1 .. Len(recs) = {}
      BY <1>19, <2>1, EmptySeq
    <3>2. d + Len(recs) <= Len(sent)
      BY <1>1, <1>2, <1>14, <3>1, LenProperties DEF Made, Numbered
    <3> QED
      BY <2>1, <3>1, <3>2 DEF Made
  <2>2. CASE ~a.failed
    <3>1. Made(a.out, base, sent)
      BY <1>16, <2>2 DEF Reading
    <3>2. base = d + Len(records) /\ Made(records, d, sent)
      BY <1>1, <1>14
    <3>3. Made(records \o a.out, d, sent)
      BY <1>2, <3>1, <3>2, MadeJoins
    <3>4. Len(records \o a.out) = Len(records) + Len(a.out)
      BY <1>2, <3>1, <3>2, <3>3, MadeJoins
    <3> QED
      BY <1>14, <1>19, <2>2, <3>3, <3>4
  <2> QED
    BY <2>1, <2>2
<1>21. Pump(recs, inflight, congested, a.failed)
  BY <1>9, <1>19
<1>22. PICK k \in Nat : Dispatching(recs, k)
  BY <1>1, <1>14, <1>20, <1>21, PumpDispatches
<1>23. running' \in SUBSET Entries /\ msize' \in Nat
  BY <1>1, <1>14, <1>20, <1>21, PumpDispatches
<1>24. wire' \in Seq(Units)
  BY <1>13 DEF Holding
<1>25. TypesInv'
  BY <1>1, <1>10, <1>18, <1>23, <1>24 DEF TypesInv
<1>26. Made(dispatched', 0, sent) /\ Made(records', Len(dispatched'), sent)
       /\ Len(dispatched') + Len(records') = Len(dispatched) + Len(recs)
  BY <1>22 DEF Dispatching
<1>27. Accounted(U, starts)'
  <2>1. ASSUME ~a.failed
        PROVE  \E x, y \in Nat :
                 /\ CutUpTo(a.parts, a.count, Len(dispatched') + Len(records'), x, starts, sent)
                 /\ Holding(a.bytes, x, U) /\ y = x + Len(a.bytes)
                 /\ Holding(wire', y, U) /\ y + Len(wire') = Len(U)
    <3>1. PICK x \in Nat :
            /\ CutUpTo(a.parts, a.count, base + Len(a.out), x, starts, sent)
            /\ Holding(a.bytes, x, U) /\ x + Len(a.bytes) = f
      BY <1>16, <2>1 DEF Reading
    <3>2. base + Len(a.out) = Len(dispatched') + Len(records')
      <4>1. PICK made \in Nat : made = Len(a.out)
        BY <1>17, LenProperties DEF Assemblers
      <4>2. Len(recs) = r + made
        BY <1>20, <2>1, <4>1
      <4>3. Len(dispatched') + Len(records') = d + (r + made)
        BY <1>14, <1>26, <4>2
      <4>4. base + made = d + (r + made)
        BY <1>14
      <4> QED
        BY <4>1, <4>3, <4>4
    <3> QED
      BY <1>13, <3>1, <3>2
  <2> QED
    BY <1>5, <1>9, <1>10, <1>18, <2>1 DEF Accounted
<1>28. ReadsOn
  <2>1. asm'.limit = asm.limit
    BY <1>9, <1>15, <1>16, <1>17 DEF Reading, Assemblers
  <2>2. (\A i \in (base + 1) .. Len(sent) : sent[i].size <= limit) => ~a.failed
    BY <1>16 DEF Reading
  <2>3. base + 1 = Len(dispatched) + Len(records) + 1
    BY <1>14
  <2> QED
    BY <1>9, <1>14, <1>15, <1>18, <1>20, <1>21, <2>1, <2>2, <2>3 DEF ReadsOn
<1> QED
  BY <1>10, <1>25, <1>26, <1>27, <1>28 DEF FramingInv

LEMMA OutIs ==
  ASSUME TypesInv, out # <<>>
  PROVE  Head(out) \in Replies /\ Tail(out) \in Seq(Replies)
  BY HeadTailProperties DEF TypesInv

LEMMA WritingIs ==
  ASSUME TypesInv, writing # <<>>
  PROVE  /\ Head(writing) \in Replies /\ Tail(writing) \in Seq(Replies)
         /\ Append(out, Head(writing)) \in Seq(Replies)
<1>1. Head(writing) \in Replies /\ Tail(writing) \in Seq(Replies)
  BY HeadTailProperties DEF TypesInv
<1>2. PICK h \in Replies : h = Head(writing)
  BY <1>1
<1>3. Append(out, h) \in Seq(Replies)
  BY AppendProperties DEF TypesInv
<1> QED
  BY <1>1, <1>2, <1>3

LEMMA TuningIs ==
  ASSUME TypesInv
  PROVE  Tuned(asm.limit) \in Nat
  BY DEF TypesInv, Assemblers, Tuned

LEMMA FramingInvStep == FramingInv /\ WindowInv /\ [Next]_vars => FramingInv'
<1> SUFFICES ASSUME FramingInv, WindowInv, [Next]_vars PROVE FramingInv'
  OBVIOUS
<1>0. TypesInv /\ kind \in {"nfs", "9p"}
  BY ConnectionAssumption DEF FramingInv, TypesInv
<1>1. CASE UNCHANGED vars
  BY <1>1 DEF vars, FramingInv, TypesInv, Accounted
<1>2. CASE Call
  <2>1. PICK tag \in Tags, size \in Sizes : \E cut \in IF kind = "nfs" THEN 0..(size - 1) ELSE {0} :
          Sends("call", tag, NOTAG, size, cut)
    BY <1>2 DEF Call
  <2>2. tag \in Nat /\ size \in Nat \ {0} /\ NOTAG \in Nat
    BY ConnectionAssumption DEF NOTAG
  <2>3. PICK cut \in Nat : (kind = "9p" => cut = 0) /\ Sends("call", tag, NOTAG, size, cut)
    BY <1>0, <2>1, <2>2
  <2> QED
    BY <2>2, <2>3, SendsFramed
<1>3. CASE Flush
  <2>1. PICK tag \in Tags, m \in client.owed : Sends("flush", tag, m.tag, 1, 0)
    BY <1>3 DEF Flush
  <2>2. tag \in Nat /\ m \in Requests /\ 1 \in Nat \ {0} /\ 0 \in Nat
    BY <1>0, ConnectionAssumption DEF TypesInv
  <2>3. m.tag \in Nat
    BY <2>2 DEF Requests
  <2> QED
    BY <2>1, <2>2, <2>3, SendsFramed
<1>4. CASE Version
  <2>1. PICK size \in Sizes : Sends("version", NOTAG, size, 1, 0)
    BY <1>4 DEF Version
  <2>2. size \in Nat /\ NOTAG \in Nat /\ 1 \in Nat \ {0} /\ 0 \in Nat
    BY ConnectionAssumption DEF NOTAG
  <2> QED
    BY <2>1, <2>2, SendsFramed
<1>5. CASE Receive
  <2>1. out # <<>> /\ out' = Tail(out)
        /\ UNCHANGED <<kind, ceiling, wire, asm, records, dispatched, running, msize, writing, stopped>>
    BY <1>5 DEF Receive
  <2>2. Head(out) \in Replies /\ out' \in Seq(Replies)
    BY <1>0, <2>1, OutIs
  <2>3. PICK gone, size : size \in {Head(out).msize, client.size}
                          /\ client' = [client EXCEPT !.owed = @ \ gone, !.size = size]
    BY <1>5 DEF Receive
  <2>4. /\ client \in [sent : Seq(Requests), owed : SUBSET Requests, size : Nat] /\ Head(out).msize \in Nat
        /\ Numbered(client.sent)
    BY <1>0, <2>2 DEF TypesInv, Replies
  <2>5. client' \in [sent : Seq(Requests), owed : SUBSET Requests, size : Nat] /\ client'.sent = client.sent
    BY <2>3, <2>4
  <2>6. TypesInv'
    BY <1>0, <2>1, <2>2, <2>5 DEF TypesInv
  <2>7. PICK U, starts : Accounted(U, starts)
    BY DEF FramingInv
  <2>8. Accounted(U, starts)'
    BY <2>1, <2>5, <2>7 DEF Accounted
  <2> QED
    BY <2>1, <2>5, <2>6, <2>8 DEF FramingInv
<1>6. ASSUME NEW x \in running, Settle(x)
      PROVE  FramingInv'
  <2>1. /\ running' = running \ {x}
        /\ UNCHANGED <<kind, ceiling, client, wire, asm, records, dispatched, out, stopped>>
    BY <1>6 DEF Settle
  <2>2. PICK agreed : /\ agreed = (IF x.m.old < ceiling THEN x.m.old ELSE ceiling)
                      /\ msize' = IF x.m.op = "version" /\ ~stopped THEN agreed ELSE msize
                      /\ writing' = Append(writing, [m |-> x.m, msize |-> agreed])
    BY <1>6 DEF Settle
  <2>3. x.m \in Requests /\ ceiling \in Nat /\ msize \in Nat
    BY <1>0 DEF TypesInv, Entries
  <2>4. agreed \in Nat
    BY <2>2, <2>3 DEF Requests
  <2>5. [m |-> x.m, msize |-> agreed] \in Replies
    BY <2>3, <2>4 DEF Replies
  <2>6. writing' \in Seq(Replies) /\ msize' \in Nat
    BY <1>0, <2>2, <2>3, <2>4, <2>5, AppendProperties DEF TypesInv
  <2>7. TypesInv'
    BY <1>0, <2>1, <2>6 DEF TypesInv
  <2>8. PICK U, starts : Accounted(U, starts)
    BY DEF FramingInv
  <2>9. Accounted(U, starts)'
    BY <2>1, <2>8 DEF Accounted
  <2> QED
    BY <2>1, <2>7, <2>9 DEF FramingInv
<1>7. CASE Read
  BY <1>7, ReadFramed
<1>8. CASE Send
  <2>1. /\ writing # <<>> /\ asm' = [asm EXCEPT !.limit = Tuned(@)]
        /\ out' = IF stopped THEN out ELSE Append(out, Head(writing))
        /\ UNCHANGED <<kind, ceiling, client, wire, stopped>>
    BY <1>8 DEF Send
  <2>2. PICK limit \in Nat : asm' = [asm EXCEPT !.limit = limit]
    BY <1>0, <2>1, TuningIs
  <2>3. out' \in Seq(Replies) /\ Tail(writing) \in Seq(Replies)
    BY <1>0, <2>1, WritingIs DEF TypesInv
  <2>4. CASE Len(out') >= HighWater /\ ~stopped
    <3>1. UNCHANGED <<records, dispatched, running, msize, writing>>
      BY <1>8, <2>4 DEF Send
    <3>2. /\ asm' \in Assemblers /\ asm'.bytes = asm.bytes /\ asm'.parts = asm.parts /\ asm'.count = asm.count
          /\ asm'.failed = asm.failed
      BY <1>0, <2>2 DEF TypesInv, Assemblers
    <3>3. TypesInv'
      BY <1>0, <2>1, <2>3, <3>1, <3>2 DEF TypesInv
    <3>4. PICK U, starts : Accounted(U, starts)
      BY DEF FramingInv
    <3>5. Accounted(U, starts)'
      BY <2>1, <3>1, <3>2, <3>4 DEF Accounted
    <3> QED
      BY <2>1, <3>1, <3>3, <3>5 DEF FramingInv
  <2>5. CASE ~(Len(out') >= HighWater /\ ~stopped)
    <3>1. writing' = Tail(writing) /\ Pump(records, inflight - 1, congested, stopped)
      BY <1>8, <2>5 DEF Send
    <3> QED
      BY <2>1, <2>2, <2>3, <3>1, PumpFramed
  <2> QED
    BY <2>4, <2>5
<1>9. CASE Drain
  <2>1. /\ writing' = Tail(writing) /\ congested /\ ~stopped
        /\ Pump(records, inflight - 1, FALSE, stopped)
        /\ UNCHANGED <<kind, ceiling, client, wire, asm, out, stopped>>
    BY <1>9 DEF Drain
  <2>2. writing # <<>>
    BY <2>1 DEF WindowInv, FullOnlyWhileParked
  <2>3. Tail(writing) \in Seq(Replies) /\ out \in Seq(Replies)
    BY <1>0, <2>2, WritingIs DEF TypesInv
  <2>4. PICK limit \in Nat : limit = asm.limit
    BY <1>0 DEF TypesInv, Assemblers
  <2>5. asm' = [asm EXCEPT !.limit = limit]
    BY <1>0, <2>1, <2>4 DEF TypesInv, Assemblers
  <2> QED
    BY <2>1, <2>3, <2>5, PumpFramed
<1>10. CASE Stop
  <2>1. /\ stopped' = TRUE /\ records' = <<>> /\ msize' = 0 /\ writing' \in {writing, Tail(writing)}
        /\ (parked => writing' = Tail(writing)) /\ (~parked => writing' = writing)
        /\ UNCHANGED <<kind, ceiling, client, wire, asm, dispatched, running, out>>
    BY <1>10 DEF Stop
  <2>2. writing' \in Seq(Replies)
    BY <1>0, <2>1, WritingIs DEF TypesInv, WindowInv, FullOnlyWhileParked
  <2>3. TypesInv'
    BY <1>0, <2>1, <2>2 DEF TypesInv
  <2>4. Made(records', Len(dispatched), client.sent)
    <3>1. <<>> \in Seq(Seq(Units)) /\ Len(<<>>) = 0 /\ 1 .. 0 = {}
      BY EmptySeq
    <3>2. Len(dispatched) + 0 <= Len(client.sent)
      <4>1. 0 + Len(dispatched) <= Len(client.sent) /\ Len(dispatched) \in Nat
        BY LenProperties DEF FramingInv, Made
      <4> QED
        BY <4>1
    <3> QED
      BY <2>1, <3>1, <3>2 DEF Made
  <2>5. PICK U, starts : Accounted(U, starts)
    BY DEF FramingInv
  <2>6. Accounted(U, starts)'
    BY <2>1, <2>5 DEF Accounted
  <2> QED
    BY <2>1, <2>3, <2>4, <2>6 DEF FramingInv
<1> QED
  BY <1>1, <1>2, <1>3, <1>4, <1>5, <1>6, <1>7, <1>8, <1>9, <1>10 DEF Next, Serve

LEMMA FramingInvHolds == FramingInv => RecordsAreTheRequests
<1> SUFFICES ASSUME FramingInv PROVE RecordsAreTheRequests
  OBVIOUS
<1>1. PICK n \in Nat : n = Len(dispatched) /\ DOMAIN dispatched = 1 .. n
  BY LenProperties DEF FramingInv, Made
<1>2. 0 + n <= Len(client.sent)
  BY <1>1 DEF FramingInv, Made
<1>3. \A i \in 1 .. n : dispatched[i] = Data(0 + i, 1, client.sent[0 + i].size)
  BY <1>1 DEF FramingInv, Made
<1>4. \A i \in 1 .. n : 0 + i = i
  OBVIOUS
<1>5. n <= Len(client.sent)
  BY <1>2
<1>6. \A i \in 1 .. n : dispatched[i] = Data(i, 1, client.sent[i].size)
  BY <1>3, <1>4
<1> QED
  BY <1>1, <1>5, <1>6 DEF RecordsAreTheRequests

(* Whatever pieces the stream is delivered in, and however many fragments  *)
(* a record comes in, the session is handed the client's requests whole,   *)
(* once and in order: RecordAssembler.push and P9FrameAssembler.push with  *)
(* the #records and #frames of the connections.                            *)
THEOREM RequestsArriveWhole == Spec => []RecordsAreTheRequests
<1>1. Init => FramingInv /\ WindowInv
  BY FramingInvInit, WindowInvInit
<1>2. FramingInv /\ WindowInv /\ [Next]_vars => FramingInv' /\ WindowInv'
  BY FramingInvStep, WindowInvStep
<1>3. FramingInv => RecordsAreTheRequests
  BY FramingInvHolds
<1> QED
  BY <1>1, <1>2, <1>3, PTL DEF Spec

-----------------------------------------------------------------------------
(* The replies on their way, in the order they will arrive.                *)

NotWritten(p, w) == IF p THEN Tail(w) ELSE w
OnTheWay == out \o NotWritten(parked, writing)

ConcatIs(x, s, t) ==
  /\ Len(x) = Len(s) + Len(t)
  /\ \A i \in 1 .. Len(s) + Len(t) : x[i] = IF i <= Len(s) THEN s[i] ELSE t[i - Len(s)]

LEMMA Concatenates ==
  ASSUME NEW S, NEW s \in Seq(S), NEW t \in Seq(S)
  PROVE  \E x \in Seq(S) : x = s \o t /\ ConcatIs(x, s, t)
<1>1. s \o t \in Seq(S) /\ ConcatIs(s \o t, s, t)
  BY ConcatProperties DEF ConcatIs
<1> QED
  BY <1>1

AppendIs(x, s, e) == Len(x) = Len(s) + 1 /\ x[Len(s) + 1] = e /\ \A i \in 1 .. Len(s) : x[i] = s[i]

LEMMA Appends ==
  ASSUME NEW S, NEW s \in Seq(S), NEW e \in S
  PROVE  \E x \in Seq(S) : x = Append(s, e) /\ AppendIs(x, s, e)
<1>1. Append(s, e) \in Seq(S) /\ AppendIs(Append(s, e), s, e)
  BY AppendProperties DEF AppendIs
<1> QED
  BY <1>1

LEMMA OneWritten ==
  ASSUME NEW S, NEW s \in Seq(S), NEW t \in Seq(S), t # <<>>
  PROVE  Append(s, Head(t)) \o Tail(t) = s \o t
<1>1. PICK h \in S, r \in Seq(S) : h = Head(t) /\ r = Tail(t)
  BY HeadTailProperties
<1>2. PICK m \in Nat, n \in Nat : m = Len(s) /\ n = Len(t) /\ Len(r) = n - 1 /\ n >= 1
  <2>1. Len(t) \in Nat /\ Len(s) \in Nat /\ Len(t) # 0
    BY EmptySeq, LenProperties
  <2>2. Len(r) = Len(t) - 1
    BY <1>1, HeadTailProperties
  <2> QED
    BY <2>1, <2>2
<1>3. PICK a \in Seq(S) : a = Append(s, h) /\ AppendIs(a, s, h)
  BY Appends
<1>4. PICK x \in Seq(S) : x = a \o r /\ ConcatIs(x, a, r)
  BY Concatenates
<1>5. PICK y \in Seq(S) : y = s \o t /\ ConcatIs(y, s, t)
  BY Concatenates
<1>6. Len(a) = m + 1 /\ a[m + 1] = h /\ \A i \in 1 .. m : a[i] = s[i]
  BY <1>2, <1>3 DEF AppendIs
<1>7. /\ Len(x) = m + 1 + (n - 1)
      /\ \A i \in 1 .. m + 1 + (n - 1) : x[i] = IF i <= m + 1 THEN a[i] ELSE r[i - (m + 1)]
  BY <1>2, <1>6, <1>4 DEF ConcatIs
<1>8. Len(y) = m + n /\ \A i \in 1 .. m + n : y[i] = IF i <= m THEN s[i] ELSE t[i - m]
  BY <1>2, <1>5 DEF ConcatIs
<1>9. m + 1 + (n - 1) = m + n
  BY <1>2
<1>10. \A i \in 1 .. n - 1 : r[i] = t[i + 1]
  BY <1>1, <1>2, HeadTailProperties
<1>11. ASSUME NEW i \in 1 .. m + n
       PROVE  x[i] = y[i]
  <2>1. CASE i <= m
    <3>1. i \in 1 .. m /\ i <= m + 1
      BY <2>1
    <3> QED
      BY <1>6, <1>7, <1>8, <1>9, <2>1, <3>1
  <2>2. CASE i = m + 1
    <3>1. ~(i <= m) /\ i - m = 1 /\ i <= m + 1
      BY <2>2
    <3>2. t[1] = h
      BY <1>1
    <3> QED
      BY <1>6, <1>7, <1>8, <1>9, <2>2, <3>1, <3>2
  <2>3. CASE i > m + 1
    <3>1. ~(i <= m) /\ ~(i <= m + 1) /\ i - (m + 1) \in 1 .. n - 1 /\ i - (m + 1) + 1 = i - m
      BY <1>2, <2>3
    <3>2. r[i - (m + 1)] = t[i - m]
      BY <1>10, <3>1
    <3> QED
      BY <1>7, <1>8, <1>9, <3>1, <3>2
  <2> QED
    BY <2>1, <2>2, <2>3
<1>12. x = y
  BY <1>7, <1>8, <1>9, <1>11, SeqEqual
<1> QED
  BY <1>1, <1>12, <1>3, <1>4, <1>5

(* The reply at position k is gone.                                        *)
Dropped(q, r, k) ==
  /\ q \in Seq(Replies) /\ r \in Seq(Replies) /\ k \in Nat
  /\ Len(q) = Len(r) - 1
  /\ \A p \in 1 .. Len(q) : q[p] = IF p <= k THEN r[p] ELSE r[p + 1]

LEMMA OneDropped ==
  ASSUME NEW s \in Seq(Replies), NEW t \in Seq(Replies), t # <<>>
  PROVE  Dropped(s \o Tail(t), s \o t, Len(s))
<1>1. PICK r \in Seq(Replies) : r = Tail(t)
  BY HeadTailProperties
<1>2. PICK m \in Nat, n \in Nat : m = Len(s) /\ n = Len(t) /\ Len(r) = n - 1 /\ n >= 1
  <2>1. Len(t) \in Nat /\ Len(s) \in Nat /\ Len(t) # 0
    BY EmptySeq, LenProperties
  <2>2. Len(r) = Len(t) - 1
    BY <1>1, HeadTailProperties
  <2> QED
    BY <2>1, <2>2
<1>3. PICK x \in Seq(Replies) : x = s \o r /\ ConcatIs(x, s, r)
  BY Concatenates
<1>4. PICK y \in Seq(Replies) : y = s \o t /\ ConcatIs(y, s, t)
  BY Concatenates
<1>5. Len(x) = m + (n - 1) /\ \A i \in 1 .. m + (n - 1) : x[i] = IF i <= m THEN s[i] ELSE r[i - m]
  BY <1>2, <1>3 DEF ConcatIs
<1>6. Len(y) = m + n /\ \A i \in 1 .. m + n : y[i] = IF i <= m THEN s[i] ELSE t[i - m]
  BY <1>2, <1>4 DEF ConcatIs
<1>7. \A i \in 1 .. n - 1 : r[i] = t[i + 1]
  BY <1>1, <1>2, HeadTailProperties
<1>8. ASSUME NEW i \in 1 .. m + (n - 1)
      PROVE  x[i] = IF i <= m THEN y[i] ELSE y[i + 1]
  <2>1. CASE i <= m
    <3>1. i \in 1 .. m + n
      BY <1>2
    <3> QED
      BY <1>5, <1>6, <2>1, <3>1
  <2>2. CASE ~(i <= m)
    <3>1. i + 1 \in 1 .. m + n /\ ~(i + 1 <= m) /\ i - m \in 1 .. n - 1 /\ (i - m) + 1 = (i + 1) - m
      BY <1>2, <2>2
    <3>2. r[i - m] = t[(i + 1) - m]
      BY <1>7, <3>1
    <3> QED
      BY <1>5, <1>6, <2>2, <3>1, <3>2
  <2> QED
    BY <2>1, <2>2
<1>9. Len(x) = Len(y) - 1
  BY <1>2, <1>5, <1>6
<1>10. Dropped(x, y, m)
  BY <1>5, <1>6, <1>8, <1>9 DEF Dropped
<1> QED
  BY <1>1, <1>2, <1>3, <1>10, <1>4

(* How each action moves the replies.                                      *)
LEMMA OnTheWayIs ==
  ASSUME TypesInv, WindowInv
  PROVE  /\ NotWritten(parked, writing) \in Seq(Replies) /\ OnTheWay \in Seq(Replies)
         /\ Len(out) \in Nat /\ Len(OnTheWay) \in Nat /\ Len(out) <= Len(OnTheWay)
         /\ \A i \in 1 .. Len(out) : OnTheWay[i] = out[i]
<1>1. PICK o \in Seq(Replies), w \in Seq(Replies) : o = out /\ w = NotWritten(parked, writing)
  BY WritingIs DEF TypesInv, WindowInv, FullOnlyWhileParked, NotWritten
<1>2. /\ o \o w \in Seq(Replies) /\ Len(o \o w) = Len(o) + Len(w)
      /\ \A i \in 1 .. Len(o) + Len(w) : (o \o w)[i] = IF i <= Len(o) THEN o[i] ELSE w[i - Len(o)]
  BY ConcatProperties
<1>3. PICK m \in Nat, n \in Nat : m = Len(o) /\ n = Len(w)
  BY LenProperties
<1>4. ASSUME NEW i \in 1 .. m
      PROVE  (o \o w)[i] = o[i]
  <2>1. i \in 1 .. m + n /\ i <= m
    BY <1>3
  <2> QED
    BY <1>2, <1>3, <2>1
<1>5. m <= m + n /\ m + n \in Nat
  BY <1>3
<1> QED
  BY <1>1, <1>2, <1>3, <1>4, <1>5 DEF OnTheWay

LEMMA SettleMoves ==
  ASSUME TypesInv, WindowInv, NEW x, Settle(x), NEW r \in Replies, writing' = Append(writing, r)
  PROVE  OnTheWay' = Append(OnTheWay, r)
<1>1. UNCHANGED <<parked, out>>
  BY DEF Settle
<1>2. writing \in Seq(Replies) /\ out \in Seq(Replies) /\ (parked => writing # <<>>) /\ parked \in BOOLEAN
  BY DEF TypesInv, WindowInv, FullOnlyWhileParked
<1>3. PICK w \in Seq(Replies) : w = NotWritten(parked, writing)
  BY OnTheWayIs
<1>4. NotWritten(parked, writing') = Append(w, r)
  BY <1>2, <1>3, HeadTailAppend DEF NotWritten
<1>5. out \o Append(w, r) = Append(out \o w, r)
  <2>1. <<r>> \in Seq(Replies)
    OBVIOUS
  <2>2. PICK one \in Seq(Replies) : one = <<r>>
    BY <2>1
  <2>3. Append(w, r) = w \o one
    BY <2>2, AppendIsConcat
  <2>4. out \o w \in Seq(Replies)
    BY <1>2, ConcatProperties
  <2>5. Append(out \o w, r) = (out \o w) \o one
    BY <2>2, <2>4, AppendIsConcat
  <2>6. (out \o w) \o one = out \o (w \o one)
    BY <1>2, ConcatAssociative
  <2> QED
    BY <2>3, <2>5, <2>6
<1> QED
  BY <1>1, <1>3, <1>4, <1>5 DEF OnTheWay

LEMMA ReceiveMoves ==
  ASSUME TypesInv, WindowInv, Receive
  PROVE  /\ OnTheWay # <<>> /\ OnTheWay[1] = Head(out) /\ Dropped(OnTheWay', OnTheWay, 0)
         /\ Len(out') = Len(out) - 1 /\ 1 <= Len(out)
<1>1. UNCHANGED <<parked, writing>> /\ out # <<>> /\ out' = Tail(out)
  BY DEF Receive
<1>2. PICK o \in Seq(Replies), w \in Seq(Replies) : o = out /\ w = NotWritten(parked, writing)
  BY OnTheWayIs DEF TypesInv
<1>3. PICK m \in Nat, n \in Nat : m = Len(o) /\ n = Len(w) /\ m >= 1
  <2>1. Len(o) \in Nat /\ Len(w) \in Nat /\ Len(o) # 0
    BY <1>1, <1>2, EmptySeq, LenProperties
  <2> QED
    BY <2>1
<1>4. PICK t \in Seq(Replies) : t = Tail(o) /\ Len(t) = m - 1 /\ \A i \in 1 .. m - 1 : t[i] = o[i + 1]
  <2>1. Tail(o) \in Seq(Replies) /\ Len(Tail(o)) = Len(o) - 1 /\ \A i \in 1 .. Len(Tail(o)) : Tail(o)[i] = o[i + 1]
    BY <1>1, <1>2, HeadTailProperties
  <2> QED
    BY <1>3, <2>1
<1>5. PICK y \in Seq(Replies) : y = o \o w /\ ConcatIs(y, o, w)
  BY Concatenates
<1>6. PICK x \in Seq(Replies) : x = t \o w /\ ConcatIs(x, t, w)
  BY Concatenates
<1>7. Len(y) = m + n /\ \A i \in 1 .. m + n : y[i] = IF i <= m THEN o[i] ELSE w[i - m]
  BY <1>3, <1>5 DEF ConcatIs
<1>8. /\ Len(x) = (m - 1) + n
      /\ \A i \in 1 .. (m - 1) + n : x[i] = IF i <= m - 1 THEN t[i] ELSE w[i - (m - 1)]
  BY <1>3, <1>4, <1>6 DEF ConcatIs
<1>9. ASSUME NEW i \in 1 .. (m - 1) + n
      PROVE  x[i] = y[i + 1]
  <2>1. i + 1 \in 1 .. m + n
    BY <1>3
  <2>2. CASE i <= m - 1
    <3>1. i \in 1 .. m - 1 /\ i + 1 <= m
      BY <1>3, <2>2
    <3> QED
      BY <1>4, <1>7, <1>8, <2>1, <2>2, <3>1
  <2>3. CASE ~(i <= m - 1)
    <3>1. ~(i + 1 <= m) /\ (i + 1) - m = i - (m - 1)
      BY <1>3, <2>3
    <3> QED
      BY <1>7, <1>8, <2>1, <2>3, <3>1
  <2> QED
    BY <2>2, <2>3
<1>10. Dropped(x, y, 0)
  <2>1. Len(x) = Len(y) - 1
    BY <1>3, <1>7, <1>8
  <2>2. \A i \in 1 .. Len(x) : ~(i <= 0)
    BY <1>3, <1>8
  <2> QED
    BY <1>7, <1>8, <1>9, <2>1, <2>2 DEF Dropped
<1>11. OnTheWay = y /\ OnTheWay' = x
  BY <1>1, <1>2, <1>4, <1>5, <1>6 DEF OnTheWay
<1>12. y[1] = Head(o) /\ y # <<>>
  <2>1. 1 \in 1 .. m + n /\ 1 <= m /\ Len(y) # 0
    BY <1>3, <1>7
  <2> QED
    BY <1>7, <2>1, EmptySeq
<1>13. Len(out') = Len(out) - 1 /\ 1 <= Len(out)
  BY <1>1, <1>2, <1>3, <1>4
<1> QED
  BY <1>2, <1>10, <1>11, <1>12, <1>13

LEMMA SendMoves ==
  ASSUME TypesInv, WindowInv, Send
  PROVE  /\ ~stopped => OnTheWay' = OnTheWay
         /\ stopped => Dropped(OnTheWay', OnTheWay, Len(out))
<1>1. /\ writing # <<>> /\ ~parked /\ writing \in Seq(Replies) /\ out \in Seq(Replies)
      /\ out' = IF stopped THEN out ELSE Append(out, Head(writing))
  BY DEF Send, TypesInv
<1>2. \/ parked' = TRUE /\ writing' = writing /\ ~stopped
      \/ parked' = FALSE /\ writing' = Tail(writing)
  BY DEF Send
<1>3. NotWritten(parked', writing') = Tail(writing) /\ NotWritten(parked, writing) = writing
  BY <1>1, <1>2 DEF NotWritten
<1>4. ASSUME ~stopped
      PROVE  OnTheWay' = OnTheWay
  BY <1>1, <1>3, <1>4, OneWritten DEF OnTheWay
<1>5. ASSUME stopped
      PROVE  Dropped(OnTheWay', OnTheWay, Len(out))
  BY <1>1, <1>3, <1>5, OneDropped DEF OnTheWay
<1> QED
  BY <1>4, <1>5

LEMMA DrainMoves ==
  ASSUME TypesInv, WindowInv, Drain
  PROVE  OnTheWay' = OnTheWay
<1>1. congested /\ ~stopped /\ parked' = FALSE /\ writing' = Tail(writing) /\ out' = out
  BY DEF Drain
<1>2. parked
  BY <1>1 DEF WindowInv, FullOnlyWhileParked
<1> QED
  BY <1>1, <1>2 DEF OnTheWay, NotWritten

LEMMA StopMoves ==
  ASSUME Stop
  PROVE  OnTheWay' = OnTheWay
  BY DEF Stop, OnTheWay, NotWritten

-----------------------------------------------------------------------------
(* The tags.  In these definitions sent and owed are the client's, run is  *)
(* what is in the session, q the replies on their way and d how many       *)
(* requests have been dispatched.                                          *)

OwedAreSent(sent, owed, d) ==
  /\ \A m \in owed : m.id \in 1 .. Len(sent) /\ sent[m.id] = m
  /\ \A i \in (d + 1) .. Len(sent) : sent[i] \in owed

OneTagEach(owed) ==
  /\ \A m \in owed, o \in owed : m.tag = o.tag => m = o
  /\ \A m \in owed, o \in owed : m.op = "version" => o = m
  /\ \A f \in owed, o \in owed : f.op = "flush" /\ o.tag = f.old => o.op = "call" /\ o.id < f.id

(* A request that was dispatched is running or answered, and not both.     *)
HeldOnce(owed, run, q, d) ==
  /\ \A x \in run : x.m \in owed /\ x.m.id <= d /\ ~x.refused
  /\ \A x \in run, y \in run : x.m = y.m => x = y
  /\ \A p \in 1 .. Len(q) : q[p].m \in owed /\ q[p].m.id <= d
  /\ \A p \in 1 .. Len(q), x \in run : q[p].m # x.m
  /\ \A p \in 1 .. Len(q), r \in 1 .. Len(q) : q[p].m = q[r].m => p = r

IsRunning(run, o) == \E x \in run : x.m = o
IsAnswered(q, o) == \E p \in 1 .. Len(q) : q[p].m = o

NoneIsLost(owed, run, q, d) == \A o \in owed : o.id <= d => IsRunning(run, o) \/ IsAnswered(q, o)

(* The answer to a flush comes after that of the request it names; while   *)
(* it runs, it waits for it.                                               *)
AnsweredBefore(owed, q, p) ==
  q[p].m.op = "flush" => \A o \in owed : o.tag = q[p].m.old => \E r \in 1 .. (p - 1) : q[r].m = o
FlushesFollow(owed, q, k) == \A p \in 1 .. k : AnsweredBefore(owed, q, p)
FlushesWait(owed, run, q) ==
  \A x \in run, o \in owed :
    x.m.op = "flush" /\ o.tag = x.m.old => IsAnswered(q, o) \/ (o.id \in x.waits /\ IsRunning(run, o))

(* Of the replies on their way, those that will arrive.                    *)
Arriving == IF stopped THEN Len(out) ELSE Len(OnTheWay)

(* TagsAreSettled is not inductive: that a tag is in use says neither which *)
(* request holds it nor that the one a flush names is answered first.      *)
TagsInv ==
  /\ OwedAreSent(client.sent, client.owed, Len(dispatched))
  /\ OneTagEach(client.owed)
  /\ \A f \in client.owed : f.op = "flush" => kind = "9p"
  /\ HeldOnce(client.owed, running, OnTheWay, Len(dispatched))
  /\ FlushesFollow(client.owed, OnTheWay, Arriving)
  /\ ~stopped => /\ NoneIsLost(client.owed, running, OnTheWay, Len(dispatched))
                 /\ FlushesWait(client.owed, running, OnTheWay)

(* A new request: nothing that is held knows of it.                        *)
LEMMA NewIsNotHeld ==
  ASSUME NEW owed \in SUBSET Requests, NEW run, NEW q \in Seq(Replies), NEW d \in Nat, NEW k \in Nat, k <= Len(q),
         NEW m \in Requests, d < m.id, \A o \in owed : o.id < m.id, OneTagEach(owed \cup {m}),
         HeldOnce(owed, run, q, d)
  PROVE  /\ HeldOnce(owed \cup {m}, run, q, d)
         /\ FlushesFollow(owed, q, k) => FlushesFollow(owed \cup {m}, q, k)
         /\ NoneIsLost(owed, run, q, d) => NoneIsLost(owed \cup {m}, run, q, d)
         /\ FlushesWait(owed, run, q) => FlushesWait(owed \cup {m}, run, q)
<1>1. HeldOnce(owed \cup {m}, run, q, d)
  BY DEF HeldOnce
<1>2. \A f \in owed : f.op = "flush" => m.tag # f.old
  <2>1. \A f \in owed : f.op = "flush" /\ m.tag = f.old => m.id < f.id
    BY DEF OneTagEach
  <2>2. \A f \in owed : f.id < m.id /\ f.id \in Nat /\ m.id \in Nat
    BY DEF Requests
  <2>3. \A f \in owed : ~(m.id < f.id)
    BY <2>2
  <2> QED
    BY <2>1, <2>3
<1>3. ASSUME FlushesFollow(owed, q, k)
      PROVE  FlushesFollow(owed \cup {m}, q, k)
  <2>1. PICK l \in Nat : l = Len(q) /\ k <= l
    BY LenProperties
  <2>2. ASSUME NEW p \in 1 .. k
        PROVE  AnsweredBefore(owed \cup {m}, q, p)
    <3>1. p \in 1 .. l
      BY <2>1
    <3>2. q[p].m \in owed
      BY <2>1, <3>1 DEF HeldOnce
    <3> QED
      BY <1>2, <1>3, <3>2 DEF FlushesFollow, AnsweredBefore
  <2> QED
    BY <2>2 DEF FlushesFollow
<1>4. ASSUME NoneIsLost(owed, run, q, d)
      PROVE  NoneIsLost(owed \cup {m}, run, q, d)
  <2>1. ~(m.id <= d)
    BY DEF Requests
  <2> QED
    BY <1>4, <2>1 DEF NoneIsLost
<1>5. ASSUME FlushesWait(owed, run, q)
      PROVE  FlushesWait(owed \cup {m}, run, q)
  <2>1. \A x \in run : x.m \in owed
    BY DEF HeldOnce
  <2> QED
    BY <1>2, <1>5, <2>1 DEF FlushesWait
<1> QED
  BY <1>1, <1>3, <1>4, <1>5

(* The reply at the head of those that arrive ends its request.            *)
LEMMA HeadReceived ==
  ASSUME NEW owed \in SUBSET Requests, NEW run, NEW q, NEW r, NEW d \in Nat, NEW k \in Nat, NEW j \in Nat,
         Dropped(r, q, 0), k <= Len(q), 1 <= k, j = k - 1, NEW m, m = q[1].m, HeldOnce(owed, run, q, d)
  PROVE  /\ HeldOnce(owed \ {m}, run, r, d)
         /\ FlushesFollow(owed, q, k) => FlushesFollow(owed \ {m}, r, j)
         /\ NoneIsLost(owed, run, q, d) => NoneIsLost(owed \ {m}, run, r, d)
         /\ FlushesWait(owed, run, q) => FlushesWait(owed \ {m}, run, r)
<1>1. PICK l \in Nat : l = Len(r) /\ Len(q) = l + 1 /\ \A p \in 1 .. l : r[p] = q[p + 1]
  <2>1. Len(r) \in Nat /\ Len(q) \in Nat /\ Len(r) = Len(q) - 1
    BY LenProperties DEF Dropped
  <2>2. \A p \in 1 .. Len(r) : ~(p <= 0)
    BY <2>1
  <2> QED
    BY <2>1, <2>2 DEF Dropped
<1>2. 1 \in 1 .. l + 1 /\ \A p \in 1 .. l : p + 1 \in 1 .. l + 1 /\ p + 1 # 1
  OBVIOUS
<1>3. /\ \A x \in run : x.m \in owed /\ x.m.id <= d /\ ~x.refused /\ x.m # m
      /\ \A x \in run, y \in run : x.m = y.m => x = y
      /\ \A p \in 1 .. l + 1 : q[p].m \in owed /\ q[p].m.id <= d
      /\ \A p \in 1 .. l + 1, x \in run : q[p].m # x.m
      /\ \A p \in 1 .. l + 1, s \in 1 .. l + 1 : q[p].m = q[s].m => p = s
  BY <1>1, <1>2 DEF HeldOnce
<1>4. \A o \in owed \ {m} : IsAnswered(q, o) => IsAnswered(r, o)
  <2> SUFFICES ASSUME NEW o \in owed \ {m}, NEW p \in 1 .. l + 1, q[p].m = o PROVE \E s \in 1 .. l : r[s].m = o
    BY <1>1 DEF IsAnswered
  <2>1. PICK s \in 1 .. l : p = s + 1
    <3>1. p # 1
      OBVIOUS
    <3>2. p - 1 \in 1 .. l /\ p = (p - 1) + 1
      BY <3>1
    <3> QED
      BY <3>2
  <2> QED
    BY <1>1, <2>1
<1>5. HeldOnce(owed \ {m}, run, r, d)
  <2>1. \A p \in 1 .. l : r[p].m \in owed \ {m} /\ r[p].m.id <= d
    BY <1>1, <1>2, <1>3
  <2>2. \A p \in 1 .. l, x \in run : r[p].m # x.m
    BY <1>1, <1>2, <1>3
  <2>3. ASSUME NEW p \in 1 .. l, NEW s \in 1 .. l, r[p].m = r[s].m
        PROVE  p = s
    <3>1. p + 1 = s + 1
      BY <1>1, <1>2, <1>3, <2>3
    <3> QED
      BY <3>1
  <2> QED
    BY <1>1, <1>3, <2>1, <2>2, <2>3 DEF HeldOnce
<1>6. ASSUME FlushesFollow(owed, q, k)
      PROVE  FlushesFollow(owed \ {m}, r, j)
  <2> SUFFICES ASSUME NEW p \in 1 .. j, r[p].m.op = "flush", NEW o \in owed \ {m}, o.tag = r[p].m.old
               PROVE  \E s \in 1 .. (p - 1) : r[s].m = o
    BY DEF FlushesFollow, AnsweredBefore
  <2>1. p \in 1 .. l /\ p + 1 \in 1 .. k /\ (p + 1) - 1 = p
    BY <1>1
  <2>2. r[p] = q[p + 1]
    BY <1>1, <2>1
  <2>3. PICK t \in 1 .. p : q[t].m = o
    BY <1>6, <2>1, <2>2 DEF FlushesFollow, AnsweredBefore
  <2>4. PICK s \in 1 .. (p - 1) : t = s + 1
    <3>1. t # 1
      BY <2>3
    <3>2. t - 1 \in 1 .. (p - 1) /\ t = (t - 1) + 1
      BY <2>3, <3>1
    <3> QED
      BY <3>2
  <2>5. s \in 1 .. l
    BY <2>1, <2>4
  <2> QED
    BY <1>1, <2>3, <2>4, <2>5
<1>7. ASSUME NoneIsLost(owed, run, q, d)
      PROVE  NoneIsLost(owed \ {m}, run, r, d)
  BY <1>4, <1>7 DEF NoneIsLost
<1>8. ASSUME FlushesWait(owed, run, q)
      PROVE  FlushesWait(owed \ {m}, run, r)
  BY <1>4, <1>8 DEF FlushesWait
<1> QED
  BY <1>5, <1>6, <1>7, <1>8

(* A request is done: what it waited for is on its way before it.          *)
LEMMA RequestSettles ==
  ASSUME NEW owed \in SUBSET Requests, NEW run \in SUBSET Entries, NEW q \in Seq(Replies), NEW d \in Nat,
         NEW x \in run, x.waits \cap {y.m.id : y \in run} = {}, NEW a \in Replies, a.m = x.m,
         HeldOnce(owed, run, q, d)
  PROVE  /\ HeldOnce(owed, run \ {x}, Append(q, a), d)
         /\ \A k \in Nat : k <= Len(q) /\ FlushesFollow(owed, q, k) => FlushesFollow(owed, Append(q, a), k)
         /\ NoneIsLost(owed, run, q, d) => NoneIsLost(owed, run \ {x}, Append(q, a), d)
         /\ FlushesWait(owed, run, q) => FlushesWait(owed, run \ {x}, Append(q, a))
         /\ FlushesWait(owed, run, q) /\ FlushesFollow(owed, q, Len(q)) =>
              FlushesFollow(owed, Append(q, a), Len(Append(q, a)))
<1>1. PICK r \in Seq(Replies) : r = Append(q, a) /\ AppendIs(r, q, a)
  BY Appends
<1>2. PICK l \in Nat : /\ l = Len(q) /\ Len(r) = l + 1 /\ r[l + 1] = a
                       /\ \A p \in 1 .. l : r[p] = q[p]
  BY <1>1, LenProperties DEF AppendIs
<1>3. /\ \A y \in run : y.m \in owed /\ y.m.id <= d /\ ~y.refused
      /\ \A y \in run, z \in run : y.m = z.m => y = z
      /\ \A p \in 1 .. l : q[p].m \in owed /\ q[p].m.id <= d
      /\ \A p \in 1 .. l, y \in run : q[p].m # y.m
      /\ \A p \in 1 .. l, s \in 1 .. l : q[p].m = q[s].m => p = s
  BY <1>2 DEF HeldOnce
<1>4. \A p \in 1 .. l + 1 : p \in 1 .. l \/ p = l + 1
  OBVIOUS
<1>5. HeldOnce(owed, run \ {x}, r, d)
  <2>1. \A p \in 1 .. l + 1 : r[p].m \in owed /\ r[p].m.id <= d
    BY <1>2, <1>3, <1>4
  <2>2. \A p \in 1 .. l + 1, y \in run \ {x} : r[p].m # y.m
    BY <1>2, <1>3, <1>4
  <2>3. \A p \in 1 .. l + 1, s \in 1 .. l + 1 : r[p].m = r[s].m => p = s
    BY <1>2, <1>3, <1>4
  <2> QED
    BY <1>2, <1>3, <2>1, <2>2, <2>3 DEF HeldOnce
<1>6. \A o : IsAnswered(q, o) => IsAnswered(r, o)
  <2>1. \A p \in 1 .. l : p \in 1 .. l + 1
    OBVIOUS
  <2> QED
    BY <1>2, <2>1 DEF IsAnswered
<1>7. \A o : IsRunning(run, o) => IsRunning(run \ {x}, o) \/ IsAnswered(r, o)
  <2>1. l + 1 \in 1 .. Len(r) /\ r[l + 1].m = x.m
    BY <1>2
  <2>2. IsAnswered(r, x.m)
    BY <2>1 DEF IsAnswered
  <2> QED
    BY <2>2 DEF IsRunning
<1>8. ASSUME NEW k \in Nat, k <= l, FlushesFollow(owed, q, k)
      PROVE  FlushesFollow(owed, r, k)
  <2>1. \A p \in 1 .. k : p \in 1 .. l /\ \A s \in 1 .. (p - 1) : s \in 1 .. l
    BY <1>8
  <2> QED
    BY <1>2, <1>8, <2>1 DEF FlushesFollow, AnsweredBefore
<1>9. ASSUME FlushesWait(owed, run, q), FlushesFollow(owed, q, l)
      PROVE  FlushesFollow(owed, r, l + 1)
  <2>1. FlushesFollow(owed, r, l)
    BY <1>8, <1>9
  <2>2. ASSUME x.m.op = "flush", NEW o \in owed, o.tag = x.m.old
        PROVE  \E s \in 1 .. l : r[s].m = o
    <3>1. ~(o.id \in x.waits /\ IsRunning(run, o))
      <4>1. \A y \in run : y.m.id \notin x.waits
        OBVIOUS
      <4> QED
        BY <4>1 DEF IsRunning
    <3>2. IsAnswered(q, o)
      BY <1>9, <2>2, <3>1 DEF FlushesWait
    <3> QED
      BY <1>2, <3>2 DEF IsAnswered
  <2>3. AnsweredBefore(owed, r, l + 1)
    <3>1. r[l + 1].m = x.m /\ (l + 1) - 1 = l
      BY <1>2
    <3> QED
      BY <2>2, <3>1 DEF AnsweredBefore
  <2> QED
    BY <1>4, <2>1, <2>3 DEF FlushesFollow
<1>10. NoneIsLost(owed, run, q, d) => NoneIsLost(owed, run \ {x}, r, d)
  BY <1>6, <1>7 DEF NoneIsLost
<1>11. FlushesWait(owed, run, q) => FlushesWait(owed, run \ {x}, r)
  BY <1>6, <1>7 DEF FlushesWait
<1> QED
  BY <1>1, <1>2, <1>5, <1>8, <1>9, <1>10, <1>11

(* The reply that is dropped when the connection ends was not to arrive.   *)
LEMMA WaitingDropped ==
  ASSUME NEW owed \in SUBSET Requests, NEW run, NEW q, NEW r, NEW d \in Nat, NEW k \in Nat, Dropped(r, q, k),
         k < Len(q), HeldOnce(owed, run, q, d)
  PROVE  /\ HeldOnce(owed, run, r, d)
         /\ FlushesFollow(owed, q, k) => FlushesFollow(owed, r, k)
<1>1. PICK l \in Nat : /\ l = Len(r) /\ Len(q) = l + 1 /\ k <= l
                       /\ \A p \in 1 .. l : r[p] = IF p <= k THEN q[p] ELSE q[p + 1]
  <2>1. Len(r) \in Nat /\ Len(q) \in Nat /\ Len(r) = Len(q) - 1
    BY LenProperties DEF Dropped
  <2>2. Len(q) = Len(r) + 1 /\ k <= Len(r)
    BY <2>1
  <2>3. \A p \in 1 .. Len(r) : r[p] = IF p <= k THEN q[p] ELSE q[p + 1]
    BY DEF Dropped
  <2> QED
    BY <2>1, <2>2, <2>3
<1>2. ASSUME NEW p \in 1 .. l
      PROVE  \E s \in 1 .. l + 1 : r[p] = q[s] /\ s = IF p <= k THEN p ELSE p + 1
  BY <1>1
<1>3. /\ \A p \in 1 .. l + 1 : q[p].m \in owed /\ q[p].m.id <= d
      /\ \A p \in 1 .. l + 1, x \in run : q[p].m # x.m
      /\ \A p \in 1 .. l + 1, s \in 1 .. l + 1 : q[p].m = q[s].m => p = s
  BY <1>1 DEF HeldOnce
<1>4. HeldOnce(owed, run, r, d)
  <2>1. \A p \in 1 .. l : r[p].m \in owed /\ r[p].m.id <= d
    BY <1>2, <1>3
  <2>2. \A p \in 1 .. l, x \in run : r[p].m # x.m
    BY <1>2, <1>3
  <2>3. ASSUME NEW p \in 1 .. l, NEW s \in 1 .. l, r[p].m = r[s].m
        PROVE  p = s
    <3>1. PICK t \in 1 .. l + 1 : r[p] = q[t] /\ t = IF p <= k THEN p ELSE p + 1
      BY <1>2
    <3>2. PICK u \in 1 .. l + 1 : r[s] = q[u] /\ u = IF s <= k THEN s ELSE s + 1
      BY <1>2
    <3>3. t = u
      BY <1>3, <2>3, <3>1, <3>2
    <3> QED
      BY <3>1, <3>2, <3>3
  <2> QED
    BY <1>1, <2>1, <2>2, <2>3 DEF HeldOnce
<1>5. ASSUME FlushesFollow(owed, q, k)
      PROVE  FlushesFollow(owed, r, k)
  <2>1. \A p \in 1 .. k : r[p] = q[p] /\ \A s \in 1 .. (p - 1) : s \in 1 .. k
    BY <1>1
  <2> SUFFICES ASSUME NEW p \in 1 .. k, r[p].m.op = "flush", NEW o \in owed, o.tag = r[p].m.old
               PROVE  \E s \in 1 .. (p - 1) : r[s].m = o
    BY DEF FlushesFollow, AnsweredBefore
  <2>2. r[p] = q[p]
    BY <2>1
  <2>3. PICK s \in 1 .. (p - 1) : q[s].m = o
    BY <1>5, <2>2 DEF FlushesFollow, AnsweredBefore
  <2>4. r[s] = q[s]
    BY <2>1
  <2> QED
    BY <2>3, <2>4
<1> QED
  BY <1>4, <1>5

(* What is dispatched: the next requests, each with a tag of its own.      *)
LEMMA EntryIs ==
  ASSUME TypesInv, TagsInv, NEW recs, Made(recs, Len(dispatched), client.sent), NEW i \in 1 .. Len(recs),
         Len(dispatched) \in Nat
  PROVE  /\ Entry(recs, i).m \in client.owed /\ Entry(recs, i).m.id = Len(dispatched) + i
         /\ Entry(recs, i).m = client.sent[Len(dispatched) + i] /\ ~Entry(recs, i).refused
<1>1. PICK d \in Nat, all \in Nat, most \in Nat :
        d = Len(dispatched) /\ all = Len(recs) /\ most = Len(client.sent) /\ d + all <= most
  BY LenProperties DEF Made, TypesInv, Numbered
<1>2. \A j \in 1 .. all : /\ Asked(recs[j]) = client.sent[d + j] /\ Asked(recs[j]).id = d + j
                          /\ Asked(recs[j]) \in client.owed
  <2> TAKE j \in 1 .. all
  <2>1. Asked(recs[j]) = client.sent[d + j] /\ Asked(recs[j]).id = d + j
    <3>1. Numbered(client.sent) /\ Made(recs, d, client.sent) /\ j \in 1 .. Len(recs)
      BY <1>1 DEF TypesInv
    <3> QED
      BY <3>1, AskedIs
  <2>2. d + j \in (d + 1) .. most
    BY <1>1
  <2>3. client.sent[d + j] \in client.owed
    BY <1>1, <2>2 DEF TagsInv, OwedAreSent
  <2> QED
    BY <2>1, <2>3
<1>3. PICK m : m = Asked(recs[i])
  OBVIOUS
<1>4. m \in client.owed /\ m = client.sent[d + i] /\ m.id = d + i
  BY <1>1, <1>2, <1>3
<1>5. Holders(recs, i, m.tag) = {}
  <2>1. ASSUME NEW x \in running, x.m.tag = m.tag
        PROVE  FALSE
    <3>1. x.m \in client.owed /\ x.m.id <= d
      BY <1>1 DEF TagsInv, HeldOnce
    <3>2. x.m = m
      BY <1>4, <2>1, <3>1 DEF TagsInv, OneTagEach
    <3>3. d + i <= d
      BY <1>4, <3>1, <3>2
    <3> QED
      BY <1>1, <3>3
  <2>2. ASSUME NEW j \in 1 .. (i - 1), Asked(recs[j]).tag = m.tag
        PROVE  FALSE
    <3>1. j \in 1 .. all
      BY <1>1
    <3>2. Asked(recs[j]) = m
      BY <1>2, <1>4, <2>2, <3>1 DEF TagsInv, OneTagEach
    <3>3. d + j = d + i
      BY <1>2, <1>4, <3>1, <3>2
    <3> QED
      BY <1>1, <3>3
  <2> QED
    BY <2>1, <2>2 DEF Holders, Registered
<1>6. Entry(recs, i).m = m /\ ~Entry(recs, i).refused
  BY <1>3, <1>5 DEF Entry
<1> QED
  BY <1>1, <1>4, <1>6

(* A flush that is dispatched finds what it names, unless its answer is on *)
(* its way.                                                                *)
LEMMA FlushFinds ==
  ASSUME TypesInv, TagsInv, ~stopped, NEW recs, Made(recs, Len(dispatched), client.sent), NEW i \in 1 .. Len(recs),
         Len(dispatched) \in Nat, Entry(recs, i).m.op = "flush",
         NEW o \in client.owed, o.tag = Entry(recs, i).m.old
  PROVE  \/ IsAnswered(OnTheWay, o)
         \/ /\ o.id \in Entry(recs, i).waits
            /\ IsRunning(running, o) \/ \E j \in 1 .. (i - 1) : Entry(recs, j).m = o
<1>1. PICK d \in Nat, all \in Nat : d = Len(dispatched) /\ all = Len(recs)
  BY LenProperties DEF Made
<1>2. \A j \in 1 .. all : /\ Entry(recs, j).m \in client.owed /\ Entry(recs, j).m.id = d + j
                          /\ Entry(recs, j).m = client.sent[d + j] /\ ~Entry(recs, j).refused
  BY <1>1, EntryIs
<1>3. PICK m : m = Entry(recs, i).m
  OBVIOUS
<1>4. m \in client.owed /\ m.op = "flush" /\ m.id = d + i /\ m = Asked(recs[i])
  BY <1>1, <1>2, <1>3 DEF Entry
<1>5. o.op = "call" /\ o.id < m.id /\ kind = "9p" /\ o.id \in Nat
  <2>1. o \in Requests
    BY DEF TypesInv
  <2>2. o.id \in Nat
    BY <2>1 DEF Requests
  <2> QED
    BY <1>3, <1>4, <2>2 DEF TagsInv, OneTagEach
<1>6. Entry(recs, i).waits = Holders(recs, i, o.tag)
  BY <1>3, <1>4 DEF Entry
<1>7. CASE o.id <= d
  <2>1. IsRunning(running, o) \/ IsAnswered(OnTheWay, o)
    BY <1>1, <1>7 DEF TagsInv, NoneIsLost
  <2>2. ASSUME NEW x \in running, x.m = o
        PROVE  o.id \in Holders(recs, i, o.tag)
    <3>1. ~x.refused
      BY DEF TagsInv, HeldOnce
    <3>2. x \in Registered
      BY <1>5, <2>2, <3>1 DEF Registered
    <3> QED
      BY <2>2, <3>2 DEF Holders
  <2> QED
    BY <1>6, <2>1, <2>2 DEF IsRunning
<1>8. CASE ~(o.id <= d)
  <2>1. PICK j \in 1 .. (i - 1) : o.id = d + j
    <3>1. o.id - d \in 1 .. (i - 1) /\ o.id = d + (o.id - d)
      BY <1>1, <1>4, <1>5, <1>8
    <3> QED
      BY <3>1
  <2>2. j \in 1 .. all
    BY <1>1
  <2>3. o = client.sent[d + j]
    BY <2>1 DEF TagsInv, OwedAreSent
  <2>4. Entry(recs, j).m = o /\ Asked(recs[j]) = o
    BY <1>2, <2>2, <2>3 DEF Entry
  <2>5. o.id \in Holders(recs, i, o.tag)
    BY <1>5, <2>4 DEF Holders
  <2> QED
    BY <1>6, <2>4, <2>5
<1> QED
  BY <1>5, <1>7, <1>8

LEMMA DispatchKeeps ==
  ASSUME TypesInv, TagsInv, NEW recs, Made(recs, Len(dispatched), client.sent), NEW n, Dispatching(recs, n)
  PROVE  /\ OwedAreSent(client.sent, client.owed, Len(dispatched'))
         /\ HeldOnce(client.owed, running', OnTheWay, Len(dispatched'))
         /\ ~stopped => NoneIsLost(client.owed, running', OnTheWay, Len(dispatched'))
                        /\ FlushesWait(client.owed, running', OnTheWay)
<1>1. PICK d \in Nat, k \in Nat, all \in Nat :
        /\ d = Len(dispatched) /\ k = n /\ all = Len(recs) /\ k <= all /\ Len(dispatched') = d + k
  BY DEF Dispatching
<1>2. \A i \in 1 .. k : i \in 1 .. all
  BY <1>1
<1>3. \A i \in 1 .. k : /\ Entry(recs, i).m \in client.owed /\ Entry(recs, i).m.id = d + i
                        /\ Entry(recs, i).m = client.sent[d + i] /\ ~Entry(recs, i).refused
  BY <1>1, <1>2, EntryIs
<1>4. /\ running \subseteq running' /\ \A i \in 1 .. k : Entry(recs, i) \in running'
      /\ \A x \in running' : x \in running \/ \E i \in 1 .. k : x = Entry(recs, i)
  BY <1>1 DEF Dispatching
<1>5. /\ \A x \in running : x.m \in client.owed /\ x.m.id <= d /\ ~x.refused
      /\ \A x \in running, y \in running : x.m = y.m => x = y
      /\ \A p \in 1 .. Len(OnTheWay) : OnTheWay[p].m \in client.owed /\ OnTheWay[p].m.id <= d
      /\ \A p \in 1 .. Len(OnTheWay), x \in running : OnTheWay[p].m # x.m
      /\ \A p \in 1 .. Len(OnTheWay), r \in 1 .. Len(OnTheWay) : OnTheWay[p].m = OnTheWay[r].m => p = r
  BY <1>1 DEF TagsInv, HeldOnce
<1>6. \A m \in client.owed : m.id \in Nat
  BY DEF TypesInv, Requests
<1>7. HeldOnce(client.owed, running', OnTheWay, d + k)
  <2>1. ASSUME NEW x \in running'
        PROVE  x.m \in client.owed /\ x.m.id <= d + k /\ ~x.refused
    <3>1. CASE x \in running
      <4>1. x.m \in client.owed /\ x.m.id <= d /\ ~x.refused /\ x.m.id \in Nat
        BY <1>5, <1>6, <3>1
      <4> QED
        BY <1>1, <4>1
    <3>2. ASSUME NEW i \in 1 .. k, x = Entry(recs, i)
          PROVE  x.m \in client.owed /\ x.m.id <= d + k /\ ~x.refused
      <4>1. x.m \in client.owed /\ x.m.id = d + i /\ ~x.refused
        BY <1>3, <3>2
      <4> QED
        BY <1>1, <4>1
    <3> QED
      BY <1>4, <3>1, <3>2
  <2>2. ASSUME NEW x \in running', NEW y \in running', x.m = y.m
        PROVE  x = y
    <3>1. ASSUME NEW i \in 1 .. k, NEW z \in running
          PROVE  Entry(recs, i).m # z.m
      <4>1. z.m.id <= d /\ Entry(recs, i).m.id = d + i
        BY <1>3, <1>5
      <4> QED
        BY <1>1, <4>1
    <3>2. ASSUME NEW i \in 1 .. k, NEW j \in 1 .. k, Entry(recs, i).m = Entry(recs, j).m
          PROVE  i = j
      <4>1. d + i = d + j
        BY <1>3, <3>2
      <4> QED
        BY <1>1, <4>1
    <3> QED
      BY <1>4, <1>5, <2>2, <3>1, <3>2
  <2>3. ASSUME NEW p \in 1 .. Len(OnTheWay)
        PROVE  OnTheWay[p].m \in client.owed /\ OnTheWay[p].m.id <= d + k
    <3>1. OnTheWay[p].m \in client.owed /\ OnTheWay[p].m.id <= d /\ OnTheWay[p].m.id \in Nat
      BY <1>5, <1>6
    <3> QED
      BY <1>1, <3>1
  <2>4. ASSUME NEW p \in 1 .. Len(OnTheWay), NEW x \in running'
        PROVE  OnTheWay[p].m # x.m
    <3>1. ASSUME NEW i \in 1 .. k
          PROVE  OnTheWay[p].m # Entry(recs, i).m
      <4>1. OnTheWay[p].m.id <= d /\ Entry(recs, i).m.id = d + i
        BY <1>3, <1>5
      <4> QED
        BY <1>1, <4>1
    <3> QED
      BY <1>4, <1>5, <3>1
  <2> QED
    BY <1>5, <2>1, <2>2, <2>3, <2>4 DEF HeldOnce
<1>8. OwedAreSent(client.sent, client.owed, d + k)
  <2>1. PICK most \in Nat : most = Len(client.sent)
    BY LenProperties DEF TypesInv, Numbered
  <2>2. \A i \in (d + k + 1) .. most : i \in (d + 1) .. most
    BY <1>1
  <2> QED
    BY <1>1, <2>1, <2>2 DEF TagsInv, OwedAreSent
<1>9. \A o : IsRunning(running, o) => IsRunning(running', o)
  BY <1>4 DEF IsRunning
<1>10. ASSUME ~stopped
       PROVE  NoneIsLost(client.owed, running', OnTheWay, d + k)
  <2> SUFFICES ASSUME NEW o \in client.owed, o.id <= d + k PROVE IsRunning(running', o) \/ IsAnswered(OnTheWay, o)
    BY DEF NoneIsLost
  <2>1. CASE o.id <= d
    BY <1>1, <1>9, <1>10, <2>1 DEF TagsInv, NoneIsLost
  <2>2. CASE ~(o.id <= d)
    <3>1. PICK i \in 1 .. k : o.id = d + i
      <4>1. o.id - d \in 1 .. k /\ o.id = d + (o.id - d)
        BY <1>1, <1>6, <2>2
      <4> QED
        BY <4>1
    <3>2. o = client.sent[d + i]
      BY <3>1 DEF TagsInv, OwedAreSent
    <3> QED
      BY <1>3, <1>4, <3>2 DEF IsRunning
  <2> QED
    BY <2>1, <2>2
<1>11. ASSUME ~stopped
       PROVE  FlushesWait(client.owed, running', OnTheWay)
  <2> SUFFICES ASSUME NEW x \in running', NEW o \in client.owed, x.m.op = "flush", o.tag = x.m.old
               PROVE  IsAnswered(OnTheWay, o) \/ (o.id \in x.waits /\ IsRunning(running', o))
    BY DEF FlushesWait
  <2>1. CASE x \in running
    BY <1>9, <1>11, <2>1 DEF TagsInv, FlushesWait
  <2>2. ASSUME NEW i \in 1 .. k, x = Entry(recs, i)
        PROVE  IsAnswered(OnTheWay, o) \/ (o.id \in x.waits /\ IsRunning(running', o))
    <3>1. \/ IsAnswered(OnTheWay, o)
          \/ o.id \in x.waits /\ (IsRunning(running, o) \/ \E j \in 1 .. (i - 1) : Entry(recs, j).m = o)
      BY <1>1, <1>2, <1>11, <2>2, FlushFinds
    <3>2. \A j \in 1 .. (i - 1) : j \in 1 .. k
      OBVIOUS
    <3>3. (\E j \in 1 .. (i - 1) : Entry(recs, j).m = o) => IsRunning(running', o)
      BY <1>4, <3>2 DEF IsRunning
    <3> QED
      BY <1>9, <3>1, <3>3
  <2> QED
    BY <1>4, <2>1, <2>2
<1> QED
  BY <1>1, <1>7, <1>8, <1>10, <1>11

LEMMA TagsInvInit == Init => TagsInv
<1> SUFFICES ASSUME Init PROVE TagsInv
  OBVIOUS
<1>1. client.sent = <<>> /\ client.owed = {} /\ running = {} /\ out = <<>> /\ writing = <<>> /\ ~parked /\ ~stopped
      /\ dispatched = <<>>
  BY DEF Init
<1>2. OnTheWay = <<>> /\ Len(OnTheWay) = 0 /\ Len(client.sent) = 0 /\ Len(dispatched) = 0 /\ 1 .. 0 = {}
      /\ (0 + 1) .. 0 = {} /\ Arriving = 0
  <2>1. <<>> \o <<>> = <<>>
    <3>1. <<>> \in Seq({}) /\ <<>> = <<>>
      OBVIOUS
    <3> QED
      BY <3>1, ConcatEmptySeq
  <2>2. OnTheWay = <<>>
    BY <1>1, <2>1 DEF OnTheWay, NotWritten
  <2>3. Len(OnTheWay) = 0
    BY <2>2
  <2> QED
    BY <1>1, <2>2, <2>3 DEF Arriving
<1>3. OwedAreSent(client.sent, client.owed, Len(dispatched)) /\ OneTagEach(client.owed)
  BY <1>1, <1>2 DEF OwedAreSent, OneTagEach
<1>4. HeldOnce(client.owed, running, OnTheWay, Len(dispatched))
  BY <1>1, <1>2 DEF HeldOnce
<1>5. FlushesFollow(client.owed, OnTheWay, Arriving) /\ NoneIsLost(client.owed, running, OnTheWay, Len(dispatched))
      /\ FlushesWait(client.owed, running, OnTheWay)
  BY <1>1, <1>2 DEF FlushesFollow, NoneIsLost, FlushesWait
<1> QED
  BY <1>1, <1>3, <1>4, <1>5 DEF TagsInv

(* The client sends a request with a tag it may use.                       *)
LEMMA SendsTagged ==
  ASSUME TypesInv, Made(dispatched, 0, client.sent), WindowInv, TagsInv,
         NEW op \in {"call", "flush", "version"}, NEW tag \in Nat, NEW old \in Nat,
         NEW size \in Nat \ {0}, NEW cut \in Nat, Sends(op, tag, old, size, cut),
         op = "flush" => kind = "9p",
         OneTagEach(client.owed \cup {Request(Len(client.sent) + 1, op, tag, old, size, cut)})
  PROVE  TagsInv'
<1>1. PICK l \in Nat, d \in Nat : l = Len(client.sent) /\ d = Len(dispatched) /\ d <= l
  <2>1. Len(client.sent) \in Nat /\ Len(dispatched) \in Nat /\ 0 + Len(dispatched) <= Len(client.sent)
    BY LenProperties DEF TypesInv, Numbered, Made
  <2> QED
    BY <2>1
<1>2. PICK m : m = Request(l + 1, op, tag, old, size, cut)
  OBVIOUS
<1>3. m \in Requests /\ m.id = l + 1 /\ m.op = op
  BY <1>2 DEF Request, Requests
<1>4. client' = [client EXCEPT !.sent = Append(@, m), !.owed = @ \cup {m}]
      /\ UNCHANGED <<kind, running, dispatched, writing, parked, out, stopped>>
  BY <1>1, <1>2 DEF Sends
<1>5. PICK sent \in Seq(Requests), owed \in SUBSET Requests :
        /\ sent = client.sent /\ owed = client.owed /\ client'.owed = owed \cup {m} /\ client'.sent = Append(sent, m)
  BY <1>4 DEF TypesInv
<1>6. Len(Append(sent, m)) = l + 1 /\ Append(sent, m)[l + 1] = m /\ \A i \in 1 .. l : Append(sent, m)[i] = sent[i]
  BY <1>1, <1>3, <1>5, AppendProperties
<1>7. OwedAreSent(client'.sent, client'.owed, d)
  <2>1. ASSUME NEW o \in owed
        PROVE  o.id \in 1 .. l + 1 /\ Append(sent, m)[o.id] = o
    <3>1. o.id \in 1 .. l /\ sent[o.id] = o
      BY <1>1, <1>5 DEF TagsInv, OwedAreSent
    <3> QED
      BY <1>6, <3>1
  <2>2. ASSUME NEW i \in (d + 1) .. l + 1
        PROVE  Append(sent, m)[i] \in owed \cup {m}
    <3>1. CASE i = l + 1
      BY <1>6, <3>1
    <3>2. CASE i # l + 1
      <4>1. i \in (d + 1) .. l /\ i \in 1 .. l
        BY <1>1, <3>2
      <4>2. sent[i] \in owed
        BY <1>1, <1>5, <4>1 DEF TagsInv, OwedAreSent
      <4> QED
        BY <1>6, <4>1, <4>2
    <3> QED
      BY <3>1, <3>2
  <2>3. m.id \in 1 .. l + 1 /\ Append(sent, m)[m.id] = m
    BY <1>3, <1>6
  <2> QED
    BY <1>5, <1>6, <2>1, <2>2, <2>3 DEF OwedAreSent
<1>8. \A o \in owed : o.id < m.id
  <2> TAKE o \in owed
  <2>1. o.id \in 1 .. l
    BY <1>1, <1>5 DEF TagsInv, OwedAreSent
  <2> QED
    BY <1>3, <2>1
<1>9. OnTheWay' = OnTheWay /\ Arriving' = Arriving
  BY <1>4 DEF OnTheWay, Arriving
<1>10. PICK q \in Seq(Replies), k \in Nat : q = OnTheWay /\ k = Arriving /\ k <= Len(q)
  BY OnTheWayIs DEF Arriving
<1>11. d < m.id /\ OneTagEach(owed \cup {m})
  BY <1>1, <1>2, <1>3, <1>5
<1>12. HeldOnce(owed, running, q, d)
  BY <1>1, <1>5, <1>10 DEF TagsInv
<1>13. /\ HeldOnce(owed \cup {m}, running, q, d)
       /\ FlushesFollow(owed, q, k) => FlushesFollow(owed \cup {m}, q, k)
       /\ NoneIsLost(owed, running, q, d) => NoneIsLost(owed \cup {m}, running, q, d)
       /\ FlushesWait(owed, running, q) => FlushesWait(owed \cup {m}, running, q)
  BY <1>3, <1>8, <1>10, <1>11, <1>12, NewIsNotHeld
<1>14. \A f \in owed \cup {m} : f.op = "flush" => kind = "9p"
  BY <1>3, <1>5 DEF TagsInv
<1> QED
  BY <1>1, <1>4, <1>5, <1>7, <1>9, <1>10, <1>11, <1>13, <1>14 DEF TagsInv

(* A tag that is free keeps the tags apart.                                *)
LEMMA CallIsTagged ==
  ASSUME NEW owed, OneTagEach(owed), NEW m, m.op = "call",
         \A o \in owed : o.op # "version" /\ o.tag # m.tag /\ (o.op = "flush" => o.old # m.tag)
  PROVE  OneTagEach(owed \cup {m})
  BY DEF OneTagEach

LEMMA FlushIsTagged ==
  ASSUME NEW owed, OneTagEach(owed), NEW m, m.op = "flush", NEW c \in owed, c.op = "call", c.id < m.id,
         m.old = c.tag, \A o \in owed : o.tag # m.tag /\ (o.op = "flush" => o.old # m.tag)
  PROVE  OneTagEach(owed \cup {m})
<1>1. \A o \in owed : o.op # "version"
  BY DEF OneTagEach
<1>2. \A o \in owed : o.tag = m.old => o = c
  BY DEF OneTagEach
<1> QED
  BY <1>1, <1>2 DEF OneTagEach

LEMMA ReceiveTagged ==
  ASSUME TypesInv, WindowInv, TagsInv, Receive
  PROVE  TagsInv'
<1>1. /\ OnTheWay # <<>> /\ OnTheWay[1] = Head(out) /\ Dropped(OnTheWay', OnTheWay, 0)
      /\ Len(out') = Len(out) - 1 /\ 1 <= Len(out)
  BY ReceiveMoves
<1>2. Len(out) \in Nat /\ Len(OnTheWay) \in Nat /\ Len(out) <= Len(OnTheWay)
  BY OnTheWayIs
<1>3. PICK m : m = OnTheWay[1].m
  OBVIOUS
<1>4. PICK k \in Nat : k = Arriving /\ 1 <= k /\ k <= Len(OnTheWay)
  BY <1>1, <1>2 DEF Arriving
<1>5. m \in client.owed
  <2>1. 1 \in 1 .. Len(OnTheWay)
    BY <1>1, <1>2
  <2> QED
    BY <1>3, <2>1 DEF TagsInv, HeldOnce
<1>6. PICK over : over = {m} \cup {o \in client.owed : m.op = "flush" /\ o.tag = m.old}
  OBVIOUS
<1>7. over = {m}
  <2>1. 1 \in 1 .. k
    BY <1>4
  <2>2. AnsweredBefore(client.owed, OnTheWay, 1)
    BY <1>4, <2>1 DEF TagsInv, FlushesFollow
  <2>3. 1 .. (1 - 1) = {}
    OBVIOUS
  <2> QED
    BY <1>3, <1>6, <2>2, <2>3 DEF AnsweredBefore
<1>8. /\ client'.owed = client.owed \ {m} /\ client'.sent = client.sent
      /\ UNCHANGED <<kind, running, dispatched, stopped>>
  <2>1. PICK size : client' = [client EXCEPT !.owed = @ \ over, !.size = size]
    BY <1>1, <1>3, <1>6 DEF Receive
  <2> QED
    BY <1>7, <2>1 DEF Receive, TypesInv
<1>9. PICK j \in Nat : j = k - 1 /\ j = Arriving'
  <2>1. Len(OnTheWay') = Len(OnTheWay) - 1
    BY <1>1 DEF Dropped
  <2> QED
    BY <1>1, <1>2, <1>4, <1>8, <2>1 DEF Arriving
<1>10. PICK d \in Nat : d = Len(dispatched)
  <2>1. Len(dispatched) \in Nat
    BY LenProperties DEF TagsInv, OwedAreSent
  <2> QED
    BY <2>1
<1>11. PICK owed \in SUBSET Requests : owed = client.owed
  BY DEF TypesInv
<1>12. HeldOnce(owed, running, OnTheWay, d)
  BY <1>10, <1>11 DEF TagsInv
<1>13. /\ HeldOnce(owed \ {m}, running, OnTheWay', d)
       /\ FlushesFollow(owed, OnTheWay, k) => FlushesFollow(owed \ {m}, OnTheWay', j)
       /\ NoneIsLost(owed, running, OnTheWay, d) => NoneIsLost(owed \ {m}, running, OnTheWay', d)
       /\ FlushesWait(owed, running, OnTheWay) => FlushesWait(owed \ {m}, running, OnTheWay')
  BY <1>1, <1>3, <1>4, <1>9, <1>12, HeadReceived
<1>14. OwedAreSent(client.sent, owed \ {m}, d)
  <2>1. m.id <= d
    <3>1. 1 \in 1 .. Len(OnTheWay)
      BY <1>1, <1>2
    <3> QED
      BY <1>3, <1>12, <3>1 DEF HeldOnce
  <2>2. \A i \in (d + 1) .. Len(client.sent) : client.sent[i].id = i
    <3>1. \A i \in (d + 1) .. Len(client.sent) : i \in 1 .. Len(client.sent)
      BY LenProperties DEF TypesInv, Numbered
    <3> QED
      BY <3>1 DEF TypesInv, Numbered
  <2>3. ASSUME NEW i \in (d + 1) .. Len(client.sent)
        PROVE  client.sent[i] # m
    <3>1. client.sent[i].id = i
      BY <2>2
    <3> QED
      BY <2>1, <3>1
  <2> QED
    BY <1>10, <1>11, <2>3 DEF TagsInv, OwedAreSent
<1>15. OneTagEach(owed \ {m})
  BY <1>11 DEF TagsInv, OneTagEach
<1>16. /\ FlushesFollow(owed, OnTheWay, k)
       /\ ~stopped => NoneIsLost(owed, running, OnTheWay, d) /\ FlushesWait(owed, running, OnTheWay)
       /\ \A f \in owed \ {m} : f.op = "flush" => kind = "9p"
  BY <1>4, <1>10, <1>11 DEF TagsInv
<1> QED
  BY <1>8, <1>9, <1>10, <1>11, <1>13, <1>14, <1>15, <1>16 DEF TagsInv

LEMMA SettleTagged ==
  ASSUME TypesInv, WindowInv, TagsInv, Len(dispatched) \in Nat, NEW x \in running, Settle(x)
  PROVE  TagsInv'
<1>1. /\ x.waits \cap {y.m.id : y \in running} = {} /\ running' = running \ {x}
      /\ UNCHANGED <<kind, client, dispatched, out, stopped>>
  BY DEF Settle
<1>2. PICK a \in Replies : writing' = Append(writing, a) /\ a.m = x.m
  <2>1. PICK agreed : /\ agreed = (IF x.m.old < ceiling THEN x.m.old ELSE ceiling)
                      /\ writing' = Append(writing, [m |-> x.m, msize |-> agreed])
    BY DEF Settle
  <2>2. x.m \in Requests /\ ceiling \in Nat
    BY DEF TypesInv, Entries
  <2>3. agreed \in Nat
    BY <2>1, <2>2 DEF Requests
  <2>4. [m |-> x.m, msize |-> agreed] \in Replies
    BY <2>2, <2>3 DEF Replies
  <2> QED
    BY <2>1, <2>4
<1>3. OnTheWay' = Append(OnTheWay, a)
  BY <1>2, SettleMoves
<1>4. PICK q \in Seq(Replies), owed \in SUBSET Requests, run \in SUBSET Entries, d \in Nat, k \in Nat :
        /\ q = OnTheWay /\ owed = client.owed /\ run = running /\ d = Len(dispatched)
        /\ k = Len(out) /\ k <= Len(q)
  <2>1. OnTheWay \in Seq(Replies) /\ Len(out) \in Nat /\ Len(out) <= Len(OnTheWay)
    BY OnTheWayIs
  <2>2. client.owed \in SUBSET Requests /\ running \in SUBSET Entries
    BY DEF TypesInv
  <2> QED
    BY <2>1, <2>2
<1>5. x \in run /\ x.waits \cap {y.m.id : y \in run} = {}
  BY <1>1, <1>4
<1>6. HeldOnce(owed, run, q, d)
  BY <1>4 DEF TagsInv
<1>7. /\ HeldOnce(owed, run \ {x}, Append(q, a), d)
      /\ \A l \in Nat : l <= Len(q) /\ FlushesFollow(owed, q, l) => FlushesFollow(owed, Append(q, a), l)
      /\ NoneIsLost(owed, run, q, d) => NoneIsLost(owed, run \ {x}, Append(q, a), d)
      /\ FlushesWait(owed, run, q) => FlushesWait(owed, run \ {x}, Append(q, a))
      /\ FlushesWait(owed, run, q) /\ FlushesFollow(owed, q, Len(q)) =>
           FlushesFollow(owed, Append(q, a), Len(Append(q, a)))
  BY <1>2, <1>5, <1>6, RequestSettles
<1>8. FlushesFollow(owed, Append(q, a), Arriving')
  <2>1. CASE stopped
    <3>1. Arriving = k /\ Arriving' = k
      BY <1>1, <1>4, <2>1 DEF Arriving
    <3>2. FlushesFollow(owed, q, k)
      BY <1>4, <3>1 DEF TagsInv
    <3> QED
      BY <1>4, <1>7, <3>1, <3>2
  <2>2. CASE ~stopped
    <3>1. Arriving = Len(q) /\ Arriving' = Len(Append(q, a))
      BY <1>1, <1>3, <1>4, <2>2 DEF Arriving
    <3>2. FlushesFollow(owed, q, Len(q)) /\ FlushesWait(owed, run, q)
      BY <1>4, <2>2, <3>1 DEF TagsInv
    <3> QED
      BY <1>7, <3>1, <3>2
  <2> QED
    BY <2>1, <2>2
<1>9. /\ ~stopped => NoneIsLost(owed, run, q, d) /\ FlushesWait(owed, run, q)
      /\ OwedAreSent(client.sent, owed, d) /\ OneTagEach(owed) /\ \A f \in owed : f.op = "flush" => kind = "9p"
  BY <1>4 DEF TagsInv
<1> QED
  BY <1>1, <1>3, <1>4, <1>7, <1>8, <1>9 DEF TagsInv

(* Dispatching when the replies have not moved.                            *)
LEMMA PumpTagged ==
  ASSUME TypesInv, WindowInv, TagsInv, ~stopped, UNCHANGED <<kind, client>>, OnTheWay' = OnTheWay,
         Made(dispatched, 0, client.sent), Len(out') \in Nat, Len(out') <= Len(OnTheWay),
         NEW recs, NEW flight, NEW cong, NEW stop, Pump(recs, flight, cong, stop),
         Made(recs, Len(dispatched), client.sent)
  PROVE  TagsInv'
<1>1. PICK n \in Nat : Dispatching(recs, n)
  BY PumpDispatches
<1>2. /\ OwedAreSent(client.sent, client.owed, Len(dispatched'))
      /\ HeldOnce(client.owed, running', OnTheWay, Len(dispatched'))
      /\ NoneIsLost(client.owed, running', OnTheWay, Len(dispatched'))
      /\ FlushesWait(client.owed, running', OnTheWay)
  BY <1>1, DispatchKeeps
<1>3. FlushesFollow(client.owed, OnTheWay, Arriving')
  <2>1. PICK l \in Nat, k \in Nat : l = Len(OnTheWay) /\ k = Arriving' /\ k <= l
    <3>1. Len(OnTheWay) \in Nat
      BY OnTheWayIs
    <3> QED
      BY <3>1 DEF Arriving
  <2>2. \A p \in 1 .. k : p \in 1 .. l
    BY <2>1
  <2> QED
    BY <2>1, <2>2 DEF TagsInv, FlushesFollow, Arriving
<1> QED
  BY <1>2, <1>3 DEF TagsInv

WrittenFits == Len(out) \in Nat /\ Len(out) <= Len(OnTheWay)

LEMMA WrittenFitsHolds == TypesInv /\ WindowInv => WrittenFits
  BY OnTheWayIs DEF WrittenFits

LEMMA SendTagged ==
  ASSUME FramingInv, FramingInv', WindowInv, WindowInv', TagsInv, Send
  PROVE  TagsInv'
<1>1. TypesInv /\ TypesInv' /\ Made(dispatched, 0, client.sent) /\ Made(records, Len(dispatched), client.sent)
  BY DEF FramingInv
<1>2. /\ UNCHANGED <<kind, client, stopped>>
      /\ \/ UNCHANGED <<records, dispatched, running>> /\ ~stopped
         \/ Pump(records, inflight - 1, congested, stopped)
  BY DEF Send
<1>3. Len(out') \in Nat /\ Len(out') <= Len(OnTheWay')
  <2>1. WrittenFits'
    BY <1>1, WrittenFitsHolds, PTL
  <2> QED
    BY <2>1 DEF WrittenFits
<1>4. CASE ~stopped
  <2>1. OnTheWay' = OnTheWay
    BY <1>1, <1>4, SendMoves
  <2>2. CASE Pump(records, inflight - 1, congested, stopped)
    BY <1>1, <1>2, <1>3, <1>4, <2>1, <2>2, PumpTagged
  <2>3. CASE UNCHANGED <<records, dispatched, running>>
    <3>1. Arriving' = Arriving
      <4>1. ~stopped'
        BY <1>2, <1>4
      <4> QED
        BY <1>4, <2>1, <4>1 DEF Arriving
    <3> QED
      BY <1>2, <2>1, <2>3, <3>1 DEF TagsInv
  <2> QED
    BY <1>2, <2>2, <2>3
<1>5. CASE stopped
  <2>1. Dropped(OnTheWay', OnTheWay, Len(out)) /\ out' = out
    BY <1>1, <1>5, SendMoves DEF Send
  <2>2. PICK n \in Nat : /\ Dispatching(records, n)
                         /\ n = Cardinality((1 .. Room(inflight - 1, congested, stopped)) \cap DOMAIN records)
    BY <1>1, <1>2, <1>5, PumpDispatches
  <2>3. n = 0
    <3>1. (1 .. Room(inflight - 1, congested, stopped)) = {}
      BY <1>5 DEF Room
    <3>2. (1 .. Room(inflight - 1, congested, stopped)) \cap DOMAIN records = {}
      BY <3>1
    <3> QED
      BY <2>2, <3>2, FS_EmptySet
  <2>4. running' = running /\ Len(dispatched') = Len(dispatched)
    <3>1. 1 .. 0 = {}
      OBVIOUS
    <3> QED
      BY <2>2, <2>3, <3>1 DEF Dispatching
  <2>5. Arriving = Len(out) /\ Arriving' = Len(out) /\ Len(dispatched) \in Nat
    BY <1>2, <1>5, <2>1, <2>2 DEF Arriving, Dispatching
  <2>6. PICK d \in Nat, k \in Nat : d = Len(dispatched) /\ k = Len(out) /\ k < Len(OnTheWay)
    <3>1. Len(OnTheWay') = Len(OnTheWay) - 1 /\ Len(OnTheWay) \in Nat /\ Len(OnTheWay') \in Nat
      BY <1>1, <2>1, OnTheWayIs DEF Dropped
    <3> QED
      BY <1>3, <2>1, <2>5, <3>1
  <2>7. PICK owed \in SUBSET Requests : owed = client.owed
    BY <1>1 DEF TypesInv
  <2>8. HeldOnce(owed, running, OnTheWay, d)
    BY <2>6, <2>7 DEF TagsInv
  <2>9. /\ HeldOnce(owed, running, OnTheWay', d)
        /\ FlushesFollow(owed, OnTheWay, k) => FlushesFollow(owed, OnTheWay', k)
    BY <2>1, <2>6, <2>8, WaitingDropped
  <2> QED
    BY <1>2, <1>5, <2>4, <2>5, <2>6, <2>7, <2>9 DEF TagsInv
<1> QED
  BY <1>4, <1>5

LEMMA TagsInvStep == FramingInv /\ FramingInv' /\ WindowInv /\ WindowInv' /\ TagsInv /\ [Next]_vars => TagsInv'
<1> SUFFICES ASSUME FramingInv, FramingInv', WindowInv, WindowInv', TagsInv, [Next]_vars PROVE TagsInv'
  OBVIOUS
<1>0. /\ TypesInv /\ TypesInv' /\ Made(dispatched, 0, client.sent) /\ Made(records, Len(dispatched), client.sent)
      /\ Len(dispatched) \in Nat /\ kind \in {"nfs", "9p"}
  BY LenProperties, ConnectionAssumption DEF FramingInv, Made, TypesInv
<1>1. CASE UNCHANGED vars
  BY <1>1 DEF vars, TagsInv, OnTheWay, Arriving
<1>2. CASE Call
  <2>1. PICK tag \in Tags, size \in Sizes :
          /\ Free(tag) /\ ~Negotiating
          /\ \E cut \in IF kind = "nfs" THEN 0..(size - 1) ELSE {0} : Sends("call", tag, NOTAG, size, cut)
    BY <1>2 DEF Call
  <2>2. tag \in Nat /\ size \in Nat \ {0} /\ NOTAG \in Nat
    BY ConnectionAssumption DEF NOTAG
  <2>3. PICK cut \in Nat : Sends("call", tag, NOTAG, size, cut)
    BY <1>0, <2>1, <2>2
  <2>4. PICK m : m = Request(Len(client.sent) + 1, "call", tag, NOTAG, size, cut)
    OBVIOUS
  <2>5. m.op = "call" /\ m.tag = tag
    BY <2>4 DEF Request
  <2>6. \A o \in client.owed : o.op # "version" /\ o.tag # m.tag /\ (o.op = "flush" => o.old # m.tag)
    BY <2>1, <2>5 DEF Free, InUse, Negotiating
  <2>7. OneTagEach(client.owed \cup {m})
    BY <2>5, <2>6, CallIsTagged DEF TagsInv
  <2> QED
    BY <1>0, <2>1, <2>2, <2>3, <2>4, <2>7, SendsTagged
<1>3. CASE Flush
  <2>1. PICK tag \in Tags, c \in client.owed :
          kind = "9p" /\ c.op = "call" /\ Free(tag) /\ Sends("flush", tag, c.tag, 1, 0)
    BY <1>3 DEF Flush
  <2>2. tag \in Nat /\ c \in Requests /\ 1 \in Nat \ {0} /\ 0 \in Nat
    BY <1>0, ConnectionAssumption DEF TypesInv
  <2>3. c.tag \in Nat /\ c.id < Len(client.sent) + 1
    <3>1. c.id \in 1 .. Len(client.sent) /\ Len(client.sent) \in Nat
      BY <1>0, LenProperties DEF TagsInv, OwedAreSent, TypesInv, Numbered
    <3> QED
      BY <2>2, <3>1 DEF Requests
  <2>4. PICK m : m = Request(Len(client.sent) + 1, "flush", tag, c.tag, 1, 0)
    OBVIOUS
  <2>5. m.op = "flush" /\ m.tag = tag /\ m.old = c.tag /\ m.id = Len(client.sent) + 1
    BY <2>4 DEF Request
  <2>6. \A o \in client.owed : o.tag # m.tag /\ (o.op = "flush" => o.old # m.tag)
    BY <2>1, <2>5 DEF Free, InUse
  <2>7. OneTagEach(client.owed \cup {m})
    BY <2>1, <2>3, <2>5, <2>6, FlushIsTagged DEF TagsInv
  <2> QED
    BY <1>0, <2>1, <2>2, <2>3, <2>4, <2>7, SendsTagged
<1>4. CASE Version
  <2>1. PICK size \in Sizes : kind = "9p" /\ client.owed = {} /\ Sends("version", NOTAG, size, 1, 0)
    BY <1>4 DEF Version
  <2>2. size \in Nat /\ NOTAG \in Nat /\ 1 \in Nat \ {0} /\ 0 \in Nat
    BY ConnectionAssumption DEF NOTAG
  <2>3. PICK m : m = Request(Len(client.sent) + 1, "version", NOTAG, size, 1, 0)
    OBVIOUS
  <2>4. OneTagEach(client.owed \cup {m})
    <3>1. m.op = "version" /\ client.owed \cup {m} = {m}
      BY <2>1, <2>3 DEF Request
    <3> QED
      BY <3>1 DEF OneTagEach
  <2> QED
    BY <1>0, <2>1, <2>2, <2>3, <2>4, SendsTagged
<1>5. CASE Receive
  BY <1>0, <1>5, ReceiveTagged
<1>6. ASSUME NEW x \in running, Settle(x)
      PROVE  TagsInv'
  BY <1>0, <1>6, SettleTagged
<1>7. CASE Read
  <2>1. ~stopped /\ UNCHANGED <<kind, client, writing, parked, out>>
    BY <1>7 DEF Read
  <2>2. OnTheWay' = OnTheWay /\ Len(out') \in Nat /\ Len(out') <= Len(OnTheWay)
    BY <1>0, <2>1, OnTheWayIs DEF OnTheWay
  <2>3. PICK recs : Pump(recs, inflight, congested, stopped') /\ Made(recs, Len(dispatched), client.sent)
    BY <1>7, ReadFramed DEF ReadsOn
  <2> QED
    BY <1>0, <2>1, <2>2, <2>3, PumpTagged
<1>8. CASE Send
  BY <1>8, SendTagged
<1>9. CASE Drain
  <2>1. ~stopped /\ stopped' = stopped /\ Pump(records, inflight - 1, FALSE, stopped) /\ UNCHANGED <<kind, client, out>>
    BY <1>9 DEF Drain
  <2>2. OnTheWay' = OnTheWay
    BY <1>0, <1>9, DrainMoves
  <2>3. Len(out') \in Nat /\ Len(out') <= Len(OnTheWay)
    BY <1>0, <2>1, OnTheWayIs
  <2>4. PICK cong : Pump(records, inflight - 1, cong, stopped)
    BY <2>1
  <2> QED
    BY <1>0, <2>1, <2>2, <2>3, <2>4, PumpTagged
<1>10. CASE Stop
  <2>1. ~stopped /\ stopped' = TRUE /\ UNCHANGED <<kind, client, dispatched, running, out>>
    BY <1>10 DEF Stop
  <2>2. OnTheWay' = OnTheWay
    BY <1>10, StopMoves
  <2>3. FlushesFollow(client.owed, OnTheWay, Arriving')
    <3>1. PICK l \in Nat, k \in Nat : l = Len(OnTheWay) /\ k = Len(out) /\ k <= l
      BY <1>0, OnTheWayIs
    <3>2. \A p \in 1 .. k : p \in 1 .. l
      BY <3>1
    <3>3. Arriving = l /\ Arriving' = k
      BY <2>1, <3>1 DEF Arriving
    <3> QED
      BY <3>2, <3>3 DEF TagsInv, FlushesFollow
  <2> QED
    BY <2>1, <2>2, <2>3 DEF TagsInv
<1> QED
  BY <1>1, <1>2, <1>3, <1>4, <1>5, <1>6, <1>7, <1>8, <1>9, <1>10 DEF Next, Serve

LEMMA TagsInvHolds ==
  ASSUME TypesInv, WindowInv, TagsInv
  PROVE  TagsAreSettled
<1>1. \A m \in client.owed : InUse(m.tag)
  BY DEF InUse
<1>2. \A x \in running : InUse(x.m.tag) /\ ~x.refused
  BY <1>1 DEF TagsInv, HeldOnce
<1>3. PICK o \in Seq(Replies), w \in Seq(Replies), all \in Seq(Replies) :
        o = out /\ w = NotWritten(parked, writing) /\ all = OnTheWay /\ all = o \o w /\ ConcatIs(all, o, w)
  <2>1. out \in Seq(Replies) /\ NotWritten(parked, writing) \in Seq(Replies)
    BY OnTheWayIs DEF TypesInv
  <2> QED
    BY <2>1, Concatenates DEF OnTheWay
<1>4. PICK m \in Nat, n \in Nat : m = Len(o) /\ n = Len(w)
  BY LenProperties
<1>5. Len(all) = m + n /\ \A i \in 1 .. m + n : all[i] = IF i <= m THEN o[i] ELSE w[i - m]
  BY <1>3, <1>4 DEF ConcatIs
<1>6. \A i \in 1 .. m + n : InUse(all[i].m.tag)
  BY <1>1, <1>3, <1>5 DEF TagsInv, HeldOnce
<1>7. ASSUME NEW i \in 1 .. m
      PROVE  InUse(o[i].m.tag)
  <2>1. i \in 1 .. m + n /\ i <= m
    BY <1>4
  <2> QED
    BY <1>5, <1>6, <2>1
<1>8. ASSUME NEW i \in 1 .. n
      PROVE  InUse(w[i].m.tag)
  <2>1. m + i \in 1 .. m + n /\ ~(m + i <= m) /\ (m + i) - m = i
    BY <1>4
  <2> QED
    BY <1>5, <1>6, <2>1
<1>9. ASSUME NEW i \in 1 .. Len(writing)
      PROVE  (i = 1 /\ parked) \/ InUse(writing[i].m.tag)
  <2>1. CASE ~parked
    BY <1>3, <1>4, <1>8, <2>1 DEF NotWritten
  <2>2. CASE parked /\ i # 1
    <3>1. writing \in Seq(Replies) /\ writing # <<>> /\ w = Tail(writing)
      BY <1>3, <2>2 DEF TypesInv, WindowInv, FullOnlyWhileParked, NotWritten
    <3>2. Len(writing) \in Nat /\ n = Len(writing) - 1 /\ \A j \in 1 .. n : w[j] = writing[j + 1]
      BY <1>4, <3>1, HeadTailProperties, LenProperties
    <3>3. i - 1 \in 1 .. n /\ (i - 1) + 1 = i
      BY <2>2, <3>2
    <3> QED
      BY <1>8, <3>2, <3>3
  <2> QED
    BY <2>1, <2>2
<1>10. DOMAIN writing = 1 .. Len(writing) /\ DOMAIN out = 1 .. m
  BY <1>3, <1>4, LenProperties DEF TypesInv
<1> QED
  BY <1>2, <1>3, <1>7, <1>9, <1>10 DEF TagsAreSettled

(* While a request, running or answered, is still the server's, its tag is *)
(* the client's to keep: Rflush follows the reply it names, nothing is     *)
(* refused for a tag in use.  handleCall and #flush of the 9P session, with *)
(* the chain of replies of P9ConnectionImpl.                               *)
THEOREM TagsStayInUse == Spec => []TagsAreSettled
<1>1. Init => FramingInv /\ WindowInv /\ TagsInv
  BY FramingInvInit, WindowInvInit, TagsInvInit
<1>2. FramingInv /\ WindowInv /\ TagsInv /\ [Next]_vars => FramingInv' /\ WindowInv' /\ TagsInv'
  BY FramingInvStep, WindowInvStep, TagsInvStep
<1>3. FramingInv /\ WindowInv /\ TagsInv => TagsAreSettled
  BY TagsInvHolds DEF FramingInv
<1> QED
  BY <1>1, <1>2, <1>3, PTL DEF Spec

-----------------------------------------------------------------------------
(* The limit of a frame, and the sizes asked of it.                        *)

Asks(m, size) ==
  IF m.op = "call" THEN m.size <= size
  ELSE m.size = 1 /\ kind = "9p" /\ (m.op = "version" => m.old # 0)

(* What both have agreed is in the Rversion, and once that is written the  *)
(* assembler keeps to it.                                                  *)
TellsTheSize(q, k, limit, agreed) ==
  \A p \in 1 .. Len(q) :
    q[p].m.op = "version" => agreed # 0 /\ q[p].msize = agreed /\ (p <= k => limit = agreed)

WithinTheLimit(size, limit, agreed) == size <= limit /\ (agreed # 0 => size <= agreed)

(* FramesWithinTheLimit holds because of what the requests still unread are, *)
(* and that rests on how an agreement reaches both sides.                  *)
LimitInv ==
  /\ ~asm.failed
  /\ ~stopped =>
       /\ asm.limit # 0
       /\ \A m \in client.owed : Asks(m, client.size)
       /\ Negotiating \/ WithinTheLimit(client.size, asm.limit, msize)
       /\ TellsTheSize(OnTheWay, Len(out), asm.limit, msize)

LEMMA LimitInvInit == Init => LimitInv
<1> SUFFICES ASSUME Init PROVE LimitInv
  OBVIOUS
<1>1. /\ client.owed = {} /\ out = <<>> /\ writing = <<>> /\ ~parked /\ msize = 0
      /\ asm.limit \in Nat \ {0} /\ ~asm.failed /\ client.size \in Nat /\ client.size <= asm.limit
  BY ConnectionAssumption DEF Init, Assembler
<1>2. OnTheWay = <<>> /\ Len(OnTheWay) = 0
  <2>1. <<>> \o <<>> = <<>>
    <3>1. <<>> \in Seq({})
      OBVIOUS
    <3> QED
      BY <3>1, ConcatEmptySeq
  <2>2. OnTheWay = <<>>
    BY <1>1, <2>1 DEF OnTheWay, NotWritten
  <2> QED
    BY <2>2
<1>3. TellsTheSize(OnTheWay, Len(out), asm.limit, msize)
  <2>1. 1 .. 0 = {}
    OBVIOUS
  <2> QED
    BY <1>2, <2>1 DEF TellsTheSize
<1> QED
  BY <1>1, <1>3 DEF LimitInv, WithinTheLimit

LEMMA LimitTypes ==
  ASSUME TypesInv
  PROVE  /\ asm.limit \in Nat /\ client.size \in Nat /\ msize \in Nat /\ ceiling \in Nat \ {0}
         /\ client.owed \in SUBSET Requests /\ \A m \in client.owed : m.size \in Nat /\ m.old \in Nat
  BY DEF TypesInv, Assemblers, Requests

(* Requests of the size agreed do not end the connection.                  *)
LEMMA UnreadWithinTheLimit ==
  ASSUME FramingInv, TagsInv, LimitInv, ~stopped
  PROVE  \A i \in (Len(dispatched) + Len(records) + 1) .. Len(client.sent) : client.sent[i].size <= asm.limit
<1>1. TypesInv
  BY DEF FramingInv
<1>2. Len(dispatched) \in Nat /\ Len(records) \in Nat /\ Len(client.sent) \in Nat
  BY LenProperties DEF FramingInv, Made, TypesInv, Numbered
<1> SUFFICES ASSUME NEW i \in (Len(dispatched) + Len(records) + 1) .. Len(client.sent)
             PROVE  client.sent[i].size <= asm.limit
  OBVIOUS
<1>3. PICK m \in client.owed : m = client.sent[i]
  <2>1. i \in (Len(dispatched) + 1) .. Len(client.sent)
    BY <1>2
  <2> QED
    BY <2>1 DEF TagsInv, OwedAreSent
<1>4. m.size \in Nat /\ asm.limit \in Nat \ {0} /\ client.size \in Nat /\ Asks(m, client.size)
  BY <1>1, LimitTypes DEF LimitInv
<1>5. CASE m.op # "call"
  BY <1>3, <1>4, <1>5 DEF Asks
<1>6. CASE m.op = "call"
  <2>1. ~Negotiating
    BY <1>6 DEF Negotiating, TagsInv, OneTagEach
  <2>2. client.size <= asm.limit
    BY <2>1 DEF LimitInv, WithinTheLimit
  <2>3. m.size <= client.size
    BY <1>4, <1>6 DEF Asks
  <2> QED
    BY <1>3, <1>4, <2>2, <2>3
<1> QED
  BY <1>5, <1>6

(* A Tversion is dispatched while the client waits for nothing else.       *)
LEMMA PumpLimited ==
  ASSUME TypesInv, TagsInv, UNCHANGED <<kind, client>>, OnTheWay' = OnTheWay,
         Made(dispatched, 0, client.sent), NEW recs, NEW flight, NEW cong, NEW stop, Pump(recs, flight, cong, stop),
         ~stop, Made(recs, Len(dispatched), client.sent), ~asm'.failed, asm'.limit # 0,
         \A m \in client.owed : Asks(m, client.size),
         Negotiating \/ WithinTheLimit(client.size, asm'.limit, msize),
         TellsTheSize(OnTheWay, Len(out'), asm'.limit, msize)
  PROVE  LimitInv'
<1>1. PICK n \in Nat : /\ Dispatching(recs, n)
                       /\ n = Cardinality((1 .. Room(flight, cong, stop)) \cap DOMAIN recs)
  BY PumpDispatches
<1>2. msize' = IF \E i \in 1 .. n : Asked(recs[i]).op = "version" THEN 0 ELSE msize
  BY <1>1 DEF Pump
<1>3. CASE msize' = msize
  <2>1. Negotiating' <=> Negotiating
    BY DEF Negotiating
  <2> QED
    BY <1>3, <2>1 DEF LimitInv, Asks
<1>4. ASSUME NEW i \in 1 .. n, Asked(recs[i]).op = "version", msize' = 0
      PROVE  LimitInv'
  <2>1. i \in 1 .. Len(recs) /\ Len(dispatched) \in Nat
    BY <1>1 DEF Dispatching
  <2>2. PICK v \in client.owed : v.op = "version" /\ v.id = Len(dispatched) + i
    <3>1. Entry(recs, i).m \in client.owed /\ Entry(recs, i).m.id = Len(dispatched) + i
      BY <2>1, EntryIs
    <3>2. Entry(recs, i).m = Asked(recs[i])
      BY DEF Entry
    <3> QED
      BY <1>4, <3>1, <3>2
  <2>3. Negotiating'
    BY <2>2 DEF Negotiating
  <2>4. ASSUME NEW p \in 1 .. Len(OnTheWay)
        PROVE  OnTheWay[p].m.op # "version"
    <3>1. OnTheWay[p].m \in client.owed /\ OnTheWay[p].m.id <= Len(dispatched)
      BY DEF TagsInv, HeldOnce
    <3>2. OnTheWay[p].m # v
      <4>1. ~(Len(dispatched) + i <= Len(dispatched))
        BY <2>1
      <4> QED
        BY <2>2, <3>1, <4>1
    <3> QED
      BY <2>2, <3>1, <3>2 DEF TagsInv, OneTagEach
  <2>5. TellsTheSize(OnTheWay', Len(out'), asm'.limit, msize')
    BY <2>4 DEF TellsTheSize
  <2> QED
    BY <2>3, <2>5 DEF LimitInv, Asks
<1> QED
  BY <1>2, <1>3, <1>4

LEMMA SendsLimited ==
  ASSUME TypesInv, WindowInv, TagsInv, LimitInv,
         NEW op \in {"call", "flush", "version"}, NEW tag \in Nat, NEW old \in Nat,
         NEW size \in Nat \ {0}, NEW cut \in Nat, Sends(op, tag, old, size, cut),
         Asks(Request(Len(client.sent) + 1, op, tag, old, size, cut), client.size)
  PROVE  LimitInv'
<1>1. PICK m : m = Request(Len(client.sent) + 1, op, tag, old, size, cut)
  OBVIOUS
<1>2. /\ client' = [client EXCEPT !.sent = Append(@, m), !.owed = @ \cup {m}]
      /\ UNCHANGED <<kind, asm, msize, writing, parked, out, stopped>>
  BY <1>1 DEF Sends
<1>3. client'.owed = client.owed \cup {m} /\ client'.size = client.size
  BY <1>2 DEF TypesInv
<1>4. OnTheWay' = OnTheWay /\ (Negotiating => Negotiating')
  BY <1>2, <1>3 DEF OnTheWay, Negotiating
<1>5. \A o \in client.owed \cup {m} : Asks(o, client.size) \/ stopped
  BY <1>1 DEF LimitInv
<1> QED
  BY <1>2, <1>3, <1>4, <1>5 DEF LimitInv, Asks

LEMMA ReceiveLimited ==
  ASSUME TypesInv, WindowInv, TagsInv, TagsInv', LimitInv, Receive
  PROVE  LimitInv'
<1>1. /\ OnTheWay # <<>> /\ OnTheWay[1] = Head(out) /\ Dropped(OnTheWay', OnTheWay, 0)
      /\ Len(out') = Len(out) - 1 /\ 1 <= Len(out)
  BY ReceiveMoves
<1>2. Len(out) \in Nat /\ Len(OnTheWay) \in Nat
  BY OnTheWayIs
<1>3. PICK m : m = Head(out).m
  OBVIOUS
<1>4. /\ client'.owed \subseteq client.owed
      /\ client'.size = IF m.op = "version" THEN Head(out).msize ELSE client.size
      /\ m \notin client'.owed
      /\ UNCHANGED <<kind, asm, msize, stopped>>
  <2>1. PICK over : /\ m \in over
                    /\ client' = [client EXCEPT !.owed = @ \ over,
                                                !.size = IF m.op = "version" THEN Head(out).msize ELSE @]
    BY <1>3 DEF Receive
  <2> QED
    BY <2>1 DEF Receive, TypesInv
<1>5. m \in client.owed
  <2>1. 1 \in 1 .. Len(OnTheWay)
    BY <1>1, <1>2 DEF Dropped
  <2> QED
    BY <1>1, <1>3, <2>1 DEF TagsInv, HeldOnce
<1> SUFFICES ASSUME ~stopped
             PROVE  /\ \A o \in client'.owed : Asks(o, client'.size)
                    /\ Negotiating' \/ WithinTheLimit(client'.size, asm.limit, msize)
                    /\ TellsTheSize(OnTheWay', Len(out'), asm.limit, msize)
  BY <1>4 DEF LimitInv, Asks
<1>6. TellsTheSize(OnTheWay', Len(out'), asm.limit, msize)
  <2> SUFFICES ASSUME NEW p \in 1 .. Len(OnTheWay'), OnTheWay'[p].m.op = "version"
               PROVE  msize # 0 /\ OnTheWay'[p].msize = msize /\ (p <= Len(out') => asm.limit = msize)
    BY DEF TellsTheSize
  <2>1. Len(OnTheWay') = Len(OnTheWay) - 1 /\ OnTheWay'[p] = IF p <= 0 THEN OnTheWay[p] ELSE OnTheWay[p + 1]
    BY <1>1 DEF Dropped
  <2>2. p + 1 \in 1 .. Len(OnTheWay) /\ ~(p <= 0) /\ (p <= Len(out') => p + 1 <= Len(out))
    BY <1>1, <1>2, <2>1
  <2> QED
    BY <2>1, <2>2 DEF LimitInv, TellsTheSize
<1>7. CASE m.op = "version"
  <2>1. client'.owed = {}
    BY <1>4, <1>5, <1>7 DEF TagsInv, OneTagEach
  <2>2. 1 \in 1 .. Len(OnTheWay)
    BY <1>1, <1>2, EmptySeq DEF Dropped
  <2>3. msize # 0 /\ Head(out).msize = msize /\ asm.limit = msize
    BY <1>1, <1>2, <1>3, <1>7, <2>2 DEF LimitInv, TellsTheSize
  <2>4. client'.size = msize /\ msize \in Nat
    BY <1>4, <1>7, <2>3, LimitTypes
  <2> QED
    BY <1>6, <2>1, <2>3, <2>4 DEF WithinTheLimit
<1>8. CASE m.op # "version"
  <2>1. ~Negotiating
    BY <1>5, <1>8 DEF Negotiating, TagsInv, OneTagEach
  <2>2. client'.size = client.size
    BY <1>4, <1>8
  <2> QED
    BY <1>4, <1>6, <2>1, <2>2 DEF LimitInv
<1> QED
  BY <1>6, <1>7, <1>8

LEMMA SettleLimited ==
  ASSUME TypesInv, WindowInv, TagsInv, LimitInv, NEW x \in running, Settle(x)
  PROVE  LimitInv'
<1>1. UNCHANGED <<kind, client, asm, out, stopped>>
  BY DEF Settle
<1>2. PICK agreed : /\ agreed = (IF x.m.old < ceiling THEN x.m.old ELSE ceiling)
                    /\ msize' = IF x.m.op = "version" /\ ~stopped THEN agreed ELSE msize
                    /\ writing' = Append(writing, [m |-> x.m, msize |-> agreed])
  BY DEF Settle
<1>3. x.m \in client.owed /\ x.m \in Requests /\ x.m.old \in Nat /\ ceiling \in Nat \ {0}
  <2>1. x.m \in client.owed
    BY DEF TagsInv, HeldOnce
  <2> QED
    BY <2>1, LimitTypes
<1>4. agreed \in Nat
  BY <1>2, <1>3
<1>5. PICK a \in Replies : a = [m |-> x.m, msize |-> agreed]
  BY <1>3, <1>4 DEF Replies
<1>6. a.m = x.m /\ a.msize = agreed
  BY <1>5
<1>7. PICK q \in Seq(Replies), r \in Seq(Replies) : /\ q = OnTheWay /\ r = Append(q, a) /\ AppendIs(r, q, a)
                                                    /\ r = OnTheWay'
  <2>1. OnTheWay \in Seq(Replies) /\ OnTheWay' = Append(OnTheWay, a)
    BY <1>2, <1>5, OnTheWayIs, SettleMoves
  <2> QED
    BY <2>1, Appends
<1>8. PICK l \in Nat, k \in Nat : /\ l = Len(q) /\ k = Len(out) /\ k <= l /\ Len(r) = l + 1 /\ r[l + 1] = a
                                  /\ \A p \in 1 .. l : r[p] = q[p]
  <2>1. Len(q) \in Nat /\ Len(out) \in Nat /\ Len(out) <= Len(q)
    BY <1>7, OnTheWayIs
  <2> QED
    BY <1>7, <2>1 DEF AppendIs
<1>9. \A p \in 1 .. l + 1 : p \in 1 .. l \/ p = l + 1
  OBVIOUS
<1> SUFFICES ASSUME ~stopped
             PROVE  /\ Negotiating \/ WithinTheLimit(client.size, asm.limit, msize')
                    /\ TellsTheSize(r, k, asm.limit, msize')
  BY <1>1, <1>7, <1>8 DEF LimitInv, Asks, Negotiating
<1>10. CASE x.m.op = "version"
  <2>1. Negotiating
    BY <1>3, <1>10 DEF Negotiating
  <2>2. x.m.old # 0
    BY <1>3, <1>10 DEF LimitInv, Asks
  <2>3. agreed # 0 /\ msize' = agreed
    BY <1>2, <1>3, <1>10, <2>2
  <2>4. ASSUME NEW p \in 1 .. l
        PROVE  r[p].m.op # "version"
    <3>1. q[p].m \in client.owed /\ q[p].m # x.m
      BY <1>7, <1>8 DEF TagsInv, HeldOnce
    <3> QED
      BY <1>3, <1>8, <1>10, <3>1 DEF TagsInv, OneTagEach
  <2>5. ~(l + 1 <= k)
    BY <1>8
  <2>6. TellsTheSize(r, k, asm.limit, msize')
    BY <1>6, <1>8, <1>9, <2>3, <2>4, <2>5 DEF TellsTheSize
  <2> QED
    BY <2>1, <2>6
<1>11. CASE x.m.op # "version"
  <2>1. msize' = msize /\ TellsTheSize(q, k, asm.limit, msize)
    BY <1>2, <1>7, <1>8, <1>11 DEF LimitInv
  <2>2. TellsTheSize(r, k, asm.limit, msize)
    BY <1>6, <1>8, <1>9, <1>11, <2>1 DEF TellsTheSize
  <2> QED
    BY <2>1, <2>2 DEF LimitInv
<1> QED
  BY <1>10, <1>11

(* The limit of the assembler follows the size in force before the reply   *)
(* that tells it is written.                                               *)
LEMMA SendTuned ==
  ASSUME TypesInv, WindowInv, WindowInv', TagsInv, LimitInv, ~stopped, NEW limit, limit = Tuned(asm.limit)
  PROVE  /\ limit # 0
         /\ Negotiating \/ WithinTheLimit(client.size, limit, msize)
         /\ \A k : TellsTheSize(OnTheWay, k, limit, msize)
<1>1. limit = (IF kind = "9p" /\ msize # 0 THEN msize ELSE asm.limit)
  BY DEF Tuned
<1>2. asm.limit \in Nat /\ client.size \in Nat /\ msize \in Nat
  BY LimitTypes
<1>3. limit # 0 /\ (Negotiating \/ WithinTheLimit(client.size, limit, msize))
  BY <1>1, <1>2 DEF LimitInv, WithinTheLimit
<1>4. ASSUME NEW k
      PROVE  TellsTheSize(OnTheWay, k, limit, msize)
  <2> SUFFICES ASSUME NEW p \in 1 .. Len(OnTheWay), OnTheWay[p].m.op = "version"
               PROVE  msize # 0 /\ OnTheWay[p].msize = msize /\ limit = msize
    BY DEF TellsTheSize
  <2>1. msize # 0 /\ OnTheWay[p].msize = msize
    BY DEF LimitInv, TellsTheSize
  <2>2. OnTheWay[p].m \in client.owed
    BY DEF TagsInv, HeldOnce
  <2>3. kind = "9p"
    BY <2>2 DEF LimitInv, Asks
  <2> QED
    BY <1>1, <2>1, <2>3
<1> QED
  BY <1>3, <1>4

LEMMA SendLimited ==
  ASSUME FramingInv, WindowInv, WindowInv', TagsInv, LimitInv, Send
  PROVE  LimitInv'
<1>1. TypesInv /\ Made(dispatched, 0, client.sent) /\ Made(records, Len(dispatched), client.sent)
  BY DEF FramingInv
<1>2. PICK limit : limit = Tuned(asm.limit) /\ asm' = [asm EXCEPT !.limit = limit]
  BY DEF Send
<1>3. asm'.limit = limit /\ ~asm'.failed
  BY <1>1, <1>2 DEF TypesInv, Assemblers, LimitInv
<1>4. UNCHANGED <<kind, client, stopped>>
      /\ (msize' = msize \/ Pump(records, inflight - 1, congested, stopped))
  BY DEF Send
<1>5. CASE stopped
  BY <1>3, <1>4, <1>5 DEF LimitInv
<1>6. CASE ~stopped
  <2>1. OnTheWay' = OnTheWay
    BY <1>1, <1>6, SendMoves
  <2>2. /\ limit # 0
        /\ Negotiating \/ WithinTheLimit(client.size, limit, msize)
        /\ \A k : TellsTheSize(OnTheWay, k, limit, msize)
    BY <1>1, <1>2, <1>6, SendTuned
  <2>3. \A m \in client.owed : Asks(m, client.size)
    BY <1>6 DEF LimitInv
  <2>4. CASE msize' = msize
    <3>1. Negotiating' <=> Negotiating
      BY <1>4 DEF Negotiating
    <3> QED
      BY <1>3, <1>4, <2>1, <2>2, <2>3, <2>4, <3>1 DEF LimitInv, Asks
  <2>5. CASE Pump(records, inflight - 1, congested, stopped)
    BY <1>1, <1>3, <1>4, <1>6, <2>1, <2>2, <2>3, <2>5, PumpLimited
  <2> QED
    BY <1>4, <2>4, <2>5
<1> QED
  BY <1>5, <1>6

LEMMA LimitInvStep ==
  FramingInv /\ WindowInv /\ WindowInv' /\ TagsInv /\ TagsInv' /\ LimitInv /\ [Next]_vars => LimitInv'
<1> SUFFICES ASSUME FramingInv, WindowInv, WindowInv', TagsInv, TagsInv', LimitInv, [Next]_vars PROVE LimitInv'
  OBVIOUS
<1>0. /\ TypesInv /\ Made(dispatched, 0, client.sent) /\ Made(records, Len(dispatched), client.sent)
      /\ kind \in {"nfs", "9p"} /\ asm.limit \in Nat /\ client.size \in Nat
  BY ConnectionAssumption, LimitTypes DEF FramingInv, TypesInv
<1>1. CASE UNCHANGED vars
  BY <1>1 DEF vars, LimitInv, OnTheWay, Asks, Negotiating
<1>2. CASE Call
  <2>1. PICK tag \in Tags, size \in Sizes :
          /\ size <= client.size
          /\ \E cut \in IF kind = "nfs" THEN 0..(size - 1) ELSE {0} : Sends("call", tag, NOTAG, size, cut)
    BY <1>2 DEF Call
  <2>2. tag \in Nat /\ size \in Nat \ {0} /\ NOTAG \in Nat
    BY ConnectionAssumption DEF NOTAG
  <2>3. PICK cut \in Nat : Sends("call", tag, NOTAG, size, cut)
    BY <1>0, <2>1, <2>2
  <2>4. Asks(Request(Len(client.sent) + 1, "call", tag, NOTAG, size, cut), client.size)
    BY <2>1 DEF Asks, Request
  <2> QED
    BY <1>0, <2>2, <2>3, <2>4, SendsLimited
<1>3. CASE Flush
  <2>1. PICK tag \in Tags, c \in client.owed : kind = "9p" /\ Sends("flush", tag, c.tag, 1, 0)
    BY <1>3 DEF Flush
  <2>2. tag \in Nat /\ c \in Requests /\ 1 \in Nat \ {0} /\ 0 \in Nat
    BY <1>0, ConnectionAssumption DEF TypesInv
  <2>3. c.tag \in Nat
    BY <2>2 DEF Requests
  <2>4. Asks(Request(Len(client.sent) + 1, "flush", tag, c.tag, 1, 0), client.size)
    BY <2>1 DEF Asks, Request
  <2> QED
    BY <1>0, <2>1, <2>2, <2>3, <2>4, SendsLimited
<1>4. CASE Version
  <2>1. PICK size \in Sizes : kind = "9p" /\ Sends("version", NOTAG, size, 1, 0)
    BY <1>4 DEF Version
  <2>2. size \in Nat \ {0} /\ NOTAG \in Nat /\ 1 \in Nat \ {0} /\ 0 \in Nat
    BY ConnectionAssumption DEF NOTAG
  <2>3. Asks(Request(Len(client.sent) + 1, "version", NOTAG, size, 1, 0), client.size)
    BY <2>1, <2>2 DEF Asks, Request
  <2> QED
    BY <1>0, <2>1, <2>2, <2>3, SendsLimited
<1>5. CASE Receive
  BY <1>0, <1>5, ReceiveLimited
<1>6. ASSUME NEW x \in running, Settle(x)
      PROVE  LimitInv'
  BY <1>0, <1>6, SettleLimited
<1>7. CASE Read
  <2>1. ~stopped /\ UNCHANGED <<kind, client, writing, parked, out>>
    BY <1>7 DEF Read
  <2>2. OnTheWay' = OnTheWay
    BY <2>1 DEF OnTheWay
  <2>3. asm'.limit = asm.limit /\ asm'.failed = stopped'
    BY <1>7, ReadFramed DEF ReadsOn
  <2>4. ~asm'.failed
    BY <1>7, <2>1, ReadFramed, UnreadWithinTheLimit DEF ReadsOn
  <2>5. PICK recs : Pump(recs, inflight, congested, stopped') /\ Made(recs, Len(dispatched), client.sent)
    BY <1>7, ReadFramed DEF ReadsOn
  <2>6. /\ asm'.limit # 0 /\ \A m \in client.owed : Asks(m, client.size)
        /\ Negotiating \/ WithinTheLimit(client.size, asm'.limit, msize)
        /\ TellsTheSize(OnTheWay, Len(out'), asm'.limit, msize)
    BY <2>1, <2>3 DEF LimitInv
  <2>7. ~stopped'
    BY <2>3, <2>4
  <2> QED
    BY <1>0, <2>1, <2>2, <2>4, <2>5, <2>6, <2>7, PumpLimited
<1>8. CASE Send
  BY <1>8, SendLimited
<1>9. CASE Drain
  <2>1. ~stopped /\ Pump(records, inflight - 1, FALSE, stopped) /\ UNCHANGED <<kind, client, asm, out>>
    BY <1>9 DEF Drain
  <2>2. OnTheWay' = OnTheWay
    BY <1>0, <1>9, DrainMoves
  <2>3. PICK cong : Pump(records, inflight - 1, cong, stopped)
    BY <2>1
  <2>4. /\ ~asm'.failed /\ asm'.limit # 0 /\ \A m \in client.owed : Asks(m, client.size)
        /\ Negotiating \/ WithinTheLimit(client.size, asm'.limit, msize)
        /\ TellsTheSize(OnTheWay, Len(out'), asm'.limit, msize)
    BY <2>1 DEF LimitInv
  <2> QED
    BY <1>0, <2>1, <2>2, <2>3, <2>4, PumpLimited
<1>10. CASE Stop
  BY <1>10 DEF Stop, LimitInv
<1> QED
  BY <1>1, <1>2, <1>3, <1>4, <1>5, <1>6, <1>7, <1>8, <1>9, <1>10 DEF Next, Serve

(* A client that keeps to the size agreed is never cut off for the size of *)
(* a frame, however often it is agreed anew: #tune of P9ConnectionImpl and *)
(* its order before the write of Rversion, with Tversion's own reset of    *)
(* the session and the limits of both assemblers.                          *)
THEOREM NoFrameIsTooLarge == Spec => []FramesWithinTheLimit
<1>1. Init => FramingInv /\ WindowInv /\ TagsInv /\ LimitInv
  BY FramingInvInit, WindowInvInit, TagsInvInit, LimitInvInit
<1>2. FramingInv /\ WindowInv /\ TagsInv /\ LimitInv /\ [Next]_vars =>
        FramingInv' /\ WindowInv' /\ TagsInv' /\ LimitInv'
  BY FramingInvStep, WindowInvStep, TagsInvStep, LimitInvStep
<1>3. LimitInv => FramesWithinTheLimit
  BY DEF LimitInv, FramesWithinTheLimit
<1> QED
  BY <1>1, <1>2, <1>3, PTL DEF Spec

=============================================================================
