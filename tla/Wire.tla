-------------------------------- MODULE Wire --------------------------------
(***************************************************************************)
(* The vocabulary the wire formats of the protocols are described in.  A   *)
(* description is a sequence of items; Written(items) is every message a   *)
(* writer that follows it can produce, and ReadBy(items, bytes) is what a  *)
(* reader that follows it makes of some bytes.  A writer and the reader of *)
(* the same structure are two functions of the code, so they are two       *)
(* descriptions here, and nothing makes them agree but the code.           *)
(*                                                                         *)
(* The data is symbolic.  A byte is <<path, number, width, place>>: the    *)
(* place-th byte of the field "path" written "width" bytes wide, or of the *)
(* number "number" when the path is empty.  A number can be read only at   *)
(* the width and the place it was written at, so a reader that starts one  *)
(* byte off, or takes four bytes for eight, gets nothing it can use.       *)
(***************************************************************************)
EXTENDS Integers, Sequences, FiniteSets, TLC

CONSTANTS Lengths,   \* the lengths a name or a block of data takes
          Counts     \* the lengths a list takes

ASSUME WireAssumption == Lengths \subseteq Nat /\ Counts \subseteq 0..3

Zero == <<<<>>, 0, 0, 0>>
Zeros(n) == [i \in 1..n |-> Zero]
FieldBytes(path, w) == [i \in 1..w |-> <<path, 0, w, i>>]
Content(path, n) == [i \in 1..n |-> <<path, 1, 0, i>>]
Num(v, w) == IF v = 0 THEN Zeros(w) ELSE [i \in 1..w |-> <<<<>>, v, w, i>>]

\* The bytes that bring n up to a multiple of k: xdrPad, direntAlign.
Padding(n, k) == (k - (n % k)) % k
Digits == <<"1", "2", "3">>
NoLimit == 2147483647
XDR_MAX_ITEM == 16 * 1024 * 1024
XDR_MAX_LIST == 1024 * 1024

-----------------------------------------------------------------------------
(* The items.                                                              *)

\* A reader may refuse a length or a count above some number: AtMost.  A writer
\* does not look at it, but is also asked for a list that is just short enough.
Item(k, f, n, in) == [k |-> k, f |-> f, n |-> n, in |-> in, max |-> NoLimit]
AtMost(max, item) == [item EXCEPT !.max = max]
U8(f) == Item("int", f, 1, <<>>)
U16(f) == Item("int", f, 2, <<>>)
U32(f) == Item("int", f, 4, <<>>)
U64(f) == Item("int", f, 8, <<>>)
U32s(fs) == [i \in 1..Len(fs) |-> U32(fs[i])]
U64s(fs) == [i \in 1..Len(fs) |-> U64(fs[i])]
Fixed(f, n) == Item("int", f, n + Padding(n, 4), <<>>)   \* fixedOpaque
Bool(f) == Item("flag", f, 4, <<>>)                       \* 0 or 1, nothing else
Skip(n) == Item("skip", "", n, <<>>)
Const(v, w) == Item("const", "", w, v)                    \* a number both ends know
Known(f, v, w) == Item("known", f, w, v)                  \* a field with one value here
LenOf(f, w) == Item("len", f, w, <<>>)                    \* the length of the data f
Raw(f) == Item("raw", f, 0, <<>>)                         \* data whose length was given
Name(f) == Item("name", f, 0, <<>>)                       \* NUL terminated
Rest(f) == Item("rest", f, 0, <<>>)                       \* everything that is left
String(f) == Item("counted", f, 2, 1)                     \* 9P: u16 count, bytes
Blob(f) == Item("counted", f, 4, 1)                       \* 9P: u32 count, bytes
Opaque(f) == AtMost(XDR_MAX_ITEM, Item("counted", f, 4, 4))  \* XDR: u32 count, bytes, pad
NoData(f) == Item("nodata", f, 4, <<>>)                   \* XDR: an opaque of no bytes
End == Item("end", "", 0, <<>>)
Sub(f, items) == Item("sub", f, 0, items)
Padded(k, items) == Item("padded", "", k, items)
CountOf(f, w) == Item("count", f, w, <<>>)                \* how many elements f has
Times(f, items) == Item("times", f, 0, items)
Until(f, items) == Item("until", f, 0, items)             \* to the end of the bytes
IfLeft(n, items) == Item("ifleft", "", n, items)          \* if n bytes are left
Option(f, items) == Item("option", f, 4, items)           \* XDR: a flag, then the value
List(f, items) == AtMost(XDR_MAX_LIST, Item("list", f, 4, items))    \* XDR: a flag before each
Array(f, items) == AtMost(XDR_MAX_LIST, Item("array", f, 4, items))  \* XDR: a count, the elements
\* XDR: a discriminant, then the arm it selects; any other one is refused.
Union(f, arms) == Item("union", f, 4, arms)
Arms(S, items) == [d \in S |-> items]
\* The same with an arm for every other discriminant; a writer's is Other.
Switch(f, arms, others) == Item("switch", f, 4, [named |-> arms, others |-> others])
Arm(switch, d) == IF d \in DOMAIN switch.named THEN switch.named[d] ELSE switch.others
Other == 99
\* A result: 0 and one arm, or any error and another.
Status(ok, failed) == Switch("status", Arms({0}, ok), failed)
Boxed(f, items) == Item("boxed", f, 4, items)             \* XDR: a message within an opaque
When(b, items) == IF b THEN items ELSE <<>>

-----------------------------------------------------------------------------
(* Writing.  A partial message is its bytes, the fields put into them and  *)
(* the lengths chosen so far.                                              *)

Blank == [bytes |-> <<>>, put |-> {}, env |-> <<>>]
Bind(env, f, n) == (f :> n) @@ env
Chosen(p, f, S) == IF f \in DOMAIN p.env THEN {p.env[f]} ELSE S
Add(p, bytes) == [p EXCEPT !.bytes = @ \o bytes]
Put(p, path, bytes) == [p EXCEPT !.bytes = @ \o bytes, !.put = @ \cup {<<path, bytes>>}]
\* A count or a discriminant is a field of the value as much as what it counts.
PutNum(p, path, v, w) == Put(p, path, Num(v, w))

RECURSIVE WriteAll(_, _, _), WriteOne(_, _, _), WriteTimes(_, _, _, _, _)
WriteAll(items, path, p) ==
  IF items = <<>> THEN {p}
  ELSE UNION {WriteAll(Tail(items), path, q) : q \in WriteOne(Head(items), path, p)}

\* Nested values have names of their own.
Nested(items, path, p) ==
  {[q EXCEPT !.env = p.env] : q \in WriteAll(items, path, [p EXCEPT !.env = <<>>])}

\* Elements i to n of the list at path; "flag" says each is announced by a one.
WriteTimes(i, n, item, path, p) ==
  IF i > n THEN {p}
  ELSE LET q == IF item.k = "list" THEN Add(p, Num(1, 4)) ELSE p
       IN  UNION {WriteTimes(i + 1, n, item, path, r) :
                    r \in Nested(item.in, Append(path, Digits[i]), q)}

WriteOne(i, path, p) ==
  LET at == Append(path, i.f)
      data(n) == Content(at, n)
      bound(q, n) == [q EXCEPT !.env = Bind(@, i.f, n)]
  IN CASE i.k = "int"    -> {Put(p, at, FieldBytes(at, i.n))}
       [] i.k = "flag"   -> {PutNum(p, at, v, 4) : v \in {0, 1}}
       [] i.k = "skip"   -> {Add(p, Zeros(i.n))}
       [] i.k = "const"  -> {Add(p, Num(i.in, i.n))}
       [] i.k = "known"  -> {PutNum(p, at, i.in, i.n)}
       [] i.k = "len"    -> {bound(Add(p, Num(n, i.n)), n) : n \in Chosen(p, i.f, Lengths)}
       [] i.k = "raw"    -> {bound(Put(p, at, data(n)), n) : n \in Chosen(p, i.f, Lengths)}
       [] i.k = "name"   -> {bound(Add(Put(p, at, data(n)), <<Zero>>), n) : n \in Lengths}
       [] i.k = "rest"   -> {bound(Put(p, at, data(n)), n) : n \in Lengths}
       [] i.k = "counted" ->
            {bound(Add(Put(Add(p, Num(n, i.n)), at, data(n)), Zeros(Padding(n, i.in))), n) :
               n \in Chosen(p, i.f, Lengths)}
       [] i.k = "nodata" -> {Add(Put(p, at, <<>>), Zeros(4))}
       [] i.k = "end"    -> {p}
       [] i.k = "sub"    -> Nested(i.in, at, p)
       [] i.k = "boxed"  ->
            {[q EXCEPT !.bytes = p.bytes \o Num(Len(q.bytes), 4) \o q.bytes] :
               q \in Nested(i.in, at, [p EXCEPT !.bytes = <<>>])}
       [] i.k = "padded" ->
            {Add(q, Zeros(Padding(Len(q.bytes) - Len(p.bytes), i.n))) : q \in WriteAll(i.in, path, p)}
       [] i.k = "count"  -> {bound(PutNum(p, at, n, i.n), n) : n \in Counts}
       [] i.k = "times"  -> WriteTimes(1, p.env[i.f], i, at, p)
       [] i.k = "until"  -> UNION {WriteTimes(1, n, i, at, bound(p, n)) : n \in Counts}
       [] i.k = "list"   ->
            UNION {{Add(q, Num(0, 4)) : q \in WriteTimes(1, n, i, at, bound(p, n))} : n \in Counts}
       [] i.k = "array"  ->
            UNION {WriteTimes(1, n, i, at, bound(PutNum(p, at, n, 4), n)) : n \in Counts \cup (0..3 \cap {i.max})}
       [] i.k = "option" ->
            {bound(PutNum(p, at, 0, 4), 0)}
              \cup {bound(q, 1) : q \in Nested(i.in, at, PutNum(p, at, 1, 4))}
       [] i.k = "union"  ->
            UNION {{bound(q, d) : q \in Nested(i.in[d], at, PutNum(p, at, d, 4))} : d \in DOMAIN i.in}
       [] i.k = "switch" ->
            UNION {{bound(q, d) : q \in Nested(Arm(i.in, d), at, PutNum(p, at, d, 4))} :
                     d \in DOMAIN i.in.named \cup {Other}}

\* Every message a writer of these items can produce.
Written(items) == WriteAll(items, <<>>, Blank)

-----------------------------------------------------------------------------
(* Reading.  A cursor is where the reader is, what it has read, the        *)
(* lengths it has been told, whether it has refused the message and whether *)
(* that was because of a length or a count over a limit.                    *)

Start == [ok |-> TRUE, over |-> FALSE, at |-> 0, got |-> {}, env |-> <<>>]
Refused(c) == [c EXCEPT !.ok = FALSE]
OverLimit(c) == [c EXCEPT !.ok = FALSE, !.over = TRUE]
Left(bytes, c) == Len(bytes) - c.at
Taken(bytes, c, n) == SubSeq(bytes, c.at + 1, c.at + n)
Step(c, n) == [c EXCEPT !.at = @ + n]
Got(c, path, value) == [c EXCEPT !.got = @ \cup {<<path, value>>}]

\* The number w bytes spell, or -1 when they are not a number of that width.
Spelled(b) ==
  IF b = Zeros(Len(b)) THEN 0
  ELSE IF b = Num(b[1][2], Len(b)) THEN b[1][2] ELSE -1

\* Where the NUL that ends a name is, or -1.
Terminator(bytes, c) ==
  LET ends == {i \in (c.at + 1)..Len(bytes) : bytes[i] = Zero}
  IN  IF ends = {} THEN -1 ELSE CHOOSE i \in ends : \A j \in ends : i <= j

RECURSIVE ReadAll(_, _, _, _), ReadOne(_, _, _, _), ReadTimes(_, _, _, _, _, _), ReadList(_, _, _, _, _)
ReadAll(items, path, bytes, c) ==
  IF items = <<>> \/ ~c.ok THEN c
  ELSE ReadAll(Tail(items), path, bytes, ReadOne(Head(items), path, bytes, c))

ReadNested(items, path, bytes, c) ==
  [ReadAll(items, path, bytes, [c EXCEPT !.env = <<>>]) EXCEPT !.env = c.env]

ReadTimes(i, n, items, path, bytes, c) ==
  IF i > n \/ ~c.ok THEN c
  ELSE ReadTimes(i + 1, n, items, path, bytes,
                 ReadNested(items, Append(path, Digits[i]), bytes, c))

\* Elements while there is another: a flag says so, or the bytes that are left.
ReadList(i, item, path, bytes, c) ==
  IF ~c.ok THEN c
  ELSE IF item.k = "until"
    THEN IF Left(bytes, c) = 0 THEN c
         ELSE IF i > 3 THEN Refused(c)
         ELSE ReadList(i + 1, item, path, bytes,
                       ReadNested(item.in, Append(path, Digits[i]), bytes, c))
  ELSE LET more == IF Left(bytes, c) < 4 THEN -1 ELSE Spelled(Taken(bytes, c, 4))
       IN  CASE more = 0 -> Step(c, 4)
             [] more = 1 /\ i > item.max -> OverLimit(c)
             [] more = 1 /\ i <= 3 ->
                  ReadList(i + 1, item, path, bytes,
                           ReadNested(item.in, Append(path, Digits[i]), bytes, Step(c, 4)))
             [] OTHER -> Refused(c)

\* What follows a number of width w: nothing when it is not there to be read.
ReadOne(i, path, bytes, c) ==
  LET at == Append(path, i.f)
      left == Left(bytes, c)
      short(n) == left < n
      number == IF short(i.n) THEN -1 ELSE Spelled(Taken(bytes, c, i.n))
      after == Step(c, i.n)
      bound(d, n) == [d EXCEPT !.env = Bind(@, i.f, n)]
      data(d, n) == IF n < 0 \/ Left(bytes, d) < n THEN Refused(d)
                    ELSE bound(Got(Step(d, n), at, Taken(bytes, d, n)), n)
      counted == Got(bound(after, number), at, Num(number, i.n))
  IN CASE i.k = "int"    -> IF short(i.n) THEN Refused(c)
                            ELSE Got(after, at, Taken(bytes, c, i.n))
       [] i.k = "flag"   -> IF number \notin {0, 1} THEN Refused(c) ELSE counted
       [] i.k = "skip"   -> IF short(i.n) THEN Refused(c) ELSE after
       [] i.k = "const"  -> IF number # i.in THEN Refused(c) ELSE after
       [] i.k = "known"  -> IF number # i.in THEN Refused(c) ELSE counted
       [] i.k = "len"    -> IF number = -1 THEN Refused(c) ELSE bound(after, number)
       [] i.k = "raw"    -> data(c, c.env[i.f])
       [] i.k = "name"   -> LET e == Terminator(bytes, c)
                            IN  IF e = -1 THEN Refused(c) ELSE Step(data(c, e - 1 - c.at), 1)
       [] i.k = "rest"   -> data(c, left)
       [] i.k = "counted" ->
            LET read == data(after, number)
                pad == Padding(number, i.in)
            IN  IF number > i.max THEN OverLimit(c)
                ELSE IF \/ number = -1 \/ ~read.ok \/ Left(bytes, read) < pad
                        \/ i.f \in DOMAIN c.env /\ c.env[i.f] # number
                THEN Refused(c) ELSE Step(read, pad)
       [] i.k = "end"    -> IF left # 0 THEN Refused(c) ELSE c
       [] i.k = "sub"    -> ReadNested(i.in, at, bytes, c)
       [] i.k = "boxed"  ->
            LET in == ReadNested(i.in, at, Taken(bytes, after, number), [after EXCEPT !.at = 0])
            IN  IF number > i.max THEN OverLimit(c)
                ELSE IF number = -1 \/ Left(bytes, after) < number THEN Refused(c)
                ELSE [in EXCEPT !.at = c.at + i.n + number]
       [] i.k = "padded" ->
            LET read == ReadAll(i.in, path, bytes, c)
                pad == Padding(read.at - c.at, i.n)
            IN  IF ~read.ok \/ Left(bytes, read) < pad THEN Refused(c) ELSE Step(read, pad)
       [] i.k = "count"  -> IF number \notin 0..3 THEN Refused(c) ELSE counted
       [] i.k = "times"  -> ReadTimes(1, c.env[i.f], i.in, at, bytes, c)
       [] i.k \in {"until", "list"} -> ReadList(1, i, at, bytes, c)
       [] i.k = "array"  -> IF number > i.max THEN OverLimit(c)
                            ELSE IF number \notin 0..3 \/ 4 * number > Left(bytes, after) THEN Refused(c)
                            ELSE ReadTimes(1, number, i.in, at, bytes, counted)
       [] i.k = "ifleft" -> IF short(i.n) THEN c ELSE ReadAll(i.in, path, bytes, c)
       [] i.k = "option" -> CASE number = 0 -> counted
                              [] number = 1 -> ReadNested(i.in, at, bytes, counted)
                              [] OTHER -> Refused(c)
       [] i.k = "union"  -> IF number \notin DOMAIN i.in THEN Refused(c)
                            ELSE ReadNested(i.in[number], at, bytes, counted)
       [] i.k = "switch" -> IF number = -1 THEN Refused(c)
                            ELSE ReadNested(Arm(i.in, number), at, bytes, counted)

\* What a reader of these items makes of the bytes.
ReadBy(items, bytes) == ReadAll(items, <<>>, bytes, Start)
=============================================================================
