------------------------------- MODULE Framing -------------------------------
(***************************************************************************)
(* How a stream is cut into messages: RecordAssembler (src/nfs/rpc.ts) and *)
(* P9FrameAssembler (src/9p/protocol.ts).  The stream delivers its bytes   *)
(* in pieces of its own choosing; an assembler keeps what is not yet a     *)
(* message and hands out what has become one.                              *)
(*                                                                         *)
(* A unit stands for some bytes: a header is two units, so that a piece    *)
(* may end inside one, and every unit of data is one.  Either half of a    *)
(* header carries what the whole says: how much data follows it and, for a *)
(* fragment of an RPC record, whether it is the last.                      *)
(***************************************************************************)
EXTENDS Naturals, Sequences

Header(id, len, last) == [i \in 1..2 |-> [id |-> id, at |-> 0, len |-> len, last |-> last]]
Data(id, from, to) ==
  [i \in 1..(to - from + 1) |-> [id |-> id, at |-> from + i - 1, len |-> 0, last |-> FALSE]]

\* What a sender of "size" units of data puts on the stream: one frame, or a
\* record in two fragments when "cut" falls inside it.
Framed(id, size, cut) ==
  IF cut \in 1..(size - 1)
    THEN Header(id, cut, FALSE) \o Data(id, 1, cut)
         \o Header(id, size - cut, TRUE) \o Data(id, cut + 1, size)
    ELSE Header(id, size, TRUE) \o Data(id, 1, size)

\* bytes: received and not cut up yet.  parts, count: the data of the fragments
\* of an unfinished record and how many they were.  out: the messages made.
Assembler(limit) ==
  [bytes |-> <<>>, parts |-> <<>>, count |-> 0, limit |-> limit, failed |-> FALSE, out |-> <<>>]

After(a, n) == SubSeq(a.bytes, n + 1, Len(a.bytes))

\* mutant: a fragment is handed out as soon as it is there
RecordStepEachFragment(a, maxFragments) ==
  IF a.failed \/ Len(a.bytes) < 2 \/ Len(a.bytes) < 2 + a.bytes[1].len THEN a
  ELSE [a EXCEPT !.bytes = After(a, 2 + a.bytes[1].len),
                 !.out = Append(@, SubSeq(a.bytes, 3, 2 + a.bytes[1].len))]

\* One turn of RecordAssembler.push's loop: a fragment that is there is added to
\* its record, and the last one makes the record whole.  What a record would
\* grow to is refused before it is waited for.
RecordStep(a, maxFragments) ==
  IF a.failed \/ Len(a.bytes) < 2 THEN a
  ELSE LET fragment == Head(a.bytes)
           parts == a.parts \o SubSeq(a.bytes, 3, 2 + fragment.len)
       IN  IF Len(a.parts) + fragment.len > a.limit \/ a.count >= maxFragments
             THEN [a EXCEPT !.failed = TRUE]
           ELSE IF Len(a.bytes) < 2 + fragment.len
             THEN a
           ELSE IF fragment.last
             THEN [a EXCEPT !.bytes = After(a, 2 + fragment.len), !.parts = <<>>, !.count = 0,
                            !.out = Append(@, parts)]
             ELSE [a EXCEPT !.bytes = After(a, 2 + fragment.len), !.parts = parts, !.count = @ + 1]

\* One turn of P9FrameAssembler.#parse's loop.
FrameStep(a) ==
  IF a.failed \/ Len(a.bytes) < 2 THEN a
  ELSE LET frame == Head(a.bytes)
       IN  IF frame.len > a.limit
             THEN [a EXCEPT !.failed = TRUE]
           ELSE IF Len(a.bytes) < 2 + frame.len
             THEN a
             ELSE [a EXCEPT !.bytes = After(a, 2 + frame.len),
                            !.out = Append(@, SubSeq(a.bytes, 3, 2 + frame.len))]

\* push: the piece joins what is there, and the loop turns until nothing more
\* comes of it - at most once for every two units.
Push(a, piece, Turn(_)) ==
  LET joined == [a EXCEPT !.bytes = @ \o piece, !.out = <<>>]
      after[i \in 0..(Len(joined.bytes) \div 2)] == IF i = 0 THEN joined ELSE Turn(after[i - 1])
  IN  after[Len(joined.bytes) \div 2]
PushRecord(a, piece, maxFragments) == Push(a, piece, LAMBDA b : RecordStep(b, maxFragments))
PushFrame(a, piece) == Push(a, piece, FrameStep)
=============================================================================
