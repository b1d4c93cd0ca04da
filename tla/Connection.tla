----------------------------- MODULE Connection -----------------------------
(***************************************************************************)
(* One connection of the NFS server (src/nfs/server.ts, NfsConnection) or  *)
(* of the 9P server (src/9p/server.ts, P9ConnectionImpl), with the client  *)
(* at the other end of the stream and, of the session behind it, what      *)
(* handleCall does with tags.                                              *)
(*                                                                         *)
(* Requests are read in pieces, cut into messages and dispatched while     *)
(* there is room in the window; they run concurrently, and their replies   *)
(* are written one at a time in the order they were produced.  A stream    *)
(* that is full stops the writing, the dispatching and the reading, and    *)
(* has to start all three again when it drains.                            *)
(*                                                                         *)
(* The client is a correct one: it uses a tag again only when it is free   *)
(* to, sends no frame above the size agreed, and negotiates while nothing  *)
(* is outstanding.                                                         *)
(***************************************************************************)
EXTENDS Framing, Integers, FiniteSets

CONSTANTS Kinds,          \* the servers: "nfs", "9p"
          Tags,           \* the tags of 9P, or as many xids at a time: numbers
          Sizes,          \* how much data a request carries
          Ceilings,       \* the msize the 9P session offers at most
          Window,         \* maxInFlight
          HighWater,      \* the replies the stream takes before it is full
          MaxRecord,      \* maxRecord: the limit of the NFS server
          MaxFrame,       \* maxFrame: that of the 9P server until an msize is agreed
          MaxFragments,   \* how many fragments a record may arrive in: 64 or more in the code
          MaxSent,        \* bound: requests the client of each server sends
          Pieces          \* how many units the stream delivers at once

ASSUME ConnectionAssumption ==
  /\ Tags \subseteq Nat /\ Kinds \subseteq {"nfs", "9p"} /\ Sizes \subseteq Nat \ {0} /\ Ceilings \subseteq Nat \ {0}
  /\ Window \in Nat \ {0} /\ HighWater \in Nat \ {0} /\ {MaxRecord, MaxFrame} \subseteq Nat \ {0}
  /\ MaxFragments \in Nat \ {0, 1} /\ MaxSent \in [Kinds -> Nat] /\ Pieces \subseteq Nat \ {0}

VARIABLES kind, ceiling,  \* which server it is, and the session's msize option
          client,         \* [sent, owed, size]: its requests, the unanswered ones, the size agreed
          wire,           \* units sent and not read yet
          asm,            \* #assembler
          records,        \* #records, #frames: cut out and not dispatched
          dispatched,     \* history: everything handed to handleCall
          running,        \* in the session: [m, waits, refused]
          msize,          \* the session's #msize
          inflight,       \* #inflight
          writing,        \* #writing: replies produced and not handed to the stream
          parked,         \* the reply at the head is written and waits for "drain"
          out,            \* written to the stream and not received
          congested, paused, stopped

vars == <<kind, ceiling, client, wire, asm, records, dispatched, running, msize, inflight, writing,
          parked, out, congested, paused, stopped>>

NOTAG == 65535
Request(id, op, tag, old, size, cut) ==
  [id |-> id, op |-> op, tag |-> tag, old |-> old, size |-> size, cut |-> cut]

Init ==
  /\ kind \in Kinds
  /\ ceiling \in Ceilings
  /\ client = [sent |-> <<>>, owed |-> {}, size |-> IF kind = "nfs" THEN MaxRecord ELSE 0]
  /\ wire = <<>> /\ asm = Assembler(IF kind = "nfs" THEN MaxRecord ELSE MaxFrame) /\ records = <<>> /\ dispatched = <<>>
  /\ running = {} /\ msize = 0 /\ inflight = 0
  /\ writing = <<>> /\ parked = FALSE /\ out = <<>>
  /\ congested = FALSE /\ paused = FALSE /\ stopped = FALSE

-----------------------------------------------------------------------------
(* The client.                                                             *)

Negotiating == \E m \in client.owed : m.op = "version"
\* A tag is in use until its reply has come and, if it was flushed, the Rflush.
InUse(tag) == \E m \in client.owed : m.tag = tag \/ (m.op = "flush" /\ m.old = tag)

\* It takes the lowest tag that is free, as the kernel's allocator does.
Free(tag) == ~InUse(tag) /\ \A lower \in Tags : lower < tag => InUse(lower)

Sends(op, tag, old, size, cut) ==
  LET m == Request(Len(client.sent) + 1, op, tag, old, size, cut)
  IN  /\ Len(client.sent) < MaxSent[kind]
      /\ client' = [client EXCEPT !.sent = Append(@, m), !.owed = @ \cup {m}]
      /\ wire' = wire \o Framed(m.id, size, cut)
      /\ UNCHANGED <<kind, ceiling, asm, records, dispatched, running, msize, inflight, writing, parked,
                     out, congested, paused, stopped>>

Call ==
  \E tag \in Tags, size \in Sizes :
    /\ Free(tag) /\ ~Negotiating /\ size <= client.size
    /\ \E cut \in IF kind = "nfs" THEN 0..(size - 1) ELSE {0} : Sends("call", tag, NOTAG, size, cut)
Flush ==
  \E tag \in Tags : \E m \in client.owed :
    /\ kind = "9p" /\ m.op = "call" /\ Free(tag)
    /\ Sends("flush", tag, m.tag, 1, 0)
\* Tversion asks for "size" units; it is always a small frame itself.
Version ==
  \E size \in Sizes :
    /\ kind = "9p" /\ client.owed = {}
    /\ Sends("version", NOTAG, size, 1, 0)

\* A reply arrives.  Rflush ends the request it flushed with it, answered or
\* not; Rversion says what both will keep to.
Receive ==
  /\ out # <<>>
  /\ LET m == Head(out).m
         over == {m} \cup {o \in client.owed : m.op = "flush" /\ o.tag = m.old}
     IN  client' = [client EXCEPT !.owed = @ \ over,
                                  !.size = IF m.op = "version" THEN Head(out).msize ELSE @]
  /\ out' = Tail(out)
  /\ UNCHANGED <<kind, ceiling, wire, asm, records, dispatched, running, msize, inflight, writing, parked,
                 congested, paused, stopped>>

-----------------------------------------------------------------------------
(* The session: handleCall and #flush.                                     *)

\* The tags in flight: a flush is never registered, nor what is refused.
Registered == {x \in running : kind = "9p" /\ x.m.op # "flush" /\ ~x.refused}
Asked(record) == client.sent[Head(record).id]
\* The requests of the tag in flight when the i-th of these records is reached.
Holders(recs, i, tag) ==
  {x.m.id : x \in {y \in Registered : y.m.tag = tag}}
    \cup {Asked(recs[j]).id : j \in {k \in 1..(i - 1) : kind = "9p" /\ Asked(recs[k]).op # "flush"
                                                         /\ Asked(recs[k]).tag = tag}}

\* What handleCall does with a record before it first awaits: a flush looks up
\* the tag it names; any other request is refused if its tag is in flight.
EntryNeverWaits(recs, i) ==   \* mutant: a flush is answered at once
  LET m == Asked(recs[i])
  IN  [m |-> m, waits |-> {}, refused |-> m.op # "flush" /\ Holders(recs, i, m.tag) # {}]
Entry(recs, i) ==
  LET m == Asked(recs[i])
  IN  [m |-> m,
       waits |-> IF m.op = "flush" THEN Holders(recs, i, m.old) ELSE {},
       refused |-> m.op # "flush" /\ Holders(recs, i, m.tag) # {}]

\* #pump: dispatch in order while there is room, then read only while there is
\* room.  A Tversion starts by resetting the session.
RoomOneMore(flight, cong, stop) ==   \* mutant: one more than the window
  IF cong \/ stop \/ flight > Window THEN 0 ELSE Window + 1 - flight
Room(flight, cong, stop) == IF cong \/ stop \/ flight >= Window THEN 0 ELSE Window - flight
Paused(flight, cong, left) == cong \/ flight >= Window \/ left # <<>>
Pump(recs, flight, cong, stop) ==
  LET room == Room(flight, cong, stop)
      n == Cardinality((1..room) \cap DOMAIN recs)
      left == SubSeq(recs, n + 1, Len(recs))
  IN  /\ records' = left
      /\ dispatched' = dispatched \o SubSeq(recs, 1, n)
      /\ running' = running \cup {Entry(recs, i) : i \in 1..n}
      /\ msize' = IF stop \/ \E i \in 1..n : Asked(recs[i]).op = "version" THEN 0 ELSE msize
      /\ inflight' = flight + n
      /\ congested' = cong
      /\ paused' = IF stop THEN paused ELSE Paused(flight + n, cong, left)

\* A request is done, and its reply joins the chain.  A flush is done when what
\* it names is.
Settle(x) ==
  /\ x \in running
  /\ x.waits \cap {y.m.id : y \in running} = {}
  /\ LET agreed == IF x.m.old < ceiling THEN x.m.old ELSE ceiling
     IN  /\ msize' = IF x.m.op = "version" /\ ~stopped THEN agreed ELSE msize
         /\ writing' = Append(writing, [m |-> x.m, msize |-> agreed])
  /\ running' = running \ {x}
  /\ UNCHANGED <<kind, ceiling, client, wire, asm, records, dispatched, inflight, parked, out, congested,
                 paused, stopped>>

-----------------------------------------------------------------------------
(* The connection.                                                         *)

\* A framing error ends the connection.
Read ==
  /\ ~paused /\ ~stopped /\ wire # <<>>
  /\ \E most \in Pieces :
       LET n == IF most < Len(wire) THEN most ELSE Len(wire)
           piece == SubSeq(wire, 1, n)
           a == IF kind = "nfs" THEN PushRecord(asm, piece, MaxFragments) ELSE PushFrame(asm, piece)
       IN  /\ wire' = SubSeq(wire, n + 1, Len(wire))
           /\ asm' = [a EXCEPT !.out = <<>>]
           /\ stopped' = a.failed
           /\ Pump(IF a.failed THEN <<>> ELSE records \o a.out, inflight, congested, a.failed)
  /\ UNCHANGED <<kind, ceiling, client, writing, parked, out>>

\* #tune: the frame limit follows the msize in force, up or down.
TunedDown(limit) == IF msize # 0 /\ msize < limit THEN msize ELSE limit   \* mutant: never raised
Tuned(limit) == IF kind = "9p" /\ msize # 0 THEN msize ELSE limit

\* #send of the reply at the head of the chain.  A full stream parks it.
Send ==
  /\ writing # <<>> /\ ~parked
  /\ asm' = [asm EXCEPT !.limit = Tuned(@)]
  /\ out' = IF stopped THEN out ELSE Append(out, Head(writing))
  /\ IF Len(out') >= HighWater /\ ~stopped
     THEN /\ congested' = TRUE /\ paused' = TRUE /\ parked' = TRUE
          /\ UNCHANGED <<records, dispatched, running, msize, inflight, writing>>
     ELSE /\ writing' = Tail(writing) /\ parked' = FALSE
          /\ Pump(records, inflight - 1, congested, stopped)
  /\ UNCHANGED <<kind, ceiling, client, wire, stopped>>

\* #drain: the stream has emptied.  The reply that waited is done.
DrainReleasesNone ==   \* mutant: what waits for the drain is not woken
  /\ congested /\ out = <<>> /\ ~stopped
  /\ Pump(records, inflight, FALSE, stopped)
  /\ UNCHANGED <<kind, ceiling, client, wire, asm, out, stopped, parked, writing>>
Drain ==
  /\ congested /\ out = <<>> /\ ~stopped
  /\ parked' = FALSE
  /\ writing' = Tail(writing)
  /\ Pump(records, inflight - 1, FALSE, stopped)
  /\ UNCHANGED <<kind, ceiling, client, wire, asm, out, stopped>>

\* The stream ends, or the server closes it: what waits is dropped, what is
\* parked is released, and the session is destroyed.
Stop ==
  /\ ~stopped
  /\ stopped' = TRUE /\ records' = <<>> /\ msize' = 0
  /\ IF parked THEN parked' = FALSE /\ writing' = Tail(writing) /\ inflight' = inflight - 1
               ELSE UNCHANGED <<parked, writing, inflight>>
  /\ UNCHANGED <<kind, ceiling, client, wire, asm, dispatched, running, out, congested, paused>>

Serve == Call \/ Flush \/ Version \/ Receive \/ Read \/ Send \/ Drain \/ Stop
Next == Serve \/ \E x \in running : Settle(x)

\* The event loop gets to what is ready, the driver answers what it is asked,
\* and the client reads its replies.
Fairness ==
  /\ WF_vars(Read) /\ WF_vars(Send) /\ WF_vars(Drain) /\ WF_vars(Receive)
  /\ WF_vars(\E x \in running : Settle(x))
Spec == Init /\ [][Next]_vars /\ Fairness

-----------------------------------------------------------------------------

\* Whatever pieces the stream is delivered in, the session is handed the
\* client's requests: each whole, once, in the order they were sent.
RecordsAreTheRequests ==
  /\ Len(dispatched) <= Len(client.sent)
  /\ \A i \in DOMAIN dispatched : dispatched[i] = Data(i, 1, client.sent[i].size)

\* The window bounds the memory of the connection: the requests in the session
\* and the replies waiting for the stream are together never more than it, and
\* the stream holds no more than its high-water mark.
WindowHolds == Cardinality(running) + Len(writing) <= Window /\ Len(out) <= HighWater

\* A tag the client may use again names nothing the server still holds, unread,
\* running or on its way back: the reply to a flushed request comes before its
\* Rflush, and no request of a correct client is refused for its tag.
TagsAreSettled ==
  /\ \A x \in running : InUse(x.m.tag) \/ x.m.tag = NOTAG
  /\ \A i \in DOMAIN writing :
       (i = 1 /\ parked) \/ writing[i].m.op = "version" \/ InUse(writing[i].m.tag)
  /\ \A i \in DOMAIN out : out[i].m.op = "version" \/ InUse(out[i].m.tag)
  /\ \A x \in running : ~x.refused

\* A client that keeps to the size agreed is never cut off for the size of a
\* frame, however often the size is agreed anew, up or down.
FramesWithinTheLimit == ~asm.failed

\* Every request is answered, unless the connection ends: no pause, no full
\* window and no full stream keeps the client waiting for ever.
EveryRequestIsAnswered == client.owed # {} ~> (stopped \/ client.owed = {})
=============================================================================
