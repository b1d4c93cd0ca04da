----------------------------- MODULE Nfs4Slots ------------------------------
(***************************************************************************)
(* One NFSv4.1 session's slot table and reply cache: sequence and          *)
(* cacheReply of src/nfs/v4/state.ts, and the COMPOUND path of             *)
(* src/nfs/v4/session.ts that runs between the two.                        *)
(*                                                                         *)
(* A call is one transmission of a COMPOUND.  The client numbers the       *)
(* requests of a slot 1, 2, ... and puts the number modulo SeqMod on the   *)
(* wire; it has one request outstanding per slot, may send that request    *)
(* again while it waits, and moves on at the first answer.  The network    *)
(* loses calls and replies and delivers in any order.  A request carries   *)
(* what its outcome depends on: sa_cachethis, how large its reply is, and  *)
(* whether it destroys the session it rides.  Only slots of the table are  *)
(* addressed; leases are Nfs4State's.                                      *)
(***************************************************************************)
EXTENDS Naturals

CONSTANTS
  Slots,      \* the session's fore-channel slots
  Calls,      \* bound: transmissions somewhere between client and server
  Asks,       \* the requests a client makes
  SeqMod,     \* 2^32 in the code
  MaxReq      \* bound: requests of one slot

Ask == [cachethis : BOOLEAN, size : {"small", "big", "huge"}, destroys : BOOLEAN]

ASSUME SlotsAssumption == Slots # {}
ASSUME SeqModAssumption == SeqMod \in Nat /\ SeqMod >= 3
ASSUME AsksAssumption == Asks \subseteq Ask
ASSUME MaxReqAssumption == MaxReq \in Nat

VARIABLES
  request,    \* per slot: the client's last request and whether it waits for it
  call,       \* the transmissions
  slot,       \* the slot table
  alive,      \* #sessions still has the session
  runs        \* how often the operations of a request have run

vars == <<request, call, slot, alive, runs>>

Requests == 1 .. MaxReq
Seqids == 0 .. SeqMod - 1
NoAsk == [cachethis |-> FALSE, size |-> "small", destroys |-> FALSE]

\* A COMPOUND4res: the request that was run, and whether the results are all
\* there or cut short by REP_TOO_BIG_TO_CACHE.  NoBytes is `undefined`.
Forms == {"full", "trimmed"}
Body == [of : Requests, form : Forms]
NoBytes == [of |-> 0, form |-> "full"]

Outcomes == {"none", "new", "replay", "uncached", "misordered", "badsession"}
Places == {"idle", "wire", "sequenced", "ran", "replied"}
Idle == [at |-> "idle", slot |-> CHOOSE s \in Slots : TRUE, n |-> 0, ask |-> NoAsk,
         outcome |-> "none", body |-> NoBytes, own |-> FALSE]

InServer(c) == call[c].at \in {"sequenced", "ran"}
SentOn(c, s) == call[c].at \in {"wire", "sequenced", "ran"} /\ call[c].slot = s

-----------------------------------------------------------------------------
(* sequence                                                                *)

\* mutants: zero is skipped, as for a stateid's seqid; the wrap is forgotten
NextSlotSeqidSkip0(q) == (q % (SeqMod - 1)) + 1

NextSlotSeqid(q) == (q + 1) % SeqMod

SeqidOf(n) == n % SeqMod

\* mutant: whatever is not the slot's own sequence ID is taken for new
SequenceOutcomeLax(sl, q) ==
  IF ~alive THEN "badsession"
  ELSE IF q # sl.sequenceid THEN "new"
  ELSE IF sl.fresh THEN "misordered"
  ELSE IF sl.bytes = NoBytes THEN "uncached"
  ELSE "replay"

SequenceOutcome(sl, q) ==
  CASE ~alive -> "badsession"
    [] alive /\ q = sl.sequenceid /\ sl.fresh -> "misordered"
    [] alive /\ q = sl.sequenceid /\ ~sl.fresh ->
         IF sl.bytes = NoBytes THEN "uncached" ELSE "replay"
    [] alive /\ q # sl.sequenceid ->
         IF q = NextSlotSeqid(sl.sequenceid) THEN "new" ELSE "misordered"

\* mutants: counted up instead of assigned; the old reply is kept
AdvanceCounting(sl, q) ==
  [sl EXCEPT !.sequenceid = @ + 1, !.fresh = FALSE, !.bytes = NoBytes]
AdvanceKeeping(sl, q) == [sl EXCEPT !.sequenceid = q, !.fresh = FALSE]

Advance(sl, q) == [sequenceid |-> q, fresh |-> FALSE, bytes |-> NoBytes]

\* #compound up to its first await: the outcome, and for a new request the
\* slot advanced.  A replay takes its bytes along.
Sequence(c) ==
  LET s == call[c].slot
      q == SeqidOf(call[c].n)
      outcome == SequenceOutcome(slot[s], q)
  IN /\ call[c].at = "wire"
     /\ call' = [call EXCEPT ![c].at = "sequenced", ![c].outcome = outcome,
                             ![c].body = IF outcome = "replay"
                                         THEN slot[s].bytes ELSE NoBytes]
     /\ slot' = IF outcome = "new" THEN [slot EXCEPT ![s] = Advance(@, q)] ELSE slot
     /\ UNCHANGED <<request, alive, runs>>

-----------------------------------------------------------------------------
(* #execute and #cachedReply                                               *)

\* Whatever is not new is answered without running anything.
Refuse(c) ==
  /\ call[c].at = "sequenced"
  /\ call[c].outcome # "new"
  /\ call' = [call EXCEPT ![c].at = "replied"]
  /\ UNCHANGED <<request, slot, alive, runs>>

\* The operations run.  DESTROY_SESSION succeeds while the session is there,
\* and then the compound is not cacheable.
Execute(c) ==
  /\ call[c].at = "sequenced"
  /\ call[c].outcome = "new"
  /\ runs' = [runs EXCEPT ![call[c].slot][call[c].n] = @ + 1]
  /\ alive' = (alive /\ ~call[c].ask.destroys)
  /\ call' = [call EXCEPT ![c].at = "ran",
                          ![c].own = alive /\ call[c].ask.destroys]
  /\ UNCHANGED <<request, slot>>

Cached(c) == call[c].ask.cachethis /\ ~call[c].own

\* A huge reply is one that trimForCache finds no short form for.
Trimmed(c) == Cached(c) /\ call[c].ask.size = "big"

\* mutant: a reply over the cap is not replaced before it is stored
StoredFullOnly(c) == Cached(c) /\ call[c].ask.size = "small"

Stored(c) == Cached(c) /\ call[c].ask.size # "huge"

ReplyBody(c) == [of |-> call[c].n, form |-> IF Trimmed(c) THEN "trimmed" ELSE "full"]

\* mutants: the ticket is not compared with the slot; the untrimmed reply is stored
CacheReplyAnyTicket(sl, c) ==
  [sl EXCEPT !.bytes = IF Stored(c) THEN ReplyBody(c) ELSE NoBytes]
CacheReplyUntrimmed(sl, c) ==
  IF sl.sequenceid # SeqidOf(call[c].n) THEN sl
  ELSE [sl EXCEPT !.bytes = IF Stored(c) THEN [of |-> call[c].n, form |-> "full"]
                                         ELSE NoBytes]

\* cacheReply with the call's ticket: a slot that has moved on is left alone.
CacheReply(sl, c) ==
  IF sl.sequenceid # SeqidOf(call[c].n) THEN sl
  ELSE [sl EXCEPT !.bytes = IF Stored(c) THEN ReplyBody(c) ELSE NoBytes]

CachedReply(c) ==
  /\ call[c].at = "ran"
  /\ slot' = [slot EXCEPT ![call[c].slot] = CacheReply(@, c)]
  /\ call' = [call EXCEPT ![c].at = "replied", ![c].body = ReplyBody(c)]
  /\ UNCHANGED <<request, alive, runs>>

\* DESTROY_SESSION from elsewhere: alone in a COMPOUND, or on another session.
DestroySession ==
  /\ alive
  /\ alive' = FALSE
  /\ UNCHANGED <<request, call, slot, runs>>

-----------------------------------------------------------------------------
(* The client and the network                                              *)

Transmit(c, s, n, ask) ==
  call' = [call EXCEPT ![c] = [Idle EXCEPT !.at = "wire", !.slot = s, !.n = n, !.ask = ask]]

\* Assumption on the network: no transmission is so old that its sequence ID
\* has come round again.
NoneTooOld(s, n) == \A c \in Calls : SentOn(c, s) => n - call[c].n < SeqMod - 1

Send(c, s, ask) ==
  LET n == request[s].n + 1 IN
  /\ call[c].at = "idle"
  /\ ~request[s].waiting
  /\ n <= MaxReq
  /\ NoneTooOld(s, n)
  /\ request' = [request EXCEPT ![s] = [n |-> n, ask |-> ask, waiting |-> TRUE]]
  /\ Transmit(c, s, n, ask)
  /\ UNCHANGED <<slot, alive, runs>>

Retry(c, s) ==
  /\ call[c].at = "idle"
  /\ request[s].waiting
  /\ Transmit(c, s, request[s].n, request[s].ask)
  /\ UNCHANGED <<request, slot, alive, runs>>

Lose(c) ==
  /\ call[c].at \in {"wire", "replied"}
  /\ call' = [call EXCEPT ![c] = Idle]
  /\ UNCHANGED <<request, slot, alive, runs>>

Receive(c) ==
  LET s == call[c].slot IN
  /\ call[c].at = "replied"
  /\ call' = [call EXCEPT ![c] = Idle]
  /\ request' = [request EXCEPT ![s].waiting = @ /\ call[c].n # request[s].n]
  /\ UNCHANGED <<slot, alive, runs>>

-----------------------------------------------------------------------------
Init ==
  /\ request = [s \in Slots |-> [n |-> 0, ask |-> NoAsk, waiting |-> FALSE]]
  /\ call = [c \in Calls |-> Idle]
  /\ slot = [s \in Slots |-> [sequenceid |-> 0, fresh |-> TRUE, bytes |-> NoBytes]]
  /\ alive = TRUE
  /\ runs = [s \in Slots |-> [n \in Requests |-> 0]]

Next ==
  \/ DestroySession
  \/ \E c \in Calls :
       \/ Sequence(c)
       \/ Refuse(c)
       \/ Execute(c)
       \/ CachedReply(c)
       \/ Lose(c)
       \/ Receive(c)
       \/ \E s \in Slots : Retry(c, s)
       \/ \E s \in Slots, ask \in Asks : Send(c, s, ask)

Spec == Init /\ [][Next]_vars

-----------------------------------------------------------------------------
(* Properties                                                              *)

\* The shape of the state; a slot's sequence ID stays below SeqMod.
TypeOK ==
  /\ request \in [Slots -> [n : 0 .. MaxReq, ask : Asks \cup {NoAsk}, waiting : BOOLEAN]]
  /\ call \in [Calls -> [at : Places, slot : Slots, n : 0 .. MaxReq,
                         ask : Asks \cup {NoAsk}, outcome : Outcomes,
                         body : Body \cup {NoBytes}, own : BOOLEAN]]
  /\ slot \in [Slots -> [sequenceid : Seqids, fresh : BOOLEAN,
                         bytes : Body \cup {NoBytes}]]
  /\ alive \in BOOLEAN
  /\ runs \in [Slots -> [Requests -> Nat]]

\* Exactly-once semantics, across the wrap: however often a request is sent,
\* lost or delayed, and whatever overtakes it, its operations run at most once
\* (session.ts: a retried sequence "re-runs nothing"); and a client that keeps
\* to its slot's sequence is never told that it did not, as no answer to the
\* request it waits for is SEQ_MISORDERED.
ExactlyOnce ==
  /\ \A s \in Slots, n \in Requests : runs[s][n] <= 1
  /\ \A c \in Calls : call[c].outcome = "misordered" =>
       LET r == request[call[c].slot] IN r.n # call[c].n \/ ~r.waiting

\* Every answer with results is the answer to the request it is sent for, and
\* all answers to one request are the same bytes, replayed or not.  A reply
\* finished late is never kept as the answer to a later request of the slot.
RepliesAgree ==
  \A c \in Calls : call[c].at = "replied" /\ call[c].body # NoBytes =>
    /\ call[c].body.of = call[c].n
    /\ \A d \in Calls :
         /\ call[d].at = "replied"
         /\ call[d].body # NoBytes
         /\ call[d].slot = call[c].slot
         /\ call[d].n = call[c].n
         => call[d].body = call[c].body

=============================================================================
