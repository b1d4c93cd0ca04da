--------------------------- MODULE Nfs4SlotsProofs ---------------------------
(***************************************************************************)
(* Exactly-once semantics of Nfs4Slots, for every number of slots, of      *)
(* transmissions and of requests, and wherever the sequence ID wraps.      *)
(***************************************************************************)
EXTENDS Nfs4Slots, Integers, TLAPS

-----------------------------------------------------------------------------
(* The inductive invariant.  The slot keeps the last request it admitted   *)
(* modulo SeqMod; k[s] is that request itself.                             *)

Answered(c) == call[c].body # NoBytes
Running(c) == call[c].at \in {"sequenced", "ran"} /\ call[c].outcome = "new"
SameRequest(c, d) == call[c].slot = call[d].slot /\ call[c].n = call[d].n

\* What the transmissions say of themselves.  None of those still before the
\* reply is SeqMod - 1 requests behind its client.
CallsInOrder ==
  \A c \in Calls :
    LET r == request[call[c].slot] IN
    /\ call[c].at # "idle" => call[c].n >= 1 /\ call[c].n <= r.n
    /\ call[c].at \in {"wire", "sequenced", "ran"} => r.n - call[c].n < SeqMod - 1
    /\ call[c].at \in {"idle", "wire"} => call[c].outcome = "none" /\ ~Answered(c)
    /\ call[c].at = "ran" => call[c].outcome = "new"
    /\ call[c].outcome = "new" /\ call[c].at # "replied" => ~Answered(c)
    /\ call[c].outcome = "misordered" => r.n # call[c].n \/ ~r.waiting

\* The client is at the request its slot admitted last or at the next one, and
\* then it waits for it, as long as there is a session.
SlotsInOrder(k) ==
  \A s \in Slots :
    /\ slot[s].sequenceid = SeqidOf(k[s])
    /\ slot[s].fresh <=> k[s] = 0
    /\ k[s] <= request[s].n
    /\ request[s].waiting => request[s].n >= 1
    /\ alive => \/ request[s].n = k[s]
                \/ request[s].n = k[s] + 1 /\ request[s].waiting

\* What a transmission was told is still so: a slot never goes back, and a
\* session that is gone stays gone.
OutcomesInOrder(k) ==
  \A c \in Calls :
    /\ call[c].outcome \in {"new", "replay", "uncached"} \/ Answered(c) =>
         call[c].n <= k[call[c].slot]
    /\ call[c].outcome = "badsession" => ~alive
    /\ call[c].at \in {"sequenced", "ran", "replied"} => call[c].outcome # "none"

\* A request is admitted once, and runs after that, once.
RunsInOrder(k) ==
  /\ \A s \in Slots, n \in Requests : runs[s][n] <= 1 /\ (runs[s][n] = 1 => n <= k[s])
  /\ \A c \in Calls : Running(c) =>
       /\ call[c].at = "sequenced" => runs[call[c].slot][call[c].n] = 0
       /\ \A d \in Calls : Running(d) /\ SameRequest(c, d) => c = d

\* While a request runs nobody has its reply; afterwards all have the same.
BodiesInOrder(k) ==
  /\ \A s \in Slots : slot[s].bytes # NoBytes => slot[s].bytes.of = k[s]
  /\ \A c \in Calls : Running(c) =>
       /\ \A d \in Calls : SameRequest(c, d) => ~Answered(d)
       /\ call[c].n = k[call[c].slot] => slot[call[c].slot].bytes = NoBytes
  /\ \A c \in Calls : Answered(c) =>
       /\ call[c].body.of = call[c].n
       /\ \A d \in Calls : Answered(d) /\ SameRequest(c, d) => call[d].body = call[c].body
       /\ call[c].n = k[call[c].slot] /\ slot[call[c].slot].bytes # NoBytes =>
            slot[call[c].slot].bytes = call[c].body

InOrder(k) ==
  CallsInOrder /\ SlotsInOrder(k) /\ OutcomesInOrder(k) /\ RunsInOrder(k) /\ BodiesInOrder(k)

SlotsInv == TypeOK /\ \E k \in [Slots -> 0 .. MaxReq] : InOrder(k)

-----------------------------------------------------------------------------
(* Sequence IDs: the request number modulo SeqMod.                          *)

LEMMA AtLeastOnce == ASSUME NEW m \in Nat, NEW k \in Int, k >= 1 PROVE m * k >= m
<1>1. m * k = m * (k - 1) + m
  OBVIOUS
<1>2. m * (k - 1) >= 0
  OBVIOUS
<1> QED
  BY <1>1, <1>2

(* A multiple of m smaller than m, on either side of zero, is zero.          *)
LEMMA SmallMultiple ==
  ASSUME NEW m \in Nat, NEW k \in Int, m * k < m, -m < m * k
  PROVE  k = 0
<1>1. CASE k >= 1
  BY <1>1, AtLeastOnce
<1>2. CASE k <= -1
  <2>1. m * (-k) >= m
    BY <1>2, AtLeastOnce
  <2>2. m * k = -(m * (-k))
    OBVIOUS
  <2> QED
    BY <2>1, <2>2
<1> QED
  BY <1>1, <1>2

LEMMA DivMod ==
  ASSUME NEW m \in Nat, m >= 1, NEW a \in Nat
  PROVE  a = m * (a \div m) + (a % m) /\ a \div m \in Int /\ a % m \in 0 .. m - 1
OBVIOUS

LEMMA SeqidType == \A n \in Nat : SeqidOf(n) \in Seqids
BY SeqModAssumption, DivMod DEF SeqidOf, Seqids

LEMMA SeqidFirst == SeqidOf(0) = 0
BY SeqModAssumption DEF SeqidOf

(* Two requests fewer than SeqMod apart do not share a sequence ID.          *)
LEMMA SeqidIdentifies ==
  ASSUME NEW a \in Nat, NEW b \in Nat, a - b < SeqMod, b - a < SeqMod, SeqidOf(a) = SeqidOf(b)
  PROVE  a = b
<1> DEFINE qa == a \div SeqMod
           qb == b \div SeqMod
<1>1. SeqMod \in Nat /\ SeqMod >= 1
  BY SeqModAssumption
<1>2. a = SeqMod * qa + (a % SeqMod) /\ b = SeqMod * qb + (b % SeqMod) /\ a % SeqMod = b % SeqMod
  BY <1>1, DivMod DEF SeqidOf
<1>3. qa \in Int /\ qb \in Int /\ a % SeqMod \in Int
  BY <1>1, DivMod
<1> HIDE DEF qa, qb
<1>4. a - b = SeqMod * (qa - qb)
  BY <1>1, <1>2, <1>3
<1>5. qa - qb \in Int /\ SeqMod * (qa - qb) < SeqMod /\ -SeqMod < SeqMod * (qa - qb)
  BY <1>1, <1>3, <1>4
<1>6. qa - qb = 0
  BY <1>1, <1>5, SmallMultiple
<1> QED
  BY <1>1, <1>4, <1>6

LEMMA SeqidOfNext == \A a \in Nat : NextSlotSeqid(SeqidOf(a)) = SeqidOf(a + 1)
<1> TAKE a \in Nat
<1> DEFINE r == a % SeqMod
           x == (r + 1) % SeqMod
           y == (a + 1) % SeqMod
           qa == a \div SeqMod
           qx == (r + 1) \div SeqMod
           qy == (a + 1) \div SeqMod
<1>1. SeqMod \in Nat /\ SeqMod >= 1
  BY SeqModAssumption
<1>2. a = SeqMod * qa + r /\ qa \in Int /\ r \in 0 .. SeqMod - 1
  BY <1>1, DivMod
<1>3. r + 1 = SeqMod * qx + x /\ qx \in Int /\ x \in 0 .. SeqMod - 1
  BY <1>1, <1>2, DivMod
<1>4. a + 1 = SeqMod * qy + y /\ qy \in Int /\ y \in 0 .. SeqMod - 1
  BY <1>1, DivMod
<1> HIDE DEF r, x, y, qa, qx, qy
<1>5. y - x = SeqMod * (qa + qx - qy)
  <2>1. SeqMod * (qa + qx - qy) = SeqMod * qa + SeqMod * qx - SeqMod * qy
    BY <1>1, <1>2, <1>3, <1>4
  <2>2. SeqMod * qa \in Int /\ SeqMod * qx \in Int /\ SeqMod * qy \in Int
    BY <1>1, <1>2, <1>3, <1>4
  <2> QED
    BY <1>1, <1>2, <1>3, <1>4, <2>1, <2>2
<1>6. /\ qa + qx - qy \in Int /\ SeqMod * (qa + qx - qy) < SeqMod
      /\ -SeqMod < SeqMod * (qa + qx - qy)
  BY <1>1, <1>2, <1>3, <1>4, <1>5
<1>7. qa + qx - qy = 0
  BY <1>1, <1>6, SmallMultiple
<1>8. x = y
  BY <1>1, <1>3, <1>4, <1>5, <1>7
<1> QED
  BY <1>8 DEF NextSlotSeqid, SeqidOf, x, y, r

-----------------------------------------------------------------------------
(* Types.                                                                  *)

Call == [at : Places, slot : Slots, n : 0 .. MaxReq, ask : Asks \cup {NoAsk},
         outcome : Outcomes, body : Body \cup {NoBytes}, own : BOOLEAN]
Request == [n : 0 .. MaxReq, ask : Asks \cup {NoAsk}, waiting : BOOLEAN]
Slot == [sequenceid : Seqids, fresh : BOOLEAN, bytes : Body \cup {NoBytes}]

Typed(rs, cs, ss, a, ns) ==
  /\ rs \in [Slots -> Request] /\ cs \in [Calls -> Call] /\ ss \in [Slots -> Slot]
  /\ a \in BOOLEAN /\ ns \in [Slots -> [Requests -> Nat]]

LEMMA TypesByPart ==
  /\ TypeOK <=> Typed(request, call, slot, alive, runs)
  /\ TypeOK' <=> Typed(request', call', slot', alive', runs')
BY DEF TypeOK, Typed, Call, Request, Slot

LEMMA IdleType == Idle \in Call
BY SlotsAssumption, MaxReqAssumption DEF Idle, Call, Places, Outcomes

LEMMA OutcomeType ==
  ASSUME NEW s, NEW q PROVE SequenceOutcome(slot[s], q) \in Outcomes
BY DEF SequenceOutcome, Outcomes

LEMMA ReplyBodyType ==
  ASSUME NEW c, call[c].n \in Requests PROVE ReplyBody(c) \in Body
BY DEF ReplyBody, Body, Forms

LEMMA TypeStep ==
  ASSUME TypeOK, CallsInOrder, [Next]_vars
  PROVE  TypeOK'
<1> USE MaxReqAssumption
<1>0. /\ Typed(request, call, slot, alive, runs)
      /\ \A c \in Calls : call[c] \in Call
      /\ \A c \in Calls : call[c].at # "idle" => call[c].n \in Requests
  BY TypesByPart DEF Typed, Call, CallsInOrder, Requests
<1> SUFFICES Typed(request', call', slot', alive', runs')
  BY TypesByPart
<1> USE <1>0 DEF Typed
<1>1. CASE DestroySession
  BY <1>1 DEF DestroySession
<1>2. ASSUME NEW c \in Calls, Sequence(c)
      PROVE  Typed(request', call', slot', alive', runs')
  <2> DEFINE s == call[c].slot
             q == SeqidOf(call[c].n)
             outcome == SequenceOutcome(slot[s], q)
             new == [call[c] EXCEPT !.at = "sequenced", !.outcome = outcome,
                       !.body = IF outcome = "replay" THEN slot[s].bytes ELSE NoBytes]
  <2>0. s \in Slots /\ call[c].n \in Nat
    BY DEF Call
  <2>1. s \in Slots /\ q \in Seqids /\ outcome \in Outcomes
    <3>1. q \in Seqids
      BY <2>0, SeqidType
    <3>2. outcome \in Outcomes
      BY OutcomeType
    <3> QED
      BY <2>0, <3>1, <3>2
  <2>2. slot[s].bytes \in Body \cup {NoBytes}
    BY <2>1 DEF Slot
  <2>3. call' = [call EXCEPT ![c] = new]
    BY <1>2 DEF Sequence
  <2>4. slot' = slot \/ slot' = [slot EXCEPT ![s] = Advance(slot[s], q)]
    BY <1>2 DEF Sequence
  <2>5. Advance(slot[s], q) \in Slot
    BY <2>1 DEF Advance, Slot
  <2>6. UNCHANGED <<request, alive, runs>>
    BY <1>2 DEF Sequence
  <2> HIDE DEF s, q, outcome
  <2>7. new \in Call
    BY <2>1, <2>2 DEF Call, Places
  <2> HIDE DEF new
  <2> QED
    BY <2>1, <2>3, <2>4, <2>5, <2>7, <2>6
<1>3. ASSUME NEW c \in Calls, Refuse(c)
      PROVE  Typed(request', call', slot', alive', runs')
  <2> DEFINE new == [call[c] EXCEPT !.at = "replied"]
  <2>1. new \in Call
    BY DEF Call, Places
  <2>2. call' = [call EXCEPT ![c] = new]
    BY <1>3 DEF Refuse
  <2> HIDE DEF new
  <2> QED
    BY <1>3, <2>1, <2>2 DEF Refuse
<1>4. ASSUME NEW c \in Calls, Execute(c)
      PROVE  Typed(request', call', slot', alive', runs')
  <2> DEFINE own == alive /\ call[c].ask.destroys
             new == [call[c] EXCEPT !.at = "ran", !.own = own]
  <2>1. own \in BOOLEAN
    OBVIOUS
  <2>2. call' = [call EXCEPT ![c] = new]
    BY <1>4 DEF Execute
  <2> HIDE DEF own
  <2>3. new \in Call
    BY <2>1 DEF Call, Places
  <2>4. call[c].slot \in Slots /\ call[c].n \in Requests
    BY <1>4 DEF Execute, Call
  <2>5. runs' \in [Slots -> [Requests -> Nat]]
    BY <1>4, <2>4 DEF Execute
  <2>6. alive' \in BOOLEAN /\ request' = request /\ slot' = slot
    BY <1>4 DEF Execute
  <2> HIDE DEF new
  <2> QED
    BY <2>2, <2>3, <2>5, <2>6
<1>5. ASSUME NEW c \in Calls, CachedReply(c)
      PROVE  Typed(request', call', slot', alive', runs')
  <2> DEFINE s == call[c].slot
             new == [call[c] EXCEPT !.at = "replied", !.body = ReplyBody(c)]
             kept == CacheReply(slot[s], c)
  <2>1. s \in Slots /\ ReplyBody(c) \in Body
    BY <1>5, ReplyBodyType DEF CachedReply, Call
  <2>2. call' = [call EXCEPT ![c] = new]
    BY <1>5 DEF CachedReply
  <2>3. new \in Call
    BY <2>1 DEF Call, Places
  <2>4. kept \in Slot
    BY <2>1 DEF CacheReply, Slot
  <2>5. slot' = [slot EXCEPT ![s] = kept]
    BY <1>5 DEF CachedReply
  <2>6. UNCHANGED <<request, alive, runs>>
    BY <1>5 DEF CachedReply
  <2> HIDE DEF new, s, kept
  <2> QED
    BY <2>1, <2>2, <2>3, <2>4, <2>5, <2>6
<1>6. ASSUME NEW c \in Calls, Lose(c) \/ Receive(c)
      PROVE  Typed(request', call', slot', alive', runs')
  <2>1. call' \in [Calls -> Call]
    BY <1>6, IdleType DEF Lose, Receive
  <2>2. request' \in [Slots -> Request]
    <3> DEFINE s == call[c].slot
               w == request[s].waiting /\ call[c].n # request[s].n
               new == [request[s] EXCEPT !.waiting = w]
    <3>1. s \in Slots /\ w \in BOOLEAN
      BY DEF Call
    <3>2. request' = request \/ request' = [request EXCEPT ![s] = new]
      BY <1>6 DEF Lose, Receive
    <3> HIDE DEF s, w
    <3>3. new \in Request
      BY <3>1 DEF Request
    <3> HIDE DEF new
    <3> QED
      BY <3>1, <3>2, <3>3
  <2> QED
    BY <1>6, <2>1, <2>2 DEF Lose, Receive
<1>7. ASSUME NEW c \in Calls, NEW s \in Slots, NEW n \in 0 .. MaxReq, NEW ask \in Asks \cup {NoAsk},
             Transmit(c, s, n, ask)
      PROVE  call' \in [Calls -> Call]
  <2>1. [Idle EXCEPT !.at = "wire", !.slot = s, !.n = n, !.ask = ask] \in Call
    BY IdleType DEF Call, Places
  <2> QED
    BY <1>7, <2>1 DEF Transmit
<1>8. ASSUME NEW c \in Calls, NEW s \in Slots, Retry(c, s)
      PROVE  Typed(request', call', slot', alive', runs')
  <2>1. call' \in [Calls -> Call]
    BY <1>7, <1>8 DEF Retry, Request
  <2> QED
    BY <1>8, <2>1 DEF Retry
<1>9. ASSUME NEW c \in Calls, NEW s \in Slots, NEW ask \in Asks, Send(c, s, ask)
      PROVE  Typed(request', call', slot', alive', runs')
  <2>1. request[s].n + 1 \in 0 .. MaxReq
    BY <1>9 DEF Send, Request
  <2>2. call' \in [Calls -> Call]
    BY <1>7, <1>9, <2>1 DEF Send
  <2>3. [n |-> request[s].n + 1, ask |-> ask, waiting |-> TRUE] \in Request
    BY <2>1 DEF Request
  <2> QED
    BY <1>9, <2>2, <2>3 DEF Send
<1>10. CASE UNCHANGED vars
  BY <1>10 DEF vars
<1> QED
  BY <1>1, <1>2, <1>3, <1>4, <1>5, <1>6, <1>8, <1>9, <1>10 DEF Next

-----------------------------------------------------------------------------
(* One action at a time.                                                   *)

\* What an action leaves of the transmissions other than c.
OthersKept(c) == \A d \in Calls \ {c} : call'[d] = call[d]

LEMMA Numbers ==
  ASSUME TypeOK
  PROVE  /\ \A s \in Slots : request[s].n \in Nat
         /\ \A c \in Calls : call[c].slot \in Slots /\ call[c].n \in Nat
         /\ \A c \in Calls : call[c].outcome \in Outcomes
         /\ \A s \in Slots, n \in Requests : runs[s][n] \in Nat
BY MaxReqAssumption DEF TypeOK

(* A transmission that leaves the server's sight takes nothing along.  The    *)
(* client stops waiting only for an answer that its slot has admitted.       *)
LEMMA GoneKeeps ==
  ASSUME TypeOK, NEW k \in [Slots -> 0 .. MaxReq], InOrder(k), NEW c \in Calls,
         Lose(c) \/ Receive(c)
  PROVE  InOrder(k)'
<1>1. /\ OthersKept(c) /\ call'[c] = Idle
      /\ UNCHANGED <<slot, alive, runs>>
  <2>1. call' = [call EXCEPT ![c] = Idle] /\ UNCHANGED <<slot, alive, runs>>
    BY DEF Lose, Receive
  <2>2. call \in [Calls -> Call]
    BY TypesByPart DEF Typed
  <2> QED
    BY <2>1, <2>2 DEF OthersKept
<1> DEFINE s0 == call[c].slot
           heard == [request[s0] EXCEPT !.waiting = @ /\ call[c].n # request[s0].n]
<1>2. /\ request \in [Slots -> Request] /\ s0 \in Slots
      /\ \/ request' = request
         \/ /\ request' = [request EXCEPT ![s0] = heard]
            /\ call[c].at = "replied"
  BY TypesByPart DEF Typed, Call, Lose, Receive
<1>3. /\ heard.n = request[s0].n
      /\ heard.waiting => request[s0].waiting
      /\ request[s0].waiting => heard.waiting \/ call[c].n = request[s0].n
  BY <1>2 DEF Request
<1>4. \A s \in Slots : \/ request'[s] = request[s]
                       \/ s = s0 /\ request'[s] = heard /\ call[c].at = "replied"
  <2>1. call[c].slot = s0
    OBVIOUS
  <2> HIDE DEF heard, s0
  <2> QED
    BY <1>2
<1> HIDE DEF heard
<1>5. \A s \in Slots : request'[s].n = request[s].n
  BY <1>3, <1>4
<1>6. \A s \in Slots : request'[s].waiting => request[s].waiting
  BY <1>3, <1>4
<1>7. \A s \in Slots : request[s].waiting =>
        \/ request'[s].waiting
        \/ call[c].at = "replied" /\ call[c].slot = s /\ call[c].n = request[s].n
  BY <1>3, <1>4
<1>8. Idle.at = "idle" /\ Idle.outcome = "none" /\ Idle.body = NoBytes
  BY DEF Idle
<1> USE Numbers
<1>9. CallsInOrder'
  BY <1>1, <1>5, <1>6, <1>8 DEF CallsInOrder, InOrder, OthersKept, Answered, Running
<1>10. SlotsInOrder(k)'
  <2> SUFFICES ASSUME NEW s \in Slots, alive, request[s].n = k[s] + 1, request[s].waiting
               PROVE  request'[s].waiting
    BY <1>1, <1>5, <1>6 DEF SlotsInOrder, InOrder
  <2>1. ASSUME call[c].at = "replied", call[c].slot = s, call[c].n = request[s].n
        PROVE  FALSE
    BY <2>1 DEF InOrder, CallsInOrder, OutcomesInOrder, Outcomes
  <2> QED
    BY <1>7, <2>1
<1>11. OutcomesInOrder(k)'
  BY <1>1, <1>8 DEF OutcomesInOrder, InOrder, OthersKept, Answered
<1>12. RunsInOrder(k)'
  BY <1>1, <1>8 DEF RunsInOrder, InOrder, OthersKept, Running, SameRequest
<1>13. BodiesInOrder(k)'
  BY <1>1, <1>8 DEF BodiesInOrder, InOrder, OthersKept, Running, SameRequest, Answered
<1> QED
  BY <1>9, <1>10, <1>11, <1>12, <1>13 DEF InOrder

(* What is not new is answered as it stands. *)
LEMMA RefuseKeeps ==
  ASSUME TypeOK, NEW k \in [Slots -> 0 .. MaxReq], InOrder(k), NEW c \in Calls, Refuse(c)
  PROVE  InOrder(k)'
<1> DEFINE new == [call[c] EXCEPT !.at = "replied"]
<1>1. call' = [call EXCEPT ![c] = new] /\ call \in [Calls -> Call]
  BY TypesByPart DEF Refuse, Typed
<1>2. /\ OthersKept(c) /\ call'[c] = new
      /\ UNCHANGED <<request, slot, alive, runs>>
      /\ call[c].at = "sequenced" /\ call[c].outcome # "new"
  BY <1>1 DEF Refuse, OthersKept
<1>3. /\ new.slot = call[c].slot /\ new.n = call[c].n /\ new.outcome = call[c].outcome
      /\ new.body = call[c].body /\ new.at = "replied"
  BY <1>1 DEF Call
<1> HIDE DEF new
<1>4. CallsInOrder'
  BY <1>2, <1>3 DEF CallsInOrder, InOrder, OthersKept, Answered, Running
<1>5. SlotsInOrder(k)'
  BY <1>2 DEF SlotsInOrder, InOrder
<1>6. OutcomesInOrder(k)'
  BY <1>2, <1>3 DEF OutcomesInOrder, InOrder, OthersKept, Answered
<1>7. RunsInOrder(k)'
  BY <1>2, <1>3 DEF RunsInOrder, InOrder, OthersKept, Running, SameRequest
<1>8. BodiesInOrder(k)'
  BY <1>2, <1>3 DEF BodiesInOrder, InOrder, OthersKept, Running, SameRequest, Answered
<1> QED
  BY <1>4, <1>5, <1>6, <1>7, <1>8 DEF InOrder

LEMMA DestroyKeeps ==
  ASSUME TypeOK, NEW k \in [Slots -> 0 .. MaxReq], InOrder(k), DestroySession
  PROVE  InOrder(k)'
BY DEF DestroySession, InOrder, CallsInOrder, SlotsInOrder, OutcomesInOrder, RunsInOrder,
       BodiesInOrder, Running, SameRequest, Answered

(* The one transmission that was admitted runs the request, which had not    *)
(* been run.                                                                 *)
LEMMA ExecuteKeeps ==
  ASSUME TypeOK, NEW k \in [Slots -> 0 .. MaxReq], InOrder(k), NEW c \in Calls, Execute(c)
  PROVE  InOrder(k)'
<1> DEFINE own == alive /\ call[c].ask.destroys
           new == [call[c] EXCEPT !.at = "ran", !.own = own]
           s == call[c].slot
           n == call[c].n
<1>1. call' = [call EXCEPT ![c] = new] /\ call \in [Calls -> Call]
  BY TypesByPart DEF Execute, Typed
<1>2. /\ OthersKept(c) /\ call'[c] = new
      /\ UNCHANGED <<request, slot>> /\ (alive' => alive)
      /\ call[c].at = "sequenced" /\ call[c].outcome = "new"
  BY <1>1 DEF Execute, OthersKept
<1> HIDE DEF own
<1>3. /\ new.slot = s /\ new.n = n /\ new.outcome = call[c].outcome
      /\ new.body = call[c].body /\ new.at = "ran"
  BY <1>1 DEF Call
<1>4. s \in Slots /\ n \in Requests /\ n <= k[s]
  BY <1>2, Numbers DEF InOrder, CallsInOrder, OutcomesInOrder, Requests, TypeOK
<1>5. /\ runs \in [Slots -> [Requests -> Nat]]
      /\ runs' = [runs EXCEPT ![s][n] = runs[s][n] + 1]
      /\ runs[s][n] = 0
  BY <1>2 DEF Execute, TypeOK, InOrder, RunsInOrder, Running
<1> HIDE DEF new
<1>6. CallsInOrder'
  BY <1>2, <1>3 DEF CallsInOrder, InOrder, OthersKept, Answered, Running
<1>7. SlotsInOrder(k)'
  BY <1>2 DEF SlotsInOrder, InOrder
<1>8. OutcomesInOrder(k)'
  BY <1>2, <1>3 DEF OutcomesInOrder, InOrder, OthersKept, Answered
<1>9. RunsInOrder(k)'
  <2>1. \A r \in Slots, m \in Requests : runs'[r][m] <= 1 /\ (runs'[r][m] = 1 => m <= k[r])
    BY <1>4, <1>5 DEF RunsInOrder, InOrder
  <2>2. ASSUME NEW d \in Calls, Running(d)'
        PROVE  /\ Running(d) /\ call'[d].slot = call[d].slot /\ call'[d].n = call[d].n
               /\ call'[d].at = "sequenced" => d # c
    BY <1>2, <1>3, <2>2 DEF Running, OthersKept
  <2>3. ASSUME NEW d \in Calls, Running(d)', call'[d].at = "sequenced"
        PROVE  runs'[call'[d].slot][call'[d].n] = 0
    <3>1. Running(d) /\ d # c /\ call'[d] = call[d]
      BY <1>2, <2>2, <2>3 DEF OthersKept
    <3>2. ~SameRequest(c, d) /\ runs[call[d].slot][call[d].n] = 0
      BY <1>2, <2>3, <3>1 DEF RunsInOrder, InOrder, Running
    <3>3. call[d].slot \in Slots /\ call[d].n \in Requests
      BY <2>3, <3>1, Numbers DEF InOrder, CallsInOrder, Requests, TypeOK
    <3> QED
      BY <1>4, <1>5, <3>1, <3>2, <3>3 DEF SameRequest
  <2>4. ASSUME NEW d \in Calls, NEW e \in Calls, Running(d)', Running(e)', SameRequest(d, e)'
        PROVE  d = e
    BY <2>2, <2>4 DEF RunsInOrder, InOrder, SameRequest
  <2> QED
    BY <2>1, <2>3, <2>4 DEF RunsInOrder
<1>10. BodiesInOrder(k)'
  BY <1>2, <1>3 DEF BodiesInOrder, InOrder, OthersKept, Running, SameRequest, Answered
<1> QED
  BY <1>6, <1>7, <1>8, <1>9, <1>10 DEF InOrder

(* A transmission put on the wire has been told nothing, and the client goes  *)
(* on to the next request only when it no longer waits for the last.         *)
LEMMA TransmitKeeps ==
  ASSUME TypeOK, NEW k \in [Slots -> 0 .. MaxReq], InOrder(k),
         NEW c \in Calls, NEW s \in Slots, Retry(c, s) \/ \E ask \in Asks : Send(c, s, ask)
  PROVE  InOrder(k)'
<1>1. /\ \A r \in Slots \ {s} : request'[r] = request[r]
      /\ \/ request' = request /\ request[s].waiting
         \/ /\ request'[s].n = request[s].n + 1 /\ request'[s].waiting /\ ~request[s].waiting
            /\ NoneTooOld(s, request'[s].n)
      /\ UNCHANGED <<slot, alive, runs>>
      /\ \E ask : Transmit(c, s, request'[s].n, ask)
  <2>1. ASSUME Retry(c, s)
        PROVE  /\ request' = request /\ request[s].waiting /\ UNCHANGED <<slot, alive, runs>>
               /\ \E ask : Transmit(c, s, request'[s].n, ask)
    BY <2>1 DEF Retry
  <2>2. ASSUME NEW ask \in Asks, Send(c, s, ask)
        PROVE  /\ request'[s] = [n |-> request[s].n + 1, ask |-> ask, waiting |-> TRUE]
               /\ \A r \in Slots \ {s} : request'[r] = request[r]
    BY <2>2, TypesByPart DEF Send, Typed
  <2>3. ASSUME NEW ask \in Asks, Send(c, s, ask)
        PROVE  /\ request'[s].n = request[s].n + 1 /\ request'[s].waiting
               /\ NoneTooOld(s, request'[s].n) /\ Transmit(c, s, request'[s].n, ask)
               /\ ~request[s].waiting /\ UNCHANGED <<slot, alive, runs>>
    <3>1. request'[s].n = request[s].n + 1 /\ request'[s].waiting
      <4>1. request'[s] = [n |-> request[s].n + 1, ask |-> ask, waiting |-> TRUE]
        BY <2>2, <2>3
      <4> QED
        BY <4>1
    <3>2. /\ ~request[s].waiting /\ UNCHANGED <<slot, alive, runs>>
          /\ NoneTooOld(s, request[s].n + 1) /\ Transmit(c, s, request[s].n + 1, ask)
      BY <2>3 DEF Send
    <3>3. NoneTooOld(s, request'[s].n)
      BY <3>1, <3>2 DEF NoneTooOld
    <3>4. Transmit(c, s, request'[s].n, ask)
      BY <3>1, <3>2 DEF Transmit
    <3> QED
      BY <3>1, <3>2, <3>3, <3>4
  <2>4. CASE Retry(c, s)
    <3>1. PICK ask : Transmit(c, s, request'[s].n, ask)
      BY <2>1, <2>4
    <3> QED
      BY <2>1, <2>4, <3>1
  <2>5. CASE \E ask \in Asks : Send(c, s, ask)
    <3>1. PICK ask \in Asks : Send(c, s, ask)
      BY <2>5
    <3> QED
      BY <2>2, <2>3, <3>1
  <2> QED
    BY <2>4, <2>5
<1> DEFINE n == request'[s].n
<1>2. request[s].n \in Nat /\ n \in Nat /\ n >= 1
  BY <1>1, Numbers DEF InOrder, SlotsInOrder
<1>3. /\ OthersKept(c)
      /\ call'[c].at = "wire" /\ call'[c].slot = s /\ call'[c].n = n
      /\ call'[c].outcome = "none" /\ call'[c].body = NoBytes
  <2>1. PICK ask : Transmit(c, s, n, ask)
    BY <1>1
  <2>2. call \in [Calls -> Call]
    BY TypesByPart DEF Typed
  <2> QED
    BY <2>1, <2>2 DEF Transmit, OthersKept, Idle
<1>4. \A r \in Slots : request[r].n <= request'[r].n /\ request'[r].n \in Nat
  BY <1>1, <1>2, Numbers
<1> HIDE DEF n
<1>5. CallsInOrder'
  <2> SUFFICES ASSUME NEW d \in Calls, d # c
               PROVE  LET r == request'[call[d].slot] IN
                      /\ call[d].at # "idle" => call[d].n >= 1 /\ call[d].n <= r.n
                      /\ call[d].at \in {"wire", "sequenced", "ran"} => r.n - call[d].n < SeqMod - 1
                      /\ call[d].outcome = "misordered" => r.n # call[d].n \/ ~r.waiting
    BY <1>2, <1>3, SeqModAssumption DEF CallsInOrder, InOrder, OthersKept, Answered, n
  <2> DEFINE r == request[call[d].slot]
             q == request'[call[d].slot]
  <2>1. /\ call[d].at # "idle" => call[d].n >= 1 /\ call[d].n <= r.n
        /\ call[d].at \in {"wire", "sequenced", "ran"} => r.n - call[d].n < SeqMod - 1
        /\ call[d].outcome = "misordered" => r.n # call[d].n \/ ~r.waiting
        /\ call[d].outcome = "misordered" => call[d].at # "idle"
    BY DEF CallsInOrder, InOrder
  <2>2. \/ q = r
        \/ /\ q.n = r.n + 1
           /\ call[d].at \in {"wire", "sequenced", "ran"} => q.n - call[d].n < SeqMod - 1
    BY <1>1, Numbers DEF NoneTooOld, SentOn
  <2>3. call[d].n \in Nat /\ r.n \in Nat
    BY Numbers
  <2> HIDE DEF q, r
  <2>4. CASE q = r
    BY <2>1, <2>4 DEF q
  <2>5. CASE /\ q.n = r.n + 1
             /\ call[d].at \in {"wire", "sequenced", "ran"} => q.n - call[d].n < SeqMod - 1
    BY <2>1, <2>3, <2>5 DEF q
  <2> QED
    BY <2>2, <2>4, <2>5
<1>6. SlotsInOrder(k)'
  <2> SUFFICES ASSUME NEW r \in Slots
               PROVE  /\ k[r] <= request'[r].n
                      /\ request'[r].waiting => request'[r].n >= 1
                      /\ alive => \/ request'[r].n = k[r]
                                  \/ request'[r].n = k[r] + 1 /\ request'[r].waiting
    BY <1>1 DEF SlotsInOrder, InOrder
  <2>1. /\ k[r] <= request[r].n
        /\ request[r].waiting => request[r].n >= 1
        /\ alive => \/ request[r].n = k[r]
                    \/ request[r].n = k[r] + 1 /\ request[r].waiting
    BY DEF SlotsInOrder, InOrder
  <2>2. request[r].n \in Nat /\ k[r] \in Nat
    BY Numbers, MaxReqAssumption
  <2> QED
    BY <1>1, <2>1, <2>2
<1>7. OutcomesInOrder(k)'
  BY <1>1, <1>3 DEF OutcomesInOrder, InOrder, OthersKept, Answered
<1>8. RunsInOrder(k)'
  BY <1>1, <1>3 DEF RunsInOrder, InOrder, OthersKept, Running, SameRequest
<1>9. BodiesInOrder(k)'
  BY <1>1, <1>3 DEF BodiesInOrder, InOrder, OthersKept, Running, SameRequest, Answered
<1> QED
  BY <1>5, <1>6, <1>7, <1>8, <1>9 DEF InOrder

(* The reply is kept when the slot has not moved on, and the ticket tells:    *)
(* the transmission is less than SeqMod requests behind.                     *)
LEMMA CachedReplyKeeps ==
  ASSUME TypeOK, NEW k \in [Slots -> 0 .. MaxReq], InOrder(k), NEW c \in Calls, CachedReply(c)
  PROVE  InOrder(k)'
<1> DEFINE s == call[c].slot
           n == call[c].n
           body == ReplyBody(c)
           new == [call[c] EXCEPT !.at = "replied", !.body = body]
<1>1. call' = [call EXCEPT ![c] = new] /\ call \in [Calls -> Call]
  BY TypesByPart DEF CachedReply, Typed
<1>2. /\ OthersKept(c) /\ call'[c] = new
      /\ UNCHANGED <<request, alive, runs>>
      /\ call[c].at = "ran" /\ call[c].outcome = "new" /\ Running(c)
  BY <1>1 DEF CachedReply, OthersKept, InOrder, CallsInOrder, Running
<1>3. body.of = n /\ body # NoBytes
  BY <1>2 DEF ReplyBody, NoBytes, InOrder, CallsInOrder
<1> HIDE DEF body
<1>4. /\ new.slot = s /\ new.n = n /\ new.outcome = call[c].outcome
      /\ new.body = body /\ new.at = "replied"
  BY <1>1 DEF Call
<1>5. s \in Slots /\ n \in Nat /\ k[s] \in Nat /\ n <= k[s]
  BY <1>2, Numbers, MaxReqAssumption DEF InOrder, OutcomesInOrder
<1>6. SeqidOf(k[s]) = SeqidOf(n) => k[s] = n
  <2>1. k[s] <= request[s].n /\ request[s].n - n < SeqMod - 1 /\ request[s].n \in Nat
    BY <1>2, <1>5, Numbers DEF InOrder, SlotsInOrder, CallsInOrder
  <2> QED
    BY <1>5, <2>1, SeqModAssumption, SeqidIdentifies
<1>7. /\ \A r \in Slots : /\ slot'[r].sequenceid = slot[r].sequenceid
                          /\ slot'[r].fresh = slot[r].fresh
                          /\ slot'[r].bytes = slot[r].bytes \/ r = s
      /\ slot'[s].bytes = slot[s].bytes \/ (k[s] = n /\ slot'[s].bytes \in {body, NoBytes})
  <2> DEFINE kept == CacheReply(slot[s], c)
  <2>1. slot' = [slot EXCEPT ![s] = kept] /\ slot \in [Slots -> Slot]
    BY TypesByPart DEF CachedReply, Typed
  <2>2. slot[s].sequenceid = SeqidOf(k[s])
    BY <1>5 DEF InOrder, SlotsInOrder
  <2>3. /\ kept.sequenceid = slot[s].sequenceid /\ kept.fresh = slot[s].fresh
        /\ kept.bytes = slot[s].bytes \/ (k[s] = n /\ kept.bytes \in {body, NoBytes})
    BY <1>5, <1>6, <2>1, <2>2 DEF CacheReply, Slot, body
  <2> HIDE DEF kept
  <2>4. slot'[s] = kept /\ \A r \in Slots \ {s} : slot'[r] = slot[r]
    BY <1>5, <2>1
  <2> QED
    BY <2>3, <2>4
<1> HIDE DEF new
<1>8. CallsInOrder'
  BY <1>2, <1>4 DEF CallsInOrder, InOrder, OthersKept, Answered, Running
<1>9. SlotsInOrder(k)'
  BY <1>2, <1>7 DEF SlotsInOrder, InOrder
<1>10. OutcomesInOrder(k)'
  BY <1>2, <1>4 DEF OutcomesInOrder, InOrder, OthersKept, Answered
<1>11. RunsInOrder(k)'
  BY <1>2, <1>4 DEF RunsInOrder, InOrder, OthersKept, Running, SameRequest
<1>12. BodiesInOrder(k)'
  <2> USE DEF InOrder, BodiesInOrder
  <2>1. \A d \in Calls : /\ call'[d].slot = call[d].slot /\ call'[d].n = call[d].n
                         /\ call'[d].body = IF d = c THEN body ELSE call[d].body
                         /\ Running(d)' => d # c /\ Running(d)
    BY <1>2, <1>4 DEF OthersKept, Running
  <2>2. \A d \in Calls : SameRequest(c, d) => ~Answered(d)
    BY <1>2
  <2>3. n = k[s] => slot[s].bytes = NoBytes
    BY <1>2
  <2>4. \A d \in Calls : Running(d) /\ SameRequest(c, d) => d = c
    BY <1>2 DEF RunsInOrder
  <2>5. \A r \in Slots : slot'[r].bytes # NoBytes => slot'[r].bytes.of = k[r]
    BY <1>3, <1>7
  <2>6. ASSUME NEW d \in Calls, Running(d)'
        PROVE  /\ \A e \in Calls : SameRequest(d, e)' => ~Answered(e)'
               /\ call'[d].n = k[call'[d].slot] => slot'[call'[d].slot].bytes = NoBytes
    <3>1. Running(d) /\ d # c /\ ~SameRequest(c, d) /\ call[d].slot \in Slots
      BY <2>1, <2>4, <2>6, Numbers
    <3>2. \A e \in Calls : SameRequest(d, e)' => ~Answered(e)'
      BY <2>1, <3>1 DEF SameRequest, Answered
    <3>3. call[d].n = k[call[d].slot] => slot'[call[d].slot].bytes = NoBytes
      BY <1>7, <3>1 DEF SameRequest
    <3> QED
      BY <2>1, <3>2, <3>3
  <2>7. ASSUME NEW d \in Calls, Answered(d)'
        PROVE  /\ call'[d].body.of = call'[d].n
               /\ \A e \in Calls : Answered(e)' /\ SameRequest(d, e)' => call'[e].body = call'[d].body
               /\ call'[d].n = k[call'[d].slot] /\ slot'[call'[d].slot].bytes # NoBytes =>
                    slot'[call'[d].slot].bytes = call'[d].body
    <3>1. CASE d = c
      <4>1. \A e \in Calls : Answered(e)' /\ SameRequest(c, e)' => e = c
        BY <2>1, <2>2 DEF SameRequest, Answered
      <4> QED
        BY <1>3, <1>5, <1>7, <2>1, <2>3, <3>1, <4>1
    <3>2. CASE d # c
      <4>1. Answered(d) /\ ~SameRequest(c, d) /\ call[d].slot \in Slots
        BY <2>1, <2>2, <2>7, <3>2, Numbers DEF Answered
      <4>2. \A e \in Calls : Answered(e)' /\ SameRequest(d, e)' =>
              Answered(e) /\ SameRequest(d, e) /\ call'[e].body = call[e].body
        BY <2>1, <4>1 DEF SameRequest, Answered
      <4>3. call[d].n = k[call[d].slot] /\ slot'[call[d].slot].bytes # NoBytes =>
              slot'[call[d].slot].bytes = slot[call[d].slot].bytes
        BY <1>7, <4>1 DEF SameRequest
      <4> QED
        BY <2>1, <3>2, <4>1, <4>2, <4>3
    <3> QED
      BY <3>1, <3>2
  <2> QED
    BY <2>5, <2>6, <2>7
<1> QED
  BY <1>8, <1>9, <1>10, <1>11, <1>12 DEF InOrder

(* What the sequence ID tells the server, given that the client is at the     *)
(* request the slot admitted last or waits for the next.                     *)
LEMMA OutcomeTells ==
  ASSUME TypeOK, NEW k \in [Slots -> 0 .. MaxReq], InOrder(k), NEW c \in Calls,
         call[c].at = "wire"
  PROVE  LET s == call[c].slot
             n == call[c].n
             outcome == SequenceOutcome(slot[s], SeqidOf(n))
         IN  /\ outcome \in {"new", "replay", "uncached", "misordered", "badsession"}
             /\ outcome = "new" => alive /\ n = k[s] + 1 /\ n = request[s].n
             /\ outcome \in {"replay", "uncached"} => n = k[s]
             /\ outcome = "replay" => slot[s].bytes # NoBytes
             /\ outcome = "misordered" => request[s].n # n \/ ~request[s].waiting
             /\ outcome = "badsession" => ~alive
<1> DEFINE s == call[c].slot
           n == call[c].n
           q == SeqidOf(n)
<1>1. /\ s \in Slots /\ n \in Nat /\ k[s] \in Nat /\ request[s].n \in Nat
      /\ n >= 1 /\ n <= request[s].n /\ request[s].n - n < SeqMod - 1
      /\ k[s] <= request[s].n
      /\ slot[s].sequenceid = SeqidOf(k[s])
      /\ slot[s].fresh <=> k[s] = 0
      /\ alive => \/ request[s].n = k[s]
                  \/ request[s].n = k[s] + 1 /\ request[s].waiting
  BY Numbers, MaxReqAssumption DEF InOrder, CallsInOrder, SlotsInOrder
<1> HIDE DEF s, n
<1>2. alive /\ q = slot[s].sequenceid => n = k[s]
  BY <1>1, SeqModAssumption, SeqidIdentifies
<1>3. alive /\ q = NextSlotSeqid(slot[s].sequenceid) => n = k[s] + 1 /\ n = request[s].n
  <2>1. NextSlotSeqid(slot[s].sequenceid) = SeqidOf(k[s] + 1)
    BY <1>1, SeqidOfNext
  <2>2. k[s] + 1 \in Nat /\ (alive => n - (k[s] + 1) < SeqMod /\ (k[s] + 1) - n < SeqMod)
    BY <1>1, SeqModAssumption
  <2>3. alive /\ q = SeqidOf(k[s] + 1) => n = k[s] + 1
    BY <1>1, <2>2, SeqidIdentifies
  <2> QED
    BY <1>1, <2>1, <2>3
<1>4. alive /\ q # slot[s].sequenceid /\ q # NextSlotSeqid(slot[s].sequenceid) =>
        request[s].n # n
  <2>1. NextSlotSeqid(slot[s].sequenceid) = SeqidOf(k[s] + 1)
    BY <1>1, SeqidOfNext
  <2> QED
    BY <1>1, <2>1
<1>5. alive /\ q = slot[s].sequenceid => ~slot[s].fresh
  BY <1>1, <1>2
<1> HIDE DEF q
<1>6. LET outcome == SequenceOutcome(slot[s], q)
      IN  /\ outcome \in {"new", "replay", "uncached", "misordered", "badsession"}
          /\ outcome = "new" => alive /\ n = k[s] + 1 /\ n = request[s].n
          /\ outcome \in {"replay", "uncached"} => n = k[s]
          /\ outcome = "replay" => slot[s].bytes # NoBytes
          /\ outcome = "misordered" => request[s].n # n \/ ~request[s].waiting
          /\ outcome = "badsession" => ~alive
  <2>1. CASE ~alive
    BY <2>1 DEF SequenceOutcome
  <2>2. CASE alive /\ q = slot[s].sequenceid
    <3>1. SequenceOutcome(slot[s], q) = IF slot[s].bytes = NoBytes THEN "uncached" ELSE "replay"
      BY <1>5, <2>2 DEF SequenceOutcome
    <3> QED
      BY <1>2, <2>2, <3>1
  <2>3. CASE alive /\ q # slot[s].sequenceid
    <3>1. SequenceOutcome(slot[s], q) =
            IF q = NextSlotSeqid(slot[s].sequenceid) THEN "new" ELSE "misordered"
      BY <2>3 DEF SequenceOutcome
    <3> QED
      BY <1>3, <1>4, <2>3, <3>1
  <2> QED
    BY <2>1, <2>2, <2>3
<1> QED
  BY <1>6 DEF s, n, q

(* Whatever is not new changes nothing but what the transmission was told; a  *)
(* replay takes the reply the slot has.                                      *)
LEMMA RepeatKeeps ==
  ASSUME TypeOK, NEW k \in [Slots -> 0 .. MaxReq], InOrder(k), NEW c \in Calls, Sequence(c),
         SequenceOutcome(slot[call[c].slot], SeqidOf(call[c].n)) # "new"
  PROVE  InOrder(k)'
<1> DEFINE s == call[c].slot
           n == call[c].n
           outcome == SequenceOutcome(slot[s], SeqidOf(n))
           body == IF outcome = "replay" THEN slot[s].bytes ELSE NoBytes
           new == [call[c] EXCEPT !.at = "sequenced", !.outcome = outcome, !.body = body]
<1>1. call' = [call EXCEPT ![c] = new] /\ call \in [Calls -> Call]
  BY TypesByPart DEF Sequence, Typed
<1>2. /\ OthersKept(c) /\ call'[c] = new
      /\ UNCHANGED <<request, slot, alive, runs>>
      /\ call[c].at = "wire"
  BY <1>1 DEF Sequence, OthersKept
<1>3. /\ outcome \in {"replay", "uncached", "misordered", "badsession"}
      /\ outcome \in {"replay", "uncached"} => n = k[s]
      /\ outcome = "misordered" => request[s].n # n \/ ~request[s].waiting
      /\ outcome = "badsession" => ~alive
  BY <1>2, OutcomeTells
<1>4. s \in Slots /\ n \in Nat /\ k[s] \in Nat
  BY Numbers, MaxReqAssumption
<1> HIDE DEF outcome
<1>5. body # NoBytes => n = k[s] /\ body = slot[s].bytes
  BY <1>3
<1> HIDE DEF body
<1>6. /\ new.slot = s /\ new.n = n /\ new.outcome = outcome
      /\ new.body = body /\ new.at = "sequenced"
  BY <1>1 DEF Call
<1> HIDE DEF new
<1>7. CallsInOrder'
  BY <1>2, <1>3, <1>6 DEF CallsInOrder, InOrder, OthersKept, Answered, Running
<1>8. SlotsInOrder(k)'
  BY <1>2 DEF SlotsInOrder, InOrder
<1>9. OutcomesInOrder(k)'
  BY <1>2, <1>3, <1>4, <1>5, <1>6 DEF OutcomesInOrder, InOrder, OthersKept, Answered
<1>10. \A d \in Calls : Running(d)' => Running(d) /\ d # c
  BY <1>2, <1>3, <1>6 DEF OthersKept, Running
<1>11. \A d \in Calls : call'[d].slot = call[d].slot /\ call'[d].n = call[d].n
  BY <1>2, <1>6 DEF OthersKept
<1>12. RunsInOrder(k)'
  BY <1>2, <1>10, <1>11 DEF RunsInOrder, InOrder, OthersKept, SameRequest
<1>13. BodiesInOrder(k)'
  <2> USE DEF InOrder, BodiesInOrder
  <2>1. \A d \in Calls : call'[d].body = IF d = c THEN body ELSE call[d].body
    BY <1>2, <1>6 DEF OthersKept
  <2>2. ASSUME NEW d \in Calls, Running(d)'
        PROVE  /\ \A e \in Calls : SameRequest(d, e)' => ~Answered(e)'
               /\ call'[d].n = k[call'[d].slot] => slot'[call'[d].slot].bytes = NoBytes
    BY <1>2, <1>5, <1>10, <1>11, <2>1, <2>2 DEF SameRequest, Answered
  <2>3. ASSUME NEW d \in Calls, Answered(d)'
        PROVE  /\ call'[d].body.of = call'[d].n
               /\ \A e \in Calls : Answered(e)' /\ SameRequest(d, e)' => call'[e].body = call'[d].body
               /\ call'[d].n = k[call'[d].slot] /\ slot'[call'[d].slot].bytes # NoBytes =>
                    slot'[call'[d].slot].bytes = call'[d].body
    <3>1. \A e \in Calls : Answered(e)' /\ SameRequest(c, e)' /\ e # c /\ body # NoBytes =>
            call[e].body = body
      BY <1>5, <1>11, <2>1 DEF SameRequest, Answered
    <3>2. CASE d = c
      <4>1. body # NoBytes /\ call'[d].body = body
        BY <2>1, <2>3, <3>2 DEF Answered
      <4>2. body.of = n
        BY <1>4, <1>5, <4>1
      <4> QED
        BY <1>2, <1>5, <1>11, <2>1, <3>1, <3>2, <4>1, <4>2
    <3>3. CASE d # c
      <4>1. Answered(d) /\ call'[d].body = call[d].body
        BY <2>1, <2>3, <3>3 DEF Answered
      <4>2. SameRequest(d, c)' => SameRequest(c, d)'
        BY DEF SameRequest
      <4>3. \A e \in Calls : Answered(e)' /\ SameRequest(d, e)' => call'[e].body = call'[d].body
        BY <1>11, <2>1, <2>3, <3>1, <3>3, <4>1, <4>2 DEF SameRequest, Answered
      <4> QED
        BY <1>2, <1>11, <4>1, <4>3
    <3> QED
      BY <3>2, <3>3
  <2>4. \A r \in Slots : slot'[r].bytes # NoBytes => slot'[r].bytes.of = k[r]
    BY <1>2
  <2> QED
    BY <2>2, <2>3, <2>4
<1> QED
  BY <1>7, <1>8, <1>9, <1>12, <1>13 DEF InOrder

(* A new request moves its slot on by one. *)
LEMMA AdmitKeeps ==
  ASSUME TypeOK, NEW k \in [Slots -> 0 .. MaxReq], InOrder(k), NEW c \in Calls, Sequence(c),
         SequenceOutcome(slot[call[c].slot], SeqidOf(call[c].n)) = "new"
  PROVE  \E j \in [Slots -> 0 .. MaxReq] : InOrder(j)'
<1> DEFINE s == call[c].slot
           n == call[c].n
           new == [call[c] EXCEPT !.at = "sequenced", !.outcome = "new", !.body = NoBytes]
           moved == Advance(slot[s], SeqidOf(n))
<1>1. call' = [call EXCEPT ![c] = new] /\ call \in [Calls -> Call]
  BY TypesByPart DEF Sequence, Typed
<1>2. /\ OthersKept(c) /\ call'[c] = new
      /\ UNCHANGED <<request, alive, runs>>
      /\ call[c].at = "wire"
  BY <1>1 DEF Sequence, OthersKept
<1>3. alive /\ n = k[s] + 1 /\ n = request[s].n
  BY <1>2, OutcomeTells
<1>4. /\ s \in Slots /\ n \in 0 .. MaxReq /\ n \in Nat /\ n >= 1
      /\ \A r \in Slots : k[r] \in Nat
  BY <1>2, <1>3, MaxReqAssumption DEF TypeOK, InOrder, CallsInOrder
<1>5. PICK j \in [Slots -> 0 .. MaxReq] : j = [k EXCEPT ![s] = n]
  BY <1>4
<1>6. /\ j[s] = n
      /\ \A r \in Slots : j[r] \in Nat /\ k[r] <= j[r] /\ (r # s => j[r] = k[r])
  BY <1>3, <1>4, <1>5, MaxReqAssumption
<1>7. slot' = [slot EXCEPT ![s] = moved] /\ slot \in [Slots -> Slot]
  BY TypesByPart DEF Sequence, Typed
<1>8. moved.sequenceid = SeqidOf(n) /\ ~moved.fresh /\ moved.bytes = NoBytes
  BY DEF Advance
<1>9. /\ new.slot = s /\ new.n = n /\ new.outcome = "new"
      /\ new.body = NoBytes /\ new.at = "sequenced"
  BY <1>1 DEF Call
<1> HIDE DEF new, moved
<1>10. slot'[s] = moved /\ \A r \in Slots \ {s} : slot'[r] = slot[r]
  BY <1>4, <1>7
<1>11. \A d \in Calls : call'[d].slot = call[d].slot /\ call'[d].n = call[d].n
  BY <1>2, <1>9 DEF OthersKept
<1>12. \A d \in Calls : /\ Answered(d)' => Answered(d) /\ d # c /\ call'[d].body = call[d].body
                        /\ Running(d)' => d = c \/ Running(d)
  BY <1>2, <1>9 DEF OthersKept, Answered, Running
\* No one was told anything of the new request before.
<1>13. \A d \in Calls : Answered(d) \/ Running(d) => ~SameRequest(c, d)
  <2>1. \A d \in Calls : Answered(d) \/ Running(d) => call[d].n <= k[call[d].slot]
    BY DEF InOrder, OutcomesInOrder, Running
  <2> QED
    BY <1>3, <1>4, <2>1, Numbers DEF SameRequest
<1>14. CallsInOrder'
  BY <1>2, <1>9 DEF CallsInOrder, InOrder, OthersKept, Answered, Running
<1>15. SlotsInOrder(j)'
  <2> SUFFICES ASSUME NEW r \in Slots
               PROVE  /\ slot'[r].sequenceid = SeqidOf(j[r])
                      /\ slot'[r].fresh <=> j[r] = 0
                      /\ j[r] <= request[r].n
                      /\ request[r].waiting => request[r].n >= 1
                      /\ alive => \/ request[r].n = j[r]
                                  \/ request[r].n = j[r] + 1 /\ request[r].waiting
    BY <1>2 DEF SlotsInOrder
  <2>1. CASE r = s
    BY <1>3, <1>4, <1>6, <1>8, <1>10, <2>1, Numbers
  <2>2. CASE r # s
    BY <1>6, <1>10, <2>2 DEF InOrder, SlotsInOrder
  <2> QED
    BY <2>1, <2>2
<1>16. OutcomesInOrder(j)'
  <2>1. \A d \in Calls : call[d].n <= k[call[d].slot] => call[d].n <= j[call[d].slot]
    BY <1>4, <1>6, Numbers
  <2>2. call[c].n <= j[call[c].slot]
    BY <1>4, <1>6
  <2> QED
    BY <1>2, <1>9, <2>1, <2>2 DEF OutcomesInOrder, InOrder, OthersKept, Answered
<1>17. RunsInOrder(j)'
  <2>1. \A r \in Slots, m \in Requests : runs[r][m] <= 1 /\ (runs[r][m] = 1 => m <= j[r])
    BY <1>4, <1>6 DEF InOrder, RunsInOrder, Requests
  <2>2. runs[s][n] = 0
    <3>1. n \in Requests /\ runs[s][n] \in Nat
      BY <1>4, Numbers DEF Requests
    <3> QED
      BY <1>3, <1>4, <3>1 DEF InOrder, RunsInOrder
  <2>3. ASSUME NEW d \in Calls, Running(d)'
        PROVE  /\ call'[d].at = "sequenced" => runs[call'[d].slot][call'[d].n] = 0
               /\ \A e \in Calls : Running(e)' /\ SameRequest(d, e)' => d = e
    <3>1. \A e \in Calls : SameRequest(d, e)' <=> SameRequest(d, e)
      BY <1>11 DEF SameRequest
    <3>2. CASE d = c
      BY <1>11, <1>12, <1>13, <2>2, <3>1, <3>2
    <3>3. CASE d # c
      <4>1. Running(d) /\ call'[d] = call[d] /\ ~SameRequest(c, d)
        BY <1>2, <1>12, <1>13, <2>3, <3>3 DEF OthersKept
      <4>2. ~SameRequest(d, c)
        BY <4>1 DEF SameRequest
      <4> QED
        BY <1>12, <3>1, <4>1, <4>2 DEF InOrder, RunsInOrder
    <3> QED
      BY <3>2, <3>3
  <2> QED
    BY <1>2, <2>1, <2>3 DEF RunsInOrder
<1>18. BodiesInOrder(j)'
  <2> USE DEF InOrder, BodiesInOrder
  <2>1. \A r \in Slots : slot'[r].bytes # NoBytes => slot'[r].bytes.of = j[r]
    BY <1>6, <1>8, <1>10
  <2>2. ASSUME NEW d \in Calls, Running(d)'
        PROVE  /\ \A e \in Calls : SameRequest(d, e)' => ~Answered(e)'
               /\ call'[d].n = j[call'[d].slot] => slot'[call'[d].slot].bytes = NoBytes
    <3>1. \A e \in Calls : SameRequest(d, e)' <=> SameRequest(d, e)
      BY <1>11 DEF SameRequest
    <3>2. CASE d = c
      BY <1>8, <1>10, <1>11, <1>12, <1>13, <3>1, <3>2
    <3>3. CASE d # c
      <4>1. Running(d) /\ call[d].slot \in Slots
        BY <1>12, <2>2, <3>3, Numbers
      <4>2. \A e \in Calls : SameRequest(d, e)' => ~Answered(e)'
        BY <1>12, <3>1, <4>1
      <4>3. call[d].n = j[call[d].slot] => slot'[call[d].slot].bytes = NoBytes
        BY <1>6, <1>8, <1>10, <4>1
      <4> QED
        BY <1>11, <4>2, <4>3
    <3> QED
      BY <3>2, <3>3
  <2>3. ASSUME NEW d \in Calls, Answered(d)'
        PROVE  /\ call'[d].body.of = call'[d].n
               /\ \A e \in Calls : Answered(e)' /\ SameRequest(d, e)' => call'[e].body = call'[d].body
               /\ call'[d].n = j[call'[d].slot] /\ slot'[call'[d].slot].bytes # NoBytes =>
                    slot'[call'[d].slot].bytes = call'[d].body
    <3>1. Answered(d) /\ call'[d].body = call[d].body /\ call[d].slot \in Slots
      BY <1>12, <2>3, Numbers
    <3>2. \A e \in Calls : Answered(e)' /\ SameRequest(d, e)' =>
            call'[e].body = call[e].body /\ Answered(e) /\ SameRequest(d, e)
      BY <1>11, <1>12 DEF SameRequest
    <3>3. call[d].n = j[call[d].slot] /\ slot'[call[d].slot].bytes # NoBytes =>
            slot'[call[d].slot].bytes = call[d].body
      BY <1>6, <1>8, <1>10, <3>1
    <3> QED
      BY <1>11, <3>1, <3>2, <3>3
  <2> QED
    BY <2>1, <2>2, <2>3
<1> QED
  BY <1>14, <1>15, <1>16, <1>17, <1>18 DEF InOrder

-----------------------------------------------------------------------------
(* The theorems. *)

LEMMA SlotsInit == Init => SlotsInv
<1> SUFFICES ASSUME Init PROVE SlotsInv
  OBVIOUS
<1>1. TypeOK
  <2>1. [n |-> 0, ask |-> NoAsk, waiting |-> FALSE] \in Request
    BY MaxReqAssumption DEF Request
  <2>2. [sequenceid |-> 0, fresh |-> TRUE, bytes |-> NoBytes] \in Slot
    BY SeqModAssumption DEF Slot, Seqids
  <2> QED
    BY <2>1, <2>2, TypesByPart, IdleType DEF Init, Typed
<1>2. PICK k \in [Slots -> 0 .. MaxReq] : k = [s \in Slots |-> 0]
  <2>1. [s \in Slots |-> 0] \in [Slots -> 0 .. MaxReq]
    BY MaxReqAssumption
  <2> QED
    BY <2>1
<1>3. Idle.at = "idle" /\ Idle.outcome = "none" /\ Idle.body = NoBytes /\ Idle.n = 0
  BY DEF Idle
<1>4. CallsInOrder /\ OutcomesInOrder(k)
  <2>1. \A c \in Calls : call[c] = Idle
    BY DEF Init
  <2> QED
    BY <1>3, <2>1 DEF CallsInOrder, OutcomesInOrder, Answered
<1>5. SlotsInOrder(k)
  <2>1. \A s \in Slots : k[s] = 0 /\ SeqidOf(k[s]) = 0
    BY <1>2, SeqidFirst
  <2> SUFFICES ASSUME NEW s \in Slots
               PROVE  /\ slot[s].sequenceid = SeqidOf(k[s])
                      /\ slot[s].fresh <=> k[s] = 0
                      /\ k[s] <= request[s].n
                      /\ request[s].waiting => request[s].n >= 1
                      /\ alive => request[s].n = k[s]
    BY DEF SlotsInOrder
  <2>2. request[s] = [n |-> 0, ask |-> NoAsk, waiting |-> FALSE]
    BY DEF Init
  <2>3. slot[s] = [sequenceid |-> 0, fresh |-> TRUE, bytes |-> NoBytes]
    BY DEF Init
  <2>4. request[s].n = 0 /\ slot[s].sequenceid = 0
    BY <2>2, <2>3
  <2>5. ~request[s].waiting
    BY <2>2
  <2>6. slot[s].fresh
    BY <2>3
  <2> QED
    BY <2>4, <2>5, <2>6, <2>1
<1>6. RunsInOrder(k) /\ BodiesInOrder(k)
  BY <1>2, <1>3 DEF Init, RunsInOrder, BodiesInOrder, Running, Answered
<1> QED
  BY <1>1, <1>4, <1>5, <1>6 DEF SlotsInv, InOrder

LEMMA SlotsStep == SlotsInv /\ [Next]_vars => SlotsInv'
<1> SUFFICES ASSUME TypeOK, NEW k \in [Slots -> 0 .. MaxReq], InOrder(k), [Next]_vars
             PROVE  \E j \in [Slots -> 0 .. MaxReq] : InOrder(j)'
  BY TypeStep DEF SlotsInv, InOrder
<1>1. CASE DestroySession
  BY <1>1, DestroyKeeps
<1>2. ASSUME NEW c \in Calls, Sequence(c)
      PROVE  \E j \in [Slots -> 0 .. MaxReq] : InOrder(j)'
  BY <1>2, RepeatKeeps, AdmitKeeps
<1>3. ASSUME NEW c \in Calls, Refuse(c) \/ Execute(c) \/ CachedReply(c) \/ Lose(c) \/ Receive(c)
      PROVE  InOrder(k)'
  BY <1>3, RefuseKeeps, ExecuteKeeps, CachedReplyKeeps, GoneKeeps
<1>4. ASSUME NEW c \in Calls, NEW s \in Slots, Retry(c, s) \/ \E ask \in Asks : Send(c, s, ask)
      PROVE  InOrder(k)'
  BY <1>4, TransmitKeeps
<1>5. CASE UNCHANGED vars
  BY <1>5 DEF vars, InOrder, CallsInOrder, SlotsInOrder, OutcomesInOrder, RunsInOrder,
              BodiesInOrder, Running, SameRequest, Answered
<1> QED
  BY <1>1, <1>2, <1>3, <1>4, <1>5 DEF Next

(* The slots, their client and the network in order, in every reachable      *)
(* state: sequence and cacheReply never let a slot and its client apart by    *)
(* more than the one request in flight.                                       *)
THEOREM SlotsInvariant == Spec => []SlotsInv
BY SlotsInit, SlotsStep, PTL DEF Spec

(* The slot table keeps its types; a slot's sequence ID stays a uint32.       *)
THEOREM SlotTypes == Spec => []TypeOK
BY SlotsInvariant, PTL DEF SlotsInv

(* sequence admits a request once, across every wrap of the sequence ID and   *)
(* whatever the network does to the transmissions, and the client that keeps  *)
(* to its slot's sequence is not told SEQ_MISORDERED.                         *)
THEOREM RunsExactlyOnce == Spec => []ExactlyOnce
<1>1. SlotsInv => ExactlyOnce
  <2> SUFFICES ASSUME SlotsInv PROVE ExactlyOnce
    OBVIOUS
  <2>1. PICK k \in [Slots -> 0 .. MaxReq] : InOrder(k)
    BY DEF SlotsInv
  <2> QED
    BY <2>1 DEF InOrder, RunsInOrder, CallsInOrder, ExactlyOnce
<1> QED
  BY <1>1, SlotsInvariant, PTL

(* Replays are the bytes of the one reply that was made: cacheReply's ticket  *)
(* check keeps a late reply out of a slot that has moved on.                  *)
THEOREM RepliesAlwaysAgree == Spec => []RepliesAgree
<1>1. SlotsInv => RepliesAgree
  <2> SUFFICES ASSUME SlotsInv PROVE RepliesAgree
    OBVIOUS
  <2>1. PICK k \in [Slots -> 0 .. MaxReq] : InOrder(k)
    BY DEF SlotsInv
  <2> QED
    BY <2>1 DEF InOrder, BodiesInOrder, RepliesAgree, Answered, SameRequest
<1> QED
  BY <1>1, SlotsInvariant, PTL
=============================================================================
