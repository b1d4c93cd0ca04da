-------------------------- MODULE Nfs4StateProofs --------------------------
(***************************************************************************)
(* The invariants of Nfs4State, for every number of clients, owners, files *)
(* and bytes and every value of the caps; what a lapsed lease takes away;  *)
(* and that the table implements LeasedLocks.                              *)
(***************************************************************************)
EXTENDS Nfs4State, TLAPS

(* What a revocation leaves is a part of what there was. *)
LEMMA RevocationShrinks ==
  ASSUME NEW hs
  PROVE  /\ OpensAfter(hs) \subseteq opens
         /\ LocksAfter(hs) \subseteq lockStates
         /\ HeldAfter(hs) \subseteq held
BY DEF OpensAfter, LocksAfter, HeldAfter

(* ... and it is what the clients that are not revoked have. *)
LEMMA RevocationSpares ==
  ASSUME NEW hs
  PROVE  /\ \A o \in opens : o \in OpensAfter(hs) <=> o.client \notin hs
         /\ \A l \in lockStates : l \in LocksAfter(hs) <=> l.client \notin hs
         /\ \A r \in held : r.client \notin hs => r \in HeldAfter(hs)
BY DEF OpensAfter, LocksAfter, HeldAfter, RangesOf

LEMMA RevocationTypes ==
  ASSUME TypeOK, StateidsIdentify, NEW hs
  PROVE  /\ RevokedAfter(hs) \subseteq Tombstone
         /\ FlaggedAfter(hs) \subseteq registered
         /\ PinnedAfter(hs) \subseteq Files
BY DEF TypeOK, StateidsIdentify, RevokedAfter, FlaggedAfter, PinnedAfter, StillRetained,
       StateOf, Tombstone, OpenState, LockState

LEMMA BumpSeqidType ==
  ASSUME NEW s \in Seqids PROVE BumpSeqid(s) \in Seqids
BY BoundsAssumption DEF Seqids, BumpSeqid

LEMMA ReplyTypes ==
  ASSUME NEW f \in Files, NEW me \in SUBSET Clients,
         NEW status \in {"SHARE_DENIED", "LOCKED", "DENIED"}
  PROVE  Refused(status, f, me) \subseteq Refusal /\ NoRefusal \subseteq Refusal
BY DEF Refused, NoRefusal, Refusal

-----------------------------------------------------------------------------
(* The shapes of a step: what the lemmas below go through one by one.      *)

ClientStep == \E c \in Clients :
  Register(c) \/ Lapse(c) \/ ReclaimComplete(c) \/ RenewBySession(c) \/ Sequence(c)
ForgetStep == \E cs \in SUBSET Clients : Forget(cs)
FreeStep == \E c \in Clients :
  (\E id \in Others : FreeRevoked(c, id)) \/ (\E l \in lockStates : FreeLockState(c, l))
RefuseStep == \E hs \in SUBSET lapsed : RevokeOnly(hs) /\ reply' \subseteq Refusal
OpenStep == \E c \in Clients, w \in Owners, f \in Files, access \in Accesses, deny \in Denies :
  OpenUpgrade(c, w, f, access, deny) \/ OpenNew(c, w, f, access, deny)
NarrowStep ==
  \E c \in Clients, o \in opens, seqid \in {0} \cup Seqids, access \in Accesses, deny \in Denies :
    OpenDowngrade(c, o, seqid, access, deny)
CloseStep == \E c \in Clients, o \in opens, seqid \in {0} \cup Seqids : Close(c, o, seqid)
GrantStep ==
  \E c \in Clients, o \in opens, w \in Owners, bs \in Spans, type \in LockTypes :
    o.client = c /\ LockGranted(c, o, w, bs, type)
UnlockStep ==
  \E c \in Clients, l \in lockStates, seqid \in {0} \cup Seqids, bs \in Spans :
    Locku(c, l, seqid, bs)

(* Every step is one of these nine.  A LOCK by lock stateid finds an open of *)
(* the same client, because lock states are backed and ids are unique.       *)
LEMMA StepCases ==
  ASSUME TypeOK, StateidsIdentify, RangesBacked, Next
  PROVE  \/ ClientStep \/ ForgetStep \/ FreeStep \/ RefuseStep \/ OpenStep \/ NarrowStep
         \/ CloseStep \/ GrantStep \/ UnlockStep
<1>0. \A f, me : ExpiredHolders(f, me) \in SUBSET lapsed
  BY DEF ExpiredHolders
<1>1. CASE LeaseStep
  <2>1. lapsed \in SUBSET Clients /\ \A c \in Clients : {c} \in SUBSET Clients
    BY DEF TypeOK
  <2> QED
    BY <1>1, <2>1
    DEF LeaseStep, Sweep, DestroyClientid, Superseded, ClientStep, ForgetStep, FreeStep
<1>2. CASE ShareStep
  <2>1. ASSUME NEW c \in Clients, NEW f \in Files, NEW access \in Accesses, NEW deny \in Denies,
               OpenDenied(c, f, access, deny)
        PROVE  RefuseStep
    BY <1>0, <2>1, ReplyTypes DEF OpenDenied, RefuseStep
  <2>2. ASSUME NEW f \in Files, NEW access \in Accesses, NEW me \in SUBSET Clients,
               ShareDenies(f, access, me)
        PROVE  RefuseStep
    BY <1>0, <2>2, ReplyTypes DEF ShareDenies, RefuseStep
  <2>3. \A me \in {{}} \cup {{c} : c \in Clients} : me \in SUBSET Clients
    OBVIOUS
  <2>4. CASE \E c \in Clients, f \in Files, access \in Accesses, deny \in Denies :
               \/ OpenDenied(c, f, access, deny)
               \/ \E w \in Owners :
                    OpenUpgrade(c, w, f, access, deny) \/ OpenNew(c, w, f, access, deny)
    BY <2>1, <2>4 DEF OpenStep
  <2>5. CASE \E c \in Clients, o \in opens, seqid \in {0} \cup Seqids :
               \/ Close(c, o, seqid)
               \/ \E access \in Accesses, deny \in Denies : OpenDowngrade(c, o, seqid, access, deny)
    BY <2>5 DEF CloseStep, NarrowStep
  <2>6. CASE \E f \in Files, access \in Accesses, me \in {{}} \cup {{c} : c \in Clients} :
               ShareDenies(f, access, me)
    BY <2>2, <2>3, <2>6
  <2> QED
    BY <1>2, <2>4, <2>5, <2>6 DEF ShareStep
<1>3. ASSUME NEW c \in Clients, NEW o \in opens, NEW w \in Owners, NEW bs \in Spans,
             NEW type \in LockTypes, LockDenied(c, o, w, bs, type)
      PROVE  RefuseStep
  <2>1. o.file \in Files
    BY DEF TypeOK, OpenState
  <2> QED
    BY <1>0, <1>3, <2>1, ReplyTypes DEF LockDenied, RefuseStep
<1>4. ASSUME NEW c \in Clients, NEW w \in Owners, NEW f \in Files, NEW bs \in Spans,
             NEW type \in LockTypes, Lockt(c, w, f, bs, type)
      PROVE  RefuseStep
  BY <1>0, <1>4, ReplyTypes DEF Lockt, RefuseStep
<1>5. ASSUME NEW c \in Clients, NEW l \in lockStates, NEW o \in opens,
             NEW seqid \in {0} \cup Seqids, Usable(c, l, seqid), o.id = l.open
      PROVE  o.client = c /\ l.owner \in Owners
  BY <1>5 DEF Usable, RangesBacked, StateidsIdentify, TypeOK, LockState
<1>6. CASE LockStep
  <2>1. PICK c \in Clients, bs \in Spans :
          \/ \E l \in lockStates, seqid \in {0} \cup Seqids : Locku(c, l, seqid, bs)
          \/ \E type \in LockTypes :
               \/ \E o \in opens, w \in Owners, seqid \in {0} \cup Seqids :
                    LockByOpen(c, o, w, seqid, bs, type)
               \/ \E l \in lockStates, seqid \in {0} \cup Seqids :
                    LockByState(c, l, seqid, bs, type)
               \/ \E w \in Owners, f \in Files : Lockt(c, w, f, bs, type)
    BY <1>6 DEF LockStep
  <2>2. ASSUME NEW l \in lockStates, NEW seqid \in {0} \cup Seqids, NEW type \in LockTypes,
               LockByState(c, l, seqid, bs, type)
        PROVE  RefuseStep \/ GrantStep
    BY <2>2, <1>3, <1>5 DEF LockByState, GrantStep
  <2>3. ASSUME NEW o \in opens, NEW w \in Owners, NEW seqid \in {0} \cup Seqids,
               NEW type \in LockTypes, LockByOpen(c, o, w, seqid, bs, type)
        PROVE  RefuseStep \/ GrantStep
    BY <2>3, <1>3 DEF LockByOpen, Usable, GrantStep
  <2>4. CASE \E l \in lockStates, seqid \in {0} \cup Seqids : Locku(c, l, seqid, bs)
    BY <2>4 DEF UnlockStep
  <2>5. ASSUME NEW type \in LockTypes,
               \/ \E o \in opens, w \in Owners, seqid \in {0} \cup Seqids :
                    LockByOpen(c, o, w, seqid, bs, type)
               \/ \E l \in lockStates, seqid \in {0} \cup Seqids :
                    LockByState(c, l, seqid, bs, type)
               \/ \E w \in Owners, f \in Files : Lockt(c, w, f, bs, type)
        PROVE  RefuseStep \/ GrantStep
    BY <2>5, <2>2, <2>3, <1>4
  <2> QED
    BY <2>1, <2>4, <2>5
<1> QED
  BY <1>1, <1>2, <1>6 DEF Next

-----------------------------------------------------------------------------
(* Type correctness. *)

(* One action at a time: every one of them keeps the tables of their types.  *)
(* A stateid's id is minted below the bound, and a flag is only ever set for *)
(* a client with state, which is registered (StateidsIdentify).              *)
LEMMA TypeStep ==
  ASSUME TypeOK, StateidsIdentify, RangesBacked, [Next]_vars
  PROVE  TypeOK'
<1> USE BoundsAssumption
<1>1. ASSUME NEW c \in Clients, Register(c) \/ Lapse(c) \/ ReclaimComplete(c) \/ RenewBySession(c)
      PROVE  TypeOK'
  BY <1>1 DEF TypeOK, Register, Lapse, ReclaimComplete, RenewBySession, NoRefusal
<1>2. ASSUME NEW c \in Clients, Sequence(c)
      PROVE  TypeOK'
  BY <1>2, RevocationShrinks, RevocationTypes DEF TypeOK, Sequence, RevokeBeside, NoRefusal
<1>3. ASSUME NEW cs, Forget(cs)
      PROVE  TypeOK'
  BY <1>3, RevocationShrinks, RevocationTypes DEF TypeOK, Forget, NoRefusal
<1>4. ASSUME NEW c \in Clients, NEW id \in Others, FreeRevoked(c, id)
      PROVE  TypeOK'
  BY <1>4 DEF TypeOK, FreeRevoked, NoRefusal, leases
<1>5. ASSUME NEW c \in Clients, NEW l \in lockStates, FreeLockState(c, l)
      PROVE  TypeOK'
  BY <1>5 DEF TypeOK, FreeLockState, StillRetained, NoRefusal, leases
<1>6. ASSUME NEW hs, RevokeOnly(hs), reply' \subseteq Refusal
      PROVE  TypeOK'
  BY <1>6, RevocationShrinks, RevocationTypes DEF TypeOK, RevokeOnly, RevokeBeside, leases
<1>7. ASSUME NEW c \in Clients, NEW f \in Files, NEW access \in Accesses, NEW deny \in Denies,
             NEW w \in Owners, OpenUpgrade(c, w, f, access, deny)
      PROVE  TypeOK'
  <2> DEFINE wider(o) == [o EXCEPT !.access = @ \cup access, !.deny = @ \cup deny,
                                   !.seqid = BumpSeqid(@)]
             hs == ExpiredHolders(f, {c})
  <2>1. PICK o \in OnFile(OpensAfter(hs), f) : opens' = (OpensAfter(hs) \ {o}) \cup {wider(o)}
    BY <1>7 DEF OpenUpgrade
  <2>2. o \in OpenState
    BY RevocationShrinks DEF OnFile, TypeOK
  <2>3. wider(o) \in OpenState
    BY <2>2, BumpSeqidType DEF OpenState
  <2>4. opens' \subseteq OpenState
    BY <2>1, <2>3, RevocationShrinks DEF TypeOK
  <2> QED
    BY <1>7, <2>4, RevocationShrinks, RevocationTypes
    DEF TypeOK, OpenUpgrade, RevokeBeside, NoRefusal, leases
<1>8. ASSUME NEW c \in Clients, NEW f \in Files, NEW access \in Accesses, NEW deny \in Denies,
             NEW w \in Owners, OpenNew(c, w, f, access, deny)
      PROVE  TypeOK'
  <2> DEFINE new == [id |-> nextOther, client |-> c, owner |-> w, file |-> f,
                     access |-> access, deny |-> deny, seqid |-> 1]
             hs == ExpiredHolders(f, {c})
  <2>1. nextOther <= MaxOther => new \in OpenState
    BY DEF TypeOK, OpenState, Others, Seqids
  <2>2. \/ opens' = OpensAfter(hs) /\ pinned' = PinnedAfter(hs) /\ UNCHANGED nextOther
        \/ /\ nextOther <= MaxOther /\ opens' = OpensAfter(hs) \cup {new}
           /\ pinned' = PinnedAfter(hs) \cup {f} /\ nextOther' = nextOther + 1
    BY <1>8 DEF OpenNew
  <2>3. opens' \subseteq OpenState /\ pinned' \subseteq Files /\ nextOther' \in 1 .. MaxOther + 1
    BY <2>1, <2>2, RevocationShrinks, RevocationTypes DEF TypeOK
  <2> QED
    BY <1>8, <2>3, RevocationShrinks, RevocationTypes
    DEF TypeOK, OpenNew, RevokeBeside, NoRefusal, leases
<1>9. ASSUME NEW c \in Clients, NEW o \in opens, NEW seqid \in {0} \cup Seqids,
             NEW access \in Accesses, NEW deny \in Denies, OpenDowngrade(c, o, seqid, access, deny)
      PROVE  TypeOK'
  <2>1. o \in OpenState /\ o.access \in SUBSET Modes /\ o.deny \in SUBSET Modes
    BY DEF TypeOK, OpenState
  <2>2. BumpSeqid(o.seqid) \in Seqids
    BY <2>1, BumpSeqidType DEF OpenState
  <2>3. access \in SUBSET Modes /\ deny \in SUBSET Modes
    OBVIOUS
  <2>4. [o EXCEPT !.access = access, !.deny = deny, !.seqid = BumpSeqid(@)] \in OpenState
    BY <2>1, <2>2, <2>3 DEF OpenState
  <2> QED
    BY <1>9, <2>4 DEF TypeOK, OpenDowngrade, NoRefusal, leases
<1>10. ASSUME NEW c \in Clients, NEW o \in opens, NEW seqid \in {0} \cup Seqids, Close(c, o, seqid)
       PROVE  TypeOK'
  BY <1>10 DEF TypeOK, Close, StillRetained, NoRefusal, leases
<1>11. ASSUME NEW c \in Clients, NEW o \in opens, NEW w \in Owners, NEW bs \in Spans,
              NEW type \in LockTypes, LockGranted(c, o, w, bs, type)
       PROVE  TypeOK'
  <2> DEFINE hs == ExpiredHolders(o.file, {c})
             mine == LockStateIn(o, w)
             new == [id |-> nextOther, client |-> c, owner |-> w, file |-> o.file,
                     open |-> o.id, seqid |-> 1]
             bumped == [(CHOOSE l \in mine : TRUE) EXCEPT !.seqid = BumpSeqid(@)]
             bytes == {[file |-> o.file, client |-> c, owner |-> w, open |-> o.id,
                        type |-> type, byte |-> b] : b \in bs}
  <2>1. o \in OpenState
    BY DEF TypeOK
  <2>2. nextOther <= MaxOther => new \in LockState
    BY <2>1 DEF TypeOK, OpenState, LockState, Others, Seqids
  <2>3. mine # {} => bumped \in LockState
    <3> SUFFICES ASSUME mine # {} PROVE bumped \in LockState
      OBVIOUS
    <3>1. (CHOOSE l \in mine : TRUE) \in LockState
      BY DEF TypeOK, LockStateIn
    <3> QED
      BY <3>1, BumpSeqidType DEF LockState
  <2>4. bytes \subseteq HeldByte
    BY <2>1 DEF OpenState, HeldByte, Spans, Bytes
  <2>5. \/ /\ lockStates' = LocksAfter(hs) /\ held' = HeldAfter(hs)
           /\ pinned' = PinnedAfter(hs) /\ UNCHANGED nextOther
        \/ /\ mine = {} => nextOther <= MaxOther
           /\ lockStates' = (LocksAfter(hs) \ mine) \cup {IF mine = {} THEN new ELSE bumped}
           /\ held' = SubtractRange(HeldAfter(hs), o.file, c, w, bs) \cup bytes
           /\ pinned' = PinnedAfter(hs) \cup {o.file}
           /\ nextOther' = IF mine = {} THEN nextOther + 1 ELSE nextOther
    BY <1>11 DEF LockGranted
  <2>6. lockStates' \subseteq LockState
    BY <2>2, <2>3, <2>5, RevocationShrinks DEF TypeOK
  <2>7. held' \subseteq HeldByte
    BY <2>4, <2>5, RevocationShrinks DEF TypeOK, SubtractRange
  <2>8. pinned' \subseteq Files /\ nextOther' \in 1 .. MaxOther + 1
    BY <2>1, <2>5, RevocationTypes DEF TypeOK, OpenState
  <2> QED
    BY <1>11, <2>6, <2>7, <2>8, RevocationShrinks, RevocationTypes
    DEF TypeOK, LockGranted, NoRefusal, leases
<1>12. ASSUME NEW c \in Clients, NEW l \in lockStates, NEW seqid \in {0} \cup Seqids, NEW bs,
              Locku(c, l, seqid, bs)
       PROVE  TypeOK'
  <2>1. [l EXCEPT !.seqid = BumpSeqid(@)] \in LockState
    BY BumpSeqidType DEF TypeOK, LockState
  <2> QED
    BY <1>12, <2>1 DEF TypeOK, Locku, StillRetained, SubtractRange, NoRefusal, leases
<1>13. CASE UNCHANGED vars
  BY <1>13 DEF TypeOK, vars, leases
<1> QED
  BY StepCases, <1>1, <1>2, <1>3, <1>4, <1>5, <1>6, <1>7, <1>8, <1>9, <1>10, <1>11, <1>12, <1>13
  DEF ClientStep, ForgetStep, FreeStep, RefuseStep, OpenStep, NarrowStep, CloseStep, GrantStep,
      UnlockStep

-----------------------------------------------------------------------------
(* Share reservations. *)

(* Fewer opens cannot conflict more. *)
LEMMA ShareShrinks ==
  ASSUME ShareReservations, opens' \subseteq opens
  PROVE  ShareReservations'
BY DEF ShareReservations

(* One more open, compatible with those that stay, does not conflict either. *)
LEMMA ShareExtends ==
  ASSUME ShareReservations, NEW kept, kept \subseteq opens, NEW new, opens' = kept \cup {new},
         \A p \in kept : p.file = new.file =>
           /\ new.access \cap p.deny = {} /\ p.access \cap new.deny = {}
           /\ <<p.client, p.owner>> # <<new.client, new.owner>>
  PROVE  ShareReservations'
<1> SUFFICES ASSUME NEW o \in opens', NEW p \in opens', o # p, o.file = p.file
             PROVE  o.access \cap p.deny = {} /\ <<o.client, o.owner>> # <<p.client, p.owner>>
  BY DEF ShareReservations
<1>1. CASE o \in kept /\ p \in kept
  BY <1>1 DEF ShareReservations
<1>2. CASE o = new /\ p \in kept
  BY <1>2
<1>3. CASE o \in kept /\ p = new
  BY <1>3
<1> QED
  BY <1>1, <1>2, <1>3

LEMMA ShareStepKeeps ==
  ASSUME TypeOK, StateidsIdentify, RangesBacked, ShareReservations, [Next]_vars
  PROVE  ShareReservations'
<1>1. CASE ClientStep
  BY <1>1, ShareShrinks, RevocationShrinks
  DEF ClientStep, Register, Lapse, ReclaimComplete, RenewBySession, Sequence
<1>2. CASE ForgetStep
  BY <1>2, ShareShrinks, RevocationShrinks DEF ForgetStep, Forget
<1>3. CASE FreeStep
  BY <1>3, ShareShrinks DEF FreeStep, FreeRevoked, FreeLockState
<1>4. CASE RefuseStep
  BY <1>4, ShareShrinks, RevocationShrinks DEF RefuseStep, RevokeOnly
(* The open is widened, or added, beside opens it was compared with.  The    *)
(* opens of other owners were all among them; its own is the one replaced.   *)
<1>5. ASSUME NEW c \in Clients, NEW w \in Owners, NEW f \in Files,
             NEW access \in Accesses, NEW deny \in Denies, OpenUpgrade(c, w, f, access, deny)
      PROVE  ShareReservations'
  <2> DEFINE left == OpensAfter(ExpiredHolders(f, {c}))
  <2>1. PICK o \in OnFile(left, f) :
          /\ o.client = c /\ o.owner = w
          /\ opens' = (left \ {o}) \cup
               {[o EXCEPT !.access = @ \cup access, !.deny = @ \cup deny, !.seqid = BumpSeqid(@)]}
    BY <1>5 DEF OpenUpgrade
  <2> DEFINE new == [o EXCEPT !.access = @ \cup access, !.deny = @ \cup deny,
                              !.seqid = BumpSeqid(@)]
             kept == left \ {o}
  <2>2. o \in opens /\ o.file = f /\ left \subseteq opens
    BY <2>1, RevocationShrinks DEF OnFile
  <2>3. new.access = o.access \cup access /\ new.deny = o.deny \cup deny
        /\ new.file = f /\ new.client = c /\ new.owner = w
    BY <2>1, <2>2 DEF TypeOK, OpenState
  <2>4. \A p \in left : p.file = f => access \cap p.deny = {} /\ deny \cap p.access = {}
    BY <1>5 DEF OpenUpgrade, ShareConflict, OnFile
  <2>5. \A p \in kept : p.file = f =>
          /\ new.access \cap p.deny = {} /\ p.access \cap new.deny = {}
          /\ <<p.client, p.owner>> # <<c, w>>
    BY <2>1, <2>2, <2>3, <2>4 DEF ShareReservations
  <2>6. \A p \in kept : p.file = new.file =>
          /\ new.access \cap p.deny = {} /\ p.access \cap new.deny = {}
          /\ <<p.client, p.owner>> # <<new.client, new.owner>>
    BY <2>3, <2>5
  <2>7. kept \subseteq opens /\ opens' = kept \cup {new}
    BY <2>1, <2>2
  <2> HIDE DEF kept, new
  <2> QED
    BY <2>6, <2>7, ShareExtends
<1>6. ASSUME NEW c \in Clients, NEW w \in Owners, NEW f \in Files,
             NEW access \in Accesses, NEW deny \in Denies, OpenNew(c, w, f, access, deny)
      PROVE  ShareReservations'
  <2> DEFINE left == OpensAfter(ExpiredHolders(f, {c}))
             new == [id |-> nextOther, client |-> c, owner |-> w, file |-> f,
                     access |-> access, deny |-> deny, seqid |-> 1]
  <2>1. left \subseteq opens
    BY RevocationShrinks
  <2>2. opens' = left \/ opens' = left \cup {new}
    BY <1>6 DEF OpenNew
  <2>3. \A p \in left : p.file = f =>
          /\ access \cap p.deny = {} /\ p.access \cap deny = {}
          /\ <<p.client, p.owner>> # <<c, w>>
    BY <1>6 DEF OpenNew, ShareConflict, OnFile
  <2>4. CASE opens' = left
    BY <2>1, <2>4, ShareShrinks
  <2>5. CASE opens' = left \cup {new}
    <3>1. new.file = f /\ new.access = access /\ new.deny = deny /\ new.client = c /\ new.owner = w
      OBVIOUS
    <3> HIDE DEF new, left
    <3>2. \A p \in left : p.file = new.file =>
          /\ new.access \cap p.deny = {} /\ p.access \cap new.deny = {}
          /\ <<p.client, p.owner>> # <<new.client, new.owner>>
      BY <2>3, <3>1
    <3> QED
      BY <2>1, <2>5, <3>2, ShareExtends
  <2> QED
    BY <2>2, <2>4, <2>5
<1>7. ASSUME NEW c \in Clients, NEW o \in opens, NEW seqid \in {0} \cup Seqids,
             NEW access \in Accesses, NEW deny \in Denies, OpenDowngrade(c, o, seqid, access, deny)
      PROVE  ShareReservations'
  <2> DEFINE new == [o EXCEPT !.access = access, !.deny = deny, !.seqid = BumpSeqid(@)]
             kept == opens \ {o}
  <2>1. new.access = access /\ new.deny = deny /\ new.file = o.file
        /\ new.client = o.client /\ new.owner = o.owner
    BY DEF TypeOK, OpenState
  <2>2. opens' = (opens \ {o}) \cup {new} /\ access \subseteq o.access /\ deny \subseteq o.deny
    BY <1>7 DEF OpenDowngrade
  <2>3. \A p \in opens \ {o} : p.file = o.file =>
          /\ access \cap p.deny = {} /\ p.access \cap deny = {}
          /\ <<p.client, p.owner>> # <<o.client, o.owner>>
    BY <2>2 DEF ShareReservations
  <2>4. \A p \in kept : p.file = new.file =>
          /\ new.access \cap p.deny = {} /\ p.access \cap new.deny = {}
          /\ <<p.client, p.owner>> # <<new.client, new.owner>>
    BY <2>1, <2>3
  <2>5. kept \subseteq opens /\ opens' = kept \cup {new}
    BY <2>2
  <2> HIDE DEF kept, new
  <2> QED
    BY <2>4, <2>5, ShareExtends
<1>8. CASE CloseStep
  BY <1>8, ShareShrinks DEF CloseStep, Close
<1>9. CASE GrantStep
  BY <1>9, ShareShrinks, RevocationShrinks DEF GrantStep, LockGranted
<1>10. CASE UnlockStep
  BY <1>10, ShareShrinks DEF UnlockStep, Locku
<1>11. CASE UNCHANGED vars
  BY <1>11, ShareShrinks DEF vars
<1> QED
  BY StepCases, <1>1, <1>2, <1>3, <1>4, <1>5, <1>6, <1>7, <1>8, <1>9, <1>10, <1>11
  DEF OpenStep, NarrowStep

-----------------------------------------------------------------------------
(* Byte-range locks. *)

LEMMA LocksShrink ==
  ASSUME LockExclusion, held' \subseteq held
  PROVE  LockExclusion'
BY DEF LockExclusion

LEMMA LockStepKeeps ==
  ASSUME TypeOK, StateidsIdentify, RangesBacked, LockExclusion, [Next]_vars
  PROVE  LockExclusion'
<1>1. CASE ClientStep
  BY <1>1, LocksShrink, RevocationShrinks
  DEF ClientStep, Register, Lapse, ReclaimComplete, RenewBySession, Sequence, RevokeBeside
<1>2. CASE ForgetStep
  BY <1>2, LocksShrink, RevocationShrinks DEF ForgetStep, Forget
<1>3. CASE FreeStep
  BY <1>3, LocksShrink DEF FreeStep, FreeRevoked, FreeLockState
<1>4. CASE RefuseStep
  BY <1>4, LocksShrink, RevocationShrinks DEF RefuseStep, RevokeOnly, RevokeBeside
<1>5. CASE OpenStep
  <2>1. ASSUME NEW hs, RevokeBeside(hs)
        PROVE  LockExclusion'
    BY <2>1, LocksShrink, RevocationShrinks DEF RevokeBeside
  <2>2. PICK c \in Clients, w \in Owners, f \in Files, access \in Accesses, deny \in Denies :
          OpenUpgrade(c, w, f, access, deny) \/ OpenNew(c, w, f, access, deny)
    BY <1>5 DEF OpenStep
  <2>3. RevokeBeside(ExpiredHolders(f, {c}))
    BY <2>2 DEF OpenUpgrade, OpenNew
  <2> QED
    BY <2>1, <2>3
<1>6. CASE NarrowStep
  BY <1>6, LocksShrink DEF NarrowStep, OpenDowngrade
<1>7. CASE CloseStep
  BY <1>7, LocksShrink DEF CloseStep, Close
(* The owner's own bytes of the range are gone, whatever open they were      *)
(* under, and no other owner's byte of the range conflicts.                  *)
<1>8. ASSUME NEW c \in Clients, NEW o \in opens, NEW w \in Owners, NEW bs \in Spans,
             NEW type \in LockTypes, LockGranted(c, o, w, bs, type)
      PROVE  LockExclusion'
  <2> DEFINE left == HeldAfter(ExpiredHolders(o.file, {c}))
             rest == SubtractRange(left, o.file, c, w, bs)
             bytes == {[file |-> o.file, client |-> c, owner |-> w, open |-> o.id,
                        type |-> type, byte |-> b] : b \in bs}
  <2>1. left \subseteq held
    BY RevocationShrinks
  <2>2. held' = left \/ held' = rest \cup bytes
    BY <1>8 DEF LockGranted
  <2>3. rest \subseteq held
    BY <2>1 DEF SubtractRange
  <2>4. type \in {"R", "W"} /\ \A r \in held : r.type \in {"R", "W"}
    BY BoundsAssumption DEF TypeOK, HeldByte, Modes
  <2>5. \A r \in rest : r.file = o.file /\ r.byte \in bs =>
          <<r.client, r.owner>> # <<c, w>> /\ r.type = "R" /\ type = "R"
    BY <1>8, <2>3, <2>4 DEF LockGranted, Conflicted, ConflictingByte, SubtractRange
  <2>6. ASSUME NEW r \in bytes
        PROVE  r.file = o.file /\ r.client = c /\ r.owner = w /\ r.type = type /\ r.byte \in bs
    OBVIOUS
  <2>7. \A r, q \in bytes : r.byte = q.byte => r = q
    OBVIOUS
  <2>8. CASE held' = rest \cup bytes
    <3> SUFFICES ASSUME NEW r \in held', NEW q \in held', r # q, r.file = q.file, r.byte = q.byte
                 PROVE  /\ <<r.client, r.owner>> # <<q.client, q.owner>>
                        /\ r.type = "R" /\ q.type = "R"
      BY DEF LockExclusion
    <3> HIDE DEF rest, bytes
    <3>1. CASE r \in rest /\ q \in rest
      BY <2>3, <3>1 DEF LockExclusion
    <3>2. CASE r \in bytes /\ q \in rest
      BY <2>5, <2>6, <3>2
    <3>3. CASE r \in rest /\ q \in bytes
      BY <2>5, <2>6, <3>3
    <3>4. CASE r \in bytes /\ q \in bytes
      BY <2>7, <3>4
    <3> QED
      BY <2>8, <3>1, <3>2, <3>3, <3>4
  <2> QED
    BY <2>1, <2>2, <2>8, LocksShrink
<1>9. CASE UnlockStep
  BY <1>9, LocksShrink DEF UnlockStep, Locku, SubtractRange
<1>10. CASE UNCHANGED vars
  BY <1>10, LocksShrink DEF vars
<1> QED
  BY StepCases, <1>1, <1>2, <1>3, <1>4, <1>5, <1>6, <1>7, <1>8, <1>9, <1>10 DEF GrantStep

-----------------------------------------------------------------------------
(* Stateids and what backs a range.  Both say how the tables refer to each   *)
(* other, and each needs the other: a lock state's open is found by its id.  *)
(* They are stated of any tables, so that a step can be taken in two halves: *)
(* what the revocation leaves, and what the request then does to that.       *)

Stands(r, l) == r.file = l.file /\ r.open = l.open /\ r.client = l.client /\ r.owner = l.owner

Backed(os, ls, rs) ==
  /\ \A r \in rs : \E l \in ls : Stands(r, l)
  /\ \A l \in ls : \E o \in os : o.id = l.open /\ o.client = l.client /\ o.file = l.file
  /\ \A l, m \in ls : l.open = m.open /\ l.owner = m.owner => l = m

Identified(xs, ts, next, known) ==
  /\ \A s, t \in xs : s.id = t.id => s = t
  /\ \A s \in xs : s.id < next /\ s.client \in known
  /\ \A t \in ts : t.id < next /\ t.client \in known /\ \A s \in xs : s.id # t.id

LEMMA BackedIsRangesBacked ==
  /\ RangesBacked <=> Backed(opens, lockStates, held)
  /\ RangesBacked' <=> Backed(opens', lockStates', held')
BY DEF RangesBacked, Backed, RangesOf, Stands

LEMMA IdentifiedIsStateidsIdentify ==
  /\ StateidsIdentify <=> Identified(opens \cup lockStates, revoked, nextOther, registered)
  /\ StateidsIdentify' <=> Identified(opens' \cup lockStates', revoked', nextOther', registered')
BY DEF StateidsIdentify, Identified

(* A revocation takes a client's ranges with the lock states they stand for. *)
LEMMA BackedAfterRevocation ==
  ASSUME RangesBacked, NEW hs
  PROVE  Backed(OpensAfter(hs), LocksAfter(hs), HeldAfter(hs))
<1>1. \A r \in HeldAfter(hs) : \E l \in LocksAfter(hs) : Stands(r, l)
  <2> SUFFICES ASSUME NEW r \in HeldAfter(hs) PROVE \E l \in LocksAfter(hs) : Stands(r, l)
    OBVIOUS
  <2>1. PICK l \in lockStates : r \in RangesOf(l)
    BY RevocationShrinks DEF RangesBacked
  <2>2. l.client \notin hs
    BY <2>1 DEF HeldAfter
  <2> QED
    BY <2>1, <2>2, RevocationSpares DEF RangesOf, Stands
<1>2. ASSUME NEW l \in LocksAfter(hs)
      PROVE  \E o \in OpensAfter(hs) : o.id = l.open /\ o.client = l.client /\ o.file = l.file
  <2>1. l \in lockStates /\ l.client \notin hs
    BY DEF LocksAfter
  <2>2. PICK o \in opens : o.id = l.open /\ o.client = l.client /\ o.file = l.file
    BY <2>1 DEF RangesBacked
  <2> QED
    BY <2>1, <2>2 DEF OpensAfter
<1>3. \A l, m \in LocksAfter(hs) : l.open = m.open /\ l.owner = m.owner => l = m
  BY RevocationShrinks DEF RangesBacked
<1> QED
  BY <1>1, <1>2, <1>3 DEF Backed

(* Any open may come, and one may be replaced by one of the same file and id. *)
LEMMA BackedByNewOpen ==
  ASSUME NEW os, NEW ls, NEW rs, Backed(os, ls, rs), NEW o, NEW new,
         o.id = new.id /\ o.client = new.client /\ o.file = new.file
  PROVE  Backed((os \ {o}) \cup {new}, ls, rs)
BY DEF Backed

LEMMA BackedByMoreOpens ==
  ASSUME NEW os, NEW ls, NEW rs, Backed(os, ls, rs), NEW more, os \subseteq more
  PROVE  Backed(more, ls, rs)
BY DEF Backed

(* Revoking entombs exactly the ids that leave the tables. *)
LEMMA IdentifiedAfterRevocation ==
  ASSUME TypeOK, StateidsIdentify, NEW hs
  PROVE  Identified(OpensAfter(hs) \cup LocksAfter(hs), RevokedAfter(hs), nextOther, registered)
<1>1. ASSUME NEW t \in RevokedAfter(hs), t \notin revoked
      PROVE  \E s \in opens \cup lockStates : s.client \in hs /\ t.client = s.client /\ t.id = s.id
  BY <1>1 DEF RevokedAfter, StateOf
<1>2. \A s \in OpensAfter(hs) \cup LocksAfter(hs) :
        s \in opens \cup lockStates /\ s.client \notin hs
  BY DEF OpensAfter, LocksAfter
<1> QED
  BY <1>1, <1>2 DEF StateidsIdentify, Identified

LEMMA IdentifiedShrinks ==
  ASSUME NEW xs, NEW ts, NEW next, NEW known, Identified(xs, ts, next, known),
         NEW ys, ys \subseteq xs, NEW us, us \subseteq ts
  PROVE  Identified(ys, us, next, known)
BY DEF Identified

LEMMA IdentifiedReplaced ==
  ASSUME NEW xs, NEW ts, NEW next, NEW known, Identified(xs, ts, next, known),
         NEW s \in xs, NEW new, new.id = s.id, new.client = s.client
  PROVE  Identified((xs \ {s}) \cup {new}, ts, next, known)
BY DEF Identified

LEMMA IdentifiedMinted ==
  ASSUME NEW xs, NEW ts, NEW next \in Nat, NEW known, Identified(xs, ts, next, known),
         \A s \in xs \cup ts : s.id \in Nat,
         NEW new, new.id = next, new.client \in known
  PROVE  Identified(xs \cup {new}, ts, next + 1, known)
BY DEF Identified

LEMMA OpensAreNotLocks ==
  ASSUME TypeOK, NEW o \in opens PROVE o \notin lockStates
BY DEF TypeOK, OpenState, LockState

LEMMA ReferencesStepKeeps ==
  ASSUME TypeOK, StateidsIdentify, RangesBacked, [Next]_vars
  PROVE  StateidsIdentify' /\ RangesBacked'
<1> USE BackedIsRangesBacked, IdentifiedIsStateidsIdentify
<1>1. CASE ClientStep
  <2>1. PICK c \in Clients :
          Register(c) \/ Lapse(c) \/ ReclaimComplete(c) \/ RenewBySession(c) \/ Sequence(c)
    BY <1>1 DEF ClientStep
  <2>2. CASE Sequence(c)
    BY <2>2, BackedAfterRevocation, IdentifiedAfterRevocation DEF Sequence, RevokeBeside
  <2>3. CASE Register(c)
    BY <2>3 DEF Register, StateidsIdentify, RangesBacked, RangesOf
  <2>4. CASE Lapse(c) \/ ReclaimComplete(c) \/ RenewBySession(c)
    BY <2>4 DEF Lapse, ReclaimComplete, RenewBySession
  <2> QED
    BY <2>1, <2>2, <2>3, <2>4
<1>2. CASE ForgetStep
  <2>1. PICK cs \in SUBSET Clients : Forget(cs)
    BY <1>2 DEF ForgetStep
  <2>2. RangesBacked'
    BY <2>1, BackedAfterRevocation DEF Forget
  <2>3. \A s \in opens' \cup lockStates' : s \in opens \cup lockStates /\ s.client \notin cs
    BY <2>1 DEF Forget, OpensAfter, LocksAfter
  <2>4. StateidsIdentify'
    BY <2>1, <2>3 DEF Forget, StateidsIdentify
  <2> QED
    BY <2>2, <2>4
<1>3. CASE FreeStep
  <2>1. ASSUME NEW c \in Clients, NEW id \in Others, FreeRevoked(c, id)
        PROVE  StateidsIdentify' /\ RangesBacked'
    BY <2>1, IdentifiedShrinks DEF FreeRevoked, leases
  <2>2. ASSUME NEW c \in Clients, NEW l \in lockStates, FreeLockState(c, l)
        PROVE  StateidsIdentify' /\ RangesBacked'
    <3>1. RangesBacked'
      BY <2>2 DEF FreeLockState, RangesBacked, RangesOf
    <3>2. opens' \cup lockStates' \subseteq opens \cup lockStates /\ revoked' = revoked
          /\ nextOther' = nextOther /\ registered' = registered
      BY <2>2 DEF FreeLockState, leases
    <3> QED
      BY <3>1, <3>2, IdentifiedShrinks
  <2> QED
    BY <1>3, <2>1, <2>2 DEF FreeStep
<1>4. CASE RefuseStep
  BY <1>4, BackedAfterRevocation, IdentifiedAfterRevocation
  DEF RefuseStep, RevokeOnly, RevokeBeside, leases
(* The widened open has the id, the client and the file of the one it replaces. *)
<1>5. ASSUME NEW c \in Clients, NEW w \in Owners, NEW f \in Files,
             NEW access \in Accesses, NEW deny \in Denies, OpenUpgrade(c, w, f, access, deny)
      PROVE  StateidsIdentify' /\ RangesBacked'
  <2> DEFINE hs == ExpiredHolders(f, {c})
             left == OpensAfter(hs)
  <2>1. PICK o \in OnFile(left, f) :
          opens' = (left \ {o}) \cup
            {[o EXCEPT !.access = @ \cup access, !.deny = @ \cup deny, !.seqid = BumpSeqid(@)]}
    BY <1>5 DEF OpenUpgrade
  <2> DEFINE new == [o EXCEPT !.access = @ \cup access, !.deny = @ \cup deny,
                              !.seqid = BumpSeqid(@)]
  <2>2. o \in left /\ o \in opens
    BY <2>1, RevocationShrinks DEF OnFile
  <2>3. new.id = o.id /\ new.client = o.client /\ new.file = o.file
    BY <2>2 DEF TypeOK, OpenState
  <2>4. RevokeBeside(hs) /\ nextOther' = nextOther /\ registered' = registered
    BY <1>5 DEF OpenUpgrade, leases
  <2> HIDE DEF new
  <2>5. RangesBacked'
    BY <2>1, <2>3, <2>4, BackedAfterRevocation, BackedByNewOpen DEF RevokeBeside, new
  <2>6. ((left \cup LocksAfter(hs)) \ {o}) \cup {new} = opens' \cup lockStates'
    BY <2>1, <2>2, <2>4, OpensAreNotLocks, RevocationShrinks DEF RevokeBeside, new
  <2>7. StateidsIdentify'
    BY <2>2, <2>3, <2>4, <2>6, IdentifiedAfterRevocation, IdentifiedReplaced DEF RevokeBeside
  <2> QED
    BY <2>5, <2>7
<1>6. ASSUME NEW c \in Clients, NEW w \in Owners, NEW f \in Files,
             NEW access \in Accesses, NEW deny \in Denies, OpenNew(c, w, f, access, deny)
      PROVE  StateidsIdentify' /\ RangesBacked'
  <2> DEFINE hs == ExpiredHolders(f, {c})
             left == OpensAfter(hs)
             new == [id |-> nextOther, client |-> c, owner |-> w, file |-> f,
                     access |-> access, deny |-> deny, seqid |-> 1]
  <2>1. RevokeBeside(hs) /\ registered' = registered /\ c \in registered
    BY <1>6 DEF OpenNew, Admitted, leases
  <2>2. \/ opens' = left /\ nextOther' = nextOther
        \/ opens' = left \cup {new} /\ nextOther' = nextOther + 1
    BY <1>6 DEF OpenNew
  <2>3. new.id = nextOther /\ new.client \in registered /\ nextOther \in Nat
    BY <2>1, BoundsAssumption DEF TypeOK
  <2> HIDE DEF new
  <2>4. RangesBacked'
    BY <2>1, <2>2, BackedAfterRevocation, BackedByMoreOpens DEF RevokeBeside
  <2>5. \A s \in (left \cup LocksAfter(hs)) \cup RevokedAfter(hs) : s.id \in Nat
    BY RevocationShrinks, RevocationTypes
    DEF TypeOK, OpenState, LockState, Tombstone, Others
  <2>6. StateidsIdentify'
    <3>1. CASE opens' = left /\ nextOther' = nextOther
      BY <2>1, <3>1, IdentifiedAfterRevocation DEF RevokeBeside
    <3>2. CASE opens' = left \cup {new} /\ nextOther' = nextOther + 1
      <4>1. opens' \cup lockStates' = (left \cup LocksAfter(hs)) \cup {new}
        BY <2>1, <3>2 DEF RevokeBeside
      <4> QED
        BY <2>1, <2>3, <2>5, <3>2, <4>1, IdentifiedAfterRevocation, IdentifiedMinted
        DEF RevokeBeside
    <3> QED
      BY <2>2, <3>1, <3>2
  <2> QED
    BY <2>4, <2>6
<1>7. ASSUME NEW c \in Clients, NEW o \in opens, NEW seqid \in {0} \cup Seqids,
             NEW access \in Accesses, NEW deny \in Denies, OpenDowngrade(c, o, seqid, access, deny)
      PROVE  StateidsIdentify' /\ RangesBacked'
  <2> DEFINE new == [o EXCEPT !.access = access, !.deny = deny, !.seqid = BumpSeqid(@)]
  <2>1. new.id = o.id /\ new.client = o.client /\ new.file = o.file
    BY DEF TypeOK, OpenState
  <2>2. /\ opens' = (opens \ {o}) \cup {new} /\ lockStates' = lockStates /\ held' = held
        /\ revoked' = revoked /\ nextOther' = nextOther /\ registered' = registered
    BY <1>7 DEF OpenDowngrade, leases
  <2> HIDE DEF new
  <2>3. ((opens \cup lockStates) \ {o}) \cup {new} = opens' \cup lockStates'
    BY <2>2, OpensAreNotLocks
  <2>4. StateidsIdentify'
    BY <2>1, <2>2, <2>3, IdentifiedReplaced
  <2>5. RangesBacked'
    BY <2>1, <2>2, BackedByNewOpen
  <2> QED
    BY <2>4, <2>5
(* CLOSE takes the lock states of the open along, none of which has a range. *)
<1>8. ASSUME NEW c \in Clients, NEW o \in opens, NEW seqid \in {0} \cup Seqids, Close(c, o, seqid)
      PROVE  StateidsIdentify' /\ RangesBacked'
  <2>1. /\ \A l \in lockStates : l.open = o.id => RangesOf(l) = {}
        /\ opens' = opens \ {o} /\ lockStates' = lockStates \ {l \in lockStates : l.open = o.id}
        /\ held' = held /\ revoked' = revoked /\ nextOther' = nextOther /\ registered' = registered
    BY <1>8 DEF Close, leases
  <2>2. \A r \in held : \E l \in lockStates' : r \in RangesOf(l)
    BY <2>1 DEF RangesBacked
  <2>3. \A l \in lockStates' : \E p \in opens' :
          p.id = l.open /\ p.client = l.client /\ p.file = l.file
    BY <2>1 DEF RangesBacked
  <2>4. RangesBacked'
    BY <2>1, <2>2, <2>3 DEF RangesBacked, RangesOf
  <2>5. StateidsIdentify'
    BY <2>1, IdentifiedShrinks
  <2> QED
    BY <2>4, <2>5
(* The lock state that takes the range is the only one of its owner under    *)
(* the open, found by LockStateIn or minted.                                 *)
<1>9. ASSUME NEW c \in Clients, NEW o \in opens, NEW w \in Owners, NEW bs \in Spans,
             NEW type \in LockTypes, o.client = c, LockGranted(c, o, w, bs, type)
      PROVE  StateidsIdentify' /\ RangesBacked'
  <2> DEFINE hs == ExpiredHolders(o.file, {c})
             left == HeldAfter(hs)
             mine == LockStateIn(o, w)
             new == [id |-> nextOther, client |-> c, owner |-> w, file |-> o.file,
                     open |-> o.id, seqid |-> 1]
             bumped == [(CHOOSE l \in mine : TRUE) EXCEPT !.seqid = BumpSeqid(@)]
             bytes == {[file |-> o.file, client |-> c, owner |-> w, open |-> o.id,
                        type |-> type, byte |-> b] : b \in bs}
  <2>1. /\ opens' = OpensAfter(hs) /\ revoked' = RevokedAfter(hs)
        /\ registered' = registered /\ c \in registered
    BY <1>9 DEF LockGranted, Admitted, leases
  <2>2. \/ lockStates' = LocksAfter(hs) /\ held' = left /\ nextOther' = nextOther
        \/ /\ mine = {} /\ lockStates' = LocksAfter(hs) \cup {new} /\ nextOther' = nextOther + 1
           /\ held' = SubtractRange(left, o.file, c, w, bs) \cup bytes
        \/ /\ mine # {} /\ lockStates' = (LocksAfter(hs) \ mine) \cup {bumped}
           /\ nextOther' = nextOther
           /\ held' = SubtractRange(left, o.file, c, w, bs) \cup bytes
    BY <1>9 DEF LockGranted
  <2>3. o \in OpensAfter(hs) /\ mine \subseteq LocksAfter(hs)
    BY <1>9 DEF OpensAfter, LocksAfter, LockStateIn, ExpiredHolders
  <2>4. \A l \in lockStates : l.open = o.id =>
          /\ l.client = c /\ l.file = o.file
          /\ l.owner = w => l \in mine
    BY <1>9 DEF RangesBacked, StateidsIdentify, LockStateIn
  <2>5. \A r \in bytes : r.file = o.file /\ r.open = o.id /\ r.client = c /\ r.owner = w
    OBVIOUS
  <2>6. SubtractRange(left, o.file, c, w, bs) \subseteq left
    BY DEF SubtractRange
  <2>7. Backed(OpensAfter(hs), LocksAfter(hs), left)
    BY BackedAfterRevocation
  <2> HIDE DEF left
  <2>8. /\ \A l \in LocksAfter(hs) : \E p \in OpensAfter(hs) :
             p.id = l.open /\ p.client = l.client /\ p.file = l.file
        /\ \A r \in left : \E l \in LocksAfter(hs) : Stands(r, l)
    BY <2>7 DEF Backed
  <2>9. CASE lockStates' = LocksAfter(hs) /\ held' = left /\ nextOther' = nextOther
    BY <2>1, <2>7, <2>9, IdentifiedAfterRevocation
  <2>10. CASE /\ mine = {} /\ lockStates' = LocksAfter(hs) \cup {new} /\ nextOther' = nextOther + 1
              /\ held' = SubtractRange(left, o.file, c, w, bs) \cup bytes
    <3>1. /\ new.id = nextOther /\ new.client = c /\ new.owner = w /\ new.file = o.file
          /\ new.open = o.id /\ nextOther \in Nat
      BY BoundsAssumption DEF TypeOK
    <3> HIDE DEF new, bytes, left, mine
    <3>2. \A s \in (OpensAfter(hs) \cup LocksAfter(hs)) \cup RevokedAfter(hs) : s.id \in Nat
      BY RevocationShrinks, RevocationTypes DEF TypeOK, OpenState, LockState, Tombstone, Others
    <3>3. opens' \cup lockStates' = (OpensAfter(hs) \cup LocksAfter(hs)) \cup {new}
      BY <2>1, <2>10
    <3>4. StateidsIdentify'
      BY <2>1, <2>10, <3>1, <3>2, <3>3, IdentifiedAfterRevocation, IdentifiedMinted
    <3>5. \A r \in held' : \E l \in lockStates' : Stands(r, l)
      <4>1. \A r \in bytes : Stands(r, new)
        BY <2>5, <3>1 DEF Stands
      <4>2. \A r \in left : \E l \in lockStates' : Stands(r, l)
        BY <2>8, <2>10
      <4> QED
        BY <2>6, <2>10, <4>1, <4>2
    <3>6. \A l \in lockStates' : \E p \in opens' :
            p.id = l.open /\ p.client = l.client /\ p.file = l.file
      <4>1. \E p \in OpensAfter(hs) : p.id = new.open /\ p.client = new.client /\ p.file = new.file
        BY <1>9, <2>3, <3>1
      <4> QED
        BY <2>1, <2>8, <2>10, <4>1
    <3>7. \A l \in LocksAfter(hs) : ~(l.open = new.open /\ l.owner = new.owner)
      BY <2>4, <2>10, <3>1, RevocationShrinks
    <3>8. \A l, m \in lockStates' : l.open = m.open /\ l.owner = m.owner => l = m
      BY <2>7, <2>10, <3>7 DEF Backed
    <3> QED
      BY <3>4, <3>5, <3>6, <3>8 DEF Backed
  <2>11. CASE /\ mine # {} /\ lockStates' = (LocksAfter(hs) \ mine) \cup {bumped}
              /\ nextOther' = nextOther
              /\ held' = SubtractRange(left, o.file, c, w, bs) \cup bytes
    <3>1. PICK l \in lockStates : mine = {l} /\ l.open = o.id /\ l.owner = w
      <4>1. mine # {}
        BY <2>11
      <4>2. PICK l \in mine : TRUE
        BY <4>1
      <4>3. \A k \in mine : k \in lockStates /\ k.open = o.id /\ k.owner = w
        BY DEF LockStateIn
      <4>4. \A k, m \in lockStates : k.open = m.open /\ k.owner = m.owner => k = m
        BY DEF RangesBacked
      <4> HIDE DEF mine
      <4>5. mine = {l}
        BY <4>2, <4>3, <4>4
      <4> QED
        BY <4>2, <4>3, <4>5
    <3>2. (CHOOSE k \in mine : TRUE) = l
      BY <3>1
    <3>3. /\ bumped.id = l.id /\ bumped.client = c /\ bumped.owner = w /\ bumped.file = o.file
          /\ bumped.open = o.id
      BY <2>4, <3>1, <3>2 DEF TypeOK, LockState
    <3> HIDE DEF bumped, bytes, left, mine
    <3>4. opens' \cup lockStates' = ((OpensAfter(hs) \cup LocksAfter(hs)) \ {l}) \cup {bumped}
      BY <2>1, <2>11, <3>1, OpensAreNotLocks, RevocationShrinks
    <3>5. l \in LocksAfter(hs) /\ l.client = c
      BY <2>3, <2>4, <3>1
    <3>6. StateidsIdentify'
      <4> DEFINE xs == OpensAfter(hs) \cup LocksAfter(hs)
      <4>1. Identified(xs, RevokedAfter(hs), nextOther, registered)
        BY IdentifiedAfterRevocation
      <4>2. l \in xs /\ bumped.id = l.id /\ bumped.client = l.client
        BY <3>3, <3>5
      <4> HIDE DEF xs
      <4>3. Identified((xs \ {l}) \cup {bumped}, RevokedAfter(hs), nextOther, registered)
        BY <4>1, <4>2, IdentifiedReplaced
      <4> QED
        BY <2>1, <2>11, <3>4, <4>3 DEF xs
    <3>7. \A r : Stands(r, l) => Stands(r, bumped)
      BY <2>4, <3>1, <3>3 DEF Stands
    <3>8. \A r \in held' : \E k \in lockStates' : Stands(r, k)
      <4>1. ASSUME NEW r \in left
            PROVE  \E k \in lockStates' : Stands(r, k)
        <5>1. PICK k \in LocksAfter(hs) : Stands(r, k)
          BY <2>8
        <5>2. CASE k = l
          BY <2>11, <3>7, <5>1, <5>2
        <5>3. CASE k # l
          BY <2>11, <3>1, <5>1, <5>3
        <5> QED
          BY <5>2, <5>3
      <4>2. \A r \in bytes : Stands(r, bumped)
        BY <2>5, <3>3 DEF Stands
      <4> QED
        BY <2>6, <2>11, <4>1, <4>2
    <3>9. \A k \in lockStates' : \E p \in opens' :
            p.id = k.open /\ p.client = k.client /\ p.file = k.file
      <4>1. \E p \in OpensAfter(hs) :
              p.id = bumped.open /\ p.client = bumped.client /\ p.file = bumped.file
        BY <1>9, <2>3, <3>3
      <4> QED
        BY <2>1, <2>8, <2>11, <4>1
    <3>10. \A k, m \in lockStates' : k.open = m.open /\ k.owner = m.owner => k = m
      BY <2>7, <2>11, <3>1, <3>3, <3>5 DEF Backed
    <3> QED
      BY <3>6, <3>8, <3>9, <3>10 DEF Backed
  <2> QED
    BY <2>2, <2>9, <2>10, <2>11
<1>10. ASSUME NEW c \in Clients, NEW l \in lockStates, NEW seqid \in {0} \cup Seqids,
              NEW bs \in Spans, Locku(c, l, seqid, bs)
       PROVE  StateidsIdentify' /\ RangesBacked'
  <2> DEFINE new == [l EXCEPT !.seqid = BumpSeqid(@)]
  <2>1. /\ new.id = l.id /\ new.client = l.client /\ new.file = l.file /\ new.open = l.open
        /\ new.owner = l.owner
    BY DEF TypeOK, LockState
  <2>2. /\ lockStates' = (lockStates \ {l}) \cup {new} /\ held' \subseteq held
        /\ opens' = opens /\ revoked' = revoked /\ nextOther' = nextOther
        /\ registered' = registered
    BY <1>10 DEF Locku, SubtractRange, leases
  <2> HIDE DEF new
  <2>3. ((opens \cup lockStates) \ {l}) \cup {new} = opens' \cup lockStates'
    BY <2>2, OpensAreNotLocks
  <2>4. StateidsIdentify'
    BY <2>1, <2>2, <2>3, IdentifiedReplaced
  <2>5. Backed(opens, lockStates', held)
    BY <2>1, <2>2 DEF Backed, Stands
  <2>6. RangesBacked'
    BY <2>2, <2>5 DEF Backed
  <2> QED
    BY <2>4, <2>6
<1>11. CASE UNCHANGED vars
  BY <1>11 DEF vars, leases
<1>12. CASE OpenStep \/ NarrowStep \/ CloseStep
  BY <1>12, <1>5, <1>6, <1>7, <1>8 DEF OpenStep, NarrowStep, CloseStep
<1>13. CASE GrantStep \/ UnlockStep
  BY <1>13, <1>9, <1>10 DEF GrantStep, UnlockStep
<1> QED
  BY StepCases, <1>1, <1>2, <1>3, <1>4, <1>11, <1>12, <1>13

-----------------------------------------------------------------------------
(* The theorems. *)

(* The strengthening all of them rest on: none of the five is inductive       *)
(* without the types and the references, whatever it says of its own table.   *)
TableInv ==
  TypeOK /\ StateidsIdentify /\ RangesBacked /\ ShareReservations /\ LockExclusion

LEMMA TableInvInit == Init => TableInv
BY BoundsAssumption
DEF Init, TableInv, TypeOK, StateidsIdentify, RangesBacked, ShareReservations, LockExclusion,
    NoRefusal

LEMMA TableInvStep == TableInv /\ [Next]_vars => TableInv'
BY TypeStep, ReferencesStepKeeps, ShareStepKeeps, LockStepKeeps DEF TableInv

THEOREM TableInvariant == Spec => []TableInv
BY TableInvInit, TableInvStep, PTL DEF Spec

(* The tables of the class keep their types: a stateid's seqid stays between  *)
(* 1 and its wrap, and nothing is keyed by a client that has no record.       *)
THEOREM TypeCorrectness == Spec => []TypeOK
BY TableInvariant, PTL DEF TableInv

(* open, openDowngrade, close and every revocation, in any order, leave no    *)
(* two opens of a file in conflict and no owner with two.                     *)
THEOREM SharesAreReserved == Spec => []ShareReservations
BY TableInvariant, PTL DEF TableInv

(* lock, locku and every revocation leave no byte held in conflict.           *)
THEOREM LocksAreExclusive == Spec => []LockExclusion
BY TableInvariant, PTL DEF TableInv

(* No range outlives the lock state and the open that can unlock it.          *)
THEOREM RangesAreBacked == Spec => []RangesBacked
BY TableInvariant, PTL DEF TableInv

(* A stateid names one state, and a tombstone none.                           *)
THEOREM StateidsAreUnique == Spec => []StateidsIdentify
BY TableInvariant, PTL DEF TableInv

-----------------------------------------------------------------------------
(***************************************************************************)
(* What a lapsed lease takes away, and what it leaves: the books kept      *)
(* beside the state, who may be refused because of whom, whose state is    *)
(* revoked, and that the table is a lock table with leases.                *)
(***************************************************************************)

(* What each step does to the state and to the books beside it.            *)

(* Only clients whose lease has lapsed are cleaned up on the way.            *)
LEMMA ExpiredHoldersLapsed ==
  ASSUME NEW f, NEW me
  PROVE  ExpiredHolders(f, me) \subseteq lapsed /\ ExpiredHolders(f, me) \cap me = {}
BY DEF ExpiredHolders

(* A range goes with its client, as every range has a lock state.            *)
LEMMA HeldAfterIsTheOthers ==
  ASSUME RangesBacked, NEW hs
  PROVE  HeldAfter(hs) = {r \in held : r.client \notin hs}
<1>1. ASSUME NEW r \in HeldAfter(hs)
      PROVE  r \in held /\ r.client \notin hs
  <2>1. PICK l \in lockStates : r \in RangesOf(l)
    BY RevocationShrinks DEF RangesBacked
  <2> QED
    BY <2>1, RevocationShrinks DEF HeldAfter, RangesOf
<1> QED
  BY <1>1, RevocationSpares

FilesOf(xs) == {x.file : x \in xs}

(* forgetFileIfEmpty, asked of every file that lost something, leaves exactly *)
(* the files of what is left.                                                *)
LEMMA RetainedIsExact ==
  ASSUME pinned = FilesOf(opens \cup held),
         NEW os, os \subseteq opens, NEW rs, rs \subseteq held, NEW fs,
         \A x \in (opens \cup held) \ (os \cup rs) : x.file \in fs
  PROVE  StillRetained(fs, os, rs) = FilesOf(os \cup rs)
<1>1. ASSUME NEW f \in FilesOf(os \cup rs)
      PROVE  f \in StillRetained(fs, os, rs)
  BY <1>1 DEF FilesOf, StillRetained
<1>2. ASSUME NEW f \in StillRetained(fs, os, rs)
      PROVE  f \in FilesOf(os \cup rs)
  <2>1. PICK x \in opens \cup held : x.file = f
    BY DEF FilesOf, StillRetained
  <2> QED
    BY <2>1 DEF FilesOf, StillRetained
<1> QED
  BY <1>1, <1>2

LEMMA BooksAfterRevocation ==
  ASSUME BooksMatchState, NEW hs
  PROVE  /\ PinnedAfter(hs) = FilesOf(OpensAfter(hs) \cup HeldAfter(hs))
         /\ FlaggedAfter(hs) = {t.client : t \in RevokedAfter(hs)}
<1>1. \A x \in (opens \cup held) \ (OpensAfter(hs) \cup HeldAfter(hs)) :
        x.file \in {s.file : s \in StateOf(hs)}
  <2> SUFFICES ASSUME NEW x \in opens \cup held, x \notin OpensAfter(hs), x \notin HeldAfter(hs)
               PROVE  \E s \in StateOf(hs) : x.file = s.file
    OBVIOUS
  <2>1. CASE x \in opens
    BY <2>1 DEF OpensAfter, StateOf
  <2>2. CASE x \in held
    BY <2>2 DEF HeldAfter, RangesOf, StateOf
  <2> QED
    BY <2>1, <2>2
<1>2. PinnedAfter(hs) = FilesOf(OpensAfter(hs) \cup HeldAfter(hs))
  BY <1>1, RevocationShrinks, RetainedIsExact DEF PinnedAfter, BooksMatchState, FilesOf
<1>3. FlaggedAfter(hs) = {t.client : t \in RevokedAfter(hs)}
  <2>1. ASSUME NEW c \in FlaggedAfter(hs)
        PROVE  \E t \in RevokedAfter(hs) : t.client = c
    <3>1. CASE c \in flagged
      BY <3>1 DEF RevokedAfter, BooksMatchState
    <3>2. ASSUME NEW s \in StateOf(hs), c = s.client
          PROVE  \E t \in RevokedAfter(hs) : t.client = c
      <4>1. [client |-> s.client, id |-> s.id] \in RevokedAfter(hs)
        BY DEF RevokedAfter
      <4> QED
        BY <3>2, <4>1
    <3> QED
      BY <3>1, <3>2 DEF FlaggedAfter
  <2>2. ASSUME NEW t \in RevokedAfter(hs)
        PROVE  t.client \in FlaggedAfter(hs)
    BY DEF FlaggedAfter, RevokedAfter, BooksMatchState
  <2> QED
    BY <2>1, <2>2
<1> QED
  BY <1>2, <1>3

LEMMA BooksByFiles ==
  BooksMatchState' <=> /\ pinned' = FilesOf(opens' \cup held')
                       /\ flagged' = {t.client : t \in revoked'}
BY DEF BooksMatchState, FilesOf

LEMMA BooksStepKeeps ==
  ASSUME TypeOK, StateidsIdentify, RangesBacked, BooksMatchState, [Next]_vars
  PROVE  BooksMatchState'
<1> USE BooksByFiles
<1>0. pinned = FilesOf(opens \cup held) /\ flagged = {t.client : t \in revoked}
  BY DEF BooksMatchState, FilesOf
<1>1. CASE ClientStep
  BY <1>0, <1>1, BooksAfterRevocation
  DEF ClientStep, Register, Lapse, ReclaimComplete, RenewBySession, Sequence, RevokeBeside
<1>2. CASE ForgetStep
  <2>1. PICK cs \in SUBSET Clients : Forget(cs)
    BY <1>2 DEF ForgetStep
  <2>2. flagged' = {t.client : t \in revoked'}
    BY <1>0, <2>1 DEF Forget
  <2> QED
    BY <2>1, <2>2, BooksAfterRevocation DEF Forget
(* The flag goes with the last tombstone that is acknowledged.               *)
<1>3. ASSUME NEW c \in Clients, NEW id \in Others, FreeRevoked(c, id)
      PROVE  BooksMatchState'
  <2>1. flagged' = {t.client : t \in revoked'}
    BY <1>0, <1>3 DEF FreeRevoked
  <2> QED
    BY <1>0, <1>3, <2>1 DEF FreeRevoked
<1>4. ASSUME NEW c \in Clients, NEW l \in lockStates, FreeLockState(c, l)
      PROVE  BooksMatchState'
  <2>1. StillRetained({l.file}, opens, held) = FilesOf(opens \cup held)
    BY <1>0, RetainedIsExact
  <2> QED
    BY <1>0, <1>4, <2>1 DEF FreeLockState
<1>5. CASE RefuseStep
  BY <1>5, BooksAfterRevocation DEF RefuseStep, RevokeOnly, RevokeBeside
<1>6. ASSUME NEW c \in Clients, NEW w \in Owners, NEW f \in Files,
             NEW access \in Accesses, NEW deny \in Denies, OpenUpgrade(c, w, f, access, deny)
      PROVE  BooksMatchState'
  <2> DEFINE hs == ExpiredHolders(f, {c})
             left == OpensAfter(hs)
  <2>1. PICK o \in OnFile(left, f) :
          opens' = (left \ {o}) \cup
            {[o EXCEPT !.access = @ \cup access, !.deny = @ \cup deny, !.seqid = BumpSeqid(@)]}
    BY <1>6 DEF OpenUpgrade
  <2> DEFINE new == [o EXCEPT !.access = @ \cup access, !.deny = @ \cup deny,
                              !.seqid = BumpSeqid(@)]
  <2>2. o \in left /\ new.file = o.file
    BY <2>1, RevocationShrinks DEF OnFile, TypeOK, OpenState
  <2>3. RevokeBeside(hs) /\ pinned' = PinnedAfter(hs) /\ opens' = (left \ {o}) \cup {new}
    BY <1>6, <2>1 DEF OpenUpgrade
  <2> HIDE DEF new, left
  <2>4. FilesOf(opens' \cup held') = FilesOf(left \cup held')
    BY <2>2, <2>3 DEF FilesOf
  <2> QED
    BY <2>3, <2>4, BooksAfterRevocation DEF RevokeBeside, left
<1>7. ASSUME NEW c \in Clients, NEW w \in Owners, NEW f \in Files,
             NEW access \in Accesses, NEW deny \in Denies, OpenNew(c, w, f, access, deny)
      PROVE  BooksMatchState'
  <2> DEFINE hs == ExpiredHolders(f, {c})
             left == OpensAfter(hs)
             new == [id |-> nextOther, client |-> c, owner |-> w, file |-> f,
                     access |-> access, deny |-> deny, seqid |-> 1]
  <2>1. \/ opens' = left /\ pinned' = PinnedAfter(hs)
        \/ opens' = left \cup {new} /\ pinned' = PinnedAfter(hs) \cup {f}
    BY <1>7 DEF OpenNew
  <2>2. RevokeBeside(hs) /\ new.file = f
    BY <1>7 DEF OpenNew
  <2> HIDE DEF new, left
  <2>3. FilesOf((left \cup {new}) \cup held') = FilesOf(left \cup held') \cup {f}
    BY <2>2 DEF FilesOf
  <2> QED
    BY <2>1, <2>2, <2>3, BooksAfterRevocation DEF RevokeBeside, left
<1>8. ASSUME NEW c \in Clients, NEW o \in opens, NEW seqid \in {0} \cup Seqids,
             NEW access \in Accesses, NEW deny \in Denies, OpenDowngrade(c, o, seqid, access, deny)
      PROVE  BooksMatchState'
  <2> DEFINE new == [o EXCEPT !.access = access, !.deny = deny, !.seqid = BumpSeqid(@)]
  <2>1. new.file = o.file
    BY DEF TypeOK, OpenState
  <2>2. /\ opens' = (opens \ {o}) \cup {new} /\ held' = held /\ pinned' = pinned
        /\ flagged' = flagged /\ revoked' = revoked
    BY <1>8 DEF OpenDowngrade
  <2> HIDE DEF new
  <2>3. FilesOf(opens' \cup held') = FilesOf(opens \cup held')
    BY <2>1, <2>2 DEF FilesOf
  <2> QED
    BY <1>0, <2>2, <2>3
<1>9. ASSUME NEW c \in Clients, NEW o \in opens, NEW seqid \in {0} \cup Seqids, Close(c, o, seqid)
      PROVE  BooksMatchState'
  <2>1. /\ opens' = opens \ {o} /\ held' = held /\ flagged' = flagged /\ revoked' = revoked
        /\ pinned' = StillRetained({o.file}, opens', held)
    BY <1>9 DEF Close
  <2>2. \A x \in (opens \cup held) \ (opens' \cup held) : x.file \in {o.file}
    BY <2>1
  <2> QED
    BY <1>0, <2>1, <2>2, RetainedIsExact
(* The open whose range is granted is still there, so its file stays pinned  *)
(* although ranges of the owner on it are replaced.                          *)
<1>10. ASSUME NEW c \in Clients, NEW o \in opens, NEW w \in Owners, NEW bs \in Spans,
              NEW type \in LockTypes, o.client = c, LockGranted(c, o, w, bs, type)
       PROVE  BooksMatchState'
  <2> DEFINE hs == ExpiredHolders(o.file, {c})
             left == HeldAfter(hs)
             rest == SubtractRange(left, o.file, c, w, bs)
             bytes == {[file |-> o.file, client |-> c, owner |-> w, open |-> o.id,
                        type |-> type, byte |-> b] : b \in bs}
  <2>1. \/ held' = left /\ pinned' = PinnedAfter(hs)
        \/ held' = rest \cup bytes /\ pinned' = PinnedAfter(hs) \cup {o.file}
    BY <1>10 DEF LockGranted
  <2>2. opens' = OpensAfter(hs) /\ revoked' = RevokedAfter(hs) /\ flagged' = FlaggedAfter(hs)
    BY <1>10 DEF LockGranted
  <2>3. \A x \in bytes : x.file = o.file
    OBVIOUS
  <2>4. rest \subseteq left /\ \A x \in left \ rest : x.file = o.file
    BY DEF SubtractRange
  <2>5. o \in OpensAfter(hs)
    BY <1>10, ExpiredHoldersLapsed DEF OpensAfter
  <2> HIDE DEF bytes, rest, left
  <2>6. FilesOf(OpensAfter(hs) \cup (rest \cup bytes)) = FilesOf(OpensAfter(hs) \cup left) \cup {o.file}
    BY <2>3, <2>4, <2>5 DEF FilesOf
  <2>7. o.file \in FilesOf(OpensAfter(hs) \cup left)
    BY <2>5 DEF FilesOf
  <2> QED
    BY <2>1, <2>2, <2>6, <2>7, BooksAfterRevocation DEF left
<1>11. ASSUME NEW c \in Clients, NEW l \in lockStates, NEW seqid \in {0} \cup Seqids,
              NEW bs \in Spans, Locku(c, l, seqid, bs)
       PROVE  BooksMatchState'
  <2>1. /\ opens' = opens /\ flagged' = flagged /\ revoked' = revoked /\ held' \subseteq held
        /\ pinned' = StillRetained({l.file}, opens, held')
        /\ \A x \in held \ held' : x.file = l.file
    BY <1>11 DEF Locku, SubtractRange
  <2>2. \A x \in (opens \cup held) \ (opens \cup held') : x.file \in {l.file}
    BY <2>1
  <2>3. StillRetained({l.file}, opens, held') = FilesOf(opens \cup held')
    BY <1>0, <2>1, <2>2, RetainedIsExact
  <2> QED
    BY <1>0, <2>1, <2>3
<1>12. CASE UNCHANGED vars
  BY <1>0, <1>12 DEF vars
<1> QED
  BY StepCases, <1>1, <1>2, <1>3, <1>4, <1>5, <1>6, <1>7, <1>8, <1>9, <1>10, <1>11, <1>12
  DEF FreeStep, OpenStep, NarrowStep, CloseStep, GrantStep, UnlockStep

-----------------------------------------------------------------------------
(* Who is refused because of whom.                                         *)

(* What is left after the expired holders of a file are gone is, on that     *)
(* file, held under a lease or by the requester.                             *)
LEMMA WhoIsLeft ==
  ASSUME TypeOK, StateidsIdentify, RangesBacked, NEW f, NEW me,
         NEW x \in OpensAfter(ExpiredHolders(f, me)) \cup HeldAfter(ExpiredHolders(f, me)),
         x.file = f
  PROVE  x.client \in registered \ lapsed \/ x.client \in me
<1>1. x \in opens \cup held /\ x.client \notin ExpiredHolders(f, me)
  BY HeldAfterIsTheOthers DEF OpensAfter
<1>2. x.client \in registered
  <2>1. CASE x \in opens
    BY <2>1 DEF StateidsIdentify
  <2>2. CASE x \in held
    BY <2>2 DEF RangesBacked, RangesOf, StateidsIdentify
  <2> QED
    BY <1>1, <2>1, <2>2
<1> QED
  BY <1>1, <1>2 DEF ExpiredHolders

(* A request that is refused by what stands after the clean-up says so, and  *)
(* the state it was refused by is what the step leaves.                      *)
LEMMA RefusedByTheLeft ==
  ASSUME TypeOK, StateidsIdentify, RangesBacked, NEW status, NEW f, NEW me,
         RevokeOnly(ExpiredHolders(f, me)), reply' = Refused(status, f, me),
         NEW x \in OpensAfter(ExpiredHolders(f, me)) \cup HeldAfter(ExpiredHolders(f, me)),
         x.file = f
  PROVE  ExpiredNeverDenies'
<1>1. x \in opens' \cup held' /\ registered' = registered /\ lapsed' = lapsed
  BY DEF RevokeOnly, RevokeBeside, leases
<1>2. x.client \in registered' \ lapsed' \/ x.client \in me
  BY <1>1, WhoIsLeft
<1>3. \A y \in reply' : y.file = f /\ y.client = me
  BY DEF Refused
<1> QED
  BY <1>1, <1>2, <1>3 DEF ExpiredNeverDenies

LEMMA NobodyRefused == NoRefusal = reply' => ExpiredNeverDenies'
BY DEF NoRefusal, ExpiredNeverDenies

LEMMA DenialStepKeeps ==
  ASSUME TypeOK, StateidsIdentify, RangesBacked, ExpiredNeverDenies, [Next]_vars
  PROVE  ExpiredNeverDenies'
<1>1. CASE LeaseStep
  BY <1>1, NobodyRefused
  DEF LeaseStep, Sweep, DestroyClientid, Superseded, Forget, Register, Lapse, ReclaimComplete,
      Sequence, RenewBySession, FreeRevoked, FreeLockState
<1>2. ASSUME NEW c \in Clients, NEW f \in Files, NEW access \in Accesses, NEW deny \in Denies,
             OpenDenied(c, f, access, deny)
      PROVE  ExpiredNeverDenies'
  <2>1. PICK o \in OnFile(OpensAfter(ExpiredHolders(f, {c})), f) : TRUE
    BY <1>2 DEF OpenDenied, ShareConflict
  <2> QED
    BY <1>2, <2>1, RefusedByTheLeft DEF OpenDenied, OnFile
<1>3. ASSUME NEW f \in Files, NEW access \in Accesses, NEW me, ShareDenies(f, access, me)
      PROVE  ExpiredNeverDenies'
  <2>1. CASE reply' = NoRefusal
    BY <2>1, NobodyRefused
  <2>2. CASE reply' # NoRefusal
    <3>1. PICK o \in OnFile(OpensAfter(ExpiredHolders(f, me)), f) : access \cap o.deny # {}
      BY <1>3, <2>2 DEF ShareDenies
    <3> QED
      BY <1>3, <2>2, <3>1, RefusedByTheLeft DEF ShareDenies, OnFile
  <2> QED
    BY <2>1, <2>2
<1>4. CASE ShareStep
  <2>1. ASSUME NEW c \in Clients, NEW f \in Files, NEW access \in Accesses, NEW deny \in Denies,
               NEW w \in Owners, OpenUpgrade(c, w, f, access, deny) \/ OpenNew(c, w, f, access, deny)
        PROVE  ExpiredNeverDenies'
    BY <2>1, NobodyRefused DEF OpenUpgrade, OpenNew
  <2>2. ASSUME NEW c \in Clients, NEW o \in opens, NEW seqid,
               \/ Close(c, o, seqid)
               \/ \E access \in Accesses, deny \in Denies : OpenDowngrade(c, o, seqid, access, deny)
        PROVE  ExpiredNeverDenies'
    BY <2>2, NobodyRefused DEF Close, OpenDowngrade
  <2> QED
    BY <1>2, <1>3, <1>4, <2>1, <2>2 DEF ShareStep
<1>5. ASSUME NEW c, NEW o \in opens, NEW w, NEW bs, NEW type,
             LockDenied(c, o, w, bs, type) \/ LockGranted(c, o, w, bs, type)
      PROVE  ExpiredNeverDenies'
  <2>1. CASE LockGranted(c, o, w, bs, type)
    BY <2>1, NobodyRefused DEF LockGranted
  <2>2. CASE LockDenied(c, o, w, bs, type)
    <3>1. PICK r \in HeldAfter(ExpiredHolders(o.file, {c})) : r.file = o.file
      BY <2>2 DEF LockDenied, Conflicted, ConflictingByte
    <3> QED
      BY <2>2, <3>1, RefusedByTheLeft DEF LockDenied
  <2> QED
    BY <1>5, <2>1, <2>2
<1>6. ASSUME NEW c \in Clients, NEW w, NEW f, NEW bs, NEW type, Lockt(c, w, f, bs, type)
      PROVE  ExpiredNeverDenies'
  <2>1. CASE reply' = NoRefusal
    BY <2>1, NobodyRefused
  <2>2. CASE reply' # NoRefusal
    <3>1. PICK r \in HeldAfter(ExpiredHolders(f, {c})) : r.file = f
      BY <1>6, <2>2 DEF Lockt, Conflicted, ConflictingByte
    <3> QED
      BY <1>6, <2>2, <3>1, RefusedByTheLeft DEF Lockt
  <2> QED
    BY <2>1, <2>2
<1>7. CASE LockStep
  <2>1. ASSUME NEW c, NEW l, NEW seqid, NEW bs, Locku(c, l, seqid, bs)
        PROVE  ExpiredNeverDenies'
    BY <2>1, NobodyRefused DEF Locku
  <2> QED
    BY <1>5, <1>6, <1>7, <2>1 DEF LockStep, LockByOpen, LockByState
<1>8. CASE UNCHANGED vars
  BY <1>8 DEF vars, leases, ExpiredNeverDenies
<1> QED
  BY <1>1, <1>4, <1>7, <1>8 DEF Next
-----------------------------------------------------------------------------
(* Whose state is revoked.                                                 *)

LEMMA RevocationTombstones ==
  ASSUME NEW hs, hs \subseteq lapsed, revoked' = RevokedAfter(hs)
  PROVE  \A t \in revoked' \ revoked : t.client \in lapsed
BY DEF RevokedAfter, StateOf

LEMMA OpenRevokes ==
  ASSUME NEW c, NEW w, NEW f, NEW access, NEW deny,
         OpenUpgrade(c, w, f, access, deny) \/ OpenNew(c, w, f, access, deny)
  PROVE  RevokeBeside(ExpiredHolders(f, {c})) /\ UNCHANGED leases
BY DEF OpenUpgrade, OpenNew

LEMMA RevokedStep ==
  ASSUME TypeOK, StateidsIdentify, RangesBacked, [Next]_vars
  PROVE  \A t \in revoked' \ revoked : t.client \in lapsed
<1>1. CASE ClientStep
  <2>1. ASSUME NEW c \in Clients, Sequence(c)
        PROVE  {c} \subseteq lapsed /\ revoked' = RevokedAfter({c})
    BY <2>1 DEF Sequence, RevokeBeside
  <2>2. ASSUME NEW c, Register(c) \/ Lapse(c) \/ ReclaimComplete(c) \/ RenewBySession(c)
        PROVE  revoked' = revoked
    BY <2>2 DEF Register, Lapse, ReclaimComplete, RenewBySession
  <2> QED
    BY <1>1, <2>1, <2>2, RevocationTombstones DEF ClientStep
<1>2. CASE ForgetStep \/ FreeStep \/ NarrowStep \/ CloseStep \/ UnlockStep
  BY <1>2 DEF ForgetStep, Forget, FreeStep, FreeRevoked, FreeLockState, NarrowStep, OpenDowngrade,
              CloseStep, Close, UnlockStep, Locku
<1>3. CASE RefuseStep
  BY <1>3, RevocationTombstones DEF RefuseStep, RevokeOnly, RevokeBeside
<1>4. CASE OpenStep
  <2>1. PICK c \in Clients, f \in Files : revoked' = RevokedAfter(ExpiredHolders(f, {c}))
    BY <1>4, OpenRevokes DEF OpenStep, RevokeBeside
  <2> QED
    BY <2>1, ExpiredHoldersLapsed, RevocationTombstones
<1>5. CASE GrantStep
  <2>1. PICK c \in Clients, o \in opens, w \in Owners, bs \in Spans, type \in LockTypes :
          LockGranted(c, o, w, bs, type)
    BY <1>5 DEF GrantStep
  <2>2. revoked' = RevokedAfter(ExpiredHolders(o.file, {c}))
    BY <2>1 DEF LockGranted
  <2> QED
    BY <2>2, ExpiredHoldersLapsed, RevocationTombstones
<1>6. CASE UNCHANGED vars
  BY <1>6 DEF vars
<1> QED
  BY StepCases, <1>1, <1>2, <1>3, <1>4, <1>5, <1>6

-----------------------------------------------------------------------------
(* The table is a lock table with leases.                                  *)

\* What LeasedLocks sees of a set of ranges: not the open they were granted under.
Granted(rs) == {[file |-> r.file, client |-> r.client, owner |-> r.owner,
                 type |-> r.type, byte |-> r.byte] : r \in rs}

LEMMA WithoutIsHeldAfter ==
  ASSUME RangesBacked, NEW hs
  PROVE  Leased!Without(hs) = Granted(HeldAfter(hs))
BY HeldAfterIsTheOthers DEF Leased!Without, Granted

LEMMA GrantedSubtracts ==
  ASSUME NEW rs, NEW f, NEW c, NEW w, NEW bs
  PROVE  Granted(SubtractRange(rs, f, c, w, bs)) =
           {g \in Granted(rs) : ~(g.file = f /\ g.client = c /\ g.owner = w /\ g.byte \in bs)}
BY DEF Granted, SubtractRange

LEMMA ExpiryRefines ==
  ASSUME TypeOK, RangesBacked, NEW hs, hs \subseteq lapsed, held' = HeldAfter(hs),
         lapsed' \subseteq lapsed, registered' = registered
  PROVE  Leased!Next
<1>1. hs \in SUBSET Clients
  BY DEF TypeOK
<1>2. Leased!Expire(hs)
  BY WithoutIsHeldAfter DEF Leased!Expire, Granted
<1> QED
  BY <1>1, <1>2 DEF Leased!Next

LEMMA GrantRefines ==
  ASSUME TypeOK, StateidsIdentify, RangesBacked, NEW c \in Clients, NEW o \in opens,
         NEW w \in Owners, NEW bs \in Spans, NEW type \in LockTypes, LockGranted(c, o, w, bs, type)
  PROVE  Leased!Next
<1> DEFINE hs == ExpiredHolders(o.file, {c})
           left == HeldAfter(hs)
           bytes == {[file |-> o.file, client |-> c, owner |-> w, open |-> o.id,
                      type |-> type, byte |-> b] : b \in bs}
           new == {[file |-> o.file, client |-> c, owner |-> w, type |-> type, byte |-> b] : b \in bs}
<1>1. hs \subseteq lapsed /\ hs \in SUBSET (lapsed \ {c})
  BY ExpiredHoldersLapsed
<1>2. registered' = registered /\ lapsed' = lapsed /\ c \in registered
  BY DEF LockGranted, leases, Admitted
<1>3. \/ held' = left
      \/ held' = SubtractRange(left, o.file, c, w, bs) \cup bytes
  BY DEF LockGranted
<1>4. CASE held' = left
  BY <1>1, <1>2, <1>4, ExpiryRefines
<1>5. CASE held' = SubtractRange(left, o.file, c, w, bs) \cup bytes
  <2>1. Granted(bytes) = new
    <3>1. ASSUME NEW b \in bs
          PROVE  [file |-> o.file, client |-> c, owner |-> w, type |-> type, byte |-> b]
                   \in Granted(bytes)
      <4>1. [file |-> o.file, client |-> c, owner |-> w, open |-> o.id, type |-> type, byte |-> b]
              \in bytes
        OBVIOUS
      <4> QED
        BY <4>1 DEF Granted
    <3>2. ASSUME NEW r \in bytes
          PROVE  [file |-> r.file, client |-> r.client, owner |-> r.owner, type |-> r.type,
                  byte |-> r.byte] \in new
      <4>1. PICK b \in bs : r = [file |-> o.file, client |-> c, owner |-> w, open |-> o.id,
                                 type |-> type, byte |-> b]
        OBVIOUS
      <4> QED
        BY <4>1
    <3>3. new \subseteq Granted(bytes)
      BY <3>1
    <3>4. Granted(bytes) \subseteq new
      <4> HIDE DEF bytes, new
      <4> QED
        BY <3>2 DEF Granted
    <3> QED
      BY <3>3, <3>4
  <2>2. \A g \in Granted(left), h \in new : ~Leased!Conflicts(g, h)
    <3>1. \A r \in left : ~ConflictingByte(r, c, w, o.file, bs, type)
      BY DEF LockGranted, Conflicted
    <3>2. ASSUME NEW r \in left, NEW b \in bs,
                 Leased!Conflicts([file |-> r.file, client |-> r.client, owner |-> r.owner,
                                   type |-> r.type, byte |-> r.byte],
                                  [file |-> o.file, client |-> c, owner |-> w,
                                   type |-> type, byte |-> b])
          PROVE  FALSE
      BY <3>1, <3>2 DEF ConflictingByte, Leased!Conflicts
    <3> QED
      BY <3>2 DEF Granted
  <2>3. Granted(held') = new \cup
          {g \in Granted(left) :
             ~(g.file = o.file /\ g.client = c /\ g.owner = w /\ g.byte \in bs)}
    <3> HIDE DEF bytes, new, left
    <3>1. Granted(held') = Granted(SubtractRange(left, o.file, c, w, bs)) \cup Granted(bytes)
      BY <1>5 DEF Granted
    <3> QED
      BY <2>1, <3>1, GrantedSubtracts
  <2>4. Leased!Without(hs) = Granted(left)
    BY WithoutIsHeldAfter
  <2>5. Leased!Acquire(c, w, o.file, bs, type)
    <3> HIDE DEF left, hs
    <3> QED
      BY <1>1, <1>2, <2>2, <2>3, <2>4 DEF Leased!Acquire, Granted
  <2>6. o.file \in Files /\ bs \in SUBSET Bytes /\ type \in {"R", "W"}
    BY BoundsAssumption DEF TypeOK, OpenState, Spans, Bytes, Modes
  <2> QED
    BY <2>5, <2>6 DEF Leased!Next
<1> QED
  BY <1>3, <1>4, <1>5

LEMMA LeasedInit == Init => Leased!Init
BY DEF Init, Leased!Init

(* Every step of the table is a step of the lock table with leases, or one it *)
(* does not see: opens, tombstones and flags are not part of its promise.     *)
LEMMA LeasedStep ==
  ASSUME TypeOK, StateidsIdentify, RangesBacked, [Next]_vars
  PROVE  [Leased!Next]_Leased!vars
<1>1. ASSUME held' = held, registered' = registered, lapsed' = lapsed
      PROVE  UNCHANGED Leased!vars
  BY <1>1 DEF Leased!vars
<1>2. ASSUME NEW c \in Clients, Register(c)
      PROVE  Leased!Join(c)
  BY <1>2 DEF Register, Leased!Join
<1>3. ASSUME NEW c \in Clients, Lapse(c)
      PROVE  Leased!Lapse(c)
  BY <1>3 DEF Lapse, Leased!Lapse
<1>4. ASSUME NEW c \in Clients, ReclaimComplete(c)
      PROVE  UNCHANGED Leased!vars
  BY <1>1, <1>4 DEF ReclaimComplete
<1>5. ASSUME NEW c \in Clients, Sequence(c)
      PROVE  Leased!Next
  BY <1>5, ExpiryRefines DEF Sequence, RevokeBeside
<1>6. ASSUME NEW c \in Clients, RenewBySession(c)
      PROVE  Leased!Next
  <2>1. HeldAfter({}) = held
    BY DEF HeldAfter
  <2> QED
    BY <1>6, <2>1, ExpiryRefines DEF RenewBySession
<1>7. ASSUME NEW cs \in SUBSET Clients, Forget(cs)
      PROVE  Leased!Leave(cs)
  BY <1>7, WithoutIsHeldAfter DEF Forget, Leased!Leave, Granted
<1>8. CASE FreeStep \/ NarrowStep \/ CloseStep
  BY <1>1, <1>8 DEF FreeStep, FreeRevoked, FreeLockState, NarrowStep, OpenDowngrade, CloseStep,
                    Close, leases
<1>9. CASE RefuseStep
  BY <1>9, ExpiryRefines DEF RefuseStep, RevokeOnly, RevokeBeside, leases
<1>10. CASE OpenStep
  <2>1. PICK c \in Clients, f \in Files :
          /\ held' = HeldAfter(ExpiredHolders(f, {c}))
          /\ registered' = registered /\ lapsed' = lapsed
    BY <1>10, OpenRevokes DEF OpenStep, RevokeBeside, leases
  <2> QED
    BY <2>1, ExpiredHoldersLapsed, ExpiryRefines
<1>11. CASE GrantStep
  BY <1>11, GrantRefines DEF GrantStep
<1>12. ASSUME NEW c \in Clients, NEW l \in lockStates, NEW seqid \in {0} \cup Seqids,
              NEW bs \in Spans, Locku(c, l, seqid, bs)
       PROVE  Leased!Next
  <2>1. Granted(held') = {g \in Granted(held) :
          ~(g.file = l.file /\ g.client = c /\ g.owner = l.owner /\ g.byte \in bs)}
    BY <1>12, GrantedSubtracts DEF Locku
  <2>2. Leased!Release(c, l.owner, l.file, bs)
    BY <1>12, <2>1 DEF Locku, Leased!Release, Granted, leases
  <2>3. bs \subseteq Bytes
    BY BoundsAssumption DEF Spans, Bytes
  <2>4. l.owner \in Owners /\ l.file \in Files
    BY DEF TypeOK, LockState
  <2> QED
    BY <2>2, <2>3, <2>4 DEF Leased!Next
<1>13. CASE UNCHANGED vars
  BY <1>1, <1>13 DEF vars, leases
<1>14. CASE ClientStep \/ ForgetStep \/ UnlockStep
  BY <1>14, <1>2, <1>3, <1>4, <1>5, <1>6, <1>7, <1>12
  DEF ClientStep, ForgetStep, UnlockStep, Leased!Next
<1> QED
  BY StepCases, <1>8, <1>9, <1>10, <1>11, <1>13, <1>14

-----------------------------------------------------------------------------
(* The theorems. *)

(* onFileRetained and onFileReleased bracket the state of a file exactly, and *)
(* SEQ4_STATUS_EXPIRED_ALL_STATE_REVOKED is up exactly while a revoked        *)
(* stateid is unacknowledged, over every order of opens, closes, locks,       *)
(* revocations and FREE_STATEIDs.                                             *)
THEOREM BooksAreExact == Spec => []BooksMatchState
<1>1. Init => BooksMatchState
  BY DEF Init, BooksMatchState
<1> QED
  BY <1>1, BooksStepKeeps, TableInvariant, PTL DEF Spec, TableInv

(* Behind every SHARE_DENIED, LOCKED and DENIED of open, lock, lockt and the  *)
(* I/O check stands a holder with a lease or the requester itself.            *)
THEOREM OnlyLeasesDeny == Spec => []ExpiredNeverDenies
<1>1. Init => ExpiredNeverDenies
  BY DEF Init, ExpiredNeverDenies, NoRefusal
<1> QED
  BY <1>1, DenialStepKeeps, TableInvariant, PTL DEF Spec, TableInv

(* No step revokes the state of a client whose lease is good (#revoke).       *)
THEOREM OnlyTheLapsedAreRevoked == Spec => RevokedOnlyWhenLapsed
BY RevokedStep, TableInvariant, PTL DEF Spec, TableInv, RevokedOnlyWhenLapsed

(* The table implements the lock table with leases: a byte once granted stays *)
(* its owner's until the owner unlocks it, leaves, or has lost its lease.     *)
THEOREM TableIsLeasedLocks == Spec => LeasedSpec
BY LeasedInit, LeasedStep, TableInvariant, PTL DEF Spec, TableInv, LeasedSpec, Leased!Spec
=============================================================================
