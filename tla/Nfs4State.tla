------------------------------ MODULE Nfs4State ------------------------------
(***************************************************************************)
(* The NFSv4.1 state table of src/nfs/v4/state.ts: which clients hold a    *)
(* lease, the share reservations of their opens, the byte ranges of their  *)
(* lock states, and what a lapsed lease takes away.                        *)
(*                                                                         *)
(* Every method of the class is synchronous, so every method is one        *)
(* action.  A lease is not a clock here: Lapse(c) is the moment the        *)
(* client's `now - renewed` passes the lease period.  A range is kept byte *)
(* by byte; ByteRanges.tla shows the list of ranges the code keeps is the  *)
(* same thing.  Of client registration (EXCHANGE_ID, CREATE_SESSION) only  *)
(* this is here: a client record appears, renews and disappears.           *)
(***************************************************************************)
EXTENDS Integers, FiniteSets

CONSTANTS
  Clients,                \* the client IDs the table may mint
  Owners,                 \* open-owner and lock-owner strings
  Files,                  \* the session's file keys
  MaxByte,                \* the last byte position of a file
  Accesses,               \* the share_access values the clients ask for
  Denies,                 \* the share_deny values the clients ask for
  LockTypes,              \* the lock types the clients ask for
  MaxOther,               \* bound: stateids minted in a behaviour
  MaxSeqid,               \* what a stateid's seqid wraps at, UINT32_MAX
  MaxOpensPerFile,
  MaxLocksPerFile,
  RequireReclaimComplete

Modes == {"R", "W"}

ASSUME BoundsAssumption ==
  /\ Accesses \subseteq (SUBSET Modes) \ {{}}
  /\ Denies \subseteq SUBSET Modes
  /\ LockTypes \subseteq Modes
  /\ MaxByte \in Nat
  /\ MaxOther \in Nat
  /\ MaxSeqid \in Nat \ {0}
  /\ MaxOpensPerFile \in Nat \ {0}
  /\ MaxLocksPerFile \in Nat \ {0}
  /\ RequireReclaimComplete \in BOOLEAN

VARIABLES
  minted,      \* clients that ever had a record: client IDs are not reused
  registered,  \* clients with a record now, #byClientid
  lapsed,      \* registered clients whose lease has expired
  reclaimed,   \* clients that sent the global RECLAIM_COMPLETE
  flagged,     \* clients whose SEQ4_STATUS_EXPIRED_ALL_STATE_REVOKED bit is set
  revoked,     \* tombstones, per client
  opens,       \* open states
  lockStates,  \* lock states
  held,        \* granted byte ranges, one record per byte
  pinned,      \* files with a FileState, the session's #pinnedFiles
  nextOther,   \* the stateid counter
  reply        \* the refusal the last request got, if it got one

leases == <<minted, registered, lapsed, reclaimed>>
vars == <<leases, flagged, revoked, opens, lockStates, held, pinned, nextOther, reply>>

Others == 1 .. MaxOther
Bytes == 0 .. MaxByte
Seqids == 1 .. MaxSeqid

OpenState == [id : Others, client : Clients, owner : Owners, file : Files,
              access : SUBSET Modes, deny : SUBSET Modes, seqid : Seqids]
LockState == [id : Others, client : Clients, owner : Owners, file : Files,
              open : Others, seqid : Seqids]
HeldByte == [file : Files, client : Clients, owner : Owners, open : Others,
             type : Modes, byte : Bytes]
Tombstone == [client : Clients, id : Others]
Refusal == [status : {"SHARE_DENIED", "LOCKED", "DENIED"}, file : Files,
            client : SUBSET Clients]

\* A status that is not an error, or an error that tells nothing about others.
NoRefusal == {}
Refused(status, f, c) == {[status |-> status, file |-> f, client |-> c]}

BumpSeqid(s) == IF s = MaxSeqid THEN 1 ELSE s + 1

-----------------------------------------------------------------------------
(* The tables after the state of the clients `hs` has been revoked.        *)

StateOf(hs) == {o \in opens : o.client \in hs} \cup {l \in lockStates : l.client \in hs}

\* The ranges a lock state stands for: its owner's, granted under its open.
RangesOf(l) == {r \in held : /\ r.file = l.file /\ r.open = l.open
                             /\ r.client = l.client /\ r.owner = l.owner}

LocksAfterLeft(hs) == lockStates  \* mutant: entombed, but still in #states
HeldAfterLeft(hs) == held         \* mutant: dropLockState leaves the ranges
FlaggedAfterAll(hs) == flagged \cup hs  \* mutant: flags a client that held nothing

OpensAfter(hs) == {o \in opens : o.client \notin hs}
LocksAfter(hs) == {l \in lockStates : l.client \notin hs}
HeldAfter(hs) == held \ UNION {RangesOf(l) : l \in {k \in lockStates : k.client \in hs}}
RevokedAfter(hs) == revoked \cup {[client |-> s.client, id |-> s.id] : s \in StateOf(hs)}
FlaggedAfter(hs) == flagged \cup {s.client : s \in StateOf(hs)}

\* mutant: released while other state is keyed by the file
StillRetainedNever(fs, os, rs) == pinned \ fs

\* forgetFileIfEmpty for each of the files fs, once os and rs are what is left.
StillRetained(fs, os, rs) ==
  {f \in pinned : f \in fs => \E x \in os \cup rs : x.file = f}
PinnedAfter(hs) ==
  StillRetained({s.file : s \in StateOf(hs)}, OpensAfter(hs), HeldAfter(hs))

RevokeBeside(hs) ==
  /\ lockStates' = LocksAfter(hs)
  /\ held' = HeldAfter(hs)
  /\ revoked' = RevokedAfter(hs)
  /\ flagged' = FlaggedAfter(hs)

RevokeOnly(hs) ==
  /\ RevokeBeside(hs)
  /\ opens' = OpensAfter(hs)
  /\ pinned' = PinnedAfter(hs)
  /\ UNCHANGED <<leases, nextOther>>

\* mutants: only lock holders are looked at; the lease is not looked at
ExpiredLockHolders(f, me) == {h \in lapsed \ me : \E r \in held : r.file = f /\ r.client = h}
AllHolders(f, me) == {h \in registered \ me : \E o \in opens : o.file = f /\ o.client = h}

\* The clients other than `me` that hold something on f under a lapsed lease.
ExpiredHolders(f, me) ==
  {h \in lapsed \ me : \E x \in opens \cup held : x.file = f /\ x.client = h}

-----------------------------------------------------------------------------
(* Leases and client records.                                              *)

Register(c) ==
  /\ c \notin minted
  /\ minted' = minted \cup {c}
  /\ registered' = registered \cup {c}
  /\ reply' = NoRefusal
  /\ UNCHANGED <<lapsed, reclaimed, flagged, revoked, opens, lockStates, held, pinned, nextOther>>

Lapse(c) ==
  /\ c \in registered \ lapsed
  /\ lapsed' = lapsed \cup {c}
  /\ reply' = NoRefusal
  /\ UNCHANGED <<minted, registered, reclaimed, flagged, revoked, opens, lockStates, held,
                 pinned, nextOther>>

ReclaimComplete(c) ==
  /\ c \in registered \ reclaimed
  /\ reclaimed' = reclaimed \cup {c}
  /\ reply' = NoRefusal
  /\ UNCHANGED <<minted, registered, lapsed, flagged, revoked, opens, lockStates, held,
                 pinned, nextOther>>

\* SEQUENCE renews; a lease that had lapsed costs the client its state first.
Sequence(c) ==
  /\ c \in lapsed
  /\ RevokeBeside({c})
  /\ opens' = OpensAfter({c})
  /\ pinned' = PinnedAfter({c})
  /\ lapsed' = lapsed \ {c}
  /\ reply' = NoRefusal
  /\ UNCHANGED <<minted, registered, reclaimed, nextOther>>

\* CREATE_SESSION sets `renewed` and revokes nothing.
RenewBySession(c) ==
  /\ c \in lapsed
  /\ lapsed' = lapsed \ {c}
  /\ reply' = NoRefusal
  /\ UNCHANGED <<minted, registered, reclaimed, flagged, revoked, opens, lockStates, held,
                 pinned, nextOther>>

\* #forget: the record goes, its state with it, and its tombstones too.
Forget(cs) ==
  /\ registered' = registered \ cs
  /\ lapsed' = lapsed \ cs
  /\ reclaimed' = reclaimed \ cs
  /\ flagged' = flagged \ cs
  /\ revoked' = {t \in revoked : t.client \notin cs}
  /\ opens' = OpensAfter(cs)
  /\ lockStates' = LocksAfter(cs)
  /\ held' = HeldAfter(cs)
  /\ pinned' = PinnedAfter(cs)
  /\ reply' = NoRefusal
  /\ UNCHANGED <<minted, nextOther>>

Sweep == lapsed # {} /\ Forget(lapsed)

DestroyClientid(c) ==
  /\ c \in registered
  /\ c \in lapsed \/ StateOf({c}) = {}
  /\ Forget({c})

\* A new incarnation of the same owner was confirmed by CREATE_SESSION, or an
\* unconfirmed record was replaced by EXCHANGE_ID.
Superseded(c) == c \in registered /\ Forget({c})

-----------------------------------------------------------------------------
(* Stateids.                                                               *)

\* checkStateid on a state of the table: the client's own, not revoked, and
\* presented with seqid zero or the current one.
Usable(c, st, seqid) ==
  /\ c \in registered
  /\ st.client = c
  /\ [client |-> c, id |-> st.id] \notin revoked
  /\ seqid \in {0, st.seqid}

\* FREE_STATEID of a tombstone acknowledges it; the flag goes with the last one.
FreeRevoked(c, id) ==
  /\ c \in registered
  /\ [client |-> c, id |-> id] \in revoked
  /\ revoked' = revoked \ {[client |-> c, id |-> id]}
  /\ flagged' = IF \E t \in revoked' : t.client = c THEN flagged ELSE flagged \ {c}
  /\ reply' = NoRefusal
  /\ UNCHANGED <<leases, opens, lockStates, held, pinned, nextOther>>

\* FREE_STATEID of a lock state that holds no range; of anything else LOCKS_HELD.
FreeLockState(c, l) ==
  /\ c \in registered
  /\ l.client = c
  /\ [client |-> c, id |-> l.id] \notin revoked
  /\ RangesOf(l) = {}
  /\ lockStates' = lockStates \ {l}
  /\ pinned' = StillRetained({l.file}, opens, held)
  /\ reply' = NoRefusal
  /\ UNCHANGED <<leases, flagged, revoked, opens, held, nextOther>>

-----------------------------------------------------------------------------
(* OPEN, OPEN_DOWNGRADE, CLOSE and I/O without a stateid of its own.       *)

Admitted(c) == c \in registered /\ (RequireReclaimComplete => c \in reclaimed)

OnFile(xs, f) == {x \in xs : x.file = f}

\* mutant: what the request denies is not held against the opens
ShareConflictOneWay(os, access, deny) == \E o \in os : access \cap o.deny # {}

\* Every open of the file counts, the requesting owner's own included.
ShareConflict(os, access, deny) ==
  \E o \in os : access \cap o.deny # {} \/ deny \cap o.access # {}

OpenDenied(c, f, access, deny) ==
  /\ Admitted(c)
  /\ ShareConflict(OnFile(OpensAfter(ExpiredHolders(f, {c})), f), access, deny)
  /\ RevokeOnly(ExpiredHolders(f, {c}))
  /\ reply' = Refused("SHARE_DENIED", f, {c})

OpenUpgrade(c, w, f, access, deny) ==
  LET left == OpensAfter(ExpiredHolders(f, {c}))
  IN  /\ Admitted(c)
      /\ ~ShareConflict(OnFile(left, f), access, deny)
      /\ \E o \in OnFile(left, f) :
           /\ o.client = c /\ o.owner = w
           /\ opens' = (left \ {o}) \cup
                {[o EXCEPT !.access = @ \cup access, !.deny = @ \cup deny, !.seqid = BumpSeqid(@)]}
      /\ RevokeBeside(ExpiredHolders(f, {c}))
      /\ pinned' = PinnedAfter(ExpiredHolders(f, {c}))
      /\ reply' = NoRefusal
      /\ UNCHANGED <<leases, nextOther>>

\* The first open of this owner; at the cap the answer is DELAY instead.
OpenNew(c, w, f, access, deny) ==
  LET left == OpensAfter(ExpiredHolders(f, {c}))
  IN  /\ Admitted(c)
      /\ ~ShareConflict(OnFile(left, f), access, deny)
      /\ ~\E o \in OnFile(left, f) : o.client = c /\ o.owner = w
      /\ RevokeBeside(ExpiredHolders(f, {c}))
      /\ reply' = NoRefusal
      /\ UNCHANGED leases
      /\ IF Cardinality(OnFile(left, f)) >= MaxOpensPerFile
         THEN /\ opens' = left
              /\ pinned' = PinnedAfter(ExpiredHolders(f, {c}))
              /\ UNCHANGED nextOther
         ELSE /\ nextOther <= MaxOther
              /\ opens' = left \cup
                   {[id |-> nextOther, client |-> c, owner |-> w, file |-> f,
                     access |-> access, deny |-> deny, seqid |-> 1]}
              /\ pinned' = PinnedAfter(ExpiredHolders(f, {c})) \cup {f}
              /\ nextOther' = nextOther + 1

OpenDowngrade(c, o, seqid, access, deny) ==
  /\ Usable(c, o, seqid)
  /\ access \subseteq o.access /\ deny \subseteq o.deny
  /\ opens' = (opens \ {o}) \cup
       {[o EXCEPT !.access = access, !.deny = deny, !.seqid = BumpSeqid(@)]}
  /\ reply' = NoRefusal
  /\ UNCHANGED <<leases, flagged, revoked, lockStates, held, pinned, nextOther>>

Close(c, o, seqid) ==
  LET mine == {l \in lockStates : l.open = o.id}
  IN  /\ Usable(c, o, seqid)
      /\ \A l \in mine : RangesOf(l) = {}
      /\ opens' = opens \ {o}
      /\ lockStates' = lockStates \ mine
      /\ pinned' = StillRetained({o.file}, opens', held)
      /\ reply' = NoRefusal
      /\ UNCHANGED <<leases, flagged, revoked, held, nextOther>>

\* I/O under a special stateid (me = {}) or a stateid of client me.
ShareDenies(f, access, me) ==
  /\ RevokeOnly(ExpiredHolders(f, me))
  /\ reply' = IF \E o \in OnFile(OpensAfter(ExpiredHolders(f, me)), f) : access \cap o.deny # {}
              THEN Refused("LOCKED", f, me) ELSE NoRefusal

-----------------------------------------------------------------------------
(* LOCK, LOCKT and LOCKU on the bytes bs.                                  *)

\* mutants: a reader ignores a writer; one client's owners never conflict
ConflictingByteForWriter(r, c, w, f, bs, type) ==
  r.file = f /\ r.byte \in bs /\ <<r.client, r.owner>> # <<c, w>> /\ type = "W"
ConflictingByteOfClient(r, c, w, f, bs, type) ==
  r.file = f /\ r.byte \in bs /\ r.client # c /\ "W" \in {r.type, type}

ConflictingByte(r, c, w, f, bs, type) ==
  /\ r.file = f /\ r.byte \in bs
  /\ <<r.client, r.owner>> # <<c, w>>
  /\ "W" \in {r.type, type}

Conflicted(rs, c, w, f, bs, type) == \E r \in rs : ConflictingByte(r, c, w, f, bs, type)

\* Ranges are coalesced per (owner, open) and type, so a range is a maximal run.
RangeCount(rs, f) ==
  Cardinality({r \in OnFile(rs, f) : [r EXCEPT !.byte = @ - 1] \notin rs})

LockDenied(c, o, w, bs, type) ==
  /\ Admitted(c)
  /\ Conflicted(HeldAfter(ExpiredHolders(o.file, {c})), c, w, o.file, bs, type)
  /\ RevokeOnly(ExpiredHolders(o.file, {c}))
  /\ reply' = Refused("DENIED", o.file, {c})

\* mutant: an owner's lock state is found whichever open it is under
LockStateOfOwner(o, w) == {l \in lockStates : l.owner = w /\ l.client = o.client /\ l.file = o.file}

LockStateIn(o, w) == {l \in lockStates : l.open = o.id /\ l.owner = w /\ l.client = o.client}

\* mutant: other owners' ranges are cut as well
SubtractRangeOfAll(rs, f, c, w, bs) == {r \in rs : ~(r.file = f /\ r.byte \in bs)}

\* The owner's bytes go whichever of its opens they were granted under.
SubtractRange(rs, f, c, w, bs) ==
  {r \in rs : ~(r.file = f /\ r.client = c /\ r.owner = w /\ r.byte \in bs)}

\* The lock state of owner w under open o takes the range, and is made if the
\* owner had none.  The owner's other ranges over these bytes are replaced.
LockGranted(c, o, w, bs, type) ==
  LET hs == ExpiredHolders(o.file, {c})
      left == HeldAfter(hs)
      mine == LockStateIn(o, w)
      state == IF mine = {}
               THEN [id |-> nextOther, client |-> c, owner |-> w, file |-> o.file,
                     open |-> o.id, seqid |-> 1]
               ELSE [(CHOOSE l \in mine : TRUE) EXCEPT !.seqid = BumpSeqid(@)]
  IN  /\ Admitted(c)
      /\ ~Conflicted(left, c, w, o.file, bs, type)
      /\ opens' = OpensAfter(hs)
      /\ revoked' = RevokedAfter(hs)
      /\ flagged' = FlaggedAfter(hs)
      /\ reply' = NoRefusal
      /\ UNCHANGED leases
      /\ IF RangeCount(left, o.file) >= MaxLocksPerFile
         THEN /\ lockStates' = LocksAfter(hs)
              /\ held' = left
              /\ pinned' = PinnedAfter(hs)
              /\ UNCHANGED nextOther
         ELSE /\ mine = {} => nextOther <= MaxOther
              /\ lockStates' = (LocksAfter(hs) \ mine) \cup {state}
              /\ held' = SubtractRange(left, o.file, c, w, bs) \cup
                   {[file |-> o.file, client |-> c, owner |-> w, open |-> o.id,
                     type |-> type, byte |-> b] : b \in bs}
              /\ pinned' = PinnedAfter(hs) \cup {o.file}
              /\ nextOther' = IF mine = {} THEN nextOther + 1 ELSE nextOther

\* A LOCK names its open by the open's stateid, or by the lock state's.
LockByOpen(c, o, w, seqid, bs, type) ==
  /\ Usable(c, o, seqid)
  /\ LockDenied(c, o, w, bs, type) \/ LockGranted(c, o, w, bs, type)

LockByState(c, l, seqid, bs, type) ==
  /\ Usable(c, l, seqid)
  /\ \E o \in opens :
       /\ o.id = l.open
       /\ LockDenied(c, o, l.owner, bs, type) \/ LockGranted(c, o, l.owner, bs, type)

Lockt(c, w, f, bs, type) ==
  /\ c \in registered
  /\ RevokeOnly(ExpiredHolders(f, {c}))
  /\ reply' = IF Conflicted(HeldAfter(ExpiredHolders(f, {c})), c, w, f, bs, type)
              THEN Refused("DENIED", f, {c}) ELSE NoRefusal

Locku(c, l, seqid, bs) ==
  /\ Usable(c, l, seqid)
  /\ held' = SubtractRange(held, l.file, c, l.owner, bs)
  /\ lockStates' = (lockStates \ {l}) \cup {[l EXCEPT !.seqid = BumpSeqid(@)]}
  /\ pinned' = StillRetained({l.file}, opens, held')
  /\ reply' = NoRefusal
  /\ UNCHANGED <<leases, flagged, revoked, opens, nextOther>>

-----------------------------------------------------------------------------

Spans == {lo .. hi : lo, hi \in Bytes} \ {{}}

Init ==
  /\ minted = {} /\ registered = {} /\ lapsed = {} /\ reclaimed = {}
  /\ flagged = {} /\ revoked = {}
  /\ opens = {} /\ lockStates = {} /\ held = {} /\ pinned = {}
  /\ nextOther = 1
  /\ reply = NoRefusal

LeaseStep ==
  \/ Sweep
  \/ \E c \in Clients :
       \/ Register(c)
       \/ Lapse(c)
       \/ ReclaimComplete(c)
       \/ Sequence(c)
       \/ RenewBySession(c)
       \/ DestroyClientid(c)
       \/ Superseded(c)
       \/ \E id \in Others : FreeRevoked(c, id)
       \/ \E l \in lockStates : FreeLockState(c, l)

ShareStep ==
  \/ \E c \in Clients, f \in Files, access \in Accesses, deny \in Denies :
       \/ OpenDenied(c, f, access, deny)
       \/ \E w \in Owners : OpenUpgrade(c, w, f, access, deny) \/ OpenNew(c, w, f, access, deny)
  \/ \E c \in Clients, o \in opens, seqid \in {0} \cup Seqids :
       \/ Close(c, o, seqid)
       \/ \E access \in Accesses, deny \in Denies : OpenDowngrade(c, o, seqid, access, deny)
  \/ \E f \in Files, access \in Accesses, me \in {{}} \cup {{c} : c \in Clients} :
       ShareDenies(f, access, me)

LockStep ==
  \E c \in Clients, bs \in Spans :
    \/ \E l \in lockStates, seqid \in {0} \cup Seqids : Locku(c, l, seqid, bs)
    \/ \E type \in LockTypes :
         \/ \E o \in opens, w \in Owners, seqid \in {0} \cup Seqids :
              LockByOpen(c, o, w, seqid, bs, type)
         \/ \E l \in lockStates, seqid \in {0} \cup Seqids : LockByState(c, l, seqid, bs, type)
         \/ \E w \in Owners, f \in Files : Lockt(c, w, f, bs, type)

Next == LeaseStep \/ ShareStep \/ LockStep

Spec == Init /\ [][Next]_vars
-----------------------------------------------------------------------------
(* Properties.                                                             *)

TypeOK ==
  /\ registered \subseteq minted /\ minted \subseteq Clients
  /\ lapsed \subseteq registered
  /\ reclaimed \subseteq registered
  /\ flagged \subseteq registered
  /\ revoked \subseteq Tombstone
  /\ opens \subseteq OpenState
  /\ lockStates \subseteq LockState
  /\ held \subseteq HeldByte
  /\ pinned \subseteq Files
  /\ nextOther \in 1 .. MaxOther + 1
  /\ reply \subseteq Refusal

\* Two opens of one file never contradict each other's share reservation, and
\* one owner has one open per file however often it opens it (open,
\* openDowngrade): neither upgrades nor revocations may let a conflict in.
ShareReservations ==
  \A o, p \in opens :
    o # p /\ o.file = p.file =>
      /\ o.access \cap p.deny = {}
      /\ <<o.client, o.owner>> # <<p.client, p.owner>>

\* No two owners hold one byte unless both only read it, and an owner holds it
\* once, whichever of its opens it was granted under (lock, locku, #revoke).
LockExclusion ==
  \A r, q \in held :
    r # q /\ r.file = q.file /\ r.byte = q.byte =>
      /\ <<r.client, r.owner>> # <<q.client, q.owner>>
      /\ r.type = "R" /\ q.type = "R"

\* Every granted byte belongs to a lock state whose open is still there, so a
\* CLOSE, a FREE_STATEID or a revocation leaves no range that nothing can unlock;
\* an (open, lock-owner) pair has one lock state, so one stateid unlocks it.
RangesBacked ==
  /\ \A r \in held : \E l \in lockStates : r \in RangesOf(l)
  /\ \A l \in lockStates : \E o \in opens :
       o.id = l.open /\ o.client = l.client /\ o.file = l.file
  /\ \A l, m \in lockStates : l.open = m.open /\ l.owner = m.owner => l = m

\* A stateid names one state of a registered client, and a revoked one none:
\* ids are minted once, so a tombstone can never be mistaken for a live state.
StateidsIdentify ==
  /\ \A s, t \in opens \cup lockStates : s.id = t.id => s = t
  /\ \A s \in opens \cup lockStates : s.id < nextOther /\ s.client \in registered
  /\ \A t \in revoked :
       /\ t.id < nextOther /\ t.client \in registered
       /\ \A s \in opens \cup lockStates : s.id # t.id

\* What is kept about the state beside it is exact.  onFileRetained and
\* onFileReleased bracket it: the handle table pins an entry just as long as
\* something is keyed by it.  SEQ4_STATUS_EXPIRED_ALL_STATE_REVOKED is up just
\* as long as there is a revoked stateid left to acknowledge.
BooksMatchState ==
  /\ pinned = {x.file : x \in opens \cup held}
  /\ flagged = {t.client : t \in revoked}

\* "An expired holder never denies anybody": behind every SHARE_DENIED, LOCKED
\* and DENIED stands a holder with a lease, or the requesting client itself.
ExpiredNeverDenies ==
  \A x \in reply : \E s \in opens \cup held :
    s.file = x.file /\ (s.client \in registered \ lapsed \/ s.client \in x.client)

\* Only a client whose lease had lapsed gets its state revoked.
RevokedOnlyWhenLapsed == [][\A t \in revoked' \ revoked : t.client \in lapsed]_vars

\* The table is a lock table with leases (LeasedLocks): a granted byte goes only
\* when its owner unlocks it, its client leaves, or its client's lease is gone.
Leased == INSTANCE LeasedLocks
  WITH granted <- {[file |-> r.file, client |-> r.client, owner |-> r.owner,
                    type |-> r.type, byte |-> r.byte] : r \in held},
       members <- registered
LeasedSpec == Leased!Spec
=============================================================================
