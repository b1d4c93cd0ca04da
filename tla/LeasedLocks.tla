----------------------------- MODULE LeasedLocks -----------------------------
(***************************************************************************)
(* What a byte-range lock table promises: no two owners hold a byte in     *)
(* conflict, and a byte once granted stays its owner's until the owner     *)
(* gives it up, leaves, or has lost its lease.  The NFSv4.1 table          *)
(* implements it with leases.                                              *)
(***************************************************************************)
CONSTANTS Clients, Owners, Files, Bytes

VARIABLES
  granted,   \* one record per file, owner and byte
  members,   \* the clients there are
  lapsed     \* those without a lease

vars == <<granted, members, lapsed>>

Without(cs) == {g \in granted : g.client \notin cs}

Conflicts(g, h) ==
  /\ g.file = h.file /\ g.byte = h.byte
  /\ <<g.client, g.owner>> # <<h.client, h.owner>>
  /\ "W" \in {g.type, h.type}

Init == granted = {} /\ members = {} /\ lapsed = {}

\* Granted beside what is left once some of the lapsed have been dropped.
Acquire(c, w, f, bs, type) ==
  LET new == {[file |-> f, client |-> c, owner |-> w, type |-> type, byte |-> b] : b \in bs}
  IN  \E cs \in SUBSET (lapsed \ {c}) :
        /\ c \in members
        /\ \A g \in Without(cs), h \in new : ~Conflicts(g, h)
        /\ granted' = new \cup
             {g \in Without(cs) : ~(/\ g.file = f /\ g.client = c /\ g.owner = w
                                    /\ g.byte \in bs)}
        /\ UNCHANGED <<members, lapsed>>

Release(c, w, f, bs) ==
  /\ granted' = {g \in granted : ~(/\ g.file = f /\ g.client = c /\ g.owner = w
                                   /\ g.byte \in bs)}
  /\ UNCHANGED <<members, lapsed>>

Join(c) == members' = members \cup {c} /\ UNCHANGED <<granted, lapsed>>

Lapse(c) ==
  /\ c \in members
  /\ lapsed' = lapsed \cup {c}
  /\ UNCHANGED <<granted, members>>

\* The lapsed may be dropped, and may come back.
Expire(cs) ==
  /\ cs \subseteq lapsed
  /\ granted' = Without(cs)
  /\ lapsed' \subseteq lapsed
  /\ UNCHANGED members

Leave(cs) ==
  /\ granted' = Without(cs)
  /\ members' = members \ cs
  /\ lapsed' = lapsed \ cs

Next ==
  \/ \E c \in Clients :
       \/ Join(c)
       \/ Lapse(c)
       \/ \E w \in Owners, f \in Files, bs \in SUBSET Bytes :
            Release(c, w, f, bs) \/ \E type \in {"R", "W"} : Acquire(c, w, f, bs, type)
  \/ \E cs \in SUBSET Clients : Expire(cs) \/ Leave(cs)

Spec == Init /\ [][Next]_vars
=============================================================================
