------------------------------ MODULE DavLocks ------------------------------
(***************************************************************************)
(* The write locks of a WebDAV share: DavLockTable of src/webdav/locks.ts. *)
(* Every method is synchronous and takes the time it goes by, which is the *)
(* time its request began.  Whoever looks sweeps first, so a lock past its *)
(* deadline stays for a request that began earlier only until a later one  *)
(* has looked.                                                             *)
(***************************************************************************)
EXTENDS DriverTree

CONSTANTS
  Timeout,   \* the lease every lock is granted
  MaxLocks,  \* maxLocks
  MaxToken   \* bound: tokens minted over a run

ASSUME DavAssumption == Timeout \in Nat \ {0} /\ MaxLocks \in Nat \ {0} /\ MaxToken \in Nat

Tokens == 1 .. MaxToken
Zero == "0"
One == "1"
Infinity == "infinity"

\* quiet: history, no other request was changing names of its path meanwhile.
Lock(token, p, depth, exclusive, expires, quiet) ==
  [token |-> token, path |-> p, depth |-> depth, exclusive |-> exclusive, expires |-> expires,
   quiet |-> quiet]

Sweep(table, now) == {l \in table : l.expires > now}

\* inScope: the root, or all that is under it.
InScope(l, p) == l.path = p \/ (l.depth = Infinity /\ Inside(p, l.path))

Covering(table, p, now) == {l \in Sweep(table, now) : InScope(l, p)}
Within(table, p, now) == {l \in Sweep(table, now) : Inside(l.path, p)}
Find(table, token, now) == {l \in Sweep(table, now) : l.token = token}

\* mutant: a lock of a whole tree looks up only
ConflictUpOnly(table, p, depth, exclusive, now) ==
  {l \in Covering(table, p, now) : exclusive \/ l.exclusive}

\* Shared locks go together; an infinite one looks down as well as up.
Conflict(table, p, depth, exclusive, now) ==
  {l \in Covering(table, p, now) \cup (IF depth = Infinity THEN Within(table, p, now) ELSE {}) :
     exclusive \/ l.exclusive}

Full(table, now) == Cardinality(Sweep(table, now)) >= MaxLocks

Create(table, token, p, depth, exclusive, now, quiet) ==
  Sweep(table, now) \cup {Lock(token, p, depth, exclusive, now + Timeout, quiet)}

Refresh(table, token, now) ==
  {IF l.token = token THEN [l EXCEPT !.expires = now + Timeout] ELSE l : l \in Sweep(table, now)}

RemoveLock(table, token) == {l \in table : l.token # token}
=============================================================================
