--------------------------- MODULE PathLockProofs ---------------------------
(***************************************************************************)
(* Mutual exclusion of PathLock for any number of readers and writers.     *)
(***************************************************************************)
EXTENDS PathLock, SequenceTheorems, TLAPS

TypeOK ==
  /\ at \in [Tasks -> Places]
  /\ gate \in BOOLEAN
  /\ tail \in Seq(Writers)
  /\ awaited \subseteq Readers

(* The writer whose turn it is heads the chain and has the gate up.          *)
TurnIsTheHead ==
  \A w \in Writers : at[w] \in {"gating", "running"} =>
    tail # <<>> /\ Head(tail) = w /\ gate

(* Every reader still running when the gate went up is waited for.           *)
SnapshotSuffices ==
  \A w \in Writers :
    /\ at[w] = "gating" => ReadersAt("running") \subseteq awaited
    /\ at[w] = "running" => ReadersAt("running") = {}

(* Exclusion alone is not inductive: nothing in it says that a reader cannot *)
(* start between the gate and the end of the wait.                           *)
LockInv == TypeOK /\ TurnIsTheHead /\ SnapshotSuffices

LEMMA LockInvInit == Init => LockInv
<1> SUFFICES ASSUME Init PROVE LockInv
  OBVIOUS
<1>1. \A t \in Tasks : at[t] = "idle"
  BY DEF Init
<1>2. TypeOK
  <2>1. at \in [Tasks -> Places] /\ gate \in BOOLEAN /\ awaited \subseteq Readers
    BY DEF Init, Places
  <2>2. tail \in Seq(Writers)
    BY EmptySeq DEF Init
  <2> QED
    BY <2>1, <2>2 DEF TypeOK
<1>3. TurnIsTheHead /\ SnapshotSuffices
  BY <1>1 DEF TurnIsTheHead, SnapshotSuffices, Tasks
<1> QED
  BY <1>2, <1>3 DEF LockInv

LEMMA LockInvExcludes == LockInv => Exclusion
<1> SUFFICES ASSUME LockInv, NEW w \in Writers, at[w] = "running", NEW t \in Tasks \ {w}
             PROVE  at[t] # "running"
  BY DEF Exclusion
<1>1. CASE t \in Readers
  BY <1>1 DEF LockInv, SnapshotSuffices, ReadersAt
<1>2. CASE t \in Writers
  BY <1>2 DEF LockInv, TurnIsTheHead
<1> QED
  BY <1>1, <1>2 DEF Tasks

LEMMA LockInvStep == LockInv /\ [Next]_vars => LockInv'
<1> SUFFICES ASSUME LockInv, [Next]_vars PROVE LockInv'
  OBVIOUS
<1> USE TasksAssumption DEF LockInv
<1>1. ASSUME NEW r \in Readers, Read(r) \/ Resume(r)
      PROVE  LockInv'
  <2>1. at' = [at EXCEPT ![r] = Admit] /\ UNCHANGED <<gate, tail, awaited>>
    BY <1>1 DEF Read, Resume, Move
  <2>2. Admit \in Places /\ (gate => Admit # "running")
    BY DEF Admit, Places
  <2>3. \A w \in Writers : at'[w] = at[w]
    BY <2>1 DEF TypeOK, Tasks
  <2>4. TypeOK' /\ TurnIsTheHead'
    BY <2>1, <2>2, <2>3 DEF TypeOK, TurnIsTheHead, Tasks
  <2>5. gate => \A q \in Readers : at'[q] = "running" => at[q] = "running"
    BY <2>1, <2>2 DEF TypeOK, Tasks
  <2>6. SnapshotSuffices'
    BY <2>1, <2>3, <2>5 DEF SnapshotSuffices, TurnIsTheHead, ReadersAt
  <2> QED
    BY <2>4, <2>6
<1>2. ASSUME NEW r \in Readers, ReadSettles(r)
      PROVE  LockInv'
  <2>1. at' = [at EXCEPT ![r] = "idle"] /\ awaited' = awaited \ {r} /\ UNCHANGED <<gate, tail>>
    BY <1>2 DEF ReadSettles, Move
  <2>2. \A w \in Writers : at'[w] = at[w]
    BY <2>1 DEF TypeOK, Tasks
  <2>3. ReadersAt("running")' = ReadersAt("running") \ {r}
    BY <2>1 DEF ReadersAt, TypeOK, Tasks
  <2>4. TypeOK' /\ TurnIsTheHead' /\ SnapshotSuffices'
    BY <2>1, <2>2, <2>3 DEF TypeOK, TurnIsTheHead, SnapshotSuffices, Tasks, Places
  <2> QED
    BY <2>4
<1>3. ASSUME NEW w \in Writers, Write(w)
      PROVE  LockInv'
  <2>1. at' = [at EXCEPT ![w] = "chained"] /\ tail' = Append(tail, w) /\ UNCHANGED <<gate, awaited>>
    BY <1>3 DEF Write, Move
  <2>2. tail # <<>> => Head(Append(tail, w)) = Head(tail)
    BY DEF TypeOK
  <2>3. Append(tail, w) \in Seq(Writers) /\ Append(tail, w) # <<>>
    BY AppendProperties DEF TypeOK
  <2>4. \A r \in Readers : at'[r] = at[r]
    BY <2>1 DEF TypeOK, Tasks
  <2>5. \A v \in Writers : at'[v] \in {"gating", "running"} => at'[v] = at[v]
    BY <2>1 DEF TypeOK, Tasks
  <2>6. TypeOK' /\ TurnIsTheHead'
    BY <2>1, <2>2, <2>3, <2>5 DEF TypeOK, TurnIsTheHead, Tasks, Places
  <2>7. SnapshotSuffices'
    BY <2>1, <2>4, <2>5 DEF SnapshotSuffices, ReadersAt
  <2> QED
    BY <2>6, <2>7
<1>4. ASSUME NEW w \in Writers, GateUp(w)
      PROVE  LockInv'
  <2>1. /\ at' = [at EXCEPT ![w] = "gating"] /\ gate' = TRUE /\ awaited' = ReadersAt("running")
        /\ tail' = tail /\ tail # <<>> /\ Head(tail) = w /\ at[w] = "chained"
    BY <1>4 DEF GateUp, Move
  <2>2. \A v \in Writers \ {w} : at'[v] \notin {"gating", "running"}
    BY <2>1 DEF TypeOK, TurnIsTheHead, Tasks
  <2>3. at'[w] = "gating"
    BY <2>1 DEF TypeOK, Tasks
  <2>4. ReadersAt("running")' = ReadersAt("running") /\ ReadersAt("running") \subseteq Readers
    BY <2>1 DEF ReadersAt, TypeOK, Tasks
  <2>5. TypeOK'
    BY <2>1, <2>4 DEF TypeOK, Tasks, Places
  <2>6. TurnIsTheHead' /\ SnapshotSuffices'
    BY <2>1, <2>2, <2>3, <2>4 DEF TurnIsTheHead, SnapshotSuffices
  <2> QED
    BY <2>5, <2>6
<1>5. ASSUME NEW w \in Writers, WriteRuns(w)
      PROVE  LockInv'
  <2>1. /\ at' = [at EXCEPT ![w] = "running"] /\ UNCHANGED <<gate, tail, awaited>>
        /\ at[w] = "gating" /\ awaited = {}
    BY <1>5 DEF WriteRuns, Move
  <2>2. \A v \in Writers \ {w} : at'[v] = at[v] /\ at[v] \notin {"gating", "running"}
    BY <2>1 DEF TypeOK, TurnIsTheHead, Tasks
  <2>3. at'[w] = "running" /\ gate /\ Head(tail) = w /\ tail # <<>>
    BY <2>1 DEF TypeOK, TurnIsTheHead, Tasks
  <2>4. ReadersAt("running")' = {}
    BY <2>1 DEF ReadersAt, TypeOK, Tasks, SnapshotSuffices
  <2>5. TypeOK'
    BY <2>1 DEF TypeOK, Tasks, Places
  <2>6. TurnIsTheHead' /\ SnapshotSuffices'
    BY <2>1, <2>2, <2>3, <2>4 DEF TurnIsTheHead, SnapshotSuffices
  <2> QED
    BY <2>5, <2>6
<1>6. ASSUME NEW w \in Writers, WriteSettles(w)
      PROVE  LockInv'
  <2>1. /\ at' = [t \in Tasks |-> IF t = w THEN "idle"
                                  ELSE IF at[t] = "waiting" THEN "woken" ELSE at[t]]
        /\ gate' = FALSE /\ tail' = Tail(tail) /\ awaited' = awaited /\ at[w] = "running"
    BY <1>6 DEF WriteSettles
  <2>2. tail \in Seq(Writers) /\ tail # <<>>
    BY <2>1 DEF TypeOK, TurnIsTheHead
  <2>3. Tail(tail) \in Seq(Writers)
    BY <2>2
  <2>4. \A v \in Writers : at'[v] \notin {"gating", "running"}
    BY <2>1 DEF TypeOK, TurnIsTheHead, Tasks
  <2>5. TypeOK'
    BY <2>1, <2>3 DEF TypeOK, Tasks, Places
  <2>6. TurnIsTheHead' /\ SnapshotSuffices'
    BY <2>4 DEF TurnIsTheHead, SnapshotSuffices
  <2> QED
    BY <2>5, <2>6
<1>7. CASE UNCHANGED vars
  BY <1>7 DEF vars, TypeOK, TurnIsTheHead, SnapshotSuffices, ReadersAt
<1> QED
  BY <1>1, <1>2, <1>3, <1>4, <1>5, <1>6, <1>7 DEF Next, ReaderStep, WriterStep

(* A rename runs alone: no reader that resolved a path before it is still     *)
(* between resolving and binding, and none starts before it is over.          *)
THEOREM MutualExclusion == Spec => []Exclusion
BY LockInvInit, LockInvStep, LockInvExcludes, PTL DEF Spec
=============================================================================
