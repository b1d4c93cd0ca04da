------------------------------ MODULE PathLock ------------------------------
(***************************************************************************)
(* The single-writer, many-readers lock of src/lock.ts that every session  *)
(* runs its handlers under: RENAME as the writer, whatever else resolves a *)
(* path as a reader.                                                       *)
(*                                                                         *)
(* The lock has no queue of its own.  A reader polls #gate, a writer is    *)
(* chained on #tail, and the writer's allSettled waits for the readers it  *)
(* finds in #active at that moment.  A task is over when its function's    *)
(* promise settles, by success or failure; it may come again.              *)
(***************************************************************************)
EXTENDS Sequences, Naturals

CONSTANTS Readers, Writers

ASSUME TasksAssumption == Readers \cap Writers = {}

VARIABLES
  at,       \* where each task is
  gate,     \* #gate is defined
  tail,     \* the writers chained on #tail, the first one having its turn
  awaited   \* the readers the writer's allSettled still waits for

vars == <<at, gate, tail, awaited>>

Tasks == Readers \cup Writers
Places == {"idle", "waiting", "woken", "chained", "gating", "running"}

ReadersAt(p) == {r \in Readers : at[r] = p}
Move(t, p) == at' = [at EXCEPT ![t] = p]

-----------------------------------------------------------------------------
(* read(fn)                                                                *)

\* mutant: the gate is not looked at
AdmitAlways == "running"

\* The `while` on #gate: what a reader that looks at the gate now does next.
Admit == IF gate THEN "waiting" ELSE "running"

Read(r) ==
  /\ at[r] = "idle"
  /\ Move(r, Admit)
  /\ UNCHANGED <<gate, tail, awaited>>

Resume(r) ==
  /\ at[r] = "woken"
  /\ Move(r, Admit)
  /\ UNCHANGED <<gate, tail, awaited>>

ReadSettles(r) ==
  /\ at[r] = "running"
  /\ Move(r, "idle")
  /\ awaited' = awaited \ {r}
  /\ UNCHANGED <<gate, tail>>

-----------------------------------------------------------------------------
(* write(fn)                                                               *)

Write(w) ==
  /\ at[w] = "idle"
  /\ Move(w, "chained")
  /\ tail' = Append(tail, w)
  /\ UNCHANGED <<gate, awaited>>

\* mutant: the gate goes up only once the readers are out
GateUpLate(w) ==
  /\ tail # <<>> /\ Head(tail) = w /\ at[w] = "chained" /\ ReadersAt("running") = {}
  /\ gate' = TRUE /\ awaited' = {}
  /\ Move(w, "gating")
  /\ UNCHANGED tail

\* The start of `run`.  The readers woken by the writer before run first: their
\* continuations were queued when its gate opened, ahead of the #tail callback.
GateUp(w) ==
  /\ tail # <<>> /\ Head(tail) = w /\ at[w] = "chained"
  /\ ReadersAt("woken") = {}
  /\ gate' = TRUE
  /\ awaited' = ReadersAt("running")
  /\ Move(w, "gating")
  /\ UNCHANGED tail

WriteRuns(w) ==
  /\ at[w] = "gating"
  /\ awaited = {}
  /\ Move(w, "running")
  /\ UNCHANGED <<gate, tail, awaited>>

\* mutant: open() is forgotten
WriteSettlesMute(w) ==
  /\ at[w] = "running"
  /\ gate' = FALSE
  /\ tail' = Tail(tail)
  /\ Move(w, "idle")
  /\ UNCHANGED awaited

WriteSettles(w) ==
  /\ at[w] = "running"
  /\ gate' = FALSE
  /\ tail' = Tail(tail)
  /\ at' = [t \in Tasks |-> IF t = w THEN "idle" ELSE IF at[t] = "waiting" THEN "woken" ELSE at[t]]
  /\ UNCHANGED awaited

-----------------------------------------------------------------------------

Init ==
  /\ at = [t \in Tasks |-> "idle"]
  /\ gate = FALSE
  /\ tail = <<>>
  /\ awaited = {}

ReaderStep(r) == Resume(r) \/ ReadSettles(r)
WriterStep(w) == GateUp(w) \/ WriteRuns(w) \/ WriteSettles(w)

Next ==
  \/ \E r \in Readers : Read(r) \/ ReaderStep(r)
  \/ \E w \in Writers : Write(w) \/ WriterStep(w)

\* The event loop runs what is queued, and the driver settles what it is asked.
Fairness ==
  /\ \A r \in Readers : WF_vars(Resume(r)) /\ WF_vars(ReadSettles(r))
  /\ \A w \in Writers : WF_vars(WriterStep(w))

Spec == Init /\ [][Next]_vars /\ Fairness
-----------------------------------------------------------------------------
(* Properties.                                                             *)

\* While a RENAME runs nothing else does: no reader it did not wait for slips
\* in between the gate and the end of allSettled, and no second writer runs.
Exclusion ==
  \A w \in Writers : at[w] = "running" =>
    \A t \in Tasks \ {w} : at[t] # "running"

\* Nobody is kept out: a reader the gate holds back gets in, however many
\* writers keep coming, and a writer gets its turn, however many readers do,
\* as the gate is up before the outstanding ones are waited for.
EverybodyGetsIn ==
  /\ \A r \in Readers : at[r] = "waiting" ~> at[r] = "running"
  /\ \A w \in Writers : at[w] = "chained" ~> at[w] = "running"
=============================================================================
