------------------------------ MODULE ChunkExec ------------------------------
(***************************************************************************)
(* The cells of one claimed chunk on one box: run_chunk_concurrent in      *)
(* zenfleet-worker/src/lib.rs with the admission arithmetic of             *)
(* zenfleet-core/src/schedule.rs.  A fixed pool of threads shares a cursor *)
(* and a running footprint under one mutex; a thread whose next cell does  *)
(* not fit waits on the condition variable until a completion frees room.  *)
(* A critical section is one action; handlers run between them.            *)
(***************************************************************************)
EXTENDS Naturals, FiniteSets, Functions

CONSTANTS
  N,          \* cells in the chunk, numbered in chunk order
  Dims,       \* the budgeted resources: memory, threads, GPU memory
  Need,       \* Need[c][d]: the hint of cell c (or the fallback hint)
  Budget,     \* Budget[d]: BoxBudget, or Unlimited (vram_budget_bytes: None)
  Unlimited,
  Threads     \* the pool: min(cores, N) threads, at least one

Cells == 1..N

ASSUME ChunkAssumption ==
  /\ N \in Nat
  /\ Need \in [Cells -> [Dims -> Nat]]
  /\ Budget \in [Dims -> Nat \cup {Unlimited}]
  /\ Unlimited \notin Nat
  /\ IsFiniteSet(Threads) /\ Threads # {}

VARIABLES
  cursor,     \* Shared::cursor: the next cell to start
  used,       \* Shared::running: InFlight mem_bytes, threads, vram_bytes ...
  count,      \* ... and InFlight::count
  results,    \* cells whose outcome is in Shared::results
  reported,   \* done, as last passed to the renewal hook
  pc, cell    \* per thread: where it is, and the cell it runs

vars == <<cursor, used, count, results, reported, pc, cell>>

None == 0     \* no cell

TypeOK ==
  /\ cursor \in 1..(N + 1)
  /\ used \in [Dims -> Nat]
  /\ count \in Nat
  /\ results \subseteq Cells
  /\ reported \in 0..N
  /\ pc \in [Threads -> {"acquire", "wait", "run", "notify", "exit"}]
  /\ cell \in [Threads -> Cells \cup {None}]

Init ==
  /\ cursor = 1
  /\ used = [d \in Dims |-> 0]
  /\ count = 0
  /\ results = {}
  /\ reported = 0
  /\ pc = [t \in Threads |-> "acquire"]
  /\ cell = [t \in Threads |-> None]

SatSub__kept(a, b) == a
SatSub__swapped(a, b) == b - a
\* saturating_sub
SatSub(a, b) == IF a >= b THEN a - b ELSE 0

Fits(c, d) == Budget[d] # Unlimited => used[d] + Need[c][d] <= Budget[d]

can_admit__memory(c) == count = 0 \/ \E d \in Dims : Fits(c, d)
can_admit__strict(c) == \A d \in Dims : Fits(c, d)
\* Anything may run alone; together, cells stay within every budget.
can_admit(c) == count = 0 \/ \A d \in Dims : Fits(c, d)

\* Total / 10, at least one: how many completions may go unreported.
Stride == IF N \div 10 > 1 THEN N \div 10 ELSE 1

-----------------------------------------------------------------------------
\* Every cell has been started: the thread is done.
Leave(t) ==
  /\ pc[t] = "acquire"
  /\ cursor > N
  /\ pc' = [pc EXCEPT ![t] = "exit"]
  /\ UNCHANGED <<cursor, used, count, results, reported, cell>>

Admit__again(t) ==
  /\ pc[t] = "acquire"
  /\ cursor <= N
  /\ can_admit(cursor)
  /\ used' = [d \in Dims |-> used[d] + Need[cursor][d]]
  /\ count' = count + 1
  /\ cursor' \in {cursor, cursor + 1}
  /\ cell' = [cell EXCEPT ![t] = cursor]
  /\ pc' = [pc EXCEPT ![t] = "run"]
  /\ UNCHANGED <<results, reported>>
\* The cell at the cursor is admitted.
Admit(t) ==
  /\ pc[t] = "acquire"
  /\ cursor <= N
  /\ can_admit(cursor)
  /\ used' = [d \in Dims |-> used[d] + Need[cursor][d]]
  /\ count' = count + 1
  /\ cursor' = cursor + 1
  /\ cell' = [cell EXCEPT ![t] = cursor]
  /\ pc' = [pc EXCEPT ![t] = "run"]
  /\ UNCHANGED <<results, reported>>

\* It does not fit: wait on the condition variable.
Wait(t) ==
  /\ pc[t] = "acquire"
  /\ cursor <= N
  /\ ~can_admit(cursor)
  /\ pc' = [pc EXCEPT ![t] = "wait"]
  /\ UNCHANGED <<cursor, used, count, results, reported, cell>>

\* A condition variable may wake a waiter for no reason.
SpuriousWakeup(t) ==
  /\ pc[t] = "wait"
  /\ pc' = [pc EXCEPT ![t] = "acquire"]
  /\ UNCHANGED <<cursor, used, count, results, reported, cell>>

Reported__strides(n) == n % Stride = 0
\* A renewal goes out at every stride and at the last completion.
Reported(n) == n % Stride = 0 \/ n = N

\* The handler returned (ok or failed, persisted or not): under the lock, the
\* footprint is released, the result recorded and the lease perhaps renewed.
Complete(t) ==
  /\ pc[t] = "run"
  /\ used' = [d \in Dims |-> SatSub(used[d], Need[cell[t]][d])]
  /\ count' = SatSub(count, 1)
  /\ results' = results \cup {cell[t]}
  /\ reported' = IF Reported(Cardinality(results) + 1)
                   THEN Cardinality(results) + 1 ELSE reported
  /\ cell' = [cell EXCEPT ![t] = None]
  /\ pc' = [pc EXCEPT ![t] = "notify"]
  /\ UNCHANGED cursor

Notify__one(t) ==
  /\ pc[t] = "notify"
  /\ \/ (\A u \in Threads : pc[u] # "wait") /\ pc' = [pc EXCEPT ![t] = "acquire"]
     \/ \E u \in Threads : /\ pc[u] = "wait"
                           /\ pc' = [pc EXCEPT ![t] = "acquire", ![u] = "acquire"]
  /\ UNCHANGED <<cursor, used, count, results, reported, cell>>
\* notify_all, after the lock was dropped.
Notify(t) ==
  /\ pc[t] = "notify"
  /\ pc' = [u \in Threads |-> IF u = t \/ pc[u] = "wait" THEN "acquire" ELSE pc[u]]
  /\ UNCHANGED <<cursor, used, count, results, reported, cell>>

Step(t) == Leave(t) \/ Admit(t) \/ Wait(t) \/ Complete(t) \/ Notify(t)

\* The scope has joined every thread.
Joined == (\A t \in Threads : pc[t] = "exit") /\ UNCHANGED vars

Next == Joined \/ \E t \in Threads : Step(t) \/ SpuriousWakeup(t)

Spec == Init /\ [][Next]_vars

\* Threads are scheduled, and a handler returns (its deadline kills the child).
FairSpec == Spec /\ \A t \in Threads : WF_vars(Step(t))

-----------------------------------------------------------------------------
(* Properties.                                                              *)

Running == {t \in Threads : pc[t] = "run"}

\* The footprint the admission test reads is the sum of what really runs: no
\* release is lost, none happens twice, and saturation hides neither.
FootprintExact ==
  /\ count = Cardinality(Running)
  /\ \A d \in Dims : used[d] = SumFunctionOnSet([t \in Running |-> Need[cell[t]][d]], Running)

\* The admitted cells never exceed a budget, unless one runs alone: the running
\* footprint stays within every budget whenever two or more cells run.
BudgetRespected ==
  Cardinality(Running) > 1 =>
    \A d \in Dims : Budget[d] # Unlimited => used[d] <= Budget[d]

\* Every started cell is either running on exactly one thread or has its result.
CellsPartitioned ==
  /\ results \cup {cell[t] : t \in Running} = 1..(cursor - 1)
  /\ \A t \in Running : cell[t] \notin results
  /\ \A t, u \in Running : cell[t] = cell[u] => t = u

\* A waiting thread is never forgotten: some thread still runs a cell, or has
\* released one and is about to notify.
NoLostWakeup ==
  (\E t \in Threads : pc[t] = "wait") => \E u \in Threads : pc[u] \in {"run", "notify"}

\* Progress reaches the lease: fewer than a stride of completions are unreported,
\* and when every cell has its result the hook has been told done = total.
ProgressReported ==
  /\ Cardinality(results) - reported < Stride
  /\ results = Cells => reported = N

\* Every cell of the chunk gets a result and the pool is joined.
ChunkCompletes == <>(results = Cells /\ \A t \in Threads : pc[t] = "exit")
=============================================================================
