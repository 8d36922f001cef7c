--------------------------- MODULE ChunkExecProofs ---------------------------
(***************************************************************************)
(* Safety of the chunk executor for every chunk, budget and pool: the      *)
(* state is well typed, InFlight is exactly what runs, no budget is overrun *)
(* by cells that run together, every started cell runs exactly once, no    *)
(* waiting thread is forgotten, and the lease hears of the progress.       *)
(***************************************************************************)
EXTENDS ChunkExec, SumLemmas

\* A thread has a cell exactly while it runs one.
CellWhileRunning == \A t \in Threads : (pc[t] = "run" <=> cell[t] # None)

\* InFlight::count is the number of running threads.
CountExact == count = Cardinality(Running)

\* What the other conjuncts rest on.  CellsPartitioned belongs here: the reported
\* count is bounded by N only because no cell gets two results.
Inv == TypeOK /\ CellWhileRunning /\ CountExact /\ CellsPartitioned

-----------------------------------------------------------------------------
\* How Running changes when one thread changes its program counter.
LEMMA RunningFinite == IsFiniteSet(Running)
<1>1. Running \subseteq Threads
  BY DEF Running
<1> QED  BY <1>1, ChunkAssumption, FS_Subset

\* count is a number.
LEMMA CountNat == CountExact => count \in Nat
BY RunningFinite, FS_CardinalityType DEF CountExact

\* A thread that starts a cell joins the running set, which grows by one.
LEMMA StartGrows ==
  ASSUME TypeOK, NEW t \in Threads, pc[t] = "acquire", pc' = [pc EXCEPT ![t] = "run"]
  PROVE  /\ Running' = Running \cup {t}
         /\ Cardinality(Running') = Cardinality(Running) + 1
<1>1. Running' = Running \cup {t}
  BY DEF Running, TypeOK
<1>2. t \notin Running
  BY DEF Running
<1> QED  BY <1>1, <1>2, RunningFinite, FS_AddElement

\* A thread that completes its cell leaves it, which shrinks by one.
LEMMA StopShrinks ==
  ASSUME TypeOK, NEW t \in Threads, pc[t] = "run", pc' = [pc EXCEPT ![t] = "notify"]
  PROVE  /\ Running' = Running \ {t}
         /\ Cardinality(Running') = Cardinality(Running) - 1
         /\ Cardinality(Running) > 0
<1>1. Running' = Running \ {t}
  BY DEF Running, TypeOK
<1>2. t \in Running
  BY DEF Running
<1>3. Cardinality(Running') = Cardinality(Running) - 1
  BY <1>1, <1>2, RunningFinite, FS_RemoveElement
<1>4. Cardinality(Running) > 0
  BY <1>2, RunningFinite, FS_CardinalityType, FS_EmptySet
<1> QED  BY <1>1, <1>3, <1>4

\* No other step changes it.
LEMMA RunningUnchanged ==
  ASSUME TypeOK, NEW t \in Threads,
         Leave(t) \/ Wait(t) \/ SpuriousWakeup(t) \/ Notify(t)
  PROVE  Running' = Running
BY DEF TypeOK, Running, Leave, Wait, SpuriousWakeup, Notify

\* Count zero means that nothing runs.
LEMMA SomethingRuns ==
  ASSUME CountExact, count # 0
  PROVE  \E t \in Threads : pc[t] = "run"
<1>1. Running # {}
  BY FS_EmptySet DEF CountExact
<1> QED  BY <1>1 DEF Running

-----------------------------------------------------------------------------
\* The initial states satisfy the invariant.
LEMMA InitInv == Init => Inv
<1> SUFFICES ASSUME Init PROVE Inv
  OBVIOUS
<1>1. TypeOK
  BY ChunkAssumption DEF Init, TypeOK, Cells
<1>2. CellWhileRunning
  BY DEF Init, CellWhileRunning
<1>3. CountExact
  <2>1. Running = {}
    BY DEF Init, Running
  <2> QED  BY <2>1, FS_EmptySet DEF CountExact, Init
<1>4. CellsPartitioned
  BY ChunkAssumption DEF Init, CellsPartitioned, Running
<1> QED  BY <1>1, <1>2, <1>3, <1>4 DEF Inv

\* The footprint arithmetic stays in Nat.
LEMMA SatSubNat == \A a, b \in Nat : SatSub(a, b) \in Nat /\ SatSub(a, b) <= a
BY DEF SatSub

\* Only a completion changes the results, by one, and there are at most N.
LEMMA ResultsGrow ==
  ASSUME Inv, NEW t \in Threads, Complete(t)
  PROVE  /\ Cardinality(results) \in Nat
         /\ Cardinality(results') = Cardinality(results) + 1
         /\ Cardinality(results) + 1 <= N
<1>1. cell[t] \in Cells
  BY DEF Complete, CellWhileRunning, Inv, TypeOK
<1>2. IsFiniteSet(Cells) /\ Cardinality(Cells) = N
  BY ChunkAssumption, FS_Interval DEF Cells
<1>3. /\ Cardinality(results \cup {cell[t]}) <= N
      /\ IsFiniteSet(results)
  BY <1>1, <1>2, FS_Subset DEF Inv, TypeOK
<1>4. cell[t] \notin results
  BY DEF Inv, Complete, CellsPartitioned, Running
<1>5. Cardinality(results \cup {cell[t]}) = Cardinality(results) + 1
  BY <1>3, <1>4, FS_AddElement
<1>6. Cardinality(results) \in Nat
  BY <1>3, FS_CardinalityType
<1> QED  BY <1>3, <1>5, <1>6 DEF Complete

\* Every step keeps the types; a result is reported at most N times.
LEMMA TypeStep ==
  ASSUME Inv, [Next]_vars
  PROVE  TypeOK'
<1> USE ChunkAssumption DEF Inv, TypeOK
<1>1. ASSUME NEW t \in Threads, Leave(t) PROVE TypeOK'
  BY <1>1 DEF Leave
<1>2. ASSUME NEW t \in Threads, Admit(t) PROVE TypeOK'
  <2>1. cursor \in Cells
    BY <1>2 DEF Admit, Cells
  <2>2. used' \in [Dims -> Nat]
    BY <2>1, <1>2 DEF Admit
  <2>3. cursor' \in 1..(N + 1) /\ count' \in Nat
    BY <2>1, <1>2 DEF Admit, Cells
  <2> QED  BY <2>1, <2>2, <2>3, <1>2 DEF Admit
<1>3. ASSUME NEW t \in Threads, Wait(t) PROVE TypeOK'
  BY <1>3 DEF Wait
<1>4. ASSUME NEW t \in Threads, SpuriousWakeup(t) PROVE TypeOK'
  BY <1>4 DEF SpuriousWakeup
<1>5. ASSUME NEW t \in Threads, Complete(t) PROVE TypeOK'
  <2>1. cell[t] \in Cells
    BY <1>5 DEF Complete, CellWhileRunning
  <2>2. used' \in [Dims -> Nat]
    BY <2>1, <1>5, SatSubNat DEF Complete
  <2>3. count' \in Nat
    BY <1>5, SatSubNat DEF Complete
  <2>4. reported' \in 0..N
    <3>1. Cardinality(results) + 1 \in 0..N
      BY <1>5, ResultsGrow
    <3> QED  BY <3>1, <1>5 DEF Complete
  <2> QED  BY <2>1, <2>2, <2>3, <2>4, <1>5 DEF Complete
<1>6. ASSUME NEW t \in Threads, Notify(t) PROVE TypeOK'
  BY <1>6 DEF Notify
<1>7. CASE UNCHANGED vars
  BY <1>7 DEF vars
<1> QED  BY <1>1, <1>2, <1>3, <1>4, <1>5, <1>6, <1>7 DEF Next, Step, Joined
-----------------------------------------------------------------------------
\* A thread takes its cell at admission and gives it up at completion.
LEMMA CellStep ==
  ASSUME Inv, [Next]_vars
  PROVE  CellWhileRunning'
<1> USE DEF Inv, TypeOK, CellWhileRunning
<1>1. ASSUME NEW t \in Threads, Admit(t) PROVE CellWhileRunning'
  <2>1. cursor # None
    BY <1>1 DEF Admit, None
  <2> QED  BY <2>1, <1>1 DEF Admit
<1>2. ASSUME NEW t \in Threads, Complete(t) PROVE CellWhileRunning'
  BY <1>2 DEF Complete
<1>3. ASSUME NEW t \in Threads, Leave(t) \/ Wait(t) \/ SpuriousWakeup(t) \/ Notify(t)
      PROVE  CellWhileRunning'
  BY <1>3 DEF Leave, Wait, SpuriousWakeup, Notify
<1>4. CASE UNCHANGED vars
  BY <1>4 DEF vars
<1> QED  BY <1>1, <1>2, <1>3, <1>4 DEF Next, Step, Joined

\* count follows the running set.
LEMMA CountStep ==
  ASSUME Inv, [Next]_vars
  PROVE  CountExact'
<1> USE DEF Inv, CountExact
<1>1. ASSUME NEW t \in Threads, Admit(t) PROVE CountExact'
  BY <1>1, StartGrows DEF Admit
<1>2. ASSUME NEW t \in Threads, Complete(t) PROVE CountExact'
  <2>1. Cardinality(Running') = Cardinality(Running) - 1 /\ Cardinality(Running) > 0
    BY <1>2, StopShrinks DEF Complete
  <2>2. count \in Nat /\ count' = SatSub(count, 1)
    BY <1>2, CountNat DEF Complete
  <2> QED  BY <2>1, <2>2 DEF SatSub
<1>3. ASSUME NEW t \in Threads, Leave(t) \/ Wait(t) \/ SpuriousWakeup(t) \/ Notify(t)
      PROVE  CountExact'
  BY <1>3, RunningUnchanged DEF Leave, Wait, SpuriousWakeup, Notify
<1>4. CASE UNCHANGED vars
  BY <1>4 DEF vars, Running
<1> QED  BY <1>1, <1>2, <1>3, <1>4 DEF Next, Step, Joined

\* The started cells grow by the cell at the cursor.
LEMMA OneMore ==
  ASSUME NEW k \in Nat, k >= 1
  PROVE  1..k = (1..(k - 1)) \cup {k}
<1>1. ASSUME NEW i \in 1..k PROVE i \in (1..(k - 1)) \cup {k}
  BY <1>1
<1>2. ASSUME NEW i \in (1..(k - 1)) \cup {k} PROVE i \in 1..k
  BY <1>2
<1> QED  BY <1>1, <1>2

\* Every step keeps the started cells partitioned.
LEMMA CellsStep ==
  ASSUME Inv, [Next]_vars
  PROVE  CellsPartitioned'
<1> USE DEF Inv, TypeOK
<1>1. ASSUME NEW t \in Threads, Admit(t) PROVE CellsPartitioned'
  <2>1. Running' = Running \cup {t} /\ t \notin Running
    BY <1>1, StartGrows DEF Admit, Running
  <2>2. \A u \in Running : cell'[u] = cell[u]
    BY <1>1, <2>1 DEF Admit, Running
  <2>3. cell'[t] = cursor /\ cursor' = cursor + 1 /\ results' = results
    BY <1>1 DEF Admit
  <2>4. {cell'[u] : u \in Running'} = {cell[u] : u \in Running} \cup {cursor}
    BY <2>1, <2>2, <2>3
  <2>5. \A c \in results \cup {cell[u] : u \in Running} : c # cursor
    BY ChunkAssumption DEF CellsPartitioned
  <2>6. results' \cup {cell'[u] : u \in Running'} = 1..(cursor' - 1)
    <3>1. 1..cursor = (1..(cursor - 1)) \cup {cursor}
      <4>1. cursor \in Nat /\ cursor >= 1
        BY ChunkAssumption
      <4> HIDE DEF Inv, TypeOK
      <4> QED  BY <4>1, OneMore
    <3> QED  BY <2>3, <2>4, <3>1 DEF CellsPartitioned
  <2>7. \A u \in Running' : cell'[u] \notin results'
    BY <2>1, <2>2, <2>3, <2>5 DEF CellsPartitioned
  <2>8. \A u, v \in Running' : cell'[u] = cell'[v] => u = v
    BY <2>1, <2>2, <2>3, <2>5 DEF CellsPartitioned
  <2> QED  BY <2>6, <2>7, <2>8 DEF CellsPartitioned
<1>2. ASSUME NEW t \in Threads, Complete(t) PROVE CellsPartitioned'
  <2>1. Running' = Running \ {t} /\ t \in Running
    BY <1>2, StopShrinks DEF Complete, Running
  <2>2. \A u \in Running' : cell'[u] = cell[u]
    BY <1>2, <2>1 DEF Complete, Running
  <2>3. results' = results \cup {cell[t]} /\ cursor' = cursor
    BY <1>2 DEF Complete
  <2>4. results' \cup {cell'[u] : u \in Running'} = results \cup {cell[u] : u \in Running}
    BY <2>1, <2>2, <2>3
  <2>5. \A u \in Running' : cell'[u] \notin results'
    BY <2>1, <2>2, <2>3 DEF CellsPartitioned
  <2>6. \A u, v \in Running' : cell'[u] = cell'[v] => u = v
    BY <2>1, <2>2 DEF CellsPartitioned
  <2> QED  BY <2>3, <2>4, <2>5, <2>6 DEF CellsPartitioned
<1>3. ASSUME NEW t \in Threads, Leave(t) \/ Wait(t) \/ SpuriousWakeup(t) \/ Notify(t)
      PROVE  CellsPartitioned'
  <2>1. cell' = cell /\ results' = results /\ cursor' = cursor
    BY <1>3 DEF Leave, Wait, SpuriousWakeup, Notify
  <2> QED  BY <1>3, <2>1, RunningUnchanged DEF CellsPartitioned
<1>4. CASE UNCHANGED vars
  BY <1>4 DEF vars, Running, CellsPartitioned
<1> QED  BY <1>1, <1>2, <1>3, <1>4 DEF Next, Step, Joined

\* Every step keeps the invariant.
LEMMA InvStep == Inv /\ [Next]_vars => Inv'
BY TypeStep, CellStep, CountStep, CellsStep DEF Inv

\* The invariant holds in every reachable state.
LEMMA InvHolds == Spec => []Inv
<1> QED  BY InitInv, InvStep, PTL DEF Spec

-----------------------------------------------------------------------------
\* Type correctness of the cursor, the footprint and the threads' state in
\* run_chunk_concurrent.
THEOREM TypeCorrect == Spec => []TypeOK
<1>1. Inv => TypeOK
  BY DEF Inv
<1> QED  BY <1>1, InvHolds, PTL

\* The shared cursor of run_chunk_concurrent hands every cell to one thread: a
\* started cell is running on exactly one thread or has its result.
THEOREM EachCellOnce == Spec => []CellsPartitioned
<1>1. Inv => CellsPartitioned
  BY DEF Inv
<1> QED  BY <1>1, InvHolds, PTL

\* Admission never lets cells that run together exceed a budget of the box
\* (BoxBudget::can_admit with the saturating InFlight arithmetic).
THEOREM BudgetSafe == Spec => []BudgetRespected
<1>1. Init => BudgetRespected
  <2> SUFFICES ASSUME Init PROVE BudgetRespected
    OBVIOUS
  <2>1. Cardinality(Running) = 0
    BY FS_EmptySet DEF Init, Running
  <2> QED  BY <2>1 DEF BudgetRespected
<1>2. Inv /\ BudgetRespected /\ [Next]_vars => BudgetRespected'
  <2> SUFFICES ASSUME Inv, BudgetRespected, [Next]_vars PROVE BudgetRespected'
    OBVIOUS
  <2> USE DEF Inv
  <2>1. ASSUME NEW t \in Threads, Admit(t) PROVE BudgetRespected'
    <3> SUFFICES ASSUME Cardinality(Running') > 1, NEW d \in Dims, Budget[d] # Unlimited
                 PROVE  used'[d] <= Budget[d]
      BY DEF BudgetRespected
    <3>1. Cardinality(Running') = Cardinality(Running) + 1
      BY <2>1, StartGrows DEF Admit
    <3>2. count # 0
      BY <3>1, CountNat DEF CountExact
    <3>3. Fits(cursor, d)
      BY <2>1, <3>2 DEF Admit, can_admit
    <3>4. used'[d] = used[d] + Need[cursor][d]
      BY <2>1 DEF Admit
    <3> QED  BY <3>3, <3>4 DEF Fits
  <2>2. ASSUME NEW t \in Threads, Complete(t) PROVE BudgetRespected'
    <3> SUFFICES ASSUME Cardinality(Running') > 1, NEW d \in Dims, Budget[d] # Unlimited
                 PROVE  used'[d] <= Budget[d]
      BY DEF BudgetRespected
    <3>1. Cardinality(Running) > 1
      <4>1. Cardinality(Running') = Cardinality(Running) - 1
        BY <2>2, StopShrinks DEF Complete
      <4>2. Cardinality(Running) \in Nat
        BY RunningFinite, FS_CardinalityType
      <4> QED  BY <4>1, <4>2
    <3>2. used[d] <= Budget[d]
      BY <3>1 DEF BudgetRespected
    <3>3. cell[t] \in Cells
      BY <2>2 DEF Complete, CellWhileRunning, TypeOK
    <3>4. used[d] \in Nat /\ Need[cell[t]][d] \in Nat /\ Budget[d] \in Nat
      BY <3>3, ChunkAssumption DEF TypeOK
    <3>5. used'[d] = SatSub(used[d], Need[cell[t]][d])
      BY <2>2 DEF Complete
    <3>6. used'[d] \in Nat /\ used'[d] <= used[d]
      BY <3>4, <3>5, SatSubNat
    <3> QED  BY <3>2, <3>4, <3>6
  <2>3. ASSUME NEW t \in Threads, Leave(t) \/ Wait(t) \/ SpuriousWakeup(t) \/ Notify(t)
        PROVE  BudgetRespected'
    <3>1. used' = used
      BY <2>3 DEF Leave, Wait, SpuriousWakeup, Notify
    <3> QED  BY <2>3, <3>1, RunningUnchanged DEF BudgetRespected
  <2>4. CASE UNCHANGED vars
    BY <2>4 DEF vars, Running, BudgetRespected
  <2> QED  BY <2>1, <2>2, <2>3, <2>4 DEF Next, Step, Joined
<1> QED  BY <1>1, <1>2, InvHolds, PTL DEF Spec

\* A thread that waits on the condition variable is never forgotten: a thread
\* waits only while a cell runs, and the last completion wakes every waiter.
THEOREM NoForgottenWaiter == Spec => []NoLostWakeup
<1>1. Init => NoLostWakeup
  BY DEF Init, NoLostWakeup
<1>2. Inv /\ NoLostWakeup /\ [Next]_vars => NoLostWakeup'
  <2> SUFFICES ASSUME Inv, NoLostWakeup, [Next]_vars PROVE NoLostWakeup'
    OBVIOUS
  <2> USE DEF Inv, TypeOK, NoLostWakeup
  <2>1. ASSUME NEW t \in Threads, Leave(t) PROVE NoLostWakeup'
    BY <2>1 DEF Leave
  <2>2. ASSUME NEW t \in Threads, Admit(t) PROVE NoLostWakeup'
    BY <2>2 DEF Admit
  <2>3. ASSUME NEW t \in Threads, Wait(t) PROVE NoLostWakeup'
    <3>1. count # 0
      BY <2>3 DEF Wait, can_admit
    <3>2. PICK u \in Threads : pc[u] = "run"
      BY <3>1, SomethingRuns
    <3> QED  BY <2>3, <3>2 DEF Wait
  <2>4. ASSUME NEW t \in Threads, SpuriousWakeup(t) PROVE NoLostWakeup'
    BY <2>4 DEF SpuriousWakeup
  <2>5. ASSUME NEW t \in Threads, Complete(t) PROVE NoLostWakeup'
    BY <2>5 DEF Complete
  <2>6. ASSUME NEW t \in Threads, Notify(t) PROVE NoLostWakeup'
    BY <2>6 DEF Notify
  <2>7. CASE UNCHANGED vars
    BY <2>7 DEF vars
  <2> QED  BY <2>1, <2>2, <2>3, <2>4, <2>5, <2>6, <2>7 DEF Next, Step, Joined
<1> QED  BY <1>1, <1>2, InvHolds, PTL DEF Spec

-----------------------------------------------------------------------------
\* The footprint of what runs, in dimension d.
Footprint(d) == SumFunctionOnSet([t \in Running |-> Need[cell[t]][d]], Running)

\* What a thread runs has a footprint in every dimension.
LEMMA NeedNat ==
  ASSUME Inv, NEW d \in Dims
  PROVE  \A t \in Running : Need[cell[t]][d] \in Nat
<1> TAKE t \in Running
<1>1. cell[t] \in Cells
  BY DEF Running, Inv, TypeOK, CellWhileRunning
<1> QED  BY <1>1, ChunkAssumption

\* A cell that starts adds its footprint.
LEMMA FootprintStart ==
  ASSUME Inv, NEW t \in Threads, Admit(t), NEW d \in Dims
  PROVE  Footprint(d)' = Footprint(d) + Need[cursor][d]
<1>f. PICK f : f = [u \in Running |-> Need[cell[u]][d]]
  OBVIOUS
<1>g. PICK g : g = [u \in Running' |-> Need[cell'[u]][d]]
  OBVIOUS
<1>1. Running' = Running \cup {t} /\ t \notin Running
  BY StartGrows DEF Admit, Inv, Running
<1>2. cell' = [cell EXCEPT ![t] = cursor] /\ cursor \in Cells
  BY DEF Admit, Cells, Inv, TypeOK
<1>3. g[t] = Need[cursor][d] /\ g[t] \in Nat
  BY <1>g, <1>1, <1>2, ChunkAssumption DEF Inv, TypeOK
<1>4. \A u \in Running : f[u] \in Nat /\ g[u] = f[u]
  <2>1. \A u \in Running : cell'[u] = cell[u]
    BY <1>1, <1>2 DEF Running, Inv, TypeOK
  <2> QED  BY <1>f, <1>g, <1>1, <2>1, NeedNat
<1>5. f \in [Running -> Int] /\ g \in [Running' -> Int]
  BY <1>f, <1>g, <1>1, <1>3, <1>4
<1>6. SumFunctionOnSet(g, Running') = g[t] + SumFunctionOnSet(f, Running)
  BY <1>1, <1>4, <1>5, RunningFinite, SumJoin
<1>7. SumFunctionOnSet(f, Running) \in Nat
  BY <1>4, RunningFinite, SumNat
<1> QED  BY <1>f, <1>g, <1>3, <1>6, <1>7 DEF Footprint

\* A cell that completes takes its footprint away, which was part of the sum.
LEMMA FootprintStop ==
  ASSUME Inv, NEW t \in Threads, Complete(t), NEW d \in Dims
  PROVE  /\ Footprint(d)' = Footprint(d) - Need[cell[t]][d]
         /\ Need[cell[t]][d] <= Footprint(d)
         /\ Need[cell[t]][d] \in Nat /\ Footprint(d) \in Nat
<1>f. PICK f : f = [u \in Running |-> Need[cell[u]][d]]
  OBVIOUS
<1>g. PICK g : g = [u \in Running' |-> Need[cell'[u]][d]]
  OBVIOUS
<1>1. Running' = Running \ {t} /\ t \in Running
  BY StopShrinks DEF Complete, Inv, Running
<1>2. IsFiniteSet(Running') /\ t \notin Running' /\ Running = Running' \cup {t}
  BY <1>1, RunningFinite, FS_RemoveElement
<1>3. f[t] = Need[cell[t]][d] /\ f[t] \in Nat
  BY <1>f, <1>1, NeedNat
<1>4. \A u \in Running' : g[u] \in Nat /\ f[u] = g[u]
  <2>1. \A u \in Running' : cell'[u] = cell[u]
    BY <1>1 DEF Complete, Running, Inv, TypeOK
  <2> QED  BY <1>f, <1>g, <1>1, <2>1, NeedNat
<1>5. f \in [Running -> Int] /\ g \in [Running' -> Int]
  BY <1>f, <1>g, <1>2, <1>3, <1>4
<1>6. SumFunctionOnSet(f, Running) = f[t] + SumFunctionOnSet(g, Running')
  BY <1>2, <1>4, <1>5, SumJoin
<1>7. SumFunctionOnSet(g, Running') \in Nat
  BY <1>2, <1>4, SumNat
<1> QED  BY <1>f, <1>g, <1>3, <1>6, <1>7 DEF Footprint

\* The footprint the admission test reads is exactly that of the cells that run,
\* on every chunk and pool: an admission adds what the completion takes away, and
\* the saturating subtraction of InFlight::remove never saturates.
THEOREM FootprintCorrect == Spec => []FootprintExact
<1> DEFINE Exact == \A d \in Dims : used[d] = Footprint(d)
<1>1. Init => Exact
  <2> SUFFICES ASSUME Init, NEW d \in Dims PROVE used[d] = Footprint(d)
    OBVIOUS
  <2>1. Running = {} /\ used[d] = 0
    BY DEF Init, Running
  <2> QED  BY <2>1, SumEmpty DEF Footprint
<1>2. Inv /\ Exact /\ [Next]_vars => Exact'
  <2> SUFFICES ASSUME Inv, Exact, [Next]_vars, NEW d \in Dims PROVE used'[d] = Footprint(d)'
    OBVIOUS
  <2>1. ASSUME NEW t \in Threads, Admit(t) PROVE used'[d] = Footprint(d)'
    <3>1. used'[d] = used[d] + Need[cursor][d]
      BY <2>1 DEF Admit
    <3> QED  BY <2>1, <3>1, FootprintStart
  <2>2. ASSUME NEW t \in Threads, Complete(t) PROVE used'[d] = Footprint(d)'
    <3>1. used'[d] = SatSub(used[d], Need[cell[t]][d])
      BY <2>2 DEF Complete
    <3> QED  BY <2>2, <3>1, FootprintStop DEF SatSub
  <2>3. ASSUME NEW t \in Threads, Leave(t) \/ Wait(t) \/ SpuriousWakeup(t) \/ Notify(t)
        PROVE  used'[d] = Footprint(d)'
    <3>1. used' = used /\ cell' = cell
      BY <2>3 DEF Leave, Wait, SpuriousWakeup, Notify
    <3>2. Running' = Running
      BY <2>3, RunningUnchanged DEF Inv
    <3> QED  BY <3>1, <3>2 DEF Footprint
  <2>4. CASE UNCHANGED vars
    BY <2>4 DEF vars, Running, Footprint
  <2> QED  BY <2>1, <2>2, <2>3, <2>4 DEF Next, Step, Joined
<1>3. Inv /\ Exact => FootprintExact
  BY DEF Inv, CountExact, FootprintExact, Footprint
<1> QED  BY <1>1, <1>2, <1>3, InvHolds, PTL DEF Spec

-----------------------------------------------------------------------------
\* The last report lies at a multiple of the stride, less than a stride behind;
\* the last completion is reported whatever its number.
ReportInv ==
  LET n == Cardinality(results) IN
  /\ reported <= n /\ n - reported < Stride
  /\ n < N => \E k \in Nat : reported = k * Stride
  /\ n = N => reported = N

\* A stride is at least one completion.
LEMMA StridePositive == Stride \in Nat /\ Stride > 0
BY ChunkAssumption DEF Stride

\* A multiple of the stride is reported.
LEMMA MultipleReported ==
  ASSUME NEW n \in Nat, NEW k \in Nat, n = k * Stride
  PROVE  Reported(n)
<1>1. \A s \in Nat : s > 0 => (k * s) % s = 0
  OBVIOUS
<1> QED  BY <1>1, StridePositive DEF Reported

\* A completion keeps the distance to the last report under a stride.
LEMMA ReportStep ==
  ASSUME Inv, ReportInv, NEW t \in Threads, Complete(t)
  PROVE  ReportInv'
<1> DEFINE n == Cardinality(results)
<1>1. n \in Nat /\ Cardinality(results') = n + 1 /\ n + 1 <= N
  BY ResultsGrow
<1>2. n < N /\ N \in Nat /\ n + 1 \in Nat
  BY <1>1, ChunkAssumption
<1>3. reported <= n /\ n - reported < Stride /\ \E k \in Nat : reported = k * Stride
  BY <1>2 DEF ReportInv
<1>4. PICK k \in Nat : reported = k * Stride
  BY <1>3
<1>5. reported' = IF Reported(n + 1) THEN n + 1 ELSE reported
  BY DEF Complete
<1>6. Stride' = Stride
  BY DEF Stride
<1>7. reported \in Nat /\ Stride \in Nat /\ Stride > 0
  BY StridePositive DEF Inv, TypeOK
<1> HIDE DEF n
<1>8. CASE ~Reported(n + 1)
  <2>1. n + 1 # N
    BY <1>8 DEF Reported
  <2>2. (n + 1) - reported # Stride
    <3>1. SUFFICES ASSUME n + 1 = reported + Stride PROVE FALSE
      BY <1>2, <1>7
    <3>2. n + 1 = (k + 1) * Stride /\ k + 1 \in Nat
      BY <3>1, <1>4, <1>7
    <3> QED  BY <3>2, <1>2, <1>8, MultipleReported
  <2>3. reported' = reported
    BY <1>5, <1>8
  <2> QED  BY <1>1, <1>2, <1>3, <1>6, <1>7, <2>1, <2>2, <2>3 DEF ReportInv
<1>9. CASE Reported(n + 1)
  <2>1. reported' = n + 1
    BY <1>5, <1>9
  <2>2. n + 1 < N => \E m \in Nat : n + 1 = m * Stride
    <3>1. SUFFICES ASSUME n + 1 < N PROVE \E m \in Nat : n + 1 = m * Stride
      OBVIOUS
    <3>2. (n + 1) % Stride = 0
      BY <1>2, <1>9, <3>1 DEF Reported
    <3>3. \A s \in Nat : s > 0 /\ (n + 1) % s = 0 => \E m \in Nat : n + 1 = m * s
      <4>1. TAKE s \in Nat
      <4>2. HAVE s > 0 /\ (n + 1) % s = 0
      <4>3. n + 1 = s * ((n + 1) \div s) /\ (n + 1) \div s \in Nat
        BY <1>2, <4>2
      <4> QED  BY <4>3
    <3> QED  BY <1>7, <3>2, <3>3
  <2> QED  BY <1>1, <1>2, <1>6, <1>7, <2>1, <2>2 DEF ReportInv
<1> QED  BY <1>8, <1>9

\* The lease hears of the chunk's progress: fewer than a stride of completions
\* are unreported, and the last one is reported, whatever the chunk's size.
THEOREM ProgressCorrect == Spec => []ProgressReported
<1>1. Init => ReportInv
  <2> SUFFICES ASSUME Init PROVE ReportInv
    OBVIOUS
  <2>1. Cardinality(results) = 0 /\ reported = 0
    BY FS_EmptySet DEF Init
  <2>2. 0 = 0 * Stride
    BY StridePositive
  <2> QED  BY <2>1, <2>2, StridePositive, ChunkAssumption DEF ReportInv
<1>2. Inv /\ ReportInv /\ [Next]_vars => ReportInv'
  <2> SUFFICES ASSUME Inv, ReportInv, [Next]_vars PROVE ReportInv'
    OBVIOUS
  <2>1. CASE \E t \in Threads : Complete(t)
    BY <2>1, ReportStep
  <2>2. CASE UNCHANGED <<results, reported>>
    BY <2>2 DEF ReportInv, Stride
  <2>3. \/ \E t \in Threads : Complete(t)
        \/ UNCHANGED <<results, reported>>
    BY DEF Next, Step, Joined, vars, Leave, Admit, Wait, SpuriousWakeup, Notify
  <2> QED  BY <2>1, <2>2, <2>3
<1>3. Inv /\ ReportInv => ProgressReported
  <2> SUFFICES ASSUME Inv, ReportInv, results = Cells PROVE reported = N
    BY DEF ReportInv, ProgressReported
  <2>1. Cardinality(results) = N
    BY ChunkAssumption, FS_Interval DEF Cells
  <2> QED  BY <2>1 DEF ReportInv
<1> QED  BY <1>1, <1>2, <1>3, InvHolds, PTL DEF Spec
=============================================================================
