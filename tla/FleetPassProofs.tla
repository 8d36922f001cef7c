-------------------------- MODULE FleetPassProofs --------------------------
(***************************************************************************)
(* For every fleet, every set of jobs and every way to cut a gap into      *)
(* disjoint chunks: two workers run the same job at the same time only if  *)
(* they saw different gaps or one has let its claim pass the TTL.  A       *)
(* worker runs a chunk of the cut of its own gap and, until then, holds    *)
(* its claim; equal gaps are cut alike, a job is in one chunk of a cut,    *)
(* and a chunk has one claim.                                              *)
(* No job is left untried when a worker leaves, unless each of its idle    *)
(* passes lost its rows to a fault; and none is left to be retried, if it  *)
(* looks idle often enough, but those of which the ledger dropped a row.   *)
(* Last, the packings of PackChunks do cut a gap into disjoint chunks that *)
(* cover it, as all of this assumes; the fleet's keeps its chunks small    *)
(* and many, and the box's counts on no more jobs at once than fit.        *)
(***************************************************************************)
EXTENDS FleetPass, PackChunks, SumLemmas

\* What a worker may still claim, and what it runs, is cut from its own gap; and until its
\* claim is overdue, it holds an unexpired one of what it runs.
OwnCut ==
  \A w \in Workers :
    /\ worker[w].pc \in {"claim", "run"} => worker[w].todo \subseteq Chunks(w, Gap(w))
    /\ At(w, "run") =>
         /\ worker[w].chunk \in Chunks(w, Gap(w))
         /\ ~worker[w].overdue => claim[worker[w].chunk] = w /\ worker[w].chunk \notin aged

IInv == TypeOK /\ OwnCut

\* A worker that starts has seen nothing.
LEMMA FreshState == Fresh \in State
BY DEF Fresh, State, NoView

\* A worker cuts its gap into disjoint chunks that cover it (pack_in_order).
LEMMA CutOfGap ==
  ASSUME NEW w \in Workers, NEW gap \in SUBSET Jobs
  PROVE  Cuts(gap, Chunks(w, gap))
  BY PackAssumption DEF Chunks

\* A gap holds jobs of the manifest, and a failure in it is below the cap (reconcile_at).
LEMMA GapJobs ==
  ASSUME NEW view \in [Jobs -> Row \cup {NoRow}]
  PROVE  /\ PlanOf(view, "enqueue") \in SUBSET Jobs
         /\ \A j \in PlanOf(view, "enqueue") :
              view[j] = NoRow \/ (view[j] \in Row /\ view[j].attempts < MaxAttempts)
  BY RowAssumption, FleetAssumption, SMTT(30)
  DEF PlanOf, reconcile_at, RetryDue, Row

\* A row that a worker writes is well formed; a failure's count is within the cap (make).
LEMMA MakeRow ==
  ASSUME TypeOK, NEW w \in Workers, NEW j \in Jobs, NEW status \in {"Done", "Failed", "Poison"},
         NEW transient \in BOOLEAN, status = "Failed" => j \in Gap(w)
  PROVE  make(w, j, status, transient) \in Row
<1>1. worker[w].view \in [Jobs -> Row \cup {NoRow}]  BY DEF TypeOK, State
<1>2. CASE status = "Failed"
  <2>1. worker[w].view[j] = NoRow
          \/ (worker[w].view[j] \in Row /\ worker[w].view[j].attempts < MaxAttempts)
    BY <1>1, <1>2, GapJobs DEF Gap
  <2>2. CASE worker[w].view[j] = NoRow
    BY <2>2, <1>2, FleetAssumption DEF make, Row
  <2>3. CASE worker[w].view[j] # NoRow
    BY <2>1, <2>3, <1>2, FleetAssumption DEF make, Row
  <2> QED  BY <2>2, <2>3
<1>3. CASE status # "Failed"
  BY <1>3, FleetAssumption DEF make, Row
<1> QED  BY <1>2, <1>3

\* A row that lands leaves a well-formed ledger (LedgerView::apply).
LEMMA LandRow ==
  ASSUME TypeOK, NEW j \in Jobs, NEW row \in Row
  PROVE  Land(j, row) \in Row
<1>1. ledger[j] \in Row \cup {NoRow}  BY DEF TypeOK
<1>2. apply(ledger[j], row) \in Row  BY <1>1 DEF apply
<1>3. QED  BY <1>2 DEF Land, Row

\* Writing rows changes nothing of another worker but what is late (flush_chunk_rows).
LEMMA FlushKeeps ==
  ASSUME TypeOK, NEW w \in Workers, NEW p \in State, NEW D \in SUBSET Jobs,
         NEW rows \in [D -> Row], Flush(w, rows, p)
  PROVE  /\ ledger' \in [Jobs -> Row \cup {NoRow}]
         /\ worker' \in [Workers -> State]
         /\ forgot' \subseteq Jobs /\ faults' \in 0..MaxFaults
         /\ worker'[w] = p
         /\ \A v \in Workers \ {w} :
              /\ worker'[v].pc = worker[v].pc /\ worker'[v].view = worker[v].view
              /\ worker'[v].todo = worker[v].todo /\ worker'[v].chunk = worker[v].chunk
              /\ worker'[v].overdue = worker[v].overdue
<1> DEFINE replaced == {j \in DOMAIN rows : apply(ledger[j], rows[j]) = rows[j]}
           Landed == /\ ledger' = [j \in Jobs |-> IF j \in DOMAIN rows THEN Land(j, rows[j])
                                                  ELSE ledger[j]]
                     /\ worker' = [v \in Workers |->
                          IF v = w THEN p
                          ELSE IF <<v, w>> \in before
                               THEN [worker[v] EXCEPT !.late = @ \cup replaced]
                          ELSE [worker[v] EXCEPT !.late = @ \ replaced]]
                     /\ forgot' = forgot \cup {j \in DOMAIN rows :
                          \E row \in {ledger[j], rows[j]} :
                            Drops(apply(ledger[j], rows[j]), row)}
                     /\ UNCHANGED faults
<1>1. worker \in [Workers -> State]  BY DEF TypeOK
<1>2. CASE Landed
  <2>1. ledger' \in [Jobs -> Row \cup {NoRow}]
    <3>1. \A j \in Jobs : (IF j \in DOMAIN rows THEN Land(j, rows[j]) ELSE ledger[j])
                             \in Row \cup {NoRow}
      BY LandRow DEF TypeOK
    <3> QED  BY <3>1, <1>2
  <2>2. replaced \in SUBSET Jobs  OBVIOUS
  <2> HIDE DEF replaced
  <2>3. ASSUME NEW v \in Workers \ {w}
        PROVE  /\ worker'[v] \in State
               /\ worker'[v].pc = worker[v].pc /\ worker'[v].view = worker[v].view
               /\ worker'[v].todo = worker[v].todo /\ worker'[v].chunk = worker[v].chunk
               /\ worker'[v].overdue = worker[v].overdue
    <3>1. worker[v] \in State  BY <1>1
    <3>2. worker'[v] = [worker[v] EXCEPT !.late = @ \cup replaced]
            \/ worker'[v] = [worker[v] EXCEPT !.late = @ \ replaced]
      BY <1>2
    <3> QED  BY <3>1, <3>2, <2>2 DEF State
  <2>4. worker'[w] = p  BY <1>2
  <2>5. worker' \in [Workers -> State]
    <3>1. worker' = [v \in Workers |-> worker'[v]]  BY <1>2
    <3>2. \A v \in Workers : worker'[v] \in State  BY <2>3, <2>4
    <3> QED  BY <3>1, <3>2
  <2>6. forgot' \subseteq Jobs  BY <1>2 DEF TypeOK
  <2> QED  BY <1>2, <2>1, <2>3, <2>4, <2>5, <2>6 DEF TypeOK
<1>3. CASE Fault /\ Set(w, p) /\ UNCHANGED <<ledger, forgot>>
  <2>1. worker' = [worker EXCEPT ![w] = p]  BY <1>3 DEF Set
  <2>2. faults' \in 0..MaxFaults  BY <1>3, FleetAssumption DEF Fault, TypeOK
  <2> QED  BY <1>1, <1>3, <2>1, <2>2 DEF TypeOK
<1> QED  BY <1>2, <1>3 DEF Flush

\* OwnCut of one worker.
OwnCutOf(w) ==
  /\ worker[w].pc \in {"claim", "run"} => worker[w].todo \subseteq Chunks(w, Gap(w))
  /\ At(w, "run") =>
       /\ worker[w].chunk \in Chunks(w, Gap(w))
       /\ ~worker[w].overdue => claim[worker[w].chunk] = w /\ worker[w].chunk \notin aged

\* What runs is a chunk of jobs (pack_in_order).
LEMMA RunningChunk ==
  ASSUME TypeOK, NEW w \in Workers, OwnCutOf(w), At(w, "run")
  PROVE  worker[w].chunk \in Chunk
<1>1. worker[w].view \in [Jobs -> Row \cup {NoRow}]  BY DEF TypeOK, State
<1>2. Chunks(w, Gap(w)) \subseteq Chunk  BY <1>1, GapJobs, CutOfGap DEF Gap, Cuts
<1> QED  BY <1>2 DEF OwnCutOf

\* A worker that no step touches keeps its cut as long as its claim stands.
LEMMA Untouched ==
  ASSUME NEW v \in Workers, OwnCutOf(v),
         worker'[v].pc = worker[v].pc, worker'[v].view = worker[v].view,
         worker'[v].todo = worker[v].todo, worker'[v].chunk = worker[v].chunk,
         worker'[v].overdue = worker[v].overdue,
         At(v, "run") /\ ~worker[v].overdue =>
           /\ claim'[worker[v].chunk] = claim[worker[v].chunk]
           /\ worker[v].chunk \in aged' => worker[v].chunk \in aged
  PROVE  OwnCutOf(v)'
<1>1. Gap(v)' = Gap(v)  BY DEF Gap, PlanOf, reconcile_at, RetryDue
<1>2. Chunks(v, Gap(v))' = Chunks(v, Gap(v))  BY <1>1 DEF Chunks
<1> QED  BY <1>1, <1>2 DEF OwnCutOf, At

\* A pass cuts the gap of the view it reconciled (execute_gap_chunked_bounded).
LEMMA PlanInv ==
  ASSUME TypeOK, \A v \in Workers : OwnCutOf(v), NEW w \in Workers,
         NEW view \in [Jobs -> Row \cup {NoRow}], Plan(w, view),
         faults' \in 0..MaxFaults
  PROVE  TypeOK' /\ \A v \in Workers : OwnCutOf(v)'
<1> DEFINE gap == PlanOf(view, "enqueue")
           p == [worker[w] EXCEPT !.pc = "claim", !.view = view, !.todo = Chunks(w, gap)]
<1>1. worker \in [Workers -> State] /\ worker[w] \in State  BY DEF TypeOK
<1>2. gap \in SUBSET Jobs  BY GapJobs
<1>3. Chunks(w, gap) \subseteq Chunk  BY <1>2, CutOfGap DEF Cuts
<1>4. p \in State  BY <1>1, <1>3 DEF State
<1>5. worker' = [worker EXCEPT ![w] = p]  BY DEF Plan, Set
<1>6. TypeOK'  BY <1>1, <1>4, <1>5 DEF Plan, TypeOK
<1>7. ASSUME NEW v \in Workers PROVE OwnCutOf(v)'
  <2>1. CASE v = w
    <3>1. worker'[w].pc = "claim" /\ worker'[w].view = view /\ worker'[w].todo = Chunks(w, gap)
      BY <1>1, <1>5 DEF State
    <3>2. Gap(w)' = gap  BY <3>1 DEF Gap, PlanOf, reconcile_at, RetryDue
    <3>3. Chunks(w, Gap(w))' = Chunks(w, gap)  BY <3>2 DEF Chunks
    <3> QED  BY <2>1, <3>1, <3>3 DEF OwnCutOf, At
  <2>2. CASE v # w  BY <2>2, <1>1, <1>5, Untouched DEF Plan
  <2> QED  BY <2>1, <2>2
<1> QED  BY <1>6, <1>7

\* The rows of a finished chunk (run_chunk_concurrent's results).
LEMMA FinishInv ==
  ASSUME TypeOK, \A v \in Workers : OwnCutOf(v), NEW w \in Workers, FinishChunk(w)
  PROVE  TypeOK' /\ \A v \in Workers : OwnCutOf(v)'
<1>1. PICK end \in [worker[w].chunk -> Ends] :
        Flush(w, [j \in worker[w].chunk |->
                    IF end[j] = "ok" THEN make(w, j, "Done", FALSE)
                    ELSE make(w, j, "Failed", end[j] = "transient")],
              [worker[w] EXCEPT !.pc = "claim", !.chunk = {}, !.overdue = FALSE,
                       !.ran = @ + 1,
                       !.done = @ \/ \E j \in worker[w].chunk : end[j] = "ok",
                       !.todo = IF worker[w].ran + 1 = MaxChunks THEN {} ELSE @])
  BY DEF FinishChunk
<1> DEFINE rows == [j \in worker[w].chunk |->
                      IF end[j] = "ok" THEN make(w, j, "Done", FALSE)
                      ELSE make(w, j, "Failed", end[j] = "transient")]
           p == [worker[w] EXCEPT !.pc = "claim", !.chunk = {}, !.overdue = FALSE,
                       !.ran = @ + 1,
                       !.done = @ \/ \E j \in worker[w].chunk : end[j] = "ok",
                       !.todo = IF worker[w].ran + 1 = MaxChunks THEN {} ELSE @]
<1>2. worker \in [Workers -> State] /\ worker[w] \in State  BY DEF TypeOK
<1>3. At(w, "run") /\ UNCHANGED <<before, claim, aged>>  BY DEF FinishChunk
<1>4. worker[w].chunk \subseteq Gap(w)
  <2>1. Gap(w) \in SUBSET Jobs  BY <1>2, GapJobs DEF Gap, State
  <2>2. worker[w].chunk \in Chunks(w, Gap(w))  BY <1>3 DEF OwnCutOf
  <2> QED  BY <2>1, <2>2, CutOfGap DEF Cuts
<1>5. worker[w].chunk \in SUBSET Jobs  BY <1>2 DEF State
<1>6. rows \in [worker[w].chunk -> Row]
  <2>1. ASSUME NEW j \in worker[w].chunk
        PROVE  make(w, j, "Done", FALSE) \in Row
               /\ make(w, j, "Failed", end[j] = "transient") \in Row
    BY <1>4, <1>5, MakeRow
  <2> QED  BY <2>1
<1>7. p \in State
  <2> DEFINE done == worker[w].done \/ \E j \in worker[w].chunk : end[j] = "ok"
             todo == IF worker[w].ran + 1 = MaxChunks THEN {} ELSE worker[w].todo
  <2>1. done \in BOOLEAN  OBVIOUS
  <2>2. todo \in SUBSET Chunk /\ worker[w].ran + 1 \in Nat  BY <1>2 DEF State
  <2>3. p = [worker[w] EXCEPT !.pc = "claim", !.chunk = {}, !.overdue = FALSE,
                              !.ran = worker[w].ran + 1,
                              !.done = done, !.todo = todo]
    BY <1>2 DEF State
  <2> HIDE DEF done, todo, p
  <2> QED  BY <1>2, <2>1, <2>2, <2>3 DEF State
<1>8. Flush(w, rows, p)  BY <1>1
<1> HIDE DEF rows
<1>9. /\ ledger' \in [Jobs -> Row \cup {NoRow}] /\ worker' \in [Workers -> State]
      /\ forgot' \subseteq Jobs /\ faults' \in 0..MaxFaults /\ worker'[w] = p
      /\ \A v \in Workers \ {w} :
           /\ worker'[v].pc = worker[v].pc /\ worker'[v].view = worker[v].view
           /\ worker'[v].todo = worker[v].todo /\ worker'[v].chunk = worker[v].chunk
           /\ worker'[v].overdue = worker[v].overdue
  <2> HIDE DEF p
  <2> QED  BY <1>5, <1>6, <1>7, <1>8, FlushKeeps
<1>10. TypeOK'  BY <1>3, <1>9 DEF TypeOK
<1>11. ASSUME NEW v \in Workers PROVE OwnCutOf(v)'
  <2>1. CASE v = w
    <3>1. /\ worker'[w].pc = "claim" /\ worker'[w].view = worker[w].view
          /\ worker'[w].todo \subseteq worker[w].todo
      BY <1>2, <1>9 DEF State
    <3>2. Gap(w)' = Gap(w)  BY <3>1 DEF Gap, PlanOf, reconcile_at, RetryDue
    <3>3. Chunks(w, Gap(w))' = Chunks(w, Gap(w))  BY <3>2 DEF Chunks
    <3>4. worker[w].todo \subseteq Chunks(w, Gap(w))  BY <1>3 DEF OwnCutOf, At
    <3> QED  BY <2>1, <3>1, <3>3, <3>4 DEF OwnCutOf, At
  <2>2. CASE v # w  BY <2>2, <1>3, <1>9, Untouched
  <2> QED  BY <2>1, <2>2
<1> QED  BY <1>10, <1>11

\* The verdicts, and the entrypoint's look at the summary (fleet-entrypoint.sh).
LEMMA EndInv ==
  ASSUME TypeOK, \A v \in Workers : OwnCutOf(v), NEW w \in Workers, EndPass(w)
  PROVE  TypeOK' /\ \A v \in Workers : OwnCutOf(v)'
<1> DEFINE next == [Fresh EXCEPT !.idle = IF NoWork(worker[w]) THEN worker[w].idle + 1 ELSE 0]
           doomed == PlanOf(worker[w].view, "poison")
           rows == [j \in doomed |-> make(w, j, "Poison", FALSE)]
<1>1. worker \in [Workers -> State] /\ worker[w] \in State  BY DEF TypeOK
<1>2. /\ before' = Without(w) /\ UNCHANGED <<claim, aged>>
      /\ \/ Set(w, next) /\ UNCHANGED <<ledger, forgot, faults>>
         \/ Flush(w, rows, next)
  BY DEF EndPass
<1>3. next \in State /\ next.pc = "between"
  <2> DEFINE idle == IF NoWork(worker[w]) THEN worker[w].idle + 1 ELSE 0
  <2>1. idle \in Nat  BY <1>1 DEF State
  <2>2. next = [Fresh EXCEPT !.idle = idle]  OBVIOUS
  <2>3. Fresh.pc = "between"  BY DEF Fresh
  <2> HIDE DEF idle, next
  <2> QED  BY <2>1, <2>2, <2>3, FreshState DEF State
<1>4. doomed \in SUBSET Jobs  BY DEF PlanOf
<1>5. rows \in [doomed -> Row]
  <2>1. \A j \in doomed : make(w, j, "Poison", FALSE) \in Row  BY <1>4, MakeRow
  <2> QED  BY <2>1
<1> HIDE DEF next, rows, doomed
<1>6. /\ ledger' \in [Jobs -> Row \cup {NoRow}] /\ worker' \in [Workers -> State]
      /\ forgot' \subseteq Jobs /\ faults' \in 0..MaxFaults /\ worker'[w] = next
      /\ \A v \in Workers \ {w} :
           /\ worker'[v].pc = worker[v].pc /\ worker'[v].view = worker[v].view
           /\ worker'[v].todo = worker[v].todo /\ worker'[v].chunk = worker[v].chunk
           /\ worker'[v].overdue = worker[v].overdue
  <2>1. CASE Set(w, next) /\ UNCHANGED <<ledger, forgot, faults>>
    BY <1>1, <1>3, <2>1 DEF Set, TypeOK
  <2>2. CASE Flush(w, rows, next)
    BY <1>3, <1>4, <1>5, <2>2, FlushKeeps
  <2> QED  BY <1>2, <2>1, <2>2
<1>7. TypeOK'  BY <1>2, <1>6 DEF TypeOK, Without
<1>8. ASSUME NEW v \in Workers PROVE OwnCutOf(v)'
  <2>1. CASE v = w  BY <2>1, <1>3, <1>6 DEF OwnCutOf, At
  <2>2. CASE v # w  BY <2>2, <1>2, <1>6, Untouched
  <2> QED  BY <2>1, <2>2
<1> QED  BY <1>7, <1>8

\* The run begins with no rows and no claims.
LEMMA InitInv == Init => IInv
<1> SUFFICES ASSUME Init PROVE IInv
  OBVIOUS
<1>2. TypeOK
  <2>1. ledger \in [Jobs -> Row \cup {NoRow}]  BY DEF Init, NoView
  <2>2. worker \in [Workers -> State]  BY FreshState DEF Init
  <2>3. claim \in [Chunk -> Workers \cup {Nobody}] /\ aged = {} /\ before = {}  BY DEF Init
  <2>4. forgot \subseteq Jobs /\ faults \in 0..MaxFaults
    <3>1. MaxFaults \in Nat  BY FleetAssumption
    <3>2. forgot = {} /\ faults = MaxFaults  BY Zenon DEF Init
    <3> QED  BY <3>1, <3>2
  <2> QED  BY <2>1, <2>2, <2>3, <2>4 DEF TypeOK
<1>3. OwnCut
  <2>1. \A w \in Workers : worker[w].pc = "between"  BY DEF Init, Fresh
  <2> QED  BY <2>1 DEF OwnCut, At
<1> QED  BY <1>2, <1>3 DEF IInv

\* One step of a worker's entrypoint and pass.
LEMMA StepInv ==
  ASSUME IInv, NEW w \in Workers, Step(w)
  PROVE  IInv'
<1>1. /\ TypeOK
      /\ worker \in [Workers -> State]
      /\ worker[w] \in State
      /\ \A v \in Workers : OwnCutOf(v)
  BY DEF IInv, TypeOK, OwnCut, OwnCutOf
<1>2. SUFFICES TypeOK' /\ \A v \in Workers : OwnCutOf(v)'
  BY DEF IInv, OwnCut, OwnCutOf
<1>3. Fresh \in State
  BY FreshState
<1>4. CASE Begin(w)
  <2> DEFINE p == [worker[w] EXCEPT !.pc = "begun"]
  <2>1. p \in State  BY <1>1 DEF State
  <2>2. worker' = [worker EXCEPT ![w] = p]  BY <1>4 DEF Begin, Set
  <2>3. TypeOK'  BY <1>1, <1>4, <2>1, <2>2 DEF Begin, TypeOK
  <2>4. ASSUME NEW v \in Workers PROVE OwnCutOf(v)'
    <3>1. CASE v = w  BY <3>1, <1>1, <2>2 DEF OwnCutOf, At
    <3>2. CASE v # w  BY <3>2, <1>1, <1>4, <2>2, Untouched DEF Begin
    <3> QED  BY <3>1, <3>2
  <2> QED  BY <2>3, <2>4
<1>5. CASE Drained(w)
  <2> DEFINE p == [Fresh EXCEPT !.pc = "gone"]
  <2>1. p \in State  BY <1>3 DEF State
  <2>2. worker' = [worker EXCEPT ![w] = p]  BY <1>5 DEF Drained, Set
  <2>3. TypeOK'  BY <1>1, <1>5, <2>1, <2>2 DEF Drained, TypeOK
  <2>4. ASSUME NEW v \in Workers PROVE OwnCutOf(v)'
    <3>1. CASE v = w
      <4>1. worker'[w].pc = "gone"  BY <1>1, <2>2 DEF Fresh
      <4> QED  BY <3>1, <4>1 DEF OwnCutOf, At
    <3>2. CASE v # w  BY <3>2, <1>1, <1>5, <2>2, Untouched DEF Drained
    <3> QED  BY <3>1, <3>2
  <2> QED  BY <2>3, <2>4
<1>6. CASE Read(w)
  BY <1>1, <1>6, PlanInv DEF Read, TypeOK
<1>7. CASE FinishChunk(w)
  BY <1>1, <1>7, FinishInv
<1>8. CASE EndPass(w)
  BY <1>1, <1>8, EndInv
<1>9. ASSUME NEW c \in worker[w].todo, ClaimChunk(w, c)
      PROVE  TypeOK' /\ \A v \in Workers : OwnCutOf(v)'
  <2> DEFINE p == [worker[w] EXCEPT !.pc = "run", !.chunk = c, !.overdue = FALSE, !.todo = @ \ {c}]
  <2>1. c \in Chunk  BY <1>1 DEF State
  <2>2. p \in State  BY <1>1, <2>1 DEF State, Chunk
  <2>3. /\ worker' = [worker EXCEPT ![w] = p]
        /\ claim' = [claim EXCEPT ![c] = w] /\ aged' = aged \ {c}
    BY <1>9 DEF ClaimChunk, Set
  <2>4. claim \in [Chunk -> Workers \cup {Nobody}]  BY <1>1 DEF TypeOK
  <2>5. aged' \subseteq {d \in Chunk : claim'[d] # Nobody}
    BY <1>1, <2>3, <2>4 DEF TypeOK
  <2>6. claim' \in [Chunk -> Workers \cup {Nobody}]  BY <2>3, <2>4
  <2>7. TypeOK'  BY <1>1, <1>9, <2>2, <2>3, <2>5, <2>6 DEF ClaimChunk, TypeOK
  <2>8. ASSUME NEW v \in Workers PROVE OwnCutOf(v)'
    <3>1. CASE v = w
      <4>1. worker[w].todo \subseteq Chunks(w, Gap(w))  BY <1>1, <1>9 DEF OwnCutOf, ClaimChunk, At
      <4>2. /\ worker'[w].view = worker[w].view /\ worker'[w].chunk = c
            /\ worker'[w].todo = worker[w].todo \ {c}
        BY <1>1, <2>3 DEF State
      <4>3. Gap(w)' = Gap(w)  BY <4>2 DEF Gap, PlanOf, reconcile_at, RetryDue
      <4>4. Chunks(w, Gap(w))' = Chunks(w, Gap(w))  BY <4>3 DEF Chunks
      <4>5. claim'[c] = w /\ c \notin aged'  BY <2>1, <2>3, <2>4
      <4> QED  BY <3>1, <4>1, <4>2, <4>4, <4>5 DEF OwnCutOf
    <3>2. CASE v # w
      <4>1. worker'[v] = worker[v]  BY <3>2, <1>1, <2>3
      <4>2. At(v, "run") /\ ~worker[v].overdue => worker[v].chunk # c
        <5>1. At(v, "run") /\ ~worker[v].overdue =>
                claim[worker[v].chunk] = v /\ worker[v].chunk \notin aged
          BY <1>1 DEF OwnCutOf
        <5> QED  BY <5>1, <1>9, FleetAssumption DEF ClaimChunk, Free
      <4>3. At(v, "run") /\ ~worker[v].overdue =>
              /\ claim'[worker[v].chunk] = claim[worker[v].chunk]
              /\ worker[v].chunk \in aged' => worker[v].chunk \in aged
        <5>1. worker[v].chunk # c => claim'[worker[v].chunk] = claim[worker[v].chunk]
          BY <2>3, <2>4
        <5> QED  BY <4>2, <5>1, <2>3
      <4> QED  BY <1>1, <4>1, <4>3, Untouched
    <3> QED  BY <3>1, <3>2
  <2> QED  BY <2>7, <2>8
<1>10. ASSUME NEW c \in worker[w].todo, SkipChunk(w, c)
       PROVE  TypeOK' /\ \A v \in Workers : OwnCutOf(v)'
  <2> DEFINE p == [worker[w] EXCEPT !.skipped = TRUE, !.todo = @ \ {c}]
  <2>1. p \in State  BY <1>1 DEF State
  <2>2. worker' = [worker EXCEPT ![w] = p]  BY <1>10 DEF SkipChunk, Set
  <2>3. TypeOK'  BY <1>1, <1>10, <2>1, <2>2 DEF SkipChunk, TypeOK
  <2>4. ASSUME NEW v \in Workers PROVE OwnCutOf(v)'
    <3>1. CASE v = w
      <4>1. /\ worker'[w].view = worker[w].view /\ worker'[w].pc = "claim"
            /\ worker'[w].todo = worker[w].todo \ {c} /\ worker[w].pc = "claim"
        BY <1>1, <1>10, <2>2 DEF State, SkipChunk, At
      <4>2. Gap(w)' = Gap(w)  BY <4>1 DEF Gap, PlanOf, reconcile_at, RetryDue
      <4>3. Chunks(w, Gap(w))' = Chunks(w, Gap(w))  BY <4>2 DEF Chunks
      <4> QED  BY <3>1, <1>1, <4>1, <4>3 DEF OwnCutOf, At
    <3>2. CASE v # w  BY <3>2, <1>1, <1>10, <2>2, Untouched DEF SkipChunk
    <3> QED  BY <3>1, <3>2
  <2> QED  BY <2>3, <2>4
<1> QED  BY <1>4, <1>5, <1>6, <1>7, <1>8, <1>9, <1>10 DEF Step

\* One step of the whole system.
LEMMA NextInv ==
  ASSUME IInv, [Next]_vars
  PROVE  IInv'
<1>1. /\ TypeOK
      /\ worker \in [Workers -> State]
      /\ \A v \in Workers : OwnCutOf(v)
  BY DEF IInv, TypeOK, OwnCut, OwnCutOf
<1>2. SUFFICES TypeOK' /\ \A v \in Workers : OwnCutOf(v)'
  BY DEF IInv, OwnCut, OwnCutOf
<1>3. ASSUME NEW w \in Workers, Step(w) PROVE IInv'
  BY <1>3, StepInv
<1>4. ASSUME NEW w \in Workers, ReadFails(w)
      PROVE  TypeOK' /\ \A v \in Workers : OwnCutOf(v)'
  <2>1. faults' \in 0..MaxFaults
    BY <1>1, <1>4, FleetAssumption DEF ReadFails, Fault, TypeOK
  <2>2. NoView \in [Jobs -> Row \cup {NoRow}] /\ Plan(w, NoView)
    BY <1>4 DEF ReadFails, NoView
  <2> QED  BY <1>1, <2>1, <2>2, PlanInv
<1>5. ASSUME NEW w \in Workers, Crash(w)
      PROVE  TypeOK' /\ \A v \in Workers : OwnCutOf(v)'
  <2>1. worker' = [worker EXCEPT ![w] = Fresh]  BY <1>5 DEF Crash, Set
  <2>2. /\ faults' \in 0..MaxFaults /\ before' \subseteq Workers \X Workers
        /\ UNCHANGED <<ledger, forgot>>
    BY <1>1, <1>5, FleetAssumption DEF Crash, Fault, TypeOK, Without
  <2>3. worker' \in [Workers -> State]  BY <1>1, <2>1, FreshState
  <2>4. /\ claim' \in [Chunk -> Workers \cup {Nobody}]
        /\ aged' \subseteq {c \in Chunk : claim'[c] # Nobody}
        /\ aged' \subseteq aged
        /\ \A c \in Chunk : claim[c] # w => claim'[c] = claim[c]
    <3>1. CASE UNCHANGED <<claim, aged>>  BY <1>1, <3>1 DEF TypeOK
    <3>2. CASE /\ claim[worker[w].chunk] = w
               /\ claim' = [claim EXCEPT ![worker[w].chunk] = Nobody]
               /\ aged' = aged \ {worker[w].chunk}
      BY <1>1, <3>2 DEF TypeOK
    <3> QED  BY <1>5, <3>1, <3>2 DEF Crash
  <2>5. TypeOK'  BY <1>1, <2>2, <2>3, <2>4 DEF TypeOK
  <2>6. ASSUME NEW v \in Workers PROVE OwnCutOf(v)'
    <3>1. CASE v = w
      <4>1. worker'[w].pc = "between"  BY <1>1, <2>1 DEF Fresh
      <4> QED  BY <3>1, <4>1 DEF OwnCutOf, At
    <3>2. CASE v # w
      <4>1. worker'[v] = worker[v]  BY <3>2, <1>1, <2>1
      <4>2. At(v, "run") => worker[v].chunk \in Chunk  BY <1>1, RunningChunk
      <4>3. At(v, "run") /\ ~worker[v].overdue => claim[worker[v].chunk] = v
        BY <1>1 DEF OwnCutOf
      <4> QED  BY <1>1, <3>2, <4>1, <4>2, <4>3, <2>4, Untouched
    <3> QED  BY <3>1, <3>2
  <2> QED  BY <2>5, <2>6
<1>6. ASSUME NEW c \in Chunk, Age(c)
      PROVE  TypeOK' /\ \A v \in Workers : OwnCutOf(v)'
  <2>1. TypeOK'  BY <1>1, <1>6 DEF Age, Abandoned, TypeOK
  <2>2. ASSUME NEW v \in Workers PROVE OwnCutOf(v)'
    <3>1. At(v, "run") /\ ~worker[v].overdue => claim[worker[v].chunk] = v
      BY <1>1 DEF OwnCutOf
    <3>2. At(v, "run") /\ ~worker[v].overdue => worker[v].chunk # c
      BY <1>6, <3>1 DEF Age, Abandoned, Runs
    <3> QED  BY <1>1, <1>6, <3>2, Untouched DEF Age
  <2> QED  BY <2>1, <2>2
<1>7. ASSUME NEW w \in Workers, Overrun(w) \/ Renew(w)
      PROVE  TypeOK' /\ \A v \in Workers : OwnCutOf(v)'
  <2> DEFINE c == worker[w].chunk
  <2>1. /\ At(w, "run") /\ claim[c] = w /\ UNCHANGED <<ledger, before, claim, forgot, faults>>
        /\ \/ aged' = aged \cup {c} /\ Set(w, [worker[w] EXCEPT !.overdue = TRUE])
           \/ aged' = aged \ {c} /\ Set(w, [worker[w] EXCEPT !.overdue = FALSE])
    BY <1>7 DEF Overrun, Renew
  <2>2. PICK late \in BOOLEAN :
          /\ worker' = [worker EXCEPT ![w] = [worker[w] EXCEPT !.overdue = late]]
          /\ aged' = IF late THEN aged \cup {c} ELSE aged \ {c}
    <3>1. CASE aged' = aged \cup {c} /\ Set(w, [worker[w] EXCEPT !.overdue = TRUE])
      BY <3>1 DEF Set
    <3>2. CASE aged' = aged \ {c} /\ Set(w, [worker[w] EXCEPT !.overdue = FALSE])
      BY <3>2 DEF Set
    <3> QED  BY <2>1, <3>1, <3>2
  <2>3. c \in Chunk /\ w # Nobody  BY <1>1, <2>1, RunningChunk, FleetAssumption
  <2>4. [worker[w] EXCEPT !.overdue = late] \in State  BY <1>1 DEF State
  <2>5. worker' \in [Workers -> State]  BY <1>1, <2>2, <2>4
  <2>6. TypeOK'  BY <1>1, <2>1, <2>2, <2>3, <2>5 DEF TypeOK
  <2>7. ASSUME NEW v \in Workers PROVE OwnCutOf(v)'
    <3>1. CASE v = w
      <4>1. worker[w] \in State /\ worker'[w] = [worker[w] EXCEPT !.overdue = late]
        BY <1>1, <2>2
      <4>2. /\ worker'[w].pc = "run" /\ worker'[w].view = worker[w].view
            /\ worker'[w].todo = worker[w].todo /\ worker'[w].chunk = c
            /\ worker'[w].overdue = late
        BY <2>1, <4>1 DEF At, State
      <4>3. Gap(w)' = Gap(w)  BY <4>2 DEF Gap, PlanOf, reconcile_at, RetryDue
      <4>4. Chunks(w, Gap(w))' = Chunks(w, Gap(w))  BY <4>3 DEF Chunks
      <4>5. worker[w].todo \subseteq Chunks(w, Gap(w)) /\ c \in Chunks(w, Gap(w))
        BY <1>1, <2>1 DEF OwnCutOf, At
      <4>6. ~late => claim'[c] = w /\ c \notin aged'  BY <2>1, <2>2
      <4> QED  BY <3>1, <4>2, <4>4, <4>5, <4>6 DEF OwnCutOf
    <3>2. CASE v # w
      <4>1. worker'[v] = worker[v]  BY <3>2, <1>1, <2>2
      <4>2. At(v, "run") /\ ~worker[v].overdue => worker[v].chunk # c
        BY <1>1, <2>1, <3>2 DEF OwnCutOf
      <4> QED  BY <1>1, <2>1, <2>2, <4>1, <4>2, Untouched
    <3> QED  BY <3>1, <3>2
  <2> QED  BY <2>6, <2>7
<1>8. CASE UNCHANGED vars
  <2>1. TypeOK'  BY <1>1, <1>8 DEF vars, TypeOK
  <2> QED  BY <1>1, <1>8, <2>1, Untouched DEF vars
<1> QED  BY <1>2, <1>3, <1>4, <1>5, <1>6, <1>7, <1>8 DEF Next, AllGone, IInv, OwnCut, OwnCutOf

\* Every variable keeps to its values; a count of attempts stays within the cap, a claim
\* that ages belongs to someone.  (RetryPolicy, execute_gap_chunked_bounded)
THEOREM TypeCorrect == Spec => []TypeOK
<1>1. IInv => TypeOK  BY DEF IInv
<1> QED  BY <1>1, InitInv, NextInv, PTL DEF Spec

\* Workers that run the same job at the same time saw different gaps, or one has not renewed
\* its claim for a TTL: of one cut, a job is in one chunk, and one claim covers it.
\* (pack_chunks_lpt_uniform, chunk_id; the renewals of run_chunk_concurrent)
THEOREM ClaimsKeepApart == Spec => []OverlapOnlyAcrossViews
<1>1. ASSUME IInv PROVE OverlapOnlyAcrossViews
  <2> SUFFICES ASSUME Uniform, NEW w \in Workers, NEW v \in Workers, w # v,
                      At(w, "run"), At(v, "run"),
                      worker[w].chunk \cap worker[v].chunk # {},
                      Gap(w) = Gap(v), ~worker[w].overdue, ~worker[v].overdue
               PROVE  FALSE
    BY DEF OverlapOnlyAcrossViews
  <2>1. /\ worker[w].chunk \in Pack[Gap(w)] /\ claim[worker[w].chunk] = w
        /\ worker[v].chunk \in Pack[Gap(w)] /\ claim[worker[v].chunk] = v
    BY <1>1 DEF IInv, OwnCut, Chunks
  <2>2. Gap(w) \in SUBSET Jobs  BY DEF Gap, PlanOf
  <2>3. worker[w].chunk = worker[v].chunk  BY <2>1, <2>2, PackAssumption DEF Cuts
  <2> QED  BY <2>1, <2>3
<1> QED  BY <1>1, InitInv, NextInv, PTL DEF Spec
-----------------------------------------------------------------------------
(* No job is left that nobody tried.  While a job has no row, every worker *)
(* sees it in its gap, so that a pass which takes itself for idle has      *)
(* tried it and lost the rows: each idle pass has cost a fault.            *)

Lost == MaxFaults - faults

\* The jobs a pass has yet to claim, or is at.
Ahead(w) == (UNION worker[w].todo) \cup (IF At(w, "run") THEN worker[w].chunk ELSE {})

\* What one worker's idle passes say of a job: it does not see a row that is not there;
\* without a row, its idle passes were lost to faults, and so is the one it is in, once
\* that has neither completed nor skipped anything and has the job behind it.
TriedBy(w, j) ==
  /\ worker[w].view[j] # NoRow => ledger[j] # NoRow
  /\ ledger[j] = NoRow =>
       /\ worker[w].idle <= Lost
       /\ At(w, "gone") => IdlePasses <= Lost
       /\ worker[w].pc \in {"claim", "run"} /\ NoWork(worker[w]) /\ j \notin Ahead(w)
            => worker[w].idle + 1 <= Lost

Tried == \A w \in Workers, j \in Jobs : TriedBy(w, j)

\* Rows never leave the ledger, and faults are only used up.
Onward == /\ \A j \in Jobs : ledger'[j] = NoRow => ledger[j] = NoRow
          /\ faults \in Nat /\ faults' \in Nat /\ faults' <= faults

\* A worker whose pass a step does not change.
LEMMA UntouchedTried ==
  ASSUME NEW v \in Workers, NEW j \in Jobs, worker[v] \in State, TriedBy(v, j), Onward,
         worker'[v].pc = worker[v].pc, worker'[v].view = worker[v].view,
         worker'[v].todo = worker[v].todo, worker'[v].chunk = worker[v].chunk,
         worker'[v].done = worker[v].done, worker'[v].skipped = worker[v].skipped,
         worker'[v].idle = worker[v].idle
  PROVE  TriedBy(v, j)'
<1>1. Ahead(v)' = Ahead(v)  BY DEF Ahead, At
<1>2. NoWork(worker[v])' = NoWork(worker[v])  BY DEF NoWork
<1>3. ledger'[j] = NoRow => ledger[j] = NoRow  BY DEF Onward
<1>4. worker[v].idle \in Nat  BY DEF State
<1>5. \A n \in Nat : n <= Lost => n <= Lost'  BY FleetAssumption DEF Lost, Onward
<1>6. worker'[v].view[j] # NoRow => ledger'[j] # NoRow  BY <1>3 DEF TriedBy
<1>7. ASSUME ledger'[j] = NoRow
      PROVE  /\ worker'[v].idle <= Lost'
             /\ At(v, "gone")' => IdlePasses <= Lost'
             /\ (worker[v].pc \in {"claim", "run"} /\ NoWork(worker[v]) /\ j \notin Ahead(v))'
                  => worker'[v].idle + 1 <= Lost'
  <2>1. /\ worker[v].idle <= Lost
        /\ At(v, "gone") => IdlePasses <= Lost
        /\ worker[v].pc \in {"claim", "run"} /\ NoWork(worker[v]) /\ j \notin Ahead(v)
             => worker[v].idle + 1 <= Lost
    BY <1>3, <1>7 DEF TriedBy
  <2>2. IdlePasses \in Nat /\ worker[v].idle + 1 \in Nat  BY <1>4, FleetAssumption
  <2>3. worker'[v].idle <= Lost'  BY <1>4, <1>5, <2>1
  <2>4. At(v, "gone")' => IdlePasses <= Lost'  BY <1>5, <2>1, <2>2 DEF At
  <2>5. (worker[v].pc \in {"claim", "run"} /\ NoWork(worker[v]) /\ j \notin Ahead(v))'
          => worker'[v].idle + 1 <= Lost'
    BY <1>1, <1>2, <1>5, <2>1, <2>2
  <2> QED  BY <2>3, <2>4, <2>5
<1> QED  BY <1>6, <1>7 DEF TriedBy

\* Rows that are written either land, all of them, or cost a fault (flush_chunk_rows).
LEMMA FlushTries ==
  ASSUME TypeOK, NEW w \in Workers, NEW p \in State, NEW D \in SUBSET Jobs,
         NEW rows \in [D -> Row], Flush(w, rows, p)
  PROVE  /\ \A v \in Workers \ {w} :
              /\ worker'[v].done = worker[v].done /\ worker'[v].skipped = worker[v].skipped
              /\ worker'[v].idle = worker[v].idle
         /\ Onward
         /\ (\A j \in D : ledger'[j] # NoRow) \/ faults' = faults - 1
<1>1. worker \in [Workers -> State]  BY DEF TypeOK
<1>2. faults \in Nat /\ ledger \in [Jobs -> Row \cup {NoRow}]  BY FleetAssumption DEF TypeOK
<1>3. CASE Fault /\ Set(w, p) /\ UNCHANGED <<ledger, forgot>>
  <2>1. worker' = [worker EXCEPT ![w] = p]  BY <1>3 DEF Set
  <2>2. \A v \in Workers \ {w} : worker'[v] = worker[v]  BY <1>1, <2>1
  <2>3. Onward /\ faults' = faults - 1  BY <1>2, <1>3 DEF Fault, Onward
  <2> QED  BY <2>2, <2>3
<1>4. CASE ~(Fault /\ Set(w, p) /\ UNCHANGED <<ledger, forgot>>)
  <2>1. PICK replaced : 
          /\ ledger' = [j \in Jobs |-> IF j \in DOMAIN rows THEN Land(j, rows[j]) ELSE ledger[j]]
          /\ worker' = [v \in Workers |->
               IF v = w THEN p
               ELSE IF <<v, w>> \in before THEN [worker[v] EXCEPT !.late = @ \cup replaced]
               ELSE [worker[v] EXCEPT !.late = @ \ replaced]]
          /\ UNCHANGED faults
    BY <1>4 DEF Flush
  <2>2. ASSUME NEW v \in Workers \ {w}
        PROVE  /\ worker'[v].done = worker[v].done /\ worker'[v].skipped = worker[v].skipped
               /\ worker'[v].idle = worker[v].idle
    <3>1. worker[v] \in State  BY <1>1
    <3>2. worker'[v] = [worker[v] EXCEPT !.late = @ \cup replaced]
            \/ worker'[v] = [worker[v] EXCEPT !.late = @ \ replaced]
      BY <2>1
    <3> QED  BY <3>1, <3>2 DEF State
  <2>3. \A j \in D : Land(j, rows[j]) \in Row  BY LandRow
  <2>4. \A j \in D : ledger'[j] # NoRow  BY <2>1, <2>3, RowAssumption
  <2>5. \A j \in Jobs : ledger'[j] = NoRow => ledger[j] = NoRow  BY <2>1, <2>4
  <2>6. Onward  BY <1>2, <2>1, <2>5 DEF Onward
  <2> QED  BY <2>2, <2>4, <2>6
<1> QED  BY <1>3, <1>4

\* A pass has every job before it of which it saw no row (execute_gap_chunked_bounded).
LEMMA PlanTries ==
  ASSUME IInv, Tried, NEW w \in Workers, NEW view \in [Jobs -> Row \cup {NoRow}],
         Plan(w, view), \A j \in Jobs : view[j] # NoRow => ledger[j] # NoRow, Onward
  PROVE  Tried'
<1> DEFINE gap == PlanOf(view, "enqueue")
           p == [worker[w] EXCEPT !.pc = "claim", !.view = view, !.todo = Chunks(w, gap)]
<1>1. worker \in [Workers -> State] /\ worker[w] \in State  BY DEF IInv, TypeOK
<1>2. worker' = [worker EXCEPT ![w] = p] /\ ledger' = ledger  BY DEF Plan, Set
<1>3. worker'[w] = p  BY <1>1, <1>2
<1>4. /\ worker'[w].pc = "claim" /\ worker'[w].view = view
      /\ worker'[w].todo = Chunks(w, gap) /\ worker'[w].idle = worker[w].idle
  BY <1>1, <1>3 DEF State
<1>5. ASSUME NEW v \in Workers, NEW j \in Jobs PROVE TriedBy(v, j)'
  <2>1. TriedBy(v, j)  BY DEF Tried
  <2>2. CASE v # w
    <3>1. worker'[v] = worker[v]  BY <1>1, <1>2, <2>2
    <3> QED  BY <1>1, <2>1, <3>1, UntouchedTried
  <2>3. CASE v = w
    <3>1. ledger[j] = NoRow => j \in Ahead(w)'
      <4>1. ledger[j] = NoRow => j \in gap  BY DEF PlanOf, reconcile_at
      <4>2. gap = UNION Chunks(w, gap)  BY GapJobs, CutOfGap DEF Cuts
      <4> QED  BY <1>4, <4>1, <4>2 DEF Ahead
    <3>2. ledger[j] = NoRow => worker[w].idle <= Lost'
      BY <1>1, <2>1, <2>3, FleetAssumption DEF TriedBy, Lost, Onward, State
    <3> QED  BY <1>2, <1>4, <2>3, <3>1, <3>2 DEF TriedBy, At
  <2> QED  BY <2>2, <2>3
<1> QED  BY <1>5 DEF Tried

\* A chunk that ends has left rows of its jobs, or cost a fault; without a cap on its
\* chunks the pass goes on with the others (run_chunk_concurrent's results).
LEMMA FinishTries ==
  ASSUME IInv, Tried, MaxChunks = 0, NEW w \in Workers, FinishChunk(w)
  PROVE  Tried'
<1>1. PICK end \in [worker[w].chunk -> Ends] :
        Flush(w, [j \in worker[w].chunk |->
                    IF end[j] = "ok" THEN make(w, j, "Done", FALSE)
                    ELSE make(w, j, "Failed", end[j] = "transient")],
              [worker[w] EXCEPT !.pc = "claim", !.chunk = {}, !.overdue = FALSE,
                       !.ran = @ + 1,
                       !.done = @ \/ \E j \in worker[w].chunk : end[j] = "ok",
                       !.todo = IF worker[w].ran + 1 = MaxChunks THEN {} ELSE @])
  BY DEF FinishChunk
<1> DEFINE D == worker[w].chunk
           rows == [j \in D |-> IF end[j] = "ok" THEN make(w, j, "Done", FALSE)
                                ELSE make(w, j, "Failed", end[j] = "transient")]
           done == worker[w].done \/ \E j \in D : end[j] = "ok"
           p == [worker[w] EXCEPT !.pc = "claim", !.chunk = {}, !.overdue = FALSE,
                                  !.ran = worker[w].ran + 1,
                                  !.done = done, !.todo = worker[w].todo]
<1>2. TypeOK /\ worker \in [Workers -> State] /\ worker[w] \in State
  BY DEF IInv, TypeOK
<1>3. At(w, "run")  BY DEF FinishChunk
<1>4. D \in SUBSET Jobs /\ D \subseteq Gap(w)
  <2>1. Gap(w) \in SUBSET Jobs  BY DEF Gap, PlanOf
  <2>2. D \in Chunks(w, Gap(w))  BY <1>3 DEF IInv, OwnCut
  <2> QED  BY <2>1, <2>2, CutOfGap DEF Cuts
<1>5. rows \in [D -> Row]
  <2>1. ASSUME NEW j \in D
        PROVE  make(w, j, "Done", FALSE) \in Row
               /\ make(w, j, "Failed", end[j] = "transient") \in Row
    BY <1>2, <1>4, MakeRow
  <2> QED  BY <2>1
<1>6. worker[w].ran + 1 # MaxChunks /\ worker[w].ran + 1 \in Nat  BY <1>2 DEF State
<1>7. Flush(w, rows, p)  BY <1>1, <1>2, <1>6 DEF State
<1>8. done \in BOOLEAN  OBVIOUS
<1>9. p \in State
  <2> HIDE DEF done
  <2> QED  BY <1>2, <1>6, <1>8 DEF State
<1>10. /\ p.pc = "claim" /\ p.view = worker[w].view /\ p.todo = worker[w].todo
       /\ p.idle = worker[w].idle /\ p.skipped = worker[w].skipped /\ p.done = done
  BY <1>2 DEF State
<1>11. NoWork(p) => NoWork(worker[w])  BY <1>10, Zenon DEF NoWork
<1> HIDE DEF p, rows, done
<1>12. /\ worker'[w] = p
       /\ \A v \in Workers \ {w} :
            /\ worker'[v].pc = worker[v].pc /\ worker'[v].view = worker[v].view
            /\ worker'[v].todo = worker[v].todo /\ worker'[v].chunk = worker[v].chunk
  BY <1>2, <1>4, <1>5, <1>7, <1>9, FlushKeeps
<1>13. /\ \A v \in Workers \ {w} :
            /\ worker'[v].done = worker[v].done /\ worker'[v].skipped = worker[v].skipped
            /\ worker'[v].idle = worker[v].idle
       /\ Onward
       /\ (\A j \in D : ledger'[j] # NoRow) \/ faults' = faults - 1
  BY <1>2, <1>4, <1>5, <1>7, <1>9, FlushTries
<1>14. ASSUME NEW v \in Workers, NEW j \in Jobs PROVE TriedBy(v, j)'
  <2>1. TriedBy(v, j)  BY DEF Tried
  <2>2. CASE v # w  BY <1>2, <1>12, <1>13, <2>1, <2>2, UntouchedTried
  <2>3. CASE v = w
    <3>1. worker'[w].view[j] # NoRow => ledger'[j] # NoRow
      BY <1>10, <1>12, <1>13, <2>1, <2>3 DEF TriedBy, Onward
    <3>2. ASSUME ledger'[j] = NoRow PROVE worker[w].idle <= Lost'
      BY <1>2, <1>13, <2>1, <2>3, <3>2, FleetAssumption DEF TriedBy, Lost, Onward, State
    <3>3. ASSUME ledger'[j] = NoRow, NoWork(p), j \notin Ahead(w)'
          PROVE  worker[w].idle + 1 <= Lost'
      <4>1. NoWork(worker[w]) /\ ledger[j] = NoRow /\ worker[w].idle \in Nat
        BY <1>2, <1>11, <1>13, <3>3 DEF Onward, State
      <4>2. j \notin UNION worker[w].todo  BY <1>10, <1>12, <3>3 DEF Ahead
      <4>3. CASE j \in D
        BY <1>13, <2>1, <2>3, <3>3, <4>1, <4>3, FleetAssumption DEF TriedBy, Lost, Onward
      <4>4. CASE j \notin D
        <5>1. j \notin Ahead(w)  BY <4>2, <4>4 DEF Ahead
        <5>2. worker[w].idle + 1 <= Lost
          BY <1>3, <2>1, <2>3, <4>1, <5>1 DEF TriedBy, At
        <5> QED  BY <1>13, <4>1, <5>2, FleetAssumption DEF Lost, Onward
      <4> QED  BY <4>3, <4>4
    <3> QED  BY <1>10, <1>12, <2>3, <3>1, <3>2, <3>3 DEF TriedBy, At
  <2> QED  BY <2>2, <2>3
<1> QED  BY <1>14 DEF Tried

\* A pass that ends has nothing ahead: it counts as idle only if the rows of a job that
\* still has none were lost (the pass loop of fleet-entrypoint.sh).
LEMMA EndTries ==
  ASSUME IInv, Tried, NEW w \in Workers, EndPass(w)
  PROVE  Tried'
<1> DEFINE idle == IF NoWork(worker[w]) THEN worker[w].idle + 1 ELSE 0
           next == [Fresh EXCEPT !.idle = idle]
           doomed == PlanOf(worker[w].view, "poison")
           rows == [j \in doomed |-> make(w, j, "Poison", FALSE)]
<1>1. TypeOK /\ worker \in [Workers -> State] /\ worker[w] \in State
  BY DEF IInv, TypeOK
<1>2. /\ At(w, "claim") /\ worker[w].todo = {}
      /\ \/ Set(w, next) /\ UNCHANGED <<ledger, forgot, faults>>
         \/ Flush(w, rows, next)
  BY DEF EndPass
<1>3. idle \in Nat  BY <1>1 DEF State
<1>4. next \in State /\ next.pc = "between" /\ next.view = NoView /\ next.idle = idle
  <2>1. Fresh.pc = "between" /\ Fresh.view = NoView  BY DEF Fresh
  <2> HIDE DEF idle
  <2> QED  BY <1>3, <2>1, FreshState DEF State
<1>5. doomed \in SUBSET Jobs  BY DEF PlanOf
<1>6. rows \in [doomed -> Row]
  <2>1. \A j \in doomed : make(w, j, "Poison", FALSE) \in Row  BY <1>1, <1>5, MakeRow
  <2> QED  BY <2>1
<1> HIDE DEF next, rows, doomed
<1>7. /\ worker'[w] = next /\ Onward
      /\ \A v \in Workers \ {w} :
           /\ worker'[v].pc = worker[v].pc /\ worker'[v].view = worker[v].view
           /\ worker'[v].todo = worker[v].todo /\ worker'[v].chunk = worker[v].chunk
           /\ worker'[v].done = worker[v].done /\ worker'[v].skipped = worker[v].skipped
           /\ worker'[v].idle = worker[v].idle
  <2>1. CASE Set(w, next) /\ UNCHANGED <<ledger, faults>>
    BY <1>1, <2>1, FleetAssumption DEF Set, TypeOK, Onward
  <2>2. CASE Flush(w, rows, next)
    BY <1>1, <1>4, <1>5, <1>6, <2>2, FlushKeeps, FlushTries
  <2> QED  BY <1>2, <2>1, <2>2
<1>8. ASSUME NEW v \in Workers, NEW j \in Jobs PROVE TriedBy(v, j)'
  <2>1. TriedBy(v, j)  BY DEF Tried
  <2>2. CASE v # w  BY <1>1, <1>7, <2>1, <2>2, UntouchedTried
  <2>3. CASE v = w
    <3>1. worker'[w].view[j] = NoRow  BY <1>4, <1>7 DEF NoView
    <3>2. ASSUME ledger'[j] = NoRow PROVE idle <= Lost'
      <4>1. ledger[j] = NoRow  BY <1>7, <3>2 DEF Onward
      <4>2. j \notin Ahead(w)  BY <1>2 DEF Ahead, At
      <4>3. NoWork(worker[w]) => worker[w].idle + 1 <= Lost
        BY <1>2, <2>1, <2>3, <4>1, <4>2 DEF TriedBy, At
      <4>4. idle <= Lost \/ idle = 0  BY <4>3
      <4>5. faults' <= faults /\ faults' \in Nat /\ faults \in Nat  BY <1>7 DEF Onward
      <4>6. faults \in 0..MaxFaults  BY <1>1 DEF TypeOK
      <4> HIDE DEF idle
      <4> QED  BY <1>3, <4>4, <4>5, <4>6, FleetAssumption DEF Lost
    <3> QED  BY <1>4, <1>7, <2>3, <3>1, <3>2 DEF TriedBy, At
  <2> QED  BY <2>2, <2>3
<1> QED  BY <1>8 DEF Tried

\* One step of the whole system.
LEMMA NextTried ==
  ASSUME IInv, Tried, MaxChunks = 0, [Next]_vars
  PROVE  Tried'
<1>1. /\ TypeOK
      /\ worker \in [Workers -> State]
      /\ faults \in 0..MaxFaults /\ faults \in Nat /\ MaxFaults \in Nat
  BY FleetAssumption DEF IInv, TypeOK
<1>2. ASSUME NEW w \in Workers, NEW p, worker' = [worker EXCEPT ![w] = p], Onward,
             \A j \in Jobs : TriedBy(w, j)'
      PROVE  Tried'
  <2>1. ASSUME NEW v \in Workers \ {w}, NEW j \in Jobs PROVE TriedBy(v, j)'
    <3>1. worker'[v] = worker[v]  BY <1>1, <1>2
    <3>2. TriedBy(v, j)  BY DEF Tried
    <3> QED  BY <1>1, <1>2, <3>1, <3>2, UntouchedTried
  <2> QED  BY <1>2, <2>1 DEF Tried
<1>3. (UNCHANGED <<ledger, faults>>) => Onward  BY <1>1 DEF Onward
<1>4. ASSUME NEW w \in Workers, Begin(w) PROVE Tried'
  <2> DEFINE p == [worker[w] EXCEPT !.pc = "begun"]
  <2>1. worker' = [worker EXCEPT ![w] = p] /\ UNCHANGED <<ledger, faults>>
    BY <1>4 DEF Begin, Set
  <2>2. /\ worker'[w].pc = "begun" /\ worker'[w].view = worker[w].view
        /\ worker'[w].idle = worker[w].idle
    BY <1>1, <2>1 DEF State
  <2>3. ASSUME NEW j \in Jobs PROVE TriedBy(w, j)'
    <3>1. TriedBy(w, j)  BY DEF Tried
    <3> QED  BY <2>1, <2>2, <3>1 DEF TriedBy, At, Lost
  <2> QED  BY <1>2, <1>3, <2>1, <2>3
<1>5. ASSUME NEW w \in Workers, Drained(w) PROVE Tried'
  <2> DEFINE p == [Fresh EXCEPT !.pc = "gone"]
  <2>1. worker' = [worker EXCEPT ![w] = p] /\ UNCHANGED <<ledger, faults>>
    BY <1>5 DEF Drained, Set
  <2>2. worker'[w].pc = "gone" /\ worker'[w].view = NoView /\ worker'[w].idle = 0
    BY <1>1, <2>1 DEF Fresh
  <2>3. ASSUME NEW j \in Jobs PROVE TriedBy(w, j)'
    <3>1. TriedBy(w, j)  BY DEF Tried
    <3>2. ledger[j] = NoRow => IdlePasses <= Lost
      <4>1. worker[w].idle >= IdlePasses /\ worker[w].idle \in Nat
        BY <1>1, <1>5 DEF Drained, State
      <4> QED  BY <1>1, <3>1, <4>1, FleetAssumption DEF TriedBy, Lost
    <3>3. NoView[j] = NoRow /\ 0 <= Lost  BY <1>1 DEF NoView, Lost
    <3> QED  BY <2>1, <2>2, <3>2, <3>3 DEF TriedBy, At, Lost
  <2> QED  BY <1>2, <1>3, <2>1, <2>3
<1>6. ASSUME NEW w \in Workers, Read(w) PROVE Tried'
  <2>1. Plan(w, ledger) /\ UNCHANGED <<ledger, faults>>  BY <1>6 DEF Read, Plan
  <2>2. ledger \in [Jobs -> Row \cup {NoRow}]  BY <1>1 DEF TypeOK
  <2>3. Onward  BY <1>3, <2>1
  <2> QED  BY <2>1, <2>2, <2>3, PlanTries
<1>7. ASSUME NEW w \in Workers, ReadFails(w) PROVE Tried'
  <2>1. Onward  BY <1>1, <1>7 DEF ReadFails, Plan, Fault, Onward
  <2>2. NoView \in [Jobs -> Row \cup {NoRow}] /\ \A j \in Jobs : NoView[j] = NoRow
    BY DEF NoView
  <2>3. Plan(w, NoView)  BY <1>7 DEF ReadFails
  <2> QED  BY <2>1, <2>2, <2>3, PlanTries
<1>8. ASSUME NEW w \in Workers, NEW c \in worker[w].todo, ClaimChunk(w, c) PROVE Tried'
  <2> DEFINE p == [worker[w] EXCEPT !.pc = "run", !.chunk = c, !.overdue = FALSE, !.todo = @ \ {c}]
  <2>1. /\ worker' = [worker EXCEPT ![w] = p] /\ UNCHANGED <<ledger, faults>>
        /\ At(w, "claim")
    BY <1>8 DEF ClaimChunk, Set
  <2>2. /\ worker'[w].pc = "run" /\ worker'[w].view = worker[w].view
        /\ worker'[w].chunk = c /\ worker'[w].todo = worker[w].todo \ {c}
        /\ worker'[w].idle = worker[w].idle
        /\ worker'[w].done = worker[w].done /\ worker'[w].skipped = worker[w].skipped
    BY <1>1, <2>1 DEF State
  <2>3. ASSUME NEW j \in Jobs PROVE TriedBy(w, j)'
    <3>1. TriedBy(w, j)  BY DEF Tried
    <3>2. j \in Ahead(w) => j \in Ahead(w)'
      <4>1. Ahead(w) = UNION worker[w].todo  BY <2>1 DEF Ahead, At
      <4>2. Ahead(w)' = (UNION (worker[w].todo \ {c})) \cup c  BY <2>2 DEF Ahead, At
      <4> QED  BY <4>1, <4>2
    <3>3. NoWork(worker[w])' = NoWork(worker[w])  BY <2>2 DEF NoWork
    <3> QED  BY <2>1, <2>2, <3>1, <3>2, <3>3 DEF TriedBy, At, Lost
  <2> QED  BY <1>2, <1>3, <2>1, <2>3
<1>9. ASSUME NEW w \in Workers, NEW c \in worker[w].todo, SkipChunk(w, c) PROVE Tried'
  <2> DEFINE p == [worker[w] EXCEPT !.skipped = TRUE, !.todo = @ \ {c}]
  <2>1. /\ worker' = [worker EXCEPT ![w] = p] /\ UNCHANGED <<ledger, faults>>
        /\ At(w, "claim")
    BY <1>9 DEF SkipChunk, Set
  <2>2. /\ worker'[w].pc = worker[w].pc /\ worker'[w].view = worker[w].view
        /\ worker'[w].idle = worker[w].idle /\ worker'[w].skipped
    BY <1>1, <2>1 DEF State
  <2>3. ASSUME NEW j \in Jobs PROVE TriedBy(w, j)'
    <3>1. TriedBy(w, j)  BY DEF Tried
    <3> QED  BY <2>1, <2>2, <3>1 DEF TriedBy, At, Lost, NoWork
  <2> QED  BY <1>2, <1>3, <2>1, <2>3
<1>10. ASSUME NEW w \in Workers, Crash(w) PROVE Tried'
  <2>1. worker' = [worker EXCEPT ![w] = Fresh]  BY <1>10 DEF Crash, Set
  <2>2. Onward /\ faults' \in 0..MaxFaults  BY <1>1, <1>10 DEF Crash, Fault, Onward
  <2>3. worker'[w].pc = "between" /\ worker'[w].view = NoView /\ worker'[w].idle = 0
    BY <1>1, <2>1 DEF Fresh
  <2>4. ASSUME NEW j \in Jobs PROVE TriedBy(w, j)'
    <3>1. NoView[j] = NoRow  BY DEF NoView
    <3>2. \A n \in 0..MaxFaults : 0 <= MaxFaults - n
      <4>1. MaxFaults \in Nat  BY <1>1
      <4> QED  BY <4>1
    <3>3. 0 <= Lost'  BY <2>2, <3>2 DEF Lost
    <3> QED  BY <2>3, <3>1, <3>3 DEF TriedBy, At
  <2> QED  BY <1>2, <2>1, <2>2, <2>4
<1>11. ASSUME UNCHANGED <<ledger, worker, faults>> PROVE Tried'
  <2>1. ASSUME NEW v \in Workers, NEW j \in Jobs PROVE TriedBy(v, j)'
    <3>1. TriedBy(v, j)  BY DEF Tried
    <3> QED  BY <1>1, <1>3, <1>11, <3>1, UntouchedTried
  <2> QED  BY <2>1 DEF Tried
<1>12. ASSUME NEW c \in Chunk, Age(c) PROVE Tried'
  BY <1>11, <1>12 DEF Age
<1>13. (UNCHANGED vars) => Tried'  BY <1>11 DEF vars
<1>14. ASSUME NEW w \in Workers, Overrun(w) \/ Renew(w) PROVE Tried'
  <2>1. PICK late \in BOOLEAN :
          worker' = [worker EXCEPT ![w] = [worker[w] EXCEPT !.overdue = late]]
    BY <1>14 DEF Overrun, Renew, Set
  <2>2. UNCHANGED <<ledger, faults>>  BY <1>14 DEF Overrun, Renew
  <2>3. /\ worker'[w].pc = worker[w].pc /\ worker'[w].view = worker[w].view
        /\ worker'[w].todo = worker[w].todo /\ worker'[w].chunk = worker[w].chunk
        /\ worker'[w].done = worker[w].done /\ worker'[w].skipped = worker[w].skipped
        /\ worker'[w].idle = worker[w].idle
    BY <1>1, <2>1 DEF State
  <2>4. ASSUME NEW j \in Jobs PROVE TriedBy(w, j)'
    <3>1. TriedBy(w, j) /\ worker[w] \in State  BY <1>1 DEF Tried
    <3> QED  BY <1>3, <2>2, <2>3, <3>1, UntouchedTried
  <2> QED  BY <1>2, <1>3, <2>1, <2>2, <2>4
<1>15. ASSUME NEW w \in Workers, FinishChunk(w) PROVE Tried'  BY <1>15, FinishTries
<1>16. ASSUME NEW w \in Workers, EndPass(w) PROVE Tried'  BY <1>16, EndTries
<1>17. ASSUME NEW w \in Workers, Step(w) PROVE Tried'
  BY <1>4, <1>5, <1>6, <1>8, <1>9, <1>15, <1>16, <1>17 DEF Step
<1> QED  BY <1>7, <1>10, <1>12, <1>13, <1>14, <1>17 DEF Next, AllGone

\* A worker leaves no job untried, unless faults took the rows of each of its idle passes;
\* so it is with a pass that works through all its chunks.  (the drain rule of
\* fleet-entrypoint.sh)
THEOREM NoJobUntried == Spec => []EveryJobTried
<1>1. CASE MaxChunks = 0
  <2>1. Init => Tried
    <3> SUFFICES ASSUME Init, NEW w \in Workers, NEW j \in Jobs PROVE TriedBy(w, j)
      BY DEF Tried
    <3>1. worker[w] = Fresh /\ faults = MaxFaults  BY Zenon DEF Init
    <3>2. Lost = 0  BY <3>1, FleetAssumption DEF Lost
    <3>3. worker[w].pc = "between" /\ worker[w].view = NoView /\ worker[w].idle = 0
      BY <3>1 DEF Fresh
    <3>4. NoView[j] = NoRow  BY DEF NoView
    <3> QED  BY <3>2, <3>3, <3>4 DEF TriedBy, At
  <2>2. IInv /\ Tried /\ [Next]_vars => Tried'  BY <1>1, NextTried
  <2>3. ASSUME IInv, Tried PROVE EveryJobTried
    <3> SUFFICES ASSUME NEW w \in Workers, NEW j \in Jobs, At(w, "gone"),
                        MaxFaults - faults < IdlePasses, ledger[j] = NoRow
                 PROVE  FALSE
      BY DEF EveryJobTried
    <3>1. IdlePasses <= Lost  BY <2>3 DEF Tried, TriedBy
    <3> QED  BY <2>3, <3>1, FleetAssumption DEF Lost, IInv, TypeOK
  <2> QED  BY <2>1, <2>2, <2>3, InitInv, NextInv, PTL DEF Spec
<1>2. CASE MaxChunks # 0
  <2>1. EveryJobTried  BY <1>2 DEF EveryJobTried
  <2> QED  BY <1>2, <2>1, PTL
<1> QED  BY <1>1, <1>2

-----------------------------------------------------------------------------
(* A fleet whose failures are all final leaves nothing behind at all.      *)

\* No row in the ledger asks for another attempt.
NoRetries == \A j \in Jobs : ledger[j] # NoRow => ~Open(j)

\* Written rows are closed ones, if no failure is transient (reconcile_at).
LEMMA LandCloses ==
  ASSUME TypeOK, NEW j \in Jobs, NEW row \in Row, row.status # "Failed" \/ ~row.transient,
         ledger[j] = NoRow \/ ~Open(j)
  PROVE  reconcile_at(Land(j, row), 0) # "enqueue"
<1>1. ledger[j] \in Row \cup {NoRow}
  BY DEF TypeOK
<1>2. PICK after : after = apply(ledger[j], row)
  OBVIOUS
<1>3. after \in Row /\ (after.status # "Failed" \/ ~RetryDue(after))
  BY <1>1, <1>2 DEF apply, Open, Closed, reconcile_at, RetryDue, Row
<1>4. Land(j, row) = [after EXCEPT !.ts = 1]
  BY <1>2 DEF Land
<1>5. PICK landed : landed = Land(j, row)
  OBVIOUS
<1>6. /\ landed \in Row /\ landed.status = after.status
      /\ landed.transient = after.transient /\ landed.attempts = after.attempts
  BY <1>3, <1>4, <1>5 DEF Row
<1>7. landed # NoRow /\ (landed.status # "Failed" \/ ~RetryDue(landed))
  BY <1>3, <1>6, RowAssumption DEF RetryDue
<1> QED  BY <1>5, <1>6, <1>7 DEF reconcile_at, Row

LEMMA FlushCloses ==
  ASSUME TypeOK, NoRetries, NEW w \in Workers, NEW p, NEW D \in SUBSET Jobs, NEW rows \in [D -> Row],
         Flush(w, rows, p), \A j \in D : rows[j].status # "Failed" \/ ~rows[j].transient
  PROVE  NoRetries'
<1>1. ASSUME NEW j \in Jobs, ledger'[j] # NoRow PROVE ~Open(j)'
  <2>1. CASE ledger'[j] = ledger[j]
    BY <1>1, <2>1 DEF NoRetries, Open, Closed, reconcile_at, RetryDue
  <2>2. CASE ledger'[j] # ledger[j]
    <3>1. j \in D /\ ledger'[j] = Land(j, rows[j])
      BY <2>2 DEF Flush
    <3>2. reconcile_at(Land(j, rows[j]), 0) # "enqueue"
      BY <3>1, LandCloses DEF NoRetries
    <3> QED  BY <3>1, <3>2 DEF Open, Closed, reconcile_at, RetryDue
  <2> QED  BY <2>1, <2>2
<1> QED  BY <1>1 DEF NoRetries

\* One step of a fleet without transient failures.
LEMMA NextCloses ==
  ASSUME IInv, NoRetries, \A j \in Jobs : "transient" \notin Outcomes[j], [Next]_vars
  PROVE  NoRetries'
<1>1. TypeOK /\ worker \in [Workers -> State]
  BY DEF IInv, TypeOK
<1>2. ASSUME UNCHANGED ledger PROVE NoRetries'
  BY <1>2 DEF NoRetries, Open, Closed, reconcile_at, RetryDue
<1>3. ASSUME NEW w \in Workers, FinishChunk(w) PROVE NoRetries'
  <2>1. PICK D : D = worker[w].chunk
    OBVIOUS
  <2>2. At(w, "run")
    BY <1>3 DEF FinishChunk
  <2>3. D \in SUBSET Jobs /\ D \subseteq Gap(w)
    <3>1. Gap(w) \in SUBSET Jobs
      BY DEF Gap, PlanOf
    <3>2. D \in Chunks(w, Gap(w))
      BY <2>1, <2>2 DEF IInv, OwnCut
    <3> QED  BY <3>1, <3>2, CutOfGap DEF Cuts
  <2>4. PICK end, p :
          /\ end \in [D -> Ends] /\ \A j \in D : end[j] \in Outcomes[j]
          /\ Flush(w, [j \in D |-> IF end[j] = "ok" THEN make(w, j, "Done", FALSE)
                                   ELSE make(w, j, "Failed", end[j] = "transient")], p)
    BY <1>3, <2>1 DEF FinishChunk
  <2>5. PICK rows : rows = [j \in D |-> IF end[j] = "ok" THEN make(w, j, "Done", FALSE)
                                        ELSE make(w, j, "Failed", end[j] = "transient")]
    OBVIOUS
  <2>6. ASSUME NEW j \in D
        PROVE  rows[j] \in Row /\ (rows[j].status # "Failed" \/ ~rows[j].transient)
    <3>1. end[j] # "transient"
      BY <2>3, <2>4
    <3>2. rows[j] = make(w, j, "Done", FALSE) \/ rows[j] = make(w, j, "Failed", FALSE)
      BY <2>5, <3>1
    <3>3. make(w, j, "Done", FALSE) \in Row /\ make(w, j, "Failed", FALSE) \in Row
      BY <1>1, <2>3, MakeRow
    <3>4. ~make(w, j, "Done", FALSE).transient /\ ~make(w, j, "Failed", FALSE).transient
      BY DEF make
    <3> QED  BY <3>2, <3>3, <3>4
  <2>7. rows \in [D -> Row]
    BY <2>5, <2>6
  <2>8. Flush(w, rows, p)
    BY <2>4, <2>5
  <2> QED  BY <1>1, <2>3, <2>6, <2>7, <2>8, FlushCloses
<1>4. ASSUME NEW w \in Workers, EndPass(w) PROVE NoRetries'
  <2>1. PICK D : D = PlanOf(worker[w].view, "poison")
    OBVIOUS
  <2>2. PICK rows : rows = [j \in D |-> make(w, j, "Poison", FALSE)]
    OBVIOUS
  <2>3. CASE UNCHANGED ledger
    BY <1>2, <2>3
  <2>4. CASE \E p : Flush(w, rows, p)
    <3>1. D \in SUBSET Jobs
      BY <2>1 DEF PlanOf
    <3>2. ASSUME NEW j \in D
          PROVE  rows[j] \in Row /\ (rows[j].status # "Failed" \/ ~rows[j].transient)
      <4>1. make(w, j, "Poison", FALSE) \in Row
        BY <1>1, <3>1, MakeRow
      <4>2. ~make(w, j, "Poison", FALSE).transient
        BY DEF make
      <4> QED  BY <2>2, <4>1, <4>2
    <3>3. rows \in [D -> Row]
      BY <2>2, <3>2
    <3> QED  BY <1>1, <2>4, <3>1, <3>2, <3>3, FlushCloses
  <2>5. (UNCHANGED ledger) \/ \E p : Flush(w, rows, p)
    BY <1>4, <2>1, <2>2 DEF EndPass
  <2> QED  BY <2>3, <2>4, <2>5
<1>5. ASSUME NEW w \in Workers, Step(w) PROVE NoRetries'
  BY <1>2, <1>3, <1>4, <1>5 DEF Step, Begin, Drained, Read, Plan, ClaimChunk, SkipChunk
<1>6. ASSUME NEW w \in Workers, ReadFails(w) \/ Crash(w) \/ Overrun(w) \/ Renew(w)
      PROVE  NoRetries'
  BY <1>2, <1>6 DEF ReadFails, Plan, Crash, Overrun, Renew
<1>7. ASSUME NEW c \in Chunk, Age(c) PROVE NoRetries'
  BY <1>2, <1>7 DEF Age
<1> QED  BY <1>2, <1>5, <1>6, <1>7 DEF Next, AllGone, vars

\* Nothing is to be run, nor to be retried, once a worker has left.
NothingLeft == \A w \in Workers : At(w, "gone") => \A j \in Jobs : ~Open(j)

\* A fleet of any size whose cells fail for good or not at all leaves nothing to be retried
\* once a worker has left, as long as it looks idle more often than it may lose its rows.
\* (the drain rule of fleet-entrypoint.sh; reconcile_at)
THEOREM NoWorkLeftIfFinal ==
  ASSUME \A j \in Jobs : "transient" \notin Outcomes[j], MaxChunks = 0, MaxFaults < IdlePasses
  PROVE  Spec => []NothingLeft
<1>1. Init => NoRetries
  BY DEF Init, NoView, NoRetries
<1>2. IInv /\ NoRetries /\ [Next]_vars => NoRetries'
  BY NextCloses
<1>3. ASSUME IInv, NoRetries, EveryJobTried PROVE NothingLeft
  <2>1. MaxFaults - faults < IdlePasses
    BY <1>3, FleetAssumption DEF IInv, TypeOK
  <2>2. ASSUME NEW w \in Workers, At(w, "gone"), NEW j \in Jobs PROVE ~Open(j)
    <3>1. ledger[j] # NoRow
      BY <1>3, <2>1, <2>2 DEF EveryJobTried
    <3> QED  BY <1>3, <3>1 DEF NoRetries
  <2> QED  BY <2>2 DEF NothingLeft
<1> QED  BY <1>1, <1>2, <1>3, InitInv, NextInv, NoJobUntried, PTL DEF Spec

-----------------------------------------------------------------------------
(* Any fleet leaves only what the ledger forgot.  Each pass of a worker    *)
(* that ends idle has either cost a fault, or found that every job that is *)
(* still open has failed once more than the pass saw; as long as no row is *)
(* dropped that count never falls, and it stays below the cap.             *)

\* The failures the ledger counts for a job; a job that is open, and of which it forgot
\* nothing.
Tries(j) == Count(ledger[j])
Live(j) == Open(j) /\ j \notin forgot

\* What one worker's idle passes say of a live job: each has cost it an attempt or cost a
\* fault; and so will the one it is in, now or once the job it has ahead is run.
SpentOn(w, j) ==
  Live(j) =>
    /\ worker[w].idle <= Tries(j) + Lost
    /\ At(w, "gone") => IdlePasses <= Tries(j) + Lost
    /\ worker[w].pc \in {"claim", "run"} /\ NoWork(worker[w]) =>
         \/ worker[w].idle + 1 <= Tries(j) + Lost
         \/ j \in Ahead(w) /\ worker[w].idle <= Count(worker[w].view[j]) + Lost

Spent == \A w \in Workers, j \in Jobs : SpentOn(w, j)

\* No job comes to life, no failure of a live one is uncounted, no fault is given back.
Forward ==
  /\ Lost \in Nat /\ Lost' \in Nat /\ Lost <= Lost'
  /\ \A j \in Jobs : /\ Tries(j) \in Nat /\ Tries(j)' \in Nat
                     /\ Live(j)' => Live(j) /\ Tries(j) <= Tries(j)'

LEMMA CountIsNat == ASSUME NEW row \in Row \cup {NoRow} PROVE Count(row) \in Nat
  BY FleetAssumption DEF Count, Row

\* A job that is open has failed less often than the cap allows (reconcile_at).
LEMMA OpenBelowCap ==
  ASSUME NEW row \in Row \cup {NoRow}, ~Closed(row)
  PROVE  Count(row) < MaxAttempts
  BY FleetAssumption, RowAssumption DEF Closed, Count, reconcile_at, RetryDue, Row

\* Types of what is counted, before and after a step.
LEMMA Counted ==
  ASSUME TypeOK
  PROVE  Lost \in Nat /\ \A j \in Jobs : Tries(j) \in Nat
  BY FleetAssumption, CountIsNat DEF TypeOK, Lost, Tries

\* A step that writes no row.
LEMMA SameLedger ==
  ASSUME TypeOK, faults' \in 0..MaxFaults, faults' <= faults, UNCHANGED <<ledger, forgot>>
  PROVE  Forward
<1>1. Lost \in Nat /\ \A j \in Jobs : Tries(j) \in Nat  BY Counted
<1>2. Lost' \in Nat /\ Lost <= Lost'  BY FleetAssumption DEF TypeOK, Lost
<1>3. \A j \in Jobs : Tries(j)' = Tries(j)  BY DEF Tries, Count
<1>4. \A j \in Jobs : Live(j)' = Live(j)
  BY Zenon DEF Live, Open, Closed, reconcile_at, RetryDue
<1> QED  BY <1>1, <1>2, <1>3, <1>4 DEF Forward

\* The time a row is given in the ledger is not part of what it says (reconcile_at).
LEMMA LandSays ==
  ASSUME TypeOK, NEW j \in Jobs, NEW row \in Row
  PROVE  /\ Closed(Land(j, row)) <=> Closed(apply(ledger[j], row))
         /\ Count(Land(j, row)) = Count(apply(ledger[j], row))
<1>1. ledger[j] \in Row \cup {NoRow}
  BY DEF TypeOK
<1>2. PICK after : after = apply(ledger[j], row)
  OBVIOUS
<1>3. after \in Row
  BY <1>1, <1>2 DEF apply
<1>4. PICK landed : landed = Land(j, row)
  OBVIOUS
<1>5. landed = [after EXCEPT !.ts = 1]
  BY <1>2, <1>4 DEF Land
<1>6. /\ landed \in Row /\ landed.status = after.status
      /\ landed.transient = after.transient /\ landed.attempts = after.attempts
  BY <1>3, <1>5 DEF Row
<1>7. landed # NoRow /\ after # NoRow
  BY <1>3, <1>6, RowAssumption
<1>8. Count(landed) = Count(after)
  BY <1>6, <1>7 DEF Count
<1>9. landed.status \in {"Done", "Failed", "Poison"}
  BY <1>6 DEF Row
<1>10. Closed(landed) <=> Closed(after)
  BY <1>6, <1>7, <1>9 DEF Closed, reconcile_at, RetryDue
<1> QED  BY <1>2, <1>4, <1>8, <1>10

\* Rows that are written cost a fault, or every job of theirs that is live afterwards has
\* all the failures they count (flush_chunk_rows, LedgerView::apply).
LEMMA FlushSpends ==
  ASSUME TypeOK, NEW w \in Workers, NEW p \in State, NEW D \in SUBSET Jobs,
         NEW rows \in [D -> Row], Flush(w, rows, p)
  PROVE  /\ Forward
         /\ \/ Lost + 1 <= Lost'
            \/ \A j \in D : Live(j)' => ~Closed(rows[j]) /\ Count(rows[j]) <= Tries(j)'
<1>1. Lost \in Nat /\ \A j \in Jobs : Tries(j) \in Nat  BY Counted
<1>2. ledger' \in [Jobs -> Row \cup {NoRow}] /\ faults' \in 0..MaxFaults  BY FlushKeeps
<1>3. CASE Fault /\ UNCHANGED <<ledger, forgot>>
  <2>1. faults' <= faults /\ Lost + 1 <= Lost'
    BY <1>2, <1>3, FleetAssumption DEF Fault, TypeOK, Lost
  <2> QED  BY <1>2, <1>3, <2>1, SameLedger
<1>4. CASE /\ ledger' = [j \in Jobs |-> IF j \in DOMAIN rows THEN Land(j, rows[j]) ELSE ledger[j]]
           /\ forgot' = forgot \cup {j \in DOMAIN rows :
                \E row \in {ledger[j], rows[j]} : Drops(apply(ledger[j], rows[j]), row)}
           /\ UNCHANGED faults
  <2>1. Lost' = Lost  BY <1>4 DEF Lost
  <2>2. \A j \in Jobs : Tries(j)' \in Nat  BY <1>2, CountIsNat DEF Tries, Count
  <2>3. ASSUME NEW j \in Jobs \ D, Live(j)' PROVE Live(j) /\ Tries(j) <= Tries(j)'
    <3>1. ledger'[j] = ledger[j] /\ j \notin forgot  BY <1>4, <2>3 DEF Live
    <3>2. Open(j)  BY <2>3, <3>1 DEF Live, Open, Closed, reconcile_at, RetryDue
    <3>3. Tries(j)' = Tries(j)  BY <3>1 DEF Tries, Count
    <3> QED  BY <1>1, <3>1, <3>2, <3>3 DEF Live
  <2>4. ASSUME NEW j \in D, Live(j)'
        PROVE  /\ Live(j) /\ Tries(j) <= Tries(j)'
               /\ ~Closed(rows[j]) /\ Count(rows[j]) <= Tries(j)'
    <3>1. PICK kept : kept = apply(ledger[j], rows[j])
      OBVIOUS
    <3>2. ledger'[j] = Land(j, rows[j])  BY <1>4
    <3>3. ~Closed(kept) /\ Tries(j)' = Count(kept)
      <4>1. ~Closed(ledger'[j])
        BY <2>4 DEF Live, Open, Closed, reconcile_at, RetryDue
      <4>2. Tries(j)' = Count(ledger'[j])  BY DEF Tries, Count
      <4> QED  BY <3>1, <3>2, <4>1, <4>2, LandSays
    <3>4. j \notin forgot /\ ~Drops(kept, ledger[j]) /\ ~Drops(kept, rows[j])
      BY <1>4, <2>4, <3>1 DEF Live
    <3>5. ~Closed(ledger[j]) /\ ~Closed(rows[j])  BY <3>3, <3>4 DEF Drops
    <3>6. ~(Count(ledger[j]) > Count(kept)) /\ ~(Count(rows[j]) > Count(kept))
      BY <3>3, <3>4 DEF Drops
    <3>7. Count(rows[j]) \in Nat  BY CountIsNat
    <3> QED  BY <1>1, <2>2, <3>3, <3>4, <3>5, <3>6, <3>7 DEF Live, Open, Tries
  <2> QED  BY <1>1, <2>1, <2>2, <2>3, <2>4 DEF Forward
<1> QED  BY <1>3, <1>4 DEF Flush

\* A worker whose pass a step does not change.
LEMMA UntouchedSpent ==
  ASSUME NEW v \in Workers, NEW j \in Jobs, worker[v] \in State, SpentOn(v, j), Forward,
         worker'[v].pc = worker[v].pc, worker'[v].view = worker[v].view,
         worker'[v].todo = worker[v].todo, worker'[v].chunk = worker[v].chunk,
         worker'[v].done = worker[v].done, worker'[v].skipped = worker[v].skipped,
         worker'[v].idle = worker[v].idle
  PROVE  SpentOn(v, j)'
<1>1. Ahead(v)' = Ahead(v)  BY DEF Ahead, At
<1>2. NoWork(worker[v])' = NoWork(worker[v])  BY DEF NoWork
<1>3. Count(worker[v].view[j])' = Count(worker[v].view[j])  BY DEF Count
<1>4. At(v, "gone")' = At(v, "gone")  BY DEF At
<1>5. worker[v].idle \in Nat /\ Count(worker[v].view[j]) \in Nat /\ IdlePasses \in Nat
  BY CountIsNat, FleetAssumption DEF State
<1>6. SUFFICES ASSUME Live(j)'
               PROVE  /\ worker[v].idle <= Tries(j)' + Lost'
                      /\ At(v, "gone") => IdlePasses <= Tries(j)' + Lost'
                      /\ worker[v].pc \in {"claim", "run"} /\ NoWork(worker[v]) =>
                           \/ worker[v].idle + 1 <= Tries(j)' + Lost'
                           \/ /\ j \in Ahead(v)
                              /\ worker[v].idle <= Count(worker[v].view[j]) + Lost'
  BY <1>1, <1>2, <1>3, <1>4 DEF SpentOn
<1>7. /\ Lost \in Nat /\ Lost' \in Nat /\ Lost <= Lost' /\ Tries(j) \in Nat
      /\ Tries(j)' \in Nat /\ Tries(j) <= Tries(j)' /\ Live(j)
  BY <1>6 DEF Forward
<1>8. /\ worker[v].idle <= Tries(j) + Lost
      /\ At(v, "gone") => IdlePasses <= Tries(j) + Lost
      /\ worker[v].pc \in {"claim", "run"} /\ NoWork(worker[v]) =>
           \/ worker[v].idle + 1 <= Tries(j) + Lost
           \/ j \in Ahead(v) /\ worker[v].idle <= Count(worker[v].view[j]) + Lost
  BY <1>7 DEF SpentOn
<1> QED  BY <1>5, <1>7, <1>8

\* A step that changes no more than one worker's pass, and not what it has spent.
LEMMA OthersSpent ==
  ASSUME IInv, Spent, Forward, NEW w \in Workers, NEW p, worker' = [worker EXCEPT ![w] = p],
         \A j \in Jobs : SpentOn(w, j)'
  PROVE  Spent'
<1>1. worker \in [Workers -> State]  BY DEF IInv, TypeOK
<1>2. ASSUME NEW v \in Workers \ {w}, NEW j \in Jobs PROVE SpentOn(v, j)'
  <2>1. worker'[v] = worker[v]  BY <1>1
  <2>2. SpentOn(v, j)  BY DEF Spent
  <2> QED  BY <1>1, <2>1, <2>2, UntouchedSpent
<1> QED  BY <1>2 DEF Spent

\* A pass that planned has every live job ahead, as the ledger has it; one that could not
\* read has cost a fault (execute_gap_chunked_bounded).
LEMMA PlanSpends ==
  ASSUME IInv, Spent, NEW w \in Workers, NEW view \in [Jobs -> Row \cup {NoRow}],
         Plan(w, view), Forward, view = ledger \/ Lost + 1 <= Lost'
  PROVE  Spent'
<1> DEFINE gap == PlanOf(view, "enqueue")
           p == [worker[w] EXCEPT !.pc = "claim", !.view = view, !.todo = Chunks(w, gap)]
<1>1. worker \in [Workers -> State] /\ worker[w] \in State  BY DEF IInv, TypeOK
<1>2. worker' = [worker EXCEPT ![w] = p] /\ UNCHANGED <<ledger, forgot>>  BY DEF Plan, Set
<1>3. worker'[w] = p  BY <1>1, <1>2
<1>4. /\ worker'[w].pc = "claim" /\ worker'[w].view = view
      /\ worker'[w].todo = Chunks(w, gap) /\ worker'[w].idle = worker[w].idle
  BY <1>1, <1>3 DEF State
<1>5. ASSUME NEW j \in Jobs PROVE SpentOn(w, j)'
  <2> SUFFICES ASSUME Live(j)'
               PROVE  /\ worker[w].idle <= Tries(j)' + Lost'
                      /\ \/ worker[w].idle + 1 <= Tries(j)' + Lost'
                         \/ j \in Ahead(w)' /\ worker[w].idle <= Count(view[j]) + Lost'
    <3>1. Count(worker[w].view[j])' = Count(view[j])  BY <1>4 DEF Count
    <3>2. ~At(w, "gone")'  BY <1>4 DEF At
    <3> QED  BY <1>4, <3>1, <3>2 DEF SpentOn
  <2>1. /\ Lost \in Nat /\ Lost' \in Nat /\ Lost <= Lost' /\ Tries(j) \in Nat
        /\ Tries(j)' \in Nat /\ Tries(j) <= Tries(j)' /\ Live(j)
    BY DEF Forward
  <2>2. worker[w].idle <= Tries(j) + Lost /\ worker[w].idle \in Nat
    BY <1>1, <2>1 DEF Spent, SpentOn, State
  <2>3. CASE view = ledger
    <3>1. j \in gap  BY <2>1, <2>3 DEF Live, Open, Closed, PlanOf
    <3>2. gap = UNION Chunks(w, gap)  BY GapJobs, CutOfGap DEF Cuts
    <3>3. j \in Ahead(w)'  BY <1>4, <3>1, <3>2 DEF Ahead
    <3>4. Count(view[j]) = Tries(j)  BY <2>3 DEF Tries
    <3> QED  BY <2>1, <2>2, <3>3, <3>4
  <2>4. CASE Lost + 1 <= Lost'  BY <2>1, <2>2, <2>4
  <2> QED  BY <2>3, <2>4
<1> QED  BY <1>2, <1>5, OthersSpent

\* A failure counts one more than the pass saw (make).
LEMMA MakeCounts ==
  ASSUME TypeOK, NEW w \in Workers, NEW j \in Gap(w), NEW transient \in BOOLEAN
  PROVE  /\ Closed(make(w, j, "Done", FALSE))
         /\ Count(make(w, j, "Failed", transient)) = Count(worker[w].view[j]) + 1
<1>1. j \in Jobs /\ worker[w].view \in [Jobs -> Row \cup {NoRow}]
  BY DEF Gap, PlanOf, TypeOK, State
<1>2. /\ make(w, j, "Done", FALSE) \in Row /\ make(w, j, "Failed", transient) \in Row
  BY <1>1, MakeRow
<1>3. make(w, j, "Done", FALSE) # NoRow /\ make(w, j, "Failed", transient) # NoRow
  BY <1>2, RowAssumption
<1>4. make(w, j, "Done", FALSE).status = "Done"  BY DEF make
<1>5. Closed(make(w, j, "Done", FALSE))  BY <1>3, <1>4 DEF Closed, reconcile_at
<1>6. make(w, j, "Failed", transient).attempts
        = IF worker[w].view[j] = NoRow THEN 1 ELSE worker[w].view[j].attempts + 1
  BY DEF make
<1>7. Count(make(w, j, "Failed", transient)) = Count(worker[w].view[j]) + 1
  BY <1>3, <1>6 DEF Count
<1> QED  BY <1>5, <1>7

\* A chunk that ends has cost each of its live jobs an attempt, or a fault; without a cap on
\* its chunks the pass goes on with the others (run_chunk_concurrent's results).
LEMMA FinishSpends ==
  ASSUME IInv, Spent, MaxChunks = 0, NEW w \in Workers, FinishChunk(w)
  PROVE  Spent'
<1>1. PICK end \in [worker[w].chunk -> Ends] :
        Flush(w, [j \in worker[w].chunk |->
                    IF end[j] = "ok" THEN make(w, j, "Done", FALSE)
                    ELSE make(w, j, "Failed", end[j] = "transient")],
              [worker[w] EXCEPT !.pc = "claim", !.chunk = {}, !.overdue = FALSE,
                       !.ran = @ + 1,
                       !.done = @ \/ \E j \in worker[w].chunk : end[j] = "ok",
                       !.todo = IF worker[w].ran + 1 = MaxChunks THEN {} ELSE @])
  BY DEF FinishChunk
<1> DEFINE D == worker[w].chunk
           rows == [j \in D |-> IF end[j] = "ok" THEN make(w, j, "Done", FALSE)
                                ELSE make(w, j, "Failed", end[j] = "transient")]
           done == worker[w].done \/ \E j \in D : end[j] = "ok"
           p == [worker[w] EXCEPT !.pc = "claim", !.chunk = {}, !.overdue = FALSE,
                                  !.ran = worker[w].ran + 1,
                                  !.done = done, !.todo = worker[w].todo]
<1>2. TypeOK /\ worker \in [Workers -> State] /\ worker[w] \in State
  BY DEF IInv, TypeOK
<1>3. At(w, "run")  BY DEF FinishChunk
<1>4. D \in SUBSET Jobs /\ D \subseteq Gap(w)
  <2>1. Gap(w) \in SUBSET Jobs  BY DEF Gap, PlanOf
  <2>2. D \in Chunks(w, Gap(w))  BY <1>3 DEF IInv, OwnCut
  <2> QED  BY <2>1, <2>2, CutOfGap DEF Cuts
<1>5. rows \in [D -> Row]
  <2>1. ASSUME NEW j \in D
        PROVE  make(w, j, "Done", FALSE) \in Row
               /\ make(w, j, "Failed", end[j] = "transient") \in Row
    BY <1>2, <1>4, MakeRow
  <2> QED  BY <2>1
<1>6. ASSUME NEW j \in D, ~Closed(rows[j])
      PROVE  Count(rows[j]) = Count(worker[w].view[j]) + 1
  <2>1. /\ Closed(make(w, j, "Done", FALSE))
        /\ Count(make(w, j, "Failed", end[j] = "transient")) = Count(worker[w].view[j]) + 1
    BY <1>2, <1>4, MakeCounts
  <2> QED  BY <1>6, <2>1
<1>7. worker[w].ran + 1 # MaxChunks /\ worker[w].ran + 1 \in Nat  BY <1>2 DEF State
<1>8. Flush(w, rows, p)  BY <1>1, <1>2, <1>7 DEF State
<1>9. done \in BOOLEAN  OBVIOUS
<1>10. p \in State
  <2> HIDE DEF done
  <2> QED  BY <1>2, <1>7, <1>9 DEF State
<1>11. /\ p.pc = "claim" /\ p.view = worker[w].view /\ p.todo = worker[w].todo
       /\ p.idle = worker[w].idle /\ p.skipped = worker[w].skipped /\ p.done = done
  BY <1>2 DEF State
<1>12. NoWork(p) => NoWork(worker[w])  BY <1>11, Zenon DEF NoWork
<1> HIDE DEF p, rows, done
<1>13. /\ worker'[w] = p
       /\ \A v \in Workers \ {w} :
            /\ worker'[v].pc = worker[v].pc /\ worker'[v].view = worker[v].view
            /\ worker'[v].todo = worker[v].todo /\ worker'[v].chunk = worker[v].chunk
            /\ worker'[v].done = worker[v].done /\ worker'[v].skipped = worker[v].skipped
            /\ worker'[v].idle = worker[v].idle
  BY <1>2, <1>4, <1>5, <1>8, <1>10, FlushKeeps, FlushTries
<1>14. /\ Forward
       /\ \/ Lost + 1 <= Lost'
          \/ \A j \in D : Live(j)' => ~Closed(rows[j]) /\ Count(rows[j]) <= Tries(j)'
  BY <1>2, <1>4, <1>5, <1>8, <1>10, FlushSpends
<1>15. ASSUME NEW v \in Workers, NEW j \in Jobs PROVE SpentOn(v, j)'
  <2>1. SpentOn(v, j)  BY DEF Spent
  <2>2. CASE v # w  BY <1>2, <1>13, <1>14, <2>1, <2>2, UntouchedSpent
  <2>3. CASE v = w
    <3>1. SUFFICES ASSUME Live(j)'
                   PROVE  /\ worker[w].idle <= Tries(j)' + Lost'
                          /\ NoWork(worker[w]) =>
                               \/ worker[w].idle + 1 <= Tries(j)' + Lost'
                               \/ /\ j \in Ahead(w)'
                                  /\ worker[w].idle <= Count(worker[w].view[j]) + Lost'
      <4>1. Count(worker[w].view[j])' = Count(worker[w].view[j])  BY <1>11, <1>13 DEF Count
      <4>2. ~At(w, "gone")'  BY <1>11, <1>13 DEF At
      <4>3. NoWork(worker[w])' => NoWork(worker[w])  BY <1>12, <1>13 DEF NoWork
      <4> QED  BY <1>11, <1>13, <2>3, <4>1, <4>2, <4>3 DEF SpentOn
    <3>2. /\ Lost \in Nat /\ Lost' \in Nat /\ Lost <= Lost' /\ Tries(j) \in Nat
          /\ Tries(j)' \in Nat /\ Tries(j) <= Tries(j)' /\ Live(j)
      BY <1>14, <3>1 DEF Forward
    <3>3. /\ worker[w].idle <= Tries(j) + Lost
          /\ NoWork(worker[w]) =>
               \/ worker[w].idle + 1 <= Tries(j) + Lost
               \/ j \in Ahead(w) /\ worker[w].idle <= Count(worker[w].view[j]) + Lost
      BY <1>3, <2>1, <2>3, <3>2 DEF SpentOn, At
    <3>4. worker[w].idle \in Nat /\ Count(worker[w].view[j]) \in Nat
      BY <1>2, CountIsNat DEF State
    <3>5. CASE Lost + 1 <= Lost'  BY <3>2, <3>3, <3>4, <3>5
    <3>6. CASE j \in D /\ Count(rows[j]) <= Tries(j)' /\ ~Closed(rows[j])
      BY <1>6, <3>2, <3>3, <3>4, <3>6
    <3>7. CASE j \notin D
      <4>1. j \in Ahead(w) => j \in Ahead(w)'  BY <1>11, <1>13, <3>7 DEF Ahead
      <4> QED  BY <3>2, <3>3, <3>4, <4>1
    <3> QED  BY <1>14, <3>1, <3>5, <3>6, <3>7
  <2> QED  BY <2>2, <2>3
<1> QED  BY <1>15 DEF Spent

\* A pass that ends has nothing ahead: if it counts as idle, it has cost every live job an
\* attempt, or a fault (the pass loop of fleet-entrypoint.sh).
LEMMA EndSpends ==
  ASSUME IInv, Spent, NEW w \in Workers, EndPass(w)
  PROVE  Spent'
<1> DEFINE idle == IF NoWork(worker[w]) THEN worker[w].idle + 1 ELSE 0
           next == [Fresh EXCEPT !.idle = idle]
           doomed == PlanOf(worker[w].view, "poison")
           rows == [j \in doomed |-> make(w, j, "Poison", FALSE)]
<1>1. TypeOK /\ worker \in [Workers -> State] /\ worker[w] \in State
  BY DEF IInv, TypeOK
<1>2. /\ At(w, "claim") /\ worker[w].todo = {}
      /\ \/ Set(w, next) /\ UNCHANGED <<ledger, forgot, faults>>
         \/ Flush(w, rows, next)
  BY DEF EndPass
<1>3. idle \in Nat  BY <1>1 DEF State
<1>4. next \in State /\ next.pc = "between" /\ next.idle = idle
  <2>1. Fresh.pc = "between"  BY DEF Fresh
  <2> HIDE DEF idle
  <2> QED  BY <1>3, <2>1, FreshState DEF State
<1>5. doomed \in SUBSET Jobs  BY DEF PlanOf
<1>6. rows \in [doomed -> Row]
  <2>1. \A j \in doomed : make(w, j, "Poison", FALSE) \in Row  BY <1>1, <1>5, MakeRow
  <2> QED  BY <2>1
<1> HIDE DEF next, rows, doomed
<1>7. /\ worker'[w] = next /\ Forward
      /\ \A v \in Workers \ {w} :
           /\ worker'[v].pc = worker[v].pc /\ worker'[v].view = worker[v].view
           /\ worker'[v].todo = worker[v].todo /\ worker'[v].chunk = worker[v].chunk
           /\ worker'[v].done = worker[v].done /\ worker'[v].skipped = worker[v].skipped
           /\ worker'[v].idle = worker[v].idle
  <2>1. CASE Set(w, next) /\ UNCHANGED <<ledger, forgot, faults>>
    <3>1. Forward  BY <1>1, <2>1, FleetAssumption, SameLedger DEF TypeOK
    <3> QED  BY <1>1, <2>1, <3>1 DEF Set
  <2>2. CASE Flush(w, rows, next)
    BY <1>1, <1>4, <1>5, <1>6, <2>2, FlushKeeps, FlushTries, FlushSpends
  <2> QED  BY <1>2, <2>1, <2>2
<1>8. ASSUME NEW v \in Workers, NEW j \in Jobs PROVE SpentOn(v, j)'
  <2>1. SpentOn(v, j)  BY DEF Spent
  <2>2. CASE v # w  BY <1>1, <1>7, <2>1, <2>2, UntouchedSpent
  <2>3. CASE v = w
    <3>1. SUFFICES ASSUME Live(j)' PROVE idle <= Tries(j)' + Lost'
      BY <1>4, <1>7, <2>3 DEF SpentOn, At
    <3>2. /\ Lost \in Nat /\ Lost' \in Nat /\ Lost <= Lost' /\ Tries(j) \in Nat
          /\ Tries(j)' \in Nat /\ Tries(j) <= Tries(j)' /\ Live(j)
      BY <1>7, <3>1 DEF Forward
    <3>3. j \notin Ahead(w)  BY <1>2 DEF Ahead, At
    <3>4. NoWork(worker[w]) => worker[w].idle + 1 <= Tries(j) + Lost
      BY <1>2, <2>1, <2>3, <3>2, <3>3 DEF SpentOn, At
    <3>5. idle <= Tries(j) + Lost \/ idle = 0  BY <3>4
    <3> HIDE DEF idle
    <3> QED  BY <1>3, <3>2, <3>5
  <2> QED  BY <2>2, <2>3
<1> QED  BY <1>8 DEF Spent

\* One step of the whole system.
LEMMA NextSpends ==
  ASSUME IInv, Spent, MaxChunks = 0, [Next]_vars
  PROVE  Spent'
<1>1. /\ TypeOK
      /\ worker \in [Workers -> State]
      /\ faults \in 0..MaxFaults /\ faults \in Nat /\ MaxFaults \in Nat
  BY FleetAssumption DEF IInv, TypeOK
<1>2. (UNCHANGED <<ledger, forgot, faults>>) => Forward  BY <1>1, SameLedger
<1>3. (UNCHANGED <<ledger, forgot>>) /\ Fault => Forward /\ Lost + 1 <= Lost'
  <2> SUFFICES ASSUME UNCHANGED <<ledger, forgot>>, Fault PROVE Forward /\ Lost + 1 <= Lost'
    OBVIOUS
  <2>1. faults' \in 0..MaxFaults /\ faults' <= faults  BY <1>1 DEF Fault
  <2>2. Lost + 1 <= Lost'  BY <1>1 DEF Fault, Lost
  <2> QED  BY <1>1, <2>1, <2>2, SameLedger
<1>4. ASSUME NEW w \in Workers, Begin(w) PROVE Spent'
  <2> DEFINE p == [worker[w] EXCEPT !.pc = "begun"]
  <2>1. worker' = [worker EXCEPT ![w] = p] /\ UNCHANGED <<ledger, forgot, faults>>
    BY <1>4 DEF Begin, Set
  <2>2. worker'[w].pc = "begun" /\ worker'[w].idle = worker[w].idle
    BY <1>1, <2>1 DEF State
  <2>3. ASSUME NEW j \in Jobs PROVE SpentOn(w, j)'
    <3>1. SpentOn(w, j) /\ Forward  BY <1>2, <2>1 DEF Spent
    <3>2. SUFFICES ASSUME Live(j)' PROVE worker[w].idle <= Tries(j)' + Lost'
      BY <2>2 DEF SpentOn, At
    <3> QED  BY <1>1, <3>1, <3>2 DEF SpentOn, Forward, State
  <2> QED  BY <1>2, <2>1, <2>3, OthersSpent
<1>5. ASSUME NEW w \in Workers, Drained(w) PROVE Spent'
  <2> DEFINE p == [Fresh EXCEPT !.pc = "gone"]
  <2>1. worker' = [worker EXCEPT ![w] = p] /\ UNCHANGED <<ledger, forgot, faults>>
    BY <1>5 DEF Drained, Set
  <2>2. worker'[w].pc = "gone" /\ worker'[w].idle = 0  BY <1>1, <2>1 DEF Fresh
  <2>3. worker[w].idle >= IdlePasses /\ worker[w].idle \in Nat /\ IdlePasses \in Nat
    BY <1>1, <1>5, FleetAssumption DEF Drained, State
  <2>4. ASSUME NEW j \in Jobs PROVE SpentOn(w, j)'
    <3>1. SpentOn(w, j) /\ Forward  BY <1>2, <2>1 DEF Spent
    <3>2. SUFFICES ASSUME Live(j)' PROVE 0 <= Tries(j)' + Lost' /\ IdlePasses <= Tries(j)' + Lost'
      BY <2>2 DEF SpentOn, At
    <3> QED  BY <2>3, <3>1, <3>2 DEF SpentOn, Forward
  <2> QED  BY <1>2, <2>1, <2>4, OthersSpent
<1>6. ASSUME NEW w \in Workers, Read(w) PROVE Spent'
  <2>1. Plan(w, ledger) /\ UNCHANGED <<ledger, forgot, faults>>  BY <1>6 DEF Read, Plan
  <2>2. ledger \in [Jobs -> Row \cup {NoRow}]  BY <1>1 DEF TypeOK
  <2> QED  BY <1>2, <2>1, <2>2, PlanSpends
<1>7. ASSUME NEW w \in Workers, ReadFails(w) PROVE Spent'
  <2>1. Plan(w, NoView) /\ Fault /\ UNCHANGED <<ledger, forgot>>
    BY <1>7 DEF ReadFails, Plan
  <2>2. NoView \in [Jobs -> Row \cup {NoRow}]  BY DEF NoView
  <2> QED  BY <1>3, <2>1, <2>2, PlanSpends
<1>8. ASSUME NEW w \in Workers, NEW c \in worker[w].todo, ClaimChunk(w, c) PROVE Spent'
  <2> DEFINE p == [worker[w] EXCEPT !.pc = "run", !.chunk = c, !.overdue = FALSE,
                                    !.todo = @ \ {c}]
  <2>1. /\ worker' = [worker EXCEPT ![w] = p] /\ UNCHANGED <<ledger, forgot, faults>>
        /\ At(w, "claim")
    BY <1>8 DEF ClaimChunk, Set
  <2>2. /\ worker'[w].pc = "run" /\ worker'[w].view = worker[w].view
        /\ worker'[w].chunk = c /\ worker'[w].todo = worker[w].todo \ {c}
        /\ worker'[w].idle = worker[w].idle
        /\ worker'[w].done = worker[w].done /\ worker'[w].skipped = worker[w].skipped
    BY <1>1, <2>1 DEF State
  <2>3. ASSUME NEW j \in Jobs PROVE SpentOn(w, j)'
    <3>1. SpentOn(w, j) /\ Forward  BY <1>2, <2>1 DEF Spent
    <3>2. j \in Ahead(w) => j \in Ahead(w)'
      <4>1. Ahead(w) = UNION worker[w].todo  BY <2>1 DEF Ahead, At
      <4>2. Ahead(w)' = (UNION (worker[w].todo \ {c})) \cup c  BY <2>2 DEF Ahead, At
      <4> QED  BY <4>1, <4>2
    <3>3. NoWork(worker[w])' = NoWork(worker[w])  BY <2>2 DEF NoWork
    <3>4. Count(worker[w].view[j])' = Count(worker[w].view[j])  BY <2>2 DEF Count
    <3>5. Tries(j)' = Tries(j) /\ Lost' = Lost  BY <2>1 DEF Tries, Count, Lost
    <3>6. Live(j)' => Live(j)  BY <3>1 DEF Forward
    <3> QED  BY <2>1, <2>2, <3>1, <3>2, <3>3, <3>4, <3>5, <3>6 DEF SpentOn, At
  <2> QED  BY <1>2, <2>1, <2>3, OthersSpent
<1>9. ASSUME NEW w \in Workers, NEW c \in worker[w].todo, SkipChunk(w, c) PROVE Spent'
  <2> DEFINE p == [worker[w] EXCEPT !.skipped = TRUE, !.todo = @ \ {c}]
  <2>1. /\ worker' = [worker EXCEPT ![w] = p] /\ UNCHANGED <<ledger, forgot, faults>>
        /\ At(w, "claim")
    BY <1>9 DEF SkipChunk, Set
  <2>2. /\ worker'[w].pc = "claim" /\ worker'[w].idle = worker[w].idle /\ worker'[w].skipped
    BY <1>1, <2>1 DEF State, At
  <2>3. ASSUME NEW j \in Jobs PROVE SpentOn(w, j)'
    <3>1. SpentOn(w, j) /\ Forward  BY <1>2, <2>1 DEF Spent
    <3>2. ~NoWork(worker[w])' /\ ~At(w, "gone")'  BY <2>2 DEF NoWork, At
    <3>3. SUFFICES ASSUME Live(j)' PROVE worker[w].idle <= Tries(j)' + Lost'
      BY <2>2, <3>2 DEF SpentOn
    <3> QED  BY <1>1, <3>1, <3>3 DEF SpentOn, Forward, State
  <2> QED  BY <1>2, <2>1, <2>3, OthersSpent
<1>10. ASSUME NEW w \in Workers, Crash(w) PROVE Spent'
  <2>1. worker' = [worker EXCEPT ![w] = Fresh]  BY <1>10 DEF Crash, Set
  <2>2. Forward  BY <1>3, <1>10 DEF Crash
  <2>3. worker'[w].pc = "between" /\ worker'[w].idle = 0  BY <1>1, <2>1 DEF Fresh
  <2>4. ASSUME NEW j \in Jobs PROVE SpentOn(w, j)'
    <3>1. 0 <= Tries(j)' + Lost'  BY <2>2 DEF Forward
    <3> QED  BY <2>3, <3>1 DEF SpentOn, At
  <2> QED  BY <2>1, <2>2, <2>4, OthersSpent
<1>11. ASSUME NEW w \in Workers, Overrun(w) \/ Renew(w) PROVE Spent'
  <2>1. PICK late \in BOOLEAN :
          worker' = [worker EXCEPT ![w] = [worker[w] EXCEPT !.overdue = late]]
    BY <1>11 DEF Overrun, Renew, Set
  <2>2. UNCHANGED <<ledger, forgot, faults>>  BY <1>11 DEF Overrun, Renew
  <2>3. /\ worker'[w].pc = worker[w].pc /\ worker'[w].view = worker[w].view
        /\ worker'[w].todo = worker[w].todo /\ worker'[w].chunk = worker[w].chunk
        /\ worker'[w].done = worker[w].done /\ worker'[w].skipped = worker[w].skipped
        /\ worker'[w].idle = worker[w].idle
    BY <1>1, <2>1 DEF State
  <2>4. ASSUME NEW j \in Jobs PROVE SpentOn(w, j)'
    <3>1. SpentOn(w, j) /\ worker[w] \in State  BY <1>1 DEF Spent
    <3> QED  BY <1>2, <2>2, <2>3, <3>1, UntouchedSpent
  <2> QED  BY <1>2, <2>1, <2>2, <2>4, OthersSpent
<1>12. ASSUME UNCHANGED <<ledger, worker, forgot, faults>> PROVE Spent'
  <2>1. ASSUME NEW v \in Workers, NEW j \in Jobs PROVE SpentOn(v, j)'
    <3>1. SpentOn(v, j)  BY DEF Spent
    <3> QED  BY <1>1, <1>2, <1>12, <3>1, UntouchedSpent
  <2> QED  BY <2>1 DEF Spent
<1>13. ASSUME NEW c \in Chunk, Age(c) PROVE Spent'  BY <1>12, <1>13 DEF Age
<1>14. (UNCHANGED vars) => Spent'  BY <1>12 DEF vars
<1>15. ASSUME NEW w \in Workers, FinishChunk(w) PROVE Spent'  BY <1>15, FinishSpends
<1>16. ASSUME NEW w \in Workers, EndPass(w) PROVE Spent'  BY <1>16, EndSpends
<1>17. ASSUME NEW w \in Workers, Step(w) PROVE Spent'
  BY <1>4, <1>5, <1>6, <1>8, <1>9, <1>15, <1>16, <1>17 DEF Step
<1> QED  BY <1>7, <1>10, <1>11, <1>13, <1>14, <1>17 DEF Next, AllGone

\* In any fleet whose idle passes outnumber the attempts a job has and the passes that faults
\* have cost, a worker that leaves leaves nothing to be retried but the jobs of which
\* latest-wins dropped a completion, a last failure or an attempt.  (the drain rule of
\* fleet-entrypoint.sh; RetryPolicy; LedgerView::apply)
THEOREM OnlyForgottenWorkIsLeft == Spec => []NoWorkLeftBehind
<1>1. CASE MaxChunks = 0
  <2>1. Init => Spent
    <3> SUFFICES ASSUME Init, NEW w \in Workers, NEW j \in Jobs PROVE SpentOn(w, j)
      BY DEF Spent
    <3>1. worker[w] = Fresh  BY DEF Init
    <3>2. worker[w].pc = "between" /\ worker[w].idle = 0  BY <3>1 DEF Fresh
    <3>3. Lost \in Nat /\ Tries(j) \in Nat  BY InitInv, Counted DEF IInv
    <3> QED  BY <3>2, <3>3 DEF SpentOn, At
  <2>2. IInv /\ Spent /\ [Next]_vars => Spent'  BY <1>1, NextSpends
  <2>3. ASSUME IInv, Spent PROVE NoWorkLeftBehind
    <3> SUFFICES ASSUME MaxAttempts + (MaxFaults - faults) <= IdlePasses,
                        NEW w \in Workers, At(w, "gone"), NEW j \in Jobs, Open(j), j \notin forgot
                 PROVE  FALSE
      BY DEF NoWorkLeftBehind
    <3>1. IdlePasses <= Tries(j) + Lost  BY <2>3 DEF Spent, SpentOn, Live
    <3>2. ledger[j] \in Row \cup {NoRow} /\ ~Closed(ledger[j])
      BY <2>3 DEF IInv, TypeOK, Open
    <3>3. Tries(j) < MaxAttempts  BY <3>2, OpenBelowCap DEF Tries
    <3>4. Lost \in Nat /\ Tries(j) \in Nat  BY <2>3, Counted DEF IInv
    <3>5. MaxAttempts + Lost <= IdlePasses  BY DEF Lost
    <3> QED  BY <3>1, <3>3, <3>4, <3>5, FleetAssumption
  <2> QED  BY <2>1, <2>2, <2>3, InitInv, NextInv, PTL DEF Spec
<1>2. CASE MaxChunks # 0
  <2>1. NoWorkLeftBehind  BY <1>2 DEF NoWorkLeftBehind
  <2> QED  BY <1>2, <2>1, PTL
<1> QED  BY <1>1, <1>2

-----------------------------------------------------------------------------
(* The order of a gap. *)

\* Every job of c is sooner than every job of d.
Before(c, d) == \A i \in c, k \in d : Sooner(i, k)

\* Sooner is a strict total order of the jobs.
LEMMA SoonerIsTotal ==
  ASSUME NEW a \in DOMAIN Cost, NEW b \in DOMAIN Cost, NEW c \in DOMAIN Cost
  PROVE  /\ ~Sooner(a, a)
         /\ Sooner(a, b) => ~Sooner(b, a)
         /\ a # b => Sooner(a, b) \/ Sooner(b, a)
         /\ Sooner(a, b) /\ Sooner(b, c) => Sooner(a, c)
<1>1. a \in Nat /\ b \in Nat /\ c \in Nat /\ Cost[a] \in Nat /\ Cost[b] \in Nat /\ Cost[c] \in Nat
  BY CostAssumption
<1> QED  BY <1>1 DEF Sooner

\* A nonempty set of jobs has one that comes last.
LEMMA LastJob ==
  ASSUME NEW S \in SUBSET DOMAIN Cost, IsFiniteSet(S), S # {}
  PROVE  \E x \in S : \A y \in S \ {x} : Sooner(y, x)
<1> DEFINE Bad == {m \in Nat : \E T \in SUBSET S :
                     T # {} /\ Cardinality(T) = m /\ ~ \E x \in T : \A y \in T \ {x} : Sooner(y, x)}
<1>1. \A T \in SUBSET S : IsFiniteSet(T) /\ Cardinality(T) \in Nat
  BY FS_Subset, FS_CardinalityType
<1>2. SUFFICES ASSUME Bad # {} PROVE FALSE
  BY <1>1
<1>3. PICK m \in Bad : \A k \in Bad : m <= k
  <2> HIDE DEF Bad
  <2>1. Bad \in SUBSET Nat
    BY DEF Bad
  <2> QED  BY <1>2, <2>1, LeastNat
<1>4. PICK T \in SUBSET S :
        T # {} /\ Cardinality(T) = m /\ ~ \E x \in T : \A y \in T \ {x} : Sooner(y, x)
  OBVIOUS
<1>5. PICK z \in T : TRUE
  BY <1>4
<1>6. T \ {z} # {}
  BY <1>4, <1>5
<1>7. T \ {z} \in SUBSET S /\ Cardinality(T \ {z}) = m - 1 /\ m - 1 \in Nat /\ ~(m <= m - 1)
  <2>1. Cardinality(T \ {z}) = m - 1 /\ Cardinality(T \ {z}) \in Nat /\ m \in Nat
    BY <1>1, <1>4, <1>5, FS_RemoveElement
  <2> QED  BY <2>1
<1>8. m - 1 \notin Bad
  <2> HIDE DEF Bad
  <2> QED  BY <1>3, <1>7
<1>9. PICK x \in T \ {z} : \A y \in (T \ {z}) \ {x} : Sooner(y, x)
  BY <1>6, <1>7, <1>8
<1>10. T \subseteq DOMAIN Cost /\ x # z
  BY <1>9
<1>11. CASE Sooner(z, x)
  BY <1>4, <1>9, <1>11
<1>12. CASE Sooner(x, z)
  <2>1. ASSUME NEW y \in T \ {z} PROVE Sooner(y, z)
    BY <1>9, <1>10, <1>12, SoonerIsTotal
  <2> QED  BY <1>4, <1>5, <2>1
<1> QED  BY <1>10, <1>11, <1>12, SoonerIsTotal

\* order lists m jobs of S, longest first.
Sorted(order, S, m) ==
  order \in [1..m -> S] /\ \A i, k \in 1..m : i < k => Sooner(order[i], order[k])

\* Any finite set of jobs can be listed so.
LEMMA SortedExists ==
  ASSUME NEW S \in SUBSET DOMAIN Cost, IsFiniteSet(S)
  PROVE  \E order : Sorted(order, S, Cardinality(S))
<1> DEFINE Bad == {m \in Nat : \E T \in SUBSET S : Cardinality(T) = m /\ ~ \E order : Sorted(order, T, m)}
<1>1. \A T \in SUBSET S : IsFiniteSet(T) /\ Cardinality(T) \in Nat
  BY FS_Subset, FS_CardinalityType
<1>2. SUFFICES ASSUME Bad # {} PROVE FALSE
  BY <1>1
<1>3. PICK m \in Bad : \A k \in Bad : m <= k
  <2> HIDE DEF Bad
  <2>1. Bad \in SUBSET Nat
    BY DEF Bad
  <2> QED  BY <1>2, <2>1, LeastNat
<1>4. PICK T \in SUBSET S : Cardinality(T) = m /\ ~ \E order : Sorted(order, T, m)
  OBVIOUS
<1>5. T # {}
  <2>1. ASSUME T = {} PROVE FALSE
    <3>1. m = 0
      BY <1>4, <2>1, FS_EmptySet
    <3>2. PICK order : order = [i \in 1..m |-> 0]
      OBVIOUS
    <3>3. Sorted(order, T, m)
      BY <3>1, <3>2 DEF Sorted
    <3> QED  BY <1>4, <3>3
  <2> QED  BY <2>1
<1>6. PICK x \in T : \A y \in T \ {x} : Sooner(y, x)
  BY <1>1, <1>5, LastJob
<1>7. T \ {x} \in SUBSET S /\ Cardinality(T \ {x}) = m - 1 /\ m - 1 \in Nat /\ m \in Nat /\ ~(m <= m - 1)
  <2>1. Cardinality(T \ {x}) = m - 1 /\ Cardinality(T \ {x}) \in Nat /\ m \in Nat
    BY <1>1, <1>4, <1>6, FS_RemoveElement
  <2> QED  BY <2>1
<1>8. m - 1 \notin Bad
  <2> HIDE DEF Bad
  <2> QED  BY <1>3, <1>7
<1>9. PICK first : Sorted(first, T \ {x}, m - 1)
  BY <1>7, <1>8
<1>10. PICK order : order = [i \in 1..m |-> IF i = m THEN x ELSE first[i]]
  OBVIOUS
<1>11. \A i \in 1..m : i # m => i \in 1..(m - 1)
  BY <1>7
<1>12. order \in [1..m -> T]
  BY <1>9, <1>10, <1>11 DEF Sorted
<1>13. ASSUME NEW i \in 1..m, NEW k \in 1..m, i < k PROVE Sooner(order[i], order[k])
  <2>1. i # m /\ i \in 1..(m - 1)
    BY <1>7, <1>13
  <2>2. order[i] = first[i] /\ first[i] \in T \ {x}
    BY <1>9, <1>10, <2>1 DEF Sorted
  <2>3. CASE k = m
    BY <1>6, <1>10, <2>2, <2>3
  <2>4. CASE k # m
    <3>1. k \in 1..(m - 1) /\ order[k] = first[k]
      BY <1>10, <1>11, <2>4
    <3> QED  BY <1>9, <1>13, <2>1, <2>2, <3>1 DEF Sorted
  <2> QED  BY <2>3, <2>4
<1>14. Sorted(order, T, m)
  BY <1>12, <1>13 DEF Sorted
<1> QED  BY <1>4, <1>14

\* The model's order is one, and it lists every job of the gap.
LEMMA OrderOfGap ==
  ASSUME NEW gap \in SUBSET DOMAIN Cost, IsFiniteSet(gap)
  PROVE  /\ Cardinality(gap) \in Nat
         /\ Sorted(lpt_order(gap), gap, Cardinality(gap))
         /\ gap = {lpt_order(gap)[i] : i \in 1..Cardinality(gap)}
<1>1. PICK n : n = Cardinality(gap)
  OBVIOUS
<1>2. n \in Nat
  BY <1>1, FS_CardinalityType
<1>3. PICK order : order = CHOOSE f \in [1..n -> gap] : \A i, k \in 1..n : i < k => Sooner(f[i], f[k])
  OBVIOUS
<1>4. lpt_order(gap) = order
  BY <1>1, <1>3 DEF lpt_order
<1>5. \E f \in [1..n -> gap] : \A i, k \in 1..n : i < k => Sooner(f[i], f[k])
  BY <1>1, SortedExists DEF Sorted
<1>6. Sorted(order, gap, n)
  BY <1>3, <1>5 DEF Sorted
<1>7. order \in Injection(1..n, gap)
  <2>1. ASSUME NEW i \in 1..n, NEW k \in 1..n, i # k PROVE order[i] # order[k]
    <3>1. order[i] \in DOMAIN Cost /\ order[k] \in DOMAIN Cost
      BY <1>6 DEF Sorted
    <3>2. i < k \/ k < i
      BY <1>2, <2>1
    <3>3. Sooner(order[i], order[k]) \/ Sooner(order[k], order[i])
      BY <1>6, <3>2 DEF Sorted
    <3> QED  BY <3>1, <3>3, SoonerIsTotal
  <2>2. order \in [1..n -> gap]
    BY <1>6 DEF Sorted
  <2> QED  BY <2>1, <2>2 DEF Injection, IsInjective
<1>8. order \in Surjection(1..n, gap)
  <2>1. IsFiniteSet(1..n) /\ Cardinality(1..n) = n
    BY <1>2, FS_Interval
  <2> QED  BY <1>1, <1>7, <2>1, FS_Injection
<1>9. gap = {order[i] : i \in 1..n}
  BY <1>8 DEF Surjection
<1> QED  BY <1>1, <1>2, <1>4, <1>6, <1>9

-----------------------------------------------------------------------------
(* The packing. *)

Empty == [closed |-> {}, cur |-> {}]

\* f gives the chunks after each of the first n jobs of order.
Packed(order, full, f, n) ==
  f = [k \in 0..n |-> IF k = 0 THEN Empty ELSE Push(f[k - 1], order[k], full)]

\* There is such a function, for each n: a least n without one would follow one that has it.
LEMMA PackedExists ==
  ASSUME NEW order, NEW full, NEW n \in Nat
  PROVE  \E f : Packed(order, full, f, n)
<1> DEFINE Bad == {m \in Nat : ~ \E f : Packed(order, full, f, m)}
<1> SUFFICES ASSUME Bad # {} PROVE FALSE
  OBVIOUS
<1>1. PICK m \in Bad : \A k \in Bad : m <= k
  <2> HIDE DEF Bad
  <2>1. Bad \in SUBSET Nat
    BY DEF Bad
  <2> QED  BY <2>1, LeastNat
<1>2. CASE m = 0
  <2>1. PICK f : f = [k \in 0..0 |-> Empty]
    OBVIOUS
  <2>2. f = [k \in 0..0 |-> IF k = 0 THEN Empty ELSE Push(f[k - 1], order[k], full)]
    BY <2>1
  <2> QED  BY <1>2, <2>2 DEF Packed
<1>3. CASE m # 0
  <2>1. m \in Nat /\ m - 1 \in Nat /\ m - 1 \notin Bad
    BY <1>1, <1>3
  <2>2. PICK f : Packed(order, full, f, m - 1)
    BY <2>1
  <2>3. PICK g : g = [k \in 0..m |-> IF k = 0 THEN Empty ELSE Push(f[k - 1], order[k], full)]
    OBVIOUS
  <2>4. ASSUME NEW k \in 0..(m - 1) PROVE g[k] = f[k]
    <3>1. k \in 0..m
      BY <2>1
    <3>2. f[k] = IF k = 0 THEN Empty ELSE Push(f[k - 1], order[k], full)
      BY <2>2 DEF Packed
    <3> QED  BY <2>3, <3>1, <3>2
  <2>5. ASSUME NEW k \in 0..m, k # 0 PROVE g[k - 1] = f[k - 1]
    <3>1. k - 1 \in 0..(m - 1)
      BY <2>1, <2>5
    <3> QED  BY <2>4, <3>1
  <2>6. g = [k \in 0..m |-> IF k = 0 THEN Empty ELSE Push(g[k - 1], order[k], full)]
    BY <2>3, <2>5
  <2> QED  BY <2>6 DEF Packed
<1> QED  BY <1>2, <1>3

\* The model's recursive function is one.
LEMMA PackWhilePacked ==
  ASSUME NEW gap, NEW full, Cardinality(gap) \in Nat
  PROVE  \E f : /\ Packed(lpt_order(gap), full, f, Cardinality(gap))
                /\ PackWhile(gap, full) =
                     (f[Cardinality(gap)].closed \cup {f[Cardinality(gap)].cur}) \ {{}}
<1>1. PICK g : g = CHOOSE f : f = [n \in 0..Cardinality(gap) |->
                 IF n = 0 THEN Empty ELSE Push(f[n - 1], lpt_order(gap)[n], full)]
  OBVIOUS
<1>2. \E f : f = [n \in 0..Cardinality(gap) |->
                 IF n = 0 THEN Empty ELSE Push(f[n - 1], lpt_order(gap)[n], full)]
  <2>1. PICK f : Packed(lpt_order(gap), full, f, Cardinality(gap))
    BY PackedExists
  <2>2. f = [n \in 0..Cardinality(gap) |->
               IF n = 0 THEN Empty ELSE Push(f[n - 1], lpt_order(gap)[n], full)]
    BY <2>1 DEF Packed
  <2> QED  BY <2>2
<1>3. g = [n \in 0..Cardinality(gap) |->
             IF n = 0 THEN Empty ELSE Push(g[n - 1], lpt_order(gap)[n], full)]
  BY <1>1, <1>2
<1>4. PackWhile(gap, full) = (g[Cardinality(gap)].closed \cup {g[Cardinality(gap)].cur}) \ {{}}
  BY <1>1 DEF PackWhile, Empty
<1> QED  BY <1>3, <1>4 DEF Packed

\* After the first n jobs: each of them is in a closed chunk or in the current one; closed
\* chunks are full; any two chunks are apart in the order, the current one after all others.
PackInv(acc, order, full, n) ==
  /\ (UNION acc.closed) \cup acc.cur = {order[i] : i \in 1..n}
  /\ acc.closed \subseteq full \ {{}}
  /\ acc.cur # {} => acc.cur \notin full
  /\ \A c \in acc.closed : Before(c, acc.cur)
  /\ \A c, d \in acc.closed : c # d => Before(c, d) \/ Before(d, c)

LEMMA PushKeeps ==
  ASSUME NEW acc, NEW order, NEW S, NEW m \in Nat, NEW full, NEW n \in 1..m,
         Sorted(order, S, m), PackInv(acc, order, full, n - 1)
  PROVE  PackInv(Push(acc, order[n], full), order, full, n)
<1>1. PICK j : j = order[n]
  OBVIOUS
<1>2. PICK cur : cur = acc.cur \cup {j}
  OBVIOUS
<1>3. PICK done : done = acc.closed
  OBVIOUS
<1>4. (UNION done) \cup cur = {order[i] : i \in 1..n}
  <2>1. {order[i] : i \in 1..n} = {order[i] : i \in 1..(n - 1)} \cup {j}
    <3>1. 1..n = (1..(n - 1)) \cup {n}
      OBVIOUS
    <3> QED  BY <1>1, <3>1
  <2> QED  BY <1>2, <1>3, <2>1 DEF PackInv
<1>5. \A i \in {order[k] : k \in 1..(n - 1)} : Sooner(i, j)
  <2>1. ASSUME NEW k \in 1..(n - 1) PROVE Sooner(order[k], order[n])
    <3>1. k \in 1..m /\ n \in 1..m /\ k < n
      OBVIOUS
    <3> QED  BY <3>1 DEF Sorted
  <2> QED  BY <1>1, <2>1
<1>6. \A c \in done : Before(c, cur)
  <2>1. ASSUME NEW c \in done, NEW i \in c PROVE Sooner(i, j)
    BY <1>3, <1>5, <2>1 DEF PackInv
  <2> QED  BY <1>2, <1>3, <2>1 DEF PackInv, Before
<1>7. CASE cur \in full
  <2>1. Push(acc, order[n], full) = [closed |-> done \cup {cur}, cur |-> {}]
    BY <1>1, <1>2, <1>3, <1>7 DEF Push
  <2>2. (UNION (done \cup {cur})) \cup {} = {order[i] : i \in 1..n}
    BY <1>4
  <2>3. done \cup {cur} \subseteq full \ {{}}
    BY <1>2, <1>3, <1>7 DEF PackInv
  <2>4. \A c, d \in done \cup {cur} : c # d => Before(c, d) \/ Before(d, c)
    BY <1>3, <1>6 DEF PackInv
  <2>5. \A c \in done \cup {cur} : Before(c, {})
    BY DEF Before
  <2> QED  BY <2>1, <2>2, <2>3, <2>4, <2>5 DEF PackInv
<1>8. CASE cur \notin full
  <2>1. Push(acc, order[n], full) = [closed |-> done, cur |-> cur]
    BY <1>1, <1>2, <1>3, <1>8 DEF Push
  <2> QED  BY <1>3, <1>4, <1>6, <1>8, <2>1 DEF PackInv
<1> QED  BY <1>7, <1>8

LEMMA PackedInv ==
  ASSUME NEW order, NEW S, NEW full, NEW m \in Nat, NEW f,
         Sorted(order, S, m), Packed(order, full, f, m)
  PROVE  \A n \in 0..m : PackInv(f[n], order, full, n)
<1> DEFINE Bad == {n \in 0..m : ~PackInv(f[n], order, full, n)}
<1> SUFFICES ASSUME Bad # {} PROVE FALSE
  OBVIOUS
<1>1. PICK n \in Bad : \A k \in Bad : n <= k
  <2> HIDE DEF Bad
  <2>1. Bad \in SUBSET Nat
    BY DEF Bad
  <2> QED  BY <2>1, LeastNat
<1>2. n # 0
  <2>1. PackInv(Empty, order, full, 0)
    BY DEF PackInv, Empty
  <2>2. f[0] = Empty
    BY DEF Packed
  <2>3. ~PackInv(f[n], order, full, n)
    OBVIOUS
  <2> QED  BY <2>1, <2>2, <2>3
<1>3. n \in 1..m /\ n - 1 \in 0..m /\ ~(n <= n - 1)
  BY <1>2
<1>4. PackInv(f[n - 1], order, full, n - 1)
  <2>1. n - 1 \notin Bad
    <3> HIDE DEF Bad
    <3> QED  BY <1>1, <1>3
  <2> QED  BY <1>3, <2>1
<1>5. f[n] = Push(f[n - 1], order[n], full)
  BY <1>2 DEF Packed
<1>6. PackInv(f[n], order, full, n)
  BY <1>3, <1>4, <1>5, PushKeeps
<1> QED  BY <1>6

\* What a packing is, whatever closes its chunks: disjoint chunks that cover the gap, any two
\* of them apart in the order, and all but one of them full.
LEMMA PackingOfGap ==
  ASSUME NEW gap \in SUBSET DOMAIN Cost, IsFiniteSet(gap), NEW full
  PROVE  /\ PackWhile(gap, full) \subseteq (SUBSET gap) \ {{}}
         /\ UNION PackWhile(gap, full) = gap
         /\ \A c, d \in PackWhile(gap, full) : c # d => c \cap d = {} /\ (Before(c, d) \/ Before(d, c))
         /\ \A c, d \in PackWhile(gap, full) : c \notin full /\ d \notin full => c = d
<1>1. PICK n : n = Cardinality(gap)
  OBVIOUS
<1>2. PICK order : order = lpt_order(gap)
  OBVIOUS
<1>3. n \in Nat /\ Sorted(order, gap, n) /\ gap = {order[i] : i \in 1..n}
  BY <1>1, <1>2, OrderOfGap
<1>4. PICK f : Packed(order, full, f, n) /\ PackWhile(gap, full) = (f[n].closed \cup {f[n].cur}) \ {{}}
  BY <1>1, <1>2, <1>3, PackWhilePacked
<1>5. PackInv(f[n], order, full, n)
  <2>1. n \in 0..n
    BY <1>3
  <2> QED  BY <1>3, <1>4, <2>1, PackedInv
<1>6. PICK done, cur : done = f[n].closed /\ cur = f[n].cur
  OBVIOUS
<1>7. (UNION done) \cup cur = gap
  BY <1>3, <1>5, <1>6 DEF PackInv
<1>8. PICK chunks : chunks = PackWhile(gap, full)
  OBVIOUS
<1>9. chunks = (done \cup {cur}) \ {{}}
  BY <1>4, <1>6, <1>8
<1>10. UNION chunks = gap
  BY <1>7, <1>9
<1>11. chunks \subseteq (SUBSET gap) \ {{}}
  BY <1>9, <1>10
<1>12. \A c, d \in chunks : c # d => Before(c, d) \/ Before(d, c)
  <2>1. \A c \in done : Before(c, cur)
    BY <1>5, <1>6 DEF PackInv
  <2>2. \A c, d \in done : c # d => Before(c, d) \/ Before(d, c)
    BY <1>5, <1>6 DEF PackInv
  <2> QED  BY <1>9, <2>1, <2>2
<1>13. ASSUME NEW c \in chunks, NEW d \in chunks, c # d PROVE c \cap d = {}
  <2>1. ASSUME NEW i \in c, i \in d PROVE FALSE
    <3>1. Sooner(i, i)
      BY <1>12, <1>13, <2>1 DEF Before
    <3>2. i \in DOMAIN Cost
      BY <1>11
    <3> QED  BY <3>1, <3>2, SoonerIsTotal
  <2> QED  BY <2>1
<1>14. \A c \in chunks : c \in full \/ c = cur
  BY <1>5, <1>6, <1>9 DEF PackInv
<1> QED  BY <1>8, <1>10, <1>11, <1>12, <1>13, <1>14

\* Where a chunk of cap jobs is full: no chunk has more, and n jobs take at least n / cap chunks.
CapInv(acc, cap, n) ==
  /\ \A c \in acc.closed : IsFiniteSet(c) /\ Cardinality(c) <= cap
  /\ IsFiniteSet(acc.cur) /\ Cardinality(acc.cur) < cap
  /\ IsFiniteSet(acc.closed)
  /\ n <= cap * Cardinality(acc.closed) + Cardinality(acc.cur)

LEMMA PushCaps ==
  ASSUME NEW acc, NEW order, NEW S, NEW m \in Nat, NEW full, NEW n \in 1..m, NEW cap \in Nat \ {0},
         S \subseteq DOMAIN Cost, Sorted(order, S, m),
         \A c \in SUBSET S : Cardinality(c) >= cap => c \in full,
         PackInv(acc, order, full, n - 1), CapInv(acc, cap, n - 1)
  PROVE  CapInv(Push(acc, order[n], full), cap, n)
<1>1. PICK j : j = order[n]
  OBVIOUS
<1>2. PICK cur : cur = acc.cur \cup {j}
  OBVIOUS
<1>3. PICK done : done = acc.closed
  OBVIOUS
<1>4. j \in S /\ \A k \in 1..(n - 1) : order[k] # j
  <2>1. order \in [1..m -> S]
    BY DEF Sorted
  <2>2. j \in S
    BY <1>1, <2>1
  <2>3. ASSUME NEW k \in 1..(n - 1), order[k] = j PROVE FALSE
    <3>1. k \in 1..m /\ k < n
      OBVIOUS
    <3>2. Sooner(j, j)
      BY <1>1, <2>3, <3>1 DEF Sorted
    <3>3. j \in DOMAIN Cost
      BY <2>2
    <3> QED  BY <3>2, <3>3, SoonerIsTotal
  <2> QED  BY <2>2, <2>3
<1>5. (UNION done) \cup acc.cur = {order[k] : k \in 1..(n - 1)}
  BY <1>3 DEF PackInv
<1>6. j \notin acc.cur /\ j \notin UNION done
  BY <1>4, <1>5
<1>7. cur \in SUBSET S
  <2>1. acc.cur \subseteq {order[k] : k \in 1..(n - 1)}
    BY <1>5
  <2>2. {order[k] : k \in 1..(n - 1)} \subseteq S
    <3>1. \A k \in 1..(n - 1) : k \in 1..m
      OBVIOUS
    <3> QED  BY <3>1 DEF Sorted
  <2> QED  BY <1>2, <1>4, <2>1, <2>2
<1>8. IsFiniteSet(acc.cur) /\ Cardinality(acc.cur) \in Nat /\ Cardinality(acc.cur) < cap
  BY FS_CardinalityType DEF CapInv
<1>9. IsFiniteSet(cur) /\ Cardinality(cur) = Cardinality(acc.cur) + 1
  BY <1>2, <1>6, <1>8, FS_AddElement
<1>10. IsFiniteSet(done) /\ Cardinality(done) \in Nat
  BY <1>3, FS_CardinalityType DEF CapInv
<1>11. n - 1 <= cap * Cardinality(done) + Cardinality(acc.cur)
  BY <1>3 DEF CapInv
<1>12. CASE cur \in full
  <2>1. Push(acc, order[n], full) = [closed |-> done \cup {cur}, cur |-> {}]
    BY <1>1, <1>2, <1>3, <1>12 DEF Push
  <2>2. cur \notin done
    BY <1>2, <1>6
  <2>3. IsFiniteSet(done \cup {cur}) /\ Cardinality(done \cup {cur}) = Cardinality(done) + 1
    BY <1>10, <2>2, FS_AddElement
  <2>4. Cardinality(cur) <= cap
    BY <1>8, <1>9
  <2>5. \A c \in done \cup {cur} : IsFiniteSet(c) /\ Cardinality(c) <= cap
    BY <1>3, <1>9, <2>4 DEF CapInv
  <2>6. n <= cap * Cardinality(done \cup {cur}) + 0
    <3>1. PICK k : k = Cardinality(done)
      OBVIOUS
    <3>2. PICK p : p = cap * k
      OBVIOUS
    <3>3. k \in Nat /\ p \in Nat
      BY <1>10, <3>1, <3>2
    <3>4. cap * (k + 1) = p + cap
      BY <3>2, <3>3
    <3>5. n <= p + cap
      BY <1>8, <1>11, <3>1, <3>2, <3>3
    <3>6. cap * Cardinality(done \cup {cur}) = p + cap
      BY <2>3, <3>1, <3>4
    <3> QED  BY <3>3, <3>5, <3>6
  <2>7. IsFiniteSet({}) /\ Cardinality({}) = 0
    BY FS_EmptySet
  <2>8. PICK next : next = Push(acc, order[n], full)
    OBVIOUS
  <2>9. next.closed = done \cup {cur} /\ next.cur = {}
    BY <2>1, <2>8
  <2>10. CapInv(next, cap, n)
    BY <2>3, <2>5, <2>6, <2>7, <2>9 DEF CapInv
  <2> QED  BY <2>8, <2>10
<1>13. CASE cur \notin full
  <2>1. Push(acc, order[n], full) = [closed |-> done, cur |-> cur]
    BY <1>1, <1>2, <1>3, <1>13 DEF Push
  <2>2. Cardinality(cur) < cap
    <3>1. ~(Cardinality(cur) >= cap)
      BY <1>7, <1>13
    <3> QED  BY <1>8, <1>9, <3>1
  <2>3. n <= cap * Cardinality(done) + Cardinality(cur)
    <3>1. PICK p : p = cap * Cardinality(done)
      OBVIOUS
    <3>2. p \in Nat
      BY <1>10, <3>1
    <3>3. n <= p + Cardinality(cur)
      BY <1>8, <1>9, <1>11, <3>1, <3>2
    <3> QED  BY <3>1, <3>3
  <2>4. PICK next : next = Push(acc, order[n], full)
    OBVIOUS
  <2>5. next.closed = done /\ next.cur = cur
    BY <2>1, <2>4
  <2>6. CapInv(next, cap, n)
    BY <1>3, <1>9, <1>10, <2>2, <2>3, <2>5 DEF CapInv
  <2> QED  BY <2>4, <2>6
<1> QED  BY <1>12, <1>13

LEMMA PackedCaps ==
  ASSUME NEW order, NEW S, NEW full, NEW m \in Nat, NEW f, NEW cap \in Nat \ {0},
         S \subseteq DOMAIN Cost, Sorted(order, S, m), Packed(order, full, f, m),
         \A c \in SUBSET S : Cardinality(c) >= cap => c \in full
  PROVE  \A n \in 0..m : CapInv(f[n], cap, n)
<1> DEFINE Bad == {n \in 0..m : ~CapInv(f[n], cap, n)}
<1> SUFFICES ASSUME Bad # {} PROVE FALSE
  OBVIOUS
<1>1. PICK n \in Bad : \A k \in Bad : n <= k
  <2> HIDE DEF Bad
  <2>1. Bad \in SUBSET Nat
    BY DEF Bad
  <2> QED  BY <2>1, LeastNat
<1>2. n # 0
  <2>1. PICK e : e = Empty
    OBVIOUS
  <2>2. e.closed = {} /\ e.cur = {}
    BY <2>1 DEF Empty
  <2>3. IsFiniteSet({}) /\ Cardinality({}) = 0
    BY FS_EmptySet
  <2>4. 0 <= cap * Cardinality({}) + Cardinality({}) /\ Cardinality({}) < cap
    BY <2>3
  <2>5. CapInv(e, cap, 0)
    BY <2>2, <2>3, <2>4 DEF CapInv
  <2>6. f[0] = e
    BY <2>1 DEF Packed
  <2>7. ~CapInv(f[n], cap, n)
    OBVIOUS
  <2> QED  BY <2>5, <2>6, <2>7
<1>3. n \in 1..m /\ n - 1 \in 0..m /\ ~(n <= n - 1)
  BY <1>2
<1>4. CapInv(f[n - 1], cap, n - 1)
  <2>1. n - 1 \notin Bad
    <3> HIDE DEF Bad
    <3> QED  BY <1>1, <1>3
  <2> QED  BY <1>3, <2>1
<1>5. f[n] = Push(f[n - 1], order[n], full)
  BY <1>2 DEF Packed
<1>6. PackInv(f[n - 1], order, full, n - 1)
  BY <1>3, PackedInv
<1>7. CapInv(f[n], cap, n)
  BY <1>3, <1>4, <1>5, <1>6, PushCaps
<1> QED  BY <1>7

\* The larger of two numbers.
LEMMA MaxOfTwo ==
  ASSUME NEW a \in Nat, NEW b \in Nat
  PROVE  Max({a, b}) \in {a, b} /\ Max({a, b}) >= a /\ Max({a, b}) >= b
<1>1. \E x \in {a, b} : \A y \in {a, b} : x >= y
  OBVIOUS
<1>2. PICK m : m = CHOOSE x \in {a, b} : \A y \in {a, b} : x >= y
  OBVIOUS
<1>3. m \in {a, b} /\ \A y \in {a, b} : m >= y
  BY <1>1, <1>2
<1>4. Max({a, b}) = m
  BY <1>2 DEF Max
<1> QED  BY <1>3, <1>4

\* The cap is positive, and the gap holds one capful for each of Spread chunks, unless it is
\* so small that the floor decides.
LEMMA CapOfGap ==
  ASSUME NEW gap \in SUBSET DOMAIN Cost, IsFiniteSet(gap)
  PROVE  /\ Cap(gap) \in Nat \ {0}
         /\ Spread * MinCells <= Cardinality(gap) => Spread * Cap(gap) <= Cardinality(gap)
<1>1. PICK n \in Nat : n = Cardinality(gap)
  BY FS_CardinalityType
<1>2. Spread \in Nat \ {0} /\ MinCells \in Nat \ {0}
  BY CostAssumption
<1>3. PICK q : q = n \div Spread
  OBVIOUS
<1>4. q \in Nat /\ Spread * q <= n
  BY <1>2, <1>3
<1>5. Cap(gap) \in {q, MinCells} /\ Cap(gap) >= MinCells
  BY <1>1, <1>2, <1>3, <1>4, MaxOfTwo DEF Cap
<1>6. Cap(gap) \in Nat \ {0}
  BY <1>2, <1>4, <1>5
<1> QED  BY <1>1, <1>4, <1>5, <1>6

\* The chunks of the fleet's packing are few jobs each, and many.
LEMMA UniformCaps ==
  ASSUME NEW gap \in SUBSET DOMAIN Cost, IsFiniteSet(gap)
  PROVE  LET chunks == pack_chunks_lpt_uniform(gap) IN
         /\ \A c \in chunks : Cardinality(c) <= Cap(gap)
         /\ IsFiniteSet(chunks)
         /\ Spread * MinCells <= Cardinality(gap) => Spread <= Cardinality(chunks)
<1>1. PICK n : n = Cardinality(gap)
  OBVIOUS
<1>2. PICK order : order = lpt_order(gap)
  OBVIOUS
<1>3. PICK full : full = {cur \in SUBSET gap : WallReached(cur, RefConc) \/ Cardinality(cur) >= Cap(gap)}
  OBVIOUS
<1>4. PICK chunks : chunks = pack_chunks_lpt_uniform(gap)
  OBVIOUS
<1>5. chunks = PackWhile(gap, full)
  BY <1>3, <1>4 DEF pack_chunks_lpt_uniform
<1>6. n \in Nat /\ Sorted(order, gap, n)
  BY <1>1, <1>2, OrderOfGap
<1>7. PICK f : Packed(order, full, f, n) /\ chunks = (f[n].closed \cup {f[n].cur}) \ {{}}
  BY <1>1, <1>2, <1>5, <1>6, PackWhilePacked
<1>8. n \in 0..n
  BY <1>6
<1>9. PackInv(f[n], order, full, n)
  BY <1>6, <1>7, <1>8, PackedInv
<1>10. PICK cap : cap = Cap(gap)
  OBVIOUS
<1>11. cap \in Nat \ {0}
  BY <1>10, CapOfGap
<1>12. \A c \in SUBSET gap : Cardinality(c) >= cap => c \in full
  BY <1>3, <1>10
<1>13. CapInv(f[n], cap, n)
  BY <1>6, <1>7, <1>8, <1>11, <1>12, PackedCaps
<1>14. PICK done, cur : done = f[n].closed /\ cur = f[n].cur
  OBVIOUS
<1>15. chunks = (done \cup {cur}) \ {{}} /\ {} \notin done /\ (cur # {} => cur \notin done)
  BY <1>7, <1>9, <1>14 DEF PackInv
<1>16. /\ \A c \in done : Cardinality(c) <= cap
       /\ IsFiniteSet(done) /\ IsFiniteSet(cur) /\ Cardinality(cur) < cap
       /\ n <= cap * Cardinality(done) + Cardinality(cur)
  BY <1>13, <1>14 DEF CapInv
<1>17. Cardinality(done) \in Nat /\ Cardinality(cur) \in Nat
  BY <1>16, FS_CardinalityType
<1>18. \A c \in chunks : Cardinality(c) <= cap
  <2>1. Cardinality(cur) <= cap
    BY <1>11, <1>16, <1>17
  <2> QED  BY <1>15, <1>16, <2>1
<1>19. IsFiniteSet(chunks) /\ Cardinality(chunks) \in Nat /\ n <= cap * Cardinality(chunks)
  <2>1. CASE cur = {}
    <3>1. chunks = done
      BY <1>15, <2>1
    <3>2. Cardinality(cur) = 0
      BY <2>1, FS_EmptySet
    <3>3. PICK p : p = cap * Cardinality(done)
      OBVIOUS
    <3>4. n <= p
      <4>1. p \in Nat
        BY <1>11, <1>17, <3>3
      <4> QED  BY <1>6, <1>16, <3>2, <3>3, <4>1
    <3> QED  BY <1>16, <1>17, <3>1, <3>3, <3>4
  <2>2. CASE cur # {}
    <3>1. chunks = done \cup {cur} /\ cur \notin done
      BY <1>15, <2>2
    <3>2. IsFiniteSet(chunks) /\ Cardinality(chunks) = Cardinality(done) + 1
      BY <1>16, <3>1, FS_AddElement
    <3>3. PICK k : k = Cardinality(done)
      OBVIOUS
    <3>4. PICK p : p = cap * k
      OBVIOUS
    <3>5. k \in Nat /\ p \in Nat /\ cap * (k + 1) = p + cap
      BY <1>11, <1>17, <3>3, <3>4
    <3>6. n <= p + cap
      BY <1>6, <1>11, <1>16, <1>17, <3>3, <3>4, <3>5
    <3>7. cap * Cardinality(chunks) = p + cap
      BY <3>2, <3>3, <3>5
    <3> QED  BY <3>2, <3>3, <3>5, <3>6, <3>7
  <2> QED  BY <2>1, <2>2
<1>20. ASSUME Spread * MinCells <= n PROVE Spread <= Cardinality(chunks)
  <2>1. PICK k \in Nat : k = Cardinality(chunks)
    BY <1>19
  <2>2. Spread * cap <= n /\ Spread \in Nat
    BY <1>1, <1>10, <1>20, CapOfGap, CostAssumption
  <2>3. n <= cap * k
    BY <1>19, <2>1
  <2>4. ASSUME k + 1 <= Spread PROVE FALSE
    <3>0. PICK d : d = Spread - (k + 1)
      OBVIOUS
    <3>1. d \in Nat /\ Spread = k + 1 + d
      BY <2>1, <2>2, <2>4, <3>0
    <3>2. Spread * cap = cap * k + cap + d * cap
      BY <1>11, <2>1, <2>2, <3>1
    <3>3. d * cap \in Nat /\ cap * k \in Nat
      BY <1>11, <2>1, <3>1
    <3>4. PICK x, y : x = d * cap /\ y = cap * k
      OBVIOUS
    <3> QED  BY <1>6, <1>11, <2>2, <2>3, <3>2, <3>3, <3>4
  <2> QED  BY <2>1, <2>2, <2>4
<1> QED  BY <1>1, <1>4, <1>10, <1>18, <1>19, <1>20

\* The two packings of the code cut a gap as FleetPass assumes of Pack and BoxPack: every
\* job is in exactly one chunk, whatever the costs, the boxes and the target.
\* (pack_in_order, pack_chunks_lpt_uniform: "Every job still appears in exactly one chunk")
THEOREM PackingCuts ==
  ASSUME IsFiniteSet(Jobs), Jobs \subseteq DOMAIN Cost,
         Pack = [gap \in SUBSET Jobs |-> pack_chunks_lpt_uniform(gap)],
         BoxPack = [w \in Workers |-> [gap \in SUBSET Jobs |-> pack_chunks_lpt(w, gap)]]
  PROVE  \A gap \in SUBSET Jobs :
           Cuts(gap, Pack[gap]) /\ \A w \in Workers : Cuts(gap, BoxPack[w][gap])
<1> SUFFICES ASSUME NEW gap \in SUBSET Jobs
             PROVE  Cuts(gap, Pack[gap]) /\ \A w \in Workers : Cuts(gap, BoxPack[w][gap])
  OBVIOUS
<1>1. gap \in SUBSET DOMAIN Cost /\ IsFiniteSet(gap)
  BY FS_Subset
<1>2. ASSUME NEW full PROVE Cuts(gap, PackWhile(gap, full))
  <2>1. PICK chunks : chunks = PackWhile(gap, full)
    OBVIOUS
  <2>2. /\ chunks \subseteq (SUBSET gap) \ {{}}
        /\ UNION chunks = gap
        /\ \A c, d \in chunks : c # d => c \cap d = {}
    BY <1>1, <2>1, PackingOfGap
  <2> QED  BY <2>1, <2>2 DEF Cuts, Chunk
<1>3. Cuts(gap, Pack[gap])
  BY <1>2 DEF pack_chunks_lpt_uniform
<1>4. ASSUME NEW w \in Workers PROVE Cuts(gap, BoxPack[w][gap])
  BY <1>2 DEF pack_chunks_lpt
<1> QED  BY <1>3, <1>4

\* The fleet's packing of a gap: of any two chunks, one holds only jobs that come before all
\* of the other's, the longest first; no chunk holds more jobs than the cap; and there are at
\* least Spread chunks to claim, once the gap has Spread times the floor of the cap.
\* (pack_chunks_lpt_uniform, TAIL_SPREAD, MIN_CHUNK_CELLS)
THEOREM UniformPacking ==
  ASSUME NEW gap \in SUBSET DOMAIN Cost, IsFiniteSet(gap)
  PROVE  LET chunks == pack_chunks_lpt_uniform(gap) IN
         /\ \A c, d \in chunks : c # d => Before(c, d) \/ Before(d, c)
         /\ \A c \in chunks : Cardinality(c) <= Cap(gap)
         /\ Spread * MinCells <= Cardinality(gap) => Spread <= Cardinality(chunks)
<1>1. \A c, d \in pack_chunks_lpt_uniform(gap) : c # d => Before(c, d) \/ Before(d, c)
  BY PackingOfGap DEF pack_chunks_lpt_uniform
<1> QED  BY <1>1, UniformCaps

\* The smaller of two numbers.
LEMMA MinOfTwo ==
  ASSUME NEW a \in Nat, NEW b \in Nat
  PROVE  Min({a, b}) \in {a, b} /\ Min({a, b}) <= a /\ Min({a, b}) <= b
<1>1. PICK m \in {a, b} : m <= a /\ m <= b
  OBVIOUS
<1>2. \E x \in {a, b} : \A y \in {a, b} : x <= y
  BY <1>1
<1> QED  BY <1>2 DEF Min

\* What fits in a budget, by division.
LEMMA Division ==
  ASSUME NEW a \in Nat, NEW b \in Nat \ {0}
  PROVE  a \div b \in Nat /\ b * (a \div b) <= a /\ a < b * ((a \div b) + 1)
OBVIOUS

\* A number of jobs that divides the budget fits, and a smaller one too.
LEMMA SmallerFits ==
  ASSUME NEW b \in Nat, NEW n \in Nat, NEW q \in Nat, NEW a \in Nat, n <= q, b * q <= a
  PROVE  b * n <= a
<1>1. PICK d \in Nat : q = n + d
  <2>1. q - n \in Nat /\ q = n + (q - n)
    OBVIOUS
  <2> QED  BY <2>1
<1>2. b * q = b * n + b * d
  BY <1>1
<1>3. PICK x, y : x = b * n /\ y = b * d
  OBVIOUS
<1>4. x \in Nat /\ y \in Nat
  BY <1>1, <1>3
<1> QED  BY <1>1, <1>2, <1>3, <1>4

\* As many jobs of one footprint as the packing counts on run beside each other within the
\* box's memory and threads, unless it is a single job, which runs whatever its size; and
\* one more would not fit.  (max_concurrent: "bounded by whichever of memory or cores binds
\* first (>= 1)"; can_admit)
THEOREM ConcurrencyFits ==
  ASSUME NEW w, Ram[w] \in Nat, Cores[w] \in Nat, NEW mem \in Nat, NEW thr \in Nat \ {0}
  PROVE  LET n == max_concurrent(w, mem, thr) IN
         /\ n \in Nat \ {0}
         /\ n = 1 \/ (mem * n <= Ram[w] /\ thr * n <= Cores[w])
         /\ mem * (n + 1) > Ram[w] \/ thr * (n + 1) > Cores[w]
<1>1. PICK n : n = max_concurrent(w, mem, thr)
  OBVIOUS
<1>2. PICK r \in Nat : r = Ram[w]
  OBVIOUS
<1>3. PICK c \in Nat : c = Cores[w]
  OBVIOUS
<1>4. PICK q : q = c \div thr
  OBVIOUS
<1>5. q \in Nat /\ thr * q <= c /\ c < thr * (q + 1)
  BY <1>4, Division
<1>6. ASSUME NEW s \in Nat, n = AtLeastOne(s)
      PROVE  n \in Nat \ {0} /\ (n = 1 \/ n = s) /\ n >= s
  <2>1. n \in {1, s} /\ n >= 1 /\ n >= s
    BY <1>6, MaxOfTwo DEF AtLeastOne
  <2> QED  BY <2>1
<1>7. ASSUME NEW b \in Nat, NEW s \in Nat, NEW a \in Nat, n \in Nat, n >= s, a < b * (s + 1)
      PROVE  b * (n + 1) > a
  <2>1. PICK z : z = b * (n + 1)
    OBVIOUS
  <2>2. z \in Nat
    BY <1>7, <2>1
  <2>3. ASSUME z <= a PROVE FALSE
    <3>1. b * (s + 1) <= a
      BY <1>7, <2>1, <2>3, SmallerFits
    <3>2. b * (s + 1) \in Nat
      BY <1>7
    <3> QED  BY <1>7, <3>1, <3>2
  <2> QED  BY <1>7, <2>1, <2>2, <2>3
<1>8. CASE mem = 0
  <2>1. {c \div thr} \cup (IF mem = 0 THEN {} ELSE {r \div mem}) = {q, q}
    BY <1>4, <1>8
  <2>2. Min({q, q}) = q
    BY <1>5, MinOfTwo
  <2>3. n = AtLeastOne(q)
    BY <1>1, <1>2, <1>3, <2>1, <2>2 DEF max_concurrent
  <2>4. n \in Nat \ {0} /\ (n = 1 \/ n = q) /\ n >= q
    BY <1>5, <1>6, <2>3
  <2>5. thr * (n + 1) > c
    BY <1>5, <1>7, <2>4
  <2>6. mem * n <= r
    BY <1>8, <2>4
  <2> QED  BY <1>1, <1>2, <1>3, <1>5, <2>4, <2>5, <2>6
<1>9. CASE mem # 0
  <2>1. PICK p : p = r \div mem
    OBVIOUS
  <2>2. p \in Nat /\ mem * p <= r /\ r < mem * (p + 1)
    BY <1>9, <2>1, Division
  <2>3. PICK s : s = Min({q, p})
    OBVIOUS
  <2>4. s \in Nat /\ s \in {q, p} /\ s <= q /\ s <= p
    BY <1>5, <2>2, <2>3, MinOfTwo
  <2>5. n = AtLeastOne(s)
    <3>1. {c \div thr} \cup (IF mem = 0 THEN {} ELSE {r \div mem}) = {q, p}
      BY <1>4, <1>9, <2>1
    <3> QED  BY <1>1, <1>2, <1>3, <2>3, <3>1 DEF max_concurrent
  <2>6. n \in Nat \ {0} /\ (n = 1 \/ n = s) /\ n >= s
    BY <1>6, <2>4, <2>5
  <2>7. n = 1 \/ (mem * n <= r /\ thr * n <= c)
    BY <1>5, <2>2, <2>4, <2>6, SmallerFits
  <2>8. mem * (n + 1) > r \/ thr * (n + 1) > c
    BY <1>5, <1>7, <2>2, <2>4, <2>6
  <2> QED  BY <1>1, <1>2, <1>3, <2>6, <2>7, <2>8
<1> QED  BY <1>8, <1>9
=============================================================================
