------------------------------ MODULE FleetPass ------------------------------
(***************************************************************************)
(* Many jobs, many workers: each worker's entrypoint starts pass after     *)
(* pass; a pass reads the ledger, cuts the gap it sees into chunks, claims *)
(* chunk by chunk, runs it and writes its rows (fleet-entrypoint.sh; run   *)
(* and execute_gap_chunked_bounded of zenfleet-worker).  Nothing but the   *)
(* claims, keyed by a chunk's members, keeps two workers apart.            *)
(*                                                                         *)
(* What a claim is made of is ChunkClaim's matter: here one step takes it. *)
(* It ages once it is abandoned; and it may while its owner runs the chunk *)
(* (Overrun), for a renewal comes with a completed cell, and only fleets   *)
(* of fits and benchmarks have a heartbeat besides.                        *)
(* What a chunk's cells do is ChunkExec's, in which order a reader folds   *)
(* rows is JobLedger's: here rows are folded as they land, and only the    *)
(* order in which passes began is kept of their times.                     *)
(***************************************************************************)
EXTENDS LedgerView

CONSTANTS
  Workers, Jobs,
  Pack,          \* pack_chunks_lpt_uniform: a gap cut into chunks
  BoxPack,       \* pack_chunks_lpt: the same, per box
  Uniform,       \* ZEN_CHUNK_UNIFORM
  MaxChunks,     \* ZEN_MAX_CHUNKS_PER_PASS
  IdlePasses,    \* ZEN_IDLE_PASSES
  Outcomes,      \* per job: how its cell may end
  MaxFaults,     \* bound: deaths, failed listings, failed writes
  Nobody         \* a chunk without a claim object

Chunk == (SUBSET Jobs) \ {{}}

\* Every job of a gap is in one chunk.
Cuts(gap, chunks) ==
  /\ chunks \subseteq Chunk
  /\ UNION chunks = gap
  /\ \A c, d \in chunks : c \cap d # {} => c = d

ASSUME PackAssumption == \A gap \in SUBSET Jobs :
  Cuts(gap, Pack[gap]) /\ \A w \in Workers : Cuts(gap, BoxPack[w][gap])

Ends == {"ok", "transient", "fatal"}

ASSUME FleetAssumption ==
  /\ Uniform \in BOOLEAN
  /\ {MaxChunks, IdlePasses, MaxFaults} \subseteq Nat
  /\ MaxAttempts \in Nat \ {0}
  /\ Outcomes \in [Jobs -> (SUBSET Ends) \ {{}}]
  /\ Nobody \notin Workers

\* Times are relative: 1 in the ledger; a row that lands has 2, or 0 if the row in the
\* ledger is of a pass that began later.
Row == [status : {"Done", "Failed", "Poison"}, transient : BOOLEAN,
        attempts : 0..MaxAttempts, ts : 0..2]

ASSUME RowAssumption == NoRow \notin Row

VARIABLES
  ledger,     \* what the sidecars say of each job
  before,     \* the pairs of workers in a pass, of which the first began first
  claim,      \* who wrote a chunk's claim object
  aged,       \* the claims that are older than the TTL
  worker,     \* each worker's entrypoint and its pass
  forgot,     \* history: jobs of which the ledger has dropped what it knew
  faults      \* faults left

vars == <<ledger, before, claim, aged, worker, forgot, faults>>

NoView == [j \in Jobs |-> NoRow]

\* late: the jobs whose row in the ledger is of a pass that began after this one; overdue:
\* the claim of the chunk has reached the TTL, and was not renewed since.
State == [pc : {"between", "begun", "claim", "run", "gone"},
          view : [Jobs -> Row \cup {NoRow}], todo : SUBSET Chunk, chunk : SUBSET Jobs,
          late : SUBSET Jobs, overdue : BOOLEAN, ran : Nat, done : BOOLEAN,
          skipped : BOOLEAN, idle : Nat]

TypeOK ==
  /\ ledger \in [Jobs -> Row \cup {NoRow}]
  /\ before \subseteq Workers \X Workers
  /\ claim \in [Chunk -> Workers \cup {Nobody}]
  /\ aged \subseteq {c \in Chunk : claim[c] # Nobody}
  /\ worker \in [Workers -> State]
  /\ forgot \subseteq Jobs
  /\ faults \in 0..MaxFaults

Fresh == [pc |-> "between", view |-> NoView, todo |-> {}, chunk |-> {}, late |-> {},
          overdue |-> FALSE, ran |-> 0, done |-> FALSE, skipped |-> FALSE, idle |-> 0]

Init ==
  /\ ledger = NoView
  /\ before = {}
  /\ claim = [c \in Chunk |-> Nobody]
  /\ aged = {}
  /\ worker = [w \in Workers |-> Fresh]
  /\ forgot = {}
  /\ faults = MaxFaults

At(w, pc) == worker[w].pc = pc
Set(w, p) == worker' = [worker EXCEPT ![w] = p]
Fault == faults > 0 /\ faults' = faults - 1

InPass(w) == worker[w].pc \in {"begun", "claim", "run"}
Without(w) == {p \in before : p[1] # w /\ p[2] # w}

PlanOf(view, part) == {j \in Jobs : reconcile_at(view[j], 0) = part}
Gap(w) == PlanOf(worker[w].view, "enqueue")

-----------------------------------------------------------------------------
(* One pass.                                                               *)

\* The top of the entrypoint's loop: another pass begins and reads its clock.
Begin(w) ==
  /\ At(w, "between")
  /\ worker[w].idle < IdlePasses
  /\ Set(w, [worker[w] EXCEPT !.pc = "begun"])
  /\ before' = before \cup {<<v, w>> : v \in {u \in Workers : InPass(u)}}
  /\ UNCHANGED <<ledger, claim, aged, forgot, faults>>

\* Or the worker has seen enough passes without work.
Drained(w) ==
  /\ At(w, "between")
  /\ worker[w].idle >= IdlePasses
  /\ Set(w, [Fresh EXCEPT !.pc = "gone"])
  /\ UNCHANGED <<ledger, before, claim, aged, forgot, faults>>

Chunks__box(w, gap) == BoxPack[w][gap]
Chunks(w, gap) == IF Uniform THEN Pack[gap] ELSE BoxPack[w][gap]

\* Reconcile what was read, and cut the gap.
Plan(w, view) ==
  /\ Set(w, [worker[w] EXCEPT !.pc = "claim", !.view = view,
                              !.todo = Chunks(w, PlanOf(view, "enqueue"))])
  /\ UNCHANGED <<ledger, before, claim, aged, forgot>>

Read(w) == At(w, "begun") /\ Plan(w, ledger) /\ UNCHANGED faults

\* A listing that fails folds nothing; there is no snapshot.
ReadFails(w) == At(w, "begun") /\ Plan(w, NoView) /\ Fault

Free__never(c) == claim[c] = Nobody
Free(c) == claim[c] = Nobody \/ c \in aged

ClaimChunk(w, c) ==
  /\ At(w, "claim")
  /\ Free(c)
  /\ claim' = [claim EXCEPT ![c] = w]
  /\ aged' = aged \ {c}
  /\ Set(w, [worker[w] EXCEPT !.pc = "run", !.chunk = c, !.overdue = FALSE,
                              !.todo = @ \ {c}])
  /\ UNCHANGED <<ledger, before, forgot, faults>>

\* Another worker owns the chunk, or this one did in an earlier pass.
SkipChunk(w, c) ==
  /\ At(w, "claim")
  /\ ~Free(c)
  /\ Set(w, [worker[w] EXCEPT !.skipped = TRUE, !.todo = @ \ {c}])
  /\ UNCHANGED <<ledger, before, claim, aged, forgot, faults>>

make__same(w, j, status, transient) ==
  LET seen == worker[w].view[j] IN
  [status |-> status, transient |-> transient,
   attempts |-> IF status # "Failed" THEN 0 ELSE IF seen = NoRow THEN 1 ELSE seen.attempts,
   ts |-> IF j \in worker[w].late THEN 0 ELSE 2]

\* Only the attempts of failures are read again.
make(w, j, status, transient) ==
  LET seen == worker[w].view[j] IN
  [status |-> status, transient |-> transient,
   attempts |-> IF status # "Failed" THEN 0
                ELSE IF seen = NoRow THEN 1 ELSE seen.attempts + 1,
   ts |-> IF j \in worker[w].late THEN 0 ELSE 2]

\* The ledger once a row of j has landed.
Land(j, row) == [apply(ledger[j], row) EXCEPT !.ts = 1]

Closed(row) == reconcile_at(row, 0) # "enqueue"
Count(row) == IF row = NoRow THEN 0 ELSE row.attempts

\* Latest-wins drops the row that knew more: the one that is kept reopens a closed job, or
\* counts fewer failures.
Drops(kept, row) == ~Closed(kept) /\ (Closed(row) \/ Count(row) > Count(kept))

\* flush_chunk_rows: the rows land, or the write fails and is only logged; p is what the
\* writer goes on with.
Flush(w, rows, p) ==
  \/ LET replaced == {j \in DOMAIN rows : apply(ledger[j], rows[j]) = rows[j]} IN
     /\ ledger' = [j \in Jobs |-> IF j \in DOMAIN rows THEN Land(j, rows[j]) ELSE ledger[j]]
     /\ worker' = [v \in Workers |->
          IF v = w THEN p
          ELSE IF <<v, w>> \in before THEN [worker[v] EXCEPT !.late = @ \cup replaced]
          ELSE [worker[v] EXCEPT !.late = @ \ replaced]]
     /\ forgot' = forgot \cup {j \in DOMAIN rows :
          \E row \in {ledger[j], rows[j]} : Drops(apply(ledger[j], rows[j]), row)}
     /\ UNCHANGED faults
  \/ Fault /\ Set(w, p) /\ UNCHANGED <<ledger, forgot>>

\* Every cell of the chunk has ended.
FinishChunk(w) ==
  /\ At(w, "run")
  /\ LET p == worker[w] IN
     \E end \in {f \in [p.chunk -> Ends] : \A j \in p.chunk : f[j] \in Outcomes[j]} :
       Flush(w, [j \in p.chunk |-> IF end[j] = "ok" THEN make(w, j, "Done", FALSE)
                                   ELSE make(w, j, "Failed", end[j] = "transient")],
             [p EXCEPT !.pc = "claim", !.chunk = {}, !.overdue = FALSE, !.ran = @ + 1,
                       !.done = @ \/ \E j \in p.chunk : end[j] = "ok",
                       !.todo = IF p.ran + 1 = MaxChunks THEN {} ELSE @])
  /\ UNCHANGED <<before, claim, aged>>

NoWork__skips(p) == ~p.done
\* "Idle" is a pass that completed nothing and found no chunk in other hands.
NoWork(p) == ~p.done /\ ~p.skipped

\* Poison rows go last; then the entrypoint looks at the summary.
EndPass(w) ==
  /\ At(w, "claim") /\ worker[w].todo = {}
  /\ LET p == worker[w]
         next == [Fresh EXCEPT !.idle = IF NoWork(p) THEN p.idle + 1 ELSE 0]
         doomed == PlanOf(p.view, "poison")
     IN IF doomed = {} THEN Set(w, next) /\ UNCHANGED <<ledger, forgot, faults>>
        ELSE Flush(w, [j \in doomed |-> make(w, j, "Poison", FALSE)], next)
  /\ before' = Without(w)
  /\ UNCHANGED <<claim, aged>>

-----------------------------------------------------------------------------
(* The surroundings.                                                       *)

\* The pass dies, and its worker starts another; SIGTERM may have released the claim.
Crash(w) ==
  /\ InPass(w)
  /\ Fault
  /\ Set(w, Fresh)
  /\ before' = Without(w)
  /\ \/ UNCHANGED <<claim, aged>>
     \/ LET c == worker[w].chunk IN
        /\ At(w, "run") /\ claim[c] = w
        /\ claim' = [claim EXCEPT ![c] = Nobody]
        /\ aged' = aged \ {c}
  /\ UNCHANGED <<ledger, forgot>>

Runs(w, c) == At(w, "run") /\ worker[w].chunk = c

Abandoned(c) == claim[c] # Nobody /\ ~Runs(claim[c], c)

\* An abandoned claim reaches the TTL.
Age(c) ==
  /\ Abandoned(c) /\ c \notin aged
  /\ aged' = aged \cup {c}
  /\ UNCHANGED <<ledger, before, claim, worker, forgot, faults>>

\* So does a claim whose owner still runs the chunk, when no cell completes in time and no
\* heartbeat renews it.
Overrun(w) ==
  LET c == worker[w].chunk IN
  /\ At(w, "run") /\ claim[c] = w /\ c \notin aged
  /\ aged' = aged \cup {c}
  /\ Set(w, [worker[w] EXCEPT !.overdue = TRUE])
  /\ UNCHANGED <<ledger, before, claim, forgot, faults>>

\* A cell completes after all, and nobody has taken the chunk yet.
Renew(w) ==
  LET c == worker[w].chunk IN
  /\ At(w, "run") /\ claim[c] = w /\ c \in aged
  /\ aged' = aged \ {c}
  /\ Set(w, [worker[w] EXCEPT !.overdue = FALSE])
  /\ UNCHANGED <<ledger, before, claim, forgot, faults>>

AllGone == (\A w \in Workers : At(w, "gone")) /\ UNCHANGED vars

Step(w) ==
  \/ Begin(w) \/ Drained(w) \/ Read(w) \/ FinishChunk(w) \/ EndPass(w)
  \/ \E c \in worker[w].todo : ClaimChunk(w, c) \/ SkipChunk(w, c)

Next ==
  \/ \E w \in Workers : Step(w) \/ ReadFails(w) \/ Crash(w) \/ Overrun(w) \/ Renew(w)
  \/ \E c \in Chunk : Age(c)
  \/ AllGone

Spec == Init /\ [][Next]_vars

\* Workers are scheduled, cells end, and time passes: weak fairness of Step(w), which is
\* possible until w is gone, and of Age, with these guards in the place of ENABLED.
FairSpec ==
  /\ Spec
  /\ \A w \in Workers : []<>At(w, "gone") \/ []<><<Step(w)>>_vars
  /\ \/ []<>(\A c \in Chunk : Abandoned(c) => c \in aged)
     \/ []<><<\E c \in Chunk : Age(c)>>_vars

-----------------------------------------------------------------------------
(* Properties.                                                             *)

\* Two workers run the same job at the same time only if they saw different gaps, or one
\* of them has let its claim pass the TTL: all boxes of a fleet cut the same gap alike, so
\* that the claims keep them apart.  (pack_chunks_lpt_uniform, chunk_id)
OverlapOnlyAcrossViews ==
  Uniform =>
    \A w, v \in Workers :
      (w # v /\ At(w, "run") /\ At(v, "run") /\ worker[w].chunk \cap worker[v].chunk # {})
        => Gap(w) # Gap(v) \/ worker[w].overdue \/ worker[v].overdue

Open(j) == ~Closed(ledger[j])

\* A worker that takes itself for idle and leaves, leaves no job behind that nobody
\* tried, unless so much went wrong meanwhile that each of its idle passes may have
\* lost its rows.  (the drain rule of fleet-entrypoint.sh)
EveryJobTried ==
  MaxChunks = 0 =>
    \A w \in Workers :
      At(w, "gone") /\ MaxFaults - faults < IdlePasses => \A j \in Jobs : ledger[j] # NoRow

\* Nor does it leave a job that is still to be retried, provided that it looks idle as often
\* as a job may be tried and as faults have cost a pass; unless latest-wins dropped the
\* job's completion, its last failure or one of its attempts, whose row lost to one of a
\* pass that knew less.  (the drain rule of fleet-entrypoint.sh; LedgerView::apply)
NoWorkLeftBehind ==
  MaxChunks = 0 /\ MaxAttempts + (MaxFaults - faults) <= IdlePasses =>
    \A w \in Workers : At(w, "gone") => \A j \in Jobs : Open(j) => j \in forgot

\* And they do leave: whatever was claimed, killed or lost, the run comes to its end.
\* (the pass loop of fleet-entrypoint.sh)
FleetDrains == <>(\A w \in Workers : At(w, "gone"))
=============================================================================
