------------------------------ MODULE WorkerPool ------------------------------
(***************************************************************************)
(* The streaming worker pool of zenmetrics-orchestrator (pool.rs): one     *)
(* caller submits tasks into a reorder window; a flush sorts the window,   *)
(* guesses from the references seen lately which tasks may share a cached  *)
(* reference, and hands each task to a worker; each worker keeps one warm  *)
(* metric between tasks and answers on a shared channel, from which the    *)
(* caller collects.                                                        *)
(*                                                                         *)
(* Tasks are numbered in the flush's sort order: metric, size, hash of the *)
(* reference, task id.  Hashes do not collide, so a reference stands for   *)
(* its hash.  The lanes' multi-warm session pool is off, as by default.    *)
(***************************************************************************)
EXTENDS Integers, FiniteSets, SequencesExt

CONSTANTS
  TaskCount,   \* tasks are 1..TaskCount
  Shape,       \* metric and size of a task
  Ref,         \* reference of a task
  Params,      \* per-metric parameters of a task
  Offers,     \* backends the chooser may pick for a task
  Caching,     \* signatures whose metric can keep a reference
  GpuLanes, CpuLanes,  \* the workers, in round-robin order
  Window,      \* tasks that fill the reorder window
  Memory,      \* references the detector remembers (32)
  None,        \* no instance, no signature, no reference, no score
  Waiting,     \* no result yet
  MaxHandles,  \* bound: submissions
  MaxFaults,   \* bound: failed constructions, installations and computations
  MaxPanics    \* bound: workers that die in a task

Tasks == 1..TaskCount
Handles == 1..MaxHandles
Lanes == ToSet(GpuLanes) \cup ToSet(CpuLanes)

Backends == UNION {Offers[t] : t \in Tasks}
Refs == {Ref[t] : t \in Tasks}
Signatures == [shape : {Shape[t] : t \in Tasks}, backend : Backends]

\* An entry of the window, an item of a worker's channel, the dispatcher's state;
\* what a score was computed with, and an answer.
Entries == [handle : Handles, task : Tasks, backend : Backends, slot : 0..Len(CpuLanes)]
Items == [handle : Handles, task : Tasks, backend : Backends, cached : BOOLEAN]
Pools ==
  [window : Seq(Entries), seen : Seq({Shape[t] : t \in Tasks} \X Refs),
   gpu_next : 0..MaxHandles, cpu_next : 0..MaxHandles, active : 1..Len(GpuLanes)]
Scores == [sig : Signatures, params : {Params[t] : t \in Tasks}, ref : Refs \cup {None}]
Answers ==
  [handle : Handles, task : Tasks, error : {"no", "construct", "lost", "compute", "oom"},
   score : Scores \cup {None}]

ASSUME LanesApart ==
  /\ GpuLanes \in Seq(ToSet(GpuLanes)) \ {<<>>} /\ CpuLanes \in Seq(ToSet(CpuLanes)) \ {<<>>}
  /\ ToSet(GpuLanes) \cap ToSet(CpuLanes) = {}
  /\ IsInjective(GpuLanes) /\ IsInjective(CpuLanes)
ASSUME Sizes ==
  /\ TaskCount \in Nat /\ Window \in Nat \ {0} /\ Memory \in Nat \ {0}
  /\ MaxHandles \in Nat /\ MaxFaults \in Nat /\ MaxPanics \in Nat
ASSUME TasksKnown ==
  \A t \in Tasks : Offers[t] # {} /\ {Shape[t], Ref[t]} \cap {None} = {}
ASSUME WaitingApart == Waiting \notin Answers

VARIABLES
  pool,      \* the dispatcher: window, references seen, round-robin counters
  queue,     \* channel of each worker
  asked,     \* history: the task of each handle
  pending,   \* open handles: Waiting, or the result stashed for them
  warm,      \* metric instance a worker holds: built for, parameters, reference
  belief,    \* what a worker takes its instance for: signature, reference
  dead,      \* workers that panicked
  results,   \* result channel
  caller,    \* the caller: "free", "next" (in an iterator), "recv" (blocked)
  owed,      \* results the iterator still has to yield
  lost,      \* history: handles of the tasks that went down with a worker
  faults

vars == <<pool, queue, lost, asked, pending, warm, belief, dead, results, caller, owed, faults>>
workers == <<warm, belief, dead>>

\* A worker without an instance.
Blank == [warm |-> None, belief |-> [sig |-> None, ref |-> None]]

Init ==
  /\ pool = [window |-> <<>>, seen |-> <<>>, gpu_next |-> 0, cpu_next |-> 0, active |-> Len(GpuLanes)]
  /\ queue = [l \in Lanes |-> <<>>] /\ lost = {}
  /\ asked = <<>>
  /\ pending = <<>>
  /\ warm = [l \in Lanes |-> Blank.warm] /\ belief = [l \in Lanes |-> Blank.belief]
  /\ dead = {} /\ results = <<>>
  /\ caller = "free" /\ owed = 0 /\ faults = 0

-----------------------------------------------------------------------------
(* The dispatcher.  A flush changes the dispatcher, the queues and what is   *)
(* lost: d == [pool |-> ..., queue |-> ..., lost |-> ...] is threaded        *)
(* through it.                                                               *)

Remember__all(seen, key) == IF key \in ToSet(seen) THEN seen ELSE Append(seen, key)
\* CachedRefCache::observe: a new key slides in, the oldest one out.
Remember(seen, key) ==
  IF key \in ToSet(seen) THEN seen
  ELSE Append(IF Len(seen) < Memory THEN seen ELSE Tail(seen), key)

\* One task of a flush, to its worker; a send to a dead one fails, and nobody looks.
Dispatch(d, e) ==
  LET key  == <<Shape[e.task], Ref[e.task]>>
      item == [handle |-> e.handle, task |-> e.task, backend |-> e.backend,
               cached |-> key \in ToSet(d.pool.seen)]
      lane == IF e.backend = "cpu" THEN CpuLanes[e.slot]
              ELSE GpuLanes[(d.pool.gpu_next % d.pool.active) + 1]
  IN  [pool |-> [d.pool EXCEPT !.seen = Remember(@, key),
                               !.gpu_next = IF e.backend = "cpu" THEN @ ELSE @ + 1],
       queue |-> IF lane \in dead THEN d.queue ELSE [d.queue EXCEPT ![lane] = Append(@, item)],
       lost |-> IF lane \in dead THEN d.lost \cup {e.handle} ELSE d.lost]

\* The window in the flush's sort order; a task submitted twice keeps its order.
Orders(window) ==
  LET Before(a, b) == a.task < b.task \/ (a.task = b.task /\ a.handle < b.handle)
  IN  {o \in [DOMAIN window -> ToSet(window)] :
         /\ ToSet(window) \subseteq ToSet(o)
         /\ \A i, k \in DOMAIN window : i < k => Before(o[i], o[k])}

\* The entries of an order, dispatched one by one.
Served(d, order) ==
  LET after[n \in 0..Len(order)] == IF n = 0 THEN d ELSE Dispatch(after[n - 1], order[n])
  IN  after[Len(order)]

Flushed__kept(d) == {Served(d, order) : order \in Orders(d.pool.window)}
\* flush_pending_internal: there is one order.
Flushed(d) == {Served([d EXCEPT !.pool.window = <<>>], order) : order \in Orders(d.pool.window)}

Dispatcher == [pool |-> pool, queue |-> queue, lost |-> lost]

\* drain_stale_window and the age test of submit: a window with tasks in it may
\* have reached its age.
AgedOrNot(d) == {d} \cup (IF d.pool.window = <<>> THEN {} ELSE Flushed(d))

\* submit, once the chooser has picked a backend.
Submitted(d, handle, task, backend) ==
  LET e == [handle |-> handle, task |-> task, backend |-> backend,
            slot |-> IF backend = "cpu" THEN (d.pool.cpu_next % Len(CpuLanes)) + 1 ELSE 0]
      p == [d.pool EXCEPT !.window = Append(@, e),
                          !.cpu_next = IF backend = "cpu" THEN @ + 1 ELSE @]
      grown == [d EXCEPT !.pool = p]
  IN  IF Len(p.window) >= Window THEN Flushed(grown) ELSE AgedOrNot(grown)

Dispatched(d) == pool' = d.pool /\ queue' = d.queue /\ lost' = d.lost

\* drain_completed: the channel's results, in their handles' slots.
Stashed ==
  [h \in DOMAIN pending |->
     LET mine == {r \in ToSet(results) : r.handle = h}
     IN  IF mine = {} THEN pending[h] ELSE CHOOSE r \in mine : TRUE]

Ready(slots) == {h \in DOMAIN slots : slots[h] # Waiting}
Opened(slots, new) ==
  [h \in DOMAIN slots \cup new |-> IF h \in DOMAIN slots THEN slots[h] ELSE Waiting]
Without__emptied(slots, h) == [slots EXCEPT ![h] = Waiting]
\* The slot goes with its result.
Without(slots, h) == [g \in DOMAIN slots \ {h} |-> slots[g]]

-----------------------------------------------------------------------------
(* The caller. *)

Submit(t) ==
  /\ caller = "free" /\ Len(asked) < MaxHandles
  /\ \E b \in Offers[t] :
       \E d \in Submitted(Dispatcher, Len(asked) + 1, t, b) : Dispatched(d)
  /\ asked' = Append(asked, t)
  /\ pending' = Opened(pending, {Len(asked) + 1})
  /\ UNCHANGED <<workers, results, caller, owed, faults>>

\* run_all sorts its tasks, submits them and flushes; the iterator it returns
\* counts them.  (Tasks the chooser refuses are answered before all others and
\* never reach the pool.)
RunAll(first, second) ==
  LET h == Len(asked)
  IN  /\ caller = "free" /\ h + 2 <= MaxHandles /\ first <= second
      /\ \E b1 \in Offers[first], b2 \in Offers[second] :
         \E d1 \in Submitted(Dispatcher, h + 1, first, b1) :
         \E d2 \in Submitted(d1, h + 2, second, b2) :
         \E d \in Flushed(d2) : Dispatched(d)
      /\ asked' = asked \o <<first, second>>
      /\ pending' = Opened(pending, {h + 1, h + 2})
      /\ owed' = 2 /\ caller' = "next"
      /\ UNCHANGED <<workers, results, faults>>

Flush ==
  /\ caller = "free" /\ pool.window # <<>>
  /\ \E d \in Flushed(Dispatcher) : Dispatched(d)
  /\ UNCHANGED <<asked, pending, workers, results, caller, owed, faults>>

\* poll and poll_any: what has come is stashed; one finished handle is answered.
Poll ==
  /\ caller = "free"
  /\ \E d \in AgedOrNot(Dispatcher) : Dispatched(d)
  /\ results' = <<>>
  /\ \/ pending' = Stashed
     \/ \E h \in Ready(Stashed) : pending' = Without(Stashed, h)
  /\ UNCHANGED <<asked, workers, caller, owed, faults>>

\* poll_any_blocking called on its own: an iterator of one result.
AwaitAny ==
  /\ caller = "free"
  /\ caller' = "next" /\ owed' = 1
  /\ UNCHANGED <<pool, queue, lost, asked, pending, workers, results, faults>>

\* The call ends, or the iterator is exhausted or dropped.
Leave == caller' = "free"

Answer(slots, h) ==
  /\ pending' = Without(slots, h)
  /\ owed' = owed - 1
  /\ IF owed = 1 THEN Leave ELSE caller' = "next"

BeforeBlocking__asis(d) == {d}
\* What is still buffered goes out before the caller may block.
BeforeBlocking(d) == IF d.pool.window = <<>> THEN {d} ELSE Flushed(d)

\* poll_any_blocking up to the point where it blocks.
TakeNext ==
  /\ caller = "next"
  /\ \E d \in BeforeBlocking(Dispatcher) : Dispatched(d)
  /\ results' = <<>>
  /\ \/ /\ pending = <<>> /\ owed' = 0 /\ Leave /\ UNCHANGED pending
     \/ \E h \in Ready(Stashed) : Answer(Stashed, h)
     \/ /\ pending # <<>> /\ Ready(Stashed) = {}
        /\ caller' = "recv" /\ UNCHANGED <<pending, owed>>
  /\ UNCHANGED <<asked, workers, faults>>

\* The blocked caller receives, takes what else has come, and answers.  When
\* the last worker is gone it gets nothing, and the iteration ends.
Receive ==
  /\ caller = "recv"
  /\ \/ results # <<>> /\ \E h \in Ready(Stashed) : Answer(Stashed, h)
     \/ results = <<>> /\ dead = Lanes /\ owed' = 0 /\ Leave /\ UNCHANGED pending
  /\ results' = <<>>
  /\ UNCHANGED <<pool, queue, lost, asked, workers, faults>>

\* The iterator is dropped between two of its results.
Drop ==
  /\ caller = "next" /\ owed' = 0 /\ Leave
  /\ UNCHANGED <<pool, queue, lost, asked, pending, workers, results, faults>>

\* adaptive_lane_tick: one lane more or one less, by the utilisation readings.
LaneTick ==
  /\ caller = "free"
  /\ \E n \in {pool.active - 1, pool.active + 1} \cap (1..Len(GpuLanes)) :
       pool' = [pool EXCEPT !.active = n]
  /\ UNCHANGED <<queue, lost, asked, pending, workers, results, caller, owed, faults>>

-----------------------------------------------------------------------------
(* The workers: gpu_worker_main on its single-warm path and cpu_worker_main. *)

Signature(m) == [shape |-> Shape[m.task], backend |-> m.backend]

\* The construction of a metric for a task, and its failure: the old instance is
\* gone either way, the signature changes only with the new one.
Built(m) ==
  [warm |-> [sig |-> Signature(m), params |-> Params[m.task], ref |-> None],
   belief |-> [sig |-> Signature(m), ref |-> None], error |-> FALSE]
Unbuilt(l) ==
  [warm |-> None, belief |-> [sig |-> belief[l].sig, ref |-> None], error |-> TRUE]

\* What the worker has to compute with: its warm instance when the signature is
\* the same, a fresh one otherwise.
Instances(l, m, mayFail) ==
  IF belief[l].sig = Signature(m)
  THEN {[warm |-> warm[l], belief |-> belief[l], error |-> FALSE]}
  ELSE {Built(m)} \cup (IF mayFail THEN {Unbuilt(l)} ELSE {})

\* An instance and what is believed of it, holding and believed to hold refs.
Holding(i, held, believed, with) ==
  [warm |-> [sig |-> i.warm.sig, params |-> i.warm.params, ref |-> held],
   belief |-> [sig |-> i.belief.sig, ref |-> believed], with |-> with]

Regular__trusting(i, r) == Holding(i, None, i.belief.ref, r)
\* The regular computation takes over the instance's reference buffers.
Regular(i, r) == Holding(i, None, None, r)
Installed(i, r) == Holding(i, r, r, r)
Cached(i) == Holding(i, i.warm.ref, i.belief.ref, i.warm.ref)

\* A task that may use a cached reference installs its own unless it is believed
\* to be there, and falls back to the regular computation when that fails.
References(i, m, mayFail) ==
  LET r == Ref[m.task]
  IN  IF ~(m.cached /\ i.warm.sig \in Caching) THEN {Regular(i, r)}
      ELSE IF i.belief.ref # None /\ i.belief.ref = r THEN {Cached(i)}
      ELSE {Installed(i, r)} \cup (IF mayFail THEN {Regular(i, r)} ELSE {})

\* What a score was computed with.
Score(j) == [sig |-> j.warm.sig, params |-> j.warm.params, ref |-> j.with]

Send(m, error, score) ==
  results' = Append(results, [handle |-> m.handle, task |-> m.task, error |-> error, score |-> score])
Keep(l, i) == warm' = [warm EXCEPT ![l] = i.warm] /\ belief' = [belief EXCEPT ![l] = i.belief]
Fail(n) == faults + n <= MaxFaults /\ faults' = faults + n

\* One task, from the channel to the answer.
Work(l) ==
  /\ l \notin dead /\ queue[l] # <<>>
  /\ queue' = [queue EXCEPT ![l] = Tail(@)]
  /\ LET m == Head(queue[l])
         mayFail == faults < MaxFaults
     IN  \E i \in Instances(l, m, mayFail) :
         \/ i.error /\ Keep(l, i) /\ Send(m, "construct", None) /\ Fail(1)
         \/ \* "worker lost metric state"
            ~i.error /\ i.warm = None /\ Keep(l, i) /\ Send(m, "lost", None) /\ Fail(0)
         \/ /\ ~i.error /\ i.warm # None
            /\ \E j \in References(i, m, mayFail) :
               LET refused == IF m.cached /\ j.belief.ref = None /\ i.warm.sig \in Caching THEN 1 ELSE 0
               IN  \/ Keep(l, j) /\ Send(m, "no", Score(j)) /\ Fail(refused)
                   \/ \* any other error: the instance stays
                      Keep(l, j) /\ Send(m, "compute", None) /\ Fail(refused + 1)
                   \/ \* out of memory: the next task starts afresh
                      Keep(l, Blank) /\ Send(m, "oom", None) /\ Fail(refused + 1)
  /\ UNCHANGED <<pool, lost, asked, pending, dead, caller, owed>>

\* A metric crate panics in a task: nothing catches it, the thread ends and its
\* channel goes with it, this task and those behind it included.
Panic(l) ==
  /\ l \notin dead /\ queue[l] # <<>> /\ Cardinality(dead) < MaxPanics
  /\ dead' = dead \cup {l}
  /\ Keep(l, Blank)
  /\ queue' = [queue EXCEPT ![l] = <<>>]
  /\ lost' = lost \cup {m.handle : m \in ToSet(queue[l])}
  /\ UNCHANGED <<pool, asked, pending, results, caller, owed, faults>>

-----------------------------------------------------------------------------
Calls ==
  \/ \E t \in Tasks : Submit(t)
  \/ \E t, u \in Tasks : RunAll(t, u)
  \/ Flush \/ Poll \/ AwaitAny \/ Drop \/ LaneTick

Next == Calls \/ TakeNext \/ Receive \/ (\E l \in Lanes : Work(l) \/ Panic(l))

Spec == Init /\ [][Next]_vars

\* Threads are scheduled; a caller inside a blocking call goes on with it.
FairSpec == Spec /\ WF_vars(TakeNext) /\ WF_vars(Receive) /\ \A l \in Lanes : WF_vars(Work(l))

-----------------------------------------------------------------------------
(* Properties. *)

\* Every variable has its type; a handle is open only after it was given out.
TypeOK ==
  /\ pool \in Pools /\ Len(pool.window) < Window /\ Len(pool.seen) <= Memory
  /\ queue \in [Lanes -> Seq(Items)]
  /\ asked \in Seq(Tasks) /\ Len(asked) <= MaxHandles
  /\ DOMAIN pending \subseteq 1..Len(asked)
  /\ \A h \in DOMAIN pending : pending[h] \in Answers \cup {Waiting}
  /\ warm \in [Lanes -> Scores \cup {None}]
  /\ belief \in [Lanes -> [sig : Signatures \cup {None}, ref : Refs \cup {None}]]
  /\ dead \subseteq Lanes /\ results \in Seq(Answers)
  /\ caller \in {"free", "next", "recv"} /\ owed \in 0..2
  /\ lost \subseteq Handles /\ faults \in 0..MaxFaults

\* The answers that exist: on the channel, or stashed for their handle.
Arrived == ToSet(results) \cup {pending[h] : h \in Ready(pending)}

\* A score is computed on the task's own reference, by an instance built for its
\* metric, size and backend: sharing cached references and warm instances among
\* tasks never changes what a task is compared with (pool.rs cached_ref_hash).
ScoredOnOwnReference ==
  \A r \in Arrived :
    r.score # None => r.score.ref = Ref[r.task] /\ r.score.sig.shape = Shape[r.task]

\* Where a task that is not answered may be.
Windowed(h) == {i \in DOMAIN pool.window : pool.window[i].handle = h}
Queued(h) == UNION {{<<l, i>> : i \in {n \in DOMAIN queue[l] : queue[l][n].handle = h}} : l \in Lanes}
Answered(h) == {i \in DOMAIN results : results[i].handle = h}

\* A task that is not answered yet is in exactly one place, the window, one
\* worker's queue or the channel, unless it went down with a worker; an answered
\* one is in none, and its answer is its own (pool.rs submit,
\* flush_pending_internal, drain_completed, poll).
HandlesAccounted ==
  /\ lost \subseteq {h \in DOMAIN pending : pending[h] = Waiting}
  /\ \A h \in 1..Len(asked) :
       Cardinality(Windowed(h)) + Cardinality(Queued(h)) + Cardinality(Answered(h))
         = IF h \in DOMAIN pending /\ pending[h] = Waiting /\ h \notin lost THEN 1 ELSE 0
  /\ \A r \in Arrived : r.task = asked[r.handle]

\* A blocking call ends, unless every open task went down with its worker: what
\* is still in the window when the caller blocks would wait for ever
\* (pool.rs poll_any_blocking).
BlockedCallReturns ==
  (caller # "free") ~> (caller = "free" \/ DOMAIN pending \subseteq lost)

\* Of every handle: Waiting while its task is out, the answer as soon as a worker
\* sent it, None once it was collected.
Slots == [h \in 1..Len(asked) |-> IF h \in DOMAIN pending THEN Stashed[h] ELSE None]
Service == INSTANCE PoolService WITH answer <- Slots, Taken <- None

\* Through windows, queues, warm instances, failures and panics the caller gets
\* what the pool promises: for each handle one answer at most, its own, which
\* never changes while it waits to be collected and never comes twice
\* (pool.rs submit, poll, poll_any, drain_completed).
ImplementsService == Service!Spec

\* executor.rs: a task carries its "per-metric parameters"; a score is computed
\* with them.
ScoredWithOwnParams ==
  \A r \in Arrived : r.score # None => r.score.params = Params[r.task]
=============================================================================
