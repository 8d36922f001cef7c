-------------------------- MODULE WorkerPoolProofs --------------------------
(***************************************************************************)
(* For every set of tasks, lanes and bounds.                               *)
(*                                                                         *)
(* OwnReference: a score is computed on the task's own reference, by an    *)
(* instance of its own metric and size.  The invariant says that what a    *)
(* worker believes of its warm instance is true of it; nothing need be     *)
(* known of the dispatcher, whose guess about a cached reference can only  *)
(* cost time.                                                              *)
(*                                                                         *)
(* PoolTypeCorrect and HandlesStayAccounted: the dispatcher, the handles   *)
(* given out, the open slots and the channel belong together.  Here the    *)
(* dispatcher is what counts: a flush sorts the window and hands it out    *)
(* one by one, and must neither lose nor double a task.                    *)
(*                                                                         *)
(* PoolServes: both together make the pool implement PoolService.  A       *)
(* submission opens handles, a worker's answer settles the one handle that *)
(* waits for it, a collected result closes one, and every other step is    *)
(* invisible to the caller; draining the channel into the slots is one of  *)
(* those, because the mapping looks through it.                            *)
(***************************************************************************)
EXTENDS WorkerPool, SumLemmas, FiniteSetTheorems

\* The worker's record of its instance agrees with the instance.
Coherent(w, b) ==
  w # None => w.sig = b.sig /\ (b.ref # None => w.ref = b.ref)

\* The answer compares the task with its own reference.
Own(r) == r.score # None => r.score.ref = Ref[r.task] /\ r.score.sig.shape = Shape[r.task]

BeliefsTrue ==
  /\ DOMAIN warm = Lanes /\ DOMAIN belief = Lanes
  /\ \A l \in Lanes : Coherent(warm[l], belief[l])

AnswersOwn ==
  /\ \E S : results \in Seq(S)
  /\ \A i \in DOMAIN results : Own(results[i])
  /\ \A h \in DOMAIN pending : pending[h] # Waiting => Own(pending[h])

IInv == BeliefsTrue /\ AnswersOwn

\* At the start no worker has an instance and no answer exists (PoolState::new).
LEMMA InitIInv == Init => IInv
<1>1. ASSUME Init PROVE BeliefsTrue
  BY <1>1 DEF Init, BeliefsTrue, Coherent, Blank
<1>2. ASSUME Init PROVE AnswersOwn
  <2>1. results = <<>> /\ pending = <<>>  BY <1>2 DEF Init
  <2>2. results \in Seq({}) /\ DOMAIN results = {} /\ DOMAIN pending = {}  BY <2>1
  <2> QED  BY <2>2 DEF AnswersOwn
<1> QED  BY <1>1, <1>2 DEF IInv

\* Stashing keeps every answer as it came (drain_completed).
LEMMA StashedOwn ==
  ASSUME AnswersOwn, NEW h \in DOMAIN Stashed, Stashed[h] # Waiting
  PROVE  Own(Stashed[h])
<1> DEFINE mine == {r \in ToSet(results) : r.handle = h}
<1>1. h \in DOMAIN pending /\ Stashed[h] = IF mine = {} THEN pending[h] ELSE CHOOSE r \in mine : TRUE
  BY DEF Stashed
<1>2. CASE mine = {}
  BY <1>1, <1>2 DEF AnswersOwn
<1>3. CASE mine # {}
  <2>1. Stashed[h] \in mine  BY <1>1, <1>3
  <2>2. PICK i \in DOMAIN results : results[i] = Stashed[h]  BY <2>1 DEF ToSet
  <2> QED  BY <2>2 DEF AnswersOwn
<1> QED  BY <1>2, <1>3

\* A caller's step that keeps the workers and drains the channel into slots.
LEMMA DrainKeeps ==
  ASSUME IInv, UNCHANGED <<warm, belief>>, results' = <<>>,
         \A h \in DOMAIN pending' : pending'[h] # Waiting => Own(pending'[h])
  PROVE  IInv'
<1>1. BeliefsTrue'  BY DEF IInv, BeliefsTrue, Coherent
<1>2. results' \in Seq({}) /\ DOMAIN results' = {}  OBVIOUS
<1>3. AnswersOwn'
  BY <1>2 DEF AnswersOwn, Own
<1> QED  BY <1>1, <1>3 DEF IInv

\* A caller's step that keeps workers and channel and only opens handles.
LEMMA OpenKeeps ==
  ASSUME IInv, UNCHANGED <<warm, belief, results>>,
         \A h \in DOMAIN pending' :
           pending'[h] # Waiting => h \in DOMAIN pending /\ pending'[h] = pending[h]
  PROVE  IInv'
<1>1. BeliefsTrue'  BY DEF IInv, BeliefsTrue, Coherent
<1>2. AnswersOwn'  BY DEF IInv, AnswersOwn, Own
<1> QED  BY <1>1, <1>2 DEF IInv

\* What a worker computes with has the task's signature, and is what the worker
\* believes it to be (gpu_worker_main: construction when the signature changed).
LEMMA InstanceFits ==
  ASSUME BeliefsTrue, NEW l \in Lanes, NEW m, NEW mayFail \in BOOLEAN,
         NEW i \in Instances(l, m, mayFail)
  PROVE  /\ Coherent(i.warm, i.belief)
         /\ ~i.error => i.belief.sig = Signature(m)
         /\ ~i.error /\ i.warm # None => i.warm.sig = Signature(m)
<1>1. CASE belief[l].sig = Signature(m)
  <2>1. i = [warm |-> warm[l], belief |-> belief[l], error |-> FALSE]  BY <1>1 DEF Instances
  <2> QED  BY <1>1, <2>1 DEF BeliefsTrue, Coherent
<1>2. CASE i = Built(m)
  BY <1>2 DEF Built, Coherent
<1>3. CASE i = Unbuilt(l)
  BY <1>3 DEF Unbuilt, Coherent
<1> QED  BY <1>1, <1>2, <1>3 DEF Instances

\* The reference a task is computed with is its own, whichever way it got there
\* (gpu_worker_main: need_install, set_reference, the fallback).
LEMMA ReferenceOwn ==
  ASSUME NEW m, NEW mayFail \in BOOLEAN, NEW i, Coherent(i.warm, i.belief), i.warm # None,
         NEW j \in References(i, m, mayFail)
  PROVE  /\ j.with = Ref[m.task] /\ j.warm.sig = i.warm.sig
         /\ Coherent(j.warm, j.belief)
<1> USE DEF Holding, Coherent
<1>1. CASE j = Regular(i, Ref[m.task])  BY <1>1 DEF Regular
<1>2. CASE j = Installed(i, Ref[m.task])  BY <1>2 DEF Installed
<1>3. CASE i.belief.ref # None /\ i.belief.ref = Ref[m.task] /\ j = Cached(i)  BY <1>3 DEF Cached
<1> QED  BY <1>1, <1>2, <1>3 DEF References

\* One answer more on the channel, the worker's record still true.
LEMMA AnswerKeeps ==
  ASSUME IInv, NEW l \in Lanes, NEW w, NEW b, Coherent(w, b),
         warm' = [warm EXCEPT ![l] = w], belief' = [belief EXCEPT ![l] = b],
         NEW r, Own(r), results' = Append(results, r), UNCHANGED pending
  PROVE  IInv'
<1>1. BeliefsTrue'
  BY DEF IInv, BeliefsTrue, Coherent
<1>2. PICK S : results \in Seq(S)  BY DEF IInv, AnswersOwn
<1>3. results \in Seq(S \cup {r})  BY <1>2
<1>4. results' \in Seq(S \cup {r})  BY <1>3
<1>5. \A n \in DOMAIN results' : Own(results'[n])
  <2>1. DOMAIN results' = 1..(Len(results) + 1) /\ DOMAIN results = 1..Len(results)  BY <1>3
  <2>2. \A n \in DOMAIN results : results'[n] = results[n]  BY <1>3
  <2>3. results'[Len(results) + 1] = r  BY <1>3
  <2>4. Len(results) \in Nat  BY <1>3
  <2> QED  BY <2>1, <2>2, <2>3, <2>4 DEF IInv, AnswersOwn
<1>6. AnswersOwn'  BY <1>4, <1>5 DEF IInv, AnswersOwn, Own
<1> QED  BY <1>1, <1>6 DEF IInv

\* A worker's task, whatever comes of it.
LEMMA WorkKeeps ==
  ASSUME IInv, NEW l \in Lanes, Work(l)
  PROVE  IInv'
<1> DEFINE m == Head(queue[l])
           mayFail == faults < MaxFaults
           answer(e, s) == [handle |-> m.handle, task |-> m.task, error |-> e, score |-> s]
<1>1. mayFail \in BOOLEAN /\ UNCHANGED pending /\ BeliefsTrue  BY DEF Work, IInv
<1>2. \A e : Own(answer(e, None))  BY DEF Own
<1>3. Coherent(Blank.warm, Blank.belief)  BY DEF Coherent, Blank
<1>4. PICK i \in Instances(l, m, mayFail) :
        \/ i.error /\ Keep(l, i) /\ Send(m, "construct", None)
        \/ ~i.error /\ i.warm = None /\ Keep(l, i) /\ Send(m, "lost", None)
        \/ /\ ~i.error /\ i.warm # None
           /\ \E j \in References(i, m, mayFail) :
                \/ Keep(l, j) /\ Send(m, "no", Score(j))
                \/ Keep(l, j) /\ Send(m, "compute", None)
                \/ Keep(l, Blank) /\ Send(m, "oom", None)
  BY DEF Work
<1>5. /\ Coherent(i.warm, i.belief)
      /\ ~i.error => i.belief.sig = Signature(m)
      /\ ~i.error /\ i.warm # None => i.warm.sig = Signature(m)
  <2> HIDE DEF m, mayFail
  <2> QED  BY <1>1, <1>4, InstanceFits
<1>6. CASE i.error /\ Keep(l, i) /\ Send(m, "construct", None)
  BY <1>1, <1>2, <1>5, <1>6, AnswerKeeps DEF Keep, Send
<1>7. CASE ~i.error /\ i.warm = None /\ Keep(l, i) /\ Send(m, "lost", None)
  BY <1>1, <1>2, <1>5, <1>7, AnswerKeeps DEF Keep, Send
<1>8. CASE /\ ~i.error /\ i.warm # None
           /\ \E j \in References(i, m, mayFail) :
                \/ Keep(l, j) /\ Send(m, "no", Score(j))
                \/ Keep(l, j) /\ Send(m, "compute", None)
                \/ Keep(l, Blank) /\ Send(m, "oom", None)
  <2>1. PICK j \in References(i, m, mayFail) :
          \/ Keep(l, j) /\ Send(m, "no", Score(j))
          \/ Keep(l, j) /\ Send(m, "compute", None)
          \/ Keep(l, Blank) /\ Send(m, "oom", None)
    BY <1>8
  <2>2. j.with = Ref[m.task] /\ j.warm.sig = i.warm.sig /\ Coherent(j.warm, j.belief)
    <3> HIDE DEF m, mayFail
    <3> QED  BY <1>1, <1>5, <1>8, <2>1, ReferenceOwn
  <2>3. Own(answer("no", Score(j)))
    BY <1>5, <1>8, <2>2 DEF Own, Score, Signature
  <2>4. CASE Keep(l, j) /\ Send(m, "no", Score(j))
    BY <1>1, <2>2, <2>3, <2>4, AnswerKeeps DEF Keep, Send
  <2>5. CASE Keep(l, j) /\ Send(m, "compute", None)
    BY <1>1, <1>2, <2>2, <2>5, AnswerKeeps DEF Keep, Send
  <2>6. CASE Keep(l, Blank) /\ Send(m, "oom", None)
    BY <1>1, <1>2, <1>3, <2>6, AnswerKeeps DEF Keep, Send
  <2> QED  BY <2>1, <2>4, <2>5, <2>6
<1> QED  BY <1>4, <1>6, <1>7, <1>8

\* Every step of the pool keeps the invariant.
LEMMA NextKeeps == IInv /\ [Next]_vars => IInv'
<1> SUFFICES ASSUME IInv, [Next]_vars PROVE IInv'  OBVIOUS
<1>s. \A h \in DOMAIN Stashed : Stashed[h] # Waiting => Own(Stashed[h])
  BY StashedOwn DEF IInv
<1>w. \A h : \A k \in DOMAIN Without(Stashed, h) :
        Without(Stashed, h)[k] # Waiting => Own(Without(Stashed, h)[k])
  BY <1>s DEF Without
<1>1. ASSUME NEW t \in Tasks, Submit(t) PROVE IInv'
  <2>1. UNCHANGED <<warm, belief, results>> /\ pending' = Opened(pending, {Len(asked) + 1})
    BY <1>1 DEF Submit, workers
  <2> QED  BY <2>1, OpenKeeps DEF Opened
<1>2. ASSUME NEW t \in Tasks, NEW u \in Tasks, RunAll(t, u) PROVE IInv'
  <2>1. /\ UNCHANGED <<warm, belief, results>>
        /\ pending' = Opened(pending, {Len(asked) + 1, Len(asked) + 2})
    BY <1>2 DEF RunAll, workers
  <2> QED  BY <2>1, OpenKeeps DEF Opened
<1>3. CASE Flush \/ AwaitAny \/ Drop \/ LaneTick
  <2>1. UNCHANGED <<warm, belief, results, pending>>
    BY <1>3 DEF Flush, AwaitAny, Drop, LaneTick, workers
  <2> QED  BY <2>1, OpenKeeps
<1>4. CASE Poll
  <2>1. UNCHANGED <<warm, belief>> /\ results' = <<>>  BY <1>4 DEF Poll, workers
  <2>2. pending' = Stashed \/ \E h : pending' = Without(Stashed, h)  BY <1>4 DEF Poll
  <2>3. \A h \in DOMAIN pending' : pending'[h] # Waiting => Own(pending'[h])
    BY <2>2, <1>s, <1>w
  <2> QED  BY <2>1, <2>3, DrainKeeps
<1>5. CASE TakeNext \/ Receive
  <2>1. UNCHANGED <<warm, belief>> /\ results' = <<>>  BY <1>5 DEF TakeNext, Receive, workers
  <2>2. pending' = pending \/ \E h : pending' = Without(Stashed, h)
    BY <1>5 DEF TakeNext, Receive, Answer
  <2>3. \A h \in DOMAIN pending' : pending'[h] # Waiting => Own(pending'[h])
    BY <2>2, <1>w DEF IInv, AnswersOwn
  <2> QED  BY <2>1, <2>3, DrainKeeps
<1>6. ASSUME NEW l \in Lanes, Work(l) PROVE IInv'
  BY <1>6, WorkKeeps
<1>7. ASSUME NEW l \in Lanes, Panic(l) PROVE IInv'
  <2>1. /\ warm' = [warm EXCEPT ![l] = Blank.warm] /\ belief' = [belief EXCEPT ![l] = Blank.belief]
        /\ UNCHANGED <<results, pending>>
    BY <1>7 DEF Panic, Keep
  <2>2. BeliefsTrue'  BY <2>1 DEF IInv, BeliefsTrue, Coherent, Blank
  <2>3. AnswersOwn'  BY <2>1 DEF IInv, AnswersOwn, Own
  <2> QED  BY <2>2, <2>3 DEF IInv
<1>8. CASE UNCHANGED vars
  BY <1>8, OpenKeeps DEF vars
<1> QED  BY <1>1, <1>2, <1>3, <1>4, <1>5, <1>6, <1>7, <1>8 DEF Next, Calls

\* Sharing warm instances and cached references among tasks never changes what a
\* task is compared with (pool.rs gpu_worker_main, cpu_worker_main).
THEOREM OwnReference == Spec => []ScoredOnOwnReference
<1>1. IInv => ScoredOnOwnReference
  <2> SUFFICES ASSUME IInv, NEW r \in Arrived PROVE Own(r)
    BY DEF ScoredOnOwnReference, Own
  <2>1. CASE r \in ToSet(results)
    BY <2>1 DEF ToSet, IInv, AnswersOwn
  <2>2. CASE r \in {pending[h] : h \in Ready(pending)}
    BY <2>2 DEF Ready, IInv, AnswersOwn
  <2> QED  BY <2>1, <2>2 DEF Arrived
<1> QED  BY <1>1, InitIInv, NextKeeps, PTL DEF Spec

-----------------------------------------------------------------------------
(* Where a handle is: in the window, in one worker's queue, on the channel. *)

\* No element of the sequence, or exactly one, carries the handle.
NoneIn(s, h) == \A i \in DOMAIN s : s[i].handle # h
OnceIn(s, h) == \E i \in DOMAIN s : s[i].handle = h /\ \A k \in DOMAIN s : s[k].handle = h => k = i

\* The same of the workers' queues together.
NoneQueued(q, h) == \A l \in Lanes : NoneIn(q[l], h)
OnceQueued(q, h) == \E l \in Lanes : OnceIn(q[l], h) /\ \A m \in Lanes \ {l} : NoneIn(q[m], h)

\* Each element carries the task its handle was given out for.
Rightly(s, given) == \A i \in DOMAIN s : s[i].handle \in DOMAIN given /\ s[i].task = given[s[i].handle]

\* One element more.
LEMMA AppendIn ==
  ASSUME NEW S, NEW s \in Seq(S), NEW e \in S, NEW h
  PROVE  /\ e.handle # h /\ NoneIn(s, h) => NoneIn(Append(s, e), h)
         /\ e.handle # h /\ OnceIn(s, h) => OnceIn(Append(s, e), h)
         /\ e.handle = h /\ NoneIn(s, h) => OnceIn(Append(s, e), h)
<1>1. /\ DOMAIN s = 1..Len(s) /\ Len(s) \in Nat /\ DOMAIN Append(s, e) = 1..(Len(s) + 1)
      /\ \A i \in DOMAIN s : Append(s, e)[i] = s[i]
      /\ Append(s, e)[Len(s) + 1] = e
  OBVIOUS
<1>2. PICK t : t = Append(s, e)
  OBVIOUS
<1>3. DOMAIN t = DOMAIN s \cup {Len(s) + 1} /\ Len(s) + 1 \notin DOMAIN s
  BY <1>1, <1>2
<1> QED  BY <1>1, <1>2, <1>3 DEF NoneIn, OnceIn

\* The first element goes.
LEMMA TailIn ==
  ASSUME NEW S, NEW s \in Seq(S), s # <<>>, NEW h
  PROVE  /\ NoneIn(s, h) => NoneIn(Tail(s), h) /\ Head(s).handle # h
         /\ Head(s).handle # h /\ OnceIn(s, h) => OnceIn(Tail(s), h)
         /\ Head(s).handle = h /\ OnceIn(s, h) => NoneIn(Tail(s), h)
<1>1. PICK t : t = Tail(s)
  OBVIOUS
<1>2. PICK n \in Nat : n = Len(s) /\ n >= 1 /\ DOMAIN s = 1..n /\ DOMAIN t = 1..(n - 1)
  BY <1>1
<1>3. Head(s) = s[1] /\ \A i \in DOMAIN t : t[i] = s[i + 1]
  BY <1>1
<1>4. 1 \in DOMAIN s /\ \A i \in DOMAIN t : i + 1 \in DOMAIN s /\ i + 1 # 1
  BY <1>2
<1>5. NoneIn(s, h) => NoneIn(t, h) /\ s[1].handle # h
  BY <1>3, <1>4 DEF NoneIn
<1>6. ASSUME s[1].handle # h, OnceIn(s, h) PROVE OnceIn(t, h)
  <2>1. PICK i \in DOMAIN s : s[i].handle = h /\ \A k \in DOMAIN s : s[k].handle = h => k = i
    BY <1>6 DEF OnceIn
  <2>2. i # 1 /\ i - 1 \in DOMAIN t /\ (i - 1) + 1 = i
    BY <1>2, <1>6, <2>1
  <2>3. t[i - 1].handle = h
    BY <1>3, <2>1, <2>2
  <2>4. \A k \in DOMAIN t : t[k].handle = h => k = i - 1
    BY <1>2, <1>3, <1>4, <2>1
  <2> QED  BY <2>2, <2>3, <2>4 DEF OnceIn
<1>7. ASSUME s[1].handle = h, OnceIn(s, h) PROVE NoneIn(t, h)
  BY <1>3, <1>4, <1>7 DEF OnceIn, NoneIn
<1> QED  BY <1>1, <1>3, <1>5, <1>6, <1>7

\* The same of one worker's queue among all.
LEMMA AppendQueued ==
  ASSUME NEW q \in [Lanes -> Seq(Items)], NEW l \in Lanes, NEW e \in Items, NEW h,
         NEW r, r = [q EXCEPT ![l] = Append(@, e)]
  PROVE  /\ e.handle # h /\ NoneQueued(q, h) => NoneQueued(r, h)
         /\ e.handle # h /\ OnceQueued(q, h) => OnceQueued(r, h)
         /\ e.handle = h /\ NoneQueued(q, h) => OnceQueued(r, h)
<1>2. r[l] = Append(q[l], e) /\ \A m \in Lanes \ {l} : r[m] = q[m]
  OBVIOUS
<1>3. /\ e.handle # h /\ NoneIn(q[l], h) => NoneIn(r[l], h)
      /\ e.handle # h /\ OnceIn(q[l], h) => OnceIn(r[l], h)
      /\ e.handle = h /\ NoneIn(q[l], h) => OnceIn(r[l], h)
  <2>1. q[l] \in Seq(Items)
    OBVIOUS
  <2> QED  BY <1>2, <2>1, AppendIn
<1>4. \A m \in Lanes \ {l} : NoneIn(r[m], h) = NoneIn(q[m], h) /\ OnceIn(r[m], h) = OnceIn(q[m], h)
  BY <1>2
<1> QED  BY <1>3, <1>4 DEF NoneQueued, OnceQueued

\* A worker takes the first item of its queue.
LEMMA TailQueued ==
  ASSUME NEW q \in [Lanes -> Seq(Items)], NEW l \in Lanes, q[l] # <<>>, NEW h,
         NEW r, r = [q EXCEPT ![l] = Tail(@)]
  PROVE  /\ NoneQueued(q, h) => NoneQueued(r, h) /\ Head(q[l]).handle # h
         /\ Head(q[l]).handle # h /\ OnceQueued(q, h) => OnceQueued(r, h)
         /\ Head(q[l]).handle = h /\ OnceQueued(q, h) => NoneQueued(r, h)
<1>2. r[l] = Tail(q[l]) /\ \A m \in Lanes \ {l} : r[m] = q[m]
  OBVIOUS
<1>3. /\ NoneIn(q[l], h) => NoneIn(r[l], h) /\ Head(q[l]).handle # h
      /\ Head(q[l]).handle # h /\ OnceIn(q[l], h) => OnceIn(r[l], h)
      /\ Head(q[l]).handle = h /\ OnceIn(q[l], h) => NoneIn(r[l], h)
  <2>1. q[l] \in Seq(Items)
    OBVIOUS
  <2> QED  BY <1>2, <2>1, TailIn
<1>4. \A m \in Lanes \ {l} : NoneIn(r[m], h) = NoneIn(q[m], h) /\ OnceIn(r[m], h) = OnceIn(q[m], h)
  BY <1>2
<1> QED  BY <1>3, <1>4 DEF NoneQueued, OnceQueued

-----------------------------------------------------------------------------
(* The dispatcher: what one of its steps is given and leaves. *)

Keys == {Shape[t] : t \in Tasks} \X Refs

\* What the dispatcher's steps are given and leave.  Its counters are bounded by the
\* handles given out (Paced).
Dispatchers ==
  [pool : [window : Seq(Entries), seen : Seq(Keys), gpu_next : Nat, cpu_next : Nat, active : 1..Len(GpuLanes)],
   queue : [Lanes -> Seq(Items)], lost : SUBSET Handles]

\* A handle's task is with no worker; or it is in one worker's queue, once, or went down
\* with a worker.
NoneOut(d, h) == NoneQueued(d.queue, h) /\ h \notin d.lost
OnceOut(d, h) ==
  \/ OnceQueued(d.queue, h) /\ h \notin d.lost
  \/ NoneQueued(d.queue, h) /\ h \in d.lost

\* An entry for a CPU worker names one.
Routed(e) == e \in Entries /\ (e.backend = "cpu" => e.slot \in 1..Len(CpuLanes))

\* A new key in the detector's memory leaves it in its bounds (CachedRefCache::observe).
LEMMA RememberTypes ==
  ASSUME NEW seen \in Seq(Keys), Len(seen) <= Memory, NEW key \in Keys
  PROVE  Remember(seen, key) \in Seq(Keys) /\ Len(Remember(seen, key)) <= Memory
<1>1. CASE key \in ToSet(seen)
  BY <1>1 DEF Remember
<1>2. CASE key \notin ToSet(seen) /\ Len(seen) < Memory
  BY <1>2, Sizes DEF Remember
<1>3. CASE key \notin ToSet(seen) /\ ~(Len(seen) < Memory)
  <2>1. seen # <<>> /\ Len(seen) = Memory
    BY <1>3, Sizes
  <2>2. Tail(seen) \in Seq(Keys) /\ Len(Tail(seen)) = Memory - 1
    BY <2>1
  <2>3. PICK t : t = Tail(seen)
    OBVIOUS
  <2>4. Append(t, key) \in Seq(Keys) /\ Len(Append(t, key)) = Memory
    BY <2>2, <2>3, Sizes
  <2> QED  BY <1>3, <2>3, <2>4 DEF Remember
<1> QED  BY <1>1, <1>2, <1>3

\* The lanes a counter points to.
LEMMA LanesKnown ==
  /\ \A i \in 1..Len(GpuLanes) : GpuLanes[i] \in Lanes
  /\ \A i \in 1..Len(CpuLanes) : CpuLanes[i] \in Lanes
  /\ Len(GpuLanes) \in Nat \ {0} /\ Len(CpuLanes) \in Nat \ {0}
<1>1. GpuLanes \in Seq(ToSet(GpuLanes)) /\ GpuLanes # <<>>
  BY LanesApart
<1>2. CpuLanes \in Seq(ToSet(CpuLanes)) /\ CpuLanes # <<>>
  BY LanesApart
<1>3. \A i \in 1..Len(GpuLanes) : GpuLanes[i] \in ToSet(GpuLanes)
  BY <1>1
<1>4. \A i \in 1..Len(CpuLanes) : CpuLanes[i] \in ToSet(CpuLanes)
  BY <1>2
<1>5. Len(GpuLanes) \in Nat \ {0}
  BY <1>1
<1>6. Len(CpuLanes) \in Nat \ {0}
  BY <1>2
<1> QED  BY <1>3, <1>4, <1>5, <1>6 DEF Lanes

\* One task goes to one worker's queue, or to a dead worker, where it is lost; only the
\* memory and a counter change besides (the loop of flush_pending_internal).
LEMMA DispatchOne ==
  ASSUME NEW d \in Dispatchers, Len(d.pool.seen) <= Memory, NEW e, Routed(e)
  PROVE  /\ Dispatch(d, e) \in Dispatchers /\ Len(Dispatch(d, e).pool.seen) <= Memory
         /\ Dispatch(d, e).pool.window = d.pool.window
         /\ Dispatch(d, e).pool.cpu_next = d.pool.cpu_next
         /\ Dispatch(d, e).pool.gpu_next \in {d.pool.gpu_next, d.pool.gpu_next + 1}
         /\ \/ /\ Dispatch(d, e).lost = d.lost
               /\ \E l \in Lanes, m \in Items :
                    /\ m.handle = e.handle /\ m.task = e.task
                    /\ Dispatch(d, e).queue = [d.queue EXCEPT ![l] = Append(@, m)]
            \/ Dispatch(d, e).queue = d.queue /\ Dispatch(d, e).lost = d.lost \cup {e.handle}
<1>1. PICK p : p = d.pool
  OBVIOUS
<1>2. PICK q : q = d.queue
  OBVIOUS
<1>3. /\ p \in [window : Seq(Entries), seen : Seq(Keys), gpu_next : Nat, cpu_next : Nat, active : 1..Len(GpuLanes)]
      /\ q \in [Lanes -> Seq(Items)] /\ Len(p.seen) <= Memory /\ d.lost \subseteq Handles
  BY <1>1, <1>2 DEF Dispatchers
<1>4. e \in Entries /\ e.handle \in Handles /\ e.task \in Tasks /\ e.backend \in Backends
  BY DEF Routed, Entries
<1>5. PICK key : key = <<Shape[e.task], Ref[e.task]>>
  OBVIOUS
<1>6. key \in Keys
  BY <1>4, <1>5 DEF Keys, Refs
<1>7. PICK m : m = [handle |-> e.handle, task |-> e.task, backend |-> e.backend, cached |-> key \in ToSet(p.seen)]
  OBVIOUS
<1>8. m \in Items /\ m.handle = e.handle /\ m.task = e.task
  BY <1>4, <1>7 DEF Items
<1>9. PICK l : l = IF e.backend = "cpu" THEN CpuLanes[e.slot] ELSE GpuLanes[(p.gpu_next % p.active) + 1]
  OBVIOUS
<1>10. l \in Lanes
  <2>1. CASE e.backend = "cpu"
    BY <1>9, <2>1, LanesKnown DEF Routed
  <2>2. CASE e.backend # "cpu"
    <3>1. p.gpu_next \in Int /\ p.active \in Int /\ p.active > 0 /\ p.active <= Len(GpuLanes)
      BY <1>3, LanesKnown
    <3>2. p.gpu_next % p.active \in 0..(p.active - 1)
      BY <3>1
    <3>3. (p.gpu_next % p.active) + 1 \in 1..Len(GpuLanes)
      BY <3>1, <3>2, LanesKnown
    <3> QED  BY <1>9, <2>2, <3>3, LanesKnown
  <2> QED  BY <2>1, <2>2
<1>11. PICK s : s = Remember(p.seen, key)
  OBVIOUS
<1>12. s \in Seq(Keys) /\ Len(s) <= Memory
  BY <1>3, <1>6, <1>11, RememberTypes
<1>13. PICK g : g = IF e.backend = "cpu" THEN p.gpu_next ELSE p.gpu_next + 1
  OBVIOUS
<1>14. g \in Nat /\ g \in {p.gpu_next, p.gpu_next + 1}
  BY <1>3, <1>13
<1>15. Dispatch(d, e) = [pool |-> [p EXCEPT !.seen = s, !.gpu_next = g],
                         queue |-> IF l \in dead THEN q ELSE [q EXCEPT ![l] = Append(@, m)],
                         lost |-> IF l \in dead THEN d.lost \cup {e.handle} ELSE d.lost]
  BY <1>1, <1>2, <1>5, <1>7, <1>9, <1>11, <1>13 DEF Dispatch
<1>16. PICK r, z : r = (IF l \in dead THEN q ELSE [q EXCEPT ![l] = Append(@, m)])
                   /\ z = IF l \in dead THEN d.lost \cup {e.handle} ELSE d.lost
  OBVIOUS
<1>17. r \in [Lanes -> Seq(Items)] /\ z \subseteq Handles
  <2>1. q[l] \in Seq(Items)
    BY <1>3, <1>10
  <2>2. Append(q[l], m) \in Seq(Items)
    BY <1>8, <2>1
  <2>3. r \in [Lanes -> Seq(Items)]
    BY <1>3, <1>16, <2>2
  <2> QED  BY <1>3, <1>4, <1>16, <2>3
<1>18. PICK o : o = [p EXCEPT !.seen = s, !.gpu_next = g]
  OBVIOUS
<1>19. /\ o \in [window : Seq(Entries), seen : Seq(Keys), gpu_next : Nat, cpu_next : Nat, active : 1..Len(GpuLanes)]
       /\ o.window = p.window /\ o.cpu_next = p.cpu_next /\ o.gpu_next = g /\ o.seen = s
  BY <1>3, <1>12, <1>14, <1>18
<1>20. Dispatch(d, e) = [pool |-> o, queue |-> r, lost |-> z]
  BY <1>15, <1>16, <1>18
<1>21. Dispatch(d, e) \in Dispatchers
  BY <1>17, <1>19, <1>20 DEF Dispatchers
<1>22. Dispatch(d, e).pool = o /\ Dispatch(d, e).queue = r /\ Dispatch(d, e).lost = z
  BY <1>20
<1>23. \/ Dispatch(d, e).lost = d.lost /\ Dispatch(d, e).queue = [d.queue EXCEPT ![l] = Append(@, m)]
       \/ Dispatch(d, e).queue = d.queue /\ Dispatch(d, e).lost = d.lost \cup {e.handle}
  BY <1>2, <1>16, <1>22
<1>24. /\ Len(Dispatch(d, e).pool.seen) <= Memory
       /\ Dispatch(d, e).pool.window = d.pool.window
       /\ Dispatch(d, e).pool.cpu_next = d.pool.cpu_next
       /\ Dispatch(d, e).pool.gpu_next \in {d.pool.gpu_next, d.pool.gpu_next + 1}
  BY <1>1, <1>12, <1>14, <1>19, <1>22
<1> QED  BY <1>8, <1>10, <1>21, <1>23, <1>24

-----------------------------------------------------------------------------
(* A flush: the entries of an order, dispatched one by one. *)

\* f gives the dispatcher after each of the first n entries.
Steps(d, order, f, n) == f = [k \in 0..n |-> IF k = 0 THEN d ELSE Dispatch(f[k - 1], order[k])]

\* There is such a function, for each n: a least n without one would follow one that has it.
LEMMA StepsExist ==
  ASSUME NEW d, NEW order, NEW n \in Nat
  PROVE  \E f : Steps(d, order, f, n)
<1> DEFINE Bad == {m \in Nat : ~ \E f : Steps(d, order, f, m)}
<1> SUFFICES ASSUME Bad # {} PROVE FALSE
  OBVIOUS
<1>1. PICK m \in Bad : \A k \in Bad : m <= k
  <2> HIDE DEF Bad
  <2>1. Bad \in SUBSET Nat
    BY DEF Bad
  <2> QED  BY <2>1, LeastNat
<1>2. CASE m = 0
  <2>1. PICK f : f = [k \in 0..0 |-> d]
    OBVIOUS
  <2>2. f = [k \in 0..0 |-> IF k = 0 THEN d ELSE Dispatch(f[k - 1], order[k])]
    BY <2>1
  <2> QED  BY <1>2, <2>2 DEF Steps
<1>3. CASE m # 0
  <2>1. m \in Nat /\ m - 1 \in Nat /\ m - 1 \notin Bad
    BY <1>1, <1>3
  <2>2. PICK f : Steps(d, order, f, m - 1)
    BY <2>1
  <2>3. PICK g : g = [k \in 0..m |-> IF k = 0 THEN d ELSE Dispatch(f[k - 1], order[k])]
    OBVIOUS
  <2>4. ASSUME NEW k \in 0..(m - 1) PROVE g[k] = f[k]
    <3>1. k \in 0..m
      BY <2>1
    <3>2. f[k] = IF k = 0 THEN d ELSE Dispatch(f[k - 1], order[k])
      BY <2>2 DEF Steps
    <3> QED  BY <2>3, <3>1, <3>2
  <2>5. ASSUME NEW k \in 0..m, k # 0 PROVE g[k - 1] = f[k - 1]
    <3>1. k - 1 \in 0..(m - 1)
      BY <2>1, <2>5
    <3> QED  BY <2>4, <3>1
  <2>6. g = [k \in 0..m |-> IF k = 0 THEN d ELSE Dispatch(g[k - 1], order[k])]
    BY <2>3, <2>5
  <2> QED  BY <2>6 DEF Steps
<1> QED  BY <1>2, <1>3

\* The model's recursive function is one.
LEMMA ServedSteps ==
  ASSUME NEW d, NEW order, Len(order) \in Nat
  PROVE  \E f : Steps(d, order, f, Len(order)) /\ Served(d, order) = f[Len(order)]
<1>1. PICK g : g = CHOOSE f : f = [n \in 0..Len(order) |-> IF n = 0 THEN d ELSE Dispatch(f[n - 1], order[n])]
  OBVIOUS
<1>2. \E f : f = [n \in 0..Len(order) |-> IF n = 0 THEN d ELSE Dispatch(f[n - 1], order[n])]
  <2>1. PICK f : Steps(d, order, f, Len(order))
    BY StepsExist
  <2>2. f = [n \in 0..Len(order) |-> IF n = 0 THEN d ELSE Dispatch(f[n - 1], order[n])]
    BY <2>1 DEF Steps
  <2> QED  BY <2>2
<1>3. g = [n \in 0..Len(order) |-> IF n = 0 THEN d ELSE Dispatch(g[n - 1], order[n])]
  BY <1>1, <1>2
<1>4. Served(d, order) = g[Len(order)]
  BY <1>1 DEF Served
<1> QED  BY <1>3, <1>4 DEF Steps

\* An order that can be dispatched: routed entries of distinct handles.
Servable(order, given) ==
  /\ Len(order) \in Nat
  /\ \A i \in 1..Len(order) : Routed(order[i])
  /\ \A i \in 1..Len(order) : order[i].handle \in DOMAIN given /\ order[i].task = given[order[i].handle]
  /\ \A i, k \in 1..Len(order) : i # k => order[i].handle # order[k].handle

\* What has become of dispatcher d when it is e, the first n entries of the order gone out.
ServedUpTo(d, e, order, given, n) ==
  /\ e \in Dispatchers /\ Len(e.pool.seen) <= Memory
  /\ e.pool.window = d.pool.window /\ e.pool.cpu_next = d.pool.cpu_next
  /\ e.pool.gpu_next <= d.pool.gpu_next + n
  /\ \A l \in Lanes : Rightly(e.queue[l], given)
  /\ e.lost \subseteq DOMAIN given
  /\ \A h : (\A i \in 1..n : order[i].handle # h) =>
       (NoneOut(d, h) => NoneOut(e, h)) /\ (OnceOut(d, h) => OnceOut(e, h))
  /\ \A i \in 1..n : NoneOut(d, order[i].handle) => OnceOut(e, order[i].handle)

\* What a dispatch leaves the workers.
Sent(d, g, e) ==
  \/ /\ g.lost = d.lost
     /\ \E l \in Lanes, m \in Items :
          /\ m.handle = e.handle /\ m.task = e.task
          /\ g.queue = [d.queue EXCEPT ![l] = Append(@, m)]
  \/ g.queue = d.queue /\ g.lost = d.lost \cup {e.handle}

\* The entry's task is out, once, and no other is touched.
LEMMA SentOut ==
  ASSUME NEW d \in Dispatchers, NEW g, NEW e, Sent(d, g, e), NEW h
  PROVE  /\ e.handle # h /\ NoneOut(d, h) => NoneOut(g, h)
         /\ e.handle # h /\ OnceOut(d, h) => OnceOut(g, h)
         /\ e.handle = h /\ NoneOut(d, h) => OnceOut(g, h)
<1>1. ASSUME g.lost = d.lost, NEW l \in Lanes, NEW m \in Items, m.handle = e.handle,
             g.queue = [d.queue EXCEPT ![l] = Append(@, m)]
      PROVE  /\ e.handle # h /\ NoneOut(d, h) => NoneOut(g, h)
             /\ e.handle # h /\ OnceOut(d, h) => OnceOut(g, h)
             /\ e.handle = h /\ NoneOut(d, h) => OnceOut(g, h)
  <2>1. PICK q : q = d.queue
    OBVIOUS
  <2>2. q \in [Lanes -> Seq(Items)] /\ g.queue = [q EXCEPT ![l] = Append(@, m)]
    BY <1>1, <2>1 DEF Dispatchers
  <2>3. /\ m.handle # h /\ NoneQueued(q, h) => NoneQueued(g.queue, h)
        /\ m.handle # h /\ OnceQueued(q, h) => OnceQueued(g.queue, h)
        /\ m.handle = h /\ NoneQueued(q, h) => OnceQueued(g.queue, h)
    BY <2>2, AppendQueued
  <2> QED  BY <1>1, <2>1, <2>3 DEF NoneOut, OnceOut
<1>2. CASE g.queue = d.queue /\ g.lost = d.lost \cup {e.handle}
  BY <1>2 DEF NoneOut, OnceOut
<1> QED  BY <1>1, <1>2 DEF Sent

\* One entry more.
LEMMA ServedOneMore ==
  ASSUME NEW d, NEW e, NEW order, NEW given, Servable(order, given),
         NEW n \in Nat, n + 1 <= Len(order), d \in Dispatchers, ServedUpTo(d, e, order, given, n)
  PROVE  ServedUpTo(d, Dispatch(e, order[n + 1]), order, given, n + 1)
<1>0. Len(order) \in Nat /\ n + 1 \in 1..Len(order) /\ \A i \in 1..n : i \in 1..Len(order) /\ i # n + 1
  BY DEF Servable
<1>1. PICK g : g = Dispatch(e, order[n + 1])
  OBVIOUS
<1>2. PICK x : x = order[n + 1]
  OBVIOUS
<1>3. /\ Routed(x) /\ x.handle \in DOMAIN given /\ x.task = given[x.handle]
      /\ \A i \in 1..n : order[i].handle # x.handle
  BY <1>0, <1>2 DEF Servable
<1>4. e \in Dispatchers /\ Len(e.pool.seen) <= Memory
  BY DEF ServedUpTo
<1>5. /\ g \in Dispatchers /\ Len(g.pool.seen) <= Memory
      /\ g.pool.window = e.pool.window /\ g.pool.cpu_next = e.pool.cpu_next
      /\ g.pool.gpu_next \in {e.pool.gpu_next, e.pool.gpu_next + 1}
      /\ Sent(e, g, x)
  <2>1. /\ Dispatch(e, x) \in Dispatchers /\ Len(Dispatch(e, x).pool.seen) <= Memory
        /\ Dispatch(e, x).pool.window = e.pool.window
        /\ Dispatch(e, x).pool.cpu_next = e.pool.cpu_next
        /\ Dispatch(e, x).pool.gpu_next \in {e.pool.gpu_next, e.pool.gpu_next + 1}
        /\ Sent(e, Dispatch(e, x), x)
    BY <1>3, <1>4, DispatchOne DEF Sent
  <2>2. g = Dispatch(e, x)
    BY <1>1, <1>2
  <2> QED  BY <2>1, <2>2
<1>8. ASSUME NEW h
      PROVE  /\ x.handle # h /\ NoneOut(e, h) => NoneOut(g, h)
             /\ x.handle # h /\ OnceOut(e, h) => OnceOut(g, h)
             /\ x.handle = h /\ NoneOut(e, h) => OnceOut(g, h)
  BY <1>4, <1>5, SentOut
<1>7. e.queue \in [Lanes -> Seq(Items)]
  BY <1>4 DEF Dispatchers
<1>9. \A k \in Lanes : Rightly(g.queue[k], given)
  <2>1. ASSUME NEW l \in Lanes, NEW m \in Items, m.handle = x.handle, m.task = x.task,
               g.queue = [e.queue EXCEPT ![l] = Append(@, m)]
        PROVE  \A k \in Lanes : Rightly(g.queue[k], given)
    <3>1. \A k \in Lanes \ {l} : g.queue[k] = e.queue[k]
      BY <1>7, <2>1
    <3>2. g.queue[l] = Append(e.queue[l], m) /\ e.queue[l] \in Seq(Items)
      BY <1>7, <2>1
    <3>3. PICK s \in Seq(Items) : s = e.queue[l]
      BY <3>2
    <3>4. /\ DOMAIN g.queue[l] = 1..(Len(s) + 1) /\ DOMAIN s = 1..Len(s) /\ Len(s) \in Nat
          /\ \A i \in DOMAIN s : g.queue[l][i] = s[i]
          /\ g.queue[l][Len(s) + 1] = m
      BY <3>2, <3>3
    <3>5. Rightly(s, given)
      BY <3>3 DEF ServedUpTo
    <3>6. PICK r : r = g.queue[l]
      OBVIOUS
    <3>7. ASSUME NEW i \in DOMAIN r PROVE r[i].handle \in DOMAIN given /\ r[i].task = given[r[i].handle]
      <4>1. CASE i \in DOMAIN s
        BY <3>4, <3>5, <3>6, <4>1 DEF Rightly
      <4>2. CASE i = Len(s) + 1
        BY <1>3, <2>1, <3>4, <3>6, <4>2
      <4> QED  BY <3>4, <3>6, <3>7, <4>1, <4>2
    <3>8. Rightly(g.queue[l], given)
      BY <3>6, <3>7 DEF Rightly
    <3> QED  BY <3>1, <3>8 DEF ServedUpTo
  <2>2. CASE g.queue = e.queue
    BY <2>2 DEF ServedUpTo
  <2> QED  BY <1>5, <2>1, <2>2 DEF Sent
<1>10. ASSUME NEW h, \A i \in 1..(n + 1) : order[i].handle # h
       PROVE  (NoneOut(d, h) => NoneOut(g, h)) /\ (OnceOut(d, h) => OnceOut(g, h))
  <2>1. x.handle # h /\ \A i \in 1..n : order[i].handle # h
    BY <1>0, <1>2, <1>10
  <2> QED  BY <1>8, <2>1 DEF ServedUpTo
<1>11. ASSUME NEW i \in 1..(n + 1), NoneOut(d, order[i].handle)
       PROVE  OnceOut(g, order[i].handle)
  <2>1. CASE i \in 1..n
    <3>1. OnceOut(e, order[i].handle) /\ order[i].handle # x.handle
      BY <1>3, <1>11, <2>1 DEF ServedUpTo
    <3> QED  BY <1>8, <3>1
  <2>2. CASE i = n + 1
    <3>1. NoneOut(e, x.handle)
      BY <1>2, <1>3, <1>11, <2>2 DEF ServedUpTo
    <3> QED  BY <1>2, <1>8, <2>2, <3>1
  <2> QED  BY <2>1, <2>2
<1>12. g.pool.gpu_next <= d.pool.gpu_next + (n + 1)
  <2>1. e.pool.gpu_next \in Nat /\ d.pool.gpu_next \in Nat /\ e.pool.gpu_next <= d.pool.gpu_next + n
    BY <1>4 DEF ServedUpTo, Dispatchers
  <2> QED  BY <1>5, <2>1
<1>13. g.pool.window = d.pool.window /\ g.pool.cpu_next = d.pool.cpu_next
  BY <1>5 DEF ServedUpTo
<1>14. g.lost \subseteq DOMAIN given
  BY <1>3, <1>5 DEF Sent, ServedUpTo
<1>15. ServedUpTo(d, g, order, given, n + 1)
  BY <1>5, <1>9, <1>10, <1>11, <1>12, <1>13, <1>14 DEF ServedUpTo
<1> QED  BY <1>1, <1>15

\* The whole order, by the least k for which it fails.
LEMMA ServedAll ==
  ASSUME NEW d \in Dispatchers, NEW order, NEW given, Servable(order, given),
         Len(d.pool.seen) <= Memory, \A l \in Lanes : Rightly(d.queue[l], given), d.lost \subseteq DOMAIN given
  PROVE  ServedUpTo(d, Served(d, order), order, given, Len(order))
<1>1. PICK n \in Nat : n = Len(order)
  BY DEF Servable
<1>2. PICK f : Steps(d, order, f, n) /\ Served(d, order) = f[n]
  BY <1>1, ServedSteps
<1>3. f = [k \in 0..n |-> IF k = 0 THEN d ELSE Dispatch(f[k - 1], order[k])]
  BY <1>2 DEF Steps
<1>4. f[0] = d /\ \A k \in 1..n : f[k] = Dispatch(f[k - 1], order[k])
  <2>1. \A k \in 0..n : f[k] = IF k = 0 THEN d ELSE Dispatch(f[k - 1], order[k])
    BY <1>3
  <2> QED  BY <2>1
<1> DEFINE Bad == {k \in Nat : k <= n /\ ~ServedUpTo(d, f[k], order, given, k)}
<1>5. Bad = {}
  <2> SUFFICES ASSUME Bad # {} PROVE FALSE
    OBVIOUS
  <2>1. PICK m \in Bad : \A k \in Bad : m <= k
    <3> HIDE DEF Bad
    <3>1. Bad \in SUBSET Nat
      BY DEF Bad
    <3> QED  BY <3>1, LeastNat
  <2>2. CASE m = 0
    <3>1. d.pool.gpu_next \in Nat
      BY DEF Dispatchers
    <3>2. d.pool.gpu_next <= d.pool.gpu_next + 0 /\ 1..0 = {}
      BY <3>1
    <3>3. ServedUpTo(d, d, order, given, 0)
      BY <3>2 DEF ServedUpTo
    <3> QED  BY <1>4, <2>1, <2>2, <3>3
  <2>3. CASE m # 0
    <3>1. m - 1 \in Nat /\ m - 1 <= n /\ m - 1 \notin Bad /\ m \in 1..n /\ (m - 1) + 1 = m
      BY <1>1, <2>1, <2>3
    <3>2. ServedUpTo(d, f[m - 1], order, given, m - 1)
      BY <3>1
    <3>3. PICK j \in Nat : j = m - 1 /\ j + 1 = m /\ j + 1 <= Len(order)
      BY <1>1, <3>1
    <3>4. PICK e : e = f[m - 1]
      OBVIOUS
    <3>5. ServedUpTo(d, e, order, given, j)
      BY <3>2, <3>3, <3>4
    <3>6. ServedUpTo(d, Dispatch(e, order[j + 1]), order, given, j + 1)
      BY <3>3, <3>5, ServedOneMore
    <3>7. f[m] = Dispatch(e, order[j + 1])
      BY <1>4, <3>1, <3>3, <3>4
    <3> QED  BY <2>1, <3>3, <3>6, <3>7
  <2> QED  BY <2>2, <2>3
<1>6. n \notin Bad
  BY <1>5
<1> QED  BY <1>1, <1>2, <1>6

\* A window whose entries are routed, as given out, and of distinct handles.
Windows(w, given) ==
  /\ w \in Seq(Entries)
  /\ \A i \in DOMAIN w : Routed(w[i])
  /\ Rightly(w, given)
  /\ \A i, k \in DOMAIN w : w[i].handle = w[k].handle => i = k

\* An order of a window has just the window's entries (the sort of flush_pending_internal).
LEMMA OrdersServable ==
  ASSUME NEW w, NEW given, Windows(w, given), NEW o \in Orders(w)
  PROVE  /\ Servable(o, given) /\ Len(o) = Len(w)
         /\ \A i \in 1..Len(o) : \E k \in DOMAIN w : o[i] = w[k]
         /\ \A k \in DOMAIN w : \E i \in 1..Len(o) : o[i] = w[k]
<1>1. PICK n \in Nat : n = Len(w) /\ DOMAIN w = 1..n
  BY DEF Windows
<1>2. ToSet(w) = {w[k] : k \in DOMAIN w}
  BY DEF ToSet
<1>3. /\ o \in [1..n -> ToSet(w)] /\ ToSet(w) \subseteq ToSet(o)
      /\ \A i, k \in 1..n : i < k => \/ o[i].task < o[k].task
                                     \/ o[i].task = o[k].task /\ o[i].handle < o[k].handle
  BY <1>1 DEF Orders
<1>4. ToSet(o) = {o[k] : k \in 1..n}
  BY <1>3 DEF ToSet
<1>5. Len(o) = n
  <2>1. o \in Seq(ToSet(w))
    BY <1>1, <1>3
  <2> QED  BY <1>1, <1>3, <2>1
<1>6. ASSUME NEW i \in 1..n PROVE \E k \in DOMAIN w : o[i] = w[k]
  <2>1. o[i] \in ToSet(w)
    BY <1>3
  <2> QED  BY <1>2, <2>1
<1>7. ASSUME NEW k \in DOMAIN w PROVE \E i \in 1..n : o[i] = w[k]
  <2>1. w[k] \in ToSet(w)
    BY <1>2
  <2>2. w[k] \in ToSet(o)
    BY <1>3, <2>1
  <2> QED  BY <1>4, <2>2
<1>8. ASSUME NEW i \in 1..n
      PROVE  Routed(o[i]) /\ o[i].handle \in DOMAIN given /\ o[i].task = given[o[i].handle]
  <2>1. PICK k \in DOMAIN w : o[i] = w[k]
    BY <1>6
  <2> QED  BY <2>1 DEF Windows, Rightly
<1>9. ASSUME NEW i \in 1..n, NEW k \in 1..n, i < k PROVE o[i].handle # o[k].handle
  <2> SUFFICES ASSUME o[i].handle = o[k].handle PROVE FALSE
    OBVIOUS
  <2>1. PICK a \in DOMAIN w : o[i] = w[a]
    BY <1>6
  <2>2. PICK b \in DOMAIN w : o[k] = w[b]
    BY <1>6
  <2>3. o[i] = o[k]
    BY <2>1, <2>2 DEF Windows
  <2>4. o[i] \in Entries
    BY <2>1 DEF Windows, Routed
  <2>5. o[i].task \in Int /\ o[i].handle \in Int
    BY <2>4 DEF Entries, Tasks, Handles
  <2> QED  BY <1>3, <1>9, <2>3, <2>5
<1>10. ASSUME NEW i \in 1..n, NEW k \in 1..n, i # k PROVE o[i].handle # o[k].handle
  <2>1. i < k \/ k < i
    BY <1>1, <1>10
  <2> QED  BY <1>9, <2>1
<1>11. Servable(o, given)
  BY <1>1, <1>5, <1>8, <1>10 DEF Servable
<1> QED  BY <1>1, <1>5, <1>6, <1>7, <1>11

-----------------------------------------------------------------------------
(* The dispatcher and the handles given out. *)

\* The dispatcher holds only tasks given out, each at most once in its window, and its
\* counters are paced by the handles.
Sound(d, given) ==
  /\ d \in Dispatchers /\ Len(d.pool.seen) <= Memory
  /\ d.pool.gpu_next + Len(d.pool.window) <= Len(given) /\ d.pool.cpu_next <= Len(given)
  /\ Windows(d.pool.window, given)
  /\ \A l \in Lanes : Rightly(d.queue[l], given)
  /\ d.lost \subseteq DOMAIN given

\* A handle's task is with the dispatcher or its workers, once; or it is not there.
Held(d, h) ==
  \/ OnceIn(d.pool.window, h) /\ NoneOut(d, h)
  \/ NoneIn(d.pool.window, h) /\ OnceOut(d, h)
Gone(d, h) == NoneIn(d.pool.window, h) /\ NoneOut(d, h)

\* A flush empties the window into the queues and loses or doubles nothing
\* (flush_pending_internal).
LEMMA FlushKeeps ==
  ASSUME NEW d, NEW given, Len(given) \in Nat, Sound(d, given), NEW e \in Flushed(d)
  PROVE  /\ Sound(e, given) /\ e.pool.window = <<>>
         /\ \A h : (Held(d, h) => Held(e, h)) /\ (Gone(d, h) => Gone(e, h))
<1>1. PICK w : w = d.pool.window
  OBVIOUS
<1>2. PICK o \in Orders(w) : e = Served([d EXCEPT !.pool.window = <<>>], o)
  BY <1>1 DEF Flushed
<1>3. PICK c : c = [d EXCEPT !.pool.window = <<>>]
  OBVIOUS
<1>4. d \in Dispatchers
  BY DEF Sound
<1>5. PICK p : p = d.pool
  OBVIOUS
<1>6. p \in [window : Seq(Entries), seen : Seq(Keys), gpu_next : Nat, cpu_next : Nat, active : 1..Len(GpuLanes)]
  BY <1>4, <1>5 DEF Dispatchers
<1>7. c = [d EXCEPT !.pool = [p EXCEPT !.window = <<>>]]
  BY <1>3, <1>5
<1>8. PICK r : r = [p EXCEPT !.window = <<>>]
  OBVIOUS
<1>9. /\ r \in [window : Seq(Entries), seen : Seq(Keys), gpu_next : Nat, cpu_next : Nat, active : 1..Len(GpuLanes)]
      /\ r.window = <<>> /\ r.seen = p.seen /\ r.gpu_next = p.gpu_next /\ r.cpu_next = p.cpu_next
  <2>1. <<>> \in Seq(Entries)
    OBVIOUS
  <2> QED  BY <1>6, <1>8, <2>1
<1>10. c = [d EXCEPT !.pool = r]
  BY <1>7, <1>8
<1>11. c \in Dispatchers /\ c.pool = r /\ c.queue = d.queue /\ c.lost = d.lost
  BY <1>4, <1>9, <1>10 DEF Dispatchers
<1>12. Windows(w, given)
  BY <1>1 DEF Sound
<1>13. /\ Servable(o, given) /\ Len(o) = Len(w)
       /\ \A i \in 1..Len(o) : \E k \in DOMAIN w : o[i] = w[k]
       /\ \A k \in DOMAIN w : \E i \in 1..Len(o) : o[i] = w[k]
  BY <1>12, OrdersServable
<1>14. /\ Len(c.pool.seen) <= Memory /\ c.lost \subseteq DOMAIN given
       /\ \A l \in Lanes : Rightly(c.queue[l], given)
  BY <1>5, <1>9, <1>11 DEF Sound
<1>15. ServedUpTo(c, e, o, given, Len(o))
  <2>1. e = Served(c, o)
    BY <1>2, <1>3
  <2> QED  BY <1>11, <1>13, <1>14, <2>1, ServedAll
<1>16. e \in Dispatchers /\ Len(e.pool.seen) <= Memory /\ e.pool.window = <<>>
  BY <1>9, <1>11, <1>15 DEF ServedUpTo
<1>17. e.pool.gpu_next + Len(e.pool.window) <= Len(given) /\ e.pool.cpu_next <= Len(given)
  <2>1. e.pool.gpu_next <= p.gpu_next + Len(w) /\ e.pool.cpu_next = p.cpu_next
    BY <1>9, <1>11, <1>13, <1>15 DEF ServedUpTo
  <2>2. p.gpu_next + Len(w) <= Len(given) /\ p.cpu_next <= Len(given)
    BY <1>1, <1>5 DEF Sound
  <2>3. e.pool.gpu_next \in Nat /\ Len(e.pool.window) = 0
    BY <1>16 DEF Dispatchers
  <2>4. p.gpu_next \in Nat /\ Len(w) \in Nat
    BY <1>1, <1>5, <1>6
  <2> QED  BY <2>1, <2>2, <2>3, <2>4
<1>18. Windows(e.pool.window, given)
  <2>1. <<>> \in Seq(Entries) /\ DOMAIN <<>> = {}
    OBVIOUS
  <2>2. Windows(<<>>, given)
    BY <2>1 DEF Windows, Rightly
  <2> QED  BY <1>16, <2>2
<1>19. Sound(e, given)
  <2>1. e.lost \subseteq DOMAIN given /\ \A l \in Lanes : Rightly(e.queue[l], given)
    BY <1>15 DEF ServedUpTo
  <2> QED  BY <1>16, <1>17, <1>18, <2>1 DEF Sound
<1>20. ASSUME NEW h PROVE NoneIn(e.pool.window, h)
  <2>1. NoneIn(<<>>, h)
    BY DEF NoneIn
  <2> QED  BY <1>16, <2>1
<1>21. ASSUME NEW h, NoneIn(w, h)
       PROVE  (NoneOut(d, h) => NoneOut(e, h)) /\ (OnceOut(d, h) => OnceOut(e, h))
  <2>1. \A i \in 1..Len(o) : o[i].handle # h
    BY <1>13, <1>21 DEF NoneIn
  <2>2. (NoneOut(c, h) => NoneOut(e, h)) /\ (OnceOut(c, h) => OnceOut(e, h))
    BY <1>15, <2>1 DEF ServedUpTo
  <2> QED  BY <1>11, <2>2 DEF NoneOut, OnceOut
<1>22. ASSUME NEW h, OnceIn(w, h), NoneOut(d, h) PROVE OnceOut(e, h)
  <2>1. PICK k \in DOMAIN w : w[k].handle = h
    BY <1>22 DEF OnceIn
  <2>2. PICK i \in 1..Len(o) : o[i] = w[k]
    BY <1>13
  <2>3. o[i].handle = h
    BY <2>1, <2>2
  <2>4. NoneOut(c, h)
    BY <1>11, <1>22 DEF NoneOut
  <2> QED  BY <1>15, <2>3, <2>4 DEF ServedUpTo
<1>23. ASSUME NEW h PROVE (Held(d, h) => Held(e, h)) /\ (Gone(d, h) => Gone(e, h))
  BY <1>1, <1>20, <1>21, <1>22 DEF Held, Gone
<1> QED  BY <1>16, <1>19, <1>23

\* Whatever the window's age, nothing is lost or doubled (drain_stale_window).
LEMMA AgedKeeps ==
  ASSUME NEW d, NEW given, Len(given) \in Nat, Sound(d, given), NEW e \in AgedOrNot(d) \cup BeforeBlocking(d)
  PROVE  /\ Sound(e, given) /\ e.pool.window \in {<<>>, d.pool.window}
         /\ \A h : (Held(d, h) => Held(e, h)) /\ (Gone(d, h) => Gone(e, h))
<1>1. e = d \/ e \in Flushed(d)
  BY DEF AgedOrNot, BeforeBlocking
<1> QED  BY <1>1, FlushKeeps

\* A handle not given out yet is nowhere in the dispatcher.
LEMMA NewGone ==
  ASSUME NEW d, NEW given, Sound(d, given), NEW h, h \notin DOMAIN given
  PROVE  Gone(d, h)
BY DEF Sound, Windows, Rightly, Gone, NoneIn, NoneOut, NoneQueued

\* A submission adds its own task, once (submit).
LEMMA SubmitKeeps ==
  ASSUME NEW d, NEW given \in Seq(Tasks), Len(given) < MaxHandles, Sound(d, given), Len(d.pool.window) < Window,
         NEW t \in Tasks, NEW b \in Offers[t], NEW e \in Submitted(d, Len(given) + 1, t, b)
  PROVE  /\ Sound(e, Append(given, t)) /\ Len(e.pool.window) < Window
         /\ Held(e, Len(given) + 1)
         /\ \A h : h # Len(given) + 1 => (Held(d, h) => Held(e, h)) /\ (Gone(d, h) => Gone(e, h))
<1>1. PICK n \in Nat : n = Len(given) + 1
  OBVIOUS
<1>2. PICK g : g = Append(given, t)
  OBVIOUS
<1>3. /\ Len(given) \in Nat /\ DOMAIN given = 1..Len(given) /\ n \in Handles /\ n \notin DOMAIN given
      /\ g \in Seq(Tasks) /\ Len(g) = n /\ DOMAIN g = DOMAIN given \cup {n}
      /\ g[n] = t /\ \A k \in DOMAIN given : g[k] = given[k]
  BY <1>1, <1>2, Sizes DEF Handles
<1>4. PICK p : p = d.pool
  OBVIOUS
<1>5. PICK w : w = d.pool.window
  OBVIOUS
<1>6. /\ d \in Dispatchers
      /\ p \in [window : Seq(Entries), seen : Seq(Keys), gpu_next : Nat, cpu_next : Nat, active : 1..Len(GpuLanes)]
      /\ w = p.window /\ Windows(w, given) /\ w \in Seq(Entries)
      /\ p.gpu_next + Len(w) <= Len(given) /\ p.cpu_next <= Len(given)
      /\ Len(p.seen) <= Memory
  BY <1>4, <1>5 DEF Sound, Dispatchers, Windows
<1>7. PICK s : s = IF b = "cpu" THEN (p.cpu_next % Len(CpuLanes)) + 1 ELSE 0
  OBVIOUS
<1>8. s \in 0..Len(CpuLanes) /\ (b = "cpu" => s \in 1..Len(CpuLanes))
  <2>1. PICK k \in Nat : k = Len(CpuLanes) /\ k > 0
    BY LanesKnown
  <2>2. p.cpu_next \in Nat
    BY <1>6
  <2>3. p.cpu_next % k \in 0..(k - 1)
    BY <2>1, <2>2
  <2> QED  BY <1>7, <2>1, <2>3
<1>9. PICK x : x = [handle |-> n, task |-> t, backend |-> b, slot |-> s]
  OBVIOUS
<1>10. x \in Entries /\ Routed(x) /\ x.handle = n /\ x.task = t
  <2>1. b \in Backends
    BY DEF Backends
  <2>2. x \in Entries
    BY <1>3, <1>8, <1>9, <2>1 DEF Entries
  <2> QED  BY <1>8, <1>9, <2>2 DEF Routed
<1>11. PICK c : c = IF b = "cpu" THEN p.cpu_next + 1 ELSE p.cpu_next
  OBVIOUS
<1>12. PICK v : v = Append(w, x)
  OBVIOUS
<1>13. /\ v \in Seq(Entries) /\ Len(v) = Len(w) + 1 /\ Len(w) \in Nat
       /\ DOMAIN w = 1..Len(w) /\ DOMAIN v = 1..(Len(w) + 1)
       /\ v[Len(w) + 1] = x /\ \A i \in 1..Len(w) : v[i] = w[i]
  BY <1>6, <1>10, <1>12
<1>14. PICK r : r = [p EXCEPT !.window = v, !.cpu_next = c]
  OBVIOUS
<1>15. /\ r \in [window : Seq(Entries), seen : Seq(Keys), gpu_next : Nat, cpu_next : Nat, active : 1..Len(GpuLanes)]
       /\ r.window = v /\ r.seen = p.seen /\ r.gpu_next = p.gpu_next /\ r.cpu_next = c
  <2>1. c \in Nat
    <3>1. p.cpu_next \in Nat
      BY <1>6
    <3> QED  BY <1>11, <3>1
  <2>2. v \in Seq(Entries)
    BY <1>13
  <2> QED  BY <1>6, <1>14, <2>1, <2>2
<1>16. PICK a : a = [d EXCEPT !.pool = r]
  OBVIOUS
<1>17. a \in Dispatchers /\ a.pool = r /\ a.queue = d.queue /\ a.lost = d.lost
  BY <1>6, <1>15, <1>16 DEF Dispatchers
<1>18. Windows(v, g)
  <2>1. ASSUME NEW i \in DOMAIN v
        PROVE  Routed(v[i]) /\ v[i].handle \in DOMAIN g /\ v[i].task = g[v[i].handle]
    <3>1. CASE i \in DOMAIN w
      <4>1. v[i] = w[i]
        BY <1>13, <3>1
      <4>2. Routed(w[i]) /\ w[i].handle \in DOMAIN given /\ w[i].task = given[w[i].handle]
        BY <1>6, <3>1 DEF Windows, Rightly
      <4> QED  BY <1>3, <4>1, <4>2
    <3>2. CASE i = Len(w) + 1
      BY <1>3, <1>10, <1>13, <3>2
    <3> QED  BY <1>13, <2>1, <3>1, <3>2
  <2>2. ASSUME NEW i \in DOMAIN v, NEW k \in DOMAIN v, v[i].handle = v[k].handle PROVE i = k
    <3>1. \A m \in DOMAIN w : w[m].handle # n /\ v[m] = w[m]
      BY <1>3, <1>6, <1>13 DEF Windows, Rightly
    <3>2. i \in DOMAIN w \/ i = Len(w) + 1
      BY <1>13
    <3>3. k \in DOMAIN w \/ k = Len(w) + 1
      BY <1>13
    <3>4. i \in DOMAIN w /\ k \in DOMAIN w => i = k
      BY <1>6, <2>2, <3>1 DEF Windows
    <3> QED  BY <1>10, <1>13, <2>2, <3>1, <3>2, <3>3, <3>4
  <2> QED  BY <1>13, <2>1, <2>2 DEF Windows, Rightly
<1>19. Sound(a, g)
  <2>1. a.pool.gpu_next + Len(a.pool.window) <= Len(g)
    <3>1. p.gpu_next \in Nat
      BY <1>6
    <3>2. a.pool.gpu_next = p.gpu_next /\ Len(a.pool.window) = Len(w) + 1 /\ Len(g) = Len(given) + 1
      BY <1>1, <1>3, <1>13, <1>15, <1>17
    <3> QED  BY <1>3, <1>6, <1>13, <3>1, <3>2
  <2>2. a.pool.cpu_next <= Len(g)
    <3>1. p.cpu_next \in Nat
      BY <1>6
    <3>2. a.pool.cpu_next = c /\ Len(g) = Len(given) + 1
      BY <1>1, <1>3, <1>15, <1>17
    <3> QED  BY <1>3, <1>6, <1>11, <3>1, <3>2
  <2>3. ASSUME NEW l \in Lanes PROVE Rightly(a.queue[l], g)
    <3>1. Rightly(d.queue[l], given)
      BY DEF Sound
    <3> QED  BY <1>3, <1>17, <3>1 DEF Rightly
  <2>4. a.lost \subseteq DOMAIN g
    BY <1>3, <1>17 DEF Sound
  <2> QED  BY <1>6, <1>15, <1>17, <1>18, <2>1, <2>2, <2>3, <2>4 DEF Sound
<1>20. Gone(d, n)
  BY <1>3, NewGone
<1>21. ASSUME NEW h
       PROVE  /\ n # h /\ NoneIn(w, h) => NoneIn(v, h)
              /\ n # h /\ OnceIn(w, h) => OnceIn(v, h)
              /\ n = h /\ NoneIn(w, h) => OnceIn(v, h)
  BY <1>6, <1>10, <1>12, AppendIn
<1>22. Held(a, n)
  BY <1>5, <1>15, <1>17, <1>20, <1>21 DEF Held, Gone, NoneOut
<1>23. ASSUME NEW h, h # n PROVE (Held(d, h) => Held(a, h)) /\ (Gone(d, h) => Gone(a, h))
  BY <1>5, <1>15, <1>17, <1>21, <1>23 DEF Held, Gone, NoneOut, OnceOut
<1>24. e \in IF Len(v) >= Window THEN Flushed(a) ELSE AgedOrNot(a)
  <2>1. Submitted(d, n, t, b) = IF Len(r.window) >= Window THEN Flushed(a) ELSE AgedOrNot(a)
    BY <1>4, <1>5, <1>7, <1>9, <1>11, <1>12, <1>14, <1>16, <1>6 DEF Submitted
  <2> QED  BY <1>1, <1>15, <2>1
<1>25. Len(g) \in Nat
  BY <1>3
<1>26. CASE Len(v) >= Window
  <2>1. e \in Flushed(a)
    BY <1>24, <1>26
  <2>2. /\ Sound(e, g) /\ e.pool.window = <<>>
        /\ \A h : (Held(a, h) => Held(e, h)) /\ (Gone(a, h) => Gone(e, h))
    BY <1>19, <1>25, <2>1, FlushKeeps
  <2>3. Len(e.pool.window) < Window
    BY <2>2, Sizes
  <2> QED  BY <1>1, <1>2, <1>22, <1>23, <2>2, <2>3
<1>27. CASE ~(Len(v) >= Window)
  <2>1. e \in AgedOrNot(a) \cup BeforeBlocking(a)
    BY <1>24, <1>27
  <2>2. /\ Sound(e, g) /\ e.pool.window \in {<<>>, a.pool.window}
        /\ \A h : (Held(a, h) => Held(e, h)) /\ (Gone(a, h) => Gone(e, h))
    BY <1>19, <1>25, <2>1, AgedKeeps
  <2>3. a.pool.window = v
    BY <1>15, <1>17
  <2>4. Len(e.pool.window) < Window
    BY <1>13, <1>27, <2>2, <2>3, Sizes
  <2> QED  BY <1>1, <1>2, <1>22, <1>23, <2>2, <2>4
<1> QED  BY <1>26, <1>27

-----------------------------------------------------------------------------
(* The invariant: the dispatcher, the handles given out, the open handles'   *)
(* slots and the channel belong together.                                    *)

\* A slot whose result is out.
Waits(slots, h) == h \in DOMAIN slots /\ slots[h] = Waiting

\* A task that is out is with the dispatcher, once, or its answer is on the channel,
\* once; any other is in neither.
Apart(d, slots, answers) ==
  \A h \in Handles :
    /\ Waits(slots, h) => \/ Held(d, h) /\ NoneIn(answers, h)
                          \/ Gone(d, h) /\ OnceIn(answers, h)
    /\ ~Waits(slots, h) => Gone(d, h) /\ NoneIn(answers, h)

\* A slot that is open was given out; a result in it is the handle's own.
OwnResults(given, slots) ==
  /\ DOMAIN slots \subseteq 1..Len(given)
  /\ \A h \in DOMAIN slots :
       slots[h] # Waiting => slots[h] \in Answers /\ slots[h].handle = h /\ slots[h].task = given[h]

Accounts(d, given, slots, answers) ==
  /\ given \in Seq(Tasks) /\ Len(given) <= MaxHandles
  /\ Sound(d, given) /\ Len(d.pool.window) < Window
  /\ answers \in Seq(Answers) /\ Rightly(answers, given)
  /\ OwnResults(given, slots)
  /\ Apart(d, slots, answers)

\* A dispatcher that keeps what it held, and nothing else.
Keeps(d, e, given) ==
  /\ Sound(e, given) /\ Len(e.pool.window) < Window
  /\ \A h : (Held(d, h) => Held(e, h)) /\ (Gone(d, h) => Gone(e, h))

\* Flushing, or not, leaves the accounts right.
LEMMA FlushAccounts ==
  ASSUME NEW d, NEW given, NEW slots, NEW answers, Accounts(d, given, slots, answers),
         NEW e \in Flushed(d) \cup AgedOrNot(d) \cup BeforeBlocking(d)
  PROVE  Accounts(e, given, slots, answers)
<1>1. Sound(d, given) /\ Len(given) \in Nat /\ Len(d.pool.window) < Window
  BY DEF Accounts
<1>2. Keeps(d, e, given)
  <2>1. CASE e \in Flushed(d)
    <3>1. Len(<<>>) < Window
      BY Sizes
    <3>2. /\ Sound(e, given) /\ e.pool.window = <<>>
          /\ \A h : (Held(d, h) => Held(e, h)) /\ (Gone(d, h) => Gone(e, h))
      BY <1>1, <2>1, FlushKeeps
    <3> QED  BY <3>1, <3>2 DEF Keeps
  <2>2. CASE e \in AgedOrNot(d) \cup BeforeBlocking(d)
    <3>1. Len(<<>>) < Window
      BY Sizes
    <3>2. /\ Sound(e, given) /\ e.pool.window \in {<<>>, d.pool.window}
          /\ \A h : (Held(d, h) => Held(e, h)) /\ (Gone(d, h) => Gone(e, h))
      BY <1>1, <2>2, AgedKeeps
    <3> QED  BY <1>1, <3>1, <3>2 DEF Keeps
  <2> QED  BY <2>1, <2>2
<1>3. Apart(e, slots, answers)
  <2>1. Apart(d, slots, answers)
    BY DEF Accounts
  <2> QED  BY <1>2, <2>1 DEF Apart, Keeps
<1> QED  BY <1>2, <1>3 DEF Accounts, Keeps

\* A submission opens one slot, for its own task.
LEMMA SubmitAccounts ==
  ASSUME NEW d, NEW given, NEW slots, NEW answers, Accounts(d, given, slots, answers),
         Len(given) < MaxHandles, NEW t \in Tasks, NEW b \in Offers[t],
         NEW e \in Submitted(d, Len(given) + 1, t, b)
  PROVE  Accounts(e, Append(given, t), Opened(slots, {Len(given) + 1}), answers)
<1>1. /\ given \in Seq(Tasks) /\ Sound(d, given) /\ Len(d.pool.window) < Window
      /\ Len(given) \in Nat /\ DOMAIN given = 1..Len(given)
  BY DEF Accounts
<1>2. PICK n \in Nat : n = Len(given) + 1
  BY <1>1
<1>3. PICK g : g = Append(given, t)
  OBVIOUS
<1>4. /\ g \in Seq(Tasks) /\ Len(g) = n /\ DOMAIN g = 1..n /\ n \in Handles /\ n \notin DOMAIN given
      /\ g[n] = t /\ \A k \in DOMAIN given : g[k] = given[k] /\ k \in DOMAIN g
  BY <1>1, <1>2, <1>3, Sizes DEF Handles
<1>5. /\ Sound(e, g) /\ Len(e.pool.window) < Window /\ Held(e, n)
      /\ \A h : h # n => (Held(d, h) => Held(e, h)) /\ (Gone(d, h) => Gone(e, h))
  BY <1>1, <1>2, <1>3, SubmitKeeps
<1>6. PICK s : s = Opened(slots, {n})
  OBVIOUS
<1>7. OwnResults(given, slots)
  BY DEF Accounts
<1>8. /\ DOMAIN s = DOMAIN slots \cup {n} /\ n \notin DOMAIN slots /\ s[n] = Waiting
      /\ \A h \in DOMAIN slots : s[h] = slots[h]
  <2>1. n \notin DOMAIN slots
    BY <1>1, <1>4, <1>7 DEF OwnResults
  <2> QED  BY <1>6, <2>1 DEF Opened
<1>9. OwnResults(g, s)
  <2>1. DOMAIN s \subseteq 1..Len(g)
    <3>1. 1..Len(given) \subseteq 1..n /\ n \in 1..n
      BY <1>1, <1>2
    <3>2. DOMAIN slots \subseteq 1..Len(given)
      BY <1>7 DEF OwnResults
    <3> QED  BY <1>4, <1>8, <3>1, <3>2
  <2>2. ASSUME NEW h \in DOMAIN s, s[h] # Waiting
        PROVE  s[h] \in Answers /\ s[h].handle = h /\ s[h].task = g[h]
    <3>1. h \in DOMAIN slots /\ h \in DOMAIN given
      BY <1>1, <1>7, <1>8, <2>2 DEF OwnResults
    <3> QED  BY <1>4, <1>7, <1>8, <2>2, <3>1 DEF OwnResults
  <2> QED  BY <2>1, <2>2 DEF OwnResults
<1>10. answers \in Seq(Answers) /\ Rightly(answers, given)
  BY DEF Accounts
<1>11. Rightly(answers, g)
  BY <1>4, <1>10 DEF Rightly
<1>12. Apart(e, s, answers)
  <2>1. Apart(d, slots, answers)
    BY DEF Accounts
  <2>2. ASSUME NEW h \in Handles, h # n
        PROVE  /\ Waits(s, h) => \/ Held(e, h) /\ NoneIn(answers, h)
                                 \/ Gone(e, h) /\ OnceIn(answers, h)
               /\ ~Waits(s, h) => Gone(e, h) /\ NoneIn(answers, h)
    <3>1. Waits(s, h) <=> Waits(slots, h)
      BY <1>8, <2>2 DEF Waits
    <3> QED  BY <1>5, <2>1, <2>2, <3>1 DEF Apart
  <2>3. Waits(s, n) /\ NoneIn(answers, n)
    <3>1. NoneIn(answers, n)
      BY <1>4, <1>10 DEF Rightly, NoneIn
    <3> QED  BY <1>8, <3>1 DEF Waits
  <2> QED  BY <1>5, <2>2, <2>3 DEF Apart
<1>13. Len(g) <= MaxHandles
  BY <1>1, <1>2, <1>4, Sizes
<1>14. Accounts(e, g, s, answers)
  BY <1>4, <1>5, <1>9, <1>10, <1>11, <1>12, <1>13 DEF Accounts
<1> QED  BY <1>2, <1>3, <1>6, <1>14

\* The caller takes in the channel: each answer goes to its own slot (drain_completed).
LEMMA StashAccounts ==
  ASSUME NEW d, NEW given, Accounts(d, given, pending, results)
  PROVE  Accounts(d, given, Stashed, <<>>)
<1>1. PICK s : s = Stashed
  OBVIOUS
<1>2. PICK p : p = pending
  OBVIOUS
<1>3. PICK a : a = results
  OBVIOUS
<1>4. /\ given \in Seq(Tasks) /\ Len(given) <= MaxHandles
      /\ Sound(d, given) /\ Len(d.pool.window) < Window
      /\ a \in Seq(Answers) /\ Rightly(a, given)
      /\ OwnResults(given, p) /\ Apart(d, p, a)
  BY <1>2, <1>3 DEF Accounts
<1>5. ToSet(a) = {a[i] : i \in DOMAIN a}
  BY DEF ToSet
<1>6. s = [h \in DOMAIN p |-> IF {r \in ToSet(a) : r.handle = h} = {} THEN p[h]
                              ELSE CHOOSE r \in {r \in ToSet(a) : r.handle = h} : TRUE]
  BY <1>1, <1>2, <1>3 DEF Stashed
<1>7. DOMAIN s = DOMAIN p
  BY <1>6
<1>8. DOMAIN p \subseteq Handles
  BY <1>4, Sizes DEF OwnResults, Handles
<1>9. ASSUME NEW h \in DOMAIN p, NoneIn(a, h) PROVE s[h] = p[h]
  <2>1. {r \in ToSet(a) : r.handle = h} = {}
    BY <1>5, <1>9 DEF NoneIn
  <2> QED  BY <1>6, <2>1
<1>10. ASSUME NEW h \in DOMAIN p, OnceIn(a, h)
       PROVE  s[h] \in Answers /\ s[h].handle = h /\ s[h].task = given[h]
  <2>1. {r \in ToSet(a) : r.handle = h} # {}
    BY <1>5, <1>10 DEF OnceIn
  <2>2. s[h] \in {r \in ToSet(a) : r.handle = h}
    <3>1. s[h] = CHOOSE r \in {r \in ToSet(a) : r.handle = h} : TRUE
      BY <1>6, <2>1
    <3>2. PICK mine : mine = {r \in ToSet(a) : r.handle = h}
      OBVIOUS
    <3>3. mine # {} /\ s[h] = CHOOSE r \in mine : TRUE
      BY <2>1, <3>1, <3>2
    <3>4. s[h] \in mine
      BY <3>3
    <3> QED  BY <3>2, <3>4
  <2>3. PICK i \in DOMAIN a : s[h] = a[i] /\ a[i].handle = h
    BY <1>5, <2>2
  <2>4. a[i] \in Answers
    BY <1>4, <2>3
  <2> QED  BY <1>4, <2>3, <2>4 DEF Rightly
<1>11. OwnResults(given, s)
  <2>1. ASSUME NEW h \in DOMAIN s, s[h] # Waiting
        PROVE  s[h] \in Answers /\ s[h].handle = h /\ s[h].task = given[h]
    <3>1. NoneIn(a, h) \/ OnceIn(a, h)
      BY <1>4, <1>7, <1>8 DEF Apart
    <3> QED  BY <1>4, <1>7, <1>9, <1>10, <2>1, <3>1 DEF OwnResults
  <2> QED  BY <1>4, <1>7, <2>1 DEF OwnResults
<1>12. ASSUME NEW h \in Handles
       PROVE  (Waits(s, h) => Held(d, h)) /\ (~Waits(s, h) => Gone(d, h))
  <2>1. CASE h \in DOMAIN p /\ NoneIn(a, h)
    <3>1. Waits(s, h) <=> Waits(p, h)
      BY <1>7, <1>9, <2>1 DEF Waits
    <3>2. ~OnceIn(a, h)
      BY <2>1 DEF NoneIn, OnceIn
    <3> QED  BY <1>4, <3>1, <3>2 DEF Apart
  <2>2. CASE h \in DOMAIN p /\ ~NoneIn(a, h)
    <3>1. Gone(d, h) /\ OnceIn(a, h)
      BY <1>4, <2>2 DEF Apart
    <3>2. ~Waits(s, h)
      BY <1>10, <2>2, <3>1, WaitingApart DEF Waits
    <3> QED  BY <3>1, <3>2
  <2>3. CASE h \notin DOMAIN p
    BY <1>4, <1>7, <2>3 DEF Apart, Waits
  <2> QED  BY <2>1, <2>2, <2>3
<1>13. <<>> \in Seq(Answers) /\ Rightly(<<>>, given) /\ \A h : NoneIn(<<>>, h)
  BY DEF Rightly, NoneIn
<1>14. Apart(d, s, <<>>)
  BY <1>12, <1>13 DEF Apart
<1> QED  BY <1>1, <1>4, <1>11, <1>13, <1>14 DEF Accounts

\* A finished handle is answered, and closed (poll_any).
LEMMA WithoutAccounts ==
  ASSUME NEW d, NEW given, NEW slots, NEW answers, Accounts(d, given, slots, answers), NEW h \in Ready(slots)
  PROVE  Accounts(d, given, Without(slots, h), answers)
<1>1. PICK s : s = Without(slots, h)
  OBVIOUS
<1>2. /\ DOMAIN s = DOMAIN slots \ {h} /\ \A g \in DOMAIN s : s[g] = slots[g]
      /\ slots[h] # Waiting
  BY <1>1 DEF Without, Ready
<1>3. OwnResults(given, s)
  <2>1. OwnResults(given, slots)
    BY DEF Accounts
  <2> QED  BY <1>2, <2>1 DEF OwnResults
<1>4. Apart(d, s, answers)
  <2>1. \A g : Waits(s, g) <=> Waits(slots, g)
    BY <1>2 DEF Waits
  <2>2. Apart(d, slots, answers)
    BY DEF Accounts
  <2> QED  BY <2>1, <2>2 DEF Apart
<1> QED  BY <1>1, <1>3, <1>4 DEF Accounts

\* A worker takes its first item and answers it (gpu_worker_main, cpu_worker_main).
LEMMA WorkAccounts ==
  ASSUME NEW d, NEW given, NEW slots, NEW answers, Accounts(d, given, slots, answers),
         NEW l \in Lanes, d.queue[l] # <<>>, NEW r \in Answers,
         r.handle = Head(d.queue[l]).handle, r.task = Head(d.queue[l]).task,
         NEW k, k = [d.queue EXCEPT ![l] = Tail(@)]
  PROVE  Accounts([d EXCEPT !.queue = k], given, slots, Append(answers, r))
<1>1. PICK q : q = d.queue
  OBVIOUS
<1>2. k = [q EXCEPT ![l] = Tail(@)]
  BY <1>1
<1>3. PICK e : e = [d EXCEPT !.queue = k]
  OBVIOUS
<1>4. /\ d \in Dispatchers /\ Sound(d, given) /\ answers \in Seq(Answers) /\ Rightly(answers, given)
      /\ Apart(d, slots, answers)
  BY DEF Accounts, Sound
<1>5. q \in [Lanes -> Seq(Items)] /\ q[l] # <<>> /\ q[l] \in Seq(Items)
  BY <1>1, <1>4 DEF Dispatchers
<1>6. PICK s \in Seq(Items) : s = q[l] /\ s # <<>>
  BY <1>5
<1>7. PICK m : m = Head(s)
  OBVIOUS
<1>8. PICK t : t = Tail(s)
  OBVIOUS
<1>9. /\ m \in Items /\ t \in Seq(Items) /\ DOMAIN s = 1..Len(s) /\ Len(s) \in Nat /\ Len(s) >= 1
      /\ DOMAIN t = 1..(Len(s) - 1) /\ \A i \in DOMAIN t : t[i] = s[i + 1] /\ i + 1 \in DOMAIN s
      /\ m = s[1] /\ 1 \in DOMAIN s
  BY <1>6, <1>7, <1>8
<1>10. k \in [Lanes -> Seq(Items)] /\ k[l] = t /\ \A j \in Lanes \ {l} : k[j] = q[j]
  BY <1>2, <1>5, <1>6, <1>8, <1>9
<1>11. e \in Dispatchers /\ e.pool = d.pool /\ e.queue = k /\ e.lost = d.lost
  BY <1>3, <1>4, <1>10 DEF Dispatchers
<1>12. Rightly(s, given)
  BY <1>1, <1>4, <1>6 DEF Sound
<1>13. \A j \in Lanes : Rightly(e.queue[j], given)
  <2>1. Rightly(t, given)
    BY <1>9, <1>12 DEF Rightly
  <2>2. \A j \in Lanes : Rightly(q[j], given)
    BY <1>1, <1>4 DEF Sound
  <2> QED  BY <1>10, <1>11, <2>1, <2>2
<1>14. Sound(e, given)
  BY <1>4, <1>11, <1>13 DEF Sound
<1>15. r.handle = m.handle /\ r.task = m.task
  BY <1>1, <1>6, <1>7
<1>16. PICK a : a = Append(answers, r)
  OBVIOUS
<1>17. /\ a \in Seq(Answers) /\ Len(answers) \in Nat /\ DOMAIN answers = 1..Len(answers)
       /\ DOMAIN a = 1..(Len(answers) + 1) /\ a[Len(answers) + 1] = r
       /\ \A i \in DOMAIN answers : a[i] = answers[i]
  BY <1>4, <1>16
<1>18. Rightly(a, given)
  <2>1. m.handle \in DOMAIN given /\ m.task = given[m.handle]
    BY <1>9, <1>12 DEF Rightly
  <2>2. ASSUME NEW i \in DOMAIN a PROVE a[i].handle \in DOMAIN given /\ a[i].task = given[a[i].handle]
    <3>1. CASE i \in DOMAIN answers
      BY <1>4, <1>17, <3>1 DEF Rightly
    <3>2. CASE i = Len(answers) + 1
      BY <1>15, <1>17, <2>1, <3>2
    <3> QED  BY <1>17, <2>2, <3>1, <3>2
  <2> QED  BY <2>2 DEF Rightly
<1>19. ASSUME NEW h
       PROVE  /\ NoneQueued(q, h) => NoneQueued(k, h) /\ m.handle # h
              /\ m.handle # h /\ OnceQueued(q, h) => OnceQueued(k, h)
              /\ m.handle = h /\ OnceQueued(q, h) => NoneQueued(k, h)
  <2>1. m = Head(q[l])
    BY <1>6, <1>7
  <2>2. /\ NoneQueued(q, h) => NoneQueued(k, h) /\ Head(q[l]).handle # h
        /\ Head(q[l]).handle # h /\ OnceQueued(q, h) => OnceQueued(k, h)
        /\ Head(q[l]).handle = h /\ OnceQueued(q, h) => NoneQueued(k, h)
    BY <1>2, <1>5, TailQueued
  <2> QED  BY <2>1, <2>2
<1>20. ASSUME NEW h
       PROVE  /\ m.handle # h /\ NoneIn(answers, h) => NoneIn(a, h)
              /\ m.handle # h /\ OnceIn(answers, h) => OnceIn(a, h)
              /\ m.handle = h /\ NoneIn(answers, h) => OnceIn(a, h)
  BY <1>4, <1>15, <1>16, AppendIn
<1>21. ASSUME NEW h \in Handles
       PROVE  /\ Waits(slots, h) => \/ Held(e, h) /\ NoneIn(a, h)
                                    \/ Gone(e, h) /\ OnceIn(a, h)
              /\ ~Waits(slots, h) => Gone(e, h) /\ NoneIn(a, h)
  <2>1. /\ Waits(slots, h) => \/ Held(d, h) /\ NoneIn(answers, h)
                              \/ Gone(d, h) /\ OnceIn(answers, h)
        /\ ~Waits(slots, h) => Gone(d, h) /\ NoneIn(answers, h)
    BY <1>4 DEF Apart
  <2>2. NoneQueued(d.queue, h) => m.handle # h /\ NoneQueued(k, h)
    BY <1>1, <1>19
  <2>3. CASE m.handle # h
    <3>1. (Held(d, h) => Held(e, h)) /\ (Gone(d, h) => Gone(e, h))
      BY <1>1, <1>11, <1>19, <2>3 DEF Held, Gone, NoneOut, OnceOut
    <3> QED  BY <1>20, <2>1, <2>3, <3>1
  <2>4. CASE m.handle = h
    <3>1. ~NoneQueued(d.queue, h)
      BY <2>2, <2>4
    <3>2. ~Gone(d, h)
      BY <3>1 DEF Gone, NoneOut
    <3>3. Waits(slots, h) /\ Held(d, h) /\ NoneIn(answers, h)
      BY <2>1, <3>2
    <3>4. NoneIn(d.pool.window, h) /\ OnceQueued(q, h) /\ h \notin d.lost
      BY <1>1, <3>1, <3>3 DEF Held, NoneOut, OnceOut
    <3>5. Gone(e, h)
      BY <1>11, <1>19, <2>4, <3>4 DEF Gone, NoneOut
    <3> QED  BY <1>20, <2>4, <3>3, <3>5
  <2> QED  BY <2>3, <2>4
<1>22. Apart(e, slots, a)
  BY <1>21 DEF Apart
<1>23. Accounts(e, given, slots, a)
  BY <1>11, <1>14, <1>17, <1>18, <1>22 DEF Accounts
<1> QED  BY <1>3, <1>16, <1>23

\* A worker dies: what its queue held is lost, each task once (gpu_worker_main and
\* cpu_worker_main without a catch).
LEMMA PanicAccounts ==
  ASSUME NEW d, NEW given, NEW slots, NEW answers, Accounts(d, given, slots, answers),
         NEW l \in Lanes, NEW e, e.pool = d.pool,
         NEW k, k = [d.queue EXCEPT ![l] = <<>>], e.queue = k,
         e.lost = d.lost \cup {m.handle : m \in ToSet(d.queue[l])}, e = [pool |-> e.pool, queue |-> e.queue, lost |-> e.lost]
  PROVE  Accounts(e, given, slots, answers)
<1>1. /\ d \in Dispatchers /\ Sound(d, given) /\ Apart(d, slots, answers)
      /\ d.queue \in [Lanes -> Seq(Items)] /\ d.lost \subseteq Handles
  BY DEF Accounts, Sound, Dispatchers
<1>2. PICK q \in [Lanes -> Seq(Items)] : q = d.queue
  BY <1>1
<1>3. PICK s \in Seq(Items) : s = q[l]
  BY <1>2
<1>4. ToSet(s) = {s[i] : i \in DOMAIN s}
  BY DEF ToSet
<1>5. k \in [Lanes -> Seq(Items)] /\ k[l] = <<>> /\ \A j \in Lanes \ {l} : k[j] = q[j]
  <2>1. <<>> \in Seq(Items)
    OBVIOUS
  <2> QED  BY <1>2, <2>1
<1>6. \A h : h \in e.lost <=> h \in d.lost \/ ~NoneIn(s, h)
  BY <1>2, <1>3, <1>4 DEF NoneIn
<1>7. e.lost \subseteq Handles /\ e.lost \subseteq DOMAIN given
  <2>1. \A i \in DOMAIN s : s[i].handle \in Handles /\ s[i].handle \in DOMAIN given
    <3>1. \A i \in DOMAIN s : s[i] \in Items
      BY <1>3
    <3> QED  BY <1>1, <1>2, <1>3, <3>1 DEF Items, Sound, Rightly
  <2>2. \A h : ~NoneIn(s, h) => h \in Handles /\ h \in DOMAIN given
    BY <2>1 DEF NoneIn
  <2> QED  BY <1>1, <1>6, <2>2 DEF Sound
<1>8. e \in Dispatchers
  BY <1>1, <1>5, <1>7 DEF Dispatchers
<1>9. Sound(e, given)
  <2>1. \A j \in Lanes : Rightly(k[j], given)
    <3>1. Rightly(<<>>, given)
      BY DEF Rightly
    <3> QED  BY <1>1, <1>2, <1>5, <3>1 DEF Sound
  <2> QED  BY <1>1, <1>7, <1>8, <2>1 DEF Sound
<1>10. \A h : NoneIn(<<>>, h)
  BY DEF NoneIn
<1>11. ASSUME NEW h \in Handles PROVE (Held(d, h) => Held(e, h)) /\ (Gone(d, h) => Gone(e, h))
  <2>1. CASE NoneIn(s, h)
    <3>1. h \in e.lost <=> h \in d.lost
      BY <1>6, <2>1
    <3>2. NoneQueued(q, h) <=> NoneQueued(k, h)
      BY <1>3, <1>5, <1>10, <2>1 DEF NoneQueued
    <3>3. OnceQueued(q, h) => OnceQueued(k, h)
      <4> SUFFICES ASSUME OnceQueued(q, h) PROVE OnceQueued(k, h)
        OBVIOUS
      <4>1. PICK j \in Lanes : OnceIn(q[j], h) /\ \A m \in Lanes \ {j} : NoneIn(q[m], h)
        BY DEF OnceQueued
      <4>2. j # l
        BY <1>3, <2>1, <4>1 DEF NoneIn, OnceIn
      <4>3. OnceIn(k[j], h) /\ \A m \in Lanes \ {j} : NoneIn(k[m], h)
        BY <1>5, <1>10, <4>1, <4>2
      <4> QED  BY <4>3 DEF OnceQueued
    <3> QED  BY <1>2, <3>1, <3>2, <3>3 DEF Held, Gone, NoneOut, OnceOut
  <2>2. CASE ~NoneIn(s, h)
    <3>1. h \in e.lost
      BY <1>6, <2>2
    <3>2. ~NoneQueued(q, h)
      BY <1>3, <2>2 DEF NoneQueued
    <3>3. OnceQueued(q, h) => NoneQueued(k, h)
      <4> SUFFICES ASSUME OnceQueued(q, h) PROVE NoneQueued(k, h)
        OBVIOUS
      <4>1. PICK j \in Lanes : OnceIn(q[j], h) /\ \A m \in Lanes \ {j} : NoneIn(q[m], h)
        BY DEF OnceQueued
      <4>2. j = l
        BY <1>3, <2>2, <4>1
      <4> QED  BY <1>5, <1>10, <4>1, <4>2 DEF NoneQueued
    <3> QED  BY <1>2, <3>1, <3>2, <3>3 DEF Held, Gone, NoneOut, OnceOut
  <2> QED  BY <2>1, <2>2
<1>12. Apart(e, slots, answers)
  BY <1>1, <1>11 DEF Apart
<1> QED  BY <1>9, <1>12 DEF Accounts

-----------------------------------------------------------------------------
(* The steps. *)

\* Every account is right.
Counted == Accounts(Dispatcher, asked, pending, results)

\* The workers and the caller; a caller inside a call is owed something.
Machines ==
  /\ warm \in [Lanes -> Scores \cup {None}]
  /\ belief \in [Lanes -> [sig : Signatures \cup {None}, ref : Refs \cup {None}]]
  /\ dead \subseteq Lanes
  /\ caller \in {"free", "next", "recv"} /\ owed \in 0..2 /\ (caller # "free" => owed \in 1..2)
  /\ faults \in 0..MaxFaults

\* The invariant says what TypeOK says.
LEMMA AccountsTyped == Counted /\ Machines => TypeOK
<1> SUFFICES ASSUME Counted, Machines PROVE TypeOK
  OBVIOUS
<1>1. /\ asked \in Seq(Tasks) /\ Len(asked) <= MaxHandles /\ Len(asked) \in Nat /\ MaxHandles \in Nat
      /\ Sound(Dispatcher, asked) /\ Len(Dispatcher.pool.window) < Window
      /\ results \in Seq(Answers) /\ OwnResults(asked, pending)
  BY Sizes DEF Counted, Accounts
<1>2. Dispatcher.pool = pool /\ Dispatcher.queue = queue /\ Dispatcher.lost = lost
  BY DEF Dispatcher
<1>3. Dispatcher \in Dispatchers
  BY <1>1 DEF Sound
<1>4. pool \in [window : Seq(Entries), seen : Seq(Keys), gpu_next : Nat, cpu_next : Nat, active : 1..Len(GpuLanes)]
  BY <1>2, <1>3 DEF Dispatchers
<1>5. queue \in [Lanes -> Seq(Items)] /\ lost \subseteq Handles
  BY <1>2, <1>3 DEF Dispatchers
<1>6. pool.gpu_next + Len(pool.window) <= Len(asked) /\ pool.cpu_next <= Len(asked) /\ Len(pool.seen) <= Memory
  BY <1>1, <1>2 DEF Sound
<1>7. pool.gpu_next \in 0..MaxHandles /\ pool.cpu_next \in 0..MaxHandles
  <2>1. PICK g \in Nat : g = pool.gpu_next
    BY <1>4
  <2>2. PICK c \in Nat : c = pool.cpu_next
    BY <1>4
  <2>3. PICK n \in Nat : n = Len(pool.window)
    BY <1>4
  <2>4. g + n <= Len(asked) /\ c <= Len(asked)
    BY <1>6, <2>1, <2>2, <2>3
  <2>5. g \in 0..MaxHandles /\ c \in 0..MaxHandles
    BY <1>1, <2>4
  <2> QED  BY <2>1, <2>2, <2>5
<1>8. pool \in Pools
  BY <1>4, <1>7 DEF Pools, Keys
<1>9. Len(pool.window) < Window
  BY <1>1, <1>2
<1>10. \A h \in DOMAIN pending : pending[h] \in Answers \cup {Waiting}
  BY <1>1 DEF OwnResults
<1>11. DOMAIN pending \subseteq 1..Len(asked)
  BY <1>1 DEF OwnResults
<1> QED  BY <1>1, <1>5, <1>6, <1>8, <1>9, <1>10, <1>11 DEF TypeOK, Machines

\* A dispatcher that is installed is the dispatcher.
LEMMA Installs ==
  ASSUME NEW d, d \in Dispatchers, Dispatched(d)
  PROVE  Dispatcher' = d
<1>1. d = [pool |-> d.pool, queue |-> d.queue, lost |-> d.lost]
  BY DEF Dispatchers
<1> QED  BY <1>1 DEF Dispatched, Dispatcher

\* At the start nothing is anywhere.
LEMMA InitCounted == Init => Counted /\ Machines
<1> SUFFICES ASSUME Init PROVE Counted /\ Machines
  OBVIOUS
<1>1. PICK p : p = [window |-> <<>>, seen |-> <<>>, gpu_next |-> 0, cpu_next |-> 0, active |-> Len(GpuLanes)]
  OBVIOUS
<1>2. PICK q : q = [l \in Lanes |-> <<>>]
  OBVIOUS
<1>3. Dispatcher = [pool |-> p, queue |-> q, lost |-> {}]
  BY <1>1, <1>2 DEF Init, Dispatcher
<1>4. Len(GpuLanes) \in 1..Len(GpuLanes)
  BY LanesKnown
<1>5. p \in [window : Seq(Entries), seen : Seq(Keys), gpu_next : Nat, cpu_next : Nat, active : 1..Len(GpuLanes)]
  <2>1. <<>> \in Seq(Entries) /\ <<>> \in Seq(Keys)
    OBVIOUS
  <2> QED  BY <1>1, <1>4, <2>1
<1>6. q \in [Lanes -> Seq(Items)] /\ \A l \in Lanes : q[l] = <<>>
  <2>1. <<>> \in Seq(Items)
    OBVIOUS
  <2> QED  BY <1>2, <2>1
<1>7. PICK d : d = Dispatcher
  OBVIOUS
<1>8. d \in Dispatchers /\ d.pool = p /\ d.queue = q /\ d.lost = {}
  BY <1>3, <1>5, <1>6, <1>7 DEF Dispatchers
<1>9. /\ p.window = <<>> /\ p.seen = <<>> /\ p.gpu_next = 0 /\ p.cpu_next = 0
      /\ Len(p.window) = 0 /\ Len(p.seen) = 0
  BY <1>1
<1>10. asked = <<>> /\ Len(asked) = 0 /\ asked \in Seq(Tasks)
  <2>1. asked = <<>>
    BY DEF Init
  <2> QED  BY <2>1
<1>11. \A h : NoneIn(<<>>, h)
  BY DEF NoneIn
<1>12. Rightly(<<>>, asked)
  BY DEF Rightly
<1>13. Windows(p.window, asked)
  <2>1. <<>> \in Seq(Entries)
    OBVIOUS
  <2>2. Windows(<<>>, asked)
    BY <1>12, <2>1 DEF Windows
  <2> QED  BY <1>9, <2>2
<1>14. Sound(d, asked)
  <2>1. \A l \in Lanes : Rightly(d.queue[l], asked)
    BY <1>6, <1>8, <1>12
  <2>2. Len(d.pool.seen) <= Memory
    BY <1>8, <1>9, Sizes
  <2>3. d.pool.gpu_next + Len(d.pool.window) <= Len(asked) /\ d.pool.cpu_next <= Len(asked)
    BY <1>8, <1>9, <1>10
  <2>4. Windows(d.pool.window, asked)
    BY <1>8, <1>13
  <2> QED  BY <1>8, <2>1, <2>2, <2>3, <2>4 DEF Sound
<1>15. \A h : Gone(d, h)
  <2>1. \A h : NoneQueued(q, h)
    BY <1>6, <1>11 DEF NoneQueued
  <2> QED  BY <1>8, <1>9, <1>11, <2>1 DEF Gone, NoneOut
<1>16. DOMAIN pending = {} /\ results = <<>>
  <2>1. pending = <<>>
    BY DEF Init
  <2> QED  BY <2>1 DEF Init
<1>17. Apart(d, pending, results)
  BY <1>11, <1>15, <1>16 DEF Apart, Waits
<1>18. Counted
  <2>1. OwnResults(asked, pending)
    BY <1>16 DEF OwnResults
  <2>2. results \in Seq(Answers) /\ Rightly(results, asked)
    BY <1>12, <1>16
  <2>3. Len(d.pool.window) < Window /\ Len(asked) <= MaxHandles
    BY <1>8, <1>9, <1>10, Sizes
  <2> QED  BY <1>7, <1>10, <1>14, <1>17, <2>1, <2>2, <2>3 DEF Counted, Accounts
<1>19. Machines
  BY Sizes DEF Init, Machines, Blank
<1> QED  BY <1>18, <1>19

\* A submission (submit).
LEMMA SubmitStep ==
  ASSUME Counted, Machines, NEW t \in Tasks, Submit(t)
  PROVE  Counted' /\ Machines'
<1>1. PICK n : n = Len(asked) + 1
  OBVIOUS
<1>2. PICK b \in Offers[t] : \E d \in Submitted(Dispatcher, Len(asked) + 1, t, b) : Dispatched(d)
  BY DEF Submit
<1>3. PICK d \in Submitted(Dispatcher, Len(asked) + 1, t, b) : Dispatched(d)
  BY <1>2
<1>4. Len(asked) < MaxHandles
  BY DEF Submit
<1>5. Accounts(d, Append(asked, t), Opened(pending, {Len(asked) + 1}), results)
  BY <1>4, SubmitAccounts DEF Counted
<1>6. Dispatcher' = d
  <2>1. d \in Dispatchers
    BY <1>5 DEF Accounts, Sound
  <2> QED  BY <1>3, <2>1, Installs
<1>7. Counted'
  BY <1>5, <1>6 DEF Submit, Counted
<1> QED  BY <1>7 DEF Submit, Machines, workers

\* RunAll: two submissions and a flush.
LEMMA RunAllStep ==
  ASSUME Counted, Machines, NEW t \in Tasks, NEW u \in Tasks, RunAll(t, u)
  PROVE  Counted' /\ Machines'
<1>1. asked \in Seq(Tasks) /\ Len(asked) \in Nat
  BY DEF Counted, Accounts
<1>2. PICK h \in Nat : h = Len(asked)
  BY <1>1
<1>3. /\ h + 2 <= MaxHandles /\ MaxHandles \in Nat
      /\ asked' = asked \o <<t, u>> /\ pending' = Opened(pending, {h + 1, h + 2})
      /\ owed' = 2 /\ caller' = "next"
      /\ UNCHANGED <<workers, results, faults>>
  BY <1>2, Sizes DEF RunAll
<1>4. PICK b1 \in Offers[t], b2 \in Offers[u] :
        \E d1 \in Submitted(Dispatcher, h + 1, t, b1) : \E d2 \in Submitted(d1, h + 2, u, b2) :
        \E d \in Flushed(d2) : Dispatched(d)
  BY <1>2 DEF RunAll
<1>5. PICK d1 \in Submitted(Dispatcher, h + 1, t, b1) :
        \E d2 \in Submitted(d1, h + 2, u, b2) : \E d \in Flushed(d2) : Dispatched(d)
  BY <1>4
<1>6. PICK d2 \in Submitted(d1, h + 2, u, b2) : \E d \in Flushed(d2) : Dispatched(d)
  BY <1>5
<1>7. PICK d \in Flushed(d2) : Dispatched(d)
  BY <1>6
<1>8. PICK g : g = Append(asked, t)
  OBVIOUS
<1>9. g \in Seq(Tasks) /\ Len(g) = h + 1 /\ (h + 1) + 1 = h + 2 /\ asked \o <<t, u>> = Append(g, u)
  <2>1. asked \o <<t, u>> = Append(Append(asked, t), u)
    BY <1>1
  <2> QED  BY <1>1, <1>2, <1>8, <2>1
<1>10. PICK s : s = Opened(pending, {h + 1})
  OBVIOUS
<1>11. Accounts(d1, g, s, results)
  <2>1. Len(asked) < MaxHandles
    BY <1>2, <1>3
  <2>2. d1 \in Submitted(Dispatcher, Len(asked) + 1, t, b1)
    BY <1>2
  <2>3. Accounts(d1, Append(asked, t), Opened(pending, {Len(asked) + 1}), results)
    BY <2>1, <2>2, SubmitAccounts DEF Counted
  <2> QED  BY <1>2, <1>8, <1>10, <2>3
<1>12. Accounts(d2, Append(g, u), Opened(s, {h + 2}), results)
  <2>1. Len(g) < MaxHandles
    BY <1>3, <1>9
  <2>2. d2 \in Submitted(d1, Len(g) + 1, u, b2)
    BY <1>9
  <2>3. Accounts(d2, Append(g, u), Opened(s, {Len(g) + 1}), results)
    BY <1>11, <2>1, <2>2, SubmitAccounts
  <2> QED  BY <1>9, <2>3
<1>13. Accounts(d, Append(g, u), Opened(s, {h + 2}), results)
  BY <1>12, FlushAccounts
<1>14. Dispatcher' = d
  <2>1. d \in Dispatchers
    BY <1>13 DEF Accounts, Sound
  <2> QED  BY <1>7, <2>1, Installs
<1>15. Counted'
  <2>1. Opened(s, {h + 2}) = pending'
    <3>1. DOMAIN s = DOMAIN pending \cup {h + 1}
          /\ \A k \in DOMAIN s : s[k] = IF k \in DOMAIN pending THEN pending[k] ELSE Waiting
      BY <1>10 DEF Opened
    <3>2. DOMAIN s \cup {h + 2} = DOMAIN pending \cup {h + 1, h + 2}
      BY <3>1
    <3>3. ASSUME NEW k \in DOMAIN pending \cup {h + 1, h + 2}
          PROVE  (IF k \in DOMAIN s THEN s[k] ELSE Waiting) = IF k \in DOMAIN pending THEN pending[k] ELSE Waiting
      BY <3>1
    <3>4. Opened(s, {h + 2}) = [k \in DOMAIN pending \cup {h + 1, h + 2} |->
                                 IF k \in DOMAIN pending THEN pending[k] ELSE Waiting]
      BY <3>2, <3>3 DEF Opened
    <3> QED  BY <1>3, <3>4 DEF Opened
  <2>2. Append(g, u) = asked' /\ results' = results
    BY <1>3, <1>9
  <2> QED  BY <1>13, <1>14, <2>1, <2>2 DEF Counted
<1> QED  BY <1>3, <1>15 DEF Machines, workers

\* An explicit flush.
LEMMA FlushStep ==
  ASSUME Counted, Machines, Flush
  PROVE  Counted' /\ Machines'
<1>1. PICK d \in Flushed(Dispatcher) : Dispatched(d)
  BY DEF Flush
<1>2. Accounts(d, asked, pending, results)
  BY FlushAccounts DEF Counted
<1>3. Dispatcher' = d
  <2>1. d \in Dispatchers
    BY <1>2 DEF Accounts, Sound
  <2> QED  BY <1>1, <2>1, Installs
<1> QED  BY <1>2, <1>3 DEF Flush, Counted, Machines, workers

\* poll and poll_any: a stale window goes out, the channel is drained, one handle may close.
LEMMA PollStep ==
  ASSUME Counted, Machines, Poll
  PROVE  Counted' /\ Machines'
<1>1. PICK d \in AgedOrNot(Dispatcher) : Dispatched(d)
  BY DEF Poll
<1>2. Accounts(d, asked, pending, results)
  BY FlushAccounts DEF Counted
<1>3. Dispatcher' = d
  <2>1. d \in Dispatchers
    BY <1>2 DEF Accounts, Sound
  <2> QED  BY <1>1, <2>1, Installs
<1>4. Accounts(d, asked, Stashed, <<>>)
  BY <1>2, StashAccounts
<1>5. Accounts(d, asked, pending', <<>>)
  <2>1. CASE pending' = Stashed
    BY <1>4, <2>1
  <2>2. CASE \E h \in Ready(Stashed) : pending' = Without(Stashed, h)
    <3>1. PICK h \in Ready(Stashed) : pending' = Without(Stashed, h)
      BY <2>2
    <3>2. PICK s : s = Stashed
      OBVIOUS
    <3>3. Accounts(d, asked, Without(s, h), <<>>)
      BY <1>4, <3>1, <3>2, WithoutAccounts
    <3> QED  BY <3>1, <3>2, <3>3
  <2> QED  BY <2>1, <2>2 DEF Poll
<1> QED  BY <1>3, <1>5 DEF Poll, Counted, Machines, workers

\* What an answer leaves the caller owed.
LEMMA AnswerStep ==
  ASSUME Machines, caller # "free", NEW slots, NEW h, Answer(slots, h)
  PROVE  /\ pending' = Without(slots, h)
         /\ caller' \in {"free", "next", "recv"} /\ owed' \in 0..2 /\ (caller' # "free" => owed' \in 1..2)
<1>1. owed \in 1..2
  BY DEF Machines
<1>2. CASE owed = 1
  BY <1>2 DEF Answer, Leave
<1>3. CASE owed = 2
  BY <1>3 DEF Answer, Machines
<1> QED  BY <1>1, <1>2, <1>3

\* poll_any_blocking up to the point where it blocks.
LEMMA TakeNextStep ==
  ASSUME Counted, Machines, TakeNext
  PROVE  Counted' /\ Machines'
<1>1. PICK d \in BeforeBlocking(Dispatcher) : Dispatched(d)
  BY DEF TakeNext
<1>2. Accounts(d, asked, pending, results)
  BY FlushAccounts DEF Counted
<1>3. Dispatcher' = d
  <2>1. d \in Dispatchers
    BY <1>2 DEF Accounts, Sound
  <2> QED  BY <1>1, <2>1, Installs
<1>4. PICK s : s = Stashed
  OBVIOUS
<1>5. Accounts(d, asked, s, <<>>)
  BY <1>2, <1>4, StashAccounts
<1>6. /\ caller = "next" /\ results' = <<>>
      /\ UNCHANGED <<asked, workers, faults>>
  BY DEF TakeNext
<1>7. CASE pending = <<>> /\ owed' = 0 /\ Leave /\ UNCHANGED pending
  <2>1. s = pending
    BY <1>4, <1>7 DEF Stashed
  <2>2. Accounts(d, asked, pending', <<>>)
    BY <1>5, <1>7, <2>1
  <2>3. Counted'
    BY <1>3, <1>6, <2>2 DEF Counted
  <2> QED  BY <1>6, <1>7, <2>3 DEF Machines, workers, Leave
<1>8. CASE \E h \in Ready(Stashed) : Answer(Stashed, h)
  <2>1. PICK h \in Ready(s) : Answer(s, h)
    BY <1>4, <1>8
  <2>2. /\ pending' = Without(s, h)
        /\ caller' \in {"free", "next", "recv"} /\ owed' \in 0..2 /\ (caller' # "free" => owed' \in 1..2)
    BY <1>6, <2>1, AnswerStep
  <2>3. Accounts(d, asked, Without(s, h), <<>>)
    BY <1>5, <2>1, WithoutAccounts
  <2>4. Counted'
    BY <1>3, <1>6, <2>2, <2>3 DEF Counted
  <2> QED  BY <1>6, <2>2, <2>4 DEF Machines, workers
<1>9. CASE /\ pending # <<>> /\ Ready(Stashed) = {}
           /\ caller' = "recv" /\ UNCHANGED <<pending, owed>>
  <2>1. ASSUME NEW h \in Handles PROVE Waits(pending, h) <=> Waits(s, h)
    <3>1. DOMAIN s = DOMAIN pending
      BY <1>4 DEF Stashed
    <3>2. CASE h \in DOMAIN pending
      <4>1. s[h] = Waiting
        BY <1>4, <1>9, <3>1, <3>2 DEF Ready
      <4>2. Waits(s, h)
        BY <3>1, <3>2, <4>1 DEF Waits
      <4>3. Held(d, h)
        <5>1. ~OnceIn(<<>>, h)
          BY DEF OnceIn
        <5> QED  BY <1>5, <4>2, <5>1 DEF Accounts, Apart
      <4>4. ~Gone(d, h)
        BY <4>3 DEF Held, Gone, NoneIn, OnceIn, NoneOut, OnceOut, NoneQueued, OnceQueued
      <4>5. Waits(pending, h)
        BY <1>2, <4>4 DEF Accounts, Apart
      <4> QED  BY <4>2, <4>5
    <3>3. CASE h \notin DOMAIN pending
      BY <3>1, <3>3 DEF Waits
    <3> QED  BY <3>2, <3>3
  <2>2. Accounts(d, asked, pending', <<>>)
    <3>1. OwnResults(asked, pending)
      BY DEF Counted, Accounts
    <3>2. Apart(d, pending, <<>>)
      BY <1>5, <2>1 DEF Accounts, Apart
    <3>3. Accounts(d, asked, pending, <<>>)
      BY <1>5, <3>1, <3>2 DEF Accounts
    <3> QED  BY <1>9, <3>3
  <2>3. Counted'
    BY <1>3, <1>6, <2>2 DEF Counted
  <2> QED  BY <1>6, <1>9, <2>3 DEF Machines, workers
<1> QED  BY <1>7, <1>8, <1>9 DEF TakeNext

\* A blocking call begins; an iterator is dropped.
LEMMA CallStep ==
  ASSUME Counted, Machines, AwaitAny \/ Drop
  PROVE  Counted' /\ Machines'
<1>1. Counted'
  BY DEF AwaitAny, Drop, Counted, Dispatcher
<1>2. Machines'
  BY DEF AwaitAny, Drop, Leave, Machines, workers
<1> QED  BY <1>1, <1>2

\* The blocked caller wakes.
LEMMA ReceiveStep ==
  ASSUME Counted, Machines, Receive
  PROVE  Counted' /\ Machines'
<1>1. PICK d : d = Dispatcher
  OBVIOUS
<1>2. /\ caller = "recv" /\ results' = <<>> /\ Dispatcher' = d
      /\ UNCHANGED <<pool, queue, lost, asked, workers, faults>>
  BY <1>1 DEF Receive, Dispatcher
<1>3. CASE \E h \in Ready(Stashed) : Answer(Stashed, h)
  <2>1. PICK s : s = Stashed
    OBVIOUS
  <2>2. PICK h \in Ready(s) : Answer(s, h)
    BY <1>3, <2>1
  <2>3. Accounts(d, asked, s, <<>>)
    BY <1>1, <2>1, StashAccounts DEF Counted
  <2>4. /\ pending' = Without(s, h)
        /\ caller' \in {"free", "next", "recv"} /\ owed' \in 0..2 /\ (caller' # "free" => owed' \in 1..2)
    BY <1>2, <2>2, AnswerStep
  <2>5. Accounts(d, asked, Without(s, h), <<>>)
    BY <2>2, <2>3, WithoutAccounts
  <2>6. Counted'
    BY <1>2, <2>4, <2>5 DEF Counted
  <2> QED  BY <1>2, <2>4, <2>6 DEF Machines, workers
<1>4. CASE results = <<>> /\ dead = Lanes /\ owed' = 0 /\ Leave /\ UNCHANGED pending
  <2>1. Accounts(d, asked, pending', results')
    BY <1>1, <1>2, <1>4 DEF Counted
  <2>2. Counted'
    BY <1>2, <2>1 DEF Counted
  <2> QED  BY <1>2, <1>4, <2>2 DEF Machines, workers, Leave
<1> QED  BY <1>3, <1>4 DEF Receive

\* The number of active lanes changes (adaptive_lane_tick).
LEMMA LaneTickStep ==
  ASSUME Counted, Machines, LaneTick
  PROVE  Counted' /\ Machines'
<1>1. PICK n \in 1..Len(GpuLanes) : pool' = [pool EXCEPT !.active = n]
  BY DEF LaneTick
<1>2. PICK d : d = Dispatcher
  OBVIOUS
<1>3. d.pool = pool /\ d.queue = queue /\ d.lost = lost /\ Accounts(d, asked, pending, results) /\ Sound(d, asked) /\ d \in Dispatchers
  BY <1>2 DEF Dispatcher, Counted, Accounts, Sound
<1>4. PICK p : p = pool'
  OBVIOUS
<1>5. pool \in [window : Seq(Entries), seen : Seq(Keys), gpu_next : Nat, cpu_next : Nat, active : 1..Len(GpuLanes)]
  BY <1>3 DEF Dispatchers
<1>6. /\ p \in [window : Seq(Entries), seen : Seq(Keys), gpu_next : Nat, cpu_next : Nat, active : 1..Len(GpuLanes)]
      /\ p.window = pool.window /\ p.seen = pool.seen
      /\ p.gpu_next = pool.gpu_next /\ p.cpu_next = pool.cpu_next
  BY <1>1, <1>4, <1>5
<1>7. PICK e : e = [pool |-> p, queue |-> queue, lost |-> lost]
  OBVIOUS
<1>8. e \in Dispatchers /\ e.pool = p /\ e.queue = queue /\ e.lost = lost
  BY <1>3, <1>6, <1>7 DEF Dispatchers
<1>9. Sound(e, asked)
  BY <1>3, <1>6, <1>8 DEF Sound
<1>10. \A h : (Held(e, h) <=> Held(d, h)) /\ (Gone(e, h) <=> Gone(d, h))
  BY <1>3, <1>6, <1>8 DEF Held, Gone, NoneOut, OnceOut
<1>11. Apart(e, pending, results)
  BY <1>3, <1>10 DEF Accounts, Apart
<1>12. Len(e.pool.window) < Window
  BY <1>3, <1>6, <1>8 DEF Accounts
<1>13. Accounts(e, asked, pending, results)
  BY <1>3, <1>9, <1>11, <1>12 DEF Accounts
<1>14. Dispatcher' = e
  BY <1>4, <1>7 DEF Dispatcher, LaneTick
<1> QED  BY <1>13, <1>14 DEF LaneTick, Counted, Machines, workers

\* A worker dies, and its queue with it.
LEMMA PanicStep ==
  ASSUME Counted, Machines, NEW l \in Lanes, Panic(l)
  PROVE  Counted' /\ Machines'
<1>1. PICK d : d = Dispatcher
  OBVIOUS
<1>2. d.pool = pool /\ d.queue = queue /\ d.lost = lost /\ Accounts(d, asked, pending, results)
  BY <1>1 DEF Dispatcher, Counted
<1>3. PICK e : e = Dispatcher'
  OBVIOUS
<1>4. /\ e = [pool |-> e.pool, queue |-> e.queue, lost |-> e.lost] /\ e.pool = pool'
      /\ e.queue = queue' /\ e.lost = lost'
  BY <1>3 DEF Dispatcher
<1>5. /\ pool' = pool /\ queue' = [queue EXCEPT ![l] = <<>>]
      /\ lost' = lost \cup {m.handle : m \in ToSet(queue[l])}
      /\ asked' = asked /\ pending' = pending /\ results' = results
  BY DEF Panic
<1>6. PICK k : k = [d.queue EXCEPT ![l] = <<>>]
  OBVIOUS
<1>7. /\ e.pool = d.pool /\ e.queue = k
      /\ e.lost = d.lost \cup {m.handle : m \in ToSet(d.queue[l])}
  BY <1>2, <1>4, <1>5, <1>6
<1>8. Accounts(e, asked, pending, results)
  BY <1>2, <1>4, <1>6, <1>7, PanicAccounts
<1>9. Counted'
  BY <1>3, <1>5, <1>8 DEF Counted
<1>10. Machines'
  BY DEF Panic, Machines, Keep, Blank
<1> QED  BY <1>9, <1>10

\* What a worker computes with, and what is kept of it.
LEMMA InstancesTyped ==
  ASSUME Machines, NEW l \in Lanes, NEW m \in Items, NEW f, NEW i \in Instances(l, m, f)
  PROVE  i.warm \in Scores \cup {None} /\ i.belief \in [sig : Signatures \cup {None}, ref : Refs \cup {None}]
<1>1. m.task \in Tasks /\ m.backend \in Backends
  BY DEF Items
<1>2. Signature(m) \in Signatures
  BY <1>1 DEF Signature, Signatures
<1>3. warm[l] \in Scores \cup {None} /\ belief[l] \in [sig : Signatures \cup {None}, ref : Refs \cup {None}]
  BY DEF Machines
<1>4. CASE i = [warm |-> warm[l], belief |-> belief[l], error |-> FALSE]
  BY <1>3, <1>4
<1>5. CASE i = Built(m)
  BY <1>1, <1>2, <1>5 DEF Built, Scores
<1>6. CASE i = Unbuilt(l)
  BY <1>3, <1>6 DEF Unbuilt
<1> QED  BY <1>4, <1>5, <1>6 DEF Instances

\* The same once the reference is settled.
LEMMA ReferencesTyped ==
  ASSUME NEW m \in Items, NEW i, i.warm \in Scores,
         i.belief \in [sig : Signatures \cup {None}, ref : Refs \cup {None}],
         NEW f, NEW j \in References(i, m, f)
  PROVE  /\ j.warm \in Scores /\ j.belief \in [sig : Signatures \cup {None}, ref : Refs \cup {None}]
         /\ Score(j) \in Scores
<1>1. Ref[m.task] \in Refs
  BY DEF Items, Refs
<1>2. j \in {Regular(i, Ref[m.task]), Cached(i), Installed(i, Ref[m.task])}
  BY DEF References
<1>3. /\ i.warm.sig \in Signatures /\ i.warm.params \in {Params[t] : t \in Tasks}
      /\ i.warm.ref \in Refs \cup {None} /\ i.belief.sig \in Signatures \cup {None}
      /\ i.belief.ref \in Refs \cup {None}
  BY DEF Scores
<1>4. ASSUME NEW a \in Refs \cup {None}, NEW b \in Refs \cup {None}, NEW w \in Refs \cup {None},
             j = Holding(i, a, b, w)
      PROVE  /\ j.warm \in Scores /\ j.belief \in [sig : Signatures \cup {None}, ref : Refs \cup {None}]
             /\ Score(j) \in Scores
  <2>1. j.warm = [sig |-> i.warm.sig, params |-> i.warm.params, ref |-> a]
    BY <1>4 DEF Holding
  <2>2. j.belief = [sig |-> i.belief.sig, ref |-> b] /\ j.with = w
    BY <1>4 DEF Holding
  <2>3. j.warm \in Scores
    BY <1>3, <2>1 DEF Scores
  <2>4. Score(j) \in Scores
    BY <1>3, <2>1, <2>2 DEF Score, Scores
  <2> QED  BY <1>3, <2>2, <2>3, <2>4
<1> QED  BY <1>1, <1>2, <1>3, <1>4 DEF Regular, Cached, Installed

\* A worker answers an item and keeps something of the kind it had.
Finishes(l, m) ==
  \E k, error, score, n :
    /\ k.warm \in Scores \cup {None} /\ k.belief \in [sig : Signatures \cup {None}, ref : Refs \cup {None}]
    /\ error \in {"no", "construct", "lost", "compute", "oom"} /\ score \in Scores \cup {None}
    /\ n \in Nat
    /\ Keep(l, k) /\ Send(m, error, score) /\ Fail(n)

\* A worker's task.
LEMMA WorkStep ==
  ASSUME Counted, Machines, NEW l \in Lanes, Work(l)
  PROVE  Counted' /\ Machines'
<1>1. PICK d : d = Dispatcher
  OBVIOUS
<1>2. /\ d.pool = pool /\ d.queue = queue /\ d.lost = lost /\ Accounts(d, asked, pending, results) /\ d \in Dispatchers
      /\ queue[l] # <<>> /\ queue \in [Lanes -> Seq(Items)]
  BY <1>1 DEF Dispatcher, Counted, Accounts, Sound, Work, Dispatchers
<1>3. PICK m : m = Head(queue[l])
  OBVIOUS
<1>4. m \in Items
  <2>1. queue[l] \in Seq(Items)
    BY <1>2
  <2> QED  BY <1>2, <1>3, <2>1
<1>5. PICK mayFail : mayFail = (faults < MaxFaults)
  OBVIOUS
<1>6. PICK i \in Instances(l, m, mayFail) :
        \/ i.error /\ Keep(l, i) /\ Send(m, "construct", None) /\ Fail(1)
        \/ ~i.error /\ i.warm = None /\ Keep(l, i) /\ Send(m, "lost", None) /\ Fail(0)
        \/ /\ ~i.error /\ i.warm # None
           /\ \E j \in References(i, m, mayFail) :
              LET refused == IF m.cached /\ j.belief.ref = None /\ i.warm.sig \in Caching THEN 1 ELSE 0
              IN  \/ Keep(l, j) /\ Send(m, "no", Score(j)) /\ Fail(refused)
                  \/ Keep(l, j) /\ Send(m, "compute", None) /\ Fail(refused + 1)
                  \/ Keep(l, Blank) /\ Send(m, "oom", None) /\ Fail(refused + 1)
  BY <1>3, <1>5 DEF Work
<1>7. i.warm \in Scores \cup {None} /\ i.belief \in [sig : Signatures \cup {None}, ref : Refs \cup {None}]
  BY <1>4, InstancesTyped
<1>8. Finishes(l, m)
  <2>1. CASE i.error /\ Keep(l, i) /\ Send(m, "construct", None) /\ Fail(1)
    BY <1>7, <2>1 DEF Finishes
  <2>2. CASE ~i.error /\ i.warm = None /\ Keep(l, i) /\ Send(m, "lost", None) /\ Fail(0)
    BY <1>7, <2>2 DEF Finishes
  <2>3. ASSUME ~i.error, i.warm # None, NEW j \in References(i, m, mayFail), NEW n \in Nat,
               \/ Keep(l, j) /\ Send(m, "no", Score(j)) /\ Fail(n)
               \/ Keep(l, j) /\ Send(m, "compute", None) /\ Fail(n + 1)
               \/ Keep(l, Blank) /\ Send(m, "oom", None) /\ Fail(n + 1)
        PROVE  Finishes(l, m)
    <3>1. /\ j.warm \in Scores /\ j.belief \in [sig : Signatures \cup {None}, ref : Refs \cup {None}]
          /\ Score(j) \in Scores
      BY <1>4, <1>7, <2>3, ReferencesTyped
    <3>2. CASE Keep(l, j) /\ Send(m, "no", Score(j)) /\ Fail(n)
      BY <3>1, <3>2 DEF Finishes
    <3>3. CASE Keep(l, j) /\ Send(m, "compute", None) /\ Fail(n + 1)
      <4>1. n + 1 \in Nat
        BY <2>3
      <4> QED  BY <3>1, <3>3, <4>1 DEF Finishes
    <3>4. CASE Keep(l, Blank) /\ Send(m, "oom", None) /\ Fail(n + 1)
      <4>1. n + 1 \in Nat
        BY <2>3
      <4>2. Blank.warm \in Scores \cup {None} /\ Blank.belief \in [sig : Signatures \cup {None}, ref : Refs \cup {None}]
        BY DEF Blank
      <4> QED  BY <3>4, <4>1, <4>2 DEF Finishes
    <3> QED  BY <2>3, <3>2, <3>3, <3>4
  <2>4. ASSUME ~i.error, i.warm # None, NEW j \in References(i, m, mayFail),
               LET refused == IF m.cached /\ j.belief.ref = None /\ i.warm.sig \in Caching THEN 1 ELSE 0
               IN  \/ Keep(l, j) /\ Send(m, "no", Score(j)) /\ Fail(refused)
                   \/ Keep(l, j) /\ Send(m, "compute", None) /\ Fail(refused + 1)
                   \/ Keep(l, Blank) /\ Send(m, "oom", None) /\ Fail(refused + 1)
        PROVE  Finishes(l, m)
    <3>1. PICK n \in Nat : n = IF m.cached /\ j.belief.ref = None /\ i.warm.sig \in Caching THEN 1 ELSE 0
      OBVIOUS
    <3>2. \/ Keep(l, j) /\ Send(m, "no", Score(j)) /\ Fail(n)
          \/ Keep(l, j) /\ Send(m, "compute", None) /\ Fail(n + 1)
          \/ Keep(l, Blank) /\ Send(m, "oom", None) /\ Fail(n + 1)
      BY <2>4, <3>1
    <3> QED  BY <2>3, <2>4, <3>2
  <2> QED  BY <1>6, <2>1, <2>2, <2>4
<1>9. PICK k, error, score, n :
        /\ k.warm \in Scores \cup {None} /\ k.belief \in [sig : Signatures \cup {None}, ref : Refs \cup {None}]
        /\ error \in {"no", "construct", "lost", "compute", "oom"} /\ score \in Scores \cup {None}
        /\ n \in Nat
        /\ Keep(l, k) /\ Send(m, error, score) /\ Fail(n)
  BY <1>8 DEF Finishes
<1>10. PICK r : r = [handle |-> m.handle, task |-> m.task, error |-> error, score |-> score]
  OBVIOUS
<1>11. r \in Answers /\ r.handle = m.handle /\ r.task = m.task /\ results' = Append(results, r)
  BY <1>4, <1>9, <1>10 DEF Answers, Items, Send
<1>12. PICK q : q = queue'
  OBVIOUS
<1>13. q = [d.queue EXCEPT ![l] = Tail(@)]
  BY <1>2, <1>12 DEF Work
<1>14. Accounts([d EXCEPT !.queue = q], asked, pending, Append(results, r))
  <2>1. d.queue[l] # <<>> /\ r.handle = Head(d.queue[l]).handle /\ r.task = Head(d.queue[l]).task
    BY <1>2, <1>3, <1>11
  <2> QED  BY <1>2, <1>11, <1>13, <2>1, WorkAccounts
<1>15. Dispatcher' = [d EXCEPT !.queue = q]
  <2>1. pool' = pool /\ lost' = lost
    BY DEF Work
  <2> QED  BY <1>1, <1>12, <2>1 DEF Dispatcher
<1>16. Counted'
  <2>1. asked' = asked /\ pending' = pending
    BY DEF Work
  <2> QED  BY <1>11, <1>14, <1>15, <2>1 DEF Counted
<1>17. Machines'
  <2>1. warm' \in [Lanes -> Scores \cup {None}]
    BY <1>9 DEF Keep, Machines
  <2>2. belief' \in [Lanes -> [sig : Signatures \cup {None}, ref : Refs \cup {None}]]
    BY <1>9 DEF Keep, Machines
  <2>3. faults' \in 0..MaxFaults
    BY <1>9, Sizes DEF Fail, Machines
  <2> QED  BY <2>1, <2>2, <2>3 DEF Work, Machines
<1> QED  BY <1>16, <1>17

\* Every step.
LEMMA NextCounted ==
  ASSUME Counted, Machines, [Next]_vars
  PROVE  Counted' /\ Machines'
<1>1. CASE UNCHANGED vars
  BY <1>1 DEF vars, Counted, Dispatcher, Machines
<1>2. CASE \E t \in Tasks : Submit(t)
  BY <1>2, SubmitStep
<1>3. CASE \E t, u \in Tasks : RunAll(t, u)
  BY <1>3, RunAllStep
<1>4. CASE Flush
  BY <1>4, FlushStep
<1>5. CASE Poll
  BY <1>5, PollStep
<1>6. CASE AwaitAny \/ Drop
  BY <1>6, CallStep
<1>7. CASE LaneTick
  BY <1>7, LaneTickStep
<1>8. CASE TakeNext
  BY <1>8, TakeNextStep
<1>9. CASE Receive
  BY <1>9, ReceiveStep
<1>10. ASSUME NEW l \in Lanes, Work(l) PROVE Counted' /\ Machines'
  BY <1>10, WorkStep
<1>11. ASSUME NEW l \in Lanes, Panic(l) PROVE Counted' /\ Machines'
  BY <1>11, PanicStep
<1> QED  BY <1>1, <1>2, <1>3, <1>4, <1>5, <1>6, <1>7, <1>8, <1>9, <1>10, <1>11 DEF Next, Calls

\* The accounts are right throughout.
LEMMA AlwaysCounted == Spec => [](Counted /\ Machines)
<1>1. Init => Counted /\ Machines
  BY InitCounted
<1>2. (Counted /\ Machines) /\ [Next]_vars => (Counted /\ Machines)'
  BY NextCounted
<1> QED  BY <1>1, <1>2, PTL DEF Spec

\* Every variable has its type, the counters are paced by the handles given out, the
\* window stays below its size and the detector's memory within its own (pool.rs submit,
\* flush_pending_internal, CachedRefCache::observe).
THEOREM PoolTypeCorrect == Spec => []TypeOK
<1>1. Counted /\ Machines => TypeOK
  BY AccountsTyped
<1> QED  BY <1>1, AlwaysCounted, PTL

\* How many elements of a sequence carry a handle.
LEMMA CountIn ==
  ASSUME NEW S, NEW s \in Seq(S), NEW h
  PROVE  /\ NoneIn(s, h) => Cardinality({i \in DOMAIN s : s[i].handle = h}) = 0
         /\ OnceIn(s, h) => Cardinality({i \in DOMAIN s : s[i].handle = h}) = 1
<1>1. ASSUME NoneIn(s, h) PROVE {i \in DOMAIN s : s[i].handle = h} = {}
  BY <1>1 DEF NoneIn
<1>2. ASSUME OnceIn(s, h) PROVE \E i : {k \in DOMAIN s : s[k].handle = h} = {i}
  BY <1>2 DEF OnceIn
<1> QED  BY <1>1, <1>2, FS_EmptySet, FS_Singleton

\* The same of the queues together.
LEMMA CountQueued ==
  ASSUME NEW h
  PROVE  /\ NoneQueued(queue, h) => Cardinality(Queued(h)) = 0
         /\ OnceQueued(queue, h) => Cardinality(Queued(h)) = 1
<1>1. ASSUME NoneQueued(queue, h) PROVE Queued(h) = {}
  BY <1>1 DEF NoneQueued, NoneIn, Queued
<1>2. ASSUME OnceQueued(queue, h) PROVE \E x : Queued(h) = {x}
  <2>1. PICK l \in Lanes : OnceIn(queue[l], h) /\ \A m \in Lanes \ {l} : NoneIn(queue[m], h)
    BY <1>2 DEF OnceQueued
  <2>2. PICK i \in DOMAIN queue[l] : queue[l][i].handle = h /\ \A k \in DOMAIN queue[l] : queue[l][k].handle = h => k = i
    BY <2>1 DEF OnceIn
  <2>3. ASSUME NEW x PROVE x \in Queued(h) <=> x = <<l, i>>
    <3>1. x \in Queued(h) <=> \E m \in Lanes : \E k \in DOMAIN queue[m] : queue[m][k].handle = h /\ x = <<m, k>>
      BY DEF Queued
    <3>2. \A m \in Lanes : \A k \in DOMAIN queue[m] : queue[m][k].handle = h => m = l /\ k = i
      BY <2>1, <2>2 DEF NoneIn
    <3> QED  BY <2>2, <3>1, <3>2
  <2>4. PICK p : p = <<l, i>>
    OBVIOUS
  <2>5. Queued(h) = {p}
    BY <2>3, <2>4
  <2> QED  BY <2>5
<1> QED  BY <1>1, <1>2, FS_EmptySet, FS_Singleton

\* A task that is not answered yet is in exactly one place, the window, one worker's
\* queue or the channel, unless it went down with a worker; an answered one is in none,
\* and its answer is its own (pool.rs submit, flush_pending_internal, drain_completed,
\* poll).
THEOREM HandlesStayAccounted == Spec => []HandlesAccounted
<1>1. ASSUME Counted, Machines PROVE HandlesAccounted
  <2>1. PICK d : d = Dispatcher
    OBVIOUS
  <2>2. /\ d.pool = pool /\ d.queue = queue /\ d.lost = lost /\ Apart(d, pending, results)
        /\ lost \subseteq Handles
        /\ pool.window \in Seq(Entries) /\ results \in Seq(Answers)
        /\ Rightly(results, asked) /\ OwnResults(asked, pending)
        /\ asked \in Seq(Tasks) /\ Len(asked) <= MaxHandles
    BY <1>1, <2>1 DEF Counted, Accounts, Dispatcher, Dispatchers, Sound, Windows
  <2>3. ASSUME NEW h
        PROVE  /\ NoneIn(pool.window, h) => Cardinality(Windowed(h)) = 0
               /\ OnceIn(pool.window, h) => Cardinality(Windowed(h)) = 1
               /\ NoneIn(results, h) => Cardinality(Answered(h)) = 0
               /\ OnceIn(results, h) => Cardinality(Answered(h)) = 1
               /\ NoneQueued(queue, h) => Cardinality(Queued(h)) = 0
               /\ OnceQueued(queue, h) => Cardinality(Queued(h)) = 1
    <3>1. PICK w : w = pool.window
      OBVIOUS
    <3>2. Windowed(h) = {i \in DOMAIN w : w[i].handle = h} /\ w \in Seq(Entries)
      BY <2>2, <3>1 DEF Windowed
    <3>3. /\ NoneIn(w, h) => Cardinality(Windowed(h)) = 0
          /\ OnceIn(w, h) => Cardinality(Windowed(h)) = 1
      BY <3>2, CountIn
    <3>4. PICK r : r = results
      OBVIOUS
    <3>5. Answered(h) = {i \in DOMAIN r : r[i].handle = h} /\ r \in Seq(Answers)
      BY <2>2, <3>4 DEF Answered
    <3>6. /\ NoneIn(r, h) => Cardinality(Answered(h)) = 0
          /\ OnceIn(r, h) => Cardinality(Answered(h)) = 1
      BY <3>5, CountIn
    <3> QED  BY <3>1, <3>3, <3>4, <3>6, CountQueued
  <2>4. ASSUME NEW h \in 1..Len(asked)
        PROVE  Cardinality(Windowed(h)) + Cardinality(Queued(h)) + Cardinality(Answered(h))
                 = IF h \in DOMAIN pending /\ pending[h] = Waiting /\ h \notin lost THEN 1 ELSE 0
    <3>1. h \in Handles
      BY <2>2, Sizes DEF Handles
    <3>2. CASE Waits(pending, h)
      <4>1. \/ Held(d, h) /\ NoneIn(results, h)
            \/ Gone(d, h) /\ OnceIn(results, h)
        BY <2>2, <3>1, <3>2 DEF Apart
      <4>2. CASE h \notin lost
        <5>1. Cardinality(Windowed(h)) + Cardinality(Queued(h)) + Cardinality(Answered(h)) = 1
          BY <2>2, <2>3, <4>1, <4>2 DEF Held, Gone, NoneOut, OnceOut
        <5> QED  BY <3>2, <4>2, <5>1 DEF Waits
      <4>3. CASE h \in lost
        <5>1. Cardinality(Windowed(h)) + Cardinality(Queued(h)) + Cardinality(Answered(h)) = 0
          BY <2>2, <2>3, <4>1, <4>3 DEF Held, Gone, NoneOut, OnceOut
        <5> QED  BY <4>3, <5>1
      <4> QED  BY <4>2, <4>3
    <3>3. CASE ~Waits(pending, h)
      <4>1. Gone(d, h) /\ NoneIn(results, h)
        BY <2>2, <3>1, <3>3 DEF Apart
      <4>2. Cardinality(Windowed(h)) + Cardinality(Queued(h)) + Cardinality(Answered(h)) = 0
        BY <2>2, <2>3, <4>1 DEF Gone, NoneOut
      <4> QED  BY <3>3, <4>2 DEF Waits
    <3> QED  BY <3>2, <3>3
  <2>5. ASSUME NEW r \in Arrived PROVE r.task = asked[r.handle]
    <3>1. CASE r \in ToSet(results)
      <4>1. PICK i \in DOMAIN results : r = results[i]
        BY <3>1 DEF ToSet
      <4> QED  BY <2>2, <4>1 DEF Rightly
    <3>2. CASE r \in {pending[h] : h \in Ready(pending)}
      <4>1. PICK h \in Ready(pending) : r = pending[h]
        BY <3>2
      <4> QED  BY <2>2, <4>1 DEF OwnResults, Ready
    <3> QED  BY <3>1, <3>2 DEF Arrived
  <2>6. ASSUME NEW h \in lost PROVE h \in DOMAIN pending /\ pending[h] = Waiting
    <3>1. ~Gone(d, h)
      BY <2>2, <2>6 DEF Gone, NoneOut
    <3>2. Waits(pending, h)
      BY <2>2, <2>6, <3>1 DEF Apart
    <3> QED  BY <3>2 DEF Waits
  <2> QED  BY <2>4, <2>5, <2>6 DEF HandlesAccounted
<1>2. Counted /\ Machines => HandlesAccounted
  BY <1>1
<1> QED  BY <1>2, AlwaysCounted, PTL

-----------------------------------------------------------------------------
(* The pool implements what it promises its caller.                          *)

\* What each slot shows: nothing came, its own result came, the channel is empty.
LEMMA StashedWhere ==
  ASSUME NEW h \in DOMAIN pending
  PROVE  /\ NoneIn(results, h) => Stashed[h] = pending[h]
         /\ ~NoneIn(results, h) => \E i \in DOMAIN results : Stashed[h] = results[i] /\ results[i].handle = h
<1> DEFINE mine == {r \in ToSet(results) : r.handle = h}
<1>1. Stashed[h] = IF mine = {} THEN pending[h] ELSE CHOOSE r \in mine : TRUE
  BY DEF Stashed
<1>2. ASSUME NoneIn(results, h) PROVE Stashed[h] = pending[h]
  <2>1. mine = {}
    BY <1>2 DEF NoneIn, ToSet
  <2> QED  BY <1>1, <2>1
<1>3. ASSUME ~NoneIn(results, h)
      PROVE  \E i \in DOMAIN results : Stashed[h] = results[i] /\ results[i].handle = h
  <2>1. mine # {}
    BY <1>3 DEF NoneIn, ToSet
  <2>2. PICK mm : mm = mine
    OBVIOUS
  <2>3. mm # {} /\ Stashed[h] = CHOOSE r \in mm : TRUE
    BY <1>1, <2>1, <2>2
  <2>4. Stashed[h] \in mm
    BY <2>3
  <2>5. Stashed[h] \in mine
    BY <2>2, <2>4
  <2> QED  BY <2>5 DEF ToSet
<1> QED  BY <1>2, <1>3

\* A slot of the mapping.
LEMMA SlotOf ==
  ASSUME NEW h \in 1..Len(asked)
  PROVE  Slots[h] = IF h \in DOMAIN pending THEN Stashed[h] ELSE None
BY DEF Slots

\* Once the channel was drained the slots themselves show the answers.
LEMMA DrainedSlots ==
  ASSUME results' = <<>>
  PROVE  Slots' = [h \in 1..Len(asked') |-> IF h \in DOMAIN pending' THEN pending'[h] ELSE None]
<1>1. Stashed' = [h \in DOMAIN pending' |-> pending'[h]]
  <2>1. ToSet(results') = {}
    BY DEF ToSet
  <2>2. \A h : {r \in ToSet(results') : r.handle = h} = {}
    BY <2>1
  <2> QED  BY <2>2 DEF Stashed
<1> QED  BY <1>1 DEF Slots

\* Draining the channel changes nothing for the caller who does not look (drain_completed).
LEMMA StashStutters ==
  ASSUME results' = <<>>, asked' = asked, pending' = Stashed
  PROVE  Slots' = Slots
<1>1. DOMAIN Stashed = DOMAIN pending
  BY DEF Stashed
<1>2. Slots' = [h \in 1..Len(asked) |-> IF h \in DOMAIN Stashed THEN Stashed[h] ELSE None]
  BY DrainedSlots
<1> QED  BY <1>1, <1>2 DEF Slots

\* One finished handle is answered and closed (poll, poll_any, poll_any_blocking).
LEMMA TakeCollects ==
  ASSUME Counted, results' = <<>>, asked' = asked, NEW h \in Ready(Stashed), pending' = Without(Stashed, h)
  PROVE  Service!Next \/ UNCHANGED Service!vars
<1>1. DOMAIN Stashed = DOMAIN pending
  BY DEF Stashed
<1>2. h \in DOMAIN Stashed /\ Stashed[h] # Waiting
  BY DEF Ready
<1>3. h \in 1..Len(asked)
  BY <1>1, <1>2 DEF Counted, Accounts, OwnResults
<1>4. Slots[h] = Stashed[h]
  BY <1>1, <1>2, <1>3, SlotOf
<1>5. DOMAIN pending' = DOMAIN Stashed \ {h} /\ \A g \in DOMAIN pending' : pending'[g] = Stashed[g]
  BY DEF Without
<1>6. Slots' = [Slots EXCEPT ![h] = None]
  <2>1. Slots' = [g \in 1..Len(asked) |-> IF g \in DOMAIN pending' THEN pending'[g] ELSE None]
    BY DrainedSlots
  <2>2. DOMAIN Slots = 1..Len(asked)
    BY DEF Slots
  <2>3. ASSUME NEW g \in 1..Len(asked)
        PROVE  (IF g \in DOMAIN pending' THEN pending'[g] ELSE None) = [Slots EXCEPT ![h] = None][g]
    BY <1>1, <1>5, <2>2, <2>3, SlotOf
  <2> QED  BY <2>1, <2>2, <2>3
<1>7. CASE Stashed[h] = None
  <2>1. Slots' = Slots
    BY <1>4, <1>6, <1>7 DEF Slots
  <2> QED  BY <2>1 DEF Service!vars
<1>8. CASE Stashed[h] # None
  <2>1. Service!Collect(h)
    BY <1>2, <1>4, <1>6, <1>8 DEF Service!Collect
  <2> QED  BY <1>3, <2>1 DEF Service!Next
<1> QED  BY <1>7, <1>8

\* Handles are given out; those that exist keep what they show (submit, run_all).
LEMMA OpenSubmits ==
  ASSUME Counted, NEW tasks \in Seq(Tasks), Len(asked) + Len(tasks) <= MaxHandles,
         asked' = asked \o tasks, results' = results,
         pending' = Opened(pending, {h \in 1..(Len(asked) + Len(tasks)) : h > Len(asked)})
  PROVE  Service!Submit(tasks)
<1>1. /\ asked \in Seq(Tasks) /\ Len(asked) \in Nat /\ Len(tasks) \in Nat
      /\ DOMAIN asked = 1..Len(asked) /\ DOMAIN pending \subseteq 1..Len(asked)
      /\ Rightly(results, asked)
  BY DEF Counted, Accounts, OwnResults
<1>2. PICK n \in Nat : n = Len(asked)
  BY <1>1
<1>3. PICK k \in Nat : k = Len(tasks)
  BY <1>1
<1>4. Len(asked') = n + k
  BY <1>1, <1>2, <1>3
<1>5. PICK new : new = {h \in 1..(n + k) : h > n}
  OBVIOUS
<1>6. /\ DOMAIN pending' = DOMAIN pending \cup new
      /\ \A h \in DOMAIN pending' : pending'[h] = IF h \in DOMAIN pending THEN pending[h] ELSE Waiting
  BY <1>2, <1>3, <1>5 DEF Opened
<1>7. ASSUME NEW h \in 1..n
      PROVE  Slots'[h] = Slots[h]
  <2>1. h \in 1..(n + k) /\ h \notin new
    BY <1>2, <1>3, <1>5
  <2>2. h \in DOMAIN pending' <=> h \in DOMAIN pending
    BY <1>6, <2>1
  <2>3. ASSUME h \in DOMAIN pending PROVE Stashed'[h] = Stashed[h]
    BY <1>6, <2>2, <2>3 DEF Stashed
  <2>4. Slots'[h] = IF h \in DOMAIN pending' THEN Stashed'[h] ELSE None
    BY <1>4, <2>1 DEF Slots
  <2> QED  BY <1>2, <2>2, <2>3, <2>4, SlotOf
<1>8. ASSUME NEW h \in new
      PROVE  Slots'[h] = Waiting
  <2>1. h \in 1..(n + k) /\ h \notin 1..n
    BY <1>2, <1>3, <1>5
  <2>2. h \in DOMAIN pending' /\ pending'[h] = Waiting
    BY <1>1, <1>2, <1>6, <2>1
  <2>3. {r \in ToSet(results') : r.handle = h} = {}
    <3>1. \A i \in DOMAIN results : results[i].handle # h
      BY <1>1, <1>2, <2>1 DEF Rightly
    <3> QED  BY <3>1 DEF ToSet
  <2>4. Stashed'[h] = Waiting
    BY <2>2, <2>3 DEF Stashed
  <2> QED  BY <1>4, <2>1, <2>2, <2>4 DEF Slots
<1>9. Slots' = [h \in 1..(n + k) |-> IF h <= n THEN Slots[h] ELSE Waiting]
  <2>1. DOMAIN Slots' = 1..(n + k) /\ Slots' = [h \in 1..(n + k) |-> Slots'[h]]
    BY <1>4 DEF Slots
  <2>2. ASSUME NEW h \in 1..(n + k) PROVE Slots'[h] = IF h <= n THEN Slots[h] ELSE Waiting
    <3>1. CASE h <= n
      <4>1. h \in 1..n
        BY <1>2, <1>3, <3>1
      <4> QED  BY <1>7, <3>1, <4>1
    <3>2. CASE ~(h <= n)
      <4>1. h \in new
        BY <1>2, <1>3, <1>5, <3>2
      <4> QED  BY <1>8, <3>2, <4>1
    <3> QED  BY <3>1, <3>2
  <2> QED  BY <2>1, <2>2
<1> QED  BY <1>2, <1>3, <1>9 DEF Service!Submit

\* What a worker sends: a failure without a score, or a score of the task's own.
Sends(m, e, s) ==
  \/ e \in Service!Errors /\ s = None
  \/ e = "no" /\ s \in Scores /\ Service!Own(s, m.task)

\* A worker answers in one of these ways (gpu_worker_main, cpu_worker_main).
LEMMA WorkSends ==
  ASSUME IInv, Machines, NEW l \in Lanes, Head(queue[l]) \in Items, Work(l)
  PROVE  \E e, s : Sends(Head(queue[l]), e, s) /\ Send(Head(queue[l]), e, s)
<1>1. PICK m \in Items : m = Head(queue[l])
  OBVIOUS
<1>2. PICK mayFail \in BOOLEAN : mayFail = (faults < MaxFaults)
  <2>1. (faults < MaxFaults) \in BOOLEAN
    OBVIOUS
  <2> QED  BY <2>1, Zenon
<1>3. PICK i \in Instances(l, m, mayFail) :
        \/ i.error /\ Send(m, "construct", None)
        \/ ~i.error /\ i.warm = None /\ Send(m, "lost", None)
        \/ /\ ~i.error /\ i.warm # None
           /\ \E j \in References(i, m, mayFail) :
                \/ Send(m, "no", Score(j))
                \/ Send(m, "compute", None)
                \/ Send(m, "oom", None)
  BY <1>1, <1>2 DEF Work
<1>4. \A e \in Service!Errors : Sends(m, e, None)
  BY DEF Sends
<1>5. {"construct", "lost", "compute", "oom"} = Service!Errors
  BY DEF Service!Errors
<1>6. ASSUME ~i.error, i.warm # None, NEW j \in References(i, m, mayFail)
      PROVE  Sends(m, "no", Score(j))
  <2>1. Coherent(i.warm, i.belief) /\ i.warm.sig = Signature(m)
    BY <1>6, InstanceFits DEF IInv
  <2>2. i.warm \in Scores /\ i.belief \in [sig : Signatures \cup {None}, ref : Refs \cup {None}]
    BY <1>6, InstancesTyped
  <2>3. Score(j) \in Scores
    BY <1>6, <2>2, ReferencesTyped
  <2>4. j.with = Ref[m.task] /\ j.warm.sig = i.warm.sig
    BY <1>6, <2>1, ReferenceOwn
  <2>5. Score(j).ref = Ref[m.task] /\ Score(j).sig.shape = Shape[m.task]
    BY <2>1, <2>4 DEF Score, Signature
  <2> QED  BY <2>3, <2>5 DEF Sends, Service!Own
<1>7. \E e, s : Sends(m, e, s) /\ Send(m, e, s)
  <2>1. CASE Send(m, "construct", None) \/ Send(m, "lost", None) \/ Send(m, "compute", None) \/ Send(m, "oom", None)
    BY <1>4, <1>5, <2>1
  <2>2. CASE \E j \in References(i, m, mayFail) : ~i.error /\ i.warm # None /\ Send(m, "no", Score(j))
    BY <1>6, <2>2
  <2> QED  BY <1>3, <2>1, <2>2
<1> QED  BY <1>1, <1>7

\* The answer reaches its handle, which waited for it, and no other.
LEMMA WorkFinishes ==
  ASSUME IInv, Counted, Machines, NEW l \in Lanes, Work(l)
  PROVE  Service!Next
<1>1. /\ queue \in [Lanes -> Seq(Items)] /\ queue[l] \in Seq(Items) /\ queue[l] # <<>>
      /\ asked' = asked /\ pending' = pending /\ results \in Seq(Answers)
      /\ asked \in Seq(Tasks) /\ Len(asked) \in Nat /\ DOMAIN asked = 1..Len(asked) /\ Len(asked) <= MaxHandles
  BY DEF Counted, Accounts, Sound, Dispatchers, Dispatcher, Work
<1>2. PICK m \in Items : m = Head(queue[l]) /\ m = queue[l][1] /\ 1 \in DOMAIN queue[l]
  BY <1>1
<1>3. PICK e, s : Sends(m, e, s) /\ Send(m, e, s)
  BY <1>2, WorkSends
<1>4. Rightly(queue[l], asked)
  BY DEF Counted, Accounts, Sound, Dispatcher
<1>5. PICK h : h = m.handle
  OBVIOUS
<1>6. h \in 1..Len(asked) /\ m.task = asked[h] /\ h \in Handles
  BY <1>1, <1>2, <1>4, <1>5, Sizes DEF Rightly, Handles
<1>7. Waits(pending, h) /\ NoneIn(results, h)
  <2>1. Apart(Dispatcher, pending, results)
    BY DEF Counted, Accounts
  <2>2. ~Gone(Dispatcher, h)
    <3>1. ~NoneIn(queue[l], h)
      BY <1>2, <1>5 DEF NoneIn
    <3> QED  BY <3>1 DEF Gone, NoneOut, NoneQueued, Dispatcher
  <2> QED  BY <1>6, <2>1, <2>2 DEF Apart
<1>8. h \in DOMAIN pending /\ Slots[h] = Waiting
  <2>1. h \in DOMAIN pending /\ pending[h] = Waiting
    BY <1>7 DEF Waits
  <2>2. Stashed[h] = Waiting
    BY <1>7, <2>1, StashedWhere
  <2> QED  BY <1>6, <2>1, <2>2, SlotOf
<1>9. PICK r : r = [handle |-> h, task |-> asked[h], error |-> e, score |-> s]
  OBVIOUS
<1>10. results' = Append(results, r) /\ r.handle = h
  BY <1>3, <1>5, <1>6, <1>9 DEF Send
<1>11. ToSet(results') = ToSet(results) \cup {r}
  <2>1. /\ DOMAIN results = 1..Len(results) /\ Len(results) \in Nat
        /\ DOMAIN results' = 1..(Len(results) + 1) /\ results'[Len(results) + 1] = r
        /\ \A i \in DOMAIN results : results'[i] = results[i]
    BY <1>1, <1>10
  <2>2. \A i \in DOMAIN results' : i \in DOMAIN results \/ i = Len(results) + 1
    BY <2>1
  <2>3. DOMAIN results \subseteq DOMAIN results' /\ Len(results) + 1 \in DOMAIN results'
    BY <2>1
  <2> QED  BY <2>1, <2>2, <2>3 DEF ToSet
<1>12. Stashed'[h] = r
  <2>1. \A x \in ToSet(results) : x.handle # h
    BY <1>7 DEF NoneIn, ToSet
  <2>2. {x \in ToSet(results') : x.handle = h} = {r}
    BY <1>10, <1>11, <2>1
  <2>3. Stashed'[h] = CHOOSE x \in {r} : TRUE
    BY <1>1, <1>8, <2>2 DEF Stashed
  <2> QED  BY <2>3
<1>13. ASSUME NEW g \in DOMAIN pending, g # h
       PROVE  Stashed'[g] = Stashed[g]
  <2>1. {x \in ToSet(results') : x.handle = g} = {x \in ToSet(results) : x.handle = g}
    BY <1>10, <1>11, <1>13
  <2>2. PICK mine : mine = {x \in ToSet(results) : x.handle = g}
    OBVIOUS
  <2>3. Stashed[g] = IF mine = {} THEN pending[g] ELSE CHOOSE x \in mine : TRUE
    BY <1>13, <2>2 DEF Stashed
  <2>4. mine = {x \in ToSet(results') : x.handle = g} /\ g \in DOMAIN pending'
    BY <1>1, <1>13, <2>1, <2>2
  <2>5. Stashed'[g] = IF mine = {} THEN pending'[g] ELSE CHOOSE x \in mine : TRUE
    BY <2>4 DEF Stashed
  <2> QED  BY <1>1, <2>3, <2>5
<1>14. Slots' = [Slots EXCEPT ![h] = r]
  <2>1. DOMAIN Slots = 1..Len(asked)
    BY DEF Slots
  <2>2. Slots' = [g \in 1..Len(asked) |-> IF g \in DOMAIN pending THEN Stashed'[g] ELSE None]
    BY <1>1 DEF Slots
  <2>3. ASSUME NEW g \in 1..Len(asked)
        PROVE  (IF g \in DOMAIN pending THEN Stashed'[g] ELSE None) = [Slots EXCEPT ![h] = r][g]
    BY <1>8, <1>12, <1>13, <2>1, <2>3, SlotOf
  <2> QED  BY <2>1, <2>2, <2>3
<1>15. Service!Finish(h, r)
  BY <1>1, <1>8, <1>14 DEF Service!Finish
<1>16. \/ e \in Service!Errors /\ r = Service!Failure(h, e)
       \/ s \in Scores /\ Service!Own(s, asked[h]) /\ r = Service!Success(h, s)
  BY <1>3, <1>6, <1>9 DEF Sends, Service!Failure, Service!Success
<1> QED  BY <1>6, <1>15, <1>16 DEF Service!Next

\* The caller's steps.
LEMMA CallerServes ==
  ASSUME Counted, Calls \/ TakeNext \/ Receive
  PROVE  Service!Next \/ UNCHANGED Service!vars
<1>1. Len(asked) \in Nat /\ asked \in Seq(Tasks)
  BY DEF Counted, Accounts
<1>2. ASSUME NEW t \in Tasks, Submit(t) PROVE Service!Next
  <2>1. PICK tasks \in Seq(Tasks) : tasks = <<t>> /\ Len(tasks) = 1
    <3>1. <<t>> \in Seq(Tasks) /\ Len(<<t>>) = 1
      OBVIOUS
    <3> QED  BY <3>1
  <2>2. {h \in 1..(Len(asked) + Len(tasks)) : h > Len(asked)} = {Len(asked) + 1}
    BY <1>1, <2>1
  <2>3. asked' = asked \o tasks
    BY <1>1, <1>2, <2>1 DEF Submit
  <2>4. Len(asked) + Len(tasks) <= MaxHandles
    BY <1>1, <1>2, <2>1, Sizes DEF Submit
  <2>5. results' = results /\ pending' = Opened(pending, {Len(asked) + 1})
    BY <1>2 DEF Submit
  <2>6. Service!Submit(tasks)
    BY <2>2, <2>3, <2>4, <2>5, OpenSubmits
  <2> QED  BY <2>1, <2>6 DEF Service!Next
<1>3. ASSUME NEW t \in Tasks, NEW u \in Tasks, RunAll(t, u) PROVE Service!Next
  <2>1. PICK tasks \in Seq(Tasks) : tasks = <<t, u>> /\ Len(tasks) = 2
    <3>1. <<t, u>> \in Seq(Tasks) /\ Len(<<t, u>>) = 2
      OBVIOUS
    <3> QED  BY <3>1
  <2>2. {h \in 1..(Len(asked) + Len(tasks)) : h > Len(asked)} = {Len(asked) + 1, Len(asked) + 2}
    BY <1>1, <2>1
  <2>3. /\ asked' = asked \o tasks /\ Len(asked) + Len(tasks) <= MaxHandles
        /\ results' = results /\ pending' = Opened(pending, {Len(asked) + 1, Len(asked) + 2})
    BY <1>3, <2>1 DEF RunAll
  <2>4. Service!Submit(tasks)
    BY <2>2, <2>3, OpenSubmits
  <2> QED  BY <2>1, <2>4 DEF Service!Next
<1>4. CASE Flush \/ AwaitAny \/ Drop \/ LaneTick
  <2>1. asked' = asked /\ pending' = pending /\ results' = results
    BY <1>4 DEF Flush, AwaitAny, Drop, LaneTick
  <2> QED  BY <2>1 DEF Service!vars, Slots, Stashed
<1>5. CASE Poll
  <2>1. results' = <<>> /\ asked' = asked
    BY <1>5 DEF Poll
  <2>2. CASE pending' = Stashed
    BY <2>1, <2>2, StashStutters DEF Service!vars
  <2>3. CASE \E h \in Ready(Stashed) : pending' = Without(Stashed, h)
    BY <2>1, <2>3, TakeCollects
  <2> QED  BY <1>5, <2>2, <2>3 DEF Poll
<1>6. ASSUME results' = <<>>, asked' = asked, \E h \in Ready(Stashed) : Answer(Stashed, h)
      PROVE  Service!Next \/ UNCHANGED Service!vars
  BY <1>6, TakeCollects DEF Answer
<1>7. CASE TakeNext
  <2>1. results' = <<>> /\ asked' = asked
    BY <1>7 DEF TakeNext
  <2>2. CASE pending = <<>> /\ pending' = pending
    <3>1. Stashed = pending
      BY <2>2 DEF Stashed
    <3> QED  BY <2>1, <2>2, <3>1, StashStutters DEF Service!vars
  <2>3. CASE Ready(Stashed) = {} /\ pending' = pending
    <3>1. ASSUME NEW h \in 1..Len(asked)
          PROVE  Slots[h] = IF h \in DOMAIN pending THEN pending[h] ELSE None
      <4>1. CASE h \in DOMAIN pending
        <5>1. Stashed[h] = Waiting
          BY <2>3, <4>1 DEF Ready, Stashed
        <5>2. NoneIn(results, h) => Stashed[h] = pending[h]
          BY <4>1, StashedWhere
        <5>3. ~NoneIn(results, h) => pending[h] = Waiting
          <6>1. h \in Handles
            BY <1>1, Sizes DEF Counted, Accounts, Handles
          <6> QED  BY <6>1 DEF Counted, Accounts, Apart, Waits
        <5> QED  BY <4>1, <5>1, <5>2, <5>3, SlotOf
      <4>2. CASE h \notin DOMAIN pending
        BY <4>2, SlotOf
      <4> QED  BY <4>1, <4>2
    <3>2. Slots' = [h \in 1..Len(asked) |-> IF h \in DOMAIN pending THEN pending[h] ELSE None]
      BY <2>1, <2>3, DrainedSlots
    <3>3. Slots = [h \in 1..Len(asked) |-> Slots[h]]
      BY DEF Slots
    <3>4. Slots' = Slots
      BY <3>1, <3>2, <3>3
    <3> QED  BY <2>1, <3>4 DEF Service!vars
  <2> QED  BY <1>6, <1>7, <2>1, <2>2, <2>3 DEF TakeNext
<1>8. CASE Receive
  <2>1. results' = <<>> /\ asked' = asked
    BY <1>8 DEF Receive
  <2>2. CASE results = <<>> /\ pending' = pending
    BY <2>1, <2>2 DEF Service!vars, Slots, Stashed
  <2> QED  BY <1>6, <1>8, <2>1, <2>2 DEF Receive
<1> QED  BY <1>2, <1>3, <1>4, <1>5, <1>7, <1>8 DEF Calls

\* The caller gets one answer for each handle at most, its own, whatever is reordered,
\* cached, swapped and lost in between, and it does not change until it is collected
\* (pool.rs submit, poll, poll_any, poll_any_blocking, run_all).
THEOREM PoolServes == Spec => ImplementsService
<1>1. Init => Service!Init
  <2> SUFFICES ASSUME Init PROVE Service!Init
    OBVIOUS
  <2>1. asked = <<>> /\ Len(asked) = 0
    BY DEF Init
  <2>2. Slots = <<>>
    BY <2>1 DEF Slots
  <2> QED  BY <2>1, <2>2 DEF Service!Init
<1>2. IInv /\ Counted /\ Machines /\ [Next]_vars => [Service!Next]_(Service!vars)
  <2> SUFFICES ASSUME IInv, Counted, Machines, [Next]_vars PROVE Service!Next \/ UNCHANGED Service!vars
    OBVIOUS
  <2>1. CASE UNCHANGED vars
    BY <2>1 DEF vars, Service!vars, Slots, Stashed
  <2>2. CASE Calls \/ TakeNext \/ Receive
    BY <2>2, CallerServes
  <2>3. ASSUME NEW l \in Lanes, Work(l) PROVE Service!Next
    BY <2>3, WorkFinishes
  <2>4. ASSUME NEW l \in Lanes, Panic(l) PROVE UNCHANGED Service!vars
    BY <2>4 DEF Panic, Service!vars, Slots, Stashed
  <2> QED  BY <2>1, <2>2, <2>3, <2>4 DEF Next
<1> QED  BY <1>1, <1>2, InitIInv, NextKeeps, AlwaysCounted, PTL DEF Spec, ImplementsService, Service!Spec
=============================================================================
