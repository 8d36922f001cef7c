--------------------------- MODULE LocalFairProofs ---------------------------
(***************************************************************************)
(* Safety of the local fair executor for every manifest, pool, budget and  *)
(* bound on passes, failed file operations and kills: the running sum is   *)
(* the footprint of the producers and stays inside the box, no producer    *)
(* starts over an unresolved row, a marker is retired only when the ledger *)
(* shows its row, and a job's record advances one attempt at a time.       *)
(*                                                                         *)
(* The last three rest on where the rows of one job may be.  A job is in   *)
(* one place of a pass (ThreadInv, ChannelInv, PubInv), and until its row  *)
(* is published nothing of this pass is recorded of it (FreshInv); so the  *)
(* row that is written is one attempt later than what the ledger shows,    *)
(* and a marker holds the job's record or the one after it (RecInv).       *)
(***************************************************************************)
EXTENDS LocalFair, SumLemmas

\* Row b counts one attempt more than row a, made by a later pass.
Later(a, b) ==
  /\ b # NoRow
  /\ a = NoRow => b.attempts = 1
  /\ a # NoRow => a.status = "Failed" /\ b.attempts = a.attempts + 1 /\ b.ts > a.ts

\* A row an executor writes: made by a pass so far, with no more attempts than passes.
Sound(r) == r.status \in {"Done", "Failed", "Poison"} /\ r.attempts <= r.ts /\ r.ts <= pass

\* Every row is such a row.
RowInv ==
  /\ \A j \in Jobs : \A r \in {ledger[j], supplied[j], view[j], marker[j]} : r \in {NoRow, Torn} \/ Sound(r)
  /\ pub.step # "none" => pub.row \in Rows /\ Sound(pub.row)

\* Nothing of this pass is recorded of the job.
Fresh(j) == View(j) = view[j] /\ marker[j] = NoRow

\* The thread holds a job whose publication has not begun.
Holds(t) == pc[t] \in {"run", "done"} \/ (pc[t] = "wait" /\ pub.thread # t)

\* A thread holds a planned job exactly while it works on one, and no two hold the same.
ThreadInv ==
  \A t \in Threads :
    /\ pc[t] \in {"admit", "exit"} <=> job[t] = Nobody
    /\ pc[t] \in {"done", "wait"} => result[t] # Nobody
    /\ job[t] # Nobody => job[t] \in Plan("enqueue") \ pending
    /\ \A u \in Threads : t # u => job[t] = Nobody \/ job[t] # job[u]
    /\ phase # "serve" => pc[t] = "exit"

\* A message is from a thread that waits for its answer; each thread has one at most.
ChannelInv ==
  /\ \A i \in DOMAIN channel :
       /\ pc[channel[i].thread] = "wait" /\ job[channel[i].thread] = channel[i].of
       /\ channel[i].thread # pub.thread
       /\ \A k \in DOMAIN channel : k # i => channel[k].thread # channel[i].thread
  /\ phase # "serve" => channel = <<>>

\* The row being published is one attempt later than the view, for a job in no other place.
PubInv ==
  /\ pub.step = "none" => pub = NoPub
  /\ pub.thread # Nobody => pc[pub.thread] = "wait" /\ job[pub.thread] = pub.of
  /\ pub.step # "none" =>
       /\ phase # "down" /\ pub.of # Nobody
       /\ IF phase = "serve" THEN pub.thread # Nobody
          ELSE pub.thread = Nobody /\ pub.of \in Plan("poison") \ verdicts
       /\ pub.row.ts = pass /\ Later(view[pub.of], pub.row)
       /\ View(pub.of) \in {view[pub.of], pub.row}
       /\ marker[pub.of] \in {NoRow, Torn, pub.row}
       /\ pub.step = "archive" => ledger[pub.of] = pub.row

\* Nothing of this pass is recorded of a job that waits or that a thread holds.
FreshInv ==
  /\ pending \subseteq Plan("enqueue") /\ verdicts \subseteq Plan("poison")
  /\ \A j \in pending \cup verdicts : Fresh(j)
  /\ \A t \in Threads : Holds(t) => Fresh(job[t])

\* A row of the ledger is what the ledger shows, or an older failure.
Outdated(r, v) == r = NoRow \/ r = v \/ (r.status = "Failed" /\ r.ts < v.ts)

\* Older rows of the ledger are failures, and a marker is the job's record or the next one.
RecInv ==
  \A j \in Jobs :
    /\ Outdated(supplied[j], View(j)) /\ Outdated(ledger[j], View(j))
    /\ phase = "down" => marker[j] \in {NoRow, Torn, View(j)} \/ Later(View(j), marker[j])
    /\ phase # "down" =>
         /\ \A r \in {supplied[j], view[j]} : r # NoRow => r.ts < pass
         /\ \/ marker[j] \in {NoRow, Torn}
            \/ Later(view[j], marker[j]) /\ View(j) \in {view[j], marker[j]}

\* While the pass is not halted, only the row being published may lie in a marker.
HaltInv ==
  phase = "serve" => halted \/ \A j \in Jobs : marker[j] = NoRow \/ (pub.step # "none" /\ pub.of = j)

\* Between passes nothing waits, nothing is published and nothing is halted.
IdleInv ==
  /\ phase = "down" => pending = {} /\ verdicts = {} /\ pub.step = "none" /\ ~halted
  /\ phase # "down" => pass >= 1

\* The invariant of the proofs below.
Inv ==
  /\ TypeOK /\ FootprintExact
  /\ RowInv /\ ThreadInv /\ ChannelInv /\ PubInv /\ FreshInv /\ RecInv /\ HaltInv /\ IdleInv

-----------------------------------------------------------------------------
(* Rows. *)

\* What the ledger shows of a job is one of its two rows.
LEMMA ViewType ==
  ASSUME TypeOK, NEW j \in Jobs
  PROVE  View(j) \in Rows \cup {NoRow} /\ View(j) \in {ledger[j], supplied[j]}
BY DEF TypeOK, View, apply

\* The statuses a job is planned for.
LEMMA PlanStatus ==
  ASSUME TypeOK, RowInv, NEW j \in Plan("enqueue") \cup Plan("poison")
  PROVE  /\ j \in Jobs
         /\ view[j] # NoRow => view[j] \in Rows /\ Sound(view[j]) /\ view[j].status = "Failed"
         /\ j \in Plan("poison") => view[j] # NoRow
<1>1. j \in Jobs
  BY DEF Plan
<1>2. view[j] # NoRow => view[j] \in Rows /\ Sound(view[j])
  BY <1>1, ValuesApart DEF TypeOK, RowInv
<1>3. reconcile_at(view[j], pass) \in {"enqueue", "poison"}
  BY DEF Plan
<1>4. ASSUME view[j] # NoRow PROVE view[j].status = "Failed"
  BY <1>2, <1>3, <1>4 DEF Sound, reconcile_at
<1>5. j \in Plan("poison") => view[j] # NoRow
  BY DEF Plan, reconcile_at
<1> QED  BY <1>1, <1>2, <1>4, <1>5

\* No job is both planned and given up.
LEMMA PlansApart == Plan("enqueue") \cap Plan("poison") = {}
BY DEF Plan

\* The row of an outcome counts one attempt more, made in this pass.
LEMMA RowLater ==
  ASSUME TypeOK, RowInv, RecInv, IdleInv, phase # "down",
         NEW j \in Plan("enqueue") \cup Plan("poison"),
         NEW status \in {"Done", "Failed", "Poison"}, NEW transient \in BOOLEAN
  PROVE  /\ Row(j, status, transient) \in Rows
         /\ Sound(Row(j, status, transient))
         /\ Row(j, status, transient).ts = pass
         /\ Later(view[j], Row(j, status, transient))
<1> DEFINE r == Row(j, status, transient)
<1>1. pass \in 1..MaxPass
  BY BoundsNat DEF TypeOK, IdleInv
<1>2. j \in Jobs
  BY PlanStatus
<1>3. CASE view[j] = NoRow
  <2>1. r = [status |-> status, transient |-> transient, ts |-> pass, attempts |-> 1]
    BY <1>3 DEF Row
  <2>2. r \in Rows
    BY <1>1, <2>1, BoundsNat DEF Rows, Statuses
  <2> QED  BY <1>1, <1>3, <2>1, <2>2, ValuesApart DEF Sound, Later
<1>4. CASE view[j] # NoRow
  <2>1. view[j] \in Rows /\ Sound(view[j]) /\ view[j].status = "Failed"
    BY <1>4, PlanStatus
  <2>2. view[j].ts < pass
    BY <1>2, <1>4 DEF RecInv
  <2>3. view[j].attempts \in 1..MaxPass /\ view[j].ts \in 1..MaxPass /\ view[j].attempts <= view[j].ts
    BY <2>1 DEF Rows, Sound
  <2>4. view[j].attempts + 1 \in 1..MaxPass /\ view[j].attempts + 1 <= pass
    BY <1>1, <2>2, <2>3, BoundsNat
  <2>5. r = [status |-> status, transient |-> transient, ts |-> pass, attempts |-> view[j].attempts + 1]
    BY <1>4 DEF Row
  <2>6. r \in Rows
    BY <1>1, <2>4, <2>5 DEF Rows, Statuses
  <2> QED  BY <1>1, <1>4, <2>1, <2>2, <2>4, <2>5, <2>6, ValuesApart DEF Sound, Later
<1> QED  BY <1>3, <1>4

\* A later row replaces a failure, an older failure replaces nothing.
LEMMA ApplyLater ==
  ASSUME NEW a \in Rows, NEW b \in Rows, a.status = "Failed", a.ts < b.ts
  PROVE  apply(a, b) = b /\ apply(b, a) = b
<1>1. a.ts \in Int /\ b.ts \in Int /\ a # NoRow /\ b # NoRow
  BY ValuesApart DEF Rows
<1>2. Keeps(a, b)
  BY <1>1 DEF Keeps, Newer
<1>3. ~Keeps(b, a)
  BY <1>1 DEF Keeps, Newer
<1> QED  BY <1>1, <1>2, <1>3 DEF apply

-----------------------------------------------------------------------------
(* The footprint. *)

\* The footprint of the producers that run, in one dimension.
Footprint(d) == SumFunctionOnSet([t \in Running |-> Need[job[t]][d]], Running)

\* The pool is finite, and so are its producers.
LEMMA RunningFinite == IsFiniteSet(Running)
<1>1. Running \subseteq Threads
  BY DEF Running
<1> QED  BY <1>1, ThreadsFinite, FS_Subset

\* A producer has a footprint in every dimension.
LEMMA NeedNat ==
  ASSUME TypeOK, ThreadInv, NEW d \in Dims
  PROVE  \A t \in Running : job[t] \in Jobs /\ Need[job[t]][d] \in Nat
<1> TAKE t \in Running
<1>1. job[t] \in Jobs
  BY DEF Running, TypeOK, ThreadInv
<1> QED  BY <1>1, JobsFit

\* An admission adds the job's footprint ...
LEMMA FootprintAdmit ==
  ASSUME TypeOK, ThreadInv, NEW t \in Threads, NEW j \in Jobs, NEW d \in Dims,
         pc[t] = "admit", pc' = [pc EXCEPT ![t] = "run"], job' = [job EXCEPT ![t] = j]
  PROVE  Footprint(d)' = Footprint(d) + Need[j][d]
<1>f. PICK f : f = [u \in Running |-> Need[job[u]][d]]
  OBVIOUS
<1>g. PICK g : g = [u \in Running' |-> Need[job'[u]][d]]
  OBVIOUS
<1>1. Running' = Running \cup {t} /\ t \notin Running
  BY DEF Running, TypeOK
<1>2. g[t] = Need[j][d] /\ g[t] \in Nat
  BY <1>g, <1>1, JobsFit DEF TypeOK
<1>3. \A u \in Running : f[u] \in Nat /\ g[u] = f[u]
  <2>1. \A u \in Running : job'[u] = job[u]
    BY <1>1 DEF Running, TypeOK
  <2> QED  BY <1>f, <1>g, <1>1, <2>1, NeedNat
<1>4. f \in [Running -> Int] /\ g \in [Running' -> Int]
  BY <1>f, <1>g, <1>1, <1>2, <1>3
<1>5. SumFunctionOnSet(g, Running') = g[t] + SumFunctionOnSet(f, Running)
  BY <1>1, <1>3, <1>4, RunningFinite, SumJoin
<1>6. SumFunctionOnSet(f, Running) \in Nat
  BY <1>3, RunningFinite, SumNat
<1> QED  BY <1>f, <1>g, <1>2, <1>5, <1>6 DEF Footprint

\* ... which its end takes away.
LEMMA FootprintFinish ==
  ASSUME TypeOK, ThreadInv, NEW t \in Threads, NEW d \in Dims,
         pc[t] = "run", pc' = [pc EXCEPT ![t] = "done"], UNCHANGED job
  PROVE  /\ Footprint(d)' = Footprint(d) - Need[job[t]][d]
         /\ Need[job[t]][d] \in Nat /\ Footprint(d)' \in Nat
<1>f. PICK f : f = [u \in Running |-> Need[job[u]][d]]
  OBVIOUS
<1>g. PICK g : g = [u \in Running' |-> Need[job'[u]][d]]
  OBVIOUS
<1>1. Running' = Running \ {t} /\ t \in Running
  BY DEF Running, TypeOK
<1>2. IsFiniteSet(Running') /\ t \notin Running' /\ Running = Running' \cup {t}
  BY <1>1, RunningFinite, FS_RemoveElement
<1>3. f[t] = Need[job[t]][d] /\ f[t] \in Nat
  BY <1>f, <1>1, NeedNat
<1>4. \A u \in Running' : g[u] \in Nat /\ f[u] = g[u]
  BY <1>f, <1>g, <1>1, NeedNat
<1>5. f \in [Running -> Int] /\ g \in [Running' -> Int]
  BY <1>f, <1>g, <1>2, <1>3, <1>4
<1>6. SumFunctionOnSet(f, Running) = f[t] + SumFunctionOnSet(g, Running')
  BY <1>2, <1>4, <1>5, SumJoin
<1>7. SumFunctionOnSet(g, Running') \in Nat
  BY <1>2, <1>4, SumNat
<1> QED  BY <1>f, <1>g, <1>3, <1>6, <1>7 DEF Footprint

\* Where no thread starts or stops a producer, the footprint stays.
LEMMA FootprintSame ==
  ASSUME NEW d \in Dims, Running' = Running, \A t \in Running : job'[t] = job[t]
  PROVE  Footprint(d)' = Footprint(d)
<1>1. [t \in Running' |-> Need[job'[t]][d]] = [t \in Running |-> Need[job[t]][d]]
  OBVIOUS
<1> QED  BY <1>1 DEF Footprint

\* The sum is zero when no thread is in the pool.
LEMMA FootprintZero ==
  ASSUME NEW d \in Dims, \A t \in Threads : pc[t] = "exit"
  PROVE  Footprint(d) = 0
<1>1. Running = {}
  BY DEF Running
<1> QED  BY <1>1, SumEmpty DEF Footprint

-----------------------------------------------------------------------------
(* Types. *)

\* The row of a publication has the type of a row, and its job is one.
LEMMA PubTypes ==
  ASSUME TypeOK, RowInv, PubInv, pub.step # "none"
  PROVE  pub.of \in Jobs /\ pub.row \in Rows /\ pub.thread \in Threads \cup {Nobody}
BY DEF TypeOK, RowInv, PubInv, Publications

\* The steps of the pool keep the types.
LEMMA PoolTypes ==
  ASSUME Inv, NEW t \in Threads, Worker(t)
  PROVE  TypeOK'
<1> USE DEF Inv
<1>1. CASE Admit(t)
  <2>1. PICK live \in Live, j \in pending : 
          /\ Fits(j, live)
          /\ pending' = pending \ {j}
          /\ used' = [d \in Dims |-> used[d] + Need[j][d]]
          /\ job' = [job EXCEPT ![t] = j]
          /\ pc' = [pc EXCEPT ![t] = "run"]
    BY <1>1 DEF Admit
  <2>2. j \in Jobs
    BY DEF TypeOK
  <2>3. used' \in [Dims -> Nat]
    BY <2>1, <2>2, JobsFit DEF TypeOK
  <2>4. /\ job' \in [Threads -> Jobs \cup {Nobody}] /\ pending' \subseteq Jobs
        /\ pc' \in [Threads -> {"admit", "run", "done", "wait", "exit"}]
    BY <2>1, <2>2 DEF TypeOK
  <2> QED  BY <1>1, <2>3, <2>4 DEF TypeOK, Admit, disk
<1>2. CASE Leave(t)
  BY <1>2 DEF Leave, TypeOK, disk
<1>3. CASE Finish(t)
  <2>1. job[t] \in Jobs
    BY <1>3 DEF Finish, ThreadInv, TypeOK
  <2>2. result' \in [Threads -> Reports \cup {Nobody}]
    BY <1>3, <2>1, OutcomesKnown DEF Finish, TypeOK
  <2>3. used' \in [Dims -> Nat]
    <3>1. SUFFICES ASSUME NEW d \in Dims PROVE used[d] - Need[job[t]][d] \in Nat
      BY <1>3 DEF Finish, Release
    <3>2. used[d] = Footprint(d)
      BY DEF FootprintExact, Footprint
    <3>3. pc[t] = "run" /\ pc' = [pc EXCEPT ![t] = "done"] /\ UNCHANGED job
      BY <1>3 DEF Finish
    <3>4. Footprint(d)' = Footprint(d) - Need[job[t]][d] /\ Footprint(d)' \in Nat
      BY <3>3, FootprintFinish
    <3> QED  BY <3>2, <3>4
  <2>4. pc' \in [Threads -> {"admit", "run", "done", "wait", "exit"}]
    BY <1>3 DEF Finish, TypeOK
  <2> QED  BY <1>3, <2>2, <2>3, <2>4 DEF TypeOK, Finish, disk
<1>4. CASE Send(t)
  <2>1. job[t] \in Jobs /\ result[t] \in Reports
    BY <1>4 DEF Send, ThreadInv, TypeOK
  <2>2. Message(t) \in Messages
    BY <2>1 DEF Message, Messages, Reports
  <2>3. channel' \in Seq(Messages)
    BY <1>4, <2>2 DEF Send, TypeOK
  <2>4. pc' \in [Threads -> {"admit", "run", "done", "wait", "exit"}]
    BY <1>4 DEF Send, TypeOK
  <2> QED  BY <1>4, <2>3, <2>4 DEF TypeOK, Send, disk
<1> QED  BY <1>1, <1>2, <1>3, <1>4 DEF Worker

\* The process that goes down keeps its types.
LEMMA DownTypes ==
  ASSUME TypeOK, GoDown
  PROVE  /\ view' \in [Jobs -> Rows \cup {NoRow}] /\ phase' \in {"down", "serve", "poison"}
         /\ halted' \in BOOLEAN /\ pending' \subseteq Jobs /\ verdicts' \subseteq Jobs
         /\ used' \in [Dims -> Nat] /\ pc' \in [Threads -> {"admit", "run", "done", "wait", "exit"}]
         /\ job' \in [Threads -> Jobs \cup {Nobody}] /\ result' \in [Threads -> Reports \cup {Nobody}]
         /\ channel' \in Seq(Messages)
         /\ pub' \in Publications
<1>1. pub' \in Publications
  BY DEF GoDown, NoPub, Publications
<1>2. channel' \in Seq(Messages)
  BY DEF GoDown
<1> QED  BY <1>1, <1>2 DEF GoDown

\* The answer to a thread keeps its types.
LEMMA ResumeTypes ==
  ASSUME TypeOK, NEW at \in {"admit", "exit"}, Resume(at)
  PROVE  /\ pc' \in [Threads -> {"admit", "run", "done", "wait", "exit"}]
         /\ job' \in [Threads -> Jobs \cup {Nobody}] /\ result' \in [Threads -> Reports \cup {Nobody}]
BY DEF TypeOK, Resume

\* The end of a try keeps the types.
LEMMA PubStepTypes ==
  ASSUME TypeOK, pub.step # "none", Acknowledge \/ FailTry
  PROVE  /\ pub' \in Publications
         /\ halted' \in BOOLEAN
         /\ pc' \in [Threads -> {"admit", "run", "done", "wait", "exit"}]
         /\ job' \in [Threads -> Jobs \cup {Nobody}] /\ result' \in [Threads -> Reports \cup {Nobody}]
<1>1. NoPub \in Publications
  BY DEF NoPub, Publications
<1>2. CASE Acknowledge
  <2>1. Resume("admit") /\ pub' = NoPub /\ halted' = halted
    BY <1>2 DEF Acknowledge
  <2> QED  BY <1>1, <2>1, ResumeTypes DEF TypeOK
<1>3. CASE FailTry /\ pub.tries = 2
  <2>1. Resume("exit") /\ pub' = NoPub /\ halted' = (halted \/ pub.thread # Nobody)
    BY <1>3 DEF FailTry
  <2>2. halted' \in BOOLEAN
    BY <2>1
  <2> QED  BY <1>1, <2>1, <2>2, ResumeTypes
<1>4. CASE FailTry /\ pub.tries # 2
  <2>1. pub' = [pub EXCEPT !.step = "write", !.tries = @ + 1] /\ pub.tries < 2
        /\ UNCHANGED <<pc, job, result, halted>>
    BY <1>4 DEF FailTry
  <2>2. pub' \in Publications
    <3>1. pub.tries + 1 \in 0..2
      BY <2>1 DEF TypeOK, Publications
    <3> QED  BY <2>1, <3>1 DEF TypeOK, Publications
  <2> QED  BY <2>1, <2>2 DEF TypeOK
<1> QED  BY <1>2, <1>3, <1>4

\* The main thread's steps keep the types.
LEMMA MainTypes ==
  ASSUME Inv, Main
  PROVE  TypeOK'
<1> USE DEF Inv
<1>1. CASE StartPass
  <2>1. view' \in [Jobs -> Rows \cup {NoRow}] /\ marker' \in [Jobs -> Rows \cup {NoRow, Torn}]
    BY <1>1, ViewType DEF StartPass
  <2>2. pass' \in 0..MaxPass
    BY <1>1, BoundsNat DEF StartPass, TypeOK
  <2>3. pending' \subseteq Jobs /\ verdicts' \subseteq Jobs
    BY <1>1 DEF StartPass, Plan
  <2>4. pc' \in [Threads -> {"admit", "run", "done", "wait", "exit"}]
    BY <1>1 DEF StartPass
  <2> QED  BY <1>1, <2>1, <2>2, <2>3, <2>4 DEF StartPass, TypeOK
<1>2. CASE Receive
  <2>1. PICK m : m = Head(channel)
    OBVIOUS
  <2>2. m \in Messages
        /\ channel' \in Seq(Messages)
        /\ m = channel[1] /\ 1 \in DOMAIN channel
    <3>1. channel \in Seq(Messages) /\ channel # <<>> /\ channel' = Tail(channel)
      BY <1>2 DEF Receive, TypeOK
    <3> QED  BY <2>1, <3>1
  <2>3. m.of \in Plan("enqueue")
    <3>1. m.thread \in Threads /\ m.of \in Jobs /\ job[m.thread] = m.of
      BY <2>2 DEF ChannelInv, Messages
    <3>2. m.of # Nobody
      BY <3>1, ValuesApart
    <3> QED  BY <3>1, <3>2 DEF ThreadInv
  <2>4. Row(m.of, m.status, m.transient) \in Rows
    <3>1. phase # "down"
      BY <1>2 DEF Receive
    <3> QED  BY <2>2, <2>3, <3>1, RowLater DEF Messages
  <2>5. pub' = [thread |-> m.thread, of |-> m.of, row |-> Row(m.of, m.status, m.transient),
                step |-> "write", tries |-> 0]
    BY <1>2, <2>1 DEF Receive, Publish
  <2>6. pub' \in Publications
    BY <2>2, <2>4, <2>5 DEF Publications, Messages
  <2> QED  BY <1>2, <2>2, <2>6 DEF Receive, TypeOK, disk, pool
<1>3. CASE CloseServe
  BY <1>3 DEF CloseServe, TypeOK, disk, pool
<1>4. CASE PublishVerdict
  <2>1. PICK j \in verdicts : Publish(Nobody, j, Row(j, "Poison", view[j].transient)) /\ verdicts' = verdicts \ {j}
    BY <1>4 DEF PublishVerdict
  <2>2. j \in Plan("poison")
    BY DEF FreshInv
  <2>3. view[j] \in Rows /\ j \in Jobs
    BY <2>2, PlanStatus
  <2>4. Row(j, "Poison", view[j].transient) \in Rows
    <3>1. phase # "down" /\ view[j].transient \in BOOLEAN
      BY <1>4, <2>3 DEF PublishVerdict, Rows
    <3> QED  BY <2>2, <3>1, RowLater
  <2>5. pub' \in Publications
    BY <2>1, <2>3, <2>4 DEF Publish, Publications
  <2> QED  BY <1>4, <2>1, <2>5 DEF PublishVerdict, TypeOK, disk, pool
<1>5. CASE EndPass
  <2>1. GoDown /\ UNCHANGED <<disk, pass, faults, crashes>>
    BY <1>5 DEF EndPass
  <2> QED  BY <2>1, DownTypes DEF TypeOK, disk
<1>6. CASE WriteSidecar
  <2>1. pub.of \in Jobs /\ pub.row \in Rows
    BY <1>6, PubTypes DEF WriteSidecar
  <2>2. ledger' \in [Jobs -> Rows \cup {NoRow}]
    BY <1>6, <2>1 DEF WriteSidecar, TypeOK
  <2>3. pub' \in Publications
    BY <1>6 DEF WriteSidecar, TypeOK, Publications
  <2>4. faults' \in 0..MaxFaults
    BY <1>6, BoundsNat DEF WriteSidecar, Fault, TypeOK
  <2> QED  BY <1>6, <2>2, <2>3, <2>4 DEF WriteSidecar, TypeOK, pool
<1>7. CASE RetireMarker
  <2>1. marker' \in [Jobs -> Rows \cup {NoRow, Torn}]
    BY <1>7 DEF RetireMarker, TypeOK
  <2>2. faults' \in 0..MaxFaults
    BY <1>7, BoundsNat DEF RetireMarker, Fault, TypeOK
  <2>3. pub.step # "none" /\ (Acknowledge \/ FailTry) /\ UNCHANGED <<ledger, supplied, Others>>
    BY <1>7 DEF RetireMarker
  <2> QED  BY <2>1, <2>2, <2>3, PubStepTypes DEF TypeOK, Others
<1>8. CASE RetainRow
  <2>1. pub.of \in Jobs /\ pub.row \in Rows
    BY <1>8, PubTypes DEF RetainRow
  <2>2. marker' \in [Jobs -> Rows \cup {NoRow, Torn}]
    BY <1>8, <2>1 DEF RetainRow, TypeOK
  <2>3. pub.step # "none" /\ FailTry /\ UNCHANGED <<ledger, supplied, faults, Others>>
    BY <1>8 DEF RetainRow
  <2> QED  BY <2>2, <2>3, PubStepTypes DEF TypeOK, Others
<1> QED  BY <1>1, <1>2, <1>3, <1>4, <1>5, <1>6, <1>7, <1>8 DEF Main

\* Every step keeps the types.
LEMMA TypeStep ==
  ASSUME Inv, [Next]_vars
  PROVE  TypeOK'
<1> USE DEF Inv
<1>1. CASE \E t \in Threads : Worker(t)
  BY <1>1, PoolTypes
<1>2. CASE Main
  BY <1>2, MainTypes
<1>3. CASE RefusePass
  <2>1. marker' \in [Jobs -> Rows \cup {NoRow, Torn}]
    BY <1>3 DEF RefusePass, TypeOK
  <2> QED  BY <1>3, <2>1 DEF RefusePass, TypeOK, pool
<1>4. ASSUME NEW j \in Jobs, Supply(j) PROVE TypeOK'
  <2>1. supplied' \in [Jobs -> Rows \cup {NoRow}]
    BY <1>4 DEF Supply, TypeOK
  <2> QED  BY <1>4, <2>1 DEF Supply, TypeOK, pool
<1>5. ASSUME NEW j \in Jobs, RemoveTorn(j) PROVE TypeOK'
  <2>1. marker' \in [Jobs -> Rows \cup {NoRow, Torn}]
    BY <1>5 DEF RemoveTorn, TypeOK
  <2> QED  BY <1>5, <2>1 DEF RemoveTorn, TypeOK, pool
<1>6. CASE Crash
  <2>1. GoDown /\ UNCHANGED <<ledger, supplied, pass, faults>> /\ crashes' \in 0..MaxCrash
    BY <1>6, BoundsNat DEF Crash, TypeOK
  <2>2. marker' \in [Jobs -> Rows \cup {NoRow, Torn}]
    BY <1>6 DEF Crash, TypeOK
  <2> QED  BY <2>1, <2>2, DownTypes DEF TypeOK
<1>7. CASE UNCHANGED vars
  BY <1>7 DEF vars, TypeOK, disk, pool
<1> QED  BY <1>1, <1>2, <1>3, <1>4, <1>5, <1>6, <1>7 DEF Next, Operator

-----------------------------------------------------------------------------
(* Footprint and rows. *)

\* The running sum follows the producers, inside the box.
LEMMA FootprintStep ==
  ASSUME Inv, [Next]_vars
  PROVE  FootprintExact'
<1> SUFFICES ASSUME NEW d \in Dims PROVE used'[d] = Footprint(d)' /\ used'[d] <= Budget[d]
  BY DEF FootprintExact, Footprint
<1> USE DEF Inv
<1>1. used[d] = Footprint(d) /\ used[d] <= Budget[d] /\ used[d] \in Nat /\ Budget[d] \in Nat
  BY JobsFit DEF FootprintExact, Footprint, TypeOK
<1>2. ASSUME NEW t \in Threads, Admit(t) PROVE used'[d] = Footprint(d)' /\ used'[d] <= Budget[d]
  <2>1. PICK live \in Live, j \in pending : 
          /\ Fits(j, live)
          /\ used' = [e \in Dims |-> used[e] + Need[j][e]]
          /\ job' = [job EXCEPT ![t] = j]
          /\ pc' = [pc EXCEPT ![t] = "run"]
    BY <1>2 DEF Admit
  <2>2. j \in Jobs /\ pc[t] = "admit"
    BY <1>2 DEF TypeOK, Admit
  <2>3. Footprint(d)' = Footprint(d) + Need[j][d]
    BY <2>1, <2>2, FootprintAdmit
  <2>4. used[d] + Need[j][d] <= Budget[d]
    BY <2>1 DEF Fits
  <2> QED  BY <1>1, <2>1, <2>3, <2>4
<1>3. ASSUME NEW t \in Threads, Finish(t) PROVE used'[d] = Footprint(d)' /\ used'[d] <= Budget[d]
  <2>1. pc[t] = "run" /\ pc' = [pc EXCEPT ![t] = "done"] /\ UNCHANGED job
    BY <1>3 DEF Finish
  <2>2. /\ Footprint(d)' = Footprint(d) - Need[job[t]][d]
        /\ Need[job[t]][d] \in Nat /\ Footprint(d)' \in Nat
    BY <2>1, FootprintFinish
  <2>3. used'[d] = used[d] - Need[job[t]][d]
    BY <1>3 DEF Finish, Release
  <2> QED  BY <1>1, <2>2, <2>3
<1>4. ASSUME GoDown PROVE used'[d] = Footprint(d)' /\ used'[d] <= Budget[d]
  <2>1. used'[d] = 0 /\ \A t \in Threads : pc'[t] = "exit"
    BY <1>4 DEF GoDown
  <2>2. Running' = {}
    BY <2>1 DEF Running
  <2>3. Footprint(d)' = 0
    BY <2>2, SumEmpty DEF Footprint
  <2> QED  BY <1>1, <2>1, <2>3
<1>5. ASSUME UNCHANGED used, Running' = Running, \A t \in Running : job'[t] = job[t]
      PROVE  used'[d] = Footprint(d)' /\ used'[d] <= Budget[d]
  BY <1>1, <1>5, FootprintSame
<1>6. ASSUME UNCHANGED <<used, pc, job>> PROVE used'[d] = Footprint(d)' /\ used'[d] <= Budget[d]
  BY <1>5, <1>6 DEF Running
<1>7. ASSUME NEW t \in Threads, Leave(t) \/ Send(t)
      PROVE  used'[d] = Footprint(d)' /\ used'[d] <= Budget[d]
  <2>1. UNCHANGED <<used, job>> /\ pc[t] # "run" /\ \E at \in {"exit", "wait"} : pc' = [pc EXCEPT ![t] = at]
    BY <1>7 DEF Leave, Send
  <2>2. Running' = Running
    BY <2>1 DEF Running, TypeOK
  <2> QED  BY <1>5, <2>1, <2>2
<1>8. ASSUME StartPass PROVE used'[d] = Footprint(d)' /\ used'[d] <= Budget[d]
  <2>1. \A t \in Threads : pc[t] = "exit" /\ pc'[t] \in {"admit", "exit"}
    BY <1>8 DEF StartPass, ThreadInv
  <2>2. Running' = Running
    BY <2>1 DEF Running
  <2> QED  BY <1>5, <1>8, <2>1, <2>2 DEF StartPass, Running
<1>9. ASSUME Resume("admit") \/ Resume("exit"), UNCHANGED used, pub.step # "none"
      PROVE  used'[d] = Footprint(d)' /\ used'[d] <= Budget[d]
  <2>1. \A t \in Threads : IF t = pub.thread THEN pc[t] = "wait" /\ pc'[t] # "run"
                           ELSE pc'[t] = pc[t] /\ job'[t] = job[t]
    BY <1>9, ValuesApart DEF Resume, PubInv
  <2>2. Running' = Running /\ \A t \in Running : t # pub.thread
    BY <2>1 DEF Running
  <2> QED  BY <1>5, <1>9, <2>1, <2>2 DEF Running
<1>10. ASSUME Acknowledge \/ FailTry, UNCHANGED used, pub.step # "none"
      PROVE  used'[d] = Footprint(d)' /\ used'[d] <= Budget[d]
  BY <1>6, <1>9, <1>10 DEF Acknowledge, FailTry
<1>11. CASE \E t \in Threads : Worker(t)
  BY <1>2, <1>3, <1>7, <1>11 DEF Worker
<1>12. CASE Receive \/ CloseServe \/ PublishVerdict \/ WriteSidecar \/ RefusePass \/ Operator \/ UNCHANGED vars
  BY <1>6, <1>12 DEF Receive, CloseServe, PublishVerdict, WriteSidecar, RefusePass, Operator, Supply,
     RemoveTorn, vars, pool
<1>13. CASE EndPass \/ Crash
  BY <1>4, <1>13 DEF EndPass, Crash
<1>14. CASE RetireMarker \/ RetainRow
  <2>1. pub.step # "none" /\ UNCHANGED used /\ (Acknowledge \/ FailTry)
    BY <1>14 DEF RetireMarker, RetainRow, Others
  <2> QED  BY <1>10, <2>1
<1> QED  BY <1>8, <1>11, <1>12, <1>13, <1>14 DEF Next, Main

\* Where the rows of a step come from.
LEMMA RowsMove ==
  ASSUME Inv, [Next]_vars, NEW j \in Jobs
  PROVE  /\ ledger'[j] \in {ledger[j], pub.row} /\ (ledger'[j] # ledger[j] => pub.step = "write" /\ pub.of = j)
         /\ supplied'[j] \in {supplied[j], marker[j]}
         /\ marker'[j] \in {marker[j], NoRow, Torn, pub.row}
         /\ marker'[j] = pub.row /\ marker'[j] # marker[j] => pub.step = "mark" \/ marker'[j] = NoRow
         /\ view'[j] \in {view[j], ledger[j], supplied[j], NoRow}
<1> USE DEF Inv
<1>1. CASE \E t \in Threads : Worker(t)
  BY <1>1 DEF Worker, Admit, Leave, Finish, Send, disk
<1>2. CASE Receive \/ CloseServe \/ PublishVerdict \/ EndPass
  BY <1>2 DEF Receive, CloseServe, PublishVerdict, EndPass, GoDown, disk
<1>3. CASE StartPass
  <2>1. View(j) \in {ledger[j], supplied[j]}
    BY ViewType
  <2> QED  BY <1>3, <2>1 DEF StartPass
<1>4. CASE WriteSidecar
  BY <1>4 DEF WriteSidecar, TypeOK
<1>5. CASE RetireMarker
  BY <1>5 DEF RetireMarker, Others, TypeOK
<1>6. CASE RetainRow
  BY <1>6 DEF RetainRow, Others, TypeOK
<1>7. CASE RefusePass
  BY <1>7 DEF RefusePass
<1>8. CASE Operator
  BY <1>8 DEF Operator, Supply, RemoveTorn, TypeOK
<1>9. CASE Crash
  BY <1>9 DEF Crash, GoDown, TypeOK
<1>10. CASE UNCHANGED vars
  BY <1>10 DEF vars, disk
<1> QED  BY <1>1, <1>2, <1>3, <1>4, <1>5, <1>6, <1>7, <1>8, <1>9, <1>10 DEF Next, Main

\* The clock of the passes.
LEMMA PassMoves ==
  ASSUME [Next]_vars
  PROVE  pass' \in {pass, pass + 1} /\ (~StartPass => pass' = pass)
<1>1. CASE \E t \in Threads : Worker(t)
  BY <1>1 DEF Worker, Admit, Leave, Finish, Send
<1>2. CASE Main
  BY <1>2 DEF Main, StartPass, Receive, CloseServe, PublishVerdict, EndPass, WriteSidecar, RetireMarker, RetainRow, Others
<1>3. CASE RefusePass \/ Operator \/ Crash \/ UNCHANGED vars
  BY <1>3 DEF RefusePass, Operator, Supply, RemoveTorn, Crash, vars
<1> QED  BY <1>1, <1>2, <1>3 DEF Next

\* A publication goes on with its row, ends, or starts with a row of this pass.
LEMMA PubMoves ==
  ASSUME Inv, [Next]_vars
  PROVE  \/ pub' = NoPub
         \/ /\ pub.step # "none" /\ pub'.step # "none"
            /\ pub'.thread = pub.thread /\ pub'.of = pub.of /\ pub'.row = pub.row
         \/ /\ pub.step = "none" /\ pub'.step = "write"
            /\ pub'.of \in Plan("enqueue") \cup Plan("poison")
            /\ pub'.row \in Rows /\ Sound(pub'.row) /\ pub'.row.ts = pass
            /\ Later(view[pub'.of], pub'.row)
            /\ UNCHANGED <<disk, phase, view, pass, pc, job, result>>
         \/ pub' = pub
<1> USE DEF Inv
<1>1. CASE \E t \in Threads : Worker(t)
  BY <1>1 DEF Worker, Admit, Leave, Finish, Send
<1>2. CASE StartPass \/ CloseServe \/ RefusePass \/ Operator \/ UNCHANGED vars
  BY <1>2 DEF StartPass, CloseServe, RefusePass, Operator, Supply, RemoveTorn, vars
<1>3. CASE EndPass \/ Crash
  BY <1>3 DEF EndPass, Crash, GoDown
<1>4. CASE Receive
  <2>1. PICK m : m = Head(channel)
    OBVIOUS
  <2>2. m \in Messages /\ m = channel[1] /\ 1 \in DOMAIN channel
    <3>1. channel \in Seq(Messages) /\ channel # <<>>
      BY <1>4 DEF Receive, TypeOK
    <3> QED  BY <2>1, <3>1
  <2>3. m.of \in Plan("enqueue")
    <3>1. m.thread \in Threads /\ m.of \in Jobs /\ job[m.thread] = m.of
      BY <2>2 DEF ChannelInv, Messages
    <3>2. m.of # Nobody
      BY <3>1, ValuesApart
    <3> QED  BY <3>1, <3>2 DEF ThreadInv
  <2>4. phase # "down" /\ m.status \in {"Done", "Failed"} /\ m.transient \in BOOLEAN
    BY <1>4, <2>2 DEF Receive, Messages
  <2>5. PICK r : r = Row(m.of, m.status, m.transient)
    OBVIOUS
  <2>6. r \in Rows /\ Sound(r) /\ r.ts = pass /\ Later(view[m.of], r)
    BY <2>3, <2>4, <2>5, RowLater
  <2>7. pub' = [thread |-> m.thread, of |-> m.of, row |-> r, step |-> "write", tries |-> 0]
    BY <1>4, <2>1, <2>5 DEF Receive, Publish
  <2>8. pub.step = "none" /\ UNCHANGED <<disk, phase, view, pass, pc, job, result>>
    BY <1>4 DEF Receive, Idle, pool
  <2> QED  BY <2>3, <2>6, <2>7, <2>8
<1>5. CASE PublishVerdict
  <2>1. PICK j \in verdicts : Publish(Nobody, j, Row(j, "Poison", view[j].transient)) /\ verdicts' = verdicts \ {j}
    BY <1>5 DEF PublishVerdict
  <2>2. j \in Plan("poison")
    BY DEF FreshInv
  <2>3. view[j].transient \in BOOLEAN /\ phase # "down"
    BY <1>5, <2>2, PlanStatus DEF PublishVerdict, Rows
  <2>4. PICK r : r = Row(j, "Poison", view[j].transient)
    OBVIOUS
  <2>5. r \in Rows /\ Sound(r) /\ r.ts = pass /\ Later(view[j], r)
    BY <2>2, <2>3, <2>4, RowLater
  <2>6. pub' = [thread |-> Nobody, of |-> j, row |-> r, step |-> "write", tries |-> 0]
    BY <2>1, <2>4 DEF Publish
  <2>7. pub.step = "none" /\ UNCHANGED <<disk, phase, view, pass, pc, job, result>>
    BY <1>5 DEF PublishVerdict, Idle, pool
  <2> QED  BY <2>2, <2>5, <2>6, <2>7
<1>6. CASE WriteSidecar
  BY <1>6 DEF WriteSidecar, TypeOK, Publications
<1>7. ASSUME Acknowledge \/ FailTry, pub.step # "none"
      PROVE  \/ pub' = NoPub
             \/ /\ pub.step # "none" /\ pub'.step # "none"
                /\ pub'.thread = pub.thread /\ pub'.of = pub.of /\ pub'.row = pub.row
  BY <1>7 DEF Acknowledge, FailTry, TypeOK, Publications
<1>8. CASE RetireMarker \/ RetainRow
  <2>1. pub.step # "none" /\ (Acknowledge \/ FailTry)
    BY <1>8 DEF RetireMarker, RetainRow
  <2> QED  BY <1>7, <2>1
<1> QED  BY <1>1, <1>2, <1>3, <1>4, <1>5, <1>6, <1>8 DEF Next, Main

\* Every row is sound: made by a pass so far, with no more attempts than passes.
LEMMA RowStep ==
  ASSUME Inv, [Next]_vars
  PROVE  RowInv'
<1> USE DEF Inv
<1>1. pass' \in {pass, pass + 1} /\ pass \in Int
  BY PassMoves DEF TypeOK
<1>2. ASSUME NEW r \in Rows, Sound(r) PROVE Sound(r)'
  <2>1. r.ts \in Int
    BY DEF Rows
  <2>2. r.status \in {"Done", "Failed", "Poison"} /\ r.attempts <= r.ts /\ r.ts <= pass
    BY <1>2 DEF Sound
  <2>3. r.ts <= pass'
    BY <1>1, <2>1, <2>2
  <2> QED  BY <2>2, <2>3 DEF Sound
<1>3. pub.step # "none" => pub.row \in Rows /\ Sound(pub.row)
  BY DEF RowInv
<1>4. ASSUME NEW j \in Jobs, NEW r \in {ledger'[j], supplied'[j], view'[j], marker'[j]}
      PROVE  r \in {NoRow, Torn} \/ Sound(r)'
  <2>1. \A q \in {ledger[j], supplied[j], view[j], marker[j]} : q \in {NoRow, Torn} \/ (q \in Rows /\ Sound(q))
    BY DEF RowInv, TypeOK
  <2>2. pub.row \in {NoRow, Torn} \/ (pub.row \in Rows /\ Sound(pub.row))
    BY <1>3 DEF PubInv, NoPub
  <2>3. r \in {ledger[j], supplied[j], view[j], marker[j], pub.row, NoRow, Torn}
    BY RowsMove
  <2> QED  BY <1>2, <2>1, <2>2, <2>3
<1>5. ASSUME pub'.step # "none" PROVE pub'.row \in Rows /\ Sound(pub.row)'
  <2>1. PICK r : r = pub'.row
    OBVIOUS
  <2>2. r \in Rows /\ Sound(r)
    BY <1>3, <1>5, <2>1, PubMoves DEF NoPub
  <2>3. Sound(r)'
    BY <1>2, <2>2
  <2> QED  BY <2>1, <2>2, <2>3 DEF Sound
<1>6. ASSUME NEW j \in Jobs
      PROVE  (\A r \in {ledger[j], supplied[j], view[j], marker[j]} : r \in {NoRow, Torn} \/ Sound(r))'
  BY <1>4
<1> QED  BY <1>5, <1>6 DEF RowInv

-----------------------------------------------------------------------------
(* Threads, channel, publication: each job is in one place. *)

\* The plan of a pass stays.
LEMMA PlanSame ==
  ASSUME NEW part, UNCHANGED <<view, pass>>
  PROVE  Plan(part)' = Plan(part)
BY DEF Plan

\* Down, the process holds nothing.
LEMMA DownInv ==
  ASSUME GoDown
  PROVE  ThreadInv' /\ ChannelInv' /\ PubInv' /\ IdleInv' /\ HaltInv'
BY DEF GoDown, NoPub, ThreadInv, ChannelInv, PubInv, IdleInv, HaltInv

\* The end of a publication, or of one of its tries.
Ends ==
  \/ pub.thread # Nobody /\ pub' = NoPub /\ UNCHANGED halted /\ Resume("admit")
  \/ pub.thread # Nobody /\ pub' = NoPub /\ halted' = TRUE /\ Resume("exit")
  \/ pub.thread = Nobody /\ pub' = NoPub /\ UNCHANGED <<halted, pc, job, result>>
  \/ pub' = [pub EXCEPT !.step = "write", !.tries = @ + 1] /\ UNCHANGED <<halted, pc, job, result>>

\* An acknowledgement and a failed try are such ends.
LEMMA PublicationEnds ==
  ASSUME TypeOK, Acknowledge \/ FailTry
  PROVE  Ends
<1>1. ASSUME NEW at, Resume(at), pub.thread = Nobody PROVE UNCHANGED <<pc, job, result>>
  BY <1>1, ValuesApart DEF Resume, TypeOK
<1>2. CASE Acknowledge
  BY <1>1, <1>2 DEF Acknowledge, Ends
<1>3. CASE FailTry /\ pub.tries < 2
  BY <1>3 DEF FailTry, Ends
<1>4. CASE FailTry /\ ~(pub.tries < 2)
  <2>1. pub' = NoPub /\ halted' = (halted \/ pub.thread # Nobody) /\ Resume("exit")
    BY <1>4 DEF FailTry
  <2>2. CASE pub.thread = Nobody
    <3>1. halted' = halted
      BY <2>1, <2>2 DEF TypeOK
    <3> QED  BY <1>1, <2>1, <2>2, <3>1 DEF Ends
  <2>3. CASE pub.thread # Nobody
    <3>1. halted' = TRUE
      BY <2>1, <2>3
    <3> QED  BY <2>1, <2>3, <3>1 DEF Ends
  <2> QED  BY <2>2, <2>3
<1> QED  BY <1>2, <1>3, <1>4

\* A thread holds a job exactly while it works on one, and no two hold the same.
LEMMA ThreadStep ==
  ASSUME Inv, [Next]_vars
  PROVE  ThreadInv'
<1> USE DEF Inv
<1>1. ASSUME NEW t \in Threads, Admit(t) PROVE ThreadInv'
  <2>1. PICK live \in Live, j \in pending : 
          /\ pending' = pending \ {j}
          /\ job' = [job EXCEPT ![t] = j]
          /\ pc' = [pc EXCEPT ![t] = "run"]
    BY <1>1 DEF Admit
  <2>2. pc[t] = "admit" /\ UNCHANGED <<view, pass, phase, result>>
    BY <1>1 DEF Admit
  <2>3. j \in Plan("enqueue") /\ j \in Jobs /\ j # Nobody
    BY ValuesApart DEF FreshInv, TypeOK
  <2>4. \A u \in Threads : job[u] # j
    BY <2>3 DEF ThreadInv
  <2>5. phase = "serve"
    BY <2>2 DEF ThreadInv
  <2> QED  BY <2>1, <2>2, <2>3, <2>4, <2>5, PlanSame DEF ThreadInv, TypeOK
<1>2. ASSUME NEW t \in Threads, Leave(t) PROVE ThreadInv'
  <2>1. pc[t] = "admit" /\ pc' = [pc EXCEPT ![t] = "exit"] /\ UNCHANGED <<view, pass, phase, result, pending, job>>
    BY <1>2 DEF Leave
  <2> QED  BY <2>1, PlanSame DEF ThreadInv, TypeOK
<1>3. ASSUME NEW t \in Threads, Finish(t) PROVE ThreadInv'
  <2>1. pc[t] = "run" /\ pc' = [pc EXCEPT ![t] = "done"] /\ UNCHANGED <<view, pass, phase, pending, job>>
    BY <1>3 DEF Finish
  <2>2. PICK outcome \in Outcomes[job[t]] : result' = [result EXCEPT ![t] = outcome]
    BY <1>3 DEF Finish
  <2>3. outcome # Nobody
    BY <2>1, OutcomesKnown, ValuesApart DEF ThreadInv, TypeOK
  <2> QED  BY <2>1, <2>2, <2>3, PlanSame DEF ThreadInv, TypeOK
<1>4. ASSUME NEW t \in Threads, Send(t) PROVE ThreadInv'
  <2>1. pc[t] = "done" /\ pc' = [pc EXCEPT ![t] = "wait"] /\ UNCHANGED <<view, pass, phase, result, pending, job>>
    BY <1>4 DEF Send
  <2> QED  BY <2>1, PlanSame DEF ThreadInv, TypeOK
<1>5. CASE StartPass
  <2>1. \A t \in Threads : pc[t] = "exit" /\ job[t] = Nobody /\ pc'[t] \in {"admit", "exit"}
    BY <1>5 DEF StartPass, ThreadInv
  <2>2. phase' = "serve" /\ UNCHANGED <<job, result>>
    BY <1>5 DEF StartPass
  <2> QED  BY <2>1, <2>2 DEF ThreadInv
<1>6. ASSUME Ends, pub.step # "none", UNCHANGED <<view, pass, phase, pending>> PROVE ThreadInv'
  <2>1. ASSUME pub.thread # Nobody, NEW at \in {"admit", "exit"}, Resume(at) PROVE ThreadInv'
    <3>1. pub.thread \in Threads
      BY <2>1 DEF TypeOK, Publications
    <3>2. phase = "serve"
      BY <1>6, <2>1 DEF PubInv
    <3>3. \A t \in Threads :
            IF t = pub.thread THEN pc'[t] = at /\ job'[t] = Nobody
            ELSE pc'[t] = pc[t] /\ job'[t] = job[t] /\ result'[t] = result[t]
      BY <2>1 DEF Resume
    <3> QED  BY <1>6, <2>1, <3>1, <3>2, <3>3, PlanSame DEF ThreadInv
  <2>2. ASSUME UNCHANGED <<pc, job, result>> PROVE ThreadInv'
    BY <1>6, <2>2, PlanSame DEF ThreadInv
  <2> QED  BY <1>6, <2>1, <2>2 DEF Ends
<1>7. CASE RetireMarker \/ RetainRow
  <2>1. pub.step # "none" /\ UNCHANGED <<view, pass, phase, pending>> /\ (Acknowledge \/ FailTry)
    BY <1>7 DEF RetireMarker, RetainRow, Others
  <2> QED  BY <1>6, <2>1, PublicationEnds
<1>8. CASE CloseServe
  <2>1. \A t \in Threads : pc[t] = "exit"
    BY <1>8 DEF CloseServe
  <2>2. UNCHANGED <<pc, job, result, pending, view, pass>>
    BY <1>8 DEF CloseServe, pool
  <2> QED  BY <2>1, <2>2, PlanSame DEF ThreadInv
<1>9. CASE Receive \/ PublishVerdict \/ WriteSidecar \/ RefusePass \/ Operator \/ UNCHANGED vars
  <2>1. UNCHANGED <<pc, job, result, pending, view, pass, phase>>
    BY <1>9 DEF Receive, PublishVerdict, WriteSidecar, RefusePass, Operator, Supply, RemoveTorn, vars, pool
  <2> QED  BY <2>1, PlanSame DEF ThreadInv
<1>10. CASE EndPass \/ Crash
  BY <1>10, DownInv DEF EndPass, Crash
<1> QED  BY <1>1, <1>2, <1>3, <1>4, <1>5, <1>7, <1>8, <1>9, <1>10 DEF Next, Main, Worker

\* The channel's messages stay good while their threads wait.
LEMMA ChannelKept ==
  ASSUME TypeOK, ChannelInv, channel' = channel,
         phase' # "serve" => channel = <<>>,
         pub'.thread \in {pub.thread, Nobody},
         \A u \in Threads : pc[u] = "wait" /\ u # pub.thread => pc'[u] = "wait" /\ job'[u] = job[u]
  PROVE  ChannelInv'
<1>1. \A i \in DOMAIN channel : channel[i].thread \in Threads /\ channel[i].thread # Nobody
  <2>1. \A i \in DOMAIN channel : channel[i] \in Messages
    BY DEF TypeOK
  <2> QED  BY <2>1, ValuesApart DEF Messages
<1> QED  BY <1>1 DEF ChannelInv

\* A message is from a thread that waits for its answer; each thread has one at most.
LEMMA ChannelStep ==
  ASSUME Inv, [Next]_vars
  PROVE  ChannelInv'
<1> USE DEF Inv
<1>0. channel \in Seq(Messages) /\ \A i \in DOMAIN channel : channel[i] \in Messages /\ channel[i].thread \in Threads
  <2>1. channel \in Seq(Messages)
    BY DEF TypeOK
  <2>2. \A i \in DOMAIN channel : channel[i] \in Messages
    BY <2>1
  <2> QED  BY <2>1, <2>2 DEF Messages
<1>1. ASSUME NEW t \in Threads, Admit(t) \/ Leave(t) \/ Finish(t) PROVE ChannelInv'
  <2>1. pc[t] # "wait" /\ UNCHANGED <<channel, phase, pub>>
    BY <1>1 DEF Admit, Leave, Finish
  <2>2. \A u \in Threads : u # t => pc'[u] = pc[u] /\ job'[u] = job[u]
    BY <1>1 DEF Admit, Leave, Finish, TypeOK
  <2> QED  BY <2>1, <2>2, ChannelKept DEF ChannelInv
<1>2. ASSUME NEW t \in Threads, Send(t) PROVE ChannelInv'
  <2>1. /\ pc[t] = "done" /\ channel' = Append(channel, Message(t))
        /\ pc' = [pc EXCEPT ![t] = "wait"] /\ UNCHANGED <<phase, job, pub>>
    BY <1>2 DEF Send
  <2>2. pub.thread # t /\ phase = "serve"
    BY <2>1, ValuesApart DEF PubInv, ThreadInv
  <2>3. PICK m : m = Message(t)
    OBVIOUS
  <2>4. m.thread = t /\ m.of = job[t]
    BY <2>3 DEF Message
  <2>5. /\ DOMAIN channel' = 1..(Len(channel) + 1) /\ DOMAIN channel = 1..Len(channel) /\ Len(channel) \in Nat
        /\ \A i \in DOMAIN channel : channel'[i] = channel[i]
        /\ channel'[Len(channel) + 1] = m
    BY <1>0, <2>1, <2>3
  <2>6. \A i \in DOMAIN channel : channel[i].thread # t
    BY <2>1 DEF ChannelInv
  <2>7. pc'[t] = "wait" /\ \A u \in Threads : u # t => pc'[u] = pc[u]
    BY <2>1 DEF TypeOK
  <2>8. ASSUME NEW i \in DOMAIN channel'
        PROVE  /\ pc'[channel'[i].thread] = "wait" /\ job'[channel'[i].thread] = channel'[i].of
               /\ channel'[i].thread # pub'.thread
               /\ \A k \in DOMAIN channel' : k # i => channel'[k].thread # channel'[i].thread
    <3>1. CASE i = Len(channel) + 1
      BY <2>1, <2>2, <2>4, <2>5, <2>6, <2>7, <3>1
    <3>2. CASE i # Len(channel) + 1
      <4>1. i \in DOMAIN channel /\ channel'[i] = channel[i]
        BY <2>5, <3>2
      <4>2. pc[channel[i].thread] = "wait" /\ job[channel[i].thread] = channel[i].of /\ channel[i].thread # pub.thread
        BY <4>1 DEF ChannelInv
      <4>3. pc'[channel[i].thread] = "wait"
        BY <1>0, <2>7, <4>1, <4>2
      <4>4. \A k \in DOMAIN channel' : k # i => channel'[k].thread # channel[i].thread
        <5> TAKE k \in DOMAIN channel'
        <5>1. CASE k \in DOMAIN channel
          BY <2>5, <4>1, <5>1 DEF ChannelInv
        <5>2. CASE k = Len(channel) + 1
          BY <2>4, <2>5, <2>6, <4>1, <5>2
        <5> QED  BY <2>5, <5>1, <5>2
      <4> QED  BY <2>1, <4>1, <4>2, <4>3, <4>4
    <3> QED  BY <3>1, <3>2
  <2> QED  BY <2>1, <2>2, <2>8 DEF ChannelInv
<1>3. CASE Receive
  <2>1. phase = "serve" /\ channel # <<>> /\ channel' = Tail(channel) /\ UNCHANGED <<phase, pc, job>>
    BY <1>3 DEF Receive, pool
  <2>2. pub'.thread = channel[1].thread
    <3>1. PICK m : m = Head(channel)
      OBVIOUS
    <3>2. m = channel[1]
      BY <1>0, <2>1, <3>1
    <3> QED  BY <1>3, <3>1, <3>2 DEF Receive, Publish
  <2>3. /\ 1 \in DOMAIN channel
        /\ \A i \in DOMAIN channel' : i + 1 \in DOMAIN channel /\ i + 1 # 1 /\ channel'[i] = channel[i + 1]
        /\ \A i, k \in DOMAIN channel' : k # i => k + 1 # i + 1
    BY <1>0, <2>1
  <2> QED  BY <2>1, <2>2, <2>3 DEF ChannelInv
<1>4. CASE PublishVerdict
  <2>1. phase # "serve" /\ pub'.thread = Nobody /\ UNCHANGED <<channel, phase, pc, job>>
    BY <1>4 DEF PublishVerdict, Publish, pool
  <2> QED  BY <2>1, ChannelKept DEF ChannelInv
<1>5. CASE RetireMarker \/ RetainRow
  <2>1. UNCHANGED <<channel, phase>> /\ Ends
    BY <1>5, PublicationEnds DEF RetireMarker, RetainRow, Others
  <2>2. pub'.thread \in {pub.thread, Nobody}
    <3>1. pub \in Publications
      BY DEF TypeOK
    <3>2. [pub EXCEPT !.step = "write", !.tries = @ + 1].thread = pub.thread
      BY <3>1 DEF Publications
    <3>3. NoPub.thread = Nobody
      BY DEF NoPub
    <3> QED  BY <2>1, <3>2, <3>3 DEF Ends
  <2>3. \A u \in Threads : u # pub.thread => pc'[u] = pc[u] /\ job'[u] = job[u]
    BY <2>1 DEF Ends, Resume
  <2> QED  BY <2>1, <2>2, <2>3, ChannelKept DEF ChannelInv
<1>6. CASE StartPass \/ CloseServe
  <2>1. channel = <<>> /\ UNCHANGED <<channel, pub>>
    BY <1>6 DEF StartPass, CloseServe, ChannelInv
  <2> QED  BY <2>1 DEF ChannelInv
<1>7. CASE WriteSidecar
  <2>1. UNCHANGED <<channel, phase, pc, job>> /\ pub'.thread = pub.thread
    BY <1>7 DEF WriteSidecar, pool, TypeOK, Publications
  <2> QED  BY <2>1, ChannelKept DEF ChannelInv
<1>8. CASE RefusePass \/ Operator \/ UNCHANGED vars
  <2>1. UNCHANGED <<channel, phase, pc, job, pub>>
    BY <1>8 DEF RefusePass, Operator, Supply, RemoveTorn, vars, pool
  <2> QED  BY <2>1, ChannelKept DEF ChannelInv
<1>9. CASE EndPass \/ Crash
  BY <1>9, DownInv DEF EndPass, Crash
<1> QED  BY <1>1, <1>2, <1>3, <1>4, <1>5, <1>6, <1>7, <1>8, <1>9 DEF Next, Main, Worker

\* Under a publication the provided row is an older failure, and its row replaces it.
LEMMA PublishedWins ==
  ASSUME Inv, pub.step # "none"
  PROVE  /\ supplied[pub.of] = NoRow \/ (supplied[pub.of].status = "Failed" /\ supplied[pub.of].ts < pub.row.ts)
         /\ apply(supplied[pub.of], pub.row) = pub.row
<1> USE DEF Inv
<1>1. pub.of \in Jobs /\ pub.row \in Rows /\ pub.row # NoRow
  BY PubTypes, ValuesApart
<1>2. CASE supplied[pub.of] = NoRow
  BY <1>2 DEF apply
<1>3. CASE supplied[pub.of] # NoRow
  <2>1. supplied[pub.of] \in Rows /\ supplied[pub.of].ts < pass /\ pub.row.ts = pass
    BY <1>1, <1>3 DEF PubInv, RecInv, TypeOK
  <2>2. Later(view[pub.of], pub.row) /\ View(pub.of) \in {view[pub.of], pub.row}
    BY DEF PubInv
  <2>3. pass \in Int
    BY DEF TypeOK
  <2>4. supplied[pub.of] # pub.row
    BY <2>1, <2>3
  <2>5. supplied[pub.of] = view[pub.of] \/ supplied[pub.of].status = "Failed"
    BY <1>1, <1>3, <2>2, <2>4 DEF RecInv, Outdated
  <2>6. supplied[pub.of].status = "Failed"
    BY <1>3, <2>2, <2>5 DEF Later
  <2> QED  BY <1>1, <2>1, <2>6, ApplyLater
<1> QED  BY <1>2, <1>3

\* What the step that writes a sidecar shows of each job.
LEMMA WriteViews ==
  ASSUME Inv, WriteSidecar, NEW j \in Jobs
  PROVE  /\ View(j)' = View(j) \/ (j = pub.of /\ View(j)' = pub.row)
         /\ ledger'[j] = ledger[j] => View(j)' = View(j)
         /\ ledger'[j] = pub.row /\ j = pub.of => View(j)' = pub.row
<1>1. pub.step = "write" /\ supplied' = supplied /\ ledger' \in {ledger, [ledger EXCEPT ![pub.of] = pub.row]}
  BY DEF WriteSidecar
<1>2. pub.row # NoRow /\ apply(supplied[pub.of], pub.row) = pub.row
  BY <1>1, PublishedWins, PubTypes, ValuesApart DEF Inv
<1>3. ledger'[j] = ledger[j] => View(j)' = View(j)
  BY <1>1 DEF View
<1>4. j # pub.of => ledger'[j] = ledger[j]
  BY <1>1 DEF Inv, TypeOK
<1>5. ledger'[j] = pub.row /\ j = pub.of => View(j)' = pub.row
  BY <1>1, <1>2 DEF View
<1>6. ledger'[j] = ledger[j] \/ ledger'[j] = pub.row
  BY <1>1 DEF Inv, TypeOK
<1> QED  BY <1>3, <1>4, <1>5, <1>6

\* Nothing is recorded yet of a job whose thread's message waits, or whose verdict does.
LEMMA WaitsFresh ==
  ASSUME Inv
  PROVE  /\ \A i \in DOMAIN channel : channel[i].of \in Jobs /\ Fresh(channel[i].of)
         /\ \A j \in verdicts : j \in Jobs /\ Fresh(j)
<1> USE DEF Inv
<1>1. ASSUME NEW i \in DOMAIN channel PROVE channel[i].of \in Jobs /\ Fresh(channel[i].of)
  <2>0. channel \in Seq(Messages)
    BY DEF TypeOK
  <2>1. channel[i] \in Messages
    BY <2>0
  <2>2. channel[i].thread \in Threads /\ channel[i].of \in Jobs
    BY <2>1 DEF Messages
  <2>3. pc[channel[i].thread] = "wait" /\ job[channel[i].thread] = channel[i].of /\ channel[i].thread # pub.thread
    BY DEF ChannelInv
  <2> QED  BY <2>2, <2>3 DEF FreshInv, Holds
<1>2. \A j \in verdicts : j \in Jobs /\ Fresh(j)
  BY DEF FreshInv, TypeOK
<1> QED  BY <1>1, <1>2

\* What a step may not change under a publication for it to stay good.
LEMMA PubKept ==
  ASSUME PubInv, UNCHANGED <<phase, view, pass>>, pub.step # "none",
         pub'.thread = pub.thread, pub'.of = pub.of, pub'.row = pub.row, pub'.step # "none",
         verdicts' = verdicts,
         pub.thread # Nobody => pc'[pub.thread] = pc[pub.thread] /\ job'[pub.thread] = job[pub.thread],
         View(pub.of)' \in {View(pub.of), pub.row},
         marker'[pub.of] \in {marker[pub.of], NoRow, Torn, pub.row},
         pub'.step = "archive" => ledger'[pub.of] = pub.row
  PROVE  PubInv'
<1>1. Plan("poison")' = Plan("poison")
  BY PlanSame
<1>2. pub.thread # Nobody => pc'[pub.thread] = "wait" /\ job'[pub.thread] = pub.of
  BY DEF PubInv
<1>3. View(pub.of)' \in {view[pub.of], pub.row}
  BY DEF PubInv
<1>4. Later(view[pub.of], pub.row)' = Later(view[pub.of], pub.row)
  BY DEF Later
<1>q. PICK q : q = pub'
  OBVIOUS
<1>5. View(q.of)' \in {view'[q.of], q.row} /\ Later(view'[q.of], q.row)
  BY <1>3, <1>4, <1>q DEF PubInv, View, Later
<1> QED  BY <1>1, <1>2, <1>5, <1>q DEF PubInv, View, Later

\* A publication writes one row of this pass, one attempt later than the view.
LEMMA PubStep ==
  ASSUME Inv, [Next]_vars
  PROVE  PubInv'
<1> USE DEF Inv
<1>0. pub \in Publications
  BY DEF TypeOK
<1>1. ASSUME NEW t \in Threads, Worker(t) PROVE PubInv'
  <2>1. UNCHANGED <<disk, phase, view, pass, pub, verdicts>>
    BY <1>1 DEF Worker, Admit, Leave, Finish, Send
  <2>2. \A u \in Threads : pc[u] = "wait" => pc'[u] = pc[u] /\ job'[u] = job[u]
    BY <1>1 DEF Worker, Admit, Leave, Finish, Send, TypeOK
  <2>3. pub.thread # Nobody => pc[pub.thread] = "wait" /\ pub.thread \in Threads
    BY <1>0 DEF PubInv, Publications
  <2>4. View(pub.of)' = View(pub.of)
    BY <2>1 DEF View, disk
  <2>5. CASE pub.step = "none"
    BY <2>1, <2>5 DEF PubInv, NoPub
  <2>6. CASE pub.step # "none"
    <3>1. pub.step = "archive" => ledger[pub.of] = pub.row
      BY <2>6 DEF PubInv
    <3> QED  BY <2>1, <2>2, <2>3, <2>4, <2>6, <3>1, PubKept DEF disk
  <2> QED  BY <2>5, <2>6
<1>2. CASE StartPass \/ CloseServe
  <2>1. pub = NoPub /\ pub' = NoPub
    BY <1>2 DEF StartPass, CloseServe, Idle, IdleInv, PubInv
  <2> QED  BY <2>1 DEF PubInv, NoPub
<1>3. CASE Receive
  <2>0. channel \in Seq(Messages)
    BY DEF TypeOK
  <2>1. PICK m : m = Head(channel)
    OBVIOUS
  <2>2. m = channel[1] /\ 1 \in DOMAIN channel /\ m \in Messages
    <3>1. channel # <<>>
      BY <1>3 DEF Receive
    <3> QED  BY <2>0, <2>1, <3>1
  <2>3. m.thread \in Threads /\ m.of \in Jobs /\ m.thread # Nobody /\ m.of # Nobody
    BY <2>2, ValuesApart DEF Messages
  <2>4. pc[m.thread] = "wait" /\ job[m.thread] = m.of
    BY <2>2 DEF ChannelInv
  <2>5. Fresh(m.of)
    BY <2>2, WaitsFresh
  <2>6. UNCHANGED <<disk, phase, view, pass, pc, job>> /\ phase = "serve"
    BY <1>3 DEF Receive, pool
  <2>7. PICK q : q = pub'
    OBVIOUS
  <2>8. q.thread = m.thread /\ q.of = m.of /\ q.step = "write"
    BY <1>3, <2>1, <2>7 DEF Receive, Publish
  <2>9. q.row.ts = pass /\ Later(view[q.of], q.row)
    BY <1>3, <2>7, <2>8, PubMoves DEF NoPub, Receive, Idle
  <2>10. View(q.of)' = view[q.of] /\ marker'[q.of] = NoRow
    BY <2>5, <2>6, <2>8 DEF Fresh, View, disk
  <2> QED  BY <2>3, <2>4, <2>6, <2>7, <2>8, <2>9, <2>10 DEF PubInv, View, Later
<1>4. CASE PublishVerdict
  <2>1. PICK j \in verdicts : Publish(Nobody, j, Row(j, "Poison", view[j].transient)) /\ verdicts' = verdicts \ {j}
    BY <1>4 DEF PublishVerdict
  <2>2. j \in Plan("poison") /\ j \in Jobs /\ Fresh(j) /\ j # Nobody
    BY WaitsFresh, ValuesApart DEF FreshInv
  <2>3. UNCHANGED <<disk, phase, view, pass, pc, job>> /\ phase = "poison"
    BY <1>4 DEF PublishVerdict, pool
  <2>4. PICK q : q = pub'
    OBVIOUS
  <2>5. q.thread = Nobody /\ q.of = j /\ q.step = "write"
    BY <2>1, <2>4 DEF Publish
  <2>6. q.row.ts = pass /\ Later(view[q.of], q.row)
    BY <1>4, <2>4, <2>5, PubMoves DEF NoPub, PublishVerdict, Idle
  <2>7. View(q.of)' = view[q.of] /\ marker'[q.of] = NoRow
    BY <2>2, <2>3, <2>5 DEF Fresh, View, disk
  <2>8. q.of \in Plan("poison")' \ verdicts'
    BY <2>1, <2>2, <2>3, <2>5, PlanSame
  <2> QED  BY <2>2, <2>3, <2>4, <2>5, <2>6, <2>7, <2>8 DEF PubInv, View, Later
<1>5. CASE WriteSidecar
  <2>1. /\ UNCHANGED <<phase, view, pass, verdicts, pc, job, marker>> /\ pub.step # "none"
        /\ pub'.thread = pub.thread /\ pub'.of = pub.of /\ pub'.row = pub.row /\ pub'.step # "none"
    BY <1>0, <1>5 DEF WriteSidecar, pool, Publications
  <2>2. pub'.step = "archive" => ledger'[pub.of] = pub.row
    BY <1>0, <1>5, <2>1, PubTypes DEF WriteSidecar, Publications, TypeOK
  <2>3. View(pub.of)' \in {View(pub.of), pub.row}
    BY <1>5, <2>1, WriteViews, PubTypes
  <2> QED  BY <2>1, <2>2, <2>3, PubKept
<1>6. CASE RetireMarker \/ RetainRow
  <2>1. UNCHANGED <<phase, view, pass, verdicts, ledger, supplied>> /\ pub.step # "none" /\ (Acknowledge \/ FailTry)
    BY <1>6 DEF RetireMarker, RetainRow, Others
  <2>2. Ends
    BY <2>1, PublicationEnds
  <2>3. CASE pub' = NoPub
    BY <2>3 DEF PubInv, NoPub
  <2>4. CASE pub' = [pub EXCEPT !.step = "write", !.tries = @ + 1] /\ UNCHANGED <<halted, pc, job, result>>
    <3>1. pub'.thread = pub.thread /\ pub'.of = pub.of /\ pub'.row = pub.row /\ pub'.step = "write"
      BY <1>0, <2>4 DEF Publications
    <3>2. marker'[pub.of] \in {marker[pub.of], NoRow, Torn, pub.row}
      BY <1>6, <2>1, PubTypes DEF RetireMarker, RetainRow, TypeOK
    <3>3. View(pub.of)' = View(pub.of)
      BY <2>1, <3>1 DEF View
    <3> QED  BY <2>1, <2>4, <3>1, <3>2, <3>3, PubKept
  <2> QED  BY <2>2, <2>3, <2>4 DEF Ends
<1>7. CASE RefusePass \/ Operator \/ UNCHANGED vars
  <2>1. CASE RefusePass \/ Operator
    <3>1. phase = "down" /\ pub' = pub
      BY <2>1 DEF RefusePass, Operator, Supply, RemoveTorn
    <3>2. pub' = NoPub
      BY <3>1 DEF IdleInv, PubInv
    <3> QED  BY <3>2 DEF PubInv, NoPub
  <2>2. CASE UNCHANGED vars
    BY <2>2, PlanSame DEF vars, disk, pool, PubInv, View, Later
  <2> QED  BY <1>7, <2>1, <2>2
<1>8. CASE EndPass \/ Crash
  BY <1>8, DownInv DEF EndPass, Crash
<1> QED  BY <1>1, <1>2, <1>3, <1>4, <1>5, <1>6, <1>7, <1>8 DEF Next, Main

\* The job of a publication waits nowhere else.
LEMMA PubApart ==
  ASSUME Inv, pub.step # "none"
  PROVE  pub.of \notin pending \cup verdicts /\ \A t \in Threads : Holds(t) => job[t] # pub.of
<1> USE DEF Inv
<1>1. pub.of \in Jobs /\ pub.of # Nobody
  BY PubTypes DEF PubInv
<1>2. CASE phase = "serve"
  <2>1. pub.thread # Nobody /\ pub.thread \in Threads /\ pc[pub.thread] = "wait" /\ job[pub.thread] = pub.of
    BY <1>2, PubTypes DEF PubInv
  <2>2. pub.of \in Plan("enqueue") \ pending
    BY <1>1, <2>1 DEF ThreadInv
  <2>3. pub.of \notin verdicts
    BY <2>2, PlansApart DEF FreshInv
  <2>4. ASSUME NEW t \in Threads, Holds(t) PROVE job[t] # pub.of
    <3>1. t # pub.thread
      BY <2>1, <2>4 DEF Holds
    <3> QED  BY <1>1, <2>1, <3>1 DEF ThreadInv
  <2> QED  BY <2>2, <2>3, <2>4
<1>3. CASE phase # "serve"
  <2>1. pub.of \in Plan("poison") \ verdicts
    BY <1>3 DEF PubInv
  <2>2. \A t \in Threads : ~Holds(t)
    BY <1>3 DEF ThreadInv, Holds
  <2> QED  BY <2>1, <2>2, PlansApart DEF FreshInv
<1> QED  BY <1>2, <1>3

\* A step of a running pass records only what it publishes.
LEMMA FreshKept ==
  ASSUME Inv, [Next]_vars, phase # "down", phase' # "down", NEW j \in Jobs, Fresh(j),
         pub.step = "none" \/ j # pub.of
  PROVE  Fresh(j)' /\ UNCHANGED <<view, pass>>
<1> USE DEF Inv
<1>1. UNCHANGED <<view, pass>>
  <2>1. CASE (\E t \in Threads : Worker(t)) \/ UNCHANGED vars
    BY <2>1 DEF Worker, Admit, Leave, Finish, Send, vars
  <2>2. CASE Main
    BY <2>2 DEF Main, StartPass, Receive, CloseServe, PublishVerdict, EndPass, GoDown,
                WriteSidecar, RetireMarker, RetainRow, Others
  <2>3. CASE RefusePass \/ Operator \/ Crash
    BY <2>3 DEF RefusePass, Operator, Supply, RemoveTorn, Crash, GoDown
  <2> QED  BY <2>1, <2>2, <2>3 DEF Next
<1>2. ledger'[j] = ledger[j] /\ supplied' = supplied /\ marker'[j] = marker[j]
  <2>1. CASE (\E t \in Threads : Worker(t)) \/ UNCHANGED vars
    BY <2>1 DEF Worker, Admit, Leave, Finish, Send, vars, disk
  <2>2. CASE WriteSidecar
    BY <2>2 DEF WriteSidecar, TypeOK
  <2>3. CASE RetireMarker
    BY <2>3 DEF RetireMarker, TypeOK
  <2>4. CASE RetainRow
    BY <2>4 DEF RetainRow, TypeOK
  <2>5. CASE Receive \/ CloseServe \/ PublishVerdict
    BY <2>5 DEF Receive, CloseServe, PublishVerdict, disk
  <2>6. CASE StartPass \/ EndPass \/ RefusePass \/ Operator \/ Crash
    BY <2>6 DEF StartPass, EndPass, RefusePass, Operator, Supply, RemoveTorn, Crash, GoDown
  <2> QED  BY <2>1, <2>2, <2>3, <2>4, <2>5, <2>6 DEF Next, Main
<1>3. View(j)' = View(j)
  BY <1>2 DEF View
<1> QED  BY <1>1, <1>2, <1>3 DEF Fresh

\* A thread that holds a job has held it, or has just admitted it.
LEMMA HoldsMove ==
  ASSUME Inv, [Next]_vars, phase' # "down", NEW t \in Threads, Holds(t)'
  PROVE  \/ phase # "down" /\ Holds(t) /\ job'[t] = job[t]
         \/ phase # "down" /\ job'[t] \in pending
<1> USE DEF Inv
<1>0. phase = "down" => pc[t] = "exit"
  BY DEF ThreadInv
<1>1. ASSUME NEW u \in Threads, Worker(u) PROVE (Holds(t) /\ job'[t] = job[t]) \/ job'[t] \in pending
  <2>1. CASE Admit(u)
    <3>1. PICK j \in pending : job' = [job EXCEPT ![u] = j] /\ pc' = [pc EXCEPT ![u] = "run"] /\ pub' = pub
      BY <2>1 DEF Admit
    <3> QED  BY <3>1 DEF Holds, TypeOK
  <2>2. CASE Leave(u)
    <3>1. pc' = [pc EXCEPT ![u] = "exit"] /\ pub' = pub /\ job' = job
      BY <2>2 DEF Leave
    <3> QED  BY <3>1 DEF Holds, TypeOK
  <2>3. CASE Finish(u)
    <3>1. pc[u] = "run" /\ pc' = [pc EXCEPT ![u] = "done"] /\ pub' = pub /\ job' = job
      BY <2>3 DEF Finish
    <3> QED  BY <3>1 DEF Holds, TypeOK
  <2>4. CASE Send(u)
    <3>1. pc[u] = "done" /\ pc' = [pc EXCEPT ![u] = "wait"] /\ pub' = pub /\ job' = job
      BY <2>4 DEF Send
    <3> QED  BY <3>1 DEF Holds, TypeOK
  <2> QED  BY <1>1, <2>1, <2>2, <2>3, <2>4 DEF Worker
<1>2. CASE StartPass
  BY <1>2 DEF StartPass, Holds
<1>3. CASE Receive \/ PublishVerdict \/ CloseServe \/ WriteSidecar \/ RefusePass \/ Operator \/ UNCHANGED vars
  <2>1. UNCHANGED <<pc, job>>
    BY <1>3 DEF Receive, PublishVerdict, CloseServe, WriteSidecar, RefusePass, Operator, Supply, RemoveTorn, vars, pool
  <2>2. pub.thread \in {pub'.thread, Nobody}
    <3>0. pub \in Publications
      BY DEF TypeOK
    <3>1. CASE Receive \/ PublishVerdict
      BY <3>1 DEF Receive, PublishVerdict, Idle, PubInv, NoPub
    <3>2. CASE WriteSidecar
      BY <3>0, <3>2 DEF WriteSidecar, Publications
    <3>3. CASE CloseServe \/ RefusePass \/ Operator \/ UNCHANGED vars
      BY <3>3 DEF CloseServe, RefusePass, Operator, Supply, RemoveTorn, vars
    <3> QED  BY <1>3, <3>1, <3>2, <3>3
  <2> QED  BY <1>0, <2>1, <2>2, ValuesApart DEF Holds
<1>4. CASE RetireMarker \/ RetainRow
  <2>1. Ends /\ pub.step # "none"
    BY <1>4, PublicationEnds DEF RetireMarker, RetainRow
  <2>2. CASE UNCHANGED <<pc, job>>
    <3>1. pub'.thread = pub.thread \/ pub.thread = Nobody
      <4>1. pub \in Publications
        BY DEF TypeOK
      <4>2. [pub EXCEPT !.step = "write", !.tries = @ + 1].thread = pub.thread
        BY <4>1 DEF Publications
      <4>3. (Resume("admit") \/ Resume("exit")) /\ pub.thread # Nobody
              => pc[pub.thread] = "wait" /\ pc'[pub.thread] # "wait"
        BY <4>1 DEF Resume, PubInv, Publications
      <4> QED  BY <2>1, <2>2, <4>2, <4>3 DEF Ends
    <3> QED  BY <1>0, <2>2, <3>1, ValuesApart DEF Holds
  <2>3. CASE Resume("admit") \/ Resume("exit")
    <3>1. t # pub.thread => pc'[t] = pc[t] /\ job'[t] = job[t]
      BY <2>3 DEF Resume
    <3>2. t = pub.thread => pc'[t] \in {"admit", "exit"}
      BY <2>3 DEF Resume
    <3> QED  BY <1>0, <3>1, <3>2 DEF Holds
  <2> QED  BY <2>1, <2>2, <2>3 DEF Ends
<1>5. CASE EndPass \/ Crash
  BY <1>5 DEF EndPass, Crash, GoDown
<1>6. (Holds(t) /\ job'[t] = job[t]) \/ job'[t] \in pending
  BY <1>1, <1>2, <1>3, <1>4, <1>5 DEF Next, Main
<1>7. phase # "down"
  BY <1>0, <1>6 DEF Holds, IdleInv
<1> QED  BY <1>6, <1>7

\* What waits shrinks during a pass.
LEMMA PlansShrink ==
  ASSUME Inv, [Next]_vars, phase # "down", phase' # "down"
  PROVE  pending' \subseteq pending /\ verdicts' \subseteq verdicts
<1>1. CASE \E t \in Threads : Worker(t)
  BY <1>1 DEF Worker, Admit, Leave, Finish, Send
<1>2. CASE Receive \/ CloseServe \/ PublishVerdict \/ WriteSidecar \/ RetireMarker \/ RetainRow \/ UNCHANGED vars
  BY <1>2 DEF Receive, CloseServe, PublishVerdict, WriteSidecar, RetireMarker, RetainRow, Others, vars, pool
<1>3. CASE StartPass \/ EndPass \/ RefusePass \/ Operator \/ Crash
  BY <1>3 DEF StartPass, EndPass, RefusePass, Operator, Supply, RemoveTorn, Crash, GoDown
<1> QED  BY <1>1, <1>2, <1>3 DEF Next, Main

\* The process is down after a step, starts a pass, or goes on with one.
LEMMA PhaseMoves ==
  ASSUME [Next]_vars
  PROVE  \/ GoDown \/ StartPass
         \/ UNCHANGED <<phase, view, pass>>
         \/ CloseServe /\ phase # "down" /\ phase' # "down" /\ UNCHANGED <<view, pass>>
<1>1. CASE \E t \in Threads : Worker(t)
  BY <1>1 DEF Worker, Admit, Leave, Finish, Send
<1>2. CASE Main
  BY <1>2 DEF Main, Receive, CloseServe, PublishVerdict, EndPass, WriteSidecar, RetireMarker, RetainRow, Others
<1>3. CASE RefusePass \/ Operator \/ Crash \/ UNCHANGED vars
  BY <1>3 DEF RefusePass, Operator, Supply, RemoveTorn, Crash, vars
<1> QED  BY <1>1, <1>2, <1>3 DEF Next

\* Nothing of this pass is recorded of a job that waits or that a thread holds.
LEMMA FreshStep ==
  ASSUME Inv, [Next]_vars
  PROVE  FreshInv'
<1> USE DEF Inv
<1>1. CASE GoDown
  BY <1>1 DEF GoDown, FreshInv, Holds
<1>2. CASE StartPass
  <2>1. ASSUME NEW j \in Jobs PROVE Fresh(j)'
    <3>1. View(j)' = View(j) /\ view'[j] = View(j) /\ marker'[j] = NoRow
      BY <1>2 DEF StartPass, View
    <3> QED  BY <3>1 DEF Fresh
  <2>2. pending' = Plan("enqueue")' /\ verdicts' = Plan("poison")'
    BY <1>2 DEF StartPass
  <2>3. \A t \in Threads : ~Holds(t)'
    BY <1>2 DEF StartPass, Holds
  <2>4. pending' \cup verdicts' \subseteq Jobs
    BY <2>2 DEF Plan
  <2> QED  BY <2>1, <2>2, <2>3, <2>4 DEF FreshInv
<1>3. CASE phase # "down" /\ phase' # "down" /\ UNCHANGED <<view, pass>>
  <2>1. pending' \subseteq pending /\ verdicts' \subseteq verdicts /\ \A part : Plan(part)' = Plan(part)
    BY <1>3, PlansShrink, PlanSame
  <2>2. ASSUME NEW j \in pending \cup verdicts PROVE Fresh(j)'
    <3>1. j \in Jobs /\ Fresh(j) /\ (pub.step = "none" \/ j # pub.of)
      BY PubApart DEF FreshInv, TypeOK
    <3> QED  BY <1>3, <3>1, FreshKept
  <2>3. ASSUME NEW t \in Threads, Holds(t)' PROVE Fresh(job[t])'
    <3>1. PICK j : j = job'[t]
      OBVIOUS
    <3>2. (Holds(t) /\ j = job[t]) \/ j \in pending
      BY <1>3, <2>3, <3>1, HoldsMove
    <3>3. CASE Holds(t) /\ j = job[t]
      <4>1. j \in Jobs
        BY <3>3, ValuesApart DEF TypeOK, Holds, ThreadInv
      <4>2. Fresh(j) /\ (pub.step = "none" \/ j # pub.of)
        BY <3>3, PubApart DEF FreshInv
      <4>3. Fresh(j)'
        BY <1>3, <4>1, <4>2, FreshKept
      <4> QED  BY <3>1, <4>3 DEF Fresh, View
    <3>4. CASE j \in pending
      <4>1. Fresh(j)'
        BY <2>2, <3>4
      <4> QED  BY <3>1, <4>1 DEF Fresh, View
    <3> QED  BY <3>2, <3>3, <3>4
  <2>4. pending' \subseteq Plan("enqueue")' /\ verdicts' \subseteq Plan("poison")'
    BY <2>1 DEF FreshInv
  <2> QED  BY <2>1, <2>2, <2>3, <2>4 DEF FreshInv
<1>4. CASE phase = "down" /\ UNCHANGED <<phase, view, pass>>
  <2>1. pending = {} /\ verdicts = {} /\ \A t \in Threads : pc[t] = "exit"
    BY <1>4 DEF IdleInv, ThreadInv
  <2>2. UNCHANGED <<pending, verdicts, pc>> \/ StartPass \/ GoDown
    <3>1. ~\E t \in Threads : Worker(t)
      BY <2>1 DEF Worker, Admit, Leave, Finish, Send
    <3>2. ~(Receive \/ CloseServe \/ PublishVerdict \/ WriteSidecar \/ RetireMarker \/ RetainRow)
      BY <1>4 DEF Receive, CloseServe, PublishVerdict, WriteSidecar, RetireMarker, RetainRow, IdleInv
    <3> QED  BY <3>1, <3>2 DEF Next, Main, EndPass, RefusePass, Operator, Supply, RemoveTorn, Crash, vars, pool
  <2>3. CASE UNCHANGED <<pending, verdicts, pc>>
    BY <2>1, <2>3 DEF FreshInv, Holds
  <2> QED  BY <1>1, <1>2, <2>2, <2>3
<1> QED  BY <1>1, <1>2, <1>3, <1>4, PhaseMoves

-----------------------------------------------------------------------------
(* The record of a job. *)

\* A marker the ledger does not show is the next record of its job.
LEMMA SupplyView ==
  ASSUME Inv, NEW j \in Jobs, Supply(j)
  PROVE  Later(View(j), marker[j]) /\ View(j)' = marker[j] /\ Outdated(ledger[j], marker[j])
<1> USE DEF Inv
<1>1. phase = "down" /\ marker[j] \notin {NoRow, Torn, View(j)} /\ ledger' = ledger /\ supplied'[j] = marker[j]
  BY DEF Supply, Reconciled, TypeOK
<1>2. Later(View(j), marker[j]) /\ marker[j] \in Rows /\ ledger[j] \in Rows \cup {NoRow}
  BY <1>1 DEF RecInv, TypeOK
<1>3. CASE ledger[j] = NoRow
  BY <1>1, <1>2, <1>3 DEF View, Outdated
<1>4. CASE ledger[j] # NoRow
  <2>1. ledger[j] \in Rows /\ View(j) # NoRow /\ View(j) \in Rows
    BY <1>2, <1>4, ViewType DEF View, apply
  <2>2. ledger[j].status = "Failed" /\ ledger[j].ts < marker[j].ts
    <3>1. View(j).status = "Failed" /\ marker[j].ts > View(j).ts
      BY <1>2, <2>1 DEF Later
    <3>2. ledger[j] = View(j) \/ (ledger[j].status = "Failed" /\ ledger[j].ts < View(j).ts)
      BY <1>4 DEF RecInv, Outdated
    <3>3. ledger[j].ts \in Int /\ View(j).ts \in Int /\ marker[j].ts \in Int
      BY <1>2, <2>1 DEF Rows
    <3> QED  BY <3>1, <3>2, <3>3
  <2>3. apply(marker[j], ledger[j]) = marker[j]
    BY <1>2, <2>1, <2>2, ApplyLater
  <2> QED  BY <1>1, <1>2, <1>4, <2>2, <2>3 DEF View, Outdated
<1> QED  BY <1>3, <1>4

\* Older rows of the ledger are failures, and a marker is the job's record, the next
\* one, or no row.
LEMMA RecStep ==
  ASSUME Inv, [Next]_vars
  PROVE  RecInv'
<1> USE DEF Inv
<1> SUFFICES ASSUME NEW j \in Jobs
             PROVE  /\ Outdated(supplied'[j], View(j)') /\ Outdated(ledger'[j], View(j)')
                    /\ phase' = "down" => marker'[j] \in {NoRow, Torn, View(j)'} \/ Later(View(j)', marker'[j])
                    /\ phase' # "down" =>
                         /\ \A r \in {supplied'[j], view'[j]} : r # NoRow => r.ts < pass'
                         /\ \/ marker'[j] \in {NoRow, Torn}
                            \/ Later(view'[j], marker'[j]) /\ View(j)' \in {view'[j], marker'[j]}
  BY DEF RecInv, View, Outdated, Later
<1>0. /\ Outdated(supplied[j], View(j)) /\ Outdated(ledger[j], View(j))
      /\ phase = "down" => marker[j] \in {NoRow, Torn, View(j)} \/ Later(View(j), marker[j])
      /\ phase # "down" =>
           /\ \A r \in {supplied[j], view[j]} : r # NoRow => r.ts < pass
           /\ \/ marker[j] \in {NoRow, Torn}
              \/ Later(view[j], marker[j]) /\ View(j) \in {view[j], marker[j]}
  BY DEF RecInv
<1>1. UNCHANGED <<ledger, supplied>> => View(j)' = View(j)
  BY DEF View
<1>2. ASSUME UNCHANGED <<disk, view, pass>>, phase = "down" <=> phase' = "down"
      PROVE  /\ Outdated(supplied'[j], View(j)') /\ Outdated(ledger'[j], View(j)')
             /\ phase' = "down" => marker'[j] \in {NoRow, Torn, View(j)'} \/ Later(View(j)', marker'[j])
             /\ phase' # "down" =>
                  /\ \A r \in {supplied'[j], view'[j]} : r # NoRow => r.ts < pass'
                  /\ \/ marker'[j] \in {NoRow, Torn}
                     \/ Later(view'[j], marker'[j]) /\ View(j)' \in {view'[j], marker'[j]}
  BY <1>0, <1>1, <1>2 DEF disk
<1>3. CASE \E t \in Threads : Worker(t)
  BY <1>2, <1>3 DEF Worker, Admit, Leave, Finish, Send
<1>4. CASE Receive \/ CloseServe \/ PublishVerdict \/ UNCHANGED vars
  BY <1>2, <1>4 DEF Receive, CloseServe, PublishVerdict, vars
<1>5. CASE StartPass
  <2>1. /\ UNCHANGED <<ledger, supplied>> /\ view'[j] = View(j) /\ marker'[j] = NoRow
        /\ pass' = pass + 1 /\ phase' = "serve"
    BY <1>5 DEF StartPass
  <2>2. View(j) \in {ledger[j], supplied[j]} /\ ledger[j] \in Rows \cup {NoRow} /\ supplied[j] \in Rows \cup {NoRow}
    BY ViewType DEF TypeOK
  <2>3. \A r \in {ledger[j], supplied[j]} : r # NoRow => r \in Rows /\ r.ts <= pass
    BY <2>2, ValuesApart DEF RowInv, Sound
  <2>4. \A r \in {supplied[j], View(j)} : r # NoRow => r.ts < pass + 1
    BY <2>2, <2>3 DEF TypeOK, Rows
  <2> QED  BY <1>0, <1>1, <2>1, <2>4
<1>6. CASE WriteSidecar
  <2>1. UNCHANGED <<supplied, marker, phase, view, pass>> /\ pub.step # "none"
    BY <1>6 DEF WriteSidecar
  <2>2. phase # "down"
    BY <2>1 DEF PubInv
  <2>3. CASE ledger'[j] = ledger[j]
    <3>1. View(j)' = View(j)
      BY <1>6, <2>3, WriteViews
    <3> QED  BY <1>0, <2>1, <2>2, <2>3, <3>1
  <2>4. CASE ledger'[j] # ledger[j]
    <3>1. j = pub.of /\ ledger'[j] = pub.row
      BY <1>6, <2>4, RowsMove
    <3>2. View(j)' = pub.row
      BY <1>6, <3>1, WriteViews
    <3>3. Outdated(supplied[j], pub.row) /\ Outdated(pub.row, pub.row)
      BY <2>1, <3>1, PublishedWins DEF Outdated
    <3>4. marker[j] \in {NoRow, Torn, pub.row} /\ Later(view[j], pub.row)
      BY <2>1, <3>1 DEF PubInv
    <3> QED  BY <1>0, <2>1, <2>2, <3>1, <3>2, <3>3, <3>4
  <2> QED  BY <2>3, <2>4
<1>7. CASE RetireMarker \/ RetainRow
  <2>1. UNCHANGED <<ledger, supplied, phase, view, pass>> /\ pub.step # "none"
    BY <1>7 DEF RetireMarker, RetainRow, Others
  <2>2. phase # "down" /\ Later(view[pub.of], pub.row) /\ View(pub.of) \in {view[pub.of], pub.row}
    BY <2>1 DEF PubInv
  <2>3. marker'[j] \in {marker[j], NoRow, Torn} \/ (marker'[j] = pub.row /\ j = pub.of)
    BY <1>7, PubTypes DEF RetireMarker, RetainRow, TypeOK
  <2> QED  BY <1>0, <1>1, <2>1, <2>2, <2>3
<1>8. CASE EndPass \/ Crash
  <2>1. UNCHANGED <<ledger, supplied>> /\ phase' = "down" /\ phase # "down"
    BY <1>8 DEF EndPass, Crash, GoDown, disk
  <2>2. marker'[j] \in {marker[j], Torn}
    BY <1>8 DEF EndPass, Crash, disk, TypeOK
  <2> QED  BY <1>0, <1>1, <2>1, <2>2
<1>9. CASE RefusePass \/ (\E k \in Jobs : RemoveTorn(k))
  <2>1. UNCHANGED <<ledger, supplied, phase>> /\ phase = "down" /\ marker'[j] \in {marker[j], NoRow}
    BY <1>9 DEF RefusePass, RemoveTorn, TypeOK
  <2> QED  BY <1>0, <1>1, <2>1
<1>10. ASSUME NEW k \in Jobs, Supply(k)
       PROVE  /\ Outdated(supplied'[j], View(j)') /\ Outdated(ledger'[j], View(j)')
              /\ phase' = "down"
              /\ marker'[j] \in {NoRow, Torn, View(j)'} \/ Later(View(j)', marker'[j])
  <2>1. UNCHANGED <<ledger, marker, phase>> /\ phase = "down" /\ supplied' = [supplied EXCEPT ![k] = marker[k]]
    BY <1>10 DEF Supply
  <2>2. CASE j = k
    <3>1. View(j)' = marker[j] /\ Outdated(ledger[j], marker[j]) /\ supplied'[j] = marker[j]
      BY <1>10, <2>1, <2>2, SupplyView DEF TypeOK
    <3> QED  BY <2>1, <3>1 DEF Outdated
  <2>3. CASE j # k
    <3>1. supplied'[j] = supplied[j]
      BY <2>1, <2>3 DEF TypeOK
    <3>2. View(j)' = View(j)
      BY <2>1, <3>1 DEF View
    <3> QED  BY <1>0, <2>1, <3>1, <3>2
  <2> QED  BY <2>2, <2>3
<1> QED  BY <1>3, <1>4, <1>5, <1>6, <1>7, <1>8, <1>9, <1>10 DEF Next, Main, Operator

\* While the pass is not halted, only the row being published may lie in a marker.
LEMMA HaltStep ==
  ASSUME Inv, [Next]_vars
  PROVE  HaltInv'
<1> USE DEF Inv
<1>1. CASE GoDown
  BY <1>1, DownInv
<1>2. CASE StartPass
  BY <1>2 DEF StartPass, HaltInv
<1>3. CASE phase' # "serve"
  BY <1>3 DEF HaltInv
<1>4. CASE phase' = "serve" /\ UNCHANGED phase
  <2>1. CASE halted
    <3>1. halted' \/ GoDown
      <4>1. CASE \E t \in Threads : Worker(t)
        BY <2>1, <4>1 DEF Worker, Admit, Leave, Finish, Send
      <4>2. CASE Main \/ RefusePass \/ Operator \/ Crash \/ UNCHANGED vars
        BY <2>1, <4>2 DEF Main, StartPass, Receive, CloseServe, PublishVerdict, EndPass, WriteSidecar,
             RetireMarker, RetainRow, Acknowledge, FailTry, RefusePass, Operator, Supply, RemoveTorn, Crash, vars
      <4> QED  BY <4>1, <4>2 DEF Next
    <3> QED  BY <1>1, <3>1 DEF HaltInv
  <2>2. CASE ~halted
    <3>0. \A j \in Jobs : marker[j] = NoRow \/ (pub.step # "none" /\ pub.of = j)
      BY <1>4, <2>2 DEF HaltInv
    <3>1. CASE \E t \in Threads : Worker(t)
      BY <3>0, <3>1 DEF Worker, Admit, Leave, Finish, Send, disk, HaltInv
    <3>2. CASE Receive
      <4>1. \A j \in Jobs : marker'[j] = NoRow
        BY <3>0, <3>2 DEF Receive, Idle, disk
      <4> QED  BY <4>1 DEF HaltInv
    <3>3. CASE WriteSidecar
      <4>1. pub'.step # "none" /\ pub'.of = pub.of /\ marker' = marker
        BY <3>3 DEF WriteSidecar, TypeOK, Publications
      <4> QED  BY <3>0, <4>1 DEF HaltInv
    <3>4. CASE RetireMarker \/ RetainRow
      <4>1. pub.step # "none" /\ pub.of \in Jobs /\ pub.thread # Nobody
        BY <1>4, <3>4, PubTypes DEF RetireMarker, RetainRow, PubInv
      <4>2. \A j \in Jobs : j # pub.of => marker'[j] = NoRow
        BY <3>0, <3>4, <4>1 DEF RetireMarker, RetainRow, TypeOK
      <4>3. CASE marker'[pub.of] = NoRow
        BY <4>2, <4>3 DEF HaltInv
      <4>4. CASE FailTry /\ pub.tries < 2
        <5>1. pub \in Publications
          BY DEF TypeOK
        <5>2. pub' = [pub EXCEPT !.step = "write", !.tries = @ + 1]
          BY <4>4 DEF FailTry
        <5>3. pub'.step # "none" /\ pub'.of = pub.of
          BY <5>1, <5>2 DEF Publications
        <5> QED  BY <4>2, <5>3 DEF HaltInv
      <4>5. CASE FailTry /\ ~(pub.tries < 2)
        BY <4>1, <4>5 DEF FailTry, HaltInv
      <4>6. marker'[pub.of] = NoRow \/ FailTry
        BY <3>4, <4>1 DEF RetireMarker, RetainRow, TypeOK
      <4> QED  BY <4>3, <4>4, <4>5, <4>6
    <3>5. CASE UNCHANGED vars
      BY <3>0, <3>5 DEF vars, disk, HaltInv
    <3>6. CASE PublishVerdict \/ CloseServe \/ EndPass \/ RefusePass \/ Operator \/ Crash
      BY <1>4, <3>6 DEF PublishVerdict, CloseServe, EndPass, RefusePass, Operator, Supply, RemoveTorn, Crash, GoDown
    <3> QED  BY <1>2, <3>1, <3>2, <3>3, <3>4, <3>5, <3>6 DEF Next, Main
  <2> QED  BY <2>1, <2>2
<1> QED  BY <1>1, <1>2, <1>3, <1>4, PhaseMoves DEF CloseServe

\* Between passes nothing waits, nothing is published and nothing is halted.
LEMMA IdleStep ==
  ASSUME Inv, [Next]_vars
  PROVE  IdleInv'
<1> USE DEF Inv
<1>1. CASE GoDown
  BY <1>1, DownInv
<1>2. CASE phase' # "down"
  <2>1. pass' >= 1
    <3>1. CASE StartPass
      BY <3>1 DEF StartPass, TypeOK
    <3>2. CASE UNCHANGED <<phase, pass>> \/ (phase # "down" /\ UNCHANGED pass)
      BY <1>2, <3>2 DEF IdleInv
    <3> QED  BY <1>2, <3>1, <3>2, PhaseMoves DEF GoDown
  <2> QED  BY <1>2, <2>1 DEF IdleInv
<1>3. CASE phase = "down" /\ phase' = "down" /\ ~GoDown
  <2>1. ~\E t \in Threads : Worker(t)
    BY <1>3 DEF Worker, Admit, Leave, Finish, Send, ThreadInv
  <2>2. ~(Receive \/ CloseServe \/ PublishVerdict \/ WriteSidecar \/ RetireMarker \/ RetainRow \/ StartPass)
    BY <1>3 DEF Receive, CloseServe, PublishVerdict, WriteSidecar, RetireMarker, RetainRow, StartPass, IdleInv
  <2>3. UNCHANGED <<pending, verdicts, pub, halted>>
    BY <1>3, <2>1, <2>2 DEF Next, Main, EndPass, RefusePass, Operator, Supply, RemoveTorn, Crash, vars, pool
  <2> QED  BY <1>3, <2>3 DEF IdleInv
<1> QED  BY <1>1, <1>2, <1>3, PhaseMoves DEF StartPass

-----------------------------------------------------------------------------
(* Theorems. *)

\* At the start there is nothing.
LEMMA InitInv ==
  ASSUME Init
  PROVE  Inv
<1> USE DEF Init
<1>1. NoPub \in Publications
  BY DEF NoPub, Publications
<1>2. TypeOK
  <2>1. <<>> \in Seq(Messages)
    OBVIOUS
  <2>2. {ledger, supplied, view} \subseteq [Jobs -> Rows \cup {NoRow}] /\ marker \in [Jobs -> Rows \cup {NoRow, Torn}]
    OBVIOUS
  <2>3. /\ used \in [Dims -> Nat] /\ pc \in [Threads -> {"admit", "run", "done", "wait", "exit"}]
        /\ job \in [Threads -> Jobs \cup {Nobody}] /\ result \in [Threads -> Reports \cup {Nobody}]
    OBVIOUS
  <2>4. pass \in 0..MaxPass /\ faults \in 0..MaxFaults /\ crashes \in 0..MaxCrash
    BY BoundsNat
  <2> QED  BY <1>1, <2>1, <2>2, <2>3, <2>4 DEF TypeOK
<1>3. FootprintExact
  <2>1. \A t \in Threads : pc[t] = "exit"
    OBVIOUS
  <2>2. \A d \in Dims : Footprint(d) = 0
    BY <2>1, FootprintZero
  <2>3. \A d \in Dims : used[d] = 0 /\ 0 <= Budget[d]
    BY JobsFit
  <2> QED  BY <2>2, <2>3 DEF FootprintExact, Footprint
<1>4. RowInv /\ ThreadInv /\ ChannelInv /\ PubInv /\ HaltInv /\ IdleInv
  BY DEF RowInv, ThreadInv, ChannelInv, PubInv, HaltInv, IdleInv, NoPub
<1>5. FreshInv
  BY DEF FreshInv, Holds
<1>6. RecInv
  BY DEF RecInv, Outdated
<1> QED  BY <1>2, <1>3, <1>4, <1>5, <1>6 DEF Inv

\* The invariant is inductive.
LEMMA InvStep ==
  ASSUME Inv, [Next]_vars
  PROVE  Inv'
BY TypeStep, FootprintStep, RowStep, ThreadStep, ChannelStep, PubStep, FreshStep, RecStep, HaltStep, IdleStep DEF Inv

\* So it holds of every state.
LEMMA InvAlways == Spec => []Inv
<1>1. Init => Inv
  BY InitInv
<1>2. Inv /\ [Next]_vars => Inv'
  BY InvStep
<1> QED  BY <1>1, <1>2, PTL DEF Spec

\* The variables keep their types.
THEOREM TypeCorrect == Spec => []TypeOK
<1>1. Inv => TypeOK
  BY DEF Inv
<1> QED  BY <1>1, InvAlways, PTL

\* The running sum of the fair queue is the footprint of its producers and never
\* exceeds the box.
THEOREM FootprintCorrect == Spec => []FootprintExact
<1>1. Inv => FootprintExact
  BY DEF Inv
<1> QED  BY <1>1, InvAlways, PTL

\* No producer starts while an unpublished row lies in a marker.
THEOREM NoProducerOverRow == Spec => NoProducerOverUnresolvedRow
<1>1. ASSUME Inv, [Next]_vars, NEW t \in Threads, pc[t] = "admit", pc'[t] = "run", NEW j \in Jobs
      PROVE  marker[j] = NoRow \/ (pub.step # "none" /\ pub.of = j)
  <2>1. phase = "serve"
    BY <1>1 DEF Inv, ThreadInv
  <2>2. ~halted
    <3>1. ASSUME NEW u \in Threads, Worker(u) PROVE ~halted
      BY <1>1, <3>1 DEF Worker, Admit, Leave, Finish, Send, Closed, Inv, TypeOK
    <3>2. CASE Main
      BY <1>1, <3>2 DEF Main, StartPass, Receive, CloseServe, PublishVerdict, EndPass, GoDown, WriteSidecar,
           RetireMarker, RetainRow, Acknowledge, FailTry, Resume, pool
    <3>3. CASE RefusePass \/ Operator \/ Crash \/ UNCHANGED vars
      BY <1>1, <3>3 DEF RefusePass, Operator, Supply, RemoveTorn, Crash, GoDown, vars, pool
    <3> QED  BY <1>1, <3>1, <3>2, <3>3 DEF Next
  <2> QED  BY <1>1, <2>1, <2>2 DEF Inv, HaltInv
<1>2. Inv /\ [Next]_vars =>
        [\A t \in Threads : pc[t] = "admit" /\ pc'[t] = "run" =>
           \A j \in Jobs : marker[j] = NoRow \/ (pub.step # "none" /\ pub.of = j)]_vars
  BY <1>1
<1> QED  BY <1>2, InvAlways, PTL DEF Spec, NoProducerOverUnresolvedRow

\* A marker is retired only when the ledger shows its row.
THEOREM MarkerRetired == Spec => MarkerRetiredOnlyWhenRecorded
<1>1. ASSUME Inv, [Next]_vars, NEW j \in Jobs, marker[j] \notin {NoRow, Torn}, marker'[j] = NoRow
      PROVE  View(j)' = marker[j]
  <2>0. UNCHANGED <<ledger, supplied>> => View(j)' = View(j)
    BY DEF View
  <2>1. CASE StartPass \/ RefusePass
    BY <1>1, <2>0, <2>1 DEF StartPass, RefusePass, Reconciled
  <2>2. CASE RetireMarker
    <3>1. pub.step = "archive" /\ UNCHANGED <<ledger, supplied>>
      BY <2>2 DEF RetireMarker
    <3>2. pub.of \in Jobs /\ pub.row \in Rows /\ pub.row # NoRow
      BY <1>1, <3>1, PubTypes, ValuesApart DEF Inv
    <3>3. j = pub.of /\ marker[j] = pub.row
      BY <1>1, <2>2, <3>2 DEF RetireMarker, Inv, TypeOK
    <3>4. ledger[pub.of] = pub.row /\ apply(supplied[pub.of], pub.row) = pub.row
      BY <1>1, <3>1, PublishedWins DEF Inv, PubInv
    <3> QED  BY <2>0, <3>1, <3>2, <3>3, <3>4 DEF View
  <2>3. CASE RetainRow
    BY <1>1, <2>3, PubTypes, ValuesApart DEF RetainRow, Inv, TypeOK
  <2>4. CASE \E t \in Threads : Worker(t)
    BY <1>1, <2>4 DEF Worker, Admit, Leave, Finish, Send, disk
  <2>5. CASE Receive \/ CloseServe \/ PublishVerdict \/ EndPass \/ WriteSidecar \/ UNCHANGED vars
    BY <1>1, <2>5 DEF Receive, CloseServe, PublishVerdict, EndPass, WriteSidecar, vars, disk
  <2>6. CASE Operator \/ Crash
    BY <1>1, <2>6, ValuesApart DEF Operator, Supply, RemoveTorn, Crash, Inv, TypeOK
  <2> QED  BY <1>1, <2>1, <2>2, <2>3, <2>4, <2>5, <2>6 DEF Next, Main
<1>2. Inv /\ [Next]_vars =>
        [\A j \in Jobs : marker[j] \notin {NoRow, Torn} /\ marker'[j] = NoRow => View(j)' = marker[j]]_vars
  BY <1>1
<1> QED  BY <1>2, InvAlways, PTL DEF Spec, MarkerRetiredOnlyWhenRecorded

\* A record changes by exactly one attempt, of a later pass, and never once it is final.
THEOREM RecordsAdvance == Spec => RecordAdvances
<1>1. ASSUME Inv, [Next]_vars, NEW j \in Jobs, View(j)' # View(j)
      PROVE  Later(View(j), View(j)')
  <2>0. UNCHANGED <<ledger, supplied>> => View(j)' = View(j)
    BY DEF View
  <2>1. CASE WriteSidecar
    <3>1. j = pub.of /\ View(j)' = pub.row /\ pub.step # "none"
      BY <1>1, <2>1, WriteViews DEF WriteSidecar
    <3>2. Later(view[j], pub.row) /\ View(j) \in {view[j], pub.row}
      BY <1>1, <3>1 DEF Inv, PubInv
    <3> QED  BY <1>1, <3>1, <3>2
  <2>2. ASSUME NEW k \in Jobs, Supply(k) PROVE Later(View(j), View(j)')
    <3>1. j = k
      <4>1. ledger' = ledger /\ supplied' = [supplied EXCEPT ![k] = marker[k]]
        BY <2>2 DEF Supply
      <4> QED  BY <1>1, <4>1 DEF View, Inv, TypeOK
    <3> QED  BY <1>1, <2>2, <3>1, SupplyView
  <2>3. CASE \E t \in Threads : Worker(t)
    BY <1>1, <2>0, <2>3 DEF Worker, Admit, Leave, Finish, Send, disk
  <2>4. CASE StartPass \/ RefusePass \/ RetireMarker \/ RetainRow \/ Crash \/ (\E k \in Jobs : RemoveTorn(k))
    BY <1>1, <2>0, <2>4 DEF StartPass, RefusePass, RetireMarker, RetainRow, Crash, RemoveTorn
  <2>5. CASE Receive \/ CloseServe \/ PublishVerdict \/ EndPass \/ UNCHANGED vars
    BY <1>1, <2>0, <2>5 DEF Receive, CloseServe, PublishVerdict, EndPass, vars, disk
  <2> QED  BY <1>1, <2>1, <2>2, <2>3, <2>4, <2>5 DEF Next, Main, Operator
<1>2. Inv /\ [Next]_vars =>
        [\A j \in Jobs : View(j)' # View(j) =>
           /\ View(j)' # NoRow
           /\ View(j) = NoRow => View(j)'.attempts = 1
           /\ View(j) # NoRow => /\ View(j).status = "Failed"
                                 /\ View(j)'.attempts = View(j).attempts + 1
                                 /\ View(j)'.ts > View(j).ts]_vars
  BY <1>1 DEF Later
<1> QED  BY <1>2, InvAlways, PTL DEF Spec, RecordAdvances
=============================================================================
