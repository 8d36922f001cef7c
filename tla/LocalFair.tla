------------------------------ MODULE LocalFair ------------------------------
(***************************************************************************)
(* The single-owner local executor of zenfleet-worker (local_fair.rs):     *)
(* passes over one gap without chunks, a pool of threads that admit jobs   *)
(* under a shared budget, a main thread that publishes every row on its    *)
(* own, markers for rows that could not be published, and restarts that    *)
(* refuse to run a producer again while such a row is unresolved.          *)
(*                                                                         *)
(* Every job fits the budget (JobsFit): with one that does not, execute    *)
(* returns a configuration error before it starts a thread.                *)
(***************************************************************************)
EXTENDS LedgerView, Sequences, FiniteSetsExt

CONSTANTS
  Manifest,    \* the desired jobs, in order
  Threads,     \* the slots of the pool: cores clamped to 1..24
  Dims,        \* budget dimensions; "mem" is one of them
  Need,        \* resource hint of a job, per dimension
  Budget,      \* the box's budget, per dimension
  LargeMem,    \* memory from which a job is large (1 GiB)
  Burst,       \* small jobs after each large one (7)
  Live,        \* readings of MemAvailable minus the reserve
  Outcomes,    \* what each job's handler and upload may come to
  Torn,        \* content of a marker whose write was cut short
  Nobody,      \* no thread
  MaxPass,     \* bound: passes
  MaxFaults,   \* bound: failed file operations
  MaxCrash     \* bound: kills of the process

Jobs == Range(Manifest)

\* A job's row, what a thread reports of a job, the channel's messages, and the
\* state of a publication.
Rows == [status : Statuses, transient : BOOLEAN, ts : 1..MaxPass, attempts : 1..MaxPass]
Reports == [status : {"Done", "Failed"}, transient : BOOLEAN]
Messages == [thread : Threads, of : Jobs, status : {"Done", "Failed"}, transient : BOOLEAN]
Publications ==
  [thread : Threads \cup {Nobody}, of : Jobs \cup {Nobody}, row : Rows \cup {NoRow},
   step : {"none", "write", "archive", "mark"}, tries : 0..2]

ASSUME JobsFit ==
  /\ "mem" \in Dims /\ \A d \in Dims : Budget[d] \in Nat
  /\ \A j \in Jobs, d \in Dims : Need[j][d] \in Nat /\ Need[j][d] <= Budget[d]
ASSUME OutcomesKnown == \A j \in Jobs : Outcomes[j] \subseteq Reports
ASSUME BoundsNat == MaxPass \in Nat /\ MaxFaults \in Nat /\ MaxCrash \in Nat
ASSUME ThreadsFinite == IsFiniteSet(Threads)
ASSUME ValuesApart ==
  /\ Nobody \notin Threads \cup Jobs \cup Reports
  /\ NoRow \notin Rows /\ Torn \notin Rows \cup {NoRow}

VARIABLES
  ledger,    \* sidecar of each job: the row last renamed into place
  supplied,  \* row of each job in the ledger the operator provides
  marker,    \* unpublished-<id> diagnostic of each job
  phase,     \* main thread: "down", "serve" the channel, "poison" rows
  view,      \* the ledger view the pass works from
  pending,   \* jobs not admitted yet
  verdicts,  \* jobs whose Poison row is to be written
  used,      \* footprint of the admitted jobs, per dimension
  halted,    \* a publication failed for good in this pass
  pc, job, result,   \* each thread: where it is, its job, its outcome
  channel,   \* results sent to the main thread, oldest first
  pub,       \* the publication in progress
  pass, faults, crashes

disk == <<ledger, supplied, marker>>
pool == <<pending, used, pc, job, result>>
vars == <<disk, phase, view, verdicts, halted, pool, channel, pub, pass, faults, crashes>>

NoPub == [thread |-> Nobody, row |-> NoRow, step |-> "none", tries |-> 0, of |-> Nobody]

-----------------------------------------------------------------------------
\* What a pass reads from the ledger: the provided rows, then the sidecars.
View(j) == IF ledger[j] = NoRow THEN supplied[j] ELSE apply(supplied[j], ledger[j])

\* A part of the plan: each desired job is in one, however often it is listed.
Plan(part) == {j \in Jobs : reconcile_at(view[j], pass) = part}

\* The job's place in the manifest.
Index(j) ==
  CHOOSE i \in DOMAIN Manifest : Manifest[i] = j /\ \A k \in 1..(i - 1) : Manifest[k] # j

Large(j) == Need[j]["mem"] >= LargeMem

\* Large jobs biggest first, small ones smallest first; the manifest breaks ties.
Sooner(j, k) ==
  LET a == Need[j]["mem"]  b == Need[k]["mem"]
  IN  (IF Large(j) THEN a > b ELSE a < b) \/ (a = b /\ Index(j) < Index(k))

\* One large job and Burst small ones to a round.
Round(j) ==
  LET place == Cardinality({k \in Plan("enqueue") : Large(k) = Large(j) /\ Sooner(k, j)})
  IN  IF Large(j) THEN place ELSE place \div Burst

\* The admission order.
Before(j, k) ==
  \/ Round(j) < Round(k)
  \/ Round(j) = Round(k) /\ IF Large(j) = Large(k) THEN Sooner(j, k) ELSE Large(j)

Row__same(j, status, transient) ==
  [status |-> status, transient |-> transient, ts |-> pass,
   attempts |-> IF view[j] = NoRow THEN 1 ELSE view[j].attempts]
\* The row of one outcome: one attempt more than the view, at the pass's time.
Row(j, status, transient) ==
  [status |-> status, transient |-> transient, ts |-> pass,
   attempts |-> IF view[j] = NoRow THEN 1 ELSE view[j].attempts + 1]

-----------------------------------------------------------------------------
Init ==
  /\ ledger = [j \in Jobs |-> NoRow] /\ supplied = ledger /\ marker = ledger /\ view = ledger
  /\ phase = "down" /\ halted = FALSE
  /\ pending = {} /\ verdicts = {} /\ channel = <<>> /\ pub = NoPub
  /\ used = [d \in Dims |-> 0]
  /\ pc = [t \in Threads |-> "exit"]
  /\ job = [t \in Threads |-> Nobody] /\ result = [t \in Threads |-> Nobody]
  /\ pass = 0 /\ faults = 0 /\ crashes = 0

\* The process is gone, and with it everything it held in memory.
GoDown ==
  /\ phase' = "down" /\ halted' = FALSE
  /\ view' = [j \in Jobs |-> NoRow]
  /\ pending' = {} /\ verdicts' = {} /\ channel' = <<>> /\ pub' = NoPub
  /\ used' = [d \in Dims |-> 0]
  /\ pc' = [t \in Threads |-> "exit"]
  /\ job' = [t \in Threads |-> Nobody] /\ result' = [t \in Threads |-> Nobody]

Reconciled__always(j) == TRUE
\* The row of a marker is the one the ledger shows.
Reconciled(j) == marker[j] = View(j)

\* require_reconciled_publication finds a marker it cannot account for: the
\* worker ends before it runs anything.  The directory's order decides which of
\* the accounted markers it has retired by then.
RefusePass ==
  /\ phase = "down"
  /\ \E j \in Jobs : marker[j] # NoRow /\ ~Reconciled(j)
  /\ \E S \in SUBSET {j \in Jobs : marker[j] # NoRow /\ Reconciled(j)} :
       /\ S # {}
       /\ marker' = [j \in Jobs |-> IF j \in S THEN NoRow ELSE marker[j]]
  /\ UNCHANGED <<ledger, supplied, phase, view, verdicts, halted, pool, channel, pub, pass, faults, crashes>>

\* A pass with something to do: retire the markers, reconcile, start the threads.
StartPass ==
  /\ phase = "down" /\ pass < MaxPass
  /\ \A j \in Jobs : marker[j] # NoRow => Reconciled(j)
  /\ marker' = [j \in Jobs |-> NoRow]
  /\ view' = [j \in Jobs |-> View(j)]
  /\ pass' = pass + 1 /\ phase' = "serve"
  /\ pending' = Plan("enqueue")' /\ verdicts' = Plan("poison")'
  /\ pending' \cup verdicts' # {}
  /\ \E S \in SUBSET Threads :
       /\ Cardinality(S) = Min({Cardinality(pending'), Cardinality(Threads)})
       /\ pc' = [t \in Threads |-> IF t \in S THEN "admit" ELSE "exit"]
  /\ UNCHANGED <<ledger, supplied, halted, used, job, result, channel, pub, faults, crashes>>

-----------------------------------------------------------------------------
(* The pool's threads. *)

Fits(j, live) ==
  /\ used["mem"] + Need[j]["mem"] <= live
  /\ \A d \in Dims : used[d] + Need[j][d] <= Budget[d]

Closed__none == pending = {}
\* Under the lock: nothing more is admitted in this pass.
Closed == halted \/ pending = {}

\* Under the lock: take the first pending job that fits; the memory reading is
\* whatever the box shows.  A thread that finds none waits, for a second at most.
Admit(t) ==
  /\ pc[t] = "admit" /\ ~Closed
  /\ \E live \in Live, j \in pending :
       /\ Fits(j, live)
       /\ \A k \in pending : Before(k, j) => ~Fits(k, live)
       /\ pending' = pending \ {j}
       /\ used' = [d \in Dims |-> used[d] + Need[j][d]]
       /\ job' = [job EXCEPT ![t] = j]
       /\ pc' = [pc EXCEPT ![t] = "run"]
  /\ UNCHANGED <<disk, phase, view, verdicts, halted, result, channel, pub, pass, faults, crashes>>

Leave(t) ==
  /\ pc[t] = "admit" /\ Closed
  /\ pc' = [pc EXCEPT ![t] = "exit"]
  /\ UNCHANGED <<disk, phase, view, verdicts, halted, pending, used, job, result, channel, pub, pass, faults, crashes>>

Release__half(t) == used' = [used EXCEPT !["mem"] = @ - Need[job[t]]["mem"]]
Release(t) == used' = [d \in Dims |-> used[d] - Need[job[t]][d]]

\* The handler returns and its blob is stored, or either fails; the footprint goes.
Finish(t) ==
  /\ pc[t] = "run"
  /\ \E outcome \in Outcomes[job[t]] : result' = [result EXCEPT ![t] = outcome]
  /\ Release(t)
  /\ pc' = [pc EXCEPT ![t] = "done"]
  /\ UNCHANGED <<disk, phase, view, verdicts, halted, pending, job, channel, pub, pass, faults, crashes>>

Message(t) ==
  [thread |-> t, of |-> job[t], status |-> result[t].status, transient |-> result[t].transient]

\* The row goes to the main thread; the thread waits for its acknowledgement.
Send(t) ==
  /\ pc[t] = "done"
  /\ channel' = Append(channel, Message(t))
  /\ pc' = [pc EXCEPT ![t] = "wait"]
  /\ UNCHANGED <<disk, phase, view, verdicts, halted, pending, used, job, result, pub, pass, faults, crashes>>

-----------------------------------------------------------------------------
(* The main thread: publish one row at a time, three tries each. *)

Idle == pub.step = "none"

Publish(t, j, row) == pub' = [thread |-> t, of |-> j, row |-> row, step |-> "write", tries |-> 0]

Receive ==
  /\ phase = "serve" /\ Idle /\ channel # <<>>
  /\ LET m == Head(channel) IN Publish(m.thread, m.of, Row(m.of, m.status, m.transient))
  /\ channel' = Tail(channel)
  /\ UNCHANGED <<disk, phase, view, verdicts, halted, pool, pass, faults, crashes>>

\* Every thread has dropped its sender: the channel is closed.
CloseServe ==
  /\ phase = "serve" /\ Idle /\ channel = <<>>
  /\ \A t \in Threads : pc[t] = "exit"
  /\ phase' = "poison"
  /\ UNCHANGED <<disk, view, verdicts, halted, pool, channel, pub, pass, faults, crashes>>

\* Poison rows are written whether or not the pass was halted.
PublishVerdict ==
  /\ phase = "poison" /\ Idle
  /\ \E j \in verdicts :
       /\ \A k \in verdicts : Index(j) <= Index(k)
       /\ Publish(Nobody, j, Row(j, "Poison", view[j].transient))
       /\ verdicts' = verdicts \ {j}
  /\ UNCHANGED <<disk, phase, view, halted, pool, channel, pass, faults, crashes>>

EndPass ==
  /\ phase = "poison" /\ Idle /\ verdicts = {}
  /\ GoDown
  /\ UNCHANGED <<disk, pass, faults, crashes>>

\* A file operation fails: MaxFaults bounds the publications this happens to.
Fault ==
  IF pub.tries > 0 \/ pub.step = "mark" THEN UNCHANGED faults
  ELSE faults < MaxFaults /\ faults' = faults + 1

\* The answer reaches the waiting thread, which forgets the job.
Resume(at) ==
  LET For(f, new) == [t \in Threads |-> IF t = pub.thread THEN new ELSE f[t]]
  IN  pc' = For(pc, at) /\ job' = For(job, Nobody) /\ result' = For(result, Nobody)

\* The try succeeded: the thread may admit again.
Acknowledge ==
  /\ pub' = NoPub
  /\ Resume("admit")
  /\ UNCHANGED halted

FailTry__silent ==
  \/ /\ pub.tries < 2
     /\ pub' = [pub EXCEPT !.step = "write", !.tries = @ + 1]
     /\ UNCHANGED <<pc, job, result, halted>>
  \/ /\ pub.tries = 2
     /\ pub' = NoPub
     /\ halted' = (halted \/ pub.thread # Nobody)
     /\ UNCHANGED <<pc, job, result>>
FailTry__fourth ==
  \/ /\ pub.tries <= 2
     /\ pub' = [pub EXCEPT !.step = "write", !.tries = @ + 1]
     /\ UNCHANGED <<pc, job, result, halted>>
  \/ /\ pub.tries = 3
     /\ pub' = NoPub
     /\ halted' = (halted \/ pub.thread # Nobody)
     /\ Resume("exit")
\* The try failed; after the third the queue is closed and the thread leaves.
FailTry ==
  \/ /\ pub.tries < 2
     /\ pub' = [pub EXCEPT !.step = "write", !.tries = @ + 1]
     /\ UNCHANGED <<pc, job, result, halted>>
  \/ /\ pub.tries = 2
     /\ pub' = NoPub
     /\ halted' = (halted \/ pub.thread # Nobody)
     /\ Resume("exit")

\* atomic_write: write aside, sync, rename, sync the directory.  A failure of the
\* last step leaves the row in place and is still a failure.
WriteSidecar ==
  /\ pub.step = "write"
  /\ \/ /\ ledger' = [ledger EXCEPT ![pub.of] = pub.row]
        /\ pub' = [pub EXCEPT !.step = "archive"]
        /\ UNCHANGED faults
     \/ /\ Fault
        /\ ledger' \in {ledger, [ledger EXCEPT ![pub.of] = pub.row]}
        /\ pub' = [pub EXCEPT !.step = "mark"]
  /\ UNCHANGED <<supplied, marker, phase, view, verdicts, halted, pool, channel, pass, crashes>>

Others == <<phase, view, verdicts, pending, used, channel, pass, crashes>>

\* archive_marker: a marker of this very row is retired, one with another content
\* fails the try although the sidecar is in place.
RetireMarker ==
  /\ pub.step = "archive"
  /\ \/ /\ marker[pub.of] \in {NoRow, pub.row}
        /\ marker' = [marker EXCEPT ![pub.of] = NoRow]
        /\ Acknowledge
        /\ UNCHANGED faults
     \/ /\ marker[pub.of] = pub.row /\ Fault
        /\ marker' \in {marker, [marker EXCEPT ![pub.of] = NoRow]}
        /\ FailTry
     \/ /\ marker[pub.of] \notin {NoRow, pub.row}
        /\ FailTry
        /\ UNCHANGED <<marker, faults>>
  /\ UNCHANGED <<ledger, supplied, Others>>

\* The sidecar failed: keep the exact row in a marker of its own.
RetainRow ==
  /\ pub.step = "mark"
  /\ \/ /\ marker[pub.of] = NoRow
        /\ marker' \in {marker, [marker EXCEPT ![pub.of] = Torn], [marker EXCEPT ![pub.of] = pub.row]}
     \/ /\ marker[pub.of] # NoRow
        /\ UNCHANGED marker
  /\ FailTry
  /\ UNCHANGED <<ledger, supplied, faults, Others>>

-----------------------------------------------------------------------------
(* Kills, and the operator. *)

\* The process dies; the files stay, a marker being written perhaps cut short.
Crash ==
  /\ phase # "down" /\ crashes < MaxCrash
  /\ crashes' = crashes + 1
  /\ \/ UNCHANGED marker
     \/ /\ pub.step = "mark" /\ marker[pub.of] = NoRow
        /\ marker' = [marker EXCEPT ![pub.of] = Torn]
  /\ GoDown
  /\ UNCHANGED <<ledger, supplied, pass, faults>>

\* Between passes the operator puts an unpublished row into the ledger.
Supply(j) ==
  /\ phase = "down" /\ marker[j] \notin {NoRow, Torn} /\ ~Reconciled(j)
  /\ supplied' = [supplied EXCEPT ![j] = marker[j]]
  /\ UNCHANGED <<ledger, marker, phase, view, verdicts, halted, pool, channel, pub, pass, faults, crashes>>

\* The operator removes a marker that does not parse.
RemoveTorn(j) ==
  /\ phase = "down" /\ marker[j] = Torn
  /\ marker' = [marker EXCEPT ![j] = NoRow]
  /\ UNCHANGED <<ledger, supplied, phase, view, verdicts, halted, pool, channel, pub, pass, faults, crashes>>

-----------------------------------------------------------------------------
Worker(t) == Admit(t) \/ Leave(t) \/ Finish(t) \/ Send(t)
Main == \/ StartPass \/ Receive \/ CloseServe \/ PublishVerdict \/ EndPass
        \/ WriteSidecar \/ RetireMarker \/ RetainRow
Operator == \E j \in Jobs : Supply(j) \/ RemoveTorn(j)

Next == (\E t \in Threads : Worker(t)) \/ Main \/ RefusePass \/ Operator \/ Crash

Spec == Init /\ [][Next]_vars
FairSpec == Spec /\ WF_vars(Main) /\ WF_vars(Operator) /\ \A t \in Threads : WF_vars(Worker(t))

-----------------------------------------------------------------------------
(* Properties. *)

\* The variables keep their types.
TypeOK ==
  /\ {ledger, supplied, view} \subseteq [Jobs -> Rows \cup {NoRow}]
  /\ marker \in [Jobs -> Rows \cup {NoRow, Torn}]
  /\ phase \in {"down", "serve", "poison"} /\ halted \in BOOLEAN
  /\ pending \subseteq Jobs /\ verdicts \subseteq Jobs
  /\ used \in [Dims -> Nat]
  /\ pc \in [Threads -> {"admit", "run", "done", "wait", "exit"}]
  /\ job \in [Threads -> Jobs \cup {Nobody}] /\ result \in [Threads -> Reports \cup {Nobody}]
  /\ channel \in Seq(Messages) /\ pub \in Publications
  /\ pass \in 0..MaxPass /\ faults \in 0..MaxFaults /\ crashes \in 0..MaxCrash

\* The running sum is the footprint of the threads that run a producer, and it
\* stays inside the box.
Running == {t \in Threads : pc[t] = "run"}
FootprintExact ==
  \A d \in Dims :
    /\ used[d] = SumFunctionOnSet([t \in Running |-> Need[job[t]][d]], Running)
    /\ used[d] <= Budget[d]

\* No producer starts while a row of this or an earlier pass lies unpublished in a
\* marker, the row being published at that moment excepted.
NoProducerOverUnresolvedRow ==
  [][\A t \in Threads : pc[t] = "admit" /\ pc'[t] = "run" =>
       \A j \in Jobs : marker[j] = NoRow \/ (pub.step # "none" /\ pub.of = j)]_vars

\* A marker the program retires is one whose exact row the ledger shows.
MarkerRetiredOnlyWhenRecorded ==
  [][\A j \in Jobs : marker[j] \notin {NoRow, Torn} /\ marker'[j] = NoRow => View(j)' = marker[j]]_vars

\* Each change of a job's record counts exactly one more attempt, made by a later
\* pass than the one before, and a finished job's record never changes: across
\* retried publications, kills and restarts no attempt is lost or counted twice.
RecordAdvances ==
  [][\A j \in Jobs : View(j)' # View(j) =>
       /\ View(j)' # NoRow
       /\ View(j) = NoRow => View(j)'.attempts = 1
       /\ View(j) # NoRow => /\ View(j).status = "Failed"
                             /\ View(j)'.attempts = View(j).attempts + 1
                             /\ View(j)'.ts > View(j).ts]_vars

\* Every job ends Done or Poison, whatever fails or dies on the way.
EveryJobSettled ==
  <>[](\A j \in Jobs : View(j) # NoRow /\ View(j).status \in {"Done", "Poison"})
=============================================================================
