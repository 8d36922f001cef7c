----------------------------- MODULE ChunkClaim -----------------------------
(***************************************************************************)
(* Chunk claims of the job fleet: zenfleet-worker/src/lib.rs on the        *)
(* lease-claiming path (run_chunked).  A claim is one object in an         *)
(* S3-compatible store; every store request is its own action, so that     *)
(* requests of different boxes, and of the three threads inside one worker *)
(* process, interleave freely:                                             *)
(*                                                                         *)
(*   main    claim_or_steal_r2_key, the cells of the chunk with a progress *)
(*           renewal after each, flush of the chunk's ledger rows, next    *)
(*   timer   spawn_chunk_heartbeat: renews everything in held every        *)
(*           ttl/3 seconds                                                 *)
(*   signal  spawn_spot_reclaim_chunk: on SIGTERM, release the claim in    *)
(*           inflight, then exit                                           *)
(*                                                                         *)
(* One pass is one process: it starts from the ledger's gap and ends when  *)
(* it has tried every chunk of the gap.  Boxes can be powered off, a       *)
(* request can be lost, and so can its answer.                             *)
(***************************************************************************)
EXTENDS Naturals, FiniteSets

CONSTANTS
  Workers,     \* boxes, by the ZEN_WORKER name that owns their claims
  Chunks,      \* the chunks of the gap (chunk ids)
  Cells,       \* cells per chunk; below 20, so every completion renews
  TTL,         \* ClaimCfg::ttl_secs
  Heartbeat,   \* needs_chunk_heartbeat: the timer thread runs
  Prompt,      \* assume no second passes while a request or a beat is due
  MaxNow,      \* bound: the clock stops here
  FaultBy,     \* bound: no fault after this second
  MaxNet,      \* bound: requests or answers lost
  MaxCrash,    \* bound: processes killed
  MaxSig,      \* bound: SIGTERMs delivered
  NoClaim,     \* no object under the claim key
  NoChunk      \* None

ASSUME ConfigAssumption ==
  /\ Cells \in Nat \ {0}
  /\ TTL \in Nat \ {0}
  /\ Heartbeat \in BOOLEAN
  /\ Prompt \in BOOLEAN
  /\ {MaxNow, FaultBy, MaxNet, MaxCrash, MaxSig} \subseteq Nat
  /\ NoChunk \notin Chunks
  /\ NoClaim \notin [ts : Nat, owner : Workers, prog : Nat]
  /\ NoClaim \notin [holder : Workers, last_renew : Nat]

VARIABLES
  now,                              \* wall clock, seconds
  claim,                            \* claim[c]: the object under c's key
  flushed,                          \* chunks whose rows are in the ledger
  gone,                             \* boxes powered off for good
  left,                             \* faults still allowed, by kind
  pc, todo, cur, ts, tag, done,     \* main thread
  held, inflight,                   \* HeldChunks and ChunkInflight
  tpc, tq, tcur, tts, ttag, due,    \* timer thread
  spc, scur                         \* signal thread

storeVars  == <<claim, flushed>>
mainVars   == <<pc, todo, cur, ts, tag, done>>
lockVars   == <<held, inflight>>
timerVars  == <<tpc, tq, tcur, tts, ttag, due>>
signalVars == <<spc, scur>>
envVars    == <<now, gone, left>>
vars == <<storeVars, mainVars, lockVars, timerVars, signalVars, envVars>>

\* The body of a claim: "{ts} {worker} {done}/{total}".  Its ETag is a digest
\* of the body, so a tag is modelled by the body that was read.
Claim == [ts : Nat, owner : Workers, prog : Nat]

Body(t, w, n) == [ts |-> t, owner |-> w, prog |-> n]

\* Defects for the mutation runs (never used by the specification) carry a
\* suffix after two underscores; each stands before the definition it mutates.
claim_is_stale__early(t, k) == t + 1 >= k.ts + TTL
claim_is_stale(t, k) == t >= k.ts + TTL

Stealable__never(t, k) == FALSE
Stealable(t, k) == k # NoClaim /\ claim_is_stale(t, k)

Owns(w, c) == claim[c] # NoClaim /\ claim[c].owner = w

\* The precondition of a conditional PUT.
IfMatch__ignored(c, k) == TRUE
IfMatch(c, k) == claim[c] = k

Interval == IF TTL \div 3 > 1 THEN TTL \div 3 ELSE 1

TypeOK ==
  /\ now \in Nat
  /\ claim \in [Chunks -> Claim \cup {NoClaim}]
  /\ flushed \subseteq Chunks
  /\ gone \subseteq Workers
  /\ left \in [{"net", "crash", "sig"} -> Nat]
  /\ pc \in [Workers -> {"off", "pick", "create", "read", "steal", "won",
                         "run", "rget", "rput", "rcheck", "flush"}]
  /\ todo \in [Workers -> SUBSET Chunks]
  /\ cur \in [Workers -> Chunks \cup {NoChunk}]
  /\ ts \in [Workers -> Nat]
  /\ tag \in [Workers -> Claim \cup {NoClaim}]
  /\ done \in [Workers -> 0..Cells]
  /\ held \in [Workers -> SUBSET Chunks]
  /\ inflight \in [Workers -> Chunks \cup {NoChunk}]
  /\ tpc \in [Workers -> {"none", "sleep", "next", "get", "put", "check"}]
  /\ tq \in [Workers -> SUBSET Chunks]
  /\ tcur \in [Workers -> Chunks \cup {NoChunk}]
  /\ tts \in [Workers -> Nat]
  /\ ttag \in [Workers -> Claim \cup {NoClaim}]
  /\ due \in [Workers -> Nat]
  /\ spc \in [Workers -> {"armed", "get", "delete", "exit"}]
  /\ scur \in [Workers -> Chunks \cup {NoChunk}]

Init ==
  /\ now = 0
  /\ claim = [c \in Chunks |-> NoClaim]
  /\ flushed = {}
  /\ gone = {}
  /\ left = [net |-> MaxNet, crash |-> MaxCrash, sig |-> MaxSig]
  /\ pc = [w \in Workers |-> "off"]
  /\ todo = [w \in Workers |-> {}]
  /\ cur = [w \in Workers |-> NoChunk]
  /\ ts = [w \in Workers |-> 0]
  /\ tag = [w \in Workers |-> NoClaim]
  /\ done = [w \in Workers |-> 0]
  /\ held = [w \in Workers |-> {}]
  /\ inflight = [w \in Workers |-> NoChunk]
  /\ tpc = [w \in Workers |-> "none"]
  /\ tq = [w \in Workers |-> {}]
  /\ tcur = [w \in Workers |-> NoChunk]
  /\ tts = [w \in Workers |-> 0]
  /\ ttag = [w \in Workers |-> NoClaim]
  /\ due = [w \in Workers |-> 0]
  /\ spc = [w \in Workers |-> "armed"]
  /\ scur = [w \in Workers |-> NoChunk]

\* One more fault of the given kind.
Spend(kind) ==
  /\ left[kind] > 0
  /\ now <= FaultBy
  /\ left' = [left EXCEPT ![kind] = @ - 1]
  /\ UNCHANGED <<now, gone>>

\* The process ends: every thread and everything it kept in memory is gone.
Exit(w) ==
  /\ pc' = [pc EXCEPT ![w] = "off"]
  /\ todo' = [todo EXCEPT ![w] = {}]
  /\ cur' = [cur EXCEPT ![w] = NoChunk]
  /\ ts' = [ts EXCEPT ![w] = 0]
  /\ tag' = [tag EXCEPT ![w] = NoClaim]
  /\ done' = [done EXCEPT ![w] = 0]
  /\ held' = [held EXCEPT ![w] = {}]
  /\ inflight' = [inflight EXCEPT ![w] = NoChunk]
  /\ tpc' = [tpc EXCEPT ![w] = "none"]
  /\ tq' = [tq EXCEPT ![w] = {}]
  /\ tcur' = [tcur EXCEPT ![w] = NoChunk]
  /\ tts' = [tts EXCEPT ![w] = 0]
  /\ ttag' = [ttag EXCEPT ![w] = NoClaim]
  /\ due' = [due EXCEPT ![w] = 0]
  /\ spc' = [spc EXCEPT ![w] = "armed"]
  /\ scur' = [scur EXCEPT ![w] = NoChunk]

-----------------------------------------------------------------------------
(* Main thread: a pass.                                                     *)

\* A pass starts: the view is read, the gap is what the ledger does not have.
StartPass(w) ==
  /\ pc[w] = "off"
  /\ w \notin gone
  /\ Chunks \ flushed # {}
  /\ pc' = [pc EXCEPT ![w] = "pick"]
  /\ todo' = [todo EXCEPT ![w] = Chunks \ flushed]
  /\ IF Heartbeat
       THEN /\ tpc' = [tpc EXCEPT ![w] = "sleep"]
            /\ due' = [due EXCEPT ![w] = now + Interval]
       ELSE UNCHANGED <<tpc, due>>
  /\ UNCHANGED <<storeVars, envVars, signalVars, lockVars,
                 cur, ts, tag, done, tq, tcur, tts, ttag>>

\* The next chunk in this worker's order, and the clock its claim will carry.  (The
\* code's ClaimClock lags behind by the time the pass took to read the ledger: slow
\* requests have the same effect, prompt ones leave it below a tick.)
PickChunk(w, c) ==
  /\ pc[w] = "pick"
  /\ c \in todo[w]
  /\ pc' = [pc EXCEPT ![w] = "create"]
  /\ todo' = [todo EXCEPT ![w] = @ \ {c}]
  /\ cur' = [cur EXCEPT ![w] = c]
  /\ ts' = [ts EXCEPT ![w] = now]
  /\ UNCHANGED <<storeVars, envVars, signalVars, lockVars, timerVars, tag, done>>

EndPass(w) ==
  /\ pc[w] = "pick"
  /\ todo[w] = {}
  /\ Exit(w)
  /\ UNCHANGED <<storeVars, envVars>>

Goto(w, l) == pc' = [pc EXCEPT ![w] = l] /\ UNCHANGED <<todo, cur, ts, tag, done>>

\* claim_chunk returned false: the chunk is skipped this pass.
GiveUp(w) ==
  /\ pc' = [pc EXCEPT ![w] = "pick"]
  /\ cur' = [cur EXCEPT ![w] = NoChunk]
  /\ ts' = [ts EXCEPT ![w] = 0]
  /\ tag' = [tag EXCEPT ![w] = NoClaim]
  /\ UNCHANGED <<todo, done>>

\* claim_chunk returned true.
Win(w) ==
  /\ pc' = [pc EXCEPT ![w] = "won"]
  /\ ts' = [ts EXCEPT ![w] = 0]
  /\ tag' = [tag EXCEPT ![w] = NoClaim]
  /\ UNCHANGED <<todo, cur, done>>

WriteClaim(c, k) == claim' = [claim EXCEPT ![c] = k] /\ UNCHANGED flushed

\* Only the main thread of w and the store change.
MainOnly == UNCHANGED <<envVars, lockVars, timerVars, signalVars>>
\* The same, and a request or its answer is lost.
MainFault == Spend("net") /\ UNCHANGED <<lockVars, timerVars, signalVars>>

\* put_create: the object is created only if there is none.
CreateClaim(w) ==
  /\ pc[w] = "create"
  /\ \/ /\ claim[cur[w]] = NoClaim
        /\ WriteClaim(cur[w], Body(ts[w], w, 0))
        /\ Win(w)
     \/ /\ claim[cur[w]] # NoClaim
        /\ Goto(w, "read")
        /\ UNCHANGED storeVars
  /\ MainOnly

\* An error counts as "not created", whether or not the object was written.
CreateClaimFault(w) ==
  /\ pc[w] = "create"
  /\ \/ UNCHANGED storeVars
     \/ claim[cur[w]] = NoClaim /\ WriteClaim(cur[w], Body(ts[w], w, 0))
  /\ Goto(w, "read")
  /\ MainFault

\* read_claim: a stale claim is remembered with its ETag.
ReadClaim(w) ==
  /\ pc[w] = "read"
  /\ \/ /\ Stealable(ts[w], claim[cur[w]])
        /\ pc' = [pc EXCEPT ![w] = "steal"]
        /\ tag' = [tag EXCEPT ![w] = claim[cur[w]]]
        /\ UNCHANGED <<todo, cur, ts, done>>
     \/ ~Stealable(ts[w], claim[cur[w]]) /\ GiveUp(w)
  /\ UNCHANGED storeVars
  /\ MainOnly

ReadClaimFault(w) ==
  /\ pc[w] = "read"
  /\ GiveUp(w)
  /\ UNCHANGED storeVars
  /\ MainFault

\* put_update with If-Match: the steal lands only on the claim that was read.
StealClaim(w) ==
  /\ pc[w] = "steal"
  /\ \/ /\ IfMatch(cur[w], tag[w])
        /\ WriteClaim(cur[w], Body(ts[w], w, 0))
        /\ Win(w)
     \/ /\ ~IfMatch(cur[w], tag[w])
        /\ GiveUp(w)
        /\ UNCHANGED storeVars
  /\ MainOnly

StealClaimFault(w) ==
  /\ pc[w] = "steal"
  /\ \/ UNCHANGED storeVars
     \/ IfMatch(cur[w], tag[w]) /\ WriteClaim(cur[w], Body(ts[w], w, 0))
  /\ GiveUp(w)
  /\ MainFault

\* track_chunk_inflight, then track_chunk_held.  Nothing reads both, so the two
\* critical sections are one step; the window since the win is not closed.
RecordClaim(w) ==
  /\ pc[w] = "won"
  /\ inflight' = [inflight EXCEPT ![w] = cur[w]]
  /\ held' = [held EXCEPT ![w] = @ \cup {cur[w]}]
  /\ Goto(w, "run")
  /\ UNCHANGED <<storeVars, envVars, timerVars, signalVars>>

track_chunk_renewal__any(w, c, renewed, finished) ==
  IF renewed /\ ~finished
    THEN UNCHANGED lockVars
    ELSE /\ held' = [held EXCEPT ![w] = @ \ {c}]
         /\ inflight' = [inflight EXCEPT ![w] = NoChunk]
\* track_chunk_renewal: a finished chunk, or one no longer ours, is disarmed.
track_chunk_renewal(w, c, renewed, finished) ==
  IF renewed /\ ~finished
    THEN UNCHANGED lockVars
    ELSE /\ held' = [held EXCEPT ![w] = @ \ {c}]
         /\ inflight' = [inflight EXCEPT ![w] = IF @ = c THEN NoChunk ELSE @]

\* A cell completes; the renewal that follows takes its timestamp first.
CompleteCell(w) ==
  /\ pc[w] = "run"
  /\ pc' = [pc EXCEPT ![w] = "rget"]
  /\ done' = [done EXCEPT ![w] = @ + 1]
  /\ ts' = [ts EXCEPT ![w] = now]
  /\ UNCHANGED <<storeVars, todo, cur, tag>>
  /\ MainOnly

\* update_chunk_claim returned to the progress renewal.
Renewal(w, renewed) ==
  LET finished == done[w] = Cells IN
  /\ track_chunk_renewal(w, cur[w], renewed, finished)
  /\ pc' = [pc EXCEPT ![w] = IF finished THEN "flush" ELSE "run"]
  /\ ts' = [ts EXCEPT ![w] = 0]
  /\ tag' = [tag EXCEPT ![w] = NoClaim]
  /\ UNCHANGED <<todo, cur, done>>

NotLocks == UNCHANGED <<envVars, timerVars, signalVars>>
NotLocksFault == Spend("net") /\ UNCHANGED <<timerVars, signalVars>>

RenewGet(w) ==
  /\ pc[w] = "rget"
  /\ \/ /\ Owns(w, cur[w])
        /\ pc' = [pc EXCEPT ![w] = "rput"]
        /\ tag' = [tag EXCEPT ![w] = claim[cur[w]]]
        /\ UNCHANGED <<todo, cur, ts, done, lockVars>>
     \/ ~Owns(w, cur[w]) /\ Renewal(w, FALSE)
  /\ UNCHANGED storeVars
  /\ NotLocks

RenewGetFault(w) ==
  /\ pc[w] = "rget"
  /\ Renewal(w, FALSE)
  /\ UNCHANGED storeVars
  /\ NotLocksFault

RenewPut(w) ==
  /\ pc[w] = "rput"
  /\ \/ /\ IfMatch(cur[w], tag[w])
        /\ WriteClaim(cur[w], Body(ts[w], w, done[w]))
        /\ Renewal(w, TRUE)
     \/ /\ ~IfMatch(cur[w], tag[w])
        /\ Goto(w, "rcheck")
        /\ UNCHANGED <<storeVars, lockVars>>
  /\ NotLocks

RenewPutFault(w) ==
  /\ pc[w] = "rput"
  /\ \/ UNCHANGED storeVars
     \/ IfMatch(cur[w], tag[w]) /\ WriteClaim(cur[w], Body(ts[w], w, done[w]))
  /\ Goto(w, "rcheck")
  /\ MainFault

\* A failed CAS re-reads once: still ours means renewed.
RenewCheck(w) ==
  /\ pc[w] = "rcheck"
  /\ Renewal(w, Owns(w, cur[w]))
  /\ UNCHANGED storeVars
  /\ NotLocks

RenewCheckFault(w) ==
  /\ pc[w] = "rcheck"
  /\ Renewal(w, FALSE)
  /\ UNCHANGED storeVars
  /\ NotLocksFault

ChunkDone__progress(w) ==
  \/ Goto(w, "pick") /\ UNCHANGED <<lockVars, timerVars, signalVars>>
  \/ Exit(w)
\* After a chunk: the next one, or (ZEN_MAX_CHUNKS_PER_PASS reached) the end.
ChunkDone(w) ==
  \/ /\ pc' = [pc EXCEPT ![w] = "pick"]
     /\ cur' = [cur EXCEPT ![w] = NoChunk]
     /\ done' = [done EXCEPT ![w] = 0]
     /\ UNCHANGED <<todo, ts, tag, lockVars, timerVars, signalVars>>
  \/ Exit(w)

\* flush_chunk_rows: the chunk's sidecar becomes durable.
Flush(w) ==
  /\ pc[w] = "flush"
  /\ flushed' = flushed \cup {cur[w]}
  /\ ChunkDone(w)
  /\ UNCHANGED <<claim, envVars>>

\* A failed sidecar write is logged and otherwise ignored.
FlushFault(w) ==
  /\ pc[w] = "flush"
  /\ ChunkDone(w)
  /\ UNCHANGED storeVars
  /\ Spend("net")

Main(w) ==
  \/ StartPass(w) \/ EndPass(w)
  \/ \E c \in Chunks : PickChunk(w, c)
  \/ CreateClaim(w) \/ ReadClaim(w) \/ StealClaim(w)
  \/ RecordClaim(w)
  \/ CompleteCell(w) \/ RenewGet(w) \/ RenewPut(w) \/ RenewCheck(w)
  \/ Flush(w)

MainFaults(w) ==
  \/ CreateClaimFault(w) \/ ReadClaimFault(w) \/ StealClaimFault(w)
  \/ RenewGetFault(w) \/ RenewPutFault(w) \/ RenewCheckFault(w)
  \/ FlushFault(w)

-----------------------------------------------------------------------------
(* Timer thread: spawn_chunk_heartbeat.                                     *)

TimerOnly == UNCHANGED <<envVars, mainVars, signalVars>>
TimerFault == Spend("net") /\ UNCHANGED <<mainVars, signalVars>>

\* The next chunk of this beat, or sleep until the next beat.
AfterBeat(w, rest) ==
  /\ tpc' = [tpc EXCEPT ![w] = IF rest = {} THEN "sleep" ELSE "next"]
  /\ due' = [due EXCEPT ![w] = IF rest = {} THEN now + Interval ELSE 0]

\* The sleep is over; the set of held chunks is copied under the lock.
TimerWake(w) ==
  /\ tpc[w] = "sleep"
  /\ now >= due[w]
  /\ tq' = [tq EXCEPT ![w] = held[w]]
  /\ AfterBeat(w, held[w])
  /\ UNCHANGED <<storeVars, lockVars, tcur, tts, ttag>>
  /\ TimerOnly

TimerNext(w, c) ==
  /\ tpc[w] = "next"
  /\ c \in tq[w]
  /\ tpc' = [tpc EXCEPT ![w] = "get"]
  /\ tq' = [tq EXCEPT ![w] = @ \ {c}]
  /\ tcur' = [tcur EXCEPT ![w] = c]
  /\ tts' = [tts EXCEPT ![w] = now]
  /\ UNCHANGED <<storeVars, lockVars, ttag, due>>
  /\ TimerOnly

\* update_chunk_claim returned to the heartbeat.
Beat(w, renewed) ==
  /\ track_chunk_renewal(w, tcur[w], renewed, FALSE)
  /\ AfterBeat(w, tq[w])
  /\ tcur' = [tcur EXCEPT ![w] = NoChunk]
  /\ tts' = [tts EXCEPT ![w] = 0]
  /\ ttag' = [ttag EXCEPT ![w] = NoClaim]
  /\ UNCHANGED tq

TimerGet(w) ==
  /\ tpc[w] = "get"
  /\ \/ /\ Owns(w, tcur[w])
        /\ tpc' = [tpc EXCEPT ![w] = "put"]
        /\ ttag' = [ttag EXCEPT ![w] = claim[tcur[w]]]
        /\ UNCHANGED <<tq, tcur, tts, due, lockVars>>
     \/ ~Owns(w, tcur[w]) /\ Beat(w, FALSE)
  /\ UNCHANGED storeVars
  /\ TimerOnly

TimerGetFault(w) ==
  /\ tpc[w] = "get"
  /\ Beat(w, FALSE)
  /\ UNCHANGED storeVars
  /\ TimerFault

TimerCheckNext(w) ==
  tpc' = [tpc EXCEPT ![w] = "check"] /\ UNCHANGED <<tq, tcur, tts, ttag, due, lockVars>>

\* The heartbeat keeps the progress token it read.
TimerPut(w) ==
  /\ tpc[w] = "put"
  /\ \/ /\ IfMatch(tcur[w], ttag[w])
        /\ WriteClaim(tcur[w], Body(tts[w], w, ttag[w].prog))
        /\ Beat(w, TRUE)
     \/ /\ ~IfMatch(tcur[w], ttag[w])
        /\ TimerCheckNext(w)
        /\ UNCHANGED storeVars
  /\ TimerOnly

TimerPutFault(w) ==
  /\ tpc[w] = "put"
  /\ \/ UNCHANGED storeVars
     \/ /\ IfMatch(tcur[w], ttag[w])
        /\ WriteClaim(tcur[w], Body(tts[w], w, ttag[w].prog))
  /\ TimerCheckNext(w)
  /\ TimerFault

TimerCheck(w) ==
  /\ tpc[w] = "check"
  /\ Beat(w, Owns(w, tcur[w]))
  /\ UNCHANGED storeVars
  /\ TimerOnly

TimerCheckFault(w) ==
  /\ tpc[w] = "check"
  /\ Beat(w, FALSE)
  /\ UNCHANGED storeVars
  /\ TimerFault

Timer(w) ==
  \/ TimerWake(w)
  \/ \E c \in Chunks : TimerNext(w, c)
  \/ TimerGet(w) \/ TimerPut(w) \/ TimerCheck(w)

TimerFaults(w) == TimerGetFault(w) \/ TimerPutFault(w) \/ TimerCheckFault(w)

-----------------------------------------------------------------------------
(* Signal thread: spawn_spot_reclaim_chunk.  The process exits last.        *)

SignalStep(w, l) ==
  /\ spc' = [spc EXCEPT ![w] = l]
  /\ UNCHANGED <<mainVars, lockVars, timerVars>>

Sigterm(w) ==
  /\ pc[w] # "off"
  /\ spc[w] = "armed"
  /\ scur' = [scur EXCEPT ![w] = inflight[w]]
  /\ SignalStep(w, IF inflight[w] = NoChunk THEN "exit" ELSE "get")
  /\ UNCHANGED storeVars
  /\ Spend("sig")

\* release_owned_claim: the claim must name this worker ...
ReleaseGet(w) ==
  /\ spc[w] = "get"
  /\ SignalStep(w, IF Owns(w, scur[w]) THEN "delete" ELSE "exit")
  /\ UNCHANGED <<scur, storeVars, envVars>>

\* ... and is then deleted, unconditionally.
ReleaseDelete(w) ==
  /\ spc[w] = "delete"
  /\ WriteClaim(scur[w], NoClaim)
  /\ SignalStep(w, "exit")
  /\ UNCHANGED <<scur, envVars>>

ReleaseFault(w) ==
  /\ \/ spc[w] \in {"get", "delete"} /\ UNCHANGED storeVars
     \/ spc[w] = "delete" /\ WriteClaim(scur[w], NoClaim)
  /\ SignalStep(w, "exit")
  /\ UNCHANGED scur
  /\ Spend("net")

SignalExit(w) ==
  /\ spc[w] = "exit"
  /\ Exit(w)
  /\ UNCHANGED <<storeVars, envVars>>

Signal(w) == ReleaseGet(w) \/ ReleaseDelete(w) \/ SignalExit(w)

-----------------------------------------------------------------------------
(* The environment.                                                         *)

\* The process is killed; the box may come back, unless it is the last one.
Crash(w) ==
  /\ pc[w] # "off"
  /\ Exit(w)
  /\ left["crash"] > 0
  /\ now <= FaultBy
  /\ left' = [left EXCEPT !["crash"] = @ - 1]
  /\ \/ UNCHANGED gone
     \/ gone \cup {w} # Workers /\ gone' = gone \cup {w}
  /\ UNCHANGED <<storeVars, now>>

\* No thread of w has a request under way or a beat due.
Quiet(w) ==
  /\ pc[w] \in {"off", "run"}
  /\ tpc[w] = "none" \/ (tpc[w] = "sleep" /\ now < due[w])
  /\ spc[w] = "armed"

\* From FaultBy on, no heartbeat or release is stuck in the network.
Settled(w) == tpc[w] \in {"none", "sleep"} /\ spc[w] = "armed"

Tick ==
  /\ now < MaxNow
  /\ Prompt => \A w \in Workers : Quiet(w)
  /\ now >= FaultBy => \A w \in Workers : Settled(w)
  /\ now' = now + 1
  /\ UNCHANGED <<storeVars, mainVars, lockVars, timerVars, signalVars, gone, left>>

\* Everything is in the ledger and every process has ended.
AllDone ==
  /\ flushed = Chunks
  /\ \A w \in Workers : pc[w] = "off"
  /\ now = MaxNow
  /\ UNCHANGED vars

Next ==
  \/ Tick \/ AllDone
  \/ \E w \in Workers :
       \/ Main(w) \/ MainFaults(w)
       \/ Timer(w) \/ TimerFaults(w)
       \/ Signal(w) \/ Sigterm(w) \/ ReleaseFault(w)
       \/ Crash(w)

Spec == Init /\ [][Next]_vars

\* Threads keep running and the clock keeps moving.
FairSpec ==
  /\ Spec
  /\ WF_vars(Tick)
  /\ \A w \in Workers :
       WF_vars(Main(w)) /\ WF_vars(Timer(w)) /\ WF_vars(Signal(w))

-----------------------------------------------------------------------------
(* Properties.                                                              *)

\* w won the claim of cur[w] and has not yet published the chunk's rows.
Executing(w) == pc[w] \in {"won", "run", "rget", "rput", "rcheck", "flush"}

\* Who may change a claim (claim_or_steal_r2_key, update_chunk_claim and
\* release_owned_claim together): a free key is created, an owner renews its
\* own claim, a claim changes hands only once it has expired by the wall clock,
\* and a claim disappears only by the DELETE of a worker that was told to stop.
OwnershipStep ==
  \A c \in Chunks : claim'[c] # claim[c] =>
    \/ claim[c] = NoClaim
    \/ claim'[c] = NoClaim /\ \E w \in Workers : spc[w] = "delete" /\ scur[w] = c
    \/ claim'[c] # NoClaim /\ claim'[c].owner = claim[c].owner
    \/ claim'[c] # NoClaim /\ Stealable(now, claim[c])
ClaimsChangeHandsWhenStale == [][OwnershipStep]_vars

\* With the heartbeat on, a worker that runs a chunk holds its unexpired claim
\* from the win to the published rows, so nobody else can run that chunk.  (Under
\* Prompt and without lost requests; after the DELETE of a SIGTERM the process
\* still runs for the moment it needs to exit.)
RunnerHoldsLease ==
  \A w \in Workers : Executing(w) /\ spc[w] # "exit" =>
    /\ Owns(w, cur[w])
    /\ ~Stealable(now, claim[cur[w]])

\* While a chunk runs and its claim names the runner, the timer still renews it
\* (it is in held) and SIGTERM would release it (it is in inflight): a progress
\* renewal and a heartbeat that race, or the heartbeat of an earlier chunk, must
\* not disarm the current one.
OwnerStaysArmed ==
  \A w \in Workers :
    pc[w] \in {"run", "rget", "rput", "rcheck"} /\ Owns(w, cur[w]) =>
      cur[w] \in held[w] /\ inflight[w] = cur[w]

\* The same as long as no request was lost: one lost read of the worker's own claim
\* counts as a lost lease (update_chunk_claim).
ArmedUnlessFault == left["net"] = MaxNet => OwnerStaysArmed

\* The claims implement the pure lease transitions of zenfleet-core.
LeaseOf(k) == IF k = NoClaim THEN NoClaim ELSE [holder |-> k.owner, last_renew |-> k.ts]
L == INSTANCE Lease WITH Keys <- Chunks, Holders <- Workers, NoLease <- NoClaim,
                         lease <- [c \in Chunks |-> LeaseOf(claim[c])]
ImplementsLease == L!Spec

\* Whatever boxes die, whatever requests are lost and whoever is preempted,
\* every chunk ends up in the ledger: a dead worker's claim expires and another
\* box takes it.
EveryChunkPublished == <>(flushed = Chunks)
=============================================================================
