-------------------------- MODULE ChunkClaimProofs --------------------------
(***************************************************************************)
(* Safety of the chunk claims for every set of boxes and chunks, every TTL *)
(* and every schedule of lost requests, SIGTERMs and power-offs: a claim   *)
(* changes hands only after it expired; with prompt requests the claims    *)
(* are leases in the sense of zenfleet-core; until a request is lost the   *)
(* claim of a running chunk is renewed and released; and with prompt and   *)
(* answered requests a runner holds its claim from the win to the rows.    *)
(*                                                                         *)
(* The inductive invariant is a conjunction of one part per group of       *)
(* variables (the groups of ChunkClaim), so that a step has to be examined *)
(* only against the parts whose variables it changes.                      *)
(***************************************************************************)
EXTENDS ChunkClaim, TLAPS

StoreInv ==
  /\ claim \in [Chunks -> Claim \cup {NoClaim}]
  /\ flushed \subseteq Chunks
  /\ \A c \in Chunks : claim[c] # NoClaim => claim[c].ts <= now

EnvInv ==
  /\ now \in Nat
  /\ gone \subseteq Workers
  /\ left \in [{"net", "crash", "sig"} -> Nat]

LockInv ==
  /\ held \in [Workers -> SUBSET Chunks]
  /\ inflight \in [Workers -> Chunks \cup {NoChunk}]

MainType ==
  /\ pc \in [Workers -> {"off", "pick", "create", "read", "steal", "won",
                         "run", "rget", "rput", "rcheck", "flush"}]
  /\ todo \in [Workers -> SUBSET Chunks]
  /\ cur \in [Workers -> Chunks \cup {NoChunk}]
  /\ ts \in [Workers -> Nat]
  /\ tag \in [Workers -> Claim \cup {NoClaim}]
  /\ done \in [Workers -> 0..Cells]

\* Past the choice of a chunk there is one; done counts its cells and stops at
\* Cells; a clock once read is not ahead of the wall clock (and, with prompt
\* requests, not behind it); a stealer saw an expired claim, a renewal saw a
\* claim of its own.
MainAt(w, l, c, t, k, n) ==
  /\ l \notin {"off", "pick"} => c \in Chunks
  /\ l \in {"off", "pick", "create", "read", "steal", "won"} => n = 0
  /\ l = "run" => n < Cells
  /\ t <= now
  /\ Prompt /\ l \in {"create", "read", "steal", "rget", "rput", "rcheck"} => t = now
  /\ l = "steal" => Stealable(t, k)
  /\ l = "rput" => k # NoClaim /\ k.owner = w

MainInv ==
  /\ MainType
  /\ \A w \in Workers : MainAt(w, pc[w], cur[w], ts[w], tag[w], done[w])

TimerType ==
  /\ tpc \in [Workers -> {"none", "sleep", "next", "get", "put", "check"}]
  /\ tq \in [Workers -> SUBSET Chunks]
  /\ tcur \in [Workers -> Chunks \cup {NoChunk}]
  /\ tts \in [Workers -> Nat]
  /\ ttag \in [Workers -> Claim \cup {NoClaim}]
  /\ due \in [Workers -> Nat]

\* The same of the heartbeat.
TimerAt(w, l, c, t, k) ==
  /\ l \in {"get", "put", "check"} => c \in Chunks
  /\ t <= now
  /\ Prompt /\ l \in {"get", "put", "check"} => t = now
  /\ l = "put" => k # NoClaim /\ k.owner = w

TimerInv ==
  /\ TimerType
  /\ \A w \in Workers : TimerAt(w, tpc[w], tcur[w], tts[w], ttag[w])

SignalInv ==
  /\ spc \in [Workers -> {"armed", "get", "delete", "exit"}]
  /\ scur \in [Workers -> Chunks \cup {NoChunk}]
  /\ \A w \in Workers : spc[w] \in {"get", "delete"} => scur[w] \in Chunks

IInv == StoreInv /\ EnvInv /\ LockInv /\ MainInv /\ TimerInv /\ SignalInv

\* The parts together give the type invariant.
LEMMA IInvType == IInv => TypeOK
BY DEF IInv, StoreInv, EnvInv, LockInv, MainInv, MainType, TimerInv, TimerType, SignalInv, TypeOK

-----------------------------------------------------------------------------
(* Claim bodies, frames, and the helpers the actions are built from.        *)

\* A claim body is a claim, and not the absence of one.
LEMMA BodyIsClaim ==
  ASSUME NEW t \in Nat, NEW w \in Workers, NEW n \in Nat
  PROVE  /\ Body(t, w, n) \in Claim
         /\ Body(t, w, n) # NoClaim
         /\ Body(t, w, n).owner = w
         /\ Body(t, w, n).ts = t
BY ConfigAssumption DEF Body, Claim

\* The heartbeat interval is a number of seconds.
LEMMA IntervalNat == Interval \in Nat
BY ConfigAssumption DEF Interval

\* The initial states satisfy every part.
LEMMA InitIInv == Init => IInv
<1> SUFFICES ASSUME Init PROVE IInv
  OBVIOUS
<1>1. StoreInv /\ EnvInv /\ LockInv /\ SignalInv
  BY ConfigAssumption DEF Init, StoreInv, EnvInv, LockInv, SignalInv
<1>2. MainInv
  BY ConfigAssumption DEF Init, MainInv, MainType, MainAt
<1>3. TimerInv
  BY ConfigAssumption DEF Init, TimerInv, TimerType, TimerAt
<1> QED  BY <1>1, <1>2, <1>3 DEF IInv

\* One claim is written with a clock that is not ahead, or removed.
LEMMA WriteKeeps ==
  ASSUME StoreInv, now' = now, NEW c \in Chunks, NEW k \in Claim \cup {NoClaim},
         k # NoClaim => k.ts <= now, WriteClaim(c, k)
  PROVE  StoreInv'
BY DEF StoreInv, WriteClaim

\* A step that leaves a group of variables alone keeps its part.
LEMMA StoreFrame == StoreInv /\ UNCHANGED <<storeVars, now>> => StoreInv'
BY DEF StoreInv, storeVars
\* The clock, the powered-off boxes and the fault budgets are left alone.
LEMMA EnvFrame == EnvInv /\ UNCHANGED envVars => EnvInv' /\ now' = now
BY DEF EnvInv, envVars
\* held and inflight are left alone.
LEMMA LockFrame == LockInv /\ UNCHANGED lockVars => LockInv'
BY DEF LockInv, lockVars
\* The main threads and the clock are left alone.
LEMMA MainFrame == MainInv /\ UNCHANGED <<mainVars, now>> => MainInv'
BY DEF MainInv, MainType, MainAt, mainVars
\* The heartbeats and the clock are left alone.
LEMMA TimerFrame == TimerInv /\ UNCHANGED <<timerVars, now>> => TimerInv'
BY DEF TimerInv, TimerType, TimerAt, timerVars
\* The signal threads are left alone.
LEMMA SignalFrame == SignalInv /\ UNCHANGED signalVars => SignalInv'
BY DEF SignalInv, signalVars

\* A fault is spent: the budgets stay numbers and the clock does not move.
LEMMA SpendKeeps ==
  ASSUME EnvInv, NEW kind \in {"net", "crash", "sig"}, Spend(kind)
  PROVE  EnvInv' /\ now' = now
BY DEF EnvInv, Spend

\* The main thread of w moves to a legal local state.
LEMMA MainMove ==
  ASSUME MainInv, now' = now, NEW w \in Workers, MainType',
         \A v \in Workers \ {w} : /\ pc'[v] = pc[v] /\ cur'[v] = cur[v] /\ ts'[v] = ts[v]
                                  /\ tag'[v] = tag[v] /\ done'[v] = done[v],
         MainAt(w, pc[w], cur[w], ts[w], tag[w], done[w])'
  PROVE  MainInv'
<1> SUFFICES ASSUME NEW v \in Workers \ {w}
             PROVE  MainAt(v, pc[v], cur[v], ts[v], tag[v], done[v])'
  BY DEF MainInv
<1> QED  BY DEF MainInv, MainAt

\* The heartbeat of w moves to a legal local state.
LEMMA TimerMove ==
  ASSUME TimerInv, now' = now, NEW w \in Workers, TimerType',
         \A v \in Workers \ {w} : /\ tpc'[v] = tpc[v] /\ tcur'[v] = tcur[v]
                                  /\ tts'[v] = tts[v] /\ ttag'[v] = ttag[v],
         TimerAt(w, tpc[w], tcur[w], tts[w], ttag[w])'
  PROVE  TimerInv'
<1> SUFFICES ASSUME NEW v \in Workers \ {w}
             PROVE  TimerAt(v, tpc[v], tcur[v], tts[v], ttag[v])'
  BY DEF TimerInv
<1> QED  BY DEF TimerInv, TimerAt

\* Only the place of the main thread changes.
LEMMA GotoKeeps ==
  ASSUME MainInv, now' = now, NEW w \in Workers,
         NEW l \in {"create", "read", "steal", "won", "run", "rget", "rput", "rcheck", "flush"},
         MainAt(w, l, cur[w], ts[w], tag[w], done[w]), Goto(w, l)
  PROVE  MainInv'
<1>1. MainType'
  BY DEF MainInv, MainType, Goto
<1>2. MainAt(w, pc[w], cur[w], ts[w], tag[w], done[w])'
  BY DEF MainInv, MainType, MainAt, Goto
<1> QED  BY <1>1, <1>2, MainMove DEF MainInv, MainType, Goto

\* A chunk that was not claimed is left alone.
LEMMA GiveUpKeeps ==
  ASSUME MainInv, EnvInv, now' = now, NEW w \in Workers,
         pc[w] \in {"create", "read", "steal"}, GiveUp(w)
  PROVE  MainInv'
<1>1. MainType'
  BY DEF MainInv, MainType, GiveUp
<1>2. MainAt(w, pc[w], cur[w], ts[w], tag[w], done[w])'
  BY DEF MainInv, MainType, MainAt, GiveUp, EnvInv
<1> QED  BY <1>1, <1>2, MainMove DEF MainInv, MainType, GiveUp

\* A claimed chunk is kept.
LEMMA WinKeeps ==
  ASSUME MainInv, EnvInv, now' = now, NEW w \in Workers,
         pc[w] \in {"create", "steal"}, Win(w)
  PROVE  MainInv'
<1>1. MainType'
  BY DEF MainInv, MainType, Win
<1>2. MainAt(w, pc[w], cur[w], ts[w], tag[w], done[w])'
  BY DEF MainInv, MainType, MainAt, Win, EnvInv
<1> QED  BY <1>1, <1>2, MainMove DEF MainInv, MainType, Win

\* The two locks stay well typed.
LEMMA TrackKeeps ==
  ASSUME LockInv, NEW w \in Workers, NEW c \in Chunks,
         NEW r \in BOOLEAN, NEW f \in BOOLEAN, track_chunk_renewal(w, c, r, f)
  PROVE  LockInv'
BY DEF LockInv, track_chunk_renewal, lockVars

\* A progress renewal returns: more cells, or the flush.
LEMMA RenewalKeeps ==
  ASSUME MainInv, EnvInv, LockInv, now' = now, NEW w \in Workers, NEW r \in BOOLEAN,
         pc[w] \in {"rget", "rput", "rcheck"}, Renewal(w, r)
  PROVE  MainInv' /\ LockInv'
<1>1. MainAt(w, pc[w], cur[w], ts[w], tag[w], done[w])
  BY DEF MainInv
<1>2. LockInv'
  BY <1>1, TrackKeeps DEF Renewal, MainAt
<1>3. MainType'
  BY DEF MainInv, MainType, Renewal
<1>4. done[w] \in 0..Cells /\ Cells \in Nat
  BY ConfigAssumption DEF MainInv, MainType
<1>5. MainAt(w, pc[w], cur[w], ts[w], tag[w], done[w])'
  BY <1>1, <1>4 DEF MainInv, MainType, MainAt, Renewal, EnvInv
<1> QED  BY <1>2, <1>3, <1>5, MainMove DEF MainInv, MainType, Renewal

\* A heartbeat returns.
LEMMA BeatKeeps ==
  ASSUME TimerInv, EnvInv, LockInv, now' = now, NEW w \in Workers, NEW r \in BOOLEAN,
         tpc[w] \in {"get", "put", "check"}, Beat(w, r)
  PROVE  TimerInv' /\ LockInv'
<1>1. LockInv'
  BY TrackKeeps DEF Beat, TimerInv, TimerAt
<1>2. TimerType'
  BY IntervalNat DEF TimerInv, TimerType, Beat, AfterBeat, EnvInv
<1>3. TimerAt(w, tpc[w], tcur[w], tts[w], ttag[w])'
  BY DEF TimerInv, TimerType, TimerAt, Beat, AfterBeat, EnvInv
<1> QED  BY <1>1, <1>2, <1>3, TimerMove DEF TimerInv, TimerType, Beat, AfterBeat

\* The end of a process resets everything it kept.
LEMMA ExitKeeps ==
  ASSUME LockInv, MainInv, TimerInv, SignalInv, EnvInv, now' = now, NEW w \in Workers, Exit(w)
  PROVE  LockInv' /\ MainInv' /\ TimerInv' /\ SignalInv'
<1>1. LockInv' /\ SignalInv'
  BY DEF LockInv, SignalInv, Exit
<1>2. MainInv'
  <2>1. MainType'
    BY ConfigAssumption DEF MainInv, MainType, Exit
  <2>2. MainAt(w, pc[w], cur[w], ts[w], tag[w], done[w])'
    BY DEF MainInv, MainType, MainAt, Exit, EnvInv
  <2> QED  BY <2>1, <2>2, MainMove DEF MainInv, MainType, Exit
<1>3. TimerInv'
  <2>1. TimerType'
    BY DEF TimerInv, TimerType, Exit
  <2>2. TimerAt(w, tpc[w], tcur[w], tts[w], ttag[w])'
    BY DEF TimerInv, TimerType, TimerAt, Exit, EnvInv
  <2> QED  BY <2>1, <2>2, TimerMove DEF TimerInv, TimerType, Exit
<1> QED  BY <1>1, <1>2, <1>3

-----------------------------------------------------------------------------
(* The main thread.                                                         *)

\* What holds of a worker between two network requests.
LEMMA MainFacts ==
  ASSUME IInv, NEW w \in Workers
  PROVE  /\ MainAt(w, pc[w], cur[w], ts[w], tag[w], done[w])
         /\ MainInv /\ MainType /\ EnvInv /\ StoreInv /\ LockInv /\ TimerInv /\ SignalInv
         /\ now \in Nat /\ ts[w] \in Nat /\ done[w] \in Nat /\ tts[w] \in Nat
BY ConfigAssumption DEF IInv, MainInv, MainType, EnvInv, TimerInv, TimerType

\* MainOnly and MainFault keep the parts of the other threads.
LEMMA MainOnlyKeeps ==
  ASSUME IInv, MainOnly \/ MainFault
  PROVE  EnvInv' /\ LockInv' /\ TimerInv' /\ SignalInv' /\ now' = now
<1>1. EnvInv' /\ now' = now
  BY EnvFrame, SpendKeeps DEF MainOnly, MainFault, IInv
<1> QED  BY <1>1, LockFrame, TimerFrame, SignalFrame DEF MainOnly, MainFault, IInv

\* The same when a renewal may also touch the locks.
LEMMA NotLocksKeeps ==
  ASSUME IInv, NotLocks \/ NotLocksFault
  PROVE  EnvInv' /\ TimerInv' /\ SignalInv' /\ now' = now
<1>1. EnvInv' /\ now' = now
  BY EnvFrame, SpendKeeps DEF NotLocks, NotLocksFault, IInv
<1> QED  BY <1>1, TimerFrame, SignalFrame DEF NotLocks, NotLocksFault, IInv

\* A pass starts.
LEMMA StartPassKeeps == ASSUME IInv, NEW w \in Workers, StartPass(w) PROVE IInv'
<1> USE MainFacts
<1>1. EnvInv' /\ now' = now /\ StoreInv' /\ LockInv' /\ SignalInv'
  BY EnvFrame, StoreFrame, LockFrame, SignalFrame DEF StartPass
<1>2. MainInv'
  <2>1. MainType'
    BY DEF MainType, StartPass
  <2>2. MainAt(w, pc[w], cur[w], ts[w], tag[w], done[w])'
    BY <1>1 DEF MainType, MainAt, StartPass
  <2> QED  BY <1>1, <2>1, <2>2, MainMove DEF MainType, StartPass
<1>3. TimerInv'
  <2>1. TimerType'
    BY IntervalNat DEF TimerInv, TimerType, StartPass
  <2>2. TimerAt(w, tpc[w], tcur[w], tts[w], ttag[w])'
    BY <1>1 DEF TimerInv, TimerType, TimerAt, StartPass
  <2> QED  BY <1>1, <2>1, <2>2, TimerMove DEF TimerInv, TimerType, StartPass
<1> QED  BY <1>1, <1>2, <1>3 DEF IInv

\* A pass ends: the process exits.
LEMMA EndPassKeeps == ASSUME IInv, NEW w \in Workers, EndPass(w) PROVE IInv'
BY MainFacts, ExitKeeps, EnvFrame, StoreFrame DEF EndPass, IInv

\* The next chunk is picked, and the clock is read.
LEMMA PickChunkKeeps ==
  ASSUME IInv, NEW w \in Workers, NEW c \in Chunks, PickChunk(w, c)
  PROVE  IInv'
<1> USE MainFacts
<1>1. EnvInv' /\ now' = now /\ StoreInv' /\ LockInv' /\ SignalInv' /\ TimerInv'
  BY EnvFrame, StoreFrame, LockFrame, SignalFrame, TimerFrame DEF PickChunk
<1>2. MainType'
  BY DEF MainType, PickChunk
<1>3. MainAt(w, pc[w], cur[w], ts[w], tag[w], done[w])'
  BY <1>1 DEF MainType, MainAt, PickChunk
<1>4. MainInv'
  BY <1>1, <1>2, <1>3, MainMove DEF MainType, PickChunk
<1> QED  BY <1>1, <1>4 DEF IInv

\* Creating the claim, with or without an error: at most this worker's own
\* body is written.
LEMMA CreateKeeps ==
  ASSUME IInv, NEW w \in Workers, CreateClaim(w) \/ CreateClaimFault(w)
  PROVE  IInv'
<1> USE MainFacts
<1> DEFINE b == Body(ts[w], w, 0)
<1>1. pc[w] = "create" /\ (MainOnly \/ MainFault)
  BY DEF CreateClaim, CreateClaimFault
<1>2. EnvInv' /\ LockInv' /\ TimerInv' /\ SignalInv' /\ now' = now
  BY <1>1, MainOnlyKeeps
<1>3. cur[w] \in Chunks /\ b \in Claim /\ b.ts <= now
  BY <1>1, BodyIsClaim DEF MainAt
<1> HIDE DEF b
<1>4. StoreInv'
  <2>1. CASE UNCHANGED storeVars
    BY <1>2, <2>1, StoreFrame
  <2>2. CASE WriteClaim(cur[w], b)
    BY <1>2, <1>3, <2>2, WriteKeeps
  <2> QED  BY <2>1, <2>2 DEF CreateClaim, CreateClaimFault, b
<1>5. MainInv'
  <2>1. CASE Win(w)
    BY <1>1, <1>2, <2>1, WinKeeps
  <2>2. CASE Goto(w, "read")
    BY <1>1, <1>2, <2>2, GotoKeeps DEF MainAt
  <2> QED  BY <2>1, <2>2 DEF CreateClaim, CreateClaimFault
<1> QED  BY <1>2, <1>4, <1>5 DEF IInv

\* Reading the claim of the chunk: an expired one is remembered.
LEMMA ReadKeeps ==
  ASSUME IInv, NEW w \in Workers, ReadClaim(w) \/ ReadClaimFault(w)
  PROVE  IInv'
<1> USE MainFacts
<1>1. pc[w] = "read" /\ (MainOnly \/ MainFault) /\ UNCHANGED storeVars
  BY DEF ReadClaim, ReadClaimFault
<1>2. EnvInv' /\ LockInv' /\ TimerInv' /\ SignalInv' /\ now' = now
  BY <1>1, MainOnlyKeeps
<1>3. StoreInv'
  BY <1>1, <1>2, StoreFrame
<1>4. CASE GiveUp(w)
  BY <1>1, <1>2, <1>3, <1>4, GiveUpKeeps DEF IInv
<1>5. CASE ~GiveUp(w)
  <2>1. /\ Stealable(ts[w], claim[cur[w]])
        /\ pc' = [pc EXCEPT ![w] = "steal"]
        /\ tag' = [tag EXCEPT ![w] = claim[cur[w]]]
        /\ UNCHANGED <<todo, cur, ts, done>>
    BY <1>5 DEF ReadClaim, ReadClaimFault
  <2>2. cur[w] \in Chunks /\ claim[cur[w]] \in Claim \cup {NoClaim}
    BY <1>1 DEF MainAt, StoreInv
  <2>3. MainType'
    BY <2>1, <2>2 DEF MainType
  <2>4. MainAt(w, pc[w], cur[w], ts[w], tag[w], done[w])'
    BY <1>1, <1>2, <2>1 DEF MainType, MainAt, Stealable, claim_is_stale
  <2>5. MainInv'
    BY <1>2, <2>1, <2>3, <2>4, MainMove DEF MainType
  <2> QED  BY <1>2, <1>3, <2>5 DEF IInv
<1> QED  BY <1>4, <1>5

\* Stealing, with or without an error.
LEMMA StealKeeps ==
  ASSUME IInv, NEW w \in Workers, StealClaim(w) \/ StealClaimFault(w)
  PROVE  IInv'
<1> USE MainFacts
<1> DEFINE b == Body(ts[w], w, 0)
<1>1. pc[w] = "steal" /\ (MainOnly \/ MainFault)
  BY DEF StealClaim, StealClaimFault
<1>2. EnvInv' /\ LockInv' /\ TimerInv' /\ SignalInv' /\ now' = now
  BY <1>1, MainOnlyKeeps
<1>3. cur[w] \in Chunks /\ b \in Claim /\ b.ts <= now
  BY <1>1, BodyIsClaim DEF MainAt
<1> HIDE DEF b
<1>4. StoreInv'
  <2>1. CASE UNCHANGED storeVars
    BY <1>2, <2>1, StoreFrame
  <2>2. CASE WriteClaim(cur[w], b)
    BY <1>2, <1>3, <2>2, WriteKeeps
  <2> QED  BY <2>1, <2>2 DEF StealClaim, StealClaimFault, b
<1>5. MainInv'
  <2>1. CASE Win(w)
    BY <1>1, <1>2, <2>1, WinKeeps
  <2>2. CASE GiveUp(w)
    BY <1>1, <1>2, <2>2, GiveUpKeeps
  <2> QED  BY <2>1, <2>2 DEF StealClaim, StealClaimFault
<1> QED  BY <1>2, <1>4, <1>5 DEF IInv

\* The won chunk enters inflight and held.
LEMMA RecordKeeps == ASSUME IInv, NEW w \in Workers, RecordClaim(w) PROVE IInv'
<1> USE MainFacts
<1>1. EnvInv' /\ now' = now /\ StoreInv' /\ SignalInv' /\ TimerInv'
  BY EnvFrame, StoreFrame, SignalFrame, TimerFrame DEF RecordClaim
<1>2. pc[w] = "won" /\ cur[w] \in Chunks /\ done[w] = 0
  BY DEF RecordClaim, MainAt
<1>3. LockInv'
  BY <1>2 DEF LockInv, RecordClaim
<1>4. MainInv'
  BY <1>1, <1>2, GotoKeeps, ConfigAssumption DEF MainAt, RecordClaim
<1> QED  BY <1>1, <1>3, <1>4 DEF IInv

\* A cell completes, and the clock of its renewal is read.
LEMMA CompleteKeeps == ASSUME IInv, NEW w \in Workers, CompleteCell(w) PROVE IInv'
<1> USE MainFacts
<1>1. EnvInv' /\ LockInv' /\ TimerInv' /\ SignalInv' /\ now' = now /\ StoreInv'
  BY MainOnlyKeeps, StoreFrame DEF CompleteCell
<1>2. pc[w] = "run" /\ cur[w] \in Chunks /\ done[w] + 1 \in 0..Cells
  BY ConfigAssumption DEF CompleteCell, MainAt
<1>3. MainType'
  BY <1>2 DEF MainType, CompleteCell
<1>4. MainAt(w, pc[w], cur[w], ts[w], tag[w], done[w])'
  BY <1>1, <1>2 DEF MainType, MainAt, CompleteCell
<1>5. MainInv'
  BY <1>1, <1>3, <1>4, MainMove DEF MainType, CompleteCell
<1> QED  BY <1>1, <1>5 DEF IInv

\* The GET of a progress renewal: a claim of its own is remembered.
LEMMA RenewGetKeeps ==
  ASSUME IInv, NEW w \in Workers, RenewGet(w) \/ RenewGetFault(w)
  PROVE  IInv'
<1> USE MainFacts
<1>1. pc[w] = "rget" /\ (NotLocks \/ NotLocksFault) /\ UNCHANGED storeVars
  BY DEF RenewGet, RenewGetFault
<1>2. EnvInv' /\ TimerInv' /\ SignalInv' /\ now' = now
  BY <1>1, NotLocksKeeps
<1>3. StoreInv'
  BY <1>1, <1>2, StoreFrame
<1>4. CASE Renewal(w, FALSE)
  BY <1>1, <1>2, <1>3, <1>4, RenewalKeeps DEF IInv
<1>5. CASE ~Renewal(w, FALSE)
  <2>1. /\ Owns(w, cur[w])
        /\ pc' = [pc EXCEPT ![w] = "rput"]
        /\ tag' = [tag EXCEPT ![w] = claim[cur[w]]]
        /\ UNCHANGED <<todo, cur, ts, done, lockVars>>
    BY <1>5 DEF RenewGet, RenewGetFault
  <2>2. cur[w] \in Chunks /\ claim[cur[w]] \in Claim \cup {NoClaim}
    BY <1>1 DEF MainAt, StoreInv
  <2>3. MainType'
    BY <2>1, <2>2 DEF MainType
  <2>4. MainAt(w, pc[w], cur[w], ts[w], tag[w], done[w])'
    BY <1>1, <1>2, <2>1 DEF MainType, MainAt, Owns
  <2>5. MainInv'
    BY <1>2, <2>1, <2>3, <2>4, MainMove DEF MainType
  <2>6. LockInv'
    BY <2>1, LockFrame
  <2> QED  BY <1>2, <1>3, <2>5, <2>6 DEF IInv
<1> QED  BY <1>4, <1>5

\* Its conditional PUT, with or without an error.
LEMMA RenewPutKeeps ==
  ASSUME IInv, NEW w \in Workers, RenewPut(w) \/ RenewPutFault(w)
  PROVE  IInv'
<1> USE MainFacts
<1> DEFINE b == Body(ts[w], w, done[w])
<1>1. pc[w] = "rput" /\ (NotLocks \/ NotLocksFault)
  BY DEF RenewPut, RenewPutFault, MainFault, NotLocksFault, NotLocks
<1>2. EnvInv' /\ TimerInv' /\ SignalInv' /\ now' = now
  BY <1>1, NotLocksKeeps
<1>3. cur[w] \in Chunks /\ b \in Claim /\ b.ts <= now
  BY <1>1, BodyIsClaim DEF MainAt
<1> HIDE DEF b
<1>4. StoreInv'
  <2>1. CASE UNCHANGED storeVars
    BY <1>2, <2>1, StoreFrame
  <2>2. CASE WriteClaim(cur[w], b)
    BY <1>2, <1>3, <2>2, WriteKeeps
  <2> QED  BY <2>1, <2>2 DEF RenewPut, RenewPutFault, b
<1>5. MainInv' /\ LockInv'
  <2>1. CASE Renewal(w, TRUE)
    BY <1>1, <1>2, <2>1, RenewalKeeps
  <2>2. CASE Goto(w, "rcheck") /\ UNCHANGED lockVars
    BY <1>1, <1>2, <2>2, GotoKeeps, LockFrame DEF MainAt
  <2> QED  BY <2>1, <2>2 DEF RenewPut, RenewPutFault, MainFault
<1> QED  BY <1>2, <1>4, <1>5 DEF IInv

\* The re-read after a failed PUT.
LEMMA RenewCheckKeeps ==
  ASSUME IInv, NEW w \in Workers, RenewCheck(w) \/ RenewCheckFault(w)
  PROVE  IInv'
<1> USE MainFacts
<1>1. /\ pc[w] = "rcheck" /\ (NotLocks \/ NotLocksFault) /\ UNCHANGED storeVars
      /\ \E r \in BOOLEAN : Renewal(w, r)
  BY DEF RenewCheck, RenewCheckFault, Owns
<1>2. EnvInv' /\ TimerInv' /\ SignalInv' /\ now' = now
  BY <1>1, NotLocksKeeps
<1> QED  BY <1>1, <1>2, StoreFrame, RenewalKeeps DEF IInv

\* The flush of the chunk's rows, with or without an error.
LEMMA FlushKeeps ==
  ASSUME IInv, NEW w \in Workers, Flush(w) \/ FlushFault(w)
  PROVE  IInv'
<1> USE MainFacts
<1>1. pc[w] = "flush" /\ ChunkDone(w)
  BY DEF Flush, FlushFault
<1>2. EnvInv' /\ now' = now
  BY EnvFrame, SpendKeeps DEF Flush, FlushFault
<1>3. StoreInv'
  BY <1>1, <1>2, StoreFrame DEF Flush, FlushFault, StoreInv, MainAt
<1>4. CASE Exit(w)
  BY <1>2, <1>3, <1>4, ExitKeeps DEF IInv
<1>5. CASE ~Exit(w)
  <2>1. /\ pc' = [pc EXCEPT ![w] = "pick"]
        /\ cur' = [cur EXCEPT ![w] = NoChunk]
        /\ done' = [done EXCEPT ![w] = 0]
        /\ UNCHANGED <<todo, ts, tag, lockVars, timerVars, signalVars>>
    BY <1>1, <1>5 DEF ChunkDone
  <2>2. MainType'
    BY <2>1, ConfigAssumption DEF MainType
  <2>3. MainAt(w, pc[w], cur[w], ts[w], tag[w], done[w])'
    BY <1>2, <2>1 DEF MainType, MainAt
  <2>4. MainInv'
    BY <1>2, <2>1, <2>2, <2>3, MainMove DEF MainType
  <2> QED  BY <1>2, <1>3, <2>1, <2>4, LockFrame, TimerFrame, SignalFrame DEF IInv
<1> QED  BY <1>4, <1>5

\* Every step of a main thread keeps the invariant.
LEMMA MainStep ==
  ASSUME IInv, NEW w \in Workers, Main(w) \/ MainFaults(w)
  PROVE  IInv'
BY StartPassKeeps, EndPassKeeps, PickChunkKeeps, CreateKeeps, ReadKeeps, StealKeeps,
   RecordKeeps, CompleteKeeps, RenewGetKeeps, RenewPutKeeps, RenewCheckKeeps, FlushKeeps
   DEF Main, MainFaults

-----------------------------------------------------------------------------
(* The heartbeat and the signal thread.                                     *)

\* What holds of a heartbeat.
LEMMA TimerFacts ==
  ASSUME IInv, NEW w \in Workers
  PROVE  /\ TimerAt(w, tpc[w], tcur[w], tts[w], ttag[w])
         /\ TimerInv /\ TimerType /\ EnvInv /\ StoreInv /\ LockInv
BY DEF IInv, TimerInv

\* TimerOnly and TimerFault keep the parts of the other threads.
LEMMA TimerOnlyKeeps ==
  ASSUME IInv, TimerOnly \/ TimerFault
  PROVE  EnvInv' /\ MainInv' /\ SignalInv' /\ now' = now
<1>1. EnvInv' /\ now' = now
  BY EnvFrame, SpendKeeps DEF TimerOnly, TimerFault, IInv
<1> QED  BY <1>1, MainFrame, SignalFrame DEF TimerOnly, TimerFault, IInv

\* The heartbeat wakes up.
LEMMA WakeKeeps == ASSUME IInv, NEW w \in Workers, TimerWake(w) PROVE IInv'
<1> USE TimerFacts
<1>1. EnvInv' /\ MainInv' /\ SignalInv' /\ now' = now /\ StoreInv' /\ LockInv'
  BY TimerOnlyKeeps, StoreFrame, LockFrame DEF TimerWake
<1>2. TimerType'
  BY IntervalNat DEF TimerType, LockInv, EnvInv, TimerWake, AfterBeat
<1>3. TimerAt(w, tpc[w], tcur[w], tts[w], ttag[w])'
  BY <1>1 DEF TimerType, TimerAt, TimerWake, AfterBeat
<1>4. TimerInv'
  BY <1>1, <1>2, <1>3, TimerMove DEF TimerType, TimerWake, AfterBeat
<1> QED  BY <1>1, <1>4 DEF IInv

\* It takes the next held chunk.
LEMMA NextKeeps ==
  ASSUME IInv, NEW w \in Workers, NEW c \in Chunks, TimerNext(w, c)
  PROVE  IInv'
<1> USE TimerFacts
<1>1. EnvInv' /\ MainInv' /\ SignalInv' /\ now' = now /\ StoreInv' /\ LockInv'
  BY TimerOnlyKeeps, StoreFrame, LockFrame DEF TimerNext
<1>2. TimerType'
  BY DEF TimerType, EnvInv, TimerNext
<1>3. TimerAt(w, tpc[w], tcur[w], tts[w], ttag[w])'
  BY <1>1 DEF TimerType, TimerAt, TimerNext, EnvInv
<1>4. TimerInv'
  BY <1>1, <1>2, <1>3, TimerMove DEF TimerType, TimerNext
<1> QED  BY <1>1, <1>4 DEF IInv

\* Its GET: a claim of its own is remembered.
LEMMA TimerGetKeeps ==
  ASSUME IInv, NEW w \in Workers, TimerGet(w) \/ TimerGetFault(w)
  PROVE  IInv'
<1> USE TimerFacts
<1>1. tpc[w] = "get" /\ (TimerOnly \/ TimerFault) /\ UNCHANGED storeVars
  BY DEF TimerGet, TimerGetFault
<1>2. EnvInv' /\ MainInv' /\ SignalInv' /\ now' = now /\ StoreInv'
  BY <1>1, TimerOnlyKeeps, StoreFrame
<1>3. CASE Beat(w, FALSE)
  BY <1>1, <1>2, <1>3, BeatKeeps DEF IInv
<1>4. CASE ~Beat(w, FALSE)
  <2>1. /\ Owns(w, tcur[w])
        /\ tpc' = [tpc EXCEPT ![w] = "put"]
        /\ ttag' = [ttag EXCEPT ![w] = claim[tcur[w]]]
        /\ UNCHANGED <<tq, tcur, tts, due, lockVars>>
    BY <1>4 DEF TimerGet, TimerGetFault
  <2>2. tcur[w] \in Chunks /\ claim[tcur[w]] \in Claim \cup {NoClaim}
    BY <1>1 DEF TimerAt, StoreInv
  <2>3. TimerType'
    BY <2>1, <2>2 DEF TimerType
  <2>4. TimerAt(w, tpc[w], tcur[w], tts[w], ttag[w])'
    BY <1>1, <1>2, <2>1 DEF TimerType, TimerAt, Owns
  <2>5. TimerInv'
    BY <1>2, <2>1, <2>3, <2>4, TimerMove DEF TimerType
  <2> QED  BY <1>2, <2>1, <2>5, LockFrame DEF IInv
<1> QED  BY <1>3, <1>4

\* Its conditional PUT, with or without an error.
LEMMA TimerPutKeeps ==
  ASSUME IInv, NEW w \in Workers, TimerPut(w) \/ TimerPutFault(w)
  PROVE  IInv'
<1> USE TimerFacts
<1> DEFINE b == Body(tts[w], w, ttag[w].prog)
<1>1. tpc[w] = "put" /\ (TimerOnly \/ TimerFault)
  BY DEF TimerPut, TimerPutFault
<1>2. EnvInv' /\ MainInv' /\ SignalInv' /\ now' = now
  BY <1>1, TimerOnlyKeeps
<1>3. /\ tcur[w] \in Chunks /\ b \in Claim /\ b.ts <= now
  <2>1. ttag[w] \in Claim /\ tts[w] \in Nat
    BY <1>1 DEF TimerType, TimerAt
  <2>2. ttag[w].prog \in Nat
    BY <2>1 DEF Claim
  <2> QED  BY <1>1, <2>1, <2>2, BodyIsClaim DEF TimerAt
<1> HIDE DEF b
<1>4. StoreInv'
  <2>1. CASE UNCHANGED storeVars
    BY <1>2, <2>1, StoreFrame
  <2>2. CASE WriteClaim(tcur[w], b)
    BY <1>2, <1>3, <2>2, WriteKeeps
  <2> QED  BY <2>1, <2>2 DEF TimerPut, TimerPutFault, b
<1>5. TimerInv' /\ LockInv'
  <2>1. CASE Beat(w, TRUE)
    BY <1>1, <1>2, <2>1, BeatKeeps
  <2>2. CASE TimerCheckNext(w)
    <3>1. TimerType'
      BY <2>2 DEF TimerType, TimerCheckNext
    <3>2. TimerAt(w, tpc[w], tcur[w], tts[w], ttag[w])'
      BY <1>1, <1>2, <2>2 DEF TimerType, TimerAt, TimerCheckNext
    <3> QED  BY <1>2, <2>2, <3>1, <3>2, TimerMove, LockFrame DEF TimerType, TimerCheckNext
  <2> QED  BY <2>1, <2>2 DEF TimerPut, TimerPutFault
<1> QED  BY <1>2, <1>4, <1>5 DEF IInv

\* The re-read after a failed PUT.
LEMMA TimerCheckKeeps ==
  ASSUME IInv, NEW w \in Workers, TimerCheck(w) \/ TimerCheckFault(w)
  PROVE  IInv'
<1> USE TimerFacts
<1>1. /\ tpc[w] = "check" /\ (TimerOnly \/ TimerFault) /\ UNCHANGED storeVars
      /\ \E r \in BOOLEAN : Beat(w, r)
  BY DEF TimerCheck, TimerCheckFault, Owns
<1>2. EnvInv' /\ MainInv' /\ SignalInv' /\ now' = now /\ StoreInv'
  BY <1>1, TimerOnlyKeeps, StoreFrame
<1> QED  BY <1>1, <1>2, BeatKeeps DEF IInv

\* Every step of a heartbeat keeps the invariant.
LEMMA TimerStep ==
  ASSUME IInv, NEW w \in Workers, Timer(w) \/ TimerFaults(w)
  PROVE  IInv'
BY WakeKeeps, NextKeeps, TimerGetKeeps, TimerPutKeeps, TimerCheckKeeps DEF Timer, TimerFaults

\* A step of the signal thread before the exit.
LEMMA SignalStepKeeps ==
  ASSUME IInv, NEW w \in Workers, Sigterm(w) \/ ReleaseGet(w) \/ ReleaseDelete(w) \/ ReleaseFault(w)
  PROVE  IInv'
<1> USE DEF IInv
<1>1. EnvInv' /\ now' = now
  BY EnvFrame, SpendKeeps DEF Sigterm, ReleaseGet, ReleaseDelete, ReleaseFault
<1>2. \E l \in {"get", "delete", "exit"} :
        /\ SignalStep(w, l)
        /\ l = "delete" => spc[w] = "get"
  BY DEF Sigterm, ReleaseGet, ReleaseDelete, ReleaseFault, SignalInv
<1>3. LockInv' /\ MainInv' /\ TimerInv'
  BY <1>1, <1>2, LockFrame, MainFrame, TimerFrame DEF SignalStep
<1>4. SignalInv'
  BY DEF SignalInv, LockInv, SignalStep, Sigterm, ReleaseGet, ReleaseDelete, ReleaseFault
<1>5. StoreInv'
  <2>1. CASE UNCHANGED storeVars
    BY <1>1, <2>1, StoreFrame
  <2>2. CASE spc[w] = "delete" /\ WriteClaim(scur[w], NoClaim)
    BY <1>1, <2>2, WriteKeeps DEF SignalInv
  <2> QED  BY <2>1, <2>2 DEF Sigterm, ReleaseGet, ReleaseDelete, ReleaseFault
<1> QED  BY <1>1, <1>3, <1>4, <1>5

\* The process exits after the release.
LEMMA SignalExitKeeps == ASSUME IInv, NEW w \in Workers, SignalExit(w) PROVE IInv'
BY ExitKeeps, EnvFrame, StoreFrame DEF SignalExit, IInv

\* A process is killed.
LEMMA CrashKeeps == ASSUME IInv, NEW w \in Workers, Crash(w) PROVE IInv'
<1> USE DEF IInv
<1>1. EnvInv' /\ now' = now
  BY DEF EnvInv, Crash
<1>2. LockInv' /\ MainInv' /\ TimerInv' /\ SignalInv'
  BY <1>1, ExitKeeps DEF Crash
<1>3. StoreInv'
  BY <1>1, StoreFrame DEF Crash
<1> QED  BY <1>1, <1>2, <1>3

\* Time passes: clocks fall behind, but with prompt requests no clock is held.
LEMMA TickKeeps == ASSUME IInv, Tick PROVE IInv'
<1> USE DEF IInv
<1>1. now' = now + 1 /\ now \in Nat /\ EnvInv'
  BY DEF EnvInv, Tick
<1>2. LockInv' /\ SignalInv'
  BY LockFrame, SignalFrame DEF Tick
<1>3. StoreInv'
  BY <1>1 DEF Tick, StoreInv, storeVars, Claim
<1>4. ASSUME NEW w \in Workers PROVE MainAt(w, pc[w], cur[w], ts[w], tag[w], done[w])'
  BY <1>1, MainFacts DEF Tick, MainAt, MainType, mainVars, Quiet
<1>5. ASSUME NEW w \in Workers PROVE TimerAt(w, tpc[w], tcur[w], tts[w], ttag[w])'
  BY <1>1, TimerFacts DEF Tick, TimerAt, TimerType, timerVars, Quiet
<1>6. MainType' /\ TimerType'
  BY DEF Tick, MainInv, MainType, TimerInv, TimerType, mainVars, timerVars
<1> QED  BY <1>1, <1>2, <1>3, <1>4, <1>5, <1>6 DEF MainInv, TimerInv

\* Every step keeps the invariant.
LEMMA IInvStep == IInv /\ [Next]_vars => IInv'
<1> SUFFICES ASSUME IInv, [Next]_vars PROVE IInv'
  OBVIOUS
<1>1. CASE UNCHANGED vars
  BY <1>1, StoreFrame, EnvFrame, LockFrame, MainFrame, TimerFrame, SignalFrame
     DEF vars, IInv, storeVars, envVars, lockVars, mainVars, timerVars, signalVars
<1> QED  BY <1>1, TickKeeps, MainStep, TimerStep, SignalStepKeeps, SignalExitKeeps, CrashKeeps
         DEF Next, AllDone, Signal

\* The invariant holds in every reachable state.
LEMMA IInvHolds == Spec => []IInv
BY InitIInv, IInvStep, PTL DEF Spec

\* Type correctness of the claim objects and of the three threads of every worker.
THEOREM TypeCorrect == Spec => []TypeOK
BY IInvType, IInvHolds, PTL

-----------------------------------------------------------------------------
(* Who may change a claim, and what that is to the lease.                   *)

\* Every step that changes a claim is one of five: a create, a steal, a progress
\* renewal, a heartbeat or a release.
ClaimChange ==
  \E w \in Workers :
    \/ /\ pc[w] = "create" /\ claim[cur[w]] = NoClaim
       /\ WriteClaim(cur[w], Body(ts[w], w, 0))
    \/ /\ pc[w] = "steal" /\ IfMatch(cur[w], tag[w])
       /\ WriteClaim(cur[w], Body(ts[w], w, 0))
    \/ /\ pc[w] = "rput" /\ IfMatch(cur[w], tag[w])
       /\ WriteClaim(cur[w], Body(ts[w], w, done[w]))
    \/ /\ tpc[w] = "put" /\ IfMatch(tcur[w], ttag[w])
       /\ WriteClaim(tcur[w], Body(tts[w], w, ttag[w].prog))
    \/ /\ spc[w] = "delete" /\ WriteClaim(scur[w], NoClaim)
       /\ spc' = [spc EXCEPT ![w] = "exit"]

\* No other step changes a claim.
LEMMA OnlyClaimChanges == ASSUME [Next]_vars PROVE UNCHANGED claim \/ ClaimChange
<1> USE DEF storeVars
<1>1. ASSUME NEW w \in Workers, Main(w) PROVE UNCHANGED claim \/ ClaimChange
  BY <1>1 DEF Main, StartPass, EndPass, PickChunk, CreateClaim, ReadClaim, StealClaim,
     RecordClaim, CompleteCell, RenewGet, RenewPut, RenewCheck, Flush, ClaimChange
<1>2. ASSUME NEW w \in Workers, MainFaults(w) PROVE UNCHANGED claim \/ ClaimChange
  BY <1>2 DEF MainFaults, CreateClaimFault, ReadClaimFault, StealClaimFault,
     RenewGetFault, RenewPutFault, RenewCheckFault, FlushFault, ClaimChange
<1>3. ASSUME NEW w \in Workers, Timer(w) \/ TimerFaults(w) PROVE UNCHANGED claim \/ ClaimChange
  BY <1>3 DEF Timer, TimerWake, TimerNext, TimerGet, TimerPut, TimerCheck,
     TimerFaults, TimerGetFault, TimerPutFault, TimerCheckFault, ClaimChange
<1>4. ASSUME NEW w \in Workers, Signal(w) \/ Sigterm(w) \/ ReleaseFault(w) \/ Crash(w)
      PROVE  UNCHANGED claim \/ ClaimChange
  BY <1>4 DEF Signal, ReleaseGet, ReleaseDelete, SignalExit, Sigterm, ReleaseFault, Crash,
     SignalStep, ClaimChange
<1> QED  BY <1>1, <1>2, <1>3, <1>4 DEF Next, Tick, AllDone, vars

\* With the invariant, such a step keeps the hand-over rule.
LEMMA ChangeIsOwnership ==
  ASSUME IInv, ClaimChange
  PROVE  OwnershipStep
<1> SUFFICES ASSUME NEW c \in Chunks, claim'[c] # claim[c]
             PROVE  \/ claim[c] = NoClaim
                    \/ claim'[c] = NoClaim /\ \E w \in Workers : spc[w] = "delete" /\ scur[w] = c
                    \/ claim'[c] # NoClaim /\ claim'[c].owner = claim[c].owner
                    \/ claim'[c] # NoClaim /\ Stealable(now, claim[c])
  BY DEF OwnershipStep
<1>1. PICK w \in Workers :
    \/ /\ pc[w] = "create" /\ claim[cur[w]] = NoClaim
       /\ WriteClaim(cur[w], Body(ts[w], w, 0))
    \/ /\ pc[w] = "steal" /\ IfMatch(cur[w], tag[w])
       /\ WriteClaim(cur[w], Body(ts[w], w, 0))
    \/ /\ pc[w] = "rput" /\ IfMatch(cur[w], tag[w])
       /\ WriteClaim(cur[w], Body(ts[w], w, done[w]))
    \/ /\ tpc[w] = "put" /\ IfMatch(tcur[w], ttag[w])
       /\ WriteClaim(tcur[w], Body(tts[w], w, ttag[w].prog))
    \/ spc[w] = "delete" /\ WriteClaim(scur[w], NoClaim)
  BY DEF ClaimChange
<1> USE MainFacts, TimerFacts
<1> USE DEF IInv
<1>2. CASE pc[w] = "create" /\ claim[cur[w]] = NoClaim /\ WriteClaim(cur[w], Body(ts[w], w, 0))
  BY <1>2 DEF WriteClaim, StoreInv
<1>3. CASE pc[w] = "steal" /\ IfMatch(cur[w], tag[w]) /\ WriteClaim(cur[w], Body(ts[w], w, 0))
  <2>1. c = cur[w] /\ claim'[c] = Body(ts[w], w, 0)
    BY <1>3 DEF WriteClaim, StoreInv
  <2>2. Stealable(ts[w], claim[c]) /\ ts[w] <= now /\ claim[c] # NoClaim
    BY <1>3, <2>1 DEF MainAt, IfMatch, Stealable
  <2>3. claim[c].ts \in Nat /\ TTL \in Nat
    BY <2>2, ConfigAssumption DEF StoreInv, Claim
  <2>4. Stealable(now, claim[c])
    BY <2>2, <2>3 DEF Stealable, claim_is_stale
  <2> QED  BY <2>1, <2>4, BodyIsClaim
<1>4. CASE pc[w] = "rput" /\ IfMatch(cur[w], tag[w]) /\ WriteClaim(cur[w], Body(ts[w], w, done[w]))
  <2>1. c = cur[w] /\ claim'[c] = Body(ts[w], w, done[w])
    BY <1>4 DEF WriteClaim, StoreInv
  <2>2. claim[c].owner = w
    BY <1>4, <2>1 DEF MainAt, IfMatch
  <2> QED  BY <2>1, <2>2, BodyIsClaim
<1>5. CASE tpc[w] = "put" /\ IfMatch(tcur[w], ttag[w])
             /\ WriteClaim(tcur[w], Body(tts[w], w, ttag[w].prog))
  <2>1. c = tcur[w] /\ claim'[c] = Body(tts[w], w, ttag[w].prog)
    BY <1>5 DEF WriteClaim, StoreInv
  <2>2. claim[c].owner = w
    BY <1>5, <2>1 DEF TimerAt, IfMatch
  <2>3. ttag[w] \in Claim
    BY <1>5 DEF TimerAt, TimerType
  <2>4. ttag[w].prog \in Nat
    BY <2>3 DEF Claim
  <2> QED  BY <2>1, <2>2, <2>4, BodyIsClaim
<1>6. CASE spc[w] = "delete" /\ WriteClaim(scur[w], NoClaim)
  BY <1>6 DEF WriteClaim, StoreInv
<1> QED  BY <1>1, <1>2, <1>3, <1>4, <1>5, <1>6

\* A claim changes hands only after it expired, and disappears only by the DELETE
\* of a worker that was told to stop: claim_or_steal_r2_key, update_chunk_claim and
\* release_owned_claim together, whatever requests are lost or delayed.
THEOREM HandOverOnlyWhenStale == Spec => ClaimsChangeHandsWhenStale
<1>1. IInv /\ [Next]_vars => [OwnershipStep]_vars
  <2> SUFFICES ASSUME IInv, [Next]_vars PROVE OwnershipStep \/ UNCHANGED vars
    OBVIOUS
  <2>1. CASE UNCHANGED claim
    BY <2>1 DEF OwnershipStep
  <2>2. CASE ClaimChange
    BY <2>2, ChangeIsOwnership
  <2> QED  BY <2>1, <2>2, OnlyClaimChanges
<1> QED  BY <1>1, IInvHolds, PTL DEF Spec, ClaimsChangeHandsWhenStale

-----------------------------------------------------------------------------
\* Writing one claim writes one lease.
LEMMA WriteIsPut ==
  ASSUME IInv, UNCHANGED now, NEW c \in Chunks, NEW k, WriteClaim(c, k)
  PROVE  L!Put(c, LeaseOf(k))
BY DEF IInv, StoreInv, WriteClaim, L!Put, LeaseOf

\* The lease of a claim body.
LEMMA BodyLease ==
  ASSUME NEW t \in Nat, NEW w \in Workers, NEW n \in Nat
  PROVE  LeaseOf(Body(t, w, n)) = L!New(w, t)
BY BodyIsClaim DEF LeaseOf, L!New

\* The lease of an existing claim, field by field.
LEMMA LeaseOfClaim ==
  ASSUME IInv, NEW c \in Chunks, claim[c] # NoClaim
  PROVE  /\ LeaseOf(claim[c]) = L!New(claim[c].owner, claim[c].ts)
         /\ LeaseOf(claim[c]) # NoClaim
         /\ LeaseOf(claim[c]).holder = claim[c].owner
         /\ LeaseOf(claim[c]).last_renew = claim[c].ts
         /\ claim[c].ts \in Nat /\ claim[c].ts <= now
<1>1. claim[c].ts \in Nat /\ claim[c].owner \in Workers /\ claim[c].ts <= now
  BY DEF IInv, StoreInv, Claim
<1> QED  BY <1>1, ConfigAssumption DEF LeaseOf, L!New

\* A renewal with the current clock is the lease's renewal, which never shortens it.
LEMMA RenewIsRenew ==
  ASSUME IInv, UNCHANGED now, NEW c \in Chunks, NEW w \in Workers, NEW n \in Nat,
         claim[c] # NoClaim, claim[c].owner = w, WriteClaim(c, Body(now, w, n))
  PROVE  L!Renew(c, now)
<1>1. now \in Nat
  BY DEF IInv, EnvInv
<1>2. LeaseOf(Body(now, w, n)) = L!New(w, now)
  BY <1>1, BodyLease
<1>3. L!Renewed(LeaseOf(claim[c]), now) = L!New(w, now)
  <2>1. /\ LeaseOf(claim[c]) = L!New(w, claim[c].ts)
        /\ LeaseOf(claim[c]).holder = w /\ LeaseOf(claim[c]).last_renew = claim[c].ts
        /\ claim[c].ts \in Nat /\ claim[c].ts <= now
    BY LeaseOfClaim
  <2>2. CASE now > claim[c].ts
    BY <2>1, <2>2 DEF L!Renewed
  <2>3. CASE now = claim[c].ts
    BY <2>1, <2>3, <1>1 DEF L!Renewed
  <2> QED  BY <1>1, <2>1, <2>2, <2>3
<1>4. L!Put(c, L!Renewed(LeaseOf(claim[c]), now))
  BY <1>2, <1>3, WriteIsPut
<1> QED  BY <1>4, LeaseOfClaim DEF L!Renew

\* Only Tick moves the clock.
LEMMA SameClock == ASSUME IInv, [Next]_vars, ~Tick PROVE UNCHANGED now
<1> USE EnvFrame, SpendKeeps DEF IInv
<1>1. ASSUME NEW w \in Workers, Main(w) PROVE UNCHANGED now
  BY <1>1 DEF Main, StartPass, EndPass, PickChunk, CreateClaim, ReadClaim, StealClaim,
     RecordClaim, CompleteCell, RenewGet, RenewPut, RenewCheck, Flush, MainOnly, NotLocks
<1>2. ASSUME NEW w \in Workers, MainFaults(w) PROVE UNCHANGED now
  BY <1>2 DEF MainFaults, CreateClaimFault, ReadClaimFault, StealClaimFault,
     RenewGetFault, RenewPutFault, RenewCheckFault, FlushFault, MainFault, NotLocksFault
<1>3. ASSUME NEW w \in Workers, Timer(w) \/ TimerFaults(w) PROVE UNCHANGED now
  BY <1>3 DEF Timer, TimerWake, TimerNext, TimerGet, TimerPut, TimerCheck,
     TimerFaults, TimerGetFault, TimerPutFault, TimerCheckFault, TimerOnly, TimerFault
<1>4. ASSUME NEW w \in Workers, Signal(w) \/ Sigterm(w) \/ ReleaseFault(w) \/ Crash(w)
      PROVE  UNCHANGED now
  BY <1>4 DEF Signal, ReleaseGet, ReleaseDelete, SignalExit, Sigterm, ReleaseFault, Crash
<1> QED  BY <1>1, <1>2, <1>3, <1>4 DEF Next, AllDone, vars, envVars

\* With prompt requests, each of the five changes is a step of the lease.
LEMMA ChangeIsLeaseStep ==
  ASSUME Prompt, IInv, UNCHANGED now, ClaimChange
  PROVE  L!Next \/ UNCHANGED claim
<1> USE MainFacts, TimerFacts
<1> USE DEF IInv
<1>1. PICK w \in Workers :
    \/ /\ pc[w] = "create" /\ claim[cur[w]] = NoClaim
       /\ WriteClaim(cur[w], Body(ts[w], w, 0))
    \/ /\ pc[w] = "steal" /\ IfMatch(cur[w], tag[w])
       /\ WriteClaim(cur[w], Body(ts[w], w, 0))
    \/ /\ pc[w] = "rput" /\ IfMatch(cur[w], tag[w])
       /\ WriteClaim(cur[w], Body(ts[w], w, done[w]))
    \/ /\ tpc[w] = "put" /\ IfMatch(tcur[w], ttag[w])
       /\ WriteClaim(tcur[w], Body(tts[w], w, ttag[w].prog))
    \/ spc[w] = "delete" /\ WriteClaim(scur[w], NoClaim)
  BY DEF ClaimChange
<1>2. CASE pc[w] = "create" /\ claim[cur[w]] = NoClaim /\ WriteClaim(cur[w], Body(ts[w], w, 0))
  <2>1. cur[w] \in Chunks /\ ts[w] \in 0..now
    BY <1>2 DEF MainAt
  <2>2. LeaseOf(claim[cur[w]]) = NoClaim
    BY <1>2 DEF LeaseOf
  <2>3. L!Put(cur[w], L!New(w, ts[w]))
    BY <1>2, <2>1, WriteIsPut, BodyLease
  <2>4. L!Acquire(cur[w], w, ts[w])
    BY <2>1, <2>2, <2>3 DEF L!Acquire
  <2> QED  BY <2>1, <2>4 DEF L!Next
<1>3. CASE pc[w] = "steal" /\ IfMatch(cur[w], tag[w]) /\ WriteClaim(cur[w], Body(ts[w], w, 0))
  <2>1. cur[w] \in Chunks /\ ts[w] \in 0..now /\ Stealable(ts[w], claim[cur[w]])
    BY <1>3 DEF MainAt, IfMatch
  <2>2. claim[cur[w]] # NoClaim /\ ts[w] >= claim[cur[w]].ts + TTL
    BY <2>1 DEF Stealable, claim_is_stale
  <2>3. L!CanSteal(LeaseOf(claim[cur[w]]), ts[w]) /\ LeaseOf(claim[cur[w]]) # NoClaim
    BY <2>1, <2>2, LeaseOfClaim DEF L!CanSteal, L!IsExpired
  <2>4. L!Steal(cur[w], w, ts[w])
    BY <1>3, <2>1, <2>3, WriteIsPut, BodyLease DEF L!Steal
  <2> QED  BY <2>1, <2>4 DEF L!Next
<1>4. CASE pc[w] = "rput" /\ IfMatch(cur[w], tag[w]) /\ WriteClaim(cur[w], Body(ts[w], w, done[w]))
  <2>1. cur[w] \in Chunks /\ ts[w] = now /\ claim[cur[w]] # NoClaim /\ claim[cur[w]].owner = w
    BY <1>4 DEF MainAt, IfMatch
  <2>2. L!Renew(cur[w], now)
    BY <1>4, <2>1, RenewIsRenew
  <2> QED  BY <2>1, <2>2 DEF L!Next
<1>5. CASE tpc[w] = "put" /\ IfMatch(tcur[w], ttag[w])
             /\ WriteClaim(tcur[w], Body(tts[w], w, ttag[w].prog))
  <2>1. tcur[w] \in Chunks /\ tts[w] = now /\ claim[tcur[w]] # NoClaim /\ claim[tcur[w]].owner = w
    BY <1>5 DEF TimerAt, IfMatch
  <2>2. ttag[w] \in Claim
    BY <1>5 DEF TimerAt, TimerType
  <2>3. ttag[w].prog \in Nat
    BY <2>2 DEF Claim
  <2>4. L!Renew(tcur[w], now)
    BY <1>5, <2>1, <2>3, RenewIsRenew
  <2> QED  BY <2>1, <2>4 DEF L!Next
<1>6. CASE spc[w] = "delete" /\ WriteClaim(scur[w], NoClaim)
  <2>1. scur[w] \in Chunks
    BY <1>6 DEF SignalInv
  <2>2. CASE claim[scur[w]] = NoClaim
    BY <1>6, <2>1, <2>2 DEF WriteClaim, StoreInv
  <2>3. CASE claim[scur[w]] # NoClaim
    <3>1. L!Release(scur[w])
      <4>1. L!Put(scur[w], LeaseOf(NoClaim))
        BY <1>6, <2>1, WriteIsPut
      <4>2. LeaseOf(NoClaim) = NoClaim
        BY DEF LeaseOf
      <4> QED  BY <2>1, <2>3, <4>1, <4>2, LeaseOfClaim DEF L!Release
    <3> QED  BY <2>1, <3>1 DEF L!Next
  <2> QED  BY <2>2, <2>3
<1> QED  BY <1>1, <1>2, <1>3, <1>4, <1>5, <1>6

\* With prompt requests the claim objects are leases in the sense of
\* zenfleet-core/src/lease.rs: the conditional writes of the worker implement its
\* pure transitions, across power-offs, SIGTERMs and lost requests.
THEOREM PromptClaimsAreLeases ==
  ASSUME Prompt
  PROVE  Spec => ImplementsLease
<1>1. Init => L!Init
  BY DEF Init, L!Init, LeaseOf
<1>2. IInv /\ [Next]_vars => [L!Next]_(L!vars)
  <2> SUFFICES ASSUME IInv, [Next]_vars PROVE L!Next \/ UNCHANGED L!vars
    OBVIOUS
  <2> USE MainFacts, TimerFacts
  <2>1. CASE Tick
    <3>1. L!Advance
      BY <2>1 DEF Tick, storeVars, L!Advance, IInv, EnvInv
    <3> QED  BY <3>1 DEF L!Next
  <2>2. CASE ~Tick
    <3>1. UNCHANGED now
      BY <2>2, SameClock
    <3>2. CASE UNCHANGED claim
      BY <3>1, <3>2 DEF L!vars
    <3>3. CASE ClaimChange
      BY <3>1, <3>3, ChangeIsLeaseStep DEF L!vars
    <3> QED  BY <3>2, <3>3, OnlyClaimChanges
  <2> QED  BY <2>1, <2>2
<1> QED  BY <1>1, <1>2, IInvHolds, PTL DEF Spec, ImplementsLease, L!Spec

-----------------------------------------------------------------------------
(* Whose steps can disarm a worker, or take its claim.                      *)

\* Nothing that belongs to w changes.
Same(w) ==
  /\ pc'[w] = pc[w] /\ cur'[w] = cur[w] /\ ts'[w] = ts[w] /\ tag'[w] = tag[w]
  /\ held'[w] = held[w] /\ inflight'[w] = inflight[w]
  /\ tpc'[w] = tpc[w] /\ tq'[w] = tq[w] /\ tcur'[w] = tcur[w] /\ tts'[w] = tts[w]
  /\ ttag'[w] = ttag[w] /\ due'[w] = due[w]
  /\ spc'[w] = spc[w] /\ scur'[w] = scur[w]

Calm(w) == Main(w) \/ Timer(w) \/ Signal(w) \/ Sigterm(w) \/ Crash(w)
Faulty(w) == MainFaults(w) \/ TimerFaults(w) \/ ReleaseFault(w)

\* A step is one of a worker, with or without a lost request, or it changes nothing
\* but the clock.
LEMMA StepKinds ==
  ASSUME [Next]_vars
  PROVE  \/ \E w \in Workers : Calm(w) \/ Faulty(w)
         \/ Tick
         \/ UNCHANGED vars
BY DEF Next, Calm, Faulty, AllDone

\* Threads of a worker touch only what is the worker's.
LEMMA MainLocal ==
  ASSUME IInv, NEW v \in Workers, NEW w \in Workers, w # v, Main(v) \/ MainFaults(v)
  PROVE  Same(w)
<1> USE DEF IInv, LockInv, MainInv, MainType, TimerInv, TimerType, SignalInv, Same,
            lockVars, timerVars, signalVars
<1>1. CASE StartPass(v) \/ EndPass(v) \/ \E c \in Chunks : PickChunk(v, c)
  BY <1>1 DEF StartPass, EndPass, PickChunk, Exit
<1>2. CASE \/ CreateClaim(v) \/ CreateClaimFault(v) \/ ReadClaim(v) \/ ReadClaimFault(v)
           \/ StealClaim(v) \/ StealClaimFault(v)
  BY <1>2 DEF CreateClaim, CreateClaimFault, ReadClaim, ReadClaimFault, StealClaim,
              StealClaimFault, Win, GiveUp, Goto, MainOnly, MainFault
<1>3. CASE RecordClaim(v) \/ CompleteCell(v)
  BY <1>3 DEF RecordClaim, CompleteCell, Goto, MainOnly
<1>4. CASE \/ RenewGet(v) \/ RenewGetFault(v) \/ RenewPut(v) \/ RenewPutFault(v)
           \/ RenewCheck(v) \/ RenewCheckFault(v)
  BY <1>4 DEF RenewGet, RenewGetFault, RenewPut, RenewPutFault, RenewCheck, RenewCheckFault,
              Renewal, track_chunk_renewal, Goto, NotLocks, NotLocksFault, MainFault
<1>5. CASE Flush(v) \/ FlushFault(v)
  BY <1>5 DEF Flush, FlushFault, ChunkDone, Exit
<1> QED  BY <1>1, <1>2, <1>3, <1>4, <1>5 DEF Main, MainFaults

\* The same of the other two threads and of a kill.
LEMMA RestLocal ==
  ASSUME IInv, NEW v \in Workers, NEW w \in Workers, w # v,
         \/ Timer(v) \/ TimerFaults(v) \/ Signal(v) \/ Sigterm(v)
         \/ ReleaseFault(v) \/ Crash(v)
  PROVE  Same(w)
<1> USE DEF IInv, LockInv, MainInv, MainType, TimerInv, TimerType, SignalInv, Same,
            mainVars, lockVars, timerVars, signalVars
<1>1. CASE TimerWake(v) \/ \E c \in Chunks : TimerNext(v, c)
  BY <1>1 DEF TimerWake, TimerNext, AfterBeat, TimerOnly
<1>2. CASE \/ TimerGet(v) \/ TimerGetFault(v) \/ TimerPut(v) \/ TimerPutFault(v)
           \/ TimerCheck(v) \/ TimerCheckFault(v)
  BY <1>2 DEF TimerGet, TimerGetFault, TimerPut, TimerPutFault, TimerCheck, TimerCheckFault,
              Beat, AfterBeat, TimerCheckNext, track_chunk_renewal, TimerOnly, TimerFault
<1>3. CASE Sigterm(v) \/ ReleaseGet(v) \/ ReleaseDelete(v) \/ ReleaseFault(v)
  BY <1>3 DEF Sigterm, ReleaseGet, ReleaseDelete, ReleaseFault, SignalStep
<1>4. CASE SignalExit(v) \/ Crash(v)
  BY <1>4 DEF SignalExit, Crash, Exit
<1> QED  BY <1>1, <1>2, <1>3, <1>4 DEF Timer, TimerFaults, Signal

\* Of all steps only one of w's own can change what belongs to w.
LEMMA OthersLocal ==
  ASSUME IInv, NEW v \in Workers, NEW w \in Workers, w # v, Calm(v) \/ Faulty(v)
  PROVE  Same(w)
BY MainLocal, RestLocal DEF Calm, Faulty

\* A claim is w's only if it was before, or w has just won it.
LEMMA OwnedBefore ==
  ASSUME IInv, [Next]_vars, NEW w \in Workers, NEW c \in Chunks, Owns(w, c)'
  PROVE  Owns(w, c) \/ (pc[w] \in {"create", "steal"} /\ cur[w] = c)
<1> USE MainFacts, TimerFacts
<1> USE DEF IInv, Owns
<1>1. CASE UNCHANGED claim
  BY <1>1
<1>2. ASSUME NEW v \in Workers, NEW d \in Chunks, NEW k,
             claim' = [claim EXCEPT ![d] = k],
             k = NoClaim \/ k.owner = v,
             k # NoClaim => Owns(v, d) \/ (pc[v] \in {"create", "steal"} /\ cur[v] = d)
      PROVE  Owns(w, c) \/ (pc[w] \in {"create", "steal"} /\ cur[w] = c)
  BY <1>2 DEF StoreInv
<1>3. CASE ClaimChange
  <2>1. PICK v \in Workers :
      \/ /\ pc[v] = "create" /\ claim[cur[v]] = NoClaim
         /\ WriteClaim(cur[v], Body(ts[v], v, 0))
      \/ /\ pc[v] = "steal" /\ IfMatch(cur[v], tag[v])
         /\ WriteClaim(cur[v], Body(ts[v], v, 0))
      \/ /\ pc[v] = "rput" /\ IfMatch(cur[v], tag[v])
         /\ WriteClaim(cur[v], Body(ts[v], v, done[v]))
      \/ /\ tpc[v] = "put" /\ IfMatch(tcur[v], ttag[v])
         /\ WriteClaim(tcur[v], Body(tts[v], v, ttag[v].prog))
      \/ spc[v] = "delete" /\ WriteClaim(scur[v], NoClaim)
    BY <1>3 DEF ClaimChange
  <2>2. CASE pc[v] \in {"create", "steal"} /\ WriteClaim(cur[v], Body(ts[v], v, 0))
    <3>1. cur[v] \in Chunks /\ Body(ts[v], v, 0).owner = v
      BY <2>2, BodyIsClaim DEF MainAt
    <3> QED  BY <2>2, <3>1, <1>2 DEF WriteClaim
  <2>3. CASE pc[v] = "rput" /\ IfMatch(cur[v], tag[v])
               /\ WriteClaim(cur[v], Body(ts[v], v, done[v]))
    <3>1. cur[v] \in Chunks /\ Body(ts[v], v, done[v]).owner = v /\ Owns(v, cur[v])
      BY <2>3, BodyIsClaim DEF MainAt, IfMatch
    <3> QED  BY <2>3, <3>1, <1>2 DEF WriteClaim
  <2>4. CASE tpc[v] = "put" /\ IfMatch(tcur[v], ttag[v])
               /\ WriteClaim(tcur[v], Body(tts[v], v, ttag[v].prog))
    <3>1. tcur[v] \in Chunks /\ Owns(v, tcur[v])
      BY <2>4 DEF TimerAt, IfMatch
    <3>2. Body(tts[v], v, ttag[v].prog).owner = v
      BY DEF Body
    <3> QED  BY <2>4, <3>1, <3>2, <1>2 DEF WriteClaim
  <2>5. CASE spc[v] = "delete" /\ WriteClaim(scur[v], NoClaim)
    <3>1. scur[v] \in Chunks
      BY <2>5 DEF SignalInv
    <3> QED  BY <2>5, <3>1, <1>2 DEF WriteClaim
  <2> QED  BY <2>1, <2>2, <2>3, <2>4, <2>5
<1> QED  BY <1>1, <1>3, OnlyClaimChanges

\* A lost request or answer is counted; nothing else is counted as one.
LEMMA NetSpent ==
  ASSUME IInv, [Next]_vars
  PROVE  /\ left'["net"] <= left["net"]
         /\ (\E w \in Workers : Faulty(w)) \/ left'["net"] = left["net"]
<1> USE DEF IInv, EnvInv
<1>1. ASSUME NEW w \in Workers, Faulty(w) PROVE left'["net"] <= left["net"]
  <2>1. Spend("net")
    BY <1>1 DEF Faulty, MainFaults, CreateClaimFault, ReadClaimFault, StealClaimFault,
       RenewGetFault, RenewPutFault, RenewCheckFault, FlushFault, MainFault, NotLocksFault,
       TimerFaults, TimerGetFault, TimerPutFault, TimerCheckFault, TimerFault, ReleaseFault
  <2> QED  BY <2>1 DEF Spend
<1>2. ASSUME NEW w \in Workers, Calm(w) PROVE left'["net"] = left["net"]
  <2>1. CASE Main(w)
    BY <2>1 DEF Main, StartPass, EndPass, PickChunk, CreateClaim, ReadClaim, StealClaim,
       RecordClaim, CompleteCell, RenewGet, RenewPut, RenewCheck, Flush, MainOnly, NotLocks, envVars
  <2>2. CASE Timer(w) \/ Signal(w)
    BY <2>2 DEF Timer, TimerWake, TimerNext, TimerGet, TimerPut, TimerCheck, TimerOnly,
       Signal, ReleaseGet, ReleaseDelete, SignalExit, envVars
  <2>3. CASE Sigterm(w) \/ Crash(w)
    BY <2>3 DEF Sigterm, Spend, Crash
  <2> QED  BY <1>2, <2>1, <2>2, <2>3 DEF Calm
<1> QED  BY <1>1, <1>2, StepKinds DEF Tick, vars, envVars

-----------------------------------------------------------------------------
(* A running chunk stays armed.                                             *)

Renewing == {"run", "rget", "rput", "rcheck"}

\* What OwnerStaysArmed says of one worker.
Armed(w) == pc[w] \in Renewing /\ Owns(w, cur[w]) => cur[w] \in held[w] /\ inflight[w] = cur[w]

\* A renewal of chunk c disarms c only, and only if it is finished or not renewed.
LEMMA TrackSpares ==
  ASSUME LockInv, NEW w \in Workers, NEW c \in Chunks, NEW d \in Chunks,
         NEW r \in BOOLEAN, NEW f \in BOOLEAN, track_chunk_renewal(w, c, r, f),
         (r /\ ~f) \/ d # c, d \in held[w] /\ inflight[w] = d
  PROVE  d \in held'[w] /\ inflight'[w] = d
BY DEF LockInv, track_chunk_renewal, lockVars

\* The main thread arms the chunk when it starts to run it, and disarms it only when
\* the claim is not its own or the chunk is finished.
LEMMA ArmedMain ==
  ASSUME IInv, NEW w \in Workers, Armed(w), Main(w)
  PROVE  Armed(w)'
<1> USE MainFacts
<1> USE DEF MainType, LockInv, Renewing
<1>1. CASE \/ StartPass(w) \/ EndPass(w) \/ Flush(w) \/ (\E c \in Chunks : PickChunk(w, c))
           \/ CreateClaim(w) \/ ReadClaim(w) \/ StealClaim(w)
  <2>1. pc'[w] \notin Renewing
    BY <1>1 DEF StartPass, EndPass, Flush, ChunkDone, PickChunk, CreateClaim, ReadClaim,
       StealClaim, Win, GiveUp, Goto, Exit
  <2> QED  BY <2>1 DEF Armed
<1>2. CASE RecordClaim(w)
  BY <1>2 DEF RecordClaim, Goto, Armed
<1>3. CASE CompleteCell(w)
  BY <1>3 DEF CompleteCell, MainOnly, lockVars, storeVars, Armed, Owns
<1>4. CASE RenewGet(w) \/ RenewCheck(w)
  <2>1. UNCHANGED claim /\ cur' = cur
    BY <1>4 DEF RenewGet, RenewCheck, Renewal, storeVars
  <2>2. CASE UNCHANGED lockVars
    BY <1>4, <2>1, <2>2 DEF RenewGet, RenewCheck, lockVars, Armed, Owns
  <2>3. CASE ~Owns(w, cur[w])
    BY <2>1, <2>3 DEF Armed, Owns
  <2>4. CASE pc'[w] \notin Renewing
    BY <2>4 DEF Armed
  <2> QED  BY <1>4, <2>2, <2>3, <2>4 DEF RenewGet, RenewCheck, Renewal, track_chunk_renewal
<1>5. CASE RenewPut(w)
  <2>1. cur[w] \in Chunks /\ cur' = cur /\ (UNCHANGED lockVars \/ pc'[w] \notin Renewing)
    BY <1>5 DEF RenewPut, Renewal, track_chunk_renewal, Goto, MainAt
  <2>2. pc[w] = "rput" /\ (IfMatch(cur[w], tag[w]) \/ UNCHANGED claim)
    BY <1>5 DEF RenewPut, storeVars
  <2>3. Owns(w, cur[w])' => Owns(w, cur[w])
    BY <2>1, <2>2 DEF Owns, IfMatch, MainAt
  <2> QED  BY <2>1, <2>2, <2>3 DEF Armed, lockVars
<1> QED  BY <1>1, <1>2, <1>3, <1>4, <1>5 DEF Main

\* The heartbeat disarms a chunk only when its claim is not this worker's.
LEMMA ArmedTimer ==
  ASSUME IInv, NEW w \in Workers, Armed(w), Timer(w)
  PROVE  Armed(w)'
<1> USE MainFacts, TimerFacts
<1>1. pc' = pc /\ cur' = cur
  BY DEF Timer, TimerWake, TimerNext, TimerGet, TimerPut, TimerCheck, TimerOnly, mainVars
<1>2. CASE UNCHANGED lockVars
  <2>1. Owns(w, cur[w])' /\ pc[w] \in Renewing => Owns(w, cur[w])
    <3>1. [Next]_vars
      BY DEF Next
    <3> QED  BY <1>1, <3>1, OwnedBefore DEF MainAt, Renewing, Owns
  <2> QED  BY <1>1, <1>2, <2>1 DEF Armed, lockVars
<1>3. CASE UNCHANGED claim /\ tcur[w] \in Chunks /\ ~Owns(w, tcur[w])
           /\ track_chunk_renewal(w, tcur[w], FALSE, FALSE)
  <2> SUFFICES ASSUME pc[w] \in Renewing, Owns(w, cur[w])
               PROVE  cur[w] \in held'[w] /\ inflight'[w] = cur[w]
    BY <1>1, <1>3 DEF Armed, Owns
  <2>1. cur[w] \in Chunks /\ cur[w] # tcur[w]
    BY <1>3 DEF MainAt, Renewing
  <2> QED  BY <1>3, <2>1, TrackSpares DEF Armed
<1> QED  BY <1>2, <1>3 DEF Timer, TimerWake, TimerNext, TimerGet, TimerPut, TimerCheck,
            TimerCheckNext, Beat, track_chunk_renewal, storeVars, TimerAt

\* A release takes the claim away, and a dead process is not running.
LEMMA ArmedSignal ==
  ASSUME IInv, NEW w \in Workers, Armed(w), Signal(w) \/ Sigterm(w) \/ Crash(w)
  PROVE  Armed(w)'
<1> USE MainFacts
<1>1. CASE SignalExit(w) \/ Crash(w)
  BY <1>1 DEF SignalExit, Crash, Exit, Armed, Renewing, MainType
<1>2. CASE ReleaseGet(w) \/ ReleaseDelete(w) \/ Sigterm(w)
  <2>1. UNCHANGED <<mainVars, lockVars>>
    BY <1>2 DEF ReleaseGet, ReleaseDelete, Sigterm, SignalStep
  <2>2. Owns(w, cur[w])' /\ pc[w] \in Renewing => Owns(w, cur[w])
    <3>1. [Next]_vars
      BY DEF Next
    <3> QED  BY <2>1, <3>1, OwnedBefore DEF MainAt, Renewing, Owns, mainVars
  <2> QED  BY <2>1, <2>2 DEF Armed, mainVars, lockVars
<1> QED  BY <1>1, <1>2 DEF Signal

\* Neither the clock nor another worker disarms w.
LEMMA ArmedOther ==
  ASSUME IInv, [Next]_vars, NEW w \in Workers, Armed(w), Same(w)
  PROVE  Armed(w)'
<1>1. Owns(w, cur[w])' /\ pc[w] \in Renewing => Owns(w, cur[w])
  BY OwnedBefore, MainFacts DEF Same, MainAt, Renewing, Owns
<1> QED  BY <1>1 DEF Armed, Same, Owns

\* Only a lost request can disarm the owner of a running chunk.
ArmedInv == left["net"] <= MaxNet /\ ArmedUnlessFault

\* Every step keeps it.
LEMMA ArmedStep ==
  ASSUME IInv, [Next]_vars, ArmedInv
  PROVE  ArmedInv'
<1>1. left["net"] \in Nat /\ left'["net"] \in Nat /\ MaxNet \in Nat
  BY IInvStep, ConfigAssumption DEF IInv, EnvInv
<1>2. left'["net"] <= MaxNet
  BY <1>1, NetSpent DEF ArmedInv
<1>3. ASSUME left'["net"] = MaxNet, NEW w \in Workers
      PROVE  Armed(w)'
  <2>1. left["net"] = MaxNet
    BY <1>1, <1>3, NetSpent DEF ArmedInv
  <2>2. Armed(w)
    BY <2>1 DEF ArmedInv, ArmedUnlessFault, OwnerStaysArmed, Armed, Renewing
  <2>3. ASSUME NEW v \in Workers, Faulty(v) PROVE FALSE
    <3>1. Spend("net")
      BY <2>3 DEF Faulty, MainFaults, CreateClaimFault, ReadClaimFault, StealClaimFault,
         RenewGetFault, RenewPutFault, RenewCheckFault, FlushFault, MainFault, NotLocksFault,
         TimerFaults, TimerGetFault, TimerPutFault, TimerCheckFault, TimerFault, ReleaseFault
    <3> QED  BY <1>1, <1>3, <2>1, <3>1 DEF Spend, IInv, EnvInv
  <2>4. CASE Same(w)
    BY <2>2, <2>4, ArmedOther
  <2>5. CASE Calm(w)
    BY <2>2, <2>5, ArmedMain, ArmedTimer, ArmedSignal DEF Calm
  <2>6. CASE Tick \/ UNCHANGED vars
    BY <2>2, <2>6, ArmedOther DEF Same, Tick, vars, mainVars, lockVars, timerVars, signalVars
  <2> QED  BY <2>3, <2>4, <2>5, <2>6, StepKinds, OthersLocal
<1> QED  BY <1>2, <1>3 DEF ArmedInv, ArmedUnlessFault, OwnerStaysArmed, Armed, Renewing

\* While a chunk runs and its claim names the runner, the heartbeat renews it and
\* SIGTERM would release it, as long as no request was lost: track_chunk_renewal
\* disarms the right chunk in every interleaving of the three threads.
THEOREM OwnerArmed == Spec => []ArmedUnlessFault
<1>1. Init => ArmedInv
  BY ConfigAssumption DEF Init, ArmedInv, ArmedUnlessFault, OwnerStaysArmed
<1> QED  BY <1>1, ArmedStep, IInvHolds, PTL DEF Spec, ArmedInv

-----------------------------------------------------------------------------
(* A runner holds its lease.                                                *)

Fresh(c) == now <= claim[c].ts + Interval

Live(w) == Executing(w) /\ spc[w] # "exit"

\* What keeps the lease of a runner: its claim was written at most one heartbeat
\* interval ago; the heartbeat sleeps no longer than that interval lasts, or is about
\* to renew this claim; and between the requests of a renewal the claim is the one
\* that was read, or was renewed this second by the other thread.
HasLease(w) ==
  /\ Owns(w, cur[w]) /\ Fresh(cur[w])
  /\ tpc[w] = "sleep" => due[w] <= claim[cur[w]].ts + Interval
  /\ tpc[w] \in {"next", "get", "put", "check"} =>
       \/ claim[cur[w]].ts = now
       \/ cur[w] \in tq[w]
       \/ tpc[w] # "next" /\ tcur[w] = cur[w]
  /\ tpc[w] \in {"put", "check"} /\ tcur[w] = cur[w] =>
       \/ claim[cur[w]].ts = now
       \/ tpc[w] = "put" /\ claim[cur[w]] = ttag[w]
  /\ pc[w] \in {"won", "flush", "rcheck"} => claim[cur[w]].ts = now
  /\ pc[w] = "rput" => claim[cur[w]] = tag[w] \/ claim[cur[w]].ts = now
  /\ pc[w] \in Renewing => cur[w] \in held[w]

\* Around a run: the heartbeat exists, and sleeps at most one interval; a release
\* under way is of a claim that is still this worker's and fresh; what SIGTERM would
\* release is the chunk that runs.
Beating(w) == pc[w] # "off" => tpc[w] # "none"
SleepsAtMost(w) == tpc[w] = "sleep" => due[w] <= now + Interval
Releasing(w) == spc[w] \in {"get", "delete"} => Owns(w, scur[w]) /\ Fresh(scur[w])
InflightRuns(w) ==
  inflight[w] # NoChunk /\ spc[w] # "exit" => pc[w] \in Renewing /\ inflight[w] = cur[w]

LeaseAt(w) ==
  /\ Live(w) => HasLease(w)
  /\ Beating(w) /\ SleepsAtMost(w) /\ Releasing(w) /\ InflightRuns(w)

LeaseInv == left["net"] = 0 /\ \A w \in Workers : LeaseAt(w)

\* The assumptions under which the lease is never lost.
Leased == Prompt /\ Heartbeat /\ MaxNet = 0 /\ TTL > 1

\* The heartbeat beats before a claim expires.
LEMMA IntervalBelowTTL == TTL > 1 => Interval < TTL
BY ConfigAssumption DEF Interval

\* A fresh claim is not stale.
LEMMA FreshNotStealable ==
  ASSUME IInv, Leased, NEW c \in Chunks, claim[c] # NoClaim, Fresh(c)
  PROVE  ~Stealable(now, claim[c])
<1>1. claim[c].ts \in Nat /\ now \in Nat /\ TTL \in Nat /\ Interval \in Nat /\ Interval < TTL
  BY IntervalBelowTTL, IntervalNat, ConfigAssumption DEF IInv, StoreInv, EnvInv, Claim, Leased
<1> QED  BY <1>1 DEF Stealable, claim_is_stale, Fresh

\* The step writes c with this worker's name and the current clock.
Renewed(w, c) == claim'[c] # NoClaim /\ claim'[c].owner = w /\ claim'[c].ts = now

\* A fresh claim is only renewed, by its owner, or released by its owner.
LEMMA FreshStays ==
  ASSUME IInv, LeaseInv, Leased, [Next]_vars, ~Tick,
         NEW w \in Workers, NEW c \in Chunks, Owns(w, c), Fresh(c)
  PROVE  \/ claim'[c] = claim[c]
         \/ Renewed(w, c)
         \/ spc[w] = "delete" /\ spc'[w] = "exit"
<1> USE MainFacts, TimerFacts
<1> USE DEF IInv
<1>1. CASE UNCHANGED claim
  BY <1>1
<1>2. CASE ClaimChange
  <2>1. PICK v \in Workers :
      \/ /\ pc[v] = "create" /\ claim[cur[v]] = NoClaim
         /\ WriteClaim(cur[v], Body(ts[v], v, 0))
      \/ /\ pc[v] = "steal" /\ IfMatch(cur[v], tag[v])
         /\ WriteClaim(cur[v], Body(ts[v], v, 0))
      \/ /\ pc[v] = "rput" /\ IfMatch(cur[v], tag[v])
         /\ WriteClaim(cur[v], Body(ts[v], v, done[v]))
      \/ /\ tpc[v] = "put" /\ IfMatch(tcur[v], ttag[v])
         /\ WriteClaim(tcur[v], Body(tts[v], v, ttag[v].prog))
      \/ /\ spc[v] = "delete" /\ WriteClaim(scur[v], NoClaim)
         /\ spc' = [spc EXCEPT ![v] = "exit"]
    BY <1>2 DEF ClaimChange
  <2>2. CASE pc[v] = "create" /\ claim[cur[v]] = NoClaim /\ WriteClaim(cur[v], Body(ts[v], v, 0))
    BY <2>2 DEF WriteClaim, Owns, StoreInv
  <2>3. CASE pc[v] = "steal" /\ IfMatch(cur[v], tag[v]) /\ WriteClaim(cur[v], Body(ts[v], v, 0))
    <3>1. Stealable(now, claim[cur[v]])
      BY <2>3 DEF MainAt, IfMatch, Leased
    <3>2. cur[v] # c
      BY <3>1, FreshNotStealable DEF Owns
    <3> QED  BY <2>3, <3>2 DEF WriteClaim, StoreInv
  <2>4. CASE pc[v] = "rput" /\ IfMatch(cur[v], tag[v])
             /\ WriteClaim(cur[v], Body(ts[v], v, done[v]))
    <3>1. ts[v] = now /\ Owns(v, cur[v])
      BY <2>4 DEF MainAt, IfMatch, Leased, Owns
    <3> QED  BY <2>4, <3>1, BodyIsClaim DEF WriteClaim, StoreInv, Owns, Renewed
  <2>5. CASE tpc[v] = "put" /\ IfMatch(tcur[v], ttag[v])
             /\ WriteClaim(tcur[v], Body(tts[v], v, ttag[v].prog))
    <3>1. tts[v] = now /\ Owns(v, tcur[v])
      BY <2>5 DEF TimerAt, IfMatch, Leased, Owns
    <3>2. ttag[v] \in Claim
      BY <2>5 DEF TimerAt, TimerType
    <3>3. ttag[v].prog \in Nat
      BY <3>2 DEF Claim
    <3> QED  BY <2>5, <3>1, <3>3, BodyIsClaim DEF WriteClaim, StoreInv, Owns, Renewed
  <2>6. CASE spc[v] = "delete" /\ WriteClaim(scur[v], NoClaim)
             /\ spc' = [spc EXCEPT ![v] = "exit"]
    <3>1. Owns(v, scur[v])
      BY <2>6 DEF LeaseInv, LeaseAt, Releasing
    <3> QED  BY <2>6, <3>1 DEF WriteClaim, StoreInv, Owns, SignalInv
  <2> QED  BY <2>1, <2>2, <2>3, <2>4, <2>5, <2>6
<1> QED  BY <1>1, <1>2, OnlyClaimChanges

\* A step keeps the claims of a worker's run and release, unless it is the release.
LEMMA LeaseKept ==
  ASSUME IInv, LeaseInv, Leased, [Next]_vars, ~Tick, NEW w \in Workers, spc'[w] # "exit"
  PROVE  /\ now' = now /\ now \in Nat /\ Interval \in Nat
         /\ Live(w) => claim'[cur[w]] = claim[cur[w]] \/ Renewed(w, cur[w])
         /\ spc[w] \in {"get", "delete"} =>
              claim'[scur[w]] = claim[scur[w]] \/ Renewed(w, scur[w])
<1> USE MainFacts
<1>1. now' = now /\ now \in Nat /\ Interval \in Nat
  BY SameClock, IntervalNat DEF IInv, EnvInv
<1>2. ASSUME Live(w) PROVE claim'[cur[w]] = claim[cur[w]] \/ Renewed(w, cur[w])
  <2>1. cur[w] \in Chunks
    BY <1>2 DEF Live, Executing, MainAt
  <2>2. Owns(w, cur[w]) /\ Fresh(cur[w])
    BY <1>2 DEF LeaseInv, LeaseAt, HasLease
  <2> QED  BY <2>1, <2>2, FreshStays
<1>3. ASSUME spc[w] \in {"get", "delete"}
      PROVE  claim'[scur[w]] = claim[scur[w]] \/ Renewed(w, scur[w])
  <2>1. scur[w] \in Chunks /\ Owns(w, scur[w]) /\ Fresh(scur[w])
    BY <1>3 DEF LeaseInv, LeaseAt, Releasing, IInv, SignalInv
  <2> QED  BY <2>1, FreshStays
<1> QED  BY <1>1, <1>2, <1>3

\* The part of one worker, as a whole and taken apart.
LEMMA LeaseFacts ==
  ASSUME IInv, LeaseInv, NEW w \in Workers
  PROVE  /\ Live(w) => HasLease(w)
         /\ Beating(w) /\ SleepsAtMost(w) /\ Releasing(w) /\ InflightRuns(w)
BY DEF LeaseInv, LeaseAt

\* The steps of the other workers.
LEMMA LeaseOther ==
  ASSUME IInv, LeaseInv, Leased, [Next]_vars, ~Tick, NEW w \in Workers, Same(w)
  PROVE  LeaseAt(w)'
<1> USE MainFacts, LeaseFacts
<1>1. CASE spc[w] = "exit"
  BY <1>1, SameClock DEF Same, LeaseAt, Live, Beating, SleepsAtMost, Releasing, InflightRuns
<1>2. CASE spc[w] # "exit"
  <2>1. (Live(w) => HasLease(w))'
    <3> SUFFICES ASSUME Live(w)' PROVE HasLease(w)'
      OBVIOUS
    <3>1. Live(w) /\ HasLease(w) /\ now' = now /\ now \in Nat /\ Interval \in Nat
      BY <1>2, LeaseKept DEF Same, Live, Executing
    <3>2. CASE claim'[cur[w]] = claim[cur[w]]
      BY <3>1, <3>2 DEF Same, HasLease, Owns, Fresh
    <3>3. CASE Renewed(w, cur[w])
      <4>1. tpc[w] = "sleep" => due[w] <= now + Interval
        BY DEF SleepsAtMost
      <4> QED  BY <3>1, <3>3, <4>1 DEF Same, HasLease, Owns, Fresh, Renewed
    <3> QED  BY <1>2, <3>1, <3>2, <3>3, LeaseKept DEF Same
  <2>2. Releasing(w)'
    <3>1. scur'[w] = scur[w] /\ spc'[w] = spc[w] /\ spc'[w] # "exit"
      BY <1>2 DEF Same
    <3> QED  BY <3>1, LeaseKept DEF Releasing, Owns, Fresh, Renewed
  <2>3. (Beating(w) /\ SleepsAtMost(w) /\ InflightRuns(w))'
    BY SameClock DEF Same, Beating, SleepsAtMost, InflightRuns
  <2> QED  BY <2>1, <2>2, <2>3 DEF LeaseAt
<1> QED  BY <1>1, <1>2

\* Time passes only between requests, and before the next heartbeat is due.
LEMMA LeaseTick ==
  ASSUME IInv, LeaseInv, Leased, Tick, NEW w \in Workers
  PROVE  LeaseAt(w)'
<1> USE MainFacts, LeaseFacts
<1>1. Quiet(w) /\ now' = now + 1 /\ now \in Nat /\ Interval \in Nat
  BY IntervalNat DEF Tick, Leased
<1>2. /\ UNCHANGED <<claim, pc, cur, ts, tag, held, inflight, tpc, tq, tcur, ttag, due, spc, scur>>
      /\ due[w] \in Nat
  BY DEF Tick, storeVars, mainVars, lockVars, timerVars, signalVars, TimerInv, TimerType
<1>3. (Live(w) => HasLease(w))'
  <2> SUFFICES ASSUME Live(w)' PROVE HasLease(w)'
    OBVIOUS
  <2>1. pc[w] = "run" /\ HasLease(w) /\ tpc[w] = "sleep" /\ now < due[w]
    BY <1>1, <1>2 DEF Live, Executing, Quiet, Beating
  <2>2. cur[w] \in Chunks
    BY <2>1 DEF MainAt
  <2>3. claim[cur[w]].ts \in Nat
    BY <2>1, <2>2 DEF HasLease, Owns, StoreInv, Claim
  <2> QED  BY <1>1, <1>2, <2>1, <2>3 DEF HasLease, Owns, Fresh
<1>4. (Beating(w) /\ SleepsAtMost(w) /\ Releasing(w) /\ InflightRuns(w))'
  BY <1>1, <1>2 DEF Beating, SleepsAtMost, Releasing, InflightRuns, Quiet
<1> QED  BY <1>3, <1>4 DEF LeaseAt

\* A process that ends runs nothing.
LEMMA LeaseExit ==
  ASSUME IInv, NEW w \in Workers, Exit(w)
  PROVE  LeaseAt(w)'
BY MainFacts DEF Exit, LeaseAt, Live, Executing, Beating, SleepsAtMost, Releasing, InflightRuns,
   MainType, LockInv, TimerInv, TimerType, SignalInv

\* A step that leaves the heartbeat and the process's exit alone keeps what surrounds a run.
LEMMA LeaseAround ==
  ASSUME IInv, LeaseInv, Leased, [Next]_vars, ~Tick, NEW w \in Workers, pc[w] # "off",
         UNCHANGED <<timerVars, signalVars>>
  PROVE  (Beating(w) /\ SleepsAtMost(w) /\ Releasing(w))'
<1> USE MainFacts, LeaseFacts
<1>1. (Beating(w) /\ SleepsAtMost(w))'
  BY SameClock DEF Beating, SleepsAtMost, timerVars
<1>2. Releasing(w)'
  BY LeaseKept DEF Releasing, Owns, Fresh, Renewed, signalVars
<1> QED  BY <1>1, <1>2

\* Steps that end outside a run leave inflight empty.
LEMMA LeaseIdle ==
  ASSUME IInv, LeaseInv, Leased, NEW w \in Workers,
         StartPass(w) \/ EndPass(w) \/ (\E c \in Chunks : PickChunk(w, c))
           \/ ReadClaim(w) \/ Flush(w)
  PROVE  LeaseAt(w)'
<1> USE MainFacts, LeaseFacts
<1>0. [Next]_vars /\ ~Tick
  <2>1. [Next]_vars
    BY DEF Next, Main
  <2>2. UNCHANGED now
    BY DEF StartPass, EndPass, PickChunk, ReadClaim, Flush, MainOnly, envVars
  <2> QED  BY <2>1, <2>2 DEF Tick
<1>1. CASE StartPass(w)
  BY <1>1, IntervalNat DEF StartPass, LeaseAt, Live, Executing, Beating, SleepsAtMost,
     Releasing, InflightRuns, Leased, MainType, TimerInv, TimerType, lockVars, storeVars,
     signalVars, envVars, Owns, Fresh, Renewing
<1>2. CASE Exit(w)
  BY <1>2, LeaseExit
<1>3. CASE (\E c \in Chunks : PickChunk(w, c)) \/ ReadClaim(w)
  <2>1. /\ UNCHANGED <<timerVars, signalVars, lockVars>>
        /\ pc[w] \in {"pick", "read"} /\ pc'[w] \in {"create", "steal", "pick"}
    BY <1>3 DEF PickChunk, ReadClaim, MainOnly, GiveUp, MainType
  <2> QED  BY <1>0, <2>1, LeaseAround
           DEF LeaseAt, Live, Executing, InflightRuns, lockVars, signalVars, Renewing
<1>4. CASE Flush(w) /\ ~Exit(w)
  <2>1. /\ UNCHANGED <<timerVars, signalVars, lockVars>>
        /\ pc[w] = "flush" /\ pc'[w] = "pick"
    BY <1>4 DEF Flush, ChunkDone, MainType
  <2> QED  BY <1>0, <2>1, LeaseAround
           DEF LeaseAt, Live, Executing, InflightRuns, lockVars, signalVars, Renewing
<1> QED  BY <1>1, <1>2, <1>3, <1>4 DEF EndPass

\* A claim is won with the current clock.
LEMMA LeaseWon ==
  ASSUME IInv, LeaseInv, Leased, NEW w \in Workers, CreateClaim(w) \/ StealClaim(w)
  PROVE  LeaseAt(w)'
<1> USE MainFacts, LeaseFacts
<1>1. [Next]_vars /\ ~Tick /\ now' = now
  <2>1. UNCHANGED now
    BY DEF CreateClaim, StealClaim, MainOnly, envVars
  <2> QED  BY <2>1 DEF Next, Main, Tick
<1>2. /\ UNCHANGED <<timerVars, signalVars, lockVars>> /\ pc[w] \in {"create", "steal"}
      /\ cur[w] \in Chunks /\ ts[w] = now
  BY DEF CreateClaim, StealClaim, MainOnly, MainAt, Leased
<1>3. (Beating(w) /\ SleepsAtMost(w) /\ Releasing(w))'
  BY <1>1, <1>2, LeaseAround
<1>4. InflightRuns(w)'
  BY <1>2 DEF InflightRuns, Renewing, lockVars, signalVars
<1>5. CASE Win(w) /\ WriteClaim(cur[w], Body(ts[w], w, 0))
  <2>1. cur' = cur /\ pc'[w] = "won"
    BY <1>5 DEF Win, MainType
  <2>2. Renewed(w, cur[w])
    BY <1>2, <1>5, BodyIsClaim DEF WriteClaim, StoreInv, Renewed
  <2>3. HasLease(w)'
    BY <1>1, <1>2, <2>1, <2>2, IntervalNat
       DEF HasLease, Owns, Fresh, Renewed, timerVars, SleepsAtMost, Renewing
  <2> QED  BY <1>3, <1>4, <2>3 DEF LeaseAt
<1>6. CASE pc'[w] \in {"read", "pick"}
  BY <1>3, <1>4, <1>6 DEF LeaseAt, Live, Executing
<1> QED  BY <1>5, <1>6 DEF CreateClaim, StealClaim, Goto, GiveUp, MainType

\* The chunk is recorded, and a cell completes.
LEMMA LeaseRun ==
  ASSUME IInv, LeaseInv, Leased, NEW w \in Workers, RecordClaim(w) \/ CompleteCell(w)
  PROVE  LeaseAt(w)'
<1> USE MainFacts, LeaseFacts
<1>1. [Next]_vars /\ ~Tick /\ now' = now
  <2>1. UNCHANGED now
    BY DEF RecordClaim, CompleteCell, MainOnly, envVars
  <2> QED  BY <2>1 DEF Next, Main, Tick
<1>2. /\ UNCHANGED <<timerVars, signalVars, claim, cur, tag>> /\ pc[w] \in {"won", "run"}
      /\ pc'[w] \in {"run", "rget"} /\ cur[w] \in Chunks
  BY DEF RecordClaim, CompleteCell, MainOnly, MainAt, MainType, Goto, storeVars
<1>3. (Beating(w) /\ SleepsAtMost(w) /\ Releasing(w))'
  BY <1>1, <1>2, LeaseAround
<1>4. InflightRuns(w)' /\ (spc[w] # "exit" => cur[w] \in held'[w])
  <2>1. CASE RecordClaim(w)
    BY <1>2, <2>1 DEF RecordClaim, InflightRuns, LockInv, Renewing
  <2>2. CASE CompleteCell(w)
    BY <1>2, <2>2 DEF CompleteCell, MainOnly, lockVars, InflightRuns, Renewing, signalVars,
       HasLease, Live, Executing
  <2> QED  BY <2>1, <2>2
<1>5. (Live(w) => HasLease(w))'
  BY <1>1, <1>2, <1>4 DEF Live, Executing, HasLease, Owns, Fresh, timerVars, signalVars, Renewing
<1> QED  BY <1>3, <1>4, <1>5 DEF LeaseAt

\* A progress renewal: it reads, writes and at most once re-reads the claim, which
\* stays this worker's in between.
LEMMA LeaseRenew ==
  ASSUME IInv, LeaseInv, Leased, NEW w \in Workers,
         RenewGet(w) \/ RenewPut(w) \/ RenewCheck(w)
  PROVE  LeaseAt(w)'
<1> USE MainFacts, LeaseFacts
<1>1. [Next]_vars /\ ~Tick /\ now' = now
  <2>1. UNCHANGED now
    BY DEF RenewGet, RenewPut, RenewCheck, NotLocks, envVars
  <2> QED  BY <2>1 DEF Next, Main, Tick
<1>2. /\ UNCHANGED <<timerVars, signalVars, cur>> /\ pc[w] \in {"rget", "rput", "rcheck"}
      /\ cur[w] \in Chunks /\ pc'[w] \in {"rput", "rcheck", "run", "flush"} /\ ts[w] = now
  BY DEF RenewGet, RenewPut, RenewCheck, Renewal, NotLocks, MainAt, MainType, Goto, Leased
<1>3. (Beating(w) /\ SleepsAtMost(w) /\ Releasing(w))'
  BY <1>1, <1>2, LeaseAround
<1>4. CASE spc[w] = "exit"
  BY <1>2, <1>3, <1>4 DEF LeaseAt, Live, InflightRuns, signalVars
<1>5. CASE spc[w] # "exit"
  <2>1. Live(w) /\ HasLease(w) /\ Owns(w, cur[w]) /\ spc'[w] # "exit"
    BY <1>2, <1>5 DEF Live, Executing, HasLease, signalVars
  <2>2. CASE UNCHANGED <<claim, lockVars>> /\ pc'[w] \in {"rput", "rcheck"}
    <3>1. /\ pc'[w] = "rput" => claim[cur[w]] = tag'[w]
          /\ pc'[w] = "rcheck" => claim[cur[w]].ts = now
      BY <2>1, <2>2 DEF RenewGet, RenewPut, RenewCheck, Renewal, MainType, Goto, IfMatch, HasLease
    <3>2. (Live(w) => HasLease(w))'
      BY <1>1, <1>2, <2>1, <2>2, <3>1
         DEF HasLease, Owns, Fresh, timerVars, lockVars, Renewing
    <3>3. InflightRuns(w)'
      BY <1>2, <2>2 DEF InflightRuns, lockVars, signalVars, Renewing
    <3> QED  BY <1>3, <3>2, <3>3 DEF LeaseAt
  <2>3. CASE Renewal(w, TRUE)
    <3>1. claim'[cur[w]].ts = now /\ Owns(w, cur[w])' /\ Fresh(cur[w])'
      <4>1. CASE RenewPut(w) /\ WriteClaim(cur[w], Body(ts[w], w, done[w]))
        BY <1>1, <1>2, <4>1, BodyIsClaim, IntervalNat
           DEF WriteClaim, StoreInv, Owns, Fresh
      <4>2. CASE RenewCheck(w)
        BY <1>1, <1>2, <2>1, <4>2 DEF RenewCheck, storeVars, HasLease, Owns, Fresh
      <4>3. CASE RenewGet(w)
        BY <2>1, <2>3, <4>3 DEF RenewGet, Renewal, MainType
      <4> QED  BY <2>3, <4>1, <4>2, <4>3 DEF RenewPut, Renewal, Goto, MainType
    <3>2. /\ pc'[w] \in {"run", "flush"}
          /\ pc'[w] = "run" => UNCHANGED lockVars
          /\ pc'[w] = "flush" => inflight'[w] = IF inflight[w] = cur[w] THEN NoChunk ELSE inflight[w]
      BY <1>2, <2>3 DEF Renewal, track_chunk_renewal, LockInv, MainType
    <3>3. (Live(w) => HasLease(w))'
      BY <1>1, <1>2, <1>3, <2>1, <3>1, <3>2
         DEF HasLease, Owns, Fresh, timerVars, lockVars, Renewing, SleepsAtMost
    <3>4. InflightRuns(w)'
      BY <1>2, <1>5, <3>2 DEF InflightRuns, lockVars, Renewing
    <3> QED  BY <1>3, <3>3, <3>4 DEF LeaseAt
  <2> QED  BY <2>1, <2>2, <2>3 DEF RenewGet, RenewPut, RenewCheck, storeVars, Goto, MainType
<1> QED  BY <1>4, <1>5

\* The heartbeat wakes with the running chunk in its queue, and takes the chunks of the
\* queue one by one.
LEMMA LeaseWake ==
  ASSUME IInv, LeaseInv, Leased, NEW w \in Workers,
         TimerWake(w) \/ \E c \in Chunks : TimerNext(w, c)
  PROVE  LeaseAt(w)'
<1> USE MainFacts, LeaseFacts
<1>1. /\ UNCHANGED <<claim, now, pc, cur, tag, held, inflight, spc, scur>>
      /\ now \in Nat /\ Interval \in Nat
  BY IntervalNat DEF TimerWake, TimerNext, TimerOnly, storeVars, envVars, mainVars, lockVars,
     signalVars
<1>2. (Releasing(w) /\ InflightRuns(w))'
  BY <1>1 DEF Releasing, InflightRuns, Owns, Fresh
<1>3. CASE TimerWake(w)
  <2>1. /\ tpc[w] = "sleep" /\ tq'[w] = held[w]
        /\ \/ held[w] # {} /\ tpc'[w] = "next"
           \/ held[w] = {} /\ tpc'[w] = "sleep" /\ due'[w] = now + Interval
    BY <1>3 DEF TimerWake, AfterBeat, TimerInv, TimerType
  <2>2. (Beating(w) /\ SleepsAtMost(w))'
    BY <1>1, <2>1 DEF Beating, SleepsAtMost
  <2>3. (Live(w) => HasLease(w))'
    BY <1>1, <2>1 DEF Live, Executing, HasLease, Owns, Fresh, Renewing
  <2> QED  BY <1>2, <2>2, <2>3 DEF LeaseAt
<1>4. CASE \E c \in Chunks : TimerNext(w, c)
  <2>1. PICK c \in Chunks : TimerNext(w, c)
    BY <1>4
  <2>2. tpc[w] = "next" /\ tpc'[w] = "get" /\ tq'[w] = tq[w] \ {c} /\ tcur'[w] = c
    BY <2>1 DEF TimerNext, TimerInv, TimerType
  <2>3. (Beating(w) /\ SleepsAtMost(w))'
    BY <1>1, <2>2 DEF Beating, SleepsAtMost
  <2>4. (Live(w) => HasLease(w))'
    BY <1>1, <2>2 DEF Live, Executing, HasLease, Owns, Fresh
  <2> QED  BY <1>2, <2>3, <2>4 DEF LeaseAt
<1> QED  BY <1>3, <1>4

\* A renewal by the heartbeat ends: of another chunk, or with the claim of the running
\* chunk written this second.
LEMMA LeaseBeat ==
  ASSUME IInv, LeaseInv, Leased, [Next]_vars, ~Tick, NEW w \in Workers, NEW r \in BOOLEAN,
         Beat(w, r), UNCHANGED <<mainVars, signalVars>>, tpc[w] \in {"get", "put", "check"},
         ~r => ~Owns(w, tcur[w]),
         r => (tcur[w] = cur[w] /\ Live(w) => claim'[cur[w]].ts = now)
  PROVE  LeaseAt(w)'
<1> USE MainFacts, TimerFacts, LeaseFacts
<1>1. /\ now' = now /\ now \in Nat /\ Interval \in Nat /\ tcur[w] \in Chunks
      /\ UNCHANGED <<pc, cur, tag, spc, scur, tq>>
  BY SameClock, IntervalNat DEF mainVars, signalVars, Beat, TimerAt
<1>2. \/ tq[w] # {} /\ tpc'[w] = "next"
      \/ tq[w] = {} /\ tpc'[w] = "sleep" /\ due'[w] = now + Interval
  BY DEF Beat, AfterBeat, TimerInv, TimerType
<1>3. (Beating(w) /\ SleepsAtMost(w))'
  BY <1>1, <1>2 DEF Beating, SleepsAtMost
<1>4. CASE spc[w] = "exit"
  BY <1>1, <1>3, <1>4 DEF LeaseAt, Live, Releasing, InflightRuns
<1>5. CASE spc[w] # "exit"
  <2>1. Releasing(w)'
    BY <1>1, <1>5, LeaseKept DEF Releasing, Owns, Fresh, Renewed
  <2>2. Live(w) => r \/ tcur[w] # cur[w]
    BY <1>5 DEF HasLease
  <2>3. (Live(w) => HasLease(w))'
    <3> SUFFICES ASSUME Live(w) PROVE HasLease(w)'
      BY <1>1 DEF Live, Executing
    <3>1. HasLease(w) /\ cur[w] \in Chunks
      BY DEF Live, Executing, MainAt
    <3>2. pc[w] \in Renewing => cur[w] \in held'[w]
      BY <1>1, <2>2, <3>1 DEF Beat, track_chunk_renewal, LockInv, lockVars, HasLease
    <3>3. claim'[cur[w]] = claim[cur[w]] \/ Renewed(w, cur[w])
      BY <1>1, <1>5, LeaseKept
    <3>4. claim'[cur[w]].ts = now \/ cur[w] \in tq[w]
      BY <2>2, <3>1, <3>3 DEF HasLease, Renewed
    <3> QED  BY <1>1, <1>2, <3>1, <3>2, <3>3, <3>4 DEF HasLease, Owns, Fresh, Renewed
  <2>4. InflightRuns(w)'
    <3> SUFFICES ASSUME inflight'[w] # NoChunk PROVE pc[w] \in Renewing /\ inflight'[w] = cur[w]
      BY <1>1 DEF InflightRuns
    <3>1. inflight'[w] = inflight[w]
      BY DEF Beat, track_chunk_renewal, LockInv, lockVars
    <3> QED  BY <1>5, <3>1 DEF InflightRuns
  <2> QED  BY <1>3, <2>1, <2>3, <2>4 DEF LeaseAt
<1> QED  BY <1>4, <1>5

\* The heartbeat's requests.
LEMMA LeaseTimer ==
  ASSUME IInv, LeaseInv, Leased, NEW w \in Workers, TimerGet(w) \/ TimerPut(w) \/ TimerCheck(w)
  PROVE  LeaseAt(w)'
<1> USE MainFacts, TimerFacts, LeaseFacts
<1>1. [Next]_vars /\ ~Tick /\ now' = now
  <2>1. UNCHANGED now
    BY DEF TimerGet, TimerPut, TimerCheck, TimerOnly, envVars
  <2> QED  BY <2>1 DEF Next, Timer, Tick
<1>2. /\ UNCHANGED <<mainVars, signalVars>> /\ tpc[w] \in {"get", "put", "check"}
      /\ tcur[w] \in Chunks /\ tts[w] = now
  BY DEF TimerGet, TimerPut, TimerCheck, TimerOnly, TimerAt, Leased
<1>3. CASE Beat(w, FALSE) /\ ~Owns(w, tcur[w])
  BY <1>1, <1>2, <1>3, LeaseBeat
<1>4. CASE TimerPut(w) /\ WriteClaim(tcur[w], Body(tts[w], w, ttag[w].prog)) /\ Beat(w, TRUE)
  <2>1. ttag[w] \in Claim
    BY <1>4 DEF TimerPut, TimerAt, TimerInv, TimerType
  <2>2. ttag[w].prog \in Nat
    BY <2>1 DEF Claim
  <2>3. claim'[tcur[w]].ts = now
    BY <1>2, <1>4, <2>2, BodyIsClaim DEF WriteClaim, StoreInv
  <2> QED  BY <1>1, <1>2, <1>4, <2>3, LeaseBeat
<1>5. CASE TimerCheck(w) /\ Beat(w, TRUE)
  <2>1. UNCHANGED claim /\ tpc[w] = "check"
    BY <1>5 DEF TimerCheck, storeVars
  <2>2. tcur[w] = cur[w] /\ Live(w) => claim'[cur[w]].ts = now
    BY <2>1 DEF HasLease
  <2> QED  BY <1>1, <1>2, <1>5, <2>2, LeaseBeat
<1>6. CASE /\ UNCHANGED <<claim, tq, tcur, due, lockVars>>
           /\ \/ tpc[w] = "get" /\ tpc'[w] = "put" /\ ttag'[w] = claim[tcur[w]]
              \/ tpc[w] = "put" /\ tpc'[w] = "check" /\ claim[tcur[w]] # ttag[w]
  BY <1>1, <1>2, <1>6 DEF LeaseAt, Live, Executing, HasLease, Owns, Fresh, Beating, SleepsAtMost,
     Releasing, InflightRuns, mainVars, signalVars, lockVars
<1> QED
  <2>1. CASE TimerGet(w)
    BY <2>1, <1>3, <1>6 DEF TimerGet, storeVars, TimerInv, TimerType
  <2>2. CASE TimerPut(w)
    BY <2>2, <1>4, <1>6 DEF TimerPut, TimerCheckNext, IfMatch, storeVars, TimerInv, TimerType
  <2>3. CASE TimerCheck(w)
    <3>1. CASE Owns(w, tcur[w])
      BY <2>3, <3>1, <1>5 DEF TimerCheck, Beat, track_chunk_renewal
    <3>2. CASE ~Owns(w, tcur[w])
      BY <2>3, <3>2, <1>3 DEF TimerCheck, Beat, track_chunk_renewal
    <3> QED  BY <3>1, <3>2
  <2> QED  BY <2>1, <2>2, <2>3

\* SIGTERM takes the running chunk, whose claim is this worker's; the release deletes
\* it; the process exits, or is killed.
LEMMA LeaseSignal ==
  ASSUME IInv, LeaseInv, Leased, NEW w \in Workers,
         Signal(w) \/ Sigterm(w) \/ Crash(w)
  PROVE  LeaseAt(w)'
<1> USE MainFacts, LeaseFacts
<1>1. CASE SignalExit(w) \/ Crash(w)
  BY <1>1, LeaseExit DEF SignalExit, Crash
<1>2. CASE Sigterm(w)
  <2>1. /\ UNCHANGED <<claim, now, pc, cur, tag, held, inflight, tpc, tq, tcur, ttag, due>>
        /\ spc[w] = "armed" /\ scur'[w] = inflight[w]
        /\ spc'[w] = IF inflight[w] = NoChunk THEN "exit" ELSE "get"
    BY <1>2 DEF Sigterm, SignalStep, Spend, storeVars, mainVars, lockVars, timerVars, SignalInv
  <2>2. (Live(w) => HasLease(w))'
    BY <2>1 DEF Live, Executing, HasLease, Owns, Fresh
  <2>3. Releasing(w)'
    BY <2>1 DEF Releasing, InflightRuns, Live, Executing, Renewing, HasLease, Owns, Fresh
  <2>4. (Beating(w) /\ SleepsAtMost(w) /\ InflightRuns(w))'
    BY <2>1 DEF Beating, SleepsAtMost, InflightRuns
  <2> QED  BY <2>2, <2>3, <2>4 DEF LeaseAt
<1>3. CASE ReleaseGet(w) \/ ReleaseDelete(w)
  <2>1. /\ UNCHANGED <<now, pc, cur, tag, held, inflight, tpc, tq, tcur, ttag, due, scur>>
        /\ \/ spc[w] = "get" /\ spc'[w] = "delete" /\ UNCHANGED claim
           \/ spc'[w] = "exit"
    BY <1>3 DEF ReleaseGet, ReleaseDelete, SignalStep, storeVars, envVars, mainVars, lockVars,
       timerVars, SignalInv
  <2> QED  BY <2>1 DEF LeaseAt, Live, Executing, HasLease, Owns, Fresh, Beating, SleepsAtMost,
              Releasing, InflightRuns
<1> QED  BY <1>1, <1>2, <1>3 DEF Signal

\* Without lost requests no step is one of a lost request.
LEMMA LeaseNoFault ==
  ASSUME IInv, LeaseInv, NEW w \in Workers
  PROVE  ~Faulty(w)
<1> SUFFICES ASSUME Faulty(w) PROVE FALSE
  OBVIOUS
<1>1. Spend("net")
  BY DEF Faulty, MainFaults, CreateClaimFault, ReadClaimFault, StealClaimFault,
     RenewGetFault, RenewPutFault, RenewCheckFault, FlushFault, MainFault, NotLocksFault,
     TimerFaults, TimerGetFault, TimerPutFault, TimerCheckFault, TimerFault, ReleaseFault
<1> QED  BY <1>1 DEF Spend, LeaseInv

\* Every step keeps the lease.
LEMMA LeaseStep ==
  ASSUME IInv, LeaseInv, Leased, [Next]_vars
  PROVE  LeaseInv'
<1>1. left'["net"] = 0
  <2>1. left["net"] = 0 /\ left'["net"] \in Nat /\ left'["net"] <= left["net"]
    BY IInvStep, NetSpent DEF IInv, EnvInv, LeaseInv
  <2> QED  BY <2>1
<1>2. ASSUME NEW w \in Workers PROVE LeaseAt(w)'
  <2>1. CASE Tick
    BY <2>1, LeaseTick
  <2>2. ASSUME NEW v \in Workers, Calm(v), ~Tick PROVE LeaseAt(w)'
    <3>1. CASE v = w
      BY <2>2, <3>1, LeaseIdle, LeaseWon, LeaseRun, LeaseRenew, LeaseWake, LeaseTimer, LeaseSignal
         DEF Calm, Main, Timer
    <3>2. CASE v # w
      BY <2>2, <3>2, OthersLocal, LeaseOther
    <3> QED  BY <3>1, <3>2
  <2>3. CASE UNCHANGED vars /\ ~Tick
    BY <2>3, LeaseOther DEF Same, vars, mainVars, lockVars, timerVars, signalVars
  <2> QED  BY <2>1, <2>2, <2>3, StepKinds, LeaseNoFault
<1> QED  BY <1>1, <1>2 DEF LeaseInv

\* With the heartbeat on, prompt and answered requests, and a TTL above one second, a
\* worker that runs a chunk holds its unexpired claim from the win to the published
\* rows, across power-offs and SIGTERMs of any boxes: nobody else can run that chunk.
THEOREM RunnerKeepsLease ==
  ASSUME Prompt, Heartbeat, MaxNet = 0, TTL > 1
  PROVE  Spec => []RunnerHoldsLease
<1>1. Leased
  BY DEF Leased
<1>2. Init => LeaseInv
  BY DEF Init, LeaseInv, LeaseAt, Live, Executing, Beating, SleepsAtMost, Releasing, InflightRuns,
     Renewing, Leased
<1>3. IInv /\ LeaseInv /\ [Next]_vars => LeaseInv'
  BY <1>1, LeaseStep
<1>4. IInv /\ LeaseInv => RunnerHoldsLease
  <2> SUFFICES ASSUME IInv, LeaseInv, NEW w \in Workers, Live(w)
               PROVE  Owns(w, cur[w]) /\ ~Stealable(now, claim[cur[w]])
    BY DEF RunnerHoldsLease, Live
  <2>1. cur[w] \in Chunks /\ HasLease(w)
    BY MainFacts, LeaseFacts DEF Live, Executing, MainAt
  <2> QED  BY <1>1, <2>1, FreshNotStealable DEF HasLease, Owns
<1> QED  BY <1>2, <1>3, <1>4, IInvHolds, PTL DEF Spec
=============================================================================
