------------------------------ MODULE EpochShard ------------------------------
(***************************************************************************)
(* Epoch-sharded claiming: zenfleet-core/src/epoch.rs and the pass that    *)
(* drives it, run_epoch_sharded and epoch_exec of zenfleet-worker.  The    *)
(* workers that beat in the last epoch share the cells out among           *)
(* themselves by rendezvous hashing, each from its own listing.  A worker  *)
(* runs what it owned in both epochs without a lease, leases what has just *)
(* moved to it, and near the end of the epoch leases what others left.     *)
(*                                                                         *)
(* A pass of a worker that is not in the roster yet uses chunk leases      *)
(* (module ChunkClaim) and is over at once here.  A claim is one step, as  *)
(* ChunkClaim is shown to implement it.                                    *)
(***************************************************************************)
EXTENDS Integers, FiniteSets

CONSTANTS
  Workers,
  Cells,
  Score,      \* weighted hash of a cell and a worker; 0: excluded by weight
  Len,        \* epoch_len_secs
  TTL,        \* ttl_secs of a claim
  Batch,      \* steals leased at a time (64)
  Free,       \* a cell nobody claimed
  Nothing,    \* no cell running, no owner
  FirstNow,   \* the beginning of an epoch
  Instants,   \* bound: the times at which anything happens
  MaxFaults   \* bound: failed listings and heartbeats, killed workers

epoch_index(t) == t \div Len
in_tail(t) == 4 * (t % Len) >= 3 * Len
Epochs == {epoch_index(t) - d : t \in Instants, d \in 0..2}

ASSUME TimesNat ==
  /\ Len \in Nat \ {0} /\ TTL \in Nat \ {0} /\ Instants \subseteq Nat
  /\ FirstNow \in Instants /\ FirstNow % Len = 0
  /\ \A t \in Instants : FirstNow <= t /\ epoch_index(t) >= 2
ASSUME ScoresNat == Score \in [Cells -> [Workers -> Nat]]
\* Ties go to the greater worker id: scores that differ stand for both.
ASSUME ScoresDiffer ==
  \A c \in Cells : \A u, v \in Workers : u # v /\ Score[c][u] = Score[c][v] => Score[c][u] = 0
ASSUME Apart == Nothing \notin Workers /\ Free \notin [holder : Workers, last_renew : Instants]
ASSUME FaultsNat == MaxFaults \in Nat

VARIABLES
  now,      \* wall clock
  hb,       \* workers with a heartbeat object, per epoch
  lease,    \* claim object of a cell, or Free (module Lease)
  done,     \* cells with a Done row
  phase,    \* where a worker is in its pass
  start,    \* cfg.now of its pass
  shard,    \* its gap, then what it may run and how
  ask, go,  \* cells it is leasing, cells it is going to run
  run,      \* the cell it runs, how, and the stamp of its lease
  late,     \* epochs that gained a heartbeat once they were over
  faults

local == <<phase, start, shard, ask, go, run>>
vars == <<now, hb, lease, done, local, late, faults>>

-----------------------------------------------------------------------------
(* epoch.rs *)

Weighing(roster, c) == {w \in roster : Score[c][w] > 0}

\* hrw_owner_weighted: the highest score of the roster's members with a weight.
Owner(roster, c) ==
  IF Weighing(roster, c) = {} THEN Nothing
  ELSE CHOOSE w \in Weighing(roster, c) : \A v \in Weighing(roster, c) : Score[c][w] >= Score[c][v]

Decision__now(roster, prev, me, c) == IF Owner(roster, c) = me THEN "fast" ELSE "other"
\* shard_decision_weighted: an empty previous roster is an unknown one.
Decision(roster, prev, me, c) ==
  IF Owner(roster, c) # me THEN "other"
  ELSE IF prev = roster \/ (prev # {} /\ Owner(prev, c) = me) THEN "fast"
  ELSE "guarded"

\* partition_epoch, of the cells the worker's view has not done.
Partition(roster, prev, me, gap) ==
  LET Those(d) == {c \in gap : Decision(roster, prev, me, c) = d}
  IN  [fast |-> Those("fast"), guarded |-> Those("guarded"),
       others |-> {c \in Those("other") : Score[c][me] > 0}]

-----------------------------------------------------------------------------
(* One pass of a worker. *)

NoShard == [fast |-> {}, guarded |-> {}, others |-> {}]
Idle == [cell |-> Nothing, how |-> "none", stamp |-> 0, since |-> 0]

\* Anybody may have been alive in the two epochs before the first.
Init ==
  /\ now = FirstNow
  /\ hb \in [Epochs -> SUBSET Workers]
  /\ \A e \in Epochs : e + 2 \notin {epoch_index(FirstNow), epoch_index(FirstNow) + 1} => hb[e] = {}
  /\ lease = [c \in Cells |-> Free] /\ done = {}
  /\ phase = [w \in Workers |-> "off"] /\ start = [w \in Workers |-> 0]
  /\ shard = [w \in Workers |-> NoShard]
  /\ ask = [w \in Workers |-> {}] /\ go = [w \in Workers |-> {}]
  /\ run = [w \in Workers |-> Idle] /\ late = {} /\ faults = 0

MyEpoch(w) == epoch_index(start[w])
EpochOpen(w) == epoch_index(now) = MyEpoch(w)
AtRest__asked(w) == ask[w] = {} /\ run[w] = Idle
AtRest(w) == ask[w] = {} /\ go[w] = {} /\ run[w] = Idle

Set(f, w, v) == [f EXCEPT ![w] = v]

\* A pass reads its clock and the ledger.  A worker begins one at each instant.
Begin(w) ==
  /\ phase[w] = "off" /\ start[w] < now /\ done # Cells
  /\ start' = Set(start, w, now)
  /\ shard' = Set(shard, w, [NoShard EXCEPT !.others = Cells \ done])
  /\ phase' = Set(phase, w, "begun")
  /\ UNCHANGED <<now, hb, lease, done, ask, go, run, late, faults>>

\* The heartbeat for the pass's epoch lands, perhaps late, or fails.
Beat(w) ==
  /\ phase[w] = "begun" /\ phase' = Set(phase, w, "beaten")
  /\ \/ /\ hb' = [hb EXCEPT ![MyEpoch(w)] = @ \cup {w}]
        /\ late' = IF EpochOpen(w) \/ hb' = hb THEN late ELSE late \cup {MyEpoch(w)}
        /\ UNCHANGED faults
     \/ faults < MaxFaults /\ faults' = faults + 1 /\ UNCHANGED <<hb, late>>
  /\ UNCHANGED <<now, lease, done, start, shard, ask, go, run>>

EndPass(w) ==
  /\ phase' = Set(phase, w, "off") /\ shard' = Set(shard, w, NoShard) /\ UNCHANGED start

\* The two rosters, each from one listing; a listing that fails counts as empty.
List(w) ==
  /\ phase[w] = "beaten"
  /\ \E roster \in {hb[MyEpoch(w) - 1], {}}, prev \in {hb[MyEpoch(w) - 2], {}} :
       LET failed == (IF roster = hb[MyEpoch(w) - 1] THEN 0 ELSE 1)
                       + (IF prev = hb[MyEpoch(w) - 2] THEN 0 ELSE 1)
           parts == Partition(roster, prev, w, shard[w].others)
       IN  /\ faults + failed <= MaxFaults /\ faults' = faults + failed
           /\ IF w \in roster
              THEN /\ phase' = Set(phase, w, "fast") /\ shard' = Set(shard, w, [parts EXCEPT !.fast = {}])
                   /\ go' = Set(go, w, parts.fast) /\ UNCHANGED start
              ELSE EndPass(w) /\ UNCHANGED go
  /\ UNCHANGED <<now, hb, lease, done, ask, run, late>>

\* The executor's gate before each chunk: beat when it is time to, go on while
\* the epoch lasts.  Once it is over the rest of the phase is skipped.
Start(w) ==
  /\ run[w] = Idle /\ ask[w] = {} /\ go[w] # {}
  /\ hb' \in {hb, [hb EXCEPT ![epoch_index(now)] = @ \cup {w}]}
  /\ IF EpochOpen(w)
     THEN \E c \in go[w] :
            /\ run' = Set(run, w, [cell |-> c, how |-> IF phase[w] = "fast" THEN "free" ELSE "leased",
                                   stamp |-> start[w], since |-> epoch_index(now)])
            /\ go' = Set(go, w, go[w] \ {c})
     ELSE go' = Set(go, w, {}) /\ UNCHANGED run
  /\ UNCHANGED <<now, lease, done, phase, start, shard, ask, late, faults>>

\* The cell's row is written, Done or Failed.
Finish(w) ==
  /\ run[w] # Idle
  /\ run' = Set(run, w, Idle) /\ done' \in {done, done \cup {run[w].cell}}
  /\ UNCHANGED <<now, hb, lease, phase, start, shard, ask, go, late, faults>>

\* Phase 2: the cells that moved here, while the epoch lasts.
Seam(w) ==
  /\ phase[w] = "fast" /\ AtRest(w)
  /\ phase' = Set(phase, w, "seam")
  /\ ask' = Set(ask, w, IF EpochOpen(w) THEN shard[w].guarded ELSE {})
  /\ shard' = Set(shard, w, [shard[w] EXCEPT !.guarded = {}])
  /\ UNCHANGED <<now, hb, lease, done, start, go, run, late, faults>>

Stale__early(l, t) == t + 1 >= l.last_renew + TTL
Stale(l, t) == t >= l.last_renew + TTL

\* claim_cell, with the time the pass began: create the claim or steal a stale one.
Claim(w, c) ==
  /\ lease[c] # Free => Stale(lease[c], start[w])
  /\ lease' = [lease EXCEPT ![c] = [holder |-> w, last_renew |-> start[w]]]

Ask(w) ==
  /\ \E c \in ask[w] :
       /\ ask' = Set(ask, w, ask[w] \ {c})
       /\ \/ Claim(w, c) /\ go' = Set(go, w, go[w] \cup {c})
          \/ lease[c] # Free /\ ~Stale(lease[c], start[w]) /\ UNCHANGED <<lease, go>>
  /\ UNCHANGED <<now, hb, done, phase, start, shard, run, late, faults>>

\* steal_order: by the worker's own score, the best Batch first.
Favourites(w, cells) ==
  {c \in cells : Cardinality({d \in cells : Score[d][w] > Score[c][w]}) < Batch}

\* Phase 3: in the tail of the epoch, lease the next of the others' cells.
Steal(w) ==
  /\ phase[w] \in {"seam", "tail"} /\ AtRest(w)
  /\ EpochOpen(w) /\ in_tail(now) /\ shard[w].others # {}
  /\ LET next == Favourites(w, shard[w].others)
     IN  /\ ask' = Set(ask, w, next)
         /\ shard' = Set(shard, w, [shard[w] EXCEPT !.others = @ \ next])
  /\ phase' = Set(phase, w, "tail")
  /\ UNCHANGED <<now, hb, lease, done, start, go, run, late, faults>>

Leave(w) ==
  /\ phase[w] \in {"seam", "tail"} /\ AtRest(w)
  /\ ~EpochOpen(w) \/ shard[w].others = {}
  /\ EndPass(w)
  /\ UNCHANGED <<now, hb, lease, done, ask, go, run, late, faults>>

\* The worker is killed, its cell with it.  It may come back under its name.
Crash(w) ==
  /\ phase[w] # "off" /\ faults < MaxFaults /\ faults' = faults + 1
  /\ EndPass(w)
  /\ ask' = Set(ask, w, {}) /\ go' = Set(go, w, {}) /\ run' = Set(run, w, Idle)
  /\ UNCHANGED <<now, hb, lease, done, late>>

\* Time passes.  A heartbeat lands, and a cell ends, before the epoch after its
\* own is over ("keep it at least twice the chunk wall target").
Tick ==
  /\ now' \in {u \in Instants : u > now /\ \A t \in Instants : t > now => u <= t}
  /\ \A w \in Workers :
       /\ phase[w] = "begun" => epoch_index(now') <= MyEpoch(w) + 1
       /\ run[w] # Idle => epoch_index(now') <= run[w].since + 1
  /\ UNCHANGED <<hb, lease, done, local, late, faults>>

Step(w) ==
  \/ Begin(w) \/ Beat(w) \/ List(w) \/ Start(w) \/ Finish(w)
  \/ Seam(w) \/ Ask(w) \/ Steal(w) \/ Leave(w) \/ Crash(w)

Next == Tick \/ \E w \in Workers : Step(w)

Spec == Init /\ [][Next]_vars

-----------------------------------------------------------------------------
(* Properties. *)

\* Every variable has its type, and a worker leases and runs only in its pass.
TypeOK ==
  /\ now \in Instants /\ hb \in [Epochs -> SUBSET Workers] /\ done \subseteq Cells
  /\ \A c \in Cells : lease[c] = Free \/
       lease[c] \in [holder : Workers, last_renew : Instants]
  /\ phase \in [Workers -> {"off", "begun", "beaten", "fast", "seam", "tail"}]
  /\ start \in [Workers -> {0} \cup Instants]
  /\ shard \in [Workers -> [fast : SUBSET Cells, guarded : SUBSET Cells, others : SUBSET Cells]]
  /\ ask \in [Workers -> SUBSET Cells] /\ go \in [Workers -> SUBSET Cells]
  /\ \A w \in Workers :
       /\ run[w] = Idle \/ run[w] \in [cell : Cells, how : {"free", "leased"},
                                       stamp : Instants, since : Epochs]
       /\ phase[w] \in {"off", "begun", "beaten"} => ask[w] \cup go[w] = {} /\ run[w] = Idle
  /\ late \subseteq Epochs /\ faults \in 0..MaxFaults

Both(w, v, how) ==
  w # v /\ run[w].cell = run[v].cell /\ run[w].how = how /\ run[v].how = how

\* Two workers run one cell at once without leases only across a boundary, and
\* only if the older one's roster had not settled: a heartbeat reached it once
\* its epoch was over.  Within an epoch never, whatever each of them listed: the
\* previous roster, settled by then, tells them apart
\* (epoch.rs shard_decision_weighted).
FreeRunsApart ==
  \A w, v \in Workers :
    Both(w, v, "free") /\ run[w].stamp <= run[v].stamp =>
      /\ epoch_index(run[v].stamp) = epoch_index(run[w].stamp) + 1
      /\ epoch_index(run[w].stamp) - 1 \in late

\* Two leased runs of one cell at once come from passes that began a TTL apart:
\* a lease taken in the seam or the tail keeps every other seam and tail away
\* until then (lib.rs epoch_exec, claim_cell).
LeasedRunsApart ==
  \A w, v \in Workers :
    Both(w, v, "leased") => run[w].stamp >= run[v].stamp + TTL \/ run[v].stamp >= run[w].stamp + TTL

\* The cells' claims behave as leases, whoever shares a cell with whom: one is
\* created where there is none and taken over only when the pass that asks began a
\* TTL after it was written, at a time of the past and never of the future
\* (claim_cell, lease.rs).
Leases == INSTANCE Lease WITH Keys <- Cells, Holders <- Workers, NoLease <- Free
ImplementsLease == Leases!Spec
=============================================================================
