------------------------- MODULE EpochShardProofs -------------------------
(***************************************************************************)
(* For every set of workers and cells, every hash and every clock: two     *)
(* workers run one cell at once without leases only across an epoch        *)
(* boundary and only after a late heartbeat.  The argument is that the     *)
(* roster of two epochs ago can no longer change, and that the roster of   *)
(* the last one is as the worker listed it unless it is marked late; so a  *)
(* worker's lease-free cells are those it owns in both rosters as they are *)
(* now, and nobody else can own them in the older one.                     *)
(* Two leased runs of one cell come from passes that began a TTL apart: a  *)
(* pass that holds a cell either owns its claim as it took it, or the      *)
(* claim was taken over by a pass that began a TTL later.                  *)
(***************************************************************************)
EXTENDS EpochShard, TLAPS

Shapes ==
  /\ now \in Instants /\ hb \in [Epochs -> SUBSET Workers]
  /\ start \in [Workers -> Nat] /\ DOMAIN phase = Workers
  /\ DOMAIN ask = Workers /\ DOMAIN go = Workers /\ DOMAIN run = Workers

\* A pass began in the past, and a heartbeat under way is at most an epoch late.
PassTimes ==
  \A w \in Workers :
    /\ phase[w] # "off" => start[w] \in Instants /\ start[w] <= now
    /\ phase[w] = "begun" => epoch_index(now) <= MyEpoch(w) + 1

\* A cell runs for the pass that started it, in its epoch or the next; nothing is
\* leased before the lease-free cells are over.
RunTimes ==
  \A w \in Workers :
    /\ phase[w] \in {"off", "begun", "beaten"} => run[w] = Idle /\ go[w] = {}
    /\ phase[w] \in {"off", "begun", "beaten", "fast"} => ask[w] = {}
    /\ run[w] # Idle =>
         /\ run[w].stamp = start[w] /\ run[w].since = MyEpoch(w)
         /\ epoch_index(now) <= run[w].since + 1
    /\ run[w].how = "free" => phase[w] = "fast"

\* A cell is w's in both rosters of its pass, as they are now.
Mine(w, c) ==
  /\ Owner(hb[MyEpoch(w) - 2], c) = w
  /\ Owner(hb[MyEpoch(w) - 1], c) = w \/ MyEpoch(w) - 1 \in late

FreeCells(w) == go[w] \cup (IF run[w].how = "free" THEN {run[w].cell} ELSE {})
FreeOwned == \A w \in Workers : phase[w] = "fast" => \A c \in FreeCells(w) : Mine(w, c)

IInv == Shapes /\ PassTimes /\ RunTimes /\ FreeOwned

\* Rounding down to an epoch keeps the order of times (epoch_index).
LEMMA EpochOrder ==
  ASSUME NEW t \in Nat, NEW u \in Nat
  PROVE  /\ epoch_index(t) \in Int
         /\ t <= u => epoch_index(t) <= epoch_index(u)
  BY TimesNat, SMTT(30) DEF epoch_index

\* The epochs of a pass and its two rosters' are known ones.
LEMMA EpochsKnown ==
  ASSUME NEW t \in Instants
  PROVE  /\ t \in Nat /\ epoch_index(t) \in Int
         /\ epoch_index(t) \in Epochs
         /\ epoch_index(t) - 1 \in Epochs /\ epoch_index(t) - 2 \in Epochs
<1>1. t \in Nat  BY TimesNat
<1>2. epoch_index(t) \in Int  BY <1>1, EpochOrder
<1>3. epoch_index(t) = epoch_index(t) - 0  BY <1>2
<1>4. \A d \in 0..2 : epoch_index(t) - d \in Epochs  BY DEF Epochs
<1> QED  BY <1>1, <1>2, <1>3, <1>4

\* The initial states satisfy every part.
LEMMA InitIInv == Init => IInv
  BY TimesNat DEF Init, IInv, Shapes, PassTimes, RunTimes, FreeOwned, Idle

\* What a pass of w reads stays as it was: the cells it may run are still its own.
LEMMA KeepMine ==
  ASSUME IInv, NEW w \in Workers, NEW c, Mine(w, c),
         MyEpoch(w)' = MyEpoch(w), late \subseteq late',
         hb'[MyEpoch(w) - 2] = hb[MyEpoch(w) - 2],
         hb'[MyEpoch(w) - 1] = hb[MyEpoch(w) - 1] \/ MyEpoch(w) - 1 \in late'
  PROVE  Mine(w, c)'
  BY DEF Mine, Owner, Weighing

\* Steps that touch neither the clock nor a heartbeat and give nobody a cell to
\* run without a lease.
LEMMA KeepOwned ==
  ASSUME IInv, UNCHANGED <<now, hb, late>>,
         \A w \in Workers : phase'[w] = "fast" =>
           /\ phase[w] = "fast" /\ start'[w] = start[w]
           /\ FreeCells(w)' \subseteq FreeCells(w)
  PROVE  FreeOwned'
<1> SUFFICES ASSUME NEW w \in Workers, phase'[w] = "fast", NEW c \in FreeCells(w)'
             PROVE  Mine(w, c)'
  BY DEF FreeOwned
<1>1. Mine(w, c)  BY DEF IInv, FreeOwned
<1>2. MyEpoch(w)' = MyEpoch(w)  BY DEF MyEpoch
<1> QED  BY <1>1, <1>2, KeepMine

\* A pass begins: its worker has nothing to run yet (Begin).
LEMMA BeginIInv == ASSUME IInv, NEW w \in Workers, Begin(w) PROVE IInv'
<1> USE DEF IInv
<1>1. now \in Nat /\ epoch_index(now) \in Int  BY EpochsKnown DEF Shapes
<1>2. Shapes'  BY <1>1 DEF Begin, Shapes, Set
<1>3. PassTimes'  BY <1>1 DEF Begin, PassTimes, Shapes, Set, MyEpoch
<1>4. RunTimes'  BY DEF Begin, RunTimes, Shapes, Set, MyEpoch, Idle
<1>5. FreeOwned'
  <2>1. \A v \in Workers : phase'[v] = "fast" =>
           phase[v] = "fast" /\ start'[v] = start[v] /\ FreeCells(v)' \subseteq FreeCells(v)
    BY DEF Begin, Shapes, Set, FreeCells
  <2> QED  BY <2>1, KeepOwned DEF Begin
<1> QED  BY <1>2, <1>3, <1>4, <1>5

\* Where a pass stands in time: its epoch is over or now's, its rosters' are known.
LEMMA PassEpoch ==
  ASSUME IInv, NEW w \in Workers, phase[w] # "off"
  PROVE  /\ epoch_index(now) \in Int /\ epoch_index(now) \in Epochs /\ MyEpoch(w) \in Int
         /\ MyEpoch(w) <= epoch_index(now)
         /\ {MyEpoch(w), MyEpoch(w) - 1, MyEpoch(w) - 2} \subseteq Epochs
  BY EpochsKnown, EpochOrder DEF IInv, Shapes, PassTimes, MyEpoch

\* A heartbeat reaches a roster somebody has listed only if it is marked late,
\* and never one of two epochs ago (Beat).
LEMMA BeatIInv == ASSUME IInv, NEW w \in Workers, Beat(w) PROVE IInv'
<1> USE DEF IInv
<1>1. Shapes'
  BY DEF Beat, Shapes, Set
<1>2. PassTimes'  BY DEF Beat, PassTimes, Shapes, Set, MyEpoch
<1>3. RunTimes'  BY DEF Beat, RunTimes, Shapes, Set, MyEpoch
<1>4. FreeOwned'
  <2> SUFFICES ASSUME NEW v \in Workers, phase'[v] = "fast", NEW c \in FreeCells(v)'
               PROVE  Mine(v, c)'
    BY DEF FreeOwned
  <2>1. phase[v] = "fast" /\ v # w  BY DEF Beat, Set, Shapes
  <2>2. Mine(v, c)  BY <2>1 DEF Beat, FreeOwned, FreeCells
  <2>3. MyEpoch(v)' = MyEpoch(v)  BY DEF Beat, MyEpoch
  <2>4. MyEpoch(v) \in Int /\ MyEpoch(w) \in Int /\ epoch_index(now) \in Int
        /\ MyEpoch(v) <= epoch_index(now) /\ epoch_index(now) <= MyEpoch(w) + 1
    BY <2>1, PassEpoch DEF Beat, PassTimes
  <2>5. MyEpoch(w) # MyEpoch(v) - 2  BY <2>4
  <2>6. hb' = hb \/ hb' = [hb EXCEPT ![MyEpoch(w)] = @ \cup {w}]  BY DEF Beat
  <2>7. hb'[MyEpoch(v) - 2] = hb[MyEpoch(v) - 2]
    BY <2>1, <2>4, <2>5, <2>6, PassEpoch DEF Shapes
  <2>8. hb'[MyEpoch(v) - 1] = hb[MyEpoch(v) - 1] \/ MyEpoch(v) - 1 \in late'
    <3>1. CASE MyEpoch(w) # MyEpoch(v) - 1
      BY <3>1, <2>1, <2>4, <2>6, PassEpoch DEF Shapes
    <3>2. CASE MyEpoch(w) = MyEpoch(v) - 1
      BY <3>2, <2>4 DEF Beat, EpochOpen
    <3> QED  BY <3>1, <3>2
  <2>9. late \subseteq late'  BY DEF Beat
  <2> QED  BY <2>2, <2>3, <2>7, <2>8, <2>9, KeepMine
<1> QED  BY <1>1, <1>2, <1>3, <1>4

\* What the partition runs without a lease is the worker's own in both rosters:
\* a failed listing leaves it nothing (List, shard_decision_weighted).
LEMMA ListIInv == ASSUME IInv, NEW w \in Workers, List(w) PROVE IInv'
<1> USE DEF IInv
<1>1. Shapes'  BY DEF List, Shapes, Set, EndPass
<1>2. PassTimes'  BY DEF List, PassTimes, Shapes, Set, MyEpoch, EndPass
<1>3. RunTimes'  BY DEF List, RunTimes, Shapes, Set, MyEpoch, EndPass, Idle
<1>4. FreeOwned'
  <2> SUFFICES ASSUME NEW v \in Workers, phase'[v] = "fast", NEW c \in FreeCells(v)'
               PROVE  Mine(v, c)'
    BY DEF FreeOwned
  <2>1. MyEpoch(v)' = MyEpoch(v)  BY DEF List, EndPass, MyEpoch
  <2>2. UNCHANGED <<hb, late>>  BY DEF List
  <2>3. Mine(v, c)
    <3>1. CASE v # w
      <4>1. phase[v] = "fast" /\ c \in FreeCells(v)
        BY <3>1 DEF List, EndPass, Set, Shapes, FreeCells
      <4> QED  BY <4>1 DEF FreeOwned
    <3>2. CASE v = w
      <4>1. PICK roster \in {hb[MyEpoch(w) - 1], {}}, prev \in {hb[MyEpoch(w) - 2], {}} :
              /\ w \in roster
              /\ go' = Set(go, w, Partition(roster, prev, w, shard[w].others).fast)
        BY <3>2 DEF List, EndPass, Set, Shapes
      <4>2. c \in go'[w]  BY <3>2 DEF FreeCells, RunTimes, List, Idle
      <4>3. Decision(roster, prev, w, c) = "fast"
        BY <4>1, <4>2 DEF Partition, Set, Shapes
      <4>4. Owner(roster, c) = w /\ prev # {} /\ Owner(prev, c) = w
        BY <4>1, <4>3 DEF Decision
      <4> QED  BY <3>2, <4>1, <4>4 DEF Mine
    <3> QED  BY <3>1, <3>2
  <2> QED  BY <2>1, <2>2, <2>3, KeepMine
<1> QED  BY <1>1, <1>2, <1>3, <1>4

\* A cell starts in its pass's own epoch; the gate's heartbeat is for the present
\* one, which nobody has listed (Start).
LEMMA StartIInv == ASSUME IInv, NEW w \in Workers, Start(w) PROVE IInv'
<1> USE DEF IInv
<1>0. now \in Nat /\ epoch_index(now) \in Int /\ epoch_index(now) \in Epochs
  BY EpochsKnown DEF Shapes
<1>1. Shapes'  BY <1>0 DEF Start, Shapes, Set
<1>2. PassTimes'  BY DEF Start, PassTimes, Shapes, MyEpoch
<1>3. phase[w] \notin {"off", "begun", "beaten"}
  BY DEF Start, RunTimes
<1>4. RunTimes'  BY <1>0, <1>3 DEF Start, RunTimes, Shapes, Set, MyEpoch, EpochOpen
<1>5. FreeOwned'
  <2> SUFFICES ASSUME NEW v \in Workers, phase'[v] = "fast", NEW c \in FreeCells(v)'
               PROVE  Mine(v, c)'
    BY DEF FreeOwned
  <2>1. phase[v] = "fast"  BY DEF Start
  <2>2. c \in FreeCells(v)  BY <2>1 DEF Start, FreeCells, Set, Shapes
  <2>3. Mine(v, c)  BY <2>1, <2>2 DEF FreeOwned
  <2>4. MyEpoch(v)' = MyEpoch(v) /\ late' = late  BY DEF Start, MyEpoch
  <2>5. MyEpoch(v) \in Int /\ MyEpoch(v) <= epoch_index(now)  BY <2>1, PassEpoch
  <2>6. hb'[MyEpoch(v) - 1] = hb[MyEpoch(v) - 1] /\ hb'[MyEpoch(v) - 2] = hb[MyEpoch(v) - 2]
    BY <1>0, <2>1, <2>5, PassEpoch DEF Start, Shapes
  <2> QED  BY <2>3, <2>4, <2>6, KeepMine
<1> QED  BY <1>1, <1>2, <1>4, <1>5

\* The other steps of a worker: only fewer cells are left to run without a lease.
LEMMA RestIInv ==
  ASSUME IInv, NEW w \in Workers,
         Finish(w) \/ Seam(w) \/ Ask(w) \/ Steal(w) \/ Leave(w) \/ Crash(w)
  PROVE  IInv'
<1> USE DEF IInv
<1>1. Shapes'  BY DEF Shapes, Finish, Seam, Ask, Steal, Leave, Crash, Set, EndPass
<1>2. PassTimes'
  BY DEF PassTimes, Shapes, Finish, Seam, Ask, Steal, Leave, Crash, Set, EndPass, MyEpoch
<1>3. RunTimes'
  BY DEF RunTimes, Shapes, Finish, Seam, Ask, Steal, Leave, Crash, Set, EndPass, MyEpoch, AtRest, Idle
<1>4. FreeOwned'
  <2>1. \A v \in Workers : phase'[v] = "fast" =>
          phase[v] = "fast" /\ start'[v] = start[v] /\ FreeCells(v)' \subseteq FreeCells(v)
    BY DEF Shapes, RunTimes, Finish, Seam, Ask, Steal, Leave, Crash, Set, EndPass, FreeCells, Idle
  <2>2. UNCHANGED <<now, hb, late>>  BY DEF Finish, Seam, Ask, Steal, Leave, Crash
  <2> QED  BY <2>1, <2>2, KeepOwned
<1> QED  BY <1>1, <1>2, <1>3, <1>4

\* Time passes no further than a heartbeat and a running cell allow (Tick).
LEMMA TickIInv == ASSUME IInv, Tick PROVE IInv'
<1> USE DEF IInv
<1>1. Shapes'  BY DEF Tick, Shapes, local
<1>2. PassTimes'
  <2>1. now \in Nat /\ now' \in Nat /\ now <= now' /\ UNCHANGED <<phase, start>>
    BY EpochsKnown DEF Tick, Shapes, local
  <2>2. start \in [Workers -> Nat]  BY DEF Shapes
  <2> QED  BY <2>1, <2>2 DEF Tick, PassTimes, MyEpoch
<1>3. RunTimes'  BY DEF Tick, RunTimes, MyEpoch, local
<1>4. FreeOwned'
  BY DEF Tick, FreeOwned, FreeCells, Mine, MyEpoch, local
<1> QED  BY <1>1, <1>2, <1>3, <1>4

\* A step that changes nothing.
LEMMA StutterIInv == ASSUME IInv, UNCHANGED vars PROVE IInv'
  BY DEF IInv, Shapes, PassTimes, RunTimes, FreeOwned, FreeCells, Mine, MyEpoch, vars, local

\* Every step keeps the invariant.
LEMMA NextIInv == ASSUME IInv, [Next]_vars PROVE IInv'
<1>1. CASE Tick  BY <1>1, TickIInv
<1>2. ASSUME NEW w \in Workers, Step(w) PROVE IInv'
  BY <1>2, BeginIInv, BeatIInv, ListIInv, StartIInv, RestIInv DEF Step
<1>3. CASE UNCHANGED vars  BY <1>3, StutterIInv
<1> QED  BY <1>1, <1>2, <1>3 DEF Next

\* The invariant says it: the older roster of a pass has one owner for the cell.
LEMMA ApartFromIInv == ASSUME IInv PROVE FreeRunsApart
<1> SUFFICES ASSUME NEW w \in Workers, NEW v \in Workers,
                    Both(w, v, "free"), run[w].stamp <= run[v].stamp
             PROVE  /\ epoch_index(run[v].stamp) = epoch_index(run[w].stamp) + 1
                    /\ epoch_index(run[w].stamp) - 1 \in late
  BY DEF FreeRunsApart
<1> DEFINE c == run[w].cell
<1>1. w # v /\ run[v].cell = c /\ run[w].how = "free" /\ run[v].how = "free"  BY DEF Both
<1>2. run[w] # Idle /\ run[v] # Idle  BY <1>1 DEF Idle
<1>3. phase[w] = "fast" /\ phase[v] = "fast"  BY <1>1 DEF IInv, RunTimes
<1>4. Mine(w, c) /\ Mine(v, c)  BY <1>1, <1>3 DEF IInv, FreeOwned, FreeCells
<1>5. /\ epoch_index(run[w].stamp) = MyEpoch(w) /\ epoch_index(run[v].stamp) = MyEpoch(v)
      /\ run[w].stamp = start[w] /\ run[v].stamp = start[v]
      /\ epoch_index(now) <= MyEpoch(w) + 1
  BY <1>2 DEF IInv, RunTimes, MyEpoch
<1>6. MyEpoch(w) \in Int /\ MyEpoch(v) \in Int /\ epoch_index(now) \in Int
      /\ MyEpoch(v) <= epoch_index(now)
  BY <1>3, PassEpoch
<1>7. MyEpoch(w) <= MyEpoch(v)
  BY <1>5, EpochOrder DEF IInv, Shapes, MyEpoch
<1>8. MyEpoch(v) # MyEpoch(w)  BY <1>1, <1>4 DEF Mine
<1>9. MyEpoch(v) = MyEpoch(w) + 1  BY <1>5, <1>6, <1>7, <1>8
<1>10. MyEpoch(w) - 1 = MyEpoch(v) - 2  BY <1>6, <1>9
<1>11. MyEpoch(w) - 1 \in late  BY <1>1, <1>4, <1>10 DEF Mine
<1> QED  BY <1>5, <1>9, <1>11

\* For every roster, hash and clock: two workers run one cell at once without
\* leases only across an epoch boundary, after a heartbeat that came late
\* (epoch.rs shard_decision_weighted, lib.rs epoch_exec).
THEOREM LeaseFreeApart == Spec => []FreeRunsApart
<1>1. IInv /\ [Next]_vars => IInv'  BY NextIInv
<1>2. IInv => FreeRunsApart  BY ApartFromIInv
<1> QED  BY InitIInv, <1>1, <1>2, PTL DEF Spec

-----------------------------------------------------------------------------
(* Types.                                                                   *)

\* The cells a pass may run, by how it got them, are cells.
LEMMA PartitionType ==
  ASSUME NEW roster, NEW prev, NEW w \in Workers, NEW gap \in SUBSET Cells
  PROVE  Partition(roster, prev, w, gap)
           \in [fast : SUBSET Cells, guarded : SUBSET Cells, others : SUBSET Cells]
BY DEF Partition

\* Types, one conjunct of the type invariant for each variable.
ShardType ==
  /\ done \subseteq Cells
  /\ shard \in [Workers -> [fast : SUBSET Cells, guarded : SUBSET Cells, others : SUBSET Cells]]
  /\ ask \in [Workers -> SUBSET Cells] /\ go \in [Workers -> SUBSET Cells]

PhaseType ==
  /\ phase \in [Workers -> {"off", "begun", "beaten", "fast", "seam", "tail"}]
  /\ start \in [Workers -> {0} \cup Instants]

LeaseType ==
  /\ DOMAIN lease = Cells
  /\ \A c \in Cells : lease[c] = Free \/ lease[c] \in [holder : Workers, last_renew : Instants]

RunType ==
  \A w \in Workers :
    run[w] = Idle \/ run[w] \in [cell : Cells, how : {"free", "leased"},
                                 stamp : Instants, since : Epochs]

CountType == late \subseteq Epochs /\ faults \in 0..MaxFaults

Types == ShardType /\ PhaseType /\ LeaseType /\ RunType /\ CountType

\* The parts together, with the times of IInv, are the type invariant.
LEMMA TypesGiveTypeOK == IInv /\ Types => TypeOK
BY DEF IInv, Shapes, RunTimes, Types, ShardType, PhaseType, LeaseType, RunType, CountType, TypeOK

\* Initially.
LEMMA InitTypes == Init => Types
BY FaultsNat, TimesNat
   DEF Init, Types, ShardType, PhaseType, LeaseType, RunType, CountType, NoShard

\* No step breaks a type.
LEMMA StepTypes == ASSUME IInv, Types, NEW w \in Workers, Step(w) PROVE Types'
<1> USE DEF IInv, Types
<1>1. now \in Instants /\ (phase[w] # "off" => start[w] \in Instants)
  BY DEF Shapes, PassTimes
<1>2. ShardType'
  <2>1. CASE Begin(w) \/ Beat(w) \/ Start(w) \/ Seam(w) \/ Ask(w) \/ Leave(w) \/ Crash(w)
    BY <2>1 DEF ShardType, Begin, Beat, Start, Seam, Ask, Leave, Crash, EndPass, Set, NoShard
  <2>2. CASE Finish(w)
    BY <2>2 DEF ShardType, Finish, RunType
  <2>3. CASE List(w)
    <3> DEFINE Parts == [fast : SUBSET Cells, guarded : SUBSET Cells, others : SUBSET Cells]
    <3>1. \/ \E p \in Parts : /\ shard' = Set(shard, w, [p EXCEPT !.fast = {}])
                             /\ go' = Set(go, w, p.fast)
          \/ shard' = Set(shard, w, NoShard) /\ UNCHANGED go
      BY <2>3, PartitionType DEF List, EndPass, ShardType
    <3>2. ASSUME NEW p \in Parts
          PROVE  p.fast \subseteq Cells /\ [p EXCEPT !.fast = {}] \in Parts
      OBVIOUS
    <3>3. NoShard \in Parts
      BY DEF NoShard
    <3>4. UNCHANGED <<done, ask>>
      BY <2>3 DEF List
    <3>5. CASE shard' = Set(shard, w, NoShard) /\ UNCHANGED go
      BY <3>3, <3>4, <3>5 DEF ShardType, Set
    <3>6. ASSUME NEW p \in Parts, shard' = Set(shard, w, [p EXCEPT !.fast = {}]),
                 go' = Set(go, w, p.fast)
          PROVE  ShardType'
      <4>1. p.fast \in SUBSET Cells /\ [p EXCEPT !.fast = {}] \in Parts
        BY <3>2
      <4> DEFINE q == [p EXCEPT !.fast = {}]
                 f == p.fast
      <4>2. shard' = Set(shard, w, q) /\ go' = Set(go, w, f) /\ q \in Parts /\ f \in SUBSET Cells
        BY <3>6, <4>1
      <4> HIDE DEF q, f
      <4> QED  BY <3>4, <4>2 DEF ShardType, Set
    <3> QED  BY <3>1, <3>5, <3>6
  <2>4. CASE Steal(w)
    BY <2>4 DEF ShardType, Steal, Set, Favourites
  <2> QED  BY <2>1, <2>2, <2>3, <2>4 DEF Step
<1>3. PhaseType'
  BY <1>1 DEF PhaseType, Step, Begin, Beat, List, Start, Finish, Seam, Ask, Steal, Leave, Crash,
     EndPass, Set
<1>4. LeaseType'
  <2>1. CASE Ask(w)
    <3>1. phase[w] # "off" /\ ask[w] \subseteq Cells
      BY <2>1 DEF Ask, RunTimes, ShardType
    <3> QED  BY <1>1, <2>1, <3>1 DEF LeaseType, Ask, Claim
  <2> QED  BY <2>1 DEF LeaseType, Step, Begin, Beat, List, Start, Finish, Seam, Steal, Leave, Crash
<1>5. RunType'
  <2>1. CASE Start(w)
    <3>1. phase[w] # "off" /\ go[w] \subseteq Cells /\ epoch_index(now) \in Epochs
      BY <2>1, <1>1, EpochsKnown DEF Start, RunTimes, ShardType
    <3>2. run' = run \/ \E c \in go[w] : run' = Set(run, w,
            [cell |-> c, how |-> IF phase[w] = "fast" THEN "free" ELSE "leased",
             stamp |-> start[w], since |-> epoch_index(now)])
      BY <2>1 DEF Start
    <3> QED  BY <1>1, <3>1, <3>2 DEF RunType, Set, Shapes
  <2>2. CASE Finish(w) \/ Crash(w)
    BY <2>2 DEF RunType, Finish, Crash, Set, Shapes
  <2> QED  BY <2>1, <2>2 DEF RunType, Step, Begin, Beat, List, Seam, Ask, Steal, Leave
<1>6. CountType'
  <2>1. CASE Beat(w)
    <3>1. MyEpoch(w) \in Epochs
      BY <1>1, <2>1, EpochsKnown DEF Beat, MyEpoch
    <3> QED  BY <2>1, <3>1, FaultsNat DEF CountType, Beat
  <2>2. CASE List(w)
    BY <2>2, FaultsNat DEF CountType, List
  <2>3. CASE Crash(w)
    BY <2>3, FaultsNat DEF CountType, Crash
  <2> QED  BY <2>1, <2>2, <2>3 DEF CountType, Step, Begin, Start, Finish, Seam, Ask, Steal, Leave
<1> QED  BY <1>2, <1>3, <1>4, <1>5, <1>6

\* The clock and a stutter break none.
LEMMA NextTypes == ASSUME IInv, Types, [Next]_vars PROVE Types'
<1>1. CASE Tick \/ UNCHANGED vars
  BY <1>1 DEF Tick, vars, local, Types, ShardType, PhaseType, LeaseType, RunType, CountType
<1> QED  BY <1>1, StepTypes DEF Next

\* Type correctness of the claims, the heartbeats and every pass.
THEOREM ShardTypeCorrect == Spec => []TypeOK
<1>1. IInv /\ [Next]_vars => IInv'  BY NextIInv
<1>2. IInv /\ Types /\ [Next]_vars => Types'  BY NextTypes
<1> QED  BY InitIInv, InitTypes, TypesGiveTypeOK, <1>1, <1>2, PTL DEF Spec

-----------------------------------------------------------------------------
(* Leased runs.                                                             *)

\* What a pass runs, or is going to run, under a lease.
LeasedCells(w) ==
  (IF phase[w] \in {"seam", "tail"} THEN go[w] ELSE {})
    \cup (IF run[w].how = "leased" THEN {run[w].cell} ELSE {})

\* The lease it took is still there, or was taken over a TTL later.
Holds(w, c) ==
  /\ lease[c] # Free
  /\ \/ lease[c].holder = w /\ lease[c].last_renew = start[w]
     \/ lease[c].last_renew >= start[w] + TTL

\* A pass that holds one cell with another began a TTL before or after it.
FarApart(w, v) == start[w] >= start[v] + TTL \/ start[v] >= start[w] + TTL

LeaseInv ==
  /\ \A w \in Workers : \A c \in LeasedCells(w) : Holds(w, c)
  /\ \A w, v \in Workers :
       w # v => \A c \in LeasedCells(w) \cap LeasedCells(v) : FarApart(w, v)

\* Steps that write no claim and give nobody a cell to run under a lease.
LEMMA KeepLeases ==
  ASSUME LeaseInv, UNCHANGED lease,
         \A w \in Workers : /\ LeasedCells(w)' \subseteq LeasedCells(w)
                            /\ LeasedCells(w)' # {} => start'[w] = start[w]
  PROVE  LeaseInv'
<1>1. \A w \in Workers : \A c \in LeasedCells(w)' : Holds(w, c)'
  BY DEF LeaseInv, Holds
<1>2. ASSUME NEW w \in Workers, NEW v \in Workers, w # v,
             NEW c \in LeasedCells(w)' \cap LeasedCells(v)'
      PROVE  FarApart(w, v)'
  BY <1>2 DEF LeaseInv, FarApart
<1> QED  BY <1>1, <1>2 DEF LeaseInv

\* A lease is taken a TTL after every pass that holds its cell began (Ask, claim_cell).
LEMMA AskLeases ==
  ASSUME IInv, Types, LeaseInv, NEW w \in Workers, Ask(w)
  PROVE  LeaseInv'
<1> USE DEF IInv, Types
<1>1. PICK c \in ask[w] :
    /\ ask' = Set(ask, w, ask[w] \ {c})
    /\ \/ Claim(w, c) /\ go' = Set(go, w, go[w] \cup {c})
       \/ lease[c] # Free /\ ~Stale(lease[c], start[w]) /\ UNCHANGED <<lease, go>>
  BY DEF Ask
<1>2. UNCHANGED <<phase, run, start>>
  BY DEF Ask
<1>3. CASE UNCHANGED <<lease, go>>
  BY <1>2, <1>3, KeepLeases DEF LeasedCells
<1>4. CASE Claim(w, c) /\ go' = Set(go, w, go[w] \cup {c})
  <2>1. c \in Cells /\ start \in [Workers -> Nat] /\ TTL \in Nat \ {0}
    BY TimesNat DEF ShardType, Shapes
  <2>2. \A v \in Workers : LeasedCells(v)' \subseteq LeasedCells(v) \cup (IF v = w THEN {c} ELSE {})
    BY <1>2, <1>4 DEF LeasedCells, Set, ShardType
  <2>3. ASSUME NEW v \in Workers, c \in LeasedCells(v)
        PROVE  start[w] >= start[v] + TTL
    <3>1. Holds(v, c)
      BY <2>3 DEF LeaseInv
    <3>2. lease[c].last_renew \in Nat /\ start[w] >= lease[c].last_renew + TTL
      BY <1>4, <2>1, <3>1, TimesNat DEF Claim, Stale, Holds, LeaseType
    <3> QED  BY <2>1, <3>1, <3>2 DEF Holds
  <2>4. /\ lease'[c] = [holder |-> w, last_renew |-> start[w]] /\ lease'[c] # Free
        /\ \A d \in Cells \ {c} : lease'[d] = lease[d]
    <3>1. start[w] \in Instants
      BY DEF Ask, RunTimes, PassTimes
    <3> QED  BY <1>4, <2>1, <3>1, Apart DEF Claim, LeaseType
  <2>5. ASSUME NEW v \in Workers, NEW d \in LeasedCells(v)'
        PROVE  Holds(v, d)'
    <3>1. CASE d = c
      BY <1>2, <2>1, <2>2, <2>3, <2>4, <2>5, <3>1 DEF Holds
    <3>2. CASE d # c
      <4>1. d \in LeasedCells(v) /\ d \in Cells
        BY <2>2, <2>5, <3>2 DEF LeasedCells, ShardType, RunType, Idle
      <4> QED  BY <1>2, <2>4, <3>2, <4>1 DEF Holds, LeaseInv
    <3> QED  BY <3>1, <3>2
  <2>6. ASSUME NEW u \in Workers, NEW v \in Workers, u # v,
               NEW d \in LeasedCells(u)' \cap LeasedCells(v)'
        PROVE  FarApart(u, v)'
    BY <1>2, <2>2, <2>3, <2>6 DEF LeaseInv, FarApart
  <2> QED  BY <2>5, <2>6 DEF LeaseInv
<1> QED  BY <1>1, <1>3, <1>4

\* The other steps give nobody a cell under a lease: a pass that begins holds nothing,
\* and one that starts a leased cell was going to.
LEMMA RestLeases ==
  ASSUME IInv, Types, LeaseInv, NEW w \in Workers, Step(w), ~Ask(w)
  PROVE  LeaseInv'
<1> USE DEF IInv, Types
<1>1. UNCHANGED lease
  BY DEF Step, Begin, Beat, List, Start, Finish, Seam, Steal, Leave, Crash
<1>2. \A v \in Workers \ {w} :
    phase'[v] = phase[v] /\ go'[v] = go[v] /\ run'[v] = run[v] /\ start'[v] = start[v]
  BY DEF Step, Begin, Beat, List, Start, Finish, Seam, Steal, Leave, Crash, EndPass, Set,
     PhaseType, ShardType, Shapes
<1>3. ASSUME NEW v \in Workers \ {w}
      PROVE  LeasedCells(v)' = LeasedCells(v) /\ start'[v] = start[v]
  BY <1>2 DEF LeasedCells
<1>4. LeasedCells(w)' \subseteq LeasedCells(w)
  <2>1. CASE Begin(w) \/ Beat(w)
    BY <2>1 DEF Begin, Beat, LeasedCells, Set, PhaseType
  <2>2. CASE List(w)
    BY <2>2 DEF List, EndPass, LeasedCells, Set, PhaseType
  <2>3. CASE Start(w)
    <3>1. phase[w] \in {"fast", "seam", "tail"} /\ UNCHANGED phase
      BY <2>3 DEF Start, RunTimes, PhaseType
    <3>2. CASE go' = Set(go, w, {}) /\ UNCHANGED run
      BY <3>1, <3>2 DEF LeasedCells, Set, ShardType
    <3>3. CASE EpochOpen(w)
      <4>1. PICK c \in go[w] :
          /\ run' = Set(run, w, [cell |-> c, how |-> IF phase[w] = "fast" THEN "free" ELSE "leased",
                                  stamp |-> start[w], since |-> epoch_index(now)])
          /\ go' = Set(go, w, go[w] \ {c})
        BY <2>3, <3>3 DEF Start
      <4> QED  BY <3>1, <4>1 DEF LeasedCells, Set, ShardType, Shapes
    <3> QED  BY <2>3, <3>2, <3>3 DEF Start
  <2>4. CASE Finish(w) \/ Crash(w)
    BY <2>4 DEF Finish, Crash, EndPass, LeasedCells, Set, Idle, ShardType, PhaseType, Shapes
  <2>5. CASE Seam(w) \/ Steal(w) \/ Leave(w)
    BY <2>5 DEF Seam, Steal, Leave, AtRest, EndPass, LeasedCells, Set, PhaseType
  <2> QED  BY <2>1, <2>2, <2>3, <2>4, <2>5 DEF Step
<1>5. LeasedCells(w) # {} => start'[w] = start[w]
  <2>1. CASE Begin(w)
    BY <2>1 DEF Begin, LeasedCells, RunTimes, Idle
  <2> QED  BY <2>1 DEF Step, Beat, List, Start, Finish, Seam, Steal, Leave, Crash, EndPass
<1> QED  BY <1>1, <1>3, <1>4, <1>5, KeepLeases

\* Every step keeps the leases apart.
LEMMA NextLeases == ASSUME IInv, Types, LeaseInv, [Next]_vars PROVE LeaseInv'
<1>1. CASE Tick \/ UNCHANGED vars
  <2>1. UNCHANGED <<lease, phase, go, run, start>>
    BY <1>1 DEF Tick, vars, local
  <2> QED  BY <2>1, KeepLeases DEF LeasedCells
<1> QED  BY <1>1, AskLeases, RestLeases DEF Next

\* Two leased runs of one cell at once come from passes that began a TTL apart
\* (lib.rs epoch_exec, claim_cell): for any number of workers, whatever fails, a lease
\* taken in the seam or the tail keeps the other seams and tails away until it expires.
THEOREM LeasedApart == Spec => []LeasedRunsApart
<1>1. IInv /\ [Next]_vars => IInv'  BY NextIInv
<1>2. IInv /\ Types /\ [Next]_vars => Types'  BY NextTypes
<1>3. Init => LeaseInv
  BY DEF Init, LeaseInv, LeasedCells, Idle
<1>4. IInv /\ Types /\ LeaseInv /\ [Next]_vars => LeaseInv'  BY NextLeases
<1>5. IInv /\ LeaseInv => LeasedRunsApart
  <2> SUFFICES ASSUME IInv, LeaseInv, NEW w \in Workers, NEW v \in Workers, Both(w, v, "leased")
               PROVE  run[w].stamp >= run[v].stamp + TTL \/ run[v].stamp >= run[w].stamp + TTL
    BY DEF LeasedRunsApart
  <2>1. run[w].cell \in LeasedCells(w) \cap LeasedCells(v) /\ w # v
    BY DEF Both, LeasedCells
  <2>2. run[w].stamp = start[w] /\ run[v].stamp = start[v]
    BY DEF Both, IInv, RunTimes, Idle
  <2> QED  BY <2>1, <2>2 DEF LeaseInv, FarApart
<1> QED  BY InitIInv, InitTypes, <1>1, <1>2, <1>3, <1>4, <1>5, PTL DEF Spec

-----------------------------------------------------------------------------
(* Claims are leases.                                                       *)

\* A claim taken by a pass is an acquisition or a steal at the time the pass began;
\* no other step touches a claim, and the clock only advances.
LEMMA LeaseStep == ASSUME IInv, Types, [Next]_vars PROVE [Leases!Next]_(Leases!vars)
<1> USE DEF IInv, Types
<1>1. ASSUME NEW w \in Workers, Ask(w) PROVE Leases!Next \/ UNCHANGED <<now, lease>>
  <2>1. PICK c \in ask[w] : Claim(w, c) \/ UNCHANGED lease
    BY <1>1 DEF Ask
  <2>2. c \in Cells /\ start[w] \in 0..now /\ UNCHANGED now
    BY <1>1, TimesNat DEF Ask, RunTimes, PassTimes, Shapes, ShardType
  <2>3. CASE Claim(w, c)
    <3>1. Leases!Acquire(c, w, start[w]) \/ Leases!Steal(c, w, start[w])
      BY <2>2, <2>3 DEF Claim, Stale, Leases!Acquire, Leases!Steal, Leases!Put, Leases!New,
         Leases!CanSteal, Leases!IsExpired
    <3> QED  BY <2>2, <3>1 DEF Leases!Next
  <2> QED  BY <2>1, <2>2, <2>3
<1>2. ASSUME NEW w \in Workers, Step(w), ~Ask(w) PROVE UNCHANGED <<now, lease>>
  BY <1>2 DEF Step, Begin, Beat, List, Start, Finish, Seam, Steal, Leave, Crash
<1>3. CASE Tick
  <2>1. now' \in Nat /\ now' > now /\ UNCHANGED lease
    BY <1>3, TimesNat DEF Tick
  <2> QED  BY <2>1 DEF Leases!Next, Leases!Advance
<1>4. CASE UNCHANGED vars
  BY <1>4 DEF vars, Leases!vars
<1> QED  BY <1>1, <1>2, <1>3, <1>4 DEF Next, Leases!vars

\* The claims of the epoch-sharded passes implement leases (claim_cell, lease.rs), so
\* what is said of leases holds for cells that are shared out by rendezvous.
THEOREM ShardImplementsLease == Spec => ImplementsLease
<1>1. Init => Leases!Init
  BY TimesNat DEF Init, Leases!Init
<1>2. IInv /\ [Next]_vars => IInv'  BY NextIInv
<1>3. IInv /\ Types /\ [Next]_vars => Types'  BY NextTypes
<1>4. IInv /\ Types /\ [Next]_vars => [Leases!Next]_(Leases!vars)  BY LeaseStep
<1> QED  BY InitIInv, InitTypes, <1>1, <1>2, <1>3, <1>4, PTL DEF Spec, ImplementsLease, Leases!Spec
=============================================================================
