----------------------------- MODULE PackChunks -----------------------------
(***************************************************************************)
(* How a worker cuts its gap into chunks, the units of claiming            *)
(* (zenfleet-core/src/schedule.rs).  Jobs are numbered in manifest order.  *)
(* A chunk is the set of its members: its id hashes the members in an      *)
(* order that cost and number decide, so equal sets have equal ids.        *)
(***************************************************************************)
EXTENDS Naturals, FiniteSetsExt

CONSTANTS
  Cost, Mem, Thr,     \* per job: seconds alone, peak memory, threads
  Ram, Cores,         \* per box: BoxBudget
  Target,             \* chunk_wall_sec
  RefConc,            \* FLEET_REF_CONCURRENCY
  Spread, MinCells    \* TAIL_SPREAD, MIN_CHUNK_CELLS

ASSUME CostAssumption ==
  /\ DOMAIN Cost \subseteq Nat
  /\ \A i \in DOMAIN Cost : Cost[i] \in Nat
  /\ {Spread, MinCells} \subseteq Nat \ {0}

\* Longest first, ties in manifest order.
Sooner(a, b) == Cost[a] > Cost[b] \/ (Cost[a] = Cost[b] /\ a < b)

\* The gap, sorted.
lpt_order(gap) ==
  CHOOSE order \in [1..Cardinality(gap) -> gap] :
    \A i, k \in 1..Cardinality(gap) : i < k => Sooner(order[i], order[k])

\* The next job joins the current chunk, which is closed if it is one of the full ones.
Push(acc, i, full) ==
  LET cur == acc.cur \cup {i} IN
  IF cur \in full THEN [closed |-> acc.closed \cup {cur}, cur |-> {}]
  ELSE [closed |-> acc.closed, cur |-> cur]

\* Greedy packing in that order.
PackWhile(gap, full) ==
  LET order == lpt_order(gap)
      packed[n \in 0..Cardinality(gap)] ==
        IF n = 0 THEN [closed |-> {}, cur |-> {}] ELSE Push(packed[n - 1], order[n], full)
      end == packed[Cardinality(gap)]
  IN  (end.closed \cup {end.cur}) \ {{}}

AtLeastOne(n) == Max({1, n})

\* Does the estimated wall time of a chunk reach the target?
WallReached(cur, conc) ==
  MapThenSumSet(LAMBDA i : Cost[i], cur)
    >= Target * AtLeastOne(Min({conc, Cardinality(cur)}))

\* How many jobs of this footprint box w runs at once.
max_concurrent(w, mem, thr) ==
  AtLeastOne(Min({Cores[w] \div thr} \cup (IF mem = 0 THEN {} ELSE {Ram[w] \div mem})))

\* The box's own packing: how wide it runs decides where a chunk ends.
pack_chunks_lpt(w, gap) ==
  PackWhile(gap, {cur \in (SUBSET gap) \ {{}} :
    WallReached(cur, max_concurrent(w, Max({Mem[i] : i \in cur}), Max({Thr[i] : i \in cur})))})

\* No chunk of the fleet's packing holds more jobs than this.
Cap(gap) == Max({Cardinality(gap) \div Spread, MinCells})

\* The fleet's packing: the gap alone decides.
pack_chunks_lpt_uniform(gap) ==
  PackWhile(gap, {cur \in SUBSET gap : WallReached(cur, RefConc) \/ Cardinality(cur) >= Cap(gap)})
=============================================================================
