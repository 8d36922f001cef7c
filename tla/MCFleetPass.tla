---------------------------- MODULE MCFleetPass ----------------------------
(* Model values, the fleet's boxes and jobs for checking FleetPass with the *)
(* packing of PackChunks.                                                   *)
EXTENDS FleetPass, PackChunks, TLC

CONSTANTS w1, w2

MCWorkers == {w1, w2}

\* Three jobs; one box runs them one by one, the other two at a time.
ThreeJobs == 1..3
Costs == <<1, 1, 1>>
Mems == <<1, 1, 1>>
Thrs == <<1, 1, 1>>
Rams == (w1 :> 1) @@ (w2 :> 2)
CoreCounts == (w1 :> 2) @@ (w2 :> 2)

\* Two make a chunk and succeed; one fails whenever it is tried.
MCOutcomes == <<{"ok"}, {"ok"}, {"transient"}>>

MCPack == [gap \in SUBSET Jobs |-> pack_chunks_lpt_uniform(gap)]
MCBoxPack == [w \in Workers |-> [gap \in SUBSET Jobs |-> pack_chunks_lpt(w, gap)]]
=============================================================================
