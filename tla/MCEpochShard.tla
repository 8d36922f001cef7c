---------------------------- MODULE MCEpochShard ----------------------------
(***************************************************************************)
(* An instance of EpochShard: one cell, the favourite of the second of two *)
(* workers.                                                                *)
(***************************************************************************)
EXTENDS EpochShard, TLC

CONSTANTS a, b, x

Two == {a, b}
ScoreOne == x :> (a :> 1 @@ b :> 2)
=============================================================================
