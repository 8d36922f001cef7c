---------------------------- MODULE MCJobLedger ----------------------------
(* Model values, tools and symmetry for checking JobLedger. *)
EXTENDS JobLedger, TLC

CONSTANTS w1, w2

MCWorkers == {w1, w2}
NoTools == {}
Repairs == {"compact", "requeue-pardon", "audit-blobs"}
Symmetry == Permutations(MCWorkers)
=============================================================================
