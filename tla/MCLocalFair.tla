---------------------------- MODULE MCLocalFair ----------------------------
(* Three jobs on a small box, for checking LocalFair. *)
EXTENDS LocalFair, TLC

CONSTANTS t1, t2, j1, j2, j3

MCThreads == {t1, t2}
MCDims == {"mem", "thr"}
MCBudget == [mem |-> 4, thr |-> 3]

Hint(m, t) == [mem |-> m, thr |-> t]

\* A large job that leaves room for one small one only.
MCManifest == <<j1, j2, j3>>
MCNeed == j1 :> Hint(1, 1) @@ j2 :> Hint(3, 1) @@ j3 :> Hint(2, 2)

\* One job never fails, one breaks for good, one fails for a passing reason.
Done == [status |-> "Done", transient |-> FALSE]
Passing == [status |-> "Failed", transient |-> TRUE]
Broken == [status |-> "Failed", transient |-> FALSE]
MCOutcomes == j1 :> {Done} @@ j2 :> {Done, Broken} @@ j3 :> {Done, Passing}

\* Plenty of memory, or just enough for the largest job alone.
MCLive == {9, 3}
=============================================================================
