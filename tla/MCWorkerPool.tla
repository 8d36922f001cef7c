---------------------------- MODULE MCWorkerPool ----------------------------
(***************************************************************************)
(* Instances of WorkerPool.  Tasks 1 and 2 have one shape and two          *)
(* references, task 3 another shape; Q: tasks that differ in parameters.   *)
(***************************************************************************)
EXTENDS WorkerPool

PShape == <<"a", "a", "b">>
PRef == <<"r", "s", "r">>
PParams == <<"p", "p", "p">>
QParams == <<"p", "q", "p">>
GpuOffers == <<{"full"}, {"full"}, {"full"}>>
MixedOffers == <<{"full"}, {"full", "cpu"}, {"full"}>>
CachingAll == [shape : {"a", "b"}, backend : {"full", "cpu"}]
G1 == <<"g1">>
G2 == <<"g1", "g2">>
C1 == <<"c1">>
=============================================================================
