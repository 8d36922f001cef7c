----------------------------- MODULE PoolService -----------------------------
(***************************************************************************)
(* What the streaming pool of zenmetrics-orchestrator promises its caller: *)
(* a handle for every task submitted, one answer to every handle at most,  *)
(* the answer of the handle's own task, in whatever order they are ready;  *)
(* a collected answer does not come a second time (pool.rs submit, poll,   *)
(* poll_any; executor.rs TaskResult).  There are no workers, windows,      *)
(* channels and warm instances here; module WorkerPool has them, and       *)
(* implements this one.                                                    *)
(***************************************************************************)
EXTENDS Naturals, Sequences

CONSTANTS
  Tasks,       \* what can be asked
  Shape, Ref,  \* metric and size of a task, and its reference
  Scores,      \* what a score was computed with
  MaxHandles,  \* bound: handles given out
  None,        \* no score
  Waiting,     \* a handle without an answer yet
  Taken        \* a handle whose answer was collected

VARIABLES
  asked,   \* the task of each handle
  answer   \* of each handle: Waiting, its answer, or Taken

vars == <<asked, answer>>

Init == asked = <<>> /\ answer = <<>>

\* submit; run_all gives out the handles of all its tasks.
Submit(tasks) ==
  /\ Len(asked) + Len(tasks) <= MaxHandles
  /\ asked' = asked \o tasks
  /\ answer' = [h \in 1..(Len(asked) + Len(tasks)) |-> IF h <= Len(asked) THEN answer[h] ELSE Waiting]

\* A score compares the task with its own reference, by its own metric and size.
Own(s, t) == s.ref = Ref[t] /\ s.sig.shape = Shape[t]

Errors == {"construct", "lost", "compute", "oom"}
Failure(h, e) == [handle |-> h, task |-> asked[h], error |-> e, score |-> None]
Success(h, s) == [handle |-> h, task |-> asked[h], error |-> "no", score |-> s]

Finish(h, r) ==
  /\ answer[h] = Waiting
  /\ answer' = [answer EXCEPT ![h] = r]
  /\ UNCHANGED asked

\* poll, poll_any and poll_any_blocking: whose turn it is is not promised.
Collect(h) ==
  /\ answer[h] \notin {Waiting, Taken}
  /\ answer' = [answer EXCEPT ![h] = Taken]
  /\ UNCHANGED asked

Next ==
  \/ \E t \in Tasks : Submit(<<t>>)
  \/ \E t, u \in Tasks : Submit(<<t, u>>)
  \/ \E h \in 1..Len(asked) :
       \/ \E e \in Errors : Finish(h, Failure(h, e))
       \/ \E s \in Scores : Own(s, asked[h]) /\ Finish(h, Success(h, s))
       \/ Collect(h)

Spec == Init /\ [][Next]_vars
=============================================================================
