----------------------------- MODULE MCChunkExec -----------------------------
(* A small chunk for checking ChunkExec. *)
EXTENDS ChunkExec, Sequences

CONSTANTS t1, t2, t3, t4

\* Memory (GiB), cores and GPU memory.
MCDims == {"mem", "thr", "vram"}
MCBudget == [mem |-> 5, thr |-> 4, vram |-> 2]

Cell(m, t, v) == [mem |-> m, thr |-> t, vram |-> v]

\* 21 cells, so a stride of 2: light ones, one that needs more than the whole box,
\* one without a memory footprint but with more GPU memory than there is, and at the
\* end one that fills the box.
MCMixed == [c \in 1..12 |-> Cell(1 + (c % 3), 1, 1)]
           \o << Cell(1, 1, 1), Cell(6, 2, 1), Cell(2, 1, 1), Cell(0, 1, 3),
                 Cell(1, 1, 1), Cell(1, 1, 0), Cell(2, 1, 0), Cell(1, 1, 0),
                 Cell(5, 4, 1) >>

MCThreads == {t1, t2, t3, t4}
=============================================================================
