--------------------------- MODULE MC_BufferPool ----------------------------
(* Model-checking instance of BufferPool.                                  *)
EXTENDS BufferPool, TLC

\* Page ids of the runs, as model values.
CONSTANTS i, a

\* The B-tree of the runs: the root, an inner page i below it and a leaf a
\* below i.
MCParentOf == [c \in Children |-> IF c = a THEN i ELSE RootPage]

ThreadSymmetry == Permutations(Threads)
=============================================================================
