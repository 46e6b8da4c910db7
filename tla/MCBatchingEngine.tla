--------------------------- MODULE MCBatchingEngine ---------------------------
(* A BatchingEngine with a few callers over a log that others append to. *)
EXTENDS BatchingEngine, TLC

Symmetry == Permutations(Client)
===============================================================================
