----------------------------- MODULE MCBaseEngine -----------------------------
(* An engine and its successor on the same store. *)
EXTENDS BaseEngine, TLC

CONSTANTS g1, g2, s1

RestartOnly == (g1 :> s1) @@ (g2 :> s1)
Symmetry == Permutations(Client) \cup Permutations(Entry)
===============================================================================
