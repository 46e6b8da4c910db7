---------------------------- MODULE MCNativeLoglet ----------------------------
(* Symmetry for the NativeLoglet instances: entries are interchangeable. *)
EXTENDS NativeLoglet, TLC

EntrySymmetry == Permutations(Entry)
===============================================================================
