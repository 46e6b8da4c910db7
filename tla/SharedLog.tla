------------------------------ MODULE SharedLog ------------------------------
(***************************************************************************)
(* What the VirtualLog promises above it, whatever loglets it is chained    *)
(* from: one sequence of entries. An append puts its entry at the next      *)
(* position and no step ever changes what is already there.                 *)
(***************************************************************************)
EXTENDS Integers, Sequences

CONSTANT Entry

VARIABLE log

Init == log = <<>>

Extends(e) == log' = Append(log, e)

Next == \E e \in Entry : Extends(e)

Spec == Init /\ [][Next]_log
==============================================================================
