-------------------------------- MODULE Loglet --------------------------------
(***************************************************************************)
(* What a loglet promises its callers: the contract of the trait in        *)
(* crates/relos-log/src/loglet.rs, stated over acknowledged appends and    *)
(* returned seals only.                                                    *)
(*                                                                         *)
(*   log   the acknowledged appends, a set of [pos, entry] records         *)
(*   tail  the tail the first successful seal returned, 0 before that      *)
(*                                                                         *)
(* An append that was in flight when the loglet was sealed may still be    *)
(* acknowledged afterwards, but only below the tail the seal returned:     *)
(* whoever continues the log from that tail never meets its position.      *)
(***************************************************************************)
EXTENDS Integers

CONSTANTS
  Entry,     \* the entries a client may append
  LastPos    \* the largest position (a bound for TLC)

VARIABLES log, tail

vars == <<log, tail>>

Pos == 1..LastPos

Record == [pos : Pos, entry : Entry]

Init == log = {} /\ tail = 0

(* An append is acknowledged at a position nobody else was given. *)
Append(p, e) ==
  /\ \A r \in log : r.pos # p
  /\ tail = 0 \/ p < tail
  /\ log' = log \cup {[pos |-> p, entry |-> e]}
  /\ UNCHANGED tail

(* The first successful seal fixes the tail above every acknowledged append. *)
Seal(t) ==
  /\ tail = 0
  /\ \A r \in log : r.pos < t
  /\ tail' = t
  /\ UNCHANGED log

Next ==
  \/ \E p \in Pos, e \in Entry : Append(p, e)
  \/ \E t \in 1..(LastPos + 1) : Seal(t)

Spec == Init /\ [][Next]_vars
===============================================================================
