----------------------------- MODULE MemoryLoglet -----------------------------
(***************************************************************************)
(* crates/relos-log/src/memory_loglet.rs. Every method takes the RwLock     *)
(* around MemoryLogletInner for its whole body, so a method is one atomic   *)
(* function of the inner record; the module is these functions. The entries *)
(* vector holds Option<Entry>: NoEntry is None, left behind by a trim.      *)
(***************************************************************************)
EXTENDS Integers, Sequences

CONSTANT NoEntry

LOCAL LOG_POS_BEGIN == 1

NewLoglet == [entries |-> <<>>, sealed |-> FALSE, trim_pos |-> LOG_POS_BEGIN]

LogletTail(inner) == Len(inner.entries) + LOG_POS_BEGIN

(* append: Err(Sealed) leaves the loglet alone, Ok is the old tail. *)
LogletAppend(inner, entry) ==
  IF inner.sealed THEN inner ELSE [inner EXCEPT !.entries = Append(@, entry)]

LogletSeal(inner) == [inner EXCEPT !.sealed = TRUE]

ReadTrimmed == [tag |-> "trimmed", entry |-> NoEntry]
ReadNone == [tag |-> "none", entry |-> NoEntry]

LogletRead(inner, pos) ==
  IF pos < inner.trim_pos THEN ReadTrimmed
  ELSE IF pos >= LogletTail(inner) THEN ReadNone
  ELSE [tag |-> "entry", entry |-> inner.entries[pos]]

(* Positions before pos become None; a trim point never moves back. *)
LogletTrim(inner, pos) ==
  IF pos <= inner.trim_pos THEN inner
  ELSE [inner EXCEPT
          !.trim_pos = pos,
          !.entries = [p \in 1..Len(@) |-> IF p < pos THEN NoEntry ELSE @[p]]]
===============================================================================
