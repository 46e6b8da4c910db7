------------------------------ MODULE MemoryStore ------------------------------
(***************************************************************************)
(* crates/relos-store/src/memory.rs: the ordered map of a local store, as a *)
(* function on the keys it holds. A transaction works on a copy of the map  *)
(* (begin_write_txn, begin_read_txn) and commit puts the copy in its place, *)
(* so these are the operations on one copy.                                 *)
(*                                                                          *)
(* Keys are byte strings that the table above builds as {space}/{path} and  *)
(* {space}/{path}/{pk}: a key is kept in its parts, path as the sequence of *)
(* what stands between its slashes. A primary key has no slash in it (it is *)
(* hex digits and zero bytes), so no two such keys are the same bytes.      *)
(***************************************************************************)
EXTENDS Sequences, SequencesExt

CONSTANT None      \* Option::None

Key(space, path, pk) == [space |-> space, path |-> path, pk |-> pk]

EmptyStore == [k \in {} |-> None]

StoreGet(data, key) == IF key \in DOMAIN data THEN data[key] ELSE None

StorePut(data, key, value) ==
  [k \in DOMAIN data \cup {key} |-> IF k = key THEN value ELSE data[k]]

StoreDelete(data, key) == [k \in DOMAIN data \ {key} |-> data[k]]

(* k.starts_with("{space}/{path}/"), for the keys of rows. *)
StartsWithOnly(k, prefix) ==               \* mutant: all that the space holds
  k.space = prefix.space
StartsWith(k, prefix) == k.space = prefix.space /\ IsPrefix(prefix.path, k.path)

(* scan_prefix; the order of the keys is left out. *)
ScanPrefix(data, prefix) == {k \in DOMAIN data : StartsWith(k, prefix)}
================================================================================
