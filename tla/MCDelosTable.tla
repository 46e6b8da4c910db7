----------------------------- MODULE MCDelosTable -----------------------------
(* Table "a", with "b" or with "a/b" beside it. Table a has columns k and v *)
(* with k the key, or with a primary key that is no column, or has column k *)
(* alone, as b has. Some rows fit their table and some do not. The values   *)
(* are a datum and the forms of null.                                       *)
EXTENDS DelosTable, TLC

CONSTANTS d1, r1, r2, c1, c2

Schema(t, type, pk) ==
  [name |-> t, columns |-> <<[name |-> "k", type |-> type], [name |-> "v", type |-> "int64"]>>,
   primary_key |-> <<pk>>]
Narrow(t) ==
  [name |-> t, columns |-> <<[name |-> "k", type |-> "int64"]>>, primary_key |-> <<"k">>]
Create(schema) == [op |-> "create_table", schema |-> schema]
Drop(t) == [op |-> "drop_table", table |-> t]
Put(t, row) == [op |-> "put", table |-> t, row |-> row]
Delete(t, key) == [op |-> "delete", table |-> t, key |-> key]
Get(t, key) == [op |-> "get", table |-> t, key |-> key]
Scan(t) == [op |-> "scan", table |-> t]

a == <<"a">>
b == <<"b">>
ab == <<"a", "b">>

(* Some calls, for the interleavings of two clients. *)
PlainRequests ==
  {Create(Schema(a, "int64", "k")), Create(Schema(a, "int64", "z")), Drop(a),
   Put(a, <<"unset", d1>>), Delete(a, <<"is_null_false">>), Scan(a),
   Create(Missing), Create(Schema(a, "unspecified", "k")), Put(a, Missing),
   Scan(EmptyName)}

(* Others, for longer sequences of the calls of one. *)
ReuseRequests ==
  {Create(Schema(a, "int64", "k")), Create(Narrow(a)), Create(Narrow(b)), Drop(a),
   Put(a, <<"unset", d1>>), Put(b, <<d1>>), Scan(a), Get(a, <<"is_null_true">>)}

TableRequests == PlainRequests \cup ReuseRequests

NestedRequests ==
  {Create(Schema(ab, "int64", "k")), Put(ab, <<d1, d1>>), Scan(a)}

OneEach == c1 :> r1 @@ c2 :> r2
Symmetry == {c1 :> c2 @@ c2 :> c1 @@ r1 :> r2 @@ r2 :> r1}

-------------------------------------------------------------------------------
(* The states that are explored: up to SharedWrites of the PlainRequests by *)
(* any clients, and up to MaxWrites of the ReuseRequests while all but one  *)
(* replica do nothing.                                                      *)
SharedWrites == 3

Commands(requests) ==
  {ToCommand(req) : req \in {q \in requests : IsWrite(q) /\ WellFormed(q)}}
PlainCommands == Commands(PlainRequests)
ReuseCommands == Commands(ReuseRequests)

Uses(requests, commands) ==
  /\ \A c \in Client : call[c] = NoCall \/ call[c] \in requests
  /\ \A i \in DOMAIN log : log[i] \in commands
Untouched(r) ==
  /\ store[r].cursor = 1 /\ loop[r] = Idle
  /\ \A c \in Client : Server[c] = r => pc[c] = "idle"

Workloads ==
  \/ /\ Len(log) + Cardinality(Unlogged) <= SharedWrites
     /\ Uses(PlainRequests, PlainCommands)
  \/ /\ \E r \in Replica : \A s \in Replica \ {r} : Untouched(s)
     /\ out.status # "invalid_argument"
     /\ Uses(ReuseRequests, ReuseCommands)
===============================================================================
