----------------------------- MODULE GrpcService -----------------------------
(***************************************************************************)
(* crates/relos-server/src/grpc_service.rs: what the handlers of the gRPC   *)
(* service refuse by themselves, the table command they make of a request,  *)
(* and the status they make of an error. A value is a datum of one of the   *)
(* five types or null, which a client can say in three ways.                *)
(***************************************************************************)
EXTENDS Sequences

CONSTANT Missing       \* a message field that is not set

EmptyName == <<"">>

(* proto_value_to_relos and relos_value_to_proto *)
NullForms == {"unset", "is_null_true", "is_null_false"}
ToValueRaw(v) == v                        \* mutant: null stays as it was sent
ToValue(v) == IF v \in NullForms THEN "null" ELSE v
ToProto(v) == IF v = "null" THEN "is_null_true" ELSE v

ToValues(vs) == [i \in DOMAIN vs |-> ToValue(vs[i])]
RowToProto(row) == [i \in DOMAIN row |-> ToProto(row[i])]

(* proto_schema_to_relos fails on a column of no known type. *)
KnownType(type) == type \in {"int64", "utf8", "bytes", "bool", "float64"}
Convertible(schema) == \A i \in DOMAIN schema.columns : KnownType(schema.columns[i].type)

(* What the handlers ask of a request; without it they return at once.      *)
(* create_table takes the empty name.                                       *)
WellFormed(req) ==
  /\ req.op = "create_table" => req.schema # Missing /\ Convertible(req.schema)
  /\ req.op # "create_table" => req.table # EmptyName
  /\ req.op = "put" => req.row # Missing

IsWrite(req) == req.op \in {"create_table", "drop_table", "put", "delete"}

(* The command of a write, as DelosTable puts it into the entry's payload. *)
ToCommand(req) ==
  CASE req.op = "create_table" -> [op |-> req.op, schema |-> req.schema]
    [] req.op = "drop_table"   -> [op |-> req.op, table |-> req.table]
    [] req.op = "put"          -> [op |-> req.op, table |-> req.table,
                                   row |-> ToValues(req.row)]
    [] req.op = "delete"       -> [op |-> req.op, table |-> req.table,
                                   key |-> ToValues(req.key)]

(* relos_err_to_status *)
ToStatus(err) ==
  CASE err = "InvalidOperation" -> "invalid_argument"
    [] err = "NotFound"         -> "not_found"
    [] OTHER                    -> "internal"
==============================================================================
