---------------------------- MODULE TableApplicator ----------------------------
(***************************************************************************)
(* crates/relos-table/src/applicator.rs, with the commands of command.rs    *)
(* and the schemas of schema.rs: what a table command makes of the local    *)
(* store, and what it returns. A table is named by the parts its name has   *)
(* between slashes: "a" is <<"a">>, "a/b" is <<"a", "b">>.                  *)
(*                                                                          *)
(* The outcome of apply is Ok with a response, Ok or Error, or it is Err:   *)
(* then the transaction is dropped and data stands for nothing.             *)
(***************************************************************************)
EXTENDS Integers, Sequences, SequencesExt, MemoryStore

Outcome(resp, data) == [tag |-> "ok", resp |-> resp, data |-> data]
Refuse(data) == Outcome("error", data)
Err(data) == [tag |-> "err", resp |-> "none", data |-> data]

SchemaKey(t) == Key("schema", t, <<>>)
RowKey(t, pk) == Key("data", t, pk)
RowPrefix(t) == [space |-> "data", path |-> t]

LoadSchema(data, t) == StoreGet(data, SchemaKey(t))

(* The first column of that name; 0 if there is none. *)
ColumnOf(schema, name) ==
  SelectInSeq(schema.columns, LAMBDA col : col.name = name)

(* extract_pk fails on a primary key that names no column of the table, and *)
(* on nothing else, as the row has a value for every column by then.        *)
HasPk(schema) == \A i \in DOMAIN schema.primary_key :
                   ColumnOf(schema, schema.primary_key[i]) # 0
ExtractPk(schema, row) == [i \in DOMAIN schema.primary_key |->
                             row[ColumnOf(schema, schema.primary_key[i])]]

Exists(data, t) == LoadSchema(data, t) # None

ApplyCreateTable(data, schema) ==
  IF Exists(data, schema.name) THEN Refuse(data)
  ELSE Outcome("ok", StorePut(data, SchemaKey(schema.name), schema))

DropSchemaOnly(data, t) ==                 \* mutant: the rows are left
  IF LoadSchema(data, t) = None THEN Refuse(data)
  ELSE Outcome("ok", StoreDelete(data, SchemaKey(t)))
ApplyDropTable(data, t) ==
  IF LoadSchema(data, t) = None THEN Refuse(data)
  ELSE Outcome("ok", [k \in DOMAIN data \ ({SchemaKey(t)} \cup ScanPrefix(data, RowPrefix(t)))
                        |-> data[k]])

ApplyPut(data, t, row) ==
  LET schema == LoadSchema(data, t) IN
  IF schema = None \/ Len(row) # Len(schema.columns) THEN Refuse(data)
  ELSE IF ~HasPk(schema) THEN Err(data)
  ELSE Outcome("ok", StorePut(data, RowKey(t, ExtractPk(schema, row)), row))

ApplyDelete(data, t, pk) ==
  IF LoadSchema(data, t) = None THEN Refuse(data)
  ELSE Outcome("ok", StoreDelete(data, RowKey(t, pk)))

Apply(data, cmd) ==
  CASE cmd.op = "create_table" -> ApplyCreateTable(data, cmd.schema)
    [] cmd.op = "drop_table"   -> ApplyDropTable(data, cmd.table)
    [] cmd.op = "put"          -> ApplyPut(data, cmd.table, cmd.row)
    [] cmd.op = "delete"       -> ApplyDelete(data, cmd.table, cmd.key)
================================================================================
