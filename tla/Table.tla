-------------------------------- MODULE Table --------------------------------
(***************************************************************************)
(* What the table API promises, whatever store and log are below: named     *)
(* tables, each a schema and rows under their primary keys. A command is    *)
(* accepted or refused by the tables as they are; an accepted one changes   *)
(* its own table and no other, and a new table is empty. Every replica goes *)
(* through such tables.                                                     *)
(***************************************************************************)
EXTENDS Integers, Sequences, SequencesExt

CONSTANTS Replica, Command

VARIABLE tables        \* per replica: a function from names to tables

NoTables == [t \in {} |-> 0]
Map(f, x, y) == [k \in DOMAIN f \cup {x} |-> IF k = x THEN y ELSE f[k]]
Without(f, x) == [k \in DOMAIN f \ {x} |-> f[k]]

Columns(schema) == {schema.columns[i].name : i \in DOMAIN schema.columns}
PkColumn(schema, i) ==
  CHOOSE k \in DOMAIN schema.columns :
    /\ schema.columns[k].name = schema.primary_key[i]
    /\ \A m \in 1..(k - 1) : schema.columns[m].name # schema.primary_key[i]
PkOf(schema, row) == [i \in DOMAIN schema.primary_key |-> row[PkColumn(schema, i)]]

Fits(ts, cmd) == /\ cmd.table \in DOMAIN ts
                 /\ Len(cmd.row) = Len(ts[cmd.table].schema.columns)

(* A put that the schema of its table gives no key for. *)
Breaks(ts, cmd) ==
  /\ cmd.op = "put" /\ Fits(ts, cmd)
  /\ ~(ToSet(ts[cmd.table].schema.primary_key) \subseteq Columns(ts[cmd.table].schema))

Accepts(ts, cmd) ==
  CASE cmd.op = "create_table" -> cmd.schema.name \notin DOMAIN ts
    [] cmd.op = "put"          -> Fits(ts, cmd) /\ ~Breaks(ts, cmd)
    [] OTHER                   -> cmd.table \in DOMAIN ts

Effect(ts, cmd) ==
  CASE cmd.op = "create_table" ->
         Map(ts, cmd.schema.name, [schema |-> cmd.schema, rows |-> NoTables])
    [] cmd.op = "drop_table" -> Without(ts, cmd.table)
    [] cmd.op = "put" ->
         [ts EXCEPT ![cmd.table].rows =
            Map(@, PkOf(ts[cmd.table].schema, cmd.row), cmd.row)]
    [] cmd.op = "delete" -> [ts EXCEPT ![cmd.table].rows = Without(@, cmd.key)]

(* The tables after a command, and after a sequence of them. *)
Step(ts, cmd) == IF Accepts(ts, cmd) THEN Effect(ts, cmd) ELSE ts
After(cmds) ==
  LET f[n \in 0..Len(cmds)] == IF n = 0 THEN NoTables ELSE Step(f[n - 1], cmds[n])
  IN  f[Len(cmds)]

Rows(ts, t) == IF t \in DOMAIN ts THEN ts[t].rows ELSE NoTables

Init == tables = [r \in Replica |-> NoTables]

(* A command that leaves the tables as they are is a stutter. *)
Next ==
  /\ tables' # tables
  /\ \E r \in Replica, cmd \in Command :
       /\ Accepts(tables[r], cmd)
       /\ tables' = [tables EXCEPT ![r] = Effect(@, cmd)]

Spec == Init /\ [][Next]_tables
==============================================================================
