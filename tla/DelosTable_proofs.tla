--------------------------- MODULE DelosTable_proofs ---------------------------
(***************************************************************************)
(* Safety of DelosTable, proved for every number of replicas and clients,   *)
(* every set of requests and every bound: the types of the state, that a    *)
(* store of keys implements the named tables of Table, and that writes and  *)
(* reads are linearizable. The rows of a table are its own only where no    *)
(* table's name is the beginning of another's (PrefixFree): reads and the   *)
(* implementation of Table need that, and fail without it; writes do not.   *)
(***************************************************************************)
EXTENDS DelosTable, TLAPS, FiniteSetTheorems, SequenceTheorems, NaturalsInduction,
        WellFoundedInduction

-------------------------------------------------------------------------------
(* The inductive invariants *)

(* The tables that requests name. *)
Named(req) == IF req.op = "create_table" THEN req.schema.name ELSE req.table
Names == {Named(req) : req \in {q \in Request : WellFormed(q)}}

(* No table's name is the beginning, up to a slash, of another's. *)
PrefixFree == \A t, u \in Names : IsPrefix(t, u) => t = u

(* What is in a store is the schemas of tables, and rows of these tables. *)
IsSchemaEntry(data, k) == k = SchemaKey(k.path) /\ k.path \in Names /\ IsSchema(data[k])
IsRowEntry(data, k) == /\ k = RowKey(k.path, k.pk) /\ IsStored(data[k])
                       /\ SchemaKey(k.path) \in DOMAIN data
                       /\ RowFits(data[SchemaKey(k.path)], k.pk, data[k])
DataOK(data) ==
  /\ data = [k \in DOMAIN data |-> data[k]]
  /\ \A k \in DOMAIN data :
       \/ IsSchemaEntry(data, k)
       \/ IsRowEntry(data, k)

Shape == /\ store = [r \in Replica |-> [data |-> store[r].data, cursor |-> store[r].cursor]]
         /\ call \in [Client -> Request \cup {NoCall}]
StoresOK == \A r \in Replica : DataOK(store[r].data)
CallsOK == \A c \in Client : pc[c] # "idle" => call[c] \in Request /\ WellFormed(call[c])
Serving(l, r) == /\ l.client \in Client
                 /\ Server[l.client] = r
                 /\ pc[l.client] = "serving"
                 /\ l.target \in 0..Len(log)
LoopsOK == \A r \in Replica : loop[r] = Idle \/ Serving(loop[r], r)
(* A call in hand leaves room in the log for its command. *)
RoomOK == Len(log) + Cardinality(Unlogged) <= MaxWrites
KnownOK == \A c \in Client : known[c] <= Len(log)

IndInv == TypeOK /\ Shape /\ StoresOK /\ CallsOK /\ LoopsOK /\ RoomOK /\ KnownOK

(* The tables after the first n commands of the log. *)
TablesAt(n) == T!After(SubSeq(log, 1, n))
(* Whether a command is accepted depends on the schemas alone, and these a   *)
(* replica has right whatever the names are.                                *)
IsTables(ts) == ts = [t \in DOMAIN ts |-> [schema |-> ts[t].schema, rows |-> ts[t].rows]]
SameSchemas(ts, us) ==
  DOMAIN ts = DOMAIN us /\ \A t \in DOMAIN ts : ts[t].schema = us[t].schema
Replays(ts, n) == /\ SameSchemas(ts, TablesAt(n))
                  /\ PrefixFree => ts = TablesAt(n)
                  /\ IsTables(TablesAt(n))
                  /\ Playable(n)
Replayed(r) == Replays(TablesIn(store[r].data), store[r].cursor - 1)
(* A write's place in the log, and once it is applied what it gave. *)
Writes(l, r) ==
  /\ l.target > known[l.client]
  /\ log[l.target] = ToCommand(call[l.client])
  /\ store[r].cursor > l.target =>
       (l.resp # "error" <=> T!Accepts(TablesAt(l.target - 1), log[l.target]))
LoopHist(r) ==
  loop[r].client # NoOne =>
    IF Writing(loop[r].client) THEN Writes(loop[r], r)
    ELSE loop[r].target >= known[loop[r].client]
ReadsHist == \A c \in Client : pc[c] = "reading" =>
               ~Writing(c) /\ known[c] < store[Server[c]].cursor

HistInv == (\A r \in Replica : Replayed(r) /\ LoopHist(r)) /\ ReadsHist

-------------------------------------------------------------------------------
(* Names, commands and keys *)

LEMMA NamesTyped ==
  ASSUME NEW t \in Names
  PROVE  t \in Seq(STRING)
<1>1. PICK req \in Request : WellFormed(req) /\ t = Named(req)
  BY DEF Names
<1>2. CASE req.op = "create_table"
  BY <1>1, <1>2, RequestAssumption DEF WellFormed, Named, IsSchema, IsName
<1>3. CASE req.op # "create_table"
  BY <1>1, <1>3, RequestAssumption DEF Named, IsName
<1> QED BY <1>2, <1>3

LEMMA NamedIn ==
  ASSUME NEW req \in Request, WellFormed(req)
  PROVE  /\ req.op = "create_table" => req.schema.name \in Names /\ IsSchema(req.schema)
         /\ req.op # "create_table" => req.table \in Names
<1>1. Named(req) \in Names
  BY DEF Names
<1>2. req.op = "create_table" => IsSchema(req.schema)
  BY RequestAssumption DEF WellFormed
<1> QED BY <1>1, <1>2 DEF Named

(* No value that a command carries is a form of null a client sends. *)
LEMMA ValuesStored ==
  ASSUME NEW vs
  PROVE  IsStored(ToValues(vs))
BY DEF IsStored, ToValues, ToValue, NullForms

LEMMA CommandCases ==
  ASSUME NEW cmd \in Command
  PROVE  \/ cmd.op = "create_table" /\ IsSchema(cmd.schema) /\ cmd.schema.name \in Names
         \/ cmd.op = "drop_table" /\ cmd.table \in Names
         \/ cmd.op = "put" /\ cmd.table \in Names /\ IsStored(cmd.row)
         \/ cmd.op = "delete" /\ cmd.table \in Names
<1>1. PICK req \in Request : IsWrite(req) /\ WellFormed(req) /\ cmd = ToCommand(req)
  BY DEF Command
<1>2. /\ req.op = "create_table" => req.schema.name \in Names /\ IsSchema(req.schema)
      /\ req.op # "create_table" => req.table \in Names
  BY <1>1, NamedIn
<1>3. CASE req.op = "create_table"
  <2>1. cmd = [op |-> req.op, schema |-> req.schema]
    BY <1>1, <1>3 DEF ToCommand
  <2> QED BY <1>2, <1>3, <2>1
<1>4. CASE req.op = "drop_table"
  <2>1. cmd = [op |-> req.op, table |-> req.table]
    BY <1>1, <1>4 DEF ToCommand
  <2> QED BY <1>2, <1>4, <2>1
<1>5. CASE req.op = "put"
  <2>1. cmd = [op |-> req.op, table |-> req.table, row |-> ToValues(req.row)]
    BY <1>1, <1>5 DEF ToCommand
  <2>2. IsStored(ToValues(req.row))
    BY ValuesStored
  <2> QED BY <1>2, <1>5, <2>1, <2>2
<1>6. CASE req.op = "delete"
  <2>1. cmd = [op |-> req.op, table |-> req.table, key |-> ToValues(req.key)]
    BY <1>1, <1>6 DEF ToCommand
  <2> QED BY <1>2, <1>6, <2>1
<1> QED BY <1>1, <1>3, <1>4, <1>5, <1>6 DEF IsWrite

LEMMA Keys ==
  ASSUME NEW t, NEW pk
  PROVE  /\ SchemaKey(t).space = "schema" /\ SchemaKey(t).path = t
         /\ RowKey(t, pk).space = "data" /\ RowKey(t, pk).path = t /\ RowKey(t, pk).pk = pk
         /\ SchemaKey(t) = SchemaKey(SchemaKey(t).path)
         /\ RowKey(t, pk) = RowKey(RowKey(t, pk).path, RowKey(t, pk).pk)
         /\ \A u : SchemaKey(t) = SchemaKey(u) => t = u
         /\ \A u : SchemaKey(u) # RowKey(t, pk)
         /\ \A u, qk : RowKey(t, pk) = RowKey(u, qk) => t = u /\ pk = qk
BY DEF SchemaKey, RowKey, Key

(* A key in a store is the key of a schema or of a row, by its space. *)
LEMMA KeyCases ==
  ASSUME NEW data, DataOK(data), NEW k \in DOMAIN data
  PROVE  /\ k.space \in {"schema", "data"}
         /\ k.space = "schema" => /\ k = SchemaKey(k.path) /\ k.path \in Names
                                  /\ IsSchema(data[k])
         /\ k.space = "data" => /\ k = RowKey(k.path, k.pk) /\ IsStored(data[k])
                                /\ SchemaKey(k.path) \in DOMAIN data
                                /\ RowFits(data[SchemaKey(k.path)], k.pk, data[k])
<1>1. CASE IsSchemaEntry(data, k)
  <2>1. k.space = "schema"
    BY <1>1, Keys DEF IsSchemaEntry
  <2> QED BY <1>1, <2>1 DEF IsSchemaEntry
<1>2. CASE IsRowEntry(data, k)
  <2>1. k.space = "data"
    BY <1>2, Keys DEF IsRowEntry
  <2> QED BY <1>2, <2>1 DEF IsRowEntry
<1> QED BY <1>1, <1>2 DEF DataOK

-------------------------------------------------------------------------------
(* The tables in a store *)

RowsIn(data, t) ==
  [pk \in {k.pk : k \in {q \in DOMAIN data : q.space = "data" /\ q.path = t}}
     |-> data[RowKey(t, pk)]]
TableIn(data, t) == [schema |-> data[SchemaKey(t)], rows |-> RowsIn(data, t)]

LEMMA RowsAre ==
  ASSUME NEW data, DataOK(data), NEW t
  PROVE  /\ RowsIn(data, t) = [pk \in DOMAIN RowsIn(data, t) |-> data[RowKey(t, pk)]]
         /\ \A pk : pk \in DOMAIN RowsIn(data, t) <=> RowKey(t, pk) \in DOMAIN data
<1> DEFINE D == {k.pk : k \in {q \in DOMAIN data : q.space = "data" /\ q.path = t}}
<1>1. DOMAIN RowsIn(data, t) = D /\ RowsIn(data, t) = [pk \in D |-> data[RowKey(t, pk)]]
  BY DEF RowsIn
<1>2. ASSUME NEW pk, RowKey(t, pk) \in DOMAIN data PROVE pk \in D
  BY <1>2, Keys
<1>3. ASSUME NEW pk, pk \in D PROVE RowKey(t, pk) \in DOMAIN data
  <2>1. PICK k \in DOMAIN data : k.space = "data" /\ k.path = t /\ pk = k.pk
    BY <1>3
  <2> QED BY <2>1, KeyCases
<1> HIDE DEF D
<1> QED BY <1>1, <1>2, <1>3

LEMMA TablesAre ==
  ASSUME NEW data, DataOK(data)
  PROVE  /\ TablesIn(data) = [t \in DOMAIN TablesIn(data) |-> TableIn(data, t)]
         /\ \A t : t \in DOMAIN TablesIn(data) <=> SchemaKey(t) \in DOMAIN data
<1> DEFINE D == {k.path : k \in {q \in DOMAIN data : q.space = "schema"}}
<1>1. DOMAIN TablesIn(data) = D /\ TablesIn(data) = [t \in D |-> TableIn(data, t)]
  BY DEF TablesIn, TableIn, RowsIn
<1>2. ASSUME NEW t, SchemaKey(t) \in DOMAIN data PROVE t \in D
  BY <1>2, Keys
<1>3. ASSUME NEW t, t \in D PROVE SchemaKey(t) \in DOMAIN data
  <2>1. PICK k \in DOMAIN data : k.space = "schema" /\ k.path = t
    BY <1>3
  <2> QED BY <2>1, KeyCases
<1> HIDE DEF D
<1> QED BY <1>1, <1>2, <1>3

(* A function that looks like the rows of a table is these rows. *)
LEMMA RowsMade ==
  ASSUME NEW data, DataOK(data), NEW t, NEW f, f = [pk \in DOMAIN f |-> f[pk]],
         \A pk : pk \in DOMAIN f <=> RowKey(t, pk) \in DOMAIN data,
         \A pk \in DOMAIN f : f[pk] = data[RowKey(t, pk)]
  PROVE  RowsIn(data, t) = f
<1>1. DOMAIN RowsIn(data, t) = DOMAIN f
  BY RowsAre
<1>2. RowsIn(data, t) = [pk \in DOMAIN f |-> data[RowKey(t, pk)]]
  BY RowsAre, <1>1
<1> QED BY <1>2

LEMMA TablesMade ==
  ASSUME NEW data, DataOK(data), NEW f, f = [t \in DOMAIN f |-> f[t]],
         \A t : t \in DOMAIN f <=> SchemaKey(t) \in DOMAIN data,
         \A t \in DOMAIN f : f[t] = TableIn(data, t)
  PROVE  TablesIn(data) = f
<1>1. DOMAIN TablesIn(data) = DOMAIN f
  BY TablesAre
<1>2. TablesIn(data) = [t \in DOMAIN f |-> TableIn(data, t)]
  BY TablesAre, <1>1
<1> QED BY <1>2

(* A table whose keys hold the same in two stores is the same in both. *)
LEMMA TableKept ==
  ASSUME NEW data, DataOK(data), NEW new, DataOK(new), NEW t,
         new[SchemaKey(t)] = data[SchemaKey(t)],
         \A pk : RowKey(t, pk) \in DOMAIN new <=> RowKey(t, pk) \in DOMAIN data,
         \A pk : RowKey(t, pk) \in DOMAIN data => new[RowKey(t, pk)] = data[RowKey(t, pk)]
  PROVE  TableIn(new, t) = TableIn(data, t)
<1>1. \A pk : pk \in DOMAIN RowsIn(data, t) <=> RowKey(t, pk) \in DOMAIN new
  BY RowsAre
<1>2. RowsIn(data, t) = [pk \in DOMAIN RowsIn(data, t) |-> data[RowKey(t, pk)]]
  BY RowsAre
<1>3. \A pk \in DOMAIN RowsIn(data, t) : RowsIn(data, t)[pk] = new[RowKey(t, pk)]
  BY <1>1, <1>2
<1>4. RowsIn(new, t) = RowsIn(data, t)
  BY <1>1, <1>2, <1>3, RowsMade
<1> QED BY <1>4 DEF TableIn

LEMMA TableFields ==
  ASSUME NEW data, DataOK(data), NEW t \in DOMAIN TablesIn(data)
  PROVE  /\ TablesIn(data)[t].schema = data[SchemaKey(t)]
         /\ TablesIn(data)[t].rows = RowsIn(data, t)
         /\ IsSchema(data[SchemaKey(t)])
<1>1. SchemaKey(t) \in DOMAIN data /\ TablesIn(data)[t] = TableIn(data, t)
  BY TablesAre
<1>2. IsSchema(data[SchemaKey(t)])
  BY <1>1, KeyCases, Keys
<1> QED BY <1>1, <1>2 DEF TableIn

-------------------------------------------------------------------------------
(* Primary keys *)

LEMMA LeastNat ==
  ASSUME NEW S \in SUBSET Nat, S # {}
  PROVE  \E x \in S : \A y \in S : ~(y < x)
<1> DEFINE R == {ss \in Nat \X Nat : ss[1] < ss[2]}
<1>1. IsWellFoundedOn(R, Nat)
  BY NatLessThanWellFounded DEF OpToRel
<1>2. PICK x \in S : \A y \in S : ~(<<y, x>> \in R)
  <2> HIDE DEF R
  <2> QED BY <1>1, WFMin
<1> QED BY <1>2

(* ColumnOf is 0, or the column of that name with none before it. *)
LEMMA ColumnFound ==
  ASSUME NEW schema, IsSchema(schema), NEW name
  PROVE  /\ DOMAIN schema.columns = 1..Len(schema.columns) /\ Len(schema.columns) \in Nat
         /\ ColumnOf(schema, name) # 0 <=> name \in T!Columns(schema)
         /\ ColumnOf(schema, name) # 0 =>
              /\ ColumnOf(schema, name) \in DOMAIN schema.columns
              /\ schema.columns[ColumnOf(schema, name)].name = name
              /\ \A m \in DOMAIN schema.columns :
                   schema.columns[m].name = name => ColumnOf(schema, name) <= m
<1> DEFINE I == {i \in 1..Len(schema.columns) : schema.columns[i].name = name}
<1>1. DOMAIN schema.columns = 1..Len(schema.columns) /\ Len(schema.columns) \in Nat
  BY DEF IsSchema
<1>2. ColumnOf(schema, name) = IF I # {} THEN Min(I) ELSE 0
  BY DEF ColumnOf, SelectInSeq
<1>3. name \in T!Columns(schema) <=> I # {}
  BY <1>1 DEF T!Columns
<1>4. ASSUME I # {} PROVE Min(I) \in I /\ \A m \in I : Min(I) <= m
  <2>1. I \in SUBSET Nat
    BY <1>1
  <2>2. PICK x \in I : \A y \in I : ~(y < x)
    <3> HIDE DEF I
    <3> QED BY <1>4, <2>1, LeastNat
  <2>3. \A y \in I : x <= y
    BY <2>1, <2>2
  <2> HIDE DEF I
  <2> QED BY <2>2, <2>3 DEF Min
<1>5. 0 \notin I
  BY <1>1
<1>6. \A i : i \in I <=> i \in DOMAIN schema.columns /\ schema.columns[i].name = name
  BY <1>1
<1> HIDE DEF I
<1> QED BY <1>1, <1>2, <1>3, <1>4, <1>5, <1>6

LEMMA PkFound ==
  ASSUME NEW schema, IsSchema(schema)
  PROVE  HasPk(schema) <=> ToSet(schema.primary_key) \subseteq T!Columns(schema)
<1>1. \A i : ColumnOf(schema, schema.primary_key[i]) # 0
               <=> schema.primary_key[i] \in T!Columns(schema)
  BY ColumnFound
<1> QED BY <1>1 DEF HasPk, ToSet

LEMMA PkExtracted ==
  ASSUME NEW schema, IsSchema(schema), HasPk(schema), NEW row
  PROVE  ExtractPk(schema, row) = T!PkOf(schema, row)
<1>1. ASSUME NEW i \in DOMAIN schema.primary_key
      PROVE  T!PkColumn(schema, i) = ColumnOf(schema, schema.primary_key[i])
  <2> DEFINE name == schema.primary_key[i]
             P(k) == /\ schema.columns[k].name = name
                     /\ \A m \in 1..(k - 1) : schema.columns[m].name # name
  <2>1. PICK c : c = ColumnOf(schema, name)
    OBVIOUS
  <2>2. c # 0
    BY <2>1 DEF HasPk
  <2>3. /\ DOMAIN schema.columns = 1..Len(schema.columns) /\ Len(schema.columns) \in Nat
        /\ c \in DOMAIN schema.columns /\ schema.columns[c].name = name
        /\ \A m \in DOMAIN schema.columns : schema.columns[m].name = name => c <= m
    BY <2>1, <2>2, ColumnFound
  <2> HIDE DEF name
  <2>4. P(c)
    BY <2>3
  <2>5. \A k \in DOMAIN schema.columns : P(k) => k = c
    <3> SUFFICES ASSUME NEW k \in DOMAIN schema.columns, P(k), k # c PROVE FALSE
      OBVIOUS
    <3>1. c <= k /\ k \in Nat /\ c \in Nat /\ c >= 1
      BY <2>3
    <3>2. c \in 1..(k - 1)
      BY <3>1
    <3> QED BY <2>3, <3>2
  <2>6. T!PkColumn(schema, i) = CHOOSE k \in DOMAIN schema.columns : P(k)
    BY DEF T!PkColumn, name
  <2> HIDE DEF P
  <2>7. (CHOOSE k \in DOMAIN schema.columns : P(k)) = c
    BY <2>3, <2>4, <2>5
  <2> QED BY <2>1, <2>6, <2>7 DEF name
<1> QED BY <1>1 DEF ExtractPk, T!PkOf

-------------------------------------------------------------------------------
(* What each command makes of a store, and of the tables in it *)

LEMMA Loaded ==
  ASSUME NEW data, DataOK(data), NEW t
  PROVE  /\ LoadSchema(data, t) = None <=> t \notin DOMAIN TablesIn(data)
         /\ t \in DOMAIN TablesIn(data) =>
              /\ LoadSchema(data, t) = data[SchemaKey(t)]
              /\ LoadSchema(data, t) = TablesIn(data)[t].schema
              /\ IsSchema(LoadSchema(data, t))
<1>1. CASE t \in DOMAIN TablesIn(data)
  <2>1. SchemaKey(t) \in DOMAIN data
    BY <1>1, TablesAre
  <2>2. LoadSchema(data, t) = data[SchemaKey(t)]
    BY <2>1 DEF LoadSchema, StoreGet
  <2>3. IsSchema(data[SchemaKey(t)]) /\ data[SchemaKey(t)] = TablesIn(data)[t].schema
    BY <1>1, TableFields
  <2>4. data[SchemaKey(t)] # None
    BY <2>3 DEF IsSchema
  <2> QED BY <1>1, <2>2, <2>3, <2>4
<1>2. CASE t \notin DOMAIN TablesIn(data)
  <2>1. SchemaKey(t) \notin DOMAIN data
    BY <1>2, TablesAre
  <2> QED BY <1>2, <2>1 DEF LoadSchema, StoreGet
<1> QED BY <1>1, <1>2

LEMMA CreateApplied ==
  ASSUME NEW data, DataOK(data), NEW schema, IsSchema(schema), schema.name \in Names,
         schema.name \notin DOMAIN TablesIn(data),
         NEW new, new = StorePut(data, SchemaKey(schema.name), schema)
  PROVE  /\ DataOK(new)
         /\ TablesIn(new) = T!Map(TablesIn(data), schema.name,
                                  [schema |-> schema, rows |-> T!NoTables])
<1>1. PICK t, s : t = schema.name /\ s = SchemaKey(t)
  OBVIOUS
<1>2. /\ DOMAIN new = DOMAIN data \cup {s} /\ new[s] = schema
      /\ \A k \in DOMAIN data : k # s => new[k] = data[k]
      /\ new = [k \in DOMAIN new |-> new[k]]
  BY <1>1 DEF StorePut
<1>3. s \notin DOMAIN data /\ s = SchemaKey(s.path) /\ s.path = t
  BY <1>1, TablesAre, Keys
<1>4. DataOK(new)
  <2>1. ASSUME NEW k \in DOMAIN new
        PROVE  \/ IsSchemaEntry(new, k)
               \/ IsRowEntry(new, k)
    <3>1. CASE k = s
      BY <1>1, <1>2, <1>3, <3>1 DEF IsSchemaEntry
    <3>2. CASE k # s
      <4>1. k \in DOMAIN data /\ new[k] = data[k]
        BY <1>2, <3>2
      <4>2. CASE IsSchemaEntry(data, k)
        BY <4>1, <4>2 DEF IsSchemaEntry
      <4>3. CASE IsRowEntry(data, k)
        <5>1. SchemaKey(k.path) \in DOMAIN new /\ new[SchemaKey(k.path)] = data[SchemaKey(k.path)]
          BY <1>2, <1>3, <4>3 DEF IsRowEntry
        <5> QED BY <4>1, <4>3, <5>1 DEF IsRowEntry
      <4> QED BY <4>1, <4>2, <4>3 DEF DataOK
    <3> QED BY <3>1, <3>2
  <2> QED BY <1>2, <2>1 DEF DataOK
<1>5. \A u, pk : RowKey(u, pk) # s
  BY <1>1, Keys
<1>6. \A u, pk : RowKey(u, pk) \in DOMAIN new <=> RowKey(u, pk) \in DOMAIN data
  BY <1>2, <1>5
<1>7. ASSUME NEW pk PROVE RowKey(t, pk) \notin DOMAIN data
  <2> SUFFICES ASSUME RowKey(t, pk) \in DOMAIN data PROVE FALSE
    OBVIOUS
  <2>1. PICK k \in DOMAIN data : k = RowKey(t, pk)
    OBVIOUS
  <2>2. k.space = "data" /\ k.path = t
    BY <2>1, Keys
  <2> QED BY <1>1, <1>3, <2>1, <2>2, KeyCases
<1>8. TableIn(new, t) = [schema |-> schema, rows |-> T!NoTables]
  <2>1. RowsIn(new, t) = T!NoTables
    <3>1. DOMAIN T!NoTables = {} /\ T!NoTables = [pk \in DOMAIN T!NoTables |-> T!NoTables[pk]]
      BY DEF T!NoTables
    <3> QED BY <1>4, <1>6, <1>7, <3>1, RowsMade
  <2> QED BY <1>1, <1>2, <2>1 DEF TableIn
<1>9. ASSUME NEW u \in DOMAIN TablesIn(data) PROVE TableIn(new, u) = TableIn(data, u)
  <2>1. SchemaKey(u) \in DOMAIN data
    BY TablesAre
  <2>2. new[SchemaKey(u)] = data[SchemaKey(u)]
    BY <1>2, <1>3, <2>1
  <2> QED BY <1>2, <1>4, <1>5, <1>6, <2>2, TableKept
<1>10. PICK f : f = T!Map(TablesIn(data), t, [schema |-> schema, rows |-> T!NoTables])
  OBVIOUS
<1>11. /\ f = [u \in DOMAIN f |-> f[u]] /\ DOMAIN f = DOMAIN TablesIn(data) \cup {t}
       /\ f[t] = [schema |-> schema, rows |-> T!NoTables]
       /\ \A u \in DOMAIN TablesIn(data) : u # t => f[u] = TablesIn(data)[u]
  BY <1>10 DEF T!Map
<1>12. ASSUME NEW u \in DOMAIN f PROVE f[u] = TableIn(new, u)
  <2>1. CASE u = t
    BY <1>8, <1>11, <2>1
  <2>2. CASE u # t
    <3>1. u \in DOMAIN TablesIn(data) /\ f[u] = TablesIn(data)[u]
      BY <1>11, <2>2
    <3>2. TablesIn(data)[u] = TableIn(data, u)
      BY <3>1, TablesAre
    <3> QED BY <1>9, <3>1, <3>2
  <2> QED BY <2>1, <2>2
<1>13. ASSUME NEW u PROVE u \in DOMAIN f <=> SchemaKey(u) \in DOMAIN new
  <2>1. SchemaKey(u) = s <=> u = t
    BY <1>1, Keys
  <2>2. u \in DOMAIN TablesIn(data) <=> SchemaKey(u) \in DOMAIN data
    BY TablesAre
  <2> QED BY <1>2, <1>11, <2>1, <2>2
<1>14. TablesIn(new) = f
  BY <1>4, <1>11, <1>12, <1>13, TablesMade
<1> QED BY <1>1, <1>4, <1>10, <1>14

(* The rows a drop deletes: those of its table, and where names are prefix  *)
(* free no others.                                                          *)
LEMMA Dropped ==
  ASSUME NEW data, DataOK(data), NEW t \in Names, NEW k \in DOMAIN data
  PROVE  /\ k \in ScanPrefix(data, RowPrefix(t)) => k.space = "data"
         /\ k.space = "data" /\ k.path = t => k \in ScanPrefix(data, RowPrefix(t))
         /\ PrefixFree /\ k \in ScanPrefix(data, RowPrefix(t)) => k.path = t
<1>1. k \in ScanPrefix(data, RowPrefix(t)) <=> k.space = "data" /\ IsPrefix(t, k.path)
  BY DEF ScanPrefix, StartsWith, RowPrefix
<1>2. IsPrefix(t, t)
  <2>1. Len(t) \in Nat
    BY NamesTyped
  <2> QED BY <2>1 DEF IsPrefix
<1>3. ASSUME k.space = "data" PROVE k.path \in Names
  <2>1. SchemaKey(k.path) \in DOMAIN data
    BY <1>3, KeyCases
  <2>2. PICK s \in DOMAIN data : s = SchemaKey(k.path)
    BY <2>1
  <2>3. s.space = "schema" /\ s.path = k.path
    BY <2>2, Keys
  <2> QED BY <2>3, KeyCases
<1> QED BY <1>1, <1>2, <1>3 DEF PrefixFree

LEMMA DropApplied ==
  ASSUME NEW data, DataOK(data), NEW t \in Names, NEW new,
         new = [k \in DOMAIN data \ ({SchemaKey(t)} \cup ScanPrefix(data, RowPrefix(t)))
                  |-> data[k]]
  PROVE  /\ DataOK(new)
         /\ SameSchemas(TablesIn(new), T!Without(TablesIn(data), t))
         /\ PrefixFree => TablesIn(new) = T!Without(TablesIn(data), t)
<1>1. PICK s, D : s = SchemaKey(t) /\ D = ScanPrefix(data, RowPrefix(t))
  OBVIOUS
<1>2. /\ DOMAIN new = DOMAIN data \ ({s} \cup D)
      /\ \A k \in DOMAIN new : new[k] = data[k]
      /\ new = [k \in DOMAIN new |-> new[k]]
  BY <1>1
<1>3. s.space = "schema" /\ \A u : SchemaKey(u) = s <=> u = t
  BY <1>1, Keys
<1>4. ASSUME NEW u PROVE SchemaKey(u) \notin D
  <2> SUFFICES ASSUME SchemaKey(u) \in D PROVE FALSE
    OBVIOUS
  <2>1. PICK k : k = SchemaKey(u)
    OBVIOUS
  <2>2. k.space = "schema" /\ k \in DOMAIN data
    BY <1>1, <2>1, Keys DEF ScanPrefix
  <2> QED BY <1>1, <2>1, <2>2, Dropped
<1>5. DataOK(new)
  <2>1. ASSUME NEW k \in DOMAIN new
        PROVE  \/ IsSchemaEntry(new, k)
               \/ IsRowEntry(new, k)
    <3>1. k \in DOMAIN data /\ new[k] = data[k] /\ k \notin D
      BY <1>2
    <3>2. CASE IsSchemaEntry(data, k)
      BY <3>1, <3>2 DEF IsSchemaEntry
    <3>3. CASE IsRowEntry(data, k)
      <4>1. k.space = "data"
        BY <3>3, Keys DEF IsRowEntry
      <4>2. k.path # t
        BY <1>1, <3>1, <4>1, Dropped
      <4>3. SchemaKey(k.path) \in DOMAIN new /\ new[SchemaKey(k.path)] = data[SchemaKey(k.path)]
        BY <1>2, <1>3, <1>4, <3>3, <4>2 DEF IsRowEntry
      <4> QED BY <3>1, <3>3, <4>3 DEF IsRowEntry
    <3> QED BY <3>1, <3>2, <3>3 DEF DataOK
  <2> QED BY <1>2, <2>1 DEF DataOK
<1>6. PICK f : f = T!Without(TablesIn(data), t)
  OBVIOUS
<1>7. /\ f = [u \in DOMAIN f |-> f[u]] /\ DOMAIN f = DOMAIN TablesIn(data) \ {t}
      /\ \A u \in DOMAIN f : f[u] = TablesIn(data)[u]
  BY <1>6 DEF T!Without
<1>8. ASSUME NEW u PROVE u \in DOMAIN f <=> SchemaKey(u) \in DOMAIN new
  <2>1. u \in DOMAIN TablesIn(data) <=> SchemaKey(u) \in DOMAIN data
    BY TablesAre
  <2> QED BY <1>2, <1>3, <1>4, <1>7, <2>1
<1>9. SameSchemas(TablesIn(new), f)
  <2>1. DOMAIN TablesIn(new) = DOMAIN f
    BY <1>5, <1>8, TablesAre
  <2>2. ASSUME NEW u \in DOMAIN f PROVE TablesIn(new)[u].schema = f[u].schema
    <3>1. f[u].schema = data[SchemaKey(u)]
      BY <1>7, TableFields
    <3>2. TablesIn(new)[u].schema = new[SchemaKey(u)]
      BY <1>5, <2>1, TableFields
    <3> QED BY <1>2, <1>8, <3>1, <3>2
  <2> QED BY <2>1, <2>2 DEF SameSchemas
<1>10. ASSUME PrefixFree PROVE TablesIn(new) = f
  <2>1. ASSUME NEW u \in DOMAIN f PROVE f[u] = TableIn(new, u)
    <3>1. u # t /\ f[u] = TablesIn(data)[u] /\ u \in DOMAIN TablesIn(data)
      BY <1>7
    <3>2. f[u] = TableIn(data, u)
      BY <3>1, TablesAre
    <3>3. new[SchemaKey(u)] = data[SchemaKey(u)]
      BY <1>2, <1>8
    <3>4. ASSUME NEW pk PROVE RowKey(u, pk) \in DOMAIN new <=> RowKey(u, pk) \in DOMAIN data
      <4>1. PICK k : k = RowKey(u, pk)
        OBVIOUS
      <4>2. k.path = u /\ k # s
        BY <1>1, <4>1, Keys
      <4>3. k \in DOMAIN data => k \notin D
        BY <1>1, <1>10, <3>1, <4>2, Dropped
      <4> QED BY <1>2, <4>1, <4>2, <4>3
    <3>5. TableIn(new, u) = TableIn(data, u)
      BY <1>2, <1>5, <3>3, <3>4, TableKept
    <3> QED BY <3>2, <3>5
  <2> QED BY <1>5, <1>7, <1>8, <2>1, TablesMade
<1> QED BY <1>5, <1>6, <1>9, <1>10

(* A put and a delete change the rows of one table. *)
LEMMA RowsChanged ==
  ASSUME NEW data, DataOK(data), NEW t \in DOMAIN TablesIn(data), NEW new, DataOK(new),
         \A u : SchemaKey(u) \in DOMAIN new <=> SchemaKey(u) \in DOMAIN data,
         \A u : SchemaKey(u) \in DOMAIN data => new[SchemaKey(u)] = data[SchemaKey(u)],
         \A u, pk : u # t => (RowKey(u, pk) \in DOMAIN new <=> RowKey(u, pk) \in DOMAIN data),
         \A u, pk : u # t /\ RowKey(u, pk) \in DOMAIN data =>
                      new[RowKey(u, pk)] = data[RowKey(u, pk)]
  PROVE  TablesIn(new) = [TablesIn(data) EXCEPT ![t].rows = RowsIn(new, t)]
<1>1. PICK f : f = [TablesIn(data) EXCEPT ![t].rows = RowsIn(new, t)]
  OBVIOUS
<1>2. TablesIn(data)[t] = [schema |-> data[SchemaKey(t)], rows |-> RowsIn(data, t)]
  BY TablesAre DEF TableIn
<1>3. /\ DOMAIN f = DOMAIN TablesIn(data) /\ f = [u \in DOMAIN f |-> f[u]]
      /\ f[t] = [TablesIn(data)[t] EXCEPT !.rows = RowsIn(new, t)]
      /\ \A u \in DOMAIN f : u # t => f[u] = TablesIn(data)[u]
  <2>1. TablesIn(data) = [u \in DOMAIN TablesIn(data) |-> TablesIn(data)[u]]
    BY TablesAre
  <2> QED BY <1>1, <2>1
<1>4. f[t] = [schema |-> data[SchemaKey(t)], rows |-> RowsIn(new, t)]
  BY <1>2, <1>3
<1>5. ASSUME NEW u \in DOMAIN f PROVE f[u] = TableIn(new, u)
  <2>1. SchemaKey(u) \in DOMAIN data /\ new[SchemaKey(u)] = data[SchemaKey(u)]
    BY <1>3, TablesAre
  <2>2. CASE u = t
    BY <1>4, <2>1, <2>2 DEF TableIn
  <2>3. CASE u # t
    <3>1. f[u] = TableIn(data, u)
      BY <1>3, <2>3, TablesAre
    <3>2. TableIn(new, u) = TableIn(data, u)
      BY <2>1, <2>3, TableKept
    <3> QED BY <3>1, <3>2
  <2> QED BY <2>2, <2>3
<1>6. ASSUME NEW u PROVE u \in DOMAIN f <=> SchemaKey(u) \in DOMAIN new
  BY <1>3, TablesAre
<1>7. TablesIn(new) = f
  BY <1>3, <1>5, <1>6, TablesMade
<1> QED BY <1>1, <1>7

LEMMA PutApplied ==
  ASSUME NEW data, DataOK(data), NEW t \in DOMAIN TablesIn(data), NEW pk, NEW row,
         IsStored(row), RowFits(data[SchemaKey(t)], pk, row),
         NEW new, new = StorePut(data, RowKey(t, pk), row)
  PROVE  /\ DataOK(new)
         /\ TablesIn(new) = [TablesIn(data) EXCEPT ![t].rows =
                               T!Map(TablesIn(data)[t].rows, pk, row)]
<1>1. PICK p : p = RowKey(t, pk)
  OBVIOUS
<1>2. /\ DOMAIN new = DOMAIN data \cup {p} /\ new[p] = row
      /\ \A k \in DOMAIN data : k # p => new[k] = data[k]
      /\ new = [k \in DOMAIN new |-> new[k]]
  BY <1>1 DEF StorePut
<1>3. /\ p.path = t /\ p.pk = pk /\ p = RowKey(p.path, p.pk) /\ \A u : SchemaKey(u) # p
      /\ \A u, qk : RowKey(u, qk) = p <=> u = t /\ qk = pk
  BY <1>1, Keys
<1>4. DataOK(new)
  <2>1. ASSUME NEW k \in DOMAIN new
        PROVE  \/ IsSchemaEntry(new, k)
               \/ IsRowEntry(new, k)
    <3>1. CASE k = p
      <4>1. SchemaKey(t) \in DOMAIN data
        BY TablesAre
      <4>2. SchemaKey(t) \in DOMAIN new /\ new[SchemaKey(t)] = data[SchemaKey(t)]
        BY <1>2, <1>3, <4>1
      <4> QED BY <1>2, <1>3, <3>1, <4>2 DEF IsRowEntry
    <3>2. CASE k # p
      <4>1. k \in DOMAIN data /\ new[k] = data[k]
        BY <1>2, <3>2
      <4>2. CASE IsSchemaEntry(data, k)
        BY <4>1, <4>2 DEF IsSchemaEntry
      <4>3. CASE IsRowEntry(data, k)
        <5>1. SchemaKey(k.path) \in DOMAIN new /\ new[SchemaKey(k.path)] = data[SchemaKey(k.path)]
          BY <1>2, <1>3, <4>3 DEF IsRowEntry
        <5> QED BY <4>1, <4>3, <5>1 DEF IsRowEntry
      <4> QED BY <4>1, <4>2, <4>3 DEF DataOK
    <3> QED BY <3>1, <3>2
  <2> QED BY <1>2, <2>1 DEF DataOK
<1>5. RowsIn(new, t) = T!Map(RowsIn(data, t), pk, row)
  <2>1. PICK f : f = T!Map(RowsIn(data, t), pk, row)
    OBVIOUS
  <2>2. /\ f = [qk \in DOMAIN f |-> f[qk]] /\ DOMAIN f = DOMAIN RowsIn(data, t) \cup {pk}
        /\ f[pk] = row
        /\ \A qk \in DOMAIN f : qk # pk => f[qk] = RowsIn(data, t)[qk]
    BY <2>1 DEF T!Map
  <2>3. ASSUME NEW qk PROVE qk \in DOMAIN f <=> RowKey(t, qk) \in DOMAIN new
    <3>1. qk \in DOMAIN RowsIn(data, t) <=> RowKey(t, qk) \in DOMAIN data
      BY RowsAre
    <3> QED BY <1>2, <1>3, <2>2, <3>1
  <2>4. ASSUME NEW qk \in DOMAIN f PROVE f[qk] = new[RowKey(t, qk)]
    <3>1. CASE qk = pk
      BY <1>1, <1>2, <2>2, <3>1
    <3>2. CASE qk # pk
      <4>1. qk \in DOMAIN RowsIn(data, t) /\ f[qk] = RowsIn(data, t)[qk]
        BY <2>2, <3>2
      <4>2. RowKey(t, qk) \in DOMAIN data /\ f[qk] = data[RowKey(t, qk)]
        BY <4>1, RowsAre
      <4> QED BY <1>2, <1>3, <3>2, <4>2
    <3> QED BY <3>1, <3>2
  <2>5. RowsIn(new, t) = f
    BY <1>4, <2>2, <2>3, <2>4, RowsMade
  <2> QED BY <2>1, <2>5
<1>6. TablesIn(new) = [TablesIn(data) EXCEPT ![t].rows = RowsIn(new, t)]
  <2>1. \A u : SchemaKey(u) \in DOMAIN new <=> SchemaKey(u) \in DOMAIN data
    BY <1>2, <1>3
  <2>2. \A u : SchemaKey(u) \in DOMAIN data => new[SchemaKey(u)] = data[SchemaKey(u)]
    BY <1>2, <1>3
  <2>3. \A u, qk : u # t => (RowKey(u, qk) \in DOMAIN new <=> RowKey(u, qk) \in DOMAIN data)
    BY <1>2, <1>3
  <2>4. \A u, qk : u # t /\ RowKey(u, qk) \in DOMAIN data =>
                     new[RowKey(u, qk)] = data[RowKey(u, qk)]
    BY <1>2, <1>3
  <2> QED BY <1>4, <2>1, <2>2, <2>3, <2>4, RowsChanged
<1>7. TablesIn(data)[t].rows = RowsIn(data, t)
  BY TableFields
<1> QED BY <1>4, <1>5, <1>6, <1>7

LEMMA DeleteApplied ==
  ASSUME NEW data, DataOK(data), NEW t \in DOMAIN TablesIn(data), NEW pk,
         NEW new, new = StoreDelete(data, RowKey(t, pk))
  PROVE  /\ DataOK(new)
         /\ TablesIn(new) = [TablesIn(data) EXCEPT ![t].rows =
                               T!Without(TablesIn(data)[t].rows, pk)]
<1>1. PICK p : p = RowKey(t, pk)
  OBVIOUS
<1>2. /\ DOMAIN new = DOMAIN data \ {p}
      /\ \A k \in DOMAIN new : new[k] = data[k]
      /\ new = [k \in DOMAIN new |-> new[k]]
  BY <1>1 DEF StoreDelete
<1>3. /\ \A u : SchemaKey(u) # p
      /\ \A u, qk : RowKey(u, qk) = p <=> u = t /\ qk = pk
  BY <1>1, Keys
<1>4. DataOK(new)
  <2>1. ASSUME NEW k \in DOMAIN new
        PROVE  \/ IsSchemaEntry(new, k)
               \/ IsRowEntry(new, k)
    <3>1. k \in DOMAIN data /\ new[k] = data[k]
      BY <1>2
    <3>2. CASE IsSchemaEntry(data, k)
      BY <3>1, <3>2 DEF IsSchemaEntry
    <3>3. CASE IsRowEntry(data, k)
      <4>1. SchemaKey(k.path) \in DOMAIN new /\ new[SchemaKey(k.path)] = data[SchemaKey(k.path)]
        BY <1>2, <1>3, <3>3 DEF IsRowEntry
      <4> QED BY <3>1, <3>3, <4>1 DEF IsRowEntry
    <3> QED BY <3>1, <3>2, <3>3 DEF DataOK
  <2> QED BY <1>2, <2>1 DEF DataOK
<1>5. RowsIn(new, t) = T!Without(RowsIn(data, t), pk)
  <2>1. PICK f : f = T!Without(RowsIn(data, t), pk)
    OBVIOUS
  <2>2. /\ f = [qk \in DOMAIN f |-> f[qk]] /\ DOMAIN f = DOMAIN RowsIn(data, t) \ {pk}
        /\ \A qk \in DOMAIN f : f[qk] = RowsIn(data, t)[qk]
    BY <2>1 DEF T!Without
  <2>3. ASSUME NEW qk PROVE qk \in DOMAIN f <=> RowKey(t, qk) \in DOMAIN new
    <3>1. qk \in DOMAIN RowsIn(data, t) <=> RowKey(t, qk) \in DOMAIN data
      BY RowsAre
    <3> QED BY <1>2, <1>3, <2>2, <3>1
  <2>4. ASSUME NEW qk \in DOMAIN f PROVE f[qk] = new[RowKey(t, qk)]
    <3>1. qk \in DOMAIN RowsIn(data, t) /\ f[qk] = RowsIn(data, t)[qk]
      BY <2>2
    <3>2. f[qk] = data[RowKey(t, qk)]
      BY <3>1, RowsAre
    <3> QED BY <1>2, <2>3, <3>2
  <2>5. RowsIn(new, t) = f
    BY <1>4, <2>2, <2>3, <2>4, RowsMade
  <2> QED BY <2>1, <2>5
<1>6. TablesIn(new) = [TablesIn(data) EXCEPT ![t].rows = RowsIn(new, t)]
  <2>1. \A u : SchemaKey(u) \in DOMAIN new <=> SchemaKey(u) \in DOMAIN data
    BY <1>2, <1>3
  <2>2. \A u : SchemaKey(u) \in DOMAIN data => new[SchemaKey(u)] = data[SchemaKey(u)]
    BY <1>2, <1>3
  <2>3. \A u, qk : u # t => (RowKey(u, qk) \in DOMAIN new <=> RowKey(u, qk) \in DOMAIN data)
    BY <1>2, <1>3
  <2>4. \A u, qk : u # t /\ RowKey(u, qk) \in DOMAIN data =>
                     new[RowKey(u, qk)] = data[RowKey(u, qk)]
    BY <1>2, <1>3
  <2> QED BY <1>4, <2>1, <2>2, <2>3, <2>4, RowsChanged
<1>7. TablesIn(data)[t].rows = RowsIn(data, t)
  BY TableFields
<1> QED BY <1>4, <1>5, <1>6, <1>7

(* The outcome o of a command is what Table makes of it. *)
Simulates(data, cmd, o) ==
  /\ o.tag \in {"ok", "err"}
  /\ o.tag = "err" <=> T!Breaks(TablesIn(data), cmd)
  /\ o.tag = "ok" => /\ o.resp \in {"ok", "error"}
                     /\ o.resp = "ok" <=> T!Accepts(TablesIn(data), cmd)
                     /\ DataOK(o.data)
                     /\ SameSchemas(TablesIn(o.data), T!Step(TablesIn(data), cmd))
                     /\ PrefixFree => TablesIn(o.data) = T!Step(TablesIn(data), cmd)

LEMMA Refuses ==
  ASSUME NEW data, DataOK(data), NEW cmd, ~T!Accepts(TablesIn(data), cmd),
         ~T!Breaks(TablesIn(data), cmd)
  PROVE  Simulates(data, cmd, Refuse(data))
<1>1. PICK o : o = Refuse(data)
  OBVIOUS
<1>2. o.tag = "ok" /\ o.resp = "error" /\ o.data = data
  BY <1>1 DEF Refuse, Outcome
<1>3. T!Step(TablesIn(data), cmd) = TablesIn(data)
  BY DEF T!Step
<1> QED BY <1>1, <1>2, <1>3 DEF Simulates, SameSchemas

LEMMA Does ==
  ASSUME NEW data, NEW cmd, T!Accepts(TablesIn(data), cmd),
         ~T!Breaks(TablesIn(data), cmd), NEW new, DataOK(new),
         SameSchemas(TablesIn(new), T!Effect(TablesIn(data), cmd)),
         PrefixFree => TablesIn(new) = T!Effect(TablesIn(data), cmd)
  PROVE  Simulates(data, cmd, Outcome("ok", new))
<1>1. PICK o : o = Outcome("ok", new)
  OBVIOUS
<1>2. o.tag = "ok" /\ o.resp = "ok" /\ o.data = new
  BY <1>1 DEF Outcome
<1>3. T!Step(TablesIn(data), cmd) = T!Effect(TablesIn(data), cmd)
  BY DEF T!Step
<1> QED BY <1>1, <1>2, <1>3 DEF Simulates

LEMMA CreateSimulates ==
  ASSUME NEW data, DataOK(data), NEW cmd, cmd.op = "create_table",
         IsSchema(cmd.schema), cmd.schema.name \in Names
  PROVE  Simulates(data, cmd, Apply(data, cmd))
<1>1. PICK ts, t, schema : ts = TablesIn(data) /\ schema = cmd.schema /\ t = schema.name
  OBVIOUS
<1>2. Apply(data, cmd) = ApplyCreateTable(data, schema)
  BY <1>1 DEF Apply
<1>3. ~T!Breaks(ts, cmd) /\ (T!Accepts(ts, cmd) <=> t \notin DOMAIN ts)
  BY <1>1 DEF T!Breaks, T!Accepts
<1>4. CASE t \in DOMAIN ts
  <2>1. Exists(data, t)
    BY <1>1, <1>4, Loaded DEF Exists
  <2>2. Apply(data, cmd) = Refuse(data)
    BY <1>1, <1>2, <2>1 DEF ApplyCreateTable
  <2> QED BY <1>1, <1>3, <1>4, <2>2, Refuses
<1>5. CASE t \notin DOMAIN ts
  <2>1. ~Exists(data, t)
    BY <1>1, <1>5, Loaded DEF Exists
  <2>2. PICK new : new = StorePut(data, SchemaKey(t), schema)
    OBVIOUS
  <2>3. Apply(data, cmd) = Outcome("ok", new)
    BY <1>1, <1>2, <2>1, <2>2 DEF ApplyCreateTable
  <2>4. /\ DataOK(new)
        /\ TablesIn(new) = T!Map(ts, t, [schema |-> schema, rows |-> T!NoTables])
    BY <1>1, <1>5, <2>2, CreateApplied
  <2>5. TablesIn(new) = T!Effect(ts, cmd)
    BY <1>1, <2>4 DEF T!Effect
  <2>6. SameSchemas(TablesIn(new), T!Effect(ts, cmd))
    BY <2>5 DEF SameSchemas
  <2>7. DataOK(new) /\ T!Accepts(ts, cmd) /\ ~T!Breaks(ts, cmd)
    BY <1>3, <1>5, <2>4
  <2> QED BY <1>1, <2>3, <2>5, <2>6, <2>7, Does
<1> QED BY <1>4, <1>5

LEMMA DropSimulates ==
  ASSUME NEW data, DataOK(data), NEW cmd, cmd.op = "drop_table", cmd.table \in Names
  PROVE  Simulates(data, cmd, Apply(data, cmd))
<1>1. PICK ts, t : ts = TablesIn(data) /\ t = cmd.table
  OBVIOUS
<1>2. Apply(data, cmd) = ApplyDropTable(data, t)
  BY <1>1 DEF Apply
<1>3. ~T!Breaks(ts, cmd) /\ (T!Accepts(ts, cmd) <=> t \in DOMAIN ts)
  BY <1>1 DEF T!Breaks, T!Accepts
<1>4. LoadSchema(data, t) = None <=> t \notin DOMAIN ts
  BY <1>1, Loaded
<1>5. CASE t \notin DOMAIN ts
  <2>1. Apply(data, cmd) = Refuse(data)
    BY <1>2, <1>4, <1>5 DEF ApplyDropTable
  <2> QED BY <1>1, <1>3, <1>5, <2>1, Refuses
<1>6. CASE t \in DOMAIN ts
  <2>1. PICK new : new = [k \in DOMAIN data \ ({SchemaKey(t)} \cup ScanPrefix(data, RowPrefix(t)))
                            |-> data[k]]
    OBVIOUS
  <2>2. Apply(data, cmd) = Outcome("ok", new)
    BY <1>2, <1>4, <1>6, <2>1 DEF ApplyDropTable
  <2>3. /\ DataOK(new) /\ SameSchemas(TablesIn(new), T!Without(ts, t))
        /\ PrefixFree => TablesIn(new) = T!Without(ts, t)
    BY <1>1, <2>1, DropApplied
  <2>4. T!Effect(ts, cmd) = T!Without(ts, t)
    BY <1>1 DEF T!Effect
  <2> QED BY <1>1, <1>3, <1>6, <2>2, <2>3, <2>4, Does
<1> QED BY <1>5, <1>6

LEMMA PutSimulates ==
  ASSUME NEW data, DataOK(data), NEW cmd, cmd.op = "put", IsStored(cmd.row)
  PROVE  Simulates(data, cmd, Apply(data, cmd))
<1>1. PICK ts, t, row, schema :
        ts = TablesIn(data) /\ t = cmd.table /\ row = cmd.row /\ schema = LoadSchema(data, t)
  OBVIOUS
<1>2. Apply(data, cmd) = ApplyPut(data, t, row)
  BY <1>1 DEF Apply
<1>3. /\ schema = None <=> t \notin DOMAIN ts
      /\ t \in DOMAIN ts => schema = ts[t].schema /\ IsSchema(schema)
  BY <1>1, Loaded
<1>4. T!Accepts(ts, cmd) <=> T!Fits(ts, cmd) /\ ~T!Breaks(ts, cmd)
  BY DEF T!Accepts
<1>5. T!Fits(ts, cmd) <=> schema # None /\ Len(row) = Len(schema.columns)
  BY <1>1, <1>3 DEF T!Fits
<1>6. T!Breaks(ts, cmd) <=> T!Fits(ts, cmd) /\ ~HasPk(schema)
  <2>1. t \in DOMAIN ts =>
          (HasPk(schema) <=> ToSet(ts[t].schema.primary_key) \subseteq T!Columns(ts[t].schema))
    BY <1>3, PkFound
  <2> QED BY <1>1, <2>1 DEF T!Breaks, T!Fits, ToSet, T!ToSet
<1>7. CASE ~T!Fits(ts, cmd)
  <2>1. Apply(data, cmd) = Refuse(data)
    BY <1>1, <1>2, <1>5, <1>7 DEF ApplyPut
  <2> QED BY <1>1, <1>4, <1>6, <1>7, <2>1, Refuses
<1>8. CASE T!Fits(ts, cmd) /\ ~HasPk(schema)
  <2>1. Apply(data, cmd) = Err(data)
    BY <1>1, <1>2, <1>5, <1>8 DEF ApplyPut
  <2>2. Err(data).tag = "err"
    BY DEF Err
  <2> QED BY <1>1, <1>6, <1>8, <2>1, <2>2 DEF Simulates
<1>9. CASE T!Fits(ts, cmd) /\ HasPk(schema)
  <2>1. t \in DOMAIN ts /\ IsSchema(schema) /\ schema = ts[t].schema
    BY <1>3, <1>5, <1>9
  <2>2. PICK pk, new : pk = ExtractPk(schema, row) /\ new = StorePut(data, RowKey(t, pk), row)
    OBVIOUS
  <2>3. Apply(data, cmd) = Outcome("ok", new)
    BY <1>1, <1>2, <1>5, <1>9, <2>2 DEF ApplyPut
  <2>4. DataOK(new) /\ TablesIn(new) = [ts EXCEPT ![t].rows = T!Map(ts[t].rows, pk, row)]
    <3>1. data[SchemaKey(t)] = schema
      BY <1>1, <2>1, Loaded
    <3>2. RowFits(data[SchemaKey(t)], pk, row)
      BY <1>5, <1>9, <2>2, <3>1 DEF RowFits
    <3> QED BY <1>1, <2>1, <2>2, <3>2, PutApplied
  <2>5. pk = T!PkOf(ts[t].schema, row)
    BY <1>9, <2>1, <2>2, PkExtracted
  <2>6. TablesIn(new) = T!Effect(ts, cmd)
    BY <1>1, <2>1, <2>4, <2>5 DEF T!Effect
  <2>7. SameSchemas(TablesIn(new), T!Effect(ts, cmd))
    BY <2>6 DEF SameSchemas
  <2>8. DataOK(new) /\ T!Accepts(ts, cmd) /\ ~T!Breaks(ts, cmd)
    BY <1>4, <1>6, <1>9, <2>4
  <2> QED BY <1>1, <2>3, <2>6, <2>7, <2>8, Does
<1> QED BY <1>7, <1>8, <1>9

LEMMA DeleteSimulates ==
  ASSUME NEW data, DataOK(data), NEW cmd, cmd.op = "delete"
  PROVE  Simulates(data, cmd, Apply(data, cmd))
<1>1. PICK ts, t : ts = TablesIn(data) /\ t = cmd.table
  OBVIOUS
<1>2. Apply(data, cmd) = ApplyDelete(data, t, cmd.key)
  BY <1>1 DEF Apply
<1>3. ~T!Breaks(ts, cmd) /\ (T!Accepts(ts, cmd) <=> t \in DOMAIN ts)
  BY <1>1 DEF T!Breaks, T!Accepts
<1>4. LoadSchema(data, t) = None <=> t \notin DOMAIN ts
  BY <1>1, Loaded
<1>5. CASE t \notin DOMAIN ts
  <2>1. Apply(data, cmd) = Refuse(data)
    BY <1>2, <1>4, <1>5 DEF ApplyDelete
  <2> QED BY <1>1, <1>3, <1>5, <2>1, Refuses
<1>6. CASE t \in DOMAIN ts
  <2>1. PICK new : new = StoreDelete(data, RowKey(t, cmd.key))
    OBVIOUS
  <2>2. Apply(data, cmd) = Outcome("ok", new)
    BY <1>2, <1>4, <1>6, <2>1 DEF ApplyDelete
  <2>3. DataOK(new) /\ TablesIn(new) = [ts EXCEPT ![t].rows = T!Without(ts[t].rows, cmd.key)]
    BY <1>1, <1>6, <2>1, DeleteApplied
  <2>4. TablesIn(new) = T!Effect(ts, cmd)
    BY <1>1, <2>3 DEF T!Effect
  <2>5. SameSchemas(TablesIn(new), T!Effect(ts, cmd))
    BY <2>4 DEF SameSchemas
  <2>6. DataOK(new) /\ T!Accepts(ts, cmd) /\ ~T!Breaks(ts, cmd)
    BY <1>3, <1>6, <2>3
  <2> QED BY <1>1, <2>2, <2>4, <2>5, <2>6, Does
<1> QED BY <1>5, <1>6

LEMMA ApplySimulates ==
  ASSUME NEW data, DataOK(data), NEW cmd \in Command
  PROVE  Simulates(data, cmd, Apply(data, cmd))
BY CommandCases, CreateSimulates, DropSimulates, PutSimulates, DeleteSimulates

-------------------------------------------------------------------------------
(* Types *)

LEMMA InitIndInv == Init => IndInv
<1> SUFFICES ASSUME Init PROVE IndInv
  OBVIOUS
<1> USE DEF Init
<1>1. Len(log) = 0 /\ log \in Seq(Command)
  OBVIOUS
<1>2. \A r \in Replica : store[r] = [data |-> EmptyStore, cursor |-> 1]
  OBVIOUS
<1>3. DOMAIN EmptyStore = {} /\ EmptyStore = [k \in DOMAIN EmptyStore |-> EmptyStore[k]]
  BY DEF EmptyStore
<1>4. \A r \in Replica : store[r].data = EmptyStore /\ store[r].cursor = 1
  BY <1>2
<1>5. TypeOK
  <2>1. MaxWrites \in Nat
    BY BoundsAssumption
  <2>2. loop \in [Replica -> [client : Client \cup {NoOne}, target : 0..MaxWrites,
                              resp : {"none", "ok", "error"}]]
    BY <2>1 DEF Idle
  <2>3. known \in [Client -> 0..MaxWrites] /\ finished \in 0..Len(log)
    BY <1>1, <2>1
  <2>4. \A r \in Replica : /\ store[r].cursor \in 1..(Len(log) + 1)
                           /\ \A k \in DOMAIN store[r].data :
                                \/ k.space = "schema"
                                \/ k.space = "data" /\ IsStored(store[r].data[k])
    BY <1>1, <1>3, <1>4
  <2>5. \A c \in Client : call[c] \in Request \cup {NoCall}
    OBVIOUS
  <2>6. out.status = "none"
    BY DEF NoOut
  <2> QED BY <1>1, <2>2, <2>3, <2>4, <2>5, <2>6 DEF TypeOK
<1>6. Shape
  BY <1>2 DEF Shape
<1>7. StoresOK
  BY <1>3, <1>4 DEF StoresOK, DataOK
<1>8. CallsOK
  BY DEF CallsOK
<1>9. LoopsOK
  BY DEF LoopsOK
<1>10. RoomOK
  <2>1. Unlogged = {}
    BY DEF Unlogged
  <2> QED BY <1>1, <2>1, FS_EmptySet, BoundsAssumption DEF RoomOK
<1>11. KnownOK
  BY <1>1 DEF KnownOK
<1> QED BY <1>5, <1>6, <1>7, <1>8, <1>9, <1>10, <1>11 DEF IndInv

LEMMA UnloggedFinite ==
  /\ Unlogged \subseteq Client /\ IsFiniteSet(Unlogged) /\ Cardinality(Unlogged) \in Nat
  /\ Unlogged' \subseteq Client /\ IsFiniteSet(Unlogged') /\ Cardinality(Unlogged') \in Nat
<1>1. Unlogged \subseteq Client /\ Unlogged' \subseteq Client
  BY DEF Unlogged
<1> QED BY <1>1, ClientAssumption, FS_Subset, FS_CardinalityType

(* A step that adds no call to the ones on their way to the log keeps room. *)
LEMMA RoomKept ==
  ASSUME IndInv, Unlogged' \subseteq Unlogged, log' = log
  PROVE  RoomOK'
<1>1. Cardinality(Unlogged') <= Cardinality(Unlogged)
  BY UnloggedFinite, FS_Subset
<1>2. Len(log) \in Nat /\ MaxWrites \in Nat
  BY BoundsAssumption DEF IndInv, TypeOK
<1> QED BY <1>1, <1>2, UnloggedFinite DEF IndInv, RoomOK

(* What a response leaves of a call. *)
LEMMA Responded ==
  ASSUME IndInv, NEW c \in Client, NEW status, NEW rows, Respond(c, status, rows),
         status \in {"ok", "invalid_argument", "internal"}, log' = log
  PROVE  /\ pc' \in [Client -> {"idle", "sent", "serving", "reading"}]
         /\ call' \in [Client -> Request \cup {NoCall}]
         /\ known' \in [Client -> 0..MaxWrites]
         /\ out'.status \in {"none", "ok", "invalid_argument", "internal"}
         /\ CallsOK' /\ KnownOK' /\ RoomOK'
         /\ \A d \in Client : d # c => pc'[d] = pc[d] /\ call'[d] = call[d] /\ known'[d] = known[d]
         /\ pc'[c] = "idle" /\ out'.to = c /\ out'.status = status /\ out'.rows = rows
<1> USE DEF IndInv, TypeOK, Shape
<1>1. MaxWrites \in Nat /\ Len(log) \in Nat
  BY BoundsAssumption
<1>2. /\ pc' = [pc EXCEPT ![c] = "idle"] /\ call' = [call EXCEPT ![c] = NoCall]
      /\ known' = [known EXCEPT ![c] = 0]
      /\ out' = [to |-> c, status |-> status, rows |-> rows]
  BY DEF Respond
<1>3. pc' \in [Client -> {"idle", "sent", "serving", "reading"}]
  BY <1>2
<1>4. call' \in [Client -> Request \cup {NoCall}]
  BY <1>2
<1>5. known' \in [Client -> 0..MaxWrites]
  BY <1>1, <1>2
<1>6. \A d \in Client : d # c => pc'[d] = pc[d] /\ call'[d] = call[d] /\ known'[d] = known[d]
  BY <1>2
<1>7. pc'[c] = "idle" /\ known'[c] = 0
  BY <1>2
<1>8. out'.to = c /\ out'.status = status /\ out'.rows = rows
  BY <1>2
<1>9. CallsOK'
  BY <1>6, <1>7 DEF CallsOK, WellFormed
<1>10. KnownOK'
  BY <1>1, <1>6, <1>7 DEF KnownOK
<1>11. RoomOK'
  <2>1. Unlogged' \subseteq Unlogged
    BY <1>6, <1>7 DEF Unlogged, Writing
  <2> QED BY <2>1, RoomKept
<1> QED BY <1>3, <1>4, <1>5, <1>6, <1>7, <1>8, <1>9, <1>10, <1>11

CursorsOK == \A r \in Replica : store[r].cursor \in 1..(Len(log) + 1)
LoopsTyped == loop \in [Replica -> [client : Client \cup {NoOne}, target : 0..MaxWrites,
                                    resp : {"none", "ok", "error"}]]
PcTyped == pc \in [Client -> {"idle", "sent", "serving", "reading"}]
KnownTyped == known \in [Client -> 0..MaxWrites]
OutTyped == out.status \in {"none", "ok", "invalid_argument", "internal"}

(* The types follow from the rest of the invariant and these parts. *)
LEMMA IndInvMade ==
  ASSUME (log \in Seq(Command))', CursorsOK', LoopsTyped', PcTyped', KnownTyped', OutTyped',
         (finished \in 0..Len(log))', Shape', StoresOK', CallsOK', LoopsOK', RoomOK', KnownOK'
  PROVE  IndInv'
<1>1. ASSUME NEW r \in Replica, NEW k, k \in DOMAIN store'[r].data
      PROVE  \/ k.space = "schema"
             \/ k.space = "data" /\ IsStored(store'[r].data[k])
  <2>1. PICK data : data = store'[r].data
    OBVIOUS
  <2>2. DataOK(data)
    BY <2>1 DEF StoresOK
  <2> QED BY <1>1, <2>1, <2>2, KeyCases
<1>2. \A c \in Client : call'[c] \in Request \cup {NoCall}
  BY DEF Shape
<1>3. TypeOK'
  BY <1>1, <1>2 DEF TypeOK, CursorsOK, LoopsTyped, PcTyped, KnownTyped, OutTyped
<1> QED BY <1>3 DEF IndInv

LEMMA RefusedInd ==
  ASSUME IndInv, NEW c \in Client, NEW req \in Request, Refused(c, req)
  PROVE  IndInv'
<1>1. /\ UNCHANGED <<log, store, loop, pc, call, known, finished>>
      /\ out'.status = "invalid_argument"
  BY DEF Refused, clientVars
<1>2. OutTyped'
  BY <1>1 DEF OutTyped
<1>3. Unlogged' = Unlogged
  BY <1>1 DEF Unlogged, Writing
<1> QED BY <1>1, <1>2, <1>3, IndInvMade
    DEF IndInv, TypeOK, CursorsOK, LoopsTyped, PcTyped, KnownTyped, Shape, StoresOK, CallsOK,
        LoopsOK, Serving, RoomOK, KnownOK

LEMMA InvokeInd ==
  ASSUME IndInv, NEW c \in Client, NEW req \in Request, Invoke(c, req)
  PROVE  IndInv'
<1> USE DEF IndInv
<1>1. /\ pc[c] = "idle" /\ WellFormed(req)
      /\ IsWrite(req) => Len(log) + Cardinality(Unlogged) < MaxWrites
      /\ pc' = [pc EXCEPT ![c] = "sent"]
      /\ call' = [call EXCEPT ![c] = req]
      /\ known' = [known EXCEPT ![c] = finished]
      /\ out' = NoOut
      /\ UNCHANGED <<log, store, loop, finished>>
  BY DEF Invoke
<1>2. /\ MaxWrites \in Nat /\ Len(log) \in Nat /\ finished \in 0..Len(log)
      /\ pc \in [Client -> {"idle", "sent", "serving", "reading"}]
      /\ known \in [Client -> 0..MaxWrites] /\ call \in [Client -> Request \cup {NoCall}]
  BY BoundsAssumption DEF TypeOK, Shape
<1>3. /\ pc'[c] = "sent" /\ call'[c] = req /\ known'[c] = finished
      /\ \A d \in Client : d # c => pc'[d] = pc[d] /\ call'[d] = call[d] /\ known'[d] = known[d]
  BY <1>1, <1>2
<1>4. Len(log) <= MaxWrites
  BY <1>2, UnloggedFinite DEF RoomOK
<1>5. PcTyped' /\ KnownTyped'
  BY <1>1, <1>2, <1>4 DEF PcTyped, KnownTyped
<1>6. OutTyped'
  BY <1>1 DEF OutTyped, NoOut
<1>7. Shape'
  BY <1>1, <1>2 DEF Shape
<1>8. CallsOK'
  BY <1>1, <1>3 DEF CallsOK
<1>9. LoopsOK'
  <2> SUFFICES ASSUME NEW r \in Replica, loop[r] # Idle PROVE Serving(loop[r], r)'
    BY <1>1 DEF LoopsOK
  <2>1. Serving(loop[r], r)
    BY DEF LoopsOK
  <2>2. loop[r].client # c
    BY <1>1, <2>1 DEF Serving
  <2> QED BY <1>1, <1>3, <2>1, <2>2 DEF Serving
<1>10. RoomOK'
  <2>1. CASE IsWrite(req)
    <3>1. Unlogged' \subseteq Unlogged \cup {c} /\ c \notin Unlogged
      BY <1>1, <1>3 DEF Unlogged, Writing
    <3>2. Cardinality(Unlogged \cup {c}) = Cardinality(Unlogged) + 1 /\ IsFiniteSet(Unlogged \cup {c})
      BY <3>1, UnloggedFinite, FS_AddElement
    <3>3. Cardinality(Unlogged') <= Cardinality(Unlogged) + 1
      BY <3>1, <3>2, FS_Subset
    <3> QED BY <1>1, <1>2, <2>1, <3>3, UnloggedFinite DEF RoomOK
  <2>2. CASE ~IsWrite(req)
    <3>1. Unlogged' \subseteq Unlogged
      BY <1>1, <1>3, <2>2 DEF Unlogged, Writing
    <3> QED BY <1>1, <3>1, RoomKept
  <2> QED BY <2>1, <2>2
<1>11. KnownOK'
  BY <1>1, <1>2, <1>3 DEF KnownOK
<1> QED BY <1>1, <1>5, <1>6, <1>7, <1>8, <1>9, <1>10, <1>11, IndInvMade
    DEF TypeOK, CursorsOK, LoopsTyped, StoresOK

(* The engine takes a call: its client is served, and nobody else changes. *)
LEMMA ServeFacts ==
  ASSUME IndInv, NEW r \in Replica, NEW c \in Client, NEW n \in 0..MaxWrites, Serve(r, c, n),
         log' \in Seq(Command), Len(log') >= Len(log), n <= Len(log')
  PROVE  /\ LoopsTyped' /\ PcTyped' /\ KnownTyped' /\ OutTyped' /\ Shape' /\ StoresOK'
         /\ CallsOK' /\ LoopsOK' /\ KnownOK' /\ CursorsOK' /\ finished' \in 0..Len(log')
         /\ Unlogged' = Unlogged \ {c}
         /\ pc[c] = "sent" /\ loop[r] = Idle
<1> USE DEF IndInv
<1>1. /\ loop[r] = Idle /\ pc[c] = "sent" /\ Server[c] = r
      /\ loop' = [loop EXCEPT ![r] = [client |-> c, target |-> n, resp |-> "none"]]
      /\ pc' = [pc EXCEPT ![c] = "serving"]
      /\ out' = NoOut
      /\ UNCHANGED <<store, call, known, finished>>
  BY DEF Serve
<1>2. /\ Len(log) \in Nat /\ Len(log') \in Nat /\ finished \in 0..Len(log)
      /\ pc \in [Client -> {"idle", "sent", "serving", "reading"}]
      /\ known \in [Client -> 0..MaxWrites]
      /\ loop \in [Replica -> [client : Client \cup {NoOne}, target : 0..MaxWrites,
                               resp : {"none", "ok", "error"}]]
  BY DEF TypeOK
<1>3. pc'[c] = "serving" /\ \A d \in Client : d # c => pc'[d] = pc[d]
  BY <1>1, <1>2
<1>4. LoopsTyped'
  BY <1>1, <1>2 DEF LoopsTyped
<1>5. PcTyped' /\ KnownTyped' /\ Shape' /\ StoresOK'
  BY <1>1, <1>2 DEF PcTyped, KnownTyped, Shape, StoresOK
<1>6. OutTyped'
  BY <1>1 DEF OutTyped, NoOut
<1>7. CallsOK'
  BY <1>1, <1>3 DEF CallsOK
<1>8. LoopsOK'
  <2> SUFFICES ASSUME NEW s \in Replica, loop'[s] # Idle PROVE Serving(loop[s], s)'
    BY DEF LoopsOK
  <2>1. CASE s = r
    <3>1. loop'[s] = [client |-> c, target |-> n, resp |-> "none"]
      BY <1>1, <1>2, <2>1
    <3>2. loop'[s].client = c /\ loop'[s].target = n
      BY <3>1
    <3> QED BY <1>1, <1>2, <1>3, <2>1, <3>2 DEF Serving
  <2>2. CASE s # r
    <3>1. loop'[s] = loop[s]
      BY <1>1, <1>2, <2>2
    <3>2. Serving(loop[s], s)
      BY <3>1 DEF LoopsOK
    <3>3. loop[s].client # c
      BY <1>1, <3>2 DEF Serving
    <3> QED BY <1>2, <1>3, <3>1, <3>2, <3>3 DEF Serving
  <2> QED BY <2>1, <2>2
<1>9. KnownOK'
  <2>1. \A d \in Client : known[d] <= Len(log) /\ known[d] \in Nat
    BY <1>2 DEF KnownOK
  <2> QED BY <1>1, <1>2, <2>1 DEF KnownOK
<1>10. CursorsOK' /\ finished' \in 0..Len(log')
  BY <1>1, <1>2 DEF CursorsOK, TypeOK
<1>11. Unlogged' = Unlogged \ {c}
  BY <1>1, <1>3 DEF Unlogged, Writing
<1> QED BY <1>1, <1>4, <1>5, <1>6, <1>7, <1>8, <1>9, <1>10, <1>11

LEMMA ProposeInd ==
  ASSUME IndInv, NEW r \in Replica, NEW c \in Client, Propose(r, c)
  PROVE  IndInv'
<1>1. /\ Serve(r, c, Len(log) + 1) /\ Writing(c) /\ log' = Append(log, ToCommand(call[c]))
  BY DEF Propose
<1>2. pc[c] = "sent"
  BY <1>1 DEF Serve
<1>3. call[c] \in Request /\ WellFormed(call[c])
  BY <1>2 DEF IndInv, CallsOK
<1>4. ToCommand(call[c]) \in Command
  BY <1>1, <1>3 DEF Command, Writing
<1>5. log \in Seq(Command) /\ Len(log) \in Nat /\ MaxWrites \in Nat
  BY BoundsAssumption DEF IndInv, TypeOK
<1>6. log' \in Seq(Command) /\ Len(log') = Len(log) + 1
  BY <1>1, <1>4, <1>5
<1>7. c \in Unlogged
  BY <1>1, <1>2 DEF Unlogged
<1>8. /\ Cardinality(Unlogged \ {c}) = Cardinality(Unlogged) - 1
  BY <1>7, UnloggedFinite, FS_RemoveElement
<1>9. Cardinality(Unlogged) >= 1
  BY <1>7, UnloggedFinite, FS_EmptySet
<1>10. Len(log) + 1 \in 0..MaxWrites
  BY <1>5, <1>9, UnloggedFinite DEF IndInv, RoomOK
<1>11. /\ LoopsTyped' /\ PcTyped' /\ KnownTyped' /\ OutTyped' /\ Shape' /\ StoresOK'
       /\ CallsOK' /\ LoopsOK' /\ KnownOK' /\ CursorsOK' /\ finished' \in 0..Len(log')
       /\ Unlogged' = Unlogged \ {c}
  BY <1>1, <1>5, <1>6, <1>10, ServeFacts
<1>12. RoomOK'
  BY <1>5, <1>6, <1>8, <1>11, UnloggedFinite DEF IndInv, RoomOK
<1> QED BY <1>6, <1>11, <1>12, IndInvMade

LEMMA SyncInd ==
  ASSUME IndInv, NEW r \in Replica, NEW c \in Client, Sync(r, c)
  PROVE  IndInv'
<1>1. Serve(r, c, Len(log)) /\ log' = log
  BY DEF Sync, SyncTarget
<1>2. log \in Seq(Command) /\ Len(log) \in Nat /\ MaxWrites \in Nat
  BY BoundsAssumption DEF IndInv, TypeOK
<1>3. Len(log) \in 0..MaxWrites
  BY <1>2, UnloggedFinite DEF IndInv, RoomOK
<1>4. /\ LoopsTyped' /\ PcTyped' /\ KnownTyped' /\ OutTyped' /\ Shape' /\ StoresOK'
      /\ CallsOK' /\ LoopsOK' /\ KnownOK' /\ CursorsOK' /\ finished' \in 0..Len(log')
      /\ Unlogged' = Unlogged \ {c}
  BY <1>1, <1>2, <1>3, ServeFacts
<1>5. RoomOK'
  BY <1>1, <1>4, RoomKept
<1> QED BY <1>1, <1>2, <1>4, <1>5, IndInvMade

(* A loop that answers a call it does not serve, or gives up its own, is    *)
(* left as it should be.                                                    *)
LEMMA LoopsAfter ==
  ASSUME IndInv, NEW c \in Client, log' = log,
         \A d \in Client : d # c => pc'[d] = pc[d],
         \A r \in Replica : loop'[r] = Idle \/ (loop'[r] = loop[r] /\ loop[r].client # c)
  PROVE  LoopsOK'
<1> SUFFICES ASSUME NEW r \in Replica, loop'[r] # Idle PROVE Serving(loop[r], r)'
  BY DEF LoopsOK
<1>1. loop'[r] = loop[r] /\ loop[r].client # c
  OBVIOUS
<1>2. Serving(loop[r], r)
  BY <1>1 DEF IndInv, LoopsOK
<1> QED BY <1>1, <1>2 DEF Serving

LEMMA LogFailsInd ==
  ASSUME IndInv, NEW r \in Replica, NEW c \in Client, LogFails(r, c)
  PROVE  IndInv'
<1>1. /\ pc[c] = "sent" /\ Respond(c, "internal", {})
      /\ UNCHANGED <<log, store, loop, finished>>
  BY DEF LogFails, ToStatus
<1>2. /\ PcTyped' /\ call' \in [Client -> Request \cup {NoCall}] /\ KnownTyped' /\ OutTyped'
      /\ CallsOK' /\ KnownOK' /\ RoomOK'
      /\ \A d \in Client : d # c => pc'[d] = pc[d]
  BY <1>1, Responded DEF PcTyped, KnownTyped, OutTyped
<1>3. \A s \in Replica : loop[s] # Idle => loop[s].client # c
  BY <1>1 DEF IndInv, LoopsOK, Serving
<1>4. LoopsOK'
  BY <1>1, <1>2, <1>3, LoopsAfter
<1> QED BY <1>1, <1>2, <1>4, IndInvMade
    DEF IndInv, TypeOK, CursorsOK, LoopsTyped, Shape, StoresOK

LEMMA LoopInHand ==
  ASSUME IndInv, NEW r \in Replica, loop[r].client # NoOne
  PROVE  /\ loop[r] # Idle /\ Serving(loop[r], r) /\ loop[r].client \in Client
         /\ \A s \in Replica : s # r => loop[s] = Idle \/ loop[s].client # loop[r].client
<1>1. loop[r] # Idle
  BY DEF Idle
<1>2. Serving(loop[r], r)
  BY <1>1 DEF IndInv, LoopsOK
<1>3. ASSUME NEW s \in Replica, s # r, loop[s] # Idle PROVE loop[s].client # loop[r].client
  <2>1. Serving(loop[s], s)
    BY <1>3 DEF IndInv, LoopsOK
  <2> QED BY <1>2, <1>3, <2>1 DEF Serving
<1> QED BY <1>1, <1>2, <1>3 DEF Serving

LEMMA OutcomeOf ==
  ASSUME IndInv, NEW r \in Replica, Playing(r)
  PROVE  /\ Simulates(store[r].data, log[store[r].cursor], Outcomes(r))
         /\ log[store[r].cursor] \in Command
         /\ store[r].cursor \in 1..Len(log) /\ Len(log) \in Nat
         /\ loop[r].client \in Client /\ loop[r].target \in 0..Len(log)
<1>1. Serving(loop[r], r)
  BY LoopInHand DEF Playing
<1>2. /\ loop[r].target \in 0..Len(log) /\ loop[r].client \in Client
      /\ store[r].cursor \in 1..(Len(log) + 1)
      /\ store[r].cursor <= loop[r].target /\ Len(log) \in Nat /\ log \in Seq(Command)
  BY <1>1 DEF Serving, Playing, IndInv, TypeOK
<1>3. store[r].cursor \in 1..Len(log)
  BY <1>2
<1>4. log[store[r].cursor] \in Command
  BY <1>2, <1>3
<1>5. DataOK(store[r].data)
  BY DEF IndInv, StoresOK
<1> QED BY <1>2, <1>3, <1>4, <1>5, ApplySimulates DEF Outcomes

LEMMA ApplyOneInd ==
  ASSUME IndInv, NEW r \in Replica, ApplyOne(r)
  PROVE  IndInv'
<1> USE DEF IndInv
<1>1. /\ Playing(r) /\ Outcomes(r).tag = "ok"
      /\ store' = [store EXCEPT ![r] = [data |-> Outcomes(r).data, cursor |-> @.cursor + 1]]
      /\ loop' = [loop EXCEPT ![r].resp = Keeps(r, Outcomes(r).resp)]
      /\ out' = NoOut
      /\ UNCHANGED <<log, pc, call, known, finished>>
  BY DEF ApplyOne, clientVars
<1>2. PICK new, resp : new = Outcomes(r).data /\ resp = Outcomes(r).resp
  OBVIOUS
<1>3. /\ DataOK(new) /\ resp \in {"ok", "error"} /\ store[r].cursor \in 1..Len(log)
      /\ Len(log) \in Nat
  BY <1>1, <1>2, OutcomeOf DEF Simulates
<1>4. /\ store'[r] = [data |-> new, cursor |-> store[r].cursor + 1]
      /\ \A s \in Replica : s # r => store'[s] = store[s]
      /\ store' = [s \in Replica |-> store'[s]]
  BY <1>1, <1>2 DEF Shape
<1>5. CursorsOK'
  <2>1. store'[r].cursor = store[r].cursor + 1
    BY <1>4
  <2>2. \A s \in Replica : store[s].cursor \in 1..(Len(log) + 1)
    BY DEF TypeOK
  <2> QED BY <1>1, <1>3, <1>4, <2>1, <2>2 DEF CursorsOK
<1>6. StoresOK'
  <2>1. store'[r].data = new
    BY <1>4
  <2> QED BY <1>3, <1>4, <2>1 DEF StoresOK
<1>7. Shape'
  <2>1. \A s \in Replica : store[s] = [data |-> store[s].data, cursor |-> store[s].cursor]
    BY DEF Shape
  <2>2. \A s \in Replica : store'[s] = [data |-> store'[s].data, cursor |-> store'[s].cursor]
    BY <1>4, <2>1
  <2>3. store' = [s \in Replica |-> [data |-> store'[s].data, cursor |-> store'[s].cursor]]
    BY <1>4, <2>2
  <2> QED BY <1>1, <2>3 DEF Shape
<1>8. Keeps(r, resp) \in {"none", "ok", "error"}
  BY <1>3 DEF Keeps, TypeOK
<1>9. LoopsTyped'
  <2>1. PICK L : L = [client : Client \cup {NoOne}, target : 0..MaxWrites,
                      resp : {"none", "ok", "error"}]
    OBVIOUS
  <2>2. loop \in [Replica -> L] /\ loop[r] \in L
    BY <2>1 DEF TypeOK
  <2>3. PICK l : l = [loop[r] EXCEPT !.resp = Keeps(r, resp)]
    OBVIOUS
  <2>4. l \in L
    BY <1>8, <2>1, <2>2, <2>3
  <2>5. loop' = [loop EXCEPT ![r] = l]
    BY <1>1, <1>2, <2>3
  <2>6. loop' \in [Replica -> L]
    BY <2>2, <2>4, <2>5
  <2> QED BY <2>1, <2>6 DEF LoopsTyped
<1>10. LoopsOK'
  <2>1. /\ loop'[r].client = loop[r].client /\ loop'[r].target = loop[r].target
        /\ \A s \in Replica : s # r => loop'[s] = loop[s]
    BY <1>1 DEF TypeOK
  <2>2. Serving(loop[r], r)
    BY <1>1, LoopInHand DEF Playing
  <2>3. Serving(loop[r], r)'
    BY <1>1, <2>1, <2>2 DEF Serving
  <2>4. ASSUME NEW s \in Replica, s # r, loop'[s] # Idle PROVE Serving(loop[s], s)'
    <3>1. Serving(loop[s], s)
      BY <2>1, <2>4 DEF LoopsOK
    <3> QED BY <1>1, <2>1, <2>4, <3>1 DEF Serving
  <2> QED BY <2>3, <2>4 DEF LoopsOK
<1>11. OutTyped'
  BY <1>1 DEF OutTyped, NoOut
<1>12. RoomOK'
  <2>1. Unlogged' = Unlogged
    BY <1>1 DEF Unlogged, Writing
  <2> QED BY <1>1, <2>1 DEF RoomOK
<1> QED BY <1>1, <1>5, <1>6, <1>7, <1>9, <1>10, <1>11, <1>12, IndInvMade
    DEF TypeOK, PcTyped, KnownTyped, CallsOK, KnownOK

(* The loop answers the call in hand. *)
LEMMA Answered ==
  ASSUME IndInv, NEW r \in Replica, loop[r].client # NoOne, NEW status, NEW rows,
         Respond(loop[r].client, status, rows),
         status \in {"ok", "invalid_argument", "internal"},
         loop' = [loop EXCEPT ![r] = Idle], log' = log, store' = store,
         finished' \in 0..Len(log)
  PROVE  IndInv'
<1>1. PICK c \in Client : c = loop[r].client
  BY LoopInHand
<1>2. /\ PcTyped' /\ call' \in [Client -> Request \cup {NoCall}] /\ KnownTyped' /\ OutTyped'
      /\ CallsOK' /\ KnownOK' /\ RoomOK'
      /\ \A d \in Client : d # c => pc'[d] = pc[d]
  BY <1>1, Responded DEF PcTyped, KnownTyped, OutTyped
<1>3. /\ loop'[r] = Idle /\ \A s \in Replica : s # r => loop'[s] = loop[s]
  BY DEF IndInv, TypeOK
<1>4. LoopsOK'
  BY <1>1, <1>2, <1>3, LoopInHand, LoopsAfter
<1>5. LoopsTyped'
  <2>1. MaxWrites \in Nat
    BY BoundsAssumption
  <2>2. Idle \in [client : Client \cup {NoOne}, target : 0..MaxWrites,
                  resp : {"none", "ok", "error"}]
    BY <2>1 DEF Idle
  <2> HIDE DEF Idle
  <2> QED BY <2>2 DEF LoopsTyped, IndInv, TypeOK
<1> QED BY <1>2, <1>4, <1>5, IndInvMade DEF IndInv, TypeOK, CursorsOK, Shape, StoresOK

LEMMA ApplyFailsInd ==
  ASSUME IndInv, NEW r \in Replica, ApplyFails(r)
  PROVE  IndInv'
<1>1. ToStatus("InvalidOperation") = "invalid_argument"
  BY DEF ToStatus
<1> QED BY <1>1, Answered DEF ApplyFails, Playing, IndInv, TypeOK

LEMMA ReadFailsInd ==
  ASSUME IndInv, NEW r \in Replica, ReadFails(r)
  PROVE  IndInv'
<1>1. ToStatus("Internal") = "internal"
  BY DEF ToStatus
<1> QED BY <1>1, Answered DEF ReadFails, Playing, IndInv, TypeOK

LEMMA WriteReturnsInd ==
  ASSUME IndInv, NEW r \in Replica, WriteReturns(r)
  PROVE  IndInv'
<1>1. WriteStatus(loop[r].resp) \in {"ok", "invalid_argument", "internal"}
  BY DEF WriteStatus, ToStatus
<1>2. loop[r].target \in 0..Len(log) /\ finished \in 0..Len(log)
  BY LoopInHand DEF WriteReturns, Serving, IndInv, TypeOK
<1>3. finished' \in 0..Len(log)
  BY <1>2 DEF WriteReturns, Tells
<1> QED BY <1>1, <1>3, Answered DEF WriteReturns

LEMMA SyncReturnsInd ==
  ASSUME IndInv, NEW r \in Replica, SyncReturns(r)
  PROVE  IndInv'
<1> USE DEF IndInv
<1>1. /\ loop[r].client # NoOne
      /\ pc' = [pc EXCEPT ![loop[r].client] = "reading"]
      /\ loop' = [loop EXCEPT ![r] = Idle]
      /\ out' = NoOut
      /\ UNCHANGED <<log, store, call, known, finished>>
  BY DEF SyncReturns
<1>2. PICK c \in Client : c = loop[r].client
  BY <1>1, LoopInHand
<1>3. pc[c] = "serving"
  BY <1>1, <1>2, LoopInHand DEF Serving
<1>4. pc'[c] = "reading" /\ (\A d \in Client : d # c => pc'[d] = pc[d]) /\ PcTyped'
  BY <1>1, <1>2 DEF TypeOK, PcTyped
<1>5. /\ loop'[r] = Idle /\ \A s \in Replica : s # r => loop'[s] = loop[s]
  BY <1>1 DEF TypeOK
<1>6. LoopsOK'
  BY <1>1, <1>2, <1>4, <1>5, LoopInHand, LoopsAfter
<1>7. LoopsTyped'
  <2>1. MaxWrites \in Nat
    BY BoundsAssumption
  <2>2. Idle \in [client : Client \cup {NoOne}, target : 0..MaxWrites,
                  resp : {"none", "ok", "error"}]
    BY <2>1 DEF Idle
  <2> QED BY <1>1, <2>2 DEF LoopsTyped, TypeOK
<1>8. CallsOK'
  BY <1>1, <1>3, <1>4 DEF CallsOK
<1>9. RoomOK'
  <2>1. Unlogged' \subseteq Unlogged
    BY <1>1, <1>4 DEF Unlogged, Writing
  <2> QED BY <1>1, <2>1, RoomKept
<1>10. OutTyped'
  BY <1>1 DEF OutTyped, NoOut
<1> QED BY <1>1, <1>4, <1>6, <1>7, <1>8, <1>9, <1>10, IndInvMade
    DEF TypeOK, CursorsOK, KnownTyped, Shape, StoresOK, KnownOK

LEMMA ReadReturnsInd ==
  ASSUME IndInv, NEW c \in Client, ReadReturns(c)
  PROVE  IndInv'
<1>1. PICK rows : Respond(c, "ok", rows)
  BY DEF ReadReturns
<1>2. /\ pc[c] = "reading" /\ Tells(store[Server[c]].cursor - 1)
      /\ UNCHANGED <<log, store, loop>>
  BY DEF ReadReturns
<1>3. /\ PcTyped' /\ call' \in [Client -> Request \cup {NoCall}] /\ KnownTyped' /\ OutTyped'
      /\ CallsOK' /\ KnownOK' /\ RoomOK'
      /\ \A d \in Client : d # c => pc'[d] = pc[d]
  BY <1>1, <1>2, Responded DEF PcTyped, KnownTyped, OutTyped
<1>4. LoopsOK'
  <2>1. \A s \in Replica : loop[s] # Idle => loop[s].client # c
    BY <1>2 DEF IndInv, LoopsOK, Serving
  <2> QED BY <1>2, <1>3, <2>1, LoopsAfter
<1>5. finished' \in 0..Len(log)
  <2>1. Server[c] \in Replica
    BY ClientAssumption
  <2>2. /\ store[Server[c]].cursor \in 1..(Len(log) + 1) /\ finished \in 0..Len(log)
        /\ Len(log) \in Nat
    BY <2>1 DEF IndInv, TypeOK
  <2> QED BY <1>2, <2>2 DEF Tells
<1> QED BY <1>2, <1>3, <1>4, <1>5, IndInvMade
    DEF IndInv, TypeOK, CursorsOK, LoopsTyped, Shape, StoresOK

LEMMA NextIndInv == IndInv /\ [Next]_vars => IndInv'
<1> SUFFICES ASSUME IndInv, [Next]_vars PROVE IndInv'
  OBVIOUS
<1>1. CASE Next
  BY <1>1, RefusedInd, InvokeInd, ProposeInd, LogFailsInd, SyncInd, ApplyOneInd,
     ApplyFailsInd, ReadFailsInd, WriteReturnsInd, SyncReturnsInd, ReadReturnsInd DEF Next
<1>2. CASE UNCHANGED vars
  <2>1. UNCHANGED <<log, store, loop, pc, call, known, out, finished>>
    BY <1>2 DEF vars, clientVars
  <2>2. Unlogged' = Unlogged
    BY <2>1 DEF Unlogged, Writing
  <2> QED BY <2>1, <2>2 DEF IndInv, TypeOK, Shape, StoresOK, CallsOK, LoopsOK, Serving, RoomOK, KnownOK
<1> QED BY <1>1, <1>2

(* The state has its types, and a row in a replica's store holds no form of *)
(* null but the one the table knows, whatever the clients sent              *)
(* (grpc_service.rs:37-47).                                                 *)
THEOREM TypeCorrect == Spec => []TypeOK
<1>1. Spec => []IndInv
  BY InitIndInv, NextIndInv, PTL DEF Spec
<1>2. IndInv => TypeOK
  BY DEF IndInv
<1> QED BY <1>1, <1>2, PTL

(* No row outlives its table: a row in a store has a value for every column *)
(* of its table's present schema, and is under the primary key that schema  *)
(* gives it (applicator.rs:89-175). Holds whatever the tables are named.    *)
THEOREM RowsAlwaysBelong == Spec => []RowsBelong
<1>1. Spec => []IndInv
  BY InitIndInv, NextIndInv, PTL DEF Spec
<1>2. IndInv => RowsBelong
  <2> SUFFICES ASSUME IndInv, NEW r \in Replica, NEW data, data = store[r].data,
                      NEW k \in DOMAIN data, k.space = "data"
               PROVE  /\ LoadSchema(data, k.path) # None
                      /\ RowFits(LoadSchema(data, k.path), k.pk, data[k])
    BY DEF RowsBelong
  <2>1. DataOK(data)
    BY DEF IndInv, StoresOK
  <2>2. SchemaKey(k.path) \in DOMAIN data /\ RowFits(data[SchemaKey(k.path)], k.pk, data[k])
    BY <2>1, KeyCases
  <2>3. LoadSchema(data, k.path) = data[SchemaKey(k.path)] /\ LoadSchema(data, k.path) # None
    BY <2>1, <2>2, TablesAre, Loaded
  <2> QED BY <2>2, <2>3
<1> QED BY <1>1, <1>2, PTL

-------------------------------------------------------------------------------
(* A replica's store goes through the tables of Table *)

LEMMA EmptyTables == DataOK(EmptyStore) /\ TablesIn(EmptyStore) = T!NoTables
<1>1. DOMAIN EmptyStore = {} /\ EmptyStore = [k \in DOMAIN EmptyStore |-> EmptyStore[k]]
  BY DEF EmptyStore
<1>2. DataOK(EmptyStore)
  BY <1>1 DEF DataOK
<1>3. DOMAIN T!NoTables = {} /\ T!NoTables = [t \in DOMAIN T!NoTables |-> T!NoTables[t]]
  BY DEF T!NoTables
<1>4. TablesIn(EmptyStore) = T!NoTables
  BY <1>1, <1>2, <1>3, TablesMade
<1> QED BY <1>2, <1>4

LEMMA InitTables == Init => T!Init
<1> SUFFICES ASSUME Init PROVE T!Init
  OBVIOUS
<1>1. \A r \in Replica : store[r].data = EmptyStore
  BY DEF Init
<1> QED BY <1>1, EmptyTables DEF T!Init

(* What ApplyOne makes of the tables in a replica's store. *)
LEMMA TablesStep ==
  ASSUME IndInv, NEW r \in Replica, ApplyOne(r)
  PROVE  /\ SameSchemas(TablesIn(store'[r].data),
                        T!Step(TablesIn(store[r].data), log[store[r].cursor]))
         /\ PrefixFree => TablesIn(store'[r].data)
                            = T!Step(TablesIn(store[r].data), log[store[r].cursor])
         /\ store'[r].cursor = store[r].cursor + 1
         /\ \A s \in Replica : s # r => store'[s] = store[s]
<1>1. PICK new : new = Outcomes(r).data
  OBVIOUS
<1>2. /\ store'[r] = [data |-> new, cursor |-> store[r].cursor + 1]
      /\ \A s \in Replica : s # r => store'[s] = store[s]
  BY <1>1 DEF ApplyOne, IndInv, Shape
<1>3. store'[r].data = new /\ store'[r].cursor = store[r].cursor + 1
  BY <1>2
<1>4. Simulates(store[r].data, log[store[r].cursor], Outcomes(r))
  BY OutcomeOf DEF ApplyOne
<1>5. /\ SameSchemas(TablesIn(new), T!Step(TablesIn(store[r].data), log[store[r].cursor]))
      /\ PrefixFree => TablesIn(new) = T!Step(TablesIn(store[r].data), log[store[r].cursor])
  BY <1>1, <1>4 DEF ApplyOne, Simulates
<1> QED BY <1>2, <1>3, <1>5

LEMMA StoreMoves ==
  ASSUME [Next]_vars
  PROVE  store' = store \/ \E r \in Replica : ApplyOne(r)
BY DEF Next, Refused, Invoke, Propose, Serve, LogFails, Sync, ApplyFails, ReadFails, WriteReturns,
       SyncReturns, ReadReturns, vars

LEMMA NextTables ==
  ASSUME IndInv, PrefixFree, [Next]_vars
  PROVE  [T!Next]_([r \in Replica |-> TablesIn(store[r].data)])
<1> DEFINE ts == [r \in Replica |-> TablesIn(store[r].data)]
<1>1. CASE store' = store
  BY <1>1
<1>2. ASSUME NEW r \in Replica, ApplyOne(r) PROVE [T!Next]_ts
  <2>1. PICK cmd \in Command : cmd = log[store[r].cursor]
    BY <1>2, OutcomeOf DEF ApplyOne
  <2>2. /\ TablesIn(store'[r].data) = T!Step(TablesIn(store[r].data), cmd)
        /\ \A s \in Replica : s # r => store'[s] = store[s]
    BY <1>2, <2>1, TablesStep
  <2>3. ts' = [ts EXCEPT ![r] = T!Step(ts[r], cmd)]
    BY <2>2
  <2>4. ts = [s \in Replica |-> ts[s]]
    OBVIOUS
  <2>5. T!Next <=> /\ ts' # ts
                   /\ \E s \in Replica, d \in Command :
                        /\ T!Accepts(ts[s], d)
                        /\ ts' = [ts EXCEPT ![s] = T!Effect(ts[s], d)]
    BY DEF T!Next
  <2> HIDE DEF ts
  <2>6. CASE T!Accepts(ts[r], cmd)
    <3>1. ts' = [ts EXCEPT ![r] = T!Effect(ts[r], cmd)]
      BY <2>3, <2>6 DEF T!Step
    <3> QED BY <2>5, <2>6, <3>1
  <2>7. CASE ~T!Accepts(ts[r], cmd)
    <3>1. ts' = ts
      BY <2>3, <2>4, <2>7 DEF T!Step
    <3> QED BY <3>1
  <2> QED BY <2>6, <2>7
<1> QED BY <1>1, <1>2, StoreMoves

(* Every replica's flat store of keys is, entry by entry, the named tables  *)
(* of Table: no command touches a table but its own, and a table created    *)
(* again after a drop is empty (applicator.rs:89-175), as long as no name   *)
(* is the beginning of another.                                             *)
THEOREM TableImplemented == PrefixFree => (Spec => ImplementsTable)
<1> SUFFICES ASSUME PrefixFree PROVE Spec => ImplementsTable
  OBVIOUS
<1>1. Spec => []IndInv
  BY InitIndInv, NextIndInv, PTL DEF Spec
<1>2. IndInv /\ [Next]_vars => [T!Next]_([r \in Replica |-> TablesIn(store[r].data)])
  BY NextTables
<1> QED BY <1>1, <1>2, InitTables, PTL DEF Spec, ImplementsTable, T!Spec

-------------------------------------------------------------------------------
(* The tables after a prefix of the log *)

(* f[i] is the tables after the first i of n commands. *)
Runs(f, cmds, n) ==
  f = [i \in 0..n |-> IF i = 0 THEN T!NoTables ELSE T!Step(f[i - 1], cmds[i])]

LEMMA RunsExist ==
  ASSUME NEW cmds, NEW n \in Nat
  PROVE  \E f : Runs(f, cmds, n)
<1> DEFINE S == {k \in Nat : ~\E f : Runs(f, cmds, k)}
<1> SUFFICES ASSUME S # {} PROVE FALSE
  OBVIOUS
<1>1. PICK x \in S : \A y \in S : ~(y < x)
  <2>1. S \in SUBSET Nat
    OBVIOUS
  <2> HIDE DEF S
  <2> QED BY <2>1, LeastNat
<1>2. CASE x = 0
  <2> DEFINE g == [i \in 0..0 |-> T!NoTables]
  <2>1. \A i \in 0..0 : i = 0
    OBVIOUS
  <2>2. g = [i \in 0..0 |-> IF i = 0 THEN T!NoTables ELSE T!Step(g[i - 1], cmds[i])]
    BY <2>1
  <2>3. Runs(g, cmds, 0)
    BY <2>2 DEF Runs
  <2> QED BY <1>1, <1>2, <2>3
<1>3. CASE x # 0
  <2>1. x - 1 \in Nat /\ x - 1 < x /\ x \in Nat
    BY <1>3
  <2>2. PICK f : Runs(f, cmds, x - 1)
    BY <1>1, <2>1
  <2> DEFINE g == [i \in 0..x |-> IF i = 0 THEN T!NoTables ELSE T!Step(f[i - 1], cmds[i])]
  <2>3. \A i \in 0..(x - 1) : f[i] = IF i = 0 THEN T!NoTables ELSE T!Step(f[i - 1], cmds[i])
    BY <2>2 DEF Runs
  <2>4. \A i \in 0..(x - 1) : i \in 0..x
    BY <2>1
  <2>5. \A i \in 0..(x - 1) : g[i] = f[i]
    BY <2>3, <2>4
  <2>6. \A i \in 0..x : i = 0 \/ i - 1 \in 0..(x - 1)
    BY <2>1
  <2>7. \A i \in 0..x : g[i] = IF i = 0 THEN T!NoTables ELSE T!Step(g[i - 1], cmds[i])
    BY <2>5, <2>6
  <2>8. g = [i \in 0..x |-> IF i = 0 THEN T!NoTables ELSE T!Step(g[i - 1], cmds[i])]
    <3>1. g = [i \in 0..x |-> g[i]]
      OBVIOUS
    <3> HIDE DEF g
    <3> QED BY <2>7, <3>1
  <2>9. Runs(g, cmds, x)
    BY <2>8 DEF Runs
  <2> QED BY <1>1, <2>9
<1> QED BY <1>2, <1>3

LEMMA AfterRuns ==
  ASSUME NEW cmds, Len(cmds) \in Nat
  PROVE  \E f : Runs(f, cmds, Len(cmds)) /\ T!After(cmds) = f[Len(cmds)]
<1> DEFINE f == CHOOSE f : f = [i \in 0..Len(cmds) |->
                  IF i = 0 THEN T!NoTables ELSE T!Step(f[i - 1], cmds[i])]
<1>1. T!After(cmds) = f[Len(cmds)]
  BY DEF T!After
<1>2. PICK g : Runs(g, cmds, Len(cmds))
  BY RunsExist
<1>3. g = [i \in 0..Len(cmds) |-> IF i = 0 THEN T!NoTables ELSE T!Step(g[i - 1], cmds[i])]
  BY <1>2 DEF Runs
<1>4. f = [i \in 0..Len(cmds) |-> IF i = 0 THEN T!NoTables ELSE T!Step(f[i - 1], cmds[i])]
  BY <1>3
<1> HIDE DEF f
<1>5. Runs(f, cmds, Len(cmds))
  BY <1>4 DEF Runs
<1> QED BY <1>1, <1>5

(* Where two sequences have the same first commands, they give the same. *)
LEMMA RunsAgree ==
  ASSUME NEW f, NEW cmds, NEW m \in Nat, Runs(f, cmds, m),
         NEW g, NEW ds, NEW n \in Nat, Runs(g, ds, n), n <= m,
         \A i \in 1..n : cmds[i] = ds[i]
  PROVE  \A i \in 0..n : f[i] = g[i]
<1> DEFINE S == {k \in 0..n : f[k] # g[k]}
<1> SUFFICES ASSUME S # {} PROVE FALSE
  OBVIOUS
<1>1. PICK x \in S : \A y \in S : ~(y < x)
  <2>1. S \in SUBSET Nat
    OBVIOUS
  <2> HIDE DEF S
  <2> QED BY <2>1, LeastNat
<1>2. x \in 0..n /\ x \in 0..m /\ f[x] # g[x]
  BY <1>1
<1>3. /\ f[x] = IF x = 0 THEN T!NoTables ELSE T!Step(f[x - 1], cmds[x])
      /\ g[x] = IF x = 0 THEN T!NoTables ELSE T!Step(g[x - 1], ds[x])
  BY <1>2 DEF Runs
<1>4. x # 0
  BY <1>2, <1>3
<1>5. x - 1 \in 0..n /\ x - 1 < x /\ x \in 1..n
  BY <1>2, <1>4
<1>6. f[x - 1] = g[x - 1]
  BY <1>1, <1>5
<1> QED BY <1>2, <1>3, <1>4, <1>5, <1>6

(* TablesAt, one command after the other. *)
LEMMA TablesAtNext ==
  ASSUME log \in Seq(Command)
  PROVE  /\ TablesAt(0) = T!NoTables
         /\ \A n \in 1..Len(log) : TablesAt(n) = T!Step(TablesAt(n - 1), log[n])
<1>1. Len(log) \in Nat
  OBVIOUS
<1>2. PICK f : Runs(f, log, Len(log))
  BY <1>1, RunsExist
<1>3. ASSUME NEW n \in 0..Len(log) PROVE TablesAt(n) = f[n]
  <2>1. PICK p : p = SubSeq(log, 1, n)
    OBVIOUS
  <2>2. Len(p) = n /\ n \in Nat /\ \A i \in 1..n : log[i] = p[i]
    BY <1>1, <2>1
  <2>3. PICK g : Runs(g, p, n) /\ T!After(p) = g[n]
    BY <2>2, AfterRuns
  <2>4. f[n] = g[n]
    BY <1>1, <1>2, <2>2, <2>3, RunsAgree
  <2> QED BY <2>1, <2>3, <2>4 DEF TablesAt
<1>4. f[0] = T!NoTables /\ \A n \in 1..Len(log) : f[n] = T!Step(f[n - 1], log[n])
  BY <1>1, <1>2 DEF Runs
<1>5. 0 \in 0..Len(log) /\ \A n \in 1..Len(log) : n \in 0..Len(log) /\ n - 1 \in 0..Len(log)
  BY <1>1
<1> QED BY <1>3, <1>4, <1>5

(* What is appended later changes no earlier tables. *)
LEMMA TablesAtKept ==
  ASSUME log \in Seq(Command), NEW cmd,
         log' = log \/ (cmd \in Command /\ log' = Append(log, cmd))
  PROVE  /\ \A n \in 0..Len(log) : TablesAt(n)' = TablesAt(n)
         /\ \A n \in 0..Len(log) : Playable(n)' <=> Playable(n)
         /\ \A n \in 1..Len(log) : log'[n] = log[n]
         /\ log' \in Seq(Command) /\ Len(log') >= Len(log)
<1>1. Len(log) \in Nat
  OBVIOUS
<1>2. \A n \in 0..Len(log) : SubSeq(log', 1, n) = SubSeq(log, 1, n)
  <2>1. CASE cmd \in Command /\ log' = Append(log, cmd)
    <3> TAKE n \in 0..Len(log)
    <3>1. \A i \in 1..n : log'[i] = log[i]
      BY <1>1, <2>1
    <3>2. log' \in Seq(Command) /\ Len(log') = Len(log) + 1
      BY <2>1
    <3> QED BY <1>1, <3>1, <3>2
  <2> QED BY <2>1
<1>3. \A n \in 1..Len(log) : log'[n] = log[n]
  BY <1>1
<1>4. \A n \in 0..Len(log) : TablesAt(n)' = TablesAt(n)
  BY <1>2 DEF TablesAt
<1>5. ASSUME NEW n \in 0..Len(log) PROVE Playable(n)' <=> Playable(n)
  <2>1. \A i \in 1..n : i - 1 \in 0..Len(log) /\ i \in 1..Len(log)
    BY <1>1
  <2>2. Playable(n) <=> \A i \in 1..n : ~T!Breaks(TablesAt(i - 1), log[i])
    BY DEF Playable, TablesAt
  <2>3. Playable(n)' <=> \A i \in 1..n : ~T!Breaks(TablesAt(i - 1)', log'[i])
    BY DEF Playable, TablesAt
  <2> QED BY <1>3, <1>4, <2>1, <2>2, <2>3
<1>6. log' \in Seq(Command) /\ Len(log') >= Len(log)
  BY <1>1
<1> QED BY <1>3, <1>4, <1>5, <1>6

-------------------------------------------------------------------------------
(* Tables with the same schemas accept the same, and have them afterwards *)

LEMMA NoTablesSame == IsTables(T!NoTables) /\ SameSchemas(T!NoTables, T!NoTables)
BY DEF IsTables, SameSchemas, T!NoTables

LEMMA TablesInTables ==
  ASSUME NEW data, DataOK(data)
  PROVE  IsTables(TablesIn(data))
<1>1. PICK ts : ts = TablesIn(data)
  OBVIOUS
<1>2. ts = [t \in DOMAIN ts |-> TableIn(data, t)]
  BY <1>1, TablesAre
<1>3. \A t \in DOMAIN ts : ts[t] = [schema |-> ts[t].schema, rows |-> ts[t].rows]
  BY <1>2 DEF TableIn
<1>4. ts = [t \in DOMAIN ts |-> ts[t]]
  BY <1>2
<1>5. ts = [t \in DOMAIN ts |-> [schema |-> ts[t].schema, rows |-> ts[t].rows]]
  BY <1>3, <1>4
<1> QED BY <1>1, <1>5 DEF IsTables

LEMMA SameAnswers ==
  ASSUME NEW ts, NEW us, SameSchemas(ts, us), NEW cmd \in Command
  PROVE  /\ T!Breaks(ts, cmd) <=> T!Breaks(us, cmd)
         /\ T!Accepts(ts, cmd) <=> T!Accepts(us, cmd)
<1>1. T!Fits(ts, cmd) <=> T!Fits(us, cmd)
  BY DEF T!Fits, SameSchemas
<1>2. T!Breaks(ts, cmd) <=> T!Breaks(us, cmd)
  BY <1>1 DEF T!Breaks, T!Fits, SameSchemas
<1>3. CASE cmd.op = "create_table"
  BY <1>2, <1>3 DEF T!Accepts, SameSchemas
<1>4. CASE cmd.op = "put"
  BY <1>1, <1>2, <1>4 DEF T!Accepts
<1>5. CASE cmd.op \in {"drop_table", "delete"}
  BY <1>2, <1>5 DEF T!Accepts, SameSchemas
<1> QED BY <1>3, <1>4, <1>5, CommandCases

(* What the four effects do to the schemas. *)
LEMMA RowsOnly ==
  ASSUME NEW ts, IsTables(ts), NEW t, NEW rows, NEW es, es = [ts EXCEPT ![t].rows = rows]
  PROVE  IsTables(es) /\ SameSchemas(es, ts)
<1>1. /\ DOMAIN es = DOMAIN ts /\ es = [u \in DOMAIN es |-> es[u]]
      /\ \A u \in DOMAIN ts : u # t => es[u] = ts[u]
      /\ t \in DOMAIN ts => es[t] = [ts[t] EXCEPT !.rows = rows]
  BY DEF IsTables
<1>2. \A u \in DOMAIN ts : ts[u] = [schema |-> ts[u].schema, rows |-> ts[u].rows]
  BY DEF IsTables
<1>3. t \in DOMAIN ts => es[t] = [schema |-> ts[t].schema, rows |-> rows]
  <2> SUFFICES ASSUME t \in DOMAIN ts PROVE es[t] = [schema |-> ts[t].schema, rows |-> rows]
    OBVIOUS
  <2>1. PICK a, b : ts[t] = [schema |-> a, rows |-> b] /\ a = ts[t].schema
    BY <1>2
  <2> QED BY <1>1, <2>1
<1>4. \A u \in DOMAIN ts : es[u] = [schema |-> es[u].schema, rows |-> es[u].rows]
  BY <1>1, <1>2, <1>3
<1>5. es = [u \in DOMAIN es |-> [schema |-> es[u].schema, rows |-> es[u].rows]]
  BY <1>1, <1>4
<1>6. \A u \in DOMAIN es : es[u].schema = ts[u].schema
  BY <1>1, <1>3
<1> QED BY <1>1, <1>5, <1>6 DEF IsTables, SameSchemas

LEMMA Grown ==
  ASSUME NEW ts, IsTables(ts), NEW us, IsTables(us), SameSchemas(ts, us), NEW t, NEW schema,
         NEW rows, NEW x, x = [schema |-> schema, rows |-> rows]
  PROVE  IsTables(T!Map(us, t, x)) /\ SameSchemas(T!Map(ts, t, x), T!Map(us, t, x))
<1>1. PICK f, g : f = T!Map(ts, t, x) /\ g = T!Map(us, t, x)
  OBVIOUS
<1>2. /\ DOMAIN f = DOMAIN ts \cup {t} /\ DOMAIN g = DOMAIN us \cup {t} /\ f[t] = x /\ g[t] = x
      /\ \A u \in DOMAIN ts : u # t => f[u] = ts[u]
      /\ \A u \in DOMAIN us : u # t => g[u] = us[u]
      /\ g = [u \in DOMAIN g |-> g[u]]
  BY <1>1 DEF T!Map
<1>3. x = [schema |-> x.schema, rows |-> x.rows]
  OBVIOUS
<1>4. \A u \in DOMAIN us : us[u] = [schema |-> us[u].schema, rows |-> us[u].rows]
  BY DEF IsTables
<1>5. \A u \in DOMAIN g : g[u] = [schema |-> g[u].schema, rows |-> g[u].rows]
  BY <1>2, <1>3, <1>4
<1>6. IsTables(g)
  BY <1>2, <1>5 DEF IsTables
<1>7. SameSchemas(f, g)
  BY <1>2 DEF SameSchemas
<1> QED BY <1>1, <1>6, <1>7

LEMMA Shrunk ==
  ASSUME NEW ts, NEW us, IsTables(us), SameSchemas(ts, us), NEW t
  PROVE  IsTables(T!Without(us, t)) /\ SameSchemas(T!Without(ts, t), T!Without(us, t))
<1>1. PICK f, g : f = T!Without(ts, t) /\ g = T!Without(us, t)
  OBVIOUS
<1>2. /\ DOMAIN f = DOMAIN ts \ {t} /\ DOMAIN g = DOMAIN us \ {t}
      /\ \A u \in DOMAIN f : f[u] = ts[u]
      /\ \A u \in DOMAIN g : g[u] = us[u]
      /\ g = [u \in DOMAIN g |-> g[u]]
  BY <1>1 DEF T!Without
<1>3. \A u \in DOMAIN us : us[u] = [schema |-> us[u].schema, rows |-> us[u].rows]
  BY DEF IsTables
<1>4. \A u \in DOMAIN g : g[u] = [schema |-> g[u].schema, rows |-> g[u].rows]
  BY <1>2, <1>3
<1>5. IsTables(g)
  BY <1>2, <1>4 DEF IsTables
<1>6. SameSchemas(f, g)
  BY <1>2 DEF SameSchemas
<1> QED BY <1>1, <1>5, <1>6

LEMMA SameSteps ==
  ASSUME NEW ts, IsTables(ts), NEW us, IsTables(us), SameSchemas(ts, us), NEW cmd \in Command
  PROVE  IsTables(T!Step(us, cmd)) /\ SameSchemas(T!Step(ts, cmd), T!Step(us, cmd))
<1>1. T!Accepts(ts, cmd) <=> T!Accepts(us, cmd)
  BY SameAnswers
<1>2. CASE ~T!Accepts(us, cmd)
  BY <1>1, <1>2 DEF T!Step
<1>3. CASE T!Accepts(us, cmd)
  <2>1. T!Step(ts, cmd) = T!Effect(ts, cmd) /\ T!Step(us, cmd) = T!Effect(us, cmd)
    BY <1>1, <1>3 DEF T!Step
  <2>2. CASE cmd.op = "create_table"
    <3>1. PICK t, x : t = cmd.schema.name /\ x = [schema |-> cmd.schema, rows |-> T!NoTables]
      OBVIOUS
    <3>2. T!Effect(ts, cmd) = T!Map(ts, t, x) /\ T!Effect(us, cmd) = T!Map(us, t, x)
      BY <2>2, <3>1 DEF T!Effect
    <3> QED BY <2>1, <3>1, <3>2, Grown
  <2>3. CASE cmd.op = "drop_table"
    <3>1. T!Effect(ts, cmd) = T!Without(ts, cmd.table) /\ T!Effect(us, cmd) = T!Without(us, cmd.table)
      BY <2>3 DEF T!Effect
    <3> QED BY <2>1, <3>1, Shrunk
  <2>4. CASE cmd.op \in {"put", "delete"}
    <3>1. PICK es, fs : es = T!Effect(ts, cmd) /\ fs = T!Effect(us, cmd)
      OBVIOUS
    <3>2. PICK rows : es = [ts EXCEPT ![cmd.table].rows = rows]
      BY <2>4, <3>1 DEF T!Effect
    <3>3. PICK others : fs = [us EXCEPT ![cmd.table].rows = others]
      BY <2>4, <3>1 DEF T!Effect
    <3>4. SameSchemas(es, ts)
      BY <3>2, RowsOnly
    <3>5. IsTables(fs) /\ SameSchemas(fs, us)
      BY <3>3, RowsOnly
    <3> QED BY <2>1, <3>1, <3>4, <3>5 DEF SameSchemas
  <2> QED BY <2>2, <2>3, <2>4, CommandCases
<1> QED BY <1>2, <1>3

-------------------------------------------------------------------------------
(* A store holds what the log says *)

LEMMA InitHist == Init => HistInv
<1> SUFFICES ASSUME Init PROVE HistInv
  OBVIOUS
<1>1. log \in Seq(Command) /\ Len(log) = 0
  BY DEF Init
<1>2. \A r \in Replica : store[r].data = EmptyStore /\ store[r].cursor = 1
  BY DEF Init
<1>3. TablesIn(EmptyStore) = TablesAt(0)
  BY <1>1, EmptyTables, TablesAtNext
<1>4. Playable(0)
  <2>1. \A i : i \notin 1..0
    OBVIOUS
  <2> QED BY <2>1 DEF Playable
<1>5. \A r \in Replica : store[r].cursor - 1 = 0
  BY <1>2
<1>6. \A r \in Replica : Replayed(r)
  <2>1. TablesAt(0) = T!NoTables
    BY <1>1, TablesAtNext
  <2> QED BY <1>2, <1>3, <1>4, <1>5, <2>1, NoTablesSame DEF Replayed, Replays
<1>7. \A r \in Replica : LoopHist(r)
  BY DEF Init, Idle, LoopHist
<1>8. ReadsHist
  BY DEF Init, ReadsHist
<1> QED BY <1>6, <1>7, <1>8 DEF HistInv

(* The log only grows, by commands. *)
LogGrows == log' = log \/ \E cmd \in Command : log' = Append(log, cmd)

LEMMA LogKept ==
  ASSUME IndInv, LogGrows
  PROVE  /\ \A n \in 0..Len(log) : TablesAt(n)' = TablesAt(n) /\ (Playable(n)' <=> Playable(n))
         /\ \A n \in 1..Len(log) : log'[n] = log[n]
         /\ log' \in Seq(Command) /\ Len(log') >= Len(log)
<1>1. PICK cmd : log' = log \/ (cmd \in Command /\ log' = Append(log, cmd))
  BY DEF LogGrows
<1> QED BY <1>1, TablesAtKept DEF IndInv, TypeOK

LEMMA ReplayedKept ==
  ASSUME IndInv, LogGrows, NEW r \in Replica, Replayed(r), store'[r] = store[r]
  PROVE  Replayed(r)'
<1>1. store[r].cursor \in 1..(Len(log) + 1) /\ Len(log) \in Nat
  BY DEF IndInv, TypeOK
<1>2. PICK n \in 0..Len(log) : n = store[r].cursor - 1
  BY <1>1
<1>3. TablesAt(n)' = TablesAt(n) /\ (Playable(n)' <=> Playable(n))
  BY LogKept
<1>4. PICK ts : ts = TablesIn(store[r].data)
  OBVIOUS
<1>5. Replays(ts, n)
  BY <1>2, <1>4 DEF Replayed
<1>6. Replays(ts, n)'
  BY <1>3, <1>5 DEF Replays, IsTables, SameSchemas
<1>7. TablesIn(store[r].data)' = ts
  BY <1>4 DEF TablesIn
<1> QED BY <1>2, <1>6, <1>7 DEF Replayed

LEMMA LoopKept ==
  ASSUME IndInv, LogGrows, NEW r \in Replica, LoopHist(r), store'[r] = store[r],
         loop'[r] = loop[r],
         loop[r].client # NoOne => /\ call'[loop[r].client] = call[loop[r].client]
                                   /\ known'[loop[r].client] = known[loop[r].client]
  PROVE  LoopHist(r)'
<1> SUFFICES ASSUME loop[r].client # NoOne
             PROVE  LoopHist(r)'
  BY DEF LoopHist
<1>1. PICK c \in Client : c = loop[r].client
  BY LoopInHand
<1>2. PICK n : n = loop[r].target
  OBVIOUS
<1>3. /\ n \in 0..Len(log) /\ Len(log) \in Nat /\ known[c] \in Nat
      /\ store[r].cursor \in 1..(Len(log) + 1)
  BY <1>1, <1>2, LoopInHand DEF Serving, IndInv, TypeOK
<1>4. Writing(c)' <=> Writing(c)
  BY <1>1 DEF Writing
<1>5. CASE Writing(c)
  <2>1. Writes(loop[r], r)
    BY <1>1, <1>5 DEF LoopHist
  <2>2. /\ n > known[c] /\ log[n] = ToCommand(call[c])
        /\ store[r].cursor > n => (loop[r].resp # "error" <=> T!Accepts(TablesAt(n - 1), log[n]))
    BY <1>1, <1>2, <2>1 DEF Writes
  <2>3. n \in 1..Len(log) /\ n - 1 \in 0..Len(log)
    BY <1>3, <2>2
  <2>4. log'[n] = log[n] /\ TablesAt(n - 1)' = TablesAt(n - 1)
    BY <2>3, LogKept
  <2>5. Writes(loop[r], r)'
    BY <1>1, <1>2, <2>2, <2>4 DEF Writes
  <2> QED BY <1>1, <1>4, <1>5, <2>5 DEF LoopHist
<1>6. CASE ~Writing(c)
  BY <1>1, <1>4, <1>6 DEF LoopHist
<1> QED BY <1>5, <1>6

(* A step that answers or starts the call of c alone, and moves no store. *)
LEMMA HistKept ==
  ASSUME IndInv, HistInv, LogGrows, store' = store, NEW c \in Client,
         \A d \in Client : d # c => pc'[d] = pc[d] /\ call'[d] = call[d] /\ known'[d] = known[d],
         pc'[c] # "reading",
         \A r \in Replica : loop'[r] = Idle \/ (loop'[r] = loop[r] /\ loop[r].client # c)
                              \/ LoopHist(r)'
  PROVE  HistInv'
<1>1. ASSUME NEW r \in Replica PROVE Replayed(r)'
  BY ReplayedKept DEF HistInv
<1>2. ASSUME NEW r \in Replica PROVE LoopHist(r)'
  <2>1. CASE loop'[r] = Idle
    BY <2>1 DEF LoopHist, Idle
  <2>2. CASE loop'[r] = loop[r] /\ loop[r].client # c
    <3>1. loop[r].client # NoOne => loop[r].client \in Client
      BY LoopInHand
    <3> QED BY <2>2, <3>1, LoopKept DEF HistInv
  <2> QED BY <2>1, <2>2
<1>3. ReadsHist'
  BY DEF HistInv, ReadsHist, Writing
<1> QED BY <1>1, <1>2, <1>3 DEF HistInv

LEMMA NotServed ==
  ASSUME IndInv, NEW c \in Client, pc[c] # "serving", NEW r \in Replica
  PROVE  loop[r] = Idle \/ loop[r].client # c
BY DEF IndInv, LoopsOK, Serving

LEMMA RefusedHist ==
  ASSUME IndInv, HistInv, NEW c \in Client, NEW req \in Request, Refused(c, req)
  PROVE  HistInv'
<1>1. pc[c] = "idle" /\ UNCHANGED <<log, store, loop, pc, call, known>>
  BY DEF Refused, clientVars
<1>2. \A r \in Replica : loop[r] = Idle \/ loop[r].client # c
  BY <1>1, NotServed
<1> QED BY <1>1, <1>2, HistKept DEF LogGrows

LEMMA InvokeHist ==
  ASSUME IndInv, HistInv, NEW c \in Client, NEW req \in Request, Invoke(c, req)
  PROVE  HistInv'
<1>1. /\ pc[c] = "idle" /\ UNCHANGED <<log, store, loop>>
      /\ pc' = [pc EXCEPT ![c] = "sent"]
      /\ call' = [call EXCEPT ![c] = req]
      /\ known' = [known EXCEPT ![c] = finished]
  BY DEF Invoke
<1>2. \A r \in Replica : loop[r] = Idle \/ loop[r].client # c
  BY <1>1, NotServed
<1>3. /\ pc'[c] = "sent"
      /\ \A d \in Client : d # c => pc'[d] = pc[d] /\ call'[d] = call[d] /\ known'[d] = known[d]
  BY <1>1 DEF IndInv, TypeOK, Shape
<1> QED BY <1>1, <1>2, <1>3, HistKept DEF LogGrows

LEMMA ServeMoves ==
  ASSUME IndInv, NEW r \in Replica, NEW c \in Client, NEW n, Serve(r, c, n)
  PROVE  /\ pc[c] = "sent" /\ store' = store /\ pc'[c] = "serving"
         /\ \A d \in Client : d # c => pc'[d] = pc[d]
         /\ call' = call /\ known' = known
         /\ loop'[r].client = c /\ loop'[r].target = n
         /\ \A s \in Replica : s # r => loop'[s] = Idle \/ (loop'[s] = loop[s] /\ loop[s].client # c)
<1>1. /\ pc[c] = "sent" /\ UNCHANGED <<store, call, known>>
      /\ loop' = [loop EXCEPT ![r] = [client |-> c, target |-> n, resp |-> "none"]]
      /\ pc' = [pc EXCEPT ![c] = "serving"]
  BY DEF Serve
<1>2. /\ pc'[c] = "serving" /\ (\A d \in Client : d # c => pc'[d] = pc[d])
      /\ loop'[r] = [client |-> c, target |-> n, resp |-> "none"]
      /\ \A s \in Replica : s # r => loop'[s] = loop[s]
  BY <1>1 DEF IndInv, TypeOK
<1>3. \A s \in Replica : loop[s] = Idle \/ loop[s].client # c
  BY <1>1, NotServed
<1> QED BY <1>1, <1>2, <1>3

LEMMA ProposeHist ==
  ASSUME IndInv, HistInv, NEW r \in Replica, NEW c \in Client, Propose(r, c)
  PROVE  HistInv'
<1>1. PICK n, cmd : n = Len(log) + 1 /\ cmd = ToCommand(call[c])
  OBVIOUS
<1>2. Serve(r, c, n) /\ Writing(c) /\ log' = Append(log, cmd)
  BY <1>1 DEF Propose
<1>3. /\ pc[c] = "sent" /\ store' = store /\ pc'[c] = "serving"
      /\ \A d \in Client : d # c => pc'[d] = pc[d]
      /\ call' = call /\ known' = known
      /\ loop'[r].client = c /\ loop'[r].target = n
      /\ \A s \in Replica : s # r => loop'[s] = Idle \/ (loop'[s] = loop[s] /\ loop[s].client # c)
  BY <1>2, ServeMoves
<1>4. cmd \in Command
  BY <1>1, <1>2, <1>3 DEF IndInv, CallsOK, Command, Writing
<1>5. /\ log \in Seq(Command) /\ Len(log) \in Nat /\ known[c] \in Nat /\ known[c] <= Len(log)
      /\ store[r].cursor \in 1..(Len(log) + 1)
  BY DEF IndInv, TypeOK, KnownOK
<1>6. LoopHist(r)'
  <2>1. log'[n] = cmd
    BY <1>1, <1>2, <1>5
  <2>2. n > known[c] /\ ~(store[r].cursor > n)
    BY <1>1, <1>5
  <2>3. Writing(c)'
    BY <1>2, <1>3 DEF Writing
  <2>4. Writes(loop[r], r)'
    BY <1>1, <1>3, <2>1, <2>2 DEF Writes
  <2> QED BY <1>3, <2>3, <2>4 DEF LoopHist
<1>7. LogGrows
  BY <1>2, <1>4 DEF LogGrows
<1> QED BY <1>3, <1>6, <1>7, HistKept

LEMMA SyncHist ==
  ASSUME IndInv, HistInv, NEW r \in Replica, NEW c \in Client, Sync(r, c)
  PROVE  HistInv'
<1>1. PICK n : n = Len(log)
  OBVIOUS
<1>2. Serve(r, c, n) /\ ~Writing(c) /\ log' = log
  BY <1>1 DEF Sync, SyncTarget
<1>3. /\ pc[c] = "sent" /\ store' = store /\ pc'[c] = "serving"
      /\ \A d \in Client : d # c => pc'[d] = pc[d]
      /\ call' = call /\ known' = known
      /\ loop'[r].client = c /\ loop'[r].target = n
      /\ \A s \in Replica : s # r => loop'[s] = Idle \/ (loop'[s] = loop[s] /\ loop[s].client # c)
  BY <1>2, ServeMoves
<1>4. known[c] <= n /\ known[c] \in Nat /\ n \in Nat
  BY <1>1 DEF IndInv, TypeOK, KnownOK
<1>5. LoopHist(r)'
  <2>1. ~Writing(c)'
    BY <1>2, <1>3 DEF Writing
  <2> QED BY <1>3, <1>4, <2>1 DEF LoopHist
<1>6. LogGrows
  BY <1>2 DEF LogGrows
<1> QED BY <1>3, <1>5, <1>6, HistKept

LEMMA LogFailsHist ==
  ASSUME IndInv, HistInv, NEW r \in Replica, NEW c \in Client, LogFails(r, c)
  PROVE  HistInv'
<1>1. /\ pc[c] = "sent" /\ Respond(c, "internal", {})
      /\ UNCHANGED <<log, store, loop, finished>>
  BY DEF LogFails, ToStatus
<1>2. /\ \A d \in Client : d # c => pc'[d] = pc[d] /\ call'[d] = call[d] /\ known'[d] = known[d]
      /\ pc'[c] = "idle"
  BY <1>1, Responded
<1>3. \A s \in Replica : loop[s] = Idle \/ loop[s].client # c
  BY <1>1, NotServed
<1> QED BY <1>1, <1>2, <1>3, HistKept DEF LogGrows

LEMMA AnsweredHist ==
  ASSUME IndInv, HistInv, NEW r \in Replica, loop[r].client # NoOne, NEW status, NEW rows,
         Respond(loop[r].client, status, rows),
         status \in {"ok", "invalid_argument", "internal"},
         loop' = [loop EXCEPT ![r] = Idle], log' = log, store' = store
  PROVE  HistInv'
<1>1. PICK c \in Client : c = loop[r].client
  BY LoopInHand
<1>2. /\ \A d \in Client : d # c => pc'[d] = pc[d] /\ call'[d] = call[d] /\ known'[d] = known[d]
      /\ pc'[c] = "idle"
  BY <1>1, Responded
<1>3. loop'[r] = Idle /\ \A s \in Replica : s # r => loop'[s] = loop[s]
  BY DEF IndInv, TypeOK
<1>4. \A s \in Replica : s # r => loop[s] = Idle \/ loop[s].client # c
  BY <1>1, LoopInHand
<1> QED BY <1>2, <1>3, <1>4, HistKept DEF LogGrows

LEMMA ApplyFailsHist ==
  ASSUME IndInv, HistInv, NEW r \in Replica, ApplyFails(r)
  PROVE  HistInv'
<1>1. ToStatus("InvalidOperation") = "invalid_argument"
  BY DEF ToStatus
<1> QED BY <1>1, AnsweredHist DEF ApplyFails, Playing

LEMMA ReadFailsHist ==
  ASSUME IndInv, HistInv, NEW r \in Replica, ReadFails(r)
  PROVE  HistInv'
<1>1. ToStatus("Internal") = "internal"
  BY DEF ToStatus
<1> QED BY <1>1, AnsweredHist DEF ReadFails, Playing

LEMMA WriteReturnsHist ==
  ASSUME IndInv, HistInv, NEW r \in Replica, WriteReturns(r)
  PROVE  HistInv'
<1>1. WriteStatus(loop[r].resp) \in {"ok", "invalid_argument", "internal"}
  BY DEF WriteStatus, ToStatus
<1> QED BY <1>1, AnsweredHist DEF WriteReturns

LEMMA ReadReturnsHist ==
  ASSUME IndInv, HistInv, NEW c \in Client, ReadReturns(c)
  PROVE  HistInv'
<1>1. PICK rows : Respond(c, "ok", rows)
  BY DEF ReadReturns
<1>2. pc[c] = "reading" /\ UNCHANGED <<log, store, loop>>
  BY DEF ReadReturns
<1>3. /\ \A d \in Client : d # c => pc'[d] = pc[d] /\ call'[d] = call[d] /\ known'[d] = known[d]
      /\ pc'[c] = "idle"
  BY <1>1, <1>2, Responded
<1>4. \A s \in Replica : loop[s] = Idle \/ loop[s].client # c
  BY <1>2, NotServed
<1> QED BY <1>2, <1>3, <1>4, HistKept DEF LogGrows

(* A sync has its replica at the tail of the log it asked for. *)
LEMMA SyncReturnsHist ==
  ASSUME IndInv, HistInv, NEW r \in Replica, SyncReturns(r)
  PROVE  HistInv'
<1>1. /\ loop[r].client # NoOne /\ ~Playing(r) /\ ~Writing(loop[r].client)
      /\ pc' = [pc EXCEPT ![loop[r].client] = "reading"]
      /\ loop' = [loop EXCEPT ![r] = Idle]
      /\ UNCHANGED <<log, store, call, known, finished>>
  BY DEF SyncReturns
<1>2. PICK c \in Client : c = loop[r].client
  BY <1>1, LoopInHand
<1>3. pc'[c] = "reading" /\ \A d \in Client : d # c => pc'[d] = pc[d]
  BY <1>1, <1>2 DEF IndInv, TypeOK
<1>4. loop'[r] = Idle /\ \A s \in Replica : s # r => loop'[s] = loop[s]
  BY <1>1 DEF IndInv, TypeOK
<1>5. LogGrows
  BY <1>1 DEF LogGrows
<1>6. ASSUME NEW s \in Replica PROVE Replayed(s)' /\ LoopHist(s)'
  <2>1. Replayed(s)'
    BY <1>1, <1>5, ReplayedKept DEF HistInv
  <2>2. CASE s = r
    BY <1>4, <2>1, <2>2 DEF LoopHist, Idle
  <2>3. CASE s # r
    BY <1>1, <1>4, <1>5, <2>1, <2>3, LoopKept DEF HistInv
  <2> QED BY <2>2, <2>3
<1>7. known[c] < store[Server[c]].cursor
  <2>1. Server[c] = r /\ loop[r].target \in 0..Len(log)
    BY <1>1, <1>2, LoopInHand DEF Serving
  <2>2. loop[r].target >= known[c]
    BY <1>1, <1>2 DEF HistInv, LoopHist
  <2>3. ~(store[r].cursor <= loop[r].target)
    BY <1>1 DEF Playing
  <2>4. known[c] \in Nat /\ loop[r].target \in Nat /\ store[r].cursor \in Nat
    BY <2>1 DEF IndInv, TypeOK
  <2> QED BY <2>1, <2>2, <2>3, <2>4
<1>8. ReadsHist'
  BY <1>1, <1>2, <1>3, <1>7 DEF HistInv, ReadsHist, Writing
<1> QED BY <1>6, <1>8 DEF HistInv

LEMMA ApplyOneHist ==
  ASSUME IndInv, HistInv, NEW r \in Replica, ApplyOne(r)
  PROVE  HistInv'
<1>1. /\ Playing(r) /\ Outcomes(r).tag = "ok"
      /\ loop' = [loop EXCEPT ![r].resp = Keeps(r, Outcomes(r).resp)]
      /\ UNCHANGED <<log, pc, call, known>>
  BY DEF ApplyOne, clientVars
<1>2. PICK n, ts, resp : n = store[r].cursor /\ ts = TablesIn(store[r].data) /\ resp = Outcomes(r).resp
  OBVIOUS
<1>3. /\ SameSchemas(TablesIn(store'[r].data), T!Step(ts, log[n]))
      /\ PrefixFree => TablesIn(store'[r].data) = T!Step(ts, log[n])
      /\ store'[r].cursor = n + 1
      /\ \A s \in Replica : s # r => store'[s] = store[s]
  BY <1>2, TablesStep
<1>4. /\ n \in 1..Len(log) /\ Len(log) \in Nat /\ log \in Seq(Command)
      /\ Simulates(store[r].data, log[n], Outcomes(r))
      /\ log[n] \in Command
      /\ loop[r].client \in Client /\ loop[r].target \in 0..Len(log)
  BY <1>1, <1>2, OutcomeOf DEF IndInv, TypeOK
<1>5. PICK us : us = TablesAt(n - 1)
  OBVIOUS
<1>6. Replays(ts, n - 1) /\ IsTables(ts)
  BY <1>2, TablesInTables DEF HistInv, Replayed, IndInv, StoresOK
<1>7. SameSchemas(ts, us) /\ (PrefixFree => ts = us) /\ IsTables(us) /\ Playable(n - 1)
  BY <1>5, <1>6 DEF Replays
<1>8. ~T!Breaks(us, log[n]) /\ (resp = "ok" <=> T!Accepts(us, log[n])) /\ resp \in {"ok", "error"}
  <2>1. ~T!Breaks(ts, log[n]) /\ (resp = "ok" <=> T!Accepts(ts, log[n])) /\ resp \in {"ok", "error"}
    BY <1>1, <1>2, <1>4 DEF Simulates
  <2> QED BY <1>4, <1>7, <2>1, SameAnswers
<1>9. TablesAt(n) = T!Step(us, log[n])
  BY <1>4, <1>5, TablesAtNext
<1>10. Playable(n)
  <2>1. \A i \in 1..n : i \in 1..(n - 1) \/ i = n
    BY <1>4
  <2>2. \A i \in 1..(n - 1) : ~T!Breaks(TablesAt(i - 1), log[i])
    BY <1>7 DEF Playable, TablesAt
  <2>3. \A i \in 1..n : ~T!Breaks(TablesAt(i - 1), log[i])
    BY <1>5, <1>8, <2>1, <2>2
  <2> QED BY <2>3 DEF Playable, TablesAt
<1>11. LogGrows
  BY <1>1 DEF LogGrows
<1>12. n \in 0..Len(log) /\ n + 1 - 1 = n
  BY <1>4
<1>13. Replayed(r)'
  <2>1. PICK new : new = TablesIn(store'[r].data)
    OBVIOUS
  <2>2. IsTables(TablesAt(n)) /\ SameSchemas(T!Step(ts, log[n]), TablesAt(n))
    BY <1>4, <1>6, <1>7, <1>9, SameSteps
  <2>3. SameSchemas(new, TablesAt(n))
    BY <1>3, <2>1, <2>2 DEF SameSchemas
  <2>4. PrefixFree => new = TablesAt(n)
    BY <1>3, <1>7, <1>9, <2>1
  <2>5. TablesAt(n)' = TablesAt(n) /\ Playable(n)'
    BY <1>10, <1>11, <1>12, LogKept
  <2>6. Replays(new, n)'
    BY <2>2, <2>3, <2>4, <2>5 DEF Replays, IsTables, SameSchemas
  <2>7. TablesIn(store[r].data)' = new
    BY <2>1 DEF TablesIn
  <2> QED BY <1>3, <1>12, <2>6, <2>7 DEF Replayed
<1>14. /\ loop'[r].client = loop[r].client /\ loop'[r].target = loop[r].target
       /\ loop'[r].resp = Keeps(r, resp)
       /\ \A s \in Replica : s # r => loop'[s] = loop[s]
  BY <1>1, <1>2 DEF IndInv, TypeOK
<1>15. LoopHist(r)'
  <2>1. PICK c, p : c = loop[r].client /\ p = loop[r].target
    OBVIOUS
  <2>2. p \in Nat /\ n \in Nat /\ n <= p /\ c # NoOne
    BY <1>1, <1>2, <1>4, <2>1 DEF Playing
  <2>3. Writing(c)' <=> Writing(c)
    BY <1>1 DEF Writing
  <2>4. CASE ~Writing(c)
    BY <1>1, <1>14, <2>1, <2>2, <2>3, <2>4 DEF HistInv, LoopHist
  <2>5. CASE Writing(c)
    <3>1. Writes(loop[r], r)
      BY <2>1, <2>2, <2>5 DEF HistInv, LoopHist
    <3>2. p > known[c] /\ log[p] = ToCommand(call[c])
      BY <2>1, <3>1 DEF Writes
    <3>3. ASSUME n + 1 > p
          PROVE  loop'[r].resp # "error" <=> T!Accepts(TablesAt(p - 1), log[p])
      <4>1. n = p
        BY <2>2, <3>3
      <4>2. loop'[r].resp = resp
        BY <1>2, <1>14, <2>1, <4>1 DEF Keeps
      <4> QED BY <1>5, <1>8, <4>1, <4>2
    <3>4. TablesAt(p - 1)' = TablesAt(p - 1)
      BY <1>1 DEF TablesAt
    <3>5. Writes(loop[r], r)'
      BY <1>1, <1>3, <1>14, <2>1, <3>2, <3>3, <3>4 DEF Writes
    <3> QED BY <1>14, <2>1, <2>3, <2>5, <3>5 DEF LoopHist
  <2> QED BY <2>4, <2>5
<1>16. ASSUME NEW s \in Replica, s # r PROVE Replayed(s)' /\ LoopHist(s)'
  <2>1. store'[s] = store[s] /\ loop'[s] = loop[s]
    BY <1>3, <1>14, <1>16
  <2> QED BY <1>1, <1>11, <2>1, ReplayedKept, LoopKept DEF HistInv
<1>17. ReadsHist'
  <2> SUFFICES ASSUME NEW c \in Client, pc[c] = "reading" PROVE known[c] < store'[Server[c]].cursor
    BY <1>1 DEF HistInv, ReadsHist, Writing
  <2>1. Server[c] \in Replica /\ known[c] < store[Server[c]].cursor /\ known[c] \in Nat
    BY ClientAssumption DEF HistInv, ReadsHist, IndInv, TypeOK
  <2>2. CASE Server[c] = r
    BY <1>2, <1>3, <1>4, <2>1, <2>2
  <2>3. CASE Server[c] # r
    BY <1>3, <2>1, <2>3
  <2> QED BY <2>2, <2>3
<1> QED BY <1>13, <1>15, <1>16, <1>17 DEF HistInv

LEMMA NextHist == IndInv /\ HistInv /\ [Next]_vars => HistInv'
<1> SUFFICES ASSUME IndInv, HistInv, [Next]_vars PROVE HistInv'
  OBVIOUS
<1>1. CASE Next
  BY <1>1, RefusedHist, InvokeHist, ProposeHist, LogFailsHist, SyncHist, ApplyOneHist,
     ApplyFailsHist, ReadFailsHist, WriteReturnsHist, SyncReturnsHist, ReadReturnsHist DEF Next
<1>2. CASE UNCHANGED vars
  <2>1. UNCHANGED <<log, store, loop, pc, call, known>>
    BY <1>2 DEF vars, clientVars
  <2>2. LogGrows
    BY <2>1 DEF LogGrows
  <2>3. \A r \in Replica : Replayed(r)' /\ LoopHist(r)'
    BY <2>1, <2>2, ReplayedKept, LoopKept DEF HistInv
  <2>4. ReadsHist'
    BY <2>1 DEF HistInv, ReadsHist, Writing
  <2> QED BY <2>3, <2>4 DEF HistInv
<1> QED BY <1>1, <1>2

(* A replica at cursor n has the schemas that the first n - 1 commands of   *)
(* the log give, and with prefix free names their rows; all of these        *)
(* commands can be applied. A write in hand is in the log at its target,    *)
(* behind all it knew of, and keeps the response of that entry; a read      *)
(* starts at a store that has all it knew of (base_engine.rs:111-180,       *)
(* table.rs:60-112).                                                        *)
THEOREM Invariance == Spec => [](IndInv /\ HistInv)
BY InitIndInv, NextIndInv, InitHist, NextHist, PTL DEF Spec

-------------------------------------------------------------------------------
(* Linearizability *)

(* Whose call a step answers. *)
Answers(r) == ApplyFails(r) \/ ReadFails(r) \/ WriteReturns(r)

LEMMA WhoAnswers ==
  ASSUME IndInv, [Next]_vars, NEW c \in Client, pc[c] \in {"serving", "reading"}, out'.to = c
  PROVE  \/ UNCHANGED vars
         \/ \E r \in Replica : loop[r].client = c /\ Answers(r)
         \/ pc[c] = "reading" /\ ReadReturns(c)
<1>0. NoOut.to # c
  BY ClientAssumption DEF NoOut
<1>1. ASSUME NEW d \in Client, NEW req \in Request, Refused(d, req) \/ Invoke(d, req)
      PROVE  FALSE
  BY <1>0, <1>1 DEF Refused, Invoke
<1>2. ASSUME NEW r \in Replica, NEW d \in Client, Propose(r, d) \/ Sync(r, d)
      PROVE  FALSE
  BY <1>0, <1>2 DEF Propose, Sync, Serve
<1>3. ASSUME NEW r \in Replica, NEW d \in Client, LogFails(r, d)
      PROVE  FALSE
  BY <1>3 DEF LogFails, Respond
<1>4. ASSUME NEW r \in Replica, ApplyOne(r) \/ SyncReturns(r)
      PROVE  FALSE
  BY <1>0, <1>4 DEF ApplyOne, SyncReturns
<1>5. ASSUME NEW r \in Replica, Answers(r)
      PROVE  loop[r].client = c
  BY <1>5 DEF Answers, ApplyFails, ReadFails, WriteReturns, Respond
<1>6. ASSUME NEW d \in Client, ReadReturns(d)
      PROVE  d = c /\ pc[c] = "reading"
  <2>1. pc[d] = "reading" /\ \E rows : Respond(d, "ok", rows)
    BY <1>6 DEF ReadReturns
  <2> QED BY <2>1 DEF Respond
<1> QED BY <1>1, <1>2, <1>3, <1>4, <1>5, <1>6 DEF Next, Answers

LEMMA WriteAnswered ==
  ASSUME IndInv, HistInv, NEW r \in Replica, NEW c, NEW p, c = loop[r].client, p = loop[r].target,
         c # NoOne, Writing(c), Answers(r)
  PROVE  /\ p > known[c]
         /\ log[p] = ToCommand(call[c])
         /\ out'.status # "internal" =>
              (out'.status = "ok" <=>
                 Playable(p) /\ T!Accepts(T!After(SubSeq(log, 1, p - 1)), log[p]))
<1>1. c \in Client /\ Serving(loop[r], r)
  BY LoopInHand
<1>2. /\ p \in 0..Len(log) /\ Len(log) \in Nat /\ known[c] \in Nat
      /\ store[r].cursor \in 1..(Len(log) + 1)
  BY <1>1 DEF Serving, IndInv, TypeOK
<1>3. Writes(loop[r], r)
  BY DEF HistInv, LoopHist
<1>4. p > known[c] /\ log[p] = ToCommand(call[c])
  BY <1>3 DEF Writes
<1>5. PICK n : n = store[r].cursor
  OBVIOUS
<1>6. CASE ApplyFails(r)
  <2>1. Playing(r) /\ Outcomes(r).tag = "err" /\ out'.status = "invalid_argument"
    BY <1>6 DEF ApplyFails, Respond, ToStatus
  <2>2. Simulates(store[r].data, log[n], Outcomes(r))
    BY <1>5, <2>1, OutcomeOf
  <2>3. T!Breaks(TablesIn(store[r].data), log[n])
    BY <2>1, <2>2 DEF Simulates
  <2>4. T!Breaks(T!After(SubSeq(log, 1, n - 1)), log[n])
    <3>1. SameSchemas(TablesIn(store[r].data), TablesAt(n - 1))
      BY <1>5 DEF HistInv, Replayed, Replays
    <3>2. log[n] \in Command
      BY <1>5, <2>1, OutcomeOf
    <3> QED BY <2>3, <3>1, <3>2, SameAnswers DEF TablesAt
  <2>5. n \in 1..p
    BY <1>2, <1>5, <2>1 DEF Playing
  <2>6. ~Playable(p)
    BY <2>4, <2>5 DEF Playable
  <2> QED BY <1>4, <2>1, <2>6
<1>7. CASE WriteReturns(r)
  <2>1. ~Playing(r) /\ out'.status = WriteStatus(loop[r].resp)
    BY <1>7 DEF WriteReturns, Respond
  <2>2. n > p /\ n - 1 >= p /\ n \in Nat
    BY <1>2, <1>5, <2>1 DEF Playing
  <2>3. out'.status = "ok" <=> loop[r].resp # "error"
    BY <2>1 DEF WriteStatus, ToStatus
  <2>4. loop[r].resp # "error" <=> T!Accepts(T!After(SubSeq(log, 1, p - 1)), log[p])
    BY <1>3, <1>5, <2>2 DEF Writes, TablesAt
  <2>5. Playable(p)
    <3>1. Playable(n - 1)
      BY <1>5 DEF HistInv, Replayed, Replays
    <3>2. \A i \in 1..p : i \in 1..(n - 1)
      BY <1>2, <2>2
    <3> QED BY <3>1, <3>2 DEF Playable
  <2> QED BY <1>4, <2>3, <2>4, <2>5
<1>8. CASE ReadFails(r)
  BY <1>4, <1>8 DEF ReadFails, Respond, ToStatus
<1> QED BY <1>6, <1>7, <1>8 DEF Answers

(* What a get or a scan finds in a store is what the table has. *)
LEMMA ReadAnswer ==
  ASSUME PrefixFree, NEW data, DataOK(data), NEW req, req.table \in Names
  PROVE  {RowToProto(data[k]) : k \in Found(data, req)} = AnswerIn(TablesIn(data), req)
<1>1. PICK t, ts : t = req.table /\ ts = TablesIn(data)
  OBVIOUS
<1>2. PICK rows : rows = T!Rows(ts, t)
  OBVIOUS
<1>3. ASSUME NEW pk PROVE pk \in DOMAIN rows <=> RowKey(t, pk) \in DOMAIN data
  <2>1. CASE t \in DOMAIN ts
    <3>1. rows = RowsIn(data, t)
      BY <1>1, <1>2, <2>1, TableFields DEF T!Rows
    <3> QED BY <3>1, RowsAre
  <2>2. CASE t \notin DOMAIN ts
    <3>1. DOMAIN rows = {}
      BY <1>2, <2>2 DEF T!Rows, T!NoTables
    <3>2. SchemaKey(t) \notin DOMAIN data
      BY <1>1, <2>2, TablesAre
    <3>3. PICK k : k = RowKey(t, pk)
      OBVIOUS
    <3>4. k.space = "data" /\ k.path = t
      BY <3>3, Keys
    <3>5. k \notin DOMAIN data
      BY <3>2, <3>4, KeyCases
    <3> QED BY <3>1, <3>3, <3>5
  <2> QED BY <2>1, <2>2
<1>4. ASSUME NEW pk \in DOMAIN rows PROVE rows[pk] = data[RowKey(t, pk)]
  <2>1. t \in DOMAIN ts
    BY <1>2 DEF T!Rows, T!NoTables
  <2>2. rows = RowsIn(data, t)
    BY <1>1, <1>2, <2>1, TableFields DEF T!Rows
  <2> QED BY <2>2, RowsAre
<1>5. CASE req.op = "scan"
  <2>1. Found(data, req) = ScanPrefix(data, RowPrefix(t))
    BY <1>1, <1>5 DEF Found
  <2>2. AnswerIn(ts, req) = {RowToProto(rows[k]) : k \in DOMAIN rows}
    BY <1>1, <1>2, <1>5 DEF AnswerIn
  <2>3. ASSUME NEW k \in ScanPrefix(data, RowPrefix(t))
        PROVE  k.pk \in DOMAIN rows /\ data[k] = rows[k.pk]
    <3>1. k \in DOMAIN data
      BY DEF ScanPrefix
    <3>2. k.space = "data" /\ k.path = t
      BY <1>1, <3>1, Dropped
    <3>3. k = RowKey(t, k.pk)
      BY <3>1, <3>2, KeyCases
    <3> QED BY <1>3, <1>4, <3>1, <3>3
  <2>4. ASSUME NEW pk \in DOMAIN rows
        PROVE  RowKey(t, pk) \in ScanPrefix(data, RowPrefix(t)) /\ rows[pk] = data[RowKey(t, pk)]
    <3>1. PICK k \in DOMAIN data : k = RowKey(t, pk)
      BY <1>3
    <3>2. k.space = "data" /\ k.path = t
      BY <3>1, Keys
    <3> QED BY <1>1, <1>4, <3>1, <3>2, Dropped
  <2>5. {RowToProto(data[k]) : k \in ScanPrefix(data, RowPrefix(t))}
          = {RowToProto(rows[k]) : k \in DOMAIN rows}
    BY <2>3, <2>4
  <2> QED BY <1>1, <2>1, <2>2, <2>5
<1>6. CASE req.op # "scan"
  <2>1. PICK v : v = ToValues(req.key)
    OBVIOUS
  <2>2. Found(data, req) = {RowKey(t, v)} \cap DOMAIN data
    BY <1>1, <1>6, <2>1 DEF Found
  <2>3. AnswerIn(ts, req) = {RowToProto(rows[k]) : k \in DOMAIN rows \cap {v}}
    BY <1>1, <1>2, <1>6, <2>1 DEF AnswerIn
  <2>4. CASE v \in DOMAIN rows
    <3>1. RowKey(t, v) \in DOMAIN data /\ rows[v] = data[RowKey(t, v)]
      BY <1>3, <1>4, <2>4
    <3>2. {RowKey(t, v)} \cap DOMAIN data = {RowKey(t, v)} /\ DOMAIN rows \cap {v} = {v}
      BY <2>4, <3>1
    <3>3. {RowToProto(data[k]) : k \in {RowKey(t, v)}} = {RowToProto(rows[k]) : k \in {v}}
      BY <3>1
    <3> QED BY <1>1, <2>2, <2>3, <3>2, <3>3
  <2>5. CASE v \notin DOMAIN rows
    <3>1. RowKey(t, v) \notin DOMAIN data
      BY <1>3, <2>5
    <3>2. {RowKey(t, v)} \cap DOMAIN data = {} /\ DOMAIN rows \cap {v} = {}
      BY <2>5, <3>1
    <3> QED BY <1>1, <2>2, <2>3, <3>2
  <2> QED BY <2>4, <2>5
<1> QED BY <1>5, <1>6

LEMMA ReadAnswered ==
  ASSUME IndInv, HistInv, PrefixFree, NEW c \in Client, ReadReturns(c)
  PROVE  \E n \in known[c]..Len(log) :
           /\ Playable(n)
           /\ out'.rows = AnswerIn(T!After(SubSeq(log, 1, n)), call[c])
<1>1. PICK r \in Replica : r = Server[c]
  BY ClientAssumption
<1>2. PICK data, n : data = store[r].data /\ n = store[r].cursor - 1
  OBVIOUS
<1>3. /\ pc[c] = "reading"
      /\ out'.rows = {RowToProto(data[k]) : k \in Found(data, call[c])}
  BY <1>1, <1>2 DEF ReadReturns, Respond
<1>4. /\ known[c] < store[r].cursor /\ known[c] \in Nat /\ Len(log) \in Nat
      /\ store[r].cursor \in 1..(Len(log) + 1) /\ ~Writing(c)
  BY <1>1, <1>3 DEF HistInv, ReadsHist, IndInv, TypeOK
<1>5. n \in known[c]..Len(log)
  BY <1>2, <1>4
<1>6. TablesIn(data) = T!After(SubSeq(log, 1, n)) /\ Playable(n) /\ DataOK(data)
  BY <1>2 DEF HistInv, Replayed, Replays, TablesAt, IndInv, StoresOK
<1>7. call[c].table \in Names
  <2>1. call[c] \in Request /\ WellFormed(call[c])
    BY <1>3 DEF IndInv, CallsOK
  <2>2. call[c].op # "create_table"
    BY <1>4 DEF Writing, IsWrite
  <2> QED BY <2>1, <2>2, NamedIn
<1>8. out'.rows = AnswerIn(T!After(SubSeq(log, 1, n)), call[c])
  BY <1>3, <1>6, <1>7, ReadAnswer
<1> QED BY <1>5, <1>6, <1>8

(* A write in the log is told Ok or refused by the tables at its own place  *)
(* there, which comes after all that was told of when it was made; an entry *)
(* that no replica can apply makes it refused (table.rs:97-112,             *)
(* base_engine.rs:123-132). Holds whatever the tables are named.            *)
THEOREM WritesAreLinearizable == Spec => WritesLinearizable
<1> DEFINE A == \A r \in Replica :
       LET c == loop[r].client
           p == loop[r].target IN
       c # NoOne /\ Writing(c) /\ out'.to = c =>
         /\ p > known[c]
         /\ log[p] = ToCommand(call[c])
         /\ out'.status # "internal" =>
              (out'.status = "ok" <=>
                 Playable(p) /\ T!Accepts(T!After(SubSeq(log, 1, p - 1)), log[p]))
<1>1. IndInv /\ HistInv /\ [Next]_vars => [A]_vars
  <2> SUFFICES ASSUME IndInv, HistInv, [Next]_vars, ~UNCHANGED vars,
                      NEW r \in Replica, NEW c, NEW p, c = loop[r].client, p = loop[r].target,
                      c # NoOne, Writing(c), out'.to = c
               PROVE  /\ p > known[c]
                      /\ log[p] = ToCommand(call[c])
                      /\ out'.status # "internal" =>
                           (out'.status = "ok" <=>
                              Playable(p) /\ T!Accepts(T!After(SubSeq(log, 1, p - 1)), log[p]))
    OBVIOUS
  <2>1. c \in Client /\ Serving(loop[r], r)
    BY LoopInHand
  <2>2. pc[c] = "serving" /\ Server[c] = r
    BY <2>1 DEF Serving
  <2>3. PICK s \in Replica : loop[s].client = c /\ Answers(s)
    BY <2>1, <2>2, WhoAnswers
  <2>4. s = r
    BY <2>2, <2>3, LoopInHand DEF Serving
  <2> QED BY <2>3, <2>4, WriteAnswered
<1> QED BY Invariance, <1>1, PTL DEF Spec, WritesLinearizable

(* A get or a scan, at any replica, returns the rows of its table as they   *)
(* were at one moment between its call and its return: nothing that any     *)
(* client had been told of before is missing (table.rs:60-92). Holds where  *)
(* no name is the beginning of another.                                     *)
THEOREM ReadsAreLinearizable == PrefixFree => (Spec => ReadsLinearizable)
<1> SUFFICES ASSUME PrefixFree PROVE Spec => ReadsLinearizable
  OBVIOUS
<1> DEFINE A == \A c \in Client : pc[c] = "reading" /\ out'.to = c =>
       \E n \in known[c]..Len(log) :
         /\ Playable(n)
         /\ out'.rows = AnswerIn(T!After(SubSeq(log, 1, n)), call[c])
<1>1. IndInv /\ HistInv /\ [Next]_vars => [A]_vars
  <2> SUFFICES ASSUME IndInv, HistInv, [Next]_vars, ~UNCHANGED vars,
                      NEW c \in Client, pc[c] = "reading", out'.to = c
               PROVE  \E n \in known[c]..Len(log) :
                        /\ Playable(n)
                        /\ out'.rows = AnswerIn(T!After(SubSeq(log, 1, n)), call[c])
    OBVIOUS
  <2>1. \A r \in Replica : loop[r].client # c
    BY ClientAssumption, NotServed DEF Idle
  <2>2. ReadReturns(c)
    BY <2>1, WhoAnswers
  <2> QED BY <2>2, ReadAnswered
<1> QED BY Invariance, <1>1, PTL DEF Spec, ReadsLinearizable
================================================================================
