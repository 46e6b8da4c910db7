------------------------------ MODULE DelosTable ------------------------------
(***************************************************************************)
(* The replicated table: crates/relos-table/src/table.rs behind the gRPC    *)
(* handlers of GrpcService, over the applicator of TableApplicator, on      *)
(* replicas that play one shared log. A write is proposed and answered with *)
(* what applying it gave; a read has the engine synced, then looks at the   *)
(* local store. crates/relos-server/src/main.rs wires one such server; the  *)
(* log is the one SharedLog specifies, and VirtualLog gives that to one     *)
(* appender: with more replicas the module says what the table makes of a   *)
(* log that keeps the promise.                                              *)
(*                                                                          *)
(* The engine is BaseEngine reduced to its promises: one request at a time, *)
(* each entry applied in one transaction with the cursor. Requests wait in  *)
(* no order, which is the channel's: a caller may be slow to send. Each     *)
(* call on the log may fail. An append that fails but is stored is a        *)
(* Propose whose first read fails, and one that leaves a hole is an entry   *)
(* that every read fails on. Aborted loops and callers that give up are in  *)
(* BaseEngine.                                                              *)
(***************************************************************************)
EXTENDS Integers, Sequences, FiniteSets, TableApplicator, GrpcService

CONSTANTS
  Replica, Client, NoOne,  \* servers, their clients, and none of these
  Server,                  \* the replica each client is connected to
  Request,                 \* the requests clients make
  MaxWrites                \* bound: commands in the log

ASSUME ClientAssumption ==
  IsFiniteSet(Client) /\ NoOne \notin Client /\ Server \in [Client -> Replica]
ASSUME BoundsAssumption == MaxWrites \in Nat

(* The messages of the gRPC interface: names of tables, and schemas. *)
IsName(t) == t \in Seq(STRING)
IsSchema(schema) ==
  /\ schema # None
  /\ IsName(schema.name)
  /\ schema.columns \in Seq([name : STRING, type : STRING])
  /\ schema.primary_key \in Seq(STRING)
ASSUME RequestAssumption ==
  \A req \in Request :
    IF req.op = "create_table" THEN req.schema = Missing \/ IsSchema(req.schema)
    ELSE IsName(req.table)

VARIABLES
  log,                     \* the shared log, of table commands
  store,                   \* per replica: [data, cursor]
  loop,                    \* per replica: the request its apply loop is at
  pc, call,                \* per client: where its call is, and its request
  out,                     \* the response the last step sent, if it sent one
  finished, known          \* history: how much of the log some response has
                           \* told of, and had so when a call was made

clientVars == <<pc, call, known>>
vars == <<log, store, loop, clientVars, out, finished>>

-------------------------------------------------------------------------------
NoCall == [op |-> "none"]
Idle == [client |-> NoOne, target |-> 0, resp |-> "none"]
NoOut == [to |-> NoOne, status |-> "none", rows |-> {}]
Command == {ToCommand(req) : req \in {q \in Request : IsWrite(q) /\ WellFormed(q)}}

IsStored(row) == \A i \in DOMAIN row : row[i] \notin NullForms

(* The types of the state; what a row in a store holds are values of the    *)
(* table, none of the forms a client can give null (grpc_service.rs:37-47). *)
TypeOK ==
  /\ log \in Seq(Command)
  /\ \A r \in Replica : /\ store[r].cursor \in 1..(Len(log) + 1)
                        /\ \A k \in DOMAIN store[r].data :
                             \/ k.space = "schema"
                             \/ k.space = "data" /\ IsStored(store[r].data[k])
  /\ loop \in [Replica -> [client : Client \cup {NoOne}, target : 0..MaxWrites,
                           resp : {"none", "ok", "error"}]]
  /\ pc \in [Client -> {"idle", "sent", "serving", "reading"}]
  /\ \A c \in Client : call[c] \in Request \cup {NoCall}
  /\ out.status \in {"none", "ok", "invalid_argument", "internal"}
  /\ finished \in 0..Len(log)
  /\ known \in [Client -> 0..MaxWrites]

Init ==
  /\ log = <<>>
  /\ store = [r \in Replica |-> [data |-> EmptyStore, cursor |-> 1]]
  /\ loop = [r \in Replica |-> Idle]
  /\ pc = [c \in Client |-> "idle"]
  /\ call = [c \in Client |-> NoCall]
  /\ out = NoOut
  /\ finished = 0
  /\ known = [c \in Client |-> 0]

-------------------------------------------------------------------------------
(* Calls and responses *)

Writing(c) == IsWrite(call[c])
Unlogged == {c \in Client : pc[c] = "sent" /\ Writing(c)}

(* A handler that finds the request invalid returns before the table is     *)
(* asked.                                                                   *)
Refused(c, req) ==
  /\ pc[c] = "idle"
  /\ ~WellFormed(req)
  /\ out' = [to |-> c, status |-> "invalid_argument", rows |-> {}]
  /\ UNCHANGED <<log, store, loop, clientVars, finished>>

(* The handler calls the table, and that the engine's propose or sync. *)
Invoke(c, req) ==
  /\ pc[c] = "idle"
  /\ WellFormed(req)
  /\ IsWrite(req) => Len(log) + Cardinality(Unlogged) < MaxWrites
  /\ pc' = [pc EXCEPT ![c] = "sent"]
  /\ call' = [call EXCEPT ![c] = req]
  /\ known' = [known EXCEPT ![c] = finished]
  /\ out' = NoOut
  /\ UNCHANGED <<log, store, loop, finished>>

Respond(c, status, rows) ==
  /\ pc' = [pc EXCEPT ![c] = "idle"]
  /\ call' = [call EXCEPT ![c] = NoCall]
  /\ known' = [known EXCEPT ![c] = 0]
  /\ out' = [to |-> c, status |-> status, rows |-> rows]

Tells(n) == finished' = IF n > finished THEN n ELSE finished

-------------------------------------------------------------------------------
(* The engine of a replica *)

Serve(r, c, n) ==
  /\ loop[r] = Idle
  /\ pc[c] = "sent" /\ Server[c] = r
  /\ loop' = [loop EXCEPT ![r] = [client |-> c, target |-> n, resp |-> "none"]]
  /\ pc' = [pc EXCEPT ![c] = "serving"]
  /\ out' = NoOut
  /\ UNCHANGED <<store, call, known, finished>>

Propose(r, c) ==
  /\ Serve(r, c, Len(log) + 1)
  /\ Writing(c)
  /\ log' = Append(log, ToCommand(call[c]))

(* append or check_tail fails, before anything is played. *)
LogFails(r, c) ==
  /\ loop[r] = Idle
  /\ pc[c] = "sent" /\ Server[c] = r
  /\ Respond(c, ToStatus("Internal"), {})
  /\ UNCHANGED <<log, store, loop, finished>>

SyncTargetStale(r) == store[r].cursor - 1  \* mutant: the tail is not asked
SyncTarget(r) == Len(log)

Sync(r, c) ==
  /\ Serve(r, c, SyncTarget(r))
  /\ ~Writing(c)
  /\ UNCHANGED log

Playing(r) == loop[r].client # NoOne /\ store[r].cursor <= loop[r].target
Outcomes(r) == Apply(store[r].data, log[store[r].cursor])

KeepsFirst(r, resp) ==                     \* mutant: the first entry's response
  IF loop[r].resp = "none" THEN resp ELSE loop[r].resp
Keeps(r, resp) ==
  IF store[r].cursor = loop[r].target THEN resp ELSE loop[r].resp

ApplyOne(r) ==
  /\ Playing(r)
  /\ Outcomes(r).tag = "ok"
  /\ store' = [store EXCEPT ![r] = [data |-> Outcomes(r).data, cursor |-> @.cursor + 1]]
  /\ loop' = [loop EXCEPT ![r].resp = Keeps(r, Outcomes(r).resp)]
  /\ out' = NoOut
  /\ UNCHANGED <<log, clientVars, finished>>

(* apply returns Err: the request in hand fails, whoever's entry it was, and *)
(* the cursor stays before that entry.                                      *)
ApplyFails(r) ==
  /\ Playing(r)
  /\ Outcomes(r).tag = "err"
  /\ Respond(loop[r].client, ToStatus("InvalidOperation"), {})
  /\ loop' = [loop EXCEPT ![r] = Idle]
  /\ UNCHANGED <<log, store, finished>>

(* read fails or finds nothing: the request in hand fails, and the cursor   *)
(* stays.                                                                   *)
ReadFails(r) ==
  /\ Playing(r)
  /\ Respond(loop[r].client, ToStatus("Internal"), {})
  /\ loop' = [loop EXCEPT ![r] = Idle]
  /\ UNCHANGED <<log, store, finished>>

(* propose_and_check *)
WriteStatus(resp) == IF resp = "error" THEN ToStatus("InvalidOperation") ELSE "ok"

WriteReturns(r) ==
  /\ loop[r].client # NoOne /\ ~Playing(r)
  /\ Writing(loop[r].client)
  /\ Respond(loop[r].client, WriteStatus(loop[r].resp), {})
  /\ Tells(loop[r].target)
  /\ loop' = [loop EXCEPT ![r] = Idle]
  /\ UNCHANGED <<log, store>>

SyncReturns(r) ==
  /\ loop[r].client # NoOne /\ ~Playing(r)
  /\ ~Writing(loop[r].client)
  /\ pc' = [pc EXCEPT ![loop[r].client] = "reading"]
  /\ loop' = [loop EXCEPT ![r] = Idle]
  /\ out' = NoOut
  /\ UNCHANGED <<log, store, call, known, finished>>

(* get and scan on a snapshot of the store; neither asks for the schema. *)
Found(data, req) ==
  IF req.op = "scan" THEN ScanPrefix(data, RowPrefix(req.table))
  ELSE {RowKey(req.table, ToValues(req.key))} \cap DOMAIN data

ReadReturns(c) ==
  LET s == store[Server[c]] IN
  /\ pc[c] = "reading"
  /\ Respond(c, "ok", {RowToProto(s.data[k]) : k \in Found(s.data, call[c])})
  /\ Tells(s.cursor - 1)
  /\ UNCHANGED <<log, store, loop>>

-------------------------------------------------------------------------------
Next ==
  \/ \E c \in Client, req \in Request :
       Refused(c, req) \/ Invoke(c, req)
  \/ \E r \in Replica, c \in Client :
       Propose(r, c) \/ Sync(r, c) \/ LogFails(r, c)
  \/ \E r \in Replica :
       ApplyOne(r) \/ ApplyFails(r) \/ ReadFails(r) \/ WriteReturns(r) \/ SyncReturns(r)
  \/ \E c \in Client : ReadReturns(c)

Spec == Init /\ [][Next]_vars

-------------------------------------------------------------------------------
(* Properties *)

(* The tables that the keys of a local store encode. *)
TablesIn(data) ==
  [t \in {k.path : k \in {q \in DOMAIN data : q.space = "schema"}} |->
     [schema |-> data[SchemaKey(t)],
      rows |-> [pk \in {k.pk : k \in {q \in DOMAIN data : q.space = "data" /\ q.path = t}}
                  |-> data[RowKey(t, pk)]]]]

T == INSTANCE Table WITH tables <- [r \in Replica |-> TablesIn(store[r].data)]

(* Every replica's flat store of keys is, entry by entry, the named tables  *)
(* of Table: no command touches a table but its own, and a table created    *)
(* again after a drop is empty (applicator.rs:89-175).                      *)
ImplementsTable == T!Spec

RowFits(schema, pk, row) ==
  HasPk(schema) /\ Len(row) = Len(schema.columns) /\ pk = ExtractPk(schema, row)

(* A row in a store is under the primary key that the present schema of its *)
(* table gives it, and has a value for every column of that schema: no row  *)
(* outlives its table, to show up in one created later under its name with  *)
(* other columns or another key (applicator.rs:89-175).                     *)
RowsBelong ==
  \A r \in Replica : LET data == store[r].data IN
    \A k \in DOMAIN data : k.space = "data" =>
      LET schema == LoadSchema(data, k.path) IN
      schema # None /\ RowFits(schema, k.pk, data[k])

(* The log up to n has no entry that replicas cannot apply. *)
Playable(n) == \A i \in 1..n : ~T!Breaks(T!After(SubSeq(log, 1, i - 1)), log[i])

(* A write in the log is told Ok or refused by the tables at its own place  *)
(* there, which comes after all that was told of when it was made; an entry *)
(* that no replica can apply makes it refused. Only where the log cannot be *)
(* read is the answer, internal, open (table.rs:97-112,                     *)
(* base_engine.rs:123-132).                                                 *)
WritesLinearizable ==
  [][\A r \in Replica :
       LET c == loop[r].client
           p == loop[r].target IN
       c # NoOne /\ Writing(c) /\ out'.to = c =>
         /\ p > known[c]
         /\ log[p] = ToCommand(call[c])
         /\ out'.status # "internal" =>
              (out'.status = "ok" <=>
                 Playable(p) /\ T!Accepts(T!After(SubSeq(log, 1, p - 1)), log[p]))]_vars

AnswerIn(ts, req) ==
  LET rows == T!Rows(ts, req.table)
      keys == IF req.op = "scan" THEN DOMAIN rows
              ELSE DOMAIN rows \cap {ToValues(req.key)} IN
  {RowToProto(rows[k]) : k \in keys}

(* A get or a scan, at any replica, returns the rows of its table as they   *)
(* were at one moment between its call and its return: nothing that any     *)
(* client had been told of before is missing (table.rs:60-92).              *)
ReadsLinearizable ==
  [][\A c \in Client : pc[c] = "reading" /\ out'.to = c =>
       \E n \in known[c]..Len(log) :
         /\ Playable(n)
         /\ out'.rows = AnswerIn(T!After(SubSeq(log, 1, n)), call[c])]_vars
===============================================================================
