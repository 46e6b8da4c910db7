# Relos: specification, model checking and proofs

Relos is a replicated table in the style of Delos. A **virtual log** chains
**loglets** into one shared log; an **engine** proposes entries to that log and
plays it forward into a local store; a **table** is the applicator on top. This
directory specifies the system from the log servers up to the gRPC handlers,
checks it with TLC and proves the safety of every layer with TLAPS: the quorum loglet,
the virtual log, the engine, the layers stacked on it and the table.

All paths are relative to the repository root; `native_loglet.rs` and the like
are the files of `crates/*/src/`. `PROJECT.json` maps every definition to the
lines it models.

## 1. Inventory

| Component | State | Operations | Interacts with |
|---|---|---|---|
| `Loglet` trait (`loglet.rs`) | – | `append`, `check_tail`, `read`, `trim`, `seal` | implemented by the two loglets and by `VirtualLog` |
| `NativeLoglet` | sequencer task: next position, sealed; per log-server task: entries, sealed, trim point, tail; an atomic `sealed` flag in the handle | the trait; a call asks the sequencer, then fans out to the log servers and counts replies | bounded mpsc mailboxes, oneshot replies |
| `MemoryLoglet` | entries, sealed, trim point behind one `RwLock` | the trait, each method atomic | used by `VirtualLog` and in tests |
| `LogChain` | a list of segments `[id, start, end)` | `active_segment`, `find_segment`, `extend` | value in `VirtualLog` and `MetaStore` |
| `MetaStore` | the chain and its version | `read`, `write` (compare-and-swap) | called by `VirtualLog` |
| `VirtualLog` | chain, version and loglet map behind three locks | the trait, `reconfigure`, `sync_chain` | loglets below, `MetaStore` beside |
| `LocalStore` / `MemoryStore` | an ordered map behind a lock | read and write transactions on a snapshot, `commit` | `BaseEngine`, table reads |
| `BaseEngine` | a request channel and an apply loop with a cursor | `new`, `propose`, `sync`, drop | shared log, store, applicator |
| `BatchingEngine` | queue of pending proposals, flush task with timer | `propose`, `sync`; unpacks batches on apply | wraps an engine and an applicator |
| `ViewTrackingEngine` | per server the position of its last entry played, in memory | adds a header to proposals, notes views on apply, `trim_prefix` | wraps an engine and an applicator |
| `ObserverEngine`, stack builder | – | pass-through; composes layers | wraps an engine and an applicator |
| `DelosTable`, `TableApplicator` | – (schemas and rows live in the store) | create/drop table, put, get, delete, scan | proposes commands to the engine, reads the store |
| gRPC server, config, `main` | – | checks, conversion, statuses; wiring | table |

What is hard in this code:

* **NativeLoglet.** Every call is a conversation with tasks that answer in their
  own time. A seal overtakes appends that have a position and not yet a quorum;
  servers get the stores, seals and trims of different callers in different
  orders; a log-server task may end with requests in its mailbox.
* **VirtualLog.** A reconfiguration takes seven locks one after the other and
  uses values read under an earlier one; readers, trimmers, sealers and another
  reconfiguration run in between.
* **BaseEngine.** The loop dies between reading, committing and answering;
  callers give up; appends fail after the entry was stored or leave a position
  that is never filled; checks of the tail and reads fail too, or read nothing where
  an entry comes later; a dropped engine's loop is detached, not stopped.
* **BatchingEngine.** Size, timer, syncs and a closing channel race to cut the
  stream of proposals into batches; several callers share one append, one
  transaction and one answer; the loop may die with a batch on its way down.
* **Engine stack.** Engines and applicators are nested in opposite orders and
  talk through headers, which a layer may drop. The view map is written before the
  entry is applied, is skipped under contention and is lost by a restart, while
  headers built from it are on their way to the log.
* **DelosTable.** Tables are encoded in one flat key space by prefixes. Writes and
  reads go to any replica; a read is a sync and then, separately, a snapshot; an
  entry the applicator fails on stops every replica.

What makes each component correct is stated in sections 3 to 5; the list of
hazards in `PROJECT.json` ties each of them to the line where it bites.

## 2. Modules

```
Loglet  <== implements ==  NativeLoglet      (MCNativeLoglet; NativeLoglet_proofs,
                                              NativeCalls_proofs)
SharedLog <== implements == VirtualLog       (MCVirtualLog; VirtualLog_proofs,
                            uses MemoryLoglet, LogChain     VirtualLogOne_proofs)
BaseEngine  (over the sequence SharedLog specifies)   (MCBaseEngine; BaseEngine_proofs)
BatchingEngine  (over BaseEngine, reduced to one request)   (MCBatchingEngine;
                                                             BatchingEngine_proofs)
EngineStack  (over BaseEngine's apply loop)   (MCEngineStack; EngineStack_proofs)
Table  <== implements ==  DelosTable         (MCDelosTable; DelosTable_proofs)
                          uses GrpcService, TableApplicator, MemoryStore
```

* `Loglet`: the contract of the trait for acknowledged appends and returned
  seals. Each position is acknowledged once and below the sealed tail, and there
  is one sealed tail. It deliberately lets an append that was in flight be
  acknowledged after a seal.
* `NativeLoglet`: `native_loglet.rs`. One action per stretch between awaits:
  a request to the sequencer is one step of the caller, because the caller blocks
  on it and nobody else sees the sequencer in between; every send to a log server,
  every request a log server handles and every collection of replies is a step of
  its own. Mailboxes are FIFO and bounded; `Crash` ends a log-server task with
  whatever is in its mailbox.
* `MemoryLoglet`, `LogChain`: methods as functions of the value under the lock.
* `VirtualLog`: `virtual_log.rs` with `metastore.rs`; one action per lock taken.
  Loglets are numbered by creation, so that a task can hold one the map has
  already replaced.
* `SharedLog`: the log that `VirtualLog` offers, one sequence that only grows.
* `BaseEngine`: `base_engine.rs` with the transactions of `memory.rs`. `Failures`
  are the ways an append, a check of the tail and a read fail that `NativeLoglet`
  exhibits. The applied state is
  the sequence of applied entries.
* `BatchingEngine`: `batching.rs`, the flush loop and `BatchingApplicator`, with
  the engine below it as a task of its own (`DownAppend`, `DownRefuses`,
  `DownReadFails`, `DownApply`, ...) that goes on when the flush loop dies. `Returned` is the end of
  `flush_batch` and of `sync`. Channel capacity, size limit and timer are kept;
  the timer may fire at any moment while proposals are pending.
* `EngineStack`: `stack.rs`, `view_tracking.rs`, `observer.rs` and the headers of
  `entry.rs`. `stack` is any of `Stacks`, first pushed first. `Sent` folds a payload
  through the engines, last pushed first; `Shown` folds an entry through the
  applicators, first pushed first. `outbox` holds entries whose headers are built
  and that are not appended yet; `Apply` notes the views, unless the map is held,
  and then applies; `ReadFails` ends a request in the middle; `Restart` empties the map and keeps the cursor.
* `MemoryStore`: the map of `memory.rs`, one operator per method of a transaction.
  Keys are kept in their parts (space, the parts of the table's name, primary key),
  which is exact because an encoded primary key holds no slash.
* `TableApplicator`: `applicator.rs`, each `apply_*` as a function from store to
  outcome: Ok with a response, or Err.
* `GrpcService`: what the handlers of `grpc_service.rs` refuse, the command they
  make, null in its three wire forms, statuses.
* `DelosTable`: `table.rs` and the handlers on replicas that share a log. The engine
  is `BaseEngine` without aborted loops and callers that give up. A client is
  connected to one server (`Server`), as a gRPC channel is.

In `BatchingEngine`, `EngineStack` and `DelosTable` every call of the log may fail. An
append that is stored although it fails is one whose first read fails, and a position
that stays empty one whose reads fail for ever. Their log is the sequence of `SharedLog`,
which `VirtualLog` is for one appender: `main` wires one server, and for several the
three modules say what holds over a log that keeps that promise.

* `Table`: what the table API promises: named tables that only their own commands
  change. `TablesIn` of `DelosTable` reads the tables off a store's keys.

Actions keep the names of the methods. Definitions marked `mutant` are the
altered forms used to show that a property can fail; nothing refers to them.
Variables under "history" record what calls returned and guard nothing.

## 3. Runs

| Run | Instance | Shows |
|---|---|---|
| `native_race` | 3 servers, 2 appenders with different entries, one of which reads and the other seals and trims, 2 positions, mailboxes of 1 | replicas agree; what is acknowledged is on a majority and below the sealed tail; nothing is stored after a seal returned; acknowledged entries are found or trimmed; trims that returned are seen; the contract of `Loglet` |
| `native_crash` | 3 servers, an appender beside a client that seals, reads and trims, 1 position, up to 2 ended servers, mailboxes of 1, fairness | while a majority is left, what is acknowledged is on a server that has not ended; no read denies it, and every call returns |
| `virtual_chain` | an appender, a sealer and a task that reads, checks the tail and trims; 3 appends, 2 seals, up to 3 segments, fairness | the chain tiles the log in every intermediate state, the log is one sequence, every append gets through; reads, tails and trims are right across segment boundaries |
| `virtual_contention` | 2 appenders, a sealer, a reader | no chain a task can read names a loglet the map lacks |
| `engine_errors` | an engine and its successor on one store, failing appends, tail checks, reads and applies, a hole, 1 aborted loop, fairness | nothing applied twice or skipped; every caller answered |
| `batch_flush` | 2 callers, batches of 2, 3 proposals here or on another server of which the third fails, a failing log, 1 aborted loop, fairness | proposals are logged once and in the order sent, batches are applied whole or not at all, Ok means applied and comes with the own batch's result, syncs are barriers, everybody is answered |
| `table_ops` | 2 replicas with a client each, a failing log, 4 requests that handlers refuse; either 5 writes and a scan of one table and 3 commands in the log, or one client alone, 6 writes and 2 reads of two tables and 4 commands | a write is Ok exactly if the tables at its place in the log accept it; a read at any replica shows its table at one moment between call and return; every row is one of its table's present schema; every store is the tables of `Table`, entry by entry |
| `stack_views` | 2 servers; view tracking over an observer, below batching, above batching; 4 log entries, 2 proposals in flight per server, a failing payload, a failing log, a contended map, 1 restart | payloads come out as they went in; view maps are current; headers never run ahead of the durable cursor |
| `native_hole` | violation | a sealed tail above a position nothing is stored at |
| `virtual_two_appenders` | violation | with two appenders an acknowledged entry becomes unreadable |
| `table_names` | violation | a scan of table `a` returns the rows of table `a/b` |
| `view_trim` | violation | `trim_prefix` passes the cursor of a server in the view map |

**Bounds.** Three servers are the smallest number where a quorum is neither one
server nor all of them: one may end and leave a quorum, and the holders of what was
acknowledged before differ from those of what is acknowledged after; two may end and
leave none, so that appends and seals fail for want of it. Two positions let
two appends be in flight in either order and let a trim fall between them; beside a
server that ends one position is enough for a store, a seal, a trim and a read to be
half way when it does. (Without fairness, and with one server that ends, TLC finds
`AckedOutlives` true with two positions too, on 2.8 million states.) Mailboxes of one or two make senders wait. Two seals give
`virtual_chain` first, middle and last segments, three appends both sides of a boundary
and two entries on one of them. Two proposals let an engine play an entry that was
stored although its append failed before the one it proposes. With three proposals, two
to a batch and the third failing, the batch `<<1, 2>>` of two callers succeeds,
`<<1, 3>>` and `<<2, 3>>` fail after a sub-entry that did not, and what is behind a
failed batch is stopped by it; callers that give up leave receivers nobody waits at.
Three commands on one table are enough to create it, fill it and drop, delete from or
read it on the other replica, or to meet an entry that cannot be applied; two replicas
let each play the other's entries first. Four commands are enough to create and fill
table `b` and create and drop `a` beside it, and to create, fill, drop and create `a`
again with fewer columns; replicas apply alike, so one client at one of them is enough
for that. `Workloads` of `MCDelosTable` is the constraint that has TLC explore these
two kinds of behaviour and no mixture. Four log entries and two servers let a header be
overtaken, appended late and played after a restart.
The bounds on positions, seals, appends, segments, proposals, crashes and aborts
are guards named after them; the proofs of section 5 need none of them small.

**Fairness.** tokio polls every task that is ready, which gives weak fairness of a
call that can go on (`Proceed`), of a log server with mail (`Serve`), of an apply
loop or a flush loop with its timer (`Loop`) and of the engine below (`Down`). A
sender waiting for room in a bounded channel is served in order, which gives
strong fairness of `FanOut` and `ReadSend`. `DelosTable` and `EngineStack` state no
fairness: what their callers wait for is the apply loop of `BaseEngine`. Nothing makes a
client call, a caller give up or a task end. `AppendsReturn` of `VirtualLog` is
claimed for one appender and finitely many seals; two appenders can seal each
other's new loglet in turn without end.

**Deadlock** is checked where calls can always be made; where the bounds on
appends, seals or proposals stop every client it is switched off.

## 4. Disagreements between the code and its documentation

* `native_hole`: `loglet.rs:24` says `seal` "Returns the final tail position (the
  position after the last entry)". `native_loglet.rs:418` includes positions that
  were handed out and then refused by every sealed server, so the tail may follow
  a position that stays empty for ever; an engine that plays the log stops there.
* `virtual_two_appenders`: the loser of a compare-and-swap creates the new
  segment's loglet, may append to it, and the winner then replaces it in the map
  (`virtual_log.rs:147`). The server has one appending task, its apply loop, and
  the passing runs that speak of acknowledged entries assume that.
* `table_names`: `table.rs:76` says a scan returns "all rows in a table". The rows of
  `a/b` have keys that start with `data/a/` (`table.rs:82`, `applicator.rs:35`), and
  no name is refused. A drop of `a` deletes them too, while the schema of `a/b` stays.
* `view_trim`: `view_tracking.rs:23-26` says servers send their "durable playback
  cursor", the applicator "extracts these cursors" and so enables "safe prefix
  trimming". Line 126 notes the position of the entry instead, which its proposer
  has appended but not played up to. Nothing in the repository trims by it yet.

Further consequences of the models that no run is spent on:

* `traits.rs:22` says `propose` "Blocks until the entry is applied locally, then
  returns the result". In a batch everybody is sent the value of the last sub-entry
  (`batching.rs:261`, 179); with the table on top, one caller's "already exists" is
  reported to another, or to nobody. `OkMeansApplied` states what the code does: the
  result is that of the last entry of the caller's own batch, so that a caller whose
  entry is not the last of its batch gets another's.
* `base_engine.rs:34` says the apply loop "is aborted on drop"; dropping a
  `JoinHandle` detaches it. With `Overlap = TRUE` in `EngineErrors.cfg` a new engine
  on the store of a dropped one, whose loop still serves a caller who gave up,
  applies an entry a second time: `AppliedIsLogPrefix` fails.
* A table whose primary key names no column is created without complaint, and the
  first put into it fails in `extract_pk` (`applicator.rs:65`) with an error and not
  a response: the cursor of every replica stays before that entry, and every later
  write, and every read that needs a sync past it, fails (`ApplyFails`).
* `stack.rs:60-61` says the last-pushed middleware "is the outermost applicator
  layer". It wraps first and is the innermost: the first-pushed sees entries first,
  which is what mirrors the engines. `ViewsAreCurrent` fails in the other order.
* With batching pushed before view tracking the header is dropped with the entry
  (`batching.rs:197`), view maps stay empty and `trim_prefix` is `None` for ever.
* `PLAN.md:290` has the view map in the local store; it is in memory, and after a
  restart `trim_prefix` is the minimum over the servers heard of since.
* `native_loglet.rs:216` says appends "succeed when a majority (quorum) ack", but
  the `?` at line 269 fails the call at the first ended server, before the others
  are asked; reads fail in the same way (line 367). `FanOutFails` and `ReadFails`
  are these steps.
* With two appenders a seal position read before another reconfiguration can
  break the tiling of the chain (`virtual_log.rs:131`).
* `VirtualLog::seal` does not stop later appends, which reconfigure to a new
  segment (`loglet.rs:23` says they are rejected).

## 5. Proofs

All theorems are for every number of servers, tasks, clients and engines, every
set of entries and every value of the bounds, from the assumptions named in the
modules. `~Overlap`, `OneAppender`, `OneBatching` and `PrefixFree` are hypotheses of
their own:

* `~Overlap`: no engine is created on a store while the loop of a dropped one still
  runs on it. The server creates one engine per store and keeps it. With overlap
  `AppliedIsLogPrefix` is false (section 4).
* `OneAppender`: at most one task appends to the virtual log; any number seal, read,
  check the tail and trim. In the server only the apply loop appends. With two
  `AckedReadable` is false (`virtual_two_appenders`).
* `OneBatching`: no stack has two batching layers. `BatchingEngine` keeps the payloads
  of what it batches and drops their headers, so the inner of two layers takes off the
  header by which the outer would recognise its batch, and the application is given a
  packed one. The repository builds no such stack; layers may otherwise be pushed in
  any order, and repeated.
* `PrefixFree`: of the tables that requests name, none has a name that is, up to a
  slash, the beginning of another's. No name in the repository's tests and demo holds
  a slash, so theirs satisfy it. With `a` and `a/b` a scan returns the rows of both
  (`table_names`) and a drop deletes them.

The assumptions on the constants of `DelosTable` are that clients are finitely many,
each with one server, and that requests are the messages of the gRPC interface
(`RequestAssumption`: a name is a string, in its parts; a schema has a name, a list of
columns and a list of key columns, or is missing). Schemas may be nonsense: a key that
names no column, no key, the same column twice.

| Module | Theorem | Statement |
|---|---|---|
| `NativeLoglet_proofs` | `Invariance` | `Spec => []Inv` |
| | `TypeCorrect` | `Spec => []TypeOK` |
| | `ReplicasAgree` | `Spec => []ReplicaAgreement` |
| | `AckedIsDurable` | `Spec => []AckedDurable` |
| | `AckedAlwaysOutlives` | `Spec => []AckedOutlives` |
| | `SealsBoundAcks` | `Spec => []SealBoundsAcks` |
| | `LogletImplemented` | `Spec => ImplementsLoglet` |
| `NativeCalls_proofs` | `CallInvariance` | `Spec => [](Inv /\ CallInv)` |
| | `SealsFreeze` | `Spec => SealFreezesServers` |
| | `ReadsFind` | `Spec => ReadsFindAcked` |
| | `TrimsTakeEffect` | `Spec => TrimTakesEffect` |
| `VirtualLog_proofs` | `AnyInvariance` | `Spec => []AnyInv` |
| | `NoCallLacksALoglet` | `Spec => []LogletsBacked` |
| `VirtualLogOne_proofs` | `OneInvariance` | `OneAppender => (Spec => []OneInv)` |
| | `TypeCorrect` | `OneAppender => (Spec => []TypeOK)` |
| | `AckedStaysReadable` | `OneAppender => (Spec => []AckedReadable)` |
| | `OnlyTrimsTrim` | `OneAppender => (Spec => []TrimmedOnlyBelow)` |
| | `SegmentsTile` | `OneAppender => (Spec => []ChainTiles)` |
| | `CacheIsCoherent` | `OneAppender => (Spec => []CacheCoherent)` |
| | `ReadsReturnAcked` | `OneAppender => (Spec => ReadsFindAcked)` |
| | `CheckTailCurrent` | `OneAppender => (Spec => CheckTailIsCurrent)` |
| | `TrimsTakeEffect` | `OneAppender => (Spec => TrimTakesEffect)` |
| | `OneLog` | `OneAppender => (Spec => ImplementsSharedLog)` |
| `BaseEngine_proofs` | `TypeCorrect` | `Spec => []TypeOK` |
| | `Invariance` | `~Overlap => (Spec => []Inv)` |
| | `StoresAreLogPrefixes` | `~Overlap => (Spec => []AppliedIsLogPrefix)` |
| | `ProposersGetTheirOwn` | `~Overlap => (Spec => ProposeReturnsItsOwn)` |
| `BatchingEngine_proofs` | `Invariance` | `Spec => []Inv` |
| | `TypeCorrect` | `Spec => []TypeOK` |
| | `LoggedInOrder` | `Spec => []LoggedOnceInOrder` |
| | `AtomicBatches` | `Spec => []BatchesAreAtomic` |
| | `OkIsApplied` | `Spec => OkMeansApplied` |
| | `SyncsAreBarriers` | `Spec => SyncIsABarrier` |
| `EngineStack_proofs` | `Invariance` | `Spec => []Inv` |
| | `TypeCorrect` | `Spec => []TypeOK` |
| | `PayloadsUnchanged` | `OneBatching => (Spec => []AppliedAsProposed)` |
| | `ViewsCurrent` | `Spec => []ViewsAreCurrent` |
| | `HeadersBehind` | `Spec => []HeadersNeverAhead` |
| `DelosTable_proofs` | `TypeCorrect` | `Spec => []TypeOK` |
| | `RowsAlwaysBelong` | `Spec => []RowsBelong` |
| | `TableImplemented` | `PrefixFree => (Spec => ImplementsTable)` |
| | `Invariance` | `Spec => [](IndInv /\ HistInv)` |
| | `WritesAreLinearizable` | `Spec => WritesLinearizable` |
| | `ReadsAreLinearizable` | `PrefixFree => (Spec => ReadsLinearizable)` |

Hardly any of the properties is inductive. The strengthenings were checked by TLC
first, on the instances of the runs `native_race` and `native_crash` (`Inv`,
`CallInv`), `virtual_contention` (`AnyInv`), `virtual_chain` (`OneInv`),
`engine_errors` (`Inv`), `batch_flush` (`Inv`), `stack_views` (`EntryInv`,
`ViewInv`; the same with stacks that batch twice or track views twice) and `table_ops`
(`IndInv`, `HistInv`; the same, and `WritesLinearizable`, with tables `a` and `a/b` and
four commands).

**NativeLoglet.** `Inv` is the conjunction of

* `PcInv`: which request belongs to which point of a call.
* `DeliveryInv`: a queued message with a receiver is the request of that client's
  call in progress, is there once per server, and is not answered yet; replies
  fit the request; ended servers have empty mailboxes. Without it a client could
  count a reply to an earlier call. The key step is `EndsMail`: a call that ends
  leaves no message addressed to it, either because all servers answered or
  ended, or because it dropped its receivers.
* `PosInv`: whatever is stored, queued, in flight or acknowledged was assigned by
  the sequencer, which assigns a position once; a position in flight belongs to
  one client and is not acknowledged. Agreement of the replicas and uniqueness of
  acknowledged positions follow.
* `SealInv`: every trace of a seal implies that the sequencer is sealed, so its
  next position is frozen; all tails are at most that position, hence the maximum
  a seal computes is exactly it (`FinalTailIsNextPos`), for every seal.
* `HoldInv`: a server whose acknowledgement a client has counted holds the record
  (a store that found the position occupied found the same record, by `PosInv`),
  and what a server holds it keeps until trimmed (`HoldsStable`); so a counted
  quorum is a quorum of holders for ever (`QuorumGrows`). Of a majority of holders one
  is left when no majority has ended (`AckedAlwaysOutlives`).

There is one lemma per conjunct (`TypeStep`, `PcStep`, `DeliveryStep`, `PosStep`,
`SealStep`, `HoldStep`), each split by action or by kind of action (`StepKinds`).

**What the loglet's calls return.** A reply tells of a moment that is over when it
is read. `MeansInv` keeps what stays true of the server that gave it: it is sealed,
it is trimmed, the entry was assigned. For reads that is not enough, since "not
found" may be false by the time the client counts it. `ReaderInv` counts the
`Sources` of an acknowledged record instead: the holders that have not answered
"not found". A server that holds the record answers with it, so it never leaves the
set, and the quorum of holders that acknowledged it stays (`AckedIsDurable` at the
start of the read); the servers before the one being asked all answered "not found",
so the read cannot run out of servers. `ReachInv`: a returned trim has reached every
server, a returned seal every server that has not ended.

**VirtualLog, any number of appenders.** `AnyInv` has the types that contention
cannot break (`Shape`), the local variables of each point of a call (`CallInv`), and
`BackedInv`: MetaStore's chain, the cached one and every chain a task is about to
write have an open last segment and cover all positions from 1; the cached one and
one about to be cached name only loglets in the map; a chain on its way to MetaStore
may name, beside those, the loglet its task has just created and not yet inserted.

**VirtualLog, one appender.** `OneInv` adds

* `StraightInv`: segment, id and loglet are numbered alike, so that the map never
  replaces a loglet; this is what fails with two appenders.
* `TilesInv`: a segment starts where the sealed loglet of the one before it ends.
* `AckedInv`: the acknowledged appends are one record for each position below the
  tail, each in its segment or trimmed there.
* `TrimInv`: no loglet is trimmed beyond what was asked for.
* `MetaInv`: MetaStore and cache differ only during an installation.
* `TaskInv`: what a suspended task holds. `ReconfPart` says that the seal position
  and version it read are still current (nobody else installs); `SegmentPart` that a
  reader's local position still addresses the entry it looked up; `TrimmerPart` that
  its copy of the chain is stale at most in the end of a segment that was open, and
  that everything it knew of is trimmed or in a segment still to be visited.

`KnownInv`, beside it, says that what a call knew when it began was acknowledged.
`OneLog` maps an append's step to an append of `SharedLog` by showing that the
acknowledged records, read as a sequence, grow at the end only.

**BaseEngine.** `LoopInv` has the local variables at each point of the loop, `MailInv`
that a client waits for at most one request and is not answered yet. `StoreInv`: one
running loop per store, whose cursor is the persisted one and whose transaction works
on what the store still is; without it nothing relates a commit to the log prefix
below it. `ReplyInv`: the target of a proposal in hand is its own entry's position,
above everything that had finished when it was made, and is still to be played or
was played by this loop, with the value it will return.

**BatchingEngine.** The requests that wait for an answer are in four places: the
batch in hand, the sync held back behind it, what is pending, and the channel.
Read one after the other they are one `Line`, and this is what makes the proof
short: sending adds at its end, an answer takes from its front, cancelling replaces a
receiver, and what the flush loop does in between (gathering, cutting a batch,
holding a sync back) moves requests from one place to the next without changing the
line at all. `Inv` is the conjunction of

* `TypeOK`, `DownInv`, `LoopInv` (together `Basic`): what the engine below has in
  hand, where the flush loop is and what it holds there.
* `LineInv`: each request in line belongs to a caller that waits for it; payloads grow
  along the line; what comes behind a call was not sent before it.
* `LogInv`: every local payload in the log is below those still to be appended, in the
  hands of the engine below or in line (`Ahead`). The engine below may still append
  the batch of a loop that was aborted, so the line alone would not do.
* `BatchesAreAtomic`, which is inductive given `Basic`.
* `BarrierInv`: what is appended behind the target of a sync in hand was not sent
  before it.

`EndsOk` says that only the engine below ends a call with Ok, and for whom; the two
action properties follow from it. The facts about `FlattenSeq`, a recursive function
of the library, are proved without induction over data: the set of indices at which
they fail would have a least element (`LeastNat`), and there they do not fail.

**EngineStack.** `Sent` and `Shown` pass an entry through the layers one by one.
`AllPack` says what the first layers of the way down have made of a payload, by their
order alone: which headers it has, that a view header is the proposer's, when a
batching layer has dropped it, and what is packed. `AllUnpack` says what the first
applicators of the way up leave: the entry as it was until it meets a batching layer,
and its headers or none afterwards. From the two, `TopFacts` (the payload comes out
again) and `HeaderFacts` (a view tracking applicator finds the proposer's header or
none) hold for every stack. `Inv` adds to the properties

* `EntryInv`: what is in flight or in the log has these facts, and its view header is
  no later than the cursor its server has now; cursors are durable and only grow.
* `ViewInv`: what is in a view map, or was seen, is not beyond the cursor. An entry that
  failed is at the cursor, noted though not passed, hence "at most" and not "below".

**DelosTable.** `IndInv` adds to the types

* `StoresOK`: a key in a store is the key of a schema that requests may name, or of a
  row of a table whose schema is in the store, with the row's values and key those
  that schema asks for; this is `RowsBelong`, and needs no `PrefixFree`. A drop deletes a table's schema and its
  rows in one transaction and a put looks the schema up first, so no row outlives its
  table.
* `CallsOK`, `LoopsOK`, `KnownOK`: a call in progress is one the handlers let through,
  the request in a loop's hand belongs to a client of that replica that is being
  served, and positions lie within the log.
* `RoomOK`: the log has room for the commands of all calls in hand, counted by
  `Cardinality`; without it the bound on the log would not be an invariant.

`ApplySimulates` is the refinement step: what a command of `TableApplicator` makes of the
keys is what `Step` of `Table` makes of the tables they encode, or both refuse it, or
both fail on it. It rests on `RowsMade` and `TablesMade` (the tables are determined by
which keys exist), and for a drop on `PrefixFree`: the keys under `data/t/` are the
rows of `t` and of no other table (`Dropped`), which is what scans need too.

`HistInv` relates a store to the log. `Replays`: a replica at cursor `n` has the schemas
that the first `n - 1` commands give, whatever the names are; with `PrefixFree` it has
their rows too; and none of these commands is one that cannot be applied. `Writes`: the
proposal in hand is its own command's, behind everything its client knew of, and once
it is played its response tells whether the tables at that place accept it; a write whose
log cannot be read is answered with `internal`, and of that answer `WritesLinearizable`
says nothing. `ReadsHist`:
a synced read is at a store that has passed what its client knew of. Writes are
linearizable for all names because acceptance depends on the schemas alone
(`SameAnswers`, `SameSteps`), although a drop may delete another table's rows. `After`
is a recursive function of the position; that it has the value its definition gives, and
that longer logs agree with shorter ones, is shown by a least counterexample
(`RunsExist`, `RunsAgree`).

Only model-checked: liveness (`CallsReturn`, `AppendsReturn`, `CallersAnswered`),
which the proof system does not handle. Every invariant and every action property of a
passing run is stated by a theorem. `CacheCoherent` of `VirtualLog` is
only proved.

## 6. Not modelled

Configuration, the listening address and the demo of `main` have no state, and
`relos-client` no code. An observer's latencies are reported to nobody who acts on
them. Column types and `nullable` are checked by nobody in the code once a schema is
accepted, and so are left out of `Table`; the order of scanned rows is left out too.
`DelosTable` runs without the middle layers, as `main` wires it, but with any number of
servers on one log. Of the error paths, an
ended sequencer task is left out: every call then fails with `Internal`. A batch
that cannot be serialised is, to its callers, a batch whose append failed.
Payloads, serialisation and log messages are abstracted to model values. A `VirtualLog`
over `NativeLoglet`s is not composed state by state: `Loglet` is what one promises
and the other relies on. Several `VirtualLog`s on one `MetaStore` are left out:
every factory in the repository makes a fresh loglet for an id, so they could not
share entries.

## 7. Plan

Done, in this order: `Loglet`, `NativeLoglet`, `LogChain`, `MemoryLoglet`,
`VirtualLog`, `SharedLog`, `BaseEngine`, `NativeLoglet_proofs`, `BatchingEngine`,
`MemoryStore`, `TableApplicator`, `GrpcService`, `Table`, `DelosTable`,
`EngineStack`, `BaseEngine_proofs`, `VirtualLog_proofs`, `VirtualLogOne_proofs`,
`NativeCalls_proofs`, `BatchingEngine_proofs`, `EngineStack_proofs`,
`DelosTable_proofs`. What is left:

1. A composition of `VirtualLog` with `NativeLoglet`s state by state (section 6).
2. `relos-client`, when it has code.
