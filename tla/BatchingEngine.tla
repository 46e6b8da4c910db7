---------------------------- MODULE BatchingEngine ----------------------------
(***************************************************************************)
(* crates/relos-engine/src/batching.rs: group commit. A flush loop takes    *)
(* propose and sync requests from a FIFO channel, gathers proposals and     *)
(* hands them down as one log entry; BatchingApplicator takes such entries  *)
(* apart again when the log is played.                                      *)
(*                                                                          *)
(* The engine below is BaseEngine: one request at a time, an append or a    *)
(* check of the tail, then playing the log forward, each entry in a write   *)
(* transaction of its own, up to the target. It is a task too, and finishes *)
(* the request in hand when the flush loop that made it is gone. Entries    *)
(* other servers append, batched or not, come in between. Any call of the   *)
(* log may fail. An append that fails although the entry is stored is one   *)
(* whose first read fails, and a position that is left empty one whose      *)
(* reads fail for ever.                                                     *)
(*                                                                          *)
(* The n-th proposal has payload n; applying payload n returns n. On the    *)
(* payloads in Rejected the wrapped applicator fails.                       *)
(***************************************************************************)
EXTENDS Integers, Sequences, SequencesExt, FiniteSets

CONSTANTS
  Client,         \* tasks that call propose and sync
  NoOne,          \* the receiver of a result whose oneshot was dropped
  Rejected,       \* payloads the wrapped applicator fails on
  MaxBatch,       \* max_batch_size
  Capacity,       \* of the request channel, 1024 in the code
  MaxProposals,   \* bound: proposals that are made, here or elsewhere
  MaxAborts       \* bound: flush loops that are aborted, 0 or 1

ASSUME NoOneAssumption == NoOne \notin Client
ASSUME BatchAssumption == MaxBatch \in Nat /\ Capacity \in Nat \ {0}
ASSUME BoundsAssumption ==
  MaxProposals \in Nat /\ MaxAborts \in {0, 1}

VARIABLES
  life, queue,                    \* the handle, and the channel it sends to
  phase, pending, batch, syncReq, \* the flush loop's local variables
  down,                           \* the request in the hands of BaseEngine
  log, applied, store,            \* the log, how far it is played, the result
  pc, result,                     \* the clients
  proposed, local, known          \* history: how many were proposed, the
                                  \* payloads of here, those sent before a call

loopVars == <<phase, pending, batch, syncReq>>
downVars == <<down, log, applied, store>>
clientVars == <<pc, result, known>>
vars == <<life, queue, loopVars, downVars, clientVars, proposed, local>>

-------------------------------------------------------------------------------
Payload == 1..MaxProposals

Request == [to : Client \cup {NoOne}, op : {"none", "propose", "sync"},
            payload : 0..MaxProposals]
NoReq == [to |-> NoOne, op |-> "none", payload |-> 0]

(* A log entry; count is what its batching header says. *)
LogEntry == [batched : BOOLEAN, count : Nat, payloads : Seq(Payload)]
Plain(n) == [batched |-> FALSE, count |-> 0, payloads |-> <<n>>]

DownIdle == [stage |-> "idle", op |-> "none", entry |-> Plain(0), target |-> 0]
DownQueued(op, entry) ==
  [stage |-> "queued", op |-> op, entry |-> entry, target |-> 0]

Res(op, tag, value) == [op |-> op, tag |-> tag, value |-> value]

(* A batch is within max_batch_size, or the single proposal that is flushed *)
(* at once when max_batch_size is 0.                                        *)
TypeOK ==
  /\ life \in {"up", "dropped", "dead", "exited"}
  /\ queue \in Seq(Request)
  /\ phase \in {"recv", "flush", "sync"}
  /\ pending \in Seq(Request) /\ batch \in Seq(Request)
  /\ Len(batch) <= MaxBatch \/ Len(batch) = 1
  /\ syncReq \in Request
  /\ down.stage \in {"idle", "queued", "play"}
  /\ log \in Seq(LogEntry)
  /\ applied \in 0..Len(log)
  /\ store \in Seq(Payload)
  /\ pc \in [Client -> {"idle", "waiting"}]
  /\ result \in [Client -> [op : {"none", "propose", "sync"},
                            tag : {"pending", "ok", "error"}, value : Nat]]
  /\ proposed \in 0..MaxProposals
  /\ local \subseteq Payload
  /\ known \in [Client -> SUBSET Payload]

Init ==
  /\ life = "up" /\ queue = <<>>
  /\ phase = "recv" /\ pending = <<>> /\ batch = <<>> /\ syncReq = NoReq
  /\ down = DownIdle /\ log = <<>> /\ applied = 0 /\ store = <<>>
  /\ pc = [c \in Client |-> "idle"]
  /\ result = [c \in Client |-> Res("none", "pending", 0)]
  /\ proposed = 0 /\ local = {}
  /\ known = [c \in Client |-> {}]

-------------------------------------------------------------------------------
(* Callers *)

Send(c, op, n) ==
  /\ pc[c] = "idle"
  /\ life = "up"
  /\ Len(queue) < Capacity
  /\ queue' = Append(queue, [to |-> c, op |-> op, payload |-> n])
  /\ pc' = [pc EXCEPT ![c] = "waiting"]
  /\ result' = [result EXCEPT ![c] = Res(op, "pending", n)]
  /\ known' = [known EXCEPT ![c] = local]
  /\ UNCHANGED <<life, loopVars, downVars>>

Propose(c) ==
  /\ proposed < MaxProposals
  /\ proposed' = proposed + 1
  /\ local' = local \cup {proposed + 1}
  /\ Send(c, "propose", proposed + 1)

Sync(c) == Send(c, "sync", 0) /\ UNCHANGED <<proposed, local>>

(* The loop is gone, and the channel's receiver with it: send fails. *)
SendFails(c, op) ==
  /\ pc[c] = "idle"
  /\ life = "dead"
  /\ result' = [result EXCEPT ![c] = Res(op, "error", 0)]
  /\ UNCHANGED <<life, queue, loopVars, downVars, pc, known,
                 proposed, local>>

(* The caller's future is dropped: its request stays wherever it is. *)
Forget(r, c) == IF r.to = c THEN [r EXCEPT !.to = NoOne] ELSE r
ForgetIn(rs, c) == [i \in DOMAIN rs |-> Forget(rs[i], c)]

Cancel(c) ==
  /\ pc[c] = "waiting"
  /\ pc' = [pc EXCEPT ![c] = "idle"]
  /\ queue' = ForgetIn(queue, c)
  /\ pending' = ForgetIn(pending, c)
  /\ batch' = ForgetIn(batch, c)
  /\ syncReq' = Forget(syncReq, c)
  /\ UNCHANGED <<life, phase, downVars, result, known, proposed, local>>

(* The handle is dropped once no call borrows it. That closes the channel;  *)
(* the task is detached and serves what is left.                            *)
Drop ==
  /\ life = "up"
  /\ \A c \in Client : pc[c] = "idle"
  /\ life' = "dropped"
  /\ UNCHANGED <<queue, loopVars, downVars, clientVars, proposed, local>>

(* result_tx.send to each of them that still waits. *)
Answer(tos, tag, value) ==
  /\ pc' = [c \in Client |-> IF c \in tos THEN "idle" ELSE pc[c]]
  /\ result' = [c \in Client |-> IF c \in tos THEN Res(result[c].op, tag, value)
                                 ELSE result[c]]
  /\ UNCHANGED known

Callers(rs) == {rs[i].to : i \in DOMAIN rs}

-------------------------------------------------------------------------------
(* The flush loop *)

Receive(op) ==
  /\ life \in {"up", "dropped"}
  /\ phase = "recv"
  /\ queue # <<>>
  /\ Head(queue).op = op
  /\ queue' = Tail(queue)
  /\ UNCHANGED <<life, log, applied, store, clientVars, proposed, local>>

(* flush_batch, up to downstream.propose: the batch is drained and packed.  *)
Payloads(rs) == [i \in DOMAIN rs |-> rs[i].payload]

DrainNot(rs) == rs                         \* mutant: pending is not emptied
Drain(rs) == <<>>

StartFlush(rs) ==
  /\ batch' = rs
  /\ pending' = Drain(rs)
  /\ down' = DownQueued("propose", [batched |-> TRUE, count |-> Len(rs),
                                    payloads |-> Payloads(rs)])
  /\ phase' = "flush"

FullLate(rs) == Len(rs) > MaxBatch         \* mutant: ">" for ">="
Full(rs) == Len(rs) >= MaxBatch

ReceivePropose ==
  LET rs == Append(pending, Head(queue)) IN
  /\ Receive("propose")
  /\ IF Full(rs)
     THEN StartFlush(rs)
     ELSE pending' = rs /\ UNCHANGED <<batch, phase, down>>
  /\ UNCHANGED syncReq

(* A sync is held back until what is pending has been flushed. *)
FlushFirstNot == FALSE                     \* mutant: pending is left waiting
FlushFirst == pending # <<>>

ReceiveSync ==
  /\ Receive("sync")
  /\ syncReq' = Head(queue)
  /\ IF FlushFirst
     THEN StartFlush(pending)
     ELSE /\ phase' = "sync"
          /\ down' = DownQueued("sync", Plain(0))
          /\ UNCHANGED <<pending, batch>>

(* The timer fires, which it may although a request has just arrived, or    *)
(* the channel is closed and empty: what there is is flushed.               *)
TimesOutNever == FALSE                     \* mutant: only a full batch goes
TimesOut == pending # <<>>

FlushPartial ==
  /\ life \in {"up", "dropped"}
  /\ phase = "recv"
  /\ TimesOut
  /\ StartFlush(pending)
  /\ UNCHANGED <<life, queue, syncReq, log, applied, store, clientVars,
                 proposed, local>>

LoopExits ==
  /\ life = "dropped"
  /\ phase = "recv" /\ queue = <<>> /\ pending = <<>>
  /\ life' = "exited"
  /\ UNCHANGED <<queue, loopVars, downVars, clientVars, proposed, local>>

(* The task dies, as when a panic unwinds it: callers are told that their   *)
(* result was dropped, the engine below keeps what it was handed.           *)
Abort ==
  /\ life \in {"up", "dropped"}
  /\ MaxAborts = 1
  /\ life' = IF life = "up" THEN "dead" ELSE "exited"
  /\ Answer(Callers(queue) \cup Callers(pending) \cup Callers(batch)
            \cup {syncReq.to}, "error", 0)
  /\ queue' = <<>> /\ pending' = <<>> /\ batch' = <<>>
  /\ syncReq' = NoReq /\ phase' = "recv"
  /\ UNCHANGED <<downVars, proposed, local>>

-------------------------------------------------------------------------------
(* The engine below, and what the loop does with its answer *)

(* downstream returned. A batch shares one answer, and a sync that waited   *)
(* behind it goes down next; if the loop is gone nobody is told.            *)
Returned(tag, value) ==
  CASE phase = "flush" ->
         /\ Answer(Callers(batch), tag, value)
         /\ batch' = <<>>
         /\ IF syncReq = NoReq
            THEN phase' = "recv" /\ down' = DownIdle
            ELSE phase' = "sync" /\ down' = DownQueued("sync", Plain(0))
         /\ UNCHANGED syncReq
    [] phase = "sync" ->
         /\ Answer({syncReq.to}, tag, value)
         /\ syncReq' = NoReq /\ phase' = "recv" /\ down' = DownIdle
         /\ UNCHANGED batch
    [] phase = "recv" ->
         down' = DownIdle /\ UNCHANGED <<batch, syncReq, phase, clientVars>>

DownAppend ==
  /\ down.stage = "queued" /\ down.op = "propose"
  /\ log' = Append(log, down.entry)
  /\ down' = [down EXCEPT !.stage = "play", !.target = Len(log) + 1]
  /\ UNCHANGED <<life, queue, loopVars, applied, store, clientVars,
                 proposed, local>>

(* append or check_tail returns an error. *)
DownRefuses ==
  /\ down.stage = "queued"
  /\ Returned("error", 0)
  /\ UNCHANGED <<life, queue, pending, log, applied, store, proposed, local>>

DownTail ==
  /\ down.stage = "queued" /\ down.op = "sync"
  /\ down' = [down EXCEPT !.stage = "play", !.target = Len(log)]
  /\ UNCHANGED <<life, queue, loopVars, log, applied, store, clientVars,
                 proposed, local>>

(* BatchingApplicator::apply fails on a header that miscounts and on the    *)
(* first sub-entry that fails; the transaction is dropped as a whole.       *)
FailsFirst(entry) == Head(entry.payloads) \in Rejected  \* mutant: `?` only once
Fails(entry) ==
  \/ entry.batched /\ entry.count # Len(entry.payloads)
  \/ \E i \in DOMAIN entry.payloads : entry.payloads[i] \in Rejected

Played == applied >= down.target

DownApply ==
  /\ down.stage = "play" /\ ~Played
  /\ ~Fails(log[applied + 1])
  /\ store' = store \o log[applied + 1].payloads
  /\ applied' = applied + 1
  /\ UNCHANGED <<life, queue, loopVars, down, log, clientVars,
                 proposed, local>>

(* log.read returns an error, or None. *)
DownReadFails ==
  /\ down.stage = "play" /\ ~Played
  /\ Returned("error", 0)
  /\ UNCHANGED <<life, queue, pending, log, applied, store, proposed, local>>

DownApplyFails ==
  /\ down.stage = "play" /\ ~Played
  /\ Fails(log[applied + 1])
  /\ Returned("error", 0)
  /\ UNCHANGED <<life, queue, pending, log, applied, store,
                 proposed, local>>

(* The result of the last sub-entry; a sync returns the tail. *)
ReturnValueFirst ==                        \* mutant: the first result is kept
  IF down.op = "propose" THEN Head(down.entry.payloads) ELSE down.target + 1
ReturnValue ==
  IF down.op = "propose" THEN Last(down.entry.payloads) ELSE down.target + 1

DownReply ==
  /\ down.stage = "play" /\ Played
  /\ Returned("ok", ReturnValue)
  /\ UNCHANGED <<life, queue, pending, log, applied, store,
                 proposed, local>>

(* Another server's entry, from a stack with a BatchingEngine or without. *)
RemoteAppend ==
  /\ proposed < MaxProposals
  /\ proposed' = proposed + 1
  /\ \E b \in BOOLEAN :
       log' = Append(log, [batched |-> b, count |-> IF b THEN 1 ELSE 0,
                           payloads |-> <<proposed + 1>>])
  /\ UNCHANGED <<life, queue, loopVars, down, applied, store, clientVars, local>>

-------------------------------------------------------------------------------
Loop == ReceivePropose \/ ReceiveSync \/ FlushPartial

Down == DownAppend \/ DownRefuses \/ DownTail \/ DownReadFails
        \/ DownApply \/ DownApplyFails \/ DownReply

Next ==
  \/ \E c \in Client : Propose(c) \/ Sync(c) \/ Cancel(c)
                       \/ \E op \in {"propose", "sync"} : SendFails(c, op)
  \/ Drop \/ LoopExits \/ Abort
  \/ Loop \/ Down \/ RemoteAppend

Spec == Init /\ [][Next]_vars

(* Both tasks are run while they can go on, and a timer that is not reset   *)
(* fires; nothing makes anybody call, give up, or abort a task.             *)
FairSpec == Spec /\ WF_vars(Loop) /\ WF_vars(Down)

-------------------------------------------------------------------------------
(* Properties *)

Logged == UNION {ToSet(log[i].payloads) : i \in DOMAIN log}

(* The k-th payload of the i-th entry is before the m-th of the j-th. *)
Before(i, k, j, m) == i < j \/ (i = j /\ k < m)

(* Proposals reach the log once each and in the order they were sent,       *)
(* however size, timer and syncs cut them into batches, and whoever gives   *)
(* up in between (batching.rs:96-131, 141).                                 *)
LoggedOnceInOrder ==
  \A i, j \in DOMAIN log :
    \A k \in DOMAIN log[i].payloads, m \in DOMAIN log[j].payloads :
      /\ log[i].payloads[k] \in local /\ log[j].payloads[m] \in local
      /\ Before(i, k, j, m)
      => log[i].payloads[k] < log[j].payloads[m]

(* A batch is applied as a whole or not at all: the store is the play of    *)
(* whole entries, and no sub-entry of a batch with a failing one is ever    *)
(* visible (batching.rs:258-263).                                           *)
BatchesAreAtomic ==
  /\ store = FlattenSeq([i \in 1..applied |-> log[i].payloads])
  /\ \A i \in 1..applied : \A j \in DOMAIN log[i].payloads :
       log[i].payloads[j] \notin Rejected

CallEnds(c, op, tag) ==
  pc[c] = "waiting" /\ pc'[c] = "idle" /\ result'[c].op = op /\ result'[c].tag = tag

(* Whoever is told Ok has its own proposal applied by then, and is given    *)
(* the result of the batch its proposal was in, never that of another batch *)
(* or of another server (batching.rs:175-181, 258-263). That is the result  *)
(* of the last sub-entry and not, as traits.rs:22 has it of propose, that   *)
(* of the caller's own entry, which in a batch of two the first never gets. *)
OkMeansApplied ==
  [][\A c \in Client : CallEnds(c, "propose", "ok") =>
       \E i \in 1..applied : /\ result[c].value \in ToSet(log[i].payloads)
                             /\ result'[c].value = Last(log[i].payloads)]_vars

(* A sync that returns Ok left no proposal sent before it waiting in the    *)
(* channel or for a batch to fill, and has applied those that reached the   *)
(* log (batching.rs:117-124).                                               *)
SyncIsABarrier ==
  [][\A c \in Client : CallEnds(c, "sync", "ok") =>
       LET waiting == ToSet(Payloads(queue)) \cup ToSet(Payloads(pending)) IN
       /\ known[c] \cap waiting = {}
       /\ known[c] \cap Logged \subseteq ToSet(store)]_vars

(* Every caller is answered: a batch that never fills is flushed by the     *)
(* timer, and errors from below reach everybody in the batch                *)
(* (batching.rs:103-106, 182-186).                                          *)
CallersAnswered == \A c \in Client : pc[c] = "waiting" ~> pc[c] = "idle"

===============================================================================
