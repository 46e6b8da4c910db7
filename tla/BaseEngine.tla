------------------------------ MODULE BaseEngine ------------------------------
(***************************************************************************)
(* crates/relos-engine/src/base_engine.rs: engines that play one shared log *)
(* forward into local stores. Every engine has an apply loop, a task that   *)
(* takes propose and sync requests from a FIFO channel one at a time.       *)
(*                                                                          *)
(* The shared log is the sequence SharedLog specifies, with the ways in     *)
(* which its calls may fail (Failures) as NativeLoglet shows them: an       *)
(* append is refused, stored although an error is returned, or leaves a     *)
(* position nothing is ever stored at; a check of the tail returns an       *)
(* error; a read returns one too, or None for an entry that is stored       *)
(* later. The local store is crates/relos-store/src/memory.rs: a write      *)
(* transaction works on a copy taken when it begins and is swapped in by    *)
(* commit. What the applicator makes of the entries is kept as the sequence *)
(* of entries it was applied to; on Rejected entries it fails.              *)
(*                                                                          *)
(* An engine that is dropped and created again on its store is a second     *)
(* member of Engine with the same StoreOf.                                  *)
(***************************************************************************)
EXTENDS Integers, Sequences, FiniteSets

CONSTANTS
  Engine, Store, StoreOf,  \* engines, local stores, and which engine has which
  Client,                  \* tasks that call propose and sync
  Entry, Rejected, Hole,   \* entries, those apply fails on, an unfilled position
  Failures,                \* the failures of the log that happen
  Overlap,                 \* whether an engine may be created on a store while
                           \* a dropped engine's loop still runs on it
  NoOne,                   \* the receiver of a result whose oneshot was dropped
  Capacity,                \* of the request channel, 256 in the code
  MaxProposals,            \* bound: proposals that are made
  MaxAborts                \* bound: apply loops that are aborted

ASSUME StoreOfAssumption == StoreOf \in [Engine -> Store]
ASSUME EntryAssumption == Rejected \subseteq Entry /\ Hole \notin Entry
ASSUME NoOneAssumption == NoOne \notin Client
ASSUME FailuresAssumption ==
  Failures \subseteq {"refused", "stored", "hole", "tail", "read"}
ASSUME BoundsAssumption ==
  Capacity \in Nat \ {0} /\ MaxProposals \in Nat /\ MaxAborts \in Nat
ASSUME OverlapAssumption == Overlap \in BOOLEAN

VARIABLES
  log,                                  \* the shared log
  store,                                \* per store: [applied, cursor]
  life, queue,                          \* per engine: its loop and its channel
  phase, req, cursor, target, txn, ret, \* the loop's local variables
  pc, result,                           \* the clients
  proposed, finished, known, aborts     \* history

engineVars == <<life, queue>>
loopVars == <<phase, req, cursor, target, txn, ret>>
clientVars == <<pc, result, known>>
vars == <<log, store, engineVars, loopVars, clientVars, proposed, finished, aborts>>

-------------------------------------------------------------------------------
State == [applied : Seq(Entry), cursor : Nat]

Request == [to : Client \cup {NoOne}, op : {"none", "propose", "sync"},
            entry : Entry \cup {Hole}]
NoReq == [to |-> NoOne, op |-> "none", entry |-> Hole]

Res(op, tag, pos, value) == [op |-> op, tag |-> tag, pos |-> pos, value |-> value]

TypeOK ==
  /\ log \in Seq(Entry \cup {Hole})
  /\ store \in [Store -> State]
  /\ life \in [Engine -> {"new", "up", "dropped", "dead", "exited"}]
  /\ queue \in [Engine -> Seq(Request)]
  /\ phase \in [Engine -> {"recv", "play", "commit"}]
  /\ req \in [Engine -> Request]
  /\ cursor \in [Engine -> Nat]
  /\ target \in [Engine -> Nat]
  /\ txn \in [Engine -> State]
  /\ ret \in [Engine -> Seq(Entry)]
  /\ pc \in [Client -> {"idle", "waiting"}]
  /\ result \in [Client -> [op : {"none", "propose", "sync"},
                            tag : {"pending", "ok", "error"},
                            pos : Nat, value : Seq(Entry)]]
  /\ proposed \in 0..MaxProposals
  /\ finished \in Nat
  /\ known \in [Client -> Nat]
  /\ aborts \in 0..MaxAborts

EmptyState == [applied |-> <<>>, cursor |-> 1]

Init ==
  /\ log = <<>>
  /\ store = [s \in Store |-> EmptyState]
  /\ life = [g \in Engine |-> "new"]
  /\ queue = [g \in Engine |-> <<>>]
  /\ phase = [g \in Engine |-> "recv"]
  /\ req = [g \in Engine |-> NoReq]
  /\ cursor = [g \in Engine |-> 1]
  /\ target = [g \in Engine |-> 0]
  /\ txn = [g \in Engine |-> EmptyState]
  /\ ret = [g \in Engine |-> <<>>]
  /\ pc = [c \in Client |-> "idle"]
  /\ result = [c \in Client |-> Res("none", "pending", 0, <<>>)]
  /\ proposed = 0
  /\ finished = 0
  /\ known = [c \in Client |-> 0]
  /\ aborts = 0

-------------------------------------------------------------------------------
(* The engine's handle: BaseEngine::new and its drop *)

Running(g) == life[g] \in {"up", "dropped"}

(* The cursor is the one persisted in the store, LOG_POS_BEGIN if none is. *)
InitialCursorBegin(g) == 1                 \* mutant: the store is not asked
InitialCursor(g) == store[StoreOf[g]].cursor

NewEngine(g) ==
  /\ life[g] = "new"
  /\ Overlap \/ \A h \in Engine : StoreOf[h] = StoreOf[g] => ~Running(h)
  /\ \A h \in Engine : StoreOf[h] = StoreOf[g] => life[h] # "up"
  /\ life' = [life EXCEPT ![g] = "up"]
  /\ cursor' = [cursor EXCEPT ![g] = InitialCursor(g)]
  /\ UNCHANGED <<log, store, queue, phase, req, target, txn, ret, clientVars,
                 proposed, finished, aborts>>

(* The callers engine g still owes a result. *)
Holding(g) == {req[g].to} \cup {queue[g][i].to : i \in 1..Len(queue[g])}

(* The handle is dropped once no call borrows it; requests whose callers    *)
(* gave up may be left. That closes the channel, but the JoinHandle only    *)
(* detaches the task: the loop serves what is queued, then exits.           *)
DropEngine(g) ==
  /\ life[g] = "up"
  /\ Holding(g) \subseteq {NoOne}
  /\ life' = [life EXCEPT ![g] = "dropped"]
  /\ UNCHANGED <<log, store, queue, loopVars, clientVars, proposed, finished, aborts>>

LoopExits(g) ==
  /\ life[g] = "dropped"
  /\ phase[g] = "recv"
  /\ queue[g] = <<>>
  /\ life' = [life EXCEPT ![g] = "exited"]
  /\ UNCHANGED <<log, store, queue, loopVars, clientVars, proposed, finished, aborts>>

-------------------------------------------------------------------------------
(* Clients *)

Call(c, g, op, e) ==
  /\ pc[c] = "idle"
  /\ life[g] = "up"
  /\ Len(queue[g]) < Capacity
  /\ proposed' = IF op = "propose" THEN proposed + 1 ELSE proposed
  /\ proposed' <= MaxProposals
  /\ queue' = [queue EXCEPT ![g] = Append(@, [to |-> c, op |-> op, entry |-> e])]
  /\ pc' = [pc EXCEPT ![c] = "waiting"]
  /\ result' = [result EXCEPT ![c] = Res(op, "pending", 0, <<>>)]
  /\ known' = [known EXCEPT ![c] = finished]
  /\ UNCHANGED <<log, store, life, loopVars, finished, aborts>>

(* A dead loop has dropped the channel's receiver: send fails at once. *)
CallDead(c, g, op) ==
  /\ pc[c] = "idle"
  /\ life[g] = "dead"
  /\ result' = [result EXCEPT ![c] = Res(op, "error", 0, <<>>)]
  /\ UNCHANGED <<log, store, engineVars, loopVars, pc, known,
                 proposed, finished, aborts>>

(* The caller's future is dropped while it waits: the request stays. *)
Forget(r, c) == IF r.to = c THEN [r EXCEPT !.to = NoOne] ELSE r

Cancel(c) ==
  /\ pc[c] = "waiting"
  /\ pc' = [pc EXCEPT ![c] = "idle"]
  /\ queue' = [g \in Engine |-> [i \in 1..Len(queue[g]) |-> Forget(queue[g][i], c)]]
  /\ req' = [g \in Engine |-> Forget(req[g], c)]
  /\ UNCHANGED <<log, store, life, phase, cursor, target, txn, ret, result, known,
                 proposed, finished, aborts>>

(* result_tx.send: the caller, if it still waits, gets the result. *)
Answer(to, res) ==
  IF to = NoOne THEN UNCHANGED clientVars
  ELSE /\ pc' = [pc EXCEPT ![to] = "idle"]
       /\ result' = [result EXCEPT ![to] = res]
       /\ UNCHANGED known

FailSilently(r) == UNCHANGED clientVars    \* mutant: errors are not sent
Fail(r) == Answer(r.to, Res(r.op, "error", 0, <<>>))

-------------------------------------------------------------------------------
(* The apply loop *)

Receive(g, op) ==
  /\ Running(g)
  /\ phase[g] = "recv"
  /\ queue[g] # <<>>
  /\ Head(queue[g]).op = op
  /\ queue' = [queue EXCEPT ![g] = Tail(@)]

(* handle_propose: append first, then play forward up to the new entry. *)
Propose(g) ==
  /\ Receive(g, "propose")
  /\ log' = Append(log, Head(queue[g]).entry)
  /\ target' = [target EXCEPT ![g] = Len(log) + 1]
  /\ req' = [req EXCEPT ![g] = Head(queue[g])]
  /\ phase' = [phase EXCEPT ![g] = "play"]
  /\ UNCHANGED <<store, life, cursor, txn, ret, clientVars, proposed, finished, aborts>>

ProposeFails(g) ==
  /\ Receive(g, "propose")
  /\ \/ "refused" \in Failures /\ UNCHANGED log
     \/ "stored" \in Failures /\ log' = Append(log, Head(queue[g]).entry)
     \/ "hole" \in Failures /\ log' = Append(log, Hole)
  /\ Fail(Head(queue[g]))
  /\ UNCHANGED <<store, life, loopVars, proposed, finished, aborts>>

(* handle_sync: play forward to the tail, i.e. the last entry before it. *)
SyncTarget(g) == Len(log)

Sync(g) ==
  /\ Receive(g, "sync")
  /\ target' = [target EXCEPT ![g] = SyncTarget(g)]
  /\ req' = [req EXCEPT ![g] = Head(queue[g])]
  /\ phase' = [phase EXCEPT ![g] = "play"]
  /\ UNCHANGED <<log, store, life, cursor, txn, ret, clientVars, proposed, finished, aborts>>

SyncFails(g) ==
  /\ Receive(g, "sync")
  /\ "tail" \in Failures
  /\ Fail(Head(queue[g]))
  /\ UNCHANGED <<log, store, life, loopVars, proposed, finished, aborts>>

(* loglet.read answers None. *)
NothingThereNever(g) == FALSE              \* mutant: None is not checked
NothingThere(g) == log[cursor[g]] = Hole

(* apply_one, up to the write transaction's copy of the store. *)
ApplyBegin(g) ==
  /\ Running(g) /\ phase[g] = "play"
  /\ cursor[g] <= target[g]
  /\ ~NothingThere(g)
  /\ txn' = [txn EXCEPT ![g] = store[StoreOf[g]]]
  /\ phase' = [phase EXCEPT ![g] = "commit"]
  /\ UNCHANGED <<log, store, engineVars, req, cursor, target, ret, clientVars,
                 proposed, finished, aborts>>

(* The applicator's writes and the cursor are committed together. *)
Applied(g) == Append(txn[g].applied, log[cursor[g]])

ReturnFirst(g) ==                          \* mutant: the first value is kept
  IF ret[g] = <<>> THEN Applied(g) ELSE ret[g]
ReturnTarget(g) == IF cursor[g] = target[g] THEN Applied(g) ELSE ret[g]

CommitState(g) == [applied |-> Applied(g), cursor |-> cursor[g] + 1]

ApplyCommit(g) ==
  /\ Running(g) /\ phase[g] = "commit"
  /\ log[cursor[g]] \notin Rejected
  /\ store' = [store EXCEPT ![StoreOf[g]] = CommitState(g)]
  /\ ret' = [ret EXCEPT ![g] = ReturnTarget(g)]
  /\ cursor' = [cursor EXCEPT ![g] = @ + 1]
  /\ phase' = [phase EXCEPT ![g] = "play"]
  /\ txn' = [txn EXCEPT ![g] = EmptyState]
  /\ UNCHANGED <<log, engineVars, req, target, clientVars, proposed, finished, aborts>>

EndRequest(g) ==
  /\ phase' = [phase EXCEPT ![g] = "recv"]
  /\ req' = [req EXCEPT ![g] = NoReq]
  /\ target' = [target EXCEPT ![g] = 0]
  /\ txn' = [txn EXCEPT ![g] = EmptyState]
  /\ ret' = [ret EXCEPT ![g] = <<>>]

(* A `?` of apply_one: the read failed or found nothing at the position, or *)
(* the applicator failed. The transaction is dropped, the cursor stays      *)
(* where it is.                                                             *)
ApplyFails(g) ==
  /\ Running(g)
  /\ \/ /\ phase[g] = "play" /\ cursor[g] <= target[g]
        /\ NothingThere(g) \/ "read" \in Failures
     \/ phase[g] = "commit" /\ log[cursor[g]] \in Rejected
  /\ EndRequest(g)
  /\ Fail(req[g])
  /\ UNCHANGED <<log, store, engineVars, cursor, proposed, finished, aborts>>

Reply(g) ==
  /\ Running(g) /\ phase[g] = "play"
  /\ cursor[g] > target[g]
  /\ EndRequest(g)
  /\ Answer(req[g].to, Res(req[g].op, "ok", target[g], ret[g]))
  /\ finished' = IF req[g].op = "propose" /\ target[g] > finished
                 THEN target[g] ELSE finished
  /\ UNCHANGED <<log, store, engineVars, cursor, proposed, aborts>>

(* The task dies at any point, as when an applicator panics: every request  *)
(* it holds is dropped and its caller told so.                              *)
Abort(g) ==
  /\ Running(g)
  /\ aborts < MaxAborts
  /\ aborts' = aborts + 1
  /\ life' = [life EXCEPT ![g] = IF @ = "up" THEN "dead" ELSE "exited"]
  /\ queue' = [queue EXCEPT ![g] = <<>>]
  /\ EndRequest(g)
  /\ pc' = [c \in Client |-> IF c \in Holding(g) THEN "idle" ELSE pc[c]]
  /\ result' = [c \in Client |-> IF c \in Holding(g)
                                 THEN Res(result[c].op, "error", 0, <<>>)
                                 ELSE result[c]]
  /\ UNCHANGED <<log, store, cursor, known, proposed, finished>>

-------------------------------------------------------------------------------
Loop(g) ==
  \/ Propose(g) \/ ProposeFails(g) \/ Sync(g) \/ SyncFails(g)
  \/ ApplyBegin(g) \/ ApplyCommit(g) \/ ApplyFails(g) \/ Reply(g)

Next ==
  \/ \E g \in Engine : NewEngine(g) \/ DropEngine(g) \/ LoopExits(g)
                       \/ Loop(g) \/ Abort(g)
  \/ \E c \in Client : Cancel(c)
  \/ \E c \in Client, g \in Engine :
       \/ \E op \in {"propose", "sync"} : CallDead(c, g, op)
       \/ Call(c, g, "sync", Hole)
       \/ \E e \in Entry : Call(c, g, "propose", e)

Spec == Init /\ [][Next]_vars

(* tokio runs an apply loop that can go on. *)
FairSpec == Spec /\ \A g \in Engine : WF_vars(Loop(g))

-------------------------------------------------------------------------------
(* Properties *)

(* Every store holds the log applied from its beginning, each entry once    *)
(* and in order, exactly up to its persisted cursor: through restarts,      *)
(* aborted loops, failed applies and callers that gave up                   *)
(* (base_engine.rs:111-180).                                                *)
AppliedIsLogPrefix ==
  \A s \in Store :
    /\ store[s].cursor = Len(store[s].applied) + 1
    /\ Len(store[s].applied) <= Len(log)
    /\ \A i \in 1..Len(store[s].applied) : store[s].applied[i] = log[i]

Answered(c) == pc[c] = "waiting" /\ pc'[c] = "idle" /\ result'[c].tag = "ok"

(* A propose that returns Ok returns what applying its own entry gave, with *)
(* every earlier entry of the log applied before it and none after, at a    *)
(* position above all proposals finished before it was made; and the entry  *)
(* is in the engine's store by then (traits.rs:21-22).                      *)
ProposeReturnsItsOwn ==
  [][\A c \in Client, g \in Engine :
       Answered(c) /\ result'[c].op = "propose" /\ req[g].to = c =>
         LET p == result'[c].pos IN
         /\ p > known[c]
         /\ log[p] = req[g].entry
         /\ result'[c].value = SubSeq(log, 1, p)
         /\ store[StoreOf[g]].cursor > p]_vars

(* Every caller is answered, if only with an error. *)
CallersAnswered == \A c \in Client : pc[c] = "waiting" ~> pc[c] = "idle"
===============================================================================
