----------------------------- MODULE NativeLoglet -----------------------------
(***************************************************************************)
(* crates/relos-log/src/native_loglet.rs: a loglet made of one sequencer    *)
(* task, NumServers log-server tasks with a FIFO mailbox each, and any      *)
(* number of client tasks inside append, read, trim, seal and check_tail.   *)
(*                                                                          *)
(* One action is what a task does between two awaits another task can see.  *)
(* A client blocks on the sequencer's reply and the sequencer only touches  *)
(* its own two variables, so a request to it is one step of the client.     *)
(* Requests to log servers are not: each send is a step (a fan-out sends to  *)
(* the servers one by one), each request a server handles is a step, and    *)
(* the client's collection of the replies is a step.                        *)
(***************************************************************************)
EXTENDS Integers, Sequences, FiniteSets, FiniteSetsExt

CONSTANTS
  NumServers,                              \* NativeLoglet::new(num_servers)
  Client,                                  \* tasks that call the loglet
  Appenders, Sealers, Readers, Trimmers,   \* which of them call what
  Entry, NoEntry,                          \* payloads, and their absence
  NoOne,         \* the receiver of a reply whose oneshot was dropped
  Capacity,      \* of a log server's mailbox, 256 in the code
  MaxPos,        \* bound: positions the sequencer hands out
  MaxCrashes     \* bound: log-server tasks that end

ASSUME NumServersAssumption == NumServers \in Nat \ {0}
ASSUME CapacityAssumption == Capacity \in Nat \ {0}
ASSUME MaxPosAssumption == MaxPos \in Nat
ASSUME RolesAssumption ==
  Appenders \cup Sealers \cup Readers \cup Trimmers \subseteq Client
ASSUME SentinelAssumption == NoEntry \notin Entry /\ NoOne \notin Client

Server == 1..NumServers

(* quorum_size = num_servers / 2 + 1 *)
QuorumSizeHalf == NumServers \div 2        \* mutant: the "+ 1" is lost
QuorumSize == NumServers \div 2 + 1

VARIABLES
  nextPos, seqSealed,            \* the sequencer task
  entries, sealed, trimPos, tail, queue, alive,   \* the log-server tasks
  sealedFlag,                    \* NativeLoglet.sealed, the AtomicBool
  pc, op, idx, reply, seqTail, result,            \* the client tasks
  assigned, acked, finalTail, trimmedTo, known, floor   \* history

seqVars == <<nextPos, seqSealed>>
serverVars == <<entries, sealed, trimPos, tail, alive>>
localVars == <<pc, op, idx, reply, seqTail, result>>
historyVars == <<assigned, acked, finalTail, trimmedTo, known, floor>>
vars == <<seqVars, serverVars, queue, sealedFlag, localVars, historyVars>>

-------------------------------------------------------------------------------
(* Data *)

Position == 1..MaxPos
TailPos == 1..(MaxPos + 1)
Record == [pos : Position, entry : Entry]

Request == [type : {"none", "store", "seal", "read", "trim"},
            pos : Nat, entry : Entry \cup {NoEntry}]
Req(type, pos, entry) == [type |-> type, pos |-> pos, entry |-> entry]
NoReq == Req("none", 0, NoEntry)

Message == [to : Client \cup {NoOne}, req : Request]

(* What a server puts in a request's oneshot; "none" until it does. *)
Reply == [tag : {"none", "stored", "occupied", "sealed", "done",
                 "entry", "trimmed", "not_found"},
          pos : Nat, entry : Entry \cup {NoEntry}]
Rep(tag, pos, entry) == [tag |-> tag, pos |-> pos, entry |-> entry]
NoReply == Rep("none", 0, NoEntry)

(* What a call of the trait returned; "pending" while it runs. *)
Result == [op : {"none", "append", "seal", "read", "trim", "check_tail"},
           tag : {"pending", "ok", "sealed", "internal",
                  "entry", "trimmed", "not_found"},
           pos : Nat, entry : Entry \cup {NoEntry}]
Res(o, tag, pos, entry) == [op |-> o, tag |-> tag, pos |-> pos, entry |-> entry]

TypeOK ==
  /\ nextPos \in TailPos
  /\ seqSealed \in BOOLEAN
  /\ entries \in [Server -> SUBSET Record]
  /\ sealed \in [Server -> BOOLEAN]
  /\ trimPos \in [Server -> Nat]
  /\ tail \in [Server -> TailPos]
  /\ queue \in [Server -> Seq(Message)]
  /\ alive \in [Server -> BOOLEAN]
  /\ sealedFlag \in BOOLEAN
  /\ pc \in [Client -> {"idle", "next_pos", "fan_out", "await",
                        "read_send", "read_wait"}]
  /\ op \in [Client -> Request]
  /\ idx \in [Client -> Server]
  /\ reply \in [Client -> [Server -> Reply]]
  /\ seqTail \in [Client -> Nat]
  /\ result \in [Client -> Result]
  /\ assigned \in SUBSET Record
  /\ acked \in SUBSET Record
  /\ finalTail \in Nat
  /\ trimmedTo \in Nat
  /\ known \in [Client -> SUBSET Record]
  /\ floor \in [Client -> Nat]

Init ==
  /\ nextPos = 1
  /\ seqSealed = FALSE
  /\ entries = [s \in Server |-> {}]
  /\ sealed = [s \in Server |-> FALSE]
  /\ trimPos = [s \in Server |-> 1]
  /\ tail = [s \in Server |-> 1]
  /\ queue = [s \in Server |-> <<>>]
  /\ alive = [s \in Server |-> TRUE]
  /\ sealedFlag = FALSE
  /\ pc = [c \in Client |-> "idle"]
  /\ op = [c \in Client |-> NoReq]
  /\ idx = [c \in Client |-> 1]
  /\ reply = [c \in Client |-> [s \in Server |-> NoReply]]
  /\ seqTail = [c \in Client |-> 0]
  /\ result = [c \in Client |-> Res("none", "pending", 0, NoEntry)]
  /\ assigned = {}
  /\ acked = {}
  /\ finalTail = 0
  /\ trimmedTo = 1
  /\ known = [c \in Client |-> {}]
  /\ floor = [c \in Client |-> 1]

-------------------------------------------------------------------------------
(* A client task enters and leaves a call *)

Enter(c, label, req, o) ==
  /\ pc[c] = "idle"
  /\ pc' = [pc EXCEPT ![c] = label]
  /\ op' = [op EXCEPT ![c] = req]
  /\ result' = [result EXCEPT ![c] = Res(o, "pending", 0, NoEntry)]

(* The call returns res; its locals, its receivers among them, are dropped. *)
Return(c, res) ==
  /\ pc' = [pc EXCEPT ![c] = "idle"]
  /\ op' = [op EXCEPT ![c] = NoReq]
  /\ idx' = [idx EXCEPT ![c] = 1]
  /\ reply' = [reply EXCEPT ![c] = [s \in Server |-> NoReply]]
  /\ seqTail' = [seqTail EXCEPT ![c] = 0]
  /\ result' = [result EXCEPT ![c] = res]
  /\ known' = [known EXCEPT ![c] = {}]
  /\ floor' = [floor EXCEPT ![c] = 1]

(* Requests of c that are still queued when c gives up keep their place in  *)
(* the mailboxes and are handled, but nobody receives the reply.            *)
DropReceivers(c) ==
  queue' = [s \in Server |->
              [i \in 1..Len(queue[s]) |->
                 IF queue[s][i].to = c
                 THEN [queue[s][i] EXCEPT !.to = NoOne]
                 ELSE queue[s][i]]]

CallName(c) == CASE op[c].type = "store" -> "append"
                 [] op[c].type = "seal"  -> "seal"
                 [] op[c].type = "trim"  -> "trim"
                 [] OTHER                -> "read"

Internal(c) == Res(CallName(c), "internal", 0, NoEntry)

-------------------------------------------------------------------------------
(* append *)

(* Fast path: the flag is read first. It is only ever set once the sequencer *)
(* is sealed, so check_tail, asked next, answers with the frozen tail.      *)
AppendFastPath(c) ==
  /\ c \in Appenders /\ pc[c] = "idle"
  /\ sealedFlag
  /\ result' = [result EXCEPT ![c] = Res("append", "sealed", nextPos, NoEntry)]
  /\ UNCHANGED <<seqVars, serverVars, queue, sealedFlag,
                 pc, op, idx, reply, seqTail, historyVars>>

(* The bound counts the positions promised to clients about to ask. *)
PositionsLeft ==
  nextPos + Cardinality({d \in Client : pc[d] = "next_pos"}) <= MaxPos

BeginAppend(c, e) ==
  /\ c \in Appenders
  /\ ~sealedFlag
  /\ PositionsLeft \/ seqSealed
  /\ Enter(c, "next_pos", Req("store", 0, e), "append")
  /\ UNCHANGED <<seqVars, serverVars, queue, sealedFlag, idx, reply, seqTail,
                 historyVars>>

(* The sequencer takes a position for the caller. *)
TakePosAgain == UNCHANGED nextPos          \* mutant: next_pos is not advanced
TakePosPerServer == nextPos' = nextPos + NumServers  \* mutant: one per server
TakePos == nextPos' = nextPos + 1

(* sequencer.next_pos() gives Some(pos): on to the fan-out. *)
NextPos(c) ==
  /\ pc[c] = "next_pos"
  /\ ~seqSealed
  /\ nextPos <= MaxPos
  /\ TakePos
  /\ op' = [op EXCEPT ![c].pos = nextPos]
  /\ assigned' = assigned \cup {[pos |-> nextPos, entry |-> op[c].entry]}
  /\ pc' = [pc EXCEPT ![c] = "fan_out"]
  /\ UNCHANGED <<seqSealed, serverVars, queue, sealedFlag, idx, reply, seqTail,
                 result, acked, finalTail, trimmedTo, known, floor>>

(* It gives None: the flag is set and the append reports the frozen tail. *)
NextPosSealed(c) ==
  /\ pc[c] = "next_pos"
  /\ seqSealed
  /\ sealedFlag' = TRUE
  /\ Return(c, Res("append", "sealed", nextPos, NoEntry))
  /\ UNCHANGED <<seqVars, serverVars, queue,
                 assigned, acked, finalTail, trimmedTo>>

-------------------------------------------------------------------------------
(* The fan-out shared by append, seal and trim: one send per server. *)

(* mpsc::Sender::send waits for room in the mailbox of a living server. *)
SendTo(c, s) ==
  /\ alive[s]
  /\ Len(queue[s]) < Capacity
  /\ queue' = [queue EXCEPT ![s] = Append(@, [to |-> c, req |-> op[c]])]

FanOut(c) ==
  /\ pc[c] = "fan_out"
  /\ SendTo(c, idx[c])
  /\ IF idx[c] = NumServers
     THEN /\ pc' = [pc EXCEPT ![c] = "await"]
          /\ UNCHANGED idx
     ELSE /\ idx' = [idx EXCEPT ![c] = @ + 1]
          /\ UNCHANGED pc
  /\ UNCHANGED <<seqVars, serverVars, sealedFlag, op, reply, seqTail, result,
                 historyVars>>

(* The `?` after send: one ended server task fails the whole call, and the   *)
(* servers already sent to handle the request all the same.                 *)
FanOutFails(c) ==
  /\ pc[c] = "fan_out"
  /\ ~alive[idx[c]]
  /\ DropReceivers(c)
  /\ Return(c, Internal(c))
  /\ UNCHANGED <<seqVars, serverVars, sealedFlag,
                 assigned, acked, finalTail, trimmedTo>>

(* rx.await is over for s: the reply is in, or the server ended without one. *)
AnsweredAliveOnly(c, s) == reply[c][s].tag # "none"   \* mutant: Err(_) is lost
Answered(c, s) == reply[c][s].tag # "none" \/ ~alive[s]

AllAnswered(c) == pc[c] = "await" /\ \A s \in Server : Answered(c, s)

Acks(c) == {s \in Server : reply[c][s].tag \in {"stored", "occupied"}}
SealedReplies(c) == {s \in Server : reply[c][s].tag = "sealed"}
DoneReplies(c) == {s \in Server : reply[c][s].tag = "done"}

-------------------------------------------------------------------------------
(* append, step 3 *)

AppendQuorum(c) ==
  /\ op[c].type = "store"
  /\ AllAnswered(c)
  /\ Cardinality(Acks(c)) >= QuorumSize
  /\ acked' = acked \cup {[pos |-> op[c].pos, entry |-> op[c].entry]}
  /\ Return(c, Res("append", "ok", op[c].pos, op[c].entry))
  /\ UNCHANGED <<seqVars, serverVars, queue, sealedFlag,
                 assigned, finalTail, trimmedTo>>

(* No quorum, and some server was sealed: the last such reply's tail. *)
AppendRefused(c) ==
  /\ op[c].type = "store"
  /\ AllAnswered(c)
  /\ Cardinality(Acks(c)) < QuorumSize
  /\ \E s \in SealedReplies(c) :
       /\ \A t \in SealedReplies(c) : t <= s
       /\ Return(c, Res("append", "sealed", reply[c][s].pos, NoEntry))
  /\ sealedFlag' = TRUE
  /\ UNCHANGED <<seqVars, serverVars, queue,
                 assigned, acked, finalTail, trimmedTo>>

AppendNoQuorum(c) ==
  /\ op[c].type = "store"
  /\ AllAnswered(c)
  /\ Cardinality(Acks(c)) < QuorumSize
  /\ SealedReplies(c) = {}
  /\ Return(c, Internal(c))
  /\ UNCHANGED <<seqVars, serverVars, queue, sealedFlag,
                 assigned, acked, finalTail, trimmedTo>>

-------------------------------------------------------------------------------
(* seal *)

SealSequencerOpen(c) ==                    \* mutant: sealed is left FALSE
  /\ seqTail' = [seqTail EXCEPT ![c] = nextPos]
  /\ UNCHANGED seqVars
SealSequencer(c) ==
  /\ seqSealed' = TRUE
  /\ seqTail' = [seqTail EXCEPT ![c] = nextPos]
  /\ UNCHANGED nextPos

BeginSeal(c) ==
  /\ c \in Sealers
  /\ Enter(c, "fan_out", Req("seal", 0, NoEntry), "seal")
  /\ SealSequencer(c)
  /\ UNCHANGED <<serverVars, queue, sealedFlag, idx, reply, historyVars>>

(* The larger of the sequencer's tail and the servers' tails. *)
FinalTailLast(c) ==                        \* mutant: last position, not tail
  Max({seqTail[c]} \cup {reply[c][s].pos : s \in DoneReplies(c)}) - 1
FinalTail(c) ==
  Max({seqTail[c]} \cup {reply[c][s].pos : s \in DoneReplies(c)})

SealQuorum(c) ==
  /\ op[c].type = "seal"
  /\ AllAnswered(c)
  /\ Cardinality(DoneReplies(c)) >= QuorumSize
  /\ sealedFlag' = TRUE
  /\ finalTail' = FinalTail(c)
  /\ Return(c, Res("seal", "ok", FinalTail(c), NoEntry))
  /\ UNCHANGED <<seqVars, serverVars, queue, assigned, acked, trimmedTo>>

SealNoQuorum(c) ==
  /\ op[c].type = "seal"
  /\ AllAnswered(c)
  /\ Cardinality(DoneReplies(c)) < QuorumSize
  /\ Return(c, Internal(c))
  /\ UNCHANGED <<seqVars, serverVars, queue, sealedFlag,
                 assigned, acked, finalTail, trimmedTo>>

-------------------------------------------------------------------------------
(* trim *)

BeginTrim(c, p) ==
  /\ c \in Trimmers
  /\ Enter(c, "fan_out", Req("trim", p, NoEntry), "trim")
  /\ UNCHANGED <<seqVars, serverVars, queue, sealedFlag, idx, reply, seqTail,
                 historyVars>>

TrimCollected(c) == DoneReplies(c) = Server

TrimDone(c) ==
  /\ op[c].type = "trim"
  /\ pc[c] = "await"
  /\ TrimCollected(c)
  /\ trimmedTo' = IF op[c].pos > trimmedTo THEN op[c].pos ELSE trimmedTo
  /\ Return(c, Res("trim", "ok", op[c].pos, NoEntry))
  /\ UNCHANGED <<seqVars, serverVars, queue, sealedFlag,
                 assigned, acked, finalTail>>

(* The `?` after rx.await: the first dropped reply ends the call at once. *)
TrimFails(c) ==
  /\ op[c].type = "trim"
  /\ pc[c] = "await"
  /\ \E s \in Server : /\ reply[c][s].tag = "none" /\ ~alive[s]
                       /\ 1..(s - 1) \subseteq DoneReplies(c)
  /\ DropReceivers(c)
  /\ Return(c, Internal(c))
  /\ UNCHANGED <<seqVars, serverVars, sealedFlag,
                 assigned, acked, finalTail, trimmedTo>>

-------------------------------------------------------------------------------
(* read: the servers in order, one request at a time *)

BeginRead(c, p) ==
  /\ c \in Readers
  /\ Enter(c, "read_send", Req("read", p, NoEntry), "read")
  /\ known' = [known EXCEPT ![c] = {r \in acked : r.pos = p}]
  /\ floor' = [floor EXCEPT ![c] = trimmedTo]
  /\ UNCHANGED <<seqVars, serverVars, queue, sealedFlag, idx, reply, seqTail,
                 assigned, acked, finalTail, trimmedTo>>

ReadSend(c) ==
  /\ pc[c] = "read_send"
  /\ SendTo(c, idx[c])
  /\ pc' = [pc EXCEPT ![c] = "read_wait"]
  /\ UNCHANGED <<seqVars, serverVars, sealedFlag, op, idx, reply, seqTail,
                 result, historyVars>>

(* The server has ended, before the request or with it unanswered. *)
ReadFailsEmpty(c) ==                       \* mutant: no answer is taken for None
  /\ pc[c] \in {"read_send", "read_wait"} /\ reply[c][idx[c]].tag = "none"
  /\ ~alive[idx[c]]
  /\ Return(c, Res("read", "not_found", op[c].pos, NoEntry))
  /\ UNCHANGED <<seqVars, serverVars, queue, sealedFlag,
                 assigned, acked, finalTail, trimmedTo>>
ReadFails(c) ==
  /\ \/ pc[c] = "read_send"
     \/ pc[c] = "read_wait" /\ reply[c][idx[c]].tag = "none"
  /\ ~alive[idx[c]]
  /\ Return(c, Internal(c))
  /\ UNCHANGED <<seqVars, serverVars, queue, sealedFlag,
                 assigned, acked, finalTail, trimmedTo>>

(* Entry and Trimmed end the read; NotFound does on the last server only. *)
ReadReturnsFirst(c) == TRUE                \* mutant: the first reply decides
ReadReturns(c) ==
  reply[c][idx[c]].tag # "not_found" \/ idx[c] = NumServers

ReadReply(c) ==
  LET r == reply[c][idx[c]] IN
  /\ pc[c] = "read_wait"
  /\ r.tag # "none"
  /\ ReadReturns(c)
  /\ Return(c, Res("read", r.tag, op[c].pos, r.entry))
  /\ UNCHANGED <<seqVars, serverVars, queue, sealedFlag,
                 assigned, acked, finalTail, trimmedTo>>

ReadContinue(c) ==
  /\ pc[c] = "read_wait"
  /\ reply[c][idx[c]].tag # "none"
  /\ ~ReadReturns(c)
  /\ idx' = [idx EXCEPT ![c] = @ + 1]
  /\ pc' = [pc EXCEPT ![c] = "read_send"]
  /\ UNCHANGED <<seqVars, serverVars, queue, sealedFlag, op, reply, seqTail,
                 result, historyVars>>

-------------------------------------------------------------------------------
(* check_tail: the sequencer's next position, positions in flight included *)

CheckTail(c) ==
  /\ c \in Readers
  /\ pc[c] = "idle"
  /\ result' = [result EXCEPT ![c] = Res("check_tail", "ok", nextPos, NoEntry)]
  /\ UNCHANGED <<seqVars, serverVars, queue, sealedFlag,
                 pc, op, idx, reply, seqTail, historyVars>>

-------------------------------------------------------------------------------
(* The log-server loop *)

Receive(s, type) ==
  /\ alive[s]
  /\ queue[s] # <<>>
  /\ Head(queue[s]).req.type = type
  /\ queue' = [queue EXCEPT ![s] = Tail(@)]
  /\ UNCHANGED <<seqVars, alive, sealedFlag, pc, op, idx, seqTail, result,
                 historyVars>>

Answer(s, rep) ==
  LET c == Head(queue[s]).to IN
  reply' = IF c = NoOne THEN reply ELSE [reply EXCEPT ![c][s] = rep]

ServeStore(s) ==
  LET p == Head(queue[s]).req.pos
      e == Head(queue[s]).req.entry
      occupied == \E r \in entries[s] : r.pos = p IN
  /\ Receive(s, "store")
  /\ IF sealed[s] \/ occupied
     THEN UNCHANGED <<entries, tail>>
     ELSE /\ entries' = [entries EXCEPT ![s] = @ \cup {[pos |-> p, entry |-> e]}]
          /\ tail' = [tail EXCEPT ![s] = IF p >= @ THEN p + 1 ELSE @]
  /\ Answer(s, IF sealed[s] THEN Rep("sealed", tail[s], NoEntry)
               ELSE IF occupied THEN Rep("occupied", 0, NoEntry)
               ELSE Rep("stored", 0, NoEntry))
  /\ UNCHANGED <<sealed, trimPos>>

(* A position below the trim point is Trimmed, whatever is stored there. *)
ReadAnswer(s, p) ==
  IF p < trimPos[s] THEN Rep("trimmed", 0, NoEntry)
  ELSE IF \E r \in entries[s] : r.pos = p
       THEN Rep("entry", 0, (CHOOSE r \in entries[s] : r.pos = p).entry)
       ELSE Rep("not_found", 0, NoEntry)

ServeRead(s) ==
  /\ Receive(s, "read")
  /\ Answer(s, ReadAnswer(s, Head(queue[s]).req.pos))
  /\ UNCHANGED <<entries, sealed, trimPos, tail>>

ServeSealOpen(s) ==                        \* mutant: sealed is left FALSE
  /\ Receive(s, "seal")
  /\ Answer(s, Rep("done", tail[s], NoEntry))
  /\ UNCHANGED <<entries, sealed, trimPos, tail>>
ServeSeal(s) ==
  /\ Receive(s, "seal")
  /\ sealed' = [sealed EXCEPT ![s] = TRUE]
  /\ Answer(s, Rep("done", tail[s], NoEntry))
  /\ UNCHANGED <<entries, trimPos, tail>>

TrimServerForgets(s, p) ==                 \* mutant: trim_pos is left alone
  /\ entries' = [entries EXCEPT ![s] = {r \in @ : r.pos >= p}]
  /\ UNCHANGED trimPos
TrimServer(s, p) ==
  IF p > trimPos[s]
  THEN /\ trimPos' = [trimPos EXCEPT ![s] = p]
       /\ entries' = [entries EXCEPT ![s] = {r \in @ : r.pos >= p}]
  ELSE UNCHANGED <<trimPos, entries>>

ServeTrim(s) ==
  /\ Receive(s, "trim")
  /\ TrimServer(s, Head(queue[s]).req.pos)
  /\ Answer(s, Rep("done", 0, NoEntry))
  /\ UNCHANGED <<sealed, tail>>

(* A log-server task ends: its mailbox is dropped, and with it the oneshots  *)
(* of the requests in it. What it had stored is kept to count replicas.     *)
Crash(s) ==
  /\ alive[s]
  /\ Cardinality({t \in Server : ~alive[t]}) < MaxCrashes
  /\ alive' = [alive EXCEPT ![s] = FALSE]
  /\ queue' = [queue EXCEPT ![s] = <<>>]
  /\ UNCHANGED <<seqVars, entries, sealed, trimPos, tail, sealedFlag, localVars,
                 historyVars>>

-------------------------------------------------------------------------------
(* A call starts *)
Invoke(c) ==
  \/ AppendFastPath(c)
  \/ \E e \in Entry : BeginAppend(c, e)
  \/ BeginSeal(c)
  \/ \E p \in TailPos : BeginTrim(c, p)
  \/ \E p \in Position : BeginRead(c, p)
  \/ CheckTail(c)

(* A call that is running takes its next step *)
Proceed(c) ==
  \/ NextPos(c) \/ NextPosSealed(c)
  \/ FanOut(c) \/ FanOutFails(c)
  \/ AppendQuorum(c) \/ AppendRefused(c) \/ AppendNoQuorum(c)
  \/ SealQuorum(c) \/ SealNoQuorum(c)
  \/ TrimDone(c) \/ TrimFails(c)
  \/ ReadSend(c) \/ ReadFails(c) \/ ReadReply(c) \/ ReadContinue(c)

Serve(s) == ServeStore(s) \/ ServeRead(s) \/ ServeSeal(s) \/ ServeTrim(s)

Next ==
  \/ \E c \in Client : Invoke(c) \/ Proceed(c)
  \/ \E s \in Server : Serve(s) \/ Crash(s)

Spec == Init /\ [][Next]_vars

(* tokio runs every ready task eventually: a call that can go on does, and a *)
(* server with mail handles it. A sender that waits for room is not starved *)
(* by others: a bounded tokio channel serves its waiting senders in order.  *)
(* Nothing makes clients call or servers end.                               *)
Fairness ==
  /\ \A c \in Client : WF_vars(Proceed(c)) /\ SF_vars(FanOut(c) \/ ReadSend(c))
  /\ \A s \in Server : WF_vars(Serve(s))

FairSpec == Spec /\ Fairness
-------------------------------------------------------------------------------
(* Properties *)

(* No two log servers hold different entries at one position, whatever the  *)
(* order their mailboxes received the stores in: a reader is told the same  *)
(* entry by whichever server answers (native_loglet.rs:364-374).            *)
ReplicaAgreement ==
  \A s, t \in Server : \A r \in entries[s], q \in entries[t] :
    r.pos = q.pos => r.entry = q.entry

Holds(s, r) == r \in entries[s] \/ r.pos < trimPos[s]

(* Every acknowledged append is on a majority of the log servers, ended     *)
(* ones included, until it is trimmed there: seals, trims and ended server  *)
(* tasks racing the stores never let append count too few                   *)
(* (native_loglet.rs:328-348).                                              *)
AckedDurable ==
  \A r \in acked : 2 * Cardinality({s \in Server : Holds(s, r)}) > NumServers

Ended == {s \in Server : ~alive[s]}

(* As long as no majority of the log servers has ended, every acknowledged  *)
(* append is still on one that has not, or was trimmed there: an ended task *)
(* takes its entries with it, and a call that it made fail half way takes   *)
(* no other copy away (native_loglet.rs:328-348).                           *)
AckedOutlives ==
  2 * Cardinality(Ended) <= NumServers =>
    \A r \in acked : \E s \in Server \ Ended : Holds(s, r)

(* The tail a seal returns is above every append acknowledged before or     *)
(* after it, so the segment chained at that tail overlaps none of them      *)
(* (native_loglet.rs:386-423, loglet.rs:23-24).                             *)
SealBoundsAcks == finalTail # 0 => \A r \in acked : r.pos < finalTail

(* Once a seal has returned, no log server stores anything more, not even   *)
(* an append whose position was handed out before the seal                  *)
(* (native_loglet.rs:150-151, 394-411).                                     *)
SealFreezesServers ==
  [][finalTail # 0 => \A s \in Server : entries'[s] \subseteq entries[s]]_vars

ReadEnds(c) == pc[c] = "read_wait" /\ pc'[c] = "idle"

(* A read of a position that was acknowledged before the read began returns *)
(* that entry or Trimmed (or fails on an ended server); it never answers    *)
(* "nothing there" while the append's stores are still spreading            *)
(* (native_loglet.rs:364-374).                                              *)
ReadsFindAcked ==
  [][\A c \in Client : ReadEnds(c) /\ known[c] # {} =>
       \/ result'[c].tag \in {"trimmed", "internal"}
       \/ /\ result'[c].tag = "entry"
          /\ [pos |-> result'[c].pos, entry |-> result'[c].entry] \in known[c]
    ]_vars

(* A read begun after a trim returned Ok sees the trim: no position below   *)
(* it is ever readable again, from any server (native_loglet.rs:376-384).   *)
TrimTakesEffect ==
  [][\A c \in Client : ReadEnds(c) /\ op[c].pos < floor[c] =>
       result'[c].tag \in {"trimmed", "internal"}]_vars

(* The loglet keeps the promises of Loglet: positions are acknowledged once, *)
(* below the sealed tail, and every seal that returns gives the same tail.  *)
L == INSTANCE Loglet WITH log <- acked, tail <- finalTail, LastPos <- MaxPos
ImplementsLoglet == L!Spec

(* Every call returns, also when log servers end while it waits             *)
(* (native_loglet.rs:331-346, 398-410: a dropped reply is an answer).       *)
CallsReturn == \A c \in Client : pc[c] # "idle" ~> pc[c] = "idle"

-------------------------------------------------------------------------------
(* What the documentation says and the code does not do *)

(* loglet.rs:24 "Returns the final tail position (the position after the    *)
(* last entry)": below a sealed tail above 1, the last position is filled.  *)
SealedTailFollowsAnEntry ==
  finalTail > 1 =>
    \E s \in Server : \/ \E r \in entries[s] : r.pos = finalTail - 1
                      \/ finalTail - 1 < trimPos[s]
===============================================================================
