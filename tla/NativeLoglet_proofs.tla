-------------------------- MODULE NativeLoglet_proofs --------------------------
(***************************************************************************)
(* Safety of NativeLoglet, proved for every number of servers, clients,     *)
(* entries, positions and crashes.                                          *)
(***************************************************************************)
EXTENDS NativeLoglet, TLAPS, SequenceTheorems, FiniteSetTheorems

-------------------------------------------------------------------------------
(* The inductive invariant *)

OpRec(c) == [pos |-> op[c].pos, entry |-> op[c].entry]
ReqRec(q) == [pos |-> q.pos, entry |-> q.entry]

(* c has a position and its stores are not all answered. *)
Storing(c) == op[c].type = "store" /\ pc[c] \in {"fan_out", "await"}

(* Which request belongs to which point of a call. *)
PcInv ==
  \A c \in Client :
    /\ pc[c] = "idle" => op[c] = NoReq
    /\ pc[c] = "next_pos" => op[c].type = "store" /\ op[c].entry \in Entry
    /\ pc[c] \in {"idle", "next_pos"} => idx[c] = 1
    /\ pc[c] \in {"fan_out", "await"} => op[c].type \in {"store", "seal", "trim"}
    /\ pc[c] \in {"read_send", "read_wait"} => op[c].type = "read"

(* c has sent its request to s. *)
Asked(c, s) ==
  \/ pc[c] = "await"
  \/ pc[c] = "read_wait" /\ s <= idx[c]
  \/ pc[c] \in {"fan_out", "read_send"} /\ s < idx[c]

(* The answers a server gives to a request of this type. *)
AnswersTo(type) ==
  CASE type = "store" -> {"stored", "occupied", "sealed"}
    [] type = "read"  -> {"entry", "trimmed", "not_found"}
    [] type = "seal"  -> {"done"}
    [] type = "trim"  -> {"done"}
    [] OTHER          -> {}

(* A queued request that somebody waits for is the request of the call in   *)
(* progress, once per server and not yet answered: no call meets the reply  *)
(* to an earlier one. A read has the replies of the servers before idx.     *)
Mail(s, i) == queue[s][i]
DeliveryInv ==
  /\ \A s \in Server : ~alive[s] => queue[s] = <<>>
  /\ \A c \in Client, s \in Server : \A i \in 1..Len(queue[s]) :
       Mail(s, i).to = c => /\ Mail(s, i).req = op[c]
                            /\ Asked(c, s)
                            /\ reply[c][s].tag = "none"
  /\ \A c \in Client, s \in Server : \A i, j \in 1..Len(queue[s]) :
       Mail(s, i).to = c /\ Mail(s, j).to = c => i = j
  /\ \A c \in Client, s \in Server :
       /\ reply[c][s].tag # "none" =>
            Asked(c, s) /\ reply[c][s].tag \in AnswersTo(op[c].type)
       /\ pc[c] \in {"read_send", "read_wait"} /\ s < idx[c] =>
            reply[c][s].tag # "none"

(* Everything stored, queued, in flight or acknowledged has a position the  *)
(* sequencer handed out for exactly that entry, and a position that is      *)
(* still in flight belongs to one client and is not acknowledged.           *)
PosInv ==
  /\ \A r \in assigned : r.pos < nextPos
  /\ \A r, q \in assigned : r.pos = q.pos => r = q
  /\ \A s \in Server : entries[s] \subseteq assigned
  /\ \A s \in Server : \A i \in 1..Len(queue[s]) :
       Mail(s, i).req.type = "store" => ReqRec(Mail(s, i).req) \in assigned
  /\ acked \subseteq assigned
  /\ \A c \in Client : Storing(c) => OpRec(c) \in assigned /\ OpRec(c) \notin acked
  /\ \A c, d \in Client :
       Storing(c) /\ Storing(d) /\ op[c].pos = op[d].pos => c = d

(* Any trace of a seal outside the sequencer means the sequencer is sealed, *)
(* so its next position is frozen and is the tail every seal computes.      *)
SealInv ==
  /\ sealedFlag => seqSealed
  /\ \A c \in Client : op[c].type = "seal" => seqSealed /\ seqTail[c] = nextPos
  /\ \A s \in Server : sealed[s] => seqSealed
  /\ \A s \in Server : \A i \in 1..Len(queue[s]) :
       Mail(s, i).req.type = "seal" => seqSealed
  /\ \A c \in Client, s \in Server : reply[c][s].tag = "sealed" => seqSealed
  /\ \A c \in Client, s \in Server : reply[c][s].pos <= nextPos
  /\ \A s \in Server : tail[s] <= nextPos
  /\ finalTail # 0 => seqSealed /\ finalTail = nextPos

(* A server that acknowledged a store holds the entry, and an acknowledged  *)
(* append is held by a quorum.                                              *)
HoldInv ==
  /\ \A c \in Client : \A s \in Acks(c) : Holds(s, OpRec(c))
  /\ \A r \in acked : Cardinality({s \in Server : Holds(s, r)}) >= QuorumSize

Inv == TypeOK /\ PcInv /\ DeliveryInv /\ PosInv /\ SealInv /\ HoldInv

-------------------------------------------------------------------------------
(* What a step does to the mailboxes *)

(* A send puts one message at the end of one mailbox. *)
LEMMA MailSent ==
  ASSUME TypeOK, NEW c \in Client, NEW s \in Server, SendTo(c, s)
  PROVE  /\ queue' \in [Server -> Seq(Message)]
         /\ \A t \in Server : \A i \in 1..Len(queue'[t]) :
              \/ i \in 1..Len(queue[t]) /\ Mail(t, i)' = Mail(t, i)
              \/ /\ t = s /\ i = Len(queue[s]) + 1
                 /\ Mail(t, i)' = [to |-> c, req |-> op[c]]
         /\ alive[s]
         /\ \A t \in Server : t # s => queue'[t] = queue[t]
<1> DEFINE m == [to |-> c, req |-> op[c]]
<1>1. m \in Message /\ queue[s] \in Seq(Message)
  BY DEF TypeOK, Message
<1>2. /\ Append(queue[s], m) \in Seq(Message)
      /\ Len(Append(queue[s], m)) = Len(queue[s]) + 1
      /\ \A i \in 1..Len(queue[s]) : Append(queue[s], m)[i] = queue[s][i]
      /\ Append(queue[s], m)[Len(queue[s]) + 1] = m
  BY <1>1, AppendProperties
<1>3. queue' = [queue EXCEPT ![s] = Append(queue[s], m)] /\ alive[s]
  BY DEF SendTo
<1> HIDE DEF m
<1>4. queue' \in [Server -> Seq(Message)]
  BY <1>2, <1>3 DEF TypeOK
<1>5. Len(queue[s]) \in Nat
  BY <1>1, LenProperties
<1>6. ASSUME NEW t \in Server, NEW i \in 1..Len(queue'[t])
      PROVE  \/ i \in 1..Len(queue[t]) /\ queue'[t][i] = queue[t][i]
             \/ t = s /\ i = Len(queue[s]) + 1 /\ queue'[t][i] = m
  <2>1. CASE t = s
    <3>1. queue'[t] = Append(queue[s], m)
      BY <1>3, <2>1 DEF TypeOK
    <3>2. i \in 1..(Len(queue[s]) + 1)
      BY <3>1, <1>2, <1>6
    <3>3. i \in 1..Len(queue[s]) \/ i = Len(queue[s]) + 1
      BY <3>2, <1>5
    <3> QED BY <3>1, <3>3, <1>2, <2>1
  <2>2. CASE t # s
    BY <1>3, <2>2, <1>6 DEF TypeOK
  <2> QED BY <2>1, <2>2
<1>7. \A t \in Server : t # s => queue'[t] = queue[t]
  BY <1>3 DEF TypeOK
<1> QED BY <1>3, <1>4, <1>6, <1>7 DEF Mail, m

(* Handling a request takes the first message out of one mailbox. *)
LEMMA MailReceived ==
  ASSUME TypeOK, NEW s \in Server, NEW type, Receive(s, type)
  PROVE  /\ queue' \in [Server -> Seq(Message)]
         /\ 1 \in 1..Len(queue[s]) /\ Head(queue[s]) = Mail(s, 1)
         /\ Mail(s, 1) \in Message /\ Mail(s, 1).req.type = type
         /\ \A t \in Server : \A i \in 1..Len(queue'[t]) :
              IF t = s THEN i + 1 \in 1..Len(queue[t]) /\ Mail(t, i)' = Mail(t, i + 1)
                       ELSE i \in 1..Len(queue[t]) /\ Mail(t, i)' = Mail(t, i)
         /\ alive[s]
         /\ \A t \in Server : t # s => queue'[t] = queue[t]
<1>1. queue[s] \in Seq(Message) /\ queue[s] # <<>>
  BY DEF TypeOK, Receive
<1>2. queue' = [queue EXCEPT ![s] = Tail(queue[s])]
  BY DEF Receive
<1>3. /\ Tail(queue[s]) \in Seq(Message)
      /\ Len(Tail(queue[s])) = Len(queue[s]) - 1
      /\ \A i \in 1..Len(Tail(queue[s])) : Tail(queue[s])[i] = queue[s][i + 1]
  BY <1>1, HeadTailProperties
<1>4. queue' \in [Server -> Seq(Message)]
  BY <1>2, <1>3 DEF TypeOK
<1>5. Len(queue[s]) \in Nat \ {0}
  BY <1>1, EmptySeq
<1>6. 1 \in 1..Len(queue[s]) /\ queue[s][1] \in Message /\ Head(queue[s]) = queue[s][1]
  BY <1>1, <1>5, ElementOfSeq
<1>7. ASSUME NEW t \in Server, NEW i \in 1..Len(queue'[t])
      PROVE  IF t = s
             THEN i + 1 \in 1..Len(queue[t]) /\ queue'[t][i] = queue[t][i + 1]
             ELSE i \in 1..Len(queue[t]) /\ queue'[t][i] = queue[t][i]
  <2>1. CASE t = s
    <3>1. queue'[t] = Tail(queue[s])
      BY <1>2, <2>1 DEF TypeOK
    <3>2. i \in 1..(Len(queue[s]) - 1)
      BY <3>1, <1>3, <1>7
    <3>3. i + 1 \in 1..Len(queue[s])
      BY <3>2, <1>5
    <3> QED BY <3>1, <3>3, <1>3, <1>7, <2>1
  <2>2. CASE t # s
    BY <1>2, <2>2, <1>7 DEF TypeOK
  <2> QED BY <2>1, <2>2
<1>8. alive[s] /\ Head(queue[s]).req.type = type
  BY DEF Receive
<1>9. \A t \in Server : t # s => queue'[t] = queue[t]
  BY <1>2 DEF TypeOK
<1> QED BY <1>4, <1>6, <1>7, <1>8, <1>9 DEF Mail

(* A call that gives up leaves its messages without a receiver. *)
LEMMA MailDropped ==
  ASSUME TypeOK, NEW c \in Client, DropReceivers(c)
  PROVE  /\ queue' \in [Server -> Seq(Message)]
         /\ \A t \in Server : \A i \in 1..Len(queue'[t]) :
              /\ i \in 1..Len(queue[t])
              /\ Mail(t, i)'.req = Mail(t, i).req
              /\ Mail(t, i)'.to = IF Mail(t, i).to = c THEN NoOne ELSE Mail(t, i).to
         /\ \A t \in Server : queue[t] = <<>> => queue'[t] = <<>>
<1> DEFINE q(t, i) == IF queue[t][i].to = c
                      THEN [queue[t][i] EXCEPT !.to = NoOne]
                      ELSE queue[t][i]
<1>1. queue' = [t \in Server |-> [i \in 1..Len(queue[t]) |-> q(t, i)]]
  BY DEF DropReceivers
<1>2. ASSUME NEW t \in Server
      PROVE  /\ Len(queue[t]) \in Nat
             /\ \A i \in 1..Len(queue[t]) :
                  /\ queue[t][i] \in Message
                  /\ q(t, i) \in Message
                  /\ q(t, i).req = queue[t][i].req
                  /\ q(t, i).to = IF queue[t][i].to = c THEN NoOne ELSE queue[t][i].to
  <2>1. queue[t] \in Seq(Message)
    BY DEF TypeOK
  <2>2. Len(queue[t]) \in Nat /\ \A i \in 1..Len(queue[t]) : queue[t][i] \in Message
    BY <2>1, LenProperties, ElementOfSeq
  <2> QED BY <2>2 DEF Message
<1> HIDE DEF q
<1>3. ASSUME NEW t \in Server
      PROVE  /\ queue'[t] \in Seq(Message)
             /\ Len(queue'[t]) = Len(queue[t])
             /\ \A i \in 1..Len(queue[t]) : queue'[t][i] = q(t, i)
  <2>1. queue'[t] = [i \in 1..Len(queue[t]) |-> q(t, i)]
    BY <1>1
  <2>2. queue'[t] \in [1..Len(queue[t]) -> Message]
    BY <2>1, <1>2
  <2>3. queue'[t] \in Seq(Message)
    BY <2>2, <1>2, SeqDef
  <2>4. DOMAIN queue'[t] = 1..Len(queue'[t]) /\ Len(queue'[t]) \in Nat
    BY <2>3, LenProperties
  <2>5. Len(queue'[t]) = Len(queue[t])
    BY <2>4, <2>2, <1>2
  <2> QED BY <2>1, <2>3, <2>5
<1>4. queue' \in [Server -> Seq(Message)]
  BY <1>1, <1>3
<1>5. \A t \in Server : queue[t] = <<>> => queue'[t] = <<>>
  <2>1. ASSUME NEW t \in Server, queue[t] = <<>> PROVE queue'[t] = <<>>
    <3>1. Len(queue'[t]) = 0
      BY <1>3, <2>1, EmptySeq
    <3> QED BY <3>1, <1>3, EmptySeq
  <2> QED BY <2>1
<1> QED BY <1>2, <1>3, <1>4, <1>5 DEF Mail

-------------------------------------------------------------------------------
(* What a step does to the clients *)

(* The types of a client's variables. *)
ClientTypeOK ==
  /\ pc \in [Client -> {"idle", "next_pos", "fan_out", "await",
                        "read_send", "read_wait"}]
  /\ op \in [Client -> Request]
  /\ idx \in [Client -> Server]
  /\ reply \in [Client -> [Server -> Reply]]
  /\ seqTail \in [Client -> Nat]
  /\ result \in [Client -> Result]
  /\ known \in [Client -> SUBSET Record]
  /\ floor \in [Client -> Nat]

(* A call that returns leaves its client's variables well typed. *)
LEMMA ReturnType ==
  ASSUME TypeOK, NEW c \in Client, NEW res \in Result, Return(c, res)
  PROVE  ClientTypeOK'
<1>1. NoReq \in Request /\ NoReply \in Reply
  BY DEF NoReq, NoReply, Req, Rep, Request, Reply
<1>2. 1 \in Server
  BY NumServersAssumption DEF Server
<1>3. [s \in Server |-> NoReply] \in [Server -> Reply]
  BY <1>1
<1>4. "idle" \in {"idle", "next_pos", "fan_out", "await", "read_send", "read_wait"}
  OBVIOUS
<1> QED BY <1>1, <1>2, <1>3, <1>4 DEF TypeOK, ClientTypeOK, Return

(* A call that begins does so too. *)
LEMMA EnterType ==
  ASSUME TypeOK, NEW c \in Client, NEW req \in Request,
         NEW label \in {"next_pos", "fan_out", "read_send"},
         NEW o \in {"append", "seal", "read", "trim"},
         Enter(c, label, req, o)
  PROVE  /\ pc' \in [Client -> {"idle", "next_pos", "fan_out", "await",
                                "read_send", "read_wait"}]
         /\ op' \in [Client -> Request]
         /\ result' \in [Client -> Result]
<1>1. Res(o, "pending", 0, NoEntry) \in Result
  BY DEF Res, Result
<1> QED BY <1>1 DEF TypeOK, Enter

(* Only a waiting client's reply changes when a server answers. *)
LEMMA AnswerType ==
  ASSUME TypeOK, NEW s \in Server, NEW type, Receive(s, type),
         NEW rep \in Reply, Answer(s, rep)
  PROVE  /\ reply' \in [Client -> [Server -> Reply]]
         /\ \A c \in Client, t \in Server :
              reply'[c][t] = IF c = Mail(s, 1).to /\ t = s THEN rep ELSE reply[c][t]
<1>1. Mail(s, 1) \in Message /\ Head(queue[s]) = Mail(s, 1)
  BY MailReceived
<1>2. Mail(s, 1).to \in Client \cup {NoOne}
  BY <1>1 DEF Message
<1>3. CASE Mail(s, 1).to = NoOne
  BY <1>1, <1>3, SentinelAssumption DEF Answer, TypeOK
<1>4. CASE Mail(s, 1).to \in Client
  <2>1. reply' = [reply EXCEPT ![Mail(s, 1).to][s] = rep]
    BY <1>1, <1>4, SentinelAssumption DEF Answer
  <2> QED BY <2>1, <1>4 DEF TypeOK
<1> QED BY <1>2, <1>3, <1>4

-------------------------------------------------------------------------------
(* TypeOK is preserved *)

LEMMA ResultTypes ==
  /\ \A c \in Client : Internal(c) \in Result
  /\ \A p \in Nat : Res("append", "sealed", p, NoEntry) \in Result
  /\ \A p \in Nat : Res("seal", "ok", p, NoEntry) \in Result
  /\ \A p \in Nat : Res("trim", "ok", p, NoEntry) \in Result
  /\ \A p \in Nat : Res("check_tail", "ok", p, NoEntry) \in Result
  /\ \A p \in Nat, e \in Entry \cup {NoEntry} : Res("append", "ok", p, e) \in Result
  /\ \A p \in Nat, e \in Entry \cup {NoEntry}, t \in {"entry", "trimmed", "not_found"} :
       Res("read", t, p, e) \in Result
<1>1. \A c \in Client : CallName(c) \in {"append", "seal", "read", "trim"}
  BY DEF CallName
<1> QED BY <1>1 DEF Internal, Res, Result

LEMMA ReplyType ==
  ASSUME TypeOK, NEW c \in Client, NEW s \in Server
  PROVE  reply[c][s] \in Reply /\ reply[c][s].pos \in Nat
<1>1. reply[c][s] \in Reply
  BY DEF TypeOK
<1> QED BY <1>1 DEF Reply

(* All replies are at most nextPos, so the maximum is the sequencer's tail. *)
LEMMA FinalTailIsNextPos ==
  ASSUME TypeOK, SealInv, NEW c \in Client, op[c].type = "seal"
  PROVE  FinalTail(c) = nextPos
<1> DEFINE S == {seqTail[c]} \cup {reply[c][s].pos : s \in DoneReplies(c)}
<1>1. nextPos \in Nat /\ seqTail[c] = nextPos
  BY MaxPosAssumption DEF SealInv, TypeOK, TailPos
<1>2. \A s \in Server : reply[c][s].pos \in Nat /\ reply[c][s].pos <= nextPos
  BY ReplyType DEF SealInv
<1>3. \A x \in S : x \in Nat /\ x <= nextPos
  BY <1>1, <1>2 DEF DoneReplies
<1>4. nextPos \in S
  BY <1>1
<1> HIDE DEF S
<1>5. \A x \in S : (\A y \in S : x >= y) <=> x = nextPos
  BY <1>1, <1>3, <1>4
<1>6. (CHOOSE x \in S : \A y \in S : x >= y) = nextPos
  BY <1>4, <1>5
<1> QED BY <1>6 DEF FinalTail, Max, S

LEMMA TypeStep ==
  ASSUME Inv, Next
  PROVE  TypeOK'
<1> USE DEF seqVars, serverVars, localVars, historyVars
<1>t. /\ TypeOK /\ nextPos \in Nat
      /\ \A c \in Client : op[c] \in Request /\ op[c].pos \in Nat
                           /\ op[c].entry \in Entry \cup {NoEntry}
  BY MaxPosAssumption DEF Inv, TypeOK, TailPos, Request
<1>1. ASSUME NEW c \in Client, AppendFastPath(c) PROVE TypeOK'
  BY <1>t, <1>1, ResultTypes DEF AppendFastPath, TypeOK
<1>2. ASSUME NEW c \in Client, NEW e \in Entry, BeginAppend(c, e) PROVE TypeOK'
  <2>1. Req("store", 0, e) \in Request
    BY DEF Req, Request
  <2> QED BY <1>t, <1>2, <2>1, EnterType DEF BeginAppend, TypeOK
<1>3. ASSUME NEW c \in Client, BeginSeal(c) PROVE TypeOK'
  <2>1. Req("seal", 0, NoEntry) \in Request
    BY DEF Req, Request
  <2> QED BY <1>t, <1>3, <2>1, EnterType DEF BeginSeal, SealSequencer, TypeOK
<1>4. ASSUME NEW c \in Client, NEW p \in TailPos, BeginTrim(c, p) PROVE TypeOK'
  <2>1. Req("trim", p, NoEntry) \in Request
    BY MaxPosAssumption DEF Req, Request, TailPos
  <2> QED BY <1>t, <1>4, <2>1, EnterType DEF BeginTrim, TypeOK
<1>5. ASSUME NEW c \in Client, NEW p \in Position, BeginRead(c, p) PROVE TypeOK'
  <2>1. Req("read", p, NoEntry) \in Request
    BY MaxPosAssumption DEF Req, Request, Position
  <2>2. {r \in acked : r.pos = p} \in SUBSET Record /\ trimmedTo \in Nat
    BY <1>t DEF TypeOK
  <2> QED BY <1>t, <1>5, <2>1, <2>2, EnterType DEF BeginRead, TypeOK
<1>6. ASSUME NEW c \in Client, CheckTail(c) PROVE TypeOK'
  BY <1>t, <1>6, ResultTypes DEF CheckTail, TypeOK
<1>7. ASSUME NEW c \in Client, NextPos(c) PROVE TypeOK'
  <2>1. op[c].entry \in Entry
    BY <1>7 DEF NextPos, Inv, PcInv
  <2>2. nextPos \in Position /\ nextPos' \in TailPos
    BY <1>7, MaxPosAssumption DEF NextPos, TakePos, Inv, TypeOK, TailPos, Position
  <2>3. assigned' \in SUBSET Record
    BY <1>7, <1>t, <2>1, <2>2 DEF NextPos, TypeOK, Record
  <2>4. op' \in [Client -> Request]
    BY <1>7, <1>t DEF NextPos, TypeOK, Request
  <2> QED BY <1>t, <1>7, <2>2, <2>3, <2>4 DEF NextPos, TypeOK
<1>8. ASSUME NEW c \in Client, NextPosSealed(c) PROVE TypeOK'
  <2>1. ClientTypeOK'
    BY <1>t, <1>8, ResultTypes, ReturnType DEF NextPosSealed
  <2> QED BY <1>t, <1>8, <2>1 DEF NextPosSealed, TypeOK, ClientTypeOK
<1>9. ASSUME NEW c \in Client, FanOut(c) PROVE TypeOK'
  <2>1. idx[c] \in Server
    BY <1>t DEF TypeOK
  <2>2. queue' \in [Server -> Seq(Message)]
    BY <1>t, <1>9, <2>1, MailSent DEF FanOut
  <2>3. idx[c] # NumServers => idx[c] + 1 \in Server
    BY <2>1, NumServersAssumption DEF Server
  <2> QED BY <1>t, <1>9, <2>1, <2>2, <2>3 DEF FanOut, TypeOK
<1>10. ASSUME NEW c \in Client, FanOutFails(c) PROVE TypeOK'
  <2>1. ClientTypeOK'
    BY <1>t, <1>10, ResultTypes, ReturnType DEF FanOutFails
  <2>2. queue' \in [Server -> Seq(Message)]
    BY <1>t, <1>10, MailDropped DEF FanOutFails
  <2> QED BY <1>t, <1>10, <2>1, <2>2 DEF FanOutFails, TypeOK, ClientTypeOK
<1>11. ASSUME NEW c \in Client, AppendQuorum(c) PROVE TypeOK'
  <2>1. ClientTypeOK'
    BY <1>t, <1>11, ResultTypes, ReturnType DEF AppendQuorum
  <2>2. Storing(c)
    BY <1>11 DEF AppendQuorum, AllAnswered, Storing
  <2>3. OpRec(c) \in Record
    BY <2>2, <1>t DEF Inv, PosInv, TypeOK
  <2>4. acked' \in SUBSET Record
    BY <2>3, <1>t, <1>11 DEF AppendQuorum, OpRec, TypeOK
  <2> QED BY <1>t, <1>11, <2>1, <2>4 DEF AppendQuorum, TypeOK, ClientTypeOK
<1>12. ASSUME NEW c \in Client, AppendRefused(c) PROVE TypeOK'
  <2>1. PICK s \in SealedReplies(c) :
          Return(c, Res("append", "sealed", reply[c][s].pos, NoEntry))
    BY <1>12 DEF AppendRefused
  <2>2. reply[c][s].pos \in Nat
    BY <1>t DEF SealedReplies, TypeOK, Reply
  <2>3. ClientTypeOK'
    BY <1>t, <2>1, <2>2, ResultTypes, ReturnType
  <2> QED BY <1>t, <1>12, <2>3 DEF AppendRefused, TypeOK, ClientTypeOK
<1>13. ASSUME NEW c \in Client, AppendNoQuorum(c) PROVE TypeOK'
  <2>1. ClientTypeOK'
    BY <1>t, <1>13, ResultTypes, ReturnType DEF AppendNoQuorum
  <2> QED BY <1>t, <1>13, <2>1 DEF AppendNoQuorum, TypeOK, ClientTypeOK
<1>14. ASSUME NEW c \in Client, SealQuorum(c) PROVE TypeOK'
  <2>1. FinalTail(c) = nextPos
    BY <1>14, FinalTailIsNextPos DEF SealQuorum, Inv
  <2>2. ClientTypeOK'
    BY <1>t, <1>14, <2>1, ResultTypes, ReturnType DEF SealQuorum
  <2> QED BY <1>t, <1>14, <2>1, <2>2 DEF SealQuorum, TypeOK, ClientTypeOK
<1>15. ASSUME NEW c \in Client, SealNoQuorum(c) PROVE TypeOK'
  <2>1. ClientTypeOK'
    BY <1>t, <1>15, ResultTypes, ReturnType DEF SealNoQuorum
  <2> QED BY <1>t, <1>15, <2>1 DEF SealNoQuorum, TypeOK, ClientTypeOK
<1>16. ASSUME NEW c \in Client, TrimDone(c) PROVE TypeOK'
  <2>1. ClientTypeOK'
    BY <1>t, <1>16, ResultTypes, ReturnType DEF TrimDone
  <2> QED BY <1>t, <1>16, <2>1 DEF TrimDone, TypeOK, ClientTypeOK
<1>17. ASSUME NEW c \in Client, TrimFails(c) PROVE TypeOK'
  <2>1. ClientTypeOK'
    BY <1>t, <1>17, ResultTypes, ReturnType DEF TrimFails
  <2>2. queue' \in [Server -> Seq(Message)]
    BY <1>t, <1>17, MailDropped DEF TrimFails
  <2> QED BY <1>t, <1>17, <2>1, <2>2 DEF TrimFails, TypeOK, ClientTypeOK
<1>18. ASSUME NEW c \in Client, ReadSend(c) PROVE TypeOK'
  <2>1. idx[c] \in Server
    BY <1>t DEF TypeOK
  <2>2. queue' \in [Server -> Seq(Message)]
    BY <1>t, <1>18, <2>1, MailSent DEF ReadSend
  <2> QED BY <1>t, <1>18, <2>2 DEF ReadSend, TypeOK
<1>19. ASSUME NEW c \in Client, ReadFails(c) PROVE TypeOK'
  <2>1. ClientTypeOK'
    BY <1>t, <1>19, ResultTypes, ReturnType DEF ReadFails
  <2> QED BY <1>t, <1>19, <2>1 DEF ReadFails, TypeOK, ClientTypeOK
<1>20. ASSUME NEW c \in Client, ReadReply(c) PROVE TypeOK'
  <2> DEFINE r == reply[c][idx[c]]
  <2>1. idx[c] \in Server /\ r \in Reply /\ r.entry \in Entry \cup {NoEntry}
    BY <1>t DEF TypeOK, Reply
  <2>2. op[c].type = "read"
    BY <1>20 DEF ReadReply, Inv, PcInv
  <2>3. r.tag \in {"entry", "trimmed", "not_found"}
    BY <1>20, <2>1, <2>2 DEF ReadReply, Inv, DeliveryInv, AnswersTo
  <2>4. Res("read", r.tag, op[c].pos, r.entry) \in Result
    BY <1>t, <2>1, <2>3, ResultTypes
  <2>5. ClientTypeOK'
    BY <1>t, <1>20, <2>4, ReturnType DEF ReadReply
  <2> QED BY <1>t, <1>20, <2>5 DEF ReadReply, TypeOK, ClientTypeOK
<1>21. ASSUME NEW c \in Client, ReadContinue(c) PROVE TypeOK'
  <2>1. idx[c] \in 1..NumServers /\ idx[c] # NumServers
    BY <1>t, <1>21 DEF ReadContinue, ReadReturns, TypeOK, Server
  <2>2. idx[c] + 1 \in Server
    BY <2>1, NumServersAssumption DEF Server
  <2> QED BY <1>t, <1>21, <2>2 DEF ReadContinue, TypeOK
<1>22. ASSUME NEW s \in Server, ServeStore(s) PROVE TypeOK'
  <2>1. Receive(s, "store")
    BY <1>22 DEF ServeStore
  <2> DEFINE p == Mail(s, 1).req.pos
             e == Mail(s, 1).req.entry
  <2>2. /\ queue' \in [Server -> Seq(Message)] /\ Head(queue[s]) = Mail(s, 1)
        /\ 1 \in 1..Len(queue[s]) /\ Mail(s, 1).req.type = "store"
    BY <1>t, <2>1, MailReceived
  <2>3. [pos |-> p, entry |-> e] \in assigned
    BY <2>2 DEF Inv, PosInv, ReqRec
  <2>4. [pos |-> p, entry |-> e] \in Record /\ p \in Nat /\ p + 1 \in TailPos
    BY <2>3, <1>t, MaxPosAssumption DEF TypeOK, Record, Position, TailPos
  <2>5. entries' \in [Server -> SUBSET Record] /\ tail' \in [Server -> TailPos]
    <3>1. \/ UNCHANGED <<entries, tail>>
          \/ /\ entries' = [entries EXCEPT ![s] = @ \cup {[pos |-> p, entry |-> e]}]
             /\ tail' = [tail EXCEPT ![s] = IF p >= @ THEN p + 1 ELSE @]
      BY <1>22, <2>2 DEF ServeStore
    <3>2. /\ entries[s] \cup {[pos |-> p, entry |-> e]} \in SUBSET Record
          /\ tail[s] \in TailPos
      BY <1>t, <2>4 DEF TypeOK
    <3> DEFINE new == entries[s] \cup {[pos |-> p, entry |-> e]}
               end == IF p >= tail[s] THEN p + 1 ELSE tail[s]
    <3>3. end \in TailPos
      BY <2>4, <3>2
    <3>4. CASE UNCHANGED <<entries, tail>>
      BY <1>t, <3>4 DEF TypeOK
    <3>5. CASE /\ entries' = [entries EXCEPT ![s] = new]
               /\ tail' = [tail EXCEPT ![s] = end]
      <4> HIDE DEF p, e, new, end
      <4> QED BY <1>t, <3>2, <3>3, <3>5 DEF TypeOK, new
    <3> QED BY <3>1, <3>4, <3>5
  <2>6. \A q \in {Rep("sealed", tail[s], NoEntry), Rep("occupied", 0, NoEntry),
                  Rep("stored", 0, NoEntry)} : q \in Reply
    BY <1>t, MaxPosAssumption DEF TypeOK, TailPos, Rep, Reply
  <2>7. \E q \in Reply : Answer(s, q)
    BY <1>22, <2>6 DEF ServeStore
  <2>8. reply' \in [Client -> [Server -> Reply]]
    BY <1>t, <2>1, <2>7, AnswerType
  <2> QED BY <1>t, <1>22, <2>2, <2>5, <2>8 DEF ServeStore, Receive, TypeOK
<1>23. ASSUME NEW s \in Server, ServeRead(s) PROVE TypeOK'
  <2>1. Receive(s, "read")
    BY <1>23 DEF ServeRead
  <2>2. queue' \in [Server -> Seq(Message)]
    BY <1>t, <2>1, MailReceived
  <2>3. \A p : ReadAnswer(s, p) \in Reply
    BY <1>t DEF ReadAnswer, Rep, Reply, TypeOK, Record
  <2>4. reply' \in [Client -> [Server -> Reply]]
    BY <1>t, <1>23, <2>1, <2>3, AnswerType DEF ServeRead
  <2> QED BY <1>t, <1>23, <2>2, <2>4 DEF ServeRead, Receive, TypeOK
<1>24. ASSUME NEW s \in Server, ServeSeal(s) PROVE TypeOK'
  <2>1. Receive(s, "seal")
    BY <1>24 DEF ServeSeal
  <2>2. queue' \in [Server -> Seq(Message)]
    BY <1>t, <2>1, MailReceived
  <2>3. Rep("done", tail[s], NoEntry) \in Reply
    BY <1>t, MaxPosAssumption DEF TypeOK, TailPos, Rep, Reply
  <2>4. reply' \in [Client -> [Server -> Reply]]
    BY <1>t, <1>24, <2>1, <2>3, AnswerType DEF ServeSeal
  <2> QED BY <1>t, <1>24, <2>2, <2>4 DEF ServeSeal, Receive, TypeOK
<1>25. ASSUME NEW s \in Server, ServeTrim(s) PROVE TypeOK'
  <2>1. Receive(s, "trim")
    BY <1>25 DEF ServeTrim
  <2>2. queue' \in [Server -> Seq(Message)] /\ Head(queue[s]).req.pos \in Nat
    BY <1>t, <2>1, MailReceived DEF Message, Request
  <2>3. Rep("done", 0, NoEntry) \in Reply
    BY DEF Rep, Reply
  <2>4. reply' \in [Client -> [Server -> Reply]]
    BY <1>t, <1>25, <2>1, <2>3, AnswerType DEF ServeTrim
  <2>5. trimPos' \in [Server -> Nat] /\ entries' \in [Server -> SUBSET Record]
    <3> DEFINE p == Head(queue[s]).req.pos
               kept == {r \in entries[s] : r.pos >= p}
    <3>1. kept \in SUBSET Record
      BY <1>t DEF TypeOK
    <3>2. \/ UNCHANGED <<trimPos, entries>>
          \/ /\ trimPos' = [trimPos EXCEPT ![s] = p]
             /\ entries' = [entries EXCEPT ![s] = kept]
      BY <1>25 DEF ServeTrim, TrimServer
    <3> HIDE DEF p, kept
    <3>3. p \in Nat
      BY <2>2 DEF p
    <3>4. CASE UNCHANGED <<trimPos, entries>>
      BY <1>t, <3>4 DEF TypeOK
    <3>5. CASE /\ trimPos' = [trimPos EXCEPT ![s] = p]
               /\ entries' = [entries EXCEPT ![s] = kept]
      BY <1>t, <3>1, <3>3, <3>5 DEF TypeOK
    <3> QED BY <3>2, <3>4, <3>5
  <2> QED BY <1>t, <1>25, <2>2, <2>4, <2>5 DEF ServeTrim, Receive, TypeOK
<1>26. ASSUME NEW s \in Server, Crash(s) PROVE TypeOK'
  <2>1. <<>> \in Seq(Message)
    BY EmptySeq
  <2> QED BY <1>t, <1>26, <2>1 DEF Crash, TypeOK
<1> QED
  BY <1>1, <1>2, <1>3, <1>4, <1>5, <1>6, <1>7, <1>8, <1>9, <1>10, <1>11, <1>12,
     <1>13, <1>14, <1>15, <1>16, <1>17, <1>18, <1>19, <1>20, <1>21, <1>22,
     <1>23, <1>24, <1>25, <1>26 DEF Next, Invoke, Proceed, Serve

-------------------------------------------------------------------------------
(* The steps by what they do: nothing but return a result, begin a call, send *)
(* a request, end a call                                                    *)

Glances(c) == AppendFastPath(c) \/ CheckTail(c)

Begins(c) ==
  \/ \E e \in Entry : BeginAppend(c, e)
  \/ BeginSeal(c)
  \/ \E p \in TailPos : BeginTrim(c, p)
  \/ \E p \in Position : BeginRead(c, p)

Sends(c) == FanOut(c) \/ ReadSend(c)

Ends(c) ==
  \/ NextPosSealed(c) \/ FanOutFails(c)
  \/ AppendQuorum(c) \/ AppendRefused(c) \/ AppendNoQuorum(c)
  \/ SealQuorum(c) \/ SealNoQuorum(c)
  \/ TrimDone(c) \/ TrimFails(c)
  \/ ReadFails(c) \/ ReadReply(c)

LEMMA StepKinds ==
  ASSUME Next
  PROVE  \/ \E c \in Client : \/ Glances(c) \/ Begins(c) \/ NextPos(c) \/ Sends(c)
                              \/ ReadContinue(c) \/ Ends(c)
         \/ \E s \in Server : \/ ServeStore(s) \/ ServeRead(s) \/ ServeSeal(s)
                              \/ ServeTrim(s) \/ Crash(s)
BY DEF Next, Invoke, Proceed, Serve, Glances, Begins, Sends, Ends

(* A call that begins: its client was idle, and the requests it has yet to  *)
(* send are all that changes, but for the sequencer's seal.                 *)
LEMMA BeginsFacts ==
  ASSUME TypeOK, NEW c \in Client, Begins(c)
  PROVE  /\ pc[c] = "idle"
         /\ \A d \in Client : d # c => pc'[d] = pc[d] /\ op'[d] = op[d]
                                       /\ seqTail'[d] = seqTail[d]
         /\ \/ /\ pc'[c] = "next_pos" /\ op'[c].type = "store"
               /\ op'[c].entry \in Entry /\ UNCHANGED seqVars
            \/ /\ pc'[c] = "fan_out" /\ op'[c].type = "seal"
               /\ seqSealed' = TRUE /\ nextPos' = nextPos /\ seqTail'[c] = nextPos
            \/ pc'[c] = "fan_out" /\ op'[c].type = "trim" /\ UNCHANGED seqVars
            \/ pc'[c] = "read_send" /\ op'[c].type = "read" /\ UNCHANGED seqVars
         /\ UNCHANGED <<serverVars, queue, sealedFlag, idx, reply,
                        assigned, acked, finalTail, trimmedTo>>
<1> DEFINE Others == \A d \in Client : d # c => pc'[d] = pc[d] /\ op'[d] = op[d]
                                                /\ seqTail'[d] = seqTail[d]
           Rest == UNCHANGED <<serverVars, queue, sealedFlag, idx, reply,
                               assigned, acked, finalTail, trimmedTo>>
<1> USE DEF seqVars, historyVars
<1>1. ASSUME NEW e \in Entry, BeginAppend(c, e)
      PROVE  /\ pc[c] = "idle" /\ pc'[c] = "next_pos" /\ op'[c] = Req("store", 0, e)
             /\ Others /\ Rest /\ UNCHANGED seqVars
  BY <1>1 DEF BeginAppend, Enter, TypeOK
<1>2. ASSUME BeginSeal(c)
      PROVE  /\ pc[c] = "idle" /\ pc'[c] = "fan_out" /\ op'[c] = Req("seal", 0, NoEntry)
             /\ seqSealed' = TRUE /\ nextPos' = nextPos /\ seqTail'[c] = nextPos
             /\ Others /\ Rest
  BY <1>2 DEF BeginSeal, SealSequencer, Enter, TypeOK
<1>3. ASSUME NEW p \in TailPos, BeginTrim(c, p)
      PROVE  /\ pc[c] = "idle" /\ pc'[c] = "fan_out" /\ op'[c] = Req("trim", p, NoEntry)
             /\ Others /\ Rest /\ UNCHANGED seqVars
  BY <1>3 DEF BeginTrim, Enter, TypeOK
<1>4. ASSUME NEW p \in Position, BeginRead(c, p)
      PROVE  /\ pc[c] = "idle" /\ pc'[c] = "read_send" /\ op'[c] = Req("read", p, NoEntry)
             /\ Others /\ Rest /\ UNCHANGED seqVars
  BY <1>4 DEF BeginRead, Enter, TypeOK
<1> DEFINE Closes == seqSealed' = TRUE /\ nextPos' = nextPos /\ seqTail'[c] = nextPos
           Same == UNCHANGED seqVars
<1> HIDE DEF Others, Rest, Closes, Same
<1>0. /\ \A e : Req("store", 0, e).type = "store" /\ Req("store", 0, e).entry = e
      /\ Req("seal", 0, NoEntry).type = "seal"
      /\ \A p : Req("trim", p, NoEntry).type = "trim"
      /\ \A p : Req("read", p, NoEntry).type = "read"
  BY DEF Req
<1>5. /\ pc[c] = "idle" /\ Others /\ Rest
      /\ \/ /\ pc'[c] = "next_pos" /\ op'[c].type = "store"
            /\ op'[c].entry \in Entry /\ Same
         \/ pc'[c] = "fan_out" /\ op'[c].type = "seal" /\ Closes
         \/ pc'[c] = "fan_out" /\ op'[c].type = "trim" /\ Same
         \/ pc'[c] = "read_send" /\ op'[c].type = "read" /\ Same
  <2>1. CASE \E e \in Entry : BeginAppend(c, e)
    BY <2>1, <1>1, <1>0 DEF Same
  <2>2. CASE BeginSeal(c)
    BY <2>2, <1>2, <1>0 DEF Closes
  <2>3. CASE \E p \in TailPos : BeginTrim(c, p)
    BY <2>3, <1>3, <1>0 DEF Same
  <2>4. CASE \E p \in Position : BeginRead(c, p)
    BY <2>4, <1>4, <1>0 DEF Same
  <2> QED BY <2>1, <2>2, <2>3, <2>4 DEF Begins
<1> QED BY <1>5 DEF Others, Rest, Closes, Same

(* A call that sends: one message more for the server idx, and the call     *)
(* moves on to the next server or to wait.                                  *)
LEMMA SendsFacts ==
  ASSUME TypeOK, NEW c \in Client, Sends(c)
  PROVE  /\ idx[c] \in Server /\ SendTo(c, idx[c])
         /\ \A d \in Client : d # c => pc'[d] = pc[d] /\ idx'[d] = idx[d]
         /\ \/ pc[c] = "fan_out" /\ pc'[c] = "await" /\ idx'[c] = idx[c]
            \/ pc[c] = "fan_out" /\ pc'[c] = "fan_out" /\ idx'[c] = idx[c] + 1
            \/ pc[c] = "read_send" /\ pc'[c] = "read_wait" /\ idx'[c] = idx[c]
         /\ (pc[c] = "fan_out" /\ pc'[c] = "await") => idx[c] = NumServers
         /\ UNCHANGED <<seqVars, serverVars, sealedFlag, op, reply, seqTail,
                        historyVars>>
BY DEF Sends, FanOut, ReadSend, TypeOK

(* A call that ends clears its client's variables and leaves the sequencer  *)
(* and the servers alone.                                                   *)
LEMMA EndsFacts ==
  ASSUME TypeOK, NEW c \in Client, Ends(c)
  PROVE  /\ pc'[c] = "idle" /\ op'[c] = NoReq /\ idx'[c] = 1
         /\ \A s \in Server : reply'[c][s] = NoReply
         /\ \A d \in Client : d # c =>
              /\ pc'[d] = pc[d] /\ op'[d] = op[d] /\ idx'[d] = idx[d]
              /\ reply'[d] = reply[d] /\ seqTail'[d] = seqTail[d]
         /\ UNCHANGED <<seqVars, serverVars, assigned>>
<1>1. /\ \E res : Return(c, res)
      /\ UNCHANGED <<seqVars, serverVars, assigned>>
  BY DEF Ends, NextPosSealed, FanOutFails, AppendQuorum, AppendRefused, AppendNoQuorum,
         SealQuorum, SealNoQuorum, TrimDone, TrimFails, ReadFails, ReadReply
<1> QED BY <1>1 DEF Return, TypeOK

(* It leaves no message behind whose reply its client would take for the    *)
(* reply to a later call.                                                   *)
LEMMA EndsMail ==
  ASSUME Inv, NEW c \in Client, Ends(c)
  PROVE  /\ \A t \in Server : \A i \in 1..Len(queue'[t]) :
              /\ i \in 1..Len(queue[t])
              /\ Mail(t, i)'.req = Mail(t, i).req
              /\ Mail(t, i)'.to # c
              /\ Mail(t, i)'.to # NoOne => Mail(t, i)'.to = Mail(t, i).to
         /\ \A t \in Server : queue[t] = <<>> => queue'[t] = <<>>
<1> USE DEF Inv
<1>1. CASE FanOutFails(c) \/ TrimFails(c)
  <2>1. DropReceivers(c)
    BY <1>1 DEF FanOutFails, TrimFails
  <2> QED BY <2>1, MailDropped, SentinelAssumption
<1>2. ASSUME UNCHANGED queue,
             \A t \in Server : ~Asked(c, t) \/ reply[c][t].tag # "none" \/ ~alive[t]
      PROVE  /\ \A t \in Server : \A i \in 1..Len(queue'[t]) :
                  /\ i \in 1..Len(queue[t])
                  /\ Mail(t, i)'.req = Mail(t, i).req
                  /\ Mail(t, i)'.to # c
                  /\ Mail(t, i)'.to # NoOne => Mail(t, i)'.to = Mail(t, i).to
             /\ \A t \in Server : queue[t] = <<>> => queue'[t] = <<>>
  <2>1. ASSUME NEW t \in Server, NEW i \in 1..Len(queue[t]) PROVE Mail(t, i).to # c
    <3>1. alive[t]
      BY <2>1, EmptySeq DEF DeliveryInv
    <3>2. SUFFICES ASSUME Mail(t, i).to = c PROVE FALSE
      OBVIOUS
    <3>3. Asked(c, t) /\ reply[c][t].tag = "none"
      BY <3>2, SentinelAssumption DEF DeliveryInv
    <3> QED BY <1>2, <3>1, <3>3
  <2>2. \A t, i : Mail(t, i)' = Mail(t, i)
    BY <1>2 DEF Mail
  <2> QED BY <1>2, <2>1, <2>2
<1>3. CASE NextPosSealed(c)
  <2>1. UNCHANGED queue /\ \A t \in Server : ~Asked(c, t)
    BY <1>3 DEF NextPosSealed, Asked
  <2> QED BY <1>2, <2>1
<1>4. CASE \/ AppendQuorum(c) \/ AppendRefused(c) \/ AppendNoQuorum(c)
           \/ SealQuorum(c) \/ SealNoQuorum(c)
  <2>1. UNCHANGED queue /\ \A t \in Server : Answered(c, t)
    BY <1>4 DEF AppendQuorum, AppendRefused, AppendNoQuorum, SealQuorum,
                SealNoQuorum, AllAnswered
  <2> QED BY <1>2, <2>1 DEF Answered
<1>5. CASE TrimDone(c)
  <2>1. UNCHANGED queue /\ \A t \in Server : reply[c][t].tag = "done"
    BY <1>5 DEF TrimDone, TrimCollected, DoneReplies
  <2> QED BY <1>2, <2>1
<1>6. CASE ReadFails(c)
  <2>1. UNCHANGED queue /\ pc[c] \in {"read_send", "read_wait"} /\ ~alive[idx[c]]
    BY <1>6 DEF ReadFails
  <2>2. \A t \in Server : t < idx[c] => reply[c][t].tag # "none"
    BY <2>1 DEF DeliveryInv
  <2>3. \A t \in Server : Asked(c, t) => t < idx[c] \/ t = idx[c]
    BY <2>1 DEF Asked, TypeOK, Server
  <2> QED BY <1>2, <2>1, <2>2, <2>3
<1>7. CASE ReadReply(c)
  <2>1. UNCHANGED queue /\ pc[c] = "read_wait" /\ reply[c][idx[c]].tag # "none"
    BY <1>7 DEF ReadReply
  <2>2. \A t \in Server : t < idx[c] => reply[c][t].tag # "none"
    BY <2>1 DEF DeliveryInv
  <2>3. \A t \in Server : Asked(c, t) => t < idx[c] \/ t = idx[c]
    BY <2>1 DEF Asked, TypeOK, Server
  <2> QED BY <1>2, <2>1, <2>2, <2>3
<1> QED BY <1>1, <1>3, <1>4, <1>5, <1>6, <1>7 DEF Ends

-------------------------------------------------------------------------------
(* PcInv is preserved *)

LEMMA PcStep ==
  ASSUME Inv, Next
  PROVE  PcInv'
<1> USE DEF Inv, seqVars, serverVars, localVars, historyVars
<1>1. ASSUME NEW c \in Client, Glances(c) PROVE PcInv'
  <2>1. UNCHANGED <<pc, op, idx>>
    BY <1>1 DEF Glances, AppendFastPath, CheckTail
  <2> QED BY <2>1 DEF PcInv
<1>2. ASSUME NEW c \in Client, Begins(c) PROVE PcInv'
  <2>1. /\ pc[c] = "idle" /\ idx' = idx
        /\ \A d \in Client : d # c => pc'[d] = pc[d] /\ op'[d] = op[d]
        /\ \/ pc'[c] = "next_pos" /\ op'[c].type = "store" /\ op'[c].entry \in Entry
           \/ pc'[c] = "fan_out" /\ op'[c].type \in {"seal", "trim"}
           \/ pc'[c] = "read_send" /\ op'[c].type = "read"
    BY <1>2, BeginsFacts
  <2> QED BY <2>1 DEF PcInv
<1>3. ASSUME NEW c \in Client, NextPos(c) PROVE PcInv'
  BY <1>3 DEF NextPos, PcInv, TypeOK, Request
<1>4. ASSUME NEW c \in Client, Sends(c) PROVE PcInv'
  BY <1>4, SendsFacts DEF PcInv
<1>5. ASSUME NEW c \in Client, ReadContinue(c) PROVE PcInv'
  BY <1>5 DEF ReadContinue, PcInv, TypeOK
<1>6. ASSUME NEW c \in Client, Ends(c) PROVE PcInv'
  BY <1>6, EndsFacts DEF PcInv
<1>7. ASSUME NEW s \in Server,
             ServeStore(s) \/ ServeRead(s) \/ ServeSeal(s) \/ ServeTrim(s) \/ Crash(s)
      PROVE  PcInv'
  BY <1>7 DEF ServeStore, ServeRead, ServeSeal, ServeTrim, Crash, Receive, PcInv
<1> QED BY <1>1, <1>2, <1>3, <1>4, <1>5, <1>6, <1>7, StepKinds

-------------------------------------------------------------------------------
(* PosInv is preserved *)

(* The messages in the mailboxes after a step are messages that were there. *)
OldMail ==
  \A t \in Server : \A i \in 1..Len(queue'[t]) :
    \E j \in 1..Len(queue[t]) : Mail(t, i)'.req = Mail(t, j).req

LEMMA ServesFacts ==
  ASSUME TypeOK, NEW s \in Server,
         ServeStore(s) \/ ServeRead(s) \/ ServeSeal(s) \/ ServeTrim(s)
  PROVE  /\ OldMail
         /\ UNCHANGED <<seqVars, alive, sealedFlag, pc, op, idx, seqTail, historyVars>>
<1>1. PICK type : Receive(s, type)
  BY DEF ServeStore, ServeRead, ServeSeal, ServeTrim
<1>2. OldMail
  BY <1>1, MailReceived DEF OldMail
<1> QED BY <1>1, <1>2 DEF Receive

LEMMA CrashMail ==
  ASSUME TypeOK, NEW s \in Server, Crash(s)
  PROVE  /\ OldMail
         /\ \A t \in Server : \A i \in 1..Len(queue'[t]) :
              i \in 1..Len(queue[t]) /\ Mail(t, i)' = Mail(t, i) /\ t # s
         /\ queue'[s] = <<>>
         /\ \A t \in Server : t # s => queue'[t] = queue[t]
<1>1. queue'[s] = <<>> /\ \A t \in Server : t # s => queue'[t] = queue[t]
  BY DEF Crash, TypeOK
<1>2. Len(<<>>) = 0
  BY EmptySeq
<1> QED BY <1>1, <1>2 DEF OldMail, Mail

(* What a store does to the server that handles it. *)
LEMMA StoreFacts ==
  ASSUME TypeOK, NEW s \in Server, ServeStore(s)
  PROVE  /\ Head(queue[s]) = Mail(s, 1) /\ 1 \in 1..Len(queue[s])
         /\ Mail(s, 1) \in Message /\ Mail(s, 1).req.type = "store"
         /\ \A t \in Server : t # s => entries'[t] = entries[t] /\ tail'[t] = tail[t]
         /\ \/ entries'[s] = entries[s] /\ tail'[s] = tail[s]
            \/ /\ ~sealed[s]
               /\ entries'[s] = entries[s] \cup {ReqRec(Mail(s, 1).req)}
               /\ tail'[s] \in {tail[s], Mail(s, 1).req.pos + 1}
         /\ UNCHANGED <<sealed, trimPos>>
<1>1. /\ Head(queue[s]) = Mail(s, 1) /\ 1 \in 1..Len(queue[s])
      /\ Mail(s, 1) \in Message /\ Mail(s, 1).req.type = "store"
  BY MailReceived DEF ServeStore
<1> DEFINE new == entries[s] \cup {ReqRec(Mail(s, 1).req)}
           end == IF Mail(s, 1).req.pos >= tail[s]
                  THEN Mail(s, 1).req.pos + 1 ELSE tail[s]
<1>2. \/ UNCHANGED <<entries, tail>>
      \/ /\ ~sealed[s]
         /\ entries' = [entries EXCEPT ![s] = new]
         /\ tail' = [tail EXCEPT ![s] = end]
  BY <1>1 DEF ServeStore, ReqRec
<1>3. end \in {tail[s], Mail(s, 1).req.pos + 1}
  OBVIOUS
<1> HIDE DEF new, end
<1>4. CASE UNCHANGED <<entries, tail>>
  BY <1>1, <1>4 DEF ServeStore
<1>5. CASE ~sealed[s] /\ entries' = [entries EXCEPT ![s] = new]
           /\ tail' = [tail EXCEPT ![s] = end]
  <2>1. entries'[s] = new /\ tail'[s] = end
    BY <1>5 DEF TypeOK
  <2>2. \A t \in Server : t # s => entries'[t] = entries[t] /\ tail'[t] = tail[t]
    BY <1>5 DEF TypeOK
  <2> QED BY <1>1, <1>3, <1>5, <2>1, <2>2 DEF new, ServeStore
<1> QED BY <1>2, <1>4, <1>5

(* What a trim does: entries go, but only those below the new trim point. *)
LEMMA TrimFacts ==
  ASSUME TypeOK, NEW s \in Server, ServeTrim(s)
  PROVE  /\ \A t \in Server : t # s => entries'[t] = entries[t]
                                       /\ trimPos'[t] = trimPos[t]
         /\ entries'[s] \subseteq entries[s]
         /\ trimPos'[s] >= trimPos[s]
         /\ \A r \in entries[s] : r \in entries'[s] \/ r.pos < trimPos'[s]
         /\ UNCHANGED <<sealed, tail>>
<1> DEFINE p == Head(queue[s]).req.pos
           kept == {r \in entries[s] : r.pos >= p}
<1>1. p \in Nat /\ trimPos[s] \in Nat
  BY MailReceived DEF ServeTrim, Message, Request, TypeOK
<1>2. /\ kept \subseteq entries[s]
      /\ \A r \in entries[s] : r \in kept \/ r.pos < p
  BY <1>1, MaxPosAssumption DEF TypeOK, Record, Position
<1>3. \/ UNCHANGED <<trimPos, entries>>
      \/ /\ p > trimPos[s]
         /\ trimPos' = [trimPos EXCEPT ![s] = p]
         /\ entries' = [entries EXCEPT ![s] = kept]
  BY DEF ServeTrim, TrimServer
<1> HIDE DEF p, kept
<1>4. CASE UNCHANGED <<trimPos, entries>>
  BY <1>1, <1>4 DEF ServeTrim
<1>5. CASE p > trimPos[s] /\ trimPos' = [trimPos EXCEPT ![s] = p]
           /\ entries' = [entries EXCEPT ![s] = kept]
  <2>1. entries'[s] = kept /\ trimPos'[s] = p
    BY <1>5 DEF TypeOK
  <2>2. \A t \in Server : t # s => entries'[t] = entries[t] /\ trimPos'[t] = trimPos[t]
    BY <1>5 DEF TypeOK
  <2> QED BY <1>1, <1>2, <1>5, <2>1, <2>2 DEF ServeTrim
<1> QED BY <1>3, <1>4, <1>5

LEMMA PosStep ==
  ASSUME Inv, Next
  PROVE  PosInv'
<1> USE DEF Inv, seqVars, serverVars, localVars, historyVars
<1>1. ASSUME NEW c \in Client, Glances(c) PROVE PosInv'
  BY <1>1 DEF Glances, AppendFastPath, CheckTail, PosInv, Mail, Storing, OpRec, ReqRec
<1>2. ASSUME NEW c \in Client, Begins(c) PROVE PosInv'
  <2>1. /\ UNCHANGED <<nextPos, entries, queue, assigned, acked>>
        /\ ~Storing(c)'
        /\ \A d \in Client : d # c => pc'[d] = pc[d] /\ op'[d] = op[d]
    BY <1>2, BeginsFacts DEF Storing
  <2> QED BY <2>1 DEF PosInv, Mail, Storing, OpRec, ReqRec
<1>3. ASSUME NEW c \in Client, NextPos(c) PROVE PosInv'
  <2> DEFINE new == [pos |-> nextPos, entry |-> op[c].entry]
  <2>1. /\ nextPos \in Nat /\ nextPos' = nextPos + 1
        /\ assigned' = assigned \cup {new}
        /\ UNCHANGED <<entries, queue, acked>>
    BY <1>3, MaxPosAssumption DEF NextPos, TakePos, TypeOK, TailPos
  <2>2. /\ op'[c].type = "store" /\ op'[c].pos = nextPos
        /\ op'[c].entry = op[c].entry /\ pc'[c] = "fan_out"
        /\ \A d \in Client : d # c => pc'[d] = pc[d] /\ op'[d] = op[d]
    BY <1>3 DEF NextPos, PcInv, TypeOK, Request
  <2>3. \A r \in assigned : r.pos \in Nat /\ r.pos < nextPos /\ r # new
    BY <2>1, MaxPosAssumption DEF TypeOK, PosInv, Record, Position
  <2>4. \A r \in assigned' : r.pos < nextPos'
    BY <2>1, <2>3
  <2>5. \A r, q \in assigned' : r.pos = q.pos => r = q
    BY <2>1, <2>3 DEF PosInv
  <2>6. OpRec(c)' = new /\ new \in assigned' /\ new \notin acked'
    BY <2>1, <2>2, <2>3 DEF OpRec, PosInv
  <2>7. \A d \in Client : d # c => /\ Storing(d)' = Storing(d)
                                   /\ OpRec(d)' = OpRec(d)
    BY <2>2 DEF Storing, OpRec
  <2>8. \A d \in Client : d # c /\ Storing(d) => op[d].pos < nextPos /\ op[d].pos \in Nat
    BY <2>3 DEF PosInv, OpRec
  <2>9. \A d, e \in Client :
          Storing(d)' /\ Storing(e)' /\ op'[d].pos = op'[e].pos => d = e
    <3> SUFFICES ASSUME NEW d \in Client, NEW e \in Client,
                        Storing(d)', Storing(e)', op'[d].pos = op'[e].pos
                 PROVE  d = e
      OBVIOUS
    <3>1. CASE d = c \/ e = c
      BY <3>1, <2>1, <2>2, <2>7, <2>8
    <3>2. CASE d # c /\ e # c
      BY <3>2, <2>2, <2>7 DEF PosInv
    <3> QED BY <3>1, <3>2
  <2> HIDE DEF new
  <2>10. \A d \in Client : Storing(d)' => OpRec(d)' \in assigned' /\ OpRec(d)' \notin acked'
    BY <2>1, <2>6, <2>7 DEF PosInv
  <2>11. /\ \A s \in Server : entries'[s] \subseteq assigned'
         /\ acked' \subseteq assigned'
         /\ \A s \in Server : \A i \in 1..Len(queue'[s]) :
              Mail(s, i)'.req.type = "store" => ReqRec(Mail(s, i)'.req) \in assigned'
    BY <2>1 DEF PosInv, Mail
  <2> QED BY <2>4, <2>5, <2>9, <2>10, <2>11 DEF PosInv, ReqRec
<1>4. ASSUME NEW c \in Client, Sends(c) PROVE PosInv'
  <2>1. /\ idx[c] \in Server /\ SendTo(c, idx[c])
        /\ UNCHANGED <<nextPos, entries, op, assigned, acked>>
        /\ \A d \in Client : Storing(d)' = Storing(d)
    BY <1>4, SendsFacts DEF Storing
  <2>2. op[c].type = "store" => ReqRec(op[c]) \in assigned
    BY <1>4, SendsFacts DEF PcInv, PosInv, Storing, OpRec, ReqRec
  <2>3. \A s \in Server : \A i \in 1..Len(queue'[s]) :
          Mail(s, i)'.req.type = "store" => ReqRec(Mail(s, i)'.req) \in assigned
    BY <2>1, <2>2, MailSent DEF PosInv
  <2> QED BY <2>1, <2>3 DEF PosInv, OpRec, ReqRec
<1>5. ASSUME NEW c \in Client, ReadContinue(c) PROVE PosInv'
  <2>1. /\ UNCHANGED <<nextPos, entries, queue, op, assigned, acked>>
        /\ \A d \in Client : Storing(d)' = Storing(d)
    BY <1>5 DEF ReadContinue, Storing, TypeOK
  <2> QED BY <2>1 DEF PosInv, Mail, OpRec, ReqRec
<1>6. ASSUME NEW c \in Client, Ends(c) PROVE PosInv'
  <2>1. /\ UNCHANGED <<nextPos, entries, assigned>>
        /\ ~Storing(c)'
        /\ \A d \in Client : d # c => pc'[d] = pc[d] /\ op'[d] = op[d]
    BY <1>6, EndsFacts DEF Storing
  <2>2. \/ acked' = acked
        \/ Storing(c) /\ acked' = acked \cup {OpRec(c)}
    BY <1>6 DEF Ends, NextPosSealed, FanOutFails, AppendQuorum, AppendRefused,
                AppendNoQuorum, SealQuorum, SealNoQuorum, TrimDone, TrimFails,
                ReadFails, ReadReply, AllAnswered, Storing, OpRec
  <2>3. \A d \in Client : Storing(d)' => /\ Storing(d) /\ d # c
                                         /\ OpRec(d)' = OpRec(d)
    BY <2>1 DEF Storing, OpRec
  <2>4. acked' \subseteq assigned'
    BY <2>1, <2>2 DEF PosInv
  <2>5. \A d \in Client : Storing(d)' => OpRec(d)' \in assigned' /\ OpRec(d)' \notin acked'
    BY <2>1, <2>2, <2>3 DEF PosInv, OpRec
  <2>6. \A s \in Server : \A i \in 1..Len(queue'[s]) :
          Mail(s, i)'.req.type = "store" => ReqRec(Mail(s, i)'.req) \in assigned
    BY <1>6, EndsMail DEF PosInv
  <2>7. \A d, e \in Client :
          Storing(d)' /\ Storing(e)' /\ op'[d].pos = op'[e].pos => d = e
    BY <2>1, <2>3 DEF PosInv
  <2> QED BY <2>1, <2>4, <2>5, <2>6, <2>7 DEF PosInv, ReqRec
<1>7. ASSUME NEW s \in Server,
             ServeStore(s) \/ ServeRead(s) \/ ServeSeal(s) \/ ServeTrim(s)
      PROVE  PosInv'
  <2>1. OldMail /\ UNCHANGED <<nextPos, pc, op, assigned, acked>>
    BY <1>7, ServesFacts
  <2>2. \A t \in Server : \A i \in 1..Len(queue'[t]) :
          Mail(t, i)'.req.type = "store" => ReqRec(Mail(t, i)'.req) \in assigned
    BY <2>1 DEF OldMail, PosInv
  <2>3. \A t \in Server : entries'[t] \subseteq assigned
    <3>1. CASE ServeStore(s)
      <4>1. ReqRec(Mail(s, 1).req) \in assigned
        BY <3>1, StoreFacts DEF PosInv
      <4> QED BY <3>1, <4>1, StoreFacts DEF PosInv
    <3>2. CASE ServeRead(s) \/ ServeSeal(s)
      BY <3>2 DEF ServeRead, ServeSeal, PosInv
    <3>3. CASE ServeTrim(s)
      BY <3>3, TrimFacts DEF PosInv
    <3> QED BY <1>7, <3>1, <3>2, <3>3
  <2> QED BY <2>1, <2>2, <2>3 DEF PosInv, Storing, OpRec, ReqRec
<1>8. ASSUME NEW s \in Server, Crash(s) PROVE PosInv'
  <2>1. OldMail /\ UNCHANGED <<nextPos, entries, pc, op, assigned, acked>>
    BY <1>8, CrashMail DEF Crash
  <2>2. \A t \in Server : \A i \in 1..Len(queue'[t]) :
          Mail(t, i)'.req.type = "store" => ReqRec(Mail(t, i)'.req) \in assigned
    BY <2>1 DEF OldMail, PosInv
  <2> QED BY <2>1, <2>2 DEF PosInv, Storing, OpRec, ReqRec
<1> QED BY <1>1, <1>2, <1>3, <1>4, <1>5, <1>6, <1>7, <1>8, StepKinds

-------------------------------------------------------------------------------
(* SealInv is preserved *)

LEMMA SealStep ==
  ASSUME Inv, Next
  PROVE  SealInv'
<1> USE DEF Inv, seqVars, serverVars, localVars, historyVars
<1>t. nextPos \in Nat /\ finalTail \in Nat
  BY MaxPosAssumption DEF TypeOK, TailPos
<1>1. ASSUME NEW c \in Client, Glances(c) PROVE SealInv'
  BY <1>1 DEF Glances, AppendFastPath, CheckTail, SealInv, Mail
<1>2. ASSUME NEW c \in Client, Begins(c) PROVE SealInv'
  <2>1. /\ nextPos' = nextPos /\ (seqSealed => seqSealed')
        /\ op'[c].type = "seal" => seqSealed' /\ seqTail'[c] = nextPos
        /\ \A d \in Client : d # c => op'[d] = op[d] /\ seqTail'[d] = seqTail[d]
        /\ UNCHANGED <<sealed, tail, queue, sealedFlag, reply, finalTail>>
    BY <1>2, BeginsFacts
  <2> QED BY <2>1 DEF SealInv, Mail
<1>3. ASSUME NEW c \in Client, NextPos(c) PROVE SealInv'
  <2>1. /\ ~seqSealed /\ seqSealed' = seqSealed /\ nextPos' = nextPos + 1
        /\ UNCHANGED <<sealed, tail, queue, sealedFlag, reply, seqTail, finalTail>>
        /\ \A d \in Client : op'[d].type = op[d].type
    BY <1>3 DEF NextPos, TakePos, TypeOK, Request
  <2>2. \A s \in Server : tail[s] \in Nat
    BY MaxPosAssumption DEF TypeOK, TailPos
  <2>3. \A d \in Client, s \in Server : reply'[d][s].pos <= nextPos'
    <3> SUFFICES ASSUME NEW d \in Client, NEW s \in Server
                 PROVE  reply'[d][s].pos <= nextPos'
      OBVIOUS
    <3>1. reply[d][s].pos <= nextPos /\ reply[d][s].pos \in Nat
      BY ReplyType DEF SealInv
    <3> QED BY <1>t, <2>1, <3>1
  <2>4. \A s \in Server : tail'[s] <= nextPos'
    BY <1>t, <2>1, <2>2 DEF SealInv
  <2> QED BY <2>1, <2>3, <2>4 DEF SealInv, Mail
<1>4. ASSUME NEW c \in Client, Sends(c) PROVE SealInv'
  <2>1. /\ idx[c] \in Server /\ SendTo(c, idx[c])
        /\ UNCHANGED <<seqVars, sealed, tail, sealedFlag, op, reply, seqTail, finalTail>>
    BY <1>4, SendsFacts
  <2>2. \A s \in Server : \A i \in 1..Len(queue'[s]) :
          Mail(s, i)'.req.type = "seal" => seqSealed
    BY <2>1, MailSent DEF SealInv
  <2> QED BY <2>1, <2>2 DEF SealInv
<1>5. ASSUME NEW c \in Client, ReadContinue(c) PROVE SealInv'
  BY <1>5 DEF ReadContinue, SealInv, Mail
<1>6. ASSUME NEW c \in Client, Ends(c) PROVE SealInv'
  <2>1. /\ UNCHANGED <<seqVars, sealed, tail>>
        /\ op'[c] = NoReq /\ \A s \in Server : reply'[c][s] = NoReply
        /\ \A d \in Client : d # c => /\ op'[d] = op[d] /\ seqTail'[d] = seqTail[d]
                                      /\ reply'[d] = reply[d]
    BY <1>6, EndsFacts
  <2>2. \A s \in Server : \A i \in 1..Len(queue'[s]) :
          Mail(s, i)'.req.type = "seal" => seqSealed
    BY <1>6, EndsMail DEF SealInv
  <2>3. NoReply.pos = 0 /\ NoReply.tag = "none" /\ NoReq.type = "none"
    BY DEF NoReply, Rep, NoReq, Req
  <2>4. sealedFlag' => seqSealed
    <3>1. CASE NextPosSealed(c)
      BY <3>1 DEF NextPosSealed
    <3>2. CASE AppendRefused(c)
      <4>1. PICK s \in Server : reply[c][s].tag = "sealed"
        BY <3>2 DEF AppendRefused, SealedReplies
      <4> QED BY <4>1 DEF SealInv
    <3>3. CASE SealQuorum(c)
      BY <3>3 DEF SealQuorum, SealInv
    <3>4. CASE ~(NextPosSealed(c) \/ AppendRefused(c) \/ SealQuorum(c))
      BY <1>6, <3>4 DEF Ends, FanOutFails, AppendQuorum, AppendNoQuorum,
                        SealNoQuorum, TrimDone, TrimFails, ReadFails, ReadReply, SealInv
    <3> QED BY <3>1, <3>2, <3>3, <3>4
  <2>5. finalTail' # 0 => seqSealed /\ finalTail' = nextPos
    <3>1. CASE SealQuorum(c)
      <4>1. op[c].type = "seal" /\ finalTail' = FinalTail(c)
        BY <3>1 DEF SealQuorum
      <4> QED BY <4>1, FinalTailIsNextPos DEF SealInv
    <3>2. CASE ~SealQuorum(c)
      <4>1. finalTail' = finalTail
        BY <1>6, <3>2 DEF Ends, NextPosSealed, FanOutFails, AppendQuorum, AppendRefused,
             AppendNoQuorum, SealNoQuorum, TrimDone, TrimFails, ReadFails, ReadReply
      <4> QED BY <4>1 DEF SealInv
    <3> QED BY <3>1, <3>2
  <2>6. \A d \in Client, s \in Server :
          /\ reply'[d][s].tag = "sealed" => seqSealed
          /\ reply'[d][s].pos <= nextPos
    <3> SUFFICES ASSUME NEW d \in Client, NEW s \in Server
                 PROVE  /\ reply'[d][s].tag = "sealed" => seqSealed
                        /\ reply'[d][s].pos <= nextPos
      OBVIOUS
    <3>1. CASE d = c
      BY <1>t, <2>1, <2>3, <3>1
    <3>2. CASE d # c
      BY <2>1, <3>2 DEF SealInv
    <3> QED BY <3>1, <3>2
  <2>7. \A d \in Client : op'[d].type = "seal" => seqSealed /\ seqTail'[d] = nextPos
    BY <2>1, <2>3 DEF SealInv
  <2> QED BY <2>1, <2>2, <2>4, <2>5, <2>6, <2>7 DEF SealInv
<1>7. ASSUME NEW s \in Server,
             ServeStore(s) \/ ServeRead(s) \/ ServeSeal(s) \/ ServeTrim(s)
      PROVE  SealInv'
  <2>1. OldMail /\ UNCHANGED <<seqVars, sealedFlag, op, seqTail, finalTail>>
    BY <1>7, ServesFacts
  <2>2. \A t \in Server : \A i \in 1..Len(queue'[t]) :
          Mail(t, i)'.req.type = "seal" => seqSealed
    BY <2>1 DEF OldMail, SealInv
  <2>3. \A t \in Server : tail[t] \in Nat /\ tail[t] <= nextPos
    BY MaxPosAssumption DEF SealInv, TypeOK, TailPos
  <2>4. /\ \A t \in Server : sealed'[t] => seqSealed
        /\ \A t \in Server : tail'[t] <= nextPos
    <3>1. CASE ServeStore(s)
      <4>1. ReqRec(Mail(s, 1).req) \in assigned
        BY <3>1, StoreFacts DEF PosInv
      <4>2. Mail(s, 1).req.pos \in Nat /\ Mail(s, 1).req.pos < nextPos
        BY <4>1, MaxPosAssumption DEF PosInv, TypeOK, Record, Position, ReqRec
      <4> QED BY <1>t, <2>3, <3>1, <4>2, StoreFacts DEF SealInv
    <3>2. CASE ServeRead(s) \/ ServeTrim(s)
      BY <3>2 DEF ServeRead, ServeTrim, SealInv
    <3>3. CASE ServeSeal(s)
      <4>1. seqSealed
        BY <3>3, MailReceived DEF ServeSeal, SealInv
      <4> QED BY <3>3, <4>1 DEF ServeSeal, SealInv
    <3> QED BY <1>7, <3>1, <3>2, <3>3
  <2>5. \A d \in Client, t \in Server :
          /\ reply'[d][t].tag = "sealed" => seqSealed
          /\ reply'[d][t].pos <= nextPos
    <3>1. ASSUME NEW rep \in Reply, NEW type, Receive(s, type), Answer(s, rep),
                 rep.tag = "sealed" => sealed[s], rep.pos <= nextPos
          PROVE  \A d \in Client, t \in Server :
                   /\ reply'[d][t].tag = "sealed" => seqSealed
                   /\ reply'[d][t].pos <= nextPos
      <4> SUFFICES ASSUME NEW d \in Client, NEW t \in Server
                   PROVE  /\ reply'[d][t].tag = "sealed" => seqSealed
                          /\ reply'[d][t].pos <= nextPos
        OBVIOUS
      <4>1. reply'[d][t] = IF d = Mail(s, 1).to /\ t = s THEN rep ELSE reply[d][t]
        BY <3>1, AnswerType
      <4> QED BY <3>1, <4>1 DEF SealInv
    <3>2. CASE ServeStore(s)
      <4>1. \A q \in {Rep("occupied", 0, NoEntry), Rep("stored", 0, NoEntry)} :
              q \in Reply /\ q.tag # "sealed" /\ q.pos = 0
        BY DEF Rep, Reply
      <4>2. LET q == Rep("sealed", tail[s], NoEntry) IN q \in Reply /\ q.pos = tail[s]
        BY <2>3 DEF Rep, Reply
      <4>3. Receive(s, "store")
            /\ \/ Answer(s, Rep("sealed", tail[s], NoEntry)) /\ sealed[s]
               \/ Answer(s, Rep("occupied", 0, NoEntry))
               \/ Answer(s, Rep("stored", 0, NoEntry))
        BY <3>2 DEF ServeStore
      <4> QED BY <1>t, <2>3, <3>1, <4>1, <4>2, <4>3
    <3>3. CASE ServeRead(s)
      <4>1. \A p : ReadAnswer(s, p) \in Reply /\ ReadAnswer(s, p).tag # "sealed"
                   /\ ReadAnswer(s, p).pos = 0
        BY DEF ReadAnswer, Rep, Reply, TypeOK, Record
      <4> QED BY <1>t, <3>1, <3>3, <4>1 DEF ServeRead
    <3>4. CASE ServeSeal(s)
      <4>1. LET q == Rep("done", tail[s], NoEntry)
            IN  q \in Reply /\ q.tag # "sealed" /\ q.pos = tail[s]
        BY <2>3 DEF Rep, Reply
      <4> QED BY <2>3, <3>1, <3>4, <4>1 DEF ServeSeal
    <3>5. CASE ServeTrim(s)
      <4>1. LET q == Rep("done", 0, NoEntry)
            IN  q \in Reply /\ q.tag # "sealed" /\ q.pos = 0
        BY DEF Rep, Reply
      <4> QED BY <1>t, <3>1, <3>5, <4>1 DEF ServeTrim
    <3> QED BY <1>7, <3>2, <3>3, <3>4, <3>5
  <2> QED BY <2>1, <2>2, <2>4, <2>5 DEF SealInv
<1>8. ASSUME NEW s \in Server, Crash(s) PROVE SealInv'
  <2>1. OldMail /\ UNCHANGED <<seqVars, sealed, tail, sealedFlag, op, reply, seqTail,
                               finalTail>>
    BY <1>8, CrashMail DEF Crash
  <2>2. \A t \in Server : \A i \in 1..Len(queue'[t]) :
          Mail(t, i)'.req.type = "seal" => seqSealed
    BY <2>1 DEF OldMail, SealInv
  <2> QED BY <2>1, <2>2 DEF SealInv
<1> QED BY <1>1, <1>2, <1>3, <1>4, <1>5, <1>6, <1>7, <1>8, StepKinds

-------------------------------------------------------------------------------
(* DeliveryInv is preserved *)

(* Its four parts. *)
EndedEmpty == \A s \in Server : ~alive[s] => queue[s] = <<>>

MailCurrent ==
  \A c \in Client, s \in Server : \A i \in 1..Len(queue[s]) :
    Mail(s, i).to = c => /\ Mail(s, i).req = op[c]
                         /\ Asked(c, s)
                         /\ reply[c][s].tag = "none"

MailUnique ==
  \A c \in Client, s \in Server : \A i, j \in 1..Len(queue[s]) :
    Mail(s, i).to = c /\ Mail(s, j).to = c => i = j

RepliesFit ==
  \A c \in Client, s \in Server :
    /\ reply[c][s].tag # "none" =>
         Asked(c, s) /\ reply[c][s].tag \in AnswersTo(op[c].type)
    /\ pc[c] \in {"read_send", "read_wait"} /\ s < idx[c] =>
         reply[c][s].tag # "none"

LEMMA DeliveryParts ==
  /\ DeliveryInv = (EndedEmpty /\ MailCurrent /\ MailUnique /\ RepliesFit)
  /\ DeliveryInv' = (EndedEmpty /\ MailCurrent /\ MailUnique /\ RepliesFit)'
BY DEF DeliveryInv, EndedEmpty, MailCurrent, MailUnique, RepliesFit

(* An idle client has no mail and no replies. *)
LEMMA IdleClient ==
  ASSUME Inv, NEW c \in Client, pc[c] \in {"idle", "next_pos"}
  PROVE  /\ \A s \in Server : \A i \in 1..Len(queue[s]) : Mail(s, i).to # c
         /\ \A s \in Server : reply[c][s].tag = "none"
<1>1. \A s \in Server : ~Asked(c, s)
  BY DEF Asked
<1> QED BY <1>1, SentinelAssumption DEF Inv, DeliveryInv

(* A server's answer goes to the call that asked, which waits for it. *)
LEMMA ServeDelivery ==
  ASSUME Inv, NEW s \in Server, NEW type \in {"store", "read", "seal", "trim"},
         Receive(s, type), NEW rep \in Reply, Answer(s, rep),
         rep.tag \in AnswersTo(type)
  PROVE  DeliveryInv'
<1> USE DEF Inv
<1> DEFINE c == Mail(s, 1).to
<1>1. /\ 1 \in 1..Len(queue[s]) /\ Mail(s, 1).req.type = type /\ alive[s]
      /\ \A t \in Server : \A i \in 1..Len(queue'[t]) :
           IF t = s THEN i + 1 \in 1..Len(queue[t]) /\ Mail(t, i)' = Mail(t, i + 1)
                    ELSE i \in 1..Len(queue[t]) /\ Mail(t, i)' = Mail(t, i)
      /\ \A t \in Server : t # s => queue'[t] = queue[t]
      /\ queue' \in [Server -> Seq(Message)]
  BY MailReceived
<1>2. UNCHANGED <<alive, pc, op, idx>>
  BY DEF Receive
<1>3. \A d \in Client, t \in Server :
        reply'[d][t] = IF d = c /\ t = s THEN rep ELSE reply[d][t]
  BY AnswerType
<1>4. rep.tag # "none"
  BY DEF AnswersTo
<1>5. EndedEmpty /\ MailCurrent /\ MailUnique /\ RepliesFit
  BY DeliveryParts
<1>6. EndedEmpty'
  BY <1>1, <1>2, <1>5 DEF EndedEmpty
<1>7. \A d, t : Asked(d, t)' = Asked(d, t)
  BY <1>2 DEF Asked
<1>8. ASSUME NEW t \in Server, NEW i \in 1..Len(queue'[t])
      PROVE  \E j \in 1..Len(queue[t]) :
               /\ Mail(t, i)' = Mail(t, j)
               /\ IF t = s THEN j = i + 1 ELSE j = i
               /\ t = s => j # 1
  <2>1. i \in Nat /\ i >= 1
    <3>1. queue'[t] \in Seq(Message)
      BY <1>1
    <3>2. Len(queue'[t]) \in Nat
      BY <3>1, LenProperties
    <3> QED BY <1>8, <3>2
  <2> QED BY <1>1, <1>8, <2>1
<1>9. MailUnique'
  <2> SUFFICES ASSUME NEW d \in Client, NEW t \in Server, NEW i \in 1..Len(queue'[t]),
                      NEW k \in 1..Len(queue'[t]),
                      Mail(t, i)'.to = d, Mail(t, k)'.to = d
               PROVE  i = k
    BY DEF MailUnique
  <2>1. PICK j \in 1..Len(queue[t]) : Mail(t, i)' = Mail(t, j)
                                      /\ IF t = s THEN j = i + 1 ELSE j = i
    BY <1>8
  <2>2. PICK l \in 1..Len(queue[t]) : Mail(t, k)' = Mail(t, l)
                                      /\ IF t = s THEN l = k + 1 ELSE l = k
    BY <1>8
  <2>3. j = l
    BY <1>5, <2>1, <2>2 DEF MailUnique
  <2> QED BY <2>1, <2>2, <2>3
<1>10. MailCurrent'
  <2> SUFFICES ASSUME NEW d \in Client, NEW t \in Server, NEW i \in 1..Len(queue'[t]),
                      Mail(t, i)'.to = d
               PROVE  /\ Mail(t, i)'.req = op[d]
                      /\ Asked(d, t)
                      /\ reply'[d][t].tag = "none"
    BY <1>2, <1>7 DEF MailCurrent
  <2>1. PICK j \in 1..Len(queue[t]) : Mail(t, i)' = Mail(t, j) /\ (t = s => j # 1)
    BY <1>8
  <2>2. ~(d = c /\ t = s)
    BY <1>1, <1>5, <2>1 DEF MailUnique
  <2>3. reply'[d][t] = reply[d][t]
    BY <1>3, <2>2
  <2> QED BY <1>5, <2>1, <2>3 DEF MailCurrent
<1>11. RepliesFit'
  <2> SUFFICES ASSUME NEW d \in Client, NEW t \in Server
               PROVE  /\ reply'[d][t].tag # "none" =>
                           Asked(d, t) /\ reply'[d][t].tag \in AnswersTo(op[d].type)
                      /\ pc[d] \in {"read_send", "read_wait"} /\ t < idx[d] =>
                           reply'[d][t].tag # "none"
    BY <1>2, <1>7 DEF RepliesFit
  <2>1. CASE d = c /\ t = s
    <3>1. Asked(d, t) /\ op[d].type = type
      BY <1>1, <1>5, <2>1 DEF MailCurrent
    <3> QED BY <1>3, <1>4, <2>1, <3>1
  <2>2. CASE ~(d = c /\ t = s)
    <3>1. reply'[d][t] = reply[d][t]
      BY <1>3, <2>2
    <3> QED BY <1>5, <3>1 DEF RepliesFit
  <2> QED BY <2>1, <2>2
<1> QED BY <1>6, <1>9, <1>10, <1>11, DeliveryParts

LEMMA DeliveryStep ==
  ASSUME Inv, Next
  PROVE  DeliveryInv'
<1> USE DEF Inv, seqVars, serverVars, localVars, historyVars
<1>t. EndedEmpty /\ MailCurrent /\ MailUnique /\ RepliesFit
  BY DeliveryParts
<1>1. ASSUME NEW c \in Client, Glances(c) PROVE DeliveryInv'
  BY <1>1 DEF Glances, AppendFastPath, CheckTail, DeliveryInv, Mail, Asked
<1>2. ASSUME NEW c \in Client,
             pc[c] \in {"idle", "next_pos"}, idx[c] = 1,
             pc'[c] \in {"next_pos", "fan_out", "read_send"},
             \A d \in Client : d # c => pc'[d] = pc[d] /\ op'[d] = op[d],
             UNCHANGED <<alive, queue, idx, reply>>
      PROVE  DeliveryInv'
  <2>1. /\ \A s \in Server : \A i \in 1..Len(queue[s]) : Mail(s, i).to # c
        /\ \A s \in Server : reply[c][s].tag = "none"
    BY <1>2, IdleClient
  <2>2. \A t, i : Mail(t, i)' = Mail(t, i)
    BY <1>2 DEF Mail
  <2>3. \A d \in Client, t \in Server : d # c => Asked(d, t)' = Asked(d, t)
    BY <1>2 DEF Asked
  <2>4. EndedEmpty' /\ MailUnique'
    BY <1>t, <1>2, <2>2 DEF EndedEmpty, MailUnique
  <2>5. MailCurrent'
    <3> SUFFICES ASSUME NEW d \in Client, NEW s \in Server,
                        NEW i \in 1..Len(queue[s]), Mail(s, i).to = d
                 PROVE  /\ Mail(s, i).req = op'[d]
                        /\ Asked(d, s)'
                        /\ reply[d][s].tag = "none"
      BY <1>2, <2>2 DEF MailCurrent
    <3>1. d # c
      BY <2>1
    <3> QED BY <1>t, <1>2, <2>3, <3>1 DEF MailCurrent
  <2>6. RepliesFit'
    <3> SUFFICES ASSUME NEW d \in Client, NEW s \in Server
                 PROVE  /\ reply[d][s].tag # "none" =>
                             Asked(d, s)' /\ reply[d][s].tag \in AnswersTo(op'[d].type)
                        /\ pc'[d] \in {"read_send", "read_wait"} /\ s < idx[d] =>
                             reply[d][s].tag # "none"
      BY <1>2 DEF RepliesFit
    <3>1. CASE d = c
      BY <1>2, <2>1, <3>1, NumServersAssumption DEF Server
    <3>2. CASE d # c
      BY <1>t, <1>2, <2>3, <3>2 DEF RepliesFit
    <3> QED BY <3>1, <3>2
  <2> QED BY <2>4, <2>5, <2>6, DeliveryParts
<1>3. ASSUME NEW c \in Client, Begins(c) PROVE DeliveryInv'
  BY <1>2, <1>3, BeginsFacts DEF PcInv
<1>4. ASSUME NEW c \in Client, NextPos(c) PROVE DeliveryInv'
  BY <1>2, <1>4 DEF NextPos, PcInv, TypeOK
<1>5. ASSUME NEW c \in Client, Sends(c) PROVE DeliveryInv'
  <2>0. PICK s \in Server : s = idx[c]
    BY <1>5, SendsFacts
  <2>1. /\ SendTo(c, s)
        /\ \A d \in Client : d # c => pc'[d] = pc[d] /\ idx'[d] = idx[d]
        /\ \/ pc[c] = "fan_out" /\ pc'[c] = "await" /\ idx'[c] = s
           \/ pc[c] = "fan_out" /\ pc'[c] = "fan_out" /\ idx'[c] = s + 1
           \/ pc[c] = "read_send" /\ pc'[c] = "read_wait" /\ idx'[c] = s
        /\ UNCHANGED <<alive, op, reply>>
    BY <1>5, <2>0, SendsFacts
  <2>2. /\ \A t \in Server : \A i \in 1..Len(queue'[t]) :
             \/ i \in 1..Len(queue[t]) /\ Mail(t, i)' = Mail(t, i)
             \/ /\ t = s /\ i = Len(queue[s]) + 1
                /\ Mail(t, i)' = [to |-> c, req |-> op[c]]
        /\ alive[s]
        /\ \A t \in Server : t # s => queue'[t] = queue[t]
    BY <2>1, MailSent
  <2>3. \A t \in Server : t \in Int /\ s \in Int
    BY NumServersAssumption DEF Server
  <2>4. ~Asked(c, s) /\ Asked(c, s)'
    BY <2>0, <2>1, <2>3 DEF Asked
  <2>5. \A d \in Client, t \in Server : Asked(d, t) => Asked(d, t)'
    <3> SUFFICES ASSUME NEW d \in Client, NEW t \in Server, Asked(d, t)
                 PROVE  Asked(d, t)'
      OBVIOUS
    <3>1. CASE d = c
      <4>1. t < s
        BY <2>0, <2>1, <3>1 DEF Asked
      <4> QED BY <2>1, <2>3, <3>1, <4>1 DEF Asked
    <3>2. CASE d # c
      BY <2>1, <3>2 DEF Asked
    <3> QED BY <3>1, <3>2
  <2>6. /\ \A i \in 1..Len(queue[s]) : Mail(s, i).to # c
        /\ reply[c][s].tag = "none"
    BY <1>t, <2>1, <2>4, SentinelAssumption DEF MailCurrent, RepliesFit
  <2>7. EndedEmpty'
    BY <1>t, <2>1, <2>2 DEF EndedEmpty
  <2>8. MailUnique'
    <3> SUFFICES ASSUME NEW d \in Client, NEW t \in Server,
                        NEW i \in 1..Len(queue'[t]), NEW k \in 1..Len(queue'[t]),
                        Mail(t, i)'.to = d, Mail(t, k)'.to = d
                 PROVE  i = k
      BY DEF MailUnique
    <3> QED BY <1>t, <2>2, <2>6 DEF MailUnique
  <2>9. MailCurrent'
    <3> SUFFICES ASSUME NEW d \in Client, NEW t \in Server,
                        NEW i \in 1..Len(queue'[t]), Mail(t, i)'.to = d
                 PROVE  /\ Mail(t, i)'.req = op[d]
                        /\ Asked(d, t)'
                        /\ reply[d][t].tag = "none"
      BY <2>1 DEF MailCurrent
    <3>1. CASE i \in 1..Len(queue[t]) /\ Mail(t, i)' = Mail(t, i)
      BY <1>t, <2>5, <3>1 DEF MailCurrent
    <3>2. CASE t = s /\ Mail(t, i)' = [to |-> c, req |-> op[c]]
      <4>1. d = c /\ t = s /\ Mail(t, i)'.req = op[c]
        BY <3>2
      <4> QED BY <2>4, <2>6, <4>1 DEF Asked
    <3> QED BY <2>2, <3>1, <3>2
  <2>10. RepliesFit'
    <3> SUFFICES ASSUME NEW d \in Client, NEW t \in Server
                 PROVE  /\ reply[d][t].tag # "none" =>
                             Asked(d, t)' /\ reply[d][t].tag \in AnswersTo(op[d].type)
                        /\ pc'[d] \in {"read_send", "read_wait"} /\ t < idx'[d] =>
                             reply[d][t].tag # "none"
      BY <2>1 DEF RepliesFit
    <3>1. reply[d][t].tag # "none" =>
            Asked(d, t)' /\ reply[d][t].tag \in AnswersTo(op[d].type)
      BY <1>t, <2>5 DEF RepliesFit
    <3>2. pc'[d] \in {"read_send", "read_wait"} /\ t < idx'[d] =>
            pc[d] \in {"read_send", "read_wait"} /\ t < idx[d]
      BY <2>0, <2>1
    <3> QED BY <1>t, <3>1, <3>2 DEF RepliesFit
  <2> QED BY <2>7, <2>8, <2>9, <2>10, DeliveryParts
<1>6. ASSUME NEW c \in Client, ReadContinue(c) PROVE DeliveryInv'
  <2>1. /\ pc[c] = "read_wait" /\ reply[c][idx[c]].tag # "none"
        /\ pc'[c] = "read_send" /\ idx'[c] = idx[c] + 1
        /\ \A d \in Client : d # c => pc'[d] = pc[d] /\ idx'[d] = idx[d]
        /\ UNCHANGED <<alive, queue, op, reply>>
    BY <1>6 DEF ReadContinue, TypeOK
  <2>2. idx[c] \in Int /\ \A t \in Server : t \in Int
    BY NumServersAssumption DEF TypeOK, Server
  <2>3. \A d \in Client, t \in Server : Asked(d, t)' = Asked(d, t)
    BY <2>1, <2>2 DEF Asked
  <2>4. \A t, i : Mail(t, i)' = Mail(t, i)
    BY <2>1 DEF Mail
  <2>5. EndedEmpty' /\ MailUnique'
    BY <1>t, <2>1, <2>4 DEF EndedEmpty, MailUnique
  <2>6. MailCurrent'
    <3> SUFFICES ASSUME NEW d \in Client, NEW t \in Server,
                        NEW i \in 1..Len(queue[t]), Mail(t, i).to = d
                 PROVE  /\ Mail(t, i).req = op[d]
                        /\ Asked(d, t)'
                        /\ reply[d][t].tag = "none"
      BY <2>1, <2>4 DEF MailCurrent
    <3> QED BY <1>t, <2>3 DEF MailCurrent
  <2>7. RepliesFit'
    <3> SUFFICES ASSUME NEW d \in Client, NEW t \in Server
                 PROVE  /\ reply[d][t].tag # "none" =>
                             Asked(d, t)' /\ reply[d][t].tag \in AnswersTo(op[d].type)
                        /\ pc'[d] \in {"read_send", "read_wait"} /\ t < idx'[d] =>
                             reply[d][t].tag # "none"
      BY <2>1 DEF RepliesFit
    <3>1. reply[d][t].tag # "none" =>
            Asked(d, t)' /\ reply[d][t].tag \in AnswersTo(op[d].type)
      BY <1>t, <2>3 DEF RepliesFit
    <3>2. pc'[d] \in {"read_send", "read_wait"} /\ t < idx'[d] =>
            \/ pc[d] \in {"read_send", "read_wait"} /\ t < idx[d]
            \/ d = c /\ t = idx[c]
      BY <2>1, <2>2
    <3> QED BY <1>t, <2>1, <3>1, <3>2 DEF RepliesFit
  <2> QED BY <2>5, <2>6, <2>7, DeliveryParts
<1>7. ASSUME NEW c \in Client, Ends(c) PROVE DeliveryInv'
  <2>1. /\ pc'[c] = "idle" /\ \A s \in Server : reply'[c][s] = NoReply
        /\ \A d \in Client : d # c =>
             /\ pc'[d] = pc[d] /\ op'[d] = op[d] /\ idx'[d] = idx[d]
             /\ reply'[d] = reply[d]
        /\ UNCHANGED alive
    BY <1>7, EndsFacts
  <2>2. /\ \A t \in Server : \A i \in 1..Len(queue'[t]) :
             /\ i \in 1..Len(queue[t])
             /\ Mail(t, i)'.req = Mail(t, i).req
             /\ Mail(t, i)'.to # c
             /\ Mail(t, i)'.to # NoOne => Mail(t, i)'.to = Mail(t, i).to
        /\ \A t \in Server : queue[t] = <<>> => queue'[t] = <<>>
    BY <1>7, EndsMail
  <2>3. \A d \in Client, t \in Server : d # c => Asked(d, t)' = Asked(d, t)
    BY <2>1 DEF Asked
  <2>4. EndedEmpty'
    BY <1>t, <2>1, <2>2 DEF EndedEmpty
  <2>5. MailUnique'
    BY <1>t, <2>2, SentinelAssumption DEF MailUnique
  <2>6. MailCurrent'
    <3> SUFFICES ASSUME NEW d \in Client, NEW t \in Server,
                        NEW i \in 1..Len(queue'[t]), Mail(t, i)'.to = d
                 PROVE  /\ Mail(t, i)'.req = op'[d]
                        /\ Asked(d, t)'
                        /\ reply'[d][t].tag = "none"
      BY DEF MailCurrent
    <3>1. /\ i \in 1..Len(queue[t]) /\ Mail(t, i).to = d /\ d # c
          /\ Mail(t, i)'.req = Mail(t, i).req
      BY <2>2, SentinelAssumption
    <3> QED BY <1>t, <2>1, <2>3, <3>1 DEF MailCurrent
  <2>7. RepliesFit'
    <3> SUFFICES ASSUME NEW d \in Client, NEW t \in Server
                 PROVE  /\ reply'[d][t].tag # "none" =>
                             Asked(d, t)' /\ reply'[d][t].tag \in AnswersTo(op'[d].type)
                        /\ pc'[d] \in {"read_send", "read_wait"} /\ t < idx'[d] =>
                             reply'[d][t].tag # "none"
      BY DEF RepliesFit
    <3>1. CASE d = c
      <4>1. reply'[d][t].tag = "none"
        BY <2>1, <3>1 DEF NoReply, Rep
      <4> QED BY <2>1, <3>1, <4>1
    <3>2. CASE d # c
      BY <1>t, <2>1, <2>3, <3>2 DEF RepliesFit
    <3> QED BY <3>1, <3>2
  <2> QED BY <2>4, <2>5, <2>6, <2>7, DeliveryParts
<1>8. ASSUME NEW s \in Server, ServeStore(s) PROVE DeliveryInv'
  <2>1. tail[s] \in Nat
    BY MaxPosAssumption DEF TypeOK, TailPos
  <2>2. \A q \in {Rep("sealed", tail[s], NoEntry), Rep("occupied", 0, NoEntry),
                  Rep("stored", 0, NoEntry)} : q \in Reply /\ q.tag \in AnswersTo("store")
    BY <2>1 DEF Rep, Reply, AnswersTo
  <2>3. Receive(s, "store")
        /\ \E q \in Reply : q.tag \in AnswersTo("store") /\ Answer(s, q)
    BY <1>8, <2>2 DEF ServeStore
  <2> QED BY <2>3, ServeDelivery
<1>9. ASSUME NEW s \in Server, ServeRead(s) PROVE DeliveryInv'
  <2>1. \A p : ReadAnswer(s, p) \in Reply
               /\ ReadAnswer(s, p).tag \in {"entry", "trimmed", "not_found"}
    BY DEF ReadAnswer, Rep, Reply, TypeOK, Record
  <2>2. AnswersTo("read") = {"entry", "trimmed", "not_found"}
    BY DEF AnswersTo
  <2> QED BY <1>9, <2>1, <2>2, ServeDelivery DEF ServeRead
<1>10. ASSUME NEW s \in Server, ServeSeal(s) PROVE DeliveryInv'
  <2>1. tail[s] \in Nat
    BY MaxPosAssumption DEF TypeOK, TailPos
  <2>2. Rep("done", tail[s], NoEntry) \in Reply
        /\ Rep("done", tail[s], NoEntry).tag \in AnswersTo("seal")
    BY <2>1 DEF Rep, Reply, AnswersTo
  <2> QED BY <1>10, <2>2, ServeDelivery DEF ServeSeal
<1>11. ASSUME NEW s \in Server, ServeTrim(s) PROVE DeliveryInv'
  <2>1. Rep("done", 0, NoEntry) \in Reply
        /\ Rep("done", 0, NoEntry).tag \in AnswersTo("trim")
    BY DEF Rep, Reply, AnswersTo
  <2> QED BY <1>11, <2>1, ServeDelivery DEF ServeTrim
<1>12. ASSUME NEW s \in Server, Crash(s) PROVE DeliveryInv'
  <2>1. /\ \A t \in Server : \A i \in 1..Len(queue'[t]) :
             i \in 1..Len(queue[t]) /\ Mail(t, i)' = Mail(t, i) /\ t # s
        /\ queue'[s] = <<>>
        /\ \A t \in Server : t # s => queue'[t] = queue[t]
    BY <1>12, CrashMail
  <2>2. /\ \A t \in Server : t # s => alive'[t] = alive[t]
        /\ UNCHANGED <<pc, op, idx, reply>>
    BY <1>12 DEF Crash, TypeOK
  <2>3. EndedEmpty'
    BY <1>t, <2>1, <2>2 DEF EndedEmpty
  <2>4. MailUnique'
    BY <1>t, <2>1 DEF MailUnique
  <2>5. \A d, t : Asked(d, t)' = Asked(d, t)
    BY <2>2 DEF Asked
  <2>6. MailCurrent'
    BY <1>t, <2>1, <2>2, <2>5 DEF MailCurrent
  <2>7. RepliesFit'
    BY <1>t, <2>2, <2>5 DEF RepliesFit
  <2> QED BY <2>3, <2>4, <2>6, <2>7, DeliveryParts
<1> QED BY <1>1, <1>3, <1>4, <1>5, <1>6, <1>7, <1>8, <1>9, <1>10, <1>11, <1>12, StepKinds

-------------------------------------------------------------------------------
(* HoldInv is preserved *)

(* A server never loses a record other than by trimming past it. *)
LEMMA HoldsStable ==
  ASSUME Inv, Next, NEW s \in Server, NEW r \in Record, Holds(s, r)
  PROVE  Holds(s, r)'
<1> USE DEF Inv, serverVars
<1>0. r.pos \in Nat /\ trimPos[s] \in Nat
  BY MaxPosAssumption DEF Record, Position, TypeOK
<1>1. CASE entries'[s] = entries[s] /\ trimPos'[s] = trimPos[s]
  BY <1>1 DEF Holds
<1>2. ASSUME NEW c \in Client,
             Glances(c) \/ Begins(c) \/ NextPos(c) \/ Sends(c) \/ ReadContinue(c)
             \/ Ends(c)
      PROVE  UNCHANGED serverVars
  <2>1. CASE Glances(c) \/ NextPos(c) \/ ReadContinue(c)
    BY <2>1 DEF Glances, AppendFastPath, CheckTail, NextPos, ReadContinue
  <2>2. CASE Begins(c)
    BY <2>2, BeginsFacts
  <2>3. CASE Sends(c)
    BY <2>3, SendsFacts
  <2>4. CASE Ends(c)
    BY <2>4, EndsFacts
  <2> QED BY <1>2, <2>1, <2>2, <2>3, <2>4
<1>3. ASSUME NEW t \in Server, ServeStore(t) PROVE Holds(s, r)'
  BY <1>3, StoreFacts DEF Holds
<1>4. ASSUME NEW t \in Server, ServeTrim(t) PROVE Holds(s, r)'
  <2>1. CASE t = s
    <3>1. trimPos'[s] >= trimPos[s] /\ trimPos'[s] \in Nat
      BY <1>4, <2>1, TrimFacts, TypeStep DEF TypeOK
    <3>2. \A q \in entries[s] : q \in entries'[s] \/ q.pos < trimPos'[s]
      BY <1>4, <2>1, TrimFacts
    <3> QED BY <1>0, <3>1, <3>2 DEF Holds
  <2>2. CASE t # s
    BY <1>4, <2>2, TrimFacts DEF Holds
  <2> QED BY <2>1, <2>2
<1>5. ASSUME NEW t \in Server, ServeRead(t) \/ ServeSeal(t) \/ Crash(t)
      PROVE  UNCHANGED <<entries, trimPos>>
  BY <1>5 DEF ServeRead, ServeSeal, Crash
<1> QED BY <1>1, <1>2, <1>3, <1>4, <1>5, StepKinds

(* An answer to a store that counts as an acknowledgement. *)
IsAck(rep) == rep.tag \in {"stored", "occupied"}

(* The acknowledgements a call has collected are from servers that hold its *)
(* record.                                                                  *)
AcksHold == \A c \in Client, s \in Server : IsAck(reply[c][s]) => Holds(s, OpRec(c))

LEMMA AcksHoldIsHoldInv == AcksHold = (\A c \in Client : \A s \in Acks(c) : Holds(s, OpRec(c)))
BY DEF AcksHold, Acks, IsAck

LEMMA AckedRecord ==
  ASSUME Inv, NEW c \in Client, NEW s \in Server, IsAck(reply[c][s])
  PROVE  Storing(c) /\ OpRec(c) \in Record
<1>1. reply[c][s].tag \in AnswersTo(op[c].type) /\ Asked(c, s)
  BY DEF IsAck, Inv, DeliveryInv
<1>2. op[c].type = "store"
  BY <1>1 DEF IsAck, AnswersTo
<1>3. pc[c] \in {"fan_out", "await"}
  BY <1>1, <1>2 DEF Asked, Inv, PcInv
<1>4. Storing(c)
  BY <1>2, <1>3 DEF Storing
<1> QED BY <1>4 DEF Inv, PosInv, TypeOK

(* The replies and the request of a client that did not change keep the fact. *)
LEMMA AcksKept ==
  ASSUME Inv, Next, NEW c \in Client, NEW s \in Server,
         reply'[c][s] = reply[c][s], op'[c] = op[c], IsAck(reply'[c][s])
  PROVE  Holds(s, OpRec(c))'
<1>1. IsAck(reply[c][s])
  OBVIOUS
<1>2. Holds(s, OpRec(c)) /\ OpRec(c) \in Record
  BY <1>1, AckedRecord, AcksHoldIsHoldInv DEF Inv, HoldInv, AcksHold
<1>3. PICK r \in Record : r = OpRec(c)
  BY <1>2
<1>4. Holds(s, r)'
  BY <1>2, <1>3, HoldsStable
<1>5. OpRec(c)' = r
  BY <1>3 DEF OpRec
<1> QED BY <1>4, <1>5 DEF Holds

(* A request other than a store is never answered with an acknowledgement. *)
LEMMA AcksServed ==
  ASSUME Inv, Next, NEW s \in Server, NEW type, Receive(s, type),
         NEW rep \in Reply, Answer(s, rep),
         IsAck(rep) => type = "store" /\ ReqRec(Mail(s, 1).req) \in entries'[s]
  PROVE  AcksHold'
<1> SUFFICES ASSUME NEW c \in Client, NEW t \in Server, IsAck(reply'[c][t])
             PROVE  Holds(t, OpRec(c))'
  BY DEF AcksHold, IsAck
<1> USE DEF Inv
<1>1. reply'[c][t] = IF c = Mail(s, 1).to /\ t = s THEN rep ELSE reply[c][t]
  BY AnswerType
<1>2. op' = op
  BY DEF Receive
<1>3. CASE c = Mail(s, 1).to /\ t = s
  <2>1. ReqRec(Mail(s, 1).req) \in entries'[s]
    BY <1>1, <1>3
  <2>2. 1 \in 1..Len(queue[s])
    BY MailReceived
  <2>3. Mail(s, 1).req = op[c]
    BY <1>3, <2>2 DEF DeliveryInv
  <2> QED BY <1>2, <1>3, <2>1, <2>3 DEF Holds, OpRec, ReqRec
<1>4. CASE ~(c = Mail(s, 1).to /\ t = s)
  BY <1>1, <1>2, <1>4, AcksKept
<1> QED BY <1>3, <1>4

LEMMA AcksHoldStep ==
  ASSUME Inv, Next
  PROVE  AcksHold'
<1> USE DEF Inv, seqVars, serverVars, localVars, historyVars
<1>1. ASSUME NEW c \in Client,
             \A d \in Client : d # c => reply'[d] = reply[d] /\ op'[d] = op[d],
             \A s \in Server : reply'[c][s].tag = "none"
                               \/ (reply'[c][s] = reply[c][s] /\ op'[c] = op[c])
      PROVE  AcksHold'
  <2> SUFFICES ASSUME NEW d \in Client, NEW s \in Server, IsAck(reply'[d][s])
               PROVE  Holds(s, OpRec(d))'
    BY DEF AcksHold, IsAck
  <2>1. reply'[d][s].tag # "none"
    BY DEF IsAck
  <2>2. reply'[d][s] = reply[d][s] /\ op'[d] = op[d]
    BY <1>1, <2>1
  <2> QED BY <2>2, AcksKept
<1>2. ASSUME NEW c \in Client, Glances(c) \/ ReadContinue(c) PROVE AcksHold'
  BY <1>1, <1>2 DEF Glances, AppendFastPath, CheckTail, ReadContinue
<1>3. ASSUME NEW c \in Client, Begins(c) PROVE AcksHold'
  <2>1. \A s \in Server : reply[c][s].tag = "none"
    BY <1>3, BeginsFacts, IdleClient
  <2>2. reply' = reply /\ \A d \in Client : d # c => op'[d] = op[d]
    BY <1>3, BeginsFacts
  <2> QED BY <1>1, <2>1, <2>2
<1>4. ASSUME NEW c \in Client, NextPos(c) PROVE AcksHold'
  <2>1. pc[c] = "next_pos" /\ reply' = reply
        /\ \A d \in Client : d # c => op'[d] = op[d]
    BY <1>4 DEF NextPos, TypeOK
  <2>2. \A s \in Server : reply[c][s].tag = "none"
    BY <2>1, IdleClient
  <2> QED BY <1>1, <2>1, <2>2
<1>5. ASSUME NEW c \in Client, Sends(c) PROVE AcksHold'
  BY <1>1, <1>5, SendsFacts
<1>6. ASSUME NEW c \in Client, Ends(c) PROVE AcksHold'
  <2>1. NoReply.tag = "none"
    BY DEF NoReply, Rep
  <2> QED BY <1>1, <1>6, <2>1, EndsFacts
<1>7. ASSUME NEW s \in Server, ServeStore(s) PROVE AcksHold'
  <2>1. /\ Receive(s, "store") /\ Head(queue[s]) = Mail(s, 1)
        /\ 1 \in 1..Len(queue[s]) /\ Mail(s, 1).req.type = "store"
    BY <1>7, StoreFacts DEF ServeStore
  <2> DEFINE m == ReqRec(Mail(s, 1).req)
             occupied == \E r \in entries[s] : r.pos = Mail(s, 1).req.pos
  <2>2. m \in assigned /\ m.pos = Mail(s, 1).req.pos
    BY <2>1 DEF PosInv, ReqRec
  <2>3. tail[s] \in Nat
    BY MaxPosAssumption DEF TypeOK, TailPos
  <2>4. CASE sealed[s]
    <3>1. Answer(s, Rep("sealed", tail[s], NoEntry))
      BY <1>7, <2>4 DEF ServeStore
    <3>2. Rep("sealed", tail[s], NoEntry) \in Reply
          /\ ~IsAck(Rep("sealed", tail[s], NoEntry))
      BY <2>3 DEF Rep, Reply, IsAck
    <3> QED BY <2>1, <3>1, <3>2, AcksServed
  <2>5. CASE ~sealed[s] /\ occupied
    <3>1. Answer(s, Rep("occupied", 0, NoEntry)) /\ entries' = entries
      BY <1>7, <2>1, <2>5 DEF ServeStore
    <3>2. m \in entries[s]
      BY <2>2, <2>5 DEF PosInv
    <3>3. Rep("occupied", 0, NoEntry) \in Reply
      BY DEF Rep, Reply
    <3> QED BY <2>1, <3>1, <3>2, <3>3, AcksServed
  <2>6. CASE ~sealed[s] /\ ~occupied
    <3>1. /\ Answer(s, Rep("stored", 0, NoEntry))
          /\ entries' = [entries EXCEPT ![s] = entries[s] \cup {m}]
      BY <1>7, <2>1, <2>6 DEF ServeStore, ReqRec
    <3> HIDE DEF m
    <3>2. m \in entries'[s]
      BY <3>1 DEF TypeOK
    <3>3. Rep("stored", 0, NoEntry) \in Reply
      BY DEF Rep, Reply
    <3> QED BY <2>1, <3>1, <3>2, <3>3, AcksServed DEF m
  <2> QED BY <2>4, <2>5, <2>6
<1>8. ASSUME NEW s \in Server, ServeRead(s) PROVE AcksHold'
  <2>1. \A p : ReadAnswer(s, p) \in Reply /\ ~IsAck(ReadAnswer(s, p))
    BY DEF ReadAnswer, Rep, Reply, TypeOK, Record, IsAck
  <2> QED BY <1>8, <2>1, AcksServed DEF ServeRead
<1>9. ASSUME NEW s \in Server, ServeSeal(s) PROVE AcksHold'
  <2>1. tail[s] \in Nat
    BY MaxPosAssumption DEF TypeOK, TailPos
  <2>2. Rep("done", tail[s], NoEntry) \in Reply /\ ~IsAck(Rep("done", tail[s], NoEntry))
    BY <2>1 DEF Rep, Reply, IsAck
  <2> QED BY <1>9, <2>2, AcksServed DEF ServeSeal
<1>10. ASSUME NEW s \in Server, ServeTrim(s) PROVE AcksHold'
  <2>1. Rep("done", 0, NoEntry) \in Reply /\ ~IsAck(Rep("done", 0, NoEntry))
    BY DEF Rep, Reply, IsAck
  <2> QED BY <1>10, <2>1, AcksServed DEF ServeTrim
<1>11. ASSUME NEW s \in Server, Crash(s) PROVE AcksHold'
  <2>1. reply' = reply /\ op' = op
    BY <1>11 DEF Crash
  <2> SUFFICES ASSUME NEW d \in Client, NEW t \in Server, IsAck(reply'[d][t])
               PROVE  Holds(t, OpRec(d))'
    BY DEF AcksHold, IsAck
  <2> QED BY <2>1, AcksKept
<1> QED BY <1>2, <1>3, <1>4, <1>5, <1>6, <1>7, <1>8, <1>9, <1>10, <1>11, StepKinds

(* The more servers hold a record, the larger their number. *)
LEMMA QuorumGrows ==
  ASSUME NEW S \in SUBSET Server, NEW T \in SUBSET Server, S \subseteq T
  PROVE  /\ Cardinality(S) \in Nat /\ Cardinality(T) \in Nat
         /\ Cardinality(S) <= Cardinality(T)
<1>1. IsFiniteSet(Server)
  BY FS_Interval, NumServersAssumption DEF Server
<1>2. IsFiniteSet(T)
  BY <1>1, FS_Subset
<1>3. IsFiniteSet(S) /\ Cardinality(S) <= Cardinality(T)
  BY <1>2, FS_Subset
<1> QED BY <1>2, <1>3, FS_CardinalityType

LEMMA AckedHeldStep ==
  ASSUME Inv, Next
  PROVE  \A r \in acked' : Cardinality({s \in Server : Holds(s, r)'}) >= QuorumSize
<1> USE DEF Inv
<1>0. QuorumSize \in Nat
  BY NumServersAssumption DEF QuorumSize
<1> SUFFICES ASSUME NEW r \in acked'
             PROVE  Cardinality({s \in Server : Holds(s, r)'}) >= QuorumSize
  OBVIOUS
<1> DEFINE T == {s \in Server : Holds(s, r)'}
<1>1. ASSUME NEW S \in SUBSET Server, r \in Record, \A s \in S : Holds(s, r),
             Cardinality(S) >= QuorumSize
      PROVE  Cardinality(T) >= QuorumSize
  <2>1. S \subseteq T /\ T \in SUBSET Server
    BY <1>1, HoldsStable
  <2> HIDE DEF T
  <2>2. Cardinality(S) \in Nat /\ Cardinality(T) \in Nat
        /\ Cardinality(S) <= Cardinality(T)
    BY <2>1, QuorumGrows
  <2> QED BY <1>0, <1>1, <2>2
<1>2. CASE r \in acked
  <2>1. r \in Record /\ Cardinality({s \in Server : Holds(s, r)}) >= QuorumSize
    BY <1>2 DEF HoldInv, TypeOK
  <2> QED BY <1>1, <2>1
<1>3. CASE r \notin acked
  <2>1. PICK c \in Client : AppendQuorum(c)
    <3>1. ASSUME NEW c \in Client, ~AppendQuorum(c), Invoke(c) \/ Proceed(c)
          PROVE  acked' = acked
      BY <3>1 DEF historyVars, Invoke, Proceed, AppendFastPath, BeginAppend, BeginSeal,
           BeginTrim, BeginRead, CheckTail, NextPos, NextPosSealed, FanOut, FanOutFails,
           AppendRefused, AppendNoQuorum, SealQuorum, SealNoQuorum, TrimDone, TrimFails,
           ReadSend, ReadFails, ReadReply, ReadContinue
    <3>2. ASSUME NEW s \in Server, Serve(s) \/ Crash(s) PROVE acked' = acked
      BY <3>2 DEF historyVars, Serve, ServeStore, ServeRead, ServeSeal, ServeTrim,
                  Receive, Crash
    <3> QED BY <1>3, <3>1, <3>2 DEF Next
  <2>2. r = OpRec(c) /\ Storing(c)
    BY <1>3, <2>1 DEF AppendQuorum, AllAnswered, OpRec, Storing
  <2>3. r \in Record
    BY <2>2 DEF PosInv, TypeOK
  <2>4. /\ Acks(c) \in SUBSET Server /\ Cardinality(Acks(c)) >= QuorumSize
        /\ \A s \in Acks(c) : Holds(s, r)
    BY <2>1, <2>2 DEF AppendQuorum, Acks, HoldInv
  <2> QED BY <1>1, <2>3, <2>4
<1> QED BY <1>2, <1>3

LEMMA HoldStep ==
  ASSUME Inv, Next
  PROVE  HoldInv'
BY AcksHoldStep, AckedHeldStep, AcksHoldIsHoldInv DEF HoldInv, AcksHold, Acks, IsAck

-------------------------------------------------------------------------------
(* The invariant, and what follows from it *)

LEMMA InitInv == Init => Inv
<1> SUFFICES ASSUME Init PROVE Inv
  OBVIOUS
<1> USE DEF Init
<1>0. /\ NoReq \in Request /\ NoReply \in Reply /\ 1 \in Server /\ 1 \in TailPos
      /\ Res("none", "pending", 0, NoEntry) \in Result
      /\ <<>> \in Seq(Message) /\ Len(<<>>) = 0
      /\ NoReq.type = "none" /\ NoReply.tag = "none" /\ NoReply.pos = 0
  BY NumServersAssumption, MaxPosAssumption, EmptySeq
     DEF NoReq, NoReply, Req, Rep, Res, Request, Reply, Result, Server, TailPos
<1>1. TypeOK
  BY <1>0 DEF TypeOK
<1>2. PcInv
  BY DEF PcInv
<1>3. DeliveryInv
  BY <1>0 DEF DeliveryInv, Mail, Asked
<1>4. PosInv
  BY <1>0 DEF PosInv, Storing
<1>5. SealInv
  BY <1>0 DEF SealInv
<1>6. HoldInv
  BY <1>0 DEF HoldInv, Acks
<1> QED BY <1>1, <1>2, <1>3, <1>4, <1>5, <1>6 DEF Inv

LEMMA StutterInv == Inv /\ UNCHANGED vars => Inv'
<1> SUFFICES ASSUME Inv, UNCHANGED vars PROVE Inv'
  OBVIOUS
<1> USE DEF Inv, vars, seqVars, serverVars, localVars, historyVars
<1>1. TypeOK'
  BY DEF TypeOK
<1>2. PcInv'
  BY DEF PcInv
<1>3. DeliveryInv'
  BY DEF DeliveryInv, Mail, Asked
<1>4. PosInv'
  BY DEF PosInv, Mail, Storing, OpRec, ReqRec
<1>5. SealInv'
  BY DEF SealInv, Mail
<1>6. HoldInv'
  BY DEF HoldInv, Acks, Holds, OpRec
<1> QED BY <1>1, <1>2, <1>3, <1>4, <1>5, <1>6

(* The conjunction of the parts is an invariant of the loglet: every step   *)
(* of a client, of a log server and of the end of a log server keeps it.    *)
THEOREM Invariance == Spec => []Inv
<1>1. Init => Inv
  BY InitInv
<1>2. Inv /\ [Next]_vars => Inv'
  BY TypeStep, PcStep, DeliveryStep, PosStep, SealStep, HoldStep, StutterInv DEF Inv
<1> QED BY <1>1, <1>2, PTL DEF Spec

(* Every variable keeps its type: positions stay in range, replies fit the  *)
(* call that waits for them (native_loglet.rs:103-131).                     *)
THEOREM TypeCorrect == Spec => []TypeOK
<1>1. Inv => TypeOK
  BY DEF Inv
<1> QED BY <1>1, Invariance, PTL

(* No two log servers ever hold different entries at one position           *)
(* (native_loglet.rs:149-162, 364-374).                                     *)
THEOREM ReplicasAgree == Spec => []ReplicaAgreement
<1>1. Inv => ReplicaAgreement
  BY DEF Inv, PosInv, ReplicaAgreement
<1> QED BY <1>1, Invariance, PTL

(* Every acknowledged append is on a majority of the log servers until it   *)
(* is trimmed there, whatever seals, trims, crashes and other appends do    *)
(* (native_loglet.rs:325-358).                                              *)
THEOREM AckedIsDurable == Spec => []AckedDurable
<1>1. ASSUME Inv PROVE AckedDurable
  <2> SUFFICES ASSUME NEW r \in acked
               PROVE  2 * Cardinality({s \in Server : Holds(s, r)}) > NumServers
    BY DEF AckedDurable
  <2> DEFINE S == {s \in Server : Holds(s, r)}
  <2>1. Cardinality(S) >= QuorumSize
    BY <1>1 DEF Inv, HoldInv
  <2> HIDE DEF S
  <2>2. Cardinality(S) \in Nat
    BY QuorumGrows DEF S
  <2>3. QuorumSize \in Nat /\ 2 * QuorumSize > NumServers
    BY NumServersAssumption DEF QuorumSize
  <2>4. 2 * Cardinality(S) > NumServers
    BY <2>1, <2>2, <2>3, NumServersAssumption
  <2> QED BY <2>4 DEF S
<1> QED BY <1>1, Invariance, PTL

(* As long as no majority of the log servers has ended, every acknowledged  *)
(* append is still on one that has not, or was trimmed there                *)
(* (native_loglet.rs:328-348).                                              *)
THEOREM AckedAlwaysOutlives == Spec => []AckedOutlives
<1>1. ASSUME AckedDurable PROVE AckedOutlives
  <2> SUFFICES ASSUME 2 * Cardinality(Ended) <= NumServers, NEW r \in acked,
                      \A s \in Server \ Ended : ~Holds(s, r)
               PROVE  FALSE
    BY DEF AckedOutlives
  <2> DEFINE S == {s \in Server : Holds(s, r)}
  <2>1. S \in SUBSET Server /\ Ended \in SUBSET Server /\ S \subseteq Ended
    BY DEF Ended
  <2>2. 2 * Cardinality(S) > NumServers
    BY <1>1 DEF AckedDurable
  <2> HIDE DEF S
  <2>3. /\ Cardinality(S) \in Nat /\ Cardinality(Ended) \in Nat
        /\ Cardinality(S) <= Cardinality(Ended)
    BY <2>1, QuorumGrows
  <2> QED BY <2>2, <2>3, NumServersAssumption
<1> QED BY <1>1, AckedIsDurable, PTL

(* The tail a seal returned is above every append acknowledged before or    *)
(* after it (native_loglet.rs:386-423).                                     *)
THEOREM SealsBoundAcks == Spec => []SealBoundsAcks
<1>1. Inv => SealBoundsAcks
  BY DEF Inv, PosInv, SealInv, SealBoundsAcks
<1> QED BY <1>1, Invariance, PTL

(* The loglet implements the contract of the Loglet trait: an acknowledged  *)
(* position is nobody else's and below the sealed tail, and all seals       *)
(* return the same tail (loglet.rs:8-26).                                   *)
THEOREM LogletImplemented == Spec => ImplementsLoglet
<1>1. Init => L!Init
  BY DEF Init, L!Init
<1>2. ASSUME Inv, Next PROVE L!Next \/ UNCHANGED L!vars
  <2> USE <1>2 DEF Inv
  <2>1. ASSUME NEW c \in Client, AppendQuorum(c) PROVE L!Next
    <3>1. /\ acked' = acked \cup {OpRec(c)} /\ finalTail' = finalTail /\ Storing(c)
      BY <2>1 DEF AppendQuorum, AllAnswered, Storing, OpRec
    <3>2. OpRec(c) \in assigned /\ OpRec(c) \notin acked
      BY <3>1 DEF PosInv
    <3>3. op[c].pos \in 1..MaxPos /\ op[c].entry \in Entry
      BY <3>2 DEF TypeOK, Record, Position, OpRec
    <3>4. \A r \in acked : r.pos # op[c].pos
      BY <3>2 DEF PosInv, OpRec
    <3>5. finalTail = 0 \/ op[c].pos < finalTail
      BY <3>2 DEF PosInv, SealInv, OpRec
    <3>6. L!Append(op[c].pos, op[c].entry)
      BY <3>1, <3>4, <3>5 DEF L!Append, OpRec
    <3> QED BY <3>3, <3>6 DEF L!Next, L!Pos
  <2>2. ASSUME NEW c \in Client, SealQuorum(c) PROVE L!Next \/ UNCHANGED L!vars
    <3>1. op[c].type = "seal" /\ finalTail' = nextPos /\ acked' = acked
      BY <2>2, FinalTailIsNextPos DEF SealQuorum
    <3>2. CASE finalTail # 0
      BY <3>1, <3>2 DEF SealInv, L!vars
    <3>3. CASE finalTail = 0
      <4>1. nextPos \in 1..(MaxPos + 1) /\ \A r \in acked : r.pos < nextPos
        BY DEF TypeOK, TailPos, PosInv
      <4>2. L!Seal(nextPos)
        BY <3>1, <3>3, <4>1 DEF L!Seal
      <4> QED BY <4>1, <4>2 DEF L!Next
    <3> QED BY <3>2, <3>3
  <2>3. ASSUME NEW c \in Client, ~AppendQuorum(c), ~SealQuorum(c), Invoke(c) \/ Proceed(c)
        PROVE  UNCHANGED L!vars
    BY <2>3 DEF L!vars, historyVars, Invoke, Proceed, AppendFastPath, BeginAppend,
         BeginSeal, BeginTrim, BeginRead, CheckTail, NextPos, NextPosSealed, FanOut,
         FanOutFails, AppendRefused, AppendNoQuorum, SealNoQuorum, TrimDone, TrimFails,
         ReadSend, ReadFails, ReadReply, ReadContinue
  <2>4. ASSUME NEW s \in Server, Serve(s) \/ Crash(s) PROVE UNCHANGED L!vars
    BY <2>4 DEF L!vars, historyVars, Serve, ServeStore, ServeRead, ServeSeal, ServeTrim,
                Receive, Crash
  <2> QED BY <2>1, <2>2, <2>3, <2>4 DEF Next
<1>3. UNCHANGED vars => UNCHANGED L!vars
  BY DEF vars, historyVars, L!vars
<1>4. Inv /\ [Next]_vars => [L!Next]_(L!vars)
  BY <1>2, <1>3
<1> QED BY <1>1, <1>4, Invariance, PTL DEF Spec, ImplementsLoglet, L!Spec

===============================================================================
