--------------------------- MODULE BaseEngine_proofs ---------------------------
(***************************************************************************)
(* Safety of BaseEngine, proved for every number of engines, stores,        *)
(* clients, entries, proposals and aborted loops, and every set of failures *)
(* of the log, provided that no engine is created on a store while the loop *)
(* of a dropped one still runs on it.                                       *)
(***************************************************************************)
EXTENDS BaseEngine, TLAPS, SequenceTheorems

-------------------------------------------------------------------------------
(* The inductive invariant *)

(* A propose carries an entry, wherever it is. *)
Carries(r) == r.op = "propose" => r.entry \in Entry

(* What a loop's local variables are at the points of a request; only a     *)
(* running loop is inside one. A position is applied only after it was      *)
(* found filled, and there is none beyond the tail.                         *)
LoopPart(g) ==
  /\ cursor[g] >= 1 /\ target[g] <= Len(log)
  /\ phase[g] = "recv" => req[g] = NoReq
  /\ phase[g] # "recv" => Running(g) /\ req[g].op # "none"
  /\ phase[g] = "commit" => cursor[g] <= target[g] /\ log[cursor[g]] # Hole
  /\ Carries(req[g])
  /\ \A i \in 1..Len(queue[g]) : Carries(queue[g][i]) /\ queue[g][i].op # "none"
LoopInv ==
  /\ \A s \in Store : store[s].cursor >= 1
  /\ \A g \in Engine : LoopPart(g)

(* A client waits for at most one request, and is not answered yet. Slot 0  *)
(* of an engine is the request in hand, the others are its channel.         *)
Slot(g) == 0..Len(queue[g])
To(g, i) == IF i = 0 THEN req[g].to ELSE queue[g][i].to
MailInv ==
  /\ \A c \in Client : pc[c] = "waiting" => result[c].tag = "pending"
  /\ \A g \in Engine : \A i \in Slot(g) :
       To(g, i) \in Client => pc[To(g, i)] = "waiting"
  /\ \A g, h \in Engine : \A i \in Slot(g), j \in Slot(h) :
       To(g, i) \in Client /\ To(g, i) = To(h, j) => g = h /\ i = j

(* One loop runs on a store; its cursor is the persisted one, and its       *)
(* transaction works on what the store still is.                            *)
StoreInv ==
  /\ \A g, h \in Engine : Running(g) /\ Running(h) /\ StoreOf[g] = StoreOf[h] => g = h
  /\ \A g \in Engine : Running(g) => cursor[g] = store[StoreOf[g]].cursor
  /\ \A g \in Engine : phase[g] = "commit" => txn[g] = store[StoreOf[g]]
  /\ AppliedIsLogPrefix

Proposing(g) == phase[g] # "recv" /\ req[g].op = "propose"

(* The position of a proposal is above all that had finished when it was    *)
(* made, and is played by the loop itself: the value it returns is what     *)
(* that very apply gave.                                                    *)
ReplyPart(g) ==
  Proposing(g) => /\ target[g] >= 1
                  /\ log[target[g]] = req[g].entry
                  /\ req[g].to \in Client => target[g] > known[req[g].to]
                  /\ cursor[g] <= target[g] + 1
                  /\ cursor[g] > target[g] => ret[g] = SubSeq(log, 1, target[g])
ReplyInv ==
  /\ finished <= Len(log)
  /\ \A c \in Client : known[c] <= finished
  /\ \A g \in Engine : ReplyPart(g)

Inv == TypeOK /\ LoopInv /\ MailInv /\ StoreInv /\ ReplyInv
-------------------------------------------------------------------------------
(* What a step does to the channels *)

(* A request is taken from the front of one channel. *)
LEMMA QueueReceived ==
  ASSUME TypeOK, NEW g \in Engine, NEW op, Receive(g, op)
  PROVE  /\ queue' \in [Engine -> Seq(Request)]
         /\ Len(queue[g]) >= 1 /\ Head(queue[g]) = queue[g][1]
         /\ queue[g][1] \in Request /\ queue[g][1].op = op
         /\ \A h \in Engine : \A i \in 1..Len(queue'[h]) :
              IF h = g THEN i + 1 \in 1..Len(queue[h]) /\ queue'[h][i] = queue[h][i + 1]
              ELSE i \in 1..Len(queue[h]) /\ queue'[h][i] = queue[h][i]
<1>1. queue[g] \in Seq(Request) /\ queue[g] # <<>> /\ Head(queue[g]).op = op
  BY DEF TypeOK, Receive
<1>2. queue' = [queue EXCEPT ![g] = Tail(queue[g])]
  BY DEF Receive
<1>3. /\ Len(queue[g]) \in Nat /\ Len(queue[g]) >= 1
      /\ Head(queue[g]) = queue[g][1] /\ queue[g][1] \in Request
      /\ Tail(queue[g]) \in Seq(Request) /\ Len(Tail(queue[g])) = Len(queue[g]) - 1
      /\ \A i \in 1..Len(Tail(queue[g])) : Tail(queue[g])[i] = queue[g][i + 1]
  BY <1>1
<1>4. queue' \in [Engine -> Seq(Request)]
  BY <1>2, <1>3 DEF TypeOK
<1>5. ASSUME NEW h \in Engine, NEW i \in 1..Len(queue'[h])
      PROVE  IF h = g THEN i + 1 \in 1..Len(queue[h]) /\ queue'[h][i] = queue[h][i + 1]
             ELSE i \in 1..Len(queue[h]) /\ queue'[h][i] = queue[h][i]
  BY <1>2, <1>3, <1>5 DEF TypeOK
<1> QED BY <1>1, <1>3, <1>4, <1>5

(* A request is put at the end of one channel. *)
LEMMA QueueSent ==
  ASSUME TypeOK, NEW g \in Engine, NEW r \in Request,
         queue' = [queue EXCEPT ![g] = Append(@, r)]
  PROVE  /\ queue' \in [Engine -> Seq(Request)]
         /\ \A h \in Engine : \A i \in 1..Len(queue'[h]) :
              \/ i \in 1..Len(queue[h]) /\ queue'[h][i] = queue[h][i]
              \/ h = g /\ i = Len(queue[g]) + 1 /\ queue'[h][i] = r
<1>1. queue[g] \in Seq(Request)
  BY DEF TypeOK
<1>2. /\ Len(queue[g]) \in Nat
      /\ Append(queue[g], r) \in Seq(Request)
      /\ Len(Append(queue[g], r)) = Len(queue[g]) + 1
      /\ \A i \in 1..Len(queue[g]) : Append(queue[g], r)[i] = queue[g][i]
      /\ Append(queue[g], r)[Len(queue[g]) + 1] = r
  BY <1>1, AppendProperties
<1>3. queue' \in [Engine -> Seq(Request)]
  BY <1>2 DEF TypeOK
<1>4. ASSUME NEW h \in Engine, NEW i \in 1..Len(queue'[h])
      PROVE  \/ i \in 1..Len(queue[h]) /\ queue'[h][i] = queue[h][i]
             \/ h = g /\ i = Len(queue[g]) + 1 /\ queue'[h][i] = r
  <2>1. CASE h = g
    <3>1. queue'[h] = Append(queue[g], r)
      BY <2>1 DEF TypeOK
    <3>2. i \in 1..Len(queue[g]) \/ i = Len(queue[g]) + 1
      BY <3>1, <1>2
    <3> QED BY <2>1, <3>1, <3>2, <1>2
  <2>2. CASE h # g
    BY <2>2 DEF TypeOK
  <2> QED BY <2>1, <2>2
<1> QED BY <1>3, <1>4

(* A caller that gives up is forgotten in every request, nothing else is. *)
LEMMA Forgotten ==
  ASSUME TypeOK, NEW c \in Client, Cancel(c)
  PROVE  /\ queue' \in [Engine -> Seq(Request)]
         /\ req' \in [Engine -> Request]
         /\ \A h \in Engine :
              /\ Len(queue'[h]) = Len(queue[h])
              /\ req'[h] = Forget(req[h], c)
              /\ \A i \in 1..Len(queue'[h]) : queue'[h][i] = Forget(queue[h][i], c)
<1>1. \A r \in Request : Forget(r, c) \in Request
  BY DEF Request, Forget
<1>2. /\ queue' = [g \in Engine |-> [i \in 1..Len(queue[g]) |-> Forget(queue[g][i], c)]]
      /\ req' = [g \in Engine |-> Forget(req[g], c)]
  BY DEF Cancel
<1>3. ASSUME NEW h \in Engine
      PROVE  /\ [i \in 1..Len(queue[h]) |-> Forget(queue[h][i], c)] \in Seq(Request)
             /\ Len([i \in 1..Len(queue[h]) |-> Forget(queue[h][i], c)]) = Len(queue[h])
  <2>1. queue[h] \in Seq(Request)
    BY DEF TypeOK
  <2>2. Len(queue[h]) \in Nat /\ \A i \in 1..Len(queue[h]) : queue[h][i] \in Request
    BY <2>1
  <2>3. \A i \in 1..Len(queue[h]) : Forget(queue[h][i], c) \in Request
    BY <2>2, <1>1
  <2> QED BY <2>2, <2>3, IsASeq
<1> QED BY <1>1, <1>2, <1>3 DEF TypeOK
-------------------------------------------------------------------------------
(* Types *)

Result == [op : {"none", "propose", "sync"}, tag : {"pending", "ok", "error"},
           pos : Nat, value : Seq(Entry)]

LEMMA AnswerType ==
  ASSUME TypeOK, NEW r \in Request, NEW tag \in {"pending", "ok", "error"},
         NEW p \in Nat, NEW v \in Seq(Entry), Answer(r.to, Res(r.op, tag, p, v))
  PROVE  /\ pc' \in [Client -> {"idle", "waiting"}]
         /\ result' \in [Client -> Result]
         /\ known' \in [Client -> Nat]
<1>1. Res(r.op, tag, p, v) \in Result /\ r.to \in Client \cup {NoOne}
  BY DEF Res, Result, Request
<1>2. pc \in [Client -> {"idle", "waiting"}] /\ result \in [Client -> Result]
      /\ known \in [Client -> Nat]
  BY DEF TypeOK, Result
<1> QED BY <1>1, <1>2 DEF Answer, clientVars

LEMMA FailType ==
  ASSUME TypeOK, NEW r \in Request, Fail(r)
  PROVE  /\ pc' \in [Client -> {"idle", "waiting"}]
         /\ result' \in [Client -> Result]
         /\ known' \in [Client -> Nat]
<1>1. 0 \in Nat /\ <<>> \in Seq(Entry)
  BY EmptySeq
<1> QED BY <1>1, AnswerType DEF Fail

LEMMA EndType ==
  ASSUME TypeOK, NEW g \in Engine, EndRequest(g)
  PROVE  /\ phase' \in [Engine -> {"recv", "play", "commit"}]
         /\ req' \in [Engine -> Request]
         /\ target' \in [Engine -> Nat]
         /\ txn' \in [Engine -> State]
         /\ ret' \in [Engine -> Seq(Entry)]
<1>1. EmptyState \in State /\ NoReq \in Request /\ <<>> \in Seq(Entry)
  BY EmptySeq DEF EmptyState, State, NoReq, Request
<1> QED BY <1>1 DEF TypeOK, EndRequest

LEMMA TypeStep ==
  ASSUME TypeOK, LoopInv, Next
  PROVE  TypeOK'
<1> USE DEF Result
<1>1. ASSUME NEW g \in Engine, NewEngine(g) PROVE TypeOK'
  BY <1>1, StoreOfAssumption
     DEF TypeOK, NewEngine, InitialCursor, clientVars, State
<1>2. ASSUME NEW g \in Engine, DropEngine(g) \/ LoopExits(g) PROVE TypeOK'
  BY <1>2 DEF TypeOK, DropEngine, LoopExits, loopVars, clientVars
<1>3. ASSUME NEW g \in Engine, Propose(g) PROVE TypeOK'
  <2>1. Receive(g, "propose")
    BY <1>3 DEF Propose
  <2>2. /\ queue' \in [Engine -> Seq(Request)] /\ Head(queue[g]) = queue[g][1]
        /\ queue[g][1] \in Request /\ queue[g][1].op = "propose" /\ Len(queue[g]) >= 1
    BY <2>1, QueueReceived
  <2>3. queue[g][1].entry \in Entry
    <3>1. Len(queue[g]) \in Nat
      BY DEF TypeOK
    <3> QED BY <2>2, <3>1 DEF LoopInv, LoopPart, Carries
  <2>4. log' \in Seq(Entry \cup {Hole}) /\ Len(log) \in Nat
    BY <1>3, <2>2, <2>3 DEF Propose, TypeOK
  <2>5. target' \in [Engine -> Nat] /\ req' \in [Engine -> Request]
        /\ phase' \in [Engine -> {"recv", "play", "commit"}]
    BY <1>3, <2>2, <2>4 DEF Propose, TypeOK
  <2> QED BY <1>3, <2>2, <2>4, <2>5 DEF TypeOK, Propose, clientVars
<1>4. ASSUME NEW g \in Engine, ProposeFails(g) \/ SyncFails(g) PROVE TypeOK'
  <2>1. PICK op : Receive(g, op)
    BY <1>4 DEF ProposeFails, SyncFails
  <2>2. /\ queue' \in [Engine -> Seq(Request)] /\ Head(queue[g]) = queue[g][1]
        /\ queue[g][1] \in Request /\ queue[g][1].op = op /\ Len(queue[g]) >= 1
    BY <2>1, QueueReceived
  <2>3. op = "propose" => queue[g][1].entry \in Entry
    <3>1. Len(queue[g]) \in Nat
      BY DEF TypeOK
    <3> QED BY <2>2, <3>1 DEF LoopInv, LoopPart, Carries
  <2>4. log' \in Seq(Entry \cup {Hole})
    <3>1. \/ log' = log
          \/ \E e \in Entry \cup {Hole} : log' = Append(log, e)
      BY <1>4, <2>2, <2>3 DEF ProposeFails, SyncFails, Receive
    <3>2. log \in Seq(Entry \cup {Hole})
      BY DEF TypeOK
    <3>3. \A e \in Entry \cup {Hole} : Append(log, e) \in Seq(Entry \cup {Hole})
      BY <3>2, AppendProperties
    <3> QED BY <3>1, <3>2, <3>3
  <2>5. Fail(queue[g][1])
    BY <1>4, <2>2 DEF ProposeFails, SyncFails
  <2>6. /\ pc' \in [Client -> {"idle", "waiting"}]
        /\ result' \in [Client -> Result]
        /\ known' \in [Client -> Nat]
    BY <2>2, <2>5, FailType
  <2> QED BY <1>4, <2>2, <2>4, <2>6 DEF TypeOK, ProposeFails, SyncFails, loopVars
<1>5. ASSUME NEW g \in Engine, Sync(g) PROVE TypeOK'
  <2>1. Receive(g, "sync")
    BY <1>5 DEF Sync
  <2>2. /\ queue' \in [Engine -> Seq(Request)] /\ Head(queue[g]) = queue[g][1]
        /\ queue[g][1] \in Request
    BY <2>1, QueueReceived
  <2>3. Len(log) \in Nat
    BY DEF TypeOK
  <2>4. target' \in [Engine -> Nat] /\ req' \in [Engine -> Request]
        /\ phase' \in [Engine -> {"recv", "play", "commit"}]
    BY <1>5, <2>2, <2>3 DEF Sync, SyncTarget, TypeOK
  <2> QED BY <1>5, <2>2, <2>4 DEF TypeOK, Sync, clientVars
<1>6. ASSUME NEW g \in Engine, ApplyBegin(g) PROVE TypeOK'
  BY <1>6, StoreOfAssumption DEF TypeOK, ApplyBegin, engineVars, clientVars
<1>7. ASSUME NEW g \in Engine, ApplyCommit(g) PROVE TypeOK'
  <2>1. /\ phase[g] = "commit" /\ cursor[g] \in 1..Len(log) /\ log[cursor[g]] # Hole
    BY <1>7 DEF ApplyCommit, LoopInv, LoopPart, TypeOK
  <2>2. log[cursor[g]] \in Entry
    BY <2>1 DEF TypeOK
  <2>3. Applied(g) \in Seq(Entry)
    BY <2>2 DEF Applied, TypeOK, State
  <2>4. CommitState(g) \in State /\ EmptyState \in State
    BY <2>3, EmptySeq DEF CommitState, TypeOK, State, EmptyState
  <2>5. ReturnTarget(g) \in Seq(Entry)
    BY <2>3 DEF ReturnTarget, TypeOK
  <2>6. /\ store' \in [Store -> State] /\ txn' \in [Engine -> State]
        /\ ret' \in [Engine -> Seq(Entry)]
    BY <1>7, <2>4, <2>5, StoreOfAssumption DEF TypeOK, ApplyCommit
  <2>7. cursor' \in [Engine -> Nat] /\ phase' \in [Engine -> {"recv", "play", "commit"}]
    BY <1>7 DEF TypeOK, ApplyCommit
  <2> QED BY <1>7, <2>6, <2>7 DEF TypeOK, ApplyCommit, engineVars, clientVars
<1>8. ASSUME NEW g \in Engine, ApplyFails(g) PROVE TypeOK'
  <2>1. req[g] \in Request
    BY DEF TypeOK
  <2>2. EndRequest(g) /\ Fail(req[g])
    BY <1>8 DEF ApplyFails
  <2>3. /\ pc' \in [Client -> {"idle", "waiting"}]
        /\ result' \in [Client -> Result]
        /\ known' \in [Client -> Nat]
    BY <2>1, <2>2, FailType
  <2> QED BY <1>8, <2>2, <2>3, EndType DEF TypeOK, ApplyFails, engineVars
<1>9. ASSUME NEW g \in Engine, Reply(g) PROVE TypeOK'
  <2>1. req[g] \in Request /\ target[g] \in Nat /\ ret[g] \in Seq(Entry)
    BY DEF TypeOK
  <2>2. EndRequest(g) /\ Answer(req[g].to, Res(req[g].op, "ok", target[g], ret[g]))
    BY <1>9 DEF Reply
  <2>3. /\ pc' \in [Client -> {"idle", "waiting"}]
        /\ result' \in [Client -> Result]
        /\ known' \in [Client -> Nat]
    BY <2>1, <2>2, AnswerType
  <2>4. finished' \in Nat
    BY <1>9, <2>1 DEF Reply, TypeOK
  <2> QED BY <1>9, <2>2, <2>3, <2>4, EndType DEF TypeOK, Reply, engineVars
<1>10. ASSUME NEW g \in Engine, Abort(g) PROVE TypeOK'
  <2>1. life' \in [Engine -> {"new", "up", "dropped", "dead", "exited"}]
        /\ queue' \in [Engine -> Seq(Request)]
    BY <1>10, EmptySeq DEF Abort, TypeOK
  <2>2. \A c \in Client : Res(result[c].op, "error", 0, <<>>) \in Result
    BY EmptySeq DEF TypeOK, Res
  <2>3. /\ pc' \in [Client -> {"idle", "waiting"}]
        /\ result' \in [Client -> Result]
    BY <1>10, <2>2 DEF Abort, TypeOK
  <2>4. aborts' \in 0..MaxAborts
    BY <1>10, BoundsAssumption DEF Abort, TypeOK
  <2>5. EndRequest(g)
    BY <1>10 DEF Abort
  <2> QED BY <1>10, <2>1, <2>3, <2>4, <2>5, EndType DEF TypeOK, Abort
<1>11. ASSUME NEW c \in Client, Cancel(c) PROVE TypeOK'
  <2>1. queue' \in [Engine -> Seq(Request)] /\ req' \in [Engine -> Request]
    BY <1>11, Forgotten
  <2> QED BY <1>11, <2>1 DEF TypeOK, Cancel
<1>12. ASSUME NEW c \in Client, NEW g \in Engine, NEW op \in {"propose", "sync"},
              CallDead(c, g, op)
       PROVE  TypeOK'
  <2>1. Res(op, "error", 0, <<>>) \in Result
    BY EmptySeq DEF Res
  <2> QED BY <1>12, <2>1 DEF TypeOK, CallDead, engineVars, loopVars
<1>13. ASSUME NEW c \in Client, NEW g \in Engine, NEW op \in {"propose", "sync"},
              NEW e \in Entry \cup {Hole}, Call(c, g, op, e)
       PROVE  TypeOK'
  <2>1. [to |-> c, op |-> op, entry |-> e] \in Request
    BY DEF Request
  <2>2. queue' \in [Engine -> Seq(Request)]
    BY <1>13, <2>1, QueueSent DEF Call
  <2>3. Res(op, "pending", 0, <<>>) \in Result
    BY EmptySeq DEF Res
  <2>4. proposed' \in 0..MaxProposals
    BY <1>13, BoundsAssumption DEF Call, TypeOK
  <2> QED BY <1>13, <2>2, <2>3, <2>4 DEF TypeOK, Call, loopVars
<1> QED
  BY <1>1, <1>2, <1>3, <1>4, <1>5, <1>6, <1>7, <1>8, <1>9, <1>10, <1>11, <1>12, <1>13
     DEF Next, Loop
-------------------------------------------------------------------------------
(* The loops *)

LEMMA LogGrows ==
  ASSUME TypeOK, Next
  PROVE  /\ Len(log) \in Nat /\ Len(log') \in Nat /\ Len(log) <= Len(log')
         /\ \A i \in 1..Len(log) : log'[i] = log[i]
<1>1. log \in Seq(Entry \cup {Hole}) /\ Len(log) \in Nat
  BY DEF TypeOK
<1>2. log' = log \/ \E e : log' = Append(log, e)
  BY DEF Next, Loop, NewEngine, DropEngine, LoopExits, Propose, ProposeFails, SyncFails, Sync,
         ApplyBegin, ApplyCommit, ApplyFails, Reply, Abort, Cancel, CallDead, Call
<1>3. ASSUME NEW e
      PROVE  /\ Len(Append(log, e)) = Len(log) + 1
             /\ \A i \in 1..Len(log) : Append(log, e)[i] = log[i]
  BY <1>1
<1> QED BY <1>1, <1>2, <1>3

(* A request that ends leaves its loop at the channel. *)
LEMMA EndLoop ==
  ASSUME TypeOK, NEW g \in Engine, EndRequest(g)
  PROVE  /\ phase'[g] = "recv" /\ req'[g] = NoReq /\ target'[g] = 0
         /\ ret'[g] = <<>>
         /\ \A h \in Engine : h # g =>
              /\ phase'[h] = phase[h] /\ req'[h] = req[h] /\ target'[h] = target[h]
              /\ txn'[h] = txn[h] /\ ret'[h] = ret[h]
  BY DEF TypeOK, EndRequest

(* An engine of which a step changes nothing; the log may grow. *)
LEMMA LoopRest ==
  ASSUME TypeOK, LoopInv, Next, NEW h \in Engine, cursor'[h] = cursor[h],
         target'[h] = target[h], phase'[h] = phase[h], life'[h] = life[h],
         req'[h] = req[h], queue'[h] = queue[h]
  PROVE  LoopPart(h)'
<1>1. /\ Len(log) \in Nat /\ Len(log') \in Nat /\ Len(log) <= Len(log')
      /\ \A i \in 1..Len(log) : log'[i] = log[i]
  BY LogGrows
<1>2. phase[h] = "commit" => cursor[h] \in 1..Len(log)
  BY <1>1 DEF LoopInv, LoopPart, TypeOK
<1>3. phase[h] = "commit" => log'[cursor[h]] # Hole
  BY <1>1, <1>2 DEF LoopInv, LoopPart
<1>4. cursor'[h] >= 1 /\ target'[h] <= Len(log')
  BY <1>1 DEF LoopInv, LoopPart, TypeOK
<1> QED BY <1>3, <1>4 DEF LoopInv, LoopPart, Running, Carries

LEMMA LoopStep ==
  ASSUME TypeOK, LoopInv, Next
  PROVE  LoopInv'
<1>a. Carries(NoReq) /\ NoReq.op = "none"
  BY DEF Carries, NoReq
<1>b. /\ Len(log) \in Nat /\ Len(log') \in Nat /\ Len(log) <= Len(log')
      /\ \A i \in 1..Len(log) : log'[i] = log[i]
  BY LogGrows
<1>c. ASSUME NEW g \in Engine
      PROVE  /\ cursor[g] \in Nat /\ target[g] \in Nat
             /\ queue[g] \in Seq(Request) /\ Len(queue[g]) \in Nat
  BY DEF TypeOK
<1>1. ASSUME NEW g \in Engine, NewEngine(g) PROVE LoopInv'
  <2>1. LoopPart(g)'
    BY <1>1, StoreOfAssumption
       DEF LoopInv, LoopPart, NewEngine, InitialCursor, TypeOK, State, Running, Carries
  <2>2. \A h \in Engine : h # g => LoopPart(h)'
    BY <1>1, LoopRest DEF NewEngine, TypeOK
  <2> QED BY <1>1, <2>1, <2>2 DEF LoopInv, NewEngine
<1>2. ASSUME NEW g \in Engine, DropEngine(g) \/ LoopExits(g) PROVE LoopInv'
  <2>1. LoopPart(g)'
    BY <1>2 DEF LoopInv, LoopPart, DropEngine, LoopExits, loopVars, TypeOK, Running, Carries
  <2>2. \A h \in Engine : h # g => LoopPart(h)'
    BY <1>2, LoopRest DEF DropEngine, LoopExits, loopVars, TypeOK
  <2> QED BY <1>2, <2>1, <2>2 DEF LoopInv, DropEngine, LoopExits
<1>3. ASSUME NEW g \in Engine, Propose(g) \/ Sync(g) PROVE LoopInv'
  <2> DEFINE q == queue[g][1]
  <2>1. PICK op \in {"propose", "sync"} : Receive(g, op)
    BY <1>3 DEF Propose, Sync
  <2>2. /\ Len(queue[g]) >= 1 /\ Head(queue[g]) = q /\ q.op = op
        /\ \A h \in Engine : \A i \in 1..Len(queue'[h]) :
             IF h = g THEN i + 1 \in 1..Len(queue[h]) /\ queue'[h][i] = queue[h][i + 1]
             ELSE i \in 1..Len(queue[h]) /\ queue'[h][i] = queue[h][i]
    BY <2>1, QueueReceived
  <2>3. Carries(q)
    BY <2>2, <1>c DEF LoopInv, LoopPart
  <2>4. /\ req'[g] = q /\ phase'[g] = "play" /\ cursor'[g] = cursor[g]
        /\ target'[g] = Len(log') /\ Running(g)' /\ store' = store
    <3>1. CASE Propose(g)
      <4>1. log' = Append(log, q.entry) /\ target'[g] = Len(log) + 1
        BY <3>1, <2>2 DEF Propose, TypeOK
      <4>2. Len(log') = Len(log) + 1
        BY <4>1 DEF TypeOK
      <4> QED BY <3>1, <4>1, <4>2, <2>2 DEF Propose, Receive, Running, TypeOK
    <3>2. CASE Sync(g)
      BY <3>2, <2>2 DEF Sync, SyncTarget, Receive, Running, TypeOK
    <3> QED BY <1>3, <3>1, <3>2
  <2>5. LoopPart(g)'
    <3>1. \A i \in 1..Len(queue'[g]) :
             Carries(queue'[g][i]) /\ queue'[g][i].op # "none"
      BY <2>2 DEF LoopInv, LoopPart
    <3> QED BY <1>b, <2>1, <2>2, <2>3, <2>4, <3>1 DEF LoopInv, LoopPart, Carries
  <2>6. \A h \in Engine : h # g => LoopPart(h)'
    BY <1>3, LoopRest DEF Propose, Sync, Receive, TypeOK
  <2> QED BY <2>4, <2>5, <2>6 DEF LoopInv
<1>4. ASSUME NEW g \in Engine, ProposeFails(g) \/ SyncFails(g) PROVE LoopInv'
  <2>1. PICK op : Receive(g, op)
    BY <1>4 DEF ProposeFails, SyncFails
  <2>2. \A i \in 1..Len(queue'[g]) :
          i + 1 \in 1..Len(queue[g]) /\ queue'[g][i] = queue[g][i + 1]
    BY <2>1, QueueReceived
  <2>3. phase[g] = "recv"
    BY <2>1 DEF Receive
  <2>4. LoopPart(g)'
    <3>1. /\ cursor'[g] = cursor[g] /\ target'[g] = target[g]
          /\ phase'[g] = "recv" /\ req'[g] = req[g]
      BY <1>4, <2>3 DEF ProposeFails, SyncFails, loopVars
    <3>2. \A i \in 1..Len(queue'[g]) :
            Carries(queue'[g][i]) /\ queue'[g][i].op # "none"
      BY <2>2 DEF LoopInv, LoopPart
    <3>3. LoopPart(g)
      BY DEF LoopInv
    <3> QED BY <1>b, <1>c, <2>3, <3>1, <3>2, <3>3 DEF LoopPart, Carries
  <2>5. \A h \in Engine : h # g => LoopPart(h)'
    BY <1>4, LoopRest DEF ProposeFails, SyncFails, Receive, loopVars, TypeOK
  <2> QED BY <1>4, <2>4, <2>5 DEF LoopInv, ProposeFails, SyncFails
<1>5. ASSUME NEW g \in Engine, ApplyBegin(g) PROVE LoopInv'
  <2>1. LoopPart(g)'
    BY <1>5, <1>c DEF ApplyBegin, NothingThere, LoopInv, LoopPart, engineVars, Carries, Running, TypeOK
  <2>2. \A h \in Engine : h # g => LoopPart(h)'
    BY <1>5, LoopRest DEF ApplyBegin, engineVars, TypeOK
  <2> QED BY <1>5, <2>1, <2>2 DEF LoopInv, ApplyBegin
<1>6. ASSUME NEW g \in Engine, ApplyCommit(g) PROVE LoopInv'
  <2>1. cursor'[g] = cursor[g] + 1 /\ phase'[g] = "play"
    BY <1>6 DEF ApplyCommit, TypeOK
  <2>2. LoopPart(g)'
    BY <1>6, <1>c, <2>1 DEF ApplyCommit, LoopInv, LoopPart, engineVars, Carries, Running
  <2>3. \A h \in Engine : h # g => LoopPart(h)'
    BY <1>6, LoopRest DEF ApplyCommit, engineVars, TypeOK
  <2>4. CommitState(g).cursor >= 1
    BY <1>c DEF CommitState
  <2>5. \A s \in Store : store'[s].cursor >= 1
    BY <1>6, <2>4 DEF ApplyCommit, LoopInv, TypeOK
  <2> QED BY <2>2, <2>3, <2>5 DEF LoopInv
<1>7. ASSUME NEW g \in Engine, ApplyFails(g) \/ Reply(g) \/ Abort(g) PROVE LoopInv'
  <2>1. EndRequest(g) /\ cursor' = cursor /\ store' = store /\ log' = log
    BY <1>7 DEF ApplyFails, Reply, Abort
  <2>2. \/ queue' = queue
        \/ queue' = [queue EXCEPT ![g] = <<>>]
    BY <1>7 DEF ApplyFails, Reply, Abort, engineVars
  <2>3. \A i \in 1..Len(queue'[g]) : i \in 1..Len(queue[g]) /\ queue'[g][i] = queue[g][i]
    BY <2>2, <1>c DEF TypeOK
  <2>4. LoopPart(g)'
    BY <1>a, <1>c, <2>1, <2>3, EndLoop DEF LoopInv, LoopPart, Carries
  <2>5. \A h \in Engine : h # g => life'[h] = life[h] /\ queue'[h] = queue[h]
    BY <1>7, <2>2 DEF ApplyFails, Reply, Abort, engineVars, TypeOK
  <2>6. \A h \in Engine : h # g => LoopPart(h)'
    BY <2>1, <2>5, EndLoop, LoopRest
  <2> QED BY <2>1, <2>4, <2>6 DEF LoopInv
<1>8. ASSUME NEW c \in Client, Cancel(c) PROVE LoopInv'
  <2>1. \A r \in Request : /\ Forget(r, c).op = r.op /\ Forget(r, c).entry = r.entry
                           /\ Forget(NoReq, c) = NoReq
    BY NoOneAssumption DEF Forget, Request, NoReq
  <2>2. ASSUME NEW h \in Engine PROVE LoopPart(h)'
    <3>1. req[h] \in Request /\ \A i \in 1..Len(queue[h]) : queue[h][i] \in Request
      BY DEF TypeOK
    <3>2. req'[h].op = req[h].op /\ req'[h].entry = req[h].entry
      BY <1>8, <2>1, <3>1, Forgotten
    <3>3. req[h] = NoReq => req'[h] = NoReq
      BY <1>8, <2>1, <3>1, Forgotten
    <3>4. \A i \in 1..Len(queue'[h]) :
            /\ i \in 1..Len(queue[h])
            /\ queue'[h][i].op = queue[h][i].op /\ queue'[h][i].entry = queue[h][i].entry
      BY <1>8, <2>1, <3>1, Forgotten
    <3>5. LoopPart(h)
      BY DEF LoopInv
    <3>6. \A i \in 1..Len(queue'[h]) :
            Carries(queue'[h][i]) /\ queue'[h][i].op # "none"
      BY <3>4, <3>5 DEF LoopPart, Carries
    <3>7. /\ cursor'[h] = cursor[h] /\ target'[h] = target[h] /\ log' = log
          /\ phase'[h] = phase[h] /\ life'[h] = life[h]
      BY <1>8 DEF Cancel
    <3> QED BY <3>2, <3>3, <3>5, <3>6, <3>7 DEF LoopPart, Carries, Running
  <2> QED BY <1>8, <2>2 DEF LoopInv, Cancel
<1>9. ASSUME NEW c \in Client, NEW g \in Engine, NEW op \in {"propose", "sync"},
             NEW e \in Entry \cup {Hole}, op = "propose" => e \in Entry, Call(c, g, op, e)
      PROVE  LoopInv'
  <2> DEFINE r == [to |-> c, op |-> op, entry |-> e]
  <2>1. r \in Request /\ Carries(r) /\ r.op # "none"
    BY <1>9 DEF Request, Carries
  <2>2. \A i \in 1..Len(queue'[g]) : \/ i \in 1..Len(queue[g]) /\ queue'[g][i] = queue[g][i]
                                     \/ queue'[g][i] = r
    BY <1>9, <2>1, QueueSent DEF Call
  <2> HIDE DEF r
  <2>3. LoopPart(g)'
    BY <1>9, <2>1, <2>2 DEF Call, LoopInv, LoopPart, loopVars, Running, Carries
  <2>4. \A h \in Engine : h # g => LoopPart(h)'
    BY <1>9, LoopRest DEF Call, loopVars, TypeOK
  <2> QED BY <1>9, <2>3, <2>4 DEF LoopInv, Call
<1>10. ASSUME NEW c \in Client, NEW g \in Engine, NEW op, CallDead(c, g, op)
       PROVE  LoopInv'
  BY <1>10, LoopRest DEF LoopInv, CallDead, engineVars, loopVars
<1> QED
  BY <1>1, <1>2, <1>3, <1>4, <1>5, <1>6, <1>7, <1>8, <1>9, <1>10 DEF Next, Loop
-------------------------------------------------------------------------------
(* The callers *)

(* Requests move up in their channels, or stay; none is new. *)
LEMMA MailKept ==
  ASSUME TypeOK, TypeOK', MailInv, NEW k \in [Engine -> {0, 1}],
         \A c \in Client : pc'[c] = "waiting" => pc[c] = "waiting" /\ result'[c] = result[c],
         \A h \in Engine : \A i \in Slot(h)' : To(h, i)' \in Client =>
           /\ i + k[h] \in Slot(h) /\ To(h, i)' = To(h, i + k[h])
           /\ pc'[To(h, i)'] = "waiting"
  PROVE  MailInv'
<1>1. \A c \in Client : pc'[c] = "waiting" => result'[c].tag = "pending"
  BY DEF MailInv
<1>2. ASSUME NEW g \in Engine, NEW h \in Engine, NEW i \in Slot(g)', NEW j \in Slot(h)',
             To(g, i)' \in Client, To(g, i)' = To(h, j)'
      PROVE  g = h /\ i = j
  <2>1. /\ i + k[g] \in Slot(g) /\ To(g, i + k[g]) \in Client
        /\ j + k[h] \in Slot(h) /\ To(g, i + k[g]) = To(h, j + k[h])
    BY <1>2
  <2>2. g = h /\ i + k[g] = j + k[h]
    BY <2>1 DEF MailInv
  <2>3. i \in Int /\ j \in Int /\ k[g] \in Int
    BY DEF Slot, TypeOK
  <2> QED BY <2>2, <2>3
<1> QED BY <1>1, <1>2 DEF MailInv

LEMMA SlotTypes ==
  ASSUME TypeOK
  PROVE  \A g \in Engine : /\ Len(queue[g]) \in Nat
                           /\ \A i \in Slot(g) : To(g, i) \in Client \cup {NoOne}
<1> SUFFICES ASSUME NEW g \in Engine
             PROVE  /\ Len(queue[g]) \in Nat
                    /\ \A i \in Slot(g) : To(g, i) \in Client \cup {NoOne}
  OBVIOUS
<1>1. /\ queue[g] \in Seq(Request) /\ Len(queue[g]) \in Nat
      /\ req[g] \in Request
  BY DEF TypeOK
<1>2. \A i \in 1..Len(queue[g]) : queue[g][i] \in Request
  BY <1>1
<1> QED BY <1>1, <1>2 DEF Slot, To, Request

(* The one who is answered waits no longer, all others as before. *)
LEMMA Answered1 ==
  ASSUME TypeOK, NEW to \in Client \cup {NoOne}, NEW res, Answer(to, res)
  PROVE  /\ \A c \in Client : c # to => pc'[c] = pc[c] /\ result'[c] = result[c]
         /\ to \in Client => pc'[to] = "idle" /\ result'[to] = res
         /\ known' = known
  BY NoOneAssumption DEF TypeOK, Answer, clientVars

LEMMA MailStep ==
  ASSUME TypeOK, TypeOK', LoopInv, MailInv, Next
  PROVE  MailInv'
<1> DEFINE none == [h \in Engine |-> 0]
           one(g) == [h \in Engine |-> IF h = g THEN 1 ELSE 0]
<1>n. none \in [Engine -> {0, 1}] /\ \A h \in Engine : none[h] = 0
  OBVIOUS
<1>o. ASSUME NEW g \in Engine
      PROVE  /\ one(g) \in [Engine -> {0, 1}] /\ one(g)[g] = 1
             /\ \A h \in Engine : h # g => one(g)[h] = 0
  OBVIOUS
<1> HIDE DEF none, one
<1>t. \A g \in Engine : /\ Len(queue[g]) \in Nat
                        /\ \A i \in Slot(g) : To(g, i) \in Client \cup {NoOne}
  BY SlotTypes
<1>z. NoOne \notin Client /\ NoReq.to = NoOne
  BY NoOneAssumption DEF NoReq
<1>1. ASSUME queue' = queue, req' = req, pc' = pc,
             \A c \in Client : pc[c] = "waiting" => result'[c] = result[c]
      PROVE  MailInv'
  BY <1>1 DEF MailInv, Slot, To
<1>2. ASSUME NEW g \in Engine, NewEngine(g) \/ DropEngine(g) \/ LoopExits(g)
                               \/ ApplyBegin(g) \/ ApplyCommit(g)
      PROVE  MailInv'
  BY <1>1, <1>2 DEF NewEngine, DropEngine, LoopExits, ApplyBegin, ApplyCommit,
                    engineVars, loopVars, clientVars
<1>3. ASSUME NEW c \in Client, NEW g \in Engine, NEW op, CallDead(c, g, op)
      PROVE  MailInv'
  BY <1>1, <1>3 DEF CallDead, engineVars, loopVars, TypeOK
<1>4. ASSUME NEW g \in Engine, Propose(g) \/ Sync(g) PROVE MailInv'
  <2>1. PICK op \in {"propose", "sync"} : Receive(g, op)
    BY <1>4 DEF Propose, Sync
  <2>2. /\ Len(queue[g]) >= 1 /\ Head(queue[g]) = queue[g][1]
        /\ \A h \in Engine : \A i \in 1..Len(queue'[h]) :
             IF h = g THEN i + 1 \in 1..Len(queue[h]) /\ queue'[h][i] = queue[h][i + 1]
             ELSE i \in 1..Len(queue[h]) /\ queue'[h][i] = queue[h][i]
    BY <2>1, QueueReceived
  <2>3. /\ req' = [req EXCEPT ![g] = queue[g][1]]
        /\ pc' = pc /\ result' = result
    BY <1>4, <2>2 DEF Propose, Sync, clientVars
  <2>4. ASSUME NEW h \in Engine, NEW i \in Slot(h)'
        PROVE  i + one(g)[h] \in Slot(h) /\ To(h, i)' = To(h, i + one(g)[h])
    <3>a. req'[g] = queue[g][1] /\ (h # g => req'[h] = req[h])
      BY <2>3 DEF TypeOK
    <3>1. CASE i = 0 /\ h = g
      BY <3>1, <3>a, <2>2, <1>o, <1>t DEF Slot, To
    <3>2. CASE i = 0 /\ h # g
      <4>1. i + one(g)[h] = 0
        BY <3>2, <1>o
      <4> QED BY <3>2, <4>1, <3>a, <1>t DEF Slot, To
    <3>3. CASE i # 0
      <4>1. i \in 1..Len(queue'[h])
        BY <3>3 DEF Slot, TypeOK
      <4> QED BY <4>1, <2>2, <1>o, <1>t DEF Slot, To
    <3> QED BY <3>1, <3>2, <3>3
  <2> QED BY <2>3, <2>4, <1>o, MailKept DEF MailInv
<1>5. ASSUME NEW g \in Engine, ProposeFails(g) \/ SyncFails(g) PROVE MailInv'
  <2>1. PICK op : Receive(g, op) /\ phase[g] = "recv"
    BY <1>5 DEF ProposeFails, SyncFails, Receive
  <2>2. /\ Len(queue[g]) >= 1 /\ Head(queue[g]) = queue[g][1]
        /\ \A h \in Engine : \A i \in 1..Len(queue'[h]) :
             IF h = g THEN i + 1 \in 1..Len(queue[h]) /\ queue'[h][i] = queue[h][i + 1]
             ELSE i \in 1..Len(queue[h]) /\ queue'[h][i] = queue[h][i]
    BY <2>1, QueueReceived
  <2>3. req' = req /\ Fail(queue[g][1])
    BY <1>5, <2>2 DEF ProposeFails, SyncFails, loopVars
  <2>4. 1 \in Slot(g) /\ To(g, 1) = queue[g][1].to
    BY <2>2, <1>t DEF Slot, To
  <2>5. /\ \A c \in Client : c # To(g, 1) => pc'[c] = pc[c] /\ result'[c] = result[c]
        /\ To(g, 1) \in Client => pc'[To(g, 1)] = "idle"
    BY <2>3, <2>4, <1>t, Answered1 DEF Fail
  <2>6. ASSUME NEW h \in Engine, NEW i \in Slot(h)', To(h, i)' \in Client
        PROVE  /\ i + one(g)[h] \in Slot(h) /\ To(h, i)' = To(h, i + one(g)[h])
               /\ pc'[To(h, i)'] = "waiting"
    <3>1. ~(i = 0 /\ h = g)
      BY <2>1, <2>3, <2>6, <1>z DEF LoopInv, LoopPart, To
    <3>2. /\ i + one(g)[h] \in Slot(h) /\ To(h, i)' = To(h, i + one(g)[h])
          /\ ~(h = g /\ i + one(g)[h] = 1)
      <4>1. CASE i = 0
        BY <4>1, <3>1, <2>3, <1>o, <1>t DEF Slot, To
      <4>2. CASE i # 0
        <5>1. i \in 1..Len(queue'[h])
          BY <4>2 DEF Slot, TypeOK
        <5> QED BY <5>1, <2>2, <1>o, <1>t DEF Slot, To
      <4> QED BY <4>1, <4>2
    <3>3. To(h, i)' # To(g, 1)
      BY <2>4, <2>6, <3>2 DEF MailInv
    <3> QED BY <2>5, <2>6, <3>2, <3>3 DEF MailInv
  <2>7. \A c \in Client : pc'[c] = "waiting" => pc[c] = "waiting" /\ result'[c] = result[c]
    BY <2>5
  <2> QED BY <2>6, <2>7, <1>o, MailKept
<1>6. ASSUME NEW g \in Engine, ApplyFails(g) \/ Reply(g) PROVE MailInv'
  <2>1. EndRequest(g) /\ queue' = queue /\ \E res : Answer(req[g].to, res)
    BY <1>6 DEF ApplyFails, Reply, Fail, engineVars
  <2>2. 0 \in Slot(g) /\ To(g, 0) = req[g].to
    BY <1>t DEF Slot, To
  <2>3. /\ \A c \in Client : c # To(g, 0) => pc'[c] = pc[c] /\ result'[c] = result[c]
        /\ To(g, 0) \in Client => pc'[To(g, 0)] = "idle"
    BY <2>1, <2>2, <1>t, Answered1
  <2>4. ASSUME NEW h \in Engine, NEW i \in Slot(h)', To(h, i)' \in Client
        PROVE  /\ i + none[h] \in Slot(h) /\ To(h, i)' = To(h, i + none[h])
               /\ pc'[To(h, i)'] = "waiting"
    <3>1. ~(i = 0 /\ h = g)
      BY <2>1, <2>4, <1>z, EndLoop DEF To
    <3>2. i \in Slot(h) /\ i + none[h] = i
      BY <1>n, <2>1, <1>t DEF Slot
    <3>3. To(h, i)' = To(h, i)
      BY <2>1, <3>1, EndLoop DEF To
    <3>4. To(h, i)' # To(g, 0)
      BY <2>2, <2>4, <3>1, <3>2, <3>3 DEF MailInv
    <3> QED BY <2>3, <2>4, <3>2, <3>3, <3>4 DEF MailInv
  <2>5. \A c \in Client : pc'[c] = "waiting" => pc[c] = "waiting" /\ result'[c] = result[c]
    BY <2>3
  <2> QED BY <2>4, <2>5, <1>n, MailKept
<1>7. ASSUME NEW g \in Engine, Abort(g) PROVE MailInv'
  <2>1. EndRequest(g) /\ queue' = [queue EXCEPT ![g] = <<>>]
    BY <1>7 DEF Abort
  <2>2. \A c \in Client : c \notin Holding(g) => pc'[c] = pc[c] /\ result'[c] = result[c]
    BY <1>7 DEF Abort
  <2>3. \A c \in Client : c \in Holding(g) => pc'[c] = "idle"
    BY <1>7 DEF Abort
  <2>4. \A c \in Holding(g) : \E i \in Slot(g) : c = To(g, i)
    BY <1>t DEF Holding, Slot, To
  <2>5. ASSUME NEW h \in Engine, NEW i \in Slot(h)', To(h, i)' \in Client
        PROVE  /\ i + none[h] \in Slot(h) /\ To(h, i)' = To(h, i + none[h])
               /\ pc'[To(h, i)'] = "waiting"
    <3>a. queue'[g] = <<>> /\ (h # g => queue'[h] = queue[h])
      BY <2>1 DEF TypeOK
    <3>b. req'[g] = NoReq /\ (h # g => req'[h] = req[h])
      BY <2>1, EndLoop
    <3>1. h # g
      <4>1. SUFFICES ASSUME h = g PROVE FALSE
        OBVIOUS
      <4>2. i = 0
        BY <3>a, <4>1 DEF Slot
      <4> QED BY <2>5, <1>z, <3>b, <4>1, <4>2 DEF To
    <3>2. i \in Slot(h) /\ i + none[h] = i
      BY <1>n, <3>a, <3>1, <1>t DEF Slot
    <3>3. To(h, i)' = To(h, i)
      BY <3>a, <3>b, <3>1 DEF To
    <3>4. To(h, i)' \notin Holding(g)
      BY <2>4, <2>5, <3>1, <3>2, <3>3 DEF MailInv
    <3> QED BY <2>2, <2>5, <3>2, <3>3, <3>4 DEF MailInv
  <2>6. \A c \in Client : pc'[c] = "waiting" => pc[c] = "waiting" /\ result'[c] = result[c]
    BY <2>2, <2>3
  <2> QED BY <2>5, <2>6, <1>n, MailKept
<1>8. ASSUME NEW c \in Client, Cancel(c) PROVE MailInv'
  <2>1. pc' = [pc EXCEPT ![c] = "idle"] /\ result' = result
    BY <1>8 DEF Cancel
  <2>2. ASSUME NEW h \in Engine, NEW i \in Slot(h)', To(h, i)' \in Client
        PROVE  /\ i + none[h] \in Slot(h) /\ To(h, i)' = To(h, i + none[h])
               /\ pc'[To(h, i)'] = "waiting"
    <3>1. i \in Slot(h) /\ i + none[h] = i
      BY <1>8, <1>n, <1>t, Forgotten DEF Slot
    <3>2. /\ req[h] \in Request
          /\ i # 0 => i \in 1..Len(queue'[h]) /\ queue[h][i] \in Request
      <4>1. req[h] \in Request /\ queue[h] \in Seq(Request) /\ Len(queue'[h]) = Len(queue[h])
        BY <1>8, Forgotten DEF TypeOK
      <4>2. i # 0 => i \in 1..Len(queue[h])
        BY <3>1, <1>t DEF Slot
      <4> QED BY <4>1, <4>2
    <3>3. \A r \in Request : Forget(r, c).to = IF r.to = c THEN NoOne ELSE r.to
      BY DEF Forget, Request
    <3>4. To(h, i)' = IF To(h, i) = c THEN NoOne ELSE To(h, i)
      BY <1>8, <3>2, <3>3, Forgotten DEF To
    <3>5. To(h, i)' = To(h, i) /\ To(h, i) # c
      BY <1>z, <2>2, <3>4
    <3>6. pc[To(h, i)] = "waiting"
      BY <2>2, <3>1, <3>5 DEF MailInv
    <3>7. pc'[To(h, i)] = pc[To(h, i)]
      BY <2>1, <2>2, <3>5 DEF TypeOK
    <3> QED BY <3>1, <3>5, <3>6, <3>7
  <2>3. \A d \in Client : pc'[d] = "waiting" => pc[d] = "waiting" /\ result'[d] = result[d]
    BY <2>1 DEF TypeOK
  <2> QED BY <2>2, <2>3, <1>n, MailKept
<1>9. ASSUME NEW c \in Client, NEW g \in Engine, NEW op \in {"propose", "sync"},
             NEW e \in Entry \cup {Hole}, Call(c, g, op, e)
      PROVE  MailInv'
  <2> DEFINE r == [to |-> c, op |-> op, entry |-> e]
  <2>1. r \in Request /\ r.to = c
    BY DEF Request
  <2>2. \A h \in Engine : \A i \in 1..Len(queue'[h]) :
             \/ i \in 1..Len(queue[h]) /\ queue'[h][i] = queue[h][i]
             \/ h = g /\ i = Len(queue[g]) + 1 /\ queue'[h][i] = r
    BY <1>9, <2>1, QueueSent DEF Call
  <2>3. /\ req' = req /\ pc[c] = "idle"
        /\ pc' = [pc EXCEPT ![c] = "waiting"]
        /\ result' = [result EXCEPT ![c] = Res(op, "pending", 0, <<>>)]
    BY <1>9 DEF Call, loopVars
  <2> HIDE DEF r
  <2>4. ASSUME NEW h \in Engine, NEW i \in Slot(h)', To(h, i)' # c
        PROVE  i \in Slot(h) /\ To(h, i)' = To(h, i)
    <3>1. CASE i = 0
      BY <3>1, <2>3, <1>t DEF Slot, To
    <3>2. CASE i # 0
      <4>1. i \in 1..Len(queue'[h])
        BY <3>2 DEF Slot, TypeOK
      <4> QED BY <4>1, <2>1, <2>2, <2>4, <3>2, <1>t DEF Slot, To
    <3> QED BY <3>1, <3>2
  <2>5. ASSUME NEW h \in Engine, NEW i \in Slot(h)', To(h, i)' = c
        PROVE  h = g /\ i = Len(queue[g]) + 1
    <3>1. ~(i \in Slot(h) /\ To(h, i)' = To(h, i))
      BY <2>3, <2>5 DEF MailInv
    <3>2. i # 0
      BY <2>3, <3>1, <1>t DEF Slot, To
    <3>3. i \in 1..Len(queue'[h])
      BY <3>2 DEF Slot, TypeOK
    <3> QED BY <2>2, <3>1, <3>2, <3>3, <1>t DEF Slot, To
  <2>6. \A d \in Client : pc'[d] = "waiting" => result'[d].tag = "pending"
    BY <2>3 DEF MailInv, TypeOK, Res
  <2>7. \A h \in Engine : \A i \in Slot(h)' :
          To(h, i)' \in Client => pc'[To(h, i)'] = "waiting"
    <3>1. pc'[c] = "waiting" /\ \A d \in Client : d # c => pc'[d] = pc[d]
      BY <2>3 DEF TypeOK
    <3> QED BY <2>4, <3>1 DEF MailInv
  <2>8. ASSUME NEW h \in Engine, NEW k \in Engine, NEW i \in Slot(h)', NEW j \in Slot(k)',
               To(h, i)' \in Client, To(h, i)' = To(k, j)'
        PROVE  h = k /\ i = j
    BY <2>4, <2>5, <2>8 DEF MailInv
  <2> QED BY <2>6, <2>7, <2>8 DEF MailInv
<1> QED
  BY <1>2, <1>3, <1>4, <1>5, <1>6, <1>7, <1>8, <1>9 DEF Next, Loop
-------------------------------------------------------------------------------
(* The stores *)

PrefixIn(st) == /\ st.cursor = Len(st.applied) + 1
                /\ Len(st.applied) <= Len(log)
                /\ \A i \in 1..Len(st.applied) : st.applied[i] = log[i]

(* A store that is not written stays a prefix of a log that only grows. *)
LEMMA PrefixKept ==
  ASSUME TypeOK, Next, NEW st \in State, PrefixIn(st)
  PROVE  PrefixIn(st)'
<1>1. /\ Len(log) \in Nat /\ Len(log') \in Nat /\ Len(log) <= Len(log')
      /\ \A i \in 1..Len(log) : log'[i] = log[i]
  BY LogGrows
<1>2. Len(st.applied) \in Nat
  BY DEF State
<1> QED BY <1>1, <1>2 DEF PrefixIn

LEMMA StoreStep ==
  ASSUME ~Overlap, TypeOK, LoopInv, StoreInv, Next
  PROVE  StoreInv'
<1>p. AppliedIsLogPrefix <=> \A s \in Store : PrefixIn(store[s])
  BY DEF AppliedIsLogPrefix, PrefixIn
<1>q. AppliedIsLogPrefix' <=> \A s \in Store : PrefixIn(store[s])'
  BY DEF AppliedIsLogPrefix, PrefixIn
<1>s. \A g \in Engine : StoreOf[g] \in Store
  BY StoreOfAssumption
<1>t. \A s \in Store : store[s] \in State
  BY DEF TypeOK
(* Steps that write no store and start no loop. *)
<1>1. ASSUME store' = store, \A g \in Engine : Running(g)' => Running(g) /\ cursor'[g] = cursor[g],
             \A g \in Engine : phase'[g] = "commit" => phase[g] = "commit" /\ txn'[g] = txn[g]
      PROVE  StoreInv'
  <2>1. AppliedIsLogPrefix'
    BY <1>1, <1>p, <1>q, <1>t, PrefixKept DEF StoreInv, PrefixIn
  <2> QED BY <1>1, <2>1 DEF StoreInv
<1>2. ASSUME NEW g \in Engine, NewEngine(g) PROVE StoreInv'
  <2>1. /\ \A h \in Engine : StoreOf[h] = StoreOf[g] => ~Running(h)
        /\ store' = store /\ log' = log /\ phase' = phase /\ txn' = txn
        /\ cursor' = [cursor EXCEPT ![g] = store[StoreOf[g]].cursor]
        /\ life' = [life EXCEPT ![g] = "up"]
    BY <1>2 DEF NewEngine, InitialCursor
  <2>2. /\ \A h \in Engine : h # g => cursor'[h] = cursor[h] /\ (Running(h)' <=> Running(h))
        /\ cursor'[g] = store[StoreOf[g]].cursor
    BY <2>1 DEF TypeOK, Running
  <2>3. \A h, k \in Engine : Running(h)' /\ Running(k)' /\ StoreOf[h] = StoreOf[k] => h = k
    BY <2>1, <2>2 DEF StoreInv
  <2>4. AppliedIsLogPrefix'
    BY <2>1 DEF StoreInv, AppliedIsLogPrefix
  <2> QED BY <2>1, <2>2, <2>3, <2>4 DEF StoreInv
<1>3. ASSUME NEW g \in Engine, ApplyBegin(g) PROVE StoreInv'
  <2>1. /\ store' = store /\ log' = log /\ cursor' = cursor /\ life' = life
        /\ txn'[g] = store[StoreOf[g]]
        /\ \A h \in Engine : h # g => phase'[h] = phase[h] /\ txn'[h] = txn[h]
    BY <1>3 DEF ApplyBegin, engineVars, TypeOK
  <2>2. AppliedIsLogPrefix'
    BY <2>1 DEF StoreInv, AppliedIsLogPrefix
  <2> QED BY <2>1, <2>2 DEF StoreInv, Running
<1>4. ASSUME NEW g \in Engine, ApplyCommit(g) PROVE StoreInv'
  <2> DEFINE s == StoreOf[g]
             st == store[s]
             e == log[cursor[g]]
  <2>1. /\ Running(g) /\ phase[g] = "commit" /\ life' = life /\ log' = log
        /\ store' = [store EXCEPT ![s] = CommitState(g)]
        /\ cursor' = [cursor EXCEPT ![g] = cursor[g] + 1]
        /\ phase' = [phase EXCEPT ![g] = "play"]
        /\ txn' = [txn EXCEPT ![g] = EmptyState]
    BY <1>4 DEF ApplyCommit, engineVars
  <2>2. /\ txn[g] = st /\ cursor[g] = st.cursor /\ PrefixIn(st)
    BY <2>1, <1>p, <1>s DEF StoreInv
  <2>3. cursor[g] <= target[g] /\ target[g] <= Len(log) /\ cursor[g] \in Nat /\ target[g] \in Nat
        /\ Len(log) \in Nat
    BY <2>1 DEF LoopInv, LoopPart, TypeOK
  <2>4. st.applied \in Seq(Entry) /\ Len(st.applied) \in Nat
    BY <1>s, <1>t DEF State
  <2>5. CommitState(g) = [applied |-> Append(st.applied, e), cursor |-> cursor[g] + 1]
    BY <2>2 DEF CommitState, Applied
  <2>6. /\ Len(Append(st.applied, e)) = Len(st.applied) + 1
        /\ \A i \in 1..Len(st.applied) : Append(st.applied, e)[i] = st.applied[i]
        /\ Append(st.applied, e)[Len(st.applied) + 1] = e
    BY <2>4
  <2>7. PrefixIn(CommitState(g))
    <3>1. cursor[g] = Len(st.applied) + 1
      BY <2>2 DEF PrefixIn
    <3>2. ASSUME NEW i \in 1..(Len(st.applied) + 1) PROVE Append(st.applied, e)[i] = log[i]
      <4>1. CASE i \in 1..Len(st.applied)
        BY <2>2, <2>6, <4>1 DEF PrefixIn
      <4>2. CASE i = Len(st.applied) + 1
        BY <2>2, <2>6, <3>1, <4>2
      <4> QED BY <2>4, <4>1, <4>2
    <3>3. CommitState(g).applied = Append(st.applied, e) /\ CommitState(g).cursor = cursor[g] + 1
      BY <2>5
    <3>4. Len(st.applied) + 1 <= Len(log) /\ cursor[g] + 1 = Len(st.applied) + 1 + 1
      BY <2>1, <2>3, <2>4, <3>1
    <3> QED BY <2>6, <3>2, <3>3, <3>4 DEF PrefixIn
  <2>8. \A r \in Store : store'[r] = IF r = s THEN CommitState(g) ELSE store[r]
    BY <2>1, <1>s DEF TypeOK
  <2>9. AppliedIsLogPrefix'
    <3>1. \A r \in Store : PrefixIn(store'[r])
      BY <2>7, <2>8, <1>p DEF StoreInv
    <3> QED BY <3>1, <2>1 DEF AppliedIsLogPrefix, PrefixIn
  <2>10. \A h \in Engine : h # g /\ Running(h) => StoreOf[h] # s
    BY <2>1 DEF StoreInv
  <2>11. \A h \in Engine : Running(h)' => cursor'[h] = store'[StoreOf[h]].cursor
    <3>1. cursor'[g] = CommitState(g).cursor
      BY <2>1, <2>5 DEF TypeOK
    <3>2. \A h \in Engine : h # g => cursor'[h] = cursor[h]
      BY <2>1 DEF TypeOK
    <3> QED BY <2>1, <2>8, <2>10, <3>1, <3>2, <1>s DEF StoreInv, Running
  <2>12. \A h \in Engine : phase'[h] = "commit" => txn'[h] = store'[StoreOf[h]]
    <3>1. \A h \in Engine : phase'[h] = "commit" =>
            h # g /\ phase[h] = "commit" /\ txn'[h] = txn[h] /\ Running(h)
      BY <2>1 DEF TypeOK, LoopInv, LoopPart
    <3> QED BY <2>8, <2>10, <3>1, <1>s DEF StoreInv
  <2> QED BY <2>1, <2>9, <2>11, <2>12 DEF StoreInv, Running
<1>5. ASSUME NEW g \in Engine, \/ DropEngine(g) \/ LoopExits(g)
                               \/ ProposeFails(g) \/ SyncFails(g)
      PROVE  StoreInv'
  BY <1>1, <1>5 DEF DropEngine, LoopExits, ProposeFails, SyncFails, loopVars, Running, TypeOK
<1>6. ASSUME NEW g \in Engine, Propose(g) \/ Sync(g) PROVE StoreInv'
  BY <1>1, <1>6 DEF Propose, Sync, Running, TypeOK
<1>7. ASSUME NEW g \in Engine, ApplyFails(g) \/ Reply(g) \/ Abort(g) PROVE StoreInv'
  <2>1. EndRequest(g) /\ store' = store /\ cursor' = cursor
    BY <1>7 DEF ApplyFails, Reply, Abort
  <2>2. \A h \in Engine : Running(h)' => Running(h)
    BY <1>7 DEF ApplyFails, Reply, Abort, engineVars, Running, TypeOK
  <2>3. \A h \in Engine : phase'[h] = "commit" => phase[h] = "commit" /\ txn'[h] = txn[h]
    BY <2>1, EndLoop
  <2> QED BY <1>1, <2>1, <2>2, <2>3
<1>8. ASSUME NEW c \in Client,
             \/ Cancel(c)
             \/ \E g \in Engine : \E op, e : CallDead(c, g, op) \/ Call(c, g, op, e)
      PROVE  StoreInv'
  BY <1>1, <1>8 DEF Cancel, CallDead, Call, engineVars, loopVars, Running
<1> QED
  BY <1>2, <1>3, <1>4, <1>5, <1>6, <1>7, <1>8 DEF Next, Loop
-------------------------------------------------------------------------------
(* The results *)

LEMMA SubSeqIs ==
  ASSUME NEW S, NEW s \in Seq(S), NEW n \in Nat, n <= Len(s),
         NEW T, NEW t \in Seq(T), Len(t) = n, \A i \in 1..n : t[i] = s[i]
  PROVE  t = SubSeq(s, 1, n)
<1>1. /\ Len(SubSeq(s, 1, n)) = n /\ SubSeq(s, 1, n) \in Seq(S)
      /\ \A i \in 1..n : SubSeq(s, 1, n)[i] = s[i]
  BY SMT
<1>2. t \in Seq(S \cup T) /\ SubSeq(s, 1, n) \in Seq(S \cup T)
  BY <1>1, SeqMonotonic
<1> QED BY <1>1, <1>2, SeqEqual

LEMMA SubSeqKept ==
  ASSUME TypeOK, TypeOK', Next, NEW n \in 0..Len(log)
  PROVE  SubSeq(log', 1, n) = SubSeq(log, 1, n)
<1> DEFINE E == Entry \cup {Hole}
<1>1. log \in Seq(E) /\ log' \in Seq(E)
  BY DEF TypeOK
<1>2. /\ Len(log) \in Nat /\ Len(log') \in Nat /\ Len(log) <= Len(log')
      /\ \A i \in 1..Len(log) : log'[i] = log[i]
  BY LogGrows
<1> HIDE DEF E
<1>3. /\ SubSeq(log, 1, n) \in Seq(E) /\ Len(SubSeq(log, 1, n)) = n
      /\ \A i \in 1..n : SubSeq(log, 1, n)[i] = log[i]
  BY <1>1, <1>2
<1>4. \A i \in 1..n : SubSeq(log, 1, n)[i] = log'[i]
  BY <1>2, <1>3
<1> QED BY <1>1, <1>2, <1>3, <1>4, SubSeqIs

(* An engine that a step does not touch, or whose caller it forgets. *)
LEMMA ReplyRest ==
  ASSUME TypeOK, TypeOK', Next, LoopInv, ReplyInv, NEW h \in Engine,
         phase'[h] = phase[h], target'[h] = target[h], cursor'[h] = cursor[h],
         ret'[h] = ret[h], req'[h].op = req[h].op, req'[h].entry = req[h].entry,
         req'[h].to \in Client => /\ req'[h].to = req[h].to
                                  /\ known'[req[h].to] = known[req[h].to]
  PROVE  ReplyPart(h)'
<1> SUFFICES ASSUME Proposing(h)'
             PROVE  /\ target'[h] >= 1
                    /\ log'[target'[h]] = req'[h].entry
                    /\ req'[h].to \in Client => target'[h] > known'[req'[h].to]
                    /\ cursor'[h] <= target'[h] + 1
                    /\ cursor'[h] > target'[h] => ret'[h] = SubSeq(log', 1, target'[h])
  BY DEF ReplyPart
<1>1. Proposing(h) /\ ReplyPart(h)
  BY DEF Proposing, ReplyInv
<1>2. target[h] \in 1..Len(log)
  BY <1>1 DEF LoopInv, LoopPart, ReplyPart, TypeOK
<1>3. log'[target[h]] = log[target[h]]
  BY <1>2, LogGrows
<1>4. SubSeq(log', 1, target[h]) = SubSeq(log, 1, target[h])
  <2>1. target[h] \in 0..Len(log)
    BY <1>2 DEF TypeOK
  <2> QED BY <2>1, SubSeqKept
<1> QED BY <1>1, <1>2, <1>3, <1>4 DEF ReplyPart

LEMMA ReplyStep ==
  ASSUME TypeOK, TypeOK', LoopInv, MailInv, StoreInv, ReplyInv, Next
  PROVE  ReplyInv'
<1>l. /\ Len(log) \in Nat /\ Len(log') \in Nat /\ Len(log) <= Len(log')
      /\ \A i \in 1..Len(log) : log'[i] = log[i]
  BY LogGrows
<1>f. finished \in Nat /\ \A c \in Client : known[c] \in Nat
  BY DEF TypeOK
<1>g. \A g \in Engine : /\ target[g] \in Nat /\ target[g] <= Len(log) /\ cursor[g] \in Nat
                        /\ phase[g] = "recv" => req[g] = NoReq
  BY DEF TypeOK, LoopInv, LoopPart
(* Steps that end no proposal and begin none. *)
<1>1. ASSUME finished' = finished, known' = known, \A h \in Engine : ReplyPart(h)'
      PROVE  ReplyInv'
  BY <1>1, <1>l, <1>f DEF ReplyInv
<1>2. ASSUME NEW g \in Engine, NewEngine(g) PROVE ReplyInv'
  <2>1. ReplyPart(g)'
    <3>1. phase'[g] = phase[g] /\ phase[g] = "recv"
      BY <1>2 DEF NewEngine, LoopInv, LoopPart, Running, TypeOK
    <3> QED BY <3>1 DEF ReplyPart, Proposing
  <2>2. ASSUME NEW h \in Engine, h # g PROVE ReplyPart(h)'
    <3>1. UNCHANGED <<phase, target, ret, req, known>> /\ cursor'[h] = cursor[h]
      BY <1>2, <2>2 DEF NewEngine, clientVars, TypeOK
    <3> QED BY <3>1, ReplyRest
  <2>3. finished' = finished /\ known' = known
    BY <1>2 DEF NewEngine, clientVars
  <2> QED BY <1>1, <2>1, <2>2, <2>3
<1>3. ASSUME NEW g \in Engine, DropEngine(g) \/ LoopExits(g) PROVE ReplyInv'
  BY <1>1, <1>3, ReplyRest DEF DropEngine, LoopExits, loopVars, clientVars
<1>4. ASSUME NEW g \in Engine, Propose(g) PROVE ReplyInv'
  <2> DEFINE q == queue[g][1]
  <2>1. Receive(g, "propose") /\ Running(g)
    BY <1>4 DEF Propose, Receive
  <2>2. Head(queue[g]) = q /\ q \in Request
    BY <2>1, QueueReceived
  <2>3. /\ log' = Append(log, q.entry) /\ target'[g] = Len(log) + 1 /\ req'[g] = q
        /\ cursor' = cursor /\ known' = known /\ finished' = finished
        /\ \A h \in Engine : h # g => /\ target'[h] = target[h] /\ req'[h] = req[h]
                                      /\ phase'[h] = phase[h] /\ ret'[h] = ret[h]
    BY <1>4, <2>2 DEF Propose, TypeOK, clientVars
  <2>4. log'[Len(log) + 1] = q.entry
    BY <2>3 DEF TypeOK
  <2>5. cursor[g] <= Len(log) + 1
    <3>1. cursor[g] = store[StoreOf[g]].cursor /\ StoreOf[g] \in Store
      BY <2>1, StoreOfAssumption DEF StoreInv
    <3>2. store[StoreOf[g]] \in State
      BY <3>1 DEF TypeOK
    <3>3. Len(store[StoreOf[g]].applied) \in Nat
      BY <3>2 DEF State
    <3> QED BY <3>1, <3>3, <1>l DEF StoreInv, AppliedIsLogPrefix
  <2>6. q.to \in Client => Len(log) + 1 > known[q.to]
    BY <1>l, <1>f DEF ReplyInv
  <2>7. ReplyPart(g)'
    BY <1>l, <1>g, <2>3, <2>4, <2>5, <2>6 DEF ReplyPart
  <2>8. \A h \in Engine : h # g => ReplyPart(h)'
    BY <2>3, ReplyRest
  <2> QED BY <1>1, <2>3, <2>7, <2>8
<1>5. ASSUME NEW g \in Engine, ProposeFails(g) \/ SyncFails(g) PROVE ReplyInv'
  <2>1. PICK op : Receive(g, op) /\ finished' = finished
    BY <1>5 DEF ProposeFails, SyncFails
  <2>2. Head(queue[g]) = queue[g][1] /\ queue[g][1] \in Request
    BY <2>1, QueueReceived
  <2>3. known' = known
    BY <1>5, <2>2, Answered1 DEF ProposeFails, SyncFails, Fail, Request
  <2>4. \A h \in Engine : ReplyPart(h)'
    BY <1>5, <2>3, ReplyRest DEF ProposeFails, SyncFails, loopVars
  <2> QED BY <1>1, <2>1, <2>3, <2>4
<1>6. ASSUME NEW g \in Engine, Sync(g) PROVE ReplyInv'
  <2>1. Receive(g, "sync")
    BY <1>6 DEF Sync
  <2>2. Head(queue[g]).op = "sync"
    BY <2>1, QueueReceived
  <2>3. req'[g].op = "sync"
    BY <1>6, <2>2 DEF Sync, TypeOK
  <2>4. ReplyPart(g)'
    BY <2>3 DEF ReplyPart, Proposing
  <2>5. \A h \in Engine : h # g => ReplyPart(h)'
    <3>1. /\ cursor' = cursor /\ known' = known /\ ret' = ret
          /\ \A h \in Engine : h # g => /\ target'[h] = target[h] /\ req'[h] = req[h]
                                        /\ phase'[h] = phase[h]
      BY <1>6 DEF Sync, clientVars, TypeOK
    <3> QED BY <3>1, ReplyRest
  <2> QED BY <1>1, <1>6, <2>4, <2>5 DEF Sync, clientVars
<1>7. ASSUME NEW g \in Engine, ApplyBegin(g) PROVE ReplyInv'
  <2>1. /\ log' = log /\ req' = req /\ cursor' = cursor /\ target' = target /\ ret' = ret
        /\ known' = known /\ finished' = finished
        /\ phase[g] = "play" /\ phase'[g] = "commit"
        /\ \A h \in Engine : h # g => phase'[h] = phase[h]
    BY <1>7 DEF ApplyBegin, clientVars, TypeOK
  <2>2. \A h \in Engine : ReplyPart(h)'
    BY <2>1 DEF ReplyInv, ReplyPart, Proposing
  <2> QED BY <1>1, <2>1, <2>2
<1>8. ASSUME NEW g \in Engine, ApplyCommit(g) PROVE ReplyInv'
  <2>1. /\ log' = log /\ req' = req /\ target' = target
        /\ known' = known /\ finished' = finished
        /\ phase[g] = "commit" /\ cursor'[g] = cursor[g] + 1 /\ ret'[g] = ReturnTarget(g)
        /\ \A h \in Engine : h # g => /\ phase'[h] = phase[h] /\ cursor'[h] = cursor[h]
                                      /\ ret'[h] = ret[h]
    BY <1>8 DEF ApplyCommit, clientVars, TypeOK
  <2>2. cursor[g] <= target[g]
    BY <2>1 DEF LoopInv, LoopPart
  <2>3. ASSUME cursor'[g] > target'[g] PROVE ret'[g] = SubSeq(log', 1, target'[g])
    <3>1. cursor[g] = target[g]
      BY <1>g, <2>1, <2>2, <2>3
    <3>2. ret'[g] = Append(txn[g].applied, log[target[g]])
      BY <2>1, <3>1 DEF ReturnTarget, Applied
    <3>3. StoreOf[g] \in Store /\ Running(g)
      BY <1>8, StoreOfAssumption DEF ApplyCommit
    <3> DEFINE ap == store[StoreOf[g]].applied
    <3>4. /\ txn[g] = store[StoreOf[g]] /\ target[g] = Len(ap) + 1
          /\ \A i \in 1..Len(ap) : ap[i] = log[i]
      BY <2>1, <3>1, <3>3 DEF StoreInv, AppliedIsLogPrefix
    <3>5. ap \in Seq(Entry) /\ log[target[g]] \in Entry \cup {Hole}
      <4>1. store[StoreOf[g]] \in State /\ log \in Seq(Entry \cup {Hole})
        BY <3>3 DEF TypeOK
      <4>2. target[g] \in 1..Len(log)
        BY <1>g, <3>1 DEF LoopInv, LoopPart
      <4> QED BY <4>1, <4>2 DEF State
    <3>6. ap \in Seq(Entry \cup {Hole})
      BY <3>5, SeqMonotonic
    <3>7. /\ Append(ap, log[target[g]]) \in Seq(Entry \cup {Hole})
          /\ Len(Append(ap, log[target[g]])) = Len(ap) + 1
          /\ \A i \in 1..Len(ap) : Append(ap, log[target[g]])[i] = ap[i]
          /\ Append(ap, log[target[g]])[Len(ap) + 1] = log[target[g]]
      BY <3>5, <3>6, AppendProperties
    <3> HIDE DEF ap
    <3>8. Len(ap) \in Nat
      BY <3>5
    <3>9. \A i \in 1..target[g] : Append(ap, log[target[g]])[i] = log[i]
      BY <3>4, <3>7, <3>8
    <3>10. log \in Seq(Entry \cup {Hole})
      BY DEF TypeOK
    <3>11. Append(ap, log[target[g]]) = SubSeq(log, 1, target[g])
      BY <1>g, <3>4, <3>7, <3>9, <3>10, SubSeqIs
    <3> QED BY <2>1, <3>2, <3>4, <3>11 DEF ap
  <2>4. ReplyPart(g)'
    BY <1>g, <2>1, <2>2, <2>3 DEF ReplyInv, ReplyPart, Proposing
  <2>5. \A h \in Engine : h # g => ReplyPart(h)'
    BY <2>1 DEF ReplyInv, ReplyPart, Proposing
  <2> QED BY <1>1, <2>1, <2>4, <2>5
<1>9. ASSUME NEW g \in Engine, ApplyFails(g) \/ Reply(g) \/ Abort(g) PROVE ReplyInv'
  <2>1. EndRequest(g) /\ cursor' = cursor /\ log' = log
    BY <1>9 DEF ApplyFails, Reply, Abort
  <2>2. known' = known
    <3>1. req[g].to \in Client \cup {NoOne}
      BY DEF TypeOK, Request
    <3> QED BY <1>9, <3>1, Answered1 DEF ApplyFails, Reply, Abort, Fail
  <2>3. ReplyPart(g)'
    BY <2>1, EndLoop DEF ReplyPart, Proposing
  <2>4. ASSUME NEW h \in Engine, h # g PROVE ReplyPart(h)'
    <3>1. /\ phase'[h] = phase[h] /\ req'[h] = req[h] /\ target'[h] = target[h]
          /\ ret'[h] = ret[h]
      BY <2>1, <2>4, EndLoop
    <3> QED BY <2>1, <2>2, <3>1, ReplyRest
  <2>5. finished' = finished \/ (finished' = target[g] /\ target[g] > finished)
    BY <1>9 DEF ApplyFails, Reply, Abort
  <2>6. finished' <= Len(log') /\ \A c \in Client : known'[c] <= finished'
    BY <1>f, <1>g, <1>l, <2>1, <2>2, <2>5 DEF ReplyInv
  <2> QED BY <2>3, <2>4, <2>6 DEF ReplyInv
<1>10. ASSUME NEW c \in Client, Cancel(c) PROVE ReplyInv'
  <2>1. ASSUME NEW h \in Engine
        PROVE  /\ req'[h].op = req[h].op /\ req'[h].entry = req[h].entry
               /\ req'[h].to \in Client => req'[h].to = req[h].to
    <3>1. req[h] \in Request
      BY DEF TypeOK
    <3>2. req'[h] = Forget(req[h], c)
      BY <1>10, Forgotten
    <3> QED BY <3>1, <3>2, NoOneAssumption DEF Forget, Request
  <2>2. \A h \in Engine : ReplyPart(h)'
    BY <1>10, <2>1, ReplyRest DEF Cancel
  <2> QED BY <1>1, <1>10, <2>2 DEF Cancel
<1>11. ASSUME NEW c \in Client, NEW g \in Engine, NEW op, NEW e, Call(c, g, op, e)
       PROVE  ReplyInv'
  <2>1. /\ pc[c] = "idle" /\ known' = [known EXCEPT ![c] = finished]
        /\ finished' = finished /\ log' = log
    BY <1>11 DEF Call
  <2>2. ASSUME NEW h \in Engine PROVE req[h].to # c
    <3>1. 0 \in Slot(h) /\ To(h, 0) = req[h].to
      BY SlotTypes DEF Slot, To
    <3> QED BY <2>1, <3>1 DEF MailInv
  <2>3. \A h \in Engine : req[h].to \in Client => known'[req[h].to] = known[req[h].to]
    BY <2>1, <2>2 DEF TypeOK
  <2>4. \A h \in Engine : ReplyPart(h)'
    BY <1>11, <2>3, ReplyRest DEF Call, loopVars
  <2>5. \A d \in Client : known'[d] <= finished
    BY <1>f, <2>1 DEF ReplyInv, TypeOK
  <2> QED BY <2>1, <2>4, <2>5 DEF ReplyInv
<1>12. ASSUME NEW c \in Client, NEW g \in Engine, NEW op, CallDead(c, g, op)
       PROVE  ReplyInv'
  BY <1>1, <1>12, ReplyRest DEF CallDead, loopVars
<1> QED
  BY <1>2, <1>3, <1>4, <1>5, <1>6, <1>7, <1>8, <1>9, <1>10, <1>11, <1>12 DEF Next, Loop
-------------------------------------------------------------------------------
(* The theorems *)

LEMMA InitInv == Init => Inv
<1> SUFFICES ASSUME Init PROVE Inv
  OBVIOUS
<1>1. EmptyState \in State /\ NoReq \in Request /\ NoReq.to = NoOne /\ NoReq.op = "none"
      /\ <<>> \in Seq(Entry) /\ <<>> \in Seq(Request) /\ <<>> \in Seq(Entry \cup {Hole})
  BY EmptySeq DEF EmptyState, State, NoReq, Request
<1>2. TypeOK
  BY <1>1, BoundsAssumption DEF Init, TypeOK, Res
<1>3. LoopInv
  BY <1>1 DEF Init, LoopInv, LoopPart, EmptyState, Carries
<1>4. MailInv
  BY <1>1, NoOneAssumption DEF Init, MailInv, Slot, To, Res
<1>5. StoreInv
  BY DEF Init, StoreInv, AppliedIsLogPrefix, Running, EmptyState
<1>6. ReplyInv
  BY DEF Init, ReplyInv, ReplyPart, Proposing
<1> QED BY <1>2, <1>3, <1>4, <1>5, <1>6 DEF Inv

LEMMA StutterInv == Inv /\ UNCHANGED vars => Inv'
<1> SUFFICES ASSUME Inv, UNCHANGED vars PROVE Inv'
  OBVIOUS
<1> USE DEF vars, engineVars, loopVars, clientVars
<1>1. TypeOK'
  BY DEF Inv, TypeOK
<1>2. LoopInv'
  BY DEF Inv, LoopInv, LoopPart, Running, Carries
<1>3. MailInv'
  BY DEF Inv, MailInv, Slot, To
<1>4. StoreInv'
  BY DEF Inv, StoreInv, AppliedIsLogPrefix, Running
<1>5. ReplyInv'
  BY DEF Inv, ReplyInv, ReplyPart, Proposing
<1> QED BY <1>1, <1>2, <1>3, <1>4, <1>5 DEF Inv

(* Every variable keeps its type, and no apply meets an empty position:     *)
(* with overlapping loops too.                                              *)
THEOREM TypeCorrect == Spec => []TypeOK
<1>1. Init => TypeOK /\ LoopInv
  BY InitInv DEF Inv
<1>2. TypeOK /\ LoopInv /\ [Next]_vars => (TypeOK /\ LoopInv)'
  <2>1. TypeOK /\ LoopInv /\ UNCHANGED vars => (TypeOK /\ LoopInv)'
    BY DEF TypeOK, LoopInv, LoopPart, Running, Carries, vars, engineVars, loopVars, clientVars
  <2> QED BY <2>1, TypeStep, LoopStep
<1> QED BY <1>1, <1>2, PTL DEF Spec

(* Loops, callers, stores and results, as Inv says, for every behaviour in  *)
(* which an engine is created on a store only after the loop before it has  *)
(* ended.                                                                   *)
THEOREM Invariance == ~Overlap => (Spec => []Inv)
<1> SUFFICES ASSUME ~Overlap PROVE Spec => []Inv
  OBVIOUS
<1>1. Inv /\ [Next]_vars => Inv'
  <2>1. ASSUME Inv, Next PROVE Inv'
    <3> USE <2>1 DEF Inv
    <3>1. TypeOK'
      BY TypeStep
    <3> QED BY <3>1, LoopStep, MailStep, StoreStep, ReplyStep
  <2> QED BY <2>1, StutterInv
<1> QED BY <1>1, InitInv, PTL DEF Spec

(* Every store is the log applied from its beginning, each entry once and   *)
(* in order, up to its cursor (base_engine.rs:111-180).                     *)
THEOREM StoresAreLogPrefixes == ~Overlap => (Spec => []AppliedIsLogPrefix)
<1>1. Inv => AppliedIsLogPrefix
  BY DEF Inv, StoreInv
<1> QED BY <1>1, Invariance, PTL

(* A propose that returns Ok returns the result of its own entry, applied   *)
(* after everything before it in the log and above every proposal that had  *)
(* finished before it was made (traits.rs:21-22).                           *)
THEOREM ProposersGetTheirOwn == ~Overlap => (Spec => ProposeReturnsItsOwn)
<1> DEFINE Own(c, g) ==
      Answered(c) /\ result'[c].op = "propose" /\ req[g].to = c =>
        LET p == result'[c].pos IN
        /\ p > known[c]
        /\ log[p] = req[g].entry
        /\ result'[c].value = SubSeq(log, 1, p)
        /\ store[StoreOf[g]].cursor > p
<1>1. ASSUME Inv, Next, NEW c \in Client, NEW g \in Engine,
             Answered(c), result'[c].op = "propose", req[g].to = c
      PROVE  Own(c, g)
  <2> USE <1>1 DEF Inv
  <2>1. pc[c] = "waiting" /\ pc'[c] = "idle" /\ result'[c].tag = "ok" /\ result[c].tag = "pending"
    BY DEF Answered, MailInv
  <2>2. PICK h \in Engine : Reply(h) /\ req[h].to = c
    <3>1. \A h \in Engine : \A tag, op, p, v :
            Answer(req[h].to, Res(op, tag, p, v)) => req[h].to = c /\ tag = "ok"
      <4> SUFFICES ASSUME NEW h \in Engine, NEW tag, NEW op, NEW p, NEW v,
                          Answer(req[h].to, Res(op, tag, p, v))
                   PROVE  req[h].to = c /\ tag = "ok"
        OBVIOUS
      <4>1. req[h].to \in Client \cup {NoOne}
        BY DEF TypeOK, Request
      <4>2. req[h].to = c
        BY <2>1, <4>1, Answered1
      <4> QED BY <2>1, <4>1, <4>2, Answered1 DEF Res
    <3>2. ASSUME NEW h \in Engine, ProposeFails(h) \/ SyncFails(h) PROVE FALSE
      <4>1. PICK op : Receive(h, op)
        BY <3>2 DEF ProposeFails, SyncFails
      <4>2. Head(queue[h]) \in Request
        BY <4>1, QueueReceived
      <4>3. Head(queue[h]).to \in Client \cup {NoOne}
        BY <4>2 DEF Request
      <4>4. Fail(Head(queue[h]))
        BY <3>2 DEF ProposeFails, SyncFails
      <4>5. Answer(Head(queue[h]).to, Res(Head(queue[h]).op, "error", 0, <<>>))
        BY <4>4 DEF Fail
      <4> QED BY <2>1, <4>3, <4>5, Answered1 DEF Res
    <3>3. ASSUME NEW h \in Engine, ApplyFails(h) PROVE FALSE
      <4>1. Fail(req[h])
        BY <3>3 DEF ApplyFails
      <4>2. Answer(req[h].to, Res(req[h].op, "error", 0, <<>>))
        BY <4>1 DEF Fail
      <4> QED BY <3>1, <4>2
    <3>4. ASSUME NEW h \in Engine, Abort(h) PROVE FALSE
      BY <2>1, <3>4 DEF Abort, Res
    <3>5. ASSUME NEW d \in Client, Cancel(d) PROVE FALSE
      BY <2>1, <3>5 DEF Cancel
    <3>6. ASSUME NEW d \in Client, NEW h \in Engine, NEW op, NEW e,
                 CallDead(d, h, op) \/ Call(d, h, op, e)
          PROVE  FALSE
      BY <2>1, <3>6 DEF CallDead, Call, TypeOK
    <3>7. ASSUME NEW h \in Engine, NewEngine(h) \/ DropEngine(h) \/ LoopExits(h) \/ Propose(h)
                                   \/ Sync(h) \/ ApplyBegin(h) \/ ApplyCommit(h)
          PROVE  FALSE
      BY <2>1, <3>7 DEF NewEngine, DropEngine, LoopExits, Propose, Sync, ApplyBegin,
                        ApplyCommit, clientVars
    <3>8. \E h \in Engine : Reply(h)
      BY <3>2, <3>3, <3>4, <3>5, <3>6, <3>7 DEF Next, Loop
    <3> QED BY <3>1, <3>8 DEF Reply
  <2>3. h = g
    <3>1. 0 \in Slot(g) /\ 0 \in Slot(h) /\ To(g, 0) = c /\ To(h, 0) = c
      BY <2>2, SlotTypes DEF Slot, To
    <3> QED BY <3>1 DEF MailInv
  <2>4. result'[c] = Res(req[g].op, "ok", target[g], ret[g])
    BY <2>2, <2>3, Answered1 DEF Reply
  <2>5. Proposing(g) /\ cursor[g] > target[g] /\ Running(g)
    BY <2>2, <2>3, <2>4 DEF Reply, Proposing, Res
  <2>6. ReplyPart(g) /\ cursor[g] = store[StoreOf[g]].cursor
    BY <2>5 DEF ReplyInv, StoreInv
  <2> QED BY <2>4, <2>5, <2>6 DEF ReplyPart, Res
<1>2. ASSUME Inv, UNCHANGED vars, NEW c \in Client PROVE ~Answered(c)
  BY <1>2 DEF Answered, vars, clientVars
<1>3. Inv /\ [Next]_vars => [\A c \in Client, g \in Engine : Own(c, g)]_vars
  BY <1>1, <1>2
<1> QED BY <1>3, Invariance, PTL DEF Spec, ProposeReturnsItsOwn
================================================================================
