--------------------------- MODULE NativeCalls_proofs ---------------------------
(***************************************************************************)
(* What the calls of NativeLoglet return, proved for every number of        *)
(* servers, clients, entries, positions and crashes: a returned seal has    *)
(* frozen the servers, a read finds what was acknowledged and does not see  *)
(* past a returned trim.                                                    *)
(***************************************************************************)
EXTENDS NativeLoglet_proofs

-------------------------------------------------------------------------------
(* The inductive invariant, beside Inv *)

(* What a reply says of the server that gave it, now and ever after. *)
MeansPart(c, s) ==
  /\ reply[c][s].tag = "done" =>
       /\ op[c].type = "seal" => sealed[s]
       /\ op[c].type = "trim" => op[c].pos <= trimPos[s]
  /\ reply[c][s].tag = "entry" =>
       [pos |-> op[c].pos, entry |-> reply[c][s].entry] \in assigned
  /\ reply[c][s].tag \in {"entry", "not_found"} => floor[c] <= op[c].pos
MeansInv == \A c \in Client, s \in Server : MeansPart(c, s)

Reading(c) == pc[c] \in {"read_send", "read_wait"}

(* The servers c can still learn r from. Those that answered "not found"    *)
(* may hold r by now, or have trimmed it; enough others remain.             *)
Sources(c, r) == {s \in Server : Holds(s, r) /\ reply[c][s].tag # "not_found"}

ReaderPart(c) ==
  /\ floor[c] <= trimmedTo
  /\ known[c] # {} => Reading(c)
  /\ \A r \in known[c] : /\ r \in acked /\ r.pos = op[c].pos
                         /\ Cardinality(Sources(c, r)) >= QuorumSize
  /\ Reading(c) => \A s \in Server : s < idx[c] => reply[c][s].tag = "not_found"
ReaderInv == \A c \in Client : ReaderPart(c)

(* A trim that returned has reached every server; a seal that returned has  *)
(* reached every server that has not ended.                                 *)
ReachInv ==
  /\ 1 <= trimmedTo /\ \A s \in Server : trimmedTo <= trimPos[s]
  /\ finalTail # 0 => \A s \in Server : alive[s] => sealed[s]

CallInv == MeansInv /\ ReaderInv /\ ReachInv

-------------------------------------------------------------------------------
(* What no step takes back *)

(* The servers are touched by nobody but themselves. *)
LEMMA ServersAlone ==
  ASSUME Inv, NEW c \in Client, Invoke(c) \/ Proceed(c)
  PROVE  UNCHANGED serverVars
<1>1. CASE Glances(c) \/ NextPos(c) \/ ReadContinue(c)
  BY <1>1 DEF Glances, AppendFastPath, CheckTail, NextPos, ReadContinue, serverVars
<1>2. CASE Begins(c)
  BY <1>2, BeginsFacts DEF Inv
<1>3. CASE Sends(c)
  BY <1>3, SendsFacts DEF Inv
<1>4. CASE Ends(c)
  BY <1>4, EndsFacts DEF Inv
<1> QED BY <1>1, <1>2, <1>3, <1>4 DEF Invoke, Proceed, Glances, Begins, Sends, Ends

LEMMA ServersGrow ==
  ASSUME Inv, Next, NEW s \in Server
  PROVE  /\ trimPos[s] \in Nat /\ trimPos'[s] \in Nat /\ trimPos[s] <= trimPos'[s]
         /\ sealed[s] => sealed'[s]
         /\ alive'[s] => alive[s]
<1>1. trimPos[s] \in Nat /\ trimPos'[s] \in Nat
  BY TypeStep DEF Inv, TypeOK
<1>2. ASSUME NEW c \in Client, Invoke(c) \/ Proceed(c) PROVE UNCHANGED <<trimPos, sealed, alive>>
  BY <1>2, ServersAlone DEF serverVars
<1>3. ASSUME NEW t \in Server, ServeStore(t) PROVE UNCHANGED <<trimPos, sealed, alive>>
  BY <1>3 DEF ServeStore, Receive
<1>4. ASSUME NEW t \in Server, ServeRead(t) PROVE UNCHANGED <<trimPos, sealed, alive>>
  BY <1>4 DEF ServeRead, Receive
<1>5. ASSUME NEW t \in Server, ServeSeal(t)
      PROVE  UNCHANGED <<trimPos, alive>> /\ sealed' = [sealed EXCEPT ![t] = TRUE]
  BY <1>5 DEF ServeSeal, Receive
<1>6. ASSUME NEW t \in Server, ServeTrim(t)
      PROVE  UNCHANGED <<sealed, alive>> /\ trimPos'[s] >= trimPos[s]
  <2>1. UNCHANGED <<sealed, alive>>
    BY <1>6 DEF ServeTrim, Receive
  <2>2. t = s \/ trimPos'[s] = trimPos[s]
    BY <1>6, TrimFacts DEF Inv
  <2>3. trimPos'[t] >= trimPos[t]
    BY <1>6, TrimFacts DEF Inv
  <2> QED BY <1>1, <2>1, <2>2, <2>3
<1>7. ASSUME NEW t \in Server, Crash(t)
      PROVE  UNCHANGED <<trimPos, sealed>> /\ alive' = [alive EXCEPT ![t] = FALSE]
  BY <1>7 DEF Crash
<1>8. sealed \in [Server -> BOOLEAN] /\ alive \in [Server -> BOOLEAN]
  BY DEF Inv, TypeOK
<1>9. CASE UNCHANGED <<trimPos, sealed, alive>>
  BY <1>1, <1>9
<1>10. CASE \E t \in Server : ServeSeal(t)
  <2>1. PICK t \in Server : ServeSeal(t)
    BY <1>10
  <2>2. UNCHANGED <<trimPos, alive>> /\ sealed' = [sealed EXCEPT ![t] = TRUE]
    BY <1>5, <2>1
  <2>3. sealed[s] => sealed'[s]
    BY <1>8, <2>2
  <2> QED BY <1>1, <2>2, <2>3
<1>11. CASE \E t \in Server : ServeTrim(t)
  BY <1>1, <1>6, <1>11
<1>12. CASE \E t \in Server : Crash(t)
  <2>1. PICK t \in Server : Crash(t)
    BY <1>12
  <2>2. UNCHANGED <<trimPos, sealed>> /\ alive' = [alive EXCEPT ![t] = FALSE]
    BY <1>7, <2>1
  <2>3. alive'[s] => alive[s]
    BY <1>8, <2>2
  <2> QED BY <1>1, <2>2, <2>3
<1> QED BY <1>2, <1>3, <1>4, <1>9, <1>10, <1>11, <1>12 DEF Next, Serve

(* Of the history, a step appends to assigned and acked and raises          *)
(* trimmedTo.                                                               *)
LEMMA HistoryGrows ==
  ASSUME Inv, Next
  PROVE  /\ assigned \subseteq assigned' /\ acked \subseteq acked'
         /\ trimmedTo \in Nat /\ trimmedTo' \in Nat /\ trimmedTo <= trimmedTo'
<1>1. trimmedTo \in Nat /\ trimmedTo' \in Nat
  BY TypeStep DEF Inv, TypeOK
<1>2. ASSUME NEW c \in Client, TrimDone(c)
      PROVE  UNCHANGED <<assigned, acked>> /\ trimmedTo <= trimmedTo'
  <2>1. op[c].pos \in Nat
    BY DEF Inv, TypeOK, Request
  <2>2. /\ trimmedTo' = IF op[c].pos > trimmedTo THEN op[c].pos ELSE trimmedTo
        /\ UNCHANGED <<assigned, acked>>
    BY <1>2 DEF TrimDone
  <2> QED BY <1>1, <2>1, <2>2
<1>3. ASSUME NEW c \in Client, ~TrimDone(c), Invoke(c) \/ Proceed(c)
      PROVE  assigned \subseteq assigned' /\ acked \subseteq acked' /\ trimmedTo' = trimmedTo
  BY <1>3 DEF historyVars, Invoke, Proceed, AppendFastPath, BeginAppend, BeginSeal,
       BeginTrim, BeginRead, CheckTail, NextPos, NextPosSealed, FanOut, FanOutFails,
       AppendQuorum, AppendRefused, AppendNoQuorum, SealQuorum, SealNoQuorum, TrimFails,
       ReadSend, ReadFails, ReadReply, ReadContinue
<1>4. ASSUME NEW s \in Server, Serve(s) \/ Crash(s) PROVE UNCHANGED historyVars
  BY <1>4 DEF historyVars, Serve, ServeStore, ServeRead, ServeSeal, ServeTrim, Receive, Crash
<1>5. ASSUME NEW c \in Client, Invoke(c) \/ Proceed(c)
      PROVE  assigned \subseteq assigned' /\ acked \subseteq acked' /\ trimmedTo <= trimmedTo'
  BY <1>1, <1>2, <1>3, <1>5
<1>6. ASSUME NEW s \in Server, Serve(s) \/ Crash(s)
      PROVE  assigned \subseteq assigned' /\ acked \subseteq acked' /\ trimmedTo <= trimmedTo'
  BY <1>1, <1>4, <1>6 DEF historyVars
<1> QED BY <1>1, <1>5, <1>6 DEF Next

-------------------------------------------------------------------------------
(* What a step does to the calls *)

(* A step of one call leaves the other clients alone; of its own replies it *)
(* keeps all, with the request they answer, or none.                        *)
LEMMA OwnCall ==
  ASSUME Inv, NEW c \in Client, Invoke(c) \/ Proceed(c)
  PROVE  /\ \A d \in Client : d # c =>
              /\ pc'[d] = pc[d] /\ op'[d] = op[d] /\ idx'[d] = idx[d]
              /\ reply'[d] = reply[d] /\ known'[d] = known[d] /\ floor'[d] = floor[d]
         /\ \A s \in Server : \/ reply'[c][s].tag = "none"
                              \/ /\ reply'[c][s] = reply[c][s] /\ op'[c] = op[c]
                                 /\ floor'[c] = floor[c]
<1> DEFINE Others == \A d \in Client : d # c =>
                       /\ pc'[d] = pc[d] /\ op'[d] = op[d] /\ idx'[d] = idx[d]
                       /\ reply'[d] = reply[d] /\ known'[d] = known[d] /\ floor'[d] = floor[d]
           Own == \A s \in Server : \/ reply'[c][s].tag = "none"
                                    \/ /\ reply'[c][s] = reply[c][s] /\ op'[c] = op[c]
                                       /\ floor'[c] = floor[c]
<1>t. /\ DOMAIN pc = Client /\ DOMAIN op = Client /\ DOMAIN idx = Client
      /\ DOMAIN reply = Client /\ DOMAIN known = Client /\ DOMAIN floor = Client
  BY DEF Inv, TypeOK
<1>1. CASE Glances(c)
  BY <1>1 DEF Glances, AppendFastPath, CheckTail, historyVars
<1>2. CASE Begins(c)
  <2>1. /\ pc[c] = "idle" /\ UNCHANGED <<reply, idx>>
        /\ \A d \in Client : d # c => pc'[d] = pc[d] /\ op'[d] = op[d]
    BY <1>2, BeginsFacts DEF Inv
  <2>2. \A s \in Server : reply'[c][s].tag = "none"
    BY <2>1, IdleClient
  <2>3. \A d \in Client : d # c => known'[d] = known[d] /\ floor'[d] = floor[d]
    BY <1>2, <1>t DEF Begins, BeginAppend, BeginSeal, BeginTrim, BeginRead, historyVars
  <2> QED BY <2>1, <2>2, <2>3
<1>3. CASE NextPos(c)
  <2>1. pc[c] = "next_pos" /\ UNCHANGED <<reply, idx, known, floor>>
    BY <1>3 DEF NextPos
  <2>2. \A d \in Client : d # c => pc'[d] = pc[d] /\ op'[d] = op[d]
    BY <1>3, <1>t DEF NextPos
  <2>3. \A s \in Server : reply'[c][s].tag = "none"
    BY <2>1, IdleClient
  <2> QED BY <2>1, <2>2, <2>3
<1>4. CASE Sends(c)
  <2>1. UNCHANGED <<op, reply, known, floor>>
    BY <1>4, SendsFacts DEF Inv, historyVars
  <2>2. \A d \in Client : d # c => pc'[d] = pc[d] /\ idx'[d] = idx[d]
    BY <1>4, SendsFacts DEF Inv
  <2> QED BY <2>1, <2>2
<1>5. CASE ReadContinue(c)
  BY <1>5, <1>t DEF ReadContinue, historyVars
<1>6. CASE Ends(c)
  <2>1. PICK res : Return(c, res)
    BY <1>6 DEF Ends, NextPosSealed, FanOutFails, AppendQuorum, AppendRefused,
           AppendNoQuorum, SealQuorum, SealNoQuorum, TrimDone, TrimFails, ReadFails, ReadReply
  <2>2. Others
    BY <2>1, <1>t DEF Return
  <2>3. \A s \in Server : reply'[c][s] = NoReply
    BY <2>1, <1>t DEF Return
  <2>4. NoReply.tag = "none"
    BY DEF NoReply, Rep
  <2> QED BY <2>2, <2>3, <2>4
<1> QED BY <1>1, <1>2, <1>3, <1>4, <1>5, <1>6
        DEF Invoke, Proceed, Glances, Begins, Sends, Ends

(* What a server finds when it is read. *)
LEMMA ReadAnswerMeans ==
  ASSUME Inv, NEW s \in Server, NEW p \in Nat
  PROVE  /\ ReadAnswer(s, p) \in Reply
         /\ ReadAnswer(s, p).tag \in {"entry", "trimmed", "not_found"}
         /\ ReadAnswer(s, p).tag \in {"entry", "not_found"} => trimPos[s] <= p
         /\ ReadAnswer(s, p).tag = "entry" =>
              [pos |-> p, entry |-> ReadAnswer(s, p).entry] \in entries[s]
         /\ ReadAnswer(s, p).tag = "not_found" => \A r \in entries[s] : r.pos # p
<1>1. trimPos[s] \in Nat /\ entries[s] \subseteq Record
  BY DEF Inv, TypeOK
<1>2. CASE p < trimPos[s]
  BY <1>1, <1>2 DEF ReadAnswer, Rep, Reply
<1>3. CASE ~(p < trimPos[s]) /\ \E r \in entries[s] : r.pos = p
  <2> DEFINE x == CHOOSE r \in entries[s] : r.pos = p
  <2>1. x \in entries[s] /\ x.pos = p
    BY <1>3
  <2>2. ReadAnswer(s, p) = Rep("entry", 0, x.entry)
    BY <1>3 DEF ReadAnswer
  <2> HIDE DEF x
  <2>3. x = [pos |-> p, entry |-> x.entry] /\ x.entry \in Entry
    BY <1>1, <2>1 DEF Record
  <2>4. Rep("entry", 0, x.entry) \in Reply /\ Rep("entry", 0, x.entry).tag = "entry"
        /\ Rep("entry", 0, x.entry).entry = x.entry
    BY <2>3 DEF Rep, Reply
  <2>5. trimPos[s] <= p
    BY <1>1, <1>3
  <2> QED BY <2>1, <2>2, <2>3, <2>4, <2>5
<1>4. CASE ~(p < trimPos[s]) /\ ~\E r \in entries[s] : r.pos = p
  <2>1. ReadAnswer(s, p) = Rep("not_found", 0, NoEntry)
    BY <1>4 DEF ReadAnswer
  <2>2. Rep("not_found", 0, NoEntry) \in Reply
        /\ Rep("not_found", 0, NoEntry).tag = "not_found"
    BY DEF Rep, Reply
  <2>3. trimPos[s] <= p
    BY <1>1, <1>4
  <2> QED BY <1>4, <2>1, <2>2, <2>3
<1> QED BY <1>2, <1>3, <1>4

(* What a server's reply to its first message means. *)
Says(s, type, rep) ==
  LET p == Mail(s, 1).req.pos IN
  /\ rep.tag = "done" => /\ type = "seal" => sealed'[s]
                         /\ type = "trim" => p <= trimPos'[s]
  /\ rep.tag \in {"entry", "not_found"} => trimPos[s] <= p
  /\ rep.tag = "entry" => [pos |-> p, entry |-> rep.entry] \in entries[s]
  /\ rep.tag = "not_found" => \A r \in entries[s] : r.pos # p

LEMMA Served ==
  ASSUME Inv, NEW s \in Server, Serve(s)
  PROVE  \E type \in {"store", "read", "seal", "trim"}, rep \in Reply :
           Receive(s, type) /\ Answer(s, rep) /\ Says(s, type, rep)
<1> USE DEF Inv
<1>t. tail[s] \in Nat /\ trimPos[s] \in Nat
  BY MaxPosAssumption DEF TypeOK, TailPos
<1>1. CASE ServeStore(s)
  <2>1. PICK rep : /\ Answer(s, rep) /\ Receive(s, "store")
                   /\ rep \in {Rep("sealed", tail[s], NoEntry), Rep("occupied", 0, NoEntry),
                               Rep("stored", 0, NoEntry)}
    BY <1>1 DEF ServeStore
  <2>2. rep \in Reply /\ rep.tag \in {"sealed", "occupied", "stored"}
    BY <1>t, <2>1 DEF Rep, Reply
  <2>3. Says(s, "store", rep)
    BY <2>2 DEF Says
  <2> QED BY <2>1, <2>2, <2>3
<1>2. CASE ServeRead(s)
  <2> DEFINE p == Mail(s, 1).req.pos
  <2>1. Receive(s, "read") /\ Head(queue[s]) = Mail(s, 1) /\ Mail(s, 1) \in Message
    BY <1>2, MailReceived DEF ServeRead
  <2>2. p \in Nat
    BY <2>1 DEF Message, Request
  <2>3. Answer(s, ReadAnswer(s, p))
    BY <1>2, <2>1 DEF ServeRead
  <2> HIDE DEF p
  <2>4. PICK rep : rep = ReadAnswer(s, p)
    OBVIOUS
  <2>5. Says(s, "read", rep) /\ rep \in Reply
    BY <2>2, <2>4, ReadAnswerMeans DEF Says, p
  <2> QED BY <2>1, <2>3, <2>4, <2>5
<1>3. CASE ServeSeal(s)
  <2>1. /\ Receive(s, "seal") /\ Answer(s, Rep("done", tail[s], NoEntry))
        /\ sealed' = [sealed EXCEPT ![s] = TRUE]
    BY <1>3 DEF ServeSeal
  <2>2. sealed'[s]
    BY <2>1 DEF TypeOK
  <2>3. Rep("done", tail[s], NoEntry) \in Reply /\ Rep("done", tail[s], NoEntry).tag = "done"
    BY <1>t DEF Rep, Reply
  <2>4. Says(s, "seal", Rep("done", tail[s], NoEntry))
    BY <2>2, <2>3 DEF Says
  <2> QED BY <2>1, <2>3, <2>4
<1>4. CASE ServeTrim(s)
  <2> DEFINE p == Mail(s, 1).req.pos
  <2>1. Receive(s, "trim") /\ Head(queue[s]) = Mail(s, 1) /\ Mail(s, 1) \in Message
    BY <1>4, MailReceived DEF ServeTrim
  <2>2. p \in Nat
    BY <2>1 DEF Message, Request
  <2>3. TrimServer(s, p) /\ Answer(s, Rep("done", 0, NoEntry))
    BY <1>4, <2>1 DEF ServeTrim
  <2> HIDE DEF p
  <2>4. p <= trimPos'[s]
    <3>1. CASE p > trimPos[s]
      <4>1. trimPos' = [trimPos EXCEPT ![s] = p]
        BY <2>3, <3>1 DEF TrimServer
      <4>2. trimPos'[s] = p
        BY <4>1 DEF TypeOK
      <4> QED BY <2>2, <4>2
    <3>2. CASE ~(p > trimPos[s])
      <4>1. trimPos' = trimPos
        BY <2>3, <3>2 DEF TrimServer
      <4> QED BY <1>t, <2>2, <3>2, <4>1
    <3> QED BY <3>1, <3>2
  <2>5. Rep("done", 0, NoEntry) \in Reply /\ Rep("done", 0, NoEntry).tag = "done"
    BY DEF Rep, Reply
  <2>6. Says(s, "trim", Rep("done", 0, NoEntry))
    BY <2>4, <2>5 DEF Says, p
  <2> QED BY <2>1, <2>3, <2>5, <2>6
<1> QED BY <1>1, <1>2, <1>3, <1>4 DEF Serve

-------------------------------------------------------------------------------
(* The invariant is preserved *)

(* What a reply says stays true. *)
LEMMA MeansKept ==
  ASSUME Inv, Next, MeansInv, NEW c \in Client, NEW s \in Server,
         \/ reply'[c][s].tag = "none"
         \/ reply'[c][s] = reply[c][s] /\ op'[c] = op[c] /\ floor'[c] = floor[c]
  PROVE  MeansPart(c, s)'
<1>1. CASE reply'[c][s].tag = "none"
  BY <1>1 DEF MeansPart
<1>2. CASE reply'[c][s] = reply[c][s] /\ op'[c] = op[c] /\ floor'[c] = floor[c]
  <2>1. MeansPart(c, s)
    BY DEF MeansInv
  <2>2. /\ trimPos[s] \in Nat /\ trimPos'[s] \in Nat /\ trimPos[s] <= trimPos'[s]
        /\ sealed[s] => sealed'[s]
    BY ServersGrow
  <2>3. assigned \subseteq assigned'
    BY HistoryGrows
  <2>4. op[c].pos \in Nat
    BY DEF Inv, TypeOK, Request
  <2>5. op[c].pos <= trimPos[s] => op[c].pos <= trimPos'[s]
    BY <2>2, <2>4
  <2> QED BY <1>2, <2>1, <2>2, <2>3, <2>5 DEF MeansPart
<1> QED BY <1>1, <1>2

LEMMA MeansStep ==
  ASSUME Inv, CallInv, Next
  PROVE  MeansInv'
<1> SUFFICES ASSUME NEW d \in Client, NEW t \in Server PROVE MeansPart(d, t)'
  BY DEF MeansInv
<1>0. MeansInv
  BY DEF CallInv
<1>1. ASSUME NEW c \in Client, Invoke(c) \/ Proceed(c) PROVE MeansPart(d, t)'
  BY <1>0, <1>1, OwnCall, MeansKept
<1>2. ASSUME NEW s \in Server, Crash(s) PROVE MeansPart(d, t)'
  <2>1. UNCHANGED <<reply, op, floor>>
    BY <1>2 DEF Crash, localVars, historyVars
  <2> QED BY <1>0, <2>1, MeansKept
<1>3. ASSUME NEW s \in Server, Serve(s) PROVE MeansPart(d, t)'
  <2>1. PICK type \in {"store", "read", "seal", "trim"}, rep \in Reply :
          Receive(s, type) /\ Answer(s, rep) /\ Says(s, type, rep)
    BY <1>3, Served
  <2>2. op' = op /\ UNCHANGED historyVars /\ floor' = floor
    BY <2>1 DEF Receive, historyVars
  <2>3. reply'[d][t] = IF d = Mail(s, 1).to /\ t = s THEN rep ELSE reply[d][t]
    BY <2>1, AnswerType DEF Inv
  <2>4. CASE ~(d = Mail(s, 1).to /\ t = s)
    BY <1>0, <2>2, <2>3, <2>4, MeansKept
  <2>5. CASE d = Mail(s, 1).to /\ t = s
    <3>1. 1 \in 1..Len(queue[s]) /\ Mail(s, 1).req.type = type
      BY <2>1, MailReceived DEF Inv
    <3>2. Mail(s, 1).req = op[d]
      BY <2>5, <3>1 DEF Inv, DeliveryInv
    <3>3. floor[d] <= trimPos[s]
      <4>1. floor[d] <= trimmedTo /\ trimmedTo <= trimPos[s]
        BY DEF CallInv, ReaderInv, ReaderPart, ReachInv
      <4>2. floor[d] \in Nat /\ trimmedTo \in Nat /\ trimPos[s] \in Nat
        BY DEF Inv, TypeOK
      <4> QED BY <4>1, <4>2
    <3>4. trimPos[s] <= op[d].pos => floor[d] <= op[d].pos
      <4>1. floor[d] \in Nat /\ trimPos[s] \in Nat /\ op[d].pos \in Nat
        BY DEF Inv, TypeOK, Request
      <4> QED BY <3>3, <4>1
    <3>5. entries[s] \subseteq assigned'
      BY HistoryGrows DEF Inv, PosInv
    <3> QED BY <2>1, <2>2, <2>3, <2>5, <3>1, <3>2, <3>4, <3>5 DEF MeansPart, Says
  <2> QED BY <2>4, <2>5
<1> QED BY <1>1, <1>2, <1>3 DEF Next

(* The servers a reader can learn r from remain as long as no holder of r   *)
(* tells it "not found".                                                    *)
LEMMA SourcesKept ==
  ASSUME Inv, Next, NEW c \in Client, NEW r \in Record,
         Cardinality(Sources(c, r)) >= QuorumSize,
         \A s \in Server : reply'[c][s].tag = "not_found" =>
                             reply[c][s].tag = "not_found" \/ ~Holds(s, r)
  PROVE  Cardinality(Sources(c, r)') >= QuorumSize
<1> DEFINE S == Sources(c, r)
           T == {s \in Server : Holds(s, r)' /\ reply'[c][s].tag # "not_found"}
<1>1. S \in SUBSET Server /\ T \in SUBSET Server
  BY DEF Sources
<1>2. S \subseteq T
  BY HoldsStable DEF Sources
<1> HIDE DEF S, T
<1>3. Cardinality(S) \in Nat /\ Cardinality(T) \in Nat /\ Cardinality(S) <= Cardinality(T)
  BY <1>1, <1>2, QuorumGrows
<1>4. QuorumSize \in Nat
  BY NumServersAssumption DEF QuorumSize
<1>5. Cardinality(T) >= QuorumSize
  BY <1>3, <1>4 DEF S
<1>6. Sources(c, r)' = T
  BY DEF Sources, Holds, T
<1> QED BY <1>5, <1>6

(* A reader that a step tells nothing wrong. *)
LEMMA ReaderKept ==
  ASSUME Inv, Next, NEW c \in Client, ReaderPart(c), idx'[c] = idx[c],
         op'[c] = op[c], known'[c] = known[c], floor'[c] = floor[c],
         Reading(c)' = Reading(c),
         \A s \in Server : \/ reply'[c][s] = reply[c][s]
                           \/ /\ reply[c][s].tag = "none"
                              /\ reply'[c][s].tag = "not_found" =>
                                   \A r \in known[c] : ~Holds(s, r)
  PROVE  ReaderPart(c)'
<1>1. floor'[c] <= trimmedTo'
  <2>1. floor[c] <= trimmedTo /\ floor[c] \in Nat
    BY DEF ReaderPart, Inv, TypeOK
  <2>2. trimmedTo \in Nat /\ trimmedTo' \in Nat /\ trimmedTo <= trimmedTo'
    BY HistoryGrows
  <2>3. floor[c] <= trimmedTo'
    BY <2>1, <2>2
  <2> QED BY <2>3
<1>2. known'[c] # {} => Reading(c)'
  BY DEF ReaderPart
<1>3. ASSUME NEW r \in known'[c]
      PROVE  r \in acked' /\ r.pos = op'[c].pos /\ Cardinality(Sources(c, r)') >= QuorumSize
  <2>1. r \in acked /\ r.pos = op[c].pos /\ Cardinality(Sources(c, r)) >= QuorumSize
    BY <1>3 DEF ReaderPart
  <2>2. r \in acked' /\ r \in Record
    BY <2>1, HistoryGrows DEF Inv, TypeOK
  <2>3. \A s \in Server : reply'[c][s].tag = "not_found" =>
                            reply[c][s].tag = "not_found" \/ ~Holds(s, r)
    BY <1>3
  <2> QED BY <2>1, <2>2, <2>3, SourcesKept
<1>4. ASSUME Reading(c)', NEW s \in Server, s < idx'[c] PROVE reply'[c][s].tag = "not_found"
  <2>1. reply[c][s].tag = "not_found"
    BY <1>4 DEF ReaderPart
  <2> QED BY <2>1
<1> QED BY <1>1, <1>2, <1>3, <1>4 DEF ReaderPart

(* A client outside a read. *)
LEMMA NoReader ==
  ASSUME Inv, Next, NEW c \in Client, known'[c] = {}, ~Reading(c)', floor'[c] <= trimmedTo
  PROVE  ReaderPart(c)'
<1>1. trimmedTo \in Nat /\ trimmedTo' \in Nat /\ trimmedTo <= trimmedTo' /\ floor'[c] \in Nat
  BY HistoryGrows, TypeStep DEF Inv, TypeOK
<1>2. PICK f \in Nat : f = floor'[c]
  BY <1>1
<1>3. f <= trimmedTo'
  BY <1>1, <1>2
<1> QED BY <1>2, <1>3 DEF ReaderPart

LEMMA ReaderStep ==
  ASSUME Inv, CallInv, Next
  PROVE  ReaderInv'
<1> SUFFICES ASSUME NEW d \in Client PROVE ReaderPart(d)'
  BY DEF ReaderInv
<1>0. \A c \in Client : ReaderPart(c)
  BY DEF CallInv, ReaderInv
<1>1. ASSUME NEW c \in Client, Invoke(c) \/ Proceed(c), c # d PROVE ReaderPart(d)'
  <2>1. /\ pc'[d] = pc[d] /\ op'[d] = op[d] /\ idx'[d] = idx[d]
        /\ reply'[d] = reply[d] /\ known'[d] = known[d] /\ floor'[d] = floor[d]
    BY <1>1, OwnCall
  <2>2. Reading(d)' = Reading(d)
    BY <2>1 DEF Reading
  <2> QED BY <1>0, <2>1, <2>2, ReaderKept
<1>2. ASSUME known'[d] = known[d], floor'[d] = floor[d], ~Reading(d), ~Reading(d)'
      PROVE  ReaderPart(d)'
  BY <1>0, <1>2, NoReader DEF ReaderPart
<1>3. CASE Glances(d) \/ NextPos(d) \/ FanOut(d)
  <2>1. UNCHANGED <<known, floor>>
    BY <1>3 DEF Glances, AppendFastPath, CheckTail, NextPos, FanOut, historyVars
  <2>2. pc \in [Client -> {"idle", "next_pos", "fan_out", "await", "read_send", "read_wait"}]
    BY DEF Inv, TypeOK
  <2>3. pc[d] \in {"idle", "next_pos", "fan_out"} /\ pc'[d] \in {"idle", "fan_out", "await"}
    BY <1>3, <2>2 DEF Glances, AppendFastPath, CheckTail, NextPos, FanOut
  <2> QED BY <1>2, <2>1, <2>3 DEF Reading
<1>4. CASE (\E e \in Entry : BeginAppend(d, e)) \/ BeginSeal(d) \/ \E p \in TailPos : BeginTrim(d, p)
  <2>1. UNCHANGED <<known, floor>>
    BY <1>4 DEF BeginAppend, BeginSeal, BeginTrim, historyVars
  <2>2. pc \in [Client -> {"idle", "next_pos", "fan_out", "await", "read_send", "read_wait"}]
    BY DEF Inv, TypeOK
  <2>3. pc[d] = "idle" /\ pc'[d] \in {"next_pos", "fan_out"}
    BY <1>4, <2>2 DEF BeginAppend, BeginSeal, BeginTrim, Enter
  <2> QED BY <1>2, <2>1, <2>3 DEF Reading
<1>5. ASSUME NEW p \in Position, BeginRead(d, p) PROVE ReaderPart(d)'
  <2>1. /\ pc[d] = "idle" /\ pc' = [pc EXCEPT ![d] = "read_send"]
        /\ op' = [op EXCEPT ![d] = Req("read", p, NoEntry)]
        /\ known' = [known EXCEPT ![d] = {r \in acked : r.pos = p}]
        /\ floor' = [floor EXCEPT ![d] = trimmedTo]
        /\ UNCHANGED <<serverVars, idx, reply, acked, trimmedTo>>
    BY <1>5 DEF BeginRead, Enter
  <2>2. /\ pc'[d] = "read_send" /\ op'[d] = Req("read", p, NoEntry)
        /\ known'[d] = {r \in acked : r.pos = p} /\ floor'[d] = trimmedTo
    BY <2>1 DEF Inv, TypeOK
  <2>3. op'[d].pos = p
    BY <2>2 DEF Req
  <2>4. \A s \in Server : reply'[d][s].tag = "none"
    BY <2>1, IdleClient
  <2>5. idx'[d] = 1
    BY <2>1 DEF Inv, PcInv
  <2>6. floor'[d] <= trimmedTo'
    <3>1. trimmedTo \in Nat
      BY DEF Inv, TypeOK
    <3> QED BY <2>1, <2>2, <3>1
  <2>7. ASSUME NEW r \in known'[d]
        PROVE  r \in acked' /\ r.pos = op'[d].pos /\ Cardinality(Sources(d, r)') >= QuorumSize
    <3>1. r \in acked /\ r.pos = p
      BY <2>2, <2>7
    <3>2. Sources(d, r)' = {s \in Server : Holds(s, r)}
      BY <2>1, <2>4 DEF Sources, Holds, serverVars
    <3> QED BY <2>1, <2>3, <3>1, <3>2 DEF Inv, HoldInv
  <2>8. \A s \in Server : ~(s < idx'[d])
    BY <2>5 DEF Server
  <2> QED BY <2>2, <2>6, <2>7, <2>8 DEF ReaderPart, Reading
<1>6. CASE ReadSend(d)
  <2>1. /\ pc[d] = "read_send" /\ pc' = [pc EXCEPT ![d] = "read_wait"]
        /\ UNCHANGED <<op, idx, reply, known, floor>>
    BY <1>6 DEF ReadSend, historyVars
  <2>2. pc'[d] = "read_wait"
    BY <2>1 DEF Inv, TypeOK
  <2>3. Reading(d) /\ Reading(d)'
    BY <2>1, <2>2 DEF Reading
  <2> QED BY <1>0, <2>1, <2>3, ReaderKept
<1>7. CASE ReadContinue(d)
  <2>1. /\ pc[d] = "read_wait" /\ reply[d][idx[d]].tag = "not_found"
        /\ idx' = [idx EXCEPT ![d] = idx[d] + 1] /\ pc' = [pc EXCEPT ![d] = "read_send"]
        /\ UNCHANGED <<serverVars, op, reply, acked, trimmedTo, known, floor>>
    BY <1>7 DEF ReadContinue, ReadReturns, historyVars
  <2>2. pc'[d] = "read_send" /\ idx'[d] = idx[d] + 1 /\ idx[d] \in Server
    BY <2>1 DEF Inv, TypeOK
  <2>3. \A s \in Server : s < idx'[d] => s < idx[d] \/ s = idx[d]
    BY <2>2 DEF Server
  <2>4. \A s \in Server : s < idx'[d] => reply'[d][s].tag = "not_found"
    BY <1>0, <2>1, <2>3 DEF ReaderPart, Reading
  <2>5. \A r : Sources(d, r)' = Sources(d, r)
    BY <2>1 DEF Sources, Holds, serverVars
  <2> QED BY <1>0, <2>1, <2>2, <2>4, <2>5 DEF ReaderPart, Reading
<1>8. CASE Ends(d)
  <2>1. PICK res : Return(d, res)
    BY <1>8 DEF Ends, NextPosSealed, FanOutFails, AppendQuorum, AppendRefused,
           AppendNoQuorum, SealQuorum, SealNoQuorum, TrimDone, TrimFails, ReadFails, ReadReply
  <2>2. pc'[d] = "idle" /\ known'[d] = {} /\ floor'[d] = 1
    BY <2>1 DEF Return, Inv, TypeOK
  <2> QED BY <2>2, NoReader DEF Reading, CallInv, ReachInv
<1>9. ASSUME NEW s \in Server, Crash(s) PROVE ReaderPart(d)'
  <2>1. UNCHANGED <<pc, op, idx, reply, known, floor>>
    BY <1>9 DEF Crash, localVars, historyVars
  <2>2. Reading(d)' = Reading(d)
    BY <2>1 DEF Reading
  <2> QED BY <1>0, <2>1, <2>2, ReaderKept
<1>10. ASSUME NEW s \in Server, Serve(s) PROVE ReaderPart(d)'
  <2>1. PICK type \in {"store", "read", "seal", "trim"}, rep \in Reply :
          Receive(s, type) /\ Answer(s, rep) /\ Says(s, type, rep)
    BY <1>10, Served
  <2>2. UNCHANGED <<pc, op, idx, known, floor>>
    BY <2>1 DEF Receive, historyVars
  <2>3. Reading(d)' = Reading(d)
    BY <2>2 DEF Reading
  <2>4. ASSUME NEW t \in Server
        PROVE  \/ reply'[d][t] = reply[d][t]
               \/ /\ reply[d][t].tag = "none"
                  /\ reply'[d][t].tag = "not_found" => \A r \in known[d] : ~Holds(t, r)
    <3>1. reply'[d][t] = IF d = Mail(s, 1).to /\ t = s THEN rep ELSE reply[d][t]
      BY <2>1, AnswerType DEF Inv
    <3>2. CASE ~(d = Mail(s, 1).to /\ t = s)
      BY <3>1, <3>2
    <3>3. CASE d = Mail(s, 1).to /\ t = s
      <4>1. 1 \in 1..Len(queue[s])
        BY <2>1, MailReceived DEF Inv
      <4>2. Mail(s, 1).req = op[d] /\ reply[d][s].tag = "none"
        BY <3>3, <4>1 DEF Inv, DeliveryInv
      <4>3. ASSUME rep.tag = "not_found", NEW r \in known[d] PROVE ~Holds(s, r)
        <5>1. r.pos = op[d].pos /\ r \notin entries[s] /\ trimPos[s] <= r.pos
          BY <1>0, <2>1, <4>2, <4>3 DEF ReaderPart, Says
        <5>2. trimPos[s] \in Nat /\ r.pos \in Nat
          BY <5>1 DEF Inv, TypeOK, Request
        <5>3. ~(r.pos < trimPos[s])
          BY <5>1, <5>2
        <5> QED BY <5>1, <5>3 DEF Holds
      <4> QED BY <3>1, <3>3, <4>2, <4>3
    <3> QED BY <3>2, <3>3
  <2> QED BY <1>0, <2>2, <2>3, <2>4, ReaderKept
<1>11. ASSUME Invoke(d) \/ Proceed(d) PROVE ReaderPart(d)'
  BY <1>3, <1>4, <1>5, <1>6, <1>7, <1>8, <1>11 DEF Invoke, Proceed, Glances, Ends
<1> QED BY <1>1, <1>9, <1>10, <1>11 DEF Next

LEMMA ReachStep ==
  ASSUME Inv, CallInv, Next
  PROVE  ReachInv'
<1>1. trimmedTo \in Nat /\ trimmedTo' \in Nat /\ trimmedTo <= trimmedTo'
  BY HistoryGrows
<1>2. 1 <= trimmedTo'
  BY <1>1 DEF CallInv, ReachInv
<1>3. ASSUME NEW c \in Client, ~TrimDone(c), ~SealQuorum(c), Invoke(c) \/ Proceed(c)
      PROVE  UNCHANGED <<trimmedTo, finalTail>>
  BY <1>3 DEF historyVars, Invoke, Proceed, AppendFastPath, BeginAppend, BeginSeal,
       BeginTrim, BeginRead, CheckTail, NextPos, NextPosSealed, FanOut, FanOutFails,
       AppendQuorum, AppendRefused, AppendNoQuorum, SealNoQuorum, TrimFails,
       ReadSend, ReadFails, ReadReply, ReadContinue
<1>4. ASSUME NEW s \in Server, Serve(s) \/ Crash(s) PROVE UNCHANGED <<trimmedTo, finalTail>>
  BY <1>4 DEF historyVars, Serve, ServeStore, ServeRead, ServeSeal, ServeTrim, Receive, Crash
<1>5. ASSUME NEW s \in Server PROVE trimmedTo' <= trimPos'[s]
  <2>1. trimPos[s] \in Nat /\ trimPos'[s] \in Nat /\ trimPos[s] <= trimPos'[s]
    BY ServersGrow
  <2>2. CASE \E c \in Client : TrimDone(c)
    <3>1. PICK c \in Client : TrimDone(c)
      BY <2>2
    <3>2. /\ op[c].type = "trim" /\ reply[c][s].tag = "done"
          /\ trimmedTo' \in {op[c].pos, trimmedTo}
      BY <3>1 DEF TrimDone, TrimCollected, DoneReplies
    <3>3. op[c].pos <= trimPos[s] /\ op[c].pos \in Nat /\ trimmedTo <= trimPos[s]
      BY <3>2 DEF CallInv, MeansInv, MeansPart, ReachInv, Inv, TypeOK, Request
    <3> QED BY <1>1, <2>1, <3>2, <3>3
  <2>3. CASE trimmedTo' = trimmedTo
    <3>1. trimmedTo <= trimPos[s]
      BY DEF CallInv, ReachInv
    <3> QED BY <1>1, <2>1, <2>3, <3>1
  <2>4. ASSUME NEW c \in Client, SealQuorum(c) PROVE trimmedTo' = trimmedTo
    BY <2>4 DEF SealQuorum
  <2> QED BY <1>3, <1>4, <2>2, <2>3, <2>4 DEF Next
<1>6. ASSUME finalTail' # 0, NEW s \in Server, alive'[s] PROVE sealed'[s]
  <2>1. alive[s] /\ (sealed[s] => sealed'[s])
    BY <1>6, ServersGrow
  <2>2. CASE \E c \in Client : SealQuorum(c)
    <3>1. PICK c \in Client : SealQuorum(c)
      BY <2>2
    <3>2. op[c].type = "seal" /\ reply[c][s].tag # "none"
      BY <2>1, <3>1 DEF SealQuorum, AllAnswered, Answered
    <3>3. reply[c][s].tag = "done"
      BY <3>2 DEF Inv, DeliveryInv, AnswersTo
    <3> QED BY <2>1, <3>2, <3>3 DEF CallInv, MeansInv, MeansPart
  <2>3. CASE finalTail' = finalTail
    BY <1>6, <2>1, <2>3 DEF CallInv, ReachInv
  <2>4. ASSUME NEW c \in Client, TrimDone(c) PROVE finalTail' = finalTail
    BY <2>4 DEF TrimDone
  <2> QED BY <1>3, <1>4, <2>2, <2>3, <2>4 DEF Next
<1> QED BY <1>2, <1>5, <1>6 DEF ReachInv

LEMMA InitCalls == Init => CallInv
<1> SUFFICES ASSUME Init PROVE CallInv
  OBVIOUS
<1>0. NoReply.tag = "none"
  BY DEF NoReply, Rep
<1>1. MeansInv
  BY <1>0 DEF Init, MeansInv, MeansPart
<1>2. ReaderInv
  BY DEF Init, ReaderInv, ReaderPart, Reading
<1>3. ReachInv
  BY DEF Init, ReachInv
<1> QED BY <1>1, <1>2, <1>3 DEF CallInv

LEMMA StutterCalls == CallInv /\ UNCHANGED vars => CallInv'
<1> SUFFICES ASSUME CallInv, UNCHANGED vars PROVE CallInv'
  OBVIOUS
<1> USE DEF CallInv, vars, seqVars, serverVars, localVars, historyVars
<1>1. MeansInv'
  BY DEF MeansInv, MeansPart
<1>2. ReaderInv'
  BY DEF ReaderInv, ReaderPart, Reading, Sources, Holds
<1>3. ReachInv'
  BY DEF ReachInv
<1> QED BY <1>1, <1>2, <1>3

-------------------------------------------------------------------------------
(* What follows from it *)

(* What replies say of the servers, what a reader can still learn and how   *)
(* far seals and trims have reached is kept by every step.                  *)
THEOREM CallInvariance == Spec => [](Inv /\ CallInv)
<1>1. CallInv /\ Inv /\ [Next]_vars => CallInv'
  BY MeansStep, ReaderStep, ReachStep, StutterCalls DEF CallInv
<1> QED BY <1>1, InitCalls, Invariance, PTL DEF Spec

(* Once a seal has returned no server stores anything more, whichever       *)
(* stores are in its mailbox (native_loglet.rs:150-151, 394-411).           *)
THEOREM SealsFreeze == Spec => SealFreezesServers
<1>1. ASSUME Inv, CallInv, Next, finalTail # 0, NEW s \in Server
      PROVE  entries'[s] \subseteq entries[s]
  <2>1. ASSUME NEW c \in Client, Invoke(c) \/ Proceed(c) PROVE entries' = entries
    BY <1>1, <2>1, ServersAlone DEF serverVars
  <2>2. ASSUME NEW t \in Server, ServeStore(t) PROVE entries'[s] = entries[s]
    <3>1. sealed[t]
      BY <1>1, <2>2 DEF CallInv, ReachInv, ServeStore, Receive
    <3> QED BY <2>2, <3>1 DEF ServeStore
  <2>3. ASSUME NEW t \in Server, ServeTrim(t) PROVE entries'[s] \subseteq entries[s]
    BY <1>1, <2>3, TrimFacts DEF Inv
  <2>4. ASSUME NEW t \in Server, ServeRead(t) \/ ServeSeal(t) \/ Crash(t)
        PROVE  entries' = entries
    BY <2>4 DEF ServeRead, ServeSeal, Crash
  <2> QED BY <1>1, <2>1, <2>2, <2>3, <2>4 DEF Next, Serve
<1>2. Inv /\ CallInv /\ [Next]_vars =>
        [finalTail # 0 => \A s \in Server : entries'[s] \subseteq entries[s]]_vars
  BY <1>1
<1> QED BY <1>2, CallInvariance, PTL DEF Spec, SealFreezesServers

(* A read that ends has the reply of server idx, or found that one ended. *)
LEMMA ReadEndsWith ==
  ASSUME Inv, Next, NEW c \in Client, ReadEnds(c)
  PROVE  \/ result'[c].tag = "internal"
         \/ /\ reply[c][idx[c]].tag \in {"entry", "trimmed", "not_found"}
            /\ reply[c][idx[c]].tag = "not_found" => idx[c] = NumServers
            /\ result'[c].tag = reply[c][idx[c]].tag
            /\ result'[c].pos = op[c].pos
            /\ result'[c].entry = reply[c][idx[c]].entry
<1>1. pc[c] = "read_wait" /\ pc'[c] = "idle" /\ op[c].type = "read"
  BY DEF ReadEnds, Inv, PcInv
<1>2. ReadFails(c) \/ ReadReply(c)
  <2>1. ASSUME NEW d \in Client, Invoke(d) \/ Proceed(d), d # c PROVE FALSE
    BY <1>1, <2>1, OwnCall
  <2>2. ASSUME NEW s \in Server, Serve(s) \/ Crash(s) PROVE pc' = pc
    BY <2>2 DEF Serve, ServeStore, ServeRead, ServeSeal, ServeTrim, Receive, Crash, localVars
  <2>3. Invoke(c) \/ Proceed(c)
    BY <1>1, <2>1, <2>2 DEF Next
  <2>4. ~Glances(c) /\ ~Begins(c) /\ ~NextPos(c) /\ ~Sends(c)
    <3>1. ~Glances(c) /\ ~NextPos(c) /\ ~Sends(c)
      BY <1>1 DEF Glances, AppendFastPath, CheckTail, NextPos, Sends, FanOut, ReadSend
    <3>2. ~Begins(c)
      BY <1>1, BeginsFacts DEF Inv
    <3> QED BY <3>1, <3>2
  <2>5. ~ReadContinue(c)
    BY <1>1 DEF ReadContinue, Inv, TypeOK
  <2>6. Ends(c)
    BY <2>3, <2>4, <2>5 DEF Invoke, Proceed, Glances, Begins, Sends, Ends
  <2> QED BY <1>1, <2>6 DEF Ends, NextPosSealed, FanOutFails, AppendQuorum, AppendRefused,
             AppendNoQuorum, SealQuorum, SealNoQuorum, TrimDone, TrimFails, AllAnswered
<1>3. CASE ReadFails(c)
  <2>1. result' = [result EXCEPT ![c] = Internal(c)]
    BY <1>3 DEF ReadFails, Return
  <2>2. result'[c] = Internal(c)
    BY <2>1 DEF Inv, TypeOK
  <2> QED BY <2>2 DEF Internal, Res
<1>4. CASE ReadReply(c)
  <2> DEFINE r == reply[c][idx[c]]
  <2>1. /\ r.tag # "none" /\ ReadReturns(c)
        /\ result' = [result EXCEPT ![c] = Res("read", r.tag, op[c].pos, r.entry)]
    BY <1>4 DEF ReadReply, Return
  <2>2. result'[c] = Res("read", r.tag, op[c].pos, r.entry)
    BY <2>1 DEF Inv, TypeOK
  <2>3. idx[c] \in Server
    BY DEF Inv, TypeOK
  <2>4. r.tag \in {"entry", "trimmed", "not_found"}
    BY <1>1, <2>1, <2>3 DEF Inv, DeliveryInv, AnswersTo
  <2>5. r.tag = "not_found" => idx[c] = NumServers
    BY <2>1 DEF ReadReturns
  <2>6. result'[c].tag = r.tag /\ result'[c].pos = op[c].pos /\ result'[c].entry = r.entry
    BY <2>2 DEF Res
  <2> QED BY <2>4, <2>5, <2>6
<1> QED BY <1>2, <1>3, <1>4

(* A read of a position acknowledged before it began returns that entry or  *)
(* Trimmed, or fails on an ended server: the servers that answer "not       *)
(* found" never exhaust the quorum of holders (native_loglet.rs:364-374).   *)
THEOREM ReadsFind == Spec => ReadsFindAcked
<1>1. ASSUME Inv, CallInv, Next, NEW c \in Client, ReadEnds(c), known[c] # {}
      PROVE  \/ result'[c].tag \in {"trimmed", "internal"}
             \/ /\ result'[c].tag = "entry"
                /\ [pos |-> result'[c].pos, entry |-> result'[c].entry] \in known[c]
  <2>0. ReaderPart(c) /\ idx[c] \in Server /\ MeansPart(c, idx[c]) /\ pc[c] = "read_wait"
    BY <1>1 DEF CallInv, ReaderInv, MeansInv, Inv, TypeOK, ReadEnds
  <2>1. PICK r \in known[c] : TRUE
    BY <1>1
  <2>2. r \in acked /\ r.pos = op[c].pos /\ Cardinality(Sources(c, r)) >= QuorumSize
    BY <2>0, <2>1 DEF ReaderPart
  <2>3. reply[c][idx[c]].tag # "not_found" \/ idx[c] # NumServers
    <3> SUFFICES ASSUME reply[c][idx[c]].tag = "not_found", idx[c] = NumServers PROVE FALSE
      OBVIOUS
    <3>1. \A s \in Server : s < idx[c] \/ s = idx[c]
      BY NumServersAssumption DEF Server
    <3>2. \A s \in Server : reply[c][s].tag = "not_found"
      BY <2>0, <3>1 DEF ReaderPart, Reading
    <3>3. Sources(c, r) = {}
      BY <3>2 DEF Sources
    <3>4. Cardinality(Sources(c, r)) = 0
      BY <3>3, FS_EmptySet
    <3>5. QuorumSize \in Nat \ {0}
      BY NumServersAssumption DEF QuorumSize
    <3> QED BY <2>2, <3>4, <3>5
  <2>4. CASE reply[c][idx[c]].tag = "entry" /\ result'[c].tag # "internal"
    <3>1. /\ result'[c].tag = "entry" /\ result'[c].pos = op[c].pos
          /\ result'[c].entry = reply[c][idx[c]].entry
      BY <1>1, <2>4, ReadEndsWith
    <3>2. [pos |-> op[c].pos, entry |-> reply[c][idx[c]].entry] \in assigned
      BY <2>0, <2>4 DEF MeansPart
    <3>3. PICK q : q = [pos |-> op[c].pos, entry |-> reply[c][idx[c]].entry]
      OBVIOUS
    <3>4. q \in assigned /\ q.pos = op[c].pos /\ r \in assigned
      BY <1>1, <2>2, <3>2, <3>3 DEF Inv, PosInv
    <3>5. q = r
      BY <1>1, <2>2, <3>4 DEF Inv, PosInv
    <3> QED BY <2>1, <3>1, <3>3, <3>5
  <2> QED BY <1>1, <2>3, <2>4, ReadEndsWith
<1>2. Inv /\ CallInv /\ [Next]_vars =>
        [\A c \in Client : ReadEnds(c) /\ known[c] # {} =>
           \/ result'[c].tag \in {"trimmed", "internal"}
           \/ /\ result'[c].tag = "entry"
              /\ [pos |-> result'[c].pos, entry |-> result'[c].entry] \in known[c]]_vars
  BY <1>1
<1> QED BY <1>2, CallInvariance, PTL DEF Spec, ReadsFindAcked

(* A read begun after a trim returned Ok does not see an entry below it,    *)
(* whichever server answers (native_loglet.rs:376-384).                     *)
THEOREM TrimsTakeEffect == Spec => TrimTakesEffect
<1>1. ASSUME Inv, CallInv, Next, NEW c \in Client, ReadEnds(c), op[c].pos < floor[c]
      PROVE  result'[c].tag \in {"trimmed", "internal"}
  <2>1. idx[c] \in Server /\ MeansPart(c, idx[c])
    BY <1>1 DEF CallInv, MeansInv, Inv, TypeOK
  <2>2. op[c].pos \in Nat /\ floor[c] \in Nat
    BY <1>1 DEF Inv, TypeOK, Request
  <2>3. ~(floor[c] <= op[c].pos)
    BY <1>1, <2>2
  <2>4. reply[c][idx[c]].tag \notin {"entry", "not_found"}
    BY <2>1, <2>3 DEF MeansPart
  <2> QED BY <1>1, <2>4, ReadEndsWith
<1>2. Inv /\ CallInv /\ [Next]_vars =>
        [\A c \in Client : ReadEnds(c) /\ op[c].pos < floor[c] =>
           result'[c].tag \in {"trimmed", "internal"}]_vars
  BY <1>1
<1> QED BY <1>2, CallInvariance, PTL DEF Spec, TrimTakesEffect
===============================================================================
