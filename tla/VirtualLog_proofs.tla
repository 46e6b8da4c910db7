--------------------------- MODULE VirtualLog_proofs ---------------------------
(***************************************************************************)
(* Safety of VirtualLog for any number of appending tasks, proved for every *)
(* set of tasks and every bound: no call fails for want of a segment or a   *)
(* loglet. VirtualLogOne_proofs goes on for one appending task.             *)
(***************************************************************************)
EXTENDS VirtualLog, TLAPS, SequenceTheorems, FiniteSetTheorems

-------------------------------------------------------------------------------
(* Any number of appenders: the invariant *)

Seg == [id : Nat, start : Nat \ {0}, end : Nat]
Inner == [entries : Seq(Entry \cup {NoEntry}), sealed : BOOLEAN, trim_pos : Nat \ {0}]
Record == [pos : Nat \ {0}, entry : Entry]

Labels == {"idle", "get_chain", "get_loglet", "on_loglet", "read_version", "read_chain",
           "cas", "insert", "sync_read", "sync_insert", "write_chain", "write_version",
           "read_loglet", "trim"}
Modes == {"none", "append", "reconfigure", "check_tail", "seal", "read", "trim"}
Locals == [mode : Modes, entry : Entry \cup {NoEntry}, pos : Nat, id : Nat, start : Nat,
           inst : Nat, sealPos : Nat, version : Nat, chain : Seq(Seg)]
Results == [op : Modes, tag : {"pending", "ok", "trimmed", "none", "entry", "internal"},
            pos : Nat, entry : Entry \cup {NoEntry}]

(* The types, without the bounds that only one appender keeps. *)
Shape ==
  /\ meta \in [chain : Seq(Seg), version : Nat]
  /\ chain \in Seq(Seg) /\ chainVersion \in Nat
  /\ insts \in Seq(Inner)
  /\ loglets \in [DOMAIN loglets -> 1..Len(insts)] /\ DOMAIN loglets \subseteq Nat
  /\ pc \in [Task -> Labels] /\ local \in [Task -> Locals] /\ result \in [Task -> Results]
  /\ issued \in 0..MaxAppends /\ seals \in 0..MaxSeals /\ trimTo \in Position
  /\ acked \subseteq Record /\ known \in [Task -> SUBSET Record]

Rebuilding == {"read_version", "read_chain", "cas", "insert", "sync_read", "sync_insert",
               "write_chain", "write_version"}

(* What the local variables are at the points of a call. *)
CallPart(t) ==
  /\ pc[t] \in {"get_loglet", "on_loglet"} =>
       /\ local[t].start >= 1 /\ local[t].id \in DOMAIN loglets
       /\ local[t].mode \in {"append", "reconfigure", "check_tail", "seal"}
  /\ pc[t] = "on_loglet" => local[t].inst \in 1..Len(insts)
  /\ pc[t] = "get_chain" => local[t].mode \in {"append", "reconfigure"}
  /\ pc[t] \in Rebuilding => local[t].mode = "reconfigure"
  /\ pc[t] \in {"read_version", "read_chain"} => local[t].sealPos >= 1
  /\ pc[t] = "read_loglet" => local[t].mode = "read" /\ local[t].id \in DOMAIN loglets
  /\ pc[t] = "trim" => local[t].mode = "trim"
  /\ pc[t] = "idle" => local[t].mode = "none"
  /\ local[t].mode \in {"append", "reconfigure"} =>
       t \in Appenders /\ local[t].entry \in Entry
CallInv == \A t \in Task : CallPart(t)

(* A chain with an open segment that leaves no position out. *)
Sound(ch) == HasActive(ch) /\ \A p \in Nat \ {0} : HasSegment(ch, p)
Ids(ch) == {ch[i].id : i \in DOMAIN ch}

(* A chain is written only after its loglets are in the map. *)
ChainPart ==
  Sound(meta.chain) /\ Sound(chain) /\ Ids(chain) \subseteq DOMAIN loglets
BackedPart(t) ==
  /\ pc[t] \in {"cas", "insert"} =>
       Sound(local[t].chain) /\ Ids(local[t].chain) \subseteq DOMAIN loglets \cup {local[t].id}
  /\ pc[t] = "sync_insert" => Sound(local[t].chain)
  /\ pc[t] = "write_chain" =>
       Sound(local[t].chain) /\ Ids(local[t].chain) \subseteq DOMAIN loglets
  /\ result[t].tag # "internal"
BackedInv == ChainPart /\ \A t \in Task : BackedPart(t)

AnyInv == Shape /\ CallInv /\ BackedInv

-------------------------------------------------------------------------------
(* Operators *)

(* A nonempty set of naturals has a least element. *)
LEMMA LeastNat ==
  ASSUME NEW T \in SUBSET Nat, T # {}
  PROVE  \E x \in T : \A y \in T : ~(y < x)
<1> DEFINE R == {ss \in Nat \X Nat : ss[1] < ss[2]}
<1>1. IsWellFoundedOn(R, Nat)
  BY NatLessThanWellFounded DEF OpToRel
<1>2. PICK x \in T : \A y \in T : ~(<<y, x>> \in R)
  <2> HIDE DEF R
  <2> QED BY <1>1, WFMin
<1> QED BY <1>2

(* SetToSeq lists a finite set. *)
LEMMA Listed ==
  ASSUME NEW T, IsFiniteSet(T)
  PROVE  /\ Cardinality(T) \in Nat
         /\ SetToSeq(T) \in [1..Cardinality(T) -> T]
         /\ \A x \in T : \E i \in 1..Cardinality(T) : SetToSeq(T)[i] = x
<1> DEFINE n == Cardinality(T)
<1>1. n \in Nat /\ ExistsBijection(1..n, T)
  BY FS_CardinalityType
<1>2. PICK f \in Bijection(1..n, T) : TRUE
  BY <1>1 DEF ExistsBijection
<1>3. f \in [1..n -> T] /\ IsInjective(f)
  BY <1>2 DEF Bijection, Injection, IsInjective
<1>4. SetToSeq(T) \in [1..n -> T] /\ IsInjective(SetToSeq(T))
  BY <1>3 DEF SetToSeq
<1>5. SetToSeq(T) \in Injection(1..n, T)
  BY <1>4 DEF Injection
<1>6. IsFiniteSet(1..n) /\ Cardinality(1..n) = n
  BY <1>1, FS_Interval
<1>7. SetToSeq(T) \in Surjection(1..n, T)
  BY <1>5, <1>6, FS_Injection
<1> QED BY <1>1, <1>4, <1>7 DEF Surjection

(* find_segment finds a segment that covers the position. *)
LEMMA Found ==
  ASSUME NEW ch \in Seq(Seg), NEW p \in Nat, HasSegment(ch, p)
  PROVE  \E i \in 1..Len(ch) : /\ FindSegment(ch, p) = ch[i]
                               /\ Covers(ch[i], p)
                               /\ \A j \in 1..(i - 1) : ~Covers(ch[j], p)
<1> DEFINE T == {i \in 1..Len(ch) : Covers(ch[i], p)}
<1>1. Len(ch) \in Nat /\ DOMAIN ch = 1..Len(ch)
  OBVIOUS
<1>2. T # {} /\ T \subseteq Nat
  BY <1>1 DEF HasSegment
<1>3. PICK x \in T : \A y \in T : ~(y < x)
  BY <1>2, LeastNat
<1>4. \A j \in 1..(x - 1) : j \in 1..Len(ch) /\ j < x
  BY <1>1, <1>3
<1>5. \A j \in 1..(x - 1) : ~Covers(ch[j], p)
  BY <1>3, <1>4
<1>6. \E i \in DOMAIN ch : Covers(ch[i], p) /\ \A j \in 1..(i - 1) : ~Covers(ch[j], p)
  BY <1>1, <1>3, <1>5
<1> DEFINE i == CHOOSE i \in DOMAIN ch :
                  Covers(ch[i], p) /\ \A j \in 1..(i - 1) : ~Covers(ch[j], p)
<1>7. i \in DOMAIN ch /\ Covers(ch[i], p) /\ \A j \in 1..(i - 1) : ~Covers(ch[j], p)
  BY <1>6
<1>8. FindSegment(ch, p) = ch[i]
  BY DEF FindSegment
<1> HIDE DEF i
<1> QED BY <1>1, <1>7, <1>8

LEMMA NewChainIs ==
  /\ NewChain \in Seq(Seg) /\ Len(NewChain) = 1 /\ NewChain[1] = Segment(0, 1)
  /\ Sound(NewChain) /\ Ids(NewChain) = {0}
<1>1. Segment(0, 1) \in Seg
  BY DEF Segment, Seg, NoEnd
<1>2. NewChain \in Seq(Seg) /\ Len(NewChain) = 1 /\ NewChain[1] = Segment(0, 1)
      /\ NewChain # <<>> /\ DOMAIN NewChain = 1..1
  BY <1>1 DEF NewChain
<1>3. HasActive(NewChain)
  BY <1>2 DEF HasActive, Last, Segment
<1>4. ASSUME NEW p \in Nat \ {0} PROVE HasSegment(NewChain, p)
  <2>1. Covers(NewChain[1], p)
    BY <1>2 DEF Covers, Segment, NoEnd
  <2> QED BY <1>2, <2>1 DEF HasSegment
<1>5. Ids(NewChain) = {0}
  BY <1>2 DEF Ids, Segment
<1> QED BY <1>2, <1>3, <1>4, <1>5 DEF Sound

(* extend closes the open segment and adds one. *)
LEMMA Extended ==
  ASSUME NEW ch \in Seq(Seg), HasActive(ch), NEW p \in Nat \ {0}, NEW id \in Nat
  PROVE  /\ Extend(ch, p, id) \in Seq(Seg)
         /\ Len(ch) \in Nat \ {0} /\ Len(Extend(ch, p, id)) = Len(ch) + 1
         /\ \A i \in 1..(Len(ch) - 1) : Extend(ch, p, id)[i] = ch[i]
         /\ Extend(ch, p, id)[Len(ch)] = [ch[Len(ch)] EXCEPT !.end = p]
         /\ Extend(ch, p, id)[Len(ch) + 1] = Segment(id, p)
<1> DEFINE closed == [ch EXCEPT ![Len(ch)].end = p]
<1>1. Len(ch) \in Nat \ {0} /\ ch[Len(ch)] \in Seg
  <2>1. Len(ch) \in Nat \ {0}
    BY EmptySeq DEF HasActive
  <2> QED BY <2>1, ElementOfSeq
<1>2. [ch[Len(ch)] EXCEPT !.end = p] \in Seg
  BY <1>1 DEF Seg
<1>3. CloseLast(ch, p) = closed
  BY DEF CloseLast
<1>4. closed = [ch EXCEPT ![Len(ch)] = [ch[Len(ch)] EXCEPT !.end = p]]
  BY <1>1
<1>5. /\ closed \in Seq(Seg) /\ Len(closed) = Len(ch)
      /\ \A j \in 1..Len(ch) :
           closed[j] = IF j = Len(ch) THEN [ch[Len(ch)] EXCEPT !.end = p] ELSE ch[j]
  BY <1>1, <1>2, <1>4, ExceptSeq
<1>6. Segment(id, p) \in Seg
  BY DEF Segment, Seg, NoEnd
<1> HIDE DEF closed
<1>7. Extend(ch, p, id) = Append(closed, Segment(id, p))
  BY <1>3 DEF Extend
<1> DEFINE e == Append(closed, Segment(id, p))
<1>8. /\ e \in Seq(Seg) /\ Len(e) = Len(ch) + 1 /\ e[Len(ch) + 1] = Segment(id, p)
      /\ \A i \in 1..Len(ch) : e[i] = closed[i]
  BY <1>5, <1>6, AppendProperties
<1> HIDE DEF e
<1>9. e[Len(ch)] = [ch[Len(ch)] EXCEPT !.end = p]
  <2>1. Len(ch) \in 1..Len(ch)
    BY <1>1
  <2> QED BY <2>1, <1>5, <1>8
<1>10. ASSUME NEW i \in 1..(Len(ch) - 1) PROVE e[i] = ch[i]
  <2>1. i \in 1..Len(ch) /\ i # Len(ch)
    BY <1>1
  <2> QED BY <2>1, <1>5, <1>8
<1> QED BY <1>1, <1>7, <1>8, <1>9, <1>10 DEF e

LEMMA ExtendedSound ==
  ASSUME NEW ch \in Seq(Seg), Sound(ch), NEW p \in Nat \ {0}, NEW id \in Nat
  PROVE  /\ Sound(Extend(ch, p, id))
         /\ Ids(Extend(ch, p, id)) = Ids(ch) \cup {id}
<1> DEFINE e == Extend(ch, p, id)
           n == Len(ch)
<1>1. HasActive(ch)
  BY DEF Sound
<1>2. /\ e \in Seq(Seg) /\ n \in Nat \ {0} /\ Len(e) = n + 1
      /\ \A i \in 1..(n - 1) : e[i] = ch[i]
      /\ e[n] = [ch[n] EXCEPT !.end = p]
      /\ e[n + 1] = Segment(id, p)
  BY <1>1, Extended
<1>3. DOMAIN e = 1..(n + 1) /\ DOMAIN ch = 1..n /\ ch[n] \in Seg
  BY <1>2, ElementOfSeq
<1> HIDE DEF e, n
<1>4. HasActive(e)
  <2>1. e # <<>>
    BY <1>2
  <2>2. Last(e) = Segment(id, p)
    BY <1>2 DEF Last
  <2> QED BY <2>1, <2>2 DEF HasActive, Segment
<1>5. ASSUME NEW q \in Nat \ {0} PROVE HasSegment(e, q)
  <2>1. CASE q >= p
    <3>1. Covers(e[n + 1], q)
      BY <2>1, <1>2 DEF Covers, Segment, NoEnd
    <3> QED BY <3>1, <1>2, <1>3 DEF HasSegment
  <2>2. CASE q < p
    <3>1. PICK i \in 1..n : Covers(ch[i], q)
      BY <1>3 DEF Sound, HasSegment
    <3>2. Covers(e[i], q)
      <4>1. CASE i = n
        <5>1. e[n].start = ch[n].start /\ e[n].end = p
          BY <1>2, <1>3 DEF Seg
        <5> QED BY <4>1, <5>1, <3>1, <2>2 DEF Covers
      <4>2. CASE i # n
        <5>1. i \in 1..(n - 1)
          BY <4>2, <1>2
        <5> QED BY <5>1, <3>1, <1>2
      <4> QED BY <4>1, <4>2
    <3>3. i \in DOMAIN e
      BY <1>2, <1>3
    <3> QED BY <3>2, <3>3 DEF HasSegment
  <2> QED BY <2>1, <2>2, <1>2
<1>6. Ids(e) = Ids(ch) \cup {id}
  <2>1. e[n].id = ch[n].id /\ e[n + 1].id = id
    BY <1>2, <1>3 DEF Seg, Segment
  <2>2. ASSUME NEW i \in 1..n PROVE e[i].id = ch[i].id
    <3>1. i = n \/ i \in 1..(n - 1)
      BY <1>2
    <3> QED BY <3>1, <2>1, <1>2
  <2>3. \A i \in 1..(n + 1) : i \in 1..n \/ i = n + 1
    BY <1>2
  <2>4. \A x : x \in Ids(e) <=> x \in Ids(ch) \/ x = id
    BY <2>1, <2>2, <2>3, <1>2, <1>3 DEF Ids
  <2> QED BY <2>4
<1>7. Sound(e)
  BY <1>4, <1>5 DEF Sound
<1> QED BY <1>6, <1>7 DEF e

LEMMA PositionType ==
  ASSUME NEW start \in Nat \ {0}, NEW p \in Nat \ {0}
  PROVE  LocalToGlobal(start, p) \in Nat \ {0}
  BY DEF LocalToGlobal

(* The functions of a loglet stay within its type. *)
LEMMA LogletTypes ==
  ASSUME NEW inner \in Inner
  PROVE  /\ LogletTail(inner) \in Nat \ {0}
         /\ \A e \in Entry : LogletAppend(inner, e) \in Inner
         /\ LogletSeal(inner) \in Inner
         /\ \A p \in Int : LogletTrim(inner, p) \in Inner
         /\ \A p \in Int : /\ LogletRead(inner, p).tag \in {"trimmed", "none", "entry"}
                           /\ LogletRead(inner, p).entry \in Entry \cup {NoEntry}
<1>1. /\ inner.entries \in Seq(Entry \cup {NoEntry}) /\ Len(inner.entries) \in Nat
      /\ inner.sealed \in BOOLEAN /\ inner.trim_pos \in Nat \ {0}
  BY DEF Inner
<1>2. LogletTail(inner) \in Nat \ {0}
  BY <1>1 DEF LogletTail
<1>3. ASSUME NEW e \in Entry PROVE LogletAppend(inner, e) \in Inner
  <2>1. Append(inner.entries, e) \in Seq(Entry \cup {NoEntry})
    BY <1>1
  <2> QED BY <2>1 DEF LogletAppend, Inner
<1>4. LogletSeal(inner) \in Inner
  BY DEF LogletSeal, Inner
<1>5. ASSUME NEW p \in Int PROVE LogletTrim(inner, p) \in Inner
  <2> DEFINE es == [q \in 1..Len(inner.entries) |-> IF q < p THEN NoEntry ELSE inner.entries[q]]
  <2>1. \A q \in 1..Len(inner.entries) : es[q] \in Entry \cup {NoEntry}
    BY <1>1
  <2>2. es \in Seq(Entry \cup {NoEntry})
    BY <1>1, <2>1, IsASeq
  <2> HIDE DEF es
  <2>3. CASE p <= inner.trim_pos
    BY <2>3 DEF LogletTrim
  <2>4. CASE ~(p <= inner.trim_pos)
    <3>1. LogletTrim(inner, p) = [inner EXCEPT !.trim_pos = p, !.entries = es]
      BY <2>4 DEF LogletTrim, es
    <3>2. p \in Nat \ {0}
      BY <2>4, <1>1
    <3> QED BY <3>1, <3>2, <2>2 DEF Inner
  <2> QED BY <2>3, <2>4
<1>6. ASSUME NEW p \in Int
      PROVE  /\ LogletRead(inner, p).tag \in {"trimmed", "none", "entry"}
             /\ LogletRead(inner, p).entry \in Entry \cup {NoEntry}
  <2>1. CASE p < inner.trim_pos \/ p >= LogletTail(inner)
    BY <2>1 DEF LogletRead, ReadTrimmed, ReadNone
  <2>2. CASE ~(p < inner.trim_pos \/ p >= LogletTail(inner))
    <3>1. p \in 1..Len(inner.entries)
      BY <2>2, <1>1 DEF LogletTail
    <3>2. inner.entries[p] \in Entry \cup {NoEntry}
      BY <3>1, <1>1
    <3> QED BY <2>2, <3>2 DEF LogletRead
  <2> QED BY <2>1, <2>2
<1> QED BY <1>2, <1>3, <1>4, <1>5, <1>6

LEMMA Updated ==
  ASSUME Shape, NEW k \in 1..Len(insts), NEW inner \in Inner, Update(k, inner)
  PROVE  /\ insts' \in Seq(Inner) /\ Len(insts') = Len(insts) /\ Len(insts) \in Nat
         /\ \A j \in 1..Len(insts) : insts'[j] = IF j = k THEN inner ELSE insts[j]
<1>1. insts \in Seq(Inner) /\ insts' = [insts EXCEPT ![k] = inner]
  BY DEF Shape, Update
<1> QED BY <1>1, ExceptSeq, LenProperties

(* A step of t leaves the calls of the other tasks alone, and neither the   *)
(* loglets nor the map ever shrink.                                         *)
LEMMA OthersKeep ==
  ASSUME NEW u \in Task, CallPart(u), BackedPart(u), Len(insts) \in Nat, Len(insts') \in Nat,
         pc'[u] = pc[u], local'[u] = local[u], result'[u] = result[u],
         DOMAIN loglets \subseteq DOMAIN loglets', Len(insts) <= Len(insts')
  PROVE  CallPart(u)' /\ BackedPart(u)'
  BY DEF CallPart, BackedPart

(* A call that ends. *)
LEMMA Returned ==
  ASSUME Shape, NEW t \in Task, NEW res \in Results, Return(t, res)
  PROVE  /\ pc' \in [Task -> Labels] /\ local' \in [Task -> Locals]
         /\ result' \in [Task -> Results] /\ known' \in [Task -> SUBSET Record]
         /\ pc'[t] = "idle" /\ local'[t] = NoLocals /\ result'[t] = res /\ known'[t] = {}
         /\ \A u \in Task : u # t => /\ pc'[u] = pc[u] /\ local'[u] = local[u]
                                     /\ result'[u] = result[u] /\ known'[u] = known[u]
<1>1. NoLocals \in Locals
  <2>1. <<>> \in Seq(Seg)
    BY EmptySeq
  <2> QED BY <2>1 DEF NoLocals, Locals, Modes
<1>2. "idle" \in Labels /\ {} \in SUBSET Record
  BY DEF Labels
<1> QED BY <1>1, <1>2 DEF Shape, Return, Goto

(* The first lock of get_active_loglet finds the open segment. *)
LEMMA GotChain ==
  ASSUME Shape, ChainPart, NEW t \in Task, NEW x \in Locals, GetChain(t, x)
  PROVE  /\ pc' \in [Task -> Labels] /\ local' \in [Task -> Locals]
         /\ result' \in [Task -> Results] /\ known' \in [Task -> SUBSET Record]
         /\ pc'[t] = "get_loglet"
         /\ local'[t] = [x EXCEPT !.id = chain[Len(chain)].id, !.start = chain[Len(chain)].start]
         /\ result'[t] = Res(x.mode, "pending", 0, NoEntry)
         /\ known'[t] = IF x.mode = "check_tail" THEN acked ELSE known[t]
         /\ Len(chain) \in Nat \ {0} /\ chain[Len(chain)] \in Seg
         /\ chain[Len(chain)].id \in DOMAIN loglets
         /\ \A u \in Task : u # t => /\ pc'[u] = pc[u] /\ local'[u] = local[u]
                                     /\ result'[u] = result[u] /\ known'[u] = known[u]
<1>1. HasActive(chain) /\ chain \in Seq(Seg)
  BY DEF ChainPart, Sound, Shape
<1>2. Len(chain) \in Nat \ {0} /\ chain[Len(chain)] \in Seg /\ DOMAIN chain = 1..Len(chain)
  <2>1. Len(chain) \in Nat \ {0}
    BY <1>1, EmptySeq DEF HasActive
  <2> QED BY <1>1, <2>1, ElementOfSeq
<1>3. chain[Len(chain)].id \in DOMAIN loglets
  BY <1>2 DEF ChainPart, Ids
<1> DEFINE y == [x EXCEPT !.id = chain[Len(chain)].id, !.start = chain[Len(chain)].start]
<1>4. y \in Locals
  BY <1>2 DEF Locals, Seg
<1> HIDE DEF y
<1>5. Res(x.mode, "pending", 0, NoEntry) \in Results
  BY DEF Res, Results, Locals
<1>6. /\ local' = [local EXCEPT ![t] = y] /\ pc' = [pc EXCEPT ![t] = "get_loglet"]
      /\ result' = [result EXCEPT ![t] = Res(x.mode, "pending", 0, NoEntry)]
      /\ known' = [known EXCEPT ![t] = IF x.mode = "check_tail" THEN acked ELSE known[t]]
  BY <1>1 DEF GetChain, Goto, Last, y
<1>7. local' \in [Task -> Locals] /\ local'[t] = y
      /\ \A u \in Task : u # t => local'[u] = local[u]
  BY <1>4, <1>6 DEF Shape
<1>8. pc' \in [Task -> Labels] /\ result' \in [Task -> Results]
      /\ known' \in [Task -> SUBSET Record]
  BY <1>5, <1>6 DEF Shape, Labels
<1>9. pc'[t] = "get_loglet" /\ result'[t] = Res(x.mode, "pending", 0, NoEntry)
      /\ known'[t] = IF x.mode = "check_tail" THEN acked ELSE known[t]
  BY <1>6 DEF Shape
<1>10. \A u \in Task : u # t =>
         pc'[u] = pc[u] /\ result'[u] = result[u] /\ known'[u] = known[u]
  BY <1>6 DEF Shape
<1> QED BY <1>2, <1>3, <1>7, <1>8, <1>9, <1>10 DEF y

(* A call that goes on. *)
LEMMA Moved ==
  ASSUME Shape, NEW t \in Task, NEW l \in Labels, NEW x \in Locals, Goto(t, l),
         local' = [local EXCEPT ![t] = x], UNCHANGED <<result, known>>
  PROVE  /\ pc' \in [Task -> Labels] /\ local' \in [Task -> Locals]
         /\ result' \in [Task -> Results] /\ known' \in [Task -> SUBSET Record]
         /\ pc'[t] = l /\ local'[t] = x /\ result'[t] = result[t] /\ known'[t] = known[t]
         /\ \A u \in Task : u # t => /\ pc'[u] = pc[u] /\ local'[u] = local[u]
                                     /\ result'[u] = result[u] /\ known'[u] = known[u]
  BY DEF Shape, Goto

LEMMA MovedOnly ==
  ASSUME Shape, NEW t \in Task, NEW l \in Labels, Goto(t, l), UNCHANGED <<local, result, known>>
  PROVE  /\ pc' \in [Task -> Labels] /\ local' \in [Task -> Locals]
         /\ result' \in [Task -> Results] /\ known' \in [Task -> SUBSET Record]
         /\ pc'[t] = l /\ local'[t] = local[t] /\ result'[t] = result[t]
         /\ \A u \in Task : u # t => /\ pc'[u] = pc[u] /\ local'[u] = local[u]
                                     /\ result'[u] = result[u] /\ known'[u] = known[u]
  BY DEF Shape, Goto

(* What is left to show of a step of t. *)
LEMMA AnyRest ==
  ASSUME AnyInv, NEW t \in Task, Shape', ChainPart', CallPart(t)', BackedPart(t)',
         DOMAIN loglets \subseteq DOMAIN loglets', Len(insts) <= Len(insts'),
         \A u \in Task : u # t => /\ pc'[u] = pc[u] /\ local'[u] = local[u]
                                  /\ result'[u] = result[u] /\ known'[u] = known[u]
  PROVE  AnyInv'
<1>1. Len(insts) \in Nat /\ Len(insts') \in Nat
  BY DEF AnyInv, Shape
<1>2. ASSUME NEW u \in Task PROVE CallPart(u)' /\ BackedPart(u)'
  BY <1>1, OthersKeep DEF AnyInv, CallInv, BackedInv
<1> QED BY <1>2 DEF AnyInv, CallInv, BackedInv

LEMMA NoLocalsType == NoLocals \in Locals
<1>1. <<>> \in Seq(Seg)
  BY EmptySeq
<1> QED BY <1>1 DEF NoLocals, Locals, Modes

(* Calls that look for the active loglet. *)
LEMMA AnyGetChain ==
  ASSUME AnyInv, NEW t \in Task, NEW x \in Locals, GetChain(t, x), UNCHANGED <<logVars, trimTo, acked>>,
         issued' \in 0..MaxAppends, seals' \in 0..MaxSeals,
         x.mode \in {"append", "reconfigure", "check_tail", "seal"},
         x.mode \in {"append", "reconfigure"} => t \in Appenders /\ x.entry \in Entry
  PROVE  AnyInv'
<1>1. Shape /\ ChainPart
  BY DEF AnyInv, BackedInv
<1> DEFINE n == Len(chain)
<1>2. /\ pc' \in [Task -> Labels] /\ local' \in [Task -> Locals]
      /\ result' \in [Task -> Results] /\ known' \in [Task -> SUBSET Record]
      /\ pc'[t] = "get_loglet"
      /\ local'[t] = [x EXCEPT !.id = chain[n].id, !.start = chain[n].start]
      /\ result'[t] = Res(x.mode, "pending", 0, NoEntry)
      /\ chain[n] \in Seg
      /\ chain[n].id \in DOMAIN loglets
      /\ \A u \in Task : u # t => /\ pc'[u] = pc[u] /\ local'[u] = local[u]
                                  /\ result'[u] = result[u] /\ known'[u] = known[u]
  BY <1>1, GotChain
<1> HIDE DEF n
<1>3. /\ local'[t].mode = x.mode /\ local'[t].entry = x.entry
      /\ local'[t].id = chain[n].id /\ local'[t].start = chain[n].start
      /\ chain[n].start >= 1
  <2>1. chain[n].start >= 1
    BY <1>2 DEF Seg
  <2>2. local'[t] = [x EXCEPT !.id = chain[n].id, !.start = chain[n].start]
    BY <1>2
  <2> QED BY <2>1, <2>2 DEF Locals
<1>4. CallPart(t)'
  BY <1>2, <1>3 DEF CallPart, logVars, Rebuilding
<1>5. BackedPart(t)'
  BY <1>2 DEF BackedPart, Res
<1>6. ChainPart'
  BY <1>1 DEF ChainPart, logVars
<1>7. Shape'
  BY <1>1, <1>2 DEF Shape, logVars
<1>8. Len(insts) <= Len(insts') /\ DOMAIN loglets \subseteq DOMAIN loglets'
  BY <1>1 DEF logVars, Shape
<1> QED BY <1>2, <1>4, <1>5, <1>6, <1>7, <1>8, AnyRest

LEMMA AnyBegin ==
  ASSUME AnyInv, NEW t \in Task,
         BeginAppend(t) \/ BeginSeal(t) \/ BeginCheckTail(t) \/ GetChainAgain(t)
  PROVE  AnyInv'
<1>1. Shape /\ CallPart(t)
  BY DEF AnyInv, CallInv
<1>2. CASE BeginAppend(t)
  <2> DEFINE x == [NoLocals EXCEPT !.mode = "append", !.entry = issued + 1]
  <2>1. issued + 1 \in Entry /\ issued' \in 0..MaxAppends /\ seals' \in 0..MaxSeals
    BY <1>1, <1>2, BoundsAssumption DEF BeginAppend, Shape, Entry
  <2>2. x \in Locals /\ x.mode = "append" /\ x.entry = issued + 1
    BY <2>1, NoLocalsType DEF Locals, Modes, NoLocals
  <2>3. GetChain(t, x) /\ t \in Appenders /\ UNCHANGED <<logVars, trimTo, acked>>
    BY <1>2 DEF BeginAppend
  <2> HIDE DEF x
  <2> QED BY <2>1, <2>2, <2>3, AnyGetChain
<1>3. CASE BeginSeal(t)
  <2> DEFINE x == [NoLocals EXCEPT !.mode = "seal"]
  <2>1. issued' \in 0..MaxAppends /\ seals' \in 0..MaxSeals
    BY <1>1, <1>3, BoundsAssumption DEF BeginSeal, Shape
  <2>2. x \in Locals /\ x.mode = "seal"
    BY NoLocalsType DEF Locals, Modes, NoLocals
  <2>3. GetChain(t, x) /\ UNCHANGED <<logVars, trimTo, acked>>
    BY <1>3 DEF BeginSeal
  <2> HIDE DEF x
  <2> QED BY <2>1, <2>2, <2>3, AnyGetChain
<1>4. CASE BeginCheckTail(t)
  <2> DEFINE x == [NoLocals EXCEPT !.mode = "check_tail"]
  <2>1. issued' \in 0..MaxAppends /\ seals' \in 0..MaxSeals
    BY <1>1, <1>4 DEF BeginCheckTail, Shape, historyVars
  <2>2. x \in Locals /\ x.mode = "check_tail"
    BY NoLocalsType DEF Locals, Modes, NoLocals
  <2>3. GetChain(t, x) /\ UNCHANGED <<logVars, trimTo, acked>>
    BY <1>4 DEF BeginCheckTail, historyVars
  <2> HIDE DEF x
  <2> QED BY <2>1, <2>2, <2>3, AnyGetChain
<1>5. CASE GetChainAgain(t)
  <2>1. issued' \in 0..MaxAppends /\ seals' \in 0..MaxSeals
    BY <1>1, <1>5 DEF GetChainAgain, Shape, historyVars
  <2>2. local[t] \in Locals /\ pc[t] = "get_chain"
    BY <1>1, <1>5 DEF Shape, GetChainAgain
  <2>3. GetChain(t, local[t]) /\ UNCHANGED <<logVars, trimTo, acked>>
    BY <1>5 DEF GetChainAgain, historyVars
  <2>4. /\ local[t].mode \in {"append", "reconfigure"}
        /\ t \in Appenders /\ local[t].entry \in Entry
    BY <1>1, <2>2 DEF CallPart
  <2> QED BY <2>1, <2>2, <2>3, <2>4, AnyGetChain
<1> QED BY <1>2, <1>3, <1>4, <1>5

(* A step that only moves t and leaves the log alone. *)
LEMMA AnyMoved ==
  ASSUME AnyInv, NEW t \in Task, NEW l \in Labels, NEW x \in Locals, Goto(t, l),
         local' = [local EXCEPT ![t] = x],
         UNCHANGED <<chain, loglets, insts, result, known, historyVars>>,
         meta' \in [chain : Seq(Seg), version : Nat], Sound(meta'.chain), chainVersion' \in Nat,
         CallPart(t)', BackedPart(t)'
  PROVE  AnyInv'
<1>1. Shape /\ ChainPart
  BY DEF AnyInv, BackedInv
<1>2. /\ pc' \in [Task -> Labels] /\ local' \in [Task -> Locals]
      /\ result' \in [Task -> Results] /\ known' \in [Task -> SUBSET Record]
      /\ \A u \in Task : u # t => /\ pc'[u] = pc[u] /\ local'[u] = local[u]
                                  /\ result'[u] = result[u] /\ known'[u] = known[u]
  BY <1>1, Moved
<1>3. Shape'
  BY <1>1, <1>2 DEF Shape, historyVars
<1>4. ChainPart'
  BY <1>1 DEF ChainPart
<1>5. Len(insts) <= Len(insts') /\ DOMAIN loglets \subseteq DOMAIN loglets'
  BY <1>1 DEF Shape
<1> QED BY <1>2, <1>3, <1>4, <1>5, AnyRest

LEMMA AnyGetLoglet ==
  ASSUME AnyInv, NEW t \in Task, GetLoglet(t)
  PROVE  AnyInv'
<1>1. Shape /\ ChainPart /\ CallPart(t) /\ BackedPart(t)
  BY DEF AnyInv, CallInv, BackedInv
<1>2. pc[t] = "get_loglet" /\ UNCHANGED <<logVars, historyVars>>
  BY DEF GetLoglet
<1>3. local[t] \in Locals /\ local[t].id \in DOMAIN loglets
  BY <1>1, <1>2 DEF Shape, CallPart
<1> DEFINE x == [local[t] EXCEPT !.inst = loglets[local[t].id]]
<1>4. /\ local' = [local EXCEPT ![t] = x] /\ Goto(t, "on_loglet") /\ UNCHANGED <<result, known>>
  BY <1>3 DEF GetLoglet
<1>5. loglets[local[t].id] \in 1..Len(insts)
  BY <1>1, <1>3 DEF Shape
<1>6. x \in Locals /\ x.mode = local[t].mode /\ x.id = local[t].id /\ x.start = local[t].start
      /\ x.entry = local[t].entry /\ x.inst = loglets[local[t].id]
  <2>1. loglets[local[t].id] \in Nat
    BY <1>1, <1>5 DEF Shape
  <2> QED BY <1>3, <2>1 DEF Locals
<1> HIDE DEF x
<1>7. "on_loglet" \in Labels
  BY DEF Labels
<1>8. pc'[t] = "on_loglet" /\ local'[t] = x /\ result'[t] = result[t]
  BY <1>1, <1>4, <1>6, <1>7, Moved
<1>9. CallPart(t)'
  BY <1>1, <1>2, <1>5, <1>6, <1>8 DEF CallPart, Rebuilding, logVars
<1>10. BackedPart(t)'
  BY <1>1, <1>8 DEF BackedPart
<1>11. meta' \in [chain : Seq(Seg), version : Nat] /\ Sound(meta'.chain) /\ chainVersion' \in Nat
  BY <1>1, <1>2 DEF Shape, ChainPart, logVars
<1> QED BY <1>2, <1>4, <1>6, <1>7, <1>9, <1>10, <1>11, AnyMoved DEF logVars

(* A call that returns anything but Internal. *)
LEMMA AnyReturn ==
  ASSUME AnyInv, NEW t \in Task, NEW res \in Results, Return(t, res), res.tag # "internal",
         UNCHANGED <<meta, chain, chainVersion, loglets, issued, seals, trimTo>>,
         insts' \in Seq(Inner), Len(insts') = Len(insts), acked' \subseteq Record
  PROVE  AnyInv'
<1>1. Shape /\ ChainPart
  BY DEF AnyInv, BackedInv
<1>2. /\ pc' \in [Task -> Labels] /\ local' \in [Task -> Locals]
      /\ result' \in [Task -> Results] /\ known' \in [Task -> SUBSET Record]
      /\ pc'[t] = "idle" /\ local'[t] = NoLocals /\ result'[t] = res
      /\ \A u \in Task : u # t => /\ pc'[u] = pc[u] /\ local'[u] = local[u]
                                  /\ result'[u] = result[u] /\ known'[u] = known[u]
  BY <1>1, Returned
<1>3. Shape'
  BY <1>1, <1>2 DEF Shape
<1>4. ChainPart'
  BY <1>1 DEF ChainPart
<1>5. CallPart(t)' /\ BackedPart(t)'
  BY <1>2 DEF CallPart, BackedPart, NoLocals, Rebuilding
<1>6. Len(insts) <= Len(insts') /\ DOMAIN loglets \subseteq DOMAIN loglets'
  BY <1>1 DEF Shape
<1> QED BY <1>2, <1>3, <1>4, <1>5, <1>6, AnyRest

(* What a call does to its loglet. *)
LEMMA AnyOnLoglet ==
  ASSUME AnyInv, NEW t \in Task, AppendOk(t) \/ CheckTail(t) \/ Seal(t)
  PROVE  AnyInv'
<1> DEFINE k == local[t].inst
           pos == LocalToGlobal(local[t].start, LogletTail(insts[k]))
<1>1. Shape /\ CallPart(t)
  BY DEF AnyInv, CallInv
<1>2. pc[t] = "on_loglet"
  BY DEF AppendOk, CheckTail, Seal
<1>3. /\ k \in 1..Len(insts) /\ local[t].start >= 1 /\ local[t] \in Locals
      /\ local[t].mode = "append" => local[t].entry \in Entry
  BY <1>1, <1>2 DEF CallPart, Shape
<1>4. insts \in Seq(Inner) /\ insts[k] \in Inner
  BY <1>1, <1>3 DEF Shape
<1>5. /\ LogletTail(insts[k]) \in Nat \ {0} /\ LogletSeal(insts[k]) \in Inner
      /\ \A e \in Entry : LogletAppend(insts[k], e) \in Inner
  BY <1>4, LogletTypes
<1>6. pos \in Nat \ {0}
  <2>1. local[t].start \in Nat \ {0}
    BY <1>3 DEF Locals
  <2> QED BY <2>1, <1>5, PositionType
<1> HIDE DEF pos, k
<1>7. acked \subseteq Record
  BY <1>1 DEF Shape
<1>8. CASE AppendOk(t)
  <2>1. /\ Update(k, LogletAppend(insts[k], local[t].entry)) /\ local[t].entry \in Entry
        /\ acked' = acked \cup {[pos |-> pos, entry |-> local[t].entry]}
        /\ Return(t, Res("append", "ok", pos, local[t].entry))
        /\ UNCHANGED <<meta, chain, chainVersion, loglets, issued, seals, trimTo>>
    BY <1>3, <1>8 DEF AppendOk, k, pos
  <2>2. insts' \in Seq(Inner) /\ Len(insts') = Len(insts)
    BY <1>1, <1>3, <1>5, <2>1, Updated
  <2>3. acked' \subseteq Record
    BY <1>6, <1>7, <2>1 DEF Record
  <2>4. Res("append", "ok", pos, local[t].entry) \in Results
        /\ Res("append", "ok", pos, local[t].entry).tag = "ok"
    BY <1>6, <2>1 DEF Res, Results, Modes
  <2> QED BY <2>1, <2>2, <2>3, <2>4, AnyReturn
<1>9. CASE CheckTail(t)
  <2>1. /\ Return(t, Res("check_tail", "ok", pos, NoEntry)) /\ insts' = insts /\ acked' = acked
        /\ UNCHANGED <<meta, chain, chainVersion, loglets, issued, seals, trimTo>>
    BY <1>9 DEF CheckTail, k, pos, logVars, historyVars
  <2>2. Res("check_tail", "ok", pos, NoEntry) \in Results
        /\ Res("check_tail", "ok", pos, NoEntry).tag = "ok"
    BY <1>6 DEF Res, Results, Modes
  <2> QED BY <1>4, <1>7, <2>1, <2>2, AnyReturn
<1>10. CASE Seal(t)
  <2>1. /\ Update(k, LogletSeal(insts[k])) /\ acked' = acked
        /\ Return(t, Res("seal", "ok", pos, NoEntry))
        /\ UNCHANGED <<meta, chain, chainVersion, loglets, issued, seals, trimTo>>
    BY <1>10 DEF Seal, k, pos, historyVars
  <2>2. insts' \in Seq(Inner) /\ Len(insts') = Len(insts)
    BY <1>1, <1>3, <1>5, <2>1, Updated
  <2>3. Res("seal", "ok", pos, NoEntry) \in Results
        /\ Res("seal", "ok", pos, NoEntry).tag = "ok"
    BY <1>6 DEF Res, Results, Modes
  <2> QED BY <1>7, <2>1, <2>2, <2>3, AnyReturn
<1> QED BY <1>8, <1>9, <1>10

LEMMA NewLogletType == NewLoglet \in Inner
<1>1. <<>> \in Seq(Entry \cup {NoEntry})
  BY EmptySeq
<1>2. NewLoglet = [entries |-> <<>>, sealed |-> FALSE, trim_pos |-> 1]
  BY DEF NewLoglet
<1> QED BY <1>1, <1>2 DEF Inner

(* The steps of append and reconfigure that leave the loglets alone. *)
LEMMA AnyReconfigure ==
  ASSUME AnyInv, NEW t \in Task,
         \/ AppendSealed(t) \/ ReadVersion(t) \/ ReadChain(t) \/ CasSucceeds(t)
         \/ CasFails(t) \/ SyncRead(t) \/ WriteVersion(t)
  PROVE  AnyInv'
<1>1. Shape /\ ChainPart /\ CallPart(t) /\ BackedPart(t)
  BY DEF AnyInv, CallInv, BackedInv
<1>2. /\ local[t] \in Locals /\ chainVersion \in Nat /\ meta \in [chain : Seq(Seg), version : Nat]
      /\ chain \in Seq(Seg) /\ local \in [Task -> Locals] /\ Sound(meta.chain) /\ Sound(chain)
  BY <1>1 DEF Shape, ChainPart
<1> DEFINE Step(l, x) == /\ Goto(t, l) /\ local' = [local EXCEPT ![t] = x]
                         /\ UNCHANGED <<chain, loglets, insts, result, known, historyVars>>
<1>3. ASSUME NEW l \in Labels, NEW x \in Locals, Step(l, x)
      PROVE  pc'[t] = l /\ local'[t] = x /\ result'[t] = result[t]
  BY <1>1, <1>3, Moved
<1>4. CASE AppendSealed(t)
  <2> DEFINE x == [local[t] EXCEPT !.mode = "reconfigure"]
  <2>1. x \in Locals /\ x.mode = "reconfigure" /\ x.entry = local[t].entry
    BY <1>2 DEF Locals, Modes
  <2>2. /\ Step("get_chain", x) /\ meta' = meta /\ chainVersion' = chainVersion
        /\ pc[t] = "on_loglet" /\ local[t].mode = "append"
    BY <1>4 DEF AppendSealed, logVars
  <2>3. "get_chain" \in Labels
    BY DEF Labels
  <2> HIDE DEF x
  <2>4. pc'[t] = "get_chain" /\ local'[t] = x /\ result'[t] = result[t]
    BY <1>3, <2>1, <2>2, <2>3
  <2>5. CallPart(t)' /\ BackedPart(t)'
    BY <1>1, <2>1, <2>2, <2>4 DEF CallPart, BackedPart, Rebuilding
  <2> QED BY <1>2, <2>1, <2>2, <2>3, <2>5, AnyMoved
<1>5. CASE ReadVersion(t)
  <2> DEFINE x == [local[t] EXCEPT !.version = chainVersion]
  <2>1. x \in Locals /\ x.mode = local[t].mode /\ x.entry = local[t].entry
        /\ x.sealPos = local[t].sealPos
    BY <1>2 DEF Locals
  <2>2. /\ Step("read_chain", x) /\ meta' = meta /\ chainVersion' = chainVersion
        /\ pc[t] = "read_version"
    BY <1>5 DEF ReadVersion, logVars
  <2>3. "read_chain" \in Labels
    BY DEF Labels
  <2> HIDE DEF x
  <2>4. pc'[t] = "read_chain" /\ local'[t] = x /\ result'[t] = result[t]
    BY <1>3, <2>1, <2>2, <2>3
  <2>5. CallPart(t)' /\ BackedPart(t)'
    BY <1>1, <2>1, <2>2, <2>4 DEF CallPart, BackedPart, Rebuilding
  <2> QED BY <1>2, <2>1, <2>2, <2>3, <2>5, AnyMoved
<1>6. CASE ReadChain(t)
  <2> DEFINE e == Extend(chain, local[t].sealPos, Len(chain))
             x == [local[t] EXCEPT !.id = Len(chain), !.chain = e]
  <2>1. local[t].sealPos \in Nat \ {0} /\ Len(chain) \in Nat
    BY <1>1, <1>2, <1>6 DEF ReadChain, CallPart, Locals
  <2>2. e \in Seq(Seg) /\ Sound(e) /\ Ids(e) = Ids(chain) \cup {Len(chain)}
    BY <1>2, <2>1, Extended, ExtendedSound DEF Sound
  <2> HIDE DEF e
  <2>3. x \in Locals /\ x.mode = local[t].mode /\ x.entry = local[t].entry
        /\ x.id = Len(chain) /\ x.chain = e
    BY <1>2, <2>1, <2>2 DEF Locals
  <2>4. /\ Step("cas", x) /\ meta' = meta /\ chainVersion' = chainVersion
        /\ pc[t] = "read_chain"
    BY <1>6 DEF ReadChain, logVars, GenerateLogletId, e
  <2>5. "cas" \in Labels
    BY DEF Labels
  <2> HIDE DEF x
  <2>6. pc'[t] = "cas" /\ local'[t] = x /\ result'[t] = result[t]
    BY <1>3, <2>3, <2>4, <2>5
  <2>7. CallPart(t)'
    BY <1>1, <2>3, <2>4, <2>6 DEF CallPart, Rebuilding
  <2>8. BackedPart(t)'
    BY <1>1, <2>2, <2>3, <2>4, <2>6 DEF BackedPart, ChainPart
  <2> QED BY <1>2, <2>3, <2>4, <2>5, <2>7, <2>8, AnyMoved
<1>7. CASE CasSucceeds(t)
  <2> DEFINE x == [local[t] EXCEPT !.version = local[t].version + 1]
  <2>1. x \in Locals /\ x.mode = local[t].mode /\ x.entry = local[t].entry
        /\ x.id = local[t].id /\ x.chain = local[t].chain
    <3>1. local[t].version + 1 \in Nat
      BY <1>2 DEF Locals
    <3> QED BY <1>2, <3>1 DEF Locals
  <2>2. /\ Step("insert", x) /\ chainVersion' = chainVersion
        /\ meta' = [chain |-> local[t].chain, version |-> meta.version + 1]
        /\ pc[t] = "cas"
    BY <1>7 DEF CasSucceeds
  <2>3. "insert" \in Labels
    BY DEF Labels
  <2> HIDE DEF x
  <2>4. pc'[t] = "insert" /\ local'[t] = x /\ result'[t] = result[t]
    BY <1>3, <2>1, <2>2, <2>3
  <2>5. CallPart(t)' /\ BackedPart(t)'
    BY <1>1, <2>1, <2>2, <2>4 DEF CallPart, BackedPart, Rebuilding
  <2>6. local[t].chain \in Seq(Seg) /\ Sound(local[t].chain)
    BY <1>1, <1>2, <2>2 DEF Locals, BackedPart
  <2>7. meta' \in [chain : Seq(Seg), version : Nat] /\ meta'.chain = local[t].chain
    BY <1>2, <2>2, <2>6
  <2>8. Sound(meta'.chain)
    BY <2>6, <2>7
  <2> QED BY <1>2, <2>1, <2>2, <2>3, <2>5, <2>7, <2>8, AnyMoved
<1>8. CASE CasFails(t)
  <2>1. /\ Step("sync_read", local[t]) /\ meta' = meta /\ chainVersion' = chainVersion
        /\ pc[t] = "cas"
    BY <1>2, <1>8 DEF CasFails, logVars
  <2>2. "sync_read" \in Labels
    BY DEF Labels
  <2>3. pc'[t] = "sync_read" /\ local'[t] = local[t] /\ result'[t] = result[t]
    BY <1>2, <1>3, <2>1, <2>2
  <2>4. CallPart(t)' /\ BackedPart(t)'
    BY <1>1, <2>1, <2>3 DEF CallPart, BackedPart, Rebuilding
  <2> QED BY <1>2, <2>1, <2>2, <2>4, AnyMoved
<1>9. CASE SyncRead(t)
  <2> DEFINE x == [local[t] EXCEPT !.chain = meta.chain, !.version = meta.version]
  <2>1. x \in Locals /\ x.mode = local[t].mode /\ x.entry = local[t].entry
        /\ x.chain = meta.chain
    BY <1>2 DEF Locals
  <2>2. /\ Step("sync_insert", x) /\ meta' = meta /\ chainVersion' = chainVersion
        /\ pc[t] = "sync_read"
    BY <1>9 DEF SyncRead, logVars
  <2>3. "sync_insert" \in Labels
    BY DEF Labels
  <2> HIDE DEF x
  <2>4. pc'[t] = "sync_insert" /\ local'[t] = x /\ result'[t] = result[t]
    BY <1>3, <2>1, <2>2, <2>3
  <2>5. CallPart(t)' /\ BackedPart(t)'
    BY <1>1, <1>2, <2>1, <2>2, <2>4 DEF CallPart, BackedPart, Rebuilding
  <2> QED BY <1>2, <2>1, <2>2, <2>3, <2>5, AnyMoved
<1>10. CASE WriteVersion(t)
  <2> DEFINE x == [NoLocals EXCEPT !.mode = "append", !.entry = local[t].entry]
  <2>1. x \in Locals /\ x.mode = "append" /\ x.entry = local[t].entry
    BY <1>2, NoLocalsType DEF Locals, Modes, NoLocals
  <2>2. /\ Step("get_chain", x) /\ meta' = meta /\ chainVersion' = local[t].version
        /\ pc[t] = "write_version"
    BY <1>10 DEF WriteVersion, InstallVersion
  <2>3. "get_chain" \in Labels /\ local[t].version \in Nat
    BY <1>2 DEF Labels, Locals
  <2> HIDE DEF x
  <2>4. pc'[t] = "get_chain" /\ local'[t] = x /\ result'[t] = result[t]
    BY <1>3, <2>1, <2>2, <2>3
  <2>5. CallPart(t)' /\ BackedPart(t)'
    BY <1>1, <2>1, <2>2, <2>4 DEF CallPart, BackedPart, Rebuilding
  <2> QED BY <1>2, <2>1, <2>2, <2>3, <2>5, AnyMoved
<1> QED BY <1>4, <1>5, <1>6, <1>7, <1>8, <1>9, <1>10

LEMMA AnyReconfigureSeal ==
  ASSUME AnyInv, NEW t \in Task, ReconfigureSeal(t)
  PROVE  AnyInv'
<1> DEFINE k == local[t].inst
           pos == LocalToGlobal(local[t].start, LogletTail(insts[k]))
           x == [local[t] EXCEPT !.sealPos = pos]
<1>1. Shape /\ ChainPart /\ CallPart(t) /\ BackedPart(t)
  BY DEF AnyInv, CallInv, BackedInv
<1>2. /\ pc[t] = "on_loglet" /\ local[t].mode = "reconfigure"
      /\ Update(k, LogletSeal(insts[k])) /\ local' = [local EXCEPT ![t] = x]
      /\ Goto(t, "read_version")
      /\ UNCHANGED <<meta, chain, chainVersion, loglets, result, historyVars, known>>
  BY DEF ReconfigureSeal
<1>3. k \in 1..Len(insts) /\ local[t].start >= 1 /\ local[t] \in Locals
  BY <1>1, <1>2 DEF CallPart, Shape
<1>4. insts \in Seq(Inner) /\ insts[k] \in Inner
  BY <1>1, <1>3 DEF Shape
<1>5. LogletTail(insts[k]) \in Nat \ {0} /\ LogletSeal(insts[k]) \in Inner
  BY <1>4, LogletTypes
<1>6. pos \in Nat /\ pos >= 1
  <2>1. local[t].start \in Nat \ {0}
    BY <1>3 DEF Locals
  <2>2. pos \in Nat \ {0}
    BY <2>1, <1>5, PositionType
  <2> QED BY <2>2
<1> HIDE DEF pos, k
<1>7. /\ x \in Locals /\ x.mode = "reconfigure" /\ x.entry = local[t].entry
      /\ x.sealPos = pos
  BY <1>2, <1>3, <1>6 DEF Locals
<1>8. "read_version" \in Labels
  BY DEF Labels
<1> HIDE DEF x
<1>9. /\ pc' \in [Task -> Labels] /\ local' \in [Task -> Locals]
      /\ result' \in [Task -> Results] /\ known' \in [Task -> SUBSET Record]
      /\ pc'[t] = "read_version" /\ local'[t] = x /\ result'[t] = result[t]
      /\ \A u \in Task : u # t => /\ pc'[u] = pc[u] /\ local'[u] = local[u]
                                  /\ result'[u] = result[u] /\ known'[u] = known[u]
  BY <1>1, <1>2, <1>7, <1>8, Moved
<1>10. insts' \in Seq(Inner) /\ Len(insts') = Len(insts) /\ Len(insts) \in Nat
  BY <1>1, <1>2, <1>3, <1>5, Updated
<1>11. Shape'
  BY <1>1, <1>2, <1>9, <1>10 DEF Shape, historyVars
<1>12. ChainPart'
  BY <1>1, <1>2 DEF ChainPart
<1>13. CallPart(t)' /\ BackedPart(t)'
  BY <1>1, <1>2, <1>6, <1>7, <1>9 DEF CallPart, BackedPart, Rebuilding
<1> QED BY <1>2, <1>9, <1>10, <1>11, <1>12, <1>13, AnyRest

(* The map gets loglets for ids: each one it has keeps its own. *)
LEMMA AnyInsert ==
  ASSUME AnyInv, NEW t \in Task, pc[t] \in {"insert", "sync_insert"}, Goto(t, "write_chain"),
         UNCHANGED <<meta, chain, chainVersion, local, result, historyVars, known>>,
         insts' \in Seq(Inner), Len(insts) <= Len(insts'),
         loglets' \in [DOMAIN loglets' -> 1..Len(insts')], DOMAIN loglets' \subseteq Nat,
         DOMAIN loglets \subseteq DOMAIN loglets', Ids(local[t].chain) \subseteq DOMAIN loglets'
  PROVE  AnyInv'
<1>1. Shape /\ ChainPart /\ CallPart(t) /\ BackedPart(t)
  BY DEF AnyInv, CallInv, BackedInv
<1>2. local[t] \in Locals /\ "write_chain" \in Labels
  BY <1>1 DEF Shape, Labels
<1>3. /\ pc' \in [Task -> Labels] /\ local' \in [Task -> Locals]
      /\ result' \in [Task -> Results] /\ known' \in [Task -> SUBSET Record]
      /\ pc'[t] = "write_chain" /\ local'[t] = local[t] /\ result'[t] = result[t]
      /\ \A u \in Task : u # t => /\ pc'[u] = pc[u] /\ local'[u] = local[u]
                                  /\ result'[u] = result[u] /\ known'[u] = known[u]
  BY <1>1, <1>2, MovedOnly
<1>4. Shape'
  BY <1>1, <1>3 DEF Shape, historyVars
<1>5. ChainPart'
  BY <1>1 DEF ChainPart
<1>6. CallPart(t)' /\ BackedPart(t)'
  BY <1>1, <1>3 DEF CallPart, BackedPart, Rebuilding
<1> QED BY <1>3, <1>4, <1>5, <1>6, AnyRest

LEMMA AnyInsertLoglet ==
  ASSUME AnyInv, NEW t \in Task, InsertLoglet(t)
  PROVE  AnyInv'
<1>1. Shape /\ BackedPart(t)
  BY DEF AnyInv, BackedInv
<1>2. /\ pc[t] = "insert" /\ insts' = Append(insts, NewLoglet)
      /\ loglets' = [id \in DOMAIN loglets \cup {local[t].id} |->
                       IF id = local[t].id THEN Len(insts) + 1 ELSE loglets[id]]
      /\ Goto(t, "write_chain")
      /\ UNCHANGED <<meta, chain, chainVersion, local, result, historyVars, known>>
  BY DEF InsertLoglet
<1>3. insts \in Seq(Inner) /\ Len(insts) \in Nat /\ local[t].id \in Nat
      /\ DOMAIN loglets \subseteq Nat
  BY <1>1 DEF Shape, Locals
<1>4. insts' \in Seq(Inner) /\ Len(insts') = Len(insts) + 1
  BY <1>2, <1>3, NewLogletType, AppendProperties
<1>5. DOMAIN loglets' = DOMAIN loglets \cup {local[t].id}
  BY <1>2
<1>6. \A id \in DOMAIN loglets : loglets[id] \in 1..Len(insts)
  BY <1>1 DEF Shape
<1>7. loglets' \in [DOMAIN loglets' -> 1..Len(insts')]
  BY <1>2, <1>3, <1>4, <1>6
<1>8. Ids(local[t].chain) \subseteq DOMAIN loglets'
  BY <1>1, <1>2, <1>5 DEF BackedPart
<1> QED BY <1>2, <1>3, <1>4, <1>5, <1>7, <1>8, AnyInsert

LEMMA AnySyncInsert ==
  ASSUME AnyInv, NEW t \in Task, SyncInsert(t)
  PROVE  AnyInv'
<1> DEFINE ch == local[t].chain
           wanted == Wanted(ch)
           lacking == wanted \ DOMAIN loglets
           missing == SetToSeq(lacking)
           m == Cardinality(lacking)
           fresh == [i \in DOMAIN missing |-> NewLoglet]
<1>1. Shape
  BY DEF AnyInv
<1>2. /\ pc[t] = "sync_insert" /\ insts' = insts \o fresh
      /\ loglets' = [id \in DOMAIN loglets \cup wanted |->
                       IF id \in DOMAIN loglets THEN loglets[id]
                       ELSE Len(insts) + (CHOOSE i \in DOMAIN missing : missing[i] = id)]
      /\ Goto(t, "write_chain")
      /\ UNCHANGED <<meta, chain, chainVersion, local, result, historyVars, known>>
  BY DEF SyncInsert
<1>3. /\ ch \in Seq(Seg) /\ Len(ch) \in Nat /\ DOMAIN ch = 1..Len(ch)
      /\ insts \in Seq(Inner) /\ Len(insts) \in Nat /\ DOMAIN loglets \subseteq Nat
      /\ \A id \in DOMAIN loglets : loglets[id] \in 1..Len(insts)
  <2>1. ch \in Seq(Seg)
    BY <1>1 DEF Shape, Locals
  <2> QED BY <1>1, <2>1 DEF Shape
<1>4. wanted = Ids(ch) /\ wanted \subseteq Nat
  <2>1. \A i \in DOMAIN ch : ch[i] \in Seg
    BY <1>3, ElementOfSeq
  <2> QED BY <2>1 DEF Wanted, Ids, Seg
<1>5. IsFiniteSet(wanted)
  <2> DEFINE f == [i \in 1..Len(ch) |-> ch[i].id]
  <2>1. f \in Surjection(1..Len(ch), wanted)
    BY <1>3 DEF Surjection, Wanted
  <2>2. IsFiniteSet(1..Len(ch))
    BY <1>3, FS_Interval
  <2> HIDE DEF f
  <2> QED BY <2>1, <2>2, FS_Surjection
<1> HIDE DEF ch, wanted
<1>6. IsFiniteSet(lacking)
  BY <1>5, FS_Difference
<1>7. /\ m \in Nat /\ missing \in [1..m -> lacking]
      /\ \A x \in lacking : \E i \in 1..m : missing[i] = x
  <2> HIDE DEF lacking
  <2> QED BY <1>6, Listed
<1> HIDE DEF m, missing
<1>8. DOMAIN missing = 1..m
  BY <1>7
<1>9. fresh \in Seq(Inner) /\ Len(fresh) = m
  <2>1. fresh = [i \in 1..m |-> NewLoglet]
    BY <1>8
  <2>2. \A i \in 1..m : NewLoglet \in Inner
    BY NewLogletType
  <2>3. fresh \in Seq(Inner)
    BY <1>7, <2>1, <2>2, IsASeq
  <2> QED BY <1>7, <2>1, <2>3
<1> HIDE DEF fresh
<1>10. insts' \in Seq(Inner) /\ Len(insts') = Len(insts) + m
  BY <1>2, <1>3, <1>9, ConcatProperties
<1>11. DOMAIN loglets' = DOMAIN loglets \cup wanted
  BY <1>2
<1>12. ASSUME NEW id \in DOMAIN loglets \cup wanted PROVE loglets'[id] \in 1..Len(insts')
  <2>1. CASE id \in DOMAIN loglets
    BY <1>2, <1>3, <1>7, <1>10, <2>1
  <2>2. CASE id \notin DOMAIN loglets
    <3>1. \E i \in DOMAIN missing : missing[i] = id
      BY <1>7, <1>8, <2>2
    <3> DEFINE j == CHOOSE i \in DOMAIN missing : missing[i] = id
    <3>2. j \in 1..m
      BY <1>8, <3>1
    <3>3. loglets'[id] = Len(insts) + j
      BY <1>2, <2>2
    <3> HIDE DEF j
    <3> QED BY <1>3, <1>7, <1>10, <3>2, <3>3
  <2> QED BY <2>1, <2>2
<1>13. loglets' \in [DOMAIN loglets' -> 1..Len(insts')]
  <2>1. loglets' = [id \in DOMAIN loglets \cup wanted |-> loglets'[id]]
    BY <1>2
  <2> QED BY <2>1, <1>11, <1>12
<1>14. /\ Len(insts) <= Len(insts') /\ DOMAIN loglets' \subseteq Nat
       /\ DOMAIN loglets \subseteq DOMAIN loglets' /\ Ids(local[t].chain) \subseteq DOMAIN loglets'
  BY <1>3, <1>4, <1>7, <1>10, <1>11 DEF ch
<1> QED BY <1>2, <1>10, <1>13, <1>14, AnyInsert

LEMMA AnyWriteChain ==
  ASSUME AnyInv, NEW t \in Task, WriteChain(t)
  PROVE  AnyInv'
<1>1. Shape /\ ChainPart /\ CallPart(t) /\ BackedPart(t)
  BY DEF AnyInv, CallInv, BackedInv
<1>2. /\ pc[t] = "write_chain" /\ chain' = local[t].chain /\ Goto(t, "write_version")
      /\ UNCHANGED <<meta, chainVersion, loglets, insts, local, result, historyVars, known>>
  BY DEF WriteChain, InstallChain
<1>3. local[t] \in Locals /\ "write_version" \in Labels
  BY <1>1, <1>2 DEF Shape, Labels
<1>4. /\ pc' \in [Task -> Labels] /\ local' \in [Task -> Locals]
      /\ result' \in [Task -> Results] /\ known' \in [Task -> SUBSET Record]
      /\ pc'[t] = "write_version" /\ local'[t] = local[t] /\ result'[t] = result[t]
      /\ \A u \in Task : u # t => /\ pc'[u] = pc[u] /\ local'[u] = local[u]
                                  /\ result'[u] = result[u] /\ known'[u] = known[u]
  BY <1>1, <1>2, <1>3, MovedOnly
<1>5. chain' \in Seq(Seg)
  BY <1>2, <1>3 DEF Locals
<1>6. Shape'
  BY <1>1, <1>2, <1>4, <1>5 DEF Shape, historyVars
<1>7. ChainPart'
  BY <1>1, <1>2 DEF ChainPart, BackedPart
<1>8. CallPart(t)' /\ BackedPart(t)'
  BY <1>1, <1>2, <1>4 DEF CallPart, BackedPart, Rebuilding
<1>9. Len(insts) <= Len(insts') /\ DOMAIN loglets \subseteq DOMAIN loglets'
  BY <1>1, <1>2 DEF Shape
<1> QED BY <1>4, <1>6, <1>7, <1>8, <1>9, AnyRest

(* A read or a trim begins. *)
LEMMA AnyCallBegun ==
  ASSUME AnyInv, NEW t \in Task, NEW l \in Labels, NEW x \in Locals, NEW res \in Results,
         NEW S0 \in SUBSET Record, Goto(t, l), local' = [local EXCEPT ![t] = x],
         result' = [result EXCEPT ![t] = res], known' = [known EXCEPT ![t] = S0],
         UNCHANGED <<logVars, issued, seals, acked>>, trimTo' \in Position,
         res.tag # "internal",
         \/ l = "trim" /\ x.mode = "trim"
         \/ l = "read_loglet" /\ x.mode = "read" /\ x.id \in DOMAIN loglets
  PROVE  AnyInv'
<1>1. Shape /\ ChainPart
  BY DEF AnyInv, BackedInv
<1>2. /\ pc' \in [Task -> Labels] /\ local' \in [Task -> Locals]
      /\ result' \in [Task -> Results] /\ known' \in [Task -> SUBSET Record]
      /\ pc'[t] = l /\ local'[t] = x /\ result'[t] = res
      /\ \A u \in Task : u # t => /\ pc'[u] = pc[u] /\ local'[u] = local[u]
                                  /\ result'[u] = result[u] /\ known'[u] = known[u]
  BY <1>1 DEF Shape, Goto
<1>3. Shape'
  BY <1>1, <1>2 DEF Shape, logVars
<1>4. ChainPart'
  BY <1>1 DEF ChainPart, logVars
<1>5. CallPart(t)' /\ BackedPart(t)'
  BY <1>2 DEF CallPart, BackedPart, Rebuilding, logVars
<1>6. Len(insts) <= Len(insts') /\ DOMAIN loglets \subseteq DOMAIN loglets'
  BY <1>1 DEF Shape, logVars
<1> QED BY <1>2, <1>3, <1>4, <1>5, <1>6, AnyRest

LEMMA AnyBeginRead ==
  ASSUME AnyInv, NEW t \in Task, NEW p \in Position, BeginRead(t, p)
  PROVE  AnyInv'
<1> DEFINE seg == FindSegment(chain, p)
           x == [NoLocals EXCEPT !.mode = "read", !.id = seg.id,
                                 !.pos = GlobalToLocal(seg.start, p)]
<1>1. Shape /\ ChainPart
  BY DEF AnyInv, BackedInv
<1>2. p \in Nat \ {0} /\ chain \in Seq(Seg) /\ HasSegment(chain, p)
  BY <1>1, BoundsAssumption DEF Position, Shape, ChainPart, Sound
<1>3. PICK i \in 1..Len(chain) : seg = chain[i] /\ Covers(chain[i], p)
  BY <1>2, Found
<1>4. seg \in Seg /\ seg.id \in DOMAIN loglets /\ p >= seg.start
  <2>1. chain[i] \in Seg /\ i \in DOMAIN chain
    BY <1>2, ElementOfSeq
  <2> QED BY <1>1, <1>3, <2>1 DEF ChainPart, Ids, Covers
<1>5. /\ Goto(t, "read_loglet") /\ local' = [local EXCEPT ![t] = x]
      /\ result' = [result EXCEPT ![t] = Res("read", "pending", p, NoEntry)]
      /\ known' = [known EXCEPT ![t] = {r \in acked : r.pos = p}]
      /\ UNCHANGED <<logVars, historyVars>>
  BY <1>2 DEF BeginRead
<1> HIDE DEF seg
<1>6. x \in Locals /\ x.mode = "read" /\ x.id = seg.id
  <2>1. seg.id \in Nat /\ GlobalToLocal(seg.start, p) \in Nat
    <3>1. seg.id \in Nat /\ seg.start \in Nat
      BY <1>4 DEF Seg
    <3> QED BY <1>2, <1>4, <3>1 DEF GlobalToLocal
  <2> QED BY <2>1, NoLocalsType DEF Locals, Modes, NoLocals
<1> HIDE DEF x
<1>7. /\ Res("read", "pending", p, NoEntry) \in Results
      /\ Res("read", "pending", p, NoEntry).tag = "pending"
  BY <1>2 DEF Res, Results, Modes
<1>8. /\ {r \in acked : r.pos = p} \in SUBSET Record /\ "read_loglet" \in Labels
      /\ trimTo' \in Position /\ UNCHANGED <<issued, seals, acked>>
  BY <1>1, <1>5 DEF Shape, Labels, historyVars
<1> QED BY <1>4, <1>5, <1>6, <1>7, <1>8, AnyCallBegun

LEMMA AnyReadLoglet ==
  ASSUME AnyInv, NEW t \in Task, ReadLoglet(t)
  PROVE  AnyInv'
<1> DEFINE k == loglets[local[t].id]
           r == LogletRead(insts[k], local[t].pos)
<1>1. Shape /\ CallPart(t)
  BY DEF AnyInv, CallInv
<1>2. pc[t] = "read_loglet" /\ UNCHANGED <<logVars, historyVars>>
  BY DEF ReadLoglet
<1>3. local[t].id \in DOMAIN loglets /\ local[t].pos \in Nat /\ result[t].pos \in Nat
  BY <1>1, <1>2 DEF CallPart, Shape, Locals, Results
<1>4. insts \in Seq(Inner) /\ insts[k] \in Inner /\ acked \subseteq Record
  BY <1>1, <1>3 DEF Shape
<1>5. r.tag \in {"trimmed", "none", "entry"} /\ r.entry \in Entry \cup {NoEntry}
  <2>1. local[t].pos \in Int
    BY <1>3
  <2> HIDE DEF k
  <2> QED BY <2>1, <1>4, LogletTypes
<1>6. Return(t, Res("read", r.tag, result[t].pos, r.entry))
  BY <1>3 DEF ReadLoglet
<1> HIDE DEF r
<1>7. /\ Res("read", r.tag, result[t].pos, r.entry) \in Results
      /\ Res("read", r.tag, result[t].pos, r.entry).tag # "internal"
  BY <1>3, <1>5 DEF Res, Results, Modes
<1>8. /\ insts' \in Seq(Inner) /\ Len(insts') = Len(insts) /\ acked' \subseteq Record
      /\ UNCHANGED <<meta, chain, chainVersion, loglets, issued, seals, trimTo>>
  BY <1>2, <1>4 DEF logVars, historyVars
<1> QED BY <1>6, <1>7, <1>8, AnyReturn

LEMMA AnyBeginTrim ==
  ASSUME AnyInv, NEW t \in Task, NEW p \in Position, BeginTrim(t, p)
  PROVE  AnyInv'
<1> DEFINE x == [NoLocals EXCEPT !.mode = "trim", !.pos = p, !.chain = chain]
<1>1. Shape
  BY DEF AnyInv
<1>2. /\ Goto(t, "trim") /\ local' = [local EXCEPT ![t] = x]
      /\ result' = [result EXCEPT ![t] = Res("trim", "pending", p, NoEntry)]
      /\ known' = [known EXCEPT ![t] = {r \in acked : r.pos < p}]
      /\ trimTo' = (IF p > trimTo THEN p ELSE trimTo)
      /\ UNCHANGED <<logVars, issued, seals, acked>>
  BY DEF BeginTrim
<1>3. p \in Nat
  BY BoundsAssumption DEF Position
<1>4. x \in Locals /\ x.mode = "trim"
  BY <1>1, <1>3, NoLocalsType DEF Locals, Modes, NoLocals, Shape
<1> HIDE DEF x
<1>5. /\ Res("trim", "pending", p, NoEntry) \in Results
      /\ Res("trim", "pending", p, NoEntry).tag = "pending"
  BY <1>3 DEF Res, Results, Modes
<1>6. /\ {r \in acked : r.pos < p} \in SUBSET Record /\ "trim" \in Labels
      /\ trimTo' \in Position
  BY <1>1, <1>2 DEF Shape, Labels
<1> QED BY <1>2, <1>4, <1>5, <1>6, AnyCallBegun

LEMMA AnyTrimSegment ==
  ASSUME AnyInv, NEW t \in Task, TrimSegment(t)
  PROVE  AnyInv'
<1> DEFINE seg == Head(local[t].chain)
           k == loglets[seg.id]
           q == GlobalToLocal(seg.start, TrimBound(seg, local[t].pos))
           x == [local[t] EXCEPT !.chain = Tail(local[t].chain)]
<1>1. Shape /\ ChainPart /\ CallPart(t) /\ BackedPart(t)
  BY DEF AnyInv, CallInv, BackedInv
<1>2. /\ pc[t] = "trim" /\ local[t].chain # <<>> /\ local' = [local EXCEPT ![t] = x]
      /\ \/ seg.id \in DOMAIN loglets /\ Update(k, LogletTrim(insts[k], q))
         \/ insts' = insts
      /\ UNCHANGED <<meta, chain, chainVersion, loglets, pc, result, historyVars, known>>
  BY DEF TrimSegment
<1>3. local[t] \in Locals /\ local[t].chain \in Seq(Seg) /\ local[t].pos \in Nat
      /\ insts \in Seq(Inner) /\ Len(insts) \in Nat
  BY <1>1 DEF Shape, Locals
<1>4. seg \in Seg /\ Tail(local[t].chain) \in Seq(Seg)
  BY <1>2, <1>3, HeadTailProperties
<1>5. q \in Int
  <2>1. seg.start \in Int /\ seg.end \in Int /\ local[t].pos \in Int
    <3>1. seg.start \in Nat /\ seg.end \in Nat
      BY <1>4 DEF Seg
    <3> HIDE DEF seg
    <3> QED BY <3>1, <1>3
  <2> HIDE DEF seg
  <2> QED BY <2>1 DEF GlobalToLocal, TrimBound
<1> HIDE DEF q, seg
<1>6. insts' \in Seq(Inner) /\ Len(insts') = Len(insts)
  <2>1. CASE insts' = insts
    BY <1>3, <2>1
  <2>2. CASE seg.id \in DOMAIN loglets /\ Update(k, LogletTrim(insts[k], q))
    <3>1. k \in 1..Len(insts)
      BY <1>1, <2>2 DEF Shape
    <3>2. insts[k] \in Inner
      BY <1>3, <3>1
    <3>3. LogletTrim(insts[k], q) \in Inner
      BY <1>5, <3>2, LogletTypes
    <3> HIDE DEF k
    <3> QED BY <1>1, <2>2, <3>1, <3>3, Updated
  <2> QED BY <1>2, <2>1, <2>2
<1>7. x \in Locals /\ x.mode = local[t].mode /\ x.entry = local[t].entry
  BY <1>3, <1>4 DEF Locals
<1> HIDE DEF x
<1>8. Goto(t, "trim") /\ "trim" \in Labels /\ UNCHANGED <<result, known>>
  BY <1>1, <1>2 DEF Goto, Labels, Shape
<1>9. /\ pc' \in [Task -> Labels] /\ local' \in [Task -> Locals]
      /\ result' \in [Task -> Results] /\ known' \in [Task -> SUBSET Record]
      /\ pc'[t] = "trim" /\ local'[t] = x /\ result'[t] = result[t]
      /\ \A u \in Task : u # t => /\ pc'[u] = pc[u] /\ local'[u] = local[u]
                                  /\ result'[u] = result[u] /\ known'[u] = known[u]
  BY <1>1, <1>2, <1>7, <1>8, Moved
<1>10. Shape'
  BY <1>1, <1>2, <1>6, <1>9 DEF Shape, historyVars
<1>11. ChainPart'
  BY <1>1, <1>2 DEF ChainPart
<1>12. CallPart(t)' /\ BackedPart(t)'
  BY <1>1, <1>2, <1>7, <1>9 DEF CallPart, BackedPart, Rebuilding
<1> QED BY <1>2, <1>3, <1>6, <1>9, <1>10, <1>11, <1>12, AnyRest

LEMMA AnyTrimReturns ==
  ASSUME AnyInv, NEW t \in Task, TrimReturns(t)
  PROVE  AnyInv'
<1>1. Shape
  BY DEF AnyInv
<1>2. /\ Return(t, Res("trim", "ok", local[t].pos, NoEntry)) /\ UNCHANGED <<logVars, historyVars>>
  BY DEF TrimReturns
<1>3. local[t].pos \in Nat /\ insts \in Seq(Inner) /\ acked \subseteq Record
  BY <1>1 DEF Shape, Locals
<1>4. /\ Res("trim", "ok", local[t].pos, NoEntry) \in Results
      /\ Res("trim", "ok", local[t].pos, NoEntry).tag = "ok"
  BY <1>3 DEF Res, Results, Modes
<1>5. /\ insts' \in Seq(Inner) /\ Len(insts') = Len(insts) /\ acked' \subseteq Record
      /\ UNCHANGED <<meta, chain, chainVersion, loglets, issued, seals, trimTo>>
  BY <1>2, <1>3 DEF logVars, historyVars
<1> QED BY <1>2, <1>4, <1>5, AnyReturn

LEMMA AnyInit == Init => AnyInv
<1> SUFFICES ASSUME Init PROVE AnyInv
  OBVIOUS
<1>1. /\ NewChain \in Seq(Seg) /\ Sound(NewChain) /\ Ids(NewChain) = {0}
  BY NewChainIs
<1>2. meta.chain = NewChain /\ chain = NewChain /\ DOMAIN loglets = {0}
  BY DEF Init
<1>3. insts \in Seq(Inner) /\ Len(insts) = 1
  BY NewLogletType DEF Init
<1>4. \A t \in Task : pc[t] = "idle" /\ local[t] = NoLocals /\ result[t].tag = "pending"
  BY DEF Init, Res
<1>5. result \in [Task -> Results]
  <2>1. Res("none", "pending", 0, NoEntry) \in Results
    BY DEF Res, Results, Modes
  <2> QED BY <2>1 DEF Init
<1>6. Shape
  <2>1. /\ meta \in [chain : Seq(Seg), version : Nat] /\ chain \in Seq(Seg) /\ chainVersion \in Nat
        /\ loglets \in [DOMAIN loglets -> 1..Len(insts)] /\ DOMAIN loglets \subseteq Nat
    BY <1>1, <1>3 DEF Init
  <2>2. /\ pc \in [Task -> Labels] /\ local \in [Task -> Locals]
        /\ acked \subseteq Record /\ known \in [Task -> SUBSET Record]
    BY NoLocalsType DEF Init, Labels
  <2>3. issued \in 0..MaxAppends /\ seals \in 0..MaxSeals /\ trimTo \in Position
    BY BoundsAssumption DEF Init, Position
  <2> QED BY <1>3, <1>5, <2>1, <2>2, <2>3 DEF Shape
<1>7. CallInv
  BY <1>4 DEF CallInv, CallPart, NoLocals, Rebuilding
<1>8. BackedInv
  BY <1>1, <1>2, <1>4 DEF BackedInv, ChainPart, BackedPart
<1> QED BY <1>6, <1>7, <1>8 DEF AnyInv

LEMMA AnyNext ==
  ASSUME AnyInv, [Next]_vars
  PROVE  AnyInv'
<1>1. CASE Next
  <2>1. PICK t \in Task : Invoke(t) \/ Proceed(t)
    BY <1>1 DEF Next
  <2>2. CASE Invoke(t)
    BY <2>2, AnyBegin, AnyBeginRead, AnyBeginTrim DEF Invoke
  <2>3. CASE Proceed(t)
    BY <2>3, AnyBegin, AnyGetLoglet, AnyOnLoglet, AnyReconfigure, AnyReconfigureSeal,
       AnyInsertLoglet, AnySyncInsert, AnyWriteChain, AnyReadLoglet, AnyTrimSegment,
       AnyTrimReturns DEF Proceed
  <2> QED BY <2>1, <2>2, <2>3
<1>2. CASE UNCHANGED vars
  BY <1>2 DEF AnyInv, Shape, CallInv, CallPart, BackedInv, ChainPart, BackedPart, vars,
              logVars, historyVars
<1> QED BY <1>1, <1>2

(* The invariant behind LogletsBacked: a reconfiguration writes MetaStore,  *)
(* the map and the cached chain in an order that leaves no chain without    *)
(* its loglets, and every chain covers every position                       *)
(* (virtual_log.rs:119-181), whatever number of tasks reconfigure at once.  *)
THEOREM AnyInvariance == Spec => []AnyInv
<1>1. Init => AnyInv
  BY AnyInit
<1>2. AnyInv /\ [Next]_vars => AnyInv'
  BY AnyNext
<1> QED BY <1>1, <1>2, PTL DEF Spec

(* However many tasks append, seal and reconfigure at once, the chain a     *)
(* task can read has an open segment and names no loglet the map lacks, and *)
(* no call of VirtualLog ends in Internal (virtual_log.rs:85-96, 146-157,   *)
(* 169-179, 185-197).                                                       *)
THEOREM NoCallLacksALoglet == Spec => []LogletsBacked
<1>1. AnyInv => LogletsBacked
  BY DEF AnyInv, BackedInv, ChainPart, BackedPart, Sound, Ids, LogletsBacked
<1> QED BY <1>1, AnyInvariance, PTL
================================================================================
