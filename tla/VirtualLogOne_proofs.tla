------------------------- MODULE VirtualLogOne_proofs -------------------------
(***************************************************************************)
(* Safety of VirtualLog for one appending task, as in the server, where     *)
(* only the apply loop of the BaseEngine appends, and any number of tasks   *)
(* that seal, read and trim. With two appenders AckedReadable fails (run    *)
(* VirtualTwoAppenders), so the hypothesis OneAppender cannot be dropped.   *)
(***************************************************************************)
EXTENDS VirtualLog_proofs

OneAppender == \A t, u \in Appenders : t = u

-------------------------------------------------------------------------------
(* The inductive invariant *)

SegTail(i) == chain[i].start + Len(insts[i].entries)
LogTail == SegTail(Len(chain))

(* The loglet of the i-th segment is the i-th that was made. *)
StraightInv ==
  /\ DOMAIN loglets = 0..(Len(insts) - 1)
  /\ \A id \in DOMAIN loglets : loglets[id] = id + 1
  /\ \A i \in 1..Len(chain) : chain[i].id = i - 1
  /\ Len(insts) \in {Len(chain), Len(chain) + 1} /\ Len(insts) <= MaxSegments + 1

(* Segments follow each other; all but the last are closed where their      *)
(* sealed loglet ends.                                                      *)
TilesInv ==
  /\ \A i \in 1..(Len(chain) - 1) :
       insts[i].sealed /\ chain[i].end = SegTail(i) /\ chain[i + 1].start = SegTail(i)
  /\ \A i, j \in 1..Len(chain) : i < j => SegTail(i) <= chain[j].start

(* r is in segment i, unless it was trimmed there. *)
Kept(i, r) ==
  /\ chain[i].start <= r.pos /\ r.pos < SegTail(i)
  /\ \/ GlobalToLocal(chain[i].start, r.pos) < insts[i].trim_pos
     \/ insts[i].entries[GlobalToLocal(chain[i].start, r.pos)] = r.entry

(* The acknowledged appends fill the log up to its tail. *)
AckedInv ==
  /\ IsFiniteSet(acked) /\ Cardinality(acked) = LogTail - 1
  /\ \A r \in acked : r.pos < LogTail /\ \E i \in 1..Len(chain) : Kept(i, r)
  /\ \A p \in 1..(LogTail - 1) : \E r \in acked : r.pos = p
  /\ \A r, q \in acked : r.pos = q.pos => r = q
  /\ LogTail - 1 <= issued

(* A trim point was asked for. *)
TrimInv ==
  \A i \in 1..Len(chain) :
    insts[i].trim_pos > 1 => chain[i].start + insts[i].trim_pos - 1 <= trimTo

Appending(t) == local[t].mode \in {"append", "reconfigure"}
Installing(t) == pc[t] \in {"insert", "write_chain", "write_version"}

(* MetaStore, the cache and the map differ only during an installation. *)
MetaInv ==
  /\ (\A t \in Task : ~Installing(t)) => meta = [chain |-> chain, version |-> chainVersion]
  /\ (\A t \in Task : pc[t] # "write_chain") => Len(insts) = Len(chain)

(* Where the one reconfiguration is. *)
ReconfPart(t) ==
  /\ Appending(t) => LogTail <= issued
  /\ pc[t] \notin {"sync_read", "sync_insert"}
  /\ pc[t] \in {"read_version", "read_chain", "cas", "insert", "write_chain"} =>
       insts[Len(chain)].sealed /\ local[t].sealPos = LogTail /\ Len(chain) < MaxSegments
  /\ pc[t] \in {"read_chain", "cas"} => local[t].version = chainVersion
  /\ pc[t] \in {"cas", "insert", "write_chain"} =>
       /\ local[t].id = Len(chain)
       /\ local[t].chain = Extend(chain, local[t].sealPos, Len(chain))
  /\ Installing(t) =>
       /\ meta = [chain |-> local[t].chain, version |-> local[t].version]
       /\ local[t].version = chainVersion + 1
  /\ pc[t] = "write_version" => chain = local[t].chain
  /\ pc[t] = "write_chain" =>
       Len(insts) = Len(chain) + 1 /\ insts[Len(chain) + 1] = NewLoglet

(* A call's segment is one of the chain; its appends go to the last. *)
SegmentPart(t) ==
  /\ pc[t] \in {"get_loglet", "on_loglet"} =>
       /\ local[t].id \in 0..(Len(chain) - 1)
       /\ local[t].start = chain[local[t].id + 1].start
       /\ Appending(t) => local[t].id = Len(chain) - 1
       /\ local[t].mode = "check_tail" =>
            \A r \in known[t] : r.pos < SegTail(local[t].id + 1)
  /\ pc[t] = "on_loglet" => local[t].inst = local[t].id + 1
  /\ pc[t] = "read_loglet" =>
       /\ local[t].id \in 0..(Len(chain) - 1)
       /\ local[t].pos = GlobalToLocal(chain[local[t].id + 1].start, result[t].pos)
       /\ \A r \in known[t] : r.pos = result[t].pos /\ Kept(local[t].id + 1, r)

(* r is trimmed in segment i. *)
Gone(i, r) == Kept(i, r) /\ GlobalToLocal(chain[i].start, r.pos) < insts[i].trim_pos

(* A segment of a trim's copy of the chain: stale, if at all, in the end of *)
(* a segment that was open when the copy was made.                          *)
CopyOf(seg) ==
  /\ seg.id \in 0..(Len(chain) - 1) /\ seg.start = chain[seg.id + 1].start
  /\ seg.end \in {NoEnd, chain[seg.id + 1].end}

(* What a trim knew is trimmed, or in a segment it has yet to visit. *)
ToVisit(t, i) == \E k \in 1..Len(local[t].chain) : local[t].chain[k].id = i - 1
TrimmerPart(t) ==
  pc[t] = "trim" =>
    /\ local[t].pos <= trimTo
    /\ \A k \in 1..Len(local[t].chain) : CopyOf(local[t].chain[k])
    /\ \A r \in known[t] :
         /\ r.pos < local[t].pos
         /\ \E i \in 1..Len(chain) : Gone(i, r) \/ (Kept(i, r) /\ ToVisit(t, i))

TaskPart(t) == ReconfPart(t) /\ SegmentPart(t) /\ TrimmerPart(t)
TaskInv == \A t \in Task : TaskPart(t)

LogInv == StraightInv /\ TilesInv /\ AckedInv /\ TrimInv /\ MetaInv

OneInv == AnyInv /\ LogInv /\ TaskInv
-------------------------------------------------------------------------------
(* Facts of a state *)

Facts ==
  /\ Len(chain) \in Nat \ {0} /\ Len(insts) \in Nat /\ Len(chain) <= Len(insts)
  /\ DOMAIN chain = 1..Len(chain)
  /\ \A i \in 1..Len(chain) :
       /\ chain[i] \in Seg /\ chain[i].start \in Nat \ {0} /\ chain[i].end \in Nat
       /\ SegTail(i) \in Nat \ {0} /\ i - 1 \in DOMAIN loglets /\ loglets[i - 1] = i
  /\ chain[Len(chain)].end = NoEnd
  /\ LogTail \in Nat \ {0}
  /\ \A i \in 1..Len(insts) :
       /\ insts[i] \in Inner /\ insts[i].entries \in Seq(Entry \cup {NoEntry})
       /\ Len(insts[i].entries) \in Nat /\ insts[i].trim_pos \in Nat \ {0}
       /\ insts[i].sealed \in BOOLEAN

LEMMA FactsHold == AnyInv /\ StraightInv => Facts
<1> SUFFICES ASSUME AnyInv, StraightInv PROVE Facts
  OBVIOUS
<1>1. chain \in Seq(Seg) /\ insts \in Seq(Inner) /\ HasActive(chain)
  BY DEF AnyInv, Shape, BackedInv, ChainPart, Sound
<1>2. Len(chain) \in Nat \ {0} /\ Len(insts) \in Nat /\ DOMAIN chain = 1..Len(chain)
  <2>1. Len(chain) \in Nat \ {0}
    BY <1>1, EmptySeq DEF HasActive
  <2> QED BY <1>1, <2>1
<1>3. Len(chain) <= Len(insts)
  BY <1>2 DEF StraightInv
<1>4. chain[Len(chain)].end = NoEnd
  BY <1>1 DEF HasActive, Last
<1>5. ASSUME NEW i \in 1..Len(insts)
      PROVE  /\ insts[i] \in Inner /\ insts[i].entries \in Seq(Entry \cup {NoEntry})
             /\ Len(insts[i].entries) \in Nat /\ insts[i].trim_pos \in Nat \ {0}
             /\ insts[i].sealed \in BOOLEAN
  <2>1. insts[i] \in Inner
    BY <1>1
  <2> QED BY <2>1 DEF Inner
<1>6. ASSUME NEW i \in 1..Len(chain)
      PROVE  /\ chain[i] \in Seg /\ chain[i].start \in Nat \ {0} /\ chain[i].end \in Nat
             /\ SegTail(i) \in Nat \ {0} /\ i - 1 \in DOMAIN loglets /\ loglets[i - 1] = i
  <2>1. chain[i] \in Seg
    BY <1>1, ElementOfSeq
  <2>2. chain[i].start \in Nat \ {0} /\ chain[i].end \in Nat
    BY <2>1 DEF Seg
  <2>3. i \in 1..Len(insts)
    BY <1>2, <1>3
  <2>4. SegTail(i) \in Nat \ {0}
    BY <2>2, <2>3 DEF SegTail
  <2>5. i - 1 \in DOMAIN loglets /\ loglets[i - 1] = i
    <3>1. i - 1 \in 0..(Len(insts) - 1)
      BY <1>2, <2>3
    <3>2. i - 1 + 1 = i
      BY <2>3
    <3> QED BY <3>1, <3>2 DEF StraightInv
  <2> QED BY <2>1, <2>2, <2>4, <2>5
<1>7. LogTail \in Nat \ {0}
  BY <1>2, <1>6 DEF LogTail
<1> QED BY <1>2, <1>3, <1>4, <1>5, <1>6, <1>7 DEF Facts

(* Only one task appends. *)
LEMMA Alone ==
  ASSUME AnyInv, OneAppender, NEW t \in Task, NEW u \in Task, Appending(t), Appending(u)
  PROVE  t = u
  BY DEF AnyInv, CallInv, CallPart, OneAppender, Appending

LEMMA RebuildingAppends ==
  ASSUME AnyInv, NEW t \in Task, pc[t] \in Rebuilding
  PROVE  Appending(t)
  BY DEF AnyInv, CallInv, CallPart, Appending

(* The segment of an acknowledged append is the one find_segment finds. *)
LEMMA SegmentOf ==
  ASSUME AnyInv, StraightInv, TilesInv, NEW i \in 1..Len(chain), NEW r \in Record, Kept(i, r)
  PROVE  /\ HasSegment(chain, r.pos)
         /\ FindSegment(chain, r.pos) = chain[i]
         /\ \A j \in 1..Len(chain) : Covers(chain[j], r.pos) => j = i
<1>1. Facts
  BY FactsHold
<1>2. chain \in Seq(Seg) /\ r.pos \in Nat
  BY DEF AnyInv, Shape, Record
<1>3. chain[i].start <= r.pos /\ r.pos < SegTail(i)
  BY DEF Kept
<1>n. Len(chain) \in Nat
  BY <1>1 DEF Facts
<1>4. Covers(chain[i], r.pos)
  <2>1. CASE i = Len(chain)
    BY <1>1, <1>2, <1>3, <2>1 DEF Covers, Facts
  <2>2. CASE i # Len(chain)
    <3>1. i \in 1..(Len(chain) - 1)
      BY <1>n, <2>2
    <3>2. chain[i].end = SegTail(i)
      BY <3>1 DEF TilesInv
    <3> QED BY <1>1, <1>3, <3>2 DEF Covers
  <2> QED BY <2>1, <2>2
<1>5. ASSUME NEW j \in 1..Len(chain), Covers(chain[j], r.pos) PROVE j = i
  <2>1. CASE j < i
    <3>1. j \in 1..(Len(chain) - 1) /\ SegTail(j) <= chain[i].start
      BY <1>n, <2>1 DEF TilesInv
    <3>2. chain[j].end = SegTail(j)
      BY <3>1 DEF TilesInv
    <3>3. chain[j].end \in Nat \ {0} /\ chain[i].start \in Nat
      BY <1>1, <3>2 DEF Facts
    <3>4. chain[j].end # NoEnd /\ ~(r.pos < chain[j].end)
      BY <1>2, <1>3, <3>1, <3>2, <3>3 DEF NoEnd
    <3> QED BY <1>5, <3>4 DEF Covers
  <2>2. CASE i < j
    <3>1. SegTail(i) <= chain[j].start
      BY <2>2 DEF TilesInv
    <3>2. chain[j].start <= r.pos
      BY <1>5, <1>1, <1>2 DEF Covers, Facts
    <3> QED BY <1>1, <1>2, <1>3, <3>1, <3>2 DEF Facts
  <2> QED BY <1>1, <2>1, <2>2 DEF Facts
<1>6. HasSegment(chain, r.pos)
  BY <1>1, <1>4 DEF HasSegment, Facts
<1>7. PICK j \in 1..Len(chain) : FindSegment(chain, r.pos) = chain[j] /\ Covers(chain[j], r.pos)
  BY <1>2, <1>6, Found
<1> QED BY <1>5, <1>6, <1>7

-------------------------------------------------------------------------------
(* What every step keeps: chain and loglets only grow, and a sealed loglet  *)
(* does not.                                                                *)

InnerGrows(a, b) ==
  /\ Len(a.entries) <= Len(b.entries) /\ a.trim_pos <= b.trim_pos
  /\ a.sealed => b.sealed /\ Len(b.entries) = Len(a.entries)
  /\ \A p \in 1..Len(a.entries) : p >= b.trim_pos => b.entries[p] = a.entries[p]

LEMMA InnerOps ==
  ASSUME NEW inner \in Inner
  PROVE  /\ InnerGrows(inner, inner)
         /\ InnerGrows(inner, LogletSeal(inner))
         /\ LogletSeal(inner).entries = inner.entries /\ LogletSeal(inner).sealed
         /\ LogletSeal(inner).trim_pos = inner.trim_pos
         /\ \A p \in Int : /\ InnerGrows(inner, LogletTrim(inner, p))
                           /\ Len(LogletTrim(inner, p).entries) = Len(inner.entries)
                           /\ LogletTrim(inner, p).sealed = inner.sealed
                           /\ LogletTrim(inner, p).trim_pos =
                                IF p <= inner.trim_pos THEN inner.trim_pos ELSE p
<1>1. /\ inner.entries \in Seq(Entry \cup {NoEntry}) /\ Len(inner.entries) \in Nat
      /\ inner.sealed \in BOOLEAN /\ inner.trim_pos \in Nat \ {0}
  BY DEF Inner
<1>2. InnerGrows(inner, inner)
  BY <1>1 DEF InnerGrows
<1>3. /\ LogletSeal(inner).entries = inner.entries /\ LogletSeal(inner).sealed
      /\ LogletSeal(inner).trim_pos = inner.trim_pos
  BY DEF LogletSeal, Inner
<1>4. InnerGrows(inner, LogletSeal(inner))
  BY <1>1, <1>3 DEF InnerGrows
<1>5. ASSUME NEW p \in Int
      PROVE  /\ InnerGrows(inner, LogletTrim(inner, p))
             /\ Len(LogletTrim(inner, p).entries) = Len(inner.entries)
             /\ LogletTrim(inner, p).sealed = inner.sealed
             /\ LogletTrim(inner, p).trim_pos =
                  IF p <= inner.trim_pos THEN inner.trim_pos ELSE p
  <2>1. CASE p <= inner.trim_pos
    <3>1. LogletTrim(inner, p) = inner
      BY <2>1 DEF LogletTrim
    <3> QED BY <1>2, <2>1, <3>1
  <2>2. CASE ~(p <= inner.trim_pos)
    <3> DEFINE es == [q \in 1..Len(inner.entries) |->
                        IF q < p THEN NoEntry ELSE inner.entries[q]]
               b == LogletTrim(inner, p)
    <3>1. b = [inner EXCEPT !.trim_pos = p, !.entries = es]
      BY <2>2 DEF LogletTrim
    <3>2. b.entries = es /\ b.trim_pos = p /\ b.sealed = inner.sealed
      BY <3>1 DEF Inner
    <3>3. Len(es) = Len(inner.entries)
      BY <1>1
    <3>4. \A q \in 1..Len(inner.entries) : q >= p => es[q] = inner.entries[q]
      BY <1>1
    <3> HIDE DEF es, b
    <3>5. InnerGrows(inner, b)
      BY <1>1, <2>2, <3>2, <3>3, <3>4 DEF InnerGrows
    <3> QED BY <2>2, <3>2, <3>3, <3>5 DEF b
  <2> QED BY <2>1, <2>2
<1> QED BY <1>2, <1>3, <1>4, <1>5

Grows ==
  /\ Len(chain) <= Len(chain') /\ Len(insts) <= Len(insts') /\ trimTo <= trimTo'
  /\ \A i \in 1..Len(chain) :
       /\ chain'[i].id = chain[i].id /\ chain'[i].start = chain[i].start
       /\ chain[i].end # NoEnd => chain'[i].end = chain[i].end
  /\ \A i \in 1..Len(insts) : InnerGrows(insts[i], insts'[i])

LEMMA KeptGrows ==
  ASSUME Facts, Facts', Grows, NEW i \in 1..Len(chain)
  PROVE  /\ i \in 1..Len(chain') /\ SegTail(i) <= SegTail(i)'
         /\ \A r \in Record : Kept(i, r) => Kept(i, r)'
         /\ \A r \in Record : Gone(i, r) => Gone(i, r)'
<1>1. /\ i \in 1..Len(insts) /\ i \in 1..Len(chain')
      /\ chain'[i].start = chain[i].start /\ InnerGrows(insts[i], insts'[i])
  <2>1. /\ Len(chain) \in Nat /\ Len(chain') \in Nat /\ Len(insts) \in Nat
        /\ Len(chain) <= Len(insts) /\ Len(chain) <= Len(chain')
    BY DEF Facts, Grows
  <2>2. i \in 1..Len(insts) /\ i \in 1..Len(chain')
    BY <2>1
  <2> QED BY <2>2 DEF Grows
<1>2. /\ Len(insts[i].entries) \in Nat /\ insts[i].trim_pos \in Nat
      /\ chain[i].start \in Nat
  BY <1>1 DEF Facts
<1>3. i \in 1..Len(insts')
  BY <1>1 DEF Facts
<1>4. Len(insts'[i].entries) \in Nat /\ insts'[i].trim_pos \in Nat
  BY <1>3 DEF Facts
<1>5. /\ Len(insts[i].entries) <= Len(insts'[i].entries)
      /\ insts[i].trim_pos <= insts'[i].trim_pos
      /\ \A p \in 1..Len(insts[i].entries) :
           p >= insts'[i].trim_pos => insts'[i].entries[p] = insts[i].entries[p]
  BY <1>1 DEF InnerGrows
<1>6. SegTail(i) <= SegTail(i)'
  BY <1>1, <1>2, <1>4, <1>5 DEF SegTail
<1>7. ASSUME NEW r \in Record, Kept(i, r)
      PROVE  Kept(i, r)' /\ (Gone(i, r) => Gone(i, r)')
  <2> DEFINE p == r.pos - chain[i].start + 1
  <2>1. r.pos \in Nat /\ chain[i].start <= r.pos /\ r.pos < SegTail(i)
    BY <1>7 DEF Kept, Record
  <2>2. p \in 1..Len(insts[i].entries)
    BY <1>2, <2>1 DEF SegTail
  <2>3. p < insts[i].trim_pos \/ insts[i].entries[p] = r.entry
    BY <1>7 DEF Kept, GlobalToLocal
  <2>4. GlobalToLocal(chain[i].start, r.pos) = p /\ GlobalToLocal(chain'[i].start, r.pos) = p
    BY <1>1 DEF GlobalToLocal
  <2> HIDE DEF p
  <2>5. p < insts'[i].trim_pos \/ insts'[i].entries[p] = r.entry
    BY <1>2, <1>4, <1>5, <2>2, <2>3
  <2>6. chain'[i].start <= r.pos /\ r.pos < SegTail(i)'
    <3>1. SegTail(i) \in Nat /\ SegTail(i)' \in Nat
      BY <1>1 DEF Facts
    <3> QED BY <1>1, <1>6, <2>1, <3>1
  <2>7. Kept(i, r)'
    BY <2>4, <2>5, <2>6 DEF Kept
  <2>8. Gone(i, r) => Gone(i, r)'
    BY <1>2, <1>4, <1>5, <2>2, <2>4, <2>7 DEF Gone
  <2> QED BY <2>7, <2>8
<1>8. \A r \in Record : Gone(i, r) => Kept(i, r)
  BY DEF Gone
<1> QED BY <1>1, <1>6, <1>7, <1>8

(* What tasks that neither append nor reconfigure can do. *)
Passive ==
  /\ UNCHANGED <<meta, chain, chainVersion, loglets, issued>>
  /\ Len(insts') = Len(insts)
  /\ \A i \in 1..Len(insts) : Len(insts'[i].entries) = Len(insts[i].entries)
  /\ \A i \in 1..Len(insts) : i > Len(chain) => insts'[i] = insts[i]

Same(u) == /\ pc'[u] = pc[u] /\ local'[u] = local[u]
           /\ result'[u] = result[u] /\ known'[u] = known[u]

LEMMA OthersReconf ==
  ASSUME AnyInv, Facts, Facts', NEW u \in Task, ReconfPart(u), Same(u), Grows,
         Appending(u) => Passive
  PROVE  ReconfPart(u)'
<1>1. CASE ~Appending(u)
  <2>1. pc[u] \notin Rebuilding
    BY <1>1, RebuildingAppends
  <2> QED BY <1>1, <2>1 DEF ReconfPart, Same, Appending, Rebuilding, Installing
<1>2. CASE Appending(u)
  <2>1. /\ UNCHANGED <<meta, chain, chainVersion, issued>> /\ Len(insts') = Len(insts)
        /\ \A i \in 1..Len(insts) : Len(insts'[i].entries) = Len(insts[i].entries)
        /\ \A i \in 1..Len(insts) : i > Len(chain) => insts'[i] = insts[i]
    BY <1>2 DEF Passive
  <2>2. Len(chain) \in 1..Len(insts) /\ Len(insts) \in Nat
    BY DEF Facts
  <2>3. LogTail' = LogTail
    BY <2>1, <2>2 DEF LogTail, SegTail
  <2>4. insts[Len(chain)].sealed => insts'[Len(chain)].sealed
    BY <2>2 DEF Grows, InnerGrows
  <2>5. Len(insts) = Len(chain) + 1 => insts'[Len(chain) + 1] = insts[Len(chain) + 1]
    BY <2>1, <2>2
  <2> QED BY <2>1, <2>3, <2>4, <2>5 DEF ReconfPart, Same, Appending, Installing
<1> QED BY <1>1, <1>2

LEMMA OthersSegment ==
  ASSUME AnyInv, Facts, Facts', NEW u \in Task, SegmentPart(u), Same(u), Grows,
         Appending(u) => Passive
  PROVE  SegmentPart(u)'
<1>1. /\ Len(chain) \in Nat /\ Len(chain') \in Nat /\ Len(chain) <= Len(chain')
      /\ known[u] \subseteq Record
  BY DEF Facts, Grows, AnyInv, Shape
<1>2. CASE pc[u] \in {"get_loglet", "on_loglet"}
  <2>0. local[u].id \in 0..(Len(chain) - 1)
    BY <1>2 DEF SegmentPart
  <2>2. PICK i \in 1..Len(chain) : i = local[u].id + 1
    BY <1>1, <2>0
  <2>1. /\ local[u].start = chain[i].start
        /\ Appending(u) => local[u].id = Len(chain) - 1
        /\ local[u].mode = "check_tail" => \A r \in known[u] : r.pos < SegTail(i)
        /\ pc[u] = "on_loglet" => local[u].inst = i
    BY <1>2, <2>2 DEF SegmentPart
  <2>3. chain'[i].start = chain[i].start
    BY <2>2 DEF Grows
  <2>4. SegTail(i) <= SegTail(i)' /\ i \in 1..Len(chain')
    BY KeptGrows
  <2>5. SegTail(i) \in Nat /\ SegTail(i)' \in Nat
    BY <2>2, <2>4 DEF Facts
  <2>6. local[u].mode = "check_tail" => \A r \in known[u] : r.pos < SegTail(i)'
    BY <1>1, <2>1, <2>4, <2>5 DEF Record
  <2>7. Appending(u) => Len(chain') = Len(chain)
    BY DEF Passive
  <2>8. local[u].id \in 0..(Len(chain') - 1)
    BY <1>1, <2>0
  <2> QED BY <1>2, <2>1, <2>2, <2>3, <2>6, <2>7, <2>8 DEF SegmentPart, Same, Appending
<1>3. CASE pc[u] = "read_loglet"
  <2>0. local[u].id \in 0..(Len(chain) - 1)
    BY <1>3 DEF SegmentPart
  <2>2. PICK i \in 1..Len(chain) : i = local[u].id + 1
    BY <1>1, <2>0
  <2>1. /\ local[u].pos = GlobalToLocal(chain[i].start, result[u].pos)
        /\ \A r \in known[u] : r.pos = result[u].pos /\ Kept(i, r)
    BY <1>3, <2>2 DEF SegmentPart
  <2>3. chain'[i].start = chain[i].start
    BY <2>2 DEF Grows
  <2>4. \A r \in known[u] : r.pos = result[u].pos /\ Kept(i, r)'
    BY <1>1, <2>1, KeptGrows
  <2>5. local[u].id \in 0..(Len(chain') - 1)
    BY <1>1, <2>0
  <2> QED BY <1>3, <2>1, <2>2, <2>3, <2>4, <2>5 DEF SegmentPart, Same
<1>4. CASE pc[u] \notin {"get_loglet", "on_loglet", "read_loglet"}
  BY <1>4 DEF SegmentPart, Same
<1> QED BY <1>2, <1>3, <1>4

LEMMA OthersTrimmer ==
  ASSUME AnyInv, AnyInv', Facts, Facts', NEW u \in Task, TrimmerPart(u), Same(u), Grows
  PROVE  TrimmerPart(u)'
<1> SUFFICES ASSUME pc[u] = "trim" PROVE TrimmerPart(u)'
  BY DEF TrimmerPart, Same
<1>1. /\ local[u].pos <= trimTo
      /\ \A k \in 1..Len(local[u].chain) : CopyOf(local[u].chain[k])
      /\ \A r \in known[u] :
           /\ r.pos < local[u].pos
           /\ \E i \in 1..Len(chain) : Gone(i, r) \/ (Kept(i, r) /\ ToVisit(u, i))
  BY DEF TrimmerPart
<1>2. /\ Len(chain) \in Nat /\ Len(chain') \in Nat /\ Len(chain) <= Len(chain')
      /\ known[u] \subseteq Record
  BY DEF Facts, Grows, AnyInv, Shape
<1>3. local[u].pos <= trimTo'
  <2>1. local[u].pos \in Nat /\ trimTo \in Position /\ trimTo' \in Position
    BY DEF AnyInv, Shape, Locals
  <2>2. trimTo \in Nat /\ trimTo' \in Nat /\ trimTo <= trimTo'
    BY <2>1, BoundsAssumption DEF Position, Grows
  <2> QED BY <1>1, <2>1, <2>2
<1>4. ASSUME NEW seg, CopyOf(seg) PROVE CopyOf(seg)'
  <2>1. seg.id + 1 \in 1..Len(chain)
    BY <1>2, <1>4 DEF CopyOf
  <2>2. /\ chain'[seg.id + 1].start = chain[seg.id + 1].start
        /\ chain[seg.id + 1].end # NoEnd => chain'[seg.id + 1].end = chain[seg.id + 1].end
    BY <2>1 DEF Grows
  <2>3. seg.id \in 0..(Len(chain') - 1)
    BY <1>2, <1>4 DEF CopyOf
  <2> QED BY <1>4, <2>2, <2>3 DEF CopyOf
<1>5. \A i : ToVisit(u, i) => ToVisit(u, i)'
  BY DEF ToVisit, Same
<1>6. ASSUME NEW r \in known[u]
      PROVE  \E i \in 1..Len(chain') : Gone(i, r)' \/ (Kept(i, r)' /\ ToVisit(u, i)')
  <2>1. PICK i \in 1..Len(chain) : Gone(i, r) \/ (Kept(i, r) /\ ToVisit(u, i))
    BY <1>1
  <2>2. r \in Record
    BY <1>2
  <2>3. i \in 1..Len(chain') /\ (Kept(i, r) => Kept(i, r)') /\ (Gone(i, r) => Gone(i, r)')
    BY <2>2, KeptGrows
  <2> QED BY <1>5, <2>1, <2>3
<1> QED BY <1>1, <1>3, <1>4, <1>6 DEF TrimmerPart, Same

-------------------------------------------------------------------------------
(* The steps *)

(* A step of t is not seen by the calls of the others. *)
LEMMA Framed ==
  ASSUME Shape, NEW t \in Task, Invoke(t) \/ Proceed(t), NEW u \in Task, u # t
  PROVE  Same(u)
<1>a. pc \in [Task -> Labels] /\ local \in [Task -> Locals] /\ result \in [Task -> Results]
      /\ known \in [Task -> SUBSET Record]
  BY DEF Shape
<1>b. ASSUME NEW res, Return(t, res) PROVE Same(u)
  BY <1>a, <1>b DEF Return, Goto, Same
<1>c. ASSUME NEW x, GetChain(t, x) PROVE Same(u)
  <2>1. CASE HasActive(chain)
    BY <1>a, <1>c, <2>1 DEF GetChain, Goto, Same
  <2>2. CASE ~HasActive(chain)
    BY <1>b, <1>c, <2>2 DEF GetChain, Internal
  <2> QED BY <2>1, <2>2
<1>1. CASE BeginAppend(t) \/ BeginSeal(t) \/ BeginCheckTail(t) \/ GetChainAgain(t)
  BY <1>1, <1>c DEF BeginAppend, BeginSeal, BeginCheckTail, GetChainAgain
<1>2. CASE AppendOk(t) \/ CheckTail(t) \/ Seal(t) \/ ReadLoglet(t) \/ TrimReturns(t)
  BY <1>2, <1>b DEF AppendOk, CheckTail, Seal, ReadLoglet, TrimReturns, Internal
<1>3. CASE GetLoglet(t)
  <2>1. CASE local[t].id \in DOMAIN loglets
    BY <1>a, <1>3, <2>1 DEF GetLoglet, Goto, Same
  <2>2. CASE local[t].id \notin DOMAIN loglets
    BY <1>b, <1>3, <2>2 DEF GetLoglet, Internal
  <2> QED BY <2>1, <2>2
<1>4. CASE \/ AppendSealed(t) \/ ReconfigureSeal(t) \/ ReadVersion(t) \/ ReadChain(t)
           \/ CasSucceeds(t) \/ CasFails(t) \/ InsertLoglet(t) \/ SyncRead(t)
  BY <1>a, <1>4 DEF AppendSealed, ReconfigureSeal, ReadVersion, ReadChain, CasSucceeds,
                    CasFails, InsertLoglet, SyncRead, Goto, Same
<1>5. CASE SyncInsert(t) \/ WriteChain(t) \/ WriteVersion(t) \/ TrimSegment(t)
  BY <1>a, <1>5 DEF SyncInsert, WriteChain, WriteVersion, TrimSegment, Goto, Same
<1>6. ASSUME NEW p \in Position, BeginRead(t, p) PROVE Same(u)
  <2>1. CASE HasSegment(chain, p)
    BY <1>a, <1>6, <2>1 DEF BeginRead, Goto, Same
  <2>2. CASE ~HasSegment(chain, p)
    BY <1>b, <1>6, <2>2 DEF BeginRead, Internal
  <2> QED BY <2>1, <2>2
<1>7. ASSUME NEW p \in Position, BeginTrim(t, p) PROVE Same(u)
  BY <1>a, <1>7 DEF BeginTrim, Goto, Same
<1> QED BY <1>1, <1>2, <1>3, <1>4, <1>5, <1>6, <1>7 DEF Invoke, Proceed

(* What is left to show of a step of t. *)
LEMMA OneRest ==
  ASSUME OneInv, OneAppender, NEW t \in Task, Invoke(t) \/ Proceed(t), LogInv', Grows,
         TaskPart(t)', t \in Appenders \/ Passive
  PROVE  OneInv'
<1>1. AnyInv /\ Shape /\ StraightInv
  BY DEF OneInv, AnyInv, LogInv
<1>2. AnyInv'
  <2>1. Next
    BY DEF Next
  <2> QED BY <1>1, <2>1, AnyNext
<1>3. Facts
  BY <1>1, FactsHold
<1>4. Facts'
  <2>1. StraightInv'
    BY DEF LogInv
  <2> QED BY <1>2, <2>1, FactsHold, PTL
<1>5. ASSUME NEW u \in Task, u # t PROVE TaskPart(u)'
  <2>1. Same(u)
    BY <1>1, <1>5, Framed
  <2>2. Appending(u) => Passive
    BY <1>1, <1>5 DEF AnyInv, CallInv, CallPart, Appending, OneAppender
  <2>3. TaskPart(u)
    BY DEF OneInv, TaskInv
  <2> QED BY <1>1, <1>2, <1>3, <1>4, <2>1, <2>2, <2>3, OthersReconf, OthersSegment, OthersTrimmer
          DEF TaskPart
<1>6. TaskInv'
  BY <1>5 DEF TaskInv
<1> QED BY <1>2, <1>6 DEF OneInv

(* A step that leaves chain, loglets and acknowledged appends alone. *)
LEMMA QuietLog ==
  ASSUME OneInv, AnyInv', UNCHANGED <<chain, insts, loglets, acked>>,
         issued <= issued', trimTo <= trimTo'
  PROVE  StraightInv' /\ TilesInv' /\ AckedInv' /\ TrimInv' /\ Grows /\ Facts
<1>1. AnyInv /\ StraightInv /\ TilesInv /\ AckedInv /\ TrimInv
  BY DEF OneInv, LogInv
<1>2. Facts
  BY <1>1, FactsHold
<1>3. StraightInv' /\ TilesInv'
  BY <1>1 DEF StraightInv, TilesInv, SegTail
<1>4. LogTail' = LogTail /\ \A i, r : Kept(i, r)' <=> Kept(i, r)
  BY DEF LogTail, SegTail, Kept
<1>5. /\ issued \in Nat /\ issued' \in Nat /\ trimTo \in Nat /\ trimTo' \in Nat /\ LogTail \in Nat
  <2>1. /\ issued \in 0..MaxAppends /\ issued' \in 0..MaxAppends
        /\ trimTo \in Position /\ trimTo' \in Position
    BY <1>1 DEF AnyInv, Shape
  <2> QED BY <1>2, <2>1, BoundsAssumption DEF Position, Facts
<1>6. AckedInv'
  <2>1. LogTail' - 1 <= issued'
    BY <1>1, <1>4, <1>5 DEF AckedInv
  <2> QED BY <1>1, <1>4, <2>1 DEF AckedInv
<1>7. TrimInv'
  <2> SUFFICES ASSUME NEW i \in 1..Len(chain), insts[i].trim_pos > 1
               PROVE  chain[i].start + insts[i].trim_pos - 1 <= trimTo'
    BY DEF TrimInv
  <2>1. i \in 1..Len(insts)
    BY <1>2 DEF Facts
  <2>2. chain[i].start \in Nat /\ insts[i].trim_pos \in Nat
    BY <1>2, <2>1 DEF Facts
  <2>3. chain[i].start + insts[i].trim_pos - 1 <= trimTo
    BY <1>1 DEF TrimInv
  <2> QED BY <1>5, <2>2, <2>3
<1>8. \A i \in 1..Len(insts) : InnerGrows(insts[i], insts[i])
  BY <1>2, InnerOps DEF Facts
<1>9. Grows
  <2>1. Len(chain) \in Nat /\ Len(insts) \in Nat
    BY <1>2 DEF Facts
  <2> QED BY <1>8, <2>1 DEF Grows
<1> QED BY <1>2, <1>3, <1>6, <1>7, <1>9

(* The installation is where it was. *)
LEMMA QuietMeta ==
  ASSUME OneInv, NEW t \in Task, Invoke(t) \/ Proceed(t), UNCHANGED <<meta, chain, chainVersion>>,
         Len(insts') = Len(insts), ~Installing(t), ~Installing(t)'
  PROVE  MetaInv'
<1>1. \A u \in Task : u # t => pc'[u] = pc[u]
  BY Framed DEF OneInv, AnyInv, Same
<1>2. \A u \in Task : /\ Installing(u)' <=> Installing(u)
                      /\ pc'[u] = "write_chain" <=> pc[u] = "write_chain"
  BY <1>1 DEF Installing
<1> QED BY <1>2 DEF OneInv, LogInv, MetaInv

(* A quiet step of a task outside the installation. *)
LEMMA QuietStep ==
  ASSUME OneInv, OneAppender, NEW t \in Task, Invoke(t) \/ Proceed(t),
         UNCHANGED <<logVars, acked>>, issued <= issued', trimTo <= trimTo',
         ~Installing(t), ~Installing(t)', TaskPart(t)', t \in Appenders \/ issued' = issued
  PROVE  OneInv'
<1>1. AnyInv'
  <2>1. Next /\ AnyInv
    BY DEF Next, OneInv
  <2> QED BY <2>1, AnyNext
<1>2. UNCHANGED <<meta, chain, chainVersion, loglets, insts>>
  BY DEF logVars
<1>3. StraightInv' /\ TilesInv' /\ AckedInv' /\ TrimInv' /\ Grows
  BY <1>1, <1>2, QuietLog
<1>4. MetaInv'
  BY <1>2, QuietMeta
<1>5. t \in Appenders \/ Passive
  BY <1>2 DEF Passive
<1> QED BY <1>3, <1>4, <1>5, OneRest DEF LogInv

(* A task between two calls. *)
LEMMA IdlePart ==
  ASSUME NEW t \in Task, pc'[t] = "idle", local'[t] = NoLocals
  PROVE  TaskPart(t)' /\ ~Installing(t)'
  BY DEF TaskPart, ReconfPart, SegmentPart, TrimmerPart, Appending, Installing, NoLocals

(* A call that looks for the active loglet finds the last segment. *)
LEMMA OneGetChain ==
  ASSUME OneInv, OneAppender, NEW t \in Task, Invoke(t) \/ Proceed(t), NEW x \in Locals,
         GetChain(t, x), UNCHANGED <<logVars, trimTo, acked>>, ~Installing(t),
         issued <= issued', t \in Appenders \/ issued' = issued,
         x.mode \in {"append", "reconfigure"} => LogTail <= issued'
  PROVE  OneInv'
<1> DEFINE n == Len(chain)
<1>1. AnyInv /\ Shape /\ ChainPart /\ StraightInv /\ AckedInv
  BY DEF OneInv, AnyInv, BackedInv, LogInv
<1>2. Facts
  BY <1>1, FactsHold
<1>3. n \in Nat \ {0} /\ chain[n].id = n - 1
  <2>1. n \in Nat \ {0}
    BY <1>2 DEF Facts
  <2>2. \A i \in 1..n : chain[i].id = i - 1
    BY <1>1 DEF StraightInv
  <2> HIDE DEF n
  <2>3. n \in 1..n
    BY <2>1
  <2> QED BY <2>1, <2>2, <2>3
<1>4. /\ pc'[t] = "get_loglet"
      /\ local'[t] = [x EXCEPT !.id = chain[n].id, !.start = chain[n].start]
      /\ known'[t] = IF x.mode = "check_tail" THEN acked ELSE known[t]
  BY <1>1, GotChain
<1>5. UNCHANGED <<chain, insts, acked>>
  BY DEF logVars
<1> HIDE DEF n
<1>6. local'[t].mode = x.mode /\ local'[t].id = n - 1 /\ local'[t].start = chain[n].start
  BY <1>3, <1>4 DEF Locals
<1>7. LogTail' = LogTail /\ \A i : SegTail(i)' = SegTail(i)
  BY <1>5 DEF LogTail, SegTail
<1>8. ReconfPart(t)'
  BY <1>4, <1>6, <1>7 DEF ReconfPart, Appending, Installing
<1>9. SegmentPart(t)'
  <2>1. n - 1 \in 0..(n - 1) /\ n - 1 + 1 = n
    BY <1>3
  <2>2. local'[t].id + 1 = n
    BY <1>6, <2>1
  <2>3. x.mode = "check_tail" =>
          \A r \in known'[t] : r.pos < chain'[n].start + Len(insts'[n].entries)
    BY <1>1, <1>4, <1>5 DEF AckedInv, LogTail, SegTail, n
  <2>4. /\ local'[t].id \in 0..(Len(chain') - 1) /\ local'[t].id = Len(chain') - 1
        /\ local'[t].start = chain'[n].start
    BY <1>5, <1>6, <2>1 DEF n
  <2>5. x.mode = "check_tail" => \A r \in known'[t] : r.pos < SegTail(local[t].id + 1)'
    BY <2>2, <2>3 DEF SegTail
  <2> QED BY <1>4, <1>6, <2>2, <2>4, <2>5 DEF SegmentPart, Appending
<1>10. TrimmerPart(t)' /\ ~Installing(t)'
  BY <1>4 DEF TrimmerPart, Installing
<1>11. trimTo <= trimTo'
  BY <1>1, BoundsAssumption DEF Shape, Position
<1> QED BY <1>8, <1>9, <1>10, <1>11, QuietStep DEF TaskPart

LEMMA OneBegin ==
  ASSUME OneInv, OneAppender, NEW t \in Task, Invoke(t) \/ Proceed(t),
         BeginAppend(t) \/ BeginSeal(t) \/ BeginCheckTail(t) \/ GetChainAgain(t)
  PROVE  OneInv'
<1>1. AnyInv /\ Shape /\ CallPart(t) /\ StraightInv /\ AckedInv /\ ReconfPart(t)
  BY DEF OneInv, AnyInv, CallInv, LogInv, TaskInv, TaskPart
<1>2. issued \in Nat /\ LogTail \in Nat
  BY <1>1, FactsHold, BoundsAssumption DEF Shape, Facts
<1>3. CASE BeginAppend(t)
  <2> DEFINE x == [NoLocals EXCEPT !.mode = "append", !.entry = issued + 1]
  <2>1. issued + 1 \in Entry /\ issued' = issued + 1 /\ pc[t] = "idle" /\ t \in Appenders
    BY <1>1, <1>3, BoundsAssumption DEF BeginAppend, Shape, Entry
  <2>2. x \in Locals
    BY <2>1, NoLocalsType DEF Locals, Modes, NoLocals
  <2>3. GetChain(t, x) /\ UNCHANGED <<logVars, trimTo, acked>>
    BY <1>3 DEF BeginAppend
  <2> HIDE DEF x
  <2>4. LogTail <= issued' /\ issued <= issued'
    BY <1>1, <1>2, <2>1 DEF AckedInv
  <2>5. ~Installing(t)
    BY <2>1 DEF Installing
  <2> QED BY <2>1, <2>2, <2>3, <2>4, <2>5, OneGetChain
<1>4. CASE BeginSeal(t)
  <2> DEFINE x == [NoLocals EXCEPT !.mode = "seal"]
  <2>1. x \in Locals /\ x.mode = "seal"
    BY NoLocalsType DEF Locals, Modes, NoLocals
  <2>2. GetChain(t, x) /\ UNCHANGED <<logVars, trimTo, acked>> /\ issued' = issued
        /\ pc[t] = "idle"
    BY <1>4 DEF BeginSeal
  <2> HIDE DEF x
  <2>3. ~Installing(t)
    BY <2>2 DEF Installing
  <2> QED BY <1>2, <2>1, <2>2, <2>3, OneGetChain
<1>5. CASE BeginCheckTail(t)
  <2> DEFINE x == [NoLocals EXCEPT !.mode = "check_tail"]
  <2>1. x \in Locals /\ x.mode = "check_tail"
    BY NoLocalsType DEF Locals, Modes, NoLocals
  <2>2. GetChain(t, x) /\ UNCHANGED <<logVars, trimTo, acked>> /\ issued' = issued
        /\ pc[t] = "idle"
    BY <1>5 DEF BeginCheckTail, historyVars
  <2> HIDE DEF x
  <2>3. ~Installing(t)
    BY <2>2 DEF Installing
  <2> QED BY <1>2, <2>1, <2>2, <2>3, OneGetChain
<1>6. CASE GetChainAgain(t)
  <2>1. GetChain(t, local[t]) /\ UNCHANGED <<logVars, trimTo, acked>> /\ issued' = issued
        /\ pc[t] = "get_chain"
    BY <1>6 DEF GetChainAgain, historyVars
  <2>2. local[t] \in Locals /\ ~Installing(t)
    BY <1>1, <2>1 DEF Shape, Installing
  <2>3. local[t].mode \in {"append", "reconfigure"} => LogTail <= issued'
    BY <1>1, <2>1 DEF ReconfPart, Appending
  <2> QED BY <1>2, <2>1, <2>2, <2>3, OneGetChain
<1> QED BY <1>3, <1>4, <1>5, <1>6

LEMMA OneGetLoglet ==
  ASSUME OneInv, OneAppender, NEW t \in Task, GetLoglet(t)
  PROVE  OneInv'
<1>1. AnyInv /\ Shape /\ CallPart(t) /\ StraightInv /\ ReconfPart(t) /\ SegmentPart(t)
  BY DEF OneInv, AnyInv, CallInv, LogInv, TaskInv, TaskPart
<1>2. pc[t] = "get_loglet" /\ UNCHANGED <<logVars, historyVars>>
  BY DEF GetLoglet
<1>3. local[t] \in Locals /\ local[t].id \in DOMAIN loglets
  BY <1>1, <1>2 DEF Shape, CallPart
<1> DEFINE x == [local[t] EXCEPT !.inst = loglets[local[t].id]]
<1>4. /\ local' = [local EXCEPT ![t] = x] /\ Goto(t, "on_loglet") /\ UNCHANGED <<result, known>>
  BY <1>3 DEF GetLoglet
<1>5. loglets[local[t].id] = local[t].id + 1 /\ loglets[local[t].id] \in Nat
  BY <1>1, <1>3 DEF StraightInv, Locals
<1>6. x \in Locals /\ x.mode = local[t].mode /\ x.id = local[t].id /\ x.start = local[t].start
      /\ x.inst = local[t].id + 1
  BY <1>3, <1>5 DEF Locals
<1> HIDE DEF x
<1>7. "on_loglet" \in Labels
  BY DEF Labels
<1>8. pc'[t] = "on_loglet" /\ local'[t] = x /\ known'[t] = known[t]
  BY <1>1, <1>4, <1>6, <1>7, Moved
<1>9. UNCHANGED <<chain, insts, acked, issued, trimTo>>
  BY <1>2 DEF logVars, historyVars
<1>10. LogTail' = LogTail /\ \A i : SegTail(i)' = SegTail(i)
  BY <1>9 DEF LogTail, SegTail
<1>11. SegmentPart(t)'
  <2>1. SegTail(local[t].id + 1)' = SegTail(local[t].id + 1)
    BY <1>6, <1>8, <1>9 DEF SegTail
  <2> QED BY <1>1, <1>2, <1>6, <1>8, <1>9, <2>1 DEF SegmentPart, Appending
<1>12. ReconfPart(t)' /\ TrimmerPart(t)' /\ ~Installing(t) /\ ~Installing(t)'
  BY <1>1, <1>2, <1>6, <1>8, <1>9, <1>10 DEF ReconfPart, TrimmerPart, Installing, Appending
<1>13. issued <= issued' /\ trimTo <= trimTo'
  BY <1>1, <1>9, BoundsAssumption DEF Shape, Position
<1>14. Proceed(t)
  BY DEF Proceed
<1> QED BY <1>2, <1>9, <1>11, <1>12, <1>13, <1>14, QuietStep DEF TaskPart

(* Calls that return without a change to the log. *)
LEMMA OneReturn ==
  ASSUME OneInv, OneAppender, NEW t \in Task, CheckTail(t) \/ ReadLoglet(t) \/ TrimReturns(t)
  PROVE  OneInv'
<1>1. AnyInv /\ Shape /\ CallPart(t)
  BY DEF OneInv, AnyInv, CallInv
<1>2. /\ pc[t] \in {"on_loglet", "read_loglet", "trim"} /\ UNCHANGED <<logVars, historyVars>>
      /\ \E res : Return(t, res)
  BY DEF CheckTail, ReadLoglet, TrimReturns, Internal
<1>3. pc'[t] = "idle" /\ local'[t] = NoLocals
  BY <1>1, <1>2 DEF Return, Goto, Shape
<1>4. TaskPart(t)' /\ ~Installing(t)' /\ ~Installing(t)
  BY <1>2, <1>3, IdlePart DEF Installing
<1>5. issued <= issued' /\ trimTo <= trimTo' /\ acked' = acked /\ issued' = issued
  BY <1>1, <1>2, BoundsAssumption DEF Shape, Position, historyVars
<1>6. Proceed(t)
  BY DEF Proceed
<1> QED BY <1>2, <1>4, <1>5, <1>6, QuietStep

(* While the appender does not install a chain, MetaStore is the cache. *)
LEMMA NoneInstalls ==
  ASSUME OneInv, OneAppender, NEW t \in Task, Appending(t), pc[t] # "write_chain"
  PROVE  /\ t \in Appenders /\ Len(insts) = Len(chain)
         /\ ~Installing(t) => meta = [chain |-> chain, version |-> chainVersion]
<1>1. AnyInv /\ MetaInv
  BY DEF OneInv, LogInv
<1>2. \A u \in Task : pc[u] \in Rebuilding => u = t
  BY <1>1, Alone, RebuildingAppends
<1>3. \A u \in Task : (Installing(u) => u = t) /\ pc[u] # "write_chain"
  BY <1>2 DEF Installing, Rebuilding
<1>4. t \in Appenders
  BY <1>1 DEF AnyInv, CallInv, CallPart, Appending
<1> QED BY <1>1, <1>3, <1>4 DEF MetaInv

(* With one appender a compare-and-swap never fails. *)
LEMMA NeverSyncs ==
  ASSUME OneInv, OneAppender, NEW t \in Task
  PROVE  ~(CasFails(t) \/ SyncRead(t) \/ SyncInsert(t))
<1>1. AnyInv /\ ReconfPart(t)
  BY DEF OneInv, TaskInv, TaskPart
<1>2. ~(SyncRead(t) \/ SyncInsert(t))
  BY <1>1 DEF ReconfPart, SyncRead, SyncInsert
<1>3. ASSUME CasFails(t) PROVE FALSE
  <2>1. pc[t] = "cas" /\ meta.version # local[t].version
    BY <1>3 DEF CasFails
  <2>2. Appending(t) /\ ~Installing(t)
    BY <1>1, <2>1, RebuildingAppends DEF Rebuilding, Installing
  <2>3. meta = [chain |-> chain, version |-> chainVersion]
    BY <2>1, <2>2, NoneInstalls
  <2> QED BY <1>1, <2>1, <2>3 DEF ReconfPart
<1> QED BY <1>2, <1>3

LEMMA OneAppendSealed ==
  ASSUME OneInv, OneAppender, NEW t \in Task, AppendSealed(t)
  PROVE  OneInv'
<1> DEFINE x == [local[t] EXCEPT !.mode = "reconfigure"]
<1>1. AnyInv /\ Shape /\ ReconfPart(t)
  BY DEF OneInv, AnyInv, TaskInv, TaskPart
<1>2. /\ pc[t] = "on_loglet" /\ local[t].mode = "append" /\ UNCHANGED <<logVars, historyVars>>
      /\ local' = [local EXCEPT ![t] = x] /\ Goto(t, "get_chain") /\ UNCHANGED <<result, known>>
  BY DEF AppendSealed
<1>3. local[t] \in Locals /\ "get_chain" \in Labels
  BY <1>1 DEF Shape, Labels
<1>4. x \in Locals /\ x.mode = "reconfigure"
  BY <1>3 DEF Locals, Modes
<1> HIDE DEF x
<1>5. pc'[t] = "get_chain" /\ local'[t] = x
  BY <1>1, <1>2, <1>3, <1>4, Moved
<1>6. UNCHANGED <<chain, insts, acked, issued, trimTo>>
  BY <1>2 DEF logVars, historyVars
<1>7. LogTail' = LogTail /\ LogTail <= issued
  BY <1>1, <1>2, <1>6 DEF LogTail, SegTail, ReconfPart, Appending
<1>8. TaskPart(t)' /\ ~Installing(t) /\ ~Installing(t)'
  BY <1>2, <1>5, <1>6, <1>7 DEF TaskPart, ReconfPart, SegmentPart, TrimmerPart, Installing
<1>9. issued <= issued' /\ trimTo <= trimTo'
  BY <1>1, <1>6, BoundsAssumption DEF Shape, Position
<1>10. Proceed(t)
  BY DEF Proceed
<1> QED BY <1>2, <1>6, <1>8, <1>9, <1>10, QuietStep

LEMMA OneReadVersion ==
  ASSUME OneInv, OneAppender, NEW t \in Task, ReadVersion(t)
  PROVE  OneInv'
<1> DEFINE x == [local[t] EXCEPT !.version = chainVersion]
<1>1. AnyInv /\ Shape /\ ReconfPart(t)
  BY DEF OneInv, AnyInv, TaskInv, TaskPart
<1>2. /\ pc[t] = "read_version" /\ UNCHANGED <<logVars, historyVars>>
      /\ local' = [local EXCEPT ![t] = x] /\ Goto(t, "read_chain") /\ UNCHANGED <<result, known>>
  BY DEF ReadVersion
<1>3. local[t] \in Locals /\ "read_chain" \in Labels /\ chainVersion \in Nat
  BY <1>1 DEF Shape, Labels
<1>4. x \in Locals /\ x.mode = local[t].mode /\ x.version = chainVersion
      /\ x.sealPos = local[t].sealPos
  BY <1>3 DEF Locals
<1> HIDE DEF x
<1>5. pc'[t] = "read_chain" /\ local'[t] = x
  BY <1>1, <1>2, <1>3, <1>4, Moved
<1>6. UNCHANGED <<chain, chainVersion, insts, acked, issued, trimTo>>
  BY <1>2 DEF logVars, historyVars
<1>7. LogTail' = LogTail
  BY <1>6 DEF LogTail, SegTail
<1>8. ReconfPart(t)'
  BY <1>1, <1>2, <1>4, <1>5, <1>6, <1>7 DEF ReconfPart, Appending, Installing
<1>9. TaskPart(t)' /\ ~Installing(t) /\ ~Installing(t)'
  BY <1>2, <1>5, <1>8 DEF TaskPart, SegmentPart, TrimmerPart, Installing
<1>10. issued <= issued' /\ trimTo <= trimTo'
  BY <1>1, <1>6, BoundsAssumption DEF Shape, Position
<1>11. Proceed(t)
  BY DEF Proceed
<1> QED BY <1>2, <1>6, <1>9, <1>10, <1>11, QuietStep

LEMMA OneReadChain ==
  ASSUME OneInv, OneAppender, NEW t \in Task, ReadChain(t)
  PROVE  OneInv'
<1> DEFINE e == Extend(chain, local[t].sealPos, Len(chain))
           x == [local[t] EXCEPT !.id = Len(chain), !.chain = e]
<1>1. AnyInv /\ Shape /\ CallPart(t) /\ ReconfPart(t) /\ HasActive(chain)
  BY DEF OneInv, AnyInv, CallInv, TaskInv, TaskPart, BackedInv, ChainPart, Sound
<1>2. /\ pc[t] = "read_chain" /\ UNCHANGED <<logVars, historyVars>>
      /\ local' = [local EXCEPT ![t] = x] /\ Goto(t, "cas") /\ UNCHANGED <<result, known>>
  BY DEF ReadChain, GenerateLogletId
<1>3. local[t] \in Locals /\ "cas" \in Labels /\ chain \in Seq(Seg) /\ Len(chain) \in Nat
      /\ local[t].sealPos \in Nat \ {0}
  BY <1>1, <1>2 DEF Shape, Labels, CallPart, Locals
<1>4. e \in Seq(Seg)
  BY <1>1, <1>3, Extended
<1>5. UNCHANGED <<chain, chainVersion, insts, acked, issued, trimTo>>
  BY <1>2 DEF logVars, historyVars
<1> HIDE DEF e
<1>6. x \in Locals /\ x.mode = local[t].mode /\ x.version = local[t].version
      /\ x.sealPos = local[t].sealPos /\ x.id = Len(chain) /\ x.chain = e
  BY <1>3, <1>4 DEF Locals
<1> HIDE DEF x
<1>7. pc'[t] = "cas" /\ local'[t] = x
  BY <1>1, <1>2, <1>3, <1>6, Moved
<1>8. LogTail' = LogTail
  BY <1>5 DEF LogTail, SegTail
<1>9. x.chain = Extend(chain', x.sealPos, Len(chain'))
  BY <1>5, <1>6 DEF e
<1>10. ReconfPart(t)'
  BY <1>1, <1>2, <1>5, <1>6, <1>7, <1>8, <1>9 DEF ReconfPart, Appending, Installing
<1>11. TaskPart(t)' /\ ~Installing(t) /\ ~Installing(t)'
  BY <1>2, <1>7, <1>10 DEF TaskPart, SegmentPart, TrimmerPart, Installing
<1>12. issued <= issued' /\ trimTo <= trimTo'
  BY <1>1, <1>5, BoundsAssumption DEF Shape, Position
<1>13. Proceed(t)
  BY DEF Proceed
<1> QED BY <1>2, <1>5, <1>11, <1>12, <1>13, QuietStep

(* The compare-and-swap installs the extended chain in MetaStore. *)
LEMMA OneCas ==
  ASSUME OneInv, OneAppender, NEW t \in Task, CasSucceeds(t)
  PROVE  OneInv'
<1> DEFINE x == [local[t] EXCEPT !.version = local[t].version + 1]
<1>1. AnyInv /\ Shape /\ ReconfPart(t)
  BY DEF OneInv, AnyInv, TaskInv, TaskPart
<1>2. /\ pc[t] = "cas" /\ meta.version = local[t].version
      /\ meta' = [chain |-> local[t].chain, version |-> meta.version + 1]
      /\ local' = [local EXCEPT ![t] = x] /\ Goto(t, "insert")
      /\ UNCHANGED <<chain, chainVersion, loglets, insts, result, historyVars, known>>
  BY DEF CasSucceeds
<1>3. local[t] \in Locals /\ "insert" \in Labels
  BY <1>1 DEF Shape, Labels
<1>4. x \in Locals /\ x.mode = local[t].mode /\ x.version = local[t].version + 1
      /\ x.sealPos = local[t].sealPos /\ x.id = local[t].id /\ x.chain = local[t].chain
  <2>1. local[t].version + 1 \in Nat
    BY <1>3 DEF Locals
  <2> QED BY <1>3, <2>1 DEF Locals
<1> HIDE DEF x
<1>5. pc'[t] = "insert" /\ local'[t] = x
  BY <1>1, <1>2, <1>3, <1>4, Moved
<1>6. Appending(t) /\ ~Installing(t)
  BY <1>1, <1>2, RebuildingAppends DEF Rebuilding, Installing
<1>7. t \in Appenders /\ Len(insts) = Len(chain)
  BY <1>2, <1>6, NoneInstalls
<1>8. LogTail' = LogTail /\ UNCHANGED <<acked, issued, trimTo>>
  BY <1>2 DEF LogTail, SegTail, historyVars
<1>9. meta' = [chain |-> x.chain, version |-> x.version] /\ x.version = chainVersion' + 1
  BY <1>1, <1>2, <1>4 DEF ReconfPart
<1>10. ReconfPart(t)'
  BY <1>1, <1>2, <1>4, <1>5, <1>8, <1>9 DEF ReconfPart, Appending, Installing
<1>11. TaskPart(t)'
  BY <1>5, <1>10 DEF TaskPart, SegmentPart, TrimmerPart
<1>12. MetaInv'
  BY <1>2, <1>5, <1>7 DEF MetaInv, Installing
<1>13. Proceed(t)
  BY DEF Proceed
<1>14. AnyInv' /\ issued <= issued' /\ trimTo <= trimTo'
  <2>1. Next
    BY <1>13 DEF Next
  <2> QED BY <1>1, <1>8, <2>1, AnyNext, BoundsAssumption DEF Shape, Position
<1>15. StraightInv' /\ TilesInv' /\ AckedInv' /\ TrimInv' /\ Grows
  BY <1>2, <1>8, <1>14, QuietLog
<1> QED BY <1>7, <1>11, <1>12, <1>13, <1>15, OneRest DEF LogInv

(* The last step of a reconfiguration makes the cache MetaStore's again. *)
LEMMA OneWriteVersion ==
  ASSUME OneInv, OneAppender, NEW t \in Task, WriteVersion(t)
  PROVE  OneInv'
<1> DEFINE x == [NoLocals EXCEPT !.mode = "append", !.entry = local[t].entry]
<1>1. AnyInv /\ Shape /\ ReconfPart(t)
  BY DEF OneInv, AnyInv, TaskInv, TaskPart
<1>2. /\ pc[t] = "write_version" /\ chainVersion' = local[t].version
      /\ local' = [local EXCEPT ![t] = x] /\ Goto(t, "get_chain")
      /\ UNCHANGED <<meta, chain, loglets, insts, result, historyVars, known>>
  BY DEF WriteVersion, InstallVersion
<1>3. local[t] \in Locals /\ "get_chain" \in Labels
  BY <1>1 DEF Shape, Labels
<1>4. x \in Locals /\ x.mode = "append"
  BY <1>3, NoLocalsType DEF Locals, Modes, NoLocals
<1> HIDE DEF x
<1>5. pc'[t] = "get_chain" /\ local'[t] = x
  BY <1>1, <1>2, <1>3, <1>4, Moved
<1>6. Appending(t)
  BY <1>1, <1>2, RebuildingAppends DEF Rebuilding
<1>7. t \in Appenders /\ Len(insts) = Len(chain)
  BY <1>2, <1>6, NoneInstalls
<1>8. LogTail' = LogTail /\ UNCHANGED <<acked, issued, trimTo>> /\ LogTail <= issued
  BY <1>1, <1>2, <1>6 DEF LogTail, SegTail, historyVars, ReconfPart
<1>9. TaskPart(t)'
  BY <1>4, <1>5, <1>8 DEF TaskPart, ReconfPart, SegmentPart, TrimmerPart, Installing
<1>10. MetaInv'
  BY <1>1, <1>2, <1>7 DEF MetaInv, ReconfPart, Installing
<1>11. Proceed(t)
  BY DEF Proceed
<1>12. AnyInv' /\ issued <= issued' /\ trimTo <= trimTo'
  <2>1. Next
    BY <1>11 DEF Next
  <2> QED BY <1>1, <1>8, <2>1, AnyNext, BoundsAssumption DEF Shape, Position
<1>13. StraightInv' /\ TilesInv' /\ AckedInv' /\ TrimInv' /\ Grows
  BY <1>2, <1>8, <1>12, QuietLog
<1> QED BY <1>7, <1>9, <1>10, <1>11, <1>13, OneRest DEF LogInv

LEMMA OneBeginRead ==
  ASSUME OneInv, OneAppender, NEW t \in Task, NEW p \in Position, BeginRead(t, p)
  PROVE  OneInv'
<1> DEFINE seg == FindSegment(chain, p)
           x == [NoLocals EXCEPT !.mode = "read", !.id = seg.id,
                                 !.pos = GlobalToLocal(seg.start, p)]
<1>1. AnyInv /\ Shape /\ ChainPart /\ StraightInv /\ TilesInv /\ AckedInv
  BY DEF OneInv, AnyInv, BackedInv, LogInv
<1>2. p \in Nat \ {0} /\ chain \in Seq(Seg) /\ HasSegment(chain, p)
  BY <1>1, BoundsAssumption DEF Position, Shape, ChainPart, Sound
<1>3. PICK i \in 1..Len(chain) : seg = chain[i] /\ Covers(chain[i], p)
  BY <1>2, Found
<1>4. chain[i].id = i - 1 /\ i \in Nat /\ Len(chain) \in Nat
  BY <1>1, <1>2 DEF StraightInv
<1>5. /\ Goto(t, "read_loglet") /\ local' = [local EXCEPT ![t] = x]
      /\ result' = [result EXCEPT ![t] = Res("read", "pending", p, NoEntry)]
      /\ known' = [known EXCEPT ![t] = {r \in acked : r.pos = p}]
      /\ UNCHANGED <<logVars, historyVars>> /\ pc[t] = "idle"
  BY <1>2 DEF BeginRead
<1>6. /\ pc'[t] = "read_loglet" /\ local'[t] = x
      /\ result'[t] = Res("read", "pending", p, NoEntry)
      /\ known'[t] = {r \in acked : r.pos = p}
  BY <1>1, <1>5 DEF Shape, Goto
<1> HIDE DEF seg
<1>7. x.mode = "read" /\ x.id = i - 1 /\ x.pos = GlobalToLocal(chain[i].start, p)
  BY <1>3, <1>4 DEF NoLocals
<1> HIDE DEF x
<1>8. UNCHANGED <<chain, insts, acked, issued, trimTo>>
  BY <1>5 DEF logVars, historyVars
<1>9. ASSUME NEW r \in known'[t] PROVE r.pos = p /\ Kept(i, r)'
  <2>1. r \in acked /\ r.pos = p /\ r \in Record
    BY <1>1, <1>6 DEF Shape
  <2>2. PICK j \in 1..Len(chain) : Kept(j, r)
    BY <1>1, <2>1 DEF AckedInv
  <2>3. i = j
    BY <1>1, <1>3, <2>1, <2>2, SegmentOf
  <2>4. Kept(i, r)' <=> Kept(i, r)
    BY <1>8 DEF Kept, SegTail
  <2> QED BY <2>1, <2>2, <2>3, <2>4
<1>10. SegmentPart(t)'
  <2>1. local'[t].id + 1 = i /\ local'[t].id \in 0..(Len(chain') - 1)
    BY <1>4, <1>6, <1>7, <1>8
  <2>2. result'[t].pos = p
    BY <1>6 DEF Res
  <2> QED BY <1>6, <1>7, <1>8, <1>9, <2>1, <2>2 DEF SegmentPart
<1>11. ReconfPart(t)' /\ TrimmerPart(t)' /\ ~Installing(t) /\ ~Installing(t)'
  BY <1>5, <1>6, <1>7 DEF ReconfPart, TrimmerPart, Installing, Appending
<1>12. issued <= issued' /\ trimTo <= trimTo'
  BY <1>1, <1>8, BoundsAssumption DEF Shape, Position
<1>13. Invoke(t)
  BY DEF Invoke
<1> QED BY <1>5, <1>8, <1>10, <1>11, <1>12, <1>13, QuietStep DEF TaskPart

LEMMA OneBeginTrim ==
  ASSUME OneInv, OneAppender, NEW t \in Task, NEW p \in Position, BeginTrim(t, p)
  PROVE  OneInv'
<1> DEFINE x == [NoLocals EXCEPT !.mode = "trim", !.pos = p, !.chain = chain]
<1>1. AnyInv /\ Shape /\ StraightInv /\ AckedInv
  BY DEF OneInv, AnyInv, LogInv
<1>2. /\ Goto(t, "trim") /\ local' = [local EXCEPT ![t] = x]
      /\ known' = [known EXCEPT ![t] = {r \in acked : r.pos < p}]
      /\ trimTo' = (IF p > trimTo THEN p ELSE trimTo)
      /\ UNCHANGED <<logVars, issued, seals, acked>> /\ pc[t] = "idle"
  BY DEF BeginTrim
<1>3. p \in Nat /\ trimTo \in Nat /\ issued \in Nat /\ Len(chain) \in Nat
  BY <1>1, BoundsAssumption DEF Position, Shape
<1>4. p <= trimTo' /\ trimTo <= trimTo' /\ issued <= issued' /\ issued' = issued
  BY <1>2, <1>3
<1>5. /\ pc'[t] = "trim" /\ local'[t] = x /\ known'[t] = {r \in acked : r.pos < p}
  BY <1>1, <1>2 DEF Shape, Goto
<1>6. x.mode = "trim" /\ x.pos = p /\ x.chain = chain
  BY DEF NoLocals
<1> HIDE DEF x
<1>7. UNCHANGED <<chain, insts, acked>>
  BY <1>2 DEF logVars
<1>8. \A i \in 1..Len(chain) : chain[i].id = i - 1
  BY <1>1 DEF StraightInv
<1>9. ASSUME NEW k \in 1..Len(chain) PROVE CopyOf(chain[k])'
  <2>1. chain[k].id = k - 1 /\ k - 1 \in 0..(Len(chain) - 1) /\ k - 1 + 1 = k
    BY <1>3, <1>8
  <2>2. chain'[k].id + 1 = k
    BY <1>7, <2>1
  <2> QED BY <1>7, <2>1, <2>2 DEF CopyOf
<1>10. ASSUME NEW r \in known'[t]
       PROVE  r.pos < p /\ \E i \in 1..Len(chain') : Kept(i, r)' /\ ToVisit(t, i)'
  <2>1. r \in acked /\ r.pos < p
    BY <1>5
  <2>2. PICK i \in 1..Len(chain) : Kept(i, r)
    BY <1>1, <2>1 DEF AckedInv
  <2>3. Kept(i, r)'
    BY <1>7, <2>2 DEF Kept, SegTail
  <2>4. ToVisit(t, i)'
    BY <1>5, <1>6, <1>8 DEF ToVisit
  <2> QED BY <1>7, <2>1, <2>2, <2>3, <2>4
<1>11. TrimmerPart(t)'
  <2>1. \A k \in 1..Len(local'[t].chain) : CopyOf(local[t].chain[k])'
    BY <1>5, <1>6, <1>7, <1>9
  <2> QED BY <1>4, <1>5, <1>6, <1>10, <2>1 DEF TrimmerPart
<1>12. ReconfPart(t)' /\ SegmentPart(t)' /\ ~Installing(t) /\ ~Installing(t)'
  BY <1>2, <1>5, <1>6 DEF ReconfPart, SegmentPart, Installing, Appending
<1>13. Invoke(t)
  BY DEF Invoke
<1> QED BY <1>2, <1>4, <1>11, <1>12, <1>13, QuietStep DEF TaskPart

(* A loglet of the chain is sealed or trimmed: no segment changes its       *)
(* length.                                                                  *)
LEMMA TouchedLog ==
  ASSUME OneInv, AnyInv', NEW k \in 1..Len(chain), NEW b \in Inner, Update(k, b),
         InnerGrows(insts[k], b), Len(b.entries) = Len(insts[k].entries),
         b.trim_pos > 1 => chain[k].start + b.trim_pos - 1 <= trimTo,
         UNCHANGED <<chain, loglets, acked, issued, trimTo>>
  PROVE  /\ StraightInv' /\ TilesInv' /\ AckedInv' /\ TrimInv' /\ Grows /\ Facts /\ Facts'
         /\ LogTail' = LogTail /\ Len(insts') = Len(insts)
         /\ \A i \in 1..Len(insts) : Len(insts'[i].entries) = Len(insts[i].entries)
         /\ \A i \in 1..Len(insts) : insts'[i] = IF i = k THEN b ELSE insts[i]
<1>1. AnyInv /\ StraightInv /\ TilesInv /\ AckedInv /\ TrimInv /\ Shape
  BY DEF OneInv, AnyInv, LogInv
<1>2. Facts
  BY <1>1, FactsHold
<1>3. Len(chain) \in Nat /\ Len(insts) \in Nat /\ Len(chain) <= Len(insts) /\ Len(chain) # 0
  BY <1>2 DEF Facts
<1>4. k \in 1..Len(insts)
  BY <1>3
<1>5. /\ Len(insts') = Len(insts)
      /\ \A i \in 1..Len(insts) : insts'[i] = IF i = k THEN b ELSE insts[i]
  BY <1>1, <1>4, Updated
<1>6. \A i \in 1..Len(insts) : Len(insts'[i].entries) = Len(insts[i].entries)
  BY <1>5
<1>7. \A i \in 1..Len(insts) : InnerGrows(insts[i], insts'[i])
  <2>1. \A i \in 1..Len(insts) : InnerGrows(insts[i], insts[i])
    BY <1>2, InnerOps DEF Facts
  <2> QED BY <1>5, <2>1
<1>8. StraightInv'
  BY <1>1, <1>5 DEF StraightInv
<1>9. Facts'
  BY <1>8, FactsHold, PTL
<1>10. Grows
  <2>1. trimTo \in Nat
    BY <1>1, BoundsAssumption DEF Shape, Position
  <2> QED BY <1>3, <1>5, <1>7, <2>1 DEF Grows
<1>11. ASSUME NEW i \in 1..Len(chain)
       PROVE  i \in 1..Len(insts) /\ SegTail(i)' = SegTail(i) /\ (insts[i].sealed => insts'[i].sealed)
  <2>1. i \in 1..Len(insts)
    BY <1>3
  <2> QED BY <1>6, <1>7, <2>1 DEF SegTail, InnerGrows
<1>12. LogTail' = LogTail
  BY <1>3, <1>11 DEF LogTail, SegTail
<1>13. TilesInv'
  <2>1. \A i \in 1..(Len(chain) - 1) : i \in 1..Len(chain)
    BY <1>3
  <2>2. ASSUME NEW i \in 1..(Len(chain) - 1)
        PROVE  /\ insts'[i].sealed /\ chain'[i].end = SegTail(i)' /\ chain'[i + 1].start = SegTail(i)'
    BY <1>1, <1>11, <2>1 DEF TilesInv
  <2>3. ASSUME NEW i \in 1..Len(chain), NEW j \in 1..Len(chain), i < j
        PROVE  SegTail(i)' <= chain'[j].start
    BY <1>1, <1>11, <2>3 DEF TilesInv
  <2> QED BY <2>2, <2>3 DEF TilesInv
<1>14. AckedInv'
  <2>1. \A r \in acked : \E i \in 1..Len(chain') : Kept(i, r)'
    <3>1. acked \subseteq Record
      BY <1>1 DEF Shape
    <3> QED BY <1>1, <1>2, <1>9, <1>10, <3>1, KeptGrows DEF AckedInv
  <2> QED BY <1>1, <1>12, <2>1 DEF AckedInv
<1>15. TrimInv'
  <2> SUFFICES ASSUME NEW i \in 1..Len(chain), insts'[i].trim_pos > 1
               PROVE  chain[i].start + insts'[i].trim_pos - 1 <= trimTo
    BY DEF TrimInv
  <2>1. CASE i = k
    BY <1>4, <1>5, <2>1
  <2>2. CASE i # k
    BY <1>1, <1>5, <1>11, <2>2 DEF TrimInv
  <2> QED BY <2>1, <2>2
<1> QED BY <1>2, <1>5, <1>6, <1>8, <1>9, <1>10, <1>12, <1>13, <1>14, <1>15

(* The loglet a call works on, which is its segment's. *)
LEMMA OnLoglet ==
  ASSUME OneInv, NEW t \in Task, pc[t] = "on_loglet"
  PROVE  /\ local[t] \in Locals /\ local[t].inst \in 1..Len(chain)
         /\ local[t].start = chain[local[t].inst].start
         /\ local[t].inst = local[t].id + 1
         /\ Appending(t) => local[t].inst = Len(chain)
         /\ insts[local[t].inst] \in Inner
         /\ LocalToGlobal(local[t].start, LogletTail(insts[local[t].inst])) = SegTail(local[t].inst)
<1>1. AnyInv /\ Shape /\ StraightInv /\ SegmentPart(t)
  BY DEF OneInv, AnyInv, LogInv, TaskInv, TaskPart
<1>2. Facts
  BY <1>1, FactsHold
<1>3. Len(chain) \in Nat /\ Len(insts) \in Nat /\ Len(chain) <= Len(insts)
  BY <1>2 DEF Facts
<1>4. /\ local[t].id \in 0..(Len(chain) - 1) /\ local[t].inst = local[t].id + 1
      /\ local[t].start = chain[local[t].id + 1].start
      /\ Appending(t) => local[t].id = Len(chain) - 1
  BY <1>1 DEF SegmentPart
<1>5. local[t].inst \in 1..Len(chain) /\ local[t].inst \in 1..Len(insts)
      /\ (Appending(t) => local[t].inst = Len(chain))
  BY <1>3, <1>4
<1>6. insts[local[t].inst] \in Inner /\ Len(insts[local[t].inst].entries) \in Nat
      /\ chain[local[t].inst].start \in Nat
  BY <1>2, <1>5 DEF Facts
<1>7. LocalToGlobal(local[t].start, LogletTail(insts[local[t].inst])) = SegTail(local[t].inst)
  BY <1>4, <1>6 DEF LocalToGlobal, LogletTail, SegTail
<1> QED BY <1>1, <1>4, <1>5, <1>6, <1>7 DEF Shape

LEMMA OneSeal ==
  ASSUME OneInv, OneAppender, NEW t \in Task, Seal(t)
  PROVE  OneInv'
<1>1. AnyInv /\ Shape /\ StraightInv /\ TrimInv
  BY DEF OneInv, AnyInv, LogInv
<1>2. /\ pc[t] = "on_loglet" /\ Update(local[t].inst, LogletSeal(insts[local[t].inst]))
      /\ \E res : Return(t, res)
      /\ UNCHANGED <<meta, chain, chainVersion, loglets, historyVars>>
  BY DEF Seal
<1>3. PICK k \in 1..Len(chain) : k = local[t].inst /\ insts[k] \in Inner
  BY <1>2, OnLoglet
<1> DEFINE b == LogletSeal(insts[k])
<1>4. /\ b \in Inner /\ InnerGrows(insts[k], b) /\ Len(b.entries) = Len(insts[k].entries)
      /\ b.trim_pos = insts[k].trim_pos
  BY <1>3, InnerOps, LogletTypes
<1>5. b.trim_pos > 1 => chain[k].start + b.trim_pos - 1 <= trimTo
  BY <1>1, <1>4 DEF TrimInv
<1>6. Update(k, b)
  BY <1>2, <1>3
<1> HIDE DEF b
<1>7. UNCHANGED <<acked, issued, trimTo>>
  BY <1>2 DEF historyVars
<1>8. Proceed(t)
  BY DEF Proceed
<1>9. AnyInv'
  BY <1>1, <1>8, AnyNext DEF Next
<1>10. /\ StraightInv' /\ TilesInv' /\ AckedInv' /\ TrimInv' /\ Grows /\ Len(insts') = Len(insts)
       /\ Facts
       /\ \A i \in 1..Len(insts) : Len(insts'[i].entries) = Len(insts[i].entries)
       /\ \A i \in 1..Len(insts) : insts'[i] = IF i = k THEN b ELSE insts[i]
  BY <1>2, <1>4, <1>5, <1>6, <1>7, <1>9, TouchedLog
<1>11. pc'[t] = "idle" /\ local'[t] = NoLocals
  BY <1>1, <1>2 DEF Return, Goto, Shape
<1>12. TaskPart(t)' /\ ~Installing(t)' /\ ~Installing(t)
  BY <1>2, <1>11, IdlePart DEF Installing
<1>13. MetaInv'
  BY <1>2, <1>8, <1>10, <1>12, QuietMeta
<1>14. Passive
  <2>1. Len(chain) \in Nat
    BY <1>10 DEF Facts
  <2>2. \A i \in 1..Len(insts) : i > Len(chain) => i # k
    BY <2>1
  <2> QED BY <1>2, <1>7, <1>10, <2>2 DEF Passive
<1> QED BY <1>8, <1>10, <1>12, <1>13, <1>14, OneRest DEF LogInv

LEMMA OneReconfigureSeal ==
  ASSUME OneInv, OneAppender, NEW t \in Task, ReconfigureSeal(t)
  PROVE  OneInv'
<1> DEFINE n == Len(chain)
           x == [local[t] EXCEPT !.sealPos = LogTail]
<1>1. AnyInv /\ Shape /\ StraightInv /\ TrimInv /\ ReconfPart(t)
  BY DEF OneInv, AnyInv, LogInv, TaskInv, TaskPart
<1>2. pc[t] = "on_loglet" /\ local[t].mode = "reconfigure"
  BY DEF ReconfigureSeal
<1>3. /\ local[t] \in Locals /\ local[t].inst = n /\ n \in 1..n /\ insts[n] \in Inner
      /\ LocalToGlobal(local[t].start, LogletTail(insts[n])) = LogTail
  BY <1>2, OnLoglet DEF Appending, LogTail
<1>4. /\ Update(n, LogletSeal(insts[n])) /\ n < MaxSegments
      /\ local' = [local EXCEPT ![t] = x] /\ Goto(t, "read_version")
      /\ UNCHANGED <<meta, chain, chainVersion, loglets, result, historyVars, known>>
  BY <1>3 DEF ReconfigureSeal
<1> DEFINE b == LogletSeal(insts[n])
<1>5. /\ b \in Inner /\ InnerGrows(insts[n], b) /\ Len(b.entries) = Len(insts[n].entries)
      /\ b.trim_pos = insts[n].trim_pos /\ b.sealed
  BY <1>3, InnerOps, LogletTypes
<1>6. b.trim_pos > 1 => chain[n].start + b.trim_pos - 1 <= trimTo
  BY <1>1, <1>3, <1>5 DEF TrimInv
<1>7. Update(n, b) /\ UNCHANGED <<acked, issued, trimTo>>
  BY <1>4 DEF historyVars
<1> HIDE DEF b
<1>8. Proceed(t)
  BY DEF Proceed
<1>9. AnyInv'
  BY <1>1, <1>8, AnyNext DEF Next
<1>10. /\ StraightInv' /\ TilesInv' /\ AckedInv' /\ TrimInv' /\ Grows /\ Len(insts') = Len(insts)
       /\ Facts /\ LogTail' = LogTail
       /\ \A i \in 1..Len(insts) : insts'[i] = IF i = n THEN b ELSE insts[i]
  BY <1>3, <1>4, <1>5, <1>6, <1>7, <1>9, TouchedLog
<1>11. LogTail \in Nat /\ n \in 1..Len(insts)
  <2>1. LogTail \in Nat /\ n \in Nat \ {0} /\ Len(insts) \in Nat /\ n <= Len(insts)
    BY <1>10 DEF Facts
  <2> HIDE DEF n
  <2> QED BY <2>1
<1>12. x \in Locals /\ x.mode = "reconfigure" /\ x.sealPos = LogTail
  BY <1>2, <1>3, <1>11 DEF Locals
<1> HIDE DEF x, n
<1>13. "read_version" \in Labels
  BY DEF Labels
<1>14. pc'[t] = "read_version" /\ local'[t] = x
  BY <1>1, <1>4, <1>12, <1>13, Moved
<1>15. insts'[Len(chain')].sealed /\ Len(chain') < MaxSegments
  <2>1. insts'[n] = b
    BY <1>10, <1>11
  <2>2. Len(chain') = n
    BY <1>4 DEF n
  <2> QED BY <1>4, <1>5, <2>1, <2>2
<1>16. ReconfPart(t)'
  BY <1>1, <1>2, <1>7, <1>10, <1>12, <1>14, <1>15 DEF ReconfPart, Appending, Installing
<1>17. TaskPart(t)' /\ ~Installing(t)' /\ ~Installing(t)
  BY <1>2, <1>14, <1>16 DEF TaskPart, SegmentPart, TrimmerPart, Installing
<1>18. MetaInv'
  BY <1>4, <1>8, <1>10, <1>17, QuietMeta
<1>19. t \in Appenders
  BY <1>1, <1>2 DEF AnyInv, CallInv, CallPart
<1> QED BY <1>8, <1>10, <1>17, <1>18, <1>19, OneRest DEF LogInv

(* One segment of a trim: its loglet is trimmed up to the position or to    *)
(* the end of the segment, as far as the trim's copy of the chain knows it. *)
LEMMA TrimStep ==
  ASSUME OneInv, NEW t \in Task, TrimSegment(t)
  PROVE  \E k \in 1..Len(chain) :
           /\ Head(local[t].chain).id = k - 1
           /\ \/ insts' = insts
              \/ \E b \in Inner :
                   /\ Update(k, b) /\ InnerGrows(insts[k], b)
                   /\ Len(b.entries) = Len(insts[k].entries)
                   /\ b.trim_pos > 1 => chain[k].start + b.trim_pos - 1 <= trimTo
           /\ \A r \in Record : Kept(k, r) /\ r.pos < local[t].pos =>
                GlobalToLocal(chain[k].start, r.pos) < insts'[k].trim_pos
<1> DEFINE seg == Head(local[t].chain)
           p == local[t].pos
           q == GlobalToLocal(seg.start, TrimBound(seg, p))
<1>1. AnyInv /\ Shape /\ StraightInv /\ TilesInv /\ TrimInv /\ TrimmerPart(t)
  BY DEF OneInv, AnyInv, LogInv, TaskInv, TaskPart
<1>2. Facts
  BY <1>1, FactsHold
<1>3. pc[t] = "trim" /\ local[t].chain # <<>>
  BY DEF TrimSegment
<1>4. local[t].chain \in Seq(Seg) /\ p \in Nat /\ p <= trimTo /\ trimTo \in Nat
  <2>1. local[t] \in Locals /\ trimTo \in Position
    BY <1>1 DEF Shape
  <2> QED BY <1>1, <1>3, <2>1, BoundsAssumption DEF Locals, Position, TrimmerPart
<1>5. seg = local[t].chain[1] /\ Len(local[t].chain) \in Nat \ {0} /\ seg \in Seg
  BY <1>3, <1>4, HeadTailProperties, EmptySeq
<1>6. CopyOf(seg)
  BY <1>1, <1>3, <1>5 DEF TrimmerPart
<1> HIDE DEF seg
<1>7. PICK k \in 1..Len(chain) : seg.id = k - 1
  <2>1. Len(chain) \in Nat /\ seg.id \in 0..(Len(chain) - 1)
    BY <1>2, <1>6 DEF Facts, CopyOf
  <2>2. seg.id + 1 \in 1..Len(chain) /\ seg.id = seg.id + 1 - 1
    BY <2>1
  <2>3. PICK m \in 1..Len(chain) : m = seg.id + 1
    BY <2>2
  <2> QED BY <2>1, <2>3
<1>8. k \in Nat /\ Len(chain) \in Nat /\ k \in 1..Len(insts)
  <2>1. Len(chain) \in Nat /\ Len(insts) \in Nat /\ Len(chain) <= Len(insts)
    BY <1>2 DEF Facts
  <2> QED BY <2>1
<1>9. seg.start = chain[k].start /\ seg.end \in {NoEnd, chain[k].end}
  <2>1. seg.id + 1 = k
    BY <1>7, <1>8
  <2> QED BY <1>6, <2>1 DEF CopyOf
<1>10. loglets[seg.id] = k /\ seg.id \in DOMAIN loglets
  BY <1>2, <1>7 DEF Facts
<1>11. /\ chain[k].start \in Nat \ {0} /\ insts[k] \in Inner /\ insts[k].trim_pos \in Nat
       /\ SegTail(k) \in Nat \ {0} /\ Len(insts[k].entries) \in Nat
  BY <1>2, <1>8 DEF Facts
<1>12. seg.end # NoEnd => seg.end = SegTail(k)
  <2> SUFFICES ASSUME seg.end # NoEnd PROVE seg.end = SegTail(k)
    OBVIOUS
  <2>1. chain[k].end # NoEnd /\ seg.end = chain[k].end
    BY <1>9
  <2>2. k # Len(chain)
    BY <1>2, <2>1 DEF Facts
  <2>3. k \in 1..(Len(chain) - 1)
    BY <1>8, <2>2
  <2> QED BY <1>1, <2>1, <2>3 DEF TilesInv
<1> DEFINE e == TrimBound(seg, p)
<1>13. e \in Nat /\ e <= p /\ (e = p \/ e = SegTail(k))
  BY <1>4, <1>11, <1>12 DEF TrimBound
<1>14. q = e - chain[k].start + 1
  BY <1>9 DEF GlobalToLocal
<1> HIDE DEF e
<1> HIDE DEF q, p
<1>15. q \in Int
  BY <1>11, <1>13, <1>14
<1>16. CASE p > chain[k].start
  <2> DEFINE b == LogletTrim(insts[k], q)
  <2>1. Update(k, b)
    <3>1. local[t].pos > seg.start
      BY <1>9, <1>16 DEF p
    <3> QED BY <1>10, <3>1 DEF TrimSegment, seg, q, p
  <2>2. /\ b \in Inner /\ InnerGrows(insts[k], b) /\ Len(b.entries) = Len(insts[k].entries)
        /\ b.trim_pos = IF q <= insts[k].trim_pos THEN insts[k].trim_pos ELSE q
    BY <1>11, <1>15, InnerOps, LogletTypes
  <2> HIDE DEF b
  <2>3. b.trim_pos > 1 => chain[k].start + b.trim_pos - 1 <= trimTo
    <3>1. CASE q <= insts[k].trim_pos
      BY <1>1, <2>2, <3>1 DEF TrimInv
    <3>2. CASE ~(q <= insts[k].trim_pos)
      <4>1. b.trim_pos = q
        BY <2>2, <3>2
      <4>2. chain[k].start + q - 1 = e
        BY <1>11, <1>13, <1>14
      <4>3. p \in Nat /\ p <= trimTo /\ trimTo \in Nat
        BY <1>4 DEF p
      <4> QED BY <1>13, <4>1, <4>2, <4>3
    <3> QED BY <3>1, <3>2
  <2>4. ASSUME NEW r \in Record, Kept(k, r), r.pos < p
        PROVE  GlobalToLocal(chain[k].start, r.pos) < insts'[k].trim_pos
    <3>1. insts'[k] = b
      BY <1>1, <1>8, <2>1, <2>2, Updated
    <3>2. r.pos \in Nat /\ r.pos < SegTail(k)
      BY <2>4 DEF Record, Kept
    <3>3. r.pos < e
      BY <1>13, <2>4, <3>2
    <3>4. r.pos - chain[k].start + 1 < q
      BY <1>11, <1>13, <1>14, <3>2, <3>3
    <3>5. q <= b.trim_pos /\ b.trim_pos \in Int
      BY <1>11, <1>15, <2>2
    <3>6. r.pos - chain[k].start + 1 < b.trim_pos
      BY <1>11, <1>15, <3>2, <3>4, <3>5
    <3> QED BY <3>1, <3>6 DEF GlobalToLocal
  <2> QED BY <1>7, <2>1, <2>2, <2>3, <2>4 DEF seg, p
<1>17. CASE ~(p > chain[k].start)
  <2>1. insts' = insts
    BY <1>9, <1>17 DEF TrimSegment, seg, p
  <2>2. \A r \in Record : ~(Kept(k, r) /\ r.pos < p)
    <3>1. p \in Nat
      BY <1>4 DEF p
    <3> QED BY <1>11, <1>17, <3>1 DEF Kept, Record
  <2> QED BY <1>7, <2>1, <2>2 DEF seg, p
<1> QED BY <1>16, <1>17

LEMMA OneTrimSegment ==
  ASSUME OneInv, OneAppender, NEW t \in Task, TrimSegment(t)
  PROVE  OneInv'
<1> DEFINE ch == local[t].chain
           x == [local[t] EXCEPT !.chain = Tail(ch)]
<1>1. AnyInv /\ Shape /\ StraightInv /\ TilesInv /\ CallPart(t) /\ TrimmerPart(t)
  BY DEF OneInv, AnyInv, CallInv, LogInv, TaskInv, TaskPart
<1>2. /\ pc[t] = "trim" /\ ch # <<>> /\ local' = [local EXCEPT ![t] = x]
      /\ UNCHANGED <<meta, chain, chainVersion, loglets, pc, result, historyVars, known>>
  BY DEF TrimSegment
<1>3. PICK k \in 1..Len(chain) :
        /\ Head(ch).id = k - 1
        /\ \/ insts' = insts
           \/ \E b \in Inner :
                /\ Update(k, b) /\ InnerGrows(insts[k], b)
                /\ Len(b.entries) = Len(insts[k].entries)
                /\ b.trim_pos > 1 => chain[k].start + b.trim_pos - 1 <= trimTo
        /\ \A r \in Record : Kept(k, r) /\ r.pos < local[t].pos =>
             GlobalToLocal(chain[k].start, r.pos) < insts'[k].trim_pos
  BY TrimStep
<1>4. Proceed(t)
  BY DEF Proceed
<1>5. AnyInv'
  BY <1>1, <1>4, AnyNext DEF Next
<1>6. Facts
  BY <1>1, FactsHold
<1>7. UNCHANGED <<acked, issued, trimTo>> /\ issued \in Nat /\ trimTo \in Nat
  BY <1>1, <1>2, BoundsAssumption DEF historyVars, Shape, Position
<1>8. /\ StraightInv' /\ TilesInv' /\ AckedInv' /\ TrimInv' /\ Grows /\ Len(insts') = Len(insts)
      /\ \A i \in 1..Len(insts) : Len(insts'[i].entries) = Len(insts[i].entries)
      /\ \A i \in 1..Len(insts) : i > Len(chain) => insts'[i] = insts[i]
  <2>1. CASE insts' = insts
    BY <1>2, <1>5, <1>7, <2>1, QuietLog
  <2>2. CASE insts' # insts
    <3>0. PICK b \in Inner :
            /\ Update(k, b) /\ InnerGrows(insts[k], b)
            /\ Len(b.entries) = Len(insts[k].entries)
            /\ b.trim_pos > 1 => chain[k].start + b.trim_pos - 1 <= trimTo
      BY <1>3, <2>2
    <3>1. /\ StraightInv' /\ TilesInv' /\ AckedInv' /\ TrimInv' /\ Grows
          /\ Len(insts') = Len(insts)
          /\ \A i \in 1..Len(insts) : Len(insts'[i].entries) = Len(insts[i].entries)
          /\ \A i \in 1..Len(insts) : insts'[i] = IF i = k THEN b ELSE insts[i]
      BY <1>2, <1>5, <1>7, <3>0, TouchedLog
    <3>2. Len(chain) \in Nat
      BY <1>6 DEF Facts
    <3>3. \A i \in 1..Len(insts) : i > Len(chain) => i # k
      BY <3>2
    <3> QED BY <3>1, <3>3
  <2> QED BY <2>1, <2>2
<1>9. Facts'
  BY <1>5, <1>8, FactsHold, PTL
<1>10. local[t] \in Locals /\ ch \in Seq(Seg) /\ Len(ch) \in Nat \ {0}
  <2>1. local[t] \in Locals
    BY <1>1 DEF Shape
  <2>2. ch \in Seq(Seg)
    BY <2>1 DEF Locals
  <2> QED BY <1>2, <2>1, <2>2, EmptySeq
<1>11. /\ Head(ch) = ch[1] /\ Tail(ch) \in Seq(Seg) /\ Len(Tail(ch)) = Len(ch) - 1
       /\ \A j \in 1..(Len(ch) - 1) : Tail(ch)[j] = ch[j + 1]
  BY <1>2, <1>10, HeadTailProperties
<1>12. x \in Locals /\ x.mode = local[t].mode /\ x.pos = local[t].pos /\ x.chain = Tail(ch)
  BY <1>10, <1>11 DEF Locals
<1> HIDE DEF x
<1>13. local'[t] = x /\ pc'[t] = "trim" /\ known'[t] = known[t]
  BY <1>1, <1>2 DEF Shape
<1>14. /\ local[t].pos <= trimTo
       /\ \A j \in 1..Len(ch) : CopyOf(ch[j])
       /\ known[t] \subseteq Record
       /\ \A r \in known[t] :
            /\ r.pos < local[t].pos
            /\ \E i \in 1..Len(chain) : Gone(i, r) \/ (Kept(i, r) /\ ToVisit(t, i))
  BY <1>1, <1>2 DEF TrimmerPart, Shape
<1> HIDE DEF ch
<1>15. ASSUME NEW j \in 1..Len(local'[t].chain) PROVE CopyOf(local[t].chain[j])'
  <2>0. local'[t].chain = Tail(ch)
    BY <1>12, <1>13 DEF ch
  <2>1. j \in 1..(Len(ch) - 1) /\ j + 1 \in 1..Len(ch)
    BY <1>10, <1>11, <2>0
  <2>2. CopyOf(ch[j + 1]) /\ local'[t].chain[j] = ch[j + 1]
    BY <1>11, <1>14, <2>0, <2>1
  <2> QED BY <1>2, <2>2 DEF CopyOf
<1>16. ASSUME NEW r \in known[t]
       PROVE  \E i \in 1..Len(chain') : Gone(i, r)' \/ (Kept(i, r)' /\ ToVisit(t, i)')
  <2>1. PICK i \in 1..Len(chain) : Gone(i, r) \/ (Kept(i, r) /\ ToVisit(t, i))
    BY <1>14
  <2>2. r \in Record /\ r.pos < local[t].pos /\ Len(chain') = Len(chain)
    BY <1>2, <1>14
  <2>3. i \in 1..Len(chain') /\ (Kept(i, r) => Kept(i, r)') /\ (Gone(i, r) => Gone(i, r)')
    BY <1>6, <1>8, <1>9, <2>2, KeptGrows
  <2>4. CASE Gone(i, r)
    BY <2>3, <2>4
  <2>5. CASE Kept(i, r) /\ ToVisit(t, i)
    <3>1. PICK j \in 1..Len(ch) : ch[j].id = i - 1
      BY <2>5 DEF ToVisit, ch
    <3>2. CASE j = 1
      <4>1. i = k
        <5>1. k - 1 = i - 1
          BY <1>3, <1>11, <3>1, <3>2
        <5> QED BY <5>1
      <4>2. GlobalToLocal(chain[k].start, r.pos) < insts'[k].trim_pos
        BY <1>3, <2>2, <2>5, <4>1
      <4>3. Gone(i, r)'
        BY <1>2, <2>3, <2>5, <4>1, <4>2 DEF Gone
      <4> QED BY <2>3, <4>3
    <3>3. CASE j # 1
      <4>1. j - 1 \in 1..(Len(ch) - 1) /\ j - 1 + 1 = j
        BY <1>10, <3>3
      <4>2. Tail(ch)[j - 1] = ch[j] /\ j - 1 \in 1..Len(Tail(ch))
        BY <1>11, <4>1
      <4>3. \E m \in 1..Len(x.chain) : x.chain[m].id = i - 1
        BY <1>12, <3>1, <4>2 DEF ch
      <4>4. ToVisit(t, i)'
        BY <1>13, <4>3 DEF ToVisit
      <4> QED BY <2>3, <2>5, <4>4
    <3> QED BY <3>2, <3>3
  <2> QED BY <2>1, <2>4, <2>5
<1>17. TrimmerPart(t)'
  <2>1. \A j \in 1..Len(local'[t].chain) : CopyOf(local[t].chain[j])'
    BY <1>15
  <2>2. local'[t].pos <= trimTo' /\ \A r \in known'[t] : r.pos < local'[t].pos
    BY <1>7, <1>12, <1>13, <1>14
  <2> QED BY <1>13, <1>16, <2>1, <2>2 DEF TrimmerPart
<1>18. TaskPart(t)' /\ ~Installing(t) /\ ~Installing(t)'
  <2>1. local[t].mode = "trim"
    BY <1>1, <1>2 DEF CallPart
  <2> QED BY <1>2, <1>12, <1>13, <1>17, <2>1
          DEF TaskPart, ReconfPart, SegmentPart, Installing, Appending
<1>19. MetaInv'
  BY <1>2, <1>4, <1>8, <1>18, QuietMeta
<1>20. Passive
  BY <1>2, <1>7, <1>8 DEF Passive
<1> QED BY <1>4, <1>8, <1>18, <1>19, <1>20, OneRest DEF LogInv

(* An append takes the first free position of the log. *)
LEMMA AppendStep ==
  ASSUME OneInv, NEW t \in Task, AppendOk(t)
  PROVE  /\ local[t].entry \in Entry /\ t \in Appenders /\ LogTail <= issued
         /\ ~insts[Len(chain)].sealed
         /\ Update(Len(chain), LogletAppend(insts[Len(chain)], local[t].entry))
         /\ acked' = acked \cup {[pos |-> LogTail, entry |-> local[t].entry]}
         /\ Return(t, Res("append", "ok", LogTail, local[t].entry))
         /\ UNCHANGED <<meta, chain, chainVersion, loglets, issued, seals, trimTo>>
<1>1. AnyInv /\ CallPart(t) /\ ReconfPart(t)
  BY DEF OneInv, AnyInv, CallInv, TaskInv, TaskPart
<1>2. pc[t] = "on_loglet" /\ local[t].mode = "append" /\ Appending(t)
  BY DEF AppendOk, Appending
<1>3. /\ local[t].inst = Len(chain)
      /\ LocalToGlobal(local[t].start, LogletTail(insts[local[t].inst])) = SegTail(local[t].inst)
  BY <1>2, OnLoglet
<1>4. LocalToGlobal(local[t].start, LogletTail(insts[Len(chain)])) = LogTail
  BY <1>3 DEF LogTail
<1>5. local[t].entry \in Entry /\ t \in Appenders /\ LogTail <= issued
  BY <1>1, <1>2 DEF CallPart, ReconfPart
<1> QED BY <1>3, <1>4, <1>5 DEF AppendOk

LEMMA OneAppendOk ==
  ASSUME OneInv, OneAppender, NEW t \in Task, AppendOk(t)
  PROVE  OneInv'
<1> DEFINE n == Len(chain)
           a == insts[n]
           e == local[t].entry
           b == LogletAppend(a, e)
           new == [pos |-> LogTail, entry |-> e]
<1>1. AnyInv /\ Shape /\ StraightInv /\ TilesInv /\ AckedInv /\ TrimInv
  BY DEF OneInv, AnyInv, LogInv
<1>2. Facts
  BY <1>1, FactsHold
<1>3. /\ e \in Entry /\ t \in Appenders /\ LogTail <= issued /\ ~a.sealed /\ Update(n, b)
      /\ acked' = acked \cup {new} /\ \E res : Return(t, res)
      /\ UNCHANGED <<meta, chain, chainVersion, loglets, issued, seals, trimTo>>
  BY AppendStep
<1>4. n \in Nat \ {0} /\ Len(insts) \in Nat /\ n <= Len(insts) /\ LogTail \in Nat \ {0}
      /\ trimTo \in Nat /\ issued \in Nat
  BY <1>1, <1>2, BoundsAssumption DEF Facts, Shape, Position
<1> HIDE DEF n
<1>5. n \in 1..Len(insts) /\ n \in 1..n
  BY <1>4
<1>6. a \in Inner /\ a.entries \in Seq(Entry \cup {NoEntry}) /\ Len(a.entries) \in Nat
      /\ a.trim_pos \in Nat
  BY <1>2, <1>5 DEF Facts
<1>7. /\ b \in Inner /\ b.entries = Append(a.entries, e) /\ b.trim_pos = a.trim_pos
      /\ ~b.sealed
  <2>1. b \in Inner
    BY <1>3, <1>6, LogletTypes
  <2> QED BY <1>3, <1>6, <2>1 DEF LogletAppend, Inner
<1>8. /\ Len(b.entries) = Len(a.entries) + 1 /\ b.entries[Len(a.entries) + 1] = e
      /\ \A p \in 1..Len(a.entries) : b.entries[p] = a.entries[p]
  BY <1>3, <1>6, <1>7, AppendProperties
<1> HIDE DEF b
<1>9. InnerGrows(a, b)
  BY <1>3, <1>6, <1>7, <1>8 DEF InnerGrows
<1>10. /\ Len(insts') = Len(insts)
       /\ \A i \in 1..Len(insts) : insts'[i] = IF i = n THEN b ELSE insts[i]
  BY <1>1, <1>3, <1>5, <1>7, Updated
<1> HIDE DEF a, e
<1>11. insts'[n] = b /\ a = insts[n]
  BY <1>5, <1>10 DEF a
<1>12. StraightInv'
  BY <1>1, <1>3, <1>10 DEF StraightInv
<1>13. Proceed(t)
  BY DEF Proceed
<1>14. AnyInv'
  BY <1>1, <1>13, AnyNext DEF Next
<1>15. Facts'
  BY <1>12, <1>14, FactsHold, PTL
<1>16. Grows
  <2>1. \A i \in 1..Len(insts) : InnerGrows(insts[i], insts[i])
    BY <1>2, InnerOps DEF Facts
  <2>2. \A i \in 1..Len(insts) : InnerGrows(insts[i], insts'[i])
    BY <1>9, <1>10, <1>11, <2>1
  <2> QED BY <1>3, <1>4, <1>10, <2>2 DEF Grows, n
<1>17. LogTail = chain[n].start + Len(a.entries) /\ chain[n].start \in Nat
  <2>1. chain[n].start \in Nat
    BY <1>2, <1>5 DEF Facts, n
  <2> QED BY <2>1, <1>11 DEF LogTail, SegTail, n
<1>18. LogTail' = LogTail + 1
  <2>1. LogTail' = chain[n].start + Len(b.entries)
    BY <1>3, <1>11 DEF LogTail, SegTail, n
  <2>2. Len(b.entries) = Len(a.entries) + 1 /\ Len(a.entries) \in Nat /\ chain[n].start \in Nat
    BY <1>6, <1>8, <1>17
  <2>3. LogTail = chain[n].start + Len(a.entries)
    BY <1>17
  <2>4. \A x, y, z \in Nat : z = y + 1 => x + z = x + y + 1
    OBVIOUS
  <2>5. Len(b.entries) \in Nat
    BY <2>2
  <2> QED BY <2>1, <2>2, <2>3, <2>4, <2>5
<1>19. \A i \in 1..n : i # n => i \in 1..Len(insts) /\ insts'[i] = insts[i] /\ SegTail(i)' = SegTail(i)
  <2> SUFFICES ASSUME NEW i \in 1..n, i # n
               PROVE  i \in 1..Len(insts) /\ insts'[i] = insts[i] /\ SegTail(i)' = SegTail(i)
    OBVIOUS
  <2>1. i \in 1..Len(insts)
    BY <1>4
  <2>2. insts'[i] = insts[i]
    BY <1>10, <2>1
  <2> QED BY <1>3, <2>1, <2>2 DEF SegTail
<1>20. TilesInv'
  <2>1. ASSUME NEW i \in 1..(n - 1)
        PROVE  insts'[i].sealed /\ chain'[i].end = SegTail(i)' /\ chain'[i + 1].start = SegTail(i)'
    <3>1. i \in 1..n /\ i # n
      BY <1>4
    <3> QED BY <1>1, <1>3, <1>19, <3>1 DEF TilesInv, n
  <2>2. ASSUME NEW i \in 1..n, NEW j \in 1..n, i < j
        PROVE  SegTail(i)' <= chain'[j].start
    <3>1. i # n
      BY <1>4, <2>2
    <3> QED BY <1>1, <1>3, <1>19, <2>2, <3>1 DEF TilesInv, n
  <2> QED BY <1>3, <2>1, <2>2 DEF TilesInv, n
<1>21. /\ IsFiniteSet(acked) /\ Cardinality(acked) = LogTail - 1 /\ acked \subseteq Record
       /\ \A r \in acked : r.pos < LogTail /\ \E i \in 1..n : Kept(i, r)
       /\ \A p \in 1..(LogTail - 1) : \E r \in acked : r.pos = p
       /\ \A r, q \in acked : r.pos = q.pos => r = q
  BY <1>1 DEF AckedInv, Shape, n
<1>22. new.pos = LogTail /\ new.entry = e /\ new \notin acked /\ new \in Record
  <2>1. new.pos = LogTail /\ new.entry = e
    OBVIOUS
  <2>2. new \in Record
    BY <1>3, <1>4 DEF Record, e
  <2>3. new \notin acked
    BY <1>4, <1>21, <2>1
  <2> QED BY <2>1, <2>2, <2>3
<1> HIDE DEF new
<1>23. IsFiniteSet(acked') /\ Cardinality(acked') = LogTail' - 1
  <2>1. IsFiniteSet(acked') /\ Cardinality(acked') = Cardinality(acked) + 1
    BY <1>3, <1>21, <1>22, FS_AddElement
  <2> QED BY <1>4, <1>18, <1>21, <2>1
<1>24. ASSUME NEW r \in acked' PROVE r.pos < LogTail' /\ \E i \in 1..Len(chain') : Kept(i, r)'
  <2>1. CASE r \in acked
    <3>1. r \in Record /\ r.pos < LogTail /\ r.pos \in Nat
      BY <1>21, <2>1 DEF Record
    <3>2. PICK i \in 1..n : Kept(i, r)
      BY <1>21, <2>1
    <3>3. i \in 1..Len(chain') /\ Kept(i, r)'
      BY <1>2, <1>15, <1>16, <3>1, <3>2, KeptGrows DEF n
    <3> QED BY <1>4, <1>18, <3>1, <3>3
  <2>2. CASE r = new
    <3>1. r.pos < LogTail'
      BY <1>4, <1>18, <1>22, <2>2
    <3>2. /\ chain'[n].start <= r.pos
          /\ r.pos < chain'[n].start + Len(insts'[n].entries)
      <4>1. LogTail' = chain'[n].start + Len(insts'[n].entries)
        BY <1>3 DEF SegTail, LogTail, n
      <4>2. chain'[n].start <= r.pos
        BY <1>3, <1>6, <1>17, <1>22, <2>2
      <4> QED BY <3>1, <4>1, <4>2
    <3>3. GlobalToLocal(chain'[n].start, r.pos) = Len(a.entries) + 1
      BY <1>3, <1>6, <1>17, <1>22, <2>2 DEF GlobalToLocal
    <3>4. insts'[n].entries[GlobalToLocal(chain'[n].start, r.pos)] = r.entry
      BY <1>8, <1>11, <1>22, <2>2, <3>3
    <3>5. PICK i \in 1..Len(chain') : i = n
      BY <1>3, <1>5 DEF n
    <3>6. Kept(i, r)'
      BY <3>2, <3>4, <3>5 DEF Kept, SegTail
    <3> QED BY <3>1, <3>6
  <2> QED BY <1>3, <2>1, <2>2
<1>25. \A p \in 1..(LogTail' - 1) : \E r \in acked' : r.pos = p
  <2>1. \A p \in 1..(LogTail' - 1) : p \in 1..(LogTail - 1) \/ p = LogTail
    BY <1>4, <1>18
  <2> QED BY <1>3, <1>21, <1>22, <2>1
<1>26. \A r, q \in acked' : r.pos = q.pos => r = q
  <2>1. \A r \in acked : r.pos # LogTail
    BY <1>4, <1>21 DEF Record
  <2> QED BY <1>3, <1>21, <1>22, <2>1
<1>27. AckedInv'
  <2>1. LogTail' - 1 <= issued'
    BY <1>3, <1>4, <1>18
  <2> QED BY <1>23, <1>24, <1>25, <1>26, <2>1 DEF AckedInv
<1>28. TrimInv'
  <2> SUFFICES ASSUME NEW i \in 1..n, insts'[i].trim_pos > 1
               PROVE  chain[i].start + insts'[i].trim_pos - 1 <= trimTo
    BY <1>3 DEF TrimInv, n
  <2>1. insts'[i].trim_pos = insts[i].trim_pos
    BY <1>7, <1>11, <1>19
  <2> QED BY <1>1, <2>1 DEF TrimInv, n
<1>29. pc'[t] = "idle" /\ local'[t] = NoLocals /\ pc[t] = "on_loglet"
  BY <1>1, <1>3 DEF Return, Goto, Shape, AppendOk
<1>30. TaskPart(t)' /\ ~Installing(t)' /\ ~Installing(t)
  BY <1>29, IdlePart DEF Installing
<1>31. MetaInv'
  BY <1>3, <1>10, <1>13, <1>30, QuietMeta
<1> QED BY <1>3, <1>12, <1>13, <1>16, <1>20, <1>27, <1>28, <1>30, <1>31, OneRest DEF LogInv

(* The winner of the compare-and-swap makes the next loglet, which no       *)
(* segment of the cached chain names yet.                                   *)
LEMMA OneInsertLoglet ==
  ASSUME OneInv, OneAppender, NEW t \in Task, InsertLoglet(t)
  PROVE  OneInv'
<1> DEFINE n == Len(chain)
<1>1. AnyInv /\ Shape /\ StraightInv /\ TilesInv /\ AckedInv /\ TrimInv /\ ReconfPart(t)
  BY DEF OneInv, AnyInv, LogInv, TaskInv, TaskPart
<1>2. Facts
  BY <1>1, FactsHold
<1>3. /\ pc[t] = "insert" /\ insts' = Append(insts, NewLoglet)
      /\ loglets' = [id \in DOMAIN loglets \cup {local[t].id} |->
                       IF id = local[t].id THEN Len(insts) + 1 ELSE loglets[id]]
      /\ Goto(t, "write_chain")
      /\ UNCHANGED <<meta, chain, chainVersion, local, result, historyVars, known>>
  BY DEF InsertLoglet
<1>4. Appending(t)
  BY <1>1, <1>3, RebuildingAppends DEF Rebuilding
<1>5. t \in Appenders /\ Len(insts) = n
  BY <1>3, <1>4, NoneInstalls
<1>6. local[t].id = n /\ n < MaxSegments
  BY <1>1, <1>3 DEF ReconfPart
<1>7. n \in Nat \ {0} /\ insts \in Seq(Inner) /\ MaxSegments \in Nat
  BY <1>1, <1>2, BoundsAssumption DEF Facts, Shape
<1>8. /\ Len(insts') = n + 1 /\ insts'[n + 1] = NewLoglet
      /\ \A i \in 1..n : insts'[i] = insts[i]
  BY <1>3, <1>5, <1>7, NewLogletType, AppendProperties
<1>9. UNCHANGED <<chain, acked, issued, trimTo>> /\ trimTo \in Nat
  BY <1>1, <1>3, BoundsAssumption DEF historyVars, Shape, Position
<1> HIDE DEF n
<1>10. StraightInv'
  <2>1. /\ DOMAIN loglets = 0..(n - 1) /\ \A id \in DOMAIN loglets : loglets[id] = id + 1
        /\ \A i \in 1..n : chain[i].id = i - 1
    BY <1>1, <1>5 DEF StraightInv, n
  <2>2. DOMAIN loglets' = DOMAIN loglets \cup {n}
    BY <1>3, <1>6
  <2>3. (0..(n - 1)) \cup {n} = 0..n
    BY <1>7
  <2>4. DOMAIN loglets' = 0..(Len(insts') - 1)
    <3>1. n + 1 - 1 = n
      BY <1>7
    <3> QED BY <1>8, <2>1, <2>2, <2>3, <3>1
  <2>5. \A id \in DOMAIN loglets' : loglets'[id] = id + 1
    BY <1>3, <1>5, <1>6, <2>1, <2>2
  <2>6. Len(insts') = Len(chain') + 1 /\ Len(insts') <= MaxSegments + 1
    BY <1>6, <1>7, <1>8, <1>9 DEF n
  <2> QED BY <1>9, <2>1, <2>4, <2>5, <2>6 DEF StraightInv, n
<1>11. Proceed(t)
  BY DEF Proceed
<1>12. AnyInv'
  BY <1>1, <1>11, AnyNext DEF Next
<1>13. \A i \in 1..n : SegTail(i)' = SegTail(i)
  BY <1>8, <1>9 DEF SegTail
<1>14. LogTail' = LogTail /\ Len(chain') = n /\ n \in 1..n
  BY <1>7, <1>8, <1>9 DEF LogTail, SegTail, n
<1>15. TilesInv'
  <2>1. \A i \in 1..(n - 1) : i \in 1..n
    BY <1>7
  <2>2. \A i \in 1..(n - 1) :
          insts'[i].sealed /\ chain'[i].end = SegTail(i)' /\ chain'[i + 1].start = SegTail(i)'
    BY <1>1, <1>8, <1>9, <1>13, <2>1 DEF TilesInv, n
  <2>3. \A i, j \in 1..n : i < j => SegTail(i)' <= chain'[j].start
    BY <1>1, <1>9, <1>13 DEF TilesInv, n
  <2> QED BY <1>14, <2>2, <2>3 DEF TilesInv
<1>16. AckedInv'
  <2>1. \A r \in acked : \E i \in 1..n : Kept(i, r)'
    <3>1. \A i \in 1..n : \A r : Kept(i, r) => Kept(i, r)'
      BY <1>8, <1>9, <1>13 DEF Kept
    <3> QED BY <1>1, <3>1 DEF AckedInv, n
  <2> QED BY <1>1, <1>9, <1>14, <2>1 DEF AckedInv
<1>17. TrimInv'
  BY <1>1, <1>8, <1>9, <1>14 DEF TrimInv, n
<1>18. Grows
  <2>1. \A i \in 1..n : InnerGrows(insts[i], insts[i])
    BY <1>2, <1>5, InnerOps DEF Facts
  <2> QED BY <1>5, <1>7, <1>8, <1>9, <2>1 DEF Grows, n
<1>19. pc'[t] = "write_chain" /\ local'[t] = local[t]
  BY <1>1, <1>3 DEF Goto, Shape
<1>20. ReconfPart(t)'
  <2>1. insts'[Len(chain')].sealed
    BY <1>1, <1>3, <1>8, <1>14 DEF ReconfPart, n
  <2>2. Len(insts') = Len(chain') + 1 /\ insts'[Len(chain') + 1] = NewLoglet
    BY <1>8, <1>14
  <2> QED BY <1>1, <1>3, <1>9, <1>14, <1>19, <2>1, <2>2 DEF ReconfPart, Appending, Installing
<1>21. TaskPart(t)'
  BY <1>19, <1>20 DEF TaskPart, SegmentPart, TrimmerPart
<1>22. MetaInv'
  BY <1>19 DEF MetaInv, Installing
<1> QED BY <1>5, <1>10, <1>11, <1>15, <1>16, <1>17, <1>18, <1>21, <1>22, OneRest DEF LogInv

(* The cached chain gets its new segment: it starts at the tail of the log, *)
(* where the sealed segment before it is closed, and its loglet is empty.   *)
LEMMA OneWriteChain ==
  ASSUME OneInv, OneAppender, NEW t \in Task, WriteChain(t)
  PROVE  OneInv'
<1> DEFINE n == Len(chain)
           tail == LogTail
<1>1. /\ AnyInv /\ Shape /\ StraightInv /\ TilesInv /\ AckedInv /\ TrimInv /\ ReconfPart(t)
      /\ HasActive(chain)
  BY DEF OneInv, AnyInv, LogInv, TaskInv, TaskPart, BackedInv, ChainPart, Sound
<1>2. Facts
  BY <1>1, FactsHold
<1>3. /\ pc[t] = "write_chain" /\ chain' = local[t].chain /\ Goto(t, "write_version")
      /\ UNCHANGED <<meta, chainVersion, loglets, insts, local, result, historyVars, known>>
  BY DEF WriteChain, InstallChain
<1>4. Appending(t)
  BY <1>1, <1>3, RebuildingAppends DEF Rebuilding
<1>5. t \in Appenders
  BY <1>1, <1>4 DEF AnyInv, CallInv, CallPart, Appending
<1>6. /\ chain' = Extend(chain, tail, n) /\ insts[n].sealed /\ n < MaxSegments
      /\ Len(insts) = n + 1 /\ insts[n + 1] = NewLoglet /\ tail <= issued
  BY <1>1, <1>3, <1>4 DEF ReconfPart
<1>7. n \in Nat \ {0} /\ chain \in Seq(Seg) /\ tail \in Nat \ {0} /\ n \in 1..n
      /\ chain[n] \in Seg /\ chain[n].end = NoEnd /\ chain[n].start \in Nat
  <2>1. n \in Nat \ {0} /\ chain \in Seq(Seg) /\ tail \in Nat \ {0} /\ chain[n].end = NoEnd
    BY <1>1, <1>2 DEF Facts, Shape
  <2>2. n \in 1..n
    BY <2>1
  <2> QED BY <1>2, <2>1, <2>2 DEF Facts
<1>8. /\ Len(chain') = n + 1
      /\ \A i \in 1..(n - 1) : chain'[i] = chain[i]
      /\ chain'[n] = [chain[n] EXCEPT !.end = tail]
      /\ chain'[n + 1] = Segment(n, tail)
  <2>1. n \in Nat
    BY <1>7
  <2> HIDE DEF tail
  <2> QED BY <1>1, <1>6, <1>7, <2>1, Extended
<1>9. UNCHANGED <<insts, acked, issued, trimTo>> /\ trimTo \in Nat /\ issued \in Nat
  BY <1>1, <1>3, BoundsAssumption DEF historyVars, Shape, Position
<1>10. tail = chain[n].start + Len(insts[n].entries) /\ SegTail(n) = tail
  BY DEF LogTail, SegTail
<1> HIDE DEF n, tail
<1>11. /\ chain'[n].start = chain[n].start /\ chain'[n].id = chain[n].id /\ chain'[n].end = tail
       /\ chain'[n + 1].id = n /\ chain'[n + 1].start = tail /\ chain'[n + 1].end = NoEnd
  BY <1>7, <1>8 DEF Seg, Segment
<1>12. \A i \in 1..n : i = n \/ i \in 1..(n - 1)
  BY <1>7
<1>13. \A i \in 1..n : chain'[i].start = chain[i].start /\ chain'[i].id = chain[i].id
  BY <1>8, <1>11, <1>12
<1>14. \A i \in 1..n : SegTail(i)' = SegTail(i)
  BY <1>9, <1>13 DEF SegTail
<1>15. insts'[n + 1].entries = <<>> /\ insts'[n + 1].trim_pos = 1
  <2>1. NewLoglet = [entries |-> <<>>, sealed |-> FALSE, trim_pos |-> 1]
    BY DEF NewLoglet
  <2> QED BY <1>6, <1>9, <2>1
<1>16. LogTail' = tail
  <2>1. LogTail' = chain'[n + 1].start + Len(insts'[n + 1].entries)
    BY <1>8 DEF LogTail, SegTail
  <2>2. Len(insts'[n + 1].entries) = 0
    BY <1>15
  <2> QED BY <1>7, <1>11, <2>1, <2>2
<1>17. \A i \in 1..(n + 1) : i \in 1..n \/ i = n + 1
  BY <1>7
<1>18. StraightInv'
  <2>1. /\ DOMAIN loglets = 0..(Len(insts) - 1) /\ \A id \in DOMAIN loglets : loglets[id] = id + 1
        /\ \A i \in 1..n : chain[i].id = i - 1
        /\ Len(insts) <= MaxSegments + 1
    BY <1>1 DEF StraightInv, n
  <2>2. ASSUME NEW i \in 1..(n + 1) PROVE chain'[i].id = i - 1
    <3>1. CASE i \in 1..n
      BY <1>13, <2>1, <3>1
    <3>2. CASE i = n + 1
      BY <1>7, <1>11, <3>2
    <3> QED BY <1>17, <3>1, <3>2
  <2>3. Len(insts') = Len(chain')
    BY <1>6, <1>8, <1>9
  <2> QED BY <1>3, <1>8, <1>9, <2>1, <2>2, <2>3 DEF StraightInv
<1>19. Proceed(t)
  BY DEF Proceed
<1>20. AnyInv'
  BY <1>1, <1>19, AnyNext DEF Next
<1>21. Facts'
  BY <1>18, <1>20, FactsHold, PTL
<1>22. Grows
  <2>1. \A i \in 1..Len(insts) : InnerGrows(insts[i], insts[i])
    BY <1>2, InnerOps DEF Facts
  <2>2. \A i \in 1..n : chain[i].end # NoEnd => chain'[i].end = chain[i].end
    BY <1>7, <1>8, <1>12
  <2>3. n <= Len(chain') /\ Len(insts) <= Len(insts')
    BY <1>6, <1>7, <1>8, <1>9
  <2> QED BY <1>9, <1>13, <2>1, <2>2, <2>3 DEF Grows, n
<1>23. TilesInv'
  <2>0. \A i \in 1..(n + 1 - 1) : i \in 1..n
    BY <1>7
  <2>1. ASSUME NEW i \in 1..(n + 1 - 1)
        PROVE  insts'[i].sealed /\ chain'[i].end = SegTail(i)' /\ chain'[i + 1].start = SegTail(i)'
    <3>1. CASE i = n
      <4>1. SegTail(i)' = tail
        BY <1>10, <1>14, <2>0, <3>1
      <4> QED BY <1>6, <1>9, <1>11, <3>1, <4>1
    <3>2. CASE i # n
      <4>1. i \in 1..(n - 1) /\ i + 1 \in 1..n /\ i \in 1..n
        BY <1>7, <3>2
      <4>2. insts[i].sealed /\ chain[i].end = SegTail(i) /\ chain[i + 1].start = SegTail(i)
        BY <1>1, <4>1 DEF TilesInv, n
      <4>3. chain'[i] = chain[i] /\ chain'[i + 1].start = chain[i + 1].start
            /\ SegTail(i)' = SegTail(i)
        BY <1>8, <1>13, <1>14, <4>1
      <4> QED BY <1>9, <4>2, <4>3
    <3> QED BY <3>1, <3>2
  <2>2. \A i, j \in 1..n : i < j => SegTail(i) <= chain[j].start
    BY <1>1 DEF TilesInv, n
  <2>3. ASSUME NEW i \in 1..n PROVE SegTail(i) <= tail
    <3>1. CASE i = n
      BY <1>7, <1>10, <3>1
    <3>2. CASE i # n
      <4>1. i < n
        BY <1>7, <3>2
      <4>2. SegTail(i) <= chain[n].start
        BY <1>7, <2>2, <4>1
      <4>3. SegTail(i) \in Nat /\ Len(insts[n].entries) \in Nat
        <5>1. n \in 1..Len(insts)
          BY <1>6, <1>7
        <5> QED BY <1>2, <5>1 DEF Facts, n
      <4> QED BY <1>7, <1>10, <4>2, <4>3
    <3> QED BY <3>1, <3>2
  <2>4. ASSUME NEW i \in 1..(n + 1), NEW j \in 1..(n + 1), i < j
        PROVE  SegTail(i)' <= chain'[j].start
    <3>1. i \in 1..n
      BY <1>7, <2>4
    <3>2. CASE j \in 1..n
      BY <1>13, <1>14, <2>2, <2>4, <3>1, <3>2
    <3>3. CASE j = n + 1
      BY <1>11, <1>14, <2>3, <3>1, <3>3
    <3> QED BY <1>17, <3>2, <3>3
  <2>5. Len(chain') = n + 1
    BY <1>8
  <2>6. ASSUME NEW i \in 1..(Len(chain') - 1)
        PROVE  insts'[i].sealed /\ chain'[i].end = SegTail(i)' /\ chain'[i + 1].start = SegTail(i)'
    <3>1. i \in 1..(n + 1 - 1)
      BY <1>7, <2>5
    <3> QED BY <2>1, <3>1
  <2>7. \A i, j \in 1..Len(chain') : i < j => SegTail(i)' <= chain'[j].start
    BY <2>4, <2>5
  <2> QED BY <2>6, <2>7 DEF TilesInv
<1>24. AckedInv'
  <2>1. \A r \in acked : \E i \in 1..Len(chain') : Kept(i, r)'
    <3>1. acked \subseteq Record
      BY <1>1 DEF Shape
    <3> QED BY <1>1, <1>2, <1>21, <1>22, <3>1, KeptGrows DEF AckedInv
  <2>2. LogTail' = LogTail
    BY <1>16 DEF tail
  <2> QED BY <1>1, <1>9, <2>1, <2>2 DEF AckedInv
<1>25. TrimInv'
  <2> SUFFICES ASSUME NEW i \in 1..(n + 1), insts'[i].trim_pos > 1
               PROVE  chain'[i].start + insts'[i].trim_pos - 1 <= trimTo'
    BY <1>8 DEF TrimInv
  <2>1. i \in 1..n
    <3>1. ~(1 > 1)
      OBVIOUS
    <3> QED BY <1>15, <1>17, <3>1
  <2> QED BY <1>1, <1>9, <1>13, <2>1 DEF TrimInv, n
<1>26. pc'[t] = "write_version" /\ local'[t] = local[t]
  BY <1>1, <1>3 DEF Goto, Shape
<1>27. ReconfPart(t)'
  <2>1. LogTail' <= issued'
    BY <1>6, <1>9, <1>16
  <2> QED BY <1>1, <1>3, <1>26, <2>1 DEF ReconfPart, Appending, Installing
<1>28. TaskPart(t)'
  BY <1>26, <1>27 DEF TaskPart, SegmentPart, TrimmerPart
<1>29. MetaInv'
  BY <1>6, <1>8, <1>9, <1>26 DEF MetaInv, Installing
<1> QED BY <1>5, <1>18, <1>19, <1>22, <1>23, <1>24, <1>25, <1>28, <1>29, OneRest DEF LogInv

-------------------------------------------------------------------------------
(* The invariant *)

LEMMA OneInit == Init => OneInv
<1> SUFFICES ASSUME Init PROVE OneInv
  OBVIOUS
<1>1. AnyInv
  BY AnyInit
<1>2. Len(chain) = 1 /\ chain[1] = [id |-> 0, start |-> 1, end |-> NoEnd]
  BY NewChainIs DEF Init, Segment
<1>3. insts = <<NewLoglet>> /\ NewLoglet = [entries |-> <<>>, sealed |-> FALSE, trim_pos |-> 1]
  BY DEF Init, NewLoglet
<1>4. /\ Len(insts) = 1 /\ insts[1].entries = <<>> /\ insts[1].trim_pos = 1
      /\ Len(insts[1].entries) = 0
  BY <1>3
<1>5. LogTail = 1
  BY <1>2, <1>4 DEF LogTail, SegTail
<1>6. StraightInv
  <2>1. DOMAIN loglets = {0} /\ loglets[0] = 1
    BY DEF Init
  <2>2. {0} = 0..(1 - 1)
    OBVIOUS
  <2> QED BY <1>2, <1>4, <2>1, <2>2, BoundsAssumption DEF StraightInv
<1>7. TilesInv
  BY <1>2 DEF TilesInv
<1>8. AckedInv
  <2>1. acked = {} /\ issued = 0
    BY DEF Init
  <2>2. IsFiniteSet({}) /\ Cardinality({}) = 0
    BY FS_EmptySet
  <2> QED BY <1>5, <2>1, <2>2 DEF AckedInv
<1>9. TrimInv
  BY <1>2, <1>4 DEF TrimInv
<1>10. \A t \in Task : pc[t] = "idle" /\ local[t] = NoLocals
  BY DEF Init
<1>11. MetaInv
  BY <1>2, <1>4 DEF MetaInv, Init
<1>12. TaskInv
  BY <1>10 DEF TaskInv, TaskPart, ReconfPart, SegmentPart, TrimmerPart, Appending, Installing,
                NoLocals
<1> QED BY <1>1, <1>6, <1>7, <1>8, <1>9, <1>11, <1>12 DEF OneInv, LogInv

LEMMA OneNext ==
  ASSUME OneAppender, OneInv, [Next]_vars
  PROVE  OneInv'
<1>1. CASE Next
  <2>1. PICK t \in Task : Invoke(t) \/ Proceed(t)
    BY <1>1 DEF Next
  <2>2. CASE Invoke(t)
    BY <2>2, OneBegin, OneBeginRead, OneBeginTrim DEF Invoke
  <2>3. CASE Proceed(t)
    BY <2>3, OneBegin, OneGetLoglet, OneAppendOk, OneAppendSealed, OneReturn, OneSeal,
       OneReconfigureSeal, OneReadVersion, OneReadChain, OneCas, NeverSyncs, OneInsertLoglet,
       OneWriteChain, OneWriteVersion, OneTrimSegment DEF Proceed
  <2> QED BY <2>1, <2>2, <2>3
<1>2. CASE UNCHANGED vars
  <2>1. UNCHANGED <<meta, chain, chainVersion, loglets, insts, pc, local, result, issued, seals,
                    trimTo, acked, known>>
    BY <1>2 DEF vars, logVars, historyVars
  <2>2. AnyInv'
    BY AnyNext, <1>2 DEF OneInv
  <2>3. LogInv'
    BY <2>1 DEF OneInv, LogInv, StraightInv, TilesInv, AckedInv, TrimInv, MetaInv, LogTail,
                SegTail, Kept, Installing
  <2>4. TaskInv'
    <3> SUFFICES ASSUME NEW t \in Task PROVE TaskPart(t)'
      BY DEF TaskInv
    <3>1. TaskPart(t)
      BY DEF OneInv, TaskInv
    <3>2. ReconfPart(t)'
      BY <2>1, <3>1 DEF TaskPart, ReconfPart, LogTail, SegTail, Appending, Installing
    <3>3. SegmentPart(t)'
      BY <2>1, <3>1 DEF TaskPart, SegmentPart, LogTail, SegTail, Kept, Gone, Appending
    <3>4. TrimmerPart(t)'
      BY <2>1, <3>1 DEF TaskPart, TrimmerPart, LogTail, SegTail, Kept, Gone, CopyOf, ToVisit,
                        Installing
    <3> QED BY <3>2, <3>3, <3>4 DEF TaskPart
  <2> QED BY <2>2, <2>3, <2>4 DEF OneInv
<1> QED BY <1>1, <1>2

(* The invariant behind the theorems below: with one appending task, at     *)
(* every point of a reconfiguration (virtual_log.rs:119-164) the segments   *)
(* tile the log, the acknowledged appends fill it without a gap, and the    *)
(* position and loglet a suspended read, check_tail, append or trim holds   *)
(* still lead to its entries.                                               *)
THEOREM OneInvariance == OneAppender => (Spec => []OneInv)
<1> SUFFICES ASSUME OneAppender PROVE Spec => []OneInv
  OBVIOUS
<1>1. Init => OneInv
  BY OneInit
<1>2. OneInv /\ [Next]_vars => OneInv'
  BY OneNext
<1> QED BY <1>1, <1>2, PTL DEF Spec

-------------------------------------------------------------------------------
(* What the invariant says of the states *)

(* A read of an acknowledged append finds it, or that it was trimmed. *)
LEMMA ReadsKept ==
  ASSUME OneInv, NEW i \in 1..Len(chain), NEW r \in Record, Kept(i, r)
  PROVE  /\ LogletRead(insts[i], GlobalToLocal(chain[i].start, r.pos)) =
              IF Gone(i, r) THEN ReadTrimmed ELSE [tag |-> "entry", entry |-> r.entry]
         /\ HasSegment(chain, r.pos)
         /\ ReadNow(r.pos) = LogletRead(insts[i], GlobalToLocal(chain[i].start, r.pos))
         /\ Gone(i, r) => r.pos < trimTo
<1> DEFINE p == r.pos - chain[i].start + 1
<1>1. AnyInv /\ Shape /\ StraightInv /\ TilesInv /\ TrimInv
  BY DEF OneInv, AnyInv, LogInv
<1>2. Facts
  BY <1>1, FactsHold
<1>3. i \in 1..Len(insts)
  <2>1. Len(chain) \in Nat /\ Len(insts) \in Nat /\ Len(chain) <= Len(insts)
    BY <1>2 DEF Facts
  <2> QED BY <2>1
<1>4. /\ chain[i].start \in Nat \ {0} /\ Len(insts[i].entries) \in Nat
      /\ insts[i].trim_pos \in Nat /\ loglets[i - 1] = i
  BY <1>2, <1>3 DEF Facts
<1>5. /\ r.pos \in Nat /\ chain[i].start <= r.pos /\ r.pos < SegTail(i)
      /\ GlobalToLocal(chain[i].start, r.pos) = p
      /\ p < insts[i].trim_pos \/ insts[i].entries[p] = r.entry
      /\ Gone(i, r) <=> p < insts[i].trim_pos
  BY DEF Kept, Gone, Record, GlobalToLocal
<1>6. p \in Nat \ {0} /\ p < LogletTail(insts[i]) /\ LogletTail(insts[i]) \in Nat
      /\ r.pos = chain[i].start + p - 1
  <2>1. r.pos < chain[i].start + Len(insts[i].entries)
    BY <1>5 DEF SegTail
  <2>2. LogletTail(insts[i]) = Len(insts[i].entries) + 1
    BY DEF LogletTail
  <2>3. ASSUME NEW a \in Nat \ {0}, NEW b \in Nat, NEW c \in Nat, a <= b, b < a + c
        PROVE  /\ b - a + 1 \in Nat \ {0} /\ b - a + 1 < c + 1 /\ c + 1 \in Nat
               /\ b = a + (b - a + 1) - 1
    BY <2>3
  <2>4. /\ chain[i].start \in Nat \ {0} /\ r.pos \in Nat /\ Len(insts[i].entries) \in Nat
        /\ chain[i].start <= r.pos
    BY <1>4, <1>5
  <2>5. /\ p \in Nat \ {0} /\ p < Len(insts[i].entries) + 1
        /\ Len(insts[i].entries) + 1 \in Nat /\ r.pos = chain[i].start + p - 1
    BY <2>1, <2>3, <2>4
  <2> HIDE DEF p
  <2> QED BY <2>2, <2>5
<1> HIDE DEF p
<1>7. LogletRead(insts[i], p) = IF Gone(i, r) THEN ReadTrimmed
                                ELSE [tag |-> "entry", entry |-> r.entry]
  <2>1. ~(p >= LogletTail(insts[i]))
    BY <1>6
  <2> QED BY <1>5, <2>1 DEF LogletRead
<1>8. HasSegment(chain, r.pos) /\ FindSegment(chain, r.pos) = chain[i]
  BY <1>1, SegmentOf
<1>9. ReadNow(r.pos) = LogletRead(insts[i], p)
  <2>1. chain[i].id = i - 1
    BY <1>1 DEF StraightInv
  <2> QED BY <1>4, <1>5, <1>8, <2>1 DEF ReadNow
<1>10. Gone(i, r) => r.pos < trimTo
  <2> SUFFICES ASSUME Gone(i, r) PROVE r.pos < trimTo
    OBVIOUS
  <2>1. p < insts[i].trim_pos
    BY <1>5
  <2>2. insts[i].trim_pos > 1
    BY <1>4, <1>6, <2>1
  <2>3. chain[i].start + insts[i].trim_pos - 1 <= trimTo
    BY <1>1, <2>2 DEF TrimInv
  <2>4. trimTo \in Nat
    BY <1>1, BoundsAssumption DEF Shape, Position
  <2>5. ASSUME NEW a \in Nat, NEW b \in Nat, NEW c \in Nat, NEW d \in Nat, b < c,
               a + c - 1 <= d
        PROVE  a + b - 1 < d
    BY <2>5
  <2>6. chain[i].start \in Nat /\ p \in Nat /\ insts[i].trim_pos \in Nat
    BY <1>4, <1>6
  <2>7. chain[i].start + p - 1 < trimTo
    BY <2>1, <2>3, <2>4, <2>5, <2>6
  <2>8. r.pos = chain[i].start + p - 1
    BY <1>6
  <2> QED BY <2>7, <2>8
<1> QED BY <1>5, <1>7, <1>8, <1>9, <1>10

(* MetaStore's chain is the cached one, or the cached one as the            *)
(* reconfiguration under way extends it.                                    *)
LEMMA MetaChain ==
  ASSUME OneInv
  PROVE  \/ meta.chain = chain
         \/ /\ meta.chain = Extend(chain, LogTail, Len(chain))
            /\ insts[Len(chain)].sealed /\ Len(chain) < MaxSegments
<1>1. CASE \A t \in Task : ~Installing(t)
  <2>1. meta = [chain |-> chain, version |-> chainVersion]
    BY <1>1 DEF OneInv, LogInv, MetaInv
  <2> QED BY <2>1
<1>2. CASE \E t \in Task : Installing(t)
  <2>1. PICK t \in Task : Installing(t)
    BY <1>2
  <2>2. ReconfPart(t)
    BY DEF OneInv, TaskInv, TaskPart
  <2>3. meta.chain = local[t].chain
    BY <2>1, <2>2 DEF ReconfPart
  <2> QED BY <2>1, <2>2, <2>3 DEF ReconfPart, Installing
<1> QED BY <1>1, <1>2

(* No segment starts or ends above the tail of the log. *)
LEMMA Tails ==
  ASSUME OneInv
  PROVE  /\ LogTail \in Position
         /\ \A i \in 1..Len(chain) :
              /\ SegTail(i) \in Position /\ SegTail(i) <= LogTail /\ chain[i].start \in Position
              /\ chain[i].end \in {NoEnd, SegTail(i)}
<1>1. AnyInv /\ Shape /\ StraightInv /\ TilesInv /\ AckedInv
  BY DEF OneInv, AnyInv, LogInv
<1>2. Facts
  BY <1>1, FactsHold
<1>3. /\ Len(chain) \in Nat \ {0} /\ LogTail \in Nat \ {0} /\ LogTail - 1 <= issued
      /\ issued \in 0..MaxAppends
  BY <1>1, <1>2 DEF Facts, Shape, AckedInv
<1>4. LogTail <= MaxAppends + 1
  BY <1>3, BoundsAssumption
<1>5. ASSUME NEW i \in 1..Len(chain)
      PROVE  /\ SegTail(i) \in Position /\ SegTail(i) <= LogTail /\ chain[i].start \in Position
             /\ chain[i].end \in {NoEnd, SegTail(i)}
  <2>1. i \in 1..Len(insts)
    <3>1. Len(insts) \in Nat /\ Len(chain) <= Len(insts)
      BY <1>2 DEF Facts
    <3> QED BY <1>3, <3>1
  <2>2. /\ chain[i].start \in Nat \ {0} /\ SegTail(i) \in Nat \ {0}
        /\ Len(insts[i].entries) \in Nat
    BY <1>2, <2>1 DEF Facts
  <2>3. chain[i].start <= SegTail(i)
    BY <2>2 DEF SegTail
  <2>4. CASE i = Len(chain)
    <3>1. SegTail(i) = LogTail /\ chain[i].end = NoEnd
      BY <1>2, <2>4 DEF LogTail, Facts
    <3> QED BY <1>3, <1>4, <2>2, <2>3, <3>1, BoundsAssumption DEF Position
  <2>5. CASE i # Len(chain)
    <3>1. i \in 1..(Len(chain) - 1) /\ i < Len(chain) /\ Len(chain) \in 1..Len(chain)
      BY <1>3, <2>5
    <3>2. SegTail(i) <= chain[Len(chain)].start /\ chain[i].end = SegTail(i)
      BY <1>1, <3>1 DEF TilesInv
    <3>3. chain[Len(chain)].start \in Nat /\ chain[Len(chain)].start <= LogTail
      <4>1. Len(chain) \in 1..Len(insts)
        BY <1>2 DEF Facts
      <4>2. chain[Len(chain)].start \in Nat /\ Len(insts[Len(chain)].entries) \in Nat
        BY <1>2, <3>1, <4>1 DEF Facts
      <4> QED BY <4>2 DEF LogTail, SegTail
    <3>4. SegTail(i) <= LogTail
      BY <1>3, <2>2, <3>2, <3>3
    <3> QED BY <1>3, <1>4, <2>2, <2>3, <3>2, <3>4, BoundsAssumption DEF Position
  <2> QED BY <2>4, <2>5
<1> QED BY <1>3, <1>4, <1>5, BoundsAssumption DEF Position

(* What is behind a segment of the cached chain. *)
LEMMA ClosedOnes ==
  ASSUME OneInv, NEW i \in 1..Len(chain), NEW seg, seg.id = i - 1,
         seg.start = chain[i].start, seg.end # NoEnd => seg.end = SegTail(i) /\ insts[i].sealed
  PROVE  ClosedAtItsTail(seg)
<1>1. AnyInv /\ StraightInv
  BY DEF OneInv, LogInv
<1>2. Facts
  BY <1>1, FactsHold
<1>3. i \in 1..Len(insts)
  <2>1. Len(chain) \in Nat /\ Len(insts) \in Nat /\ Len(chain) <= Len(insts)
    BY <1>2 DEF Facts
  <2> QED BY <2>1
<1>4. /\ chain[i].start \in Nat /\ Len(insts[i].entries) \in Nat /\ loglets[i - 1] = i
  BY <1>2, <1>3 DEF Facts
<1>5. LocalToGlobal(seg.start, LogletTail(insts[i])) = SegTail(i)
  BY <1>4 DEF LocalToGlobal, LogletTail, SegTail
<1>6. loglets[seg.id] = i
  BY <1>4
<1> QED BY <1>5, <1>6 DEF ClosedAtItsTail

LEMMA MetaTiles ==
  ASSUME OneInv, NEW ch \in {meta.chain, chain}
  PROVE  /\ \A i \in 1..(Len(ch) - 1) : ch[i].end = ch[i + 1].start
         /\ \A i \in DOMAIN ch : ch[i].id \in DOMAIN loglets => ClosedAtItsTail(ch[i])
         /\ \A i \in DOMAIN ch :
              ch[i] \in [id : 0..MaxSegments, start : Position, end : Position \cup {NoEnd}]
<1> DEFINE n == Len(chain)
           tail == LogTail
           T == [id : 0..MaxSegments, start : Position, end : Position \cup {NoEnd}]
<1>1. AnyInv /\ Shape /\ StraightInv /\ TilesInv /\ HasActive(chain)
  BY DEF OneInv, AnyInv, LogInv, BackedInv, ChainPart, Sound
<1>2. Facts
  BY <1>1, FactsHold
<1>3. /\ n \in Nat \ {0} /\ Len(insts) \in Nat /\ n <= Len(insts) /\ Len(insts) <= MaxSegments + 1
      /\ DOMAIN chain = 1..n /\ chain \in Seq(Seg)
  BY <1>1, <1>2 DEF Facts, StraightInv, Shape
<1>4. /\ tail \in Position /\ tail = SegTail(n)
      /\ \A i \in 1..n :
           /\ SegTail(i) \in Position /\ chain[i].start \in Position
           /\ chain[i].end \in {NoEnd, SegTail(i)} /\ chain[i] \in Seg /\ chain[i].id = i - 1
  BY <1>1, <1>2, Tails DEF Facts, StraightInv, LogTail
<1>5. chain[n].end = NoEnd
  BY <1>2 DEF Facts
<1>6. \A i \in 1..(n - 1) :
        insts[i].sealed /\ chain[i].end = SegTail(i) /\ chain[i + 1].start = SegTail(i)
  BY <1>1 DEF TilesInv
<1> HIDE DEF n, tail
<1>7. \A i \in 1..n : i = n \/ i \in 1..(n - 1)
  BY <1>3
<1>8. \A i \in 1..n : i - 1 \in 0..MaxSegments
  BY <1>3, BoundsAssumption
<1>9. ASSUME NEW i \in 1..n PROVE ClosedAtItsTail(chain[i]) /\ chain[i] \in T
  <2>1. chain[i].end # NoEnd => chain[i].end = SegTail(i) /\ insts[i].sealed
    BY <1>5, <1>6, <1>7
  <2>2. ClosedAtItsTail(chain[i])
    BY <1>4, <2>1, ClosedOnes DEF n
  <2>3. chain[i] \in T
    BY <1>4, <1>8 DEF Seg
  <2> QED BY <2>2, <2>3
<1>10. CASE ch = chain
  <2>1. \A i \in 1..(n - 1) : chain[i].end = chain[i + 1].start
    BY <1>6
  <2> QED BY <1>3, <1>9, <1>10, <2>1 DEF n
<1>11. CASE ch # chain
  <2>1. ch = Extend(chain, tail, n) /\ insts[n].sealed /\ n < MaxSegments
    BY <1>11, MetaChain DEF n, tail
  <2>2. tail \in Nat \ {0}
    BY <1>4, BoundsAssumption DEF Position
  <2>3. /\ ch \in Seq(Seg) /\ Len(ch) = n + 1
        /\ \A i \in 1..(n - 1) : ch[i] = chain[i]
        /\ ch[n] = [chain[n] EXCEPT !.end = tail]
        /\ ch[n + 1] = Segment(n, tail)
    BY <1>1, <1>3, <2>1, <2>2, Extended DEF n
  <2>4. n \in 1..n /\ chain[n] \in Seg
    BY <1>3, <1>4
  <2>5. /\ ch[n].start = chain[n].start /\ ch[n].end = tail /\ ch[n].id = n - 1
        /\ ch[n + 1].id = n /\ ch[n + 1].start = tail /\ ch[n + 1].end = NoEnd
    BY <1>4, <2>3, <2>4 DEF Seg, Segment
  <2>6. DOMAIN ch = 1..(n + 1) /\ \A i \in 1..(n + 1) : i \in 1..(n - 1) \/ i = n \/ i = n + 1
    BY <1>3, <2>3
  <2>7. ASSUME NEW i \in 1..(Len(ch) - 1) PROVE ch[i].end = ch[i + 1].start
    <3>1. i \in 1..n
      BY <1>3, <2>3
    <3>2. CASE i = n
      BY <2>5, <3>2
    <3>3. CASE i # n
      <4>1. i \in 1..(n - 1) /\ (i + 1 \in 1..(n - 1) \/ i + 1 = n)
        BY <1>3, <3>1, <3>3
      <4>2. ch[i] = chain[i] /\ ch[i + 1].start = chain[i + 1].start
        BY <2>3, <2>5, <4>1
      <4> QED BY <1>6, <4>1, <4>2
    <3> QED BY <3>2, <3>3
  <2>8. ASSUME NEW i \in 1..(n + 1) PROVE ClosedAtItsTail(ch[i]) /\ ch[i] \in T
    <3>1. CASE i \in 1..(n - 1)
      <4>1. i \in 1..n /\ ch[i] = chain[i]
        BY <1>3, <2>3, <3>1
      <4> QED BY <1>9, <4>1
    <3>2. CASE i = n
      <4>1. ClosedAtItsTail(ch[n])
        BY <1>4, <2>1, <2>4, <2>5, ClosedOnes DEF n
      <4>2. ch[n] \in Seg
        BY <2>3, <2>4, <2>6, ElementOfSeq
      <4>3. ch[n] \in T
        BY <1>4, <1>8, <2>4, <2>5, <4>2 DEF Seg
      <4> QED BY <3>2, <4>1, <4>3
    <3>3. CASE i = n + 1
      <4>1. ClosedAtItsTail(ch[n + 1])
        BY <2>5 DEF ClosedAtItsTail
      <4>2. n \in 0..MaxSegments
        BY <1>3, <2>1, BoundsAssumption
      <4>3. ch[n + 1] \in T
        BY <1>4, <2>3, <4>2 DEF Segment
      <4> QED BY <3>3, <4>1, <4>3
    <3> QED BY <2>6, <3>1, <3>2, <3>3
  <2> QED BY <2>6, <2>7, <2>8
<1> QED BY <1>10, <1>11

(* What a call must take into account was acknowledged. *)
KnownInv == \A t \in Task : known[t] \subseteq acked

LEMMA KnownNext ==
  ASSUME AnyInv, KnownInv, [Next]_vars
  PROVE  KnownInv'
<1>1. CASE UNCHANGED vars
  BY <1>1 DEF vars, historyVars, KnownInv
<1>2. CASE Next
  <2>1. PICK t \in Task : Invoke(t) \/ Proceed(t)
    BY <1>2 DEF Next
  <2>2. Shape /\ known \in [Task -> SUBSET Record]
    BY DEF AnyInv, Shape
  <2>3. acked \subseteq acked'
    BY <2>1 DEF Invoke, Proceed, BeginAppend, BeginSeal, BeginCheckTail, BeginRead, BeginTrim,
                GetChainAgain, GetLoglet, AppendOk, AppendSealed, CheckTail, Seal,
                ReconfigureSeal, ReadVersion, ReadChain, CasSucceeds, CasFails, InsertLoglet,
                SyncRead, SyncInsert, WriteChain, WriteVersion, ReadLoglet, TrimSegment,
                TrimReturns, historyVars
  <2>4. known'[t] \subseteq acked \/ known'[t] = known[t]
    <3>1. ASSUME NEW res, Return(t, res) PROVE known'[t] = {}
      BY <2>2, <3>1 DEF Return
    <3>2. ASSUME NEW x, GetChain(t, x) PROVE known'[t] = {} \/ known'[t] = acked \/ known'[t] = known[t]
      <4>1. CASE HasActive(chain)
        BY <2>2, <3>2, <4>1 DEF GetChain
      <4>2. CASE ~HasActive(chain)
        BY <3>1, <3>2, <4>2 DEF GetChain, Internal
      <4> QED BY <4>1, <4>2
    <3>3. CASE BeginAppend(t) \/ BeginSeal(t) \/ BeginCheckTail(t) \/ GetChainAgain(t)
      BY <3>2, <3>3 DEF BeginAppend, BeginSeal, BeginCheckTail, GetChainAgain
    <3>4. CASE \/ AppendOk(t) \/ CheckTail(t) \/ Seal(t) \/ ReadLoglet(t) \/ TrimReturns(t)
               \/ GetLoglet(t)
      BY <3>1, <3>4 DEF AppendOk, CheckTail, Seal, ReadLoglet, TrimReturns, GetLoglet, Internal
    <3>5. CASE \/ AppendSealed(t) \/ ReconfigureSeal(t) \/ ReadVersion(t) \/ ReadChain(t)
               \/ CasSucceeds(t) \/ CasFails(t) \/ InsertLoglet(t) \/ SyncRead(t)
               \/ SyncInsert(t) \/ WriteChain(t) \/ WriteVersion(t) \/ TrimSegment(t)
      BY <3>5 DEF AppendSealed, ReconfigureSeal, ReadVersion, ReadChain, CasSucceeds, CasFails,
                  InsertLoglet, SyncRead, SyncInsert, WriteChain, WriteVersion, TrimSegment
    <3>6. ASSUME NEW p \in Position, BeginRead(t, p) PROVE known'[t] \subseteq acked
      <4>1. CASE HasSegment(chain, p)
        BY <2>2, <3>6, <4>1 DEF BeginRead
      <4>2. CASE ~HasSegment(chain, p)
        BY <3>1, <3>6, <4>2 DEF BeginRead, Internal
      <4> QED BY <4>1, <4>2
    <3>7. ASSUME NEW p \in Position, BeginTrim(t, p) PROVE known'[t] \subseteq acked
      BY <2>2, <3>7 DEF BeginTrim
    <3> QED BY <2>1, <3>3, <3>4, <3>5, <3>6, <3>7 DEF Invoke, Proceed
  <2>5. \A u \in Task : u # t => known'[u] = known[u]
    BY <2>1, <2>2, Framed DEF Same
  <2> QED BY <2>3, <2>4, <2>5 DEF KnownInv
<1> QED BY <1>1, <1>2

LEMMA KnownInvariance == Spec => []KnownInv
<1>1. Init => KnownInv
  BY DEF Init, KnownInv
<1>2. AnyInv /\ KnownInv /\ [Next]_vars => KnownInv'
  BY KnownNext
<1> QED BY <1>1, <1>2, AnyInvariance, PTL DEF Spec

-------------------------------------------------------------------------------
(* The safety properties *)

(* Whatever the interleaving of one appending task with seals, reads and    *)
(* trims, an append that returned Ok is what a read of its position finds   *)
(* from then on, or it was trimmed: also between the steps of a             *)
(* reconfiguration (virtual_log.rs:83-97, 119-164).                         *)
THEOREM AckedStaysReadable == OneAppender => (Spec => []AckedReadable)
<1> SUFFICES ASSUME OneAppender PROVE Spec => []AckedReadable
  OBVIOUS
<1>1. ASSUME OneInv PROVE AckedReadable
  <2> SUFFICES ASSUME NEW r \in acked
               PROVE  /\ HasSegment(chain, r.pos)
                      /\ ReadNow(r.pos) \in {ReadTrimmed, [tag |-> "entry", entry |-> r.entry]}
    BY DEF AckedReadable
  <2>1. r \in Record
    BY <1>1 DEF OneInv, AnyInv, Shape
  <2>2. PICK i \in 1..Len(chain) : Kept(i, r)
    BY <1>1 DEF OneInv, LogInv, AckedInv
  <2> QED BY <1>1, <2>1, <2>2, ReadsKept
<1>2. OneInv => AckedReadable
  BY <1>1
<1> QED BY <1>2, OneInvariance, PTL

(* Nothing reads as trimmed that no trim asked for, however stale the copy  *)
(* of the chain a trim works through (virtual_log.rs:100-117).              *)
THEOREM OnlyTrimsTrim == OneAppender => (Spec => []TrimmedOnlyBelow)
<1> SUFFICES ASSUME OneAppender PROVE Spec => []TrimmedOnlyBelow
  OBVIOUS
<1>1. ASSUME OneInv PROVE TrimmedOnlyBelow
  <2> SUFFICES ASSUME NEW r \in acked, ReadNow(r.pos) = ReadTrimmed PROVE r.pos < trimTo
    BY DEF TrimmedOnlyBelow
  <2>1. r \in Record
    BY <1>1 DEF OneInv, AnyInv, Shape
  <2>2. PICK i \in 1..Len(chain) : Kept(i, r)
    BY <1>1 DEF OneInv, LogInv, AckedInv
  <2>3. /\ ReadNow(r.pos) = IF Gone(i, r) THEN ReadTrimmed
                            ELSE [tag |-> "entry", entry |-> r.entry]
        /\ Gone(i, r) => r.pos < trimTo
    BY <1>1, <2>1, <2>2, ReadsKept
  <2>4. ReadTrimmed # [tag |-> "entry", entry |-> r.entry]
    <3>1. ReadTrimmed.tag = "trimmed" /\ [tag |-> "entry", entry |-> r.entry].tag = "entry"
      BY DEF ReadTrimmed
    <3> QED BY <3>1
  <2> QED BY <2>3, <2>4
<1>2. OneInv => TrimmedOnlyBelow
  BY <1>1
<1> QED BY <1>2, OneInvariance, PTL

(* The chain in MetaStore and the cached one tile the log at every point of *)
(* a reconfiguration, and a closed segment ends at the final tail of its    *)
(* sealed loglet (virtual_log.rs:125-136, chain.rs:50-63).                  *)
THEOREM SegmentsTile == OneAppender => (Spec => []ChainTiles)
<1> SUFFICES ASSUME OneAppender PROVE Spec => []ChainTiles
  OBVIOUS
<1>1. ASSUME OneInv PROVE ChainTiles
  <2>1. HasActive(meta.chain) /\ HasActive(chain)
    BY <1>1 DEF OneInv, AnyInv, BackedInv, ChainPart, Sound
  <2>2. ASSUME NEW ch \in {meta.chain, chain}
        PROVE  /\ \A i \in 1..(Len(ch) - 1) : ch[i].end = ch[i + 1].start
               /\ \A i \in DOMAIN ch : ch[i].id \in DOMAIN loglets => ClosedAtItsTail(ch[i])
    BY <1>1, MetaTiles
  <2> QED BY <2>1, <2>2 DEF ChainTiles
<1>2. OneInv => ChainTiles
  BY <1>1
<1> QED BY <1>2, OneInvariance, PTL

(* When no reconfiguration is between its compare-and-swap and its last     *)
(* local write, the cache is MetaStore's (virtual_log.rs:142-161, 167-181). *)
THEOREM CacheIsCoherent == OneAppender => (Spec => []CacheCoherent)
<1> SUFFICES ASSUME OneAppender PROVE Spec => []CacheCoherent
  OBVIOUS
<1>1. ASSUME OneInv PROVE CacheCoherent
  <2> SUFFICES ASSUME \A t \in Task : ~Reconfiguring(t)
               PROVE  /\ chain = meta.chain /\ chainVersion = meta.version
                      /\ \A i \in DOMAIN chain : chain[i].id \in DOMAIN loglets
    BY DEF CacheCoherent
  <2>1. \A t \in Task : ~Installing(t)
    BY DEF Reconfiguring, Installing
  <2>2. meta = [chain |-> chain, version |-> chainVersion]
    BY <1>1, <2>1 DEF OneInv, LogInv, MetaInv
  <2> QED BY <1>1, <2>2 DEF OneInv, AnyInv, BackedInv, ChainPart, Ids
<1>2. OneInv => CacheCoherent
  BY <1>1
<1> QED BY <1>2, OneInvariance, PTL

(* Types and bounds: with one appender the chain never grows past the       *)
(* bound, no position is above the appends that were started, and a trim    *)
(* point stays within the positions a trim may ask for                      *)
(* (virtual_log.rs:58-164).                                                 *)
THEOREM TypeCorrect == OneAppender => (Spec => []TypeOK)
<1> SUFFICES ASSUME OneAppender PROVE Spec => []TypeOK
  OBVIOUS
<1>1. ASSUME OneInv, KnownInv PROVE TypeOK
  <2> DEFINE n == Len(chain)
             R == [pos : Position, entry : Entry]
  <2>1. AnyInv /\ Shape /\ StraightInv /\ TrimInv /\ AckedInv /\ MetaInv
    BY <1>1 DEF OneInv, AnyInv, LogInv
  <2>2. Facts
    BY <2>1, FactsHold
  <2>3. /\ n \in Nat \ {0} /\ Len(insts) \in Nat /\ Len(insts) <= MaxSegments + 1
        /\ DOMAIN loglets = 0..(Len(insts) - 1) /\ Len(insts) \in {n, n + 1}
    BY <2>1, <2>2 DEF Facts, StraightInv
  <2>4. \A seg \in ToSet(meta.chain) \cup ToSet(chain) :
          seg \in [id : 0..MaxSegments, start : Position, end : Position \cup {NoEnd}]
    BY <1>1, MetaTiles DEF ToSet
  <2>5. DOMAIN loglets \subseteq 0..MaxSegments
    BY <2>3, BoundsAssumption
  <2>6. ASSUME NEW k \in 1..Len(insts) PROVE insts[k].trim_pos \in 1..(MaxAppends + 1)
    <3>1. CASE k \in 1..n
      <4>1. chain[k].start \in Nat \ {0} /\ insts[k].trim_pos \in Nat \ {0}
        BY <2>2, <3>1 DEF Facts
      <4>2. insts[k].trim_pos > 1 => chain[k].start + insts[k].trim_pos - 1 <= trimTo
        BY <2>1, <3>1 DEF TrimInv
      <4>3. trimTo \in 1..(MaxAppends + 1)
        BY <2>1 DEF Shape, Position
      <4> QED BY <4>1, <4>2, <4>3, BoundsAssumption
    <3>2. CASE k \notin 1..n
      <4>1. Len(insts) = n + 1 /\ k = n + 1
        BY <2>3, <3>2
      <4>2. PICK t \in Task : pc[t] = "write_chain"
        BY <2>1, <2>3, <4>1 DEF MetaInv
      <4>3. insts[k] = NewLoglet
        BY <1>1, <4>1, <4>2 DEF OneInv, TaskInv, TaskPart, ReconfPart
      <4>4. NewLoglet.trim_pos = 1
        BY DEF NewLoglet
      <4> QED BY <4>3, <4>4, BoundsAssumption
    <3> QED BY <3>1, <3>2
  <2>7. acked \subseteq R
    <3>1. LogTail \in Position /\ acked \subseteq Record /\ \A r \in acked : r.pos < LogTail
      BY <1>1, <2>1, Tails DEF Shape, AckedInv
    <3>2. \A r \in Record : r.pos < LogTail => r \in R
      BY <3>1, BoundsAssumption DEF Record, Position
    <3> QED BY <3>1, <3>2
  <2>8. known \in [Task -> SUBSET R]
    <3>1. known \in [Task -> SUBSET Record] /\ \A t \in Task : known[t] \subseteq R
      BY <1>1, <2>1, <2>7 DEF Shape, KnownInv
    <3> HIDE DEF R
    <3> QED BY <3>1
  <2>9. \A id \in DOMAIN loglets : loglets[id] \in 1..Len(insts)
    BY <2>1 DEF Shape
  <2>10. \A k \in 1..Len(insts) :
           insts[k].entries \in Seq(Entry \cup {NoEntry}) /\ insts[k].sealed \in BOOLEAN
    BY <2>2 DEF Facts
  <2>11. /\ meta.version \in Nat /\ chainVersion \in Nat /\ pc \in [Task -> Labels]
         /\ issued \in 0..MaxAppends /\ seals \in 0..MaxSeals /\ trimTo \in Position
    BY <2>1 DEF Shape
  <2> QED BY <2>4, <2>5, <2>6, <2>7, <2>8, <2>9, <2>10, <2>11 DEF TypeOK, Labels
<1>2. OneInv /\ KnownInv => TypeOK
  BY <1>1
<1> QED BY <1>2, OneInvariance, KnownInvariance, PTL

-------------------------------------------------------------------------------
(* What the calls return *)

(* The steps with which a call ends. *)
LEMMA CallEnded ==
  ASSUME AnyInv, [Next]_vars, NEW t \in Task, pc[t] # "idle", pc'[t] = "idle"
  PROVE  AppendOk(t) \/ CheckTail(t) \/ Seal(t) \/ ReadLoglet(t) \/ TrimReturns(t)
<1>1. Shape /\ ChainPart /\ CallPart(t) /\ pc \in [Task -> Labels]
  BY DEF AnyInv, BackedInv, CallInv, Shape
<1>2. ~UNCHANGED vars
  BY DEF vars
<1>3. PICK u \in Task : Invoke(u) \/ Proceed(u)
  BY <1>2 DEF Next
<1>4. u = t
  BY <1>1, <1>3, Framed DEF Same
<1>5. ~Invoke(t)
  BY DEF Invoke, BeginAppend, BeginSeal, BeginCheckTail, BeginRead, BeginTrim
<1>6. ~GetChainAgain(t)
  <2>1. local[t] \in Locals
    BY <1>1 DEF Shape
  <2> QED BY <1>1, <2>1, GotChain DEF GetChainAgain
<1>7. ~GetLoglet(t)
  BY <1>1 DEF GetLoglet, CallPart, Goto
<1>8. ~ \/ AppendSealed(t) \/ ReconfigureSeal(t) \/ ReadVersion(t) \/ ReadChain(t)
        \/ CasSucceeds(t) \/ CasFails(t) \/ InsertLoglet(t) \/ SyncRead(t)
        \/ SyncInsert(t) \/ WriteChain(t) \/ WriteVersion(t) \/ TrimSegment(t)
  BY <1>1 DEF AppendSealed, ReconfigureSeal, ReadVersion, ReadChain, CasSucceeds, CasFails,
              InsertLoglet, SyncRead, SyncInsert, WriteChain, WriteVersion, TrimSegment, Goto
<1> QED BY <1>3, <1>4, <1>5, <1>6, <1>7, <1>8 DEF Proceed

LEMMA CallsEnd ==
  ASSUME AnyInv, [Next]_vars, NEW t \in Task
  PROVE  /\ CallEnds(t, "read") => ReadLoglet(t)
         /\ CallEnds(t, "check_tail") => CheckTail(t)
         /\ CallEnds(t, "trim") => TrimReturns(t)
<1>1. result \in [Task -> Results]
  BY DEF AnyInv, Shape
<1>2. ASSUME NEW op, NEW tag, NEW pos, NEW entry, Return(t, Res(op, tag, pos, entry))
      PROVE  result'[t].op = op
  BY <1>1, <1>2 DEF Return, Res
<1>3. /\ AppendOk(t) => result'[t].op = "append"
      /\ CheckTail(t) => result'[t].op = "check_tail"
      /\ Seal(t) => result'[t].op = "seal"
      /\ ReadLoglet(t) => result'[t].op = "read"
      /\ TrimReturns(t) => result'[t].op = "trim"
  BY <1>2 DEF AppendOk, CheckTail, Seal, ReadLoglet, TrimReturns, Internal
<1>4. pc[t] # "idle" /\ pc'[t] = "idle" =>
        AppendOk(t) \/ CheckTail(t) \/ Seal(t) \/ ReadLoglet(t) \/ TrimReturns(t)
  BY CallEnded
<1> QED BY <1>3, <1>4 DEF CallEnds

(* A read of a position that was acknowledged before the read began returns *)
(* its entry, or Trimmed, although segments and loglets may change between  *)
(* its lock on the chain and its lock on the map (virtual_log.rs:83-97).    *)
THEOREM ReadsReturnAcked == OneAppender => (Spec => ReadsFindAcked)
<1> SUFFICES ASSUME OneAppender PROVE Spec => ReadsFindAcked
  OBVIOUS
<1> DEFINE Finds(t) == \/ result'[t].tag = "trimmed"
                       \/ [pos |-> result'[t].pos, entry |-> result'[t].entry] \in known[t]
<1>1. ASSUME OneInv, [Next]_vars, NEW t \in Task, CallEnds(t, "read"), known[t] # {}
      PROVE  Finds(t)
  <2>1. AnyInv /\ Shape /\ StraightInv /\ SegmentPart(t)
    BY <1>1 DEF OneInv, AnyInv, LogInv, TaskInv, TaskPart
  <2>2. ReadLoglet(t) /\ pc[t] = "read_loglet"
    BY <1>1, <2>1, CallsEnd DEF ReadLoglet
  <2>3. Facts
    BY <2>1, FactsHold
  <2>4. /\ local[t].id \in 0..(Len(chain) - 1) /\ Len(chain) \in Nat
        /\ local[t].pos = GlobalToLocal(chain[local[t].id + 1].start, result[t].pos)
        /\ \A r \in known[t] : r.pos = result[t].pos /\ Kept(local[t].id + 1, r)
    BY <2>1, <2>2, <2>3 DEF SegmentPart, Facts
  <2>5. PICK i \in 1..Len(chain) : i = local[t].id + 1
    BY <2>4
  <2>6. PICK r \in known[t] : TRUE
    BY <1>1
  <2>7. r \in Record
    BY <2>1 DEF Shape
  <2>8. local[t].id = i - 1
    BY <2>4, <2>5
  <2>9. local[t].id \in DOMAIN loglets /\ loglets[local[t].id] = i
    BY <2>3, <2>8 DEF Facts
  <2>10. r.pos = result[t].pos /\ Kept(i, r) /\ local[t].pos = GlobalToLocal(chain[i].start, r.pos)
    BY <2>4, <2>5
  <2> DEFINE found == LogletRead(insts[i], local[t].pos)
  <2>11. found = IF Gone(i, r) THEN ReadTrimmed ELSE [tag |-> "entry", entry |-> r.entry]
    BY <1>1, <2>7, <2>10, ReadsKept
  <2>12. Return(t, Res("read", found.tag, result[t].pos, found.entry))
    BY <2>2, <2>9 DEF ReadLoglet
  <2> HIDE DEF found
  <2>13. /\ result'[t].tag = found.tag /\ result'[t].pos = r.pos /\ result'[t].entry = found.entry
    BY <2>1, <2>10, <2>12 DEF Return, Res, Shape
  <2>14. CASE Gone(i, r)
    BY <2>11, <2>13, <2>14 DEF ReadTrimmed
  <2>15. CASE ~Gone(i, r)
    <3>1. found.entry = r.entry
      BY <2>11, <2>15
    <3>2. r = [pos |-> r.pos, entry |-> r.entry]
      BY <2>7 DEF Record
    <3> QED BY <2>6, <2>13, <3>1, <3>2
  <2> QED BY <2>14, <2>15
<1>2. OneInv /\ [Next]_vars =>
        [\A t \in Task : CallEnds(t, "read") /\ known[t] # {} => Finds(t)]_vars
  BY <1>1
<1> QED BY <1>2, OneInvariance, PTL DEF Spec, ReadsFindAcked

(* check_tail returns a position above every append acknowledged before the *)
(* call and not above the first free one, although its segment may be       *)
(* sealed and closed under it (virtual_log.rs:76-80).                       *)
THEOREM CheckTailCurrent == OneAppender => (Spec => CheckTailIsCurrent)
<1> SUFFICES ASSUME OneAppender PROVE Spec => CheckTailIsCurrent
  OBVIOUS
<1> DEFINE Current(t) == /\ \A r \in known[t] : r.pos < result'[t].pos
                         /\ \A p \in 1..(result'[t].pos - 1) : \E r \in acked : r.pos = p
<1>1. ASSUME OneInv, [Next]_vars, NEW t \in Task, CallEnds(t, "check_tail")
      PROVE  Current(t)
  <2>1. AnyInv /\ Shape /\ AckedInv /\ SegmentPart(t)
    BY <1>1 DEF OneInv, AnyInv, LogInv, TaskInv, TaskPart
  <2>2. CheckTail(t) /\ pc[t] = "on_loglet" /\ local[t].mode = "check_tail"
    BY <1>1, <2>1, CallsEnd DEF CheckTail
  <2>3. PICK i \in 1..Len(chain) :
          /\ i = local[t].inst /\ i = local[t].id + 1
          /\ LocalToGlobal(local[t].start, LogletTail(insts[i])) = SegTail(i)
    BY <1>1, <2>2, OnLoglet
  <2>4. Return(t, Res("check_tail", "ok", SegTail(i), NoEntry))
    BY <2>2, <2>3 DEF CheckTail
  <2>5. result'[t].pos = SegTail(i)
    BY <2>1, <2>4 DEF Return, Res, Shape
  <2>6. \A r \in known[t] : r.pos < SegTail(i)
    BY <2>1, <2>2, <2>3 DEF SegmentPart
  <2>7. SegTail(i) \in Nat /\ LogTail \in Nat /\ SegTail(i) <= LogTail
    BY <1>1, Tails, BoundsAssumption DEF Position
  <2>8. \A p \in 1..(SegTail(i) - 1) : p \in 1..(LogTail - 1)
    BY <2>7
  <2>9. \A p \in 1..(LogTail - 1) : \E r \in acked : r.pos = p
    BY <2>1 DEF AckedInv
  <2> QED BY <2>5, <2>6, <2>8, <2>9
<1>2. OneInv /\ [Next]_vars => [\A t \in Task : CallEnds(t, "check_tail") => Current(t)]_vars
  BY <1>1
<1> QED BY <1>2, OneInvariance, PTL DEF Spec, CheckTailIsCurrent

(* A trim that returns Ok has trimmed every entry below its position that   *)
(* was acknowledged before it began, in whichever segments they are and     *)
(* however the chain grew meanwhile (virtual_log.rs:100-117).               *)
THEOREM TrimsTakeEffect == OneAppender => (Spec => TrimTakesEffect)
<1> SUFFICES ASSUME OneAppender PROVE Spec => TrimTakesEffect
  OBVIOUS
<1>1. ASSUME OneInv, [Next]_vars, NEW t \in Task, CallEnds(t, "trim"), NEW r \in known[t]
      PROVE  ReadNow(r.pos) = ReadTrimmed
  <2>1. AnyInv /\ Shape /\ TrimmerPart(t)
    BY <1>1 DEF OneInv, AnyInv, TaskInv, TaskPart
  <2>2. pc[t] = "trim" /\ local[t].chain = <<>>
    BY <1>1, <2>1, CallsEnd DEF TrimReturns
  <2>3. r \in Record
    BY <2>1 DEF Shape
  <2>4. \A i : ~ToVisit(t, i)
    BY <2>2 DEF ToVisit
  <2>5. PICK i \in 1..Len(chain) : Gone(i, r)
    BY <2>1, <2>2, <2>4 DEF TrimmerPart
  <2>6. Kept(i, r)
    BY <2>5 DEF Gone
  <2> QED BY <1>1, <2>3, <2>5, <2>6, ReadsKept
<1>2. OneInv /\ [Next]_vars =>
        [\A t \in Task : CallEnds(t, "trim") =>
           \A r \in known[t] : ReadNow(r.pos) = ReadTrimmed]_vars
  BY <1>1
<1> QED BY <1>2, OneInvariance, PTL DEF Spec, TrimTakesEffect

-------------------------------------------------------------------------------
(* The refinement *)

(* The acknowledged appends, in position order, are the whole log. *)
AckedIsLog ==
  /\ AckedPrefix /\ Cardinality(acked) = LogTail - 1 /\ Cardinality(acked) \in Nat
  /\ \A r \in acked : r.pos \in 1..Cardinality(acked) /\ AckedLog[r.pos] = r.entry
  /\ \A p \in 1..Cardinality(acked) : \E r \in acked : r.pos = p
  /\ AckedLog \in Seq(Entry) /\ Len(AckedLog) = Cardinality(acked)

LEMMA LogIs == OneInv => AckedIsLog
<1> SUFFICES ASSUME OneInv PROVE AckedIsLog
  OBVIOUS
<1> DEFINE n == Cardinality(acked)
<1>1. AnyInv /\ Shape /\ AckedInv /\ StraightInv
  BY DEF OneInv, AnyInv, LogInv
<1>2. LogTail \in Nat \ {0}
  BY <1>1, FactsHold DEF Facts
<1>3. /\ n = LogTail - 1 /\ acked \subseteq Record
      /\ \A r \in acked : r.pos < LogTail
      /\ \A p \in 1..(LogTail - 1) : \E r \in acked : r.pos = p
      /\ \A r, q \in acked : r.pos = q.pos => r = q
  BY <1>1 DEF AckedInv, Shape
<1>4. n \in Nat
  BY <1>2, <1>3
<1> HIDE DEF n
<1>5. \A r \in acked : r.pos \in 1..n
  BY <1>2, <1>3, <1>4 DEF Record
<1>6. \A p \in 1..n : \E r \in acked : r.pos = p
  BY <1>3
<1>7. AckedPrefix
  <2>1. {r.pos : r \in acked} = 1..n
    BY <1>5, <1>6
  <2> QED BY <2>1 DEF AckedPrefix, n
<1>8. AckedLog = [p \in 1..n |-> (CHOOSE r \in acked : r.pos = p).entry]
  BY DEF AckedLog, n
<1>9. ASSUME NEW r \in acked PROVE (CHOOSE q \in acked : q.pos = r.pos) = r
  BY <1>3
<1>10. ASSUME NEW r \in acked PROVE AckedLog[r.pos] = r.entry
  BY <1>5, <1>8, <1>9
<1>11. ASSUME NEW p \in 1..n PROVE AckedLog[p] \in Entry
  <2>1. PICK r \in acked : r.pos = p
    BY <1>6
  <2>2. r.entry \in Entry
    BY <1>3 DEF Record
  <2> QED BY <1>10, <2>1, <2>2
<1>12. AckedLog \in Seq(Entry) /\ Len(AckedLog) = n
  <2>1. AckedLog \in [1..n -> Entry]
    BY <1>8, <1>11
  <2> QED BY <1>4, <2>1, LenProperties
<1> QED BY <1>3, <1>4, <1>5, <1>6, <1>7, <1>10, <1>12 DEF n, AckedIsLog

(* Only an append that succeeds is seen above, and it is an append there. *)
LEMMA AppendSeen ==
  ASSUME OneInv, OneInv', NEW e \in Entry,
         acked' = acked \cup {[pos |-> LogTail, entry |-> e]}, LogTail' = LogTail + 1
  PROVE  AckedLog' = Append(AckedLog, e)
<1> DEFINE n == Cardinality(acked)
           new == [pos |-> LogTail, entry |-> e]
<1>1. /\ n = LogTail - 1 /\ n \in Nat
      /\ \A r \in acked : r.pos \in 1..n /\ AckedLog[r.pos] = r.entry
      /\ \A p \in 1..n : \E r \in acked : r.pos = p
      /\ AckedLog \in Seq(Entry) /\ Len(AckedLog) = n
  BY LogIs DEF AckedIsLog
<1>2. /\ Cardinality(acked') = LogTail' - 1
      /\ \A r \in acked' : AckedLog'[r.pos] = r.entry
      /\ AckedLog' \in Seq(Entry) /\ Len(AckedLog') = Cardinality(acked')
  <2>1. AckedIsLog'
    BY LogIs, PTL
  <2> QED BY <2>1 DEF AckedIsLog
<1>3. LogTail \in Nat
  BY Tails, BoundsAssumption DEF Position
<1> HIDE DEF n
<1>4. Len(AckedLog') = n + 1 /\ LogTail = n + 1
  BY <1>1, <1>2, <1>3
<1>5. new.pos = n + 1 /\ new.entry = e /\ new \in acked'
  BY <1>4
<1> HIDE DEF new
<1>6. AckedLog'[n + 1] = e
  BY <1>2, <1>5
<1>7. ASSUME NEW p \in 1..n PROVE AckedLog'[p] = AckedLog[p]
  <2>1. PICK r \in acked : r.pos = p
    BY <1>1
  <2>2. r \in acked'
    OBVIOUS
  <2> QED BY <1>1, <1>2, <2>1, <2>2
<1> DEFINE s == Append(AckedLog, e)
<1>8. /\ s \in Seq(Entry) /\ Len(s) = n + 1 /\ s[n + 1] = e
      /\ \A p \in 1..n : s[p] = AckedLog[p]
  BY <1>1, AppendProperties
<1> HIDE DEF s
<1>9. \A p \in 1..(n + 1) : s[p] = AckedLog'[p]
  <2>1. \A p \in 1..(n + 1) : p \in 1..n \/ p = n + 1
    BY <1>1
  <2> QED BY <1>6, <1>7, <1>8, <2>1
<1>10. s = AckedLog'
  BY <1>2, <1>4, <1>8, <1>9, SeqEqual
<1> QED BY <1>10 DEF s

(* Every other step leaves the acknowledged appends alone. *)
LEMMA Unseen ==
  ASSUME NEW t \in Task, Invoke(t) \/ Proceed(t), ~AppendOk(t)
  PROVE  acked' = acked
  BY DEF Invoke, Proceed, BeginAppend, BeginSeal, BeginCheckTail, BeginRead, BeginTrim,
         GetChainAgain, GetLoglet, AppendSealed, CheckTail, Seal, ReconfigureSeal, ReadVersion,
         ReadChain, CasSucceeds, CasFails, InsertLoglet, SyncRead, SyncInsert, WriteChain,
         WriteVersion, ReadLoglet, TrimSegment, TrimReturns, historyVars

LEMMA TailMoves ==
  ASSUME OneInv, OneInv', NEW t \in Task, AppendOk(t)
  PROVE  LogTail' = LogTail + 1
<1> DEFINE n == Len(chain)
           b == LogletAppend(insts[n], local[t].entry)
<1>1. AnyInv /\ Shape /\ StraightInv
  BY DEF OneInv, AnyInv, LogInv
<1>2. Facts
  BY <1>1, FactsHold
<1>3. n \in 1..n /\ n \in 1..Len(insts)
  <2>1. n \in Nat \ {0} /\ Len(insts) \in Nat /\ n <= Len(insts)
    BY <1>2 DEF Facts
  <2> HIDE DEF n
  <2> QED BY <2>1
<1>4. /\ chain[n].start \in Nat /\ insts[n] \in Inner /\ Len(insts[n].entries) \in Nat
      /\ insts[n].entries \in Seq(Entry \cup {NoEntry})
  BY <1>2, <1>3 DEF Facts
<1>5. local[t].entry \in Entry /\ ~insts[n].sealed /\ Update(n, b) /\ chain' = chain
  BY AppendStep
<1>6. b \in Inner /\ b.entries = Append(insts[n].entries, local[t].entry)
  <2>1. b \in Inner
    BY <1>4, <1>5, LogletTypes
  <2> QED BY <1>4, <1>5, <2>1 DEF LogletAppend, Inner
<1>7. Len(b.entries) = Len(insts[n].entries) + 1
  BY <1>4, <1>5, <1>6, AppendProperties
<1> HIDE DEF b
<1>8. insts'[n] = b
  BY <1>1, <1>3, <1>5, <1>6, Updated
<1>9. LogTail' = chain[n].start + Len(b.entries) /\ LogTail = chain[n].start + Len(insts[n].entries)
  BY <1>5, <1>8 DEF LogTail, SegTail
<1>10. \A x, y, z \in Nat : z = y + 1 => x + z = x + y + 1
  OBVIOUS
<1>11. Len(b.entries) \in Nat
  BY <1>4, <1>7
<1> HIDE DEF n
<1> QED BY <1>4, <1>7, <1>9, <1>10, <1>11

(* The chained loglets are one log, whatever reconfigurations, seals and    *)
(* trims happen: every append takes the next position, with no gap and no   *)
(* overlap at the seams of the segments, and no step ever rewrites one      *)
(* (virtual_log.rs:58-72, 119-164).                                         *)
THEOREM OneLog == OneAppender => (Spec => ImplementsSharedLog)
<1> SUFFICES ASSUME OneAppender PROVE Spec => ImplementsSharedLog
  OBVIOUS
<1> DEFINE lg == IF AckedPrefix THEN AckedLog ELSE <<-1>>
<1>1. Init => S!Init
  <2> SUFFICES ASSUME Init PROVE lg = <<>>
    BY DEF S!Init
  <2>1. acked = {} /\ Cardinality({}) = 0
    BY FS_EmptySet DEF Init
  <2>2. OneInv
    BY OneInit
  <2>3. AckedPrefix /\ AckedLog \in Seq(Entry) /\ Len(AckedLog) = 0
    BY <2>1, <2>2, LogIs DEF AckedIsLog
  <2> QED BY <2>3, EmptySeq
<1>2. ASSUME OneInv, [Next]_vars PROVE S!Next \/ lg' = lg
  <2>1. OneInv'
    BY <1>2, OneNext
  <2>2. AckedPrefix
    BY <1>2, LogIs DEF AckedIsLog
  <2>3. AckedPrefix'
    <3>1. AckedIsLog'
      BY <2>1, LogIs, PTL
    <3> QED BY <3>1 DEF AckedIsLog
  <2>4. lg = AckedLog /\ lg' = AckedLog'
    BY <2>2, <2>3
  <2>5. acked' = acked => lg' = lg
    BY <2>4 DEF AckedLog
  <2>6. CASE \E t \in Task : AppendOk(t)
    <3>1. PICK t \in Task : AppendOk(t)
      BY <2>6
    <3>2. /\ local[t].entry \in Entry
          /\ acked' = acked \cup {[pos |-> LogTail, entry |-> local[t].entry]}
      BY <1>2, <3>1, AppendStep
    <3>3. LogTail' = LogTail + 1
      BY <1>2, <2>1, <3>1, TailMoves
    <3>4. PICK e \in Entry : e = local[t].entry
      BY <3>2
    <3>5. AckedLog' = Append(AckedLog, e)
      BY <1>2, <2>1, <3>2, <3>3, <3>4, AppendSeen
    <3>6. S!Extends(e)
      BY <2>4, <3>5 DEF S!Extends
    <3> QED BY <3>6 DEF S!Next
  <2>7. CASE ~\E t \in Task : AppendOk(t)
    <3>1. CASE UNCHANGED vars
      BY <2>5, <3>1 DEF vars, historyVars
    <3>2. CASE Next
      BY <2>5, <2>7, <3>2, Unseen DEF Next
    <3> QED BY <1>2, <3>1, <3>2
  <2> QED BY <2>6, <2>7
<1>3. OneInv /\ [Next]_vars => [S!Next]_lg
  BY <1>2
<1> QED BY <1>1, <1>3, OneInvariance, PTL DEF Spec, ImplementsSharedLog, S!Spec
================================================================================
