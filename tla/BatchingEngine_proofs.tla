------------------------- MODULE BatchingEngine_proofs -------------------------
(***************************************************************************)
(* Safety of BatchingEngine, proved for every number of callers, batch      *)
(* size, channel capacity and bound.                                        *)
(***************************************************************************)
EXTENDS BatchingEngine, TLAPS, SequenceTheorems, NaturalsInduction, WellFoundedInduction

-------------------------------------------------------------------------------
(* FlattenSeq *)

(* A nonempty set of naturals has a least element: the least index at which *)
(* something fails stands in for induction.                                 *)
LEMMA LeastNat ==
  ASSUME NEW T \in SUBSET Nat, T # {}
  PROVE  \E x \in T : \A y \in T : ~(y < x)
<1> DEFINE R == {ss \in Nat \X Nat : ss[1] < ss[2]}
<1>1. IsWellFoundedOn(R, Nat)
  BY NatLessThanWellFounded DEF OpToRel
<1>2. PICK x \in T : \A y \in T : ~(<<y, x>> \in R)
  <2> HIDE DEF R
  <2> QED BY <1>1, WFMin
<1> QED BY <1>2

(* f[i] is the concatenation of the first i sequences of ss. *)
Joins(f, ss, n) == f = [i \in 1..n |-> IF i = 1 THEN ss[i] ELSE f[i - 1] \o ss[i]]

LEMMA JoinsAt ==
  ASSUME NEW f, NEW ss, NEW n \in Nat, Joins(f, ss, n)
  PROVE  /\ \A i \in 1..n : f[i] = IF i = 1 THEN ss[i] ELSE f[i - 1] \o ss[i]
         /\ \A i \in 1..n : i = 1 \/ i - 1 \in 1..n
<1>1. \A i \in 1..n : f[i] = IF i = 1 THEN ss[i] ELSE f[i - 1] \o ss[i]
  BY DEF Joins
<1>2. \A i \in 1..n : i = 1 \/ i - 1 \in 1..n
  OBVIOUS
<1> QED BY <1>1, <1>2

LEMMA JoinsExist ==
  ASSUME NEW ss, NEW n \in Nat
  PROVE  \E f : Joins(f, ss, n)
<1> DEFINE T == {k \in Nat : ~\E f : Joins(f, ss, k)}
<1> SUFFICES ASSUME T # {} PROVE FALSE
  OBVIOUS
<1>1. PICK x \in T : \A y \in T : ~(y < x)
  BY LeastNat
<1>2. CASE x = 0
  <2>1. Joins([i \in 1..0 |-> ss[i]], ss, 0)
    BY DEF Joins
  <2> QED BY <1>1, <1>2, <2>1
<1>3. CASE x # 0
  <2>1. x - 1 \in Nat /\ x - 1 < x
    BY <1>1, <1>3
  <2>2. PICK f : Joins(f, ss, x - 1)
    BY <1>1, <2>1
  <2> DEFINE g == [i \in 1..x |-> IF i = 1 THEN ss[i] ELSE f[i - 1] \o ss[i]]
  <2>3. ASSUME NEW i \in 1..x, i # 1 PROVE g[i - 1] = f[i - 1]
    <3>1. i - 1 \in 1..x /\ i - 1 \in 1..(x - 1)
      BY <1>1, <2>3
    <3>2. g[i - 1] = IF i - 1 = 1 THEN ss[i - 1] ELSE f[i - 1 - 1] \o ss[i - 1]
      BY <3>1
    <3>3. f[i - 1] = IF i - 1 = 1 THEN ss[i - 1] ELSE f[i - 1 - 1] \o ss[i - 1]
      BY <2>1, <2>2, <3>1, JoinsAt
    <3> QED BY <3>2, <3>3
  <2>4. g = [i \in 1..x |-> IF i = 1 THEN ss[i] ELSE g[i - 1] \o ss[i]]
    <3>1. ASSUME NEW i \in 1..x
          PROVE  (IF i = 1 THEN ss[i] ELSE f[i - 1] \o ss[i]) =
                 (IF i = 1 THEN ss[i] ELSE g[i - 1] \o ss[i])
      <4> HIDE DEF g
      <4> QED BY <2>3
    <3>2. [i \in 1..x |-> IF i = 1 THEN ss[i] ELSE f[i - 1] \o ss[i]] =
          [i \in 1..x |-> IF i = 1 THEN ss[i] ELSE g[i - 1] \o ss[i]]
      <4> HIDE DEF g
      <4> QED BY <3>1, Zenon
    <3> QED BY <3>2, Zenon
  <2>5. Joins(g, ss, x)
    <3> HIDE DEF g
    <3> QED BY <2>4 DEF Joins
  <2> QED BY <1>1, <2>5
<1> QED BY <1>2, <1>3

Agree(s, t, n) == \A i \in 1..n : s[i] = t[i]

LEMMA JoinsAgree ==
  ASSUME NEW ss, NEW tt, NEW n \in Nat, NEW m \in Nat, n <= m,
         Agree(ss, tt, n), NEW f, Joins(f, ss, n), NEW g, Joins(g, tt, m)
  PROVE  Agree(f, g, n)
<1> DEFINE T == {k \in 1..n : f[k] # g[k]}
<1> SUFFICES ASSUME T # {} PROVE FALSE
  BY DEF Agree
<1>0. T \in SUBSET Nat
  OBVIOUS
<1>1. PICK x \in T : \A y \in T : ~(y < x)
  <2> HIDE DEF T
  <2> QED BY <1>0, LeastNat
<1>2. /\ f[x] = IF x = 1 THEN ss[x] ELSE f[x - 1] \o ss[x]
      /\ g[x] = IF x = 1 THEN tt[x] ELSE g[x - 1] \o tt[x]
      /\ ss[x] = tt[x]
  <2>1. x \in 1..n /\ x \in 1..m
    OBVIOUS
  <2> QED BY <2>1, JoinsAt DEF Agree
<1>3. CASE x = 1
  BY <1>2, <1>3
<1>4. CASE x # 1
  <2>1. x - 1 \in 1..n /\ x - 1 < x
    BY <1>1, <1>4
  <2>2. f[x - 1] = g[x - 1]
    BY <1>1, <2>1
  <2> QED BY <1>2, <1>4, <2>2
<1> QED BY <1>3, <1>4

LEMMA FlattenIs ==
  ASSUME NEW S, NEW ss \in Seq(S), Len(ss) # 0
  PROVE  \E f : Joins(f, ss, Len(ss)) /\ FlattenSeq(ss) = f[Len(ss)]
<1> DEFINE f == CHOOSE f : Joins(f, ss, Len(ss))
<1>1. FlattenSeq(ss) = f[Len(ss)]
  BY DEF FlattenSeq, Joins
<1>2. \E g : Joins(g, ss, Len(ss))
  BY JoinsExist, LenProperties
<1>3. Joins(f, ss, Len(ss))
  BY <1>2
<1> QED BY <1>1, <1>3

(* The last sequence is put at the end. *)
LEMMA FlattenAppend ==
  ASSUME NEW S, NEW ss \in Seq(Seq(S)), NEW s \in Seq(S)
  PROVE  FlattenSeq(Append(ss, s)) = FlattenSeq(ss) \o s
<1> DEFINE tt == Append(ss, s)
           n == Len(ss)
<1>1. /\ tt \in Seq(Seq(S)) /\ Len(tt) = n + 1 /\ n \in Nat
      /\ \A i \in 1..n : tt[i] = ss[i]
      /\ tt[n + 1] = s
  BY AppendProperties, LenProperties
<1> HIDE DEF tt
<1>2. PICK g : Joins(g, tt, n + 1) /\ FlattenSeq(tt) = g[n + 1]
  BY <1>1, FlattenIs
<1>3. g[n + 1] = IF n + 1 = 1 THEN s ELSE g[n + 1 - 1] \o s
  <2>1. n + 1 \in Nat /\ n + 1 \in 1..(n + 1)
    BY <1>1
  <2> QED BY <1>1, <1>2, <2>1, JoinsAt
<1>4. CASE n = 0
  <2>1. ss = <<>>
    BY <1>4, EmptySeq
  <2>2. FlattenSeq(ss) = <<>>
    BY <1>4, <2>1, EmptySeq DEF FlattenSeq
  <2>3. <<>> \o s = s
    BY ConcatEmptySeq
  <2> QED BY <1>2, <1>3, <1>4, <2>2, <2>3 DEF tt
<1>5. CASE n # 0
  <2>1. PICK f : Joins(f, ss, n) /\ FlattenSeq(ss) = f[n]
    BY <1>5, FlattenIs
  <2>2. n <= n + 1 /\ n + 1 \in Nat /\ n \in 1..n /\ n + 1 - 1 = n /\ n + 1 # 1
    BY <1>1, <1>5
  <2>3. f[n] = g[n]
    <3> HIDE DEF n
    <3>1. Agree(ss, tt, n)
      BY <1>1 DEF Agree
    <3>2. PICK m \in Nat : m = n + 1 /\ n <= m /\ n \in Nat
      BY <1>1, <2>2
    <3>3. Joins(f, ss, n) /\ Joins(g, tt, m)
      BY <1>2, <2>1, <3>2
    <3>4. Agree(f, g, n)
      BY <3>1, <3>2, <3>3, JoinsAgree
    <3> QED BY <2>2, <3>4 DEF Agree
  <2> QED BY <1>2, <1>3, <2>1, <2>2, <2>3 DEF tt
<1> QED BY <1>4, <1>5

LEMMA JoinedElements ==
  ASSUME NEW S, NEW s \in Seq(S), NEW t \in Seq(S)
  PROVE  s \o t \in Seq(S) /\ ToSet(s \o t) = ToSet(s) \cup ToSet(t)
<1> DEFINE m == Len(s)
           n == Len(t)
           u == s \o t
<1>1. /\ u \in Seq(S) /\ Len(u) = m + n /\ m \in Nat /\ n \in Nat
      /\ DOMAIN s = 1..m /\ DOMAIN t = 1..n
      /\ \A i \in 1..(m + n) : u[i] = IF i <= m THEN s[i] ELSE t[i - m]
  BY ConcatProperties, LenProperties
<1> HIDE DEF m, n, u
<1>2. DOMAIN u = 1..(m + n)
  BY <1>1
<1>3. ASSUME NEW x \in ToSet(s) PROVE x \in ToSet(u)
  <2>1. PICK i \in 1..m : x = s[i]
    BY <1>1, <1>3 DEF ToSet
  <2>2. i \in 1..(m + n) /\ i <= m
    BY <1>1
  <2> QED BY <1>1, <1>2, <2>1, <2>2 DEF ToSet
<1>4. ASSUME NEW x \in ToSet(t) PROVE x \in ToSet(u)
  <2>1. PICK i \in 1..n : x = t[i]
    BY <1>1, <1>4 DEF ToSet
  <2>2. i + m \in 1..(m + n) /\ ~(i + m <= m) /\ i + m - m = i
    BY <1>1
  <2>3. u[i + m] = t[i]
    BY <1>1, <2>2
  <2> QED BY <1>2, <2>1, <2>2, <2>3 DEF ToSet
<1>5. ASSUME NEW x \in ToSet(u) PROVE x \in ToSet(s) \cup ToSet(t)
  <2>1. PICK i \in 1..(m + n) : x = u[i]
    BY <1>2, <1>5 DEF ToSet
  <2>2. CASE i <= m
    <3>1. i \in 1..m
      BY <2>2, <1>1
    <3> QED BY <1>1, <2>1, <2>2, <3>1 DEF ToSet
  <2>3. CASE ~(i <= m)
    <3>1. i - m \in 1..n
      BY <2>3, <1>1
    <3> QED BY <1>1, <2>1, <2>3, <3>1 DEF ToSet
  <2> QED BY <2>2, <2>3
<1> QED BY <1>1, <1>3, <1>4, <1>5 DEF u

(* The elements of the concatenation are those of the sequences. *)
LEMMA FlattenElements ==
  ASSUME NEW S, NEW ss \in Seq(Seq(S))
  PROVE  /\ FlattenSeq(ss) \in Seq(S)
         /\ ToSet(FlattenSeq(ss)) = {x \in S : \E i \in 1..Len(ss) : x \in ToSet(ss[i])}
<1> DEFINE Upto(k) == {x \in S : \E i \in 1..k : x \in ToSet(ss[i])}
           n == Len(ss)
<1>0. n \in Nat /\ \A i \in 1..n : ss[i] \in Seq(S)
  BY LenProperties, ElementOfSeq
<1>1. CASE n = 0
  <2>1. ss = <<>>
    BY <1>1, EmptySeq
  <2>2. FlattenSeq(ss) = <<>>
    BY <1>1, <2>1 DEF FlattenSeq
  <2>3. <<>> \in Seq(S) /\ ToSet(<<>>) = {}
    BY EmptySeq DEF ToSet
  <2> QED BY <1>1, <2>2, <2>3
<1>2. CASE n # 0
  <2>1. PICK f : Joins(f, ss, n) /\ FlattenSeq(ss) = f[n]
    BY <1>2, FlattenIs
  <2> DEFINE T == {k \in 1..n : ~(f[k] \in Seq(S) /\ ToSet(f[k]) = Upto(k))}
  <2>2. T = {}
    <3> SUFFICES ASSUME T # {} PROVE FALSE
      OBVIOUS
    <3>1. T \in SUBSET Nat
      BY <1>0
    <3>2. PICK x \in T : \A y \in T : ~(y < x)
      <4> HIDE DEF T
      <4> QED BY <3>1, LeastNat
    <3>3. f[x] = IF x = 1 THEN ss[x] ELSE f[x - 1] \o ss[x]
      BY <1>0, <2>1, JoinsAt
    <3>4. ss[x] \in Seq(S) /\ x \in 1..n
      BY <1>0
    <3>5. CASE x = 1
      <4>1. \A y \in ToSet(ss[1]) : y \in S
        BY <3>4, <3>5 DEF ToSet
      <4>2. Upto(1) = ToSet(ss[1])
        BY <4>1
      <4> QED BY <3>3, <3>4, <3>5, <4>2
    <3>6. CASE x # 1
      <4>1. x - 1 \in 1..n /\ x - 1 < x
        BY <1>0, <3>4, <3>6
      <4>2. f[x - 1] \in Seq(S) /\ ToSet(f[x - 1]) = Upto(x - 1)
        BY <3>2, <4>1
      <4>3. f[x] \in Seq(S) /\ ToSet(f[x]) = ToSet(f[x - 1]) \cup ToSet(ss[x])
        BY <3>3, <3>4, <3>6, <4>2, JoinedElements
      <4>4. \A y \in ToSet(ss[x]) : y \in S
        BY <3>4 DEF ToSet
      <4>5. \A i : i \in 1..x <=> i \in 1..(x - 1) \/ i = x
        BY <3>4, <3>6
      <4>6. Upto(x) = Upto(x - 1) \cup ToSet(ss[x])
        BY <4>4, <4>5
      <4> QED BY <4>2, <4>3, <4>6
    <3> QED BY <3>5, <3>6
  <2>3. n \in 1..n
    BY <1>0, <1>2
  <2>4. f[n] \in Seq(S) /\ ToSet(f[n]) = Upto(n)
    BY <2>2, <2>3
  <2> QED BY <2>1, <2>4
<1> QED BY <1>1, <1>2

-------------------------------------------------------------------------------
(* The inductive invariant *)

Serving == life \in {"up", "dropped"}
Working == {"queued", "play"}

(* What the engine below has in hand. An entry it was given to propose is   *)
(* at its target once it is appended.                                       *)
DownInv ==
  /\ down \in [stage : {"idle", "queued", "play"}, op : {"none", "propose", "sync"},
               entry : [batched : BOOLEAN, count : Nat, payloads : Seq(Nat)], target : Nat]
  /\ down.stage = "idle" \/ down.op # "none"
  /\ down.target <= Len(log)
  /\ down.op = "propose" => down.entry \in LogEntry /\ down.entry.payloads # <<>>
  /\ down.stage = "play" /\ down.op = "propose" =>
       down.target >= 1 /\ log[down.target] = down.entry

(* Where the flush loop is, and what it holds there. *)
LoopInv ==
  /\ phase # "recv" => Serving /\ pending = <<>> /\ down.stage \in Working
  /\ phase = "recv" => batch = <<>> /\ syncReq = NoReq /\ (Serving => down.stage = "idle")
  /\ phase = "flush" => /\ batch # <<>> /\ down.op = "propose"
                        /\ down.entry.payloads = Payloads(batch)
  /\ phase = "sync" => batch = <<>> /\ down.op = "sync" /\ syncReq # NoReq
  /\ syncReq # NoReq => syncReq.op = "sync"
  /\ ~Serving => queue = <<>> /\ pending = <<>>
  /\ \A i \in 1..Len(pending) : pending[i].op = "propose"
  /\ \A i \in 1..Len(batch) : batch[i].op = "propose"
  /\ Len(pending) < MaxBatch \/ pending = <<>>

(* All that waits for an answer, in the order it was sent. *)
Held == IF syncReq = NoReq THEN <<>> ELSE <<syncReq>>
Line == batch \o (Held \o (pending \o queue))

(* A request in line is of a caller that waits for it; its proposal was not *)
(* sent before any call behind it.                                          *)
LinePart(i) ==
  /\ Line[i].op # "none"
  /\ Line[i].op = "sync" => Line[i].payload = 0
  /\ Line[i].op = "propose" => Line[i].payload \in local
  /\ Line[i].to \in Client =>
       /\ pc[Line[i].to] = "waiting"
       /\ result[Line[i].to] = Res(Line[i].op, "pending", Line[i].payload)
       /\ Line[i].payload \notin known[Line[i].to]
PairPart(i, j) ==
  /\ Line[i].op = "propose" /\ Line[j].op = "propose" => Line[i].payload < Line[j].payload
  /\ Line[i].to \in Client =>
       Line[j].to # Line[i].to /\ Line[j].payload \notin known[Line[i].to]
LineInv ==
  /\ \A i \in 1..Len(Line) : LinePart(i)
  /\ \A i, j \in 1..Len(Line) : i < j => PairPart(i, j)
  /\ \A c \in Client : pc[c] = "waiting" => result[c].tag = "pending"
  /\ \A c \in Client : known[c] \subseteq local
  /\ local \subseteq 1..proposed

(* Local payloads in the log are below those still to be appended, in the   *)
(* hands of the engine below or in line.                                    *)
Queued == down.stage = "queued" /\ down.op = "propose"
Ahead(x) ==
  /\ Queued => \A m \in 1..Len(down.entry.payloads) : x < down.entry.payloads[m]
  /\ \A j \in (Len(batch) + 1)..Len(Line) : Line[j].op = "propose" => x < Line[j].payload
DownOrder ==
  down.op = "propose" =>
    /\ \A k \in 1..Len(down.entry.payloads) : down.entry.payloads[k] \in local
    /\ \A k, m \in 1..Len(down.entry.payloads) :
         k < m => down.entry.payloads[k] < down.entry.payloads[m]
LogInv ==
  /\ \A i \in 1..Len(log) : \A k \in 1..Len(log[i].payloads) :
       /\ log[i].payloads[k] <= proposed
       /\ log[i].payloads[k] \in local => Ahead(log[i].payloads[k])
  /\ DownOrder
  /\ LoggedOnceInOrder

(* What is appended behind the target of a sync was not sent before it. *)
BarrierInv ==
  phase = "sync" /\ down.stage = "play" /\ syncReq.to \in Client =>
    \A i \in (down.target + 1)..Len(log) : \A k \in 1..Len(log[i].payloads) :
      log[i].payloads[k] \notin known[syncReq.to]

Inv == TypeOK /\ DownInv /\ LoopInv /\ LineInv /\ LogInv /\ BatchesAreAtomic /\ BarrierInv

-------------------------------------------------------------------------------
(* The line *)

(* s is a, b, c and d, one after the other. *)
FollowsIn(s, a, b, c, d) ==
  /\ Len(s) = Len(a) + (Len(b) + (Len(c) + Len(d)))
  /\ \A i \in 1..Len(a) : s[i] = a[i]
  /\ \A i \in 1..Len(b) : s[Len(a) + i] = b[i]
  /\ \A i \in 1..Len(c) : s[Len(a) + Len(b) + i] = c[i]
  /\ \A i \in 1..Len(d) : s[Len(a) + Len(b) + Len(c) + i] = d[i]
  /\ \A i \in 1..Len(s) : \/ i \in 1..Len(a)
                          \/ \E k \in 1..Len(b) : i = Len(a) + k
                          \/ \E k \in 1..Len(c) : i = Len(a) + Len(b) + k
                          \/ \E k \in 1..Len(d) : i = Len(a) + Len(b) + Len(c) + k

LEMMA FourJoined ==
  ASSUME NEW S, NEW a \in Seq(S), NEW b \in Seq(S), NEW c \in Seq(S), NEW d \in Seq(S),
         NEW s, s = a \o (b \o (c \o d))
  PROVE  s \in Seq(S) /\ FollowsIn(s, a, b, c, d)
<1>0. Len(a) \in Nat /\ Len(b) \in Nat /\ Len(c) \in Nat /\ Len(d) \in Nat
  BY LenProperties
<1>1. /\ c \o d \in Seq(S) /\ Len(c \o d) = Len(c) + Len(d)
      /\ \A i \in 1..(Len(c) + Len(d)) : (c \o d)[i] = IF i <= Len(c) THEN c[i] ELSE d[i - Len(c)]
  BY ConcatProperties
<1>t. PICK t : t = c \o d
  OBVIOUS
<1>2. /\ b \o t \in Seq(S) /\ Len(b \o t) = Len(b) + Len(t)
      /\ \A i \in 1..(Len(b) + Len(t)) : (b \o t)[i] = IF i <= Len(b) THEN b[i] ELSE t[i - Len(b)]
  BY <1>1, <1>t, ConcatProperties
<1>u. PICK u : u = b \o t
  OBVIOUS
<1>3. /\ s = a \o u /\ s \in Seq(S) /\ Len(s) = Len(a) + Len(u)
      /\ \A i \in 1..(Len(a) + Len(u)) : s[i] = IF i <= Len(a) THEN a[i] ELSE u[i - Len(a)]
  <2>1. s = a \o u
    BY <1>t, <1>u
  <2>2. u \in Seq(S)
    BY <1>2, <1>u
  <2> QED BY <2>1, <2>2, ConcatProperties
<1>4. PICK m \in Nat, n \in Nat, p \in Nat, q \in Nat :
        m = Len(a) /\ n = Len(b) /\ p = Len(c) /\ q = Len(d)
  BY <1>0
<1>5. /\ Len(s) = m + (n + (p + q))
      /\ \A i \in 1..(p + q) : t[i] = IF i <= p THEN c[i] ELSE d[i - p]
      /\ \A i \in 1..(n + (p + q)) : u[i] = IF i <= n THEN b[i] ELSE t[i - n]
      /\ \A i \in 1..(m + (n + (p + q))) : s[i] = IF i <= m THEN a[i] ELSE u[i - m]
  BY <1>1, <1>t, <1>2, <1>u, <1>3, <1>4
<1>6. \A i \in 1..m : s[i] = a[i]
  BY <1>5
<1>7. \A i \in 1..n : s[m + i] = b[i]
  <2> TAKE i \in 1..n
  <2>1. m + i \in 1..(m + (n + (p + q))) /\ ~(m + i <= m) /\ m + i - m = i
    OBVIOUS
  <2>2. i \in 1..(n + (p + q)) /\ i <= n
    OBVIOUS
  <2>3. s[m + i] = u[i]
    BY <1>5, <2>1
  <2> QED BY <1>5, <2>2, <2>3
<1>8. \A i \in 1..(p + q) : s[m + n + i] = t[i]
  <2> TAKE i \in 1..(p + q)
  <2>1. m + n + i \in 1..(m + (n + (p + q))) /\ ~(m + n + i <= m) /\ m + n + i - m = n + i
    OBVIOUS
  <2>2. n + i \in 1..(n + (p + q)) /\ ~(n + i <= n) /\ n + i - n = i
    OBVIOUS
  <2>3. s[m + n + i] = u[n + i]
    <3>1. PICK j \in 1..(m + (n + (p + q))) : j = m + n + i /\ ~(j <= m) /\ j - m = n + i
      BY <2>1
    <3>2. s[j] = u[j - m]
      BY <1>5, <3>1
    <3> QED BY <3>1, <3>2
  <2>4. u[n + i] = t[i]
    <3>1. PICK j \in 1..(n + (p + q)) : j = n + i /\ ~(j <= n) /\ j - n = i
      BY <2>2
    <3>2. u[j] = t[j - n]
      BY <1>5, <3>1
    <3> QED BY <3>1, <3>2
  <2> QED BY <2>3, <2>4
<1>9. \A i \in 1..p : s[m + n + i] = c[i]
  <2> TAKE i \in 1..p
  <2>1. i \in 1..(p + q) /\ i <= p
    OBVIOUS
  <2> QED BY <1>5, <1>8, <2>1
<1>10. \A i \in 1..q : s[m + n + p + i] = d[i]
  <2> TAKE i \in 1..q
  <2>1. p + i \in 1..(p + q) /\ ~(p + i <= p) /\ p + i - p = i /\ m + n + p + i = m + n + (p + i)
    OBVIOUS
  <2>2. s[m + n + (p + i)] = t[p + i]
    BY <1>8, <2>1
  <2>3. t[p + i] = d[i]
    BY <1>5, <2>1
  <2> QED BY <2>1, <2>2, <2>3
<1>11. ASSUME NEW i \in 1..(m + (n + (p + q)))
       PROVE  \/ i \in 1..m
              \/ \E k \in 1..n : i = m + k
              \/ \E k \in 1..p : i = m + n + k
              \/ \E k \in 1..q : i = m + n + p + k
  <2>1. CASE i <= m
    BY <2>1
  <2>2. CASE i > m /\ i <= m + n
    <3>1. i - m \in 1..n /\ i = m + (i - m)
      BY <2>2
    <3> QED BY <3>1
  <2>3. CASE i > m + n /\ i <= m + n + p
    <3>1. i - (m + n) \in 1..p /\ i = m + n + (i - (m + n))
      BY <2>3
    <3> QED BY <3>1
  <2>4. CASE i > m + n + p
    <3>1. i - (m + n + p) \in 1..q /\ i = m + n + p + (i - (m + n + p))
      BY <2>4
    <3> QED BY <3>1
  <2> QED BY <2>1, <2>2, <2>3, <2>4
<1> QED BY <1>3, <1>4, <1>5, <1>6, <1>7, <1>9, <1>10, <1>11 DEF FollowsIn

(* Dropping the first of two sequences that follow each other. *)
LEMMA FirstDropped ==
  ASSUME NEW S, NEW s \in Seq(S), NEW t \in Seq(S), NEW u, u = s \o t
  PROVE  /\ Len(s) \in 0..Len(u) /\ Len(t) = Len(u) - Len(s)
         /\ \A i \in 1..Len(t) : t[i] = u[i + Len(s)]
         /\ \A i \in 1..Len(s) : u[i] = s[i]
<1>1. PICK m \in Nat, n \in Nat :
        /\ m = Len(s) /\ n = Len(t) /\ Len(u) = m + n
        /\ \A i \in 1..(m + n) : u[i] = IF i <= m THEN s[i] ELSE t[i - m]
  BY LenProperties, ConcatProperties
<1>2. \A i \in 1..n : i + m \in 1..(m + n) /\ ~(i + m <= m) /\ i + m - m = i
  OBVIOUS
<1>3. \A i \in 1..n : t[i] = u[i + m]
  BY <1>1, <1>2
<1>4. \A i \in 1..m : i \in 1..(m + n) /\ i <= m
  OBVIOUS
<1>5. \A i \in 1..m : u[i] = s[i]
  BY <1>1, <1>4
<1>6. m \in 0..(m + n) /\ n = m + n - m
  OBVIOUS
<1> QED BY <1>1, <1>3, <1>5, <1>6

(* The front of one sequence moves to the end of the one before it. *)
LEMMA FrontMoves ==
  ASSUME NEW S, NEW s \in Seq(S), NEW t \in Seq(S), t # <<>>
  PROVE  /\ Head(t) \in S /\ Tail(t) \in Seq(S)
         /\ Append(s, Head(t)) \in Seq(S)
         /\ t = <<Head(t)>> \o Tail(t)
         /\ Append(s, Head(t)) \o Tail(t) = s \o t
<1>1. Head(t) \in S /\ Tail(t) \in Seq(S) /\ <<Head(t)>> \in Seq(S)
  BY HeadTailProperties
<1>2. t = <<Head(t)>> \o Tail(t)
  OBVIOUS
<1>3. Append(s, Head(t)) = s \o <<Head(t)>> /\ Append(s, Head(t)) \in Seq(S)
  BY <1>1, AppendIsConcat, AppendProperties
<1>4. (s \o <<Head(t)>>) \o Tail(t) = s \o (<<Head(t)>> \o Tail(t))
  BY <1>1, ConcatAssociative
<1> QED BY <1>1, <1>2, <1>3, <1>4

(* The flush loop moves requests from variable to variable, not in line. *)
LEMMA LineMoves ==
  ASSUME TypeOK, LoopInv, ReceivePropose \/ ReceiveSync \/ FlushPartial
  PROVE  Line' = Line
<1>1. /\ queue \in Seq(Request) /\ pending \in Seq(Request) /\ <<>> \in Seq(Request)
      /\ \A s \in Seq(Request) : <<>> \o s = s /\ s \o <<>> = s
  BY ConcatEmptySeq, EmptySeq DEF TypeOK
<1>2. batch = <<>> /\ syncReq = NoReq /\ Held = <<>>
  BY DEF ReceivePropose, ReceiveSync, Receive, FlushPartial, LoopInv, Held
<1>3. pending \o queue \in Seq(Request)
  BY <1>1, ConcatProperties
<1>4. Line = pending \o queue
  BY <1>1, <1>2, <1>3 DEF Line
<1>5. Line' = batch' \o (Held' \o (pending' \o queue'))
  BY DEF Line
<1>6. CASE ReceivePropose
  <2>1. queue # <<>> /\ queue' = Tail(queue) /\ syncReq' = syncReq
    BY <1>6 DEF ReceivePropose, Receive
  <2>2. PICK rs : rs = Append(pending, Head(queue))
    OBVIOUS
  <2>3. rs \in Seq(Request) /\ Tail(queue) \in Seq(Request) /\ rs \o Tail(queue) = pending \o queue
    BY <1>1, <2>1, <2>2, FrontMoves
  <2>4. Held' = <<>>
    BY <1>2, <2>1 DEF Held
  <2>5. \/ batch' = rs /\ pending' = <<>>
        \/ batch' = <<>> /\ pending' = rs
    BY <1>2, <1>6, <2>2 DEF ReceivePropose, StartFlush, Drain
  <2>6. CASE batch' = rs /\ pending' = <<>>
    BY <1>1, <1>4, <1>5, <2>1, <2>3, <2>4, <2>6
  <2>7. CASE batch' = <<>> /\ pending' = rs
    BY <1>1, <1>3, <1>4, <1>5, <2>1, <2>3, <2>4, <2>7
  <2> QED BY <2>5, <2>6, <2>7
<1>7. CASE ReceiveSync
  <2>1. /\ queue # <<>> /\ queue' = Tail(queue) /\ syncReq' = Head(queue)
        /\ Head(queue).op = "sync"
    BY <1>7 DEF ReceiveSync, Receive
  <2>2. Head(queue) # NoReq
    BY <2>1 DEF NoReq
  <2>3. Held' = <<Head(queue)>>
    BY <2>1, <2>2 DEF Held
  <2>4. Tail(queue) \in Seq(Request) /\ queue = <<Head(queue)>> \o Tail(queue)
    BY <1>1, <2>1, FrontMoves
  <2>5. batch' = pending /\ pending' = <<>>
    BY <1>2, <1>7 DEF ReceiveSync, FlushFirst, StartFlush, Drain
  <2> QED BY <1>1, <1>4, <1>5, <2>1, <2>3, <2>4, <2>5
<1>8. CASE FlushPartial
  <2>1. batch' = pending /\ pending' = <<>> /\ queue' = queue /\ Held' = <<>>
    BY <1>2, <1>8 DEF FlushPartial, StartFlush, Drain, Held
  <2> QED BY <1>1, <1>4, <1>5, <2>1
<1> QED BY <1>6, <1>7, <1>8

LEMMA HeldTyped ==
  ASSUME TypeOK
  PROVE  /\ Held \in Seq(Request) /\ Len(Held) = IF syncReq = NoReq THEN 0 ELSE 1
         /\ syncReq # NoReq => Held = <<syncReq>> /\ Held[1] = syncReq
<1>1. <<>> \in Seq(Request) /\ Len(<<>>) = 0
  BY EmptySeq
<1>2. syncReq \in Request
  BY DEF TypeOK
<1>3. <<syncReq>> \in Seq(Request) /\ Len(<<syncReq>>) = 1 /\ <<syncReq>>[1] = syncReq
  BY <1>2
<1> QED BY <1>1, <1>3 DEF Held

(* Where things are in line. *)
LineFacts ==
  /\ Len(batch) \in Nat /\ Len(Held) \in Nat /\ Len(pending) \in Nat /\ Len(queue) \in Nat
  /\ Line \in Seq(Request) /\ Len(Line) \in Nat
  /\ Len(Line) = Len(batch) + (Len(Held) + (Len(pending) + Len(queue)))
  /\ \A i \in 1..Len(batch) : Line[i] = batch[i]
  /\ \A i \in 1..Len(Held) : Line[Len(batch) + i] = Held[i]
  /\ \A i \in 1..Len(pending) : Line[Len(batch) + Len(Held) + i] = pending[i]
  /\ \A i \in 1..Len(queue) : Line[Len(batch) + Len(Held) + Len(pending) + i] = queue[i]
  /\ \A i \in 1..Len(Line) : Line[i] \in Request

LEMMA LineFactsHold ==
  ASSUME TypeOK
  PROVE  LineFacts
<1>1. batch \in Seq(Request) /\ pending \in Seq(Request) /\ queue \in Seq(Request)
  BY DEF TypeOK
<1>2. Held \in Seq(Request)
  BY HeldTyped
<1>3. PICK s : s = batch \o (Held \o (pending \o queue))
  OBVIOUS
<1>4. s \in Seq(Request) /\ FollowsIn(s, batch, Held, pending, queue)
  BY <1>1, <1>2, <1>3, FourJoined
<1>5. /\ Len(batch) \in Nat /\ Len(Held) \in Nat /\ Len(pending) \in Nat /\ Len(queue) \in Nat
      /\ Len(s) \in Nat
  BY <1>1, <1>2, <1>4, LenProperties
<1>6. \A i \in 1..Len(s) : s[i] \in Request
  BY <1>4, ElementOfSeq
<1>7. s = Line
  BY <1>3 DEF Line
<1> QED BY <1>4, <1>5, <1>6, <1>7 DEF LineFacts, FollowsIn

LEMMA RequestsJoined ==
  ASSUME NEW x \in Seq(Request), NEW y \in Seq(Request), NEW z \in Seq(Request)
  PROVE  (x \o y) \o z = x \o (y \o z)
BY ConcatAssociative

(* A request is put at the end of the line. *)
LEMMA LineSent ==
  ASSUME TypeOK, NEW r \in Request, queue' = Append(queue, r), UNCHANGED loopVars
  PROVE  /\ Len(Line') = Len(Line) + 1
         /\ \A i \in 1..Len(Line) : Line'[i] = Line[i]
         /\ Line'[Len(Line) + 1] = r
<1>1. /\ batch \in Seq(Request) /\ pending \in Seq(Request) /\ queue \in Seq(Request)
      /\ Held \in Seq(Request) /\ <<r>> \in Seq(Request)
  BY HeldTyped DEF TypeOK
<1>2. queue' = queue \o <<r>>
  BY <1>1, AppendIsConcat
<1>3. PICK t : t = pending \o queue
  OBVIOUS
<1>4. t \in Seq(Request) /\ pending \o queue' = t \o <<r>>
  BY <1>1, <1>2, <1>3, RequestsJoined, ConcatProperties
<1>5. PICK u : u = Held \o t
  OBVIOUS
<1>6. u \in Seq(Request) /\ Held \o (t \o <<r>>) = u \o <<r>>
  BY <1>1, <1>4, <1>5, RequestsJoined, ConcatProperties
<1>7. Line \in Seq(Request) /\ batch \o (u \o <<r>>) = Line \o <<r>>
  <2>1. Line = batch \o u
    BY <1>3, <1>5 DEF Line
  <2>2. PICK rs \in Seq(Request) : rs = <<r>>
    BY <1>1
  <2>3. batch \o u \in Seq(Request)
    BY <1>1, <1>6, ConcatProperties
  <2>4. (batch \o u) \o rs = batch \o (u \o rs)
    <3>1. batch \in Seq(Request) /\ u \in Seq(Request) /\ rs \in Seq(Request)
      BY <1>1, <1>6
    <3> QED BY ONLY <3>1, RequestsJoined
  <2> QED BY <2>1, <2>2, <2>3, <2>4
<1>8. Line' = Line \o <<r>>
  <2>1. Line' = batch' \o (Held' \o (pending' \o queue'))
    BY DEF Line
  <2>2. batch' = batch /\ Held' = Held /\ pending' = pending
    BY DEF loopVars, Held
  <2> QED BY <1>4, <1>6, <1>7, <2>1, <2>2
<1>9. Line' = Append(Line, r)
  BY <1>7, <1>8, AppendIsConcat
<1> QED BY <1>7, <1>9, AppendProperties

LEMMA Forgotten ==
  ASSUME NEW rs \in Seq(Request), NEW c
  PROVE  /\ ForgetIn(rs, c) \in Seq(Request) /\ Len(ForgetIn(rs, c)) = Len(rs)
         /\ \A i \in 1..Len(rs) : ForgetIn(rs, c)[i] = Forget(rs[i], c)
<1>1. DOMAIN rs = 1..Len(rs) /\ Len(rs) \in Nat
  OBVIOUS
<1>2. \A r \in Request : Forget(r, c) \in Request
  BY DEF Forget, Request
<1>3. \A i \in 1..Len(rs) : Forget(rs[i], c) \in Request
  BY <1>2
<1>4. ForgetIn(rs, c) = [i \in 1..Len(rs) |-> Forget(rs[i], c)]
  BY <1>1 DEF ForgetIn
<1>5. ForgetIn(rs, c) \in [1..Len(rs) -> Request]
  BY <1>3, <1>4
<1> QED BY <1>1, <1>4, <1>5

(* A caller that gives up leaves its request in line. *)
LEMMA LineForgets ==
  ASSUME TypeOK, LoopInv, NEW c \in Client, Cancel(c)
  PROVE  /\ Len(Line') = Len(Line)
         /\ \A i \in 1..Len(Line) : Line'[i] = Forget(Line[i], c)
<1>1. /\ batch \in Seq(Request) /\ pending \in Seq(Request) /\ queue \in Seq(Request)
      /\ Held \in Seq(Request) /\ syncReq \in Request
  BY HeldTyped DEF TypeOK
<1>2. /\ batch' = ForgetIn(batch, c) /\ pending' = ForgetIn(pending, c)
      /\ queue' = ForgetIn(queue, c) /\ syncReq' = Forget(syncReq, c)
  BY DEF Cancel
<1>3. Held' = ForgetIn(Held, c)
  <2>1. CASE syncReq = NoReq
    <3>1. syncReq' = NoReq
      BY <1>2, <2>1, NoOneAssumption DEF Forget, NoReq
    <3>2. ForgetIn(<<>>, c) = <<>>
      BY DEF ForgetIn
    <3> QED BY <2>1, <3>1, <3>2 DEF Held
  <2>2. CASE syncReq # NoReq
    <3>1. syncReq.op = "sync" /\ syncReq'.op = "sync"
      BY <1>1, <1>2, <2>2 DEF LoopInv, Forget, Request
    <3>2. syncReq' # NoReq
      BY <3>1 DEF NoReq
    <3>3. Held = <<syncReq>> /\ Held' = <<Forget(syncReq, c)>>
      BY <1>2, <2>2, <3>2 DEF Held
    <3>4. DOMAIN <<syncReq>> = {1}
      OBVIOUS
    <3>5. ForgetIn(<<syncReq>>, c) = [i \in {1} |-> Forget(syncReq, c)]
      BY <3>4 DEF ForgetIn
    <3>6. <<Forget(syncReq, c)>> = [i \in {1} |-> Forget(syncReq, c)]
      OBVIOUS
    <3> QED BY <3>3, <3>5, <3>6
  <2> QED BY <2>1, <2>2
<1>4. PICK b1, h1, p1, q1 : /\ b1 = ForgetIn(batch, c) /\ h1 = ForgetIn(Held, c)
                            /\ p1 = ForgetIn(pending, c) /\ q1 = ForgetIn(queue, c)
  OBVIOUS
<1>5. /\ b1 \in Seq(Request) /\ Len(b1) = Len(batch)
      /\ \A i \in 1..Len(batch) : b1[i] = Forget(batch[i], c)
  BY <1>1, <1>4, Forgotten
<1>6. /\ h1 \in Seq(Request) /\ Len(h1) = Len(Held)
      /\ \A i \in 1..Len(Held) : h1[i] = Forget(Held[i], c)
  BY <1>1, <1>4, Forgotten
<1>7. /\ p1 \in Seq(Request) /\ Len(p1) = Len(pending)
      /\ \A i \in 1..Len(pending) : p1[i] = Forget(pending[i], c)
  BY <1>1, <1>4, Forgotten
<1>8. /\ q1 \in Seq(Request) /\ Len(q1) = Len(queue)
      /\ \A i \in 1..Len(queue) : q1[i] = Forget(queue[i], c)
  BY <1>1, <1>4, Forgotten
<1>9. PICK t : t = b1 \o (h1 \o (p1 \o q1))
  OBVIOUS
<1>10. Line' = t
  <2>1. Line' = batch' \o (Held' \o (pending' \o queue'))
    BY DEF Line
  <2> QED BY <1>2, <1>3, <1>4, <1>9, <2>1
<1>11. FollowsIn(t, b1, h1, p1, q1)
  BY <1>5, <1>6, <1>7, <1>8, <1>9, FourJoined
<1>12. PICK s : s = batch \o (Held \o (pending \o queue))
  OBVIOUS
<1>13. Line = s
  BY <1>12 DEF Line
<1>14. FollowsIn(s, batch, Held, pending, queue)
  BY <1>1, <1>12, FourJoined
<1>15. ASSUME NEW i \in 1..Len(s) PROVE t[i] = Forget(s[i], c)
  <2>1. CASE i \in 1..Len(batch)
    BY <1>5, <1>11, <1>14, <2>1 DEF FollowsIn
  <2>2. CASE \E k \in 1..Len(Held) : i = Len(batch) + k
    BY <1>5, <1>6, <1>11, <1>14, <2>2 DEF FollowsIn
  <2>3. CASE \E k \in 1..Len(pending) : i = Len(batch) + Len(Held) + k
    BY <1>5, <1>6, <1>7, <1>11, <1>14, <2>3 DEF FollowsIn
  <2>4. CASE \E k \in 1..Len(queue) : i = Len(batch) + Len(Held) + Len(pending) + k
    BY <1>5, <1>6, <1>7, <1>8, <1>11, <1>14, <2>4 DEF FollowsIn
  <2> QED BY <1>14, <2>1, <2>2, <2>3, <2>4 DEF FollowsIn
<1>16. Len(t) = Len(s)
  BY <1>5, <1>6, <1>7, <1>8, <1>11, <1>14 DEF FollowsIn
<1> QED BY <1>10, <1>13, <1>15, <1>16

(* The first d in line, those of the batch in hand at least, are answered   *)
(* and leave it.                                                            *)
Serves(d) ==
  /\ d \in Len(batch)..Len(Line) /\ Len(Line') = Len(Line) - d
  /\ \A i \in 1..Len(Line') : Line'[i] = Line[i + d]
  /\ \A c \in Client : \/ pc'[c] = pc[c] /\ result'[c] = result[c]
                       \/ pc'[c] = "idle" /\ \E i \in 1..d : Line[i].to = c
  /\ known' = known

LEMMA AnswerFacts ==
  ASSUME NEW tos, NEW tag, NEW value, Answer(tos, tag, value), NEW c \in Client
  PROVE  /\ known' = known
         /\ c \notin tos => pc'[c] = pc[c] /\ result'[c] = result[c]
         /\ c \in tos => pc'[c] = "idle" /\ result'[c] = Res(result[c].op, tag, value)
BY DEF Answer

LEMMA ReturnedServes ==
  ASSUME TypeOK, LoopInv, NEW tag, NEW value, Returned(tag, value), UNCHANGED <<queue, pending>>
  PROVE  \E d \in Nat : Serves(d)
<1>1. LineFacts
  BY LineFactsHold
<1>2. /\ batch \in Seq(Request) /\ pending \in Seq(Request) /\ queue \in Seq(Request)
      /\ Held \in Seq(Request) /\ syncReq \in Request
      /\ \A s \in Seq(Request) : <<>> \o s = s
  BY HeldTyped, ConcatEmptySeq DEF TypeOK
<1>3. Line' = batch' \o (Held' \o (pending' \o queue')) /\ Line = batch \o (Held \o (pending \o queue))
  BY DEF Line
<1>4. PICK p : p = pending \o queue
  OBVIOUS
<1>5. PICK q : q = Held \o p
  OBVIOUS
<1>6. p \in Seq(Request) /\ q \in Seq(Request)
  BY <1>2, <1>4, <1>5, ConcatProperties
<1>7. CASE phase = "flush"
  <2>1. Answer(Callers(batch), tag, value) /\ batch' = <<>> /\ syncReq' = syncReq
    BY <1>7 DEF Returned
  <2>2. Line' = q /\ Line = batch \o q
    BY <1>2, <1>3, <1>4, <1>5, <1>6, <2>1 DEF Held
  <2>3. /\ Len(batch) \in 0..Len(Line) /\ Len(q) = Len(Line) - Len(batch)
        /\ \A i \in 1..Len(q) : q[i] = Line[i + Len(batch)]
    BY <1>2, <1>6, <2>2, FirstDropped
  <2>4. ASSUME NEW c \in Client
        PROVE  \/ pc'[c] = pc[c] /\ result'[c] = result[c]
               \/ pc'[c] = "idle" /\ \E i \in 1..Len(batch) : Line[i].to = c
    <3>1. c \in Callers(batch) => \E i \in 1..Len(batch) : batch[i].to = c
      BY <1>2 DEF Callers
    <3>2. \A i \in 1..Len(batch) : Line[i] = batch[i]
      BY <1>1 DEF LineFacts
    <3> QED BY <2>1, <3>1, <3>2, AnswerFacts
  <2>5. known' = known
    BY <2>1 DEF Answer
  <2>6. Len(batch) \in Nat /\ Len(batch) \in Len(batch)..Len(Line)
    BY <1>1, <2>3 DEF LineFacts
  <2> QED BY <2>2, <2>3, <2>4, <2>5, <2>6 DEF Serves
<1>8. CASE phase = "sync"
  <2>1. Answer({syncReq.to}, tag, value) /\ batch' = batch /\ syncReq' = NoReq
    BY <1>8 DEF Returned
  <2>2. batch = <<>> /\ syncReq # NoReq
    BY <1>8 DEF LoopInv
  <2>3. Held' = <<>> /\ Len(Held) = 1 /\ Held[1] = syncReq
    BY <2>1, <2>2, HeldTyped DEF Held
  <2>4. Line' = p /\ Line = Held \o p
    BY <1>2, <1>3, <1>4, <1>5, <1>6, <2>1, <2>2, <2>3
  <2>5. /\ 1 \in 0..Len(Line) /\ Len(p) = Len(Line) - 1
        /\ \A i \in 1..Len(p) : p[i] = Line[i + 1]
        /\ Line[1] = syncReq
    <3>1. /\ Len(Held) \in 0..Len(Line) /\ Len(p) = Len(Line) - Len(Held)
          /\ \A i \in 1..Len(p) : p[i] = Line[i + Len(Held)]
          /\ \A i \in 1..Len(Held) : Line[i] = Held[i]
      BY <1>2, <1>6, <2>4, FirstDropped
    <3> QED BY <2>3, <3>1
  <2>6. ASSUME NEW c \in Client
        PROVE  \/ pc'[c] = pc[c] /\ result'[c] = result[c]
               \/ pc'[c] = "idle" /\ \E i \in 1..1 : Line[i].to = c
    BY <2>1, <2>5, AnswerFacts
  <2>7. known' = known
    BY <2>1 DEF Answer
  <2>8. Len(batch) = 0 /\ 1 \in Len(batch)..Len(Line)
    BY <1>1, <2>2, <2>5, EmptySeq DEF LineFacts
  <2> QED BY <2>4, <2>5, <2>6, <2>7, <2>8 DEF Serves
<1>9. CASE phase = "recv"
  <2>1. UNCHANGED <<batch, syncReq, phase, clientVars>>
    BY <1>9 DEF Returned
  <2>2. Line' = Line
    BY <2>1 DEF Line, Held
  <2>3. batch = <<>> /\ Len(batch) = 0
    BY <1>9, EmptySeq DEF LoopInv
  <2>4. 0 \in Len(batch)..Len(Line) /\ Len(Line) = Len(Line) - 0 /\ \A i \in 1..Len(Line) : i + 0 = i
    BY <1>1, <2>3 DEF LineFacts
  <2> QED BY <2>1, <2>2, <2>4 DEF Serves, clientVars
<1> QED BY <1>7, <1>8, <1>9 DEF TypeOK

LEMMA AbortServes ==
  ASSUME TypeOK, LoopInv, Abort
  PROVE  \E d \in Nat : Serves(d)
<1>1. LineFacts
  BY LineFactsHold
<1>2. Line' = <<>> /\ Len(Line') = 0
  <2>1. batch' = <<>> /\ Held' = <<>> /\ pending' = <<>> /\ queue' = <<>>
    BY DEF Abort, Held
  <2>2. Line' = batch' \o (Held' \o (pending' \o queue'))
    BY DEF Line
  <2>3. <<>> \o <<>> = <<>>
    BY EmptySeq, ConcatEmptySeq
  <2> QED BY <2>1, <2>2, <2>3, EmptySeq
<1>3. PICK tos : /\ tos = Callers(queue) \cup Callers(pending) \cup Callers(batch) \cup {syncReq.to}
                 /\ Answer(tos, "error", 0)
  BY DEF Abort
<1>4. ASSUME NEW c \in Client, c \in tos
      PROVE  \E i \in 1..Len(Line) : Line[i].to = c
  <2>0. /\ \A i \in 1..Len(batch) : i \in 1..Len(Line)
        /\ \A i \in 1..Len(Held) : Len(batch) + i \in 1..Len(Line)
        /\ \A i \in 1..Len(pending) : Len(batch) + Len(Held) + i \in 1..Len(Line)
        /\ \A i \in 1..Len(queue) : Len(batch) + Len(Held) + Len(pending) + i \in 1..Len(Line)
    BY <1>1 DEF LineFacts
  <2>1. CASE c \in Callers(batch)
    <3>1. PICK i \in 1..Len(batch) : batch[i].to = c
      BY <2>1 DEF Callers, TypeOK
    <3> QED BY <1>1, <2>0, <3>1 DEF LineFacts
  <2>2. CASE c \in Callers(pending)
    <3>1. PICK i \in 1..Len(pending) : pending[i].to = c
      BY <2>2 DEF Callers, TypeOK
    <3> QED BY <1>1, <2>0, <3>1 DEF LineFacts
  <2>3. CASE c \in Callers(queue)
    <3>1. PICK i \in 1..Len(queue) : queue[i].to = c
      BY <2>3 DEF Callers, TypeOK
    <3> QED BY <1>1, <2>0, <3>1 DEF LineFacts
  <2>4. CASE c = syncReq.to
    <3>1. syncReq # NoReq
      BY <2>4, NoOneAssumption DEF NoReq
    <3>2. Len(Held) = 1 /\ Held[1] = syncReq
      BY <3>1, HeldTyped
    <3>3. Len(batch) + 1 \in 1..Len(Line) /\ Line[Len(batch) + 1] = syncReq
      BY <1>1, <2>0, <3>2 DEF LineFacts
    <3> QED BY <2>4, <3>3
  <2> QED BY <1>3, <1>4, <2>1, <2>2, <2>3, <2>4
<1>5. ASSUME NEW c \in Client
      PROVE  \/ pc'[c] = pc[c] /\ result'[c] = result[c]
             \/ pc'[c] = "idle" /\ \E i \in 1..Len(Line) : Line[i].to = c
  BY <1>3, <1>4, AnswerFacts
<1>6. known' = known
  BY <1>3 DEF Answer
<1>7. Len(Line) \in Nat /\ Len(Line) \in Len(batch)..Len(Line) /\ 0 = Len(Line) - Len(Line)
  BY <1>1 DEF LineFacts
<1> QED BY <1>2, <1>5, <1>6, <1>7 DEF Serves
-------------------------------------------------------------------------------
(* Kinds of steps *)

(* A batch is cut from the front of the line. *)
Flushes(rs) ==
  /\ rs \in Seq(Request) /\ rs # <<>>
  /\ Len(rs) <= MaxBatch \/ Len(rs) = 1
  /\ \A i \in 1..Len(rs) : rs[i].op = "propose" /\ i \in 1..Len(Line) /\ Line[i] = rs[i]
  /\ StartFlush(rs)
  /\ syncReq' \in Request
  /\ syncReq' = NoReq \/ syncReq'.op = "sync"

Gathers ==
  /\ pending' \in Seq(Request) /\ Len(pending') < MaxBatch
  /\ \A i \in 1..Len(pending') : pending'[i].op = "propose"
  /\ UNCHANGED <<batch, phase, down, syncReq>>

Syncs ==
  /\ pending = <<>>
  /\ syncReq' \in Request /\ syncReq'.op = "sync"
  /\ phase' = "sync" /\ down' = DownQueued("sync", Plain(0))
  /\ UNCHANGED <<pending, batch>>

LEMMA LoopKinds ==
  ASSUME TypeOK, LoopInv, Loop
  PROVE  /\ Serving /\ phase = "recv" /\ batch = <<>> /\ syncReq = NoReq /\ down.stage = "idle"
         /\ UNCHANGED <<life, log, applied, store, clientVars, proposed, local>>
         /\ queue' \in Seq(Request)
         /\ (\E rs : Flushes(rs)) \/ Gathers \/ Syncs
<1>1. /\ Serving /\ phase = "recv"
      /\ UNCHANGED <<life, log, applied, store, clientVars, proposed, local>>
  BY DEF Loop, ReceivePropose, ReceiveSync, Receive, FlushPartial, Serving
<1>2. batch = <<>> /\ syncReq = NoReq /\ down.stage = "idle"
  BY <1>1 DEF LoopInv
<1>3. /\ queue \in Seq(Request) /\ pending \in Seq(Request) /\ syncReq \in Request
      /\ \A i \in 1..Len(pending) : pending[i].op = "propose"
      /\ Len(pending) < MaxBatch \/ pending = <<>>
  BY DEF TypeOK, LoopInv
<1>4. /\ LineFacts /\ Len(batch) = 0 /\ Held = <<>> /\ Len(Held) = 0
  BY <1>2, LineFactsHold, EmptySeq DEF Held
<1>5. /\ Len(pending) \in Nat /\ Len(queue) \in Nat /\ Len(Line) = Len(pending) + Len(queue)
      /\ \A i \in 1..Len(pending) : Line[0 + 0 + i] = pending[i]
      /\ \A i \in 1..Len(queue) : Line[0 + 0 + Len(pending) + i] = queue[i]
  BY <1>4 DEF LineFacts
<1>6. \A i \in 1..Len(pending) : i \in 1..Len(Line) /\ Line[i] = pending[i]
  BY <1>5
<1>7. ASSUME pending # <<>>, StartFlush(pending), syncReq' \in Request,
             syncReq' = NoReq \/ syncReq'.op = "sync"
      PROVE  Flushes(pending)
  <2>1. Len(pending) <= MaxBatch
    BY <1>3, <1>5, <1>7, BatchAssumption
  <2> QED BY <1>3, <1>6, <1>7, <2>1 DEF Flushes
<1>8. CASE ReceivePropose
  <2>1. queue # <<>> /\ queue' = Tail(queue) /\ syncReq' = syncReq /\ Head(queue).op = "propose"
    BY <1>8 DEF ReceivePropose, Receive
  <2>2. PICK rs : rs = Append(pending, Head(queue))
    OBVIOUS
  <2>3. /\ Head(queue) \in Request /\ Tail(queue) \in Seq(Request) /\ Head(queue) = queue[1]
        /\ Len(queue) >= 1
    BY <1>3, <2>1
  <2>4. /\ rs \in Seq(Request) /\ rs # <<>> /\ Len(rs) = Len(pending) + 1
        /\ \A i \in 1..Len(pending) : rs[i] = pending[i]
        /\ rs[Len(pending) + 1] = Head(queue)
    BY <1>3, <2>2, <2>3, AppendProperties
  <2>5. ASSUME NEW i \in 1..Len(rs)
        PROVE  rs[i].op = "propose" /\ i \in 1..Len(Line) /\ Line[i] = rs[i]
    <3>1. CASE i \in 1..Len(pending)
      BY <1>3, <1>6, <2>4, <3>1
    <3>2. CASE i = Len(pending) + 1
      <4>1. 1 \in 1..Len(queue) /\ 0 + 0 + Len(pending) + 1 = i /\ i \in 1..Len(Line)
        BY <1>5, <2>3, <3>2
      <4>2. Line[i] = queue[1]
        BY <1>5, <4>1
      <4> QED BY <2>1, <2>3, <2>4, <3>2, <4>1, <4>2
    <3> QED BY <1>5, <2>4, <3>1, <3>2
  <2>6. CASE Full(rs)
    <3>1. StartFlush(rs)
      BY <1>8, <2>2, <2>6 DEF ReceivePropose
    <3>2. Len(rs) <= MaxBatch \/ Len(rs) = 1
      BY <1>3, <1>5, <2>4, BatchAssumption, EmptySeq
    <3>3. Flushes(rs)
      BY <1>2, <1>3, <2>1, <2>4, <2>5, <3>1, <3>2 DEF Flushes
    <3> QED BY <1>1, <1>2, <2>1, <2>3, <3>3
  <2>7. CASE ~Full(rs)
    <3>1. pending' = rs /\ UNCHANGED <<batch, phase, down, syncReq>>
      BY <1>8, <2>2, <2>7 DEF ReceivePropose
    <3>2. Len(rs) < MaxBatch
      BY <1>5, <2>4, <2>7, BatchAssumption DEF Full
    <3>3. Gathers
      BY <2>4, <2>5, <3>1, <3>2 DEF Gathers
    <3> QED BY <1>1, <1>2, <2>1, <2>3, <3>3
  <2> QED BY <2>6, <2>7
<1>9. CASE ReceiveSync
  <2>1. queue # <<>> /\ queue' = Tail(queue) /\ syncReq' = Head(queue) /\ Head(queue).op = "sync"
    BY <1>9 DEF ReceiveSync, Receive
  <2>2. Head(queue) \in Request /\ Tail(queue) \in Seq(Request)
    BY <1>3, <2>1
  <2>3. CASE pending # <<>>
    <3>1. StartFlush(pending)
      BY <1>9, <2>3 DEF ReceiveSync, FlushFirst
    <3>2. Flushes(pending)
      BY <1>7, <2>1, <2>2, <2>3, <3>1
    <3> QED BY <1>1, <1>2, <2>1, <2>2, <3>2
  <2>4. CASE pending = <<>>
    <3>1. Syncs
      BY <1>9, <2>1, <2>2, <2>4 DEF ReceiveSync, FlushFirst, Syncs
    <3> QED BY <1>1, <1>2, <2>1, <2>2, <3>1
  <2> QED BY <2>3, <2>4
<1>10. CASE FlushPartial
  <2>1. queue' = queue /\ syncReq' = syncReq /\ pending # <<>> /\ StartFlush(pending)
    BY <1>10 DEF FlushPartial, TimesOut
  <2>2. Flushes(pending)
    BY <1>2, <1>3, <1>7, <2>1
  <2> QED BY <1>1, <1>2, <1>3, <2>1, <2>2
<1> QED BY <1>8, <1>9, <1>10 DEF Loop

(* The engine below returns. *)
Returns == DownRefuses \/ DownReadFails \/ DownApplyFails \/ DownReply

LEMMA ReturnFacts ==
  ASSUME TypeOK, DownInv, Returns
  PROVE  /\ UNCHANGED <<life, queue, pending, log, applied, store, proposed, local>>
         /\ down.stage \in Working
         /\ \E tag \in {"ok", "error"}, value \in Nat : Returned(tag, value)
<1>1. CASE DownRefuses
  BY <1>1 DEF DownRefuses, Working
<1>2. CASE DownReadFails \/ DownApplyFails
  BY <1>2 DEF DownReadFails, DownApplyFails, Working
<1>3. CASE DownReply
  <2>1. ReturnValue \in Nat
    <3>1. CASE down.op = "propose"
      <4>1. down.entry.payloads \in Seq(Payload) /\ down.entry.payloads # <<>>
        BY <3>1 DEF DownInv, LogEntry
      <4>2. PICK s \in Seq(Payload) : s = down.entry.payloads /\ s # <<>>
        BY <4>1
      <4>3. Len(s) \in 1..Len(s) /\ s[Len(s)] \in Payload
        BY <4>2
      <4>4. \A x \in Payload : x \in Nat
        BY BoundsAssumption DEF Payload
      <4>5. Last(s) \in Nat
        BY <4>3, <4>4 DEF Last
      <4> QED BY <3>1, <4>2, <4>5 DEF ReturnValue
    <3>2. CASE down.op # "propose"
      BY <3>2 DEF ReturnValue, DownInv
    <3> QED BY <3>1, <3>2
  <2> QED BY <1>3, <2>1 DEF DownReply, Working, TypeOK
<1> QED BY <1>1, <1>2, <1>3 DEF Returns
-------------------------------------------------------------------------------
(* Types and local variables *)

Basic == TypeOK /\ DownInv /\ LoopInv

(* down is unchanged, and the log only grows at its end. *)
LEMMA DownKept ==
  ASSUME TypeOK, DownInv, down' = down, log' = log
  PROVE  DownInv'
BY DEF DownInv

LEMMA PlainTyped ==
  ASSUME NEW n \in Nat
  PROVE  /\ Plain(n) \in [batched : BOOLEAN, count : Nat, payloads : Seq(Nat)]
         /\ n \in Payload => Plain(n) \in LogEntry
<1>1. <<n>> \in Seq(Nat) /\ (n \in Payload => <<n>> \in Seq(Payload))
  OBVIOUS
<1> QED BY <1>1 DEF Plain, LogEntry

LEMMA SendBasic ==
  ASSUME Basic, NEW c \in Client, NEW op \in {"propose", "sync"}, NEW n \in 0..MaxProposals,
         Send(c, op, n), proposed' \in 0..MaxProposals, local' \subseteq Payload
  PROVE  Basic'
<1>1. PICK r : r = [to |-> c, op |-> op, payload |-> n]
  OBVIOUS
<1>2. r \in Request
  BY <1>1 DEF Request
<1>3. queue' \in Seq(Request)
  <2>1. queue' = Append(queue, r) /\ queue \in Seq(Request)
    BY <1>1 DEF Send, Basic, TypeOK
  <2> QED BY <1>2, <2>1, AppendProperties
<1>4. /\ UNCHANGED <<life, loopVars, downVars>> /\ life = "up"
      /\ pc' = [pc EXCEPT ![c] = "waiting"]
      /\ result' = [result EXCEPT ![c] = Res(op, "pending", n)]
      /\ known' = [known EXCEPT ![c] = local]
  BY DEF Send
<1>5. TypeOK'
  <2>1. pc' \in [Client -> {"idle", "waiting"}] /\ known' \in [Client -> SUBSET Payload]
    BY <1>4 DEF Basic, TypeOK
  <2>2. Res(op, "pending", n) \in [op : {"none", "propose", "sync"},
                                   tag : {"pending", "ok", "error"}, value : Nat]
    BY BoundsAssumption DEF Res
  <2>3. result' \in [Client -> [op : {"none", "propose", "sync"},
                                tag : {"pending", "ok", "error"}, value : Nat]]
    BY <1>4, <2>2 DEF Basic, TypeOK
  <2> QED BY <1>3, <1>4, <2>1, <2>3 DEF Basic, TypeOK, loopVars, downVars
<1>6. DownInv'
  BY <1>4, DownKept DEF Basic, downVars
<1>7. LoopInv'
  BY <1>4 DEF Basic, LoopInv, Serving, loopVars, downVars
<1> QED BY <1>5, <1>6, <1>7 DEF Basic

LEMMA CancelBasic ==
  ASSUME Basic, NEW c \in Client, Cancel(c)
  PROVE  Basic'
<1>1. /\ batch \in Seq(Request) /\ pending \in Seq(Request) /\ queue \in Seq(Request)
      /\ syncReq \in Request
  BY DEF Basic, TypeOK
<1>2. /\ batch' = ForgetIn(batch, c) /\ pending' = ForgetIn(pending, c)
      /\ queue' = ForgetIn(queue, c) /\ syncReq' = Forget(syncReq, c)
      /\ pc' = [pc EXCEPT ![c] = "idle"]
      /\ UNCHANGED <<life, phase, downVars, result, known, proposed, local>>
  BY DEF Cancel
<1>3. queue' \in Seq(Request)
  BY <1>1, <1>2, Forgotten
<1>4. /\ pending' \in Seq(Request) /\ Len(pending') = Len(pending)
      /\ \A i \in 1..Len(pending) : pending'[i] = Forget(pending[i], c)
  BY <1>1, <1>2, Forgotten
<1>5. /\ batch' \in Seq(Request) /\ Len(batch') = Len(batch)
      /\ \A i \in 1..Len(batch) : batch'[i] = Forget(batch[i], c)
  BY <1>1, <1>2, Forgotten
<1>6. \A r \in Request : /\ Forget(r, c) \in Request /\ Forget(r, c).op = r.op
                         /\ Forget(r, c).payload = r.payload
  BY DEF Forget, Request
<1>7. syncReq' \in Request /\ syncReq'.op = syncReq.op
  BY <1>1, <1>2, <1>6
<1>8. syncReq' = NoReq <=> syncReq = NoReq
  <2>1. CASE syncReq = NoReq
    BY <1>2, <2>1, NoOneAssumption DEF Forget, NoReq
  <2>2. CASE syncReq # NoReq
    <3>1. syncReq.op = "sync"
      BY <2>2 DEF Basic, LoopInv
    <3> QED BY <1>7, <2>2, <3>1 DEF NoReq
  <2> QED BY <2>1, <2>2
<1>9. TypeOK'
  <2>1. pc' \in [Client -> {"idle", "waiting"}]
    BY <1>2 DEF Basic, TypeOK
  <2> QED BY <1>2, <1>3, <1>4, <1>5, <1>7, <2>1 DEF Basic, TypeOK, downVars
<1>10. DownInv'
  BY <1>2, DownKept DEF Basic, downVars
<1>11. (batch' = <<>> <=> batch = <<>>) /\ (pending' = <<>> <=> pending = <<>>)
       /\ (queue = <<>> => queue' = <<>>)
  <2>1. \A s \in Seq(Request) : s = <<>> <=> Len(s) = 0
    BY EmptySeq
  <2>2. Len(queue') = Len(queue)
    BY <1>1, <1>2, Forgotten
  <2> QED BY <1>1, <1>3, <1>4, <1>5, <2>1, <2>2
<1>12. Payloads(batch') = Payloads(batch)
  <2>1. DOMAIN batch = 1..Len(batch) /\ DOMAIN batch' = 1..Len(batch)
    BY <1>1, <1>5
  <2>2. \A i \in 1..Len(batch) : batch'[i].payload = batch[i].payload
    BY <1>1, <1>5, <1>6
  <2>3. [i \in 1..Len(batch) |-> batch'[i].payload] = [i \in 1..Len(batch) |-> batch[i].payload]
    BY <2>2
  <2> QED BY <2>1, <2>3 DEF Payloads
<1>13. /\ \A i \in 1..Len(pending') : pending'[i].op = "propose"
       /\ \A i \in 1..Len(batch') : batch'[i].op = "propose"
  <2>1. \A i \in 1..Len(pending) : pending[i] \in Request /\ pending[i].op = "propose"
    BY <1>1 DEF Basic, LoopInv
  <2>2. \A i \in 1..Len(batch) : batch[i] \in Request /\ batch[i].op = "propose"
    BY <1>1 DEF Basic, LoopInv
  <2>3. \A i \in 1..Len(pending') : pending'[i].op = "propose"
    BY <1>4, <1>6, <2>1
  <2>4. \A i \in 1..Len(batch') : batch'[i].op = "propose"
    BY <1>5, <1>6, <2>2
  <2> QED BY <2>3, <2>4
<1>14. LoopInv'
  <2>1. life' = life /\ phase' = phase /\ down' = down /\ Len(pending') = Len(pending)
    BY <1>2, <1>4 DEF downVars
  <2>2. Payloads(batch)' = Payloads(batch)
    BY <1>12 DEF Payloads
  <2> QED BY <1>7, <1>8, <1>11, <1>13, <2>1, <2>2 DEF Basic, LoopInv, Serving
<1> QED BY <1>9, <1>10, <1>14 DEF Basic

(* Steps that move nothing in line: a refused send, a dropped handle, the   *)
(* end of the loop.                                                         *)
LEMMA QuietBasic ==
  ASSUME Basic, \/ \E c \in Client, op \in {"propose", "sync"} : SendFails(c, op)
                \/ Drop \/ LoopExits
  PROVE  Basic'
<1>1. CASE \E c \in Client, op \in {"propose", "sync"} : SendFails(c, op)
  <2>1. PICK c \in Client, op \in {"propose", "sync"} : SendFails(c, op)
    BY <1>1
  <2>2. /\ UNCHANGED <<life, queue, loopVars, downVars, pc, known, proposed, local>>
        /\ result' = [result EXCEPT ![c] = Res(op, "error", 0)]
    BY <2>1 DEF SendFails
  <2>3. Res(op, "error", 0) \in [op : {"none", "propose", "sync"},
                                 tag : {"pending", "ok", "error"}, value : Nat]
    BY DEF Res
  <2>4. result' \in [Client -> [op : {"none", "propose", "sync"},
                                tag : {"pending", "ok", "error"}, value : Nat]]
    BY <2>2, <2>3 DEF Basic, TypeOK
  <2>5. TypeOK'
    BY <2>2, <2>4 DEF Basic, TypeOK, loopVars, downVars
  <2>6. DownInv'
    BY <2>2, DownKept DEF Basic, downVars
  <2>7. LoopInv'
    BY <2>2 DEF Basic, LoopInv, Serving, loopVars, downVars
  <2> QED BY <2>5, <2>6, <2>7 DEF Basic
<1>2. CASE Drop \/ LoopExits
  <2>1. /\ UNCHANGED <<queue, loopVars, downVars, clientVars, proposed, local>>
        /\ life' \in {"dropped", "exited"} /\ Serving
        /\ life' = "exited" => phase = "recv" /\ queue = <<>> /\ pending = <<>>
    BY <1>2 DEF Drop, LoopExits, Serving
  <2>2. TypeOK'
    BY <2>1 DEF Basic, TypeOK, loopVars, downVars, clientVars
  <2>3. DownInv'
    BY <2>1, DownKept DEF Basic, downVars
  <2>4. LoopInv'
    BY <2>1 DEF Basic, LoopInv, Serving, loopVars, downVars
  <2> QED BY <2>2, <2>3, <2>4 DEF Basic
<1> QED BY <1>1, <1>2

LEMMA AnswerTyped ==
  ASSUME TypeOK, NEW tos, NEW tag \in {"ok", "error"}, NEW value \in Nat,
         Answer(tos, tag, value)
  PROVE  /\ pc' \in [Client -> {"idle", "waiting"}] /\ known' = known
         /\ result' \in [Client -> [op : {"none", "propose", "sync"},
                                    tag : {"pending", "ok", "error"}, value : Nat]]
<1>1. pc' \in [Client -> {"idle", "waiting"}] /\ known' = known
  BY DEF Answer, TypeOK
<1>2. ASSUME NEW c \in Client
      PROVE  Res(result[c].op, tag, value) \in [op : {"none", "propose", "sync"},
                                                tag : {"pending", "ok", "error"}, value : Nat]
  BY DEF Res, TypeOK
<1>3. result' \in [Client -> [op : {"none", "propose", "sync"},
                              tag : {"pending", "ok", "error"}, value : Nat]]
  BY <1>2 DEF Answer, TypeOK
<1> QED BY <1>1, <1>3

LEMMA AbortBasic ==
  ASSUME Basic, Abort
  PROVE  Basic'
<1>1. /\ life' \in {"dead", "exited"} /\ UNCHANGED <<downVars, proposed, local>>
      /\ queue' = <<>> /\ pending' = <<>> /\ batch' = <<>> /\ syncReq' = NoReq /\ phase' = "recv"
      /\ \E tos : Answer(tos, "error", 0)
  BY DEF Abort
<1>2. NoReq \in Request /\ <<>> \in Seq(Request) /\ Len(<<>>) = 0
  BY EmptySeq, BoundsAssumption DEF NoReq, Request
<1>3. /\ pc' \in [Client -> {"idle", "waiting"}] /\ known' = known
      /\ result' \in [Client -> [op : {"none", "propose", "sync"},
                                 tag : {"pending", "ok", "error"}, value : Nat]]
  BY <1>1, AnswerTyped DEF Basic
<1>4. TypeOK'
  <2>1. Len(batch') <= MaxBatch
    BY <1>1, <1>2, BatchAssumption
  <2> QED BY <1>1, <1>2, <1>3, <2>1 DEF Basic, TypeOK, downVars
<1>5. DownInv'
  BY <1>1, DownKept DEF Basic, downVars
<1>6. LoopInv'
  BY <1>1, <1>2 DEF Basic, LoopInv, Serving
<1> QED BY <1>4, <1>5, <1>6 DEF Basic

(* What a batch carries: what was proposed here, in order. *)
LEMMA BatchCarries ==
  ASSUME Basic, LineInv, NEW rs, Flushes(rs)
  PROVE  /\ Payloads(rs) \in Seq(Payload) /\ Len(Payloads(rs)) = Len(rs) /\ Len(rs) \in Nat \ {0}
         /\ \A i \in 1..Len(rs) : Payloads(rs)[i] = rs[i].payload /\ rs[i].payload \in local
<1>1. rs \in Seq(Request) /\ rs # <<>>
  BY DEF Flushes
<1>2. DOMAIN rs = 1..Len(rs) /\ Len(rs) \in Nat \ {0}
  BY <1>1, EmptySeq
<1>3. \A i \in 1..Len(rs) : rs[i].payload \in local
  BY DEF Flushes, LineInv, LinePart
<1>4. Payloads(rs) = [i \in 1..Len(rs) |-> rs[i].payload]
  BY <1>2 DEF Payloads
<1>5. local \subseteq Payload
  BY DEF Basic, TypeOK
<1>6. Payloads(rs) \in [1..Len(rs) -> Payload]
  BY <1>3, <1>4, <1>5
<1> QED BY <1>2, <1>3, <1>4, <1>6

LEMMA LoopBasic ==
  ASSUME Basic, LineInv, Loop
  PROVE  Basic'
<1>1. /\ Serving /\ phase = "recv" /\ batch = <<>> /\ syncReq = NoReq /\ down.stage = "idle"
      /\ UNCHANGED <<life, log, applied, store, clientVars, proposed, local>>
      /\ queue' \in Seq(Request)
      /\ (\E rs : Flushes(rs)) \/ Gathers \/ Syncs
  BY LoopKinds DEF Basic
<1>2. Serving'
  BY <1>1 DEF Serving
<1>3. <<>> \in Seq(Request) /\ Len(<<>>) = 0
  BY EmptySeq
<1>4. CASE \E rs : Flushes(rs)
  <2>1. PICK rs : Flushes(rs)
    BY <1>4
  <2>2. /\ Payloads(rs) \in Seq(Payload) /\ Len(Payloads(rs)) = Len(rs) /\ Len(rs) \in Nat \ {0}
    BY <2>1, BatchCarries
  <2>3. PICK e : e = [batched |-> TRUE, count |-> Len(rs), payloads |-> Payloads(rs)]
    OBVIOUS
  <2>4. e \in LogEntry /\ e.payloads = Payloads(rs) /\ e.payloads # <<>>
    BY <1>3, <2>2, <2>3 DEF LogEntry
  <2>5. e \in [batched : BOOLEAN, count : Nat, payloads : Seq(Nat)]
    <3>1. Payload \subseteq Nat
      BY BoundsAssumption DEF Payload
    <3>2. Payloads(rs) \in Seq(Nat)
      BY <2>2, <3>1, SeqMonotonic
    <3> QED BY <2>2, <2>3, <3>2
  <2>6. /\ batch' = rs /\ pending' = <<>> /\ phase' = "flush" /\ down' = DownQueued("propose", e)
        /\ syncReq' \in Request /\ (syncReq' = NoReq \/ syncReq'.op = "sync")
        /\ rs \in Seq(Request) /\ rs # <<>> /\ (Len(rs) <= MaxBatch \/ Len(rs) = 1)
        /\ \A i \in 1..Len(rs) : rs[i].op = "propose"
    BY <2>1, <2>3 DEF Flushes, StartFlush, Drain
  <2>7. /\ down'.stage = "queued" /\ down'.op = "propose" /\ down'.entry = e /\ down'.target = 0
        /\ down' = [stage |-> "queued", op |-> "propose", entry |-> e, target |-> 0]
    BY <2>6 DEF DownQueued
  <2>8. TypeOK'
    BY <1>1, <1>3, <2>6, <2>7 DEF Basic, TypeOK, clientVars
  <2>9. DownInv'
    <3>1. 0 <= Len(log')
      BY <1>1 DEF Basic, TypeOK
    <3>2. down' \in [stage : {"idle", "queued", "play"}, op : {"none", "propose", "sync"},
             entry : [batched : BOOLEAN, count : Nat, payloads : Seq(Nat)], target : Nat]
      BY <2>5, <2>7
    <3> QED BY <2>4, <2>7, <3>1, <3>2 DEF DownInv
  <2>10. LoopInv'
    <3>1. down'.entry.payloads = Payloads(batch')
      BY <2>4, <2>6, <2>7
    <3>2. \A i \in 1..Len(pending') : pending'[i].op = "propose"
      BY <1>3, <2>6
    <3>3. \A i \in 1..Len(batch') : batch'[i].op = "propose"
      BY <2>6
    <3> QED BY <1>2, <2>6, <2>7, <3>1, <3>2, <3>3 DEF LoopInv, Working, Payloads
  <2> QED BY <2>8, <2>9, <2>10 DEF Basic
<1>5. CASE Gathers
  <2>1. TypeOK'
    BY <1>1, <1>5 DEF Basic, TypeOK, Gathers, clientVars
  <2>2. DownInv'
    BY <1>1, <1>5, DownKept DEF Basic, Gathers
  <2>3. /\ phase' = "recv" /\ batch' = <<>> /\ syncReq' = NoReq /\ down'.stage = "idle"
        /\ Len(pending') < MaxBatch
        /\ \A i \in 1..Len(pending') : pending'[i].op = "propose"
    BY <1>1, <1>5 DEF Gathers
  <2>4. LoopInv'
    BY <1>2, <1>3, <2>3 DEF LoopInv
  <2> QED BY <2>1, <2>2, <2>4 DEF Basic
<1>6. CASE Syncs
  <2>1. /\ pending' = <<>> /\ batch' = <<>> /\ phase' = "sync"
        /\ syncReq' \in Request /\ syncReq'.op = "sync"
        /\ down' = [stage |-> "queued", op |-> "sync", entry |-> Plain(0), target |-> 0]
    BY <1>1, <1>6 DEF Syncs, DownQueued
  <2>2. TypeOK'
    <3>1. Len(batch') <= MaxBatch
      BY <1>3, <2>1, BatchAssumption
    <3> QED BY <1>1, <1>3, <2>1, <3>1 DEF Basic, TypeOK, clientVars
  <2>3. DownInv'
    <3>1. 0 <= Len(log')
      BY <1>1 DEF Basic, TypeOK
    <3>2. down' \in [stage : {"idle", "queued", "play"}, op : {"none", "propose", "sync"},
             entry : [batched : BOOLEAN, count : Nat, payloads : Seq(Nat)], target : Nat]
      BY <2>1, PlainTyped
    <3> QED BY <2>1, <3>1, <3>2 DEF DownInv
  <2>4. syncReq' # NoReq
    BY <2>1 DEF NoReq
  <2>5. LoopInv'
    BY <1>2, <1>3, <2>1, <2>4 DEF LoopInv, Working
  <2> QED BY <2>2, <2>3, <2>5 DEF Basic
<1> QED BY <1>1, <1>4, <1>5, <1>6

LEMMA ReturnBasic ==
  ASSUME Basic, Returns
  PROVE  Basic'
<1>1. /\ UNCHANGED <<life, queue, pending, log, applied, store, proposed, local>>
      /\ down.stage \in Working
      /\ \E tag \in {"ok", "error"}, value \in Nat : Returned(tag, value)
  BY ReturnFacts DEF Basic
<1>2. PICK tag \in {"ok", "error"}, value \in Nat : Returned(tag, value)
  BY <1>1
<1>3. <<>> \in Seq(Request) /\ Len(<<>>) = 0 /\ NoReq \in Request /\ 0 <= Len(log')
  BY <1>1, EmptySeq, BoundsAssumption DEF NoReq, Request, Basic, TypeOK
<1>4. \/ batch' = <<>> /\ syncReq' = NoReq /\ phase' = "recv" /\ down' = DownIdle
      \/ /\ batch' = <<>> /\ syncReq' = syncReq /\ syncReq # NoReq
         /\ phase = "flush" /\ phase' = "sync" /\ down' = DownQueued("sync", Plain(0))
  BY <1>2 DEF Returned, Basic, TypeOK, LoopInv
<1>5. /\ pc' \in [Client -> {"idle", "waiting"}] /\ known' \in [Client -> SUBSET Payload]
      /\ result' \in [Client -> [op : {"none", "propose", "sync"},
                                 tag : {"pending", "ok", "error"}, value : Nat]]
  <2>1. (\E tos : Answer(tos, tag, value)) \/ UNCHANGED <<pc, result, known>>
    BY <1>2 DEF Returned, Basic, TypeOK, clientVars
  <2> QED BY <2>1, AnswerTyped DEF Basic, TypeOK
<1>6. /\ down' \in [stage : {"idle", "queued", "play"}, op : {"none", "propose", "sync"},
           entry : [batched : BOOLEAN, count : Nat, payloads : Seq(Nat)], target : Nat]
      /\ down'.target = 0 /\ down'.op # "propose"
      /\ down'.stage = "idle" \/ (down'.stage = "queued" /\ down'.op = "sync")
  <2>1. /\ DownIdle = [stage |-> "idle", op |-> "none", entry |-> Plain(0), target |-> 0]
        /\ DownQueued("sync", Plain(0)) =
             [stage |-> "queued", op |-> "sync", entry |-> Plain(0), target |-> 0]
    BY DEF DownIdle, DownQueued
  <2>2. PICK p : p = Plain(0) /\ p \in [batched : BOOLEAN, count : Nat, payloads : Seq(Nat)]
    BY PlainTyped
  <2>3. CASE down' = DownIdle
    BY <2>1, <2>2, <2>3
  <2>4. CASE down' = DownQueued("sync", Plain(0))
    BY <2>1, <2>2, <2>4
  <2> QED BY <1>4, <2>3, <2>4
<1>7. TypeOK'
  <2>1. batch' = <<>> /\ Len(batch') <= MaxBatch
    BY <1>3, <1>4, BatchAssumption
  <2>2. syncReq' \in Request /\ phase' \in {"recv", "flush", "sync"}
    BY <1>3, <1>4 DEF Basic, TypeOK
  <2> QED BY <1>1, <1>3, <1>5, <1>6, <2>1, <2>2 DEF Basic, TypeOK
<1>8. DownInv'
  BY <1>3, <1>6 DEF DownInv
<1>9. LoopInv'
  <2>1. CASE batch' = <<>> /\ syncReq' = NoReq /\ phase' = "recv" /\ down' = DownIdle
    <3>1. down'.stage = "idle"
      BY <2>1 DEF DownIdle
    <3> QED BY <1>1, <1>3, <2>1, <3>1 DEF Basic, LoopInv, Serving
  <2>2. CASE /\ batch' = <<>> /\ syncReq' = syncReq /\ syncReq # NoReq
             /\ phase = "flush" /\ phase' = "sync" /\ down' = DownQueued("sync", Plain(0))
    <3>1. down'.stage = "queued" /\ down'.op = "sync"
      BY <2>2 DEF DownQueued
    <3>2. Serving /\ pending = <<>> /\ syncReq.op = "sync"
      BY <2>2 DEF Basic, LoopInv
    <3> QED BY <1>1, <1>3, <2>2, <3>1, <3>2 DEF LoopInv, Serving, Working
  <2> QED BY <1>4, <2>1, <2>2
<1> QED BY <1>7, <1>8, <1>9 DEF Basic

(* An entry is put at the end of the log. *)
LEMMA LogAppended ==
  ASSUME TypeOK, NEW e \in LogEntry, log' = Append(log, e)
  PROVE  /\ log' \in Seq(LogEntry) /\ Len(log) \in Nat /\ Len(log') = Len(log) + 1
         /\ \A i \in 1..Len(log) : log'[i] = log[i]
         /\ log'[Len(log) + 1] = e
         /\ applied \in 0..Len(log')
<1>1. log \in Seq(LogEntry) /\ applied \in 0..Len(log)
  BY DEF TypeOK
<1>2. /\ log' \in Seq(LogEntry) /\ Len(log) \in Nat /\ Len(log') = Len(log) + 1
      /\ \A i \in 1..Len(log) : log'[i] = log[i]
      /\ log'[Len(log) + 1] = e
  BY <1>1, AppendProperties, LenProperties
<1>3. applied \in 0..Len(log')
  BY <1>1, <1>2
<1> QED BY <1>2, <1>3

LEMMA AppendBasic ==
  ASSUME Basic, DownAppend
  PROVE  /\ Basic' /\ down.entry \in LogEntry /\ log' = Append(log, down.entry)
         /\ down'.stage = "play" /\ down'.op = "propose" /\ down'.entry = down.entry
         /\ Line' = Line /\ UNCHANGED <<life, loopVars, clientVars, proposed, local>>
<1>1. /\ down.stage = "queued" /\ down.op = "propose" /\ log' = Append(log, down.entry)
      /\ down' = [down EXCEPT !.stage = "play", !.target = Len(log) + 1]
      /\ UNCHANGED <<life, queue, loopVars, applied, store, clientVars, proposed, local>>
  BY DEF DownAppend
<1>2. /\ down.entry \in LogEntry /\ down.entry.payloads # <<>>
      /\ down \in [stage : {"idle", "queued", "play"}, op : {"none", "propose", "sync"},
            entry : [batched : BOOLEAN, count : Nat, payloads : Seq(Nat)], target : Nat]
  BY <1>1 DEF Basic, DownInv
<1>3. /\ log' \in Seq(LogEntry) /\ Len(log) \in Nat /\ Len(log') = Len(log) + 1
      /\ log'[Len(log) + 1] = down.entry /\ applied \in 0..Len(log')
  BY <1>1, <1>2, LogAppended DEF Basic
<1>4. /\ down'.stage = "play" /\ down'.op = "propose" /\ down'.entry = down.entry
      /\ down'.target = Len(log) + 1
      /\ down' \in [stage : {"idle", "queued", "play"}, op : {"none", "propose", "sync"},
            entry : [batched : BOOLEAN, count : Nat, payloads : Seq(Nat)], target : Nat]
  <2>1. PICK n \in Nat : n = Len(log) + 1
    BY <1>3
  <2>2. down' = [down EXCEPT !.stage = "play", !.target = n]
    BY <1>1, <2>1
  <2>3. /\ down'.stage = "play" /\ down'.op = "propose" /\ down'.entry = down.entry
        /\ down'.target = n
    BY <1>1, <1>2, <2>2
  <2>4. down' \in [stage : {"idle", "queued", "play"}, op : {"none", "propose", "sync"},
            entry : [batched : BOOLEAN, count : Nat, payloads : Seq(Nat)], target : Nat]
    BY <1>2, <2>2
  <2> QED BY <2>1, <2>3, <2>4
<1>5. TypeOK'
  BY <1>1, <1>3, <1>4 DEF Basic, TypeOK, loopVars, clientVars
<1>6. DownInv'
  <2>1. down'.target <= Len(log') /\ down'.target >= 1 /\ log'[down'.target] = down'.entry
    BY <1>3, <1>4
  <2> QED BY <1>2, <1>4, <2>1 DEF DownInv
<1>7. LoopInv'
  BY <1>1, <1>4 DEF Basic, LoopInv, Serving, Working, loopVars, Payloads
<1>8. Line' = Line
  BY <1>1 DEF Line, Held, loopVars
<1> QED BY <1>1, <1>2, <1>4, <1>5, <1>6, <1>7, <1>8 DEF Basic

LEMMA TailBasic ==
  ASSUME Basic, DownTail
  PROVE  /\ Basic' /\ down'.stage = "play" /\ down'.op = "sync" /\ down'.target = Len(log)
         /\ Line' = Line /\ UNCHANGED <<life, loopVars, log, clientVars, proposed, local>>
<1>1. /\ down.stage = "queued" /\ down.op = "sync"
      /\ down' = [down EXCEPT !.stage = "play", !.target = Len(log)]
      /\ UNCHANGED <<life, queue, loopVars, log, applied, store, clientVars, proposed, local>>
  BY DEF DownTail
<1>2. Len(log) \in Nat
  BY DEF Basic, TypeOK
<1>3. down \in [stage : {"idle", "queued", "play"}, op : {"none", "propose", "sync"},
            entry : [batched : BOOLEAN, count : Nat, payloads : Seq(Nat)], target : Nat]
  BY DEF Basic, DownInv
<1>4. /\ down'.stage = "play" /\ down'.op = "sync" /\ down'.target = Len(log)
      /\ down'.entry = down.entry
      /\ down' \in [stage : {"idle", "queued", "play"}, op : {"none", "propose", "sync"},
            entry : [batched : BOOLEAN, count : Nat, payloads : Seq(Nat)], target : Nat]
  BY <1>1, <1>2, <1>3
<1>5. TypeOK'
  BY <1>1, <1>4 DEF Basic, TypeOK, loopVars, clientVars
<1>6. DownInv'
  <2>1. down'.target <= Len(log')
    BY <1>1, <1>2, <1>4
  <2> QED BY <1>4, <2>1 DEF DownInv
<1>7. LoopInv'
  BY <1>1, <1>4 DEF Basic, LoopInv, Serving, Working, loopVars
<1>8. Line' = Line
  BY <1>1 DEF Line, Held, loopVars
<1> QED BY <1>1, <1>4, <1>5, <1>6, <1>7, <1>8 DEF Basic

LEMMA EntryTyped ==
  ASSUME NEW e \in LogEntry
  PROVE  /\ e.payloads \in Seq(Payload) /\ Len(e.payloads) \in Nat
         /\ DOMAIN e.payloads = 1..Len(e.payloads)
         /\ \A k \in 1..Len(e.payloads) : e.payloads[k] \in Payload /\ e.payloads[k] \in Nat
<1>1. e.payloads \in Seq(Payload)
  BY DEF LogEntry
<1>2. PICK s \in Seq(Payload) : s = e.payloads
  BY <1>1
<1>3. Len(s) \in Nat /\ DOMAIN s = 1..Len(s) /\ \A k \in 1..Len(s) : s[k] \in Payload
  BY LenProperties, ElementOfSeq
<1>4. \A x \in Payload : x \in Nat
  BY BoundsAssumption DEF Payload
<1> QED BY <1>1, <1>2, <1>3, <1>4

LEMMA LogTyped ==
  ASSUME TypeOK, NEW i \in 1..Len(log)
  PROVE  log[i] \in LogEntry
BY ElementOfSeq DEF TypeOK

LEMMA ApplyBasic ==
  ASSUME Basic, DownApply
  PROVE  /\ Basic' /\ applied + 1 \in 1..Len(log) /\ ~Fails(log[applied + 1])
         /\ store' = store \o log[applied + 1].payloads /\ applied' = applied + 1
         /\ Line' = Line /\ UNCHANGED <<life, loopVars, down, log, clientVars, proposed, local>>
<1>1. /\ down.stage = "play" /\ ~Played /\ ~Fails(log[applied + 1])
      /\ store' = store \o log[applied + 1].payloads /\ applied' = applied + 1
      /\ UNCHANGED <<life, queue, loopVars, down, log, clientVars, proposed, local>>
  BY DEF DownApply
<1>2. /\ Len(log) \in Nat /\ applied \in 0..Len(log) /\ log \in Seq(LogEntry) /\ store \in Seq(Payload)
      /\ down.target \in Nat /\ down.target <= Len(log)
  BY DEF Basic, TypeOK, DownInv
<1>3. applied + 1 \in 1..Len(log)
  BY <1>1, <1>2 DEF Played
<1>4. log[applied + 1].payloads \in Seq(Payload)
  <2>1. log[applied + 1] \in LogEntry
    BY <1>2, <1>3, ElementOfSeq
  <2> QED BY <2>1, EntryTyped
<1>5. store' \in Seq(Payload)
  BY <1>1, <1>2, <1>4, ConcatProperties
<1>6. TypeOK'
  <2>1. applied' \in 0..Len(log')
    BY <1>1, <1>2, <1>3
  <2> QED BY <1>1, <1>5, <2>1 DEF Basic, TypeOK, loopVars, clientVars
<1>7. DownInv'
  BY <1>1, DownKept DEF Basic
<1>8. LoopInv'
  BY <1>1 DEF Basic, LoopInv, Serving, loopVars
<1>9. Line' = Line
  BY <1>1 DEF Line, Held, loopVars
<1> QED BY <1>1, <1>3, <1>6, <1>7, <1>8, <1>9 DEF Basic

LEMMA RemoteBasic ==
  ASSUME Basic, RemoteAppend
  PROVE  /\ Basic' /\ Line' = Line /\ proposed' = proposed + 1
         /\ UNCHANGED <<life, loopVars, down, applied, store, clientVars, local>>
         /\ \E e \in LogEntry : e.payloads = <<proposed + 1>> /\ log' = Append(log, e)
<1>1. /\ proposed < MaxProposals /\ proposed' = proposed + 1
      /\ UNCHANGED <<life, queue, loopVars, down, applied, store, clientVars, local>>
  BY DEF RemoteAppend
<1>2. PICK b \in BOOLEAN :
        log' = Append(log, [batched |-> b, count |-> IF b THEN 1 ELSE 0,
                            payloads |-> <<proposed + 1>>])
  BY DEF RemoteAppend
<1>3. PICK e : e = [batched |-> b, count |-> IF b THEN 1 ELSE 0, payloads |-> <<proposed + 1>>]
  OBVIOUS
<1>4. proposed \in 0..MaxProposals /\ proposed + 1 \in Payload /\ proposed' \in 0..MaxProposals
  BY <1>1, BoundsAssumption DEF Basic, TypeOK, Payload
<1>5. <<proposed + 1>> \in Seq(Payload) /\ (IF b THEN 1 ELSE 0) \in Nat
  BY <1>4
<1>6. e \in LogEntry /\ e.payloads = <<proposed + 1>> /\ log' = Append(log, e)
  BY <1>2, <1>3, <1>5 DEF LogEntry
<1>7. /\ log' \in Seq(LogEntry) /\ applied \in 0..Len(log') /\ Len(log) \in Nat
      /\ Len(log') = Len(log) + 1 /\ \A i \in 1..Len(log) : log'[i] = log[i]
  BY <1>6, LogAppended DEF Basic
<1>8. TypeOK'
  BY <1>1, <1>4, <1>7 DEF Basic, TypeOK, loopVars, clientVars
<1>9. DownInv'
  <2>1. down' = down /\ down.target \in Nat /\ down.target <= Len(log)
    BY <1>1 DEF Basic, DownInv
  <2>2. down.target <= Len(log')
    BY <1>7, <2>1
  <2>3. ASSUME down.stage = "play", down.op = "propose"
        PROVE  down.target >= 1 /\ log'[down.target] = down.entry
    <3>1. down.target >= 1 /\ log[down.target] = down.entry
      BY <2>3 DEF Basic, DownInv
    <3>2. down.target \in 1..Len(log)
      BY <1>7, <2>1, <3>1
    <3> QED BY <1>7, <3>1, <3>2
  <2> QED BY <2>1, <2>2, <2>3 DEF Basic, DownInv
<1>10. LoopInv'
  BY <1>1 DEF Basic, LoopInv, Serving, loopVars
<1>11. Line' = Line
  BY <1>1 DEF Line, Held, loopVars
<1> QED BY <1>1, <1>6, <1>8, <1>9, <1>10, <1>11 DEF Basic

LEMMA ProposeFacts ==
  ASSUME Basic, NEW c \in Client, Propose(c)
  PROVE  /\ Send(c, "propose", proposed + 1) /\ proposed + 1 \in Payload
         /\ proposed' = proposed + 1 /\ local' = local \cup {proposed + 1}
         /\ proposed' \in 0..MaxProposals /\ local' \subseteq Payload
<1>1. /\ Send(c, "propose", proposed + 1) /\ proposed < MaxProposals
      /\ proposed' = proposed + 1 /\ local' = local \cup {proposed + 1}
  BY DEF Propose
<1>2. proposed + 1 \in Payload /\ proposed' \in 0..MaxProposals /\ local \subseteq Payload
  BY <1>1, BoundsAssumption DEF Basic, TypeOK, Payload
<1> QED BY <1>1, <1>2

LEMMA BasicStep ==
  ASSUME Basic, LineInv, Next
  PROVE  Basic'
<1>1. ASSUME NEW c \in Client, Propose(c) PROVE Basic'
  <2>1. proposed + 1 \in 0..MaxProposals
    BY <1>1, ProposeFacts, BoundsAssumption DEF Payload
  <2> QED BY <1>1, <2>1, ProposeFacts, SendBasic
<1>2. ASSUME NEW c \in Client, Sync(c) PROVE Basic'
  <2>1. /\ Send(c, "sync", 0) /\ 0 \in 0..MaxProposals
        /\ proposed' \in 0..MaxProposals /\ local' \subseteq Payload
    BY <1>2, BoundsAssumption DEF Sync, Basic, TypeOK
  <2> QED BY <2>1, SendBasic
<1>3. ASSUME NEW c \in Client, Cancel(c) PROVE Basic'
  BY <1>3, CancelBasic
<1>4. ASSUME NEW c \in Client, NEW op \in {"propose", "sync"}, SendFails(c, op) PROVE Basic'
  BY <1>4, QuietBasic
<1>5. CASE Drop \/ LoopExits
  BY <1>5, QuietBasic
<1>6. CASE Abort
  BY <1>6, AbortBasic
<1>7. CASE Loop
  BY <1>7, LoopBasic
<1>8. CASE Down
  BY <1>8, AppendBasic, TailBasic, ApplyBasic, ReturnBasic DEF Down, Returns
<1>9. CASE RemoteAppend
  BY <1>9, RemoteBasic
<1> QED BY <1>1, <1>2, <1>3, <1>4, <1>5, <1>6, <1>7, <1>8, <1>9 DEF Next
-------------------------------------------------------------------------------
(* The store *)

LEMMA PrefixPayloads ==
  ASSUME TypeOK, NEW k \in 0..Len(log)
  PROVE  [i \in 1..k |-> log[i].payloads] \in Seq(Seq(Payload))
<1>1. k \in Nat /\ \A i \in 1..k : i \in 1..Len(log)
  BY DEF TypeOK
<1>2. \A i \in 1..k : log[i].payloads \in Seq(Payload)
  BY <1>1, LogTyped, EntryTyped
<1>3. [i \in 1..k |-> log[i].payloads] \in [1..k -> Seq(Payload)]
  BY <1>2
<1> QED BY <1>1, <1>3

LEMMA ApplyStores ==
  ASSUME Basic, BatchesAreAtomic, DownApply
  PROVE  BatchesAreAtomic'
<1>1. /\ applied + 1 \in 1..Len(log) /\ ~Fails(log[applied + 1]) /\ log' = log
      /\ store' = store \o log[applied + 1].payloads /\ applied' = applied + 1
  BY ApplyBasic
<1>2. PICK n \in Nat : n = applied /\ n \in 0..Len(log) /\ Len(log) \in Nat
  BY DEF Basic, TypeOK
<1>3. PICK p, q, s : /\ p = [i \in 1..n |-> log[i].payloads]
                     /\ q = [i \in 1..(n + 1) |-> log[i].payloads]
                     /\ s = log[n + 1].payloads
  OBVIOUS
<1>4. p \in Seq(Seq(Payload)) /\ q \in Seq(Seq(Payload)) /\ s \in Seq(Payload)
  <2>1. n \in 0..Len(log) /\ n + 1 \in 0..Len(log) /\ n + 1 \in 1..Len(log)
    BY <1>1, <1>2
  <2>2. log[n + 1] \in LogEntry
    BY <2>1 DEF Basic, TypeOK
  <2> QED BY <1>3, <2>1, <2>2, PrefixPayloads DEF Basic, LogEntry
<1>5. Len(p) = n /\ Len(q) = n + 1
  BY <1>3, <1>4
<1>6. q = Append(p, s)
  <2>1. PICK t : t = Append(p, s)
    OBVIOUS
  <2>2. /\ t \in Seq(Seq(Payload)) /\ Len(t) = n + 1
        /\ \A i \in 1..n : t[i] = p[i]
        /\ t[n + 1] = s
    BY <1>4, <1>5, <2>1, AppendProperties
  <2>3. ASSUME NEW i \in 1..(n + 1) PROVE q[i] = t[i]
    <3>1. CASE i = n + 1
      BY <1>3, <2>2, <3>1
    <3>2. CASE i # n + 1
      <4>1. i \in 1..n
        BY <3>2
      <4> QED BY <1>3, <2>2, <4>1
    <3> QED BY <3>1, <3>2
  <2>4. q = t
    BY <1>4, <1>5, <2>2, <2>3, SeqEqual
  <2> QED BY <2>1, <2>4
<1>7. FlattenSeq(q) = FlattenSeq(p) \o s
  BY <1>4, <1>6, FlattenAppend
<1>8. store = FlattenSeq(p)
  BY <1>2, <1>3 DEF BatchesAreAtomic
<1>9. store' = FlattenSeq(q)
  BY <1>1, <1>2, <1>3, <1>7, <1>8
<1>10. store' = FlattenSeq([i \in 1..applied' |-> log'[i].payloads])
  BY <1>1, <1>2, <1>3, <1>9
<1>11. ASSUME NEW i \in 1..(n + 1) PROVE \A j \in DOMAIN log[i].payloads : log[i].payloads[j] \notin Rejected
  <2>1. CASE i = n + 1
    BY <1>1, <1>2, <2>1 DEF Fails
  <2>2. CASE i # n + 1
    <3>1. i \in 1..applied
      BY <1>2, <2>2
    <3> QED BY <3>1 DEF BatchesAreAtomic
  <2> QED BY <2>1, <2>2
<1> QED BY <1>1, <1>2, <1>10, <1>11 DEF BatchesAreAtomic

LEMMA StoreStep ==
  ASSUME Basic, BatchesAreAtomic, Next
  PROVE  BatchesAreAtomic'
<1>1. CASE UNCHANGED <<store, applied, log>>
  BY <1>1 DEF BatchesAreAtomic
<1>2. CASE DownApply
  BY <1>2, ApplyStores
<1>3. ASSUME NEW e \in LogEntry, log' = Append(log, e), UNCHANGED <<store, applied>>
      PROVE  BatchesAreAtomic'
  <2>1. \A i \in 1..applied : log'[i] = log[i]
    <3>1. applied \in 0..Len(log) /\ Len(log) \in Nat
      BY DEF Basic, TypeOK
    <3>2. \A i \in 1..applied : i \in 1..Len(log)
      BY <3>1
    <3> QED BY <1>3, <3>2, LogAppended DEF Basic
  <2>2. [i \in 1..applied |-> log'[i].payloads] = [i \in 1..applied |-> log[i].payloads]
    BY <2>1
  <2> QED BY <1>3, <2>1, <2>2 DEF BatchesAreAtomic
<1>4. CASE DownAppend
  BY <1>3, <1>4, AppendBasic DEF DownAppend
<1>5. CASE RemoteAppend
  <2>1. \E e \in LogEntry : log' = Append(log, e)
    BY <1>5, RemoteBasic
  <2> QED BY <1>3, <1>5, <2>1, RemoteBasic
<1>6. CASE Returns
  BY <1>1, <1>6 DEF Returns, DownRefuses, DownReadFails, DownApplyFails, DownReply
<1>7. CASE DownTail
  BY <1>1, <1>7 DEF DownTail
<1>8. CASE Loop
  BY <1>1, <1>8, LoopKinds DEF Basic
<1>9. CASE Drop \/ LoopExits \/ Abort
  BY <1>1, <1>9 DEF Drop, LoopExits, Abort, downVars
<1>10. ASSUME NEW c \in Client,
              \/ Propose(c) \/ Sync(c) \/ Cancel(c)
              \/ \E op \in {"propose", "sync"} : SendFails(c, op)
       PROVE  BatchesAreAtomic'
  BY <1>1, <1>10 DEF Propose, Sync, Send, Cancel, SendFails, downVars
<1> QED BY <1>2, <1>4, <1>5, <1>6, <1>7, <1>8, <1>9, <1>10 DEF Next, Down, Returns
-------------------------------------------------------------------------------
(* The line keeps its order *)

LEMMA LineStays ==
  ASSUME Basic, LineInv, Line' = Line, UNCHANGED <<pc, known, local>>,
         \A c \in Client : pc[c] = "waiting" => result'[c] = result[c],
         proposed' \in Nat, proposed <= proposed'
  PROVE  LineInv'
<1>1. ASSUME NEW i \in 1..Len(Line) PROVE LinePart(i)'
  BY <1>1 DEF LineInv, LinePart
<1>2. ASSUME NEW i \in 1..Len(Line), NEW j \in 1..Len(Line), i < j PROVE PairPart(i, j)'
  BY <1>2 DEF LineInv, PairPart
<1>3. local' \subseteq 1..proposed'
  <2>1. proposed \in Nat /\ local \subseteq 1..proposed /\ local' = local
    BY DEF Basic, TypeOK, LineInv
  <2> QED BY <2>1
<1> QED BY <1>1, <1>2, <1>3 DEF LineInv

LEMMA LineSends ==
  ASSUME Basic, LineInv, NEW c \in Client, NEW op \in {"propose", "sync"},
         NEW n \in 0..MaxProposals, Send(c, op, n), n \notin local,
         op = "sync" => n = 0, op = "propose" => n = proposed + 1 /\ n \in local',
         local \subseteq local', local' \subseteq 1..proposed'
  PROVE  LineInv'
<1>1. PICK r : r = [to |-> c, op |-> op, payload |-> n]
  OBVIOUS
<1>2. r \in Request /\ r.to = c /\ r.op = op /\ r.payload = n
  BY <1>1 DEF Request
<1>3. /\ pc[c] = "idle" /\ queue' = Append(queue, r) /\ UNCHANGED loopVars
      /\ pc' = [pc EXCEPT ![c] = "waiting"]
      /\ result' = [result EXCEPT ![c] = Res(op, "pending", n)]
      /\ known' = [known EXCEPT ![c] = local]
  BY <1>1 DEF Send
<1>4. PICK m \in Nat : m = Len(Line)
  BY LineFactsHold DEF Basic, LineFacts
<1>5. /\ Len(Line') = m + 1 /\ Line'[m + 1] = r
      /\ \A i \in 1..m : Line'[i] = Line[i]
  BY <1>2, <1>3, <1>4, LineSent DEF Basic
<1>6. /\ pc \in [Client -> {"idle", "waiting"}] /\ DOMAIN result = Client
      /\ known \in [Client -> SUBSET Payload] /\ proposed \in Nat
  BY DEF Basic, TypeOK
<1>7. \A i \in 1..m : LinePart(i)
  BY <1>4 DEF LineInv
<1>8. \A i \in 1..m : Line[i].to # c
  BY <1>3, <1>7 DEF LinePart
<1>9. /\ pc'[c] = "waiting" /\ result'[c] = Res(op, "pending", n) /\ known'[c] = local
      /\ \A e \in Client : e # c => pc'[e] = pc[e] /\ result'[e] = result[e] /\ known'[e] = known[e]
  BY <1>3, <1>6
<1>10. ASSUME NEW i \in 1..m PROVE LinePart(i)'
  <2>1. LinePart(i) /\ Line'[i] = Line[i] /\ Line[i].to # c
    BY <1>5, <1>7, <1>8
  <2> QED BY <1>9, <2>1 DEF LinePart
<1>11. LinePart(m + 1)'
  BY <1>2, <1>5, <1>9 DEF LinePart
<1>12. ASSUME NEW i \in 1..m, NEW j \in 1..m, i < j PROVE PairPart(i, j)'
  <2>1. PairPart(i, j) /\ Line'[i] = Line[i] /\ Line'[j] = Line[j] /\ Line[i].to # c
    BY <1>4, <1>5, <1>8, <1>12 DEF LineInv
  <2> QED BY <1>9, <2>1 DEF PairPart
<1>13. ASSUME NEW i \in 1..m PROVE PairPart(i, m + 1)'
  <2>1. LinePart(i) /\ Line'[i] = Line[i] /\ Line[i].to # c
    BY <1>5, <1>7, <1>8
  <2>2. ASSUME Line[i].op = "propose", op = "propose" PROVE Line[i].payload < n
    <3>1. Line[i].payload \in 1..proposed /\ n = proposed + 1
      BY <2>1, <2>2 DEF LinePart, LineInv
    <3> QED BY <1>6, <3>1
  <2>3. ASSUME Line[i].to \in Client PROVE n \notin known'[Line[i].to]
    BY <1>9, <2>1, <2>3 DEF LineInv
  <2> QED BY <1>2, <1>5, <2>1, <2>2, <2>3 DEF PairPart
<1>14. \A i \in 1..Len(Line') : LinePart(i)'
  <2>1. \A i \in 1..(m + 1) : i \in 1..m \/ i = m + 1
    OBVIOUS
  <2> QED BY <1>5, <1>10, <1>11, <2>1
<1>15. \A i, j \in 1..Len(Line') : i < j => PairPart(i, j)'
  <2>1. \A i, j \in 1..(m + 1) : i < j => i \in 1..m /\ (j \in 1..m \/ j = m + 1)
    OBVIOUS
  <2> QED BY <1>5, <1>12, <1>13, <2>1
<1>16. ASSUME NEW e \in Client
       PROVE  (pc'[e] = "waiting" => result'[e].tag = "pending") /\ known'[e] \subseteq local'
  <2>1. CASE e = c
    <3>1. result'[e].tag = "pending"
      BY <1>9, <2>1 DEF Res
    <3> QED BY <1>9, <2>1, <3>1
  <2>2. CASE e # c
    BY <1>9, <2>2 DEF LineInv
  <2> QED BY <2>1, <2>2
<1> QED BY <1>14, <1>15, <1>16 DEF LineInv

LEMMA LineCancels ==
  ASSUME Basic, LineInv, NEW c \in Client, Cancel(c)
  PROVE  LineInv'
<1>1. /\ Len(Line') = Len(Line)
      /\ \A i \in 1..Len(Line) : Line'[i] = Forget(Line[i], c)
  BY LineForgets DEF Basic
<1>2. /\ pc' = [pc EXCEPT ![c] = "idle"] /\ UNCHANGED <<result, known, local, proposed>>
      /\ pc \in [Client -> {"idle", "waiting"}]
  BY DEF Cancel, Basic, TypeOK
<1>3. \A i \in 1..Len(Line) : Line[i] \in Request
  BY LineFactsHold DEF Basic, LineFacts
<1>4. \A q \in Request : /\ Forget(q, c).op = q.op /\ Forget(q, c).payload = q.payload
                         /\ Forget(q, c).to = IF q.to = c THEN NoOne ELSE q.to
  BY DEF Forget, Request
<1>5. \A i \in 1..Len(Line) :
        /\ Line'[i].op = Line[i].op /\ Line'[i].payload = Line[i].payload
        /\ Line'[i].to \in Client => Line'[i].to = Line[i].to /\ Line[i].to # c
  BY <1>1, <1>3, <1>4, NoOneAssumption
<1>6. pc'[c] = "idle" /\ \A e \in Client : e # c => pc'[e] = pc[e]
  BY <1>2
<1>7. ASSUME NEW i \in 1..Len(Line) PROVE LinePart(i)'
  <2>1. LinePart(i)
    BY DEF LineInv
  <2> QED BY <1>2, <1>5, <1>6, <2>1 DEF LinePart
<1>8. ASSUME NEW i \in 1..Len(Line), NEW j \in 1..Len(Line), i < j PROVE PairPart(i, j)'
  <2>1. PairPart(i, j)
    BY <1>8 DEF LineInv
  <2>2. ASSUME Line'[i].to \in Client PROVE Line'[j].to # Line'[i].to
    BY <1>5, <2>1, <2>2 DEF PairPart
  <2> QED BY <1>2, <1>5, <2>1, <2>2 DEF PairPart
<1>9. \A e \in Client : pc'[e] = "waiting" => result'[e].tag = "pending"
  BY <1>2, <1>6 DEF LineInv
<1> QED BY <1>1, <1>2, <1>7, <1>8, <1>9 DEF LineInv

LEMMA LineServes ==
  ASSUME Basic, LineInv, NEW d \in Nat, Serves(d), UNCHANGED <<local, proposed>>
  PROVE  LineInv'
<1>1. PICK m \in Nat : m = Len(Line)
  BY LineFactsHold DEF Basic, LineFacts
<1>2. /\ d <= m /\ Len(Line') = m - d
      /\ \A i \in 1..(m - d) : Line'[i] = Line[i + d]
      /\ \A c \in Client : \/ pc'[c] = pc[c] /\ result'[c] = result[c]
                           \/ pc'[c] = "idle" /\ \E i \in 1..d : Line[i].to = c
      /\ known' = known
  BY <1>1 DEF Serves
<1>3. \A i \in 1..(m - d) : i + d \in 1..m
  BY <1>2
<1>4. ASSUME NEW i \in 1..(m - d), Line[i + d].to \in Client
      PROVE  LET c == Line[i + d].to IN pc'[c] = pc[c] /\ result'[c] = result[c]
  <2>1. ASSUME NEW k \in 1..d PROVE Line[k].to # Line[i + d].to
    <3>1. k \in 1..m /\ i + d \in 1..m /\ k < i + d
      BY <1>2, <1>3
    <3>2. PairPart(k, i + d)
      BY <1>1, <3>1 DEF LineInv
    <3> QED BY <1>4, <3>2 DEF PairPart
  <2> QED BY <1>2, <1>4, <2>1
<1>5. ASSUME NEW i \in 1..(m - d) PROVE LinePart(i)'
  <2>1. LinePart(i + d) /\ Line'[i] = Line[i + d]
    BY <1>1, <1>2, <1>3 DEF LineInv
  <2> QED BY <1>2, <1>4, <2>1 DEF LinePart
<1>6. ASSUME NEW i \in 1..(m - d), NEW j \in 1..(m - d), i < j PROVE PairPart(i, j)'
  <2>1. i + d < j + d
    BY <1>6
  <2>2. PairPart(i + d, j + d) /\ Line'[i] = Line[i + d] /\ Line'[j] = Line[j + d]
    BY <1>1, <1>2, <1>3, <2>1 DEF LineInv
  <2> QED BY <1>2, <2>2 DEF PairPart
<1>7. \A c \in Client : pc'[c] = "waiting" => result'[c].tag = "pending"
  BY <1>2 DEF LineInv
<1> QED BY <1>2, <1>5, <1>6, <1>7 DEF LineInv

LEMMA LineStep ==
  ASSUME Basic, LineInv, Next
  PROVE  LineInv'
<1>1. proposed \in Nat /\ local \subseteq 1..proposed /\ proposed <= proposed
  BY DEF Basic, TypeOK, LineInv
<1>2. ASSUME NEW c \in Client, Propose(c) PROVE LineInv'
  <2>1. PICK n : n = proposed + 1
    OBVIOUS
  <2>2. /\ Send(c, "propose", n) /\ local' = local \cup {n} /\ proposed' = n
        /\ n \in 0..MaxProposals
    BY <1>2, <2>1, ProposeFacts, BoundsAssumption DEF Payload
  <2>3. n \notin local /\ local \subseteq local' /\ local' \subseteq 1..proposed' /\ n \in local'
    BY <1>1, <2>1, <2>2
  <2> QED BY <2>1, <2>2, <2>3, LineSends
<1>3. ASSUME NEW c \in Client, Sync(c) PROVE LineInv'
  <2>1. Send(c, "sync", 0) /\ local' = local /\ proposed' = proposed /\ 0 \in 0..MaxProposals
    BY <1>3, BoundsAssumption DEF Sync
  <2>2. 0 \notin local /\ local \subseteq local' /\ local' \subseteq 1..proposed'
    BY <1>1, <2>1
  <2> QED BY <2>1, <2>2, LineSends
<1>4. ASSUME NEW c \in Client, Cancel(c) PROVE LineInv'
  BY <1>4, LineCancels
<1>5. ASSUME NEW c \in Client, NEW op \in {"propose", "sync"}, SendFails(c, op) PROVE LineInv'
  <2>1. /\ UNCHANGED <<queue, loopVars, pc, known, proposed, local>> /\ pc[c] = "idle"
        /\ result' = [result EXCEPT ![c] = Res(op, "error", 0)]
    BY <1>5 DEF SendFails
  <2>2. Line' = Line
    BY <2>1 DEF Line, Held, loopVars
  <2>3. \A e \in Client : pc[e] = "waiting" => result'[e] = result[e]
    BY <2>1 DEF Basic, TypeOK
  <2> QED BY <1>1, <2>1, <2>2, <2>3, LineStays
<1>6. CASE Drop \/ LoopExits
  <2>1. UNCHANGED <<queue, loopVars, clientVars, proposed, local>>
    BY <1>6 DEF Drop, LoopExits
  <2>2. Line' = Line
    BY <2>1 DEF Line, Held, loopVars
  <2> QED BY <1>1, <2>1, <2>2, LineStays DEF clientVars
<1>7. CASE Abort
  <2>1. UNCHANGED <<local, proposed>>
    BY <1>7 DEF Abort
  <2> QED BY <1>7, <2>1, AbortServes, LineServes DEF Basic
<1>8. CASE Loop
  <2>1. UNCHANGED <<clientVars, proposed, local>> /\ Line' = Line
    BY <1>8, LoopKinds, LineMoves DEF Basic, Loop
  <2> QED BY <1>1, <2>1, LineStays DEF clientVars
<1>9. CASE DownAppend \/ DownTail \/ DownApply
  <2>1. UNCHANGED <<clientVars, proposed, local>> /\ Line' = Line
    BY <1>9, AppendBasic, TailBasic, ApplyBasic
  <2> QED BY <1>1, <2>1, LineStays DEF clientVars
<1>10. CASE Returns
  <2>1. /\ UNCHANGED <<queue, pending, proposed, local>>
        /\ \E tag \in {"ok", "error"}, value \in Nat : Returned(tag, value)
    BY <1>10, ReturnFacts DEF Basic
  <2> QED BY <2>1, ReturnedServes, LineServes DEF Basic
<1>11. CASE RemoteAppend
  <2>1. UNCHANGED <<clientVars, local>> /\ Line' = Line /\ proposed' = proposed + 1
    BY <1>11, RemoteBasic
  <2>2. proposed' \in Nat /\ proposed <= proposed'
    BY <1>1, <2>1
  <2> QED BY <2>1, <2>2, LineStays DEF clientVars
<1> QED BY <1>2, <1>3, <1>4, <1>5, <1>6, <1>7, <1>8, <1>9, <1>10, <1>11 DEF Next, Down, Returns
-------------------------------------------------------------------------------
(* The log keeps the order of the line *)

LEMMA OrderKept ==
  ASSUME Basic, LogInv, log' = log, proposed' \in Nat, proposed <= proposed',
         \A x \in local' : x <= proposed => x \in local,
         \A x \in local : x <= proposed /\ Ahead(x) => Ahead(x)',
         DownOrder'
  PROVE  LogInv'
<1>1. ASSUME NEW i \in 1..Len(log)
      PROVE  log[i].payloads \in Seq(Payload) /\ DOMAIN log[i].payloads = 1..Len(log[i].payloads)
             /\ \A k \in 1..Len(log[i].payloads) : log[i].payloads[k] \in Nat
  BY LogTyped, EntryTyped DEF Basic
<1>2. DOMAIN log = 1..Len(log) /\ proposed \in Nat
  BY DEF Basic, TypeOK
<1>3. ASSUME NEW i \in 1..Len(log), NEW k \in 1..Len(log[i].payloads), NEW x,
             x = log[i].payloads[k]
      PROVE  x <= proposed' /\ (x \in local' => x \in local /\ Ahead(x)')
  <2>1. x \in Nat /\ x <= proposed /\ (x \in local => Ahead(x))
    BY <1>1, <1>3 DEF LogInv
  <2>2. x <= proposed'
    BY <1>2, <2>1
  <2>3. ASSUME x \in local' PROVE x \in local /\ Ahead(x)'
    BY <2>1, <2>3
  <2> QED BY <2>2, <2>3
<1>4. \A i \in 1..Len(log') : \A k \in 1..Len(log'[i].payloads) :
        /\ log'[i].payloads[k] <= proposed'
        /\ log'[i].payloads[k] \in local' => Ahead(log[i].payloads[k])'
  <2> SUFFICES ASSUME NEW i \in 1..Len(log), NEW k \in 1..Len(log[i].payloads)
               PROVE  /\ log[i].payloads[k] <= proposed'
                      /\ log[i].payloads[k] \in local' => Ahead(log[i].payloads[k])'
    OBVIOUS
  <2>1. PICK x : x = log[i].payloads[k]
    OBVIOUS
  <2>2. x <= proposed' /\ (x \in local' => Ahead(x)')
    BY <1>3, <2>1
  <2>3. log'[i].payloads[k] = x
    BY <2>1
  <2> QED BY <2>1, <2>2, <2>3 DEF Ahead
<1>5. LoggedOnceInOrder'
  <2> SUFFICES ASSUME NEW i \in DOMAIN log, NEW j \in DOMAIN log,
                      NEW k \in DOMAIN log[i].payloads, NEW m \in DOMAIN log[j].payloads,
                      log[i].payloads[k] \in local', log[j].payloads[m] \in local',
                      Before(i, k, j, m)
               PROVE  log[i].payloads[k] < log[j].payloads[m]
    BY DEF LoggedOnceInOrder, Before
  <2>1. log[i].payloads[k] \in local /\ log[j].payloads[m] \in local
    BY <1>1, <1>2, <1>3
  <2> QED BY <2>1 DEF LogInv, LoggedOnceInOrder
<1> QED BY <1>4, <1>5 DEF LogInv

(* Steps that leave the line, the batch and down as they are. *)
LEMMA AheadStays ==
  ASSUME UNCHANGED <<batch, down>>, Line' = Line, NEW x, Ahead(x)
  PROVE  Ahead(x)'
BY DEF Ahead, Queued

LEMMA AheadSends ==
  ASSUME Basic, LineInv, NEW c \in Client, NEW op \in {"propose", "sync"},
         NEW n \in 0..MaxProposals, Send(c, op, n), op = "propose" => n = proposed + 1,
         NEW x \in Nat, x <= proposed, Ahead(x)
  PROVE  Ahead(x)'
<1>1. PICK r : r = [to |-> c, op |-> op, payload |-> n]
  OBVIOUS
<1>2. r \in Request /\ r.op = op /\ r.payload = n
  BY <1>1 DEF Request
<1>3. queue' = Append(queue, r) /\ UNCHANGED loopVars /\ down' = down /\ batch' = batch
  BY <1>1 DEF Send, loopVars, downVars
<1>4. PICK m \in Nat, b \in Nat : m = Len(Line) /\ b = Len(batch)
  BY LineFactsHold DEF Basic, LineFacts
<1>5. /\ Len(Line') = m + 1 /\ Line'[m + 1] = r
      /\ \A i \in 1..m : Line'[i] = Line[i]
  BY <1>2, <1>3, <1>4, LineSent DEF Basic
<1>6. ASSUME NEW j \in (b + 1)..(m + 1), Line'[j].op = "propose" PROVE x < Line'[j].payload
  <2>1. CASE j = m + 1
    <3>1. n = proposed + 1 /\ Line'[j].payload = n /\ proposed \in Nat
      BY <1>2, <1>5, <1>6, <2>1 DEF Basic, TypeOK
    <3> QED BY <3>1
  <2>2. CASE j # m + 1
    <3>1. j \in 1..m /\ j \in (b + 1)..m
      BY <2>2
    <3>2. Line'[j] = Line[j]
      BY <1>5, <3>1
    <3> QED BY <1>4, <1>6, <3>1, <3>2 DEF Ahead
  <2> QED BY <2>1, <2>2
<1>7. \A j \in (Len(batch') + 1)..Len(Line') : Line'[j].op = "propose" => x < Line'[j].payload
  BY <1>3, <1>4, <1>5, <1>6
<1> QED BY <1>3, <1>7 DEF Ahead, Queued

LEMMA AheadCancels ==
  ASSUME Basic, NEW c \in Client, Cancel(c), NEW x, Ahead(x)
  PROVE  Ahead(x)'
<1>1. /\ Len(Line') = Len(Line)
      /\ \A i \in 1..Len(Line) : Line'[i] = Forget(Line[i], c)
  BY LineForgets DEF Basic
<1>2. \A i \in 1..Len(Line) : Line[i] \in Request
  BY LineFactsHold DEF Basic, LineFacts
<1>3. \A q \in Request : Forget(q, c).op = q.op /\ Forget(q, c).payload = q.payload
  BY DEF Forget, Request
<1>4. down' = down /\ Len(batch') = Len(batch)
  BY Forgotten DEF Cancel, downVars, Basic, TypeOK
<1>5. \A i \in 1..Len(Line) : Line'[i].op = Line[i].op /\ Line'[i].payload = Line[i].payload
  BY <1>1, <1>2, <1>3
<1>6. \A j \in (Len(batch) + 1)..Len(Line) : j \in 1..Len(Line)
  BY LineFactsHold DEF Basic, LineFacts
<1>7. \A j \in (Len(batch') + 1)..Len(Line') : Line'[j].op = "propose" => x < Line'[j].payload
  BY <1>1, <1>4, <1>5, <1>6 DEF Ahead
<1> QED BY <1>4, <1>7 DEF Ahead, Queued

LEMMA AheadServes ==
  ASSUME Basic, NEW d \in Nat, Serves(d), batch' = <<>>, Queued' => Queued /\ down' = down,
         NEW x, Ahead(x)
  PROVE  Ahead(x)'
<1>1. PICK m \in Nat, b \in Nat : m = Len(Line) /\ b = Len(batch)
  BY LineFactsHold DEF Basic, LineFacts
<1>2. /\ b <= d /\ d <= m /\ Len(Line') = m - d
      /\ \A i \in 1..(m - d) : Line'[i] = Line[i + d]
  BY <1>1 DEF Serves
<1>3. ASSUME NEW j \in 1..(m - d), Line'[j].op = "propose" PROVE x < Line'[j].payload
  <2>1. j + d \in (b + 1)..m /\ Line'[j] = Line[j + d]
    BY <1>2
  <2> QED BY <1>1, <1>3, <2>1 DEF Ahead
<1>4. \A j \in (Len(batch') + 1)..Len(Line') : Line'[j].op = "propose" => x < Line'[j].payload
  <2>1. Len(batch') + 1 = 1
    BY EmptySeq
  <2> QED BY <1>2, <1>3, <2>1
<1> QED BY <1>4 DEF Ahead, Queued

LEMMA AheadLoops ==
  ASSUME Basic, LineInv, Loop, NEW x, Ahead(x)
  PROVE  Ahead(x)'
<1>1. /\ batch = <<>> /\ down.stage = "idle"
      /\ (\E rs : Flushes(rs)) \/ Gathers \/ Syncs
  BY LoopKinds DEF Basic
<1>2. Line' = Line
  BY LineMoves DEF Basic, Loop
<1>3. Len(batch) = 0
  BY <1>1, EmptySeq
<1>4. PICK m \in Nat : m = Len(Line)
  BY LineFactsHold DEF Basic, LineFacts
<1>5. \A j \in 1..m : Line[j].op = "propose" => x < Line[j].payload
  BY <1>3, <1>4 DEF Ahead
<1>6. CASE \E rs : Flushes(rs)
  <2>1. PICK rs : Flushes(rs)
    BY <1>6
  <2>2. /\ Payloads(rs) \in Seq(Payload) /\ Len(Payloads(rs)) = Len(rs) /\ Len(rs) \in Nat \ {0}
        /\ \A i \in 1..Len(rs) : Payloads(rs)[i] = rs[i].payload
    BY <2>1, BatchCarries
  <2>3. /\ \A i \in 1..Len(rs) : rs[i].op = "propose" /\ i \in 1..Len(Line) /\ Line[i] = rs[i]
        /\ batch' = rs
        /\ down' = DownQueued("propose", [batched |-> TRUE, count |-> Len(rs),
                                          payloads |-> Payloads(rs)])
    BY <2>1 DEF Flushes, StartFlush
  <2>4. down'.entry.payloads = Payloads(rs)
    BY <2>3 DEF DownQueued
  <2>5. \A i \in 1..Len(rs) : x < Payloads(rs)[i]
    BY <1>4, <1>5, <2>2, <2>3
  <2>6. \A i \in 1..Len(down'.entry.payloads) : x < down'.entry.payloads[i]
    BY <2>2, <2>4, <2>5
  <2>7. \A j \in (Len(batch') + 1)..Len(Line') : j \in 1..m
    BY <1>2, <1>4, <2>2, <2>3
  <2>8. \A j \in (Len(batch') + 1)..Len(Line') : Line'[j].op = "propose" => x < Line'[j].payload
    BY <1>2, <1>5, <2>7
  <2> QED BY <2>6, <2>8 DEF Ahead
<1>7. CASE Gathers
  BY <1>2, <1>7, AheadStays DEF Gathers
<1>8. CASE Syncs
  <2>1. batch' = batch /\ down'.op = "sync"
    BY <1>8 DEF Syncs, DownQueued
  <2> QED BY <1>2, <2>1 DEF Ahead, Queued
<1> QED BY <1>1, <1>6, <1>7, <1>8

LEMMA OrderLoops ==
  ASSUME Basic, LineInv, LogInv, Loop
  PROVE  DownOrder'
<1>1. /\ down.stage = "idle" /\ local' = local
      /\ (\E rs : Flushes(rs)) \/ Gathers \/ Syncs
  BY LoopKinds DEF Basic
<1>2. CASE \E rs : Flushes(rs)
  <2>1. PICK rs : Flushes(rs)
    BY <1>2
  <2>2. /\ Len(Payloads(rs)) = Len(rs) /\ Len(rs) \in Nat \ {0}
        /\ \A i \in 1..Len(rs) : Payloads(rs)[i] = rs[i].payload /\ rs[i].payload \in local
    BY <2>1, BatchCarries
  <2>3. /\ \A i \in 1..Len(rs) : rs[i].op = "propose" /\ i \in 1..Len(Line) /\ Line[i] = rs[i]
        /\ down' = DownQueued("propose", [batched |-> TRUE, count |-> Len(rs),
                                          payloads |-> Payloads(rs)])
    BY <2>1 DEF Flushes, StartFlush
  <2>4. down'.entry.payloads = Payloads(rs)
    BY <2>3 DEF DownQueued
  <2>5. \A i, j \in 1..Len(rs) : i < j => rs[i].payload < rs[j].payload
    BY <2>3 DEF LineInv, PairPart
  <2> QED BY <1>1, <2>2, <2>4, <2>5 DEF DownOrder
<1>3. CASE Gathers
  <2>1. down' = down
    BY <1>3 DEF Gathers
  <2> QED BY <1>1, <2>1 DEF LogInv, DownOrder
<1>4. CASE Syncs
  <2>1. down'.op = "sync"
    BY <1>4 DEF Syncs, DownQueued
  <2> QED BY <2>1 DEF DownOrder
<1> QED BY <1>1, <1>2, <1>3, <1>4

LEMMA OrderAppends ==
  ASSUME Basic, LogInv, NEW e \in LogEntry, log' = Append(log, e), local' = local,
         proposed' \in Nat, proposed <= proposed',
         \A x \in local : x <= proposed /\ Ahead(x) => Ahead(x)',
         \A k \in 1..Len(e.payloads) :
           e.payloads[k] <= proposed' /\ (e.payloads[k] \in local => Ahead(e.payloads[k])'),
         \A x \in local : x <= proposed /\ Ahead(x) =>
           \A k \in 1..Len(e.payloads) : e.payloads[k] \in local => x < e.payloads[k],
         \A k, m \in 1..Len(e.payloads) :
           k < m /\ e.payloads[k] \in local => e.payloads[k] < e.payloads[m],
         DownOrder'
  PROVE  LogInv'
<1>1. PICK n \in Nat : n = Len(log)
  BY DEF Basic, TypeOK
<1>2. /\ Len(log') = n + 1 /\ log'[n + 1] = e /\ DOMAIN log' = 1..(n + 1)
      /\ \A i \in 1..n : log'[i] = log[i]
  <2>1. log' \in Seq(LogEntry) /\ Len(log') = n + 1
    BY <1>1, LogAppended DEF Basic
  <2> QED BY <1>1, <2>1, LogAppended DEF Basic
<1>3. ASSUME NEW i \in 1..n, NEW k \in 1..Len(log[i].payloads), NEW x, x = log[i].payloads[k]
      PROVE  /\ x \in Nat /\ x <= proposed /\ x <= proposed'
             /\ x \in local => Ahead(x) /\ Ahead(x)'
  <2>1. x \in Nat /\ proposed \in Nat
    <3>1. proposed \in Nat /\ TypeOK
      BY DEF Basic, TypeOK
    <3>2. log[i] \in LogEntry
      BY <1>1, <3>1, LogTyped
    <3> QED BY <1>3, <3>1, <3>2, EntryTyped
  <2>2. x <= proposed /\ (x \in local => Ahead(x))
    BY <1>1, <1>3 DEF LogInv
  <2>3. x <= proposed'
    BY <2>1, <2>2
  <2> QED BY <2>1, <2>2, <2>3
<1>4. ASSUME NEW i \in 1..(n + 1) PROVE (i \in 1..n /\ log'[i] = log[i]) \/ (i = n + 1 /\ log'[i] = e)
  <2>1. i \in 1..n \/ i = n + 1
    OBVIOUS
  <2> QED BY <1>2, <2>1
<1>5. ASSUME NEW i \in 1..(n + 1), NEW k \in 1..Len(log'[i].payloads), NEW x,
             x = log'[i].payloads[k]
      PROVE  x <= proposed' /\ (x \in local => Ahead(x)')
  <2>1. CASE i \in 1..n /\ log'[i] = log[i]
    BY <1>3, <1>5, <2>1
  <2>2. CASE i = n + 1 /\ log'[i] = e
    BY <1>5, <2>2
  <2> QED BY <1>4, <2>1, <2>2
<1>6. \A i \in 1..Len(log') : \A k \in 1..Len(log'[i].payloads) :
        /\ log'[i].payloads[k] <= proposed'
        /\ log'[i].payloads[k] \in local' => Ahead(log[i].payloads[k])'
  <2> SUFFICES ASSUME NEW i \in 1..(n + 1), NEW k \in 1..Len(log'[i].payloads)
               PROVE  /\ log'[i].payloads[k] <= proposed'
                      /\ log'[i].payloads[k] \in local => Ahead(log[i].payloads[k])'
    BY <1>2
  <2>1. PICK x : x = log'[i].payloads[k]
    OBVIOUS
  <2>2. x <= proposed' /\ (x \in local => Ahead(x)')
    BY <1>5, <2>1
  <2> QED BY <2>1, <2>2 DEF Ahead
<1>7. LoggedOnceInOrder'
  <2> SUFFICES ASSUME NEW i \in DOMAIN log', NEW j \in DOMAIN log',
                      NEW k \in DOMAIN log'[i].payloads, NEW m \in DOMAIN log'[j].payloads,
                      log'[i].payloads[k] \in local, log'[j].payloads[m] \in local,
                      Before(i, k, j, m)
               PROVE  log'[i].payloads[k] < log'[j].payloads[m]
    BY DEF LoggedOnceInOrder, Before
  <2>1. i \in 1..(n + 1) /\ j \in 1..(n + 1)
    BY <1>2
  <2>2. \A h \in 1..n : DOMAIN log[h].payloads = 1..Len(log[h].payloads)
    BY <1>1, LogTyped, EntryTyped DEF Basic
  <2>3. DOMAIN e.payloads = 1..Len(e.payloads)
    BY EntryTyped
  <2>4. CASE i \in 1..n /\ log'[i] = log[i] /\ j \in 1..n /\ log'[j] = log[j]
    <3>1. i \in DOMAIN log /\ j \in DOMAIN log
      BY <1>1, <2>4 DEF Basic, TypeOK
    <3> QED BY <2>4, <3>1 DEF LogInv, LoggedOnceInOrder
  <2>5. CASE i \in 1..n /\ log'[i] = log[i] /\ j = n + 1 /\ log'[j] = e
    <3>1. PICK x : x = log[i].payloads[k]
      OBVIOUS
    <3>2. x <= proposed /\ Ahead(x) /\ x \in local
      BY <1>3, <2>2, <2>5, <3>1
    <3>3. m \in 1..Len(e.payloads)
      BY <2>3, <2>5
    <3>4. x < e.payloads[m]
      BY <2>5, <3>2, <3>3
    <3> QED BY <2>5, <3>1, <3>4
  <2>6. CASE i = n + 1 /\ log'[i] = e
    <3>1. i = j /\ k < m
      BY <2>1, <2>6 DEF Before
    <3> QED BY <2>3, <2>6, <3>1
  <2> QED BY <1>4, <2>1, <2>4, <2>5, <2>6
<1> QED BY <1>6, <1>7 DEF LogInv

LEMMA LogAppends ==
  ASSUME Basic, LineInv, LogInv, DownAppend
  PROVE  LogInv'
<1>1. /\ down.entry \in LogEntry /\ log' = Append(log, down.entry)
      /\ down'.stage = "play" /\ down'.op = "propose" /\ down'.entry = down.entry
      /\ Line' = Line /\ UNCHANGED <<life, loopVars, clientVars, proposed, local>>
      /\ Queued
  BY AppendBasic DEF DownAppend, Queued
<1>2. PICK e \in LogEntry : e = down.entry
  BY <1>1
<1>3. proposed \in Nat /\ proposed' \in Nat /\ proposed <= proposed' /\ local \subseteq 1..proposed
  BY <1>1 DEF Basic, TypeOK, LineInv
<1>4. /\ \A k \in 1..Len(e.payloads) : e.payloads[k] \in local
      /\ \A k, m \in 1..Len(e.payloads) : k < m => e.payloads[k] < e.payloads[m]
  BY <1>1, <1>2 DEF LogInv, DownOrder, Queued
<1>5. DownOrder'
  BY <1>1, <1>2, <1>4 DEF DownOrder
<1>6. ~Queued' /\ batch' = batch
  BY <1>1 DEF Queued, loopVars
<1>7. \A x \in local : Ahead(x) => Ahead(x)'
  BY <1>1, <1>6 DEF Ahead
<1>8. ASSUME NEW k \in 1..Len(e.payloads) PROVE Ahead(e.payloads[k])'
  <2>1. LineFacts
    BY LineFactsHold DEF Basic
  <2>2. ASSUME NEW j \in (Len(batch) + 1)..Len(Line), Line[j].op = "propose"
        PROVE  e.payloads[k] < Line[j].payload
    <3>1. CASE phase = "flush"
      <4>1. e.payloads = Payloads(batch) /\ DOMAIN batch = 1..Len(batch)
        BY <1>2, <3>1 DEF Basic, LoopInv, TypeOK
      <4>2. /\ Len(e.payloads) = Len(batch) /\ k \in 1..Len(batch)
            /\ e.payloads[k] = batch[k].payload
        <5>1. e.payloads = [i \in 1..Len(batch) |-> batch[i].payload]
          BY <4>1 DEF Payloads
        <5>2. DOMAIN e.payloads = 1..Len(e.payloads)
          BY EntryTyped
        <5>3. k \in 1..Len(batch)
          BY <5>1, <5>2
        <5>4. Len(e.payloads) = Len(batch)
          BY <2>1, <5>1, <5>2, EntryTyped DEF LineFacts
        <5> QED BY <5>1, <5>3, <5>4
      <4>3. k \in 1..Len(Line) /\ j \in 1..Len(Line) /\ k < j /\ Line[k] = batch[k]
        BY <2>1, <4>2 DEF LineFacts
      <4>4. Line[k].op = "propose"
        BY <4>2, <4>3 DEF Basic, LoopInv
      <4> QED BY <2>2, <4>2, <4>3, <4>4 DEF LineInv, PairPart
    <3>2. CASE phase = "recv"
      <4>1. batch = <<>> /\ syncReq = NoReq /\ ~Serving
        BY <1>1, <3>2 DEF Basic, LoopInv, Queued
      <4>2. queue = <<>> /\ pending = <<>>
        BY <4>1 DEF Basic, LoopInv
      <4>3. Len(Line) = 0
        BY <2>1, <4>1, <4>2, EmptySeq DEF LineFacts, Held
      <4> QED BY <2>1, <4>3 DEF LineFacts
    <3>3. CASE phase = "sync"
      BY <1>1, <3>3 DEF Basic, LoopInv, Queued
    <3> QED BY <3>1, <3>2, <3>3 DEF Basic, TypeOK
  <2> QED BY <1>1, <1>6, <2>2 DEF Ahead
<1>9. ASSUME NEW x \in local, Ahead(x), NEW k \in 1..Len(e.payloads) PROVE x < e.payloads[k]
  BY <1>1, <1>2, <1>9 DEF Ahead
<1>10. \A k \in 1..Len(e.payloads) : e.payloads[k] <= proposed'
  <2>1. \A x \in local : x <= proposed'
    BY <1>1, <1>3
  <2> QED BY <1>4, <2>1
<1> QED BY <1>1, <1>2, <1>3, <1>4, <1>5, <1>7, <1>8, <1>9, <1>10, OrderAppends

LEMMA LogRemote ==
  ASSUME Basic, LineInv, LogInv, RemoteAppend
  PROVE  LogInv'
<1>1. /\ Line' = Line /\ proposed' = proposed + 1
      /\ UNCHANGED <<life, loopVars, down, applied, store, clientVars, local>>
      /\ \E e \in LogEntry : e.payloads = <<proposed + 1>> /\ log' = Append(log, e)
  BY RemoteBasic
<1>2. PICK e \in LogEntry : e.payloads = <<proposed + 1>> /\ log' = Append(log, e)
  BY <1>1
<1>3. /\ proposed \in Nat /\ proposed' \in Nat /\ proposed <= proposed'
      /\ proposed + 1 \notin local
  <2>1. proposed \in Nat /\ local \subseteq 1..proposed
    BY DEF Basic, TypeOK, LineInv
  <2> QED BY <1>1, <2>1
<1>4. Len(e.payloads) = 1 /\ e.payloads[1] = proposed + 1
  BY <1>2
<1>5. \A k \in 1..Len(e.payloads) : e.payloads[k] = proposed + 1 /\ e.payloads[k] \notin local
  BY <1>3, <1>4
<1>6. \A k \in 1..Len(e.payloads) : e.payloads[k] <= proposed'
  BY <1>1, <1>3, <1>5
<1>7. DownOrder'
  BY <1>1 DEF LogInv, DownOrder
<1>8. \A x \in local : Ahead(x) => Ahead(x)'
  BY <1>1, AheadStays DEF loopVars
<1> QED BY <1>1, <1>2, <1>3, <1>5, <1>6, <1>7, <1>8, OrderAppends

LEMMA LogStep ==
  ASSUME Basic, LineInv, LogInv, Next
  PROVE  LogInv'
<1>1. /\ proposed \in Nat /\ proposed <= proposed /\ local \subseteq 1..proposed
      /\ \A x \in local : x \in Nat
  BY DEF Basic, TypeOK, LineInv
<1>2. ASSUME log' = log, local' = local, proposed' = proposed,
             \A x \in local : Ahead(x) => Ahead(x)', DownOrder'
      PROVE  LogInv'
  BY <1>1, <1>2, OrderKept
<1>3. ASSUME log' = log, down' = down, batch' = batch, Line' = Line, local' = local, proposed' = proposed
      PROVE  LogInv'
  <2>1. DownOrder'
    BY <1>3 DEF LogInv, DownOrder
  <2>2. \A x \in local : Ahead(x) => Ahead(x)'
    BY <1>3, AheadStays
  <2> QED BY <1>2, <1>3, <2>1, <2>2
<1>4. ASSUME NEW c \in Client, Propose(c) PROVE LogInv'
  <2>1. PICK n : n = proposed + 1
    OBVIOUS
  <2>2. /\ Send(c, "propose", n) /\ local' = local \cup {n} /\ proposed' = n
        /\ n \in 0..MaxProposals
    BY <1>4, <2>1, ProposeFacts, BoundsAssumption DEF Payload
  <2>3. log' = log /\ down' = down
    BY <2>2 DEF Send, downVars
  <2>4. n \in Nat /\ proposed <= n /\ ~(n <= proposed)
    BY <1>1, <2>1
  <2>5. \A x \in local' : x <= proposed => x \in local
    BY <2>2, <2>4
  <2>6. \A x \in local : x <= proposed /\ Ahead(x) => Ahead(x)'
    BY <1>1, <2>1, <2>2, AheadSends
  <2>7. DownOrder'
    BY <2>2, <2>3 DEF LogInv, DownOrder
  <2> QED BY <2>2, <2>3, <2>4, <2>5, <2>6, <2>7, OrderKept
<1>5. ASSUME NEW c \in Client, Sync(c) PROVE LogInv'
  <2>1. Send(c, "sync", 0) /\ local' = local /\ proposed' = proposed /\ 0 \in 0..MaxProposals
    BY <1>5, BoundsAssumption DEF Sync
  <2>2. log' = log /\ down' = down
    BY <2>1 DEF Send, downVars
  <2>3. \A x \in local : x <= proposed
    BY <1>1
  <2>4. \A x \in local : Ahead(x) => Ahead(x)'
    BY <1>1, <2>1, <2>3, AheadSends
  <2>5. DownOrder'
    BY <2>1, <2>2 DEF LogInv, DownOrder
  <2> QED BY <1>2, <2>1, <2>2, <2>4, <2>5
<1>6. ASSUME NEW c \in Client, Cancel(c) PROVE LogInv'
  <2>1. log' = log /\ down' = down /\ local' = local /\ proposed' = proposed
    BY <1>6 DEF Cancel, downVars
  <2>2. DownOrder'
    BY <2>1 DEF LogInv, DownOrder
  <2>3. \A x \in local : Ahead(x) => Ahead(x)'
    BY <1>6, AheadCancels
  <2> QED BY <1>2, <2>1, <2>2, <2>3
<1>7. CASE \/ \E c \in Client, op \in {"propose", "sync"} : SendFails(c, op)
           \/ Drop \/ LoopExits
  <2>1. UNCHANGED <<queue, loopVars, downVars, proposed, local>>
    BY <1>7 DEF SendFails, Drop, LoopExits
  <2>2. Line' = Line /\ log' = log /\ down' = down /\ batch' = batch
    BY <2>1 DEF Line, Held, loopVars, downVars
  <2> QED BY <1>3, <2>1, <2>2
<1>8. CASE Abort
  <2>1. log' = log /\ down' = down /\ local' = local /\ proposed' = proposed /\ batch' = <<>>
    BY <1>8 DEF Abort, downVars
  <2>2. DownOrder'
    BY <2>1 DEF LogInv, DownOrder
  <2>3. Queued' => Queued /\ down' = down
    BY <2>1 DEF Queued
  <2>4. PICK d \in Nat : Serves(d)
    BY <1>8, AbortServes DEF Basic
  <2>5. \A x \in local : Ahead(x) => Ahead(x)'
    BY <2>1, <2>3, <2>4, AheadServes
  <2> QED BY <1>2, <2>1, <2>2, <2>5
<1>9. CASE Loop
  <2>1. log' = log /\ local' = local /\ proposed' = proposed
    BY <1>9, LoopKinds DEF Basic
  <2>2. \A x \in local : Ahead(x) => Ahead(x)'
    BY <1>9, AheadLoops
  <2> QED BY <1>2, <1>9, <2>1, <2>2, OrderLoops
<1>10. CASE DownAppend
  BY <1>10, LogAppends
<1>11. CASE DownTail
  <2>1. /\ down'.op = "sync" /\ Line' = Line /\ batch' = batch
        /\ log' = log /\ local' = local /\ proposed' = proposed
    BY <1>11, TailBasic DEF loopVars
  <2>2. DownOrder'
    BY <2>1 DEF DownOrder
  <2>3. \A x \in local : Ahead(x) => Ahead(x)'
    BY <2>1 DEF Ahead, Queued
  <2> QED BY <1>2, <2>1, <2>2, <2>3
<1>12. CASE DownApply
  <2>1. /\ down' = down /\ Line' = Line /\ batch' = batch
        /\ log' = log /\ local' = local /\ proposed' = proposed
    BY <1>12, ApplyBasic DEF loopVars
  <2> QED BY <1>3, <2>1
<1>13. CASE Returns
  <2>1. /\ UNCHANGED <<queue, pending, log, proposed, local>>
        /\ \E tag \in {"ok", "error"}, value \in Nat : Returned(tag, value)
    BY <1>13, ReturnFacts DEF Basic
  <2>2. batch' = <<>> /\ down' \in {DownIdle, DownQueued("sync", Plain(0))}
    BY <2>1 DEF Returned, Basic, TypeOK, LoopInv
  <2>3. down'.op # "propose"
    BY <2>2 DEF DownIdle, DownQueued
  <2>4. DownOrder' /\ ~Queued'
    BY <2>3 DEF DownOrder, Queued
  <2>5. PICK d \in Nat : Serves(d)
    BY <2>1, ReturnedServes DEF Basic
  <2>6. \A x \in local : Ahead(x) => Ahead(x)'
    BY <2>2, <2>4, <2>5, AheadServes
  <2> QED BY <1>2, <2>1, <2>4, <2>6
<1>14. CASE RemoteAppend
  BY <1>14, LogRemote
<1> QED BY <1>4, <1>5, <1>6, <1>7, <1>8, <1>9, <1>10, <1>11, <1>12, <1>13, <1>14
        DEF Next, Down, Returns
-------------------------------------------------------------------------------
(* Syncs *)

(* The sync in hand is first in line. *)
LEMMA SyncFirst ==
  ASSUME Basic, LineInv, phase = "sync", syncReq.to \in Client
  PROVE  /\ Len(Line) >= 1 /\ Line[1] = syncReq /\ Len(batch) = 0 /\ Len(Held) = 1
         /\ pc[syncReq.to] = "waiting" /\ result[syncReq.to].op = "sync"
<1>1. batch = <<>> /\ syncReq # NoReq /\ syncReq.op = "sync"
  BY DEF Basic, LoopInv
<1>2. Len(batch) = 0 /\ Len(Held) = 1 /\ Held[1] = syncReq
  BY <1>1, EmptySeq, HeldTyped DEF Basic
<1>3. Len(Line) >= 1 /\ Line[0 + 1] = syncReq
  BY <1>2, LineFactsHold DEF Basic, LineFacts
<1>4. 1 \in 1..Len(Line) /\ Line[1] = syncReq
  BY <1>3, LineFactsHold DEF Basic, LineFacts
<1>5. LinePart(1)
  BY <1>4 DEF LineInv
<1>6. pc[syncReq.to] = "waiting" /\ result[syncReq.to] = Res("sync", "pending", syncReq.payload)
  BY <1>1, <1>4, <1>5 DEF LinePart
<1> QED BY <1>2, <1>3, <1>4, <1>6 DEF Res

LEMMA BarrierStep ==
  ASSUME Basic, LineInv, LogInv, BarrierInv, Next
  PROVE  BarrierInv'
<1>0. Basic'
  BY BasicStep
<1> SUFFICES ASSUME phase' = "sync", down'.stage = "play", syncReq'.to \in Client,
                    NEW i \in (down'.target + 1)..Len(log'), NEW k \in 1..Len(log'[i].payloads)
             PROVE  log'[i].payloads[k] \notin known'[syncReq'.to]
  BY DEF BarrierInv
<1>1. ASSUME UNCHANGED <<phase, down, log>>, syncReq'.to = syncReq.to,
             known'[syncReq.to] = known[syncReq.to]
      PROVE  log'[i].payloads[k] \notin known'[syncReq'.to]
  BY <1>1 DEF BarrierInv
<1>2. ASSUME NEW c \in Client, NEW op, NEW n, Send(c, op, n)
      PROVE  log'[i].payloads[k] \notin known'[syncReq'.to]
  <2>1. /\ UNCHANGED <<phase, down, log, syncReq>> /\ pc[c] = "idle"
        /\ known' = [known EXCEPT ![c] = local]
    BY <1>2 DEF Send, loopVars, downVars
  <2>2. syncReq.to # c
    BY <2>1, SyncFirst
  <2>3. known'[syncReq.to] = known[syncReq.to]
    BY <2>1, <2>2 DEF Basic, TypeOK
  <2> QED BY <1>1, <2>1, <2>3
<1>3. ASSUME NEW c \in Client, Cancel(c) PROVE log'[i].payloads[k] \notin known'[syncReq'.to]
  <2>1. UNCHANGED <<phase, down, log, known>> /\ syncReq' = Forget(syncReq, c) /\ syncReq \in Request
    BY <1>3 DEF Cancel, downVars, Basic, TypeOK
  <2>2. syncReq'.to = syncReq.to
    BY <2>1, NoOneAssumption DEF Forget, Request
  <2> QED BY <1>1, <2>1, <2>2
<1>4. CASE \/ \E c \in Client, op \in {"propose", "sync"} : SendFails(c, op)
           \/ Drop \/ LoopExits \/ DownApply
  BY <1>1, <1>4 DEF SendFails, Drop, LoopExits, DownApply, loopVars, downVars, clientVars
<1>5. CASE Abort
  BY <1>5 DEF Abort
<1>6. CASE Loop
  <2>1. phase = "recv" /\ ((\E rs : Flushes(rs)) \/ Gathers \/ Syncs)
    BY <1>6, LoopKinds DEF Basic
  <2> QED BY <2>1 DEF Flushes, StartFlush, Gathers, Syncs, DownQueued
<1>7. CASE DownAppend
  BY <1>0, <1>7, AppendBasic DEF Basic, LoopInv
<1>8. CASE DownTail
  <2>1. down'.target = Len(log) /\ log' = log /\ Len(log) \in Nat
    BY <1>8, TailBasic DEF Basic, TypeOK
  <2> QED BY <2>1
<1>9. CASE Returns
  <2>1. \E tag \in {"ok", "error"}, value \in Nat : Returned(tag, value)
    BY <1>9, ReturnFacts DEF Basic
  <2>2. down' \in {DownIdle, DownQueued("sync", Plain(0))}
    BY <2>1 DEF Returned, Basic, TypeOK
  <2> QED BY <2>2 DEF DownIdle, DownQueued
<1>10. CASE RemoteAppend
  <2>1. /\ UNCHANGED <<down, phase, syncReq, known>>
        /\ \E e \in LogEntry : e.payloads = <<proposed + 1>> /\ log' = Append(log, e)
    BY <1>10, RemoteBasic DEF loopVars, clientVars
  <2>2. PICK e \in LogEntry : e.payloads = <<proposed + 1>> /\ log' = Append(log, e)
    BY <2>1
  <2>3. /\ Len(log) \in Nat /\ Len(log') = Len(log) + 1 /\ log'[Len(log) + 1] = e
        /\ \A h \in 1..Len(log) : log'[h] = log[h]
    BY <2>2, LogAppended DEF Basic
  <2>4. down.target \in Nat
    BY DEF Basic, DownInv
  <2>5. CASE i = Len(log) + 1
    <3>1. k = 1 /\ log'[i].payloads[k] = proposed + 1
      <4> DEFINE y == proposed + 1
      <4>1. log'[i].payloads = <<y>>
        BY <2>2, <2>3, <2>5
      <4> HIDE DEF y
      <4>2. Len(<<y>>) = 1 /\ <<y>>[1] = y
        OBVIOUS
      <4>3. k = 1 /\ log'[i].payloads[k] = y
        BY <4>1, <4>2
      <4> QED BY <4>3 DEF y
    <3>2. known[syncReq.to] \subseteq 1..proposed /\ proposed \in Nat
      <4>1. syncReq.to \in Client
        BY <2>1
      <4>2. known[syncReq.to] \subseteq local /\ local \subseteq 1..proposed
        BY <4>1 DEF LineInv
      <4>3. proposed \in Nat
        BY DEF Basic, TypeOK
      <4> QED BY <4>2, <4>3
    <3>3. proposed + 1 \notin 1..proposed
      BY <3>2
    <3> QED BY <2>1, <3>1, <3>2, <3>3
  <2>6. CASE i # Len(log) + 1
    <3>1. i \in (down.target + 1)..Len(log) /\ i \in 1..Len(log)
      BY <2>1, <2>3, <2>4, <2>6
    <3>2. log'[i] = log[i]
      BY <2>3, <3>1
    <3> QED BY <2>1, <3>1, <3>2 DEF BarrierInv
  <2> QED BY <2>5, <2>6
<1> QED BY <1>2, <1>3, <1>4, <1>5, <1>6, <1>7, <1>8, <1>9, <1>10
        DEF Next, Down, Returns, Propose, Sync
-------------------------------------------------------------------------------
(* The invariant *)

LEMMA InitInv ==
  ASSUME Init
  PROVE  Inv
<1>1. /\ life = "up" /\ queue = <<>> /\ phase = "recv" /\ pending = <<>> /\ batch = <<>>
      /\ syncReq = NoReq /\ down = DownIdle /\ log = <<>> /\ applied = 0 /\ store = <<>>
      /\ proposed = 0 /\ local = {}
      /\ \A c \in Client : /\ pc[c] = "idle" /\ known[c] = {}
                           /\ result[c] = Res("none", "pending", 0)
  BY DEF Init
<1>2. /\ \A S : <<>> \in Seq(S)
      /\ Len(<<>>) = 0 /\ \A i : i \notin 1..0
  BY EmptySeq
<1>3. NoReq \in Request
  BY BoundsAssumption DEF NoReq, Request
<1>4. TypeOK
  <2>1. /\ pc \in [Client -> {"idle", "waiting"}]
        /\ known \in [Client -> SUBSET Payload]
    BY DEF Init
  <2>2. result \in [Client -> [op : {"none", "propose", "sync"},
                               tag : {"pending", "ok", "error"}, value : Nat]]
    BY DEF Init, Res
  <2>3. /\ proposed \in 0..MaxProposals
        /\ applied \in 0..Len(log) /\ Len(batch) <= MaxBatch
    BY <1>1, <1>2, BoundsAssumption, BatchAssumption
  <2>4. down.stage = "idle"
    BY <1>1 DEF DownIdle
  <2> QED BY <1>1, <1>2, <1>3, <2>1, <2>2, <2>3, <2>4 DEF TypeOK
<1>5. DownInv
  <2>1. Plain(0) \in [batched : BOOLEAN, count : Nat, payloads : Seq(Nat)]
    BY PlainTyped
  <2> QED BY <1>1, <1>2, <2>1 DEF DownIdle, DownInv
<1>6. LoopInv
  BY <1>1, <1>2 DEF DownIdle, LoopInv, Serving
<1>7. Len(Line) = 0
  <2>1. Len(Held) = 0
    BY <1>1, <1>4, HeldTyped
  <2> QED BY <1>1, <1>2, <1>4, <2>1, LineFactsHold DEF LineFacts
<1>8. LineInv
  BY <1>1, <1>2, <1>7 DEF LineInv, Res
<1>9. LogInv /\ BarrierInv
  <2>1. DownOrder /\ BarrierInv
    BY <1>1 DEF DownIdle, DownOrder, BarrierInv
  <2>2. DOMAIN log = {}
    BY <1>1
  <2>3. LoggedOnceInOrder
    BY <2>2 DEF LoggedOnceInOrder
  <2> QED BY <1>1, <1>2, <2>1, <2>3 DEF LogInv
<1>10. BatchesAreAtomic
  <2>1. PICK p : p = [i \in 1..applied |-> log[i].payloads]
    OBVIOUS
  <2>2. p \in Seq(Seq(Payload)) /\ Len(p) = 0
    BY <1>1, <1>2, <1>4, <2>1, PrefixPayloads
  <2>3. p = <<>>
    BY <2>2, EmptySeq
  <2>4. FlattenSeq(p) = <<>>
    BY <2>3 DEF FlattenSeq
  <2> QED BY <1>1, <1>2, <2>1, <2>4 DEF BatchesAreAtomic
<1> QED BY <1>4, <1>5, <1>6, <1>8, <1>9, <1>10 DEF Inv

LEMMA StutterInv ==
  ASSUME Inv, UNCHANGED vars
  PROVE  Inv'
<1>1. /\ UNCHANGED <<life, queue, phase, pending, batch, syncReq, down, log, applied, store>>
      /\ UNCHANGED <<pc, result, known, proposed, local>>
  BY DEF vars, loopVars, downVars, clientVars
<1>2. TypeOK' /\ DownInv' /\ LoopInv'
  BY <1>1 DEF Inv, TypeOK, DownInv, LoopInv, Serving
<1>3. Line' = Line
  BY <1>1 DEF Line, Held
<1>4. LineInv'
  BY <1>1, <1>3 DEF Inv, LineInv, LinePart, PairPart
<1>5. LogInv'
  BY <1>1, <1>3 DEF Inv, LogInv, Ahead, Queued, DownOrder, LoggedOnceInOrder
<1>6. BatchesAreAtomic' /\ BarrierInv'
  BY <1>1 DEF Inv, BatchesAreAtomic, BarrierInv
<1> QED BY <1>2, <1>4, <1>5, <1>6 DEF Inv

LEMMA NextInv ==
  ASSUME Inv, Next
  PROVE  Inv'
<1>1. Basic /\ LineInv /\ LogInv /\ BatchesAreAtomic /\ BarrierInv
  BY DEF Inv, Basic
<1>2. Basic' /\ LineInv' /\ LogInv' /\ BatchesAreAtomic' /\ BarrierInv'
  BY <1>1, BasicStep, LineStep, LogStep, StoreStep, BarrierStep
<1> QED BY <1>2 DEF Inv, Basic

(* The inductive invariant: the engine below, the flush loop, the line of   *)
(* requests, the log and the store agree as described above, for any        *)
(* callers, batch size, capacity and bounds.                                *)
THEOREM Invariance == Spec => []Inv
<1>1. Init => Inv
  BY InitInv
<1>2. Inv /\ [Next]_vars => Inv'
  BY NextInv, StutterInv
<1> QED BY <1>1, <1>2, PTL DEF Spec

(* Every variable keeps its type; a batch never exceeds max_batch_size      *)
(* unless it is a single proposal (batching.rs:110-113).                    *)
THEOREM TypeCorrect == Spec => []TypeOK
<1>1. Inv => TypeOK
  BY DEF Inv
<1> QED BY <1>1, Invariance, PTL

(* Proposals sent here reach the log once each and in the order they were   *)
(* sent, however they are cut into batches and whoever gives up             *)
(* (batching.rs:96-131, 141).                                               *)
THEOREM LoggedInOrder == Spec => []LoggedOnceInOrder
<1>1. Inv => LoggedOnceInOrder
  BY DEF Inv, LogInv
<1> QED BY <1>1, Invariance, PTL

(* A batch is applied as a whole or not at all: the store is what playing   *)
(* whole entries gives, without any sub-entry of a batch that failed        *)
(* (batching.rs:258-263).                                                   *)
THEOREM AtomicBatches == Spec => []BatchesAreAtomic
<1>1. Inv => BatchesAreAtomic
  BY DEF Inv
<1> QED BY <1>1, Invariance, PTL
-------------------------------------------------------------------------------
(* Calls that end with Ok *)

(* Only the engine below makes a call end with Ok, by answering the batch   *)
(* the call's proposal is in, or the sync that the call is.                 *)
LEMMA EndsOk ==
  ASSUME Basic, LineInv, Next, NEW c \in Client, NEW op, CallEnds(c, op, "ok")
  PROVE  /\ DownReply
         /\ result'[c] = Res(result[c].op, "ok", ReturnValue)
         /\ \/ phase = "flush" /\ \E i \in 1..Len(batch) : batch[i].to = c
            \/ phase = "sync" /\ syncReq.to = c
<1>1. /\ pc[c] = "waiting" /\ pc'[c] = "idle" /\ result'[c].tag = "ok"
      /\ result[c].tag = "pending" /\ pc \in [Client -> {"idle", "waiting"}]
  BY DEF CallEnds, LineInv, Basic, TypeOK
<1>2. pc' # pc /\ result'[c] # result[c]
  BY <1>1
<1>3. ASSUME NEW d \in Client, NEW o, NEW n, Send(d, o, n) PROVE FALSE
  BY <1>1, <1>3 DEF Send
<1>4. ASSUME NEW d \in Client, Cancel(d) PROVE FALSE
  BY <1>2, <1>4 DEF Cancel
<1>5. CASE \/ \E d \in Client, o \in {"propose", "sync"} : SendFails(d, o)
           \/ Drop \/ LoopExits \/ DownAppend \/ DownTail \/ DownApply \/ RemoteAppend
  BY <1>2, <1>5
     DEF SendFails, Drop, LoopExits, DownAppend, DownTail, DownApply, RemoteAppend, clientVars
<1>6. CASE Loop
  <2>1. UNCHANGED clientVars
    BY <1>6 DEF Loop, ReceivePropose, ReceiveSync, Receive, FlushPartial
  <2> QED BY <1>2, <2>1 DEF clientVars
<1>7. ASSUME NEW tos, Answer(tos, "error", 0) PROVE FALSE
  <2>1. result'[c] = Res(result[c].op, "error", 0)
    BY <1>2, <1>7, AnswerFacts
  <2>2. Res(result[c].op, "error", 0).tag = "error"
    BY DEF Res
  <2> QED BY <1>1, <2>1, <2>2
<1>8. CASE Abort
  BY <1>7, <1>8 DEF Abort
<1>9. CASE Returned("error", 0)
  BY <1>2, <1>7, <1>9 DEF Returned, clientVars, Basic, TypeOK
<1>10. CASE DownReply
  <2>1. Returned("ok", ReturnValue)
    BY <1>10 DEF DownReply
  <2>2. CASE phase = "flush"
    <3>1. Answer(Callers(batch), "ok", ReturnValue)
      BY <2>1, <2>2 DEF Returned
    <3>2. c \in Callers(batch) /\ result'[c] = Res(result[c].op, "ok", ReturnValue)
      BY <1>2, <3>1, AnswerFacts
    <3>3. \E i \in 1..Len(batch) : batch[i].to = c
      BY <3>2 DEF Callers, Basic, TypeOK
    <3> QED BY <1>10, <2>2, <3>2, <3>3
  <2>3. CASE phase = "sync"
    <3>1. Answer({syncReq.to}, "ok", ReturnValue)
      BY <2>1, <2>3 DEF Returned
    <3>2. c \in {syncReq.to} /\ result'[c] = Res(result[c].op, "ok", ReturnValue)
      BY <1>2, <3>1, AnswerFacts
    <3> QED BY <1>10, <2>3, <3>2
  <2>4. CASE phase = "recv"
    BY <1>2, <2>1, <2>4 DEF Returned, clientVars
  <2> QED BY <2>2, <2>3, <2>4 DEF Basic, TypeOK
<1> QED BY <1>3, <1>4, <1>5, <1>6, <1>8, <1>9, <1>10
        DEF Next, Down, Propose, Sync, DownRefuses, DownReadFails, DownApplyFails

LEMMA BatchFirst ==
  ASSUME Basic, LineInv, NEW i \in 1..Len(batch), batch[i].to \in Client
  PROVE  result[batch[i].to] = Res("propose", "pending", batch[i].payload)
<1>1. i \in 1..Len(Line) /\ Line[i] = batch[i]
  BY LineFactsHold DEF Basic, LineFacts
<1>2. LinePart(i) /\ batch[i].op = "propose"
  BY <1>1 DEF LineInv, Basic, LoopInv
<1> QED BY <1>1, <1>2 DEF LinePart

LEMMA OkStep ==
  ASSUME Basic, LineInv, Next, NEW c \in Client, CallEnds(c, "propose", "ok")
  PROVE  \E i \in 1..applied : /\ result[c].value \in ToSet(log[i].payloads)
                               /\ result'[c].value = Last(log[i].payloads)
<1>1. DownReply /\ result'[c] = Res(result[c].op, "ok", ReturnValue)
  BY EndsOk
<1>2. result[c].op = "propose" /\ result'[c].value = ReturnValue
  BY <1>1 DEF CallEnds, Res
<1>3. phase = "flush" /\ \E i \in 1..Len(batch) : batch[i].to = c
  <2>1. ~(phase = "sync" /\ syncReq.to = c)
    BY <1>2, SyncFirst
  <2> QED BY <2>1, EndsOk
<1>4. PICK i \in 1..Len(batch) : batch[i].to = c
  BY <1>3
<1>5. result[c].value = batch[i].payload
  <2>1. result[batch[i].to] = Res("propose", "pending", batch[i].payload)
    BY <1>4, BatchFirst
  <2> QED BY <1>4, <2>1 DEF Res
<1>6. /\ down.stage = "play" /\ applied >= down.target /\ down.op = "propose"
      /\ down.entry.payloads = Payloads(batch)
  BY <1>1, <1>3 DEF DownReply, Played, Basic, LoopInv
<1>7. down.target \in 1..applied /\ log[down.target] = down.entry
  <2>1. down.target \in Nat /\ applied \in Nat
    BY DEF Basic, DownInv, TypeOK
  <2> QED BY <1>6, <2>1 DEF Basic, DownInv
<1>8. batch[i].payload \in ToSet(Payloads(batch))
  <2>1. i \in DOMAIN batch
    BY DEF Basic, TypeOK
  <2>2. i \in DOMAIN Payloads(batch) /\ Payloads(batch)[i] = batch[i].payload
    BY <2>1 DEF Payloads
  <2> QED BY <2>2 DEF ToSet
<1>9. result'[c].value = Last(down.entry.payloads)
  BY <1>2, <1>6 DEF ReturnValue
<1> QED BY <1>5, <1>6, <1>7, <1>8, <1>9

(* Whoever is told Ok has its own proposal applied by then, and is given    *)
(* the result of the last sub-entry of the batch its proposal was in        *)
(* (batching.rs:175-181, 258-263).                                          *)
THEOREM OkIsApplied == Spec => OkMeansApplied
<1>1. Inv /\ [Next]_vars =>
        [\A c \in Client : CallEnds(c, "propose", "ok") =>
           \E i \in 1..applied : /\ result[c].value \in ToSet(log[i].payloads)
                                 /\ result'[c].value = Last(log[i].payloads)]_vars
  BY OkStep DEF Inv, Basic
<1> QED BY <1>1, Invariance, PTL DEF Spec, OkMeansApplied

(* While a sync is in hand, no proposal sent before it waits. *)
LEMMA NoneWaits ==
  ASSUME Basic, LineInv, phase = "sync", syncReq.to \in Client
  PROVE  known[syncReq.to] \cap (ToSet(Payloads(queue)) \cup ToSet(Payloads(pending))) = {}
<1>1. pending = <<>> /\ Len(pending) = 0
  BY EmptySeq DEF Basic, LoopInv
<1>2. ToSet(Payloads(pending)) = {}
  BY <1>1 DEF Payloads, ToSet
<1>3. Len(batch) = 0 /\ Len(Held) = 1 /\ Line[1] = syncReq
  BY SyncFirst
<1>4. /\ Len(queue) \in Nat /\ Len(Line) = 1 + Len(queue)
      /\ \A j \in 1..Len(queue) : Line[1 + j] = queue[j]
  BY <1>1, <1>3, LineFactsHold DEF Basic, LineFacts
<1>5. ASSUME NEW j \in 1..Len(queue) PROVE queue[j].payload \notin known[syncReq.to]
  <2>1. 1 \in 1..Len(Line) /\ 1 + j \in 1..Len(Line) /\ 1 < 1 + j
    BY <1>4
  <2>2. PairPart(1, 1 + j)
    BY <2>1 DEF LineInv
  <2> QED BY <1>3, <1>4, <2>2 DEF PairPart
<1>6. DOMAIN queue = 1..Len(queue)
  BY DEF Basic, TypeOK
<1>7. ASSUME NEW x \in ToSet(Payloads(queue)) PROVE x \notin known[syncReq.to]
  BY <1>5, <1>6 DEF ToSet, Payloads
<1> QED BY <1>2, <1>7

(* Once the log is played to the target of a sync, the store has what was   *)
(* sent before it and is in the log.                                        *)
LEMMA SyncedIsStored ==
  ASSUME Basic, BatchesAreAtomic, BarrierInv,
         phase = "sync", down.stage = "play", syncReq.to \in Client, Played
  PROVE  known[syncReq.to] \cap Logged \subseteq ToSet(store)
<1> SUFFICES ASSUME NEW x \in known[syncReq.to], x \in Logged
             PROVE  x \in ToSet(store)
  OBVIOUS
<1>1. PICK i \in DOMAIN log : x \in ToSet(log[i].payloads)
  BY DEF Logged
<1>2. i \in 1..Len(log) /\ applied \in 0..Len(log) /\ Len(log) \in Nat
  BY DEF Basic, TypeOK
<1>3. log[i].payloads \in Seq(Payload)
  BY <1>2, LogTyped, EntryTyped DEF Basic
<1>4. PICK k \in 1..Len(log[i].payloads) : x = log[i].payloads[k]
  BY <1>1, <1>3 DEF ToSet
<1>5. i \in 1..applied
  <2>1. i \notin (down.target + 1)..Len(log)
    BY <1>4 DEF BarrierInv
  <2>2. down.target \in Nat /\ down.target <= applied
    BY <1>2 DEF Played, Basic, DownInv
  <2> QED BY <1>2, <2>1, <2>2
<1>6. PICK p : p = [h \in 1..applied |-> log[h].payloads]
  OBVIOUS
<1>7. p \in Seq(Seq(Payload)) /\ Len(p) = applied /\ p[i] = log[i].payloads
  BY <1>2, <1>5, <1>6, PrefixPayloads DEF Basic
<1>8. ToSet(FlattenSeq(p)) = {y \in Payload : \E h \in 1..Len(p) : y \in ToSet(p[h])}
  BY <1>7, FlattenElements
<1>9. x \in Payload
  BY <1>3, <1>4
<1>10. x \in ToSet(FlattenSeq(p))
  BY <1>1, <1>5, <1>7, <1>8, <1>9
<1> QED BY <1>6, <1>10 DEF BatchesAreAtomic

LEMMA SyncOkStep ==
  ASSUME Inv, Next, NEW c \in Client, CallEnds(c, "sync", "ok")
  PROVE  LET waiting == ToSet(Payloads(queue)) \cup ToSet(Payloads(pending)) IN
         /\ known[c] \cap waiting = {}
         /\ known[c] \cap Logged \subseteq ToSet(store)
<1>1. Basic /\ LineInv /\ BatchesAreAtomic /\ BarrierInv
  BY DEF Inv, Basic
<1>2. DownReply /\ result'[c] = Res(result[c].op, "ok", ReturnValue)
  BY <1>1, EndsOk
<1>3. result[c].op = "sync"
  BY <1>2 DEF CallEnds, Res
<1>4. phase = "sync" /\ syncReq.to = c
  <2>1. ~\E i \in 1..Len(batch) : batch[i].to = c
    <3>1. ASSUME NEW i \in 1..Len(batch), batch[i].to = c PROVE FALSE
      <4>1. result[batch[i].to] = Res("propose", "pending", batch[i].payload)
        BY <1>1, <3>1, BatchFirst
      <4>2. result[c].op = "propose"
        BY <3>1, <4>1 DEF Res
      <4> QED BY <1>3, <4>2
    <3> QED BY <3>1
  <2> QED BY <1>1, <2>1, EndsOk
<1>5. down.stage = "play" /\ Played
  BY <1>2 DEF DownReply
<1> QED BY <1>1, <1>4, <1>5, NoneWaits, SyncedIsStored

(* A sync that returns Ok left no proposal sent before it waiting in the    *)
(* channel or for a batch to fill, and has applied those that reached the   *)
(* log (batching.rs:117-124).                                               *)
THEOREM SyncsAreBarriers == Spec => SyncIsABarrier
<1>1. Inv /\ [Next]_vars =>
        [\A c \in Client : CallEnds(c, "sync", "ok") =>
           LET waiting == ToSet(Payloads(queue)) \cup ToSet(Payloads(pending)) IN
           /\ known[c] \cap waiting = {}
           /\ known[c] \cap Logged \subseteq ToSet(store)]_vars
  BY SyncOkStep
<1> QED BY <1>1, Invariance, PTL DEF Spec, SyncIsABarrier
===============================================================================
