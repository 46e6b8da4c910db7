-------------------------- MODULE EngineStack_proofs --------------------------
(***************************************************************************)
(* Safety of a stack of engines, proved for every number of servers, every  *)
(* stack of the three layers, in any order and however often each is        *)
(* pushed, and every bound.                                                 *)
(***************************************************************************)
EXTENDS EngineStack, TLAPS, SequenceTheorems, NaturalsInduction, WellFoundedInduction

(* No stack batches twice: an outer batch would lose its header in an inner *)
(* one, which keeps payloads alone, and reach the application packed.       *)
OneBatching ==
  \A k \in Stacks : \A i, j \in DOMAIN k : k[i] = "batching" /\ k[j] = "batching" => i = j

-------------------------------------------------------------------------------
(* The inductive invariant *)

Shape ==
  /\ \E S : log \in Seq(S)
  /\ outbox = [s \in Server |-> outbox[s]]
  /\ views = [s \in Server |-> [t \in DOMAIN views[s] |-> views[s][t]]]
  /\ applied = [s \in Server |-> applied[s]]
  /\ seen = [s \in Server |-> seen[s]]

(* What the stack of m.by has made of m.what. *)
Batches == "batching" \in ToSet(stack)
EntryPart(m) ==
  /\ HasHeader(m.entry, "views") =>
       /\ m.entry.headers["views"].server = m.by
       /\ m.entry.headers["views"].cursor \in Nat
       /\ m.entry.headers["views"].cursor <= cursor[m.by]
  /\ Tracked => HasHeader(m.entry, "views")
  /\ HasHeader(m.entry, "batching") <=> Batches
  /\ OneBatching => m.entry.payload = IF Batches THEN <<m.what>> ELSE m.what

EntryInv ==
  /\ \A m \in Entries : EntryPart(m)
  /\ \A s \in Server : \A m \in outbox[s] : m.by = s

(* An entry that failed has been noted and not been passed by the cursor. *)
ViewInv == \A s \in Server : /\ \A t \in DOMAIN views[s] : views[s][t] <= cursor[s]
                             /\ \A p \in seen[s] : p <= cursor[s]

Inv ==
  /\ TypeOK /\ Shape /\ EntryInv /\ ViewInv
  /\ ViewsAreCurrent
  /\ OneBatching => AppliedAsProposed

-------------------------------------------------------------------------------
(* Passing an entry through the layers *)

Layer == {"observer", "views", "batching"}

(* The least number at which something fails stands in for induction. *)
LEMMA LeastNat ==
  ASSUME NEW T \in SUBSET Nat, T # {}
  PROVE  \E x \in T : \A y \in T : ~(y < x)
<1> DEFINE R == {ss \in Nat \X Nat : ss[1] < ss[2]}
<1>1. IsWellFoundedOn(R, Nat)
  BY NatLessThanWellFounded DEF OpToRel
<1>2. PICK x \in T : \A y \in T : ~(<<y, x>> \in R)
  <2> HIDE DEF R
  <2> QED BY <1>1, WFMin
<1> QED BY <1>2

LEMMA StackTyped ==
  ASSUME stack \in Stacks
  PROVE  /\ stack \in Seq(Layer) /\ Len(stack) \in Nat /\ DOMAIN stack = 1..Len(stack)
         /\ \A i \in 1..Len(stack) : stack[i] \in Layer
<1>1. stack \in Seq(Layer)
  BY StackAssumption DEF Layer
<1> QED BY <1>1, LenProperties, ElementOfSeq

(* Down or up, through the first i layers of an order. *)
Pass(s, e, layer, way) == IF way = "up" THEN Unwrap(e, layer) ELSE Wrap(s, e, layer)
Passes(f, s, e, order, way, n) ==
  f = [i \in 0..n |-> IF i = 0 THEN e ELSE Pass(s, f[i - 1], order[i], way)]

LEMMA PassesAt ==
  ASSUME NEW f, NEW s, NEW e, NEW order, NEW way, NEW n \in Nat, Passes(f, s, e, order, way, n)
  PROVE  /\ f[0] = e
         /\ \A i \in 1..n : f[i] = Pass(s, f[i - 1], order[i], way)
<1>1. \A i \in 0..n : f[i] = IF i = 0 THEN e ELSE Pass(s, f[i - 1], order[i], way)
  BY DEF Passes
<1>2. 0 \in 0..n /\ \A i \in 1..n : i \in 0..n /\ i # 0
  OBVIOUS
<1> QED BY <1>1, <1>2

LEMMA PassesExist ==
  ASSUME NEW s, NEW e, NEW order, NEW way, NEW n \in Nat
  PROVE  \E f : Passes(f, s, e, order, way, n)
<1> DEFINE T == {k \in Nat : ~\E f : Passes(f, s, e, order, way, k)}
<1> SUFFICES ASSUME T # {} PROVE FALSE
  OBVIOUS
<1>1. PICK x \in T : \A y \in T : ~(y < x)
  <2>1. T \in SUBSET Nat
    OBVIOUS
  <2> HIDE DEF T
  <2> QED BY <2>1, LeastNat
<1>2. CASE x = 0
  <2> DEFINE g == [i \in 0..0 |-> e]
  <2>1. \A i \in 0..0 : i = 0
    OBVIOUS
  <2>2. g = [i \in 0..0 |-> IF i = 0 THEN e ELSE Pass(s, g[i - 1], order[i], way)]
    BY <2>1
  <2>3. Passes(g, s, e, order, way, 0)
    BY <2>2 DEF Passes
  <2> QED BY <1>1, <1>2, <2>3
<1>3. CASE x # 0
  <2>1. x - 1 \in Nat /\ x - 1 < x /\ x \in Nat
    BY <1>3
  <2>2. PICK f : Passes(f, s, e, order, way, x - 1)
    BY <1>1, <2>1
  <2> DEFINE g == [i \in 0..x |-> IF i = 0 THEN e ELSE Pass(s, f[i - 1], order[i], way)]
  <2>3. \A i \in 0..(x - 1) : f[i] = IF i = 0 THEN e ELSE Pass(s, f[i - 1], order[i], way)
    BY <2>2 DEF Passes
  <2>4. \A i \in 0..(x - 1) : i \in 0..x
    BY <2>1
  <2>5. \A i \in 0..(x - 1) : g[i] = f[i]
    BY <2>3, <2>4
  <2>6. \A i \in 0..x : i = 0 \/ i - 1 \in 0..(x - 1)
    BY <2>1
  <2>7. \A i \in 0..x : g[i] = IF i = 0 THEN e ELSE Pass(s, g[i - 1], order[i], way)
    BY <2>5, <2>6
  <2>8. g = [i \in 0..x |-> IF i = 0 THEN e ELSE Pass(s, g[i - 1], order[i], way)]
    <3>1. g = [i \in 0..x |-> g[i]]
      OBVIOUS
    <3> HIDE DEF g
    <3> QED BY <2>7, <3>1
  <2>9. Passes(g, s, e, order, way, x)
    BY <2>8 DEF Passes
  <2> QED BY <1>1, <2>9
<1> QED BY <1>2, <1>3

LEMMA SentPasses ==
  ASSUME stack \in Stacks, NEW s, NEW x
  PROVE  \E f : /\ Passes(f, s, NewEntry(x), EngineOrder, "down", Len(stack))
                /\ Sent(s, x) = f[Len(stack)]
<1> DEFINE f == CHOOSE f : f = [i \in 0..Len(stack) |->
                  IF i = 0 THEN NewEntry(x) ELSE Wrap(s, f[i - 1], EngineOrder[i])]
<1>1. Sent(s, x) = f[Len(stack)]
  BY DEF Sent
<1>2. PICK g : Passes(g, s, NewEntry(x), EngineOrder, "down", Len(stack))
  BY PassesExist, StackTyped
<1>3. g = [i \in 0..Len(stack) |-> IF i = 0 THEN NewEntry(x) ELSE Wrap(s, g[i - 1], EngineOrder[i])]
  BY <1>2 DEF Passes, Pass
<1>4. f = [i \in 0..Len(stack) |-> IF i = 0 THEN NewEntry(x) ELSE Wrap(s, f[i - 1], EngineOrder[i])]
  BY <1>3
<1> HIDE DEF f
<1>5. Passes(f, s, NewEntry(x), EngineOrder, "down", Len(stack))
  BY <1>4 DEF Passes, Pass
<1> QED BY <1>1, <1>5

LEMMA ShownPasses ==
  ASSUME stack \in Stacks, NEW e
  PROVE  \E f : /\ Passes(f, 0, e, stack, "up", Len(stack))
                /\ \A i : Shown(e, i) = f[i - 1]
<1> DEFINE f == CHOOSE f : f = [j \in 0..Len(stack) |->
                  IF j = 0 THEN e ELSE Unwrap(f[j - 1], ApplicatorOrder[j])]
<1>1. \A i : Shown(e, i) = f[i - 1]
  BY DEF Shown
<1>2. PICK g : Passes(g, 0, e, stack, "up", Len(stack))
  BY PassesExist, StackTyped
<1>3. g = [j \in 0..Len(stack) |-> IF j = 0 THEN e ELSE Unwrap(g[j - 1], ApplicatorOrder[j])]
  BY <1>2 DEF Passes, Pass, ApplicatorOrder
<1>4. f = [j \in 0..Len(stack) |-> IF j = 0 THEN e ELSE Unwrap(f[j - 1], ApplicatorOrder[j])]
  BY <1>3
<1> HIDE DEF f
<1>5. Passes(f, 0, e, stack, "up", Len(stack))
  BY <1>4 DEF Passes, Pass, ApplicatorOrder
<1> QED BY <1>1, <1>5

-------------------------------------------------------------------------------
(* The way down *)

ViewOf(s) == [server |-> s, cursor |-> View(s)]
IsEntry(e) == e = [payload |-> e.payload, headers |-> e.headers]

LEMMA HeaderAdded ==
  ASSUME NEW e, IsEntry(e), NEW name, NEW h
  PROVE  /\ IsEntry(WithHeader(e, name, h)) /\ WithHeader(e, name, h).payload = e.payload
         /\ DOMAIN WithHeader(e, name, h).headers = DOMAIN e.headers \cup {name}
         /\ WithHeader(e, name, h).headers[name] = h
<1> DEFINE hs == [n \in DOMAIN e.headers \cup {name} |-> IF n = name THEN h ELSE e.headers[n]]
<1>1. WithHeader(e, name, h) = [payload |-> e.payload, headers |-> hs]
  <2>1. PICK p, q : e = [payload |-> p, headers |-> q] /\ p = e.payload /\ q = e.headers
    BY DEF IsEntry
  <2> QED BY <2>1 DEF WithHeader
<1>2. DOMAIN hs = DOMAIN e.headers \cup {name} /\ hs[name] = h
  OBVIOUS
<1> HIDE DEF hs
<1> QED BY <1>1, <1>2 DEF IsEntry

LEMMA EntryIsNew ==
  ASSUME NEW x
  PROVE  /\ IsEntry(NewEntry(x)) /\ NewEntry(x).payload = x
         /\ NewEntry(x).headers = NoHeaders /\ DOMAIN NewEntry(x).headers = {}
BY DEF IsEntry, NewEntry, NoHeaders

LEMMA ObserverWraps ==
  ASSUME NEW s, NEW e
  PROVE  Wrap(s, e, "observer") = e
BY DEF Wrap, Observe

LEMMA ViewsWrap ==
  ASSUME NEW s, NEW e, IsEntry(e)
  PROVE  /\ IsEntry(Wrap(s, e, "views")) /\ Wrap(s, e, "views").payload = e.payload
         /\ DOMAIN Wrap(s, e, "views").headers = DOMAIN e.headers \cup {"views"}
         /\ Wrap(s, e, "views").headers["views"] = ViewOf(s)
<1>1. Wrap(s, e, "views") = WithHeader(e, "views", ViewOf(s))
  BY DEF Wrap, AddView, ViewOf
<1> QED BY <1>1, HeaderAdded

LEMMA BatchingWraps ==
  ASSUME NEW s, NEW e
  PROVE  /\ IsEntry(Wrap(s, e, "batching")) /\ Wrap(s, e, "batching").payload = <<e.payload>>
         /\ DOMAIN Wrap(s, e, "batching").headers = {"batching"}
<1>1. PICK h, u : Wrap(s, e, "batching") = WithHeader(u, "batching", h) /\ u = NewEntry(<<e.payload>>)
  BY DEF Wrap, Batch
<1>2. IsEntry(u) /\ u.payload = <<e.payload>> /\ DOMAIN u.headers = {}
  BY <1>1, EntryIsNew
<1> QED BY <1>1, <1>2, HeaderAdded

(* What the first i layers of an order make of x. *)
Met(o, i, layer) == \E k \in 1..i : o[k] = layer
Kept(o, i) == \E k \in 1..i : o[k] = "views" /\ \A l \in (k + 1)..i : o[l] # "batching"
Once(o, i) == \A k, l \in 1..i : o[k] = "batching" /\ o[l] = "batching" => k = l
Packs(e, o, i, s, x) ==
  /\ IsEntry(e)
  /\ \A h \in DOMAIN e.headers : Met(o, i, h)
  /\ HasHeader(e, "views") => e.headers["views"] = ViewOf(s)
  /\ HasHeader(e, "batching") <=> Met(o, i, "batching")
  /\ Kept(o, i) => HasHeader(e, "views")
  /\ Once(o, i) => e.payload = IF Met(o, i, "batching") THEN <<x>> ELSE x

LEMMA NewPacks ==
  ASSUME NEW o, NEW s, NEW x
  PROVE  Packs(NewEntry(x), o, 0, s, x)
<1>1. \A k : k \notin 1..0
  OBVIOUS
<1> QED BY <1>1, EntryIsNew DEF Packs, Met, Kept, HasHeader

LEMMA WrapPacks ==
  ASSUME NEW o, NEW i \in Nat \ {0}, o[i] \in Layer, NEW s, NEW x, NEW e,
         Packs(e, o, i - 1, s, x), NEW w, w = Wrap(s, e, o[i])
  PROVE  Packs(w, o, i, s, x)
<1>1. PICK j \in Nat : j = i - 1 /\ i = j + 1
  OBVIOUS
<1>2. \A k : k \in 1..i <=> k \in 1..j \/ k = i
  BY <1>1
<1>3. \A layer : Met(o, i, layer) <=> Met(o, j, layer) \/ o[i] = layer
  BY <1>2 DEF Met
<1>4. Once(o, i) => Once(o, j)
  BY <1>2 DEF Once
<1>5. Once(o, i) /\ o[i] = "batching" => ~Met(o, j, "batching")
  <2>1. \A k \in 1..j : k \in 1..i /\ i \in 1..i /\ k # i
    BY <1>1, <1>2
  <2> QED BY <2>1 DEF Once, Met
<1>6. Kept(o, i) => o[i] = "views" \/ (Kept(o, j) /\ o[i] # "batching")
  <2>1. ASSUME NEW k \in 1..i, o[k] = "views", \A l \in (k + 1)..i : o[l] # "batching", k # i
        PROVE  Kept(o, j) /\ o[i] # "batching"
    <3>1. k \in 1..j /\ i \in (k + 1)..i /\ \A l \in (k + 1)..j : l \in (k + 1)..i
      BY <1>1, <2>1
    <3> QED BY <2>1, <3>1 DEF Kept
  <2> QED BY <2>1 DEF Kept
<1>7. Packs(e, o, j, s, x)
  BY <1>1
<1>8. IsEntry(e)
  BY <1>7 DEF Packs
<1>9. CASE o[i] = "observer"
  <2>1. w = e
    BY <1>9, ObserverWraps
  <2> QED BY <1>3, <1>4, <1>6, <1>7, <1>9, <2>1 DEF Packs
<1>10. CASE o[i] = "views"
  <2>1. /\ IsEntry(w) /\ w.payload = e.payload
        /\ DOMAIN w.headers = DOMAIN e.headers \cup {"views"}
        /\ w.headers["views"] = ViewOf(s)
    BY <1>8, <1>10, ViewsWrap
  <2> QED BY <1>3, <1>4, <1>7, <1>10, <2>1 DEF Packs, HasHeader
<1>11. CASE o[i] = "batching"
  <2>1. IsEntry(w) /\ w.payload = <<e.payload>> /\ DOMAIN w.headers = {"batching"}
    BY <1>11, BatchingWraps
  <2>2. ~Kept(o, i)
    BY <1>6, <1>11
  <2>3. Once(o, i) => e.payload = x
    BY <1>4, <1>5, <1>7, <1>11 DEF Packs
  <2> QED BY <1>3, <1>11, <2>1, <2>2, <2>3 DEF Packs, HasHeader
<1> QED BY <1>9, <1>10, <1>11 DEF Layer

LEMMA AllPack ==
  ASSUME NEW o, NEW n \in Nat, \A i \in 1..n : o[i] \in Layer, NEW s, NEW x,
         NEW f, Passes(f, s, NewEntry(x), o, "down", n)
  PROVE  Packs(f[n], o, n, s, x)
<1> DEFINE T == {k \in 0..n : ~Packs(f[k], o, k, s, x)}
<1>1. f[0] = NewEntry(x) /\ \A i \in 1..n : f[i] = Wrap(s, f[i - 1], o[i])
  <2>1. f[0] = NewEntry(x) /\ \A i \in 1..n : f[i] = Pass(s, f[i - 1], o[i], "down")
    BY PassesAt
  <2> QED BY <2>1 DEF Pass
<1>2. T = {}
  <2> SUFFICES ASSUME T # {} PROVE FALSE
    OBVIOUS
  <2>1. PICK k \in T : \A y \in T : ~(y < k)
    <3>1. T \in SUBSET Nat
      OBVIOUS
    <3> HIDE DEF T
    <3> QED BY <3>1, LeastNat
  <2>2. k # 0
    BY <1>1, <2>1, NewPacks
  <2>3. k \in Nat \ {0} /\ k \in 1..n /\ k - 1 \in 0..n /\ k - 1 < k
    BY <2>2
  <2>4. Packs(f[k - 1], o, k - 1, s, x)
    BY <2>1, <2>3
  <2>5. f[k] = Wrap(s, f[k - 1], o[k]) /\ o[k] \in Layer
    BY <1>1, <2>3
  <2>6. Packs(f[k], o, k, s, x)
    BY <2>3, <2>4, <2>5, WrapPacks
  <2> QED BY <2>1, <2>6
<1>3. n \in 0..n
  OBVIOUS
<1> QED BY <1>2, <1>3

(* The last pushed layer is met first. *)
LEMMA OrderFacts ==
  ASSUME stack \in Stacks
  PROVE  \A k \in 1..Len(stack) : /\ EngineOrder[k] = stack[Len(stack) - k + 1]
                                  /\ Len(stack) - k + 1 \in 1..Len(stack)
                                  /\ EngineOrder[k] \in Layer
<1>1. PICK n \in Nat : n = Len(stack)
  BY StackTyped
<1>2. EngineOrder = [i \in 1..n |-> stack[(n - i) + 1]]
  BY <1>1 DEF EngineOrder, Reverse
<1>3. \A k \in 1..n : n - k + 1 \in 1..n
  BY <1>1
<1>4. \A k \in 1..n : EngineOrder[k] = stack[n - k + 1]
  BY <1>2
<1> QED BY <1>1, <1>3, <1>4, StackTyped

(* No layer below the i-th is a batching layer. *)
LEMMA NoneBelow ==
  ASSUME stack \in Stacks, NEW i \in DOMAIN stack, "batching" \notin ToSet(SubSeq(stack, 1, i - 1))
  PROVE  \A q \in 1..(i - 1) : stack[q] # "batching"
<1>1. /\ stack \in Seq(Layer) /\ Len(stack) \in Nat /\ i \in 1..Len(stack)
  BY StackTyped
<1>2. PICK t : t = SubSeq(stack, 1, i - 1)
  OBVIOUS
<1>3. \A q \in 1..(i - 1) : q \in DOMAIN t /\ t[q] = stack[q]
  BY <1>1, <1>2
<1>4. \A q \in DOMAIN t : t[q] # "batching"
  BY <1>2 DEF ToSet
<1> QED BY <1>3, <1>4

LEMMA SentFacts ==
  ASSUME stack \in Stacks, NEW s, NEW x, NEW e, e = Sent(s, x)
  PROVE  /\ DOMAIN e.headers \subseteq ToSet(stack)
         /\ HasHeader(e, "views") => e.headers["views"] = ViewOf(s)
         /\ Tracked => HasHeader(e, "views")
         /\ HasHeader(e, "batching") <=> Batches
         /\ OneBatching => e.payload = IF Batches THEN <<x>> ELSE x
<1>1. PICK n \in Nat : n = Len(stack)
  BY StackTyped
<1>o. PICK o : o = EngineOrder
  OBVIOUS
<1>2. \A k \in 1..n : o[k] = stack[n - k + 1] /\ n - k + 1 \in 1..n /\ o[k] \in Layer
  BY <1>1, <1>o, OrderFacts
<1>3. DOMAIN stack = 1..n
  BY <1>1, StackTyped
<1>4. Packs(e, o, n, s, x)
  <2>1. PICK f : Passes(f, s, NewEntry(x), o, "down", n) /\ e = f[n]
    BY <1>1, <1>o, SentPasses
  <2> QED BY <1>2, <2>1, AllPack
<1>5. ASSUME NEW layer PROVE Met(o, n, layer) <=> layer \in ToSet(stack)
  <2>1. ASSUME NEW i \in 1..n PROVE n - i + 1 \in 1..n /\ o[n - i + 1] = stack[i]
    <3>1. PICK k \in 1..n : k = n - i + 1 /\ n - k + 1 = i
      OBVIOUS
    <3> QED BY <1>2, <3>1
  <2> QED BY <1>2, <1>3, <2>1 DEF Met, ToSet
<1>6. ASSUME Tracked PROVE Kept(o, n)
  <2>1. PICK i \in DOMAIN stack :
          stack[i] = "views" /\ "batching" \notin ToSet(SubSeq(stack, 1, i - 1))
    BY <1>6 DEF Tracked
  <2>2. \A q \in 1..(i - 1) : stack[q] # "batching"
    BY <2>1, NoneBelow
  <2>3. i \in 1..n
    BY <1>3
  <2>4. PICK k \in 1..n : k = n - i + 1 /\ n - k + 1 = i
    BY <2>3
  <2>5. o[k] = "views"
    BY <1>2, <2>1, <2>4
  <2>6. ASSUME NEW l \in (k + 1)..n PROVE o[l] # "batching"
    <3>1. l \in 1..n /\ n - l + 1 \in 1..(i - 1)
      BY <2>3, <2>4
    <3>2. PICK q \in 1..(i - 1) : q = n - l + 1
      BY <3>1
    <3>3. o[l] = stack[q]
      BY <1>2, <3>1, <3>2
    <3> QED BY <2>2, <3>3
  <2> QED BY <2>5, <2>6 DEF Kept
<1>7. ASSUME OneBatching PROVE Once(o, n)
  <2> SUFFICES ASSUME NEW k \in 1..n, NEW l \in 1..n, o[k] = "batching", o[l] = "batching"
               PROVE  k = l
    BY DEF Once
  <2>1. n - k + 1 \in DOMAIN stack /\ n - l + 1 \in DOMAIN stack
    BY <1>2, <1>3
  <2>2. stack[n - k + 1] = "batching" /\ stack[n - l + 1] = "batching"
    BY <1>2
  <2>3. n - k + 1 = n - l + 1
    BY <1>7, <2>1, <2>2 DEF OneBatching
  <2> QED BY <2>3
<1> QED BY <1>4, <1>5, <1>6, <1>7 DEF Packs, Batches

-------------------------------------------------------------------------------
(* The way up *)

(* The entry is as it was until it meets a batching applicator. What the    *)
(* layers above show of it has its headers or none.                         *)
Unpacks(g, e, i) ==
  /\ g.headers = e.headers \/ g.headers = NoHeaders
  /\ ~Met(stack, i, "batching") => g = e
  /\ HasHeader(e, "batching") /\ Once(stack, i) /\ Met(stack, i, "batching") =>
       g = NewEntry(e.payload[1])

LEMMA UnwrapUnpacks ==
  ASSUME NEW i \in Nat \ {0}, stack[i] \in Layer, NEW e, NEW g, Unpacks(g, e, i - 1),
         NEW u, u = Unwrap(g, stack[i])
  PROVE  Unpacks(u, e, i)
<1>1. PICK j \in Nat : j = i - 1 /\ i = j + 1
  OBVIOUS
<1>2. \A k : k \in 1..i <=> k \in 1..j \/ k = i
  BY <1>1
<1>3. \A layer : Met(stack, i, layer) <=> Met(stack, j, layer) \/ stack[i] = layer
  BY <1>2 DEF Met
<1>4. Once(stack, i) => Once(stack, j)
  BY <1>2 DEF Once
<1>5. Once(stack, i) /\ stack[i] = "batching" => ~Met(stack, j, "batching")
  <2>1. \A k \in 1..j : k \in 1..i /\ i \in 1..i /\ k # i
    BY <1>1, <1>2
  <2> QED BY <2>1 DEF Once, Met
<1>6. Unpacks(g, e, j)
  BY <1>1
<1>7. CASE stack[i] \in {"observer", "views"}
  <2>1. u = g
    BY <1>7 DEF Unwrap, Observe
  <2> QED BY <1>3, <1>4, <1>6, <1>7, <2>1 DEF Unpacks
<1>8. CASE stack[i] = "batching"
  <2>1. u = Unbatch(g)
    BY <1>8 DEF Unwrap
  <2>2. u.headers = e.headers \/ u.headers = NoHeaders
    BY <1>6, <2>1, EntryIsNew DEF Unbatch, Unpacks
  <2>3. ASSUME HasHeader(e, "batching"), Once(stack, i) PROVE u = NewEntry(e.payload[1])
    <3>1. g = e
      BY <1>5, <1>6, <1>8, <2>3 DEF Unpacks
    <3> QED BY <2>1, <2>3, <3>1 DEF Unbatch
  <2> QED BY <1>3, <1>8, <2>2, <2>3 DEF Unpacks
<1> QED BY <1>7, <1>8 DEF Layer

LEMMA AllUnpack ==
  ASSUME stack \in Stacks, NEW e
  PROVE  \A i \in 0..Len(stack) : Unpacks(Shown(e, i + 1), e, i)
<1>1. PICK n \in Nat : n = Len(stack)
  BY StackTyped
<1>2. PICK f : Passes(f, 0, e, stack, "up", n) /\ \A i : Shown(e, i) = f[i - 1]
  BY <1>1, ShownPasses
<1>3. f[0] = e /\ \A i \in 1..n : f[i] = Unwrap(f[i - 1], stack[i])
  <2>1. f[0] = e /\ \A i \in 1..n : f[i] = Pass(0, f[i - 1], stack[i], "up")
    BY <1>2, PassesAt
  <2> QED BY <2>1 DEF Pass
<1> DEFINE T == {k \in 0..n : ~Unpacks(f[k], e, k)}
<1>4. T = {}
  <2> SUFFICES ASSUME T # {} PROVE FALSE
    OBVIOUS
  <2>1. PICK k \in T : \A y \in T : ~(y < k)
    <3>1. T \in SUBSET Nat
      OBVIOUS
    <3> HIDE DEF T
    <3> QED BY <3>1, LeastNat
  <2>2. k # 0
    <3>1. ~Met(stack, 0, "batching")
      BY DEF Met
    <3>2. Unpacks(f[0], e, 0)
      BY <1>3, <3>1 DEF Unpacks
    <3> QED BY <2>1, <3>2
  <2>3. k \in Nat \ {0} /\ k \in 1..n /\ k - 1 \in 0..n /\ k - 1 < k
    BY <2>2
  <2>4. Unpacks(f[k - 1], e, k - 1)
    BY <2>1, <2>3
  <2>5. f[k] = Unwrap(f[k - 1], stack[k]) /\ stack[k] \in Layer
    BY <1>1, <1>3, <2>3, StackTyped
  <2>6. Unpacks(f[k], e, k)
    BY <2>3, <2>4, <2>5, UnwrapUnpacks
  <2> QED BY <2>1, <2>6
<1>5. ASSUME NEW i \in 0..n PROVE Shown(e, i + 1) = f[i]
  <2>1. i + 1 - 1 = i
    OBVIOUS
  <2> QED BY <1>2, <2>1
<1> QED BY <1>1, <1>4, <1>5

LEMMA TopFacts ==
  ASSUME stack \in Stacks, OneBatching, NEW e, NEW x, HasHeader(e, "batching") <=> Batches,
         e.payload = IF Batches THEN <<x>> ELSE x
  PROVE  AtTop(e) = x
<1>1. PICK n \in Nat : n = Len(stack) /\ DOMAIN stack = 1..n
  BY StackTyped
<1>2. PICK g : g = Shown(e, n + 1)
  OBVIOUS
<1>3. Unpacks(g, e, n)
  <2>1. \A i \in 0..n : Unpacks(Shown(e, i + 1), e, i)
    BY <1>1, AllUnpack
  <2>2. n \in 0..n
    BY <1>1
  <2> QED BY <1>2, <2>1, <2>2
<1>4. Once(stack, n)
  BY <1>1 DEF OneBatching, Once
<1>5. Met(stack, n, "batching") <=> Batches
  BY <1>1 DEF Met, Batches, ToSet
<1>6. g.payload = x
  <2>1. CASE Batches
    <3>1. g = NewEntry(e.payload[1]) /\ e.payload = <<x>>
      BY <1>3, <1>4, <1>5, <2>1 DEF Unpacks
    <3>2. e.payload[1] = x
      BY <3>1
    <3> QED BY <3>1, <3>2, EntryIsNew
  <2>2. CASE ~Batches
    BY <1>3, <1>5, <2>2 DEF Unpacks
  <2> QED BY <2>1, <2>2
<1> QED BY <1>1, <1>2, <1>6 DEF AtTop

LEMMA HeaderFacts ==
  ASSUME stack \in Stacks, NEW e
  PROVE  /\ \A h \in ViewHeaders(e) : HasHeader(e, "views") /\ h = e.headers["views"]
         /\ Tracked /\ HasHeader(e, "views") => e.headers["views"] \in ViewHeaders(e)
<1>1. PICK n \in Nat : n = Len(stack) /\ DOMAIN stack = 1..n
  BY StackTyped
<1>2. ASSUME NEW i \in 1..n PROVE Unpacks(Shown(e, i), e, i - 1)
  <2>1. i - 1 \in 0..n /\ i - 1 + 1 = i
    OBVIOUS
  <2> QED BY <1>1, <2>1, AllUnpack
<1>3. ASSUME NEW h \in ViewHeaders(e) PROVE HasHeader(e, "views") /\ h = e.headers["views"]
  <2>1. PICK i \in 1..n : HasHeader(Shown(e, i), "views") /\ h = Shown(e, i).headers["views"]
    BY <1>1 DEF ViewHeaders
  <2>2. PICK g : g = Shown(e, i)
    OBVIOUS
  <2>3. g.headers = e.headers \/ g.headers = NoHeaders
    BY <1>2, <2>2 DEF Unpacks
  <2>4. g.headers = e.headers
    BY <2>1, <2>2, <2>3 DEF HasHeader, NoHeaders
  <2> QED BY <2>1, <2>2, <2>4 DEF HasHeader
<1>4. ASSUME Tracked, HasHeader(e, "views") PROVE e.headers["views"] \in ViewHeaders(e)
  <2>1. PICK i \in DOMAIN stack :
          stack[i] = "views" /\ "batching" \notin ToSet(SubSeq(stack, 1, i - 1))
    BY <1>4 DEF Tracked
  <2>2. \A q \in 1..(i - 1) : stack[q] # "batching"
    BY <2>1, NoneBelow
  <2>3. Shown(e, i) = e
    BY <1>1, <1>2, <2>2 DEF Unpacks, Met
  <2> QED BY <1>4, <2>1, <2>3 DEF ViewHeaders, ApplicatorOrder
<1> QED BY <1>3, <1>4

-------------------------------------------------------------------------------
(* Steps *)

LEMMA LogFacts ==
  ASSUME Shape
  PROVE  Len(log) \in Nat /\ DOMAIN log = 1..Len(log)
<1>1. PICK S : log \in Seq(S)
  BY DEF Shape
<1> QED BY <1>1, LenProperties

LEMMA LogAppended ==
  ASSUME Shape, NEW m, log' = Append(log, m)
  PROVE  /\ \E S : log' \in Seq(S)
         /\ Len(log') = Len(log) + 1 /\ log'[Len(log) + 1] = m
         /\ \A i \in 1..Len(log) : log'[i] = log[i]
         /\ ToSet(log') = ToSet(log) \cup {m}
<1>1. PICK S : log \in Seq(S)
  BY DEF Shape
<1>2. PICK R : R = S \cup {m}
  OBVIOUS
<1>3. log \in Seq(R) /\ m \in R
  <2>1. Len(log) \in Nat /\ log \in [1..Len(log) -> R]
    BY <1>1, <1>2
  <2> QED BY <1>2, <2>1
<1>4. PICK n \in Nat : n = Len(log) /\ DOMAIN log = 1..n
  BY LogFacts
<1>5. /\ log' \in Seq(R) /\ Len(log') = n + 1 /\ log'[n + 1] = m
      /\ \A i \in 1..n : log'[i] = log[i]
  BY <1>3, <1>4, AppendProperties
<1>6. DOMAIN log' = 1..(n + 1)
  BY <1>5
<1>7. \A i : i \in 1..(n + 1) <=> i \in 1..n \/ i = n + 1
  OBVIOUS
<1>8. ToSet(log') = ToSet(log) \cup {m}
  BY <1>4, <1>5, <1>6, <1>7 DEF ToSet
<1> QED BY <1>4, <1>5, <1>8

LEMMA EntriesAre ==
  /\ \A k : k \in Entries <=> (\E r \in Server : k \in outbox[r]) \/ k \in ToSet(log)
  /\ \A k : k \in Entries' <=> (\E r \in Server : k \in outbox'[r]) \/ k \in ToSet(log')
<1>1. ASSUME NEW k PROVE k \in InFlight <=> \E r \in Server : k \in outbox[r]
  BY DEF InFlight
<1>2. ASSUME NEW k PROVE k \in InFlight' <=> \E r \in Server : k \in outbox'[r]
  BY DEF InFlight
<1> QED BY <1>1, <1>2 DEF Entries

TypePart(m) ==
  m.by \in Server /\ m.what \in Payload /\ DOMAIN m.entry.headers \subseteq ToSet(stack)

LEMMA EntriesKept ==
  ASSUME TypeOK, EntryInv, stack' = stack, NEW m, m \in Entries,
         cursor[m.by] <= cursor'[m.by], cursor'[m.by] \in Int
  PROVE  TypePart(m)' /\ EntryPart(m)'
<1>1. TypePart(m) /\ EntryPart(m) /\ m.by \in Server
  BY DEF TypePart, TypeOK, EntryInv
<1>2. TypePart(m)'
  BY <1>1 DEF TypePart
<1>3. (Tracked' <=> Tracked) /\ (Batches' <=> Batches)
  BY DEF Tracked, Batches
<1>4. cursor[m.by] \in Int
  BY <1>1 DEF TypeOK
<1>5. ASSUME HasHeader(m.entry, "views")
      PROVE  /\ m.entry.headers["views"].server = m.by
             /\ m.entry.headers["views"].cursor \in Nat
             /\ m.entry.headers["views"].cursor <= cursor'[m.by]
  BY <1>1, <1>4, <1>5 DEF EntryPart
<1>6. EntryPart(m)'
  BY <1>1, <1>3, <1>5 DEF EntryPart
<1> QED BY <1>2, <1>6

LEMMA ProposeStep ==
  ASSUME Inv, NEW s \in Server, NEW x \in Payload, Propose(s, x)
  PROVE  Inv'
<1>1. PICK m : /\ m = [by |-> s, what |-> x, entry |-> Sent(s, x)]
               /\ outbox' = [outbox EXCEPT ![s] = @ \cup {m}]
               /\ UNCHANGED <<stack, log, cursor, target, views, applied, seen, restarts>>
  BY DEF Propose
<1>2. /\ \A r \in Server : outbox'[r] = IF r = s THEN outbox[r] \cup {m} ELSE outbox[r]
      /\ outbox' = [r \in Server |-> outbox'[r]]
  BY <1>1 DEF Inv, Shape
<1>3. Entries' \subseteq Entries \cup {m}
  BY <1>1, <1>2, EntriesAre
<1>4. TypePart(m)' /\ EntryPart(m)'
  <2>1. PICK e : e = Sent(s, x) /\ m.entry = e /\ m.by = s /\ m.what = x
    BY <1>1
  <2>2. stack \in Stacks /\ cursor[s] \in Nat
    BY DEF Inv, TypeOK
  <2>3. /\ DOMAIN e.headers \subseteq ToSet(stack)
        /\ HasHeader(e, "views") => e.headers["views"] = ViewOf(s)
        /\ Tracked => HasHeader(e, "views")
        /\ HasHeader(e, "batching") <=> Batches
        /\ OneBatching => e.payload = IF Batches THEN <<x>> ELSE x
    BY <2>1, <2>2, SentFacts
  <2>4. View(s) \in Nat /\ View(s) <= cursor[s]
    BY <2>2 DEF Inv, TypeOK, ViewInv, View
  <2>5. ViewOf(s).server = s /\ ViewOf(s).cursor = View(s)
    BY DEF ViewOf
  <2>6. TypePart(m) /\ EntryPart(m)
    BY <2>1, <2>3, <2>4, <2>5 DEF TypePart, EntryPart
  <2>7. (Tracked' <=> Tracked) /\ (Batches' <=> Batches) /\ cursor' = cursor /\ stack' = stack
    BY <1>1 DEF Tracked, Batches
  <2> QED BY <2>6, <2>7 DEF TypePart, EntryPart
<1>5. \A k \in Entries' : TypePart(k)' /\ EntryPart(k)'
  <2>1. ASSUME NEW k \in Entries PROVE TypePart(k)' /\ EntryPart(k)'
    <3>1. k.by \in Server /\ cursor[k.by] \in Int
      BY DEF Inv, TypeOK
    <3> QED BY <1>1, <3>1, EntriesKept DEF Inv
  <2> QED BY <1>3, <1>4, <2>1
<1>6. TypeOK' /\ Shape' /\ ViewInv'
  BY <1>1, <1>2, <1>5 DEF Inv, TypeOK, TypePart, Shape, ViewInv
<1>7. EntryInv'
  BY <1>1, <1>2, <1>5 DEF Inv, EntryInv
<1>8. ViewsAreCurrent' /\ (OneBatching => AppliedAsProposed')
  BY <1>1 DEF Inv, ViewsAreCurrent, AppliedAsProposed, Tracked
<1> QED BY <1>6, <1>7, <1>8 DEF Inv

(* What changes nothing but the requests at the base engine, its target or  *)
(* the memory of a server that restarts.                                    *)
LEMMA FewerEntries ==
  ASSUME Inv, UNCHANGED <<stack, log, cursor>>, outbox' = [r \in Server |-> outbox'[r]],
         \A r \in Server : outbox'[r] \subseteq outbox[r]
  PROVE  /\ \A m \in Entries' : TypePart(m)'
         /\ EntryInv'
<1>1. Entries' \subseteq Entries
  BY EntriesAre
<1>2. \A m \in Entries' : TypePart(m)' /\ EntryPart(m)'
  <2>1. ASSUME NEW k \in Entries PROVE TypePart(k)' /\ EntryPart(k)'
    <3>1. k.by \in Server /\ cursor[k.by] \in Int
      BY DEF Inv, TypeOK
    <3> QED BY <3>1, EntriesKept DEF Inv
  <2> QED BY <1>1, <2>1
<1>3. \A s \in Server : \A m \in outbox'[s] : m.by = s
  BY DEF Inv, EntryInv
<1> QED BY <1>2, <1>3 DEF EntryInv

LEMMA FailStep ==
  ASSUME Inv, NEW s \in Server, NEW m \in outbox[s], AppendFails(s, m)
  PROVE  Inv'
<1>1. /\ outbox' = [outbox EXCEPT ![s] = @ \ {m}]
      /\ UNCHANGED <<stack, log, cursor, target, views, applied, seen, restarts>>
  BY DEF AppendFails
<1>2. /\ outbox' = [r \in Server |-> outbox'[r]]
      /\ \A r \in Server : outbox'[r] \subseteq outbox[r]
  BY <1>1 DEF Inv, Shape
<1>3. EntryInv' /\ \A k \in Entries' : TypePart(k)'
  BY <1>1, <1>2, FewerEntries
<1>4. TypeOK' /\ Shape' /\ ViewInv'
  BY <1>1, <1>2, <1>3 DEF Inv, TypeOK, TypePart, Shape, ViewInv
<1>5. ViewsAreCurrent' /\ (OneBatching => AppliedAsProposed')
  BY <1>1 DEF Inv, ViewsAreCurrent, AppliedAsProposed, Tracked
<1> QED BY <1>3, <1>4, <1>5 DEF Inv

LEMMA SyncStep ==
  ASSUME Inv, NEW s \in Server, Sync(s)
  PROVE  Inv'
<1>1. /\ target' = [target EXCEPT ![s] = Len(log)]
      /\ UNCHANGED <<stack, log, outbox, cursor, views, applied, seen, restarts>>
  BY DEF Sync
<1>2. /\ outbox' = [r \in Server |-> outbox'[r]]
      /\ \A r \in Server : outbox'[r] \subseteq outbox[r]
  BY <1>1 DEF Inv, Shape
<1>3. EntryInv' /\ \A k \in Entries' : TypePart(k)'
  BY <1>1, <1>2, FewerEntries
<1>4. target' \in [Server -> 0..Len(log)]
  <2>1. Len(log) \in 0..Len(log)
    BY LogFacts DEF Inv
  <2> QED BY <1>1, <2>1 DEF Inv, TypeOK
<1>5. TypeOK' /\ Shape' /\ ViewInv'
  BY <1>1, <1>2, <1>3, <1>4 DEF Inv, TypeOK, TypePart, Shape, ViewInv
<1>6. ViewsAreCurrent' /\ (OneBatching => AppliedAsProposed')
  BY <1>1 DEF Inv, ViewsAreCurrent, AppliedAsProposed, Tracked
<1> QED BY <1>3, <1>5, <1>6 DEF Inv

LEMMA ReadFailsStep ==
  ASSUME Inv, NEW s \in Server, ReadFails(s)
  PROVE  Inv'
<1>1. /\ target' = [target EXCEPT ![s] = 0]
      /\ UNCHANGED <<stack, log, outbox, cursor, views, applied, seen, restarts>>
  BY DEF ReadFails
<1>2. /\ outbox' = [r \in Server |-> outbox'[r]]
      /\ \A r \in Server : outbox'[r] \subseteq outbox[r]
  BY <1>1 DEF Inv, Shape
<1>3. EntryInv' /\ \A k \in Entries' : TypePart(k)'
  BY <1>1, <1>2, FewerEntries
<1>4. target' \in [Server -> 0..Len(log)]
  <2>1. 0 \in 0..Len(log)
    BY LogFacts DEF Inv
  <2> QED BY <1>1, <2>1 DEF Inv, TypeOK
<1>5. TypeOK' /\ Shape' /\ ViewInv'
  BY <1>1, <1>2, <1>3, <1>4 DEF Inv, TypeOK, TypePart, Shape, ViewInv
<1>6. ViewsAreCurrent' /\ (OneBatching => AppliedAsProposed')
  BY <1>1 DEF Inv, ViewsAreCurrent, AppliedAsProposed, Tracked
<1> QED BY <1>3, <1>5, <1>6 DEF Inv

LEMMA RestartStep ==
  ASSUME Inv, NEW s \in Server, Restart(s)
  PROVE  Inv'
<1>1. /\ restarts < MaxRestarts /\ restarts' = restarts + 1
      /\ outbox' = [outbox EXCEPT ![s] = {}]
      /\ target' = [target EXCEPT ![s] = 0]
      /\ views' = [views EXCEPT ![s] = NoViews]
      /\ seen' = [seen EXCEPT ![s] = {}]
      /\ UNCHANGED <<stack, log, cursor, applied>>
  BY DEF Restart
<1>2. /\ outbox' = [r \in Server |-> outbox'[r]]
      /\ \A r \in Server : outbox'[r] \subseteq outbox[r]
  BY <1>1 DEF Inv, Shape
<1>3. EntryInv' /\ \A k \in Entries' : TypePart(k)'
  BY <1>1, <1>2, FewerEntries
<1>4. target' \in [Server -> 0..Len(log)]
  <2>1. 0 \in 0..Len(log)
    BY LogFacts DEF Inv
  <2> QED BY <1>1, <2>1 DEF Inv, TypeOK
<1>5. /\ \A r \in Server : /\ views'[r] = IF r = s THEN NoViews ELSE views[r]
                           /\ seen'[r] = IF r = s THEN {} ELSE seen[r]
      /\ DOMAIN NoViews = {}
      /\ views' = [r \in Server |-> views'[r]] /\ seen' = [r \in Server |-> seen'[r]]
  BY <1>1 DEF Inv, Shape, NoViews
<1>6. views' = [r \in Server |-> [t \in DOMAIN views'[r] |-> views'[r][t]]]
  <2>1. ASSUME NEW r \in Server PROVE views'[r] = [t \in DOMAIN views'[r] |-> views'[r][t]]
    <3>1. CASE r = s
      BY <1>5, <3>1 DEF NoViews
    <3>2. CASE r # s
      BY <1>5, <3>2 DEF Inv, Shape
    <3> QED BY <3>1, <3>2
  <2> QED BY <1>5, <2>1
<1>7. restarts' \in 0..MaxRestarts
  BY <1>1, BoundsAssumption DEF Inv, TypeOK
<1>8. TypeOK' /\ ViewInv'
  BY <1>1, <1>3, <1>4, <1>5, <1>7 DEF Inv, TypeOK, TypePart, ViewInv
<1>9. Shape'
  BY <1>1, <1>2, <1>5, <1>6 DEF Inv, Shape
<1>10. ViewsAreCurrent'
  <2> SUFFICES ASSUME Tracked, NEW r \in Server
               PROVE  views'[r] = [t \in {log[p].by : p \in seen'[r]} |->
                                     Max({p \in seen'[r] : log[p].by = t})]
    BY <1>1 DEF ViewsAreCurrent, Tracked
  <2>1. CASE r = s
    <3>1. seen'[r] = {} /\ views'[r] = NoViews
      BY <1>5, <2>1
    <3>2. {log[p].by : p \in seen'[r]} = {}
      BY <3>1
    <3> QED BY <3>1, <3>2 DEF NoViews
  <2>2. CASE r # s
    BY <1>5, <2>2 DEF Inv, ViewsAreCurrent
  <2> QED BY <2>1, <2>2
<1>11. OneBatching => AppliedAsProposed'
  BY <1>1 DEF Inv, AppliedAsProposed
<1> QED BY <1>3, <1>8, <1>9, <1>10, <1>11 DEF Inv

LEMMA AppendStep ==
  ASSUME Inv, NEW s \in Server, NEW m \in outbox[s], AppendOne(s, m)
  PROVE  Inv'
<1>1. /\ outbox' = [outbox EXCEPT ![s] = @ \ {m}]
      /\ log' = Append(log, m)
      /\ target' = [target EXCEPT ![s] = Len(log')]
      /\ UNCHANGED <<stack, cursor, views, applied, seen, restarts>>
  BY DEF AppendOne
<1>2. /\ outbox' = [r \in Server |-> outbox'[r]]
      /\ \A r \in Server : outbox'[r] \subseteq outbox[r]
  BY <1>1 DEF Inv, Shape
<1>3. PICK n \in Nat : n = Len(log)
  BY LogFacts DEF Inv
<1>4. /\ \E S : log' \in Seq(S)
      /\ Len(log') = n + 1 /\ \A i \in 1..n : log'[i] = log[i]
      /\ ToSet(log') = ToSet(log) \cup {m}
  BY <1>1, <1>3, LogAppended DEF Inv
<1>5. Entries' \subseteq Entries
  <2> SUFFICES ASSUME NEW k \in Entries' PROVE k \in Entries
    OBVIOUS
  <2>1. CASE \E r \in Server : k \in outbox'[r]
    BY <1>2, <2>1, EntriesAre
  <2>2. CASE k \in ToSet(log')
    <3>1. k \in ToSet(log) \/ k = m
      BY <1>4, <2>2
    <3> QED BY <3>1, EntriesAre
  <2> QED BY <2>1, <2>2, EntriesAre
<1>6. \A k \in Entries' : TypePart(k)' /\ EntryPart(k)'
  <2>1. ASSUME NEW k \in Entries PROVE TypePart(k)' /\ EntryPart(k)'
    <3>1. k.by \in Server /\ cursor[k.by] \in Int
      BY DEF Inv, TypeOK
    <3> QED BY <1>1, <3>1, EntriesKept DEF Inv
  <2> QED BY <1>5, <2>1
<1>7. EntryInv'
  BY <1>1, <1>2, <1>6 DEF Inv, EntryInv
<1>8. target' \in [Server -> 0..Len(log')] /\ cursor' \in [Server -> 1..(Len(log') + 1)]
  <2>1. /\ \A i \in 0..n : i \in 0..(n + 1)
        /\ n + 1 \in 0..(n + 1)
        /\ \A i \in 1..(n + 1) : i \in 1..(n + 1 + 1)
    BY <1>3
  <2>2. target \in [Server -> 0..n] /\ cursor \in [Server -> 1..(n + 1)]
    BY <1>3 DEF Inv, TypeOK
  <2> QED BY <1>1, <1>4, <2>1, <2>2
<1>9. \A r \in Server : /\ \A t \in DOMAIN views'[r] : views'[r][t] \in 1..Len(log')
                        /\ seen'[r] \subseteq 1..Len(log')
  <2>1. \A i \in 1..n : i \in 1..(n + 1)
    BY <1>3
  <2> QED BY <1>1, <1>3, <1>4, <2>1 DEF Inv, TypeOK
<1>10. TypeOK' /\ ViewInv' /\ Shape'
  <2>1. Shape'
    BY <1>1, <1>2, <1>4 DEF Inv, Shape
  <2>2. ViewInv'
    BY <1>1 DEF Inv, ViewInv
  <2>3. \A k \in Entries' : TypePart(k)'
    BY <1>6
  <2>4. TypeOK'
    BY <1>1, <1>8, <1>9, <2>3 DEF Inv, TypeOK, TypePart
  <2> QED BY <2>1, <2>2, <2>4
<1>11. ViewsAreCurrent'
  <2> SUFFICES ASSUME Tracked, NEW r \in Server
               PROVE  views[r] = [t \in {log'[p].by : p \in seen[r]} |->
                                     Max({p \in seen[r] : log'[p].by = t})]
    BY <1>1 DEF ViewsAreCurrent, Tracked
  <2>1. \A p \in seen[r] : log'[p] = log[p]
    BY <1>3, <1>4 DEF Inv, TypeOK
  <2>2. /\ {log'[p].by : p \in seen[r]} = {log[p].by : p \in seen[r]}
        /\ \A t : {p \in seen[r] : log'[p].by = t} = {p \in seen[r] : log[p].by = t}
    BY <2>1
  <2>3. views[r] = [t \in {log[p].by : p \in seen[r]} |-> Max({p \in seen[r] : log[p].by = t})]
    BY DEF Inv, ViewsAreCurrent
  <2> QED BY <2>2, <2>3
<1>12. ASSUME OneBatching PROVE AppliedAsProposed'
  <2> SUFFICES ASSUME NEW r \in Server
               PROVE  applied[r] = [i \in 1..(cursor[r] - 1) |-> log'[i].what]
    BY <1>1 DEF AppliedAsProposed
  <2>1. \A i \in 1..(cursor[r] - 1) : i \in 1..n
    BY <1>3 DEF Inv, TypeOK
  <2>2. applied[r] = [i \in 1..(cursor[r] - 1) |-> log[i].what]
    BY <1>12 DEF Inv, AppliedAsProposed
  <2> QED BY <1>4, <2>1, <2>2
<1> QED BY <1>7, <1>10, <1>11, <1>12 DEF Inv

(* An entry is played, whether it is applied or fails. *)
LEMMA PlaysFacts ==
  ASSUME Inv, NEW s \in Server, Playing(s)
  PROVE  /\ cursor[s] \in 1..Len(log) /\ cursor[s] \in Nat /\ Len(log) \in Nat
         /\ log[cursor[s]] \in Entries /\ log[cursor[s]].by \in Server
<1>1. PICK p, n : p = cursor[s] /\ n = Len(log) /\ n \in Nat /\ DOMAIN log = 1..n
  BY LogFacts DEF Inv
<1>2. p \in 1..(n + 1) /\ target[s] \in 0..n /\ p <= target[s]
  BY <1>1 DEF Inv, TypeOK, Playing
<1>3. p \in 1..n /\ p \in Nat
  BY <1>1, <1>2
<1>4. log[p] \in Entries
  <2>1. log[p] \in ToSet(log)
    BY <1>1, <1>3 DEF ToSet
  <2> QED BY <2>1, EntriesAre
<1>5. log[p].by \in Server
  BY <1>4 DEF Inv, TypeOK
<1> QED BY <1>1, <1>3, <1>4, <1>5

(* The view map takes the position for the server that made the entry, and  *)
(* for nobody else.                                                         *)
Notes(s, p, free, known) ==
  /\ known \subseteq {log[p].by}
  /\ Tracked /\ free => known = {log[p].by}
  /\ ~free => known = {}
  /\ views'[s] = [t \in DOMAIN views[s] \cup known |-> IF t \in known THEN p ELSE views[s][t]]
  /\ seen'[s] = IF free THEN seen[s] \cup {p} ELSE seen[s]
  /\ \A r \in Server : r # s => views'[r] = views[r] /\ seen'[r] = seen[r]
  /\ views' = [r \in Server |-> views'[r]] /\ seen' = [r \in Server |-> seen'[r]]

LEMMA RecordNotes ==
  ASSUME Inv, NEW s \in Server, NEW free \in BOOLEAN, NEW p, log[p] \in Entries,
         RecordViews(s, p, free)
  PROVE  \E known : Notes(s, p, free, known)
<1>1. PICK e, by : e = log[p].entry /\ by = log[p].by
  OBVIOUS
<1>2. PICK known : known = IF free THEN {h.server : h \in ViewHeaders(e)} ELSE {}
  OBVIOUS
<1>3. EntryPart(log[p]) /\ stack \in Stacks
  BY DEF Inv, EntryInv, TypeOK
<1>4. /\ HasHeader(e, "views") => e.headers["views"].server = by
      /\ Tracked => HasHeader(e, "views")
  BY <1>1, <1>3 DEF EntryPart
<1>5. /\ \A h \in ViewHeaders(e) : HasHeader(e, "views") /\ h = e.headers["views"]
      /\ Tracked /\ HasHeader(e, "views") => e.headers["views"] \in ViewHeaders(e)
  BY <1>3, HeaderFacts
<1>6. \A h \in ViewHeaders(e) : h.server = by
  BY <1>4, <1>5
<1>7. Tracked => \E h \in ViewHeaders(e) : h.server = by
  BY <1>4, <1>5
<1>8. /\ known \subseteq {by}
      /\ Tracked /\ free => known = {by}
      /\ ~free => known = {}
  <2>1. {h.server : h \in ViewHeaders(e)} \subseteq {by}
    BY <1>6
  <2>2. Tracked => {h.server : h \in ViewHeaders(e)} = {by}
    BY <1>6, <1>7
  <2>3. CASE free
    <3>1. known = {h.server : h \in ViewHeaders(e)}
      BY <1>2, <2>3
    <3> QED BY <2>1, <2>2, <2>3, <3>1
  <2>4. CASE ~free
    BY <1>2, <2>4
  <2> QED BY <2>3, <2>4
<1>9. /\ views' = [views EXCEPT ![s] = [t \in DOMAIN @ \cup known |->
                                          IF t \in known THEN p ELSE @[t]]]
      /\ seen' = [seen EXCEPT ![s] = IF free THEN @ \cup {p} ELSE @]
  <2>1. \A q : Recorded(q) = q
    BY DEF Recorded
  <2> QED BY <1>1, <1>2, <2>1 DEF RecordViews
<1>10. DOMAIN views = Server /\ DOMAIN seen = Server
  BY DEF Inv, Shape
<1>11. /\ views'[s] = [t \in DOMAIN views[s] \cup known |-> IF t \in known THEN p ELSE views[s][t]]
       /\ seen'[s] = IF free THEN seen[s] \cup {p} ELSE seen[s]
       /\ \A r \in Server : r # s => views'[r] = views[r] /\ seen'[r] = seen[r]
       /\ views' = [r \in Server |-> views'[r]] /\ seen' = [r \in Server |-> seen'[r]]
  BY <1>9, <1>10
<1> QED BY <1>1, <1>8, <1>11 DEF Notes

(* Max of a set with p and numbers below it. *)
LEMMA MaxIs ==
  ASSUME NEW M, M \subseteq Int, NEW p \in M, \A q \in M : q <= p
  PROVE  Max(M) = p
<1>1. \A y \in M : p >= y
  OBVIOUS
<1>2. Max(M) \in M /\ \A y \in M : Max(M) >= y
  BY <1>1 DEF Max
<1>3. PICK x \in Int : x = Max(M)
  BY <1>2
<1>4. x >= p /\ x <= p /\ p \in Int
  BY <1>2, <1>3
<1> QED BY <1>3, <1>4

LEMMA NotesCurrent ==
  ASSUME Inv, NEW s \in Server, NEW free \in BOOLEAN, Playing(s), NEW known,
         Notes(s, cursor[s], free, known), UNCHANGED <<stack, log>>
  PROVE  ViewsAreCurrent'
<1> SUFFICES ASSUME Tracked, NEW r \in Server
             PROVE  views'[r] = [t \in {log[p].by : p \in seen'[r]} |->
                                   Max({p \in seen'[r] : log[p].by = t})]
  BY DEF ViewsAreCurrent, Tracked
<1>1. views[r] = [t \in {log[p].by : p \in seen[r]} |-> Max({p \in seen[r] : log[p].by = t})]
  BY DEF Inv, ViewsAreCurrent
<1>2. CASE r # s
  BY <1>1, <1>2 DEF Notes
<1>3. CASE r = s /\ ~free
  <2>1. known = {} /\ seen'[s] = seen[s]
    BY <1>3 DEF Notes
  <2>2. views'[s] = [t \in DOMAIN views[s] |-> views[s][t]]
    BY <2>1 DEF Notes
  <2>3. views'[s] = views[s]
    BY <1>1, <1>3, <2>2
  <2> QED BY <1>1, <1>3, <2>1, <2>3
<1>4. CASE r = s /\ free
  <2>0. PICK c \in Nat : c = cursor[s]
    BY PlaysFacts
  <2>1. PICK by : c = cursor[s] /\ by = log[c].by
    BY <2>0
  <2>2. /\ known = {by} /\ seen'[s] = seen[s] \cup {c}
        /\ views'[s] = [t \in DOMAIN views[s] \cup {by} |-> IF t \in {by} THEN c ELSE views[s][t]]
    BY <1>4, <2>1 DEF Notes
  <2>3. PICK D : D = {log[p].by : p \in seen[s]}
    OBVIOUS
  <2>4. DOMAIN views[s] = D /\ \A t \in D : views[s][t] = Max({p \in seen[s] : log[p].by = t})
    BY <1>1, <1>4, <2>3
  <2>5. {log[p].by : p \in seen'[s]} = D \cup {by}
    BY <2>1, <2>2, <2>3
  <2>6. Max({p \in seen'[s] : log[p].by = by}) = c
    <3>1. PICK M : M = {p \in seen'[s] : log[p].by = by}
      OBVIOUS
    <3>2. M \subseteq Int /\ \A q \in M : q <= c
      <4>1. \A q \in seen[s] : q \in Int /\ q <= c
        BY <2>1 DEF Inv, TypeOK, ViewInv
      <4> QED BY <2>2, <3>1, <4>1
    <3>3. c \in M
      BY <2>1, <2>2, <3>1
    <3> QED BY <3>1, <3>2, <3>3, MaxIs
  <2>7. ASSUME NEW t, t # by PROVE {p \in seen'[s] : log[p].by = t} = {p \in seen[s] : log[p].by = t}
    BY <2>1, <2>2, <2>7
  <2>8. \A t \in D \cup {by} : (IF t \in {by} THEN c ELSE views[s][t])
                                 = Max({p \in seen'[s] : log[p].by = t})
    BY <2>4, <2>6, <2>7
  <2>9. views'[s] = [t \in D \cup {by} |-> Max({p \in seen'[s] : log[p].by = t})]
    BY <2>2, <2>4, <2>8
  <2> QED BY <1>4, <2>5, <2>9
<1> QED BY <1>2, <1>3, <1>4

LEMMA NotesTyped ==
  ASSUME Inv, NEW s \in Server, NEW free \in BOOLEAN, Playing(s), NEW known,
         Notes(s, cursor[s], free, known),
         NEW r \in Server
  PROVE  /\ DOMAIN views'[r] \subseteq Server
         /\ \A t \in DOMAIN views'[r] : views'[r][t] \in 1..Len(log) /\ views'[r][t] <= cursor[r]
         /\ seen'[r] \subseteq 1..Len(log)
         /\ \A p \in seen'[r] : p <= cursor[r]
         /\ views'[r] = [t \in DOMAIN views'[r] |-> views'[r][t]]
<1>1. /\ DOMAIN views[r] \subseteq Server
      /\ \A t \in DOMAIN views[r] : views[r][t] \in 1..Len(log) /\ views[r][t] <= cursor[r]
      /\ seen[r] \subseteq 1..Len(log)
      /\ \A p \in seen[r] : p <= cursor[r]
      /\ views[r] = [t \in DOMAIN views[r] |-> views[r][t]]
  BY DEF Inv, TypeOK, ViewInv, Shape
<1>2. CASE r # s
  BY <1>1, <1>2 DEF Notes
<1>3. CASE r = s
  <2>1. PICK c \in Nat : c = cursor[s] /\ c \in 1..Len(log) /\ log[c].by \in Server
    BY PlaysFacts
  <2>2. /\ known \subseteq Server
        /\ views'[s] = [t \in DOMAIN views[s] \cup known |-> IF t \in known THEN c ELSE views[s][t]]
        /\ seen'[s] \subseteq seen[s] \cup {c}
    BY <2>1 DEF Notes
  <2>3. DOMAIN views'[s] = DOMAIN views[s] \cup known
    BY <2>2
  <2>4. \A t \in DOMAIN views'[s] : views'[s][t] = IF t \in known THEN c ELSE views[s][t]
    BY <2>2, <2>3
  <2>5. c <= c
    BY <2>1
  <2>6. \A t \in DOMAIN views'[s] : views'[s][t] \in 1..Len(log) /\ views'[s][t] <= c
    BY <1>1, <1>3, <2>1, <2>3, <2>4, <2>5
  <2>7. seen'[s] \subseteq 1..Len(log) /\ \A p \in seen'[s] : p <= c
    BY <1>1, <1>3, <2>1, <2>2, <2>5
  <2>8. views'[s] = [t \in DOMAIN views'[s] |-> views'[s][t]]
    BY <2>2
  <2> QED BY <1>1, <1>3, <2>1, <2>2, <2>3, <2>6, <2>7, <2>8
<1> QED BY <1>2, <1>3

(* What both outcomes have in common. *)
LEMMA PlayedParts ==
  ASSUME Inv, NEW s \in Server, NEW free \in BOOLEAN, Playing(s), RecordViews(s, cursor[s], free),
         UNCHANGED <<stack, log, outbox, restarts>>, applied' = [r \in Server |-> applied'[r]],
         cursor' \in [Server -> 1..(Len(log) + 1)], \A r \in Server : cursor[r] <= cursor'[r],
         target' \in [Server -> 0..Len(log)]
  PROVE  TypeOK' /\ Shape' /\ EntryInv' /\ ViewInv' /\ ViewsAreCurrent'
<1>1. PICK known : Notes(s, cursor[s], free, known)
  BY PlaysFacts, RecordNotes
<1>2. ASSUME NEW r \in Server
      PROVE  /\ DOMAIN views'[r] \subseteq Server
             /\ \A t \in DOMAIN views'[r] : views'[r][t] \in 1..Len(log) /\ views'[r][t] <= cursor[r]
             /\ seen'[r] \subseteq 1..Len(log)
             /\ \A p \in seen'[r] : p <= cursor[r]
             /\ views'[r] = [t \in DOMAIN views'[r] |-> views'[r][t]]
  BY <1>1, NotesTyped
<1>3. Entries' = Entries
  BY DEF Entries, InFlight
<1>4. \A m \in Entries' : TypePart(m)' /\ EntryPart(m)'
  <2>1. ASSUME NEW k \in Entries PROVE TypePart(k)' /\ EntryPart(k)'
    <3>1. k.by \in Server
      BY DEF Inv, TypeOK
    <3>2. cursor[k.by] <= cursor'[k.by] /\ cursor'[k.by] \in Int
      BY <3>1
    <3> QED BY <3>2, EntriesKept DEF Inv
  <2> QED BY <1>3, <2>1
<1>5. EntryInv'
  BY <1>4 DEF Inv, EntryInv
<1>6. TypeOK'
  <2>1. \A m \in Entries' : TypePart(m)'
    BY <1>4
  <2> QED BY <1>2, <2>1 DEF Inv, TypeOK, TypePart
<1>7. views' = [r \in Server |-> views'[r]] /\ seen' = [r \in Server |-> seen'[r]]
  BY <1>1 DEF Notes
<1>8. Shape'
  <2>1. views' = [r \in Server |-> [t \in DOMAIN views'[r] |-> views'[r][t]]]
    BY <1>2, <1>7
  <2> QED BY <1>7, <2>1 DEF Inv, Shape
<1>9. ViewInv'
  <2> SUFFICES ASSUME NEW r \in Server
               PROVE  /\ \A t \in DOMAIN views'[r] : views'[r][t] <= cursor'[r]
                      /\ \A p \in seen'[r] : p <= cursor'[r]
    BY DEF ViewInv
  <2>1. cursor[r] \in Int /\ cursor'[r] \in Int /\ cursor[r] <= cursor'[r]
    BY DEF Inv, TypeOK
  <2>0. \A i \in 1..Len(log) : i \in Int
    BY PlaysFacts
  <2>2. \A t \in DOMAIN views'[r] : views'[r][t] \in Int /\ views'[r][t] <= cursor[r]
    BY <1>2, <2>0
  <2>3. \A p \in seen'[r] : p \in Int /\ p <= cursor[r]
    BY <1>2, <2>0
  <2> QED BY <2>1, <2>2, <2>3
<1>10. ViewsAreCurrent'
  BY <1>1, NotesCurrent
<1> QED BY <1>5, <1>6, <1>8, <1>9, <1>10

LEMMA ApplyStep ==
  ASSUME Inv, NEW s \in Server, NEW free \in Lock, Apply(s, free)
  PROVE  Inv'
<1>1. /\ Playing(s) /\ RecordViews(s, cursor[s], free)
      /\ applied' = [applied EXCEPT ![s] = Append(@, AtTop(log[cursor[s]].entry))]
      /\ cursor' = [cursor EXCEPT ![s] = cursor[s] + 1]
      /\ UNCHANGED <<stack, log, outbox, target, restarts>>
  BY DEF Apply
<1>2. PICK p \in Nat, n \in Nat : p = cursor[s] /\ n = Len(log) /\ p \in 1..n
  BY <1>1, PlaysFacts
<1>3. /\ cursor \in [Server -> 1..(n + 1)] /\ target' \in [Server -> 0..n]
      /\ DOMAIN applied = Server /\ applied' = [r \in Server |-> applied'[r]]
  BY <1>1, <1>2 DEF Inv, TypeOK, Shape
<1>4. p + 1 \in 1..(n + 1) /\ p <= p + 1
  BY <1>2
<1>5. cursor' \in [Server -> 1..(n + 1)] /\ \A r \in Server : cursor'[r] = IF r = s THEN p + 1 ELSE cursor[r]
  BY <1>1, <1>2, <1>3, <1>4
<1>6. \A r \in Server : cursor[r] <= cursor'[r]
  <2>1. \A r \in Server : cursor[r] \in Int
    BY <1>3
  <2> QED BY <1>2, <1>4, <1>5, <2>1
<1>7. TypeOK' /\ Shape' /\ EntryInv' /\ ViewInv' /\ ViewsAreCurrent'
  <2>1. free \in BOOLEAN
    BY LockAssumption
  <2> QED BY <1>1, <1>2, <1>3, <1>5, <1>6, <2>1, PlayedParts
<1>8. ASSUME OneBatching PROVE AppliedAsProposed'
  <2> SUFFICES ASSUME NEW r \in Server
               PROVE  applied'[r] = [i \in 1..(cursor'[r] - 1) |-> log[i].what]
    <3>1. log' = log
      BY <1>1
    <3> QED BY <3>1 DEF AppliedAsProposed
  <2>1. applied[r] = [i \in 1..(cursor[r] - 1) |-> log[i].what]
    BY <1>8 DEF Inv, AppliedAsProposed
  <2>2. CASE r # s
    BY <1>1, <1>3, <1>5, <2>1, <2>2
  <2>3. CASE r = s
    <3>1. PICK x : x = log[p].what
      OBVIOUS
    <3>2. AtTop(log[p].entry) = x
      <4>1. log[p] \in Entries
        BY <1>1, <1>2, PlaysFacts
      <4>2. EntryPart(log[p]) /\ stack \in Stacks
        BY <4>1 DEF Inv, EntryInv, TypeOK
      <4>3. PICK e : e = log[p].entry
        OBVIOUS
      <4>4. (HasHeader(e, "batching") <=> Batches) /\ e.payload = IF Batches THEN <<x>> ELSE x
        BY <1>8, <3>1, <4>2, <4>3 DEF EntryPart
      <4>5. AtTop(e) = x
        BY <1>8, <4>2, <4>4, TopFacts
      <4> QED BY <4>3, <4>5
    <3>3. applied'[s] = Append(applied[s], x)
      BY <1>1, <1>2, <1>3, <3>2
    <3>4. PICK q \in Nat : q = p - 1 /\ p = q + 1
      BY <1>2
    <3>5. PICK a, b, S : /\ a = [i \in 1..q |-> log[i].what]
                         /\ b = [i \in 1..p |-> log[i].what]
                         /\ S = {log[i].what : i \in 1..p}
      OBVIOUS
    <3>6. \A i : i \in 1..p <=> i \in 1..q \/ i = p
      BY <3>4
    <3>7. a \in Seq(S) /\ b \in Seq(S) /\ x \in S /\ Len(a) = q /\ Len(b) = p
      <4>1. a \in [1..q -> S] /\ b \in [1..p -> S] /\ x \in S
        BY <3>1, <3>5, <3>6
      <4>2. a \in Seq(S) /\ b \in Seq(S)
        BY <4>1
      <4>3. DOMAIN a = 1..q /\ DOMAIN b = 1..p
        BY <4>1
      <4> QED BY <4>1, <4>2, <4>3, LenProperties
    <3>8. PICK c : c = Append(a, x)
      OBVIOUS
    <3>9. /\ c \in Seq(S) /\ Len(c) = p /\ c[p] = x
          /\ \A i \in 1..q : c[i] = a[i]
      BY <3>4, <3>7, <3>8, AppendProperties
    <3>10. \A i \in 1..p : c[i] = b[i]
      BY <3>1, <3>5, <3>6, <3>9
    <3>11. c = b
      BY <3>7, <3>9, <3>10, SeqEqual
    <3>12. applied[s] = a
      BY <1>2, <2>1, <2>3, <3>4, <3>5
    <3>13. cursor'[s] - 1 = p
      BY <1>2, <1>5
    <3> QED BY <2>3, <3>3, <3>5, <3>8, <3>11, <3>12, <3>13
  <2> QED BY <2>2, <2>3
<1> QED BY <1>7, <1>8 DEF Inv

LEMMA ApplyFailsStep ==
  ASSUME Inv, NEW s \in Server, NEW free \in Lock, ApplyFails(s, free)
  PROVE  Inv'
<1>1. /\ Playing(s) /\ RecordViews(s, cursor[s], free)
      /\ target' = [target EXCEPT ![s] = 0]
      /\ UNCHANGED <<stack, log, outbox, cursor, applied, restarts>>
  BY DEF ApplyFails
<1>2. 0 \in 0..Len(log)
  BY LogFacts DEF Inv
<1>3. /\ cursor' \in [Server -> 1..(Len(log) + 1)] /\ target' \in [Server -> 0..Len(log)]
      /\ applied' = [r \in Server |-> applied'[r]]
  BY <1>1, <1>2 DEF Inv, TypeOK, Shape
<1>4. \A r \in Server : cursor[r] <= cursor'[r]
  <2>1. \A r \in Server : cursor[r] \in Int
    BY DEF Inv, TypeOK
  <2> QED BY <1>1, <2>1
<1>5. TypeOK' /\ Shape' /\ EntryInv' /\ ViewInv' /\ ViewsAreCurrent'
  <2>1. free \in BOOLEAN
    BY LockAssumption
  <2> QED BY <1>1, <1>3, <1>4, <2>1, PlayedParts
<1>6. OneBatching => AppliedAsProposed'
  BY <1>1 DEF Inv, AppliedAsProposed
<1> QED BY <1>5, <1>6 DEF Inv

-------------------------------------------------------------------------------
(* Theorems *)

LEMMA InitInv ==
  ASSUME Init
  PROVE  Inv
<1>1. /\ stack \in Stacks /\ log = <<>> /\ restarts = 0
      /\ \A s \in Server : /\ outbox[s] = {} /\ cursor[s] = 1 /\ target[s] = 0
                           /\ views[s] = NoViews /\ applied[s] = <<>> /\ seen[s] = {}
  BY DEF Init
<1>2. Len(log) = 0 /\ DOMAIN log = {} /\ DOMAIN NoViews = {} /\ \A i : i \notin 1..0
  BY <1>1 DEF NoViews
<1>3. Entries = {}
  <2>1. ToSet(log) = {}
    BY <1>2 DEF ToSet
  <2> QED BY <1>1, <2>1, EntriesAre
<1>4. TypeOK
  <2>1. cursor \in [Server -> 1..(Len(log) + 1)] /\ target \in [Server -> 0..Len(log)]
    BY <1>2 DEF Init
  <2>2. restarts \in 0..MaxRestarts
    BY <1>1, BoundsAssumption
  <2> QED BY <1>1, <1>2, <1>3, <2>1, <2>2 DEF TypeOK
<1>5. Shape
  <2>1. log \in Seq({})
    BY <1>1, EmptySeq
  <2>2. \A s \in Server : views[s] = [t \in DOMAIN views[s] |-> views[s][t]]
    BY <1>1 DEF NoViews
  <2>3. /\ outbox = [s \in Server |-> outbox[s]] /\ applied = [s \in Server |-> applied[s]]
        /\ seen = [s \in Server |-> seen[s]] /\ views = [s \in Server |-> views[s]]
    BY DEF Init
  <2>4. views = [s \in Server |-> [t \in DOMAIN views[s] |-> views[s][t]]]
    BY <2>2, <2>3
  <2> QED BY <2>1, <2>3, <2>4 DEF Shape
<1>6. EntryInv /\ ViewInv
  BY <1>1, <1>2, <1>3 DEF EntryInv, ViewInv
<1>7. ViewsAreCurrent
  <2> SUFFICES ASSUME NEW s \in Server
               PROVE  views[s] = [t \in {log[p].by : p \in seen[s]} |->
                                    Max({p \in seen[s] : log[p].by = t})]
    BY DEF ViewsAreCurrent
  <2>1. {log[p].by : p \in seen[s]} = {} /\ views[s] = NoViews
    BY <1>1
  <2> QED BY <2>1 DEF NoViews
<1>8. AppliedAsProposed
  <2> SUFFICES ASSUME NEW s \in Server
               PROVE  applied[s] = [i \in 1..(cursor[s] - 1) |-> log[i].what]
    BY DEF AppliedAsProposed
  <2>1. cursor[s] - 1 = 0 /\ 1..0 = {} /\ applied[s] = <<>>
    BY <1>1
  <2>2. [i \in 1..0 |-> log[i].what] = <<>>
    BY EmptySeq
  <2> QED BY <2>1, <2>2
<1> QED BY <1>4, <1>5, <1>6, <1>7, <1>8 DEF Inv

LEMMA StutterInv ==
  ASSUME Inv, UNCHANGED vars
  PROVE  Inv'
<1>1. UNCHANGED <<stack, log, outbox, cursor, target, views, applied, seen, restarts>>
  BY DEF vars
<1>2. Entries' = Entries
  BY <1>1 DEF Entries, InFlight
<1>3. TypeOK' /\ Shape' /\ ViewInv'
  BY <1>1, <1>2 DEF Inv, TypeOK, Shape, ViewInv
<1>4. EntryInv'
  BY <1>1, <1>2 DEF Inv, EntryInv, EntryPart, Tracked, Batches
<1>5. ViewsAreCurrent' /\ (OneBatching => AppliedAsProposed')
  BY <1>1 DEF Inv, ViewsAreCurrent, AppliedAsProposed, Tracked
<1> QED BY <1>3, <1>4, <1>5 DEF Inv

(* The inductive invariant: what is in flight and in the log is what some   *)
(* server's stack made of a payload, with a view that server had passed by  *)
(* then, for any servers, stacks and bounds.                                *)
THEOREM Invariance == Spec => []Inv
<1>1. Init => Inv
  BY InitInv
<1>2. Inv /\ [Next]_vars => Inv'
  BY ProposeStep, AppendStep, FailStep, SyncStep, ReadFailsStep, ApplyStep, ApplyFailsStep,
     RestartStep, StutterInv DEF Next
<1> QED BY <1>1, <1>2, PTL DEF Spec

(* Every variable keeps its type: cursors, targets and view maps stay       *)
(* within the log, and headers are those of layers of the stack.            *)
THEOREM TypeCorrect == Spec => []TypeOK
<1>1. Inv => TypeOK
  BY DEF Inv
<1> QED BY <1>1, Invariance, PTL

(* The application is given the payloads as they were proposed, in the      *)
(* order of the log, each once, through any layers in any order, provided   *)
(* no stack batches twice (stack.rs:60-74).                                 *)
THEOREM PayloadsUnchanged == OneBatching => (Spec => []AppliedAsProposed)
<1> SUFFICES ASSUME OneBatching PROVE Spec => []AppliedAsProposed
  OBVIOUS
<1>1. Inv => AppliedAsProposed
  BY DEF Inv
<1> QED BY <1>1, Invariance, PTL

(* The view map has each server's latest entry among those played with the  *)
(* map free since the start (view_tracking.rs:104-142).                     *)
THEOREM ViewsCurrent == Spec => []ViewsAreCurrent
<1>1. Inv => ViewsAreCurrent
  BY DEF Inv
<1> QED BY <1>1, Invariance, PTL

(* No server ever claims, in a header, to have played more of the log than  *)
(* its durable cursor says (view_tracking.rs:62-84, 126).                   *)
THEOREM HeadersBehind == Spec => []HeadersNeverAhead
<1>1. Inv => HeadersNeverAhead
  BY DEF Inv, EntryInv, EntryPart, HeadersNeverAhead
<1> QED BY <1>1, Invariance, PTL
===============================================================================
