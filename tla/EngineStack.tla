------------------------------ MODULE EngineStack ------------------------------
(***************************************************************************)
(* A stack of engines over BaseEngine: crates/relos-engine/src/stack.rs,    *)
(* with the layers of view_tracking.rs, observer.rs and batching.rs, on     *)
(* servers that play one log, the sequence SharedLog specifies, which       *)
(* VirtualLog is for one appender. An entry goes down through the engines   *)
(* of a stack, which add their headers, and comes up through its            *)
(* applicators.                                                             *)
(*                                                                          *)
(* BaseEngine is reduced to its apply loop and batching to batches of one:  *)
(* their modules have the rest. Calls of the log may fail; an append that   *)
(* fails although the entry is stored is one whose first read fails, and a  *)
(* position that is left empty one whose reads fail for ever. A check of    *)
(* the tail that fails changes nothing.                                     *)
(***************************************************************************)
EXTENDS Integers, Sequences, SequencesExt, FiniteSets, FiniteSetsExt

CONSTANTS
  Server,
  Payload, Rejected,       \* payloads, and those the application fails on
  Lock,                    \* may the view map be found free, or held: BOOLEAN
  Stacks,                  \* stacks that may be built, first pushed first
  MaxLog, MaxOutbox,       \* bounds: entries in the log; proposals in flight
  MaxRestarts

ASSUME PayloadAssumption == Rejected \subseteq Payload
ASSUME LockAssumption == Lock \subseteq BOOLEAN
ASSUME StackAssumption == Stacks \subseteq Seq({"observer", "views", "batching"})
ASSUME BoundsAssumption == {MaxLog, MaxOutbox, MaxRestarts} \subseteq Nat

VARIABLES
  stack,                   \* the stack every server has
  log,                     \* the log: the entry, and who proposed what in it
  outbox,                  \* per server: what its stack has sent to the base
  cursor,                  \* per server, durable: the next position to apply
  target,                  \* per server: the position its apply loop goes to
  views,                   \* per server: the view map, by server
  applied,                 \* per server: what the application has applied
  seen,                    \* history, per server: the positions it has played
                           \* with the view map free since it started
  restarts

vars == <<stack, log, outbox, cursor, target, views, applied, seen, restarts>>

-------------------------------------------------------------------------------
(* Entries and layers *)

NoHeaders == [h \in {} |-> 0]
NewEntry(x) == [payload |-> x, headers |-> NoHeaders]

WithHeaderOnly(e, name, h) ==              \* mutant: a new entry for each layer
  [e EXCEPT !.headers = [n \in {name} |-> h]]
WithHeader(e, name, h) ==
  [e EXCEPT !.headers = [n \in DOMAIN @ \cup {name} |-> IF n = name THEN h ELSE @[n]]]

HasHeader(e, name) == name \in DOMAIN e.headers

View(s) == IF s \in DOMAIN views[s] THEN views[s][s] ELSE 0

(* ObserverEngine and ObserverApplicator measure, and pass everything on. *)
Observe(e) == e

(* ViewTrackingEngine *)
AddView(s, e) == WithHeader(e, "views", [server |-> s, cursor |-> View(s)])

(* BatchingEngine keeps the payload alone; BatchingApplicator makes a new   *)
(* entry of it.                                                             *)
Batch(e) == WithHeader(NewEntry(<<e.payload>>), "batching", [count |-> 1])
Unbatch(e) == IF HasHeader(e, "batching") THEN NewEntry(e.payload[1]) ELSE e

(* What the engine of a layer passes down, and its applicator up. *)
Wrap(s, e, layer) ==
  CASE layer = "observer" -> Observe(e)
    [] layer = "views"    -> AddView(s, e)
    [] layer = "batching" -> Batch(e)
Unwrap(e, layer) ==
  CASE layer = "observer" -> Observe(e)
    [] layer = "views"    -> e
    [] layer = "batching" -> Unbatch(e)

(* wrap_engine in push order: a proposal meets the last pushed first.       *)
(* wrap_applicator in reverse order: an entry meets the first pushed first. *)
EngineOrder == Reverse(stack)
ApplicatorOrderSame == EngineOrder         \* mutant: both in push order
ApplicatorOrder == stack

Sent(s, x) ==
  LET passed[i \in 0..Len(stack)] ==
        IF i = 0 THEN NewEntry(x) ELSE Wrap(s, passed[i - 1], EngineOrder[i])
  IN passed[Len(stack)]

(* The entry as the i-th applicator sees it, or the application. *)
Shown(e, i) ==
  LET passed[j \in 0..Len(stack)] ==
        IF j = 0 THEN e ELSE Unwrap(passed[j - 1], ApplicatorOrder[j])
  IN passed[i - 1]
AtTop(e) == Shown(e, Len(stack) + 1).payload

(* The headers that the view tracking applicators of the stack find. *)
ViewHeaders(e) ==
  {Shown(e, i).headers["views"] :
     i \in {j \in DOMAIN stack : ApplicatorOrder[j] = "views" /\ HasHeader(Shown(e, j), "views")}}

-------------------------------------------------------------------------------
InFlight == UNION {outbox[s] : s \in Server}
Entries == InFlight \cup ToSet(log)

(* The types of the state. *)
TypeOK ==
  /\ stack \in Stacks
  /\ \A m \in Entries : /\ m.by \in Server /\ m.what \in Payload
                        /\ DOMAIN m.entry.headers \subseteq ToSet(stack)
  /\ cursor \in [Server -> 1..(Len(log) + 1)]
  /\ target \in [Server -> 0..Len(log)]
  /\ \A s \in Server : /\ DOMAIN views[s] \subseteq Server
                       /\ \A t \in DOMAIN views[s] : views[s][t] \in 1..Len(log)
                       /\ seen[s] \subseteq 1..Len(log)
  /\ restarts \in 0..MaxRestarts

NoViews == [t \in {} |-> 0]

Init ==
  /\ stack \in Stacks
  /\ log = <<>>
  /\ outbox = [s \in Server |-> {}]
  /\ cursor = [s \in Server |-> 1]
  /\ target = [s \in Server |-> 0]
  /\ views = [s \in Server |-> NoViews]
  /\ applied = [s \in Server |-> <<>>]
  /\ seen = [s \in Server |-> {}]
  /\ restarts = 0

-------------------------------------------------------------------------------
(* propose at the top: the entry has all its headers, among them this       *)
(* server's view of now, when it reaches the channel of the base engine.    *)
(* Two proposals of a server get there in either order.                     *)
Propose(s, x) ==
  LET m == [by |-> s, what |-> x, entry |-> Sent(s, x)] IN
  /\ Len(log) + Cardinality(InFlight) < MaxLog
  /\ Cardinality(outbox[s]) < MaxOutbox
  /\ m \notin outbox[s]
  /\ outbox' = [outbox EXCEPT ![s] = @ \cup {m}]
  /\ UNCHANGED <<stack, log, cursor, target, views, applied, seen, restarts>>

Playing(s) == cursor[s] <= target[s]

AppendOne(s, m) ==
  /\ ~Playing(s)
  /\ m \in outbox[s]
  /\ outbox' = [outbox EXCEPT ![s] = @ \ {m}]
  /\ log' = Append(log, m)
  /\ target' = [target EXCEPT ![s] = Len(log')]
  /\ UNCHANGED <<stack, cursor, views, applied, seen, restarts>>

AppendFails(s, m) ==
  /\ ~Playing(s)
  /\ m \in outbox[s]
  /\ outbox' = [outbox EXCEPT ![s] = @ \ {m}]
  /\ UNCHANGED <<stack, log, cursor, target, views, applied, seen, restarts>>

Sync(s) ==
  /\ ~Playing(s)
  /\ target' = [target EXCEPT ![s] = Len(log)]
  /\ UNCHANGED <<stack, log, outbox, cursor, views, applied, seen, restarts>>

RecordedNext(p) == p + 1                   \* mutant: as the cursor counts
Recorded(p) == p

(* The view tracking applicator, for position p: the map is left as it is   *)
(* when somebody else holds its lock.                                       *)
RecordViews(s, p, free) ==
  LET known == IF free THEN {h.server : h \in ViewHeaders(log[p].entry)} ELSE {} IN
  /\ views' = [views EXCEPT ![s] = [t \in DOMAIN @ \cup known |->
                                      IF t \in known THEN Recorded(p) ELSE @[t]]]
  /\ seen' = [seen EXCEPT ![s] = IF free THEN @ \cup {p} ELSE @]

(* One entry, with the cursor, in one transaction. *)
Apply(s, free) ==
  LET p == cursor[s]
      x == AtTop(log[p].entry) IN
  /\ Playing(s)
  /\ x \notin Rejected
  /\ RecordViews(s, p, free)
  /\ applied' = [applied EXCEPT ![s] = Append(@, x)]
  /\ cursor' = [cursor EXCEPT ![s] = p + 1]
  /\ UNCHANGED <<stack, log, outbox, target, restarts>>

(* log.read returns an error, or None: no applicator is asked. *)
ReadFails(s) ==
  /\ Playing(s)
  /\ target' = [target EXCEPT ![s] = 0]
  /\ UNCHANGED <<stack, log, outbox, cursor, views, applied, seen, restarts>>

(* The application fails: the transaction and the request are dropped, what *)
(* the layers below it did in memory stays.                                 *)
ApplyFails(s, free) ==
  LET p == cursor[s] IN
  /\ Playing(s)
  /\ AtTop(log[p].entry) \in Rejected
  /\ RecordViews(s, p, free)
  /\ target' = [target EXCEPT ![s] = 0]
  /\ UNCHANGED <<stack, log, outbox, cursor, applied, restarts>>

(* A server stops and its stack is built again on its store. *)
Restart(s) ==
  /\ restarts < MaxRestarts
  /\ restarts' = restarts + 1
  /\ outbox' = [outbox EXCEPT ![s] = {}]
  /\ target' = [target EXCEPT ![s] = 0]
  /\ views' = [views EXCEPT ![s] = NoViews]
  /\ seen' = [seen EXCEPT ![s] = {}]
  /\ UNCHANGED <<stack, log, cursor, applied>>

Next == \E s \in Server :
  \/ \E x \in Payload : Propose(s, x)
  \/ \E m \in outbox[s] : AppendOne(s, m) \/ AppendFails(s, m)
  \/ Sync(s) \/ ReadFails(s)
  \/ \E free \in Lock : Apply(s, free) \/ ApplyFails(s, free)
  \/ Restart(s)

Spec == Init /\ [][Next]_vars

-------------------------------------------------------------------------------
(* Properties *)

(* The application is given the payloads as they were proposed, in the      *)
(* order of the log, each once, whatever layers they went through and       *)
(* however often a server restarts (stack.rs:60-74).                        *)
AppliedAsProposed ==
  \A s \in Server : applied[s] = [i \in 1..(cursor[s] - 1) |-> log[i].what]

(* View headers meet the view tracking applicator again unless a batching   *)
(* layer below takes them off.                                              *)
Tracked == \E i \in DOMAIN stack :
             stack[i] = "views" /\ "batching" \notin ToSet(SubSeq(stack, 1, i - 1))

(* The view map of a server has each server's latest entry among those it   *)
(* has played with the map free since it started, failed ones too           *)
(* (view_tracking.rs:104-142).                                              *)
ViewsAreCurrent ==
  Tracked => \A s \in Server :
    views[s] = [t \in {log[p].by : p \in seen[s]} |->
                  Max({p \in seen[s] : log[p].by = t})]

(* No server ever claims, in a header, to have played more of the log than  *)
(* its durable cursor says, though the map is written before the entry is   *)
(* applied (view_tracking.rs:62-84, 126).                                   *)
HeadersNeverAhead ==
  \A m \in Entries : HasHeader(m.entry, "views") =>
    LET h == m.entry.headers["views"] IN h.server = m.by /\ h.cursor <= cursor[m.by]

(* trim_prefix, and 0 for None; a log trimmed at p keeps p. *)
TrimPrefix(s) == IF DOMAIN views[s] = {} THEN 0
                 ELSE Min({views[s][t] : t \in DOMAIN views[s]})

(* A log trimmed at trim_prefix keeps what the servers in the view map have *)
(* yet to play: "enabling safe prefix trimming of the shared log"           *)
(* (view_tracking.rs:23-26).                                                *)
TrimPrefixIsSafe ==
  \A s \in Server : \A t \in DOMAIN views[s] : TrimPrefix(s) <= cursor[t]
================================================================================
