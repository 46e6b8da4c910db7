------------------------------ MODULE VirtualLog ------------------------------
(***************************************************************************)
(* crates/relos-log/src/virtual_log.rs over MemoryLoglets and a             *)
(* MemoryMetaStore (metastore.rs): one VirtualLog, called by several tasks.  *)
(*                                                                          *)
(* The VirtualLog keeps its chain, the chain's version and the map from     *)
(* loglet ids to loglets behind three separate locks; MetaStore has its own. *)
(* An action is what a task does under one lock: between two of them any    *)
(* other task may run. A loglet lives on in the tasks that hold its Arc     *)
(* when the map forgets it, so loglets are numbered by creation (insts) and *)
(* the map sends an id to such a number.                                    *)
(***************************************************************************)
EXTENDS Integers, Sequences, FiniteSets, MemoryLoglet, LogChain

CONSTANTS
  Task,                                    \* tasks that call the log
  Appenders, Sealers, Readers, Trimmers,   \* which of them call what
  MaxAppends,    \* bound: appends that are started
  MaxSeals,      \* bound: seals of the log that are started
  MaxSegments    \* bound: segments a reconfiguration may grow the chain to

ASSUME RolesAssumption ==
  Appenders \cup Sealers \cup Readers \cup Trimmers \subseteq Task
ASSUME BoundsAssumption ==
  MaxAppends \in Nat /\ MaxSeals \in Nat /\ MaxSegments \in Nat

VARIABLES
  meta,                            \* MemoryMetaStore: [chain, version]
  chain, chainVersion, loglets,    \* the VirtualLog's three locks
  insts,                           \* every loglet the factory ever made
  pc, local, result,               \* the tasks
  issued, seals, trimTo,           \* history: appends and seals started,
                                   \* the highest position of a trim,
  acked, known                     \* the appends that returned Ok, and which
                                   \* of them a call must take into account

logVars == <<meta, chain, chainVersion, loglets, insts>>
historyVars == <<issued, seals, trimTo, acked>>
vars == <<logVars, pc, local, result, historyVars, known>>

Entry == 1..MaxAppends             \* the n-th append is started with entry n
Position == 1..(MaxAppends + 1)

-------------------------------------------------------------------------------
(* The local variables of a call. mode is the caller of get_active_loglet.  *)
NoLocals == [mode |-> "none", entry |-> NoEntry, pos |-> 0, id |-> 0, start |-> 0,
             inst |-> 0, sealPos |-> 0, version |-> 0, chain |-> <<>>]

Res(op, tag, pos, entry) == [op |-> op, tag |-> tag, pos |-> pos, entry |-> entry]

TypeOK ==
  /\ meta.version \in Nat /\ chainVersion \in Nat
  /\ \A seg \in ToSet(meta.chain) \cup ToSet(chain) :
       seg \in [id : 0..MaxSegments, start : Position, end : Position \cup {NoEnd}]
  /\ DOMAIN loglets \subseteq 0..MaxSegments
  /\ \A id \in DOMAIN loglets : loglets[id] \in 1..Len(insts)
  /\ \A k \in 1..Len(insts) :
       /\ insts[k].entries \in Seq(Entry \cup {NoEntry})
       /\ insts[k].sealed \in BOOLEAN
       /\ insts[k].trim_pos \in 1..(MaxAppends + 1)
  /\ pc \in [Task -> {"idle", "get_chain", "get_loglet", "on_loglet",
                      "read_version", "read_chain", "cas", "insert",
                      "sync_read", "sync_insert", "write_chain",
                      "write_version", "read_loglet", "trim"}]
  /\ issued \in 0..MaxAppends /\ seals \in 0..MaxSeals /\ trimTo \in Position
  /\ acked \subseteq [pos : Position, entry : Entry]
  /\ known \in [Task -> SUBSET [pos : Position, entry : Entry]]

(* VirtualLog::new over a MetaStore with a fresh chain. *)
Init ==
  /\ meta = [chain |-> NewChain, version |-> 0]
  /\ chain = NewChain
  /\ chainVersion = 0
  /\ loglets = [id \in {0} |-> 1]
  /\ insts = <<NewLoglet>>
  /\ pc = [t \in Task |-> "idle"]
  /\ local = [t \in Task |-> NoLocals]
  /\ result = [t \in Task |-> Res("none", "pending", 0, NoEntry)]
  /\ issued = 0 /\ seals = 0 /\ trimTo = 1
  /\ acked = {}
  /\ known = [t \in Task |-> {}]

-------------------------------------------------------------------------------
(* Position arithmetic *)

LocalToGlobalSkew(start, pos) ==           \* mutant: the "- 1" is lost, which
  IF start = 1 THEN pos ELSE start + pos   \* the first segment cannot show
LocalToGlobal(start, pos) == start + pos - 1

GlobalToLocalSkew(start, pos) ==           \* mutant: the "+ 1" is lost
  IF start = 1 THEN pos ELSE pos - start
GlobalToLocal(start, pos) == pos - start + 1

(* generate_loglet_id *)
GenerateLogletId(ch) == Len(ch)

-------------------------------------------------------------------------------
(* Entering, continuing and leaving a call *)

Goto(t, label) == pc' = [pc EXCEPT ![t] = label]

Return(t, res) ==
  /\ Goto(t, "idle")
  /\ local' = [local EXCEPT ![t] = NoLocals]
  /\ result' = [result EXCEPT ![t] = res]
  /\ known' = [known EXCEPT ![t] = {}]

Internal(t, op) == Return(t, Res(op, "internal", 0, NoEntry))

(* get_active_loglet, first lock: the open segment's id and start. *)
GetChain(t, locals) ==
  IF HasActive(chain)
  THEN /\ local' = [local EXCEPT
                      ![t] = [locals EXCEPT !.id = Last(chain).id,
                                            !.start = Last(chain).start]]
       /\ Goto(t, "get_loglet")
       /\ result' = [result EXCEPT ![t] = Res(locals.mode, "pending", 0, NoEntry)]
       /\ known' = [known EXCEPT ![t] = IF locals.mode = "check_tail" THEN acked ELSE @]
  ELSE Internal(t, locals.mode)

(* get_active_loglet, second lock: the loglet the map has for that id now. *)
GetLoglet(t) ==
  /\ pc[t] = "get_loglet"
  /\ IF local[t].id \in DOMAIN loglets
     THEN /\ local' = [local EXCEPT ![t].inst = loglets[local[t].id]]
          /\ Goto(t, "on_loglet")
          /\ UNCHANGED <<result, known>>
     ELSE Internal(t, local[t].mode)
  /\ UNCHANGED <<logVars, historyVars>>

Update(k, inner) == insts' = [insts EXCEPT ![k] = inner]

-------------------------------------------------------------------------------
(* append, check_tail, seal *)

BeginAppend(t) ==
  /\ t \in Appenders /\ pc[t] = "idle"
  /\ issued < MaxAppends
  /\ issued' = issued + 1
  /\ GetChain(t, [NoLocals EXCEPT !.mode = "append", !.entry = issued + 1])
  /\ UNCHANGED <<logVars, seals, trimTo, acked>>

(* The loop of append: again after a reconfiguration, or the reconfiguration *)
(* itself, which starts by looking the active loglet up once more.          *)
GetChainAgain(t) ==
  /\ pc[t] = "get_chain"
  /\ GetChain(t, local[t])
  /\ UNCHANGED <<logVars, historyVars>>

AppendOk(t) ==
  LET inner == insts[local[t].inst]
      pos == LocalToGlobal(local[t].start, LogletTail(inner)) IN
  /\ pc[t] = "on_loglet" /\ local[t].mode = "append"
  /\ ~inner.sealed
  /\ Update(local[t].inst, LogletAppend(inner, local[t].entry))
  /\ acked' = acked \cup {[pos |-> pos, entry |-> local[t].entry]}
  /\ Return(t, Res("append", "ok", pos, local[t].entry))
  /\ UNCHANGED <<meta, chain, chainVersion, loglets, issued, seals, trimTo>>

(* Err(Sealed): reconfigure. *)
AppendSealed(t) ==
  /\ pc[t] = "on_loglet" /\ local[t].mode = "append"
  /\ insts[local[t].inst].sealed
  /\ local' = [local EXCEPT ![t].mode = "reconfigure"]
  /\ Goto(t, "get_chain")
  /\ UNCHANGED <<logVars, result, historyVars, known>>

BeginCheckTail(t) ==
  /\ t \in Readers /\ pc[t] = "idle"
  /\ GetChain(t, [NoLocals EXCEPT !.mode = "check_tail"])
  /\ UNCHANGED <<logVars, historyVars>>

CheckTail(t) ==
  /\ pc[t] = "on_loglet" /\ local[t].mode = "check_tail"
  /\ Return(t, Res("check_tail", "ok",
                   LocalToGlobal(local[t].start, LogletTail(insts[local[t].inst])),
                   NoEntry))
  /\ UNCHANGED <<logVars, historyVars>>

BeginSeal(t) ==
  /\ t \in Sealers /\ pc[t] = "idle"
  /\ seals < MaxSeals
  /\ seals' = seals + 1
  /\ GetChain(t, [NoLocals EXCEPT !.mode = "seal"])
  /\ UNCHANGED <<logVars, issued, trimTo, acked>>

Seal(t) ==
  LET inner == insts[local[t].inst] IN
  /\ pc[t] = "on_loglet" /\ local[t].mode = "seal"
  /\ Update(local[t].inst, LogletSeal(inner))
  /\ Return(t, Res("seal", "ok",
                   LocalToGlobal(local[t].start, LogletTail(inner)), NoEntry))
  /\ UNCHANGED <<meta, chain, chainVersion, loglets, historyVars>>

-------------------------------------------------------------------------------
(* reconfigure *)

(* Step 1: seal the active loglet. *)
ReconfigureSeal(t) ==
  LET inner == insts[local[t].inst] IN
  /\ pc[t] = "on_loglet" /\ local[t].mode = "reconfigure"
  /\ Len(chain) < MaxSegments
  /\ Update(local[t].inst, LogletSeal(inner))
  /\ local' = [local EXCEPT
                 ![t].sealPos = LocalToGlobal(local[t].start, LogletTail(inner))]
  /\ Goto(t, "read_version")
  /\ UNCHANGED <<meta, chain, chainVersion, loglets, result, historyVars, known>>

(* Step 2: the version, then the chain, as they are by now. *)
ReadVersion(t) ==
  /\ pc[t] = "read_version"
  /\ local' = [local EXCEPT ![t].version = chainVersion]
  /\ Goto(t, "read_chain")
  /\ UNCHANGED <<logVars, result, historyVars, known>>

ReadChain(t) ==
  /\ pc[t] = "read_chain"
  /\ local' = [local EXCEPT ![t].id = GenerateLogletId(chain),
                            ![t].chain = Extend(chain, local[t].sealPos,
                                                GenerateLogletId(chain))]
  /\ Goto(t, "cas")
  /\ UNCHANGED <<logVars, result, historyVars, known>>

(* meta_store.write: compare and swap on the version. *)
CasSucceeds(t) ==
  /\ pc[t] = "cas"
  /\ meta.version = local[t].version
  /\ meta' = [chain |-> local[t].chain, version |-> meta.version + 1]
  /\ local' = [local EXCEPT ![t].version = @ + 1]
  /\ Goto(t, "insert")
  /\ UNCHANGED <<chain, chainVersion, loglets, insts, result, historyVars, known>>

CasFails(t) ==
  /\ pc[t] = "cas"
  /\ meta.version # local[t].version
  /\ Goto(t, "sync_read")
  /\ UNCHANGED <<logVars, local, result, historyVars, known>>

(* The winner: create the loglet and insert it over whatever the id had. *)
InsertLoglet(t) ==
  /\ pc[t] = "insert"
  /\ insts' = Append(insts, NewLoglet)
  /\ loglets' = [id \in DOMAIN loglets \cup {local[t].id} |->
                   IF id = local[t].id THEN Len(insts) + 1 ELSE loglets[id]]
  /\ Goto(t, "write_chain")
  /\ UNCHANGED <<meta, chain, chainVersion, local, result, historyVars, known>>

(* sync_chain: the loser reads MetaStore... *)
SyncRead(t) ==
  /\ pc[t] = "sync_read"
  /\ local' = [local EXCEPT ![t].chain = meta.chain, ![t].version = meta.version]
  /\ Goto(t, "sync_insert")
  /\ UNCHANGED <<logVars, result, historyVars, known>>

(* ... and creates the loglets the map lacks. *)
WantedClosed(ch) ==                        \* mutant: the open one is skipped
  {ch[i].id : i \in 1..(Len(ch) - 1)}
Wanted(ch) == {ch[i].id : i \in DOMAIN ch}

SyncInsert(t) ==
  LET wanted == Wanted(local[t].chain)
      missing == SetToSeq(wanted \ DOMAIN loglets) IN
  /\ pc[t] = "sync_insert"
  /\ insts' = insts \o [i \in DOMAIN missing |-> NewLoglet]
  /\ loglets' = [id \in DOMAIN loglets \cup wanted |->
                   IF id \in DOMAIN loglets THEN loglets[id]
                   ELSE Len(insts) + (CHOOSE i \in DOMAIN missing : missing[i] = id)]
  /\ Goto(t, "write_chain")
  /\ UNCHANGED <<meta, chain, chainVersion, local, result, historyVars, known>>

(* Both end by writing the chain, then the version, each under its own lock. *)
InstallChain(t) == chain' = local[t].chain

WriteChain(t) ==
  /\ pc[t] = "write_chain"
  /\ InstallChain(t)
  /\ Goto(t, "write_version")
  /\ UNCHANGED <<meta, chainVersion, loglets, insts, local, result,
                 historyVars, known>>

InstallVersionNot(t) == UNCHANGED chainVersion  \* mutant: version is kept
InstallVersion(t) == chainVersion' = local[t].version

WriteVersion(t) ==
  /\ pc[t] = "write_version"
  /\ InstallVersion(t)
  /\ local' = [local EXCEPT ![t] = [NoLocals EXCEPT !.mode = "append",
                                                    !.entry = local[t].entry]]
  /\ Goto(t, "get_chain")
  /\ UNCHANGED <<meta, chain, loglets, insts, result, historyVars, known>>

-------------------------------------------------------------------------------
(* read *)

BeginRead(t, p) ==
  /\ t \in Readers /\ pc[t] = "idle"
  /\ IF HasSegment(chain, p)
     THEN LET seg == FindSegment(chain, p) IN
          /\ local' = [local EXCEPT
                         ![t] = [NoLocals EXCEPT
                                   !.mode = "read", !.id = seg.id,
                                   !.pos = GlobalToLocal(seg.start, p)]]
          /\ Goto(t, "read_loglet")
          /\ result' = [result EXCEPT ![t] = Res("read", "pending", p, NoEntry)]
          /\ known' = [known EXCEPT ![t] = {r \in acked : r.pos = p}]
     ELSE Internal(t, "read")
  /\ UNCHANGED <<logVars, historyVars>>

ReadLoglet(t) ==
  /\ pc[t] = "read_loglet"
  /\ IF local[t].id \in DOMAIN loglets
     THEN LET r == LogletRead(insts[loglets[local[t].id]], local[t].pos) IN
          Return(t, Res("read", r.tag, result[t].pos, r.entry))
     ELSE Internal(t, "read")
  /\ UNCHANGED <<logVars, historyVars>>

-------------------------------------------------------------------------------
(* trim: a copy of the chain, then one segment at a time *)

BeginTrim(t, p) ==
  /\ t \in Trimmers /\ pc[t] = "idle"
  /\ local' = [local EXCEPT
                 ![t] = [NoLocals EXCEPT !.mode = "trim", !.pos = p, !.chain = chain]]
  /\ Goto(t, "trim")
  /\ result' = [result EXCEPT ![t] = Res("trim", "pending", p, NoEntry)]
  /\ trimTo' = IF p > trimTo THEN p ELSE trimTo
  /\ known' = [known EXCEPT ![t] = {r \in acked : r.pos < p}]
  /\ UNCHANGED <<logVars, issued, seals, acked>>

TrimBoundShort(seg, p) ==                  \* mutant: the end is inclusive
  IF seg.end # NoEnd /\ seg.end < p THEN seg.end - 1 ELSE p
TrimBoundEnd(seg, p) ==                    \* mutant: closed segments go whole
  IF seg.end # NoEnd THEN seg.end ELSE p
TrimBound(seg, p) == IF seg.end # NoEnd /\ seg.end < p THEN seg.end ELSE p

TrimSegment(t) ==
  LET seg == Head(local[t].chain)
      k == loglets[seg.id] IN
  /\ pc[t] = "trim"
  /\ local[t].chain # <<>>
  /\ IF local[t].pos > seg.start /\ seg.id \in DOMAIN loglets
     THEN Update(k, LogletTrim(insts[k],
                               GlobalToLocal(seg.start, TrimBound(seg, local[t].pos))))
     ELSE UNCHANGED insts
  /\ local' = [local EXCEPT ![t].chain = Tail(@)]
  /\ UNCHANGED <<meta, chain, chainVersion, loglets, pc, result, historyVars, known>>

TrimReturns(t) ==
  /\ pc[t] = "trim"
  /\ local[t].chain = <<>>
  /\ Return(t, Res("trim", "ok", local[t].pos, NoEntry))
  /\ UNCHANGED <<logVars, historyVars>>

-------------------------------------------------------------------------------
Invoke(t) ==
  \/ BeginAppend(t) \/ BeginSeal(t) \/ BeginCheckTail(t)
  \/ \E p \in Position : BeginRead(t, p) \/ BeginTrim(t, p)

Proceed(t) ==
  \/ GetChainAgain(t) \/ GetLoglet(t)
  \/ AppendOk(t) \/ AppendSealed(t) \/ CheckTail(t) \/ Seal(t)
  \/ ReconfigureSeal(t) \/ ReadVersion(t) \/ ReadChain(t)
  \/ CasSucceeds(t) \/ CasFails(t) \/ InsertLoglet(t)
  \/ SyncRead(t) \/ SyncInsert(t) \/ WriteChain(t) \/ WriteVersion(t)
  \/ ReadLoglet(t) \/ TrimSegment(t) \/ TrimReturns(t)

Next == \E t \in Task : Invoke(t) \/ Proceed(t)

Spec == Init /\ [][Next]_vars

(* tokio runs a task that can go on; the locks are held for one action only. *)
FairSpec == Spec /\ \A t \in Task : WF_vars(Proceed(t))
-------------------------------------------------------------------------------
(* Properties. With one appending task, as in the server, where only the    *)
(* BaseEngine's apply loop appends, and any number of other callers.        *)

(* What a read of p finds in this state, were it to run at once. *)
ReadNow(p) ==
  LET seg == FindSegment(chain, p) IN
  LogletRead(insts[loglets[seg.id]], GlobalToLocal(seg.start, p))

(* An append that returned Ok at a position is what a read of that position *)
(* finds from then on, or it was trimmed: in every state between the steps  *)
(* of a reconfiguration too (virtual_log.rs:83-97, 119-164).                *)
AckedReadable ==
  \A r \in acked :
    /\ HasSegment(chain, r.pos)
    /\ ReadNow(r.pos) \in {ReadTrimmed, [tag |-> "entry", entry |-> r.entry]}

ClosedAtItsTail(seg) ==
  LET inner == insts[loglets[seg.id]] IN
  seg.end # NoEnd =>
    inner.sealed /\ seg.end = LocalToGlobal(seg.start, LogletTail(inner))

(* The chain in MetaStore and the local one tile the log: each segment      *)
(* starts where the one before it ends, only the last is open, and a closed *)
(* one ends exactly at the final tail of its sealed loglet                  *)
(* (virtual_log.rs:125-136, chain.rs:50-63).                                *)
ChainTiles ==
  \A ch \in {meta.chain, chain} :
    /\ \A i \in 1..(Len(ch) - 1) : ch[i].end = ch[i + 1].start
    /\ HasActive(ch)
    /\ \A i \in DOMAIN ch : ch[i].id \in DOMAIN loglets => ClosedAtItsTail(ch[i])

Reconfiguring(t) == pc[t] \in {"insert", "sync_read", "sync_insert",
                               "write_chain", "write_version"}

(* When nobody is between the compare-and-swap and the last local write,    *)
(* the cached chain and version are those of MetaStore, and every segment   *)
(* has its loglet (virtual_log.rs:142-161, 167-181).                        *)
CacheCoherent ==
  (\A t \in Task : ~Reconfiguring(t)) =>
    /\ chain = meta.chain
    /\ chainVersion = meta.version
    /\ \A i \in DOMAIN chain : chain[i].id \in DOMAIN loglets

(* Whatever the races of several reconfigurations, a chain a task can read  *)
(* never names a loglet the map lacks, so no call ever fails for want of a  *)
(* segment or a loglet (virtual_log.rs:85-96, 146-157, 169-179, 185-197).   *)
LogletsBacked ==
  /\ HasActive(chain)
  /\ \A i \in DOMAIN chain : chain[i].id \in DOMAIN loglets
  /\ \A t \in Task : result[t].tag # "internal"

CallEnds(t, op) == pc[t] # "idle" /\ pc'[t] = "idle" /\ result'[t].op = op

(* A read of a position acknowledged before it began returns that entry or  *)
(* Trimmed, although the chain may grow between its two locks.              *)
ReadsFindAcked ==
  [][\A t \in Task : CallEnds(t, "read") /\ known[t] # {} =>
       \/ result'[t].tag = "trimmed"
       \/ [pos |-> result'[t].pos, entry |-> result'[t].entry] \in known[t]]_vars

(* check_tail, whose active segment may be closed under it, never returns a *)
(* tail at or below an append acknowledged before the call, nor one above   *)
(* the next free position (virtual_log.rs:76-80).                           *)
CheckTailIsCurrent ==
  [][\A t \in Task : CallEnds(t, "check_tail") =>
       /\ \A r \in known[t] : r.pos < result'[t].pos
       /\ \A p \in 1..(result'[t].pos - 1) : \E r \in acked : r.pos = p]_vars

(* A position is only ever Trimmed if some trim asked for more, however     *)
(* stale the trim's copy of the chain (virtual_log.rs:100-117).             *)
TrimmedOnlyBelow ==
  \A r \in acked : ReadNow(r.pos) = ReadTrimmed => r.pos < trimTo

(* A trim that returns Ok has trimmed every entry below its position that   *)
(* was acknowledged before it began, in whichever segments they are.        *)
TrimTakesEffect ==
  [][\A t \in Task : CallEnds(t, "trim") =>
       \A r \in known[t] : ReadNow(r.pos) = ReadTrimmed]_vars

(* The acknowledged appends, in position order. *)
AckedLog ==
  [p \in 1..Cardinality(acked) |-> (CHOOSE r \in acked : r.pos = p).entry]
AckedPrefix == {r.pos : r \in acked} = 1..Cardinality(acked)

(* The chained loglets are one log: every append takes the next position    *)
(* with no gap and no overlap at the seams, and none is ever rewritten.     *)
S == INSTANCE SharedLog WITH log <- IF AckedPrefix THEN AckedLog ELSE <<-1>>
ImplementsSharedLog == S!Spec

(* With finitely many seals from outside, every append gets through: the    *)
(* retry loop ends (virtual_log.rs:58-72).                                  *)
AppendsReturn == \A t \in Appenders : pc[t] # "idle" ~> pc[t] = "idle"
===============================================================================
