------------------------------- MODULE LogChain -------------------------------
(***************************************************************************)
(* crates/relos-log/src/chain.rs: the chain is a sequence of segments       *)
(* [id, start, end]; end = NoEnd (None) marks the open one. A loglet id is  *)
(* the number its name is generated from: "loglet-<chain length>".          *)
(***************************************************************************)
EXTENDS Integers, Sequences, SequencesExt

NoEnd == 0

Segment(id, start) == [id |-> id, start |-> start, end |-> NoEnd]

NewChain == <<Segment(0, 1)>>

(* active_segment: the last one, provided it is open. *)
HasActive(chain) == chain # <<>> /\ Last(chain).end = NoEnd

CoversIncl(seg, pos) ==                  \* mutant: the end is included
  pos >= seg.start /\ (seg.end = NoEnd \/ pos <= seg.end)
Covers(seg, pos) ==
  pos >= seg.start /\ (seg.end = NoEnd \/ pos < seg.end)

(* find_segment: the first segment that contains pos. *)
HasSegment(chain, pos) == \E i \in DOMAIN chain : Covers(chain[i], pos)
FindSegment(chain, pos) ==
  chain[CHOOSE i \in DOMAIN chain :
          /\ Covers(chain[i], pos)
          /\ \A j \in 1..(i - 1) : ~Covers(chain[j], pos)]

(* extend: close the last segment at sealPos if it is open, push a new one. *)
CloseLastNot(chain, sealPos) == chain      \* mutant: the segment stays open
CloseLast(chain, sealPos) ==
  IF HasActive(chain)
  THEN [chain EXCEPT ![Len(chain)].end = sealPos]
  ELSE chain

Extend(chain, sealPos, newId) ==
  Append(CloseLast(chain, sealPos), Segment(newId, sealPos))
===============================================================================
