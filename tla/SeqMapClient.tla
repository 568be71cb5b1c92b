----------------------------- MODULE SeqMapClient -----------------------------
(***************************************************************************)
(* The table of outstanding requests under a caller that issues and        *)
(* retires requests in any order, as the message bus does                  *)
(* (src/server/bus.go): a number is retired when its answer arrives, when  *)
(* its request times out, or never.  A careful caller never lets the ring  *)
(* lap an outstanding request: that is the bus as long as a request is     *)
(* answered or timed out before MaxSize - 1 others have been issued.       *)
(***************************************************************************)
EXTENDS SeqMap

VARIABLES
    careful,  \* whether this caller is one
    evicted   \* history: the requests NewSeq has returned as oldData

clientVars == <<index2obj, seq2index, pos, curr_seq, requestId, panicked, careful, evicted>>

Init == SeqInit /\ careful \in BOOLEAN /\ evicted = {}

Issue(d) ==
    /\ panicked = "no"
    /\ careful => NumberIsFree
    /\ Fresh(d)
    /\ NewSeq(d)
    /\ evicted' = IF NewSeqFault = "no"
                  THEN (evicted \cup ({OldData} \ {Nil})) \ {d}
                  ELSE evicted
    /\ UNCHANGED careful

Retire(seq) ==
    /\ panicked = "no"
    /\ DelSeq(seq)
    /\ UNCHANGED <<careful, evicted>>

\* A panic is not recovered: the process is gone.
Dead == panicked # "no" /\ UNCHANGED clientVars

Next ==
    \/ \E d \in Data : Issue(d)
    \/ \E seq \in Seqs : Retire(seq)
    \/ Dead

Spec == Init /\ [][Next]_clientVars

-------------------------------------------------------------------------------
\* Type invariant: the table's, and the history of evictions.
TypeOK == SeqTypeOK /\ careful \in BOOLEAN /\ evicted \in SUBSET Data

\* However numbers are issued, taken from each other and deleted, the array of
\* requests stays dense and every number in use leads to the request that carries
\* it (seqmap.go:36-87).
Consistent == TypeOK /\ SlotsPacked /\ NumbersResolve

\* A request that a later NewSeq reported as evicted is never again found by
\* its number: an answer cannot be handed to a requester that was already told
\* its request failed ("Remove old seq", seqmap.go:43).
EvictedIsForgotten == \A s \in Seqs : GetData(s) \notin evicted

(***************************************************************************)
(* Properties of a careful caller.                                         *)
(***************************************************************************)
EveryNumberOutstanding == \A s \in Seqs : GetData(s) # Nil

\* Every filled slot is the slot of its request's number: no slot leaks
\* (seqmap.go:48-52, 79-84).
SlotsReachable == careful => EverySlotReached

\* NewSeq panics only when all MaxSize numbers are really outstanding
\* (seqmap.go:37).
FullMeansFull == careful /\ panicked = "exceed pos size" => EveryNumberOutstanding

\* The table implements the partial map: each call touches its own number only.
\* A caller that is not careful is promised nothing; to the map it does nothing.
PM == INSTANCE PendingMap WITH
          pending <- [s \in Seqs |-> IF careful THEN GetData(s) ELSE Nil],
          next    <- IF careful THEN NextSeq ELSE 1 % MaxSize

\* "The table is a map": see PM above (NewSeq, GetData and DelSeq, seqmap.go:30-104).
ImplementsPendingMap == PM!Spec
===============================================================================
