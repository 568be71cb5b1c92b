-------------------------------- MODULE SeqMap --------------------------------
(***************************************************************************)
(* The table of outstanding requests of the message bus                    *)
(* (src/server/seqmap.go).  A request that is put in the table is given a  *)
(* sequence number; the device's answer carries the number back and the    *)
(* bus finds the request by it.  The table is a dense array of requests    *)
(* (index2obj, filled up to pos) and an array from sequence numbers to     *)
(* positions in it (seq2index, -1 when the number is free); a deletion     *)
(* moves the last element into the hole.  Numbers are handed out in a      *)
(* ring, so a number may come round again while its request is still       *)
(* outstanding: the old request is then evicted.                           *)
(*                                                                         *)
(* A request's number is a field of the request itself (Message.Seq), not  *)
(* of the table: requestId.                                                *)
(***************************************************************************)
EXTENDS Integers, FiniteSets

CONSTANTS
    MaxSize,   \* maxSize: capacity of the table and size of the ring
    Data,      \* the request objects (SeqData) that callers put in
    Nil        \* the nil SeqData

SEQ_START == 0

\* SetRequestId stores uint16(seq): the ring fits in the field's width.
ASSUME SizeAssumption == MaxSize \in 1..65536
ASSUME NilAssumption  == Nil \notin Data

VARIABLES
    index2obj,   \* [Slots -> Data \cup {Nil}]
    seq2index,   \* [Seqs -> Slots \cup {-1}]
    pos,         \* number of filled slots
    curr_seq,    \* the next number to hand out, before the wrap test
    requestId,   \* the Seq field of each request
    panicked     \* the panic a call raised, "no" if none did

seqVars == <<index2obj, seq2index, pos, curr_seq, requestId, panicked>>

Slots == 0 .. MaxSize - 1
Seqs  == SEQ_START .. MaxSize - 1

(***************************************************************************)
(* NewSeqMap.  A fresh Message has Seq = 0.                                *)
(***************************************************************************)
SeqInit ==
    /\ index2obj = [i \in Slots |-> Nil]
    /\ seq2index = [s \in Seqs |-> -1]
    /\ pos = 0
    /\ curr_seq = 1
    /\ requestId = [d \in Data |-> 0]
    /\ panicked = "no"

\* Faulty variant: the last number of the ring is never handed out.
NextSeqSkipsLast == IF curr_seq >= MaxSize - 1 THEN SEQ_START ELSE curr_seq

\* The number NewSeq hands out next.
NextSeq == IF curr_seq >= MaxSize THEN SEQ_START ELSE curr_seq

\* The request NewSeq is about to evict, Nil if the number is free.
OldData == IF seq2index[NextSeq] >= 0 THEN index2obj[seq2index[NextSeq]] ELSE Nil

\* The array of NewSeq after "Remove old seq": the evicted request gives up
\* its number, but keeps its slot.
WithoutOld ==
    IF seq2index[NextSeq] >= 0 THEN [seq2index EXCEPT ![requestId[OldData]] = -1]
                               ELSE seq2index

\* Faulty variants: the test for a full table is missing, or one too early.
NewSeqFaultUnchecked ==
    IF seq2index[NextSeq] >= 0 /\ OldData = Nil THEN "nil dereference" ELSE "no"

NewSeqFaultEarly == IF pos + 1 >= MaxSize THEN "exceed pos size" ELSE "no"

\* The explicit panic of NewSeq, or the nil dereference of oldData.
NewSeqFault ==
    IF pos >= MaxSize THEN "exceed pos size"
    ELSE IF seq2index[NextSeq] >= 0 /\ OldData = Nil THEN "nil dereference"
    ELSE "no"

NewSeq(data) ==
    /\ panicked' = NewSeqFault
    /\ IF NewSeqFault = "no"
       THEN /\ requestId' = [requestId EXCEPT ![data] = NextSeq]
            /\ seq2index' = [WithoutOld EXCEPT ![NextSeq] = pos]
            /\ index2obj' = [index2obj EXCEPT ![pos] = data]
            /\ curr_seq' = NextSeq + 1
            /\ pos' = pos + 1
       ELSE UNCHANGED <<index2obj, seq2index, pos, curr_seq, requestId>>

\* GetData(seq): numbers outside the ring and free numbers find nothing.
GetData(seq) ==
    IF /\ seq \in Seqs
       /\ seq2index[seq] >= 0
       /\ index2obj[seq2index[seq]] # Nil
       /\ requestId[index2obj[seq2index[seq]]] = seq
    THEN index2obj[seq2index[seq]]
    ELSE Nil

\* The request DelSeq moves into the hole that seq leaves.
LastData == index2obj[pos - 1]

\* The explicit panic of DelSeq, or the nil dereference of the last request,
\* which DelSeq moves without looking at it.
DelSeqFault(seq) ==
    IF pos < 1 THEN "too small for pos size"
    ELSE IF seq2index[seq] # pos - 1 /\ LastData = Nil THEN "nil dereference"
    ELSE "no"

\* Faulty variants: the vacated slot is not cleared, the hole is not filled, or
\* the moved request's number still leads to its old slot.
UnfilledKeepsLast(seq) == [index2obj EXCEPT ![seq2index[seq]] = LastData]

UnfilledNoSwap(seq) == [index2obj EXCEPT ![seq2index[seq]] = Nil]

UnnumberedNoSwap(seq) == [seq2index EXCEPT ![seq] = -1]

\* The arrays once seq is deleted: its slot takes the last request.
Unfilled(seq) ==
    IF seq2index[seq] = pos - 1
    THEN [index2obj EXCEPT ![pos - 1] = Nil]
    ELSE [index2obj EXCEPT ![seq2index[seq]] = LastData, ![pos - 1] = Nil]

Unnumbered(seq) ==
    IF seq2index[seq] = pos - 1
    THEN [seq2index EXCEPT ![seq] = -1]
    ELSE [seq2index EXCEPT ![seq] = -1, ![requestId[LastData]] = seq2index[seq]]

\* A number that finds nothing is ignored.
DelSeq(seq) ==
    IF GetData(seq) = Nil
    THEN UNCHANGED seqVars
    ELSE /\ panicked' = DelSeqFault(seq)
         /\ IF DelSeqFault(seq) = "no"
            THEN /\ index2obj' = Unfilled(seq)
                 /\ seq2index' = Unnumbered(seq)
                 /\ pos' = pos - 1
            ELSE UNCHANGED <<index2obj, seq2index, pos>>
         /\ UNCHANGED <<curr_seq, requestId>>
-------------------------------------------------------------------------------
(***************************************************************************)
(* Callers put a request object in the table once: it is not in it yet.    *)
(***************************************************************************)
Fresh(data) == \A i \in Slots : index2obj[i] # data

\* What a caller of the table must keep to, and all that the theorems about the
\* table assume of it: no request is put in while it is in.
TableStep ==
    /\ panicked = "no"
    /\ \/ \E data \in Data : Fresh(data) /\ NewSeq(data)
       \/ \E seq \in Seqs : DelSeq(seq)

TableSpec == SeqInit /\ [][TableStep]_seqVars

(***************************************************************************)
(* As long as the ring does not lap an outstanding request the next number *)
(* is free, unless the table is full, and every filled slot is the slot of *)
(* its request's number.                                                   *)
(***************************************************************************)
NumberIsFree == pos < MaxSize => seq2index[NextSeq] = -1

EverySlotReached == \A i \in Slots : i < pos => seq2index[requestId[index2obj[i]]] = i

Panics == {"no", "exceed pos size", "too small for pos size", "nil dereference"}

\* Type invariant of the table's fields (SeqMap, seqmap.go:12).
SeqTypeOK ==
    /\ index2obj \in [Slots -> Data \cup {Nil}]
    /\ seq2index \in [Seqs -> Slots \cup {-1}]
    /\ pos \in 0 .. MaxSize
    /\ curr_seq \in 1 .. MaxSize
    /\ requestId \in [Data -> Seqs]
    /\ panicked \in Panics

\* The array is dense: exactly the slots below pos hold a request, whatever the
\* order of issues, evictions and deletions (the swap of DelSeq keeps it so).
SlotsPacked == \A i \in Slots : (i < pos) <=> (index2obj[i] # Nil)

\* A number in use leads to a filled slot whose request carries that number, so
\* the test data.GetRequestId() != seq of DelSeq and GetData never fires.
NumbersResolve ==
    \A s \in Seqs : seq2index[s] # -1 =>
        /\ seq2index[s] < pos
        /\ requestId[index2obj[seq2index[s]]] = s

\* The panic "too small for pos size" (seqmap.go:73) and the unchecked
\* dereferences of NewSeq and DelSeq are unreachable, evictions or not: the
\* only way the table kills the process is by being full.
OnlyFullPanics == panicked \in {"no", "exceed pos size"}
===============================================================================
