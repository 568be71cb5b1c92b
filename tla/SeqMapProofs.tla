----------------------------- MODULE SeqMapProofs -----------------------------
(***************************************************************************)
(* The table of outstanding requests, for every MaxSize and every set of   *)
(* requests: its invariants under any caller, and that it implements the   *)
(* partial map PendingMap under a careful caller, which never lets the     *)
(* ring lap an outstanding request.                                        *)
(***************************************************************************)
EXTENDS SeqMapClient, SeqMapLemmas, FiniteSetTheorems

\* The invariant of every caller.
IInv == TypeOK /\ SeqInv /\ OnlyFullPanics

LEMMA InitIInv == Init => IInv
  BY SeqInitInv DEF Init, IInv, TypeOK, SeqInv

LEMMA IssueIInv == ASSUME NEW d \in Data, IInv, Issue(d) PROVE IInv'
<1>1. SeqInv' /\ OnlyFullPanics'
  BY NewSeqInv DEF IInv, Issue
<1>2. OldData \in Data \cup {Nil}
  <2>1. NextSeq \in Seqs
    BY NextSeqInRing DEF IInv, SeqInv
  <2>2. seq2index[NextSeq] >= 0 => seq2index[NextSeq] \in Slots
    BY <2>1 DEF IInv, SeqInv, SeqTypeOK
  <2> QED
    BY <2>2 DEF OldData, IInv, SeqInv, SeqTypeOK
<1>3. evicted' \in SUBSET Data
  BY <1>2 DEF Issue, IInv, TypeOK
<1>4. careful' \in BOOLEAN
  BY DEF Issue, IInv, TypeOK
<1> QED
  BY <1>1, <1>3, <1>4 DEF IInv, TypeOK, SeqInv

LEMMA RetireIInv == ASSUME NEW seq \in Seqs, IInv, Retire(seq) PROVE IInv'
<1>1. SeqInv' /\ OnlyFullPanics'
  BY DelSeqInv DEF IInv, Retire, OnlyFullPanics
<1> QED
  BY <1>1 DEF IInv, TypeOK, SeqInv, Retire

LEMMA StutterIInv == ASSUME IInv, UNCHANGED clientVars PROVE IInv'
  BY DEF IInv, TypeOK, SeqInv, SeqTypeOK, SlotsPacked, NumbersResolve,
         OnlyFullPanics, clientVars

LEMMA NextIInv == IInv /\ [Next]_clientVars => IInv'
  BY IssueIInv, RetireIInv, StutterIInv DEF Next, Dead

\* The fields of the table keep their types under every caller (seqmap.go:12).
THEOREM TypeCorrect == Spec => []TypeOK
<1>1. IInv => TypeOK
  BY DEF IInv
<1> QED
  BY InitIInv, NextIInv, <1>1, PTL DEF Spec

\* Under every caller, evictions included, the array stays dense and every
\* number in use leads to its own request, so the check of GetData and DelSeq
\* that a found request carries the number asked for is never what rejects it
\* (seqmap.go:67, 99).
THEOREM TableConsistent == Spec => []Consistent
<1>1. IInv => Consistent
  BY DEF IInv, SeqInv, Consistent
<1> QED
  BY InitIInv, NextIInv, <1>1, PTL DEF Spec

\* Under every caller the panic "too small for pos size" and the dereferences
\* of NewSeq and DelSeq never happen (seqmap.go:45, 73, 82).
THEOREM NoUnderflow == Spec => []OnlyFullPanics
<1>1. IInv => OnlyFullPanics
  BY DEF IInv
<1> QED
  BY InitIInv, NextIInv, <1>1, PTL DEF Spec

-------------------------------------------------------------------------------
(***************************************************************************)
(* The careful caller.  Every filled slot is then the slot of its         *)
(* request's number; this is what a lookup after a deletion needs, because *)
(* the request DelSeq moves is then the one its number leads to.           *)
(***************************************************************************)
PanicMeansFull == panicked = "exceed pos size" => EveryNumberOutstanding

LapFreeInv == IInv /\ EverySlotReached /\ PanicMeansFull

\* When all slots are taken, all numbers are: the numbers of the slots differ.
LEMMA FullUsesAllNumbers ==
  ASSUME SeqInv, EverySlotReached, pos >= MaxSize, NEW s \in Seqs
  PROVE  seq2index[s] # -1
<1> SUFFICES ASSUME seq2index[s] = -1 PROVE FALSE
  OBVIOUS
<1>t. MaxSize \in Nat /\ MaxSize >= 1 /\ pos \in Nat
  <2>1. MaxSize \in Nat /\ MaxSize >= 1
    BY SizeAssumption
  <2>2. pos \in 0..MaxSize
    BY DEF SeqInv, SeqTypeOK
  <2> QED
    BY <2>1, <2>2
<1> DEFINE num == [i \in Slots |-> requestId[index2obj[i]]]
<1>1. ASSUME NEW i \in Slots
      PROVE  /\ requestId[index2obj[i]] \in Seqs
             /\ seq2index[requestId[index2obj[i]]] = i
             /\ i # -1
  <2>1. i < pos /\ i # -1
    BY <1>t DEF Slots
  <2>2. index2obj[i] \in Data
    BY <2>1 DEF SeqInv, SeqTypeOK, SlotsPacked
  <2>3. requestId[index2obj[i]] \in Seqs
    BY <2>2 DEF SeqInv, SeqTypeOK
  <2> QED
    BY <2>1, <2>3 DEF EverySlotReached
<1>2. num \in [Slots -> Seqs \ {s}]
  BY <1>1
<1>3. IsFiniteSet(Slots) /\ Cardinality(Slots) = MaxSize
  <2>1. 0 \in Int /\ MaxSize - 1 \in Int /\ ~(0 > MaxSize - 1)
    BY <1>t
  <2>2. IsFiniteSet(0 .. MaxSize - 1) /\ Cardinality(0 .. MaxSize - 1) = (MaxSize - 1) - 0 + 1
    BY <2>1, FS_Interval, Zenon
  <2> QED
    BY <2>2, <1>t DEF Slots
<1>4. IsFiniteSet(Seqs) /\ Cardinality(Seqs) = MaxSize
  BY <1>3 DEF Seqs, Slots, SEQ_START
<1>5. IsFiniteSet(Seqs \ {s}) /\ Cardinality(Seqs \ {s}) < Cardinality(Slots)
  <2>1. /\ IsFiniteSet(Seqs \ {s})
        /\ Cardinality(Seqs \ {s}) = IF s \in Seqs THEN Cardinality(Seqs) - 1
                                     ELSE Cardinality(Seqs)
    BY <1>4, FS_RemoveElement, Zenon
  <2>2. Cardinality(Seqs \ {s}) = MaxSize - 1
    BY <2>1, <1>4
  <2> QED
    BY <2>1, <2>2, <1>3, <1>t
<1>6. PICK x, y \in Slots : x # y /\ num[x] = num[y]
  <2> HIDE DEF num
  <2> QED
    BY <1>2, <1>3, <1>5, FS_PigeonHole
<1> QED
  BY <1>1, <1>6

\* What an issue does to the table of a careful caller: it panics when all
\* numbers are outstanding, and otherwise adds one number.
LEMMA LapFreeIssue ==
  ASSUME NEW d \in Data, LapFreeInv, NumberIsFree, Issue(d)
  PROVE  /\ LapFreeInv'
         /\ \/ /\ \A s \in Seqs : GetData(s)' = GetData(s)
               /\ NextSeq' = NextSeq
            \/ /\ GetData(NextSeq) = Nil
               /\ \A s \in Seqs : GetData(s) # d
               /\ \A s \in Seqs : GetData(s)' = IF s = NextSeq THEN d ELSE GetData(s)
               /\ NextSeq' = (NextSeq + 1) % MaxSize
<1>i. IInv'
  BY IssueIInv DEF LapFreeInv
<1>t. MaxSize \in Nat /\ MaxSize >= 1 /\ pos \in Nat /\ pos <= MaxSize
  BY Sizes DEF LapFreeInv, IInv
<1>1. CASE pos >= MaxSize
  <2>1. NewSeqFault = "exceed pos size"
    BY <1>1 DEF NewSeqFault
  <2>2. /\ UNCHANGED <<index2obj, seq2index, pos, curr_seq, requestId>>
        /\ panicked' = "exceed pos size"
    BY <2>1 DEF Issue, NewSeq
  <2>3. \A s \in Seqs : GetData(s) # Nil
    BY <1>1, GetDataIs, FullUsesAllNumbers DEF LapFreeInv, IInv, LookupIs
  <2>4. \A s \in Seqs : GetData(s)' = GetData(s)
    BY <2>2 DEF GetData
  <2>5. NextSeq' = NextSeq
    BY <2>2 DEF NextSeq
  <2>6. EverySlotReached' /\ PanicMeansFull'
    BY <2>2, <2>3, <2>4 DEF LapFreeInv, EverySlotReached, PanicMeansFull, EveryNumberOutstanding
  <2> QED
    BY <1>i, <2>4, <2>5, <2>6 DEF LapFreeInv
<1>2. CASE pos < MaxSize
  BY <1>i, <1>2, NewSeqFree
  DEF LapFreeInv, IInv, Issue, PanicMeansFull
<1> QED
  BY <1>1, <1>2, <1>t

\* What a deletion does to the table of a careful caller: it removes one number
\* or does nothing.
LEMMA LapFreeRetire ==
  ASSUME NEW seq \in Seqs, LapFreeInv, Retire(seq)
  PROVE  /\ LapFreeInv'
         /\ NextSeq' = NextSeq
         /\ \/ \A s \in Seqs : GetData(s)' = GetData(s)
            \/ /\ GetData(seq) # Nil
               /\ \A s \in Seqs : GetData(s)' = IF s = seq THEN Nil ELSE GetData(s)
  BY RetireIInv, DelSeqReached DEF LapFreeInv, IInv, Retire, PanicMeansFull

LEMMA LapFreeStutter ==
  ASSUME LapFreeInv, UNCHANGED clientVars
  PROVE  /\ LapFreeInv'
         /\ NextSeq' = NextSeq
         /\ \A s \in Seqs : GetData(s)' = GetData(s)
  BY StutterIInv
  DEF LapFreeInv, clientVars, EverySlotReached, PanicMeansFull, EveryNumberOutstanding, GetData, NextSeq

LEMMA LapFreeInit == Init => LapFreeInv
<1> SUFFICES ASSUME Init PROVE LapFreeInv
  OBVIOUS
<1>1. pos = 0 /\ panicked = "no"
  BY DEF Init, SeqInit
<1>2. \A i \in Slots : ~(i < 0)
  BY SizeAssumption DEF Slots
<1> QED
  BY <1>1, <1>2, InitIInv DEF LapFreeInv, EverySlotReached, PanicMeansFull, EveryNumberOutstanding

\* The invariant of both kinds of caller.
CallerInv == IInv /\ (careful => LapFreeInv)

LEMMA CallerInit == Init => CallerInv
  BY InitIInv, LapFreeInit DEF CallerInv

LEMMA CallerStep == CallerInv /\ [Next]_clientVars => CallerInv'
<1> SUFFICES ASSUME CallerInv, [Next]_clientVars, careful'
             PROVE  LapFreeInv'
  BY NextIInv DEF CallerInv
<1>1. careful
  BY DEF Next, Issue, Retire, Dead, clientVars
<1>2. LapFreeInv
  BY <1>1 DEF CallerInv
<1>3. ASSUME NEW d \in Data, Issue(d) PROVE LapFreeInv'
  <2>1. NumberIsFree
    BY <1>1, <1>3 DEF Issue
  <2> QED
    BY <1>2, <1>3, <2>1, LapFreeIssue
<1>4. ASSUME NEW seq \in Seqs, Retire(seq) PROVE LapFreeInv'
  BY <1>2, <1>4, LapFreeRetire
<1>5. CASE UNCHANGED clientVars
  BY <1>2, <1>5, LapFreeStutter
<1> QED
  BY <1>3, <1>4, <1>5 DEF Next, Dead

\* As long as the ring does not lap an outstanding request no slot leaks: every
\* filled slot is the slot of its request's number (seqmap.go:48-52, 79-84).
THEOREM NoSlotLeaks == Spec => []SlotsReachable
<1>1. CallerInv => SlotsReachable
  BY DEF CallerInv, LapFreeInv, SlotsReachable
<1> QED
  BY CallerInit, CallerStep, <1>1, PTL DEF Spec

\* The panic "exceed pos size" (seqmap.go:37) then means what it says: all
\* MaxSize numbers are outstanding.
THEOREM ExceedMeansFull == Spec => []FullMeansFull
<1>1. CallerInv => FullMeansFull
  BY DEF CallerInv, LapFreeInv, PanicMeansFull, FullMeansFull
<1> QED
  BY CallerInit, CallerStep, <1>1, PTL DEF Spec

\* The two arrays with their swaps implement the partial map: under a careful
\* caller every call changes what is found under its own number and nothing else.
THEOREM SeqMapImplementsPendingMap == Spec => ImplementsPendingMap
<1>1. Init => PM!Init
  <2> SUFFICES ASSUME Init PROVE PM!Init
    OBVIOUS
  <2>1. \A s \in Seqs : GetData(s) = Nil
    BY DEF Init, SeqInit, GetData
  <2>2. NextSeq = 1 % MaxSize
    <3>1. curr_seq = 1
      BY DEF Init, SeqInit
    <3>2. CASE MaxSize = 1
      BY <3>1, <3>2 DEF NextSeq, SEQ_START
    <3>3. CASE MaxSize # 1
      <4>1. MaxSize \in Nat /\ 1 < MaxSize
        BY <3>3, SizeAssumption
      <4>2. 1 % MaxSize = 1
        BY <4>1
      <4> QED
        BY <3>1, <4>1, <4>2 DEF NextSeq
    <3> QED
      BY <3>2, <3>3
  <2> QED
    BY <2>1, <2>2 DEF PM!Init, PM!Seqs, Seqs, SEQ_START
<1>2. CallerInv /\ [Next]_clientVars => [PM!Next]_(PM!vars)
  <2> SUFFICES ASSUME CallerInv, [Next]_clientVars
               PROVE  [PM!Next]_(PM!vars)
    OBVIOUS
  <2>s. PM!Seqs = Seqs
    BY DEF PM!Seqs, Seqs, SEQ_START
  <2>n. NextSeq \in Seqs
    BY NextSeqInRing DEF CallerInv, IInv, SeqInv
  <2>c. careful' = careful
    BY DEF Next, Issue, Retire, Dead, clientVars
  <2>f. CASE ~careful
    BY <2>c, <2>f DEF PM!vars
  <2>t. CASE careful
    <3>i. LapFreeInv
      BY <2>t DEF CallerInv
    <3>0. ASSUME NextSeq' = NextSeq, \A s \in Seqs : GetData(s)' = GetData(s)
          PROVE  UNCHANGED PM!vars
      BY <3>0, <2>c, <2>t DEF PM!vars
    <3>1. ASSUME NEW d \in Data, Issue(d)
          PROVE  [PM!Next]_(PM!vars)
      <4>n. NumberIsFree
        BY <2>t, <3>1 DEF Issue
      <4>1. CASE NextSeq' = NextSeq /\ \A s \in Seqs : GetData(s)' = GetData(s)
        BY <4>1, <3>0
      <4>2. CASE /\ GetData(NextSeq) = Nil
                 /\ \A s \in Seqs : GetData(s) # d
                 /\ \A s \in Seqs : GetData(s)' = IF s = NextSeq THEN d ELSE GetData(s)
                 /\ NextSeq' = (NextSeq + 1) % MaxSize
        <5>1. PM!Put(d)
          BY <4>2, <2>c, <2>t, <2>s, <2>n DEF PM!Put
        <5> QED
          BY <5>1 DEF PM!Next
      <4> QED
        BY <3>i, <3>1, <4>n, <4>1, <4>2, LapFreeIssue
    <3>2. ASSUME NEW seq \in Seqs, Retire(seq)
          PROVE  [PM!Next]_(PM!vars)
      <4>1. CASE \A s \in Seqs : GetData(s)' = GetData(s)
        BY <3>i, <4>1, <3>0, <3>2, LapFreeRetire
      <4>2. CASE /\ GetData(seq) # Nil
                 /\ \A s \in Seqs : GetData(s)' = IF s = seq THEN Nil ELSE GetData(s)
        <5>1. PM!Remove(seq)
          BY <3>i, <4>2, <2>c, <2>t, <2>s, <3>2, LapFreeRetire DEF PM!Remove
        <5> QED
          BY <5>1, <2>s DEF PM!Next
      <4> QED
        BY <3>i, <3>2, <4>1, <4>2, LapFreeRetire
    <3>3. CASE UNCHANGED clientVars
      BY <3>i, <3>3, <3>0, LapFreeStutter
    <3> QED
      BY <3>1, <3>2, <3>3 DEF Next, Dead
  <2> QED
    BY <2>f, <2>t
<1> QED
  BY <1>1, <1>2, CallerInit, CallerStep, PTL
  DEF Spec, ImplementsPendingMap, PM!Spec
===============================================================================
