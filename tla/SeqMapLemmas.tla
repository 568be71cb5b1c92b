----------------------------- MODULE SeqMapLemmas -----------------------------
(***************************************************************************)
(* What one call of the table does to its invariant, for every MaxSize and *)
(* every set of requests.  The modules that use the table cite these       *)
(* lemmas instead of opening NewSeq and DelSeq.                            *)
(***************************************************************************)
EXTENDS SeqMap, TLAPS

\* The inductive invariant of the table.  A deletion moves the last request, so
\* it needs the array to be dense; it rewrites that request's number, so it
\* needs the numbers to resolve; and both need the slots to be typed.
SeqInv == SeqTypeOK /\ SlotsPacked /\ NumbersResolve

\* NewSeqMap returns a table that satisfies the invariant (NewSeqMap).
LEMMA SeqInitInv == SeqInit => SeqInv /\ OnlyFullPanics
<1> SUFFICES ASSUME SeqInit PROVE SeqInv /\ OnlyFullPanics
  OBVIOUS
<1>1. MaxSize \in Nat /\ MaxSize >= 1 /\ Slots = 0 .. MaxSize - 1 /\ Seqs = Slots
  BY SizeAssumption DEF Slots, Seqs, SEQ_START
<1>2. pos \in 0 .. MaxSize /\ curr_seq \in 1 .. MaxSize /\ 0 \in Seqs
  BY <1>1 DEF SeqInit
<1>3. SeqTypeOK
  BY <1>1, <1>2 DEF SeqInit, SeqTypeOK, Panics
<1>4. SlotsPacked
  BY <1>1 DEF SeqInit, SlotsPacked
<1>5. NumbersResolve /\ OnlyFullPanics
  BY DEF SeqInit, NumbersResolve, OnlyFullPanics
<1> QED
  BY <1>3, <1>4, <1>5 DEF SeqInv

\* The sizes that the arithmetic of the lemmas needs.
LEMMA Sizes ==
  SeqInv => /\ MaxSize \in Nat /\ MaxSize >= 1
            /\ pos \in Nat /\ pos <= MaxSize /\ curr_seq \in 1 .. MaxSize
<1>1. MaxSize \in Nat /\ MaxSize >= 1
  BY SizeAssumption
<1>2. SeqInv => pos \in 0 .. MaxSize /\ curr_seq \in 1 .. MaxSize
  BY DEF SeqInv, SeqTypeOK
<1> QED
  BY <1>1, <1>2

\* The number NewSeq picks is in the ring (seqmap.go:31-34).
LEMMA NextSeqInRing == SeqTypeOK => NextSeq \in Seqs
<1> SUFFICES ASSUME SeqTypeOK PROVE NextSeq \in Seqs
  OBVIOUS
<1>1. MaxSize \in Nat /\ MaxSize >= 1 /\ Seqs = 0 .. MaxSize - 1
  BY SizeAssumption DEF Seqs, SEQ_START
<1>2. curr_seq \in Nat
  BY <1>1 DEF SeqTypeOK
<1>3. CASE curr_seq >= MaxSize
  BY <1>1, <1>3 DEF NextSeq, SEQ_START
<1>4. CASE ~(curr_seq >= MaxSize)
  BY <1>1, <1>2, <1>4 DEF NextSeq
<1> QED
  BY <1>3, <1>4

\* NewSeq keeps the invariant, evicting or not, and panics only when full.
LEMMA NewSeqInv ==
  ASSUME NEW d \in Data, SeqInv, OnlyFullPanics, panicked = "no", Fresh(d), NewSeq(d)
  PROVE  SeqInv' /\ OnlyFullPanics'
<1> DEFINE n == NextSeq
<1>n. n \in Seqs
  BY NextSeqInRing DEF SeqInv
<1>t. MaxSize \in Nat /\ pos \in Nat /\ pos <= MaxSize
  BY Sizes
<1>1. CASE pos >= MaxSize
  <2>1. NewSeqFault = "exceed pos size"
    BY <1>1 DEF NewSeqFault
  <2> QED
    BY <2>1, <1>n
    DEF NewSeq, SeqInv, SeqTypeOK, SlotsPacked, NumbersResolve, OnlyFullPanics, Panics
<1>2. CASE pos < MaxSize
  <2>1. pos \in Slots
    BY <1>2, <1>t DEF Slots
  <2>2. seq2index[n] >= 0 => OldData \in Data /\ requestId[OldData] = n
    <3> SUFFICES ASSUME seq2index[n] >= 0
                 PROVE  OldData \in Data /\ requestId[OldData] = n
      OBVIOUS
    <3>1. /\ seq2index[n] \in Slots
          /\ seq2index[n] < pos
          /\ requestId[index2obj[seq2index[n]]] = n
      BY <1>n DEF SeqInv, SeqTypeOK, NumbersResolve
    <3>2. index2obj[seq2index[n]] \in Data
      BY <3>1 DEF SeqInv, SeqTypeOK, SlotsPacked
    <3> QED
      BY <3>1, <3>2 DEF OldData
  <2>3. NewSeqFault = "no"
    <3>1. ~(pos >= MaxSize)
      BY <1>2, <1>t
    <3>2. ~(seq2index[n] >= 0 /\ OldData = Nil)
      BY <2>2, NilAssumption
    <3> QED
      BY <3>1, <3>2 DEF NewSeqFault
  <2>4. /\ panicked' = "no"
        /\ requestId' = [requestId EXCEPT ![d] = n]
        /\ seq2index' = [seq2index EXCEPT ![n] = pos]
        /\ index2obj' = [index2obj EXCEPT ![pos] = d]
        /\ curr_seq' = n + 1
        /\ pos' = pos + 1
    BY <2>2, <2>3, <1>n DEF NewSeq, WithoutOld, SeqInv, SeqTypeOK
  <2>5. SeqTypeOK' /\ OnlyFullPanics'
    <3>1. index2obj' \in [Slots -> Data \cup {Nil}]
      BY <2>1, <2>4 DEF SeqInv, SeqTypeOK
    <3>2. seq2index' \in [Seqs -> Slots \cup {-1}]
      BY <2>1, <2>4, <1>n DEF SeqInv, SeqTypeOK
    <3>3. pos' \in 0 .. MaxSize /\ curr_seq' \in 1 .. MaxSize
      <4>1. n \in Nat /\ n < MaxSize
        BY <1>n, <1>t DEF Seqs, SEQ_START
      <4> QED
        BY <4>1, <2>4, <1>t, <1>2
    <3>4. requestId' \in [Data -> Seqs]
      BY <2>4, <1>n DEF SeqInv, SeqTypeOK
    <3> QED
      BY <3>1, <3>2, <3>3, <3>4, <2>4 DEF SeqTypeOK, Panics, OnlyFullPanics
  <2>6. SlotsPacked'
    BY <2>1, <2>4, NilAssumption DEF SlotsPacked, SeqInv, SeqTypeOK, Slots
  <2>7. NumbersResolve'
    <3> SUFFICES ASSUME NEW s \in Seqs, seq2index'[s] # -1
                 PROVE  /\ seq2index'[s] < pos'
                        /\ requestId'[index2obj'[seq2index'[s]]] = s
      BY DEF NumbersResolve
    <3>1. CASE s = n
      BY <3>1, <2>1, <2>4, <1>n DEF SeqInv, SeqTypeOK, Slots
    <3>2. CASE s # n
      <4>1. /\ seq2index'[s] = seq2index[s]
            /\ seq2index[s] \in Slots
            /\ seq2index[s] < pos
            /\ requestId[index2obj[seq2index[s]]] = s
        BY <3>2, <2>4, <1>n DEF SeqInv, SeqTypeOK, NumbersResolve
      <4>2. index2obj'[seq2index[s]] = index2obj[seq2index[s]]
        BY <4>1, <2>4, <2>1 DEF SeqInv, SeqTypeOK, Slots
      <4>3. index2obj[seq2index[s]] \in Data /\ index2obj[seq2index[s]] # d
        BY <4>1 DEF SeqInv, SeqTypeOK, SlotsPacked, Fresh
      <4> QED
        BY <4>1, <4>2, <4>3, <2>4 DEF SeqInv, SeqTypeOK, Slots
    <3> QED
      BY <3>1, <3>2
  <2> QED
    BY <2>5, <2>6, <2>7 DEF SeqInv
<1> QED
  BY <1>1, <1>2, <1>t

\* DelSeq keeps the invariant and never panics, whatever number it is given.
LEMMA DelSeqInv ==
  ASSUME NEW seq, SeqInv, OnlyFullPanics, panicked = "no", DelSeq(seq)
  PROVE  SeqInv' /\ panicked' = "no"
<1>1. CASE GetData(seq) = Nil
  BY <1>1
  DEF DelSeq, seqVars, SeqInv, SeqTypeOK, SlotsPacked, NumbersResolve
<1>2. CASE GetData(seq) # Nil
  <2> DEFINE k == seq2index[seq]
  <2>1. /\ seq \in Seqs
        /\ k \in Slots
        /\ k < pos
        /\ index2obj[k] \in Data
        /\ requestId[index2obj[k]] = seq
    BY <1>2 DEF GetData, SeqInv, SeqTypeOK, NumbersResolve, Slots
  <2>t. MaxSize \in Nat /\ pos \in Nat /\ pos <= MaxSize
    BY Sizes
  <2>2. /\ pos >= 1
        /\ pos - 1 \in Slots
        /\ LastData \in Data
        /\ requestId[LastData] \in Seqs
    <3>1. k \in Nat
      BY <2>1, <2>t DEF Slots
    <3>2. pos >= 1 /\ pos - 1 \in Slots /\ pos - 1 < pos
      BY <3>1, <2>1, <2>t DEF Slots
    <3>3. LastData \in Data
      BY <3>2 DEF SeqInv, SeqTypeOK, SlotsPacked, LastData
    <3> QED
      BY <3>2, <3>3 DEF SeqInv, SeqTypeOK
  <2>3. DelSeqFault(seq) = "no"
    BY <2>2, <2>t, NilAssumption DEF DelSeqFault
  <2>4. /\ panicked' = "no"
        /\ index2obj' = Unfilled(seq)
        /\ seq2index' = Unnumbered(seq)
        /\ pos' = pos - 1
        /\ curr_seq' = curr_seq
        /\ requestId' = requestId
    BY <1>2, <2>3 DEF DelSeq
  <2>5. SeqTypeOK'
    <3>1. index2obj' \in [Slots -> Data \cup {Nil}]
      BY <2>1, <2>2, <2>4 DEF SeqInv, SeqTypeOK, Unfilled
    <3>2. seq2index' \in [Seqs -> Slots \cup {-1}]
      BY <2>1, <2>2, <2>4 DEF SeqInv, SeqTypeOK, Unnumbered
    <3>3. pos' \in 0 .. MaxSize
      BY <2>2, <2>4, <2>t
    <3> QED
      BY <3>1, <3>2, <3>3, <2>4 DEF SeqInv, SeqTypeOK, Panics
  <2>6. SlotsPacked'
    BY <2>1, <2>2, <2>4, <2>t, NilAssumption
    DEF SlotsPacked, SeqInv, SeqTypeOK, Unfilled, Slots
  <2>7. NumbersResolve'
    <3> SUFFICES ASSUME NEW s \in Seqs, seq2index'[s] # -1
                 PROVE  /\ seq2index'[s] < pos'
                        /\ requestId'[index2obj'[seq2index'[s]]] = s
      BY DEF NumbersResolve
    <3>1. CASE k = pos - 1
      BY <3>1, <2>1, <2>2, <2>4, <2>t
      DEF Unfilled, Unnumbered, SeqInv, SeqTypeOK, NumbersResolve, Slots
    <3>2. CASE k # pos - 1 /\ s = requestId[LastData]
      BY <3>2, <2>1, <2>2, <2>4, <2>t
      DEF Unfilled, Unnumbered, SeqInv, SeqTypeOK, NumbersResolve, Slots
    <3>3. CASE k # pos - 1 /\ s # requestId[LastData]
      <4>1. /\ seq2index'[s] = seq2index[s]
            /\ s # seq
        BY <3>3, <2>1, <2>2, <2>4 DEF Unnumbered, SeqInv, SeqTypeOK
      <4>2. /\ seq2index[s] \in Slots
            /\ seq2index[s] < pos
            /\ requestId[index2obj[seq2index[s]]] = s
        BY <4>1 DEF SeqInv, SeqTypeOK, NumbersResolve
      <4>3. seq2index[s] # pos - 1 /\ seq2index[s] # k
        BY <4>1, <4>2, <3>3, <2>1 DEF LastData
      <4> QED
        BY <4>1, <4>2, <4>3, <3>3, <2>1, <2>2, <2>4, <2>t DEF Unfilled, SeqInv, SeqTypeOK, Slots
    <3> QED
      BY <3>1, <3>2, <3>3
  <2> QED
    BY <2>4, <2>5, <2>6, <2>7 DEF SeqInv
<1> QED
  BY <1>1, <1>2
\* A step that leaves the table alone keeps its invariant.
LEMMA IdleInv == SeqInv /\ OnlyFullPanics /\ UNCHANGED seqVars => SeqInv' /\ OnlyFullPanics'
<1> SUFFICES ASSUME SeqInv, OnlyFullPanics, UNCHANGED seqVars PROVE SeqInv' /\ OnlyFullPanics'
  OBVIOUS
<1>1. UNCHANGED <<index2obj, seq2index, pos, curr_seq, requestId, panicked>>
  BY DEF seqVars
<1>2. SeqTypeOK'
  BY <1>1 DEF SeqInv, SeqTypeOK
<1>3. SlotsPacked' /\ NumbersResolve' /\ OnlyFullPanics'
  BY <1>1 DEF SeqInv, SlotsPacked, NumbersResolve, OnlyFullPanics
<1> QED
  BY <1>2, <1>3 DEF SeqInv

\* A caller that keeps to the table's terms finds its invariant, and sees no
\* panic but that of a full table.
THEOREM TableSafe == TableSpec => [](SeqInv /\ OnlyFullPanics)
<1>1. SeqInv /\ OnlyFullPanics /\ [TableStep]_seqVars => SeqInv' /\ OnlyFullPanics'
  BY NewSeqInv, DelSeqInv, IdleInv DEF TableStep, OnlyFullPanics
<1> QED
  BY SeqInitInv, <1>1, PTL DEF TableSpec

\* NewSeq puts nothing in the table but its argument (seqmap.go:48-52).
LEMMA NewSeqFresh ==
  ASSUME NEW d, NEW e, SeqInv, NewSeq(d), e # d, Fresh(e)
  PROVE  Fresh(e)'
  BY DEF SeqInv, SeqTypeOK, NewSeq, Fresh

\* DelSeq puts nothing in the table that was not in it (seqmap.go:76-84).
LEMMA DelSeqFresh ==
  ASSUME NEW seq, NEW e \in Data, SeqInv, OnlyFullPanics, panicked = "no",
         DelSeq(seq), Fresh(e)
  PROVE  Fresh(e)'
<1>1. CASE GetData(seq) = Nil
  BY <1>1 DEF DelSeq, seqVars, Fresh
<1>2. CASE GetData(seq) # Nil
  <2>1. seq \in Seqs /\ seq2index[seq] \in Slots /\ seq2index[seq] < pos
    BY <1>2 DEF GetData, SeqInv, SeqTypeOK, NumbersResolve, Slots
  <2>2. MaxSize \in Nat /\ pos \in Nat /\ pos <= MaxSize
    BY Sizes
  <2>3. pos - 1 \in Slots
    <3>1. seq2index[seq] \in Nat
      BY <2>1, <2>2 DEF Slots
    <3> QED
      BY <3>1, <2>1, <2>2 DEF Slots
  <2>4. index2obj' = Unfilled(seq) \/ index2obj' = index2obj
    BY <1>2 DEF DelSeq
  <2>5. LastData # e
    BY <2>3 DEF LastData, Fresh
  <2> QED
    BY <2>1, <2>3, <2>4, <2>5, NilAssumption DEF Unfilled, Fresh, SeqInv, SeqTypeOK
<1> QED
  BY <1>1, <1>2

-------------------------------------------------------------------------------
(***************************************************************************)
(* What is found by a number before and after a call, as long as the ring  *)
(* laps no outstanding request.                                            *)
(***************************************************************************)
\* A lookup is one step in each array (GetData, seqmap.go:89).
LookupIs ==
    \A s \in Seqs :
        /\ seq2index[s] = -1 => GetData(s) = Nil
        /\ seq2index[s] # -1 => /\ GetData(s) = index2obj[seq2index[s]]
                                /\ GetData(s) \in Data
                                /\ GetData(s) # Nil
                                /\ requestId[GetData(s)] = s

LEMMA GetDataIs == SeqInv => LookupIs
<1> SUFFICES ASSUME SeqInv, NEW s \in Seqs
             PROVE  /\ seq2index[s] = -1 => GetData(s) = Nil
                    /\ seq2index[s] # -1 => /\ GetData(s) = index2obj[seq2index[s]]
                                            /\ GetData(s) \in Data
                                            /\ GetData(s) # Nil
                                            /\ requestId[GetData(s)] = s
  BY DEF LookupIs
<1>1. CASE seq2index[s] = -1
  BY <1>1 DEF GetData
<1>2. CASE seq2index[s] # -1
  <2>1. /\ seq2index[s] \in Slots
        /\ seq2index[s] < pos
        /\ requestId[index2obj[seq2index[s]]] = s
    BY <1>2 DEF SeqInv, SeqTypeOK, NumbersResolve
  <2>2. index2obj[seq2index[s]] \in Data /\ index2obj[seq2index[s]] # Nil
    BY <2>1, NilAssumption DEF SeqInv, SeqTypeOK, SlotsPacked
  <2>3. seq2index[s] >= 0
    BY <2>1, SizeAssumption DEF Slots
  <2> QED
    BY <1>2, <2>1, <2>2, <2>3 DEF GetData
<1> QED
  BY <1>1, <1>2

\* A number that is free is handed out without disturbing any other (seqmap.go:30-58).
LEMMA NewSeqFree ==
  ASSUME NEW d \in Data, SeqInv, OnlyFullPanics, panicked = "no", Fresh(d), NewSeq(d),
         EverySlotReached, NumberIsFree, pos < MaxSize
  PROVE  /\ panicked' = "no" /\ EverySlotReached'
         /\ GetData(NextSeq) = Nil
         /\ \A s \in Seqs : GetData(s) # d
         /\ \A s \in Seqs : GetData(s)' = IF s = NextSeq THEN d ELSE GetData(s)
         /\ NextSeq' = (NextSeq + 1) % MaxSize
<1>t. MaxSize \in Nat /\ MaxSize >= 1 /\ pos \in Nat /\ pos <= MaxSize
  BY Sizes
<1>n. NextSeq \in Seqs /\ NextSeq \in Nat /\ NextSeq < MaxSize
  <2>1. NextSeq \in Seqs
    BY NextSeqInRing DEF SeqInv
  <2> QED
    BY <2>1, <1>t DEF Seqs, SEQ_START
<1>l. LookupIs /\ LookupIs'
  <2>1. SeqInv'
    BY NewSeqInv
  <2> QED
    BY <2>1, GetDataIs, PTL
<1>1. seq2index[NextSeq] = -1
  BY DEF NumberIsFree
<1>2. NewSeqFault = "no"
  BY <1>t, <1>1 DEF NewSeqFault
<1>3. /\ requestId' = [requestId EXCEPT ![d] = NextSeq]
      /\ seq2index' = [seq2index EXCEPT ![NextSeq] = pos]
      /\ index2obj' = [index2obj EXCEPT ![pos] = d]
      /\ curr_seq' = NextSeq + 1
      /\ pos' = pos + 1
      /\ panicked' = "no"
  BY <1>1, <1>2 DEF NewSeq, WithoutOld
<1>p. pos \in Slots
  BY <1>t DEF Slots
<1>4. GetData(NextSeq) = Nil
  BY <1>1, <1>n, <1>l DEF LookupIs
<1>5. \A s \in Seqs : GetData(s) # d
  <2> TAKE s \in Seqs
  <2>1. CASE seq2index[s] = -1
    BY <2>1, <1>l, NilAssumption DEF LookupIs
  <2>2. CASE seq2index[s] # -1
    <3>1. seq2index[s] \in Slots
      BY <2>2 DEF SeqInv, SeqTypeOK
    <3> QED
      BY <2>2, <3>1, <1>l DEF LookupIs, Fresh
  <2> QED
    BY <2>1, <2>2
<1>6. ASSUME NEW s \in Seqs
      PROVE  GetData(s)' = IF s = NextSeq THEN d ELSE GetData(s)
  <2>1. CASE s = NextSeq
    <3>1. seq2index'[s] = pos /\ index2obj'[pos] = d /\ pos # -1
      BY <2>1, <1>3, <1>p, <1>n, <1>t DEF SeqInv, SeqTypeOK
    <3> QED
      BY <3>1, <1>l, <2>1 DEF LookupIs
  <2>2. CASE s # NextSeq
    <3>1. seq2index'[s] = seq2index[s]
      BY <2>2, <1>3 DEF SeqInv, SeqTypeOK
    <3>2. CASE seq2index[s] = -1
      BY <3>1, <3>2, <1>l, <2>2 DEF LookupIs
    <3>3. CASE seq2index[s] # -1
      <4>1. seq2index[s] \in Slots /\ seq2index[s] < pos
        BY <3>3 DEF SeqInv, SeqTypeOK, NumbersResolve
      <4>2. index2obj'[seq2index[s]] = index2obj[seq2index[s]]
        BY <4>1, <1>3, <1>p DEF SeqInv, SeqTypeOK, Slots
      <4> QED
        BY <4>2, <3>1, <3>3, <2>2, <1>l DEF LookupIs
    <3> QED
      BY <3>2, <3>3
  <2> QED
    BY <2>1, <2>2
<1>7. NextSeq' = (NextSeq + 1) % MaxSize
  <2>1. CASE NextSeq + 1 >= MaxSize
    BY <2>1, <1>3, <1>n, <1>t DEF NextSeq, SEQ_START
  <2>2. CASE NextSeq + 1 < MaxSize
    BY <2>2, <1>3, <1>n, <1>t DEF NextSeq, SEQ_START
  <2> QED
    BY <2>1, <2>2, <1>n, <1>t
<1>8. EverySlotReached'
  <2> SUFFICES ASSUME NEW i \in Slots, i < pos'
               PROVE  seq2index'[requestId'[index2obj'[i]]] = i
    BY DEF EverySlotReached
  <2>1. CASE i = pos
    BY <2>1, <1>3, <1>p, <1>n DEF SeqInv, SeqTypeOK
  <2>2. CASE i # pos
    <3>1. i < pos
      BY <2>2, <1>3, <1>t DEF Slots
    <3>2. /\ index2obj'[i] = index2obj[i]
          /\ index2obj[i] \in Data
          /\ index2obj[i] # d
      BY <3>1, <2>2, <1>3
      DEF SeqInv, SeqTypeOK, SlotsPacked, Fresh
    <3>3. /\ requestId'[index2obj[i]] = requestId[index2obj[i]]
          /\ requestId[index2obj[i]] \in Seqs
      BY <3>2, <1>3 DEF SeqInv, SeqTypeOK
    <3>4. seq2index[requestId[index2obj[i]]] = i
      BY <3>1 DEF EverySlotReached
    <3>5. requestId[index2obj[i]] # NextSeq
      BY <3>4, <1>1, <1>t DEF Slots
    <3> QED
      BY <3>2, <3>3, <3>4, <3>5, <1>3 DEF SeqInv, SeqTypeOK
  <2> QED
    BY <2>1, <2>2
<1> QED
  BY <1>3, <1>4, <1>5, <1>6, <1>7, <1>8

\* A deletion removes its own number, or finds nothing and does nothing; the
\* request it moves is then still found by its number (seqmap.go:61-87).
LEMMA DelSeqReached ==
  ASSUME NEW seq \in Seqs, SeqInv, OnlyFullPanics, panicked = "no", EverySlotReached,
         DelSeq(seq)
  PROVE  /\ panicked' = "no" /\ EverySlotReached'
         /\ NextSeq' = NextSeq
         /\ \/ /\ GetData(seq) = Nil
               /\ \A s \in Seqs : GetData(s)' = GetData(s)
            \/ /\ GetData(seq) # Nil
               /\ \A s \in Seqs : GetData(s)' = IF s = seq THEN Nil ELSE GetData(s)
<1>i. SeqInv' /\ panicked' = "no"
  BY DelSeqInv
<1>l. LookupIs /\ LookupIs'
  BY <1>i, GetDataIs, PTL
<1>t. MaxSize \in Nat /\ MaxSize >= 1 /\ pos \in Nat /\ pos <= MaxSize
  BY Sizes
<1>1. CASE GetData(seq) = Nil
  <2>1. UNCHANGED seqVars
    BY <1>1 DEF DelSeq
  <2>2. \A s \in Seqs : GetData(s)' = GetData(s)
    BY <2>1 DEF GetData, seqVars
  <2>3. NextSeq' = NextSeq /\ EverySlotReached'
    BY <2>1 DEF NextSeq, EverySlotReached, seqVars
  <2> QED
    BY <1>i, <1>1, <2>2, <2>3
<1>2. CASE GetData(seq) # Nil
  <2> DEFINE k == seq2index[seq]
  <2>1. /\ k # -1
        /\ k \in Slots
        /\ k < pos
        /\ requestId[index2obj[k]] = seq
    BY <1>2, <1>l DEF LookupIs, SeqInv, SeqTypeOK, NumbersResolve
  <2>2. pos >= 1 /\ pos - 1 \in Slots /\ pos - 1 < pos
    BY <2>1, <1>t DEF Slots
  <2>3. /\ LastData \in Data
        /\ LastData # Nil
        /\ requestId[LastData] \in Seqs
        /\ seq2index[requestId[LastData]] = pos - 1
    BY <2>2 DEF LastData, SeqInv, SeqTypeOK, SlotsPacked, EverySlotReached
  <2>4. DelSeqFault(seq) = "no"
    BY <2>2, <2>3, <1>t DEF DelSeqFault
  <2>5. /\ index2obj' = Unfilled(seq)
        /\ seq2index' = Unnumbered(seq)
        /\ pos' = pos - 1
        /\ panicked' = "no"
        /\ curr_seq' = curr_seq
        /\ requestId' = requestId
    BY <1>2, <2>4 DEF DelSeq
  <2>6. k # pos - 1 => requestId[LastData] # seq
    BY <2>3
  <2>7. ASSUME NEW s \in Seqs
        PROVE  GetData(s)' = IF s = seq THEN Nil ELSE GetData(s)
    <3>1. CASE s = seq
      <4>1. seq2index'[s] = -1
        BY <3>1, <2>5, <2>6, <2>1 DEF Unnumbered, SeqInv, SeqTypeOK
      <4> QED
        BY <4>1, <3>1, <1>l DEF LookupIs
    <3>2. CASE s # seq /\ k # pos - 1 /\ s = requestId[LastData]
      <4>1. seq2index'[s] = k /\ index2obj'[k] = LastData
        BY <3>2, <2>1, <2>2, <2>3, <2>5
        DEF Unnumbered, Unfilled, SeqInv, SeqTypeOK
      <4>2. GetData(s)' = LastData
        BY <4>1, <2>1, <1>l DEF LookupIs
      <4>3. GetData(s) = LastData
        BY <3>2, <2>3, <2>2, <1>t, <1>l DEF LookupIs, LastData
      <4> QED
        BY <4>2, <4>3, <3>2
    <3>3. CASE s # seq /\ (k = pos - 1 \/ s # requestId[LastData])
      <4>1. seq2index'[s] = seq2index[s]
        BY <3>3, <2>5 DEF Unnumbered, SeqInv, SeqTypeOK
      <4>2. CASE seq2index[s] = -1
        BY <4>1, <4>2, <3>3, <1>l DEF LookupIs
      <4>3. CASE seq2index[s] # -1
        <5>1. /\ seq2index[s] \in Slots
              /\ requestId[index2obj[seq2index[s]]] = s
          BY <4>3 DEF SeqInv, SeqTypeOK, NumbersResolve
        <5>2. seq2index[s] # k /\ seq2index[s] # pos - 1
          BY <5>1, <3>3, <2>1 DEF LastData
        <5>3. index2obj'[seq2index[s]] = index2obj[seq2index[s]]
          BY <5>1, <5>2, <2>5 DEF Unfilled, SeqInv, SeqTypeOK
        <5> QED
          BY <5>3, <4>1, <4>3, <3>3, <1>l DEF LookupIs
      <4> QED
        BY <4>2, <4>3
    <3> QED
      BY <3>1, <3>2, <3>3
  <2>8. NextSeq' = NextSeq
    BY <2>5 DEF NextSeq
  <2>9. EverySlotReached'
    <3> SUFFICES ASSUME NEW i \in Slots, i < pos'
                 PROVE  seq2index'[requestId'[index2obj'[i]]] = i
      BY DEF EverySlotReached
    <3>1. i < pos - 1 /\ i < pos /\ i # pos - 1
      BY <2>5, <2>2, <1>t DEF Slots
    <3>2. CASE i = k
      BY <3>1, <3>2, <2>1, <2>2, <2>3, <2>5
      DEF Unnumbered, Unfilled, SeqInv, SeqTypeOK
    <3>3. CASE i # k
      <4>1. index2obj'[i] = index2obj[i]
        BY <3>1, <3>3, <2>5 DEF Unfilled, SeqInv, SeqTypeOK
      <4>2. /\ index2obj[i] \in Data
            /\ requestId[index2obj[i]] \in Seqs
            /\ seq2index[requestId[index2obj[i]]] = i
        BY <3>1 DEF SeqInv, SeqTypeOK, SlotsPacked, EverySlotReached
      <4>3. requestId[index2obj[i]] # seq /\ requestId[index2obj[i]] # requestId[LastData]
        BY <4>2, <3>1, <3>3, <2>3
      <4> QED
        BY <4>1, <4>2, <4>3, <2>5 DEF Unnumbered, SeqInv, SeqTypeOK
    <3> QED
      BY <3>2, <3>3
  <2> QED
    BY <1>i, <1>2, <2>7, <2>8, <2>9
<1> QED
  BY <1>1, <1>2
===============================================================================
