------------------------------- MODULE BusProofs -------------------------------
(***************************************************************************)
(* The message bus, for every number of requests and every capacity: its   *)
(* types, that it keeps to the terms of the table of outstanding requests  *)
(* (so that every theorem about the table holds of the bus), that a waiting *)
(* requester is always tracked, that the expired list is in the order in   *)
(* which its requests expire, that a tick is always on its way, and, in the *)
(* last part, whose answer a requester gets and when it is told that there *)
(* is none.  A device's answer names a number, not a request, and numbers  *)
(* come round again: what holds is that two requests that share a number   *)
(* have at least MaxSize - 1 others issued between them.                   *)
(***************************************************************************)
EXTENDS Bus, SeqMapLemmas, SequenceTheorems

\* In every handler the locals it is about to use are set, the time among them.
Locals ==
    /\ busPc \in {"push", "evict", "track", "write", "reply"} => cur \in Data
    /\ busPc \in {"refuse", "evict", "reply", "expire"} => target \in Data
    /\ now <= clock

\* A request is put in seqMsg once and in the table once.  It may be put in seqMsg
\* by the bus only after its one call has been taken, and has a number only after
\* it has left seqMsg.
Early(r) == reqPc[r] \in {"idle", "calling"}

Unqueued(r) == \A i \in 1 .. Len(seqMsg) : seqMsg[i] # r

Once ==
    /\ \A i, j \in 1 .. Len(seqMsg) : i # j => seqMsg[i] # seqMsg[j]
    /\ \A i \in 1 .. Len(seqMsg) : issueNo[seqMsg[i]] = 0
    /\ busPc = "push" => Unqueued(cur) /\ issueNo[cur] = 0 /\ ~Early(cur)
    /\ \A r \in Data : Early(r) => Unqueued(r) /\ issueNo[r] = 0
    /\ \A r \in Data : issueNo[r] = 0 => Fresh(r)

IInv == TypeOK /\ SeqInv /\ OnlyFullPanics /\ Locals /\ Once

LEMMA InitIInv == Init => IInv
<1> SUFFICES ASSUME Init PROVE IInv
  OBVIOUS
<1>1. SeqInv /\ OnlyFullPanics
  BY SeqInitInv DEF Init
<1>2. TypeOK
  <2>1. /\ <<>> \in Seq(Data) /\ Len(<<>>) = 0
        /\ 0 <= MESSAGE_SIZE /\ 0 <= WRITE_SIZE /\ maxDuration \in Nat
    BY CapacityAssumption, DurationAssumption
  <2>2. SeqTypeOK
    BY <1>1 DEF SeqInv
  <2> QED
    BY <2>1, <2>2 DEF Init, TypeOK, BusPcs, Off, Pumps
<1>3. Locals /\ Once
  BY NilAssumption DEF Init, SeqInit, Locals, Once, Unqueued, Early, Fresh
<1> QED
  BY <1>1, <1>2, <1>3 DEF IInv

\* Steps that leave seqMsg, the history and the table alone, and bring no requester
\* back to its call, keep Once.
QuietStep ==
    /\ UNCHANGED <<seqVars, seqMsg, issued, issueNo>>
    /\ \A r \in Data : Early(r)' => Early(r)
    /\ busPc' = "push" => busPc = "push" /\ cur' = cur

LEMMA QuietOnce == ASSUME IInv, QuietStep PROVE Once' /\ SeqInv' /\ OnlyFullPanics'
<1>1. SeqInv' /\ OnlyFullPanics'
  BY IdleInv DEF IInv, QuietStep
<1>2. /\ seqMsg' = seqMsg /\ issueNo' = issueNo /\ index2obj' = index2obj
      /\ \A r \in Data : Early(r)' => Early(r)
  BY DEF QuietStep, seqVars, history
<1>3. \A r : Unqueued(r)' <=> Unqueued(r)
  BY <1>2 DEF Unqueued
<1>4. \A r : Fresh(r)' <=> Fresh(r)
  BY <1>2 DEF Fresh
<1>5. busPc' = "push" => Unqueued(cur)' /\ (issueNo[cur] = 0)' /\ ~Early(cur)'
  <2> SUFFICES ASSUME busPc' = "push"
               PROVE  Unqueued(cur)' /\ (issueNo[cur] = 0)' /\ ~Early(cur)'
    OBVIOUS
  <2>1. busPc = "push" /\ cur' = cur /\ cur \in Data
    BY DEF QuietStep, IInv, Locals
  <2>2. Unqueued(cur) /\ issueNo[cur] = 0 /\ ~Early(cur)
    BY <2>1 DEF IInv, Once
  <2>3. ~Early(cur)'
    BY <2>1, <2>2, <1>2 DEF Early
  <2>4. Unqueued(cur)'
    BY <2>1, <2>2, <1>2 DEF Unqueued
  <2> QED
    BY <2>1, <2>2, <2>3, <2>4, <1>2
<1>6. Once'
  BY <1>2, <1>3, <1>4, <1>5 DEF IInv, Once
<1> QED
  BY <1>1, <1>6

(***************************************************************************)
(* One lemma per action.                                                   *)
(***************************************************************************)
LEMMA RequestControlIInv == ASSUME NEW r \in Data, IInv, RequestControl(r) PROVE IInv'
<1>1. QuietStep
  BY DEF RequestControl, QuietStep, Early, Hand, Done, Goto, reqVars, busVars, history, IInv, TypeOK
<1>2. TypeOK' /\ Locals'
  <2>1. SeqTypeOK'
    BY <1>1, QuietOnce DEF SeqInv
  <2> QED
    BY <2>1
    DEF RequestControl, IInv, TypeOK, Locals, Hand, Done, Goto, BusPcs, Off, Pumps, busVars, listVars,
        timerVars, reqVars, connVars, history
<1> QED
  BY <1>1, <1>2, QuietOnce DEF IInv

LEMMA RefuseIInv == ASSUME IInv, Refuse PROVE IInv'
<1>1. QuietStep
  BY DEF Refuse, QuietStep, Early, Hand, Done, Goto, reqVars, busVars, history, IInv, TypeOK
<1>2. TypeOK' /\ Locals'
  <2>1. SeqTypeOK'
    BY <1>1, QuietOnce DEF SeqInv
  <2> QED
    BY <2>1
    DEF Refuse, IInv, TypeOK, Locals, Hand, Done, Goto, BusPcs, Off, Pumps, busVars, listVars,
        timerVars, reqVars, connVars, history
<1> QED
  BY <1>1, <1>2, QuietOnce DEF IInv

LEMMA EvictIInv == ASSUME IInv, Evict PROVE IInv'
<1>1. QuietStep
  BY DEF Evict, QuietStep, Early, Hand, Done, Goto, reqVars, busVars, history, IInv, TypeOK
<1>2. TypeOK' /\ Locals'
  <2>1. SeqTypeOK'
    BY <1>1, QuietOnce DEF SeqInv
  <2> QED
    BY <2>1
    DEF Evict, IInv, TypeOK, Locals, Hand, Done, Goto, BusPcs, Off, Pumps, busVars, listVars,
        timerVars, reqVars, connVars, history
<1> QED
  BY <1>1, <1>2, QuietOnce DEF IInv

LEMMA TrackIInv == ASSUME IInv, Track PROVE IInv'
<1>1. QuietStep
  BY DEF Track, QuietStep, Early, Hand, Done, Goto, reqVars, busVars, history, IInv, TypeOK
<1>2. TypeOK' /\ Locals'
  <2>1. SeqTypeOK'
    BY <1>1, QuietOnce DEF SeqInv
  <2>2. /\ cur \in Data /\ Append(l, cur) \in Seq(Data)
        /\ clock + expiredDuration \in Nat /\ clock <= clock
    BY AppendProperties, DurationAssumption, SMTT(30) DEF Track, IInv, TypeOK, Locals
  <2> QED
    BY <2>1, <2>2
    DEF Track, IInv, TypeOK, Locals, Hand, Done, Goto, BusPcs, Off, Pumps, busVars, listVars,
        timerVars, reqVars, connVars, history
<1> QED
  BY <1>1, <1>2, QuietOnce DEF IInv

LEMMA WriteIInv == ASSUME IInv, Write PROVE IInv'
<1>1. QuietStep
  BY DEF Write, QuietStep, Early, Hand, Done, Goto, reqVars, busVars, history, IInv, TypeOK
<1>2. TypeOK' /\ Locals'
  <2>1. SeqTypeOK'
    BY <1>1, QuietOnce DEF SeqInv
  <2>2. cur \in Data => /\ Append(writeMsg, cur) \in Seq(Data)
                        /\ Len(Append(writeMsg, cur)) = Len(writeMsg) + 1
                        /\ Len(writeMsg) < WRITE_SIZE => Len(writeMsg) + 1 <= WRITE_SIZE
    BY AppendProperties, CapacityAssumption DEF IInv, TypeOK
  <2> QED
    BY <2>1, <2>2
    DEF Write, IInv, TypeOK, Locals, Hand, Done, Goto, BusPcs, Off, Pumps, busVars, listVars,
        timerVars, reqVars, connVars, history
<1> QED
  BY <1>1, <1>2, QuietOnce DEF IInv

LEMMA ReplyIInv == ASSUME IInv, Reply PROVE IInv'
<1>1. QuietStep
  BY DEF Reply, QuietStep, Early, Hand, Done, Goto, reqVars, busVars, history, IInv, TypeOK
<1>2. TypeOK' /\ Locals'
  <2>1. SeqTypeOK'
    BY <1>1, QuietOnce DEF SeqInv
  <2> QED
    BY <2>1
    DEF Reply, IInv, TypeOK, Locals, Hand, Done, Goto, BusPcs, Off, Pumps, busVars, listVars,
        timerVars, reqVars, connVars, history
<1> QED
  BY <1>1, <1>2, QuietOnce DEF IInv

LEMMA TakeTickIInv == ASSUME IInv, TakeTick PROVE IInv'
<1>1. QuietStep
  BY DEF TakeTick, QuietStep, Early, Hand, Done, Goto, reqVars, busVars, history, IInv, TypeOK
<1>2. TypeOK' /\ Locals'
  <2>1. SeqTypeOK'
    BY <1>1, QuietOnce DEF SeqInv
  <2>2. clock \in Nat /\ clock <= clock
    BY DEF IInv, TypeOK
  <2> QED
    BY <2>1, <2>2
    DEF TakeTick, IInv, TypeOK, Locals, Hand, Done, Goto, BusPcs, Off, Pumps, busVars, listVars,
        timerVars, reqVars, connVars, history
<1> QED
  BY <1>1, <1>2, QuietOnce DEF IInv

LEMMA ExpireIInv == ASSUME IInv, Expire PROVE IInv'
<1>1. QuietStep
  BY DEF Expire, QuietStep, Early, Hand, Done, Goto, reqVars, busVars, history, IInv, TypeOK
<1>2. TypeOK' /\ Locals'
  <2>1. SeqTypeOK'
    BY <1>1, QuietOnce DEF SeqInv
  <2> QED
    BY <2>1
    DEF Expire, IInv, TypeOK, Locals, Hand, Done, Goto, BusPcs, Off, Pumps, busVars, listVars,
        timerVars, reqVars, connVars, history
<1> QED
  BY <1>1, <1>2, QuietOnce DEF IInv

LEMMA KeepFrontIInv == ASSUME IInv, KeepFront PROVE IInv'
<1>1. QuietStep
  BY DEF KeepFront, QuietStep, Early, Hand, Done, Goto, reqVars, busVars, history, IInv, TypeOK
<1>2. TypeOK' /\ Locals'
  <2>1. SeqTypeOK'
    BY <1>1, QuietOnce DEF SeqInv
  <2>2. /\ Head(l) \in Data /\ expired[Head(l)] \in Nat
        /\ clock + (expired[Head(l)] - now) \in Nat
    <3>1. Head(l) \in Data
      BY HeadTailProperties DEF KeepFront, IInv, TypeOK
    <3>2. expired[Head(l)] \in Nat /\ now \in Nat /\ clock \in Nat /\ expired[Head(l)] > now
      BY <3>1 DEF KeepFront, IInv, TypeOK
    <3> QED
      BY <3>1, <3>2
  <2> QED
    BY <2>1, <2>2
    DEF KeepFront, IInv, TypeOK, Locals, Hand, Done, Goto, BusPcs, Off, Pumps, busVars, listVars,
        timerVars, reqVars, connVars, history
<1> QED
  BY <1>1, <1>2, QuietOnce DEF IInv

LEMMA EndTickIInv == ASSUME IInv, EndTick PROVE IInv'
<1>1. QuietStep
  BY DEF EndTick, QuietStep, Early, Hand, Done, Goto, reqVars, busVars, history, IInv, TypeOK
<1>2. TypeOK' /\ Locals'
  <2>1. SeqTypeOK'
    BY <1>1, QuietOnce DEF SeqInv
  <2>2. clock + maxDuration \in Nat /\ clock + (clock + maxDuration - now) \in Nat
    BY DurationAssumption DEF IInv, TypeOK, Locals
  <2> QED
    BY <2>1, <2>2
    DEF EndTick, IInv, TypeOK, Locals, Hand, Done, Goto, BusPcs, Off, Pumps, busVars, listVars,
        timerVars, reqVars, connVars, history
<1> QED
  BY <1>1, <1>2, QuietOnce DEF IInv

LEMMA TockIInv == ASSUME IInv, Tock PROVE IInv'
<1>1. QuietStep
  BY DEF Tock, QuietStep, Early, Hand, Done, Goto, reqVars, busVars, history, IInv, TypeOK
<1>2. TypeOK' /\ Locals'
  <2>1. SeqTypeOK'
    BY <1>1, QuietOnce DEF SeqInv
  <2>2. clock + 1 \in Nat /\ now <= clock + 1
    BY DEF IInv, TypeOK, Locals
  <2> QED
    BY <2>1, <2>2
    DEF Tock, IInv, TypeOK, Locals, Hand, Done, Goto, BusPcs, Off, Pumps, busVars, listVars,
        timerVars, reqVars, connVars, history
<1> QED
  BY <1>1, <1>2, QuietOnce DEF IInv

LEMMA TimerFiresIInv == ASSUME IInv, TimerFires PROVE IInv'
<1>1. QuietStep
  BY DEF TimerFires, QuietStep, Early, Hand, Done, Goto, reqVars, busVars, history, IInv, TypeOK
<1>2. TypeOK' /\ Locals'
  <2>1. SeqTypeOK'
    BY <1>1, QuietOnce DEF SeqInv
  <2> QED
    BY <2>1
    DEF TimerFires, IInv, TypeOK, Locals, Hand, Done, Goto, BusPcs, Off, Pumps, busVars, listVars,
        timerVars, reqVars, connVars, history
<1> QED
  BY <1>1, <1>2, QuietOnce DEF IInv

LEMMA ForwardIInv == ASSUME IInv, Forward PROVE IInv'
<1>1. QuietStep
  BY DEF Forward, QuietStep, Early, Hand, Done, Goto, reqVars, busVars, history, IInv, TypeOK
<1>2. TypeOK' /\ Locals'
  <2>1. SeqTypeOK'
    BY <1>1, QuietOnce DEF SeqInv
  <2> QED
    BY <2>1
    DEF Forward, IInv, TypeOK, Locals, Hand, Done, Goto, BusPcs, Off, Pumps, busVars, listVars,
        timerVars, reqVars, connVars, history
<1> QED
  BY <1>1, <1>2, QuietOnce DEF IInv

LEMMA RegistDeviceInnerIInv == ASSUME IInv, RegistDeviceInner PROVE IInv'
<1>1. QuietStep
  BY DEF RegistDeviceInner, QuietStep, Early, Hand, Done, Goto, reqVars, busVars, history, IInv, TypeOK
<1>2. TypeOK' /\ Locals'
  <2>1. SeqTypeOK'
    BY <1>1, QuietOnce DEF SeqInv
  <2>2. <<>> \in Seq(Data) /\ Len(<<>>) <= WRITE_SIZE
    BY CapacityAssumption
  <2> QED
    BY <2>1, <2>2
    DEF RegistDeviceInner, IInv, TypeOK, Locals, Hand, Done, Goto, BusPcs, Off, Pumps, busVars, listVars,
        timerVars, reqVars, connVars, history
<1> QED
  BY <1>1, <1>2, QuietOnce DEF IInv

LEMMA PumpWriteIInv == ASSUME IInv, PumpWrite PROVE IInv'
<1>1. QuietStep
  BY DEF PumpWrite, QuietStep, Early, Hand, Done, Goto, reqVars, busVars, history, IInv, TypeOK
<1>2. TypeOK' /\ Locals'
  <2>1. SeqTypeOK'
    BY <1>1, QuietOnce DEF SeqInv
  <2>2. /\ Head(writeMsg) \in Data /\ Tail(writeMsg) \in Seq(Data)
        /\ Len(Tail(writeMsg)) <= WRITE_SIZE
    BY HeadTailProperties, CapacityAssumption DEF PumpWrite, IInv, TypeOK
  <2> QED
    BY <2>1, <2>2
    DEF PumpWrite, IInv, TypeOK, Locals, Hand, Done, Goto, BusPcs, Off, Pumps, busVars, listVars,
        timerVars, reqVars, connVars, history
<1> QED
  BY <1>1, <1>2, QuietOnce DEF IInv

LEMMA PumpFailsIInv == ASSUME IInv, PumpFails PROVE IInv'
<1>1. QuietStep
  BY DEF PumpFails, QuietStep, Early, Hand, Done, Goto, reqVars, busVars, history, IInv, TypeOK
<1>2. TypeOK' /\ Locals'
  <2>1. SeqTypeOK'
    BY <1>1, QuietOnce DEF SeqInv
  <2>2. /\ Head(writeMsg) \in Data /\ Tail(writeMsg) \in Seq(Data)
        /\ Len(Tail(writeMsg)) <= WRITE_SIZE
    BY HeadTailProperties, CapacityAssumption DEF PumpFails, IInv, TypeOK
  <2> QED
    BY <2>1, <2>2
    DEF PumpFails, IInv, TypeOK, Locals, Hand, Done, Goto, BusPcs, Off, Pumps, busVars, listVars,
        timerVars, reqVars, connVars, history
<1> QED
  BY <1>1, <1>2, QuietOnce DEF IInv

LEMMA AnswerIInv == ASSUME NEW r \in Data, IInv, Answer(r) PROVE IInv'
<1>1. QuietStep
  BY DEF Answer, QuietStep, Early, Hand, Done, Goto, reqVars, busVars, history, IInv, TypeOK
<1>2. TypeOK' /\ Locals'
  <2>1. SeqTypeOK'
    BY <1>1, QuietOnce DEF SeqInv
  <2>2. /\ Append(resp, r) \in Seq(Data)
        /\ Len(Append(resp, r)) <= MESSAGE_SIZE
    BY AppendProperties, CapacityAssumption DEF Answer, IInv, TypeOK
  <2> QED
    BY <2>1, <2>2
    DEF Answer, IInv, TypeOK, Locals, Hand, Done, Goto, BusPcs, Off, Pumps, busVars, listVars,
        timerVars, reqVars, connVars, history
<1> QED
  BY <1>1, <1>2, QuietOnce DEF IInv

LEMMA ReadFailsIInv == ASSUME IInv, ReadFails PROVE IInv'
<1>1. QuietStep
  BY DEF ReadFails, QuietStep, Early, Hand, Done, Goto, reqVars, busVars, history, IInv, TypeOK
<1>2. TypeOK' /\ Locals'
  <2>1. SeqTypeOK'
    BY <1>1, QuietOnce DEF SeqInv
  <2> QED
    BY <2>1
    DEF ReadFails, IInv, TypeOK, Locals, Hand, Done, Goto, BusPcs, Off, Pumps, busVars, listVars,
        timerVars, reqVars, connVars, history
<1> QED
  BY <1>1, <1>2, QuietOnce DEF IInv

LEMMA CloseInnerIInv == ASSUME IInv, CloseInner PROVE IInv'
<1>1. QuietStep
  BY DEF CloseInner, QuietStep, Early, Hand, Done, Goto, reqVars, busVars, history, IInv, TypeOK
<1>2. TypeOK' /\ Locals'
  <2>1. SeqTypeOK'
    BY <1>1, QuietOnce DEF SeqInv
  <2>2. <<>> \in Seq(Data) /\ Len(<<>>) <= WRITE_SIZE
    BY CapacityAssumption
  <2>3. Queued \subseteq Data
    <3>1. \A i \in 1 .. Len(seqMsg) : seqMsg[i] \in Data
      BY DEF IInv, TypeOK
    <3> QED
      BY <3>1 DEF Queued
  <2> QED
    BY <2>1, <2>2, <2>3
    DEF CloseInner, IInv, TypeOK, Locals, Hand, Done, Goto, BusPcs, Off, Pumps, busVars, listVars,
        timerVars, reqVars, connVars, history
<1> QED
  BY <1>1, <1>2, QuietOnce DEF IInv

-------------------------------------------------------------------------------
(***************************************************************************)
(* The actions that move requests or call the table.                       *)
(***************************************************************************)
LEMMA RequestControlInnerIInv ==
  ASSUME NEW r \in Data, IInv, RequestControlInner(r) PROVE IInv'
<1>1. SeqInv' /\ OnlyFullPanics'
  BY IdleInv DEF RequestControlInner, IInv
<1>2. TypeOK' /\ Locals'
  <2>1. SeqTypeOK'
    BY <1>1 DEF SeqInv
  <2> QED
    BY <2>1
    DEF RequestControlInner, IInv, TypeOK, Locals, Goto, BusPcs, listVars, timerVars,
        reqVars, connVars, history
<1>3. Once'
  <2>1. /\ seqMsg' = seqMsg /\ issueNo' = issueNo /\ index2obj' = index2obj
        /\ reqPc \in [Data -> {"idle", "calling", "waiting", "done"}]
        /\ reqPc' = [reqPc EXCEPT ![r] = "waiting"] /\ cur' = r
    BY DEF RequestControlInner, IInv, TypeOK, seqVars, history
  <2>2. Early(r)
    BY DEF RequestControlInner, Early
  <2>3. Unqueued(r)' /\ (issueNo[r] = 0)' /\ ~Early(r)'
    BY <2>1, <2>2 DEF IInv, Once, Unqueued, Early
  <2>4. \A s \in Data : Early(s)' => Early(s)
    BY <2>1 DEF Early
  <2>5. \A s : (Unqueued(s)' <=> Unqueued(s)) /\ (Fresh(s)' <=> Fresh(s))
    BY <2>1 DEF Unqueued, Fresh
  <2>6. Unqueued(cur)' /\ (issueNo[cur] = 0)' /\ ~Early(cur)'
    BY <2>1, <2>3 DEF Unqueued, Early
  <2> QED
    BY <2>1, <2>4, <2>5, <2>6 DEF IInv, Once
<1> QED
  BY <1>1, <1>2, <1>3 DEF IInv

LEMMA PushIInv == ASSUME IInv, Push PROVE IInv'
<1>1. SeqInv' /\ OnlyFullPanics'
  BY IdleInv DEF Push, IInv
<1> DEFINE q == Append(seqMsg, cur)
<1>2. /\ cur \in Data /\ seqMsg \in Seq(Data) /\ Len(seqMsg) \in Nat
      /\ Unqueued(cur) /\ issueNo[cur] = 0 /\ ~Early(cur)
  BY DEF Push, IInv, TypeOK, Locals, Once
<1>3. /\ q \in Seq(Data) /\ Len(q) = Len(seqMsg) + 1
      /\ \A i \in 1 .. Len(seqMsg) : q[i] = seqMsg[i]
      /\ q[Len(seqMsg) + 1] = cur
      /\ Len(q) <= MESSAGE_SIZE
  BY <1>2, AppendProperties, CapacityAssumption DEF Push
<1>4. TypeOK' /\ Locals'
  <2>1. SeqTypeOK'
    BY <1>1 DEF SeqInv
  <2> QED
    BY <2>1, <1>3
    DEF Push, IInv, TypeOK, Locals, Done, Goto, BusPcs, listVars, timerVars, reqVars,
        connVars, history
<1>5. Once'
  <2>1. /\ seqMsg' = q /\ issueNo' = issueNo /\ index2obj' = index2obj /\ reqPc' = reqPc
        /\ busPc' = "select"
    BY DEF Push, seqVars, history, reqVars, Done, Goto
  <2>2. \A s \in Data : (Early(s)' <=> Early(s)) /\ (Fresh(s)' <=> Fresh(s))
    BY <2>1 DEF Early, Fresh
  <2>3. \A s \in Data : Early(s) => Unqueued(s)'
    BY <1>2, <1>3, <2>1 DEF IInv, Once, Unqueued
  <2>4. \A i \in 1 .. Len(q) : issueNo[q[i]] = 0
    BY <1>2, <1>3 DEF IInv, Once
  <2>5. \A i, j \in 1 .. Len(q) : i # j => q[i] # q[j]
    BY <1>2, <1>3 DEF IInv, Once, Unqueued
  <2> QED
    BY <2>1, <2>2, <2>3, <2>4, <2>5 DEF IInv, Once
<1> QED
  BY <1>1, <1>4, <1>5 DEF IInv

\* The head of seqMsg is taken out and put in the table, for the first time.
LEMMA TakeMsgIInv ==
  ASSUME IInv, panicked = "no", TakeMsg
  PROVE  IInv' /\ Fresh(Head(seqMsg))
<1> DEFINE h == Head(seqMsg)
           q == Tail(seqMsg)
<1>1. /\ seqMsg \in Seq(Data) /\ Len(seqMsg) \in Nat /\ Len(seqMsg) > 0
      /\ h = seqMsg[1] /\ 1 \in 1 .. Len(seqMsg)
  BY DEF TakeMsg, IInv, TypeOK
<1>2. /\ h \in Data /\ q \in Seq(Data) /\ Len(q) = Len(seqMsg) - 1
      /\ \A i \in 1 .. Len(q) : q[i] = seqMsg[i + 1]
  BY <1>1, HeadTailProperties DEF TakeMsg
<1>3. issueNo[h] = 0 /\ ~Early(h) /\ Fresh(h)
  BY <1>1, <1>2 DEF IInv, Once, Unqueued
<1>4. NewSeq(h) /\ seqMsg' = q /\ cur' = h /\ reqPc' = reqPc
      /\ issueNo' = [issueNo EXCEPT ![h] = issued + 1] /\ issued' = issued + 1
  BY DEF TakeMsg, reqVars
<1>5. SeqInv' /\ OnlyFullPanics'
  BY <1>2, <1>3, <1>4, NewSeqInv DEF IInv
<1>6. TypeOK' /\ Locals'
  <2>1. SeqTypeOK'
    BY <1>5 DEF SeqInv
  <2>2. OldData \in Data \cup {Nil}
    <3>1. NextSeq \in Seqs
      BY NextSeqInRing DEF IInv, SeqInv
    <3>2. seq2index[NextSeq] >= 0 => seq2index[NextSeq] \in Slots
      BY <3>1 DEF IInv, SeqInv, SeqTypeOK
    <3> QED
      BY <3>2 DEF OldData, IInv, SeqInv, SeqTypeOK
  <2>3. issued + 1 \in Nat /\ Len(q) <= MESSAGE_SIZE
    BY <1>1, <1>2, CapacityAssumption DEF IInv, TypeOK
  <2> HIDE DEF h, q
  <2> QED
    BY <2>1, <2>2, <2>3, <1>2, <1>4, SMTT(30)
    DEF TakeMsg, IInv, TypeOK, Locals, Goto, BusPcs, listVars, timerVars, reqVars, connVars
<1>7. Once'
  <2>1. issued + 1 # 0
    BY DEF IInv, TypeOK
  <2>2. \A r \in Data : issueNo'[r] = 0 => r # h /\ issueNo[r] = 0
    BY <2>1, <1>4, <1>2 DEF IInv, TypeOK
  <2>3. \A r \in Data : r # h => issueNo'[r] = issueNo[r]
    BY <1>4, <1>2 DEF IInv, TypeOK
  <2>4. \A r \in Data : issueNo'[r] = 0 => Fresh(r)'
    BY <2>2, <1>4, NewSeqFresh DEF IInv, Once
  <2>5. \A i \in 1 .. Len(q) : i + 1 \in 1 .. Len(seqMsg) /\ i + 1 # 1
    BY <1>1, <1>2
  <2>6. \A i \in 1 .. Len(q) : q[i] \in Data /\ q[i] # h /\ issueNo[q[i]] = 0
    BY <2>5, <1>1, <1>2 DEF IInv, Once
  <2>7. \A i, j \in 1 .. Len(q) : i # j => q[i] # q[j]
    BY <2>5, <1>1, <1>2 DEF IInv, Once
  <2>8. \A r \in Data : Early(r)' => Unqueued(r)' /\ issueNo'[r] = 0
    <3> SUFFICES ASSUME NEW r \in Data, Early(r)' PROVE Unqueued(r)' /\ issueNo'[r] = 0
      OBVIOUS
    <3>1. Early(r)
      BY <1>4 DEF Early
    <3>2. r # h /\ issueNo[r] = 0 /\ Unqueued(r)
      BY <3>1, <1>3 DEF IInv, Once
    <3> QED
      BY <3>2, <2>3, <2>5, <1>2, <1>4 DEF Unqueued
  <2>9. busPc' # "push"
    BY DEF TakeMsg, Goto
  <2> QED
    BY <2>3, <2>4, <2>6, <2>7, <2>8, <2>9, <1>4 DEF Once
<1> QED
  BY <1>3, <1>5, <1>6, <1>7 DEF IInv

\* What a step that deletes a number does to the invariant.
LEMMA DeleteOnce ==
  ASSUME IInv, panicked = "no", NEW seq, DelSeq(seq),
         UNCHANGED <<seqMsg, reqPc, history>>, busPc' # "push"
  PROVE  SeqInv' /\ OnlyFullPanics' /\ Once'
<1>1. SeqInv' /\ OnlyFullPanics'
  BY DelSeqInv DEF IInv, OnlyFullPanics
<1>2. \A r \in Data : Fresh(r) => Fresh(r)'
  BY DelSeqFresh DEF IInv
<1>3. \A r \in Data : (Early(r)' <=> Early(r)) /\ (Unqueued(r)' <=> Unqueued(r))
  BY DEF Early, Unqueued
<1>4. Once'
  BY <1>2, <1>3 DEF IInv, Once, history
<1> QED
  BY <1>1, <1>4

LEMMA GetDataType == ASSUME SeqInv, NEW seq PROVE GetData(seq) \in Data \cup {Nil}
  BY DEF GetData, SeqInv, SeqTypeOK, Slots

LEMMA TakeRespIInv ==
  ASSUME IInv, panicked = "no", TakeResp
  PROVE  IInv' /\ \E seq \in Seqs : DelSeq(seq)
<1> DEFINE a == Head(resp)
           seq == requestId[a]
<1>1. a \in Data /\ Tail(resp) \in Seq(Data) /\ Len(Tail(resp)) <= MESSAGE_SIZE
  BY HeadTailProperties, CapacityAssumption DEF TakeResp, IInv, TypeOK
<1>2. seq \in Seqs /\ DelSeq(seq)
  BY <1>1 DEF TakeResp, IInv, SeqInv, SeqTypeOK
<1>3. SeqInv' /\ OnlyFullPanics' /\ Once'
  BY <1>2, DeleteOnce DEF TakeResp, Goto, reqVars
<1>4. TypeOK' /\ Locals'
  <2>1. SeqTypeOK'
    BY <1>3 DEF SeqInv
  <2>2. GetData(seq) \in Data \cup {Nil}
    BY GetDataType DEF IInv
  <2>3. \/ busPc' = "reply" /\ cur' = a /\ target' = GetData(seq) /\ GetData(seq) # Nil
        \/ UNCHANGED <<busPc, cur, target>>
    BY DEF TakeResp, Goto
  <2> HIDE DEF a, seq
  <2>4. /\ cur' \in Data \cup {Nil} /\ target' \in Data \cup {Nil} /\ busPc' \in BusPcs
        /\ Locals'
    BY <2>2, <2>3, <1>1, NilAssumption DEF TakeResp, Locals, IInv, TypeOK, BusPcs
  <2>5. resp' \in Seq(Data) /\ Len(resp') <= MESSAGE_SIZE
    BY <1>1 DEF TakeResp
  <2> QED
    BY <2>1, <2>4, <2>5
    DEF TakeResp, IInv, TypeOK, listVars, timerVars, reqVars, connVars, history
<1> QED
  BY <1>2, <1>3, <1>4 DEF IInv

LEMMA ExpireFrontIInv ==
  ASSUME IInv, panicked = "no", ExpireFront
  PROVE  IInv' /\ \E seq \in Seqs : DelSeq(seq)
<1> DEFINE r == Head(l)
           seq == requestId[r]
<1>1. r \in Data /\ Tail(l) \in Seq(Data)
  BY HeadTailProperties DEF ExpireFront, IInv, TypeOK
<1>2. seq \in Seqs /\ DelSeq(seq)
  BY <1>1 DEF ExpireFront, IInv, SeqInv, SeqTypeOK
<1>3. SeqInv' /\ OnlyFullPanics' /\ Once'
  BY <1>2, DeleteOnce DEF ExpireFront, Goto, reqVars
<1>4. TypeOK' /\ Locals'
  <2>1. SeqTypeOK'
    BY <1>3 DEF SeqInv
  <2> QED
    BY <2>1, <1>1
    DEF ExpireFront, Goto, IInv, TypeOK, Locals, BusPcs, timerVars, reqVars, connVars, history
<1> QED
  BY <1>2, <1>3, <1>4 DEF IInv

LEMMA StutterIInv == ASSUME IInv, UNCHANGED vars PROVE IInv'
<1>1. QuietStep
  BY DEF vars, busVars, reqVars, history, QuietStep, Early
<1>2. SeqTypeOK'
  BY <1>1, QuietOnce DEF SeqInv
<1>3. TypeOK' /\ Locals'
  BY <1>2 DEF IInv, TypeOK, Locals, vars, busVars, listVars, timerVars, reqVars, connVars, history
<1> QED
  BY <1>1, <1>3, QuietOnce DEF IInv

-------------------------------------------------------------------------------
\* Every step keeps the invariant and is, for the table, a call it allows.
LEMMA LiveIInv ==
  ASSUME IInv, panicked = "no", Live
  PROVE  IInv' /\ [TableStep]_seqVars
<1>1. CASE Push
  BY <1>1, PushIInv DEF Push
<1>2. CASE Refuse
  BY <1>2, RefuseIInv DEF Refuse
<1>3. CASE Evict
  BY <1>3, EvictIInv DEF Evict
<1>4. CASE Track
  BY <1>4, TrackIInv DEF Track
<1>5. CASE Write
  BY <1>5, WriteIInv DEF Write
<1>6. CASE Reply
  BY <1>6, ReplyIInv DEF Reply
<1>7. CASE ExpireFront
  BY <1>7, ExpireFrontIInv DEF TableStep
<1>8. CASE Expire
  BY <1>8, ExpireIInv DEF Expire
<1>9. CASE KeepFront
  BY <1>9, KeepFrontIInv DEF KeepFront
<1>10. CASE EndTick
  BY <1>10, EndTickIInv DEF EndTick
<1>11. ASSUME NEW r \in Data, RequestControlInner(r) PROVE IInv' /\ [TableStep]_seqVars
  BY <1>11, RequestControlInnerIInv DEF RequestControlInner
<1>12. CASE TakeMsg
  <2>1. Head(seqMsg) \in Data /\ NewSeq(Head(seqMsg))
    BY <1>12, HeadTailProperties DEF TakeMsg, IInv, TypeOK
  <2> QED
    BY <1>12, <2>1, TakeMsgIInv DEF TableStep
<1>13. CASE TakeResp
  BY <1>13, TakeRespIInv DEF TableStep
<1>14. CASE TakeTick
  BY <1>14, TakeTickIInv DEF TakeTick
<1>15. CASE RegistDeviceInner
  BY <1>15, RegistDeviceInnerIInv DEF RegistDeviceInner
<1>16. CASE CloseInner
  BY <1>16, CloseInnerIInv DEF CloseInner
<1>17. ASSUME NEW r \in Data, RequestControl(r) PROVE IInv' /\ [TableStep]_seqVars
  BY <1>17, RequestControlIInv DEF RequestControl
<1>18. CASE Tock
  BY <1>18, TockIInv DEF Tock
<1>19. CASE TimerFires
  BY <1>19, TimerFiresIInv DEF TimerFires
<1>20. CASE Forward
  BY <1>20, ForwardIInv DEF Forward
<1>21. CASE PumpWrite
  BY <1>21, PumpWriteIInv DEF PumpWrite
<1>22. CASE PumpFails
  BY <1>22, PumpFailsIInv DEF PumpFails
<1>23. CASE ReadFails
  BY <1>23, ReadFailsIInv DEF ReadFails
<1>24. ASSUME NEW r \in Data, Answer(r) PROVE IInv' /\ [TableStep]_seqVars
  BY <1>24, AnswerIInv DEF Answer
<1> QED
  BY <1>1, <1>2, <1>3, <1>4, <1>5, <1>6, <1>7, <1>8, <1>9, <1>10, <1>11, <1>12, <1>13, <1>14, <1>15, <1>16, <1>17, <1>18, <1>19, <1>20, <1>21, <1>22, <1>23, <1>24
  DEF Live, Handler, Select, Requester, Runtime, Connection

LEMMA NextIInv == IInv /\ [Next]_vars => IInv' /\ [TableStep]_seqVars
<1>1. ASSUME UNCHANGED vars PROVE UNCHANGED seqVars
  BY <1>1 DEF vars
<1> QED
  BY <1>1, LiveIInv, StutterIInv DEF Next, Dead

\* The fields of the bus, the table and the channels keep their types, and no
\* channel grows past the capacity it was made with (NewMessageBus, bus.go:37).
THEOREM TypeCorrect == Spec => []TypeOK
<1>1. IInv => TypeOK
  BY DEF IInv
<1> QED
  BY InitIInv, NextIInv, <1>1, PTL DEF Spec

\* The bus uses the table as it may be used: it never puts in a request that is
\* there already, whatever the order of calls, answers, ticks and reconnections
\* (bus.go:150, 169, 187).
THEOREM KeepsToTable == Spec => TableSpec
<1>1. Init => SeqInit
  BY DEF Init
<1> QED
  BY <1>1, InitIInv, NextIInv, PTL DEF Spec, TableSpec

\* So the theorems about the table hold of the bus's: it stays consistent, and
\* the bus dies of no panic but that of a full table.
THEOREM TableOfBusSafe == Spec => [](SeqInv /\ OnlyFullPanics)
  BY KeepsToTable, TableSafe, PTL

-------------------------------------------------------------------------------

\* Elements of a sequence after a receive and after a send.
ElementsOf(s) == {s[i] : i \in 1 .. Len(s)}

LEMMA ElementsTail ==
  ASSUME NEW s \in Seq(Data), s # <<>>
  PROVE  /\ Head(s) \in Data /\ Tail(s) \in Seq(Data)
         /\ ElementsOf(s) = ElementsOf(Tail(s)) \cup {Head(s)}
<1>1. /\ Tail(s) \in Seq(Data) /\ Len(Tail(s)) = Len(s) - 1 /\ Head(s) = s[1]
      /\ \A i \in 1 .. Len(Tail(s)) : Tail(s)[i] = s[i + 1]
      /\ Len(s) \in Nat /\ Len(s) >= 1 /\ Head(s) \in Data
  BY HeadTailProperties
<1>2. \A i \in 1 .. Len(s) : i = 1 \/ (i - 1 \in 1 .. Len(Tail(s)) /\ s[i] = Tail(s)[i - 1])
  BY <1>1
<1>3. \A i \in 1 .. Len(Tail(s)) : i + 1 \in 1 .. Len(s) /\ Tail(s)[i] = s[i + 1]
  BY <1>1
<1>4. \A e \in ElementsOf(s) : e = Head(s) \/ e \in ElementsOf(Tail(s))
  BY <1>1, <1>2 DEF ElementsOf
<1>5. ElementsOf(Tail(s)) \subseteq ElementsOf(s)
  BY <1>3 DEF ElementsOf
<1>6. Head(s) \in ElementsOf(s)
  BY <1>1 DEF ElementsOf
<1> QED
  BY <1>1, <1>4, <1>5, <1>6

LEMMA ElementsAppend ==
  ASSUME NEW s \in Seq(Data), NEW e \in Data
  PROVE  ElementsOf(Append(s, e)) = ElementsOf(s) \cup {e}
<1>1. /\ Len(Append(s, e)) = Len(s) + 1 /\ Len(s) \in Nat
      /\ \A i \in 1 .. Len(s) : Append(s, e)[i] = s[i]
      /\ Append(s, e)[Len(s) + 1] = e
  BY AppendProperties
<1>2. 1 .. Len(s) + 1 = (1 .. Len(s)) \cup {Len(s) + 1}
  BY <1>1
<1> QED
  BY <1>1, <1>2 DEF ElementsOf

-------------------------------------------------------------------------------
(***************************************************************************)
(* A tick is always coming.                                                *)
(***************************************************************************)
LEMMA LiveTickComing ==
  ASSUME IInv, IInv', TickComing, panicked = "no", Live
  PROVE  TickComing'
<1>1. CASE Push
  BY <1>1 DEF Push, TickComing, InTick, Done, Goto, timerVars, busVars
<1>2. CASE Refuse
  BY <1>2 DEF Refuse, TickComing, InTick, Done, Goto, timerVars, busVars
<1>3. CASE Evict
  BY <1>3 DEF Evict, TickComing, InTick, Done, Goto, timerVars, busVars
<1>4. CASE Track
  <2>1. clock + expiredDuration # Off
    BY DurationAssumption DEF IInv, TypeOK, Off
  <2> QED
    BY <1>4, <2>1 DEF Track, TickComing, InTick, Goto
<1>5. CASE Write
  BY <1>5 DEF Write, TickComing, InTick, Done, Goto, timerVars, busVars
<1>6. CASE Reply
  BY <1>6 DEF Reply, TickComing, InTick, Done, Goto, timerVars, busVars
<1>7. CASE ExpireFront
  BY <1>7 DEF ExpireFront, TickComing, InTick, Done, Goto, timerVars, busVars
<1>8. CASE Expire
  BY <1>8 DEF Expire, TickComing, InTick, Done, Goto, timerVars, busVars
<1>9. CASE KeepFront
  BY <1>9 DEF KeepFront, TickComing, InTick, Done, Goto, timerVars, busVars
<1>10. CASE EndTick
  <2>1. clock + (clock + maxDuration - now) # Off
    BY DurationAssumption DEF IInv, TypeOK, Locals, Off
  <2> QED
    BY <1>10, <2>1 DEF EndTick, TickComing, InTick, Done, Goto
<1>11. ASSUME NEW r \in Data, RequestControlInner(r) PROVE TickComing'
  BY <1>11 DEF RequestControlInner, TickComing, InTick, Done, Goto, timerVars, busVars
<1>12. CASE TakeMsg
  BY <1>12 DEF TakeMsg, TickComing, InTick, Done, Goto, timerVars, busVars
<1>13. CASE TakeResp
  BY <1>13 DEF TakeResp, TickComing, InTick, Done, Goto, timerVars, busVars
<1>14. CASE TakeTick
  BY <1>14 DEF TakeTick, TickComing, InTick, Done, Goto, timerVars, busVars
<1>15. CASE RegistDeviceInner
  BY <1>15 DEF RegistDeviceInner, TickComing, InTick, Done, Goto, timerVars, busVars
<1>16. CASE CloseInner
  BY <1>16 DEF CloseInner, TickComing, InTick, Done, Goto, timerVars, busVars
<1>17. ASSUME NEW r \in Data, RequestControl(r) PROVE TickComing'
  BY <1>17 DEF RequestControl, TickComing, InTick, Done, Goto, timerVars, busVars
<1>18. CASE Tock
  BY <1>18 DEF Tock, TickComing, InTick, Done, Goto, timerVars, busVars
<1>19. CASE TimerFires
  BY <1>19 DEF TimerFires, TickComing, InTick, Done, Goto, timerVars, busVars
<1>20. CASE Forward
  BY <1>20 DEF Forward, TickComing, InTick, Done, Goto, timerVars, busVars
<1>21. CASE PumpWrite
  BY <1>21 DEF PumpWrite, TickComing, InTick, Done, Goto, timerVars, busVars
<1>22. CASE PumpFails
  BY <1>22 DEF PumpFails, TickComing, InTick, Done, Goto, timerVars, busVars
<1>23. CASE ReadFails
  BY <1>23 DEF ReadFails, TickComing, InTick, Done, Goto, timerVars, busVars
<1>24. ASSUME NEW r \in Data, Answer(r) PROVE TickComing'
  BY <1>24 DEF Answer, TickComing, InTick, Done, Goto, timerVars, busVars
<1> QED
  BY <1>1, <1>2, <1>3, <1>4, <1>5, <1>6, <1>7, <1>8, <1>9, <1>10, <1>11, <1>12, <1>13, <1>14, <1>15, <1>16, <1>17, <1>18, <1>19, <1>20, <1>21, <1>22, <1>23, <1>24
  DEF Live, Handler, Select, Requester, Runtime, Connection

\* Whatever ticks come early, late or twice, the bus is never left without one:
\* no path through the handlers ends with the timer stopped and no tick pending
\* (bus.go:159-162, 176-202).
THEOREM TickAlwaysComing == Spec => []TickComing
<1>1. Init => TickComing
  BY DurationAssumption DEF Init, TickComing, InTick, Off
<1>2. TickComing /\ UNCHANGED vars => TickComing'
  BY DEF TickComing, InTick, vars, busVars, timerVars
<1>3. IInv /\ IInv' /\ TickComing /\ [Next]_vars => TickComing'
  BY <1>2, LiveTickComing DEF Next, Dead
<1> QED
  BY <1>1, <1>3, InitIInv, NextIInv, PTL DEF Spec

-------------------------------------------------------------------------------
(***************************************************************************)
(* No waiting requester is forgotten.  The bus refuses the request it has  *)
(* in hand, which is why the refused requester may be dropped.             *)
(***************************************************************************)
RefusesCur == busPc = "refuse" => target = cur

Tracked == WaitingIsTracked /\ RefusesCur

LEMMA LiveTracked ==
  ASSUME IInv, Tracked, panicked = "no", Live
  PROVE  Tracked'
<1> DEFINE q == ElementsOf(seqMsg)
           x == ElementsOf(l)
<1>q. Queued = q /\ Listed = x /\ Queued' = q' /\ Listed' = x'
  BY DEF Queued, Listed, ElementsOf
<1>i. \A r \in Data : reqPc[r] = "waiting" => r \in q \cup InHand \cup x \cup Failing
  BY <1>q DEF Tracked, WaitingIsTracked
<1>t. /\ reqPc \in [Data -> {"idle", "calling", "waiting", "done"}]
      /\ seqMsg \in Seq(Data) /\ l \in Seq(Data) /\ RefusesCur /\ Locals
  BY DEF IInv, TypeOK, Tracked
<1> SUFFICES /\ \A r \in Data : reqPc'[r] = "waiting" => r \in q' \cup InHand' \cup x' \cup Failing'
             /\ RefusesCur'
  BY <1>q DEF Tracked, WaitingIsTracked
<1> HIDE DEF q, x
<1>e. /\ UNCHANGED seqMsg => q' = q
      /\ UNCHANGED l => x' = x
  BY DEF q, x, ElementsOf
<1>1. CASE Push
  <2>1. q' = q \cup {cur}
    BY <1>1, <1>t, ElementsAppend DEF Push, q, Locals
  <2> QED
    BY <1>1, <1>i, <1>e, <1>t, <2>1
    DEF Push, InHand, Failing, RefusesCur, Done, Goto, listVars, reqVars
<1>2. CASE Refuse
  BY <1>2, <1>i, <1>e, <1>t DEF Refuse, InHand, Failing, RefusesCur, Hand, Done, Goto, busVars, listVars, reqVars
<1>3. CASE Evict
  BY <1>3, <1>i, <1>e, <1>t DEF Evict, InHand, Failing, RefusesCur, Hand, Done, Goto, busVars, listVars, reqVars
<1>4. CASE Track
  <2>1. x' = x \cup {cur}
    BY <1>4, <1>t, ElementsAppend DEF Track, x, Locals
  <2> QED
    BY <1>4, <1>i, <1>e, <1>t, <2>1
    DEF Track, InHand, Failing, RefusesCur, Goto, reqVars
<1>5. CASE Write
  BY <1>5, <1>i, <1>e, <1>t DEF Write, InHand, Failing, RefusesCur, Hand, Done, Goto, busVars, listVars, reqVars
<1>6. CASE Reply
  BY <1>6, <1>i, <1>e, <1>t DEF Reply, InHand, Failing, RefusesCur, Hand, Done, Goto, busVars, listVars, reqVars
<1>7. CASE ExpireFront
  <2>1. x = x' \cup {target'}
    BY <1>7, <1>t, ElementsTail DEF ExpireFront, x
  <2> QED
    BY <1>7, <1>i, <1>e, <1>t, <2>1
    DEF ExpireFront, InHand, Failing, RefusesCur, Goto, reqVars
<1>8. CASE Expire
  BY <1>8, <1>i, <1>e, <1>t DEF Expire, InHand, Failing, RefusesCur, Hand, Done, Goto, busVars, listVars, reqVars
<1>9. CASE KeepFront
  BY <1>9, <1>i, <1>e, <1>t DEF KeepFront, InHand, Failing, RefusesCur, Hand, Done, Goto, busVars, listVars, reqVars
<1>10. CASE EndTick
  BY <1>10, <1>i, <1>e, <1>t DEF EndTick, InHand, Failing, RefusesCur, Hand, Done, Goto, busVars, listVars, reqVars
<1>11. ASSUME NEW r \in Data, RequestControlInner(r) PROVE (\A s \in Data : reqPc'[s] = "waiting" => s \in q' \cup InHand' \cup x' \cup Failing') /\ RefusesCur'
  BY <1>11, <1>i, <1>e, <1>t DEF RequestControlInner, InHand, Failing, RefusesCur, Hand, Done, Goto, busVars, listVars, reqVars
<1>12. CASE TakeMsg
  <2>1. q = q' \cup {cur'}
    BY <1>12, <1>t, ElementsTail DEF TakeMsg, q
  <2> QED
    BY <1>12, <1>i, <1>e, <1>t, <2>1
    DEF TakeMsg, InHand, Failing, RefusesCur, Goto, listVars, reqVars
<1>13. CASE TakeResp
  BY <1>13, <1>i, <1>e, <1>t DEF TakeResp, InHand, Failing, RefusesCur, Hand, Done, Goto, busVars, listVars, reqVars
<1>14. CASE TakeTick
  BY <1>14, <1>i, <1>e, <1>t DEF TakeTick, InHand, Failing, RefusesCur, Hand, Done, Goto, busVars, listVars, reqVars
<1>15. CASE RegistDeviceInner
  BY <1>15, <1>i, <1>e, <1>t DEF RegistDeviceInner, InHand, Failing, RefusesCur, Hand, Done, Goto, busVars, listVars, reqVars
<1>16. CASE CloseInner
  BY <1>16, <1>i, <1>e, <1>t DEF CloseInner, InHand, Failing, RefusesCur, Hand, Done, Goto, busVars, listVars, reqVars
<1>17. ASSUME NEW r \in Data, RequestControl(r) PROVE (\A s \in Data : reqPc'[s] = "waiting" => s \in q' \cup InHand' \cup x' \cup Failing') /\ RefusesCur'
  BY <1>17, <1>i, <1>e, <1>t DEF RequestControl, InHand, Failing, RefusesCur, Hand, Done, Goto, busVars, listVars, reqVars
<1>18. CASE Tock
  BY <1>18, <1>i, <1>e, <1>t DEF Tock, InHand, Failing, RefusesCur, Hand, Done, Goto, busVars, listVars, reqVars
<1>19. CASE TimerFires
  BY <1>19, <1>i, <1>e, <1>t DEF TimerFires, InHand, Failing, RefusesCur, Hand, Done, Goto, busVars, listVars, reqVars
<1>20. CASE Forward
  BY <1>20, <1>i, <1>e, <1>t DEF Forward, InHand, Failing, RefusesCur, Hand, Done, Goto, busVars, listVars, reqVars
<1>21. CASE PumpWrite
  BY <1>21, <1>i, <1>e, <1>t DEF PumpWrite, InHand, Failing, RefusesCur, Hand, Done, Goto, busVars, listVars, reqVars
<1>22. CASE PumpFails
  BY <1>22, <1>i, <1>e, <1>t DEF PumpFails, InHand, Failing, RefusesCur, Hand, Done, Goto, busVars, listVars, reqVars
<1>23. CASE ReadFails
  BY <1>23, <1>i, <1>e, <1>t DEF ReadFails, InHand, Failing, RefusesCur, Hand, Done, Goto, busVars, listVars, reqVars
<1>24. ASSUME NEW r \in Data, Answer(r) PROVE (\A s \in Data : reqPc'[s] = "waiting" => s \in q' \cup InHand' \cup x' \cup Failing') /\ RefusesCur'
  BY <1>24, <1>i, <1>e, <1>t DEF Answer, InHand, Failing, RefusesCur, Hand, Done, Goto, busVars, listVars, reqVars
<1> QED
  BY <1>1, <1>2, <1>3, <1>4, <1>5, <1>6, <1>7, <1>8, <1>9, <1>10, <1>11, <1>12, <1>13, <1>14, <1>15, <1>16, <1>17, <1>18, <1>19, <1>20, <1>21, <1>22, <1>23, <1>24
  DEF Live, Handler, Select, Requester, Runtime, Connection

\* Whatever is answered, refused, evicted, timed out or disconnected, a requester
\* that waits is in seqMsg, in the bus's hand or in the expired list
\* (bus.go:69-84, 149-196).
THEOREM NobodyForgotten == Spec => []WaitingIsTracked
<1>1. Init => Tracked
  BY DEF Init, Tracked, WaitingIsTracked, RefusesCur
<1>2. Tracked /\ UNCHANGED vars => Tracked'
  BY DEF Tracked, WaitingIsTracked, RefusesCur, Queued, Listed, InHand, Failing, vars,
         busVars, listVars, reqVars
<1>3. IInv /\ Tracked /\ [Next]_vars => Tracked'
  BY <1>2, LiveTracked DEF Next, Dead
<1>4. Tracked => WaitingIsTracked
  BY DEF Tracked
<1> QED
  BY <1>1, <1>3, <1>4, InitIInv, NextIInv, PTL DEF Spec

-------------------------------------------------------------------------------
(***************************************************************************)
(* What has expired is found in time.  The list is in order because every  *)
(* request is put at its end with the latest expiry, which needs that a    *)
(* listed request is never handled again.  Outside the handler of a tick   *)
(* nextTick is not after the front, and the timer not after nextTick but   *)
(* for the slowness of the last tick.                                      *)
(***************************************************************************)
Unlisted(r) == \A i \in 1 .. Len(l) : l[i] # r

Ordered ==
    /\ ListSorted
    /\ \A i \in 1 .. Len(l) : expired[l[i]] <= clock + expiredDuration

Numbered ==
    /\ \A i \in 1 .. Len(l) : issueNo[l[i]] > 0
    /\ busPc \in {"evict", "track"} => Unlisted(cur) /\ issueNo[cur] > 0

Aimed ==
    /\ ~ InTick /\ l # <<>> => nextTick <= expired[Head(l)]
    /\ ~ InTick /\ timerAt # Off => timerAt <= nextTick + slow
    /\ InTick => slow = clock - now

EInv == IInv /\ TickComing /\ Ordered /\ Numbered /\ Aimed

LEMMA EInvInTime == EInv => ExpiryInTime
<1> SUFFICES ASSUME EInv PROVE ExpiryInTime
  OBVIOUS
<1>1. ASSUME ~ InTick, l # <<>>, timerAt # Off
      PROVE  timerAt <= expired[Head(l)] + slow
  <2>1. /\ timerAt \in Nat /\ nextTick \in Nat /\ slow \in Nat /\ expired[Head(l)] \in Nat
    <3>1. Head(l) \in Data
      BY <1>1, HeadTailProperties DEF EInv, IInv, TypeOK
    <3> QED
      BY <1>1, <3>1 DEF EInv, IInv, TypeOK
  <2>2. nextTick <= expired[Head(l)] /\ timerAt <= nextTick + slow
    BY <1>1 DEF EInv, Aimed
  <2> QED
    BY <2>1, <2>2
<1> QED
  BY <1>1 DEF EInv, Ordered, TickComing, TickInTime, ExpiryInTime

\* Steps that leave the list and the clock alone, and the timer unless they are
\* inside the handler of a tick.
Steady ==
    /\ UNCHANGED <<l, expired, clock, slow, issueNo>>
    /\ InTick' <=> InTick
    /\ ~ InTick' => nextTick' = nextTick /\ timerAt' \in {timerAt, Off}
    /\ InTick' => now' = now
    /\ busPc' \in {"evict", "track"} => busPc \in {"evict", "track"} /\ cur' = cur

LEMMA SteadyKeeps ==
  ASSUME EInv, Steady
  PROVE  Ordered' /\ Numbered' /\ Aimed'
<1>1. Ordered'
  BY DEF EInv, Ordered, ListSorted, Steady
<1>2. Numbered'
  BY DEF EInv, Numbered, Unlisted, Steady
<1>3. Aimed'
  BY DEF EInv, Aimed, Steady
<1> QED
  BY <1>1, <1>2, <1>3

\* The new request goes to the end, with the latest expiry of all.
LEMMA TrackInTime ==
  ASSUME EInv, Track
  PROVE  Ordered' /\ Numbered' /\ Aimed'
<1>1. /\ busPc = "track" /\ cur \in Data /\ l \in Seq(Data) /\ clock \in Nat /\ slow \in Nat
      /\ nextTick \in Nat /\ timerAt \in Nat \cup {Off} /\ expiredDuration \in Nat
      /\ expired \in [Data -> Nat]
  BY DurationAssumption DEF Track, EInv, IInv, TypeOK, Locals
<1>2. /\ l' = Append(l, cur) /\ clock' = clock /\ slow' = slow /\ issueNo' = issueNo
      /\ expired' = [expired EXCEPT ![cur] = clock + expiredDuration]
      /\ busPc' = "write"
  BY DEF Track, Goto, history
<1>3. /\ Len(l') = Len(l) + 1 /\ Len(l) \in Nat
      /\ \A i \in 1 .. Len(l) : l'[i] = l[i] /\ l[i] \in Data
      /\ l'[Len(l) + 1] = cur
  BY <1>1, <1>2, AppendProperties
<1>4. Unlisted(cur) /\ issueNo[cur] > 0
  BY <1>1 DEF EInv, Numbered
<1>5. \A i \in 1 .. Len(l) : expired'[l'[i]] = expired[l[i]] /\ expired[l[i]] \in Nat
  BY <1>1, <1>2, <1>3, <1>4 DEF Unlisted
<1>6. expired'[l'[Len(l) + 1]] = clock + expiredDuration
  BY <1>1, <1>2, <1>3
<1>7. \A i \in 1 .. Len(l') : i \in 1 .. Len(l) \/ i = Len(l) + 1
  BY <1>3
<1>8. \A i \in 1 .. Len(l) : expired[l[i]] <= clock + expiredDuration
  BY DEF EInv, Ordered
<1>9. Ordered'
  <2>1. ASSUME NEW i \in 1 .. Len(l'), NEW j \in 1 .. Len(l'), i < j
        PROVE  expired'[l'[i]] <= expired'[l'[j]]
    <3>1. i \in 1 .. Len(l)
      BY <1>3, <2>1
    <3>2. CASE j \in 1 .. Len(l)
      BY <1>5, <2>1, <3>1, <3>2 DEF EInv, Ordered, ListSorted
    <3>3. CASE j = Len(l) + 1
      BY <1>5, <1>6, <1>8, <3>1, <3>3
    <3> QED
      BY <1>7, <3>2, <3>3
  <2>2. \A i \in 1 .. Len(l') : expired'[l'[i]] <= clock + expiredDuration
    BY <1>1, <1>5, <1>6, <1>7, <1>8
  <2> QED
    BY <1>2, <2>1, <2>2 DEF Ordered, ListSorted
<1>10. Numbered'
  BY <1>2, <1>3, <1>4, <1>7 DEF EInv, Numbered
<1>11. ~ InTick /\ ~ InTick'
  BY <1>1, <1>2 DEF InTick
<1>12. CASE l = <<>>
  <2>1. expired'[Head(l')] = clock + expiredDuration
    BY <1>1, <1>2, <1>12
  <2> QED
    BY <1>1, <1>2, <1>9, <1>10, <1>11, <1>12, <2>1 DEF Track, EInv, Aimed
<1>13. CASE l # <<>>
  <2>1. Len(l) >= 1 /\ Head(l) = l[1] /\ Head(l') = l'[1]
    BY <1>1, <1>2, <1>13
  <2>2. expired'[Head(l')] = expired[Head(l)] /\ expired[Head(l)] <= clock + expiredDuration
        /\ expired[Head(l)] \in Nat
    BY <1>3, <1>5, <1>8, <2>1
  <2>3. nextTick <= expired[Head(l)]
    BY <1>11, <1>13 DEF EInv, Aimed
  <2>4. nextTick' = nextTick /\ timerAt' = timerAt
    BY <1>1, <2>2, <2>3 DEF Track
  <2> QED
    BY <1>2, <1>9, <1>10, <1>11, <2>2, <2>3, <2>4 DEF EInv, Aimed
<1> QED
  BY <1>12, <1>13

\* A request is taken from seqMsg that has no number yet, so it is not listed.
LEMMA TakeMsgInTime ==
  ASSUME EInv, TakeMsg
  PROVE  Ordered' /\ Numbered' /\ Aimed'
<1>1. /\ busPc = "select" /\ seqMsg # <<>> /\ seqMsg \in Seq(Data) /\ issued \in Nat
      /\ issueNo \in [Data -> Nat] /\ l \in Seq(Data)
  BY DEF TakeMsg, EInv, IInv, TypeOK
<1>2. /\ UNCHANGED <<l, expired, nextTick, timerAt, clock, slow>>
      /\ cur' = Head(seqMsg) /\ busPc' \in {"evict", "track"}
      /\ issueNo' = [issueNo EXCEPT ![Head(seqMsg)] = issued + 1]
  BY DEF TakeMsg, Goto, listVars, timerVars
<1>3. Head(seqMsg) \in Data /\ Head(seqMsg) = seqMsg[1] /\ 1 \in 1 .. Len(seqMsg)
  BY <1>1
<1>4. issueNo[Head(seqMsg)] = 0
  BY <1>3 DEF EInv, IInv, Once
<1>5. Unlisted(Head(seqMsg))
  BY <1>4 DEF EInv, Numbered, Unlisted
<1>6. Numbered'
  <2>1. issueNo'[cur'] > 0
    BY <1>1, <1>2, <1>3
  <2>2. ASSUME NEW i \in 1 .. Len(l)
        PROVE  issueNo'[l[i]] > 0
    BY <1>1, <1>2, <1>5 DEF EInv, Numbered, Unlisted
  <2> QED
    BY <1>2, <1>5, <2>1, <2>2 DEF Numbered, Unlisted
<1>7. Ordered'
  BY <1>2 DEF EInv, Ordered, ListSorted
<1>8. Aimed'
  BY <1>1, <1>2 DEF EInv, Aimed, InTick
<1> QED
  BY <1>6, <1>7, <1>8

LEMMA ExpireFrontInTime ==
  ASSUME EInv, ExpireFront
  PROVE  Ordered' /\ Numbered' /\ Aimed'
<1>1. /\ l' = Tail(l) /\ l # <<>> /\ busPc = "tick" /\ busPc' = "expire" /\ l \in Seq(Data)
      /\ UNCHANGED <<expired, clock, slow, now, issueNo>>
  BY DEF ExpireFront, Goto, history, EInv, IInv, TypeOK
<1>2. /\ Len(l) \in Nat /\ Len(l') = Len(l) - 1
      /\ \A i \in 1 .. Len(l') : i + 1 \in 1 .. Len(l) /\ l'[i] = l[i + 1]
  BY <1>1
<1>3. Ordered'
  <2>1. ASSUME NEW i \in 1 .. Len(l'), NEW j \in 1 .. Len(l'), i < j
        PROVE  expired[l'[i]] <= expired[l'[j]]
    BY <1>2, <2>1 DEF EInv, Ordered, ListSorted
  <2> QED
    BY <1>1, <1>2, <2>1 DEF EInv, Ordered, ListSorted
<1>4. Numbered'
  BY <1>1, <1>2 DEF EInv, Numbered
<1>5. Aimed'
  BY <1>1 DEF EInv, Aimed, InTick
<1> QED
  BY <1>3, <1>4, <1>5

LEMMA TakeTickInTime ==
  ASSUME EInv, TakeTick
  PROVE  Ordered' /\ Numbered' /\ Aimed'
<1>1. /\ UNCHANGED <<l, expired, clock, issueNo>> /\ busPc' = "tick" /\ now' = clock /\ slow' = 0
      /\ clock \in Nat
  BY DEF TakeTick, Goto, listVars, EInv, IInv, TypeOK
<1> QED
  BY <1>1 DEF EInv, Ordered, ListSorted, Numbered, Aimed, InTick

\* The handler of a tick ends with an empty list only.
LEMMA EndTickInTime ==
  ASSUME EInv, EndTick
  PROVE  Ordered' /\ Numbered' /\ Aimed'
<1>1. /\ UNCHANGED <<l, expired, clock, slow, issueNo>> /\ busPc' = "select" /\ l = <<>>
      /\ nextTick' = clock + maxDuration /\ timerAt' = clock + (clock + maxDuration - now)
      /\ busPc = "tick"
  BY DEF EndTick, Done, Goto, listVars, history
<1>2. slow = clock - now
  BY <1>1 DEF EInv, Aimed, InTick
<1>3. clock \in Nat /\ now \in Nat /\ maxDuration \in Nat
  BY DurationAssumption DEF EInv, IInv, TypeOK
<1> QED
  BY <1>1, <1>2, <1>3 DEF EInv, Ordered, ListSorted, Numbered, Aimed, InTick

LEMMA TockInTime ==
  ASSUME EInv, Tock
  PROVE  Ordered' /\ Numbered' /\ Aimed'
<1>1. /\ UNCHANGED <<l, expired, busPc, cur, now, nextTick, timerAt, issueNo>>
      /\ clock' = clock + 1 /\ slow' = IF InTick THEN slow + 1 ELSE slow
  BY DEF Tock, listVars, busVars, timerVars
<1>2. clock \in Nat /\ slow \in Nat /\ now \in Nat /\ expiredDuration \in Nat
  BY DurationAssumption DEF EInv, IInv, TypeOK
<1>3. \A i \in 1 .. Len(l) : expired[l[i]] \in Nat
  BY DEF EInv, IInv, TypeOK
<1>4. Ordered'
  BY <1>1, <1>2, <1>3 DEF EInv, Ordered, ListSorted
<1>5. Numbered'
  BY <1>1 DEF EInv, Numbered, Unlisted
<1>6. Aimed'
  BY <1>1, <1>2 DEF EInv, Aimed, InTick
<1> QED
  BY <1>4, <1>5, <1>6

LEMMA LiveInTime ==
  ASSUME EInv, panicked = "no", Live
  PROVE  Ordered' /\ Numbered' /\ Aimed'
<1> USE DEF Steady, InTick
<1>1. CASE Push
  BY <1>1, SteadyKeeps DEF Push, Done, Goto, busVars, listVars, timerVars, history
<1>2. CASE Refuse
  BY <1>2, SteadyKeeps DEF Refuse, Done, Goto, busVars, listVars, timerVars, history
<1>3. CASE Evict
  BY <1>3, SteadyKeeps DEF Evict, Done, Goto, busVars, listVars, timerVars, history
<1>4. CASE Write
  BY <1>4, SteadyKeeps DEF Write, Done, Goto, busVars, listVars, timerVars, history
<1>5. CASE Reply
  BY <1>5, SteadyKeeps DEF Reply, Done, Goto, busVars, listVars, timerVars, history
<1>6. CASE Expire
  BY <1>6, SteadyKeeps DEF Expire, Done, Goto, busVars, listVars, timerVars, history
<1>7. CASE KeepFront
  BY <1>7, SteadyKeeps DEF KeepFront, Done, Goto, busVars, listVars, timerVars, history
<1>8. CASE TakeResp
  BY <1>8, SteadyKeeps DEF TakeResp, Done, Goto, busVars, listVars, timerVars, history
<1>9. CASE RegistDeviceInner
  BY <1>9, SteadyKeeps DEF RegistDeviceInner, Done, Goto, busVars, listVars, timerVars, history
<1>10. CASE CloseInner
  BY <1>10, SteadyKeeps DEF CloseInner, Done, Goto, busVars, listVars, timerVars, history
<1>11. CASE TimerFires
  BY <1>11, SteadyKeeps DEF TimerFires, Done, Goto, busVars, listVars, timerVars, history
<1>12. CASE Forward
  BY <1>12, SteadyKeeps DEF Forward, Done, Goto, busVars, listVars, timerVars, history
<1>13. CASE PumpWrite
  BY <1>13, SteadyKeeps DEF PumpWrite, Done, Goto, busVars, listVars, timerVars, history
<1>14. CASE PumpFails
  BY <1>14, SteadyKeeps DEF PumpFails, Done, Goto, busVars, listVars, timerVars, history
<1>15. CASE ReadFails
  BY <1>15, SteadyKeeps DEF ReadFails, Done, Goto, busVars, listVars, timerVars, history
<1>16. ASSUME NEW r \in Data, RequestControlInner(r) PROVE Ordered' /\ Numbered' /\ Aimed'
  BY <1>16, SteadyKeeps DEF RequestControlInner, Done, Goto, busVars, listVars, timerVars, history
<1>17. ASSUME NEW r \in Data, RequestControl(r) PROVE Ordered' /\ Numbered' /\ Aimed'
  BY <1>17, SteadyKeeps DEF RequestControl, Done, Goto, busVars, listVars, timerVars, history
<1>18. ASSUME NEW r \in Data, Answer(r) PROVE Ordered' /\ Numbered' /\ Aimed'
  BY <1>18, SteadyKeeps DEF Answer, Done, Goto, busVars, listVars, timerVars, history
<1> QED
  BY <1>1, <1>2, <1>3, <1>4, <1>5, <1>6, <1>7, <1>8, <1>9, <1>10, <1>11, <1>12, <1>13, <1>14, <1>15, <1>16, <1>17, <1>18,
     TrackInTime, TakeMsgInTime, ExpireFrontInTime, TakeTickInTime, EndTickInTime, TockInTime
  DEF Live, Handler, Select, Requester, Runtime, Connection

LEMMA InitEInv == Init => EInv
<1> SUFFICES ASSUME Init PROVE EInv
  OBVIOUS
<1>1. TickComing /\ Aimed
  BY DurationAssumption DEF Init, TickComing, Aimed, InTick, Off
<1>2. Ordered /\ Numbered
  BY DEF Init, Ordered, ListSorted, Numbered
<1> QED
  BY <1>1, <1>2, InitIInv DEF EInv

LEMMA NextEInv == EInv /\ IInv' /\ [Next]_vars => EInv'
<1>1. ASSUME EInv, UNCHANGED vars
      PROVE  Ordered' /\ Numbered' /\ Aimed' /\ TickComing'
  <2>1. Steady /\ UNCHANGED <<timerAt, timerC, fwd, busPc>>
    BY <1>1 DEF vars, busVars, listVars, timerVars, history, Steady, InTick
  <2> QED
    BY <1>1, <2>1, SteadyKeeps DEF EInv, TickComing, InTick
<1> QED
  BY <1>1, LiveInTime, LiveTickComing DEF EInv, Next, Dead

\* However requests, evictions and late, early and superfluous ticks follow each
\* other, the front of the expired list is looked at in time: the list is in the
\* order of expiry, a tick is always coming, and it comes after the front expires by
\* no more than the handler of the last tick took (bus.go:155-202).
THEOREM ExpiredFoundInTime == Spec => []ExpiryInTime
  BY EInvInTime, InitEInv, NextEInv, InitIInv, NextIInv, PTL DEF Spec

-------------------------------------------------------------------------------

\* How many requests were numbered after r.
Age(r) == issued - issueNo[r]

\* The requests of the last lap of the ring carry the numbers behind curr_seq.
LastLap ==
    \A r \in Data : issueNo[r] > 0 =>
        /\ Age(r) >= 0
        /\ Age(r) < MaxSize =>
              requestId[r] \in {curr_seq - 1 - Age(r), curr_seq - 1 - Age(r) + MaxSize}

LapApart(r, s) ==
    \/ issueNo[r] - issueNo[s] >= MaxSize
    \/ issueNo[s] - issueNo[r] >= MaxSize

\* Two requests with one number are a lap of the ring apart.
SharedApart ==
    \A r, s \in Data : r # s /\ issueNo[r] > 0 /\ issueNo[s] > 0 /\ requestId[r] = requestId[s]
        => LapApart(r, s)

\* Whatever travels to the device and back has a number, and so has the request the
\* bus is tracking or answering.
Travelling == ElementsOf(writeMsg) \cup atDevice \cup ElementsOf(resp)

Sent ==
    /\ \A r \in Travelling : issueNo[r] > 0
    /\ busPc \in {"evict", "track", "write", "reply"} => issueNo[cur] > 0

\* The requester the bus is answering was found by the number of the answer, and
\* every answer handed over was.
Found ==
    busPc = "reply" => issueNo[target] > 0 /\ requestId[target] = requestId[cur]

Handed ==
    \A r \in Data : got[r] \in Data =>
        /\ issueNo[r] > 0 /\ issueNo[got[r]] > 0
        /\ got[r] # r => LapApart(r, got[r])

AInv == IInv /\ (panicked = "no" => LastLap /\ SharedApart /\ Sent /\ Found) /\ Handed

-------------------------------------------------------------------------------
(***************************************************************************)
(* Steps that number no request, begin no answer and hand none over.       *)
(***************************************************************************)
InService == busPc \in {"evict", "track", "write", "reply"}

Still ==
    /\ UNCHANGED <<curr_seq, requestId, issued, issueNo>>
    /\ Travelling' \subseteq Travelling \cup (IF busPc = "write" THEN {cur} ELSE {})
    /\ InService' => InService /\ cur' = cur
    /\ busPc' = "reply" => busPc = "reply" /\ target' = target
    /\ \A r \in Data : got'[r] = got[r] \/ got'[r] \notin Data

LEMMA NumbersStay ==
  ASSUME LastLap, SharedApart, UNCHANGED <<curr_seq, requestId, issued, issueNo>>
  PROVE  LastLap' /\ SharedApart'
<1>1. LastLap'
  BY DEF LastLap, Age
<1>2. SharedApart'
  BY DEF SharedApart, LapApart
<1> QED
  BY <1>1, <1>2

LEMMA StillAnswers ==
  ASSUME AInv, panicked = "no", Still
  PROVE  LastLap' /\ SharedApart' /\ Sent' /\ Found' /\ Handed'
<1>1. LastLap' /\ SharedApart'
  BY NumbersStay DEF AInv, Still
<1>2. Sent'
  <2>1. Sent
    BY DEF AInv
  <2>2. \A r \in Travelling' : issueNo'[r] > 0
    BY <2>1 DEF Still, Sent
  <2>3. busPc' \in {"evict", "track", "write", "reply"} => issueNo'[cur'] > 0
    BY <2>1 DEF Still, Sent, InService
  <2> QED
    BY <2>2, <2>3 DEF Sent
<1>3. Found'
  BY DEF AInv, Still, Found, InService
<1>4. Handed'
  BY DEF AInv, Still, Handed, LapApart
<1> QED
  BY <1>1, <1>2, <1>3, <1>4

\* A deletion, whether it finds the number or not, numbers no request.
LEMMA DelSeqKeepsNumbers == ASSUME NEW seq, DelSeq(seq) PROVE UNCHANGED <<curr_seq, requestId>>
  BY DEF DelSeq, seqVars

-------------------------------------------------------------------------------
(***************************************************************************)
(* The step that numbers a request, the one that finds the request of an   *)
(* answer, and the one that hands the answer over.                         *)
(***************************************************************************)
\* NewSeq either panics, and numbers nothing, or hands out the number after curr_seq.
LEMMA NewSeqNumbers ==
  ASSUME NEW h, SeqInv, NewSeq(h), panicked' = "no"
  PROVE  /\ requestId' = [requestId EXCEPT ![h] = NextSeq]
         /\ curr_seq' = NextSeq + 1
         /\ NextSeq = IF curr_seq = MaxSize THEN 0 ELSE curr_seq
<1>1. NewSeqFault = "no"
  BY DEF NewSeq
<1>2. NextSeq = IF curr_seq = MaxSize THEN 0 ELSE curr_seq
  BY Sizes DEF NextSeq, SEQ_START
<1> QED
  BY <1>1, <1>2 DEF NewSeq

LEMMA TakeMsgAnswers ==
  ASSUME AInv, panicked = "no", TakeMsg
  PROVE  Handed' /\ (panicked' = "no" => LastLap' /\ SharedApart' /\ Sent' /\ Found')
<1> DEFINE h == Head(seqMsg)
<1>1. /\ NewSeq(h) /\ issued' = issued + 1 /\ issueNo' = [issueNo EXCEPT ![h] = issued + 1]
      /\ cur' = h /\ busPc' \in {"evict", "track"}
      /\ got' = got /\ writeMsg' = writeMsg /\ atDevice' = atDevice /\ resp' = resp
  BY DEF TakeMsg, Goto, reqVars, connVars
<1>2. h \in Data /\ h = seqMsg[1] /\ 1 \in 1 .. Len(seqMsg)
  BY HeadTailProperties DEF TakeMsg, AInv, IInv, TypeOK
<1>3. issueNo[h] = 0
  BY <1>2 DEF AInv, IInv, Once
<1>4. /\ issued \in Nat /\ issueNo \in [Data -> Nat] /\ MaxSize \in Nat /\ MaxSize >= 1
      /\ curr_seq \in 1 .. MaxSize /\ requestId \in [Data -> Seqs] /\ Seqs = 0 .. MaxSize - 1
  <2>1. MaxSize \in Nat /\ MaxSize >= 1 /\ Seqs = 0 .. MaxSize - 1
    BY Sizes DEF AInv, IInv, Seqs, SEQ_START
  <2>2. issued \in Nat /\ issueNo \in [Data -> Nat] /\ SeqTypeOK
    BY DEF AInv, IInv, TypeOK
  <2> QED
    BY <2>1, <2>2 DEF SeqTypeOK
<1> HIDE DEF h
<1>5. /\ \A r \in Data : r # h => issueNo'[r] = issueNo[r]
      /\ issueNo'[h] = issued + 1
  BY <1>1, <1>2, <1>4
<1>6. Handed'
  BY <1>1, <1>2, <1>3, <1>4, <1>5 DEF AInv, Handed, LapApart
<1>7. ASSUME panicked' = "no"
      PROVE  LastLap' /\ SharedApart' /\ Sent' /\ Found'
  <2>1. /\ requestId' = [requestId EXCEPT ![h] = NextSeq]
        /\ curr_seq' = NextSeq + 1
        /\ NextSeq = IF curr_seq = MaxSize THEN 0 ELSE curr_seq
    BY <1>1, <1>7, NewSeqNumbers DEF AInv, IInv
  <2>2. requestId'[h] = NextSeq /\ \A r \in Data : r # h => requestId'[r] = requestId[r]
    BY <1>2, <1>4, <2>1
  <2>3. LastLap'
    <3> SUFFICES ASSUME NEW r \in Data, issueNo'[r] > 0
                 PROVE  /\ Age(r)' >= 0
                        /\ Age(r)' < MaxSize =>
                             requestId'[r] \in {curr_seq' - 1 - Age(r)', curr_seq' - 1 - Age(r)' + MaxSize}
      BY DEF LastLap
    <3>1. CASE r = h
      BY <1>1, <1>4, <1>5, <2>1, <2>2, <3>1 DEF Age
    <3>2. CASE r # h
      <4>1. /\ issueNo'[r] = issueNo[r] /\ requestId'[r] = requestId[r]
            /\ issueNo[r] \in Nat /\ requestId[r] \in 0 .. MaxSize - 1
        BY <1>4, <1>5, <2>2, <3>2
      <4>2. Age(r)' = Age(r) + 1 /\ Age(r) \in Int
        BY <1>1, <1>4, <4>1 DEF Age
      <4>3. /\ Age(r) >= 0
            /\ Age(r) < MaxSize =>
                 requestId[r] \in {curr_seq - 1 - Age(r), curr_seq - 1 - Age(r) + MaxSize}
        BY <4>1 DEF AInv, LastLap
      <4> QED
        BY <1>4, <2>1, <4>1, <4>2, <4>3
    <3> QED
      BY <3>1, <3>2
  <2>4. \A s \in Data : s # h /\ issueNo[s] > 0 /\ requestId[s] = NextSeq 
           => issueNo'[h] - issueNo'[s] >= MaxSize
    <3> SUFFICES ASSUME NEW s \in Data, s # h, issueNo[s] > 0, requestId[s] = NextSeq
                 PROVE  issueNo'[h] - issueNo'[s] >= MaxSize
      OBVIOUS
    <3>1. issueNo'[s] = issueNo[s] /\ requestId'[s] = requestId[s] /\ issueNo[s] \in Nat
      BY <1>4, <1>5, <2>2
    <3>2. Age(s)' = issueNo'[h] - issueNo'[s] /\ Age(s)' \in Int
      BY <1>1, <1>4, <1>5, <3>1 DEF Age
    <3>3. Age(s) >= 0 /\ Age(s)' = Age(s) + 1
      BY <1>1, <1>4, <3>1 DEF AInv, LastLap, Age
    <3>4. Age(s)' < MaxSize =>
            requestId'[s] \in {curr_seq' - 1 - Age(s)', curr_seq' - 1 - Age(s)' + MaxSize}
      BY <2>3, <3>1 DEF LastLap
    <3> QED
      BY <1>4, <2>1, <3>1, <3>2, <3>3, <3>4 DEF Age
  <2>5. SharedApart'
    <3> SUFFICES ASSUME NEW r \in Data, NEW s \in Data, r # s, issueNo'[r] > 0, issueNo'[s] > 0,
                        requestId'[r] = requestId'[s]
                 PROVE  LapApart(r, s)'
      BY DEF SharedApart
    <3>1. CASE r = h
      BY <1>5, <2>2, <2>4, <3>1 DEF LapApart
    <3>2. CASE s = h
      BY <1>5, <2>2, <2>4, <3>2 DEF LapApart
    <3>3. CASE r # h /\ s # h
      BY <1>5, <2>2, <3>3 DEF AInv, SharedApart, LapApart
    <3> QED
      BY <3>1, <3>2, <3>3
  <2>6. Sent'
    <3>1. Travelling' = Travelling
      BY <1>1 DEF Travelling
    <3>2. Travelling \subseteq Data
      <4>1. writeMsg \in Seq(Data) /\ resp \in Seq(Data) /\ atDevice \subseteq Data
        BY DEF AInv, IInv, TypeOK
      <4> QED
        BY <4>1 DEF Travelling, ElementsOf
    <3> QED
      BY <1>1, <1>2, <1>3, <1>4, <1>5, <3>1, <3>2 DEF AInv, Sent
  <2> QED
    BY <1>1, <2>3, <2>5, <2>6 DEF Found
<1> QED
  BY <1>6, <1>7

LEMMA TakeRespAnswers ==
  ASSUME AInv, panicked = "no", TakeResp
  PROVE  LastLap' /\ SharedApart' /\ Sent' /\ Found' /\ Handed'
<1> DEFINE a == Head(resp)
           data == GetData(requestId[a])
<1>1. /\ DelSeq(requestId[a]) /\ resp' = Tail(resp) /\ resp \in Seq(Data) /\ resp # <<>>
      /\ writeMsg' = writeMsg /\ atDevice' = atDevice /\ got' = got
      /\ UNCHANGED <<issued, issueNo>> /\ busPc = "select"
      /\ IF data # Nil THEN busPc' = "reply" /\ cur' = a /\ target' = data
                       ELSE busPc' = busPc
  BY DEF TakeResp, Goto, reqVars, connVars, history, AInv, IInv, TypeOK
<1>2. UNCHANGED <<curr_seq, requestId>>
  BY <1>1, DelSeqKeepsNumbers
<1>3. LastLap' /\ SharedApart'
  BY <1>1, <1>2, NumbersStay DEF AInv
<1>4. a \in Travelling /\ Travelling' \subseteq Travelling
  BY <1>1, ElementsTail DEF Travelling
<1>5. issueNo[a] > 0
  BY <1>4 DEF AInv, Sent
<1>6. Sent'
  BY <1>1, <1>4, <1>5 DEF AInv, Sent
<1>7. data # Nil => requestId[data] = requestId[a] /\ issueNo[data] > 0
  <2> SUFFICES ASSUME data # Nil PROVE requestId[data] = requestId[a] /\ issueNo[data] > 0
    OBVIOUS
  <2> DEFINE i == seq2index[requestId[a]]
  <2>1. requestId[a] \in Seqs /\ i >= 0 /\ data = index2obj[i] /\ requestId[data] = requestId[a]
    BY DEF GetData
  <2>2. i \in Slots /\ data \in Data
    BY <2>1 DEF AInv, IInv, SeqInv, SeqTypeOK
  <2>3. ~ Fresh(data)
    BY <2>1, <2>2 DEF Fresh
  <2>4. issueNo[data] # 0 /\ issueNo[data] \in Nat
    BY <2>2, <2>3 DEF AInv, IInv, Once, TypeOK
  <2> QED
    BY <2>1, <2>4
<1> HIDE DEF a, data
<1>8. Found'
  BY <1>1, <1>2, <1>7 DEF Found
<1>9. Handed'
  BY <1>1 DEF AInv, Handed, LapApart
<1> QED
  BY <1>3, <1>6, <1>8, <1>9

LEMMA ReplyAnswers ==
  ASSUME AInv, panicked = "no", Reply
  PROVE  LastLap' /\ SharedApart' /\ Sent' /\ Found' /\ Handed'
<1>1. /\ busPc = "reply" /\ got' = [got EXCEPT ![target] = cur] /\ busPc' = "select"
      /\ UNCHANGED <<curr_seq, requestId, issued, issueNo, writeMsg, atDevice, resp>>
      /\ cur \in Data /\ target \in Data /\ got \in [Data -> Data \cup {Nil, Err}]
  BY DEF Reply, Hand, Done, Goto, seqVars, connVars, history, AInv, IInv, Locals, TypeOK
<1>2. LastLap' /\ SharedApart'
  BY <1>1, NumbersStay DEF AInv
<1>3. Sent' /\ Found'
  BY <1>1 DEF AInv, Sent, Found, Travelling
<1>4. issueNo[target] > 0 /\ issueNo[cur] > 0 /\ (cur # target => LapApart(target, cur))
  BY <1>1 DEF AInv, Sent, Found, SharedApart
<1>5. Handed'
  <2> SUFFICES ASSUME NEW r \in Data, got'[r] \in Data
               PROVE  /\ issueNo[r] > 0 /\ issueNo[got'[r]] > 0
                      /\ got'[r] # r => LapApart(r, got'[r])
    BY <1>1 DEF Handed, LapApart
  <2>1. CASE r = target
    BY <1>1, <1>4, <2>1
  <2>2. CASE r # target
    BY <1>1, <2>2 DEF AInv, Handed
  <2> QED
    BY <2>1, <2>2
<1> QED
  BY <1>2, <1>3, <1>5

LEMMA LiveAnswers ==
  ASSUME AInv, panicked = "no", Live
  PROVE  Handed' /\ (panicked' = "no" => LastLap' /\ SharedApart' /\ Sent' /\ Found')
<1> DEFINE Kept == LastLap' /\ SharedApart' /\ Sent' /\ Found' /\ Handed'
<1>t. /\ target \in Data \cup {Nil} /\ got \in [Data -> Data \cup {Nil, Err}]
      /\ writeMsg \in Seq(Data) /\ resp \in Seq(Data) /\ Nil \notin Data /\ Err \notin Data
      /\ busPc \in {"evict", "track", "write", "reply"} => cur \in Data
      /\ ElementsOf(<<>>) = {}
  BY NilAssumption, ErrAssumption DEF AInv, IInv, TypeOK, Locals, ElementsOf
<1>1. CASE Push
  <2>1. Still
    BY <1>t, <1>1
    DEF Push, Still, InService, Travelling, Hand, Done, Goto, seqVars, busVars, listVars, reqVars, connVars, history
  <2> QED
    BY <2>1, StillAnswers
<1>2. CASE Refuse
  <2>1. Still
    BY <1>t, <1>2
    DEF Refuse, Still, InService, Travelling, Hand, Done, Goto, seqVars, busVars, listVars, reqVars, connVars, history
  <2> QED
    BY <2>1, StillAnswers
<1>3. CASE Evict
  <2>1. Still
    BY <1>t, <1>3
    DEF Evict, Still, InService, Travelling, Hand, Done, Goto, seqVars, busVars, listVars, reqVars, connVars, history
  <2> QED
    BY <2>1, StillAnswers
<1>4. CASE Track
  <2>1. Still
    BY <1>t, <1>4
    DEF Track, Still, InService, Travelling, Hand, Done, Goto, seqVars, busVars, listVars, reqVars, connVars, history
  <2> QED
    BY <2>1, StillAnswers
<1>5. CASE Write
  <2>0. /\ busPc = "write" /\ cur \in Data /\ busPc' = "select" /\ got' = got
        /\ UNCHANGED <<curr_seq, requestId, issued, issueNo, resp, atDevice>>
        /\ writeMsg' = Append(writeMsg, cur) \/ writeMsg' = writeMsg
    BY <1>t, <1>5 DEF Write, Done, Goto, seqVars, reqVars, history
  <2>1. ElementsOf(writeMsg') \subseteq ElementsOf(writeMsg) \cup {cur}
    BY <1>t, <2>0, ElementsAppend
  <2>2. Travelling' \subseteq Travelling \cup {cur}
    BY <2>0, <2>1 DEF Travelling
  <2>3. Still
    BY <2>0, <2>2 DEF Still, InService
  <2> QED
    BY <2>3, StillAnswers
<1>6. CASE ExpireFront
  <2>1. Still
    BY <1>t, <1>6, DelSeqKeepsNumbers
    DEF ExpireFront, Still, InService, Travelling, Hand, Done, Goto, seqVars, busVars, listVars, reqVars, connVars, history
  <2> QED
    BY <2>1, StillAnswers
<1>7. CASE Expire
  <2>1. Still
    BY <1>t, <1>7
    DEF Expire, Still, InService, Travelling, Hand, Done, Goto, seqVars, busVars, listVars, reqVars, connVars, history
  <2> QED
    BY <2>1, StillAnswers
<1>8. CASE KeepFront
  <2>1. Still
    BY <1>t, <1>8
    DEF KeepFront, Still, InService, Travelling, Hand, Done, Goto, seqVars, busVars, listVars, reqVars, connVars, history
  <2> QED
    BY <2>1, StillAnswers
<1>9. CASE EndTick
  <2>1. Still
    BY <1>t, <1>9
    DEF EndTick, Still, InService, Travelling, Hand, Done, Goto, seqVars, busVars, listVars, reqVars, connVars, history
  <2> QED
    BY <2>1, StillAnswers
<1>10. CASE TakeTick
  <2>1. Still
    BY <1>t, <1>10
    DEF TakeTick, Still, InService, Travelling, Hand, Done, Goto, seqVars, busVars, listVars, reqVars, connVars, history
  <2> QED
    BY <2>1, StillAnswers
<1>11. CASE RegistDeviceInner
  <2>1. Still
    BY <1>t, <1>11
    DEF RegistDeviceInner, Still, InService, Travelling, Hand, Done, Goto, seqVars, busVars, listVars, reqVars, connVars, history
  <2> QED
    BY <2>1, StillAnswers
<1>12. CASE CloseInner
  <2>1. Still
    BY <1>t, <1>12
    DEF CloseInner, Still, InService, Travelling, Hand, Done, Goto, seqVars, busVars, listVars, reqVars, connVars, history
  <2> QED
    BY <2>1, StillAnswers
<1>13. CASE Tock
  <2>1. Still
    BY <1>t, <1>13
    DEF Tock, Still, InService, Travelling, Hand, Done, Goto, seqVars, busVars, listVars, reqVars, connVars, history
  <2> QED
    BY <2>1, StillAnswers
<1>14. CASE TimerFires
  <2>1. Still
    BY <1>t, <1>14
    DEF TimerFires, Still, InService, Travelling, Hand, Done, Goto, seqVars, busVars, listVars, reqVars, connVars, history
  <2> QED
    BY <2>1, StillAnswers
<1>15. CASE Forward
  <2>1. Still
    BY <1>t, <1>15
    DEF Forward, Still, InService, Travelling, Hand, Done, Goto, seqVars, busVars, listVars, reqVars, connVars, history
  <2> QED
    BY <2>1, StillAnswers
<1>16. CASE PumpWrite
  <2>1. Still
    BY <1>t, <1>16, ElementsTail
    DEF PumpWrite, Still, InService, Travelling, Hand, Done, Goto, seqVars, busVars, listVars, reqVars, connVars, history
  <2> QED
    BY <2>1, StillAnswers
<1>17. CASE PumpFails
  <2>1. Still
    BY <1>t, <1>17, ElementsTail
    DEF PumpFails, Still, InService, Travelling, Hand, Done, Goto, seqVars, busVars, listVars, reqVars, connVars, history
  <2> QED
    BY <2>1, StillAnswers
<1>18. CASE ReadFails
  <2>1. Still
    BY <1>t, <1>18
    DEF ReadFails, Still, InService, Travelling, Hand, Done, Goto, seqVars, busVars, listVars, reqVars, connVars, history
  <2> QED
    BY <2>1, StillAnswers
<1>19. ASSUME NEW r \in Data, RequestControlInner(r) PROVE Kept
  <2>1. Still
    BY <1>t, <1>19
    DEF RequestControlInner, Still, InService, Travelling, Hand, Done, Goto, seqVars, busVars, listVars, reqVars, connVars, history
  <2> QED
    BY <2>1, StillAnswers
<1>20. ASSUME NEW r \in Data, RequestControl(r) PROVE Kept
  <2>1. Still
    BY <1>t, <1>20
    DEF RequestControl, Still, InService, Travelling, Hand, Done, Goto, seqVars, busVars, listVars, reqVars, connVars, history
  <2> QED
    BY <2>1, StillAnswers
<1>21. ASSUME NEW r \in Data, Answer(r) PROVE Kept
  <2>1. Still
    BY <1>t, <1>21, ElementsAppend
    DEF Answer, Still, InService, Travelling, Hand, Done, Goto, seqVars, busVars, listVars, reqVars, connVars, history
  <2> QED
    BY <2>1, StillAnswers
<1> QED
  BY <1>1, <1>2, <1>3, <1>4, <1>5, <1>6, <1>7, <1>8, <1>9, <1>10, <1>11, <1>12, <1>13, <1>14, <1>15, <1>16, <1>17, <1>18, <1>19, <1>20, <1>21,
     TakeMsgAnswers, TakeRespAnswers, ReplyAnswers
  DEF Live, Handler, Select, Requester, Runtime, Connection

LEMMA InitAInv == Init => AInv
<1> SUFFICES ASSUME Init PROVE AInv
  OBVIOUS
<1>1. LastLap /\ SharedApart /\ Found
  BY DEF Init, LastLap, SharedApart, Found
<1>2. Sent
  BY DEF Init, Sent, Travelling, ElementsOf
<1>3. Handed
  BY NilAssumption DEF Init, Handed
<1> QED
  BY <1>1, <1>2, <1>3, InitIInv DEF AInv

LEMMA NextAInv == AInv /\ IInv' /\ [Next]_vars => AInv'
<1>1. ASSUME AInv, UNCHANGED vars
      PROVE  Handed' /\ (panicked' = "no" => LastLap' /\ SharedApart' /\ Sent' /\ Found')
  <2>1. UNCHANGED <<panicked, curr_seq, requestId, issued, issueNo, got, writeMsg, atDevice,
                    resp, busPc, cur, target>>
    BY <1>1 DEF vars, seqVars, busVars, reqVars, connVars, history
  <2>2. Handed'
    BY <1>1, <2>1 DEF AInv, Handed, LapApart
  <2>3. ASSUME panicked' = "no" PROVE Still /\ panicked = "no"
    BY <2>1, <2>3 DEF Still, InService, Travelling
  <2> QED
    BY <1>1, <2>2, <2>3, StillAnswers
<1> QED
  BY <1>1, LiveAnswers DEF AInv, Next, Dead

\* A requester receives the answer to its own request, unless the ring of numbers
\* came round between the two: every other answer that reaches it is to a request
\* numbered MaxSize or more before or after its own (bus.go:149-186, seqmap.go).
THEOREM AnswersAreOnesOwn == Spec => []AnswersMatch
<1>1. AInv => AnswersMatch
  BY DEF AInv, Handed, LapApart, AnswersMatch
<1> QED
  BY <1>1, InitAInv, NextAInv, InitIInv, NextIInv, PTL DEF Spec

-------------------------------------------------------------------------------
(***************************************************************************)
(* Until the ring comes round.  No number is taken from a request, so a    *)
(* listed request is found by its number until it is answered or times     *)
(* out; and the only requesters that get errMessage after their request    *)
(* was numbered are those the handler of a tick has taken from the list.   *)
(***************************************************************************)
FirstLap == panicked = "no" /\ issued <= MaxSize

\* The bus still owes r an answer: it is tracked, its requester waits, and the
\* answer is not in the bus's hand.
Outstanding(r) ==
    /\ ~ Unlisted(r) \/ (busPc = "track" /\ cur = r)
    /\ reqPc[r] = "waiting"
    /\ ~ (busPc = "reply" /\ target = r)

Reachable == \A r \in Data : Outstanding(r) => GetData(requestId[r]) = r

\* Whose request is where: a queued request's requester waits, a refused one's
\* request has never been queued, one timed out was in the list and has expired.
Places ==
    /\ \A i \in 1 .. Len(seqMsg) : reqPc[seqMsg[i]] = "waiting"
    /\ busPc \in {"push", "track"} => reqPc[cur] = "waiting"
    /\ busPc = "refuse" => issueNo[target] = 0 /\ Unqueued(target)
    /\ busPc = "expire" => issueNo[target] > 0 /\ expired[target] <= now
    /\ busPc # "evict"

ListedOnce == \A i, j \in 1 .. Len(l) : i # j => l[i] # l[j]

ErrEnds == \A r \in Data : got[r] = Err => reqPc[r] = "done"

WInv ==
    /\ EInv /\ AInv
    /\ ListedOnce /\ ErrEnds /\ NoEarlyTimeout
    /\ FirstLap => EverySlotReached /\ Reachable /\ Places

\* What the step lemmas need of the rest of the invariant.
LEMMA WInvTypes ==
  WInv => /\ l \in Seq(Data) /\ seqMsg \in Seq(Data) /\ issueNo \in [Data -> Nat] /\ issued \in Nat
          /\ reqPc \in [Data -> {"idle", "calling", "waiting", "done"}]
          /\ got \in [Data -> Data \cup {Nil, Err}] /\ expired \in [Data -> Nat]
          /\ requestId \in [Data -> Seqs] /\ clock \in Nat /\ now \in Nat /\ now <= clock
          /\ SeqInv /\ OnlyFullPanics /\ Locals /\ Once /\ Numbered
  BY DEF WInv, EInv, IInv, TypeOK, SeqTypeOK, Locals

\* Steps that leave the table, the list, the queue and the requesters alone, and at
\* most end what the bus was doing.
Calm ==
    /\ UNCHANGED <<seqVars, l, expired, seqMsg, reqVars, issued, issueNo>>
    /\ clock' \in Nat /\ clock' >= clock
    /\ \/ UNCHANGED <<busPc, cur, target, now>>
       \/ busPc' \in {"select", "tick", "write"} /\ busPc # "reply"

LEMMA CalmKeeps ==
  ASSUME WInv, Calm
  PROVE  ListedOnce' /\ ErrEnds' /\ NoEarlyTimeout' /\ (FirstLap' => EverySlotReached' /\ Reachable' /\ Places')
<1>1. /\ UNCHANGED <<index2obj, seq2index, pos, curr_seq, requestId, panicked, l, expired, seqMsg,
                     reqPc, got, issued, issueNo>>
      /\ clock \in Nat /\ expired \in [Data -> Nat]
  BY WInvTypes DEF Calm, seqVars, reqVars
<1>2. ListedOnce' /\ ErrEnds'
  BY <1>1 DEF WInv, ListedOnce, ErrEnds
<1>3. NoEarlyTimeout'
  <2>1. \A r \in Data : expired[r] \in Nat /\ (clock >= expired[r] => clock' >= expired[r])
    BY <1>1 DEF Calm
  <2> QED
    BY <1>1, <2>1 DEF WInv, NoEarlyTimeout
<1>4. ASSUME FirstLap' PROVE EverySlotReached' /\ Reachable' /\ Places'
  <2>1. FirstLap
    BY <1>1, <1>4 DEF FirstLap
  <2>2. EverySlotReached'
    BY <1>1, <2>1 DEF WInv, EverySlotReached
  <2>3. \A r \in Data : Outstanding(r)' => Outstanding(r)
    BY <1>1 DEF Calm, Outstanding, Unlisted
  <2>4. \A n : GetData(n)' = GetData(n)
    BY <1>1 DEF GetData
  <2>5. Reachable'
    BY <1>1, <2>1, <2>3, <2>4 DEF WInv, Reachable
  <2>6. Places'
    BY <1>1, <2>1 DEF WInv, Calm, Places, Unqueued
  <2> QED
    BY <2>2, <2>5, <2>6
<1> QED
  BY <1>2, <1>3, <1>4

\* The bus hands v to the requester it was sending to.
LEMMA HandKeeps ==
  ASSUME WInv, panicked = "no", Refuse \/ Evict \/ Reply \/ Expire
  PROVE  ListedOnce' /\ ErrEnds' /\ NoEarlyTimeout' /\ (FirstLap' => EverySlotReached' /\ Reachable' /\ Places')
<1>1. /\ UNCHANGED <<index2obj, seq2index, pos, curr_seq, requestId, panicked, l, expired, seqMsg,
                     issued, issueNo, clock, now>>
      /\ busPc \in {"refuse", "evict", "reply", "expire"}
      /\ busPc' = IF busPc = "evict" THEN "track" ELSE IF busPc = "expire" THEN "tick" ELSE "select"
      /\ reqPc' = [reqPc EXCEPT ![target] = "done"] /\ reqPc[target] = "waiting"
      /\ got' = [got EXCEPT ![target] = IF busPc = "reply" THEN cur ELSE Err]
  BY DEF Refuse, Evict, Reply, Expire, Hand, Done, Goto, seqVars, listVars, history
<1>2. /\ target \in Data /\ (busPc = "reply" => cur \in Data)
      /\ reqPc \in [Data -> {"idle", "calling", "waiting", "done"}]
      /\ got \in [Data -> Data \cup {Nil, Err}] /\ expired \in [Data -> Nat]
      /\ clock \in Nat /\ now \in Nat /\ now <= clock /\ seqMsg \in Seq(Data) /\ Once
      /\ Err \notin Data
  BY <1>1, WInvTypes, ErrAssumption DEF Locals
<1>3. /\ reqPc'[target] = "done" /\ \A r \in Data : r # target => reqPc'[r] = reqPc[r] /\ got'[r] = got[r]
      /\ got'[target] = IF busPc = "reply" THEN cur ELSE Err
  BY <1>1, <1>2
<1>4. ListedOnce' /\ ErrEnds'
  BY <1>1, <1>3 DEF WInv, ListedOnce, ErrEnds
<1>5. busPc = "reply" => issueNo[target] > 0
  BY DEF WInv, AInv, Found
<1>6. NoEarlyTimeout'
  <2> SUFFICES ASSUME NEW r \in Data, got'[r] = Err, issueNo[r] > 0, issued <= MaxSize
               PROVE  clock >= expired[r]
    BY <1>1 DEF NoEarlyTimeout
  <2>1. CASE r # target
    BY <1>3, <2>1 DEF WInv, NoEarlyTimeout
  <2>2. CASE r = target
    <3>1. busPc # "reply"
      BY <1>2, <1>3, <2>2
    <3>2. Places
      BY DEF WInv, FirstLap
    <3>3. busPc = "expire" /\ expired[r] <= now
      BY <1>1, <2>2, <3>1, <3>2 DEF Places
    <3> QED
      BY <1>2, <3>3
  <2> QED
    BY <2>1, <2>2
<1>7. ASSUME FirstLap' PROVE EverySlotReached' /\ Reachable' /\ Places'
  <2>1. FirstLap /\ EverySlotReached /\ Reachable /\ Places
    BY <1>1, <1>7 DEF FirstLap, WInv
  <2>2. EverySlotReached'
    BY <1>1, <2>1 DEF EverySlotReached
  <2>3. \A r \in Data : Outstanding(r)' => Outstanding(r)
    BY <1>1, <1>3, <2>1 DEF Outstanding, Unlisted, Places
  <2>4. \A n : GetData(n)' = GetData(n)
    BY <1>1 DEF GetData
  <2>5. Reachable'
    BY <1>1, <2>1, <2>3, <2>4 DEF Reachable
  <2>6. \A i \in 1 .. Len(seqMsg) : seqMsg[i] # target
    BY <1>1, <1>2, <1>5, <2>1 DEF Once, Places, Unqueued
  <2>7. Places'
    BY <1>1, <1>2, <1>3, <2>1, <2>6 DEF Places
  <2> QED
    BY <2>2, <2>5, <2>7
<1> QED
  BY <1>4, <1>6, <1>7

\* A call, taken or not yet, is of a request that has no number and is not queued.
LEMMA CallKeeps ==
  ASSUME WInv, NEW r \in Data, RequestControl(r) \/ RequestControlInner(r)
  PROVE  ListedOnce' /\ ErrEnds' /\ NoEarlyTimeout' /\ (FirstLap' => EverySlotReached' /\ Reachable' /\ Places')
<1>1. /\ UNCHANGED <<index2obj, seq2index, pos, curr_seq, requestId, panicked, l, expired, seqMsg,
                     issued, issueNo, clock, got>>
      /\ \A s \in Data : s # r => reqPc'[s] = reqPc[s]
      /\ reqPc[r] \in {"idle", "calling"}
      /\ \/ reqPc'[r] = "calling" /\ UNCHANGED <<busPc, cur, target, now>>
         \/ reqPc'[r] = "waiting" /\ busPc' = "push" /\ cur' = r
         \/ reqPc'[r] = "waiting" /\ busPc' = "refuse" /\ target' = r
  BY WInvTypes DEF RequestControl, RequestControlInner, Goto, seqVars, busVars, listVars, history
<1>2. Unqueued(r) /\ issueNo[r] = 0
  BY <1>1, WInvTypes DEF Once, Early
<1>3. Unlisted(r)
  BY <1>2, WInvTypes DEF Numbered, Unlisted
<1>4. ListedOnce' /\ NoEarlyTimeout'
  BY <1>1 DEF WInv, ListedOnce, NoEarlyTimeout
<1>5. ErrEnds'
  BY <1>1 DEF WInv, ErrEnds
<1>6. ASSUME FirstLap' PROVE EverySlotReached' /\ Reachable' /\ Places'
  <2>1. FirstLap /\ EverySlotReached /\ Reachable /\ Places
    BY <1>1, <1>6 DEF FirstLap, WInv
  <2>2. EverySlotReached'
    BY <1>1, <2>1 DEF EverySlotReached
  <2>3. \A s \in Data : Outstanding(s)' => Outstanding(s)
    <3> SUFFICES ASSUME NEW s \in Data, Outstanding(s)' PROVE Outstanding(s)
      OBVIOUS
    <3>1. CASE s = r
      <4>1. ~ (busPc' = "track" /\ cur' = r)
        BY <1>1, <1>2, WInvTypes DEF Numbered
      <4> QED
        BY <1>1, <1>3, <3>1, <4>1 DEF Outstanding, Unlisted
    <3>2. CASE s # r
      <4>1. ~ (busPc = "reply" /\ target = s)
        BY <1>1, <3>2 DEF Outstanding, RequestControl, RequestControlInner, busVars
      <4> QED
        BY <1>1, <3>2, <4>1 DEF Outstanding, Unlisted
    <3> QED
      BY <3>1, <3>2
  <2>4. \A n : GetData(n)' = GetData(n)
    BY <1>1 DEF GetData
  <2>5. Reachable'
    BY <1>1, <2>1, <2>3, <2>4 DEF Reachable
  <2>6. /\ \A i \in 1 .. Len(seqMsg) : seqMsg[i] # r /\ seqMsg[i] \in Data
        /\ busPc \in {"push", "track"} => cur # r /\ cur \in Data
    BY <1>1, <1>2, <2>1, WInvTypes DEF Unqueued, Places, Locals
  <2>7. Places'
    BY <1>1, <1>2, <2>1, <2>6 DEF Places, Unqueued
  <2> QED
    BY <2>2, <2>5, <2>7
<1> QED
  BY <1>4, <1>5, <1>6

LEMMA PushKeeps ==
  ASSUME WInv, Push
  PROVE  ListedOnce' /\ ErrEnds' /\ NoEarlyTimeout' /\ (FirstLap' => EverySlotReached' /\ Reachable' /\ Places')
<1>1. /\ UNCHANGED <<index2obj, seq2index, pos, curr_seq, requestId, panicked, l, expired, reqPc, got,
                     issued, issueNo, clock>>
      /\ seqMsg' = Append(seqMsg, cur) /\ busPc = "push" /\ busPc' = "select" /\ cur \in Data
      /\ seqMsg \in Seq(Data)
  BY WInvTypes DEF Push, Done, Goto, seqVars, listVars, reqVars, history, Locals
<1>2. ListedOnce' /\ NoEarlyTimeout' /\ ErrEnds'
  BY <1>1 DEF WInv, ListedOnce, NoEarlyTimeout, ErrEnds
<1>3. ASSUME FirstLap' PROVE EverySlotReached' /\ Reachable' /\ Places'
  <2>1. FirstLap /\ EverySlotReached /\ Reachable /\ Places
    BY <1>1, <1>3 DEF FirstLap, WInv
  <2>2. EverySlotReached'
    BY <1>1, <2>1 DEF EverySlotReached
  <2>3. \A r \in Data : Outstanding(r)' => Outstanding(r)
    BY <1>1 DEF Outstanding, Unlisted
  <2>4. \A n : GetData(n)' = GetData(n)
    BY <1>1 DEF GetData
  <2>5. Reachable'
    BY <1>1, <2>1, <2>3, <2>4 DEF Reachable
  <2>6. \A i \in 1 .. Len(seqMsg') : reqPc[seqMsg'[i]] = "waiting"
    <3>1. reqPc[cur] = "waiting" /\ \A i \in 1 .. Len(seqMsg) : reqPc[seqMsg[i]] = "waiting"
      BY <1>1, <2>1 DEF Places
    <3> QED
      BY <1>1, <3>1
  <2> QED
    BY <1>1, <2>2, <2>5, <2>6 DEF Places
<1> QED
  BY <1>2, <1>3

\* On the first lap the number NewSeq hands out is a free one.
LEMMA FirstLapFree ==
  ASSUME WInv, panicked = "no", issued < MaxSize
  PROVE  seq2index[NextSeq] = -1
<1> SUFFICES ASSUME seq2index[NextSeq] # -1 PROVE FALSE
  OBVIOUS
<1> DEFINE r == index2obj[seq2index[NextSeq]]
<1>1. SeqInv /\ NextSeq \in Seqs
  BY WInvTypes, NextSeqInRing DEF SeqInv
<1>2. /\ seq2index[NextSeq] \in Slots /\ seq2index[NextSeq] < pos
      /\ requestId[r] = NextSeq
  BY <1>1 DEF SeqInv, SeqTypeOK, NumbersResolve
<1>3. r \in Data
  BY <1>1, <1>2 DEF SeqInv, SeqTypeOK, SlotsPacked
<1>4. ~ Fresh(r)
  BY <1>2 DEF Fresh
<1>5. issueNo[r] \in Nat /\ issueNo[r] # 0 /\ issued \in Nat
  BY <1>3, <1>4, WInvTypes DEF Once
<1> HIDE DEF r
<1>6. Age(r) >= 0 /\ Age(r) < MaxSize - 1 /\ Age(r) \in Int
  BY <1>1, <1>3, <1>5, Sizes DEF WInv, AInv, LastLap, Age
<1>7. requestId[r] \in {curr_seq - 1 - Age(r), curr_seq - 1 - Age(r) + MaxSize}
  BY <1>1, <1>3, <1>5, <1>6, Sizes DEF WInv, AInv, LastLap
<1>8. NextSeq = IF curr_seq = MaxSize THEN 0 ELSE curr_seq
  BY <1>1, Sizes DEF NextSeq, SEQ_START
<1> QED
  BY <1>1, <1>2, <1>6, <1>7, <1>8, Sizes

\* What is found under a request's own number after a step.
LEMMA FoundAfter ==
  ASSUME NEW n, NEW r, requestId'[r] = n, GetData(n)' = r PROVE GetData(requestId[r])' = r
  BY DEF GetData

\* Two requests of the first lap have different numbers.
LEMMA LapFits ==
  ASSUME WInv, FirstLap, NEW r \in Data, NEW s \in Data, r # s, issueNo[r] > 0, issueNo[s] > 0
  PROVE  requestId[r] # requestId[s]
<1>1. issueNo[r] \in Nat /\ issueNo[s] \in Nat /\ issued \in Nat /\ MaxSize \in Nat
  BY WInvTypes, Sizes
<1>2. issueNo[r] <= issued /\ issueNo[s] <= issued
  BY <1>1 DEF WInv, AInv, FirstLap, LastLap, Age
<1>3. ~ LapApart(r, s)
  BY <1>1, <1>2 DEF FirstLap, LapApart
<1> QED
  BY <1>3 DEF WInv, AInv, FirstLap, SharedApart

LEMMA TakeMsgKeeps ==
  ASSUME WInv, panicked = "no", TakeMsg
  PROVE  ListedOnce' /\ ErrEnds' /\ NoEarlyTimeout' /\ (FirstLap' => EverySlotReached' /\ Reachable' /\ Places')
<1> DEFINE h == Head(seqMsg)
<1>1. /\ UNCHANGED <<l, expired, reqPc, got, clock>>
      /\ NewSeq(h) /\ issued' = issued + 1 /\ issueNo' = [issueNo EXCEPT ![h] = issued + 1]
      /\ seqMsg' = Tail(seqMsg) /\ seqMsg # <<>> /\ busPc = "select" /\ cur' = h
      /\ busPc' = IF OldData # Nil THEN "evict" ELSE "track"
  BY DEF TakeMsg, Goto, listVars, reqVars
<1>2. /\ h \in Data /\ h = seqMsg[1] /\ 1 \in 1 .. Len(seqMsg) /\ Len(seqMsg) \in Nat
      /\ \A i \in 1 .. Len(seqMsg') : i + 1 \in 1 .. Len(seqMsg) /\ seqMsg'[i] = seqMsg[i + 1]
  BY <1>1, WInvTypes
<1>3. issueNo[h] = 0 /\ Fresh(h) /\ Unlisted(h)
  BY <1>2, WInvTypes DEF Once, Numbered, Unlisted
<1>4. /\ issued \in Nat /\ issueNo \in [Data -> Nat] /\ SeqInv /\ OnlyFullPanics
      /\ MaxSize \in Nat /\ MaxSize >= 1 /\ Err \notin Data
  BY WInvTypes, Sizes, ErrAssumption
<1> HIDE DEF h
<1>5. \A r \in Data : r # h => issueNo'[r] = issueNo[r]
  BY <1>1, <1>2, <1>4
<1>6. ListedOnce' /\ ErrEnds'
  BY <1>1 DEF WInv, ListedOnce, ErrEnds
<1>7. issued' <= MaxSize => issued < MaxSize /\ FirstLap /\ EverySlotReached /\ Reachable /\ Places
  BY <1>1, <1>4 DEF WInv, FirstLap
<1>8. issued' <= MaxSize => reqPc[h] = "waiting" /\ got[h] # Err
  BY <1>2, <1>7 DEF Places, WInv, ErrEnds
<1>9. NoEarlyTimeout'
  <2> SUFFICES ASSUME NEW r \in Data, got[r] = Err, issueNo'[r] > 0, issued' <= MaxSize
               PROVE  clock >= expired[r]
    BY <1>1 DEF NoEarlyTimeout
  <2> QED
    BY <1>4, <1>5, <1>7, <1>8 DEF WInv, NoEarlyTimeout, FirstLap
<1>10. ASSUME FirstLap' PROVE EverySlotReached' /\ Reachable' /\ Places'
  <2>1. issued < MaxSize /\ EverySlotReached /\ Reachable /\ Places /\ panicked' = "no"
    BY <1>7, <1>10 DEF FirstLap
  <2>2. pos < MaxSize
    BY <1>1, <1>4, <2>1, Sizes DEF NewSeq, NewSeqFault
  <2>3. seq2index[NextSeq] = -1 /\ NumberIsFree
    BY <2>1, FirstLapFree DEF NumberIsFree
  <2>4. /\ EverySlotReached' /\ GetData(NextSeq) = Nil
        /\ \A s \in Seqs : GetData(s)' = IF s = NextSeq THEN h ELSE GetData(s)
    BY <1>1, <1>2, <1>3, <1>4, <2>1, <2>2, <2>3, NewSeqFree
  <2>5. requestId' = [requestId EXCEPT ![h] = NextSeq] /\ NextSeq \in Seqs
        /\ requestId \in [Data -> Seqs]
    BY <1>1, <1>4, <2>1, NewSeqNumbers, NextSeqInRing, WInvTypes DEF SeqInv
  <2>6. Reachable'
    <3> SUFFICES ASSUME NEW r \in Data, Outstanding(r)' PROVE GetData(requestId[r])' = r
      BY DEF Reachable
    <3>1. CASE r = h
      BY <1>2, <2>4, <2>5, <3>1, FoundAfter
    <3>2. CASE r # h
      <4>1. Outstanding(r)
        BY <1>1, <3>2 DEF Outstanding, Unlisted
      <4>2. GetData(requestId[r]) = r /\ requestId'[r] = requestId[r] /\ requestId[r] \in Seqs
        BY <2>1, <2>5, <3>2, <4>1 DEF Reachable
      <4>3. requestId[r] # NextSeq
        BY <2>4, <4>2, NilAssumption
      <4> QED
        BY <2>4, <4>2, <4>3, FoundAfter
    <3> QED
      BY <3>1, <3>2
  <2>7. Places'
    <3>1. OldData = Nil
      BY <2>3 DEF OldData
    <3>2. \A i \in 1 .. Len(seqMsg') : reqPc[seqMsg'[i]] = "waiting"
      BY <1>2, <2>1 DEF Places
    <3> QED
      BY <1>1, <1>8, <1>10, <3>1, <3>2 DEF Places, FirstLap
  <2> QED
    BY <2>4, <2>6, <2>7
<1> QED
  BY <1>6, <1>9, <1>10

\* What the deletion of number n leaves of what was found.
LEMMA DeletionKeeps ==
  ASSUME WInv, FirstLap, NEW n \in Seqs, DelSeq(n)
  PROVE  /\ EverySlotReached' /\ requestId' = requestId
         /\ \A r \in Data : GetData(requestId[r]) = r /\ (requestId[r] # n \/ GetData(n) = Nil)
                => GetData(requestId[r])' = r
<1>1. /\ SeqInv /\ OnlyFullPanics /\ panicked = "no" /\ EverySlotReached /\ requestId \in [Data -> Seqs]
  BY WInvTypes DEF WInv, FirstLap
<1>2. requestId' = requestId
  BY DelSeqKeepsNumbers
<1>3. /\ EverySlotReached'
      /\ \/ GetData(n) = Nil /\ \A s \in Seqs : GetData(s)' = GetData(s)
         \/ GetData(n) # Nil /\ \A s \in Seqs : GetData(s)' = IF s = n THEN Nil ELSE GetData(s)
  BY <1>1, DelSeqReached
<1>4. ASSUME NEW r \in Data, GetData(requestId[r]) = r, requestId[r] # n \/ GetData(n) = Nil
      PROVE  GetData(requestId[r])' = r
  BY <1>1, <1>2, <1>3, <1>4, FoundAfter
<1> QED
  BY <1>2, <1>3, <1>4

LEMMA TakeRespKeeps ==
  ASSUME WInv, panicked = "no", TakeResp
  PROVE  ListedOnce' /\ ErrEnds' /\ NoEarlyTimeout' /\ (FirstLap' => EverySlotReached' /\ Reachable' /\ Places')
<1> DEFINE n == requestId[Head(resp)]
           data == GetData(n)
<1>1. /\ UNCHANGED <<l, expired, seqMsg, reqPc, got, issued, issueNo, clock>>
      /\ DelSeq(n) /\ busPc = "select" /\ resp # <<>>
      /\ IF data # Nil THEN busPc' = "reply" /\ target' = data ELSE busPc' = busPc
  BY DEF TakeResp, Goto, listVars, reqVars, history
<1>2. n \in Seqs
  BY <1>1, WInvTypes, ElementsTail DEF WInv, EInv, IInv, TypeOK
<1> HIDE DEF n
<1>3. ListedOnce' /\ NoEarlyTimeout' /\ ErrEnds'
  BY <1>1 DEF WInv, ListedOnce, NoEarlyTimeout, ErrEnds
<1>4. ASSUME FirstLap' PROVE EverySlotReached' /\ Reachable' /\ Places'
  <2>1. FirstLap /\ EverySlotReached /\ Reachable /\ Places
    BY <1>1, <1>4 DEF FirstLap, WInv
  <2>2. EverySlotReached' /\ requestId' = requestId
    BY <1>1, <1>2, <2>1, DeletionKeeps
  <2>3. Reachable'
    <3> SUFFICES ASSUME NEW r \in Data, Outstanding(r)' PROVE GetData(requestId[r])' = r
      BY DEF Reachable
    <3>1. Outstanding(r)
      BY <1>1 DEF Outstanding, Unlisted
    <3>2. GetData(requestId[r]) = r
      BY <2>1, <3>1 DEF Reachable
    <3>3. requestId[r] # n \/ data = Nil
      BY <1>1, <3>2 DEF Outstanding
    <3> QED
      BY <1>1, <1>2, <2>1, <3>2, <3>3, DeletionKeeps
  <2> QED
    BY <1>1, <2>1, <2>2, <2>3 DEF Places
<1> QED
  BY <1>3, <1>4

LEMMA TrackKeeps ==
  ASSUME WInv, panicked = "no", Track
  PROVE  ListedOnce' /\ ErrEnds' /\ NoEarlyTimeout' /\ (FirstLap' => EverySlotReached' /\ Reachable' /\ Places')
<1>1. /\ UNCHANGED <<index2obj, seq2index, pos, curr_seq, requestId, panicked, seqMsg, reqPc, got,
                     issued, issueNo, clock, target>>
      /\ busPc = "track" /\ busPc' = "write" /\ cur' = cur /\ cur \in Data
      /\ l' = Append(l, cur) /\ l \in Seq(Data)
      /\ \A r \in Data : r # cur => expired'[r] = expired[r]
  BY WInvTypes DEF Track, Goto, seqVars, reqVars, history, Locals
<1>2. Unlisted(cur)
  BY <1>1, WInvTypes DEF Numbered
<1>3. /\ Len(l') = Len(l) + 1 /\ Len(l) \in Nat /\ l'[Len(l) + 1] = cur
      /\ \A i \in 1 .. Len(l) : l'[i] = l[i]
      /\ \A i \in 1 .. Len(l') : i \in 1 .. Len(l) \/ i = Len(l) + 1
  BY <1>1, AppendProperties
<1>4. ListedOnce'
  BY <1>2, <1>3 DEF WInv, ListedOnce, Unlisted
<1>5. ErrEnds'
  BY <1>1 DEF WInv, ErrEnds
<1>6. ASSUME FirstLap
      PROVE  reqPc[cur] = "waiting" /\ got[cur] # Err
  BY <1>1, <1>6 DEF WInv, Places, ErrEnds
<1>7. NoEarlyTimeout'
  <2> SUFFICES ASSUME NEW r \in Data, got[r] = Err, issueNo[r] > 0, issued <= MaxSize
               PROVE  clock >= expired'[r]
    BY <1>1 DEF NoEarlyTimeout
  <2>1. r # cur
    BY <1>6 DEF FirstLap
  <2> QED
    BY <1>1, <2>1 DEF WInv, NoEarlyTimeout
<1>8. ASSUME FirstLap' PROVE EverySlotReached' /\ Reachable' /\ Places'
  <2>1. FirstLap /\ EverySlotReached /\ Reachable /\ Places
    BY <1>1, <1>8 DEF FirstLap, WInv
  <2>2. EverySlotReached'
    BY <1>1, <2>1 DEF EverySlotReached
  <2>3. \A r \in Data : Outstanding(r)' => Outstanding(r)
    BY <1>1, <1>3 DEF Outstanding, Unlisted
  <2>4. \A n : GetData(n)' = GetData(n)
    BY <1>1 DEF GetData
  <2>5. Reachable'
    BY <1>1, <2>1, <2>3, <2>4 DEF Reachable
  <2> QED
    BY <1>1, <2>1, <2>2, <2>5 DEF Places
<1> QED
  BY <1>4, <1>5, <1>7, <1>8

LEMMA ExpireFrontKeeps ==
  ASSUME WInv, panicked = "no", ExpireFront
  PROVE  ListedOnce' /\ ErrEnds' /\ NoEarlyTimeout' /\ (FirstLap' => EverySlotReached' /\ Reachable' /\ Places')
<1> DEFINE f == Head(l)
           n == requestId[f]
<1>1. /\ UNCHANGED <<expired, seqMsg, reqPc, got, issued, issueNo, clock, now>>
      /\ DelSeq(n) /\ busPc = "tick" /\ busPc' = "expire" /\ target' = f
      /\ l' = Tail(l) /\ l # <<>> /\ l \in Seq(Data) /\ expired[f] <= now
  BY WInvTypes DEF ExpireFront, Goto, reqVars, history
<1>2. /\ f \in Data /\ f = l[1] /\ 1 \in 1 .. Len(l) /\ Len(l) \in Nat
      /\ \A i \in 1 .. Len(l') : i + 1 \in 1 .. Len(l) /\ i + 1 # 1 /\ l'[i] = l[i + 1]
  BY <1>1
<1>3. n \in Seqs /\ issueNo[f] > 0
  BY <1>2, WInvTypes DEF Numbered
<1> HIDE DEF f, n
<1>4. ListedOnce'
  BY <1>2 DEF WInv, ListedOnce
<1>5. NoEarlyTimeout' /\ ErrEnds'
  BY <1>1 DEF WInv, NoEarlyTimeout, ErrEnds
<1>6. ASSUME FirstLap' PROVE EverySlotReached' /\ Reachable' /\ Places'
  <2>1. FirstLap /\ EverySlotReached /\ Reachable /\ Places
    BY <1>1, <1>6 DEF FirstLap, WInv
  <2>2. EverySlotReached' /\ requestId' = requestId
    BY <1>1, <1>3, <2>1, DeletionKeeps
  <2>3. Reachable'
    <3> SUFFICES ASSUME NEW r \in Data, Outstanding(r)' PROVE GetData(requestId[r])' = r
      BY DEF Reachable
    <3>1. PICK i \in 1 .. Len(l') : l'[i] = r
      BY <1>1 DEF Outstanding, Unlisted
    <3>2. r # f /\ ~ Unlisted(r) /\ issueNo[r] > 0
      BY <1>2, <3>1, WInvTypes DEF WInv, ListedOnce, Unlisted, Numbered
    <3>3. Outstanding(r)
      BY <1>1, <3>2 DEF Outstanding
    <3>4. GetData(requestId[r]) = r
      BY <2>1, <3>3 DEF Reachable
    <3>5. requestId[r] # n
      BY <1>2, <1>3, <2>1, <3>2, LapFits DEF n
    <3> QED
      BY <1>1, <1>3, <2>1, <3>4, <3>5, DeletionKeeps
  <2> QED
    BY <1>1, <1>3, <2>1, <2>2, <2>3 DEF Places
<1> QED
  BY <1>4, <1>5, <1>6

LEMMA LiveKeeps ==
  ASSUME WInv, panicked = "no", Live
  PROVE  ListedOnce' /\ ErrEnds' /\ NoEarlyTimeout' /\ (FirstLap' => EverySlotReached' /\ Reachable' /\ Places')
<1>t. clock \in Nat /\ clock + 1 >= clock /\ clock + 1 \in Nat
  BY WInvTypes
<1> USE DEF Calm
<1>1. CASE Write
  <2>1. Calm
    BY <1>t, <1>1 DEF Write, Done, Goto, busVars, listVars, reqVars, history
  <2> QED
    BY <2>1, CalmKeeps
<1>2. CASE TakeTick
  <2>1. Calm
    BY <1>t, <1>2 DEF TakeTick, Done, Goto, busVars, listVars, reqVars, history
  <2> QED
    BY <2>1, CalmKeeps
<1>3. CASE KeepFront
  <2>1. Calm
    BY <1>t, <1>3 DEF KeepFront, Done, Goto, busVars, listVars, reqVars, history
  <2> QED
    BY <2>1, CalmKeeps
<1>4. CASE EndTick
  <2>1. Calm
    BY <1>t, <1>4 DEF EndTick, Done, Goto, busVars, listVars, reqVars, history
  <2> QED
    BY <2>1, CalmKeeps
<1>5. CASE RegistDeviceInner
  <2>1. Calm
    BY <1>t, <1>5 DEF RegistDeviceInner, Done, Goto, busVars, listVars, reqVars, history
  <2> QED
    BY <2>1, CalmKeeps
<1>6. CASE CloseInner
  <2>1. Calm
    BY <1>t, <1>6 DEF CloseInner, Done, Goto, busVars, listVars, reqVars, history
  <2> QED
    BY <2>1, CalmKeeps
<1>7. CASE Tock
  <2>1. Calm
    BY <1>t, <1>7 DEF Tock, Done, Goto, busVars, listVars, reqVars, history
  <2> QED
    BY <2>1, CalmKeeps
<1>8. CASE TimerFires
  <2>1. Calm
    BY <1>t, <1>8 DEF TimerFires, Done, Goto, busVars, listVars, reqVars, history
  <2> QED
    BY <2>1, CalmKeeps
<1>9. CASE Forward
  <2>1. Calm
    BY <1>t, <1>9 DEF Forward, Done, Goto, busVars, listVars, reqVars, history
  <2> QED
    BY <2>1, CalmKeeps
<1>10. CASE PumpWrite
  <2>1. Calm
    BY <1>t, <1>10 DEF PumpWrite, Done, Goto, busVars, listVars, reqVars, history
  <2> QED
    BY <2>1, CalmKeeps
<1>11. CASE PumpFails
  <2>1. Calm
    BY <1>t, <1>11 DEF PumpFails, Done, Goto, busVars, listVars, reqVars, history
  <2> QED
    BY <2>1, CalmKeeps
<1>12. CASE ReadFails
  <2>1. Calm
    BY <1>t, <1>12 DEF ReadFails, Done, Goto, busVars, listVars, reqVars, history
  <2> QED
    BY <2>1, CalmKeeps
<1>13. ASSUME NEW r \in Data, Answer(r) PROVE Calm
  BY <1>t, <1>13 DEF Answer, busVars, listVars, reqVars, history
<1> QED
  BY <1>1, <1>2, <1>3, <1>4, <1>5, <1>6, <1>7, <1>8, <1>9, <1>10, <1>11, <1>12, <1>13, CalmKeeps,
     HandKeeps, CallKeeps, PushKeeps, TakeMsgKeeps, TakeRespKeeps, TrackKeeps, ExpireFrontKeeps
  DEF Live, Handler, Select, Requester, Runtime, Connection

LEMMA InitWInv == Init => WInv
<1> SUFFICES ASSUME Init PROVE WInv
  OBVIOUS
<1>1. EInv /\ AInv
  BY InitEInv, InitAInv
<1>2. ListedOnce /\ ErrEnds /\ NoEarlyTimeout
  BY ErrAssumption DEF Init, ListedOnce, ErrEnds, NoEarlyTimeout
<1>3. EverySlotReached
  <2>1. pos = 0
    BY DEF Init, SeqInit
  <2>2. MaxSize \in Nat /\ \A k \in Slots : ~ (k < 0)
    BY SizeAssumption DEF Slots
  <2> QED
    BY <2>1, <2>2 DEF EverySlotReached
<1>4. Reachable /\ Places
  BY DEF Init, Reachable, Outstanding, Unlisted, Places
<1> QED
  BY <1>1, <1>2, <1>3, <1>4 DEF WInv

LEMMA NextWInv == WInv /\ EInv' /\ AInv' /\ [Next]_vars => WInv'
<1> SUFFICES ASSUME WInv, EInv', AInv', [Next]_vars PROVE WInv'
  OBVIOUS
<1>1. CASE UNCHANGED vars
  <2>1. Calm
    BY <1>1, WInvTypes DEF vars, Calm, busVars, listVars, reqVars, history
  <2> QED
    BY <2>1, CalmKeeps DEF WInv
<1>2. CASE panicked = "no" /\ Live
  BY <1>2, LiveKeeps DEF WInv
<1> QED
  BY <1>1, <1>2 DEF Next, Dead

\* Until the ring of numbers comes round, the answer to a listed request whose
\* requester still waits finds it, whatever else was answered, timed out or failed in
\* between: no deletion makes it unreachable (seqmap.go:61-87, bus.go:166-186).
THEOREM WaitingFound == Spec => []WaitingIsFound
<1>1. WInv => WaitingIsFound
  <2> SUFFICES ASSUME WInv, FirstLap, NEW r \in Listed, reqPc[r] = "waiting",
                      ~ (busPc = "reply" /\ target = r)
               PROVE  GetData(requestId[r]) = r
    BY DEF WaitingIsFound, FirstLap
  <2>1. r \in Data
    BY WInvTypes DEF Listed
  <2>2. Outstanding(r)
    BY DEF Outstanding, Unlisted, Listed
  <2> QED
    BY <2>1, <2>2 DEF WInv, Reachable
<1> QED
  BY <1>1, InitWInv, NextWInv, InitEInv, NextEInv, InitAInv, NextAInv, InitIInv, NextIInv, PTL DEF Spec

\* Until the ring of numbers comes round, no requester is told of a timeout before
\* its request has been outstanding for expiredDuration, late, early or superfluous
\* as the ticks may be (bus.go:187-202).
THEOREM NobodyTimedOutEarly == Spec => []NoEarlyTimeout
<1>1. WInv => NoEarlyTimeout
  BY DEF WInv
<1> QED
  BY <1>1, InitWInv, NextWInv, InitEInv, NextEInv, InitAInv, NextAInv, InitIInv, NextIInv, PTL DEF Spec
===============================================================================
