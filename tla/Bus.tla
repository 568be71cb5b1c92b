---------------------------------- MODULE Bus ----------------------------------
(***************************************************************************)
(* The message bus (src/server/bus.go, with the parts of proto.go,         *)
(* usermgr.go, mainchannel.go and clientchannel.go it runs).  One          *)
(* goroutine, Run, owns every shared structure and serves a select over    *)
(* four channels:                                                          *)
(*   calls   (unbuffered)      functions other goroutines want run here,   *)
(*   seqMsg  (MESSAGE_SIZE)    requests to be numbered and sent,           *)
(*   resp    (MESSAGE_SIZE)    answers read from a device,                 *)
(*   tCh     (unbuffered)      ticks of bus.timer, passed on by a          *)
(*                             forwarder goroutine.                        *)
(* A requester (serveTunnel) calls RequestControl and then waits on the    *)
(* unbuffered channel of its own message; the bus hands it the answer, or  *)
(* errMessage, with a blocking send.                                       *)
(*                                                                         *)
(* A channel is a sequence; a send to an unbuffered channel is one step of *)
(* sender and receiver.  busPc says where the bus goroutine is, and in     *)
(* particular which send it is blocked on.  Time is a clock that advances  *)
(* between any two steps.  One user and one device connection are modelled *)
(* (MainChannel has several); the requests of Lost name another device.    *)
(***************************************************************************)
EXTENDS SeqMap, Sequences

CONSTANTS
    MESSAGE_SIZE,     \* capacity of seqMsg and of resp
    WRITE_SIZE,       \* capacity of a connection's writeMsg
    expiredDuration,  \* how long a request may be outstanding
    maxDuration,      \* the tick of a bus with nothing outstanding
    Lost,             \* the requests for a device that is not connected
    LastCall,         \* bound: no request is made later than this, ...
    MaxTime           \* ... and the clock stops here

ASSUME CapacityAssumption == MESSAGE_SIZE \in Nat \ {0} /\ WRITE_SIZE \in Nat \ {0}
ASSUME DurationAssumption == expiredDuration \in Nat \ {0} /\ maxDuration \in Nat \ {0}
ASSUME LostAssumption     == Lost \subseteq Data
ASSUME BoundAssumption    == LastCall \in Nat /\ MaxTime \in Nat

VARIABLES
    busPc,        \* where the bus goroutine is
    cur,          \* the request the bus is handling, Nil at the select
    target,       \* the requester whose channel the bus is sending on
    now,          \* the bus's last reading of the clock
    l,            \* bus.expiredList
    expired,      \* the expired field of each request
    nextTick,     \* bus.nextTick
    timerAt,      \* when bus.timer fires, Off when it is not running
    timerC,       \* bus.timer.C holds a tick
    fwd,          \* the forwarder holds a tick and waits for the bus
    clock,        \* time.Now()
    seqMsg,       \* channel of requests
    resp,         \* channel of answers: the request each one answers
    reqPc,        \* where each requester is
    got,          \* what each requester received: an answer, Err, or Nil
    conn,         \* the device connection as the registry knows it
    closers,      \* its pumps that have returned and want the bus to close it
    writeMsg,     \* its channel of messages to write
    atDevice,     \* the requests the device has received and not answered
    orphans,      \* the queued requests whose *User has left bus.users
    issued,       \* history: how many requests NewSeq has numbered
    issueNo,      \* history: the how-manieth of them each one was, 0 if none
    slow          \* history: the time that went by in the handler of the last tick

busVars == <<busPc, cur, target, now>>
listVars == <<l, expired>>
timerVars == <<nextTick, timerAt, timerC, fwd>>
reqVars == <<reqPc, got>>
connVars == <<conn, closers, writeMsg, atDevice, orphans>>
history == <<issued, issueNo, slow>>
vars == <<seqVars, busVars, listVars, timerVars, clock, seqMsg, resp, reqVars,
          connVars, history>>

Off == -1        \* the timer is not running
Err == "error"   \* errMessage, which RequestControl turns into nil

ASSUME ErrAssumption == Err \notin Data \cup {Nil}

Pumps == {"reader", "writer"}

Queued == {seqMsg[i] : i \in 1 .. Len(seqMsg)}
Listed == {l[i] : i \in 1 .. Len(l)}

(***************************************************************************)
(* NewMessageBus, and the start of Run up to the select.                   *)
(***************************************************************************)
Init ==
    /\ SeqInit
    /\ busPc = "select" /\ cur = Nil /\ target = Nil /\ now = 0
    /\ l = <<>> /\ expired = [r \in Data |-> 0]
    /\ nextTick = maxDuration /\ timerAt = maxDuration
    /\ timerC = FALSE /\ fwd = FALSE
    /\ clock = 0
    /\ seqMsg = <<>> /\ resp = <<>>
    /\ reqPc = [r \in Data |-> "idle"] /\ got = [r \in Data |-> Nil]
    /\ conn = "off" /\ closers = {} /\ writeMsg = <<>>
    /\ atDevice = {} /\ orphans = {}
    /\ issued = 0 /\ issueNo = [r \in Data |-> 0] /\ slow = 0

Goto(pc) == busPc' = pc

\* Back to the select: the locals of the handler are gone.
Done == Goto("select") /\ cur' = Nil /\ target' = Nil /\ UNCHANGED now

(***************************************************************************)
(* Requesters: serveTunnel makes one message and one RequestControl.       *)
(***************************************************************************)
\* CallNoWait blocks until the bus takes the call.
RequestControl(r) ==
    /\ reqPc[r] = "idle" /\ clock <= LastCall
    /\ reqPc' = [reqPc EXCEPT ![r] = "calling"]
    /\ UNCHANGED <<seqVars, busVars, listVars, timerVars, clock, seqMsg, resp, got,
                   connVars, history>>

\* The bus runs RequestControlInner; the caller goes on to wait on msg.resp.
RequestControlInner(r) ==
    /\ busPc = "select" /\ reqPc[r] = "calling"
    /\ reqPc' = [reqPc EXCEPT ![r] = "waiting"]
    /\ cur' = r
    /\ IF conn = "on" THEN Goto("push") /\ target' = Nil
                      ELSE Goto("refuse") /\ target' = r
    /\ UNCHANGED <<seqVars, now, listVars, timerVars, clock, seqMsg, resp, got,
                   connVars, history>>

\* Faulty variant: the send does not wait for room.
PushUnbounded ==
    /\ busPc = "push"
    /\ seqMsg' = Append(seqMsg, cur)
    /\ Done
    /\ UNCHANGED <<seqVars, listVars, timerVars, clock, resp, reqVars, connVars, history>>

\* bus.seqMsg <- msg, by the goroutine that drains seqMsg.
Push ==
    /\ busPc = "push" /\ Len(seqMsg) < MESSAGE_SIZE
    /\ seqMsg' = Append(seqMsg, cur)
    /\ Done
    /\ UNCHANGED <<seqVars, listVars, timerVars, clock, resp, reqVars, connVars, history>>

\* m.resp <- v on an unbuffered channel: the requester takes v and is done.
Hand(v) ==
    /\ reqPc[target] = "waiting"
    /\ reqPc' = [reqPc EXCEPT ![target] = "done"]
    /\ got' = [got EXCEPT ![target] = v]

\* msg.resp <- errMessage: the user is not known.
Refuse ==
    /\ busPc = "refuse"
    /\ Hand(Err)
    /\ Done
    /\ UNCHANGED <<seqVars, listVars, timerVars, clock, seqMsg, resp, connVars, history>>

(***************************************************************************)
(* case m := <-bus.seqMsg: number the request, track it, send it.          *)
(***************************************************************************)
\* NewSeq; if it evicts a request, the bus first sends errMessage to that one.
TakeMsg ==
    /\ busPc = "select" /\ seqMsg # <<>>
    /\ seqMsg' = Tail(seqMsg)
    /\ cur' = Head(seqMsg)
    /\ NewSeq(Head(seqMsg))
    /\ issued' = issued + 1
    /\ issueNo' = [issueNo EXCEPT ![Head(seqMsg)] = issued + 1]
    /\ IF OldData # Nil THEN Goto("evict") /\ target' = OldData
                        ELSE Goto("track") /\ target' = Nil
    /\ UNCHANGED <<now, listVars, timerVars, clock, resp, reqVars, connVars, slow>>

Evict ==
    /\ busPc = "evict"
    /\ Hand(Err)
    /\ Goto("track") /\ target' = Nil
    /\ UNCHANGED <<seqVars, cur, now, listVars, timerVars, clock, seqMsg, resp,
                   connVars, history>>

\* Faulty variants: the timer is not brought forward with nextTick, or the
\* request is put at the front of the list.
TrackNoReset ==
    /\ busPc = "track"
    /\ now' = clock
    /\ expired' = [expired EXCEPT ![cur] = clock + expiredDuration]
    /\ l' = Append(l, cur)
    /\ UNCHANGED nextTick
    /\ UNCHANGED timerAt
    /\ Goto("write")
    /\ UNCHANGED <<seqVars, cur, target, timerC, fwd, clock, seqMsg, resp, reqVars,
                   connVars, history>>

TrackAtFront ==
    /\ busPc = "track"
    /\ now' = clock
    /\ expired' = [expired EXCEPT ![cur] = clock + expiredDuration]
    /\ l' = <<cur>> \o l
    /\ IF nextTick > clock + expiredDuration
       THEN /\ nextTick' = clock + expiredDuration
            /\ timerAt' = clock + expiredDuration
       ELSE UNCHANGED <<nextTick, timerAt>>
    /\ Goto("write")
    /\ UNCHANGED <<seqVars, cur, target, timerC, fwd, clock, seqMsg, resp, reqVars,
                   connVars, history>>

\* SetExpired, PushBack, and the timer brought forward if it would be late.
Track ==
    /\ busPc = "track"
    /\ now' = clock
    /\ expired' = [expired EXCEPT ![cur] = clock + expiredDuration]
    /\ l' = Append(l, cur)
    /\ IF nextTick > clock + expiredDuration
       THEN /\ nextTick' = clock + expiredDuration
            /\ timerAt' = clock + expiredDuration
       ELSE UNCHANGED <<nextTick, timerAt>>
    /\ Goto("write")
    /\ UNCHANGED <<seqVars, cur, target, timerC, fwd, clock, seqMsg, resp, reqVars,
                   connVars, history>>

\* The processHandler of a request finds its device.
DeviceFound(r) == conn = "on" /\ r \notin Lost /\ r \notin orphans

\* Faulty variant: a request whose device is not found is queued again.
WriteAgain ==
    /\ busPc = "write"
    /\ IF DeviceFound(cur)
       THEN /\ Len(writeMsg) < WRITE_SIZE
            /\ writeMsg' = Append(writeMsg, cur)
            /\ UNCHANGED seqMsg
       ELSE /\ Len(seqMsg) < MESSAGE_SIZE
            /\ seqMsg' = Append(seqMsg, cur)
            /\ UNCHANGED writeMsg
    /\ Done
    /\ UNCHANGED <<seqVars, listVars, timerVars, clock, resp, reqVars, conn, closers,
                   atDevice, orphans, history>>

\* Fire(MessageEventOk): devConn.writeMsg <- bytes, which waits for room; the
\* error "device not found" is dropped by Fire and nobody is told.
Write ==
    /\ busPc = "write"
    /\ IF DeviceFound(cur)
       THEN Len(writeMsg) < WRITE_SIZE /\ writeMsg' = Append(writeMsg, cur)
       ELSE UNCHANGED writeMsg
    /\ Done
    /\ UNCHANGED <<seqVars, listVars, timerVars, clock, seqMsg, resp, reqVars, conn,
                   closers, atDevice, orphans, history>>

(***************************************************************************)
(* case resp := <-bus.resp: find the request by its number.  The request   *)
(* stays in the expired list.                                              *)
(***************************************************************************)
TakeResp ==
    /\ busPc = "select" /\ resp # <<>>
    /\ resp' = Tail(resp)
    /\ LET seq == requestId[Head(resp)]  data == GetData(seq)
       IN  /\ DelSeq(seq)
           /\ IF data # Nil
              THEN Goto("reply") /\ cur' = Head(resp) /\ target' = data
              ELSE UNCHANGED <<busPc, cur, target>>
    /\ UNCHANGED <<now, listVars, timerVars, clock, seqMsg, reqVars, connVars, history>>

\* PutResp.
Reply ==
    /\ busPc = "reply"
    /\ Hand(cur)
    /\ Done
    /\ UNCHANGED <<seqVars, listVars, timerVars, clock, seqMsg, resp, connVars, history>>

(***************************************************************************)
(* case <-tCh: time out the front of the list, as long as there is a list. *)
(***************************************************************************)
TakeTick ==
    /\ busPc = "select" /\ fwd
    /\ fwd' = FALSE
    /\ now' = clock /\ slow' = 0
    /\ Goto("tick")
    /\ UNCHANGED <<seqVars, cur, target, listVars, nextTick, timerAt, timerC, clock,
                   seqMsg, resp, reqVars, connVars, issued, issueNo>>

\* Faulty variants: the requester is not told, or whatever is in the list expires.
ExpireAnyFront ==
    /\ busPc = "tick" /\ l # <<>>
    /\ l' = Tail(l)
    /\ DelSeq(requestId[Head(l)])
    /\ Goto("expire") /\ target' = Head(l)
    /\ UNCHANGED <<cur, now, expired, timerVars, clock, seqMsg, resp, reqVars,
                   connVars, history>>

ExpireFrontSilently ==
    /\ busPc = "tick" /\ l # <<>> /\ expired[Head(l)] <= now
    /\ l' = Tail(l)
    /\ DelSeq(requestId[Head(l)])
    /\ UNCHANGED <<busPc, cur, target, now, expired, timerVars, clock, seqMsg, resp,
                   reqVars, connVars, history>>

\* Timeout: out of the list and of the table; then Fire(MessageEventTimeout).
ExpireFront ==
    /\ busPc = "tick" /\ l # <<>> /\ expired[Head(l)] <= now
    /\ l' = Tail(l)
    /\ DelSeq(requestId[Head(l)])
    /\ Goto("expire") /\ target' = Head(l)
    /\ UNCHANGED <<cur, now, expired, timerVars, clock, seqMsg, resp, reqVars,
                   connVars, history>>

Expire ==
    /\ busPc = "expire"
    /\ Hand(Err)
    /\ Goto("tick") /\ target' = Nil
    /\ UNCHANGED <<seqVars, cur, now, listVars, timerVars, clock, seqMsg, resp,
                   connVars, history>>

\* "Not timeout": the timer is set for the front, and the loop goes round with
\* the same now and the same front.
KeepFront ==
    /\ busPc = "tick" /\ l # <<>> /\ expired[Head(l)] > now
    /\ nextTick' = expired[Head(l)]
    /\ timerAt' = clock + (expired[Head(l)] - now)
    /\ UNCHANGED <<seqVars, busVars, listVars, timerC, fwd, clock, seqMsg, resp,
                   reqVars, connVars, history>>

\* Faulty variant: the idle tick is not armed.
EndTickNoReset ==
    /\ busPc = "tick" /\ l = <<>>
    /\ nextTick' = clock + maxDuration
    /\ UNCHANGED timerAt
    /\ Done
    /\ UNCHANGED <<seqVars, listVars, timerC, fwd, clock, seqMsg, resp, reqVars,
                   connVars, history>>

\* The list is empty: the idle tick.  now is the reading the tick began with.
EndTick ==
    /\ busPc = "tick" /\ l = <<>>
    /\ nextTick' = clock + maxDuration
    /\ timerAt' = clock + (clock + maxDuration - now)
    /\ Done
    /\ UNCHANGED <<seqVars, listVars, timerC, fwd, clock, seqMsg, resp, reqVars,
                   connVars, history>>

(***************************************************************************)
(* The runtime: the clock, bus.timer, and the forwarder goroutine.         *)
(***************************************************************************)
\* The bus is inside the handler of a tick.
InTick == busPc \in {"tick", "expire"}

\* Nothing keeps the bus from going on at once with a request it was given.
CaughtUp == busPc = "select" /\ seqMsg = <<>> /\ \A r \in Data : reqPc[r] # "calling"

\* Bound: the bus may be slow up to LastCall, and every request is tracked by then.
Tock ==
    /\ clock < MaxTime
    /\ clock >= LastCall => CaughtUp
    /\ clock' = clock + 1
    /\ slow' = IF InTick THEN slow + 1 ELSE slow
    /\ UNCHANGED <<seqVars, busVars, listVars, timerVars, seqMsg, resp, reqVars,
                   connVars, issued, issueNo>>

\* The send on timer.C is dropped when the channel is full.
TimerFires ==
    /\ timerAt # Off /\ clock >= timerAt
    /\ timerAt' = Off
    /\ timerC' = TRUE
    /\ UNCHANGED <<seqVars, busVars, listVars, nextTick, fwd, clock, seqMsg, resp,
                   reqVars, connVars, history>>

\* for range bus.timer.C: receive, then wait to send on tCh.
Forward ==
    /\ timerC /\ ~fwd
    /\ timerC' = FALSE
    /\ fwd' = TRUE
    /\ UNCHANGED <<seqVars, busVars, listVars, nextTick, timerAt, clock, seqMsg, resp,
                   reqVars, connVars, history>>

(***************************************************************************)
(* The device connection, as far as the bus meets it.                      *)
(***************************************************************************)
\* A handshake: Call(RegistDeviceInner), whose caller waits for call.Ok.  The
\* *User is a new one if the old one has been deleted.
RegistDeviceInner ==
    /\ busPc = "select" /\ conn = "off"
    /\ conn' = "on" /\ closers' = {} /\ writeMsg' = <<>>
    /\ UNCHANGED <<seqVars, busVars, listVars, timerVars, clock, seqMsg, resp, reqVars,
                   atDevice, orphans, history>>

\* writePump passes a message on, ...
PumpWrite ==
    /\ conn = "on" /\ "writer" \notin closers /\ writeMsg # <<>>
    /\ writeMsg' = Tail(writeMsg)
    /\ atDevice' = atDevice \cup {Head(writeMsg)}
    /\ UNCHANGED <<seqVars, busVars, listVars, timerVars, clock, seqMsg, resp, reqVars,
                   conn, closers, orphans, history>>

\* ... or fails to and returns: from now on it is in CallNoWait(CloseInner).
PumpFails ==
    /\ conn = "on" /\ "writer" \notin closers /\ writeMsg # <<>>
    /\ writeMsg' = Tail(writeMsg)
    /\ closers' = closers \cup {"writer"}
    /\ UNCHANGED <<seqVars, busVars, listVars, timerVars, clock, seqMsg, resp, reqVars,
                   conn, atDevice, orphans, history>>

\* readPump puts an answer on bus.resp, ...
Answer(r) ==
    /\ conn = "on" /\ "reader" \notin closers
    /\ r \in atDevice /\ Len(resp) < MESSAGE_SIZE
    /\ resp' = Append(resp, r)
    /\ atDevice' = atDevice \ {r}
    /\ UNCHANGED <<seqVars, busVars, listVars, timerVars, clock, seqMsg, reqVars, conn,
                   closers, writeMsg, orphans, history>>

\* ... or the connection breaks and it returns.
ReadFails ==
    /\ conn = "on" /\ "reader" \notin closers
    /\ closers' = closers \cup {"reader"}
    /\ UNCHANGED <<seqVars, busVars, listVars, timerVars, clock, seqMsg, resp, reqVars,
                   conn, writeMsg, atDevice, orphans, history>>

\* CallNoWait(CloseInner): the device leaves its *User and the *User the bus.
CloseInner ==
    /\ busPc = "select" /\ conn = "on" /\ closers # {}
    /\ conn' = "off" /\ closers' = {} /\ writeMsg' = <<>>
    /\ orphans' = orphans \cup Queued
    /\ UNCHANGED <<seqVars, busVars, listVars, timerVars, clock, seqMsg, resp, reqVars,
                   atDevice, history>>

-------------------------------------------------------------------------------
\* The bus goroutine, at its select and inside a handler.
Handler ==
    \/ Push \/ Refuse \/ Evict \/ Track \/ Write \/ Reply
    \/ ExpireFront \/ Expire \/ KeepFront \/ EndTick

Select ==
    \/ \E r \in Data : RequestControlInner(r)
    \/ TakeMsg \/ TakeResp \/ TakeTick
    \/ RegistDeviceInner \/ CloseInner

Requester == \E r \in Data : RequestControl(r)

Runtime == Tock \/ TimerFires \/ Forward

Connection == PumpWrite \/ PumpFails \/ ReadFails \/ \E r \in Data : Answer(r)

\* An unrecovered panic ends the process.
Dead == panicked # "no" /\ UNCHANGED vars

Live == Handler \/ Select \/ Requester \/ Runtime \/ Connection

Next == (panicked = "no" /\ Live) \/ Dead

Spec == Init /\ [][Next]_vars

(***************************************************************************)
(* Goroutines that can run do run; select picks at random among the cases  *)
(* that are ready, so none is passed over for ever; time passes.  Requests,*)
(* answers and connections may never come.                                 *)
(***************************************************************************)
Running(A) == panicked = "no" /\ A

Fairness ==
    /\ WF_vars(Running(Handler))
    /\ \A r \in Data : SF_vars(Running(RequestControlInner(r)))
    /\ SF_vars(Running(TakeMsg)) /\ SF_vars(Running(TakeResp)) /\ SF_vars(Running(TakeTick))
    /\ SF_vars(Running(CloseInner))
    /\ WF_vars(Running(Tock)) /\ WF_vars(Running(TimerFires)) /\ WF_vars(Running(Forward))
    /\ WF_vars(Running(PumpWrite \/ PumpFails))

FairSpec == Spec /\ Fairness

-------------------------------------------------------------------------------
BusPcs == {"select", "push", "refuse", "evict", "track", "write", "reply", "tick",
           "expire"}

\* The bus holds a request that is in neither seqMsg nor the list.
InHand == IF busPc \in {"push", "refuse", "evict", "track"} THEN {cur} ELSE {}

\* The request the bus is telling that it failed: out of the list, or evicted.
Failing == IF busPc \in {"evict", "expire"} THEN {target} ELSE {}

\* Type invariant: the table's, and that of the bus and its channels, whose
\* lengths never pass the capacities they were made with.
TypeOK ==
    /\ SeqTypeOK
    /\ busPc \in BusPcs
    /\ cur \in Data \cup {Nil} /\ target \in Data \cup {Nil}
    /\ now \in Nat /\ clock \in Nat
    /\ l \in Seq(Data) /\ expired \in [Data -> Nat]
    /\ nextTick \in Nat /\ timerAt \in Nat \cup {Off}
    /\ timerC \in BOOLEAN /\ fwd \in BOOLEAN
    /\ seqMsg \in Seq(Data) /\ Len(seqMsg) <= MESSAGE_SIZE
    /\ resp \in Seq(Data) /\ Len(resp) <= MESSAGE_SIZE
    /\ reqPc \in [Data -> {"idle", "calling", "waiting", "done"}]
    /\ got \in [Data -> Data \cup {Nil, Err}]
    /\ conn \in {"on", "off"} /\ closers \in SUBSET Pumps
    /\ writeMsg \in Seq(Data) /\ Len(writeMsg) <= WRITE_SIZE
    /\ atDevice \in SUBSET Data /\ orphans \in SUBSET Data
    /\ issued \in Nat /\ issueNo \in [Data -> Nat] /\ slow \in Nat

\* A requester that waits is never forgotten: its request is queued, in the bus's
\* hand, or in the expired list, whatever was answered, evicted or timed out.
WaitingIsTracked ==
    \A r \in Data : reqPc[r] = "waiting" =>
        r \in Queued \cup InHand \cup Listed \cup Failing

\* Requests expire in the order of the list: only the front need be looked at.
ListSorted ==
    \A i, j \in 1 .. Len(l) : i < j => expired[l[i]] <= expired[l[j]]

\* Outside the tick's loop a tick is always on its way: the timer runs, or its
\* tick is in timer.C or with the forwarder.
TickComing == InTick \/ timerAt # Off \/ timerC \/ fwd

\* A running timer is set for a time no later than the front of the list expires,
\* but for what the handler of the last tick took: it sets the timer by a reading of
\* the clock it made at its start.  No request waits for the idle tick.
TickInTime ==
    ~ InTick /\ l # <<>> =>
        \/ timerAt # Off /\ timerAt <= expired[Head(l)] + slow
        \/ timerC \/ fwd

\* What has expired is found in time, however requests, evictions and late, early
\* and superfluous ticks follow each other: the list is in order, a tick is always
\* coming, and not later after the front expires than the bus was slow in its last
\* tick (bus.go:155-202).
ExpiryInTime == ListSorted /\ TickComing /\ TickInTime

\* A requester receives the answer to its own request, unless the ring of numbers
\* has come round in between: the two requests are MaxSize or more apart.
AnswersMatch ==
    \A r \in Data : got[r] \in Data \ {r} =>
        \/ issueNo[r] - issueNo[got[r]] >= MaxSize
        \/ issueNo[got[r]] - issueNo[r] >= MaxSize

\* Until the ring comes round, the answer to a request whose requester still waits
\* in the list finds it: deletions of others never make it unreachable.
WaitingIsFound ==
    panicked = "no" /\ issued <= MaxSize =>
        \A r \in Listed : reqPc[r] = "waiting" /\ ~(busPc = "reply" /\ target = r) =>
            GetData(requestId[r]) = r

\* No requester is told of a timeout before its request has been outstanding for
\* expiredDuration, late, early or superfluous as the ticks may be.
NoEarlyTimeout ==
    \A r \in Data :
        got[r] = Err /\ issueNo[r] > 0 /\ issued <= MaxSize => clock >= expired[r]

\* What stops the bus for good: a send to a requester that has gone, the loop over a
\* front that has not expired, the send on a full writeMsg whose writer waits for the
\* bus, the send on a full seqMsg, and a panic (bus.go:169, 191, 73, 79, seqmap.go:37).
SendsToGone == busPc \in {"refuse", "evict", "reply", "expire"} /\ reqPc[target] # "waiting"
Spins       == busPc = "tick" /\ l # <<>> /\ expired[Head(l)] > now
WriterGone  == busPc = "write" /\ Len(writeMsg) = WRITE_SIZE /\ "writer" \in closers
QueueFull   == busPc = "push" /\ Len(seqMsg) = MESSAGE_SIZE
Stopped == SendsToGone \/ Spins \/ WriterGone \/ QueueFull \/ panicked # "no"

\* Every request ends, with an answer, a refusal, an error or the timeout, unless the
\* bus is stopped in one of these five ways: nothing else keeps a requester waiting,
\* whatever is answered, evicted or lost.
WaitingEnds ==
    \A r \in Data : reqPc[r] = "waiting" ~> reqPc[r] = "done" \/ Stopped

(***************************************************************************)
(* "Cannot block in bus thread!" (bus.go:68): what the code does not keep. *)
(***************************************************************************)
\* The bus never sends to a requester that has gone: the send would never end.
NobodyGone ==
    busPc \in {"refuse", "evict", "reply", "expire"} => reqPc[target] = "waiting"

\* The loop over the expired list ends.
TickEnds == busPc = "tick" ~> busPc # "tick"
===============================================================================
