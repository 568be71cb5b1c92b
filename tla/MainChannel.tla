------------------------------ MODULE MainChannel ------------------------------
(***************************************************************************)
(* Device connections and the registry of users and devices                *)
(* (src/server/mainchannel.go and usermgr.go).  A connection has two       *)
(* goroutines, readPump and writePump; each asks the bus to close the      *)
(* connection when it returns.  The registry (bus.users and the devMap of  *)
(* each User) and the closing of a connection belong to the bus goroutine. *)
(*                                                                         *)
(* A request is a function that the bus runs later with the *User it found *)
(* when the request was made (RequestControlInner, bus.go): a *User that   *)
(* has left bus.users in between is still used.  Hence User objects have   *)
(* an identity here.  What is in a connection's wsMap is left out: nothing *)
(* is ever put in it.  readPump's send to bus.resp is in module Bus.       *)
(***************************************************************************)
EXTENDS Integers, Sequences

CONSTANTS
    Conns,         \* device connections, each made at most once
    Users,         \* user names
    Devices,       \* device ids
    None,          \* no user, no device, no connection, no object
    Script,        \* the handshakes each connection sends, [user, device], in order
    WRITE_SIZE,    \* capacity of writeMsg
    MaxObjects,    \* bound: how many User objects are made
    MaxRequests    \* bound: how many requests are made

Handshakes == [user : Users, device : Devices]

ASSUME ScriptAssumption   == Script \in [Conns -> Seq(Handshakes)]
ASSUME NoneAssumption     == None \notin Users \cup Devices \cup Conns
ASSUME BoundsAssumption   == WRITE_SIZE \in Nat \ {0} /\ MaxObjects \in Nat /\ MaxRequests \in Nat

VARIABLES
    users,      \* bus.users: the User object of each name, 0 if none
    devMap,     \* the devMap of each User object
    objects,    \* how many User objects have been made
    u,          \* DeviceConn.u
    deviceId,   \* DeviceConn.deviceId
    isClosed,   \* DeviceConn.isClosed; writeMsg is closed with it
    writeMsg,   \* DeviceConn.writeMsg
    wsOpen,     \* mainWs has not been closed by the server
    broken,     \* the peer or the network has given up
    rd,         \* where readPump is
    wr,         \* where writePump is
    shakes,     \* how many handshakes the connection has sent
    queue,      \* the requests the bus has yet to process: user object, device
    sending,    \* the connection whose writeMsg the bus is sending on, or None
    asked,      \* how many requests have been made
    panicked    \* the panic that ended the process, or "no"

registry == <<users, devMap, objects>>
identity == <<u, deviceId, shakes>>
closing  == <<isClosed, wsOpen, broken>>
requests == <<queue, sending, asked>>
vars == <<registry, identity, closing, writeMsg, rd, wr, requests, panicked>>

Objects == 1 .. MaxObjects

Request == "request"        \* a message to be forwarded to the device
HandshakeOk == "handshakeOk"

Init ==
    /\ users = [n \in Users |-> 0]
    /\ devMap = [o \in Objects |-> [d \in Devices |-> None]]
    /\ objects = 0
    /\ u = [c \in Conns |-> None] /\ deviceId = [c \in Conns |-> None]
    /\ shakes = [c \in Conns |-> 0]
    /\ isClosed = [c \in Conns |-> FALSE]
    /\ wsOpen = [c \in Conns |-> FALSE] /\ broken = [c \in Conns |-> FALSE]
    /\ writeMsg = [c \in Conns |-> <<>>]
    /\ rd = [c \in Conns |-> "off"] /\ wr = [c \in Conns |-> "off"]
    /\ queue = <<>> /\ sending = None /\ asked = 0
    /\ panicked = "no"

(***************************************************************************)
(* The network.                                                            *)
(***************************************************************************)
\* serveMainChannel: the upgrade succeeded, both pumps start.
Connect(c) ==
    /\ rd[c] = "off"
    /\ wsOpen' = [wsOpen EXCEPT ![c] = TRUE]
    /\ rd' = [rd EXCEPT ![c] = "read"] /\ wr' = [wr EXCEPT ![c] = "wait"]
    /\ UNCHANGED <<registry, identity, isClosed, broken, writeMsg, requests, panicked>>

\* The peer closes, the network fails, or no ping comes within pongWait.
Break(c) ==
    /\ rd[c] # "off" /\ ~broken[c]
    /\ broken' = [broken EXCEPT ![c] = TRUE]
    /\ UNCHANGED <<registry, identity, isClosed, wsOpen, writeMsg, rd, wr, requests, panicked>>

(***************************************************************************)
(* readPump.                                                               *)
(***************************************************************************)
\* A handshake is read.  u and deviceId are written outside the bus, which reads
\* them in CloseInner without synchronisation: each write is a step.
ReadHandshake(c) ==
    /\ rd[c] = "read" /\ wsOpen[c] /\ shakes[c] < Len(Script[c])
    /\ shakes' = [shakes EXCEPT ![c] = @ + 1]
    /\ u' = [u EXCEPT ![c] = Script[c][shakes[c] + 1].user]
    /\ rd' = [rd EXCEPT ![c] = "device"]
    /\ UNCHANGED <<registry, deviceId, closing, writeMsg, wr, requests, panicked>>

SetDeviceId(c) ==
    /\ rd[c] = "device"
    /\ deviceId' = [deviceId EXCEPT ![c] = Script[c][shakes[c]].device]
    /\ rd' = [rd EXCEPT ![c] = "register"]
    /\ UNCHANGED <<registry, u, shakes, closing, writeMsg, wr, requests, panicked>>

\* devConn.writeMsg <- handshakeOk: a panic if the bus has closed the channel.
AnswerHandshake(c) ==
    /\ rd[c] = "answer"
    /\ IF isClosed[c]
       THEN /\ panicked' = "readPump sends on closed channel"
            /\ UNCHANGED <<writeMsg, rd>>
       ELSE /\ Len(writeMsg[c]) < WRITE_SIZE
            /\ writeMsg' = [writeMsg EXCEPT ![c] = Append(@, HandshakeOk)]
            /\ rd' = [rd EXCEPT ![c] = "read"]
            /\ UNCHANGED panicked
    /\ UNCHANGED <<registry, identity, closing, wr, requests>>

\* Faulty variant: the pump returns without asking for the close.
ReadFailsSilently(c) ==
    /\ rd[c] = "read" /\ (broken[c] \/ ~wsOpen[c])
    /\ rd' = [rd EXCEPT ![c] = "gone"]
    /\ UNCHANGED <<registry, identity, closing, writeMsg, wr, requests, panicked>>

\* ReadMessage fails; the deferred Close waits for the bus.
ReadFails(c) ==
    /\ rd[c] = "read" /\ (broken[c] \/ ~wsOpen[c])
    /\ rd' = [rd EXCEPT ![c] = "closing"]
    /\ UNCHANGED <<registry, identity, closing, writeMsg, wr, requests, panicked>>

(***************************************************************************)
(* writePump.  A closed channel yields what is left in it; after that the  *)
(* pump receives "not ok" for ever and goes round without a step.          *)
(***************************************************************************)
\* Writing to a broken connection may still appear to succeed.
WriteMessage(c) ==
    /\ wr[c] = "wait" /\ writeMsg[c] # <<>> /\ wsOpen[c]
    /\ writeMsg' = [writeMsg EXCEPT ![c] = Tail(@)]
    /\ UNCHANGED <<registry, identity, closing, rd, wr, requests, panicked>>

WriteFails(c) ==
    /\ wr[c] = "wait" /\ writeMsg[c] # <<>> /\ (broken[c] \/ ~wsOpen[c])
    /\ writeMsg' = [writeMsg EXCEPT ![c] = Tail(@)]
    /\ wr' = [wr EXCEPT ![c] = "closing"]
    /\ UNCHANGED <<registry, identity, closing, rd, requests, panicked>>

(***************************************************************************)
(* The bus goroutine.                                                      *)
(***************************************************************************)
AtSelect == sending = None

\* The User object RegistDeviceInner uses: the one it finds, or a new one.
UserFor(c) == IF users[u[c]] # 0 THEN users[u[c]] ELSE objects + 1

\* RegistDevice closes the websocket of the connection it replaces, be it its own.
RegistDevice(c, o) ==
    /\ wsOpen' = [x \in Conns |-> wsOpen[x] /\ x # devMap[o][deviceId[c]]]
    /\ devMap' = [devMap EXCEPT ![o][deviceId[c]] = c]

RegistDeviceInner(c) ==
    /\ AtSelect /\ rd[c] = "register"
    /\ UserFor(c) \in Objects
    /\ users' = [users EXCEPT ![u[c]] = UserFor(c)]
    /\ objects' = IF users[u[c]] # 0 THEN objects ELSE objects + 1
    /\ RegistDevice(c, UserFor(c))
    /\ rd' = [rd EXCEPT ![c] = "answer"]
    /\ UNCHANGED <<identity, isClosed, broken, writeMsg, wr, requests, panicked>>

\* The connection that UnregistDevice finds under the id of c: c, a later
\* connection of the same device, or none.
Unregisters(c) ==
    IF u[c] # None /\ users[u[c]] # 0 /\ deviceId[c] # None
    THEN devMap[users[u[c]]][deviceId[c]]
    ELSE None

\* Faulty variants: the registry keeps the connection; the swap guards the closing
\* of the channel only, so that the other pump's call unregisters once more.
CloseConnKeepsEntry(c) ==
    /\ isClosed' = [isClosed EXCEPT ![c] = TRUE]
    /\ wsOpen' = [wsOpen EXCEPT ![c] = FALSE]
    /\ UNCHANGED <<devMap, users, panicked>>

CloseConnAgain(c) ==
    /\ isClosed' = [isClosed EXCEPT ![c] = TRUE]
    /\ wsOpen' = [x \in Conns |-> wsOpen[x] /\ x \notin {c, Unregisters(c)}]
    /\ devMap' = IF Unregisters(c) # None
                 THEN [devMap EXCEPT ![users[u[c]]][deviceId[c]] = None]
                 ELSE devMap
    /\ users' = IF u[c] # None THEN [users EXCEPT ![u[c]] = 0] ELSE users
    /\ UNCHANGED panicked

\* CloseInner past the swap of isClosed: the channel is closed, the device id is
\* unregistered whoever holds it, and the whole User is dropped.
CloseConn(c) ==
    IF isClosed[c]
    THEN UNCHANGED <<isClosed, wsOpen, devMap, users, panicked>>
    ELSE /\ isClosed' = [isClosed EXCEPT ![c] = TRUE]
         /\ wsOpen' = [x \in Conns |-> wsOpen[x] /\ x \notin {c, Unregisters(c)}]
         /\ devMap' = IF Unregisters(c) # None
                      THEN [devMap EXCEPT ![users[u[c]]][deviceId[c]] = None]
                      ELSE devMap
         /\ users' = IF u[c] # None THEN [users EXCEPT ![u[c]] = 0] ELSE users
         /\ UNCHANGED panicked

\* CloseInner, for the pump that waits in Close.
CloseForReader(c) ==
    /\ AtSelect /\ rd[c] = "closing"
    /\ rd' = [rd EXCEPT ![c] = "gone"]
    /\ CloseConn(c)
    /\ UNCHANGED <<objects, identity, broken, writeMsg, wr, requests>>

CloseForWriter(c) ==
    /\ AtSelect /\ wr[c] = "closing"
    /\ wr' = [wr EXCEPT ![c] = "gone"]
    /\ CloseConn(c)
    /\ UNCHANGED <<objects, identity, broken, writeMsg, rd, requests>>

\* A request for a known user is queued with the User object it was found with.
RequestControlInner(n, d) ==
    /\ AtSelect /\ asked < MaxRequests /\ users[n] # 0
    /\ asked' = asked + 1
    /\ queue' = Append(queue, [user |-> users[n], device |-> d])
    /\ UNCHANGED <<registry, identity, closing, writeMsg, rd, wr, sending, panicked>>

\* processHandler: look the device up in that object, ...
Process ==
    /\ AtSelect /\ queue # <<>>
    /\ queue' = Tail(queue)
    /\ LET c == devMap[Head(queue).user][Head(queue).device]
       IN  IF c # None /\ isClosed[c]
           THEN panicked' = "bus sends on closed channel" /\ UNCHANGED sending
           ELSE sending' = c /\ UNCHANGED panicked
    /\ UNCHANGED <<registry, identity, closing, writeMsg, rd, wr, asked>>

\* Faulty variant: the send does not wait for room.
SendUnbounded ==
    /\ sending # None
    /\ writeMsg' = [writeMsg EXCEPT ![sending] = Append(@, Request)]
    /\ sending' = None
    /\ UNCHANGED <<registry, identity, closing, rd, wr, queue, asked, panicked>>

\* ... and send, once there is room.
Send ==
    /\ sending # None /\ Len(writeMsg[sending]) < WRITE_SIZE
    /\ writeMsg' = [writeMsg EXCEPT ![sending] = Append(@, Request)]
    /\ sending' = None
    /\ UNCHANGED <<registry, identity, closing, rd, wr, queue, asked, panicked>>

-------------------------------------------------------------------------------
Reader(c) == SetDeviceId(c) \/ AnswerHandshake(c) \/ ReadFails(c)

Writer(c) == WriteMessage(c) \/ WriteFails(c)

Bus(c) == RegistDeviceInner(c) \/ CloseForReader(c) \/ CloseForWriter(c)

\* A panic is not recovered: the process is gone.
Dead == panicked # "no" /\ UNCHANGED vars

Live ==
    \/ \E c \in Conns : Connect(c) \/ Break(c) \/ ReadHandshake(c)
    \/ \E c \in Conns : Reader(c) \/ Writer(c) \/ Bus(c)
    \/ \E n \in Users, d \in Devices : RequestControlInner(n, d)
    \/ Process \/ Send

Next == (panicked = "no" /\ Live) \/ Dead

Spec == Init /\ [][Next]_vars

Running(A) == panicked = "no" /\ A

(***************************************************************************)
(* Pumps run; the bus takes a call that is offered again and again.        *)
(***************************************************************************)
Fairness ==
    /\ \A c \in Conns :
        /\ WF_vars(Running(SetDeviceId(c))) /\ SF_vars(Running(AnswerHandshake(c)))
        /\ WF_vars(Running(ReadFails(c)))   /\ WF_vars(Running(Writer(c)))
        /\ SF_vars(Running(RegistDeviceInner(c)))
        /\ SF_vars(Running(CloseForReader(c))) /\ SF_vars(Running(CloseForWriter(c)))
    /\ SF_vars(Running(Process)) /\ WF_vars(Running(Send))

FairSpec == Spec /\ Fairness

-------------------------------------------------------------------------------
ReaderPcs == {"off", "read", "device", "register", "answer", "closing", "gone"}
WriterPcs == {"off", "wait", "closing", "gone"}
Panics == {"no", "readPump sends on closed channel", "bus sends on closed channel"}

\* Type invariant of the registry, the connections and the requests in flight.
TypeOK ==
    /\ users \in [Users -> 0 .. objects] /\ objects \in 0 .. MaxObjects
    /\ devMap \in [Objects -> [Devices -> Conns \cup {None}]]
    /\ u \in [Conns -> Users \cup {None}] /\ deviceId \in [Conns -> Devices \cup {None}]
    /\ shakes \in [Conns -> Nat] /\ \A c \in Conns : shakes[c] <= Len(Script[c])
    /\ isClosed \in [Conns -> BOOLEAN] /\ wsOpen \in [Conns -> BOOLEAN]
    /\ broken \in [Conns -> BOOLEAN]
    /\ writeMsg \in [Conns -> Seq({Request, HandshakeOk})]
    /\ \A c \in Conns : Len(writeMsg[c]) <= WRITE_SIZE
    /\ rd \in [Conns -> ReaderPcs] /\ wr \in [Conns -> WriterPcs]
    /\ queue \in Seq([user : Objects, device : Devices])
    /\ sending \in Conns \cup {None} /\ asked \in 0 .. MaxRequests
    /\ panicked \in Panics

\* The connections that a request made now could be sent on.
Registered == {devMap[users[n]][d] : n \in {n \in Users : users[n] # 0}, d \in Devices} \ {None}

\* A User in bus.users leads only to connections the bus has not closed and whose
\* websocket it has not closed either.  Holds of connections that send one handshake.
RegisteredIsOpen == \A c \in Registered : ~isClosed[c] /\ wsOpen[c]

\* A connection loses its place in the registry to a later one of the same device,
\* or in the step that closes, for the first time, it or another connection of its
\* user: a sibling's close, or the late one of its own predecessor, takes it along
\* (mainchannel.go:49-58).  The second of a connection's two pumps takes nothing
\* more, whoever has registered since.  For connections that send one handshake.
LostOnlyByClosing ==
    [][\A c \in Registered \ Registered' :
          \/ \E x \in Registered' : u[x] = u[c] /\ deviceId[x] = deviceId[c]
          \/ \E x \in Conns : u[x] = u[c] /\ ~isClosed[x] /\ isClosed'[x]]_vars

\* The bus sends on a closed channel only if two devices of one user were there:
\* reconnections of a device alone, with requests for it queued across them, do
\* not make it (bus.go:72, mainchannel.go:58).
PanicNeedsSibling ==
    panicked = "bus sends on closed channel" =>
        \E c, x \in Conns : /\ u[c] # None /\ u[x] = u[c]
                            /\ {deviceId[c], deviceId[x]} \subseteq Devices
                            /\ deviceId[x] # deviceId[c]

\* As long as the bus keeps coming back to its select, a connection that breaks is
\* closed: one of its pumps notices and the bus takes its call.
BrokenIsClosed ==
    []<>(AtSelect /\ panicked = "no") =>
        \A c \in Conns : broken[c] ~> isClosed[c]
===============================================================================
