-------------------------- MODULE MainChannelProofs --------------------------
(***************************************************************************)
(* Theorems about device connections and their registry, for any numbers   *)
(* of connections, users and devices, any capacity and any handshakes.     *)
(***************************************************************************)
EXTENDS MainChannel, TLAPS

(***************************************************************************)
(* Types, and who is known by then.                                        *)
(***************************************************************************)
\* A connection that asks for registration knows its user, then its device.
Identified ==
    \A c \in Conns :
        /\ rd[c] \in {"device", "register", "answer"} => u[c] \in Users /\ shakes[c] >= 1
        /\ rd[c] \in {"register", "answer"} => deviceId[c] \in Devices

IInv == TypeOK /\ Identified

LEMMA InitIInv == Init => IInv
<1> SUFFICES ASSUME Init PROVE IInv
  OBVIOUS
<1>1. TypeOK
  <2>1. \A c \in Conns : Script[c] \in Seq(Handshakes)
    BY ScriptAssumption
  <2> QED
    BY <2>1, BoundsAssumption DEF Init, TypeOK, ReaderPcs, WriterPcs, Panics, Objects
<1>2. Identified
  BY DEF Init, Identified
<1> QED
  BY <1>1, <1>2 DEF IInv

\* The handshake a connection is reading names a user and a device.
LEMMA HandshakeTyped ==
    ASSUME NEW c \in Conns, NEW i \in 1 .. Len(Script[c])
    PROVE  Script[c][i].user \in Users /\ Script[c][i].device \in Devices
<1>1. Script[c] \in Seq(Handshakes)
  BY ScriptAssumption
<1>2. Script[c][i] \in Handshakes
  BY <1>1
<1> QED
  BY <1>2 DEF Handshakes

\* What the network and the pumps do outside the bus.
LEMMA PumpsKeep ==
    ASSUME IInv, NEW c \in Conns,
           Connect(c) \/ Break(c) \/ ReadHandshake(c) \/ Reader(c) \/ Writer(c)
    PROVE  IInv'
<1> USE DEF registry, identity, closing, requests
<1>s. Script[c] \in Seq(Handshakes) /\ Len(Script[c]) \in Nat
  BY ScriptAssumption
<1>1. CASE Connect(c)
  <2>1. TypeOK'
    BY <1>1 DEF Connect, IInv, TypeOK, ReaderPcs, WriterPcs
  <2>2. Identified'
    BY <1>1 DEF Connect, IInv, TypeOK, Identified
  <2> QED
    BY <1>1, <2>1, <2>2 DEF Connect, IInv
<1>2. CASE Break(c)
  <2>1. TypeOK'
    BY <1>2 DEF Break, IInv, TypeOK
  <2> QED
    BY <1>2, <2>1 DEF Break, IInv, Identified
<1>3. CASE ReadHandshake(c)
  <2>1. shakes[c] \in Nat /\ shakes[c] + 1 \in 1 .. Len(Script[c])
    BY <1>3, <1>s DEF ReadHandshake, IInv, TypeOK
  <2>2. Script[c][shakes[c] + 1].user \in Users
    BY <2>1, HandshakeTyped
  <2>a. u' \in [Conns -> Users \cup {None}] /\ rd' \in [Conns -> ReaderPcs]
    BY <1>3, <2>2 DEF ReadHandshake, IInv, TypeOK, ReaderPcs
  <2>b. shakes' \in [Conns -> Nat] /\ \A x \in Conns : shakes'[x] <= Len(Script[x])
    BY <1>3, <2>1, <1>s DEF ReadHandshake, IInv, TypeOK
  <2>3. TypeOK'
    BY <1>3, <2>a, <2>b DEF ReadHandshake, IInv, TypeOK
  <2>4. Identified'
    BY <1>3, <2>1, <2>2 DEF ReadHandshake, IInv, TypeOK, Identified
  <2> QED
    BY <1>3, <2>3, <2>4 DEF ReadHandshake, IInv
<1>4. CASE SetDeviceId(c)
  <2>1. shakes[c] \in 1 .. Len(Script[c])
    BY <1>4, <1>s DEF SetDeviceId, IInv, TypeOK, Identified
  <2>2. Script[c][shakes[c]].device \in Devices
    BY <2>1, HandshakeTyped
  <2>3. TypeOK'
    BY <1>4, <2>2 DEF SetDeviceId, IInv, TypeOK, ReaderPcs
  <2>4. Identified'
    BY <1>4, <2>2 DEF SetDeviceId, IInv, TypeOK, Identified
  <2> QED
    BY <1>4, <2>3, <2>4 DEF SetDeviceId, IInv
<1>5. CASE AnswerHandshake(c)
  <2>1. CASE isClosed[c]
    <3>1. TypeOK'
      BY <1>5, <2>1 DEF AnswerHandshake, IInv, TypeOK, Panics
    <3> QED
      BY <1>5, <2>1, <3>1 DEF AnswerHandshake, IInv, Identified
  <2>2. CASE ~isClosed[c]
    <3>1. /\ writeMsg[c] \in Seq({Request, HandshakeOk})
          /\ Len(writeMsg[c]) < WRITE_SIZE /\ WRITE_SIZE \in Nat
      BY <1>5, <2>2, BoundsAssumption DEF AnswerHandshake, IInv, TypeOK
    <3>2. /\ Append(writeMsg[c], HandshakeOk) \in Seq({Request, HandshakeOk})
          /\ Len(Append(writeMsg[c], HandshakeOk)) <= WRITE_SIZE
      BY <3>1
    <3>3. writeMsg' = [writeMsg EXCEPT ![c] = Append(writeMsg[c], HandshakeOk)]
      BY <1>5, <2>2 DEF AnswerHandshake
    <3>4. /\ writeMsg' \in [Conns -> Seq({Request, HandshakeOk})]
          /\ \A x \in Conns : Len(writeMsg'[x]) <= WRITE_SIZE
      BY <3>2, <3>3 DEF IInv, TypeOK
    <3>5. TypeOK'
      BY <1>5, <2>2, <3>4 DEF AnswerHandshake, IInv, TypeOK, ReaderPcs
    <3>6. Identified'
      BY <1>5, <2>2 DEF AnswerHandshake, IInv, TypeOK, Identified
    <3> QED
      BY <1>5, <2>2, <3>5, <3>6 DEF AnswerHandshake, IInv
  <2> QED
    BY <2>1, <2>2
<1>6. CASE ReadFails(c)
  <2>1. TypeOK'
    BY <1>6 DEF ReadFails, IInv, TypeOK, ReaderPcs
  <2>2. Identified'
    BY <1>6 DEF ReadFails, IInv, TypeOK, Identified
  <2> QED
    BY <1>6, <2>1, <2>2 DEF ReadFails, IInv
<1>7. CASE Writer(c)
  <2>1. writeMsg[c] \in Seq({Request, HandshakeOk}) /\ writeMsg[c] # <<>>
        /\ Len(writeMsg[c]) <= WRITE_SIZE /\ WRITE_SIZE \in Nat
    BY <1>7, BoundsAssumption DEF Writer, WriteMessage, WriteFails, IInv, TypeOK
  <2>2. Tail(writeMsg[c]) \in Seq({Request, HandshakeOk}) /\ Len(Tail(writeMsg[c])) <= WRITE_SIZE
    BY <2>1
  <2>3. writeMsg' = [writeMsg EXCEPT ![c] = Tail(writeMsg[c])]
    BY <1>7 DEF Writer, WriteMessage, WriteFails
  <2>4. /\ writeMsg' \in [Conns -> Seq({Request, HandshakeOk})]
        /\ \A x \in Conns : Len(writeMsg'[x]) <= WRITE_SIZE
    BY <2>2, <2>3 DEF IInv, TypeOK
  <2>5. wr' \in [Conns -> WriterPcs]
    BY <1>7 DEF Writer, WriteMessage, WriteFails, IInv, TypeOK, WriterPcs
  <2>6. TypeOK'
    BY <1>7, <2>4, <2>5 DEF Writer, WriteMessage, WriteFails, IInv, TypeOK
  <2> QED
    BY <1>7, <2>6 DEF Writer, WriteMessage, WriteFails, IInv, Identified
<1> QED
  BY <1>1, <1>2, <1>3, <1>4, <1>5, <1>6, <1>7 DEF Reader

\* The closing of a connection keeps the types.
LEMMA CloseConnTyped ==
    ASSUME IInv, NEW c \in Conns, CloseConn(c)
    PROVE  /\ isClosed' \in [Conns -> BOOLEAN] /\ wsOpen' \in [Conns -> BOOLEAN]
           /\ devMap' \in [Objects -> [Devices -> Conns \cup {None}]]
           /\ users' \in [Users -> 0 .. objects]
           /\ panicked' = panicked
<1>0. objects \in Nat /\ MaxObjects \in Nat /\ objects <= MaxObjects
  BY BoundsAssumption DEF IInv, TypeOK
<1>1. CASE isClosed[c]
  <2>1. UNCHANGED <<isClosed, wsOpen, devMap, users, panicked>>
    BY <1>1 DEF CloseConn
  <2> QED
    BY <2>1 DEF IInv, TypeOK
<1>2. CASE ~isClosed[c]
  <2>1. isClosed' \in [Conns -> BOOLEAN]
    BY <1>2 DEF CloseConn, IInv, TypeOK
  <2>2. wsOpen' = [x \in Conns |-> wsOpen[x] /\ x \notin {c, Unregisters(c)}]
    BY <1>2 DEF CloseConn
  <2>3. wsOpen' \in [Conns -> BOOLEAN]
    BY <2>2
  <2>4. devMap' \in [Objects -> [Devices -> Conns \cup {None}]]
    <3>1. devMap' = [devMap EXCEPT ![users[u[c]]][deviceId[c]] = None] \/ devMap' = devMap
      BY <1>2 DEF CloseConn
    <3>2. devMap \in [Objects -> [Devices -> Conns \cup {None}]]
      BY DEF IInv, TypeOK
    <3> QED
      BY <3>1, <3>2
  <2>5. users' \in [Users -> 0 .. objects]
    <3>1. users' = [users EXCEPT ![u[c]] = 0] \/ users' = users
      BY <1>2 DEF CloseConn
    <3>2. users \in [Users -> 0 .. objects] /\ 0 \in 0 .. objects
      BY <1>0 DEF IInv, TypeOK
    <3> QED
      BY <3>1, <3>2
  <2> QED
    BY <1>2, <2>1, <2>3, <2>4, <2>5 DEF CloseConn
<1> QED
  BY <1>1, <1>2

LEMMA BusKeeps ==
    ASSUME IInv, NEW c \in Conns, Bus(c)
    PROVE  IInv'
<1> USE DEF registry, identity, closing, requests
<1>1. CASE RegistDeviceInner(c)
  <2>1. u[c] \in Users /\ deviceId[c] \in Devices
    BY <1>1 DEF RegistDeviceInner, IInv, Identified
  <2>2. objects \in Nat /\ MaxObjects \in Nat /\ users[u[c]] \in 0 .. objects
    BY <2>1, BoundsAssumption DEF IInv, TypeOK
  <2>3. UserFor(c) \in Objects /\ UserFor(c) \in 0 .. objects' /\ objects' \in 0 .. MaxObjects
        /\ objects <= objects' /\ objects' \in Nat
    <3>1. UserFor(c) \in 1 .. MaxObjects
      BY <1>1 DEF RegistDeviceInner, Objects
    <3>2. objects \in 0 .. MaxObjects
      BY DEF IInv, TypeOK
    <3>3. CASE users[u[c]] # 0
      BY <1>1, <2>2, <3>1, <3>2, <3>3 DEF RegistDeviceInner, UserFor, Objects
    <3>4. CASE users[u[c]] = 0
      BY <1>1, <2>2, <3>1, <3>2, <3>4 DEF RegistDeviceInner, UserFor, Objects
    <3> QED
      BY <3>3, <3>4
  <2>4. users' \in [Users -> 0 .. objects']
    BY <1>1, <2>1, <2>2, <2>3 DEF RegistDeviceInner, IInv, TypeOK
  <2>5. devMap' \in [Objects -> [Devices -> Conns \cup {None}]]
    BY <1>1, <2>1, <2>3 DEF RegistDeviceInner, RegistDevice, IInv, TypeOK
  <2>a. wsOpen' = [x \in Conns |-> wsOpen[x] /\ x # devMap[UserFor(c)][deviceId[c]]]
    BY <1>1 DEF RegistDeviceInner, RegistDevice
  <2>6. wsOpen' \in [Conns -> BOOLEAN]
    BY <2>a
  <2>7. TypeOK'
    BY <1>1, <2>3, <2>4, <2>5, <2>6 DEF RegistDeviceInner, IInv, TypeOK, ReaderPcs
  <2>8. Identified'
    BY <1>1 DEF RegistDeviceInner, IInv, TypeOK, Identified
  <2> QED
    BY <1>1, <2>7, <2>8 DEF RegistDeviceInner, IInv
<1>2. CASE CloseForReader(c)
  <2>1. TypeOK'
    BY <1>2, CloseConnTyped DEF CloseForReader, IInv, TypeOK, ReaderPcs
  <2>2. Identified'
    BY <1>2 DEF CloseForReader, IInv, TypeOK, Identified
  <2> QED
    BY <2>1, <2>2 DEF IInv
<1>3. CASE CloseForWriter(c)
  <2>1. TypeOK'
    BY <1>3, CloseConnTyped DEF CloseForWriter, IInv, TypeOK, WriterPcs
  <2>2. Identified'
    BY <1>3 DEF CloseForWriter, IInv, Identified
  <2> QED
    BY <2>1, <2>2 DEF IInv
<1> QED
  BY <1>1, <1>2, <1>3 DEF Bus

LEMMA TakeFirst ==
    ASSUME NEW S, NEW q \in Seq(S), q # <<>>
    PROVE  Head(q) \in S /\ Tail(q) \in Seq(S)
  OBVIOUS

LEMMA RequestsKeep ==
    ASSUME IInv, (\E n \in Users, d \in Devices : RequestControlInner(n, d)) \/ Process \/ Send
    PROVE  IInv'
<1> USE DEF registry, identity, closing, requests
<1>0. objects \in Nat /\ MaxObjects \in Nat /\ MaxRequests \in Nat /\ WRITE_SIZE \in Nat
  BY BoundsAssumption DEF IInv, TypeOK
<1>1. ASSUME NEW n \in Users, NEW d \in Devices, RequestControlInner(n, d) PROVE IInv'
  <2>1. users[n] \in Objects
    BY <1>0, <1>1 DEF RequestControlInner, IInv, TypeOK, Objects
  <2>2. queue' \in Seq([user : Objects, device : Devices])
    BY <1>1, <2>1 DEF RequestControlInner, IInv, TypeOK
  <2>3. asked' \in 0 .. MaxRequests
    BY <1>0, <1>1 DEF RequestControlInner, IInv, TypeOK
  <2>4. TypeOK'
    BY <1>1, <2>2, <2>3 DEF RequestControlInner, IInv, TypeOK
  <2> QED
    BY <1>1, <2>4 DEF RequestControlInner, IInv, Identified
<1>2. CASE Process
  <2> DEFINE c == devMap[Head(queue).user][Head(queue).device]
  <2>1. Head(queue) \in [user : Objects, device : Devices]
        /\ queue' \in Seq([user : Objects, device : Devices])
    <3>1. queue \in Seq([user : Objects, device : Devices]) /\ queue # <<>> /\ queue' = Tail(queue)
      BY <1>2 DEF Process, IInv, TypeOK
    <3> QED
      BY <3>1, TakeFirst
  <2>2. c \in Conns \cup {None}
    BY <2>1 DEF IInv, TypeOK
  <2>3. CASE c # None /\ isClosed[c]
    <3>1. panicked' = "bus sends on closed channel" /\ sending' = sending
      BY <1>2, <2>3 DEF Process
    <3>2. TypeOK'
      BY <1>2, <2>1, <3>1 DEF Process, IInv, TypeOK, Panics
    <3> QED
      BY <1>2, <3>1, <3>2 DEF Process, IInv, Identified
  <2>4. CASE ~(c # None /\ isClosed[c])
    <3>1. sending' = c /\ panicked' = panicked
      BY <1>2, <2>4 DEF Process
    <3>2. TypeOK'
      BY <1>2, <2>1, <2>2, <3>1 DEF Process, IInv, TypeOK
    <3> QED
      BY <1>2, <2>4, <3>1, <3>2 DEF Process, IInv, Identified
  <2> QED
    BY <2>3, <2>4
<1>3. CASE Send
  <2>1. sending \in Conns /\ writeMsg[sending] \in Seq({Request, HandshakeOk})
        /\ Len(writeMsg[sending]) < WRITE_SIZE
    BY <1>3 DEF Send, IInv, TypeOK
  <2>2. /\ Append(writeMsg[sending], Request) \in Seq({Request, HandshakeOk})
        /\ Len(Append(writeMsg[sending], Request)) <= WRITE_SIZE
    BY <1>0, <2>1
  <2>3. /\ writeMsg' \in [Conns -> Seq({Request, HandshakeOk})]
        /\ \A x \in Conns : Len(writeMsg'[x]) <= WRITE_SIZE
    BY <1>3, <2>1, <2>2 DEF Send, IInv, TypeOK
  <2>4. TypeOK'
    BY <1>3, <2>3 DEF Send, IInv, TypeOK
  <2> QED
    BY <1>3, <2>4 DEF Send, IInv, Identified
<1> QED
  BY <1>1, <1>2, <1>3

LEMMA StepIInv == IInv /\ [Next]_vars => IInv'
<1>1. IInv /\ UNCHANGED vars => IInv'
  BY DEF IInv, TypeOK, Identified, vars, registry, identity, closing, requests
<1>2. IInv /\ Live => IInv'
  BY PumpsKeep, BusKeeps, RequestsKeep DEF Live
<1> QED
  BY <1>1, <1>2 DEF Next, Dead

\* The registry, the connections and the channels keep their types, and no
\* channel grows past its capacity (mainchannel.go:22-31, usermgr.go).
THEOREM TypeCorrect == Spec => []TypeOK
<1>1. IInv => TypeOK
  BY DEF IInv
<1> QED
  BY InitIInv, StepIInv, <1>1, PTL DEF Spec

(***************************************************************************)
(* Connections that send one handshake each, as the devices do.            *)
(***************************************************************************)
OneHandshake == \A c \in Conns : Len(Script[c]) <= 1

\* The bus has heard of the connection, or not yet.
Known(c) == shakes[c] >= 1 /\ rd[c] \notin {"off", "device", "register"}
Young(c) == rd[c] \in {"off", "device", "register"} \/ (rd[c] = "read" /\ shakes[c] = 0)

\* No two users share an object, and objects not yet made are empty.
Distinct ==
    /\ \A n, m \in Users : users[n] # 0 /\ users[n] = users[m] => n = m
    /\ \A o \in Objects, d \in Devices : o > objects => devMap[o][d] = None

\* Who is entered anywhere is known, under its own id ...
Entries ==
    \A o \in Objects, d \in Devices, c \in Conns :
        devMap[o][d] = c => Known(c) /\ u[c] \in Users /\ deviceId[c] = d

\* ... and, in an object that is in use, under its own user, and open.
Current ==
    \A n \in Users, d \in Devices, c \in Conns :
        users[n] # 0 /\ devMap[users[n]][d] = c => u[c] = n /\ ~isClosed[c] /\ wsOpen[c]

\* A connection the bus has not heard of cannot be closed by it.
YoungOpen ==
    \A c \in Conns : Young(c) =>
        /\ ~isClosed[c] /\ writeMsg[c] = <<>> /\ wr[c] \in {"off", "wait"} /\ sending # c
        /\ rd[c] # "off" => wsOpen[c]

Named ==
    \A c \in Conns :
        /\ u[c] # None => shakes[c] >= 1
        /\ Known(c) => u[c] \in Users /\ deviceId[c] \in Devices
        /\ rd[c] = "off" => shakes[c] = 0

\* An object out of use holds a connection only if its user had another device.
Sibling(c) == \E x \in Conns : Known(x) /\ u[x] = u[c] /\ deviceId[x] # deviceId[c]
Stale ==
    \A o \in Objects, d \in Devices, c \in Conns :
        devMap[o][d] = c /\ users[u[c]] # o => Sibling(c)

RInv ==
    /\ Distinct /\ Entries /\ Current /\ YoungOpen /\ Named /\ Stale
    /\ PanicNeedsSibling

LEMMA InitRInv == Init => RInv
<1> SUFFICES ASSUME Init PROVE RInv
  OBVIOUS
<1>1. \A o \in Objects, d \in Devices : devMap[o][d] = None
  BY DEF Init
<1>2. None \notin Conns
  BY NoneAssumption
<1>3. Distinct /\ Entries /\ Current /\ Stale
  BY <1>1, <1>2 DEF Init, Distinct, Entries, Current, Stale
<1>4. YoungOpen /\ Named /\ PanicNeedsSibling
  BY <1>2 DEF Init, YoungOpen, Named, PanicNeedsSibling, Known
<1> QED
  BY <1>3, <1>4 DEF RInv

\* What leaves the registry alone and forgets nothing keeps the invariant, if it
\* keeps the parts about the single connection.
LEMMA RegistryLeft ==
    ASSUME IInv, RInv, UNCHANGED <<users, devMap, objects, isClosed>>,
           \A x \in Conns : Known(x) => Known(x)' /\ u'[x] = u[x] /\ deviceId'[x] = deviceId[x],
           \A x \in Conns : isClosed[x] => u'[x] = u[x],
           \A x \in Conns : Known(x) /\ wsOpen[x] => wsOpen'[x],
           YoungOpen', Named', PanicNeedsSibling'
    PROVE  RInv'
<1>0. objects \in Nat /\ users \in [Users -> 0 .. objects] /\ objects <= MaxObjects
      /\ MaxObjects \in Nat
  BY BoundsAssumption DEF IInv, TypeOK
<1>1. Distinct'
  BY DEF RInv, Distinct
<1>2. Entries'
  BY DEF RInv, Entries
<1>3. Current'
  <2>1. \A n \in Users : users[n] # 0 => users[n] \in Objects
    BY <1>0 DEF Objects
  <2> QED
    BY <2>1 DEF RInv, Entries, Current
<1>4. Stale'
  <2> SUFFICES ASSUME NEW o \in Objects, NEW d \in Devices, NEW c \in Conns,
                      devMap[o][d] = c, users[u'[c]] # o
               PROVE  Sibling(c)'
    BY DEF Stale
  <2>1. Known(c) /\ u'[c] = u[c] /\ deviceId'[c] = deviceId[c]
    BY DEF RInv, Entries
  <2>2. PICK x \in Conns : Known(x) /\ u[x] = u[c] /\ deviceId[x] # deviceId[c]
    BY <2>1 DEF RInv, Stale, Sibling
  <2>3. Known(x)' /\ u'[x] = u[x] /\ deviceId'[x] = deviceId[x]
    BY <2>2
  <2> QED
    BY <2>1, <2>2, <2>3 DEF Sibling
<1> QED
  BY <1>1, <1>2, <1>3, <1>4 DEF RInv

LEMMA PumpsKeepRegistry ==
    ASSUME OneHandshake, IInv, RInv, panicked = "no", NEW c \in Conns,
           Connect(c) \/ Break(c) \/ ReadHandshake(c) \/ Reader(c) \/ Writer(c)
    PROVE  RInv'
<1> USE DEF registry, identity, closing, requests
<1>t. /\ rd \in [Conns -> ReaderPcs] /\ wr \in [Conns -> WriterPcs]
      /\ u \in [Conns -> Users \cup {None}] /\ deviceId \in [Conns -> Devices \cup {None}]
      /\ shakes \in [Conns -> Nat] /\ wsOpen \in [Conns -> BOOLEAN]
      /\ DOMAIN writeMsg = Conns
  BY DEF IInv, TypeOK
<1>s. Script[c] \in Seq(Handshakes) /\ Len(Script[c]) \in Nat /\ Len(Script[c]) <= 1
  BY ScriptAssumption DEF OneHandshake
<1>y. YoungOpen /\ Named /\ Identified
  BY DEF RInv, IInv
<1>u. UNCHANGED <<users, devMap, objects, isClosed>>
  BY DEF Connect, Break, ReadHandshake, Reader, SetDeviceId, AnswerHandshake, ReadFails,
         Writer, WriteMessage, WriteFails
<1>p. PanicNeedsSibling'
  BY DEF Connect, Break, ReadHandshake, Reader, SetDeviceId, AnswerHandshake, ReadFails,
         Writer, WriteMessage, WriteFails, PanicNeedsSibling
<1>1. CASE Connect(c)
  <2>1. rd[c] = "off" /\ shakes[c] = 0
    BY <1>1, <1>y DEF Connect, Named
  <2>2. YoungOpen'
    BY <1>1, <1>t, <1>y, <2>1 DEF Connect, YoungOpen, Young
  <2>3. Named'
    BY <1>1, <1>t, <1>y, <2>1 DEF Connect, Named, Known
  <2> QED
    BY <1>1, <1>t, <1>u, <1>p, <2>1, <2>2, <2>3, RegistryLeft DEF Connect, Known
<1>2. CASE Break(c)
  <2>2. YoungOpen'
    BY <1>2, <1>y DEF Break, YoungOpen, Young
  <2>3. Named'
    BY <1>2, <1>y DEF Break, Named, Known
  <2> QED
    BY <1>2, <1>t, <1>u, <1>p, <2>2, <2>3, RegistryLeft DEF Break, Known
<1>3. CASE ReadHandshake(c)
  <2>1. rd[c] = "read" /\ shakes[c] = 0 /\ ~isClosed[c]
    BY <1>3, <1>t, <1>s, <1>y DEF ReadHandshake, YoungOpen, Young
  <2>2. YoungOpen'
    BY <1>3, <1>t, <1>y, <2>1 DEF ReadHandshake, YoungOpen, Young
  <2>3. Named'
    BY <1>3, <1>t, <1>y, <2>1 DEF ReadHandshake, Named, Known
  <2> QED
    BY <1>3, <1>t, <1>u, <1>p, <2>1, <2>2, <2>3, RegistryLeft DEF ReadHandshake, Known
<1>4. CASE SetDeviceId(c)
  <2>2. YoungOpen'
    BY <1>4, <1>t, <1>y DEF SetDeviceId, YoungOpen, Young
  <2>3. Named'
    BY <1>4, <1>t, <1>y DEF SetDeviceId, Named, Known
  <2> QED
    BY <1>4, <1>t, <1>u, <1>p, <2>2, <2>3, RegistryLeft DEF SetDeviceId, Known
<1>5. CASE AnswerHandshake(c)
  <2>1. rd[c] = "answer" /\ shakes[c] >= 1
    BY <1>5, <1>y DEF AnswerHandshake, Identified
  <2>2. UNCHANGED <<users, devMap, objects, isClosed, u, deviceId, shakes, wsOpen, wr, sending>>
    BY <1>5 DEF AnswerHandshake
  <2>3. /\ rd'[c] \in {"answer", "read"}
        /\ \A x \in Conns \ {c} : rd'[x] = rd[x] /\ writeMsg'[x] = writeMsg[x]
    BY <1>5, <1>t, <2>1 DEF AnswerHandshake
  <2>4. \A x \in Conns : Known(x)' <=> Known(x)
    BY <2>1, <2>2, <2>3 DEF Known
  <2>5. YoungOpen'
    <3>1. \A x \in Conns : Young(x)' => x # c /\ Young(x)
      BY <2>1, <2>2, <2>3 DEF Young
    <3> QED
      BY <1>y, <2>2, <2>3, <3>1 DEF YoungOpen
  <2>6. Named'
    BY <1>y, <2>1, <2>2, <2>3, <2>4 DEF Named
  <2>7. \A x \in Conns : rd'[x] \in {"answer", "read"} /\ shakes'[x] > 0 =>
                            Known(x) /\ rd[x] \in {"answer", "read"}
    BY <1>t, <2>1, <2>2, <2>3 DEF Known
  <2> QED
    BY <1>u, <1>p, <2>2, <2>4, <2>5, <2>6, <2>7, RegistryLeft
<1>6. CASE ReadFails(c)
  <2>2. YoungOpen'
    BY <1>6, <1>t, <1>y DEF ReadFails, YoungOpen, Young
  <2>3. Named'
    <3>1. ASSUME shakes[c] >= 1 PROVE Known(c)
      BY <1>6, <3>1 DEF ReadFails, Known
    <3> QED
      BY <1>6, <1>t, <1>y, <3>1 DEF ReadFails, Named, Known
  <2> QED
    BY <1>6, <1>t, <1>u, <1>p, <2>2, <2>3, RegistryLeft DEF ReadFails, Known
<1>7. CASE Writer(c)
  <2>1. ~Young(c)
    BY <1>7, <1>y DEF Writer, WriteMessage, WriteFails, YoungOpen
  <2>2. YoungOpen'
    BY <1>7, <1>t, <1>y, <2>1 DEF Writer, WriteMessage, WriteFails, YoungOpen, Young
  <2>3. Named'
    BY <1>7, <1>y DEF Writer, WriteMessage, WriteFails, Named, Known
  <2> QED
    BY <1>7, <1>t, <1>u, <1>p, <2>2, <2>3, RegistryLeft DEF Writer, WriteMessage, WriteFails, Known
<1> QED
  BY <1>1, <1>2, <1>3, <1>4, <1>5, <1>6, <1>7 DEF Reader

LEMMA RegisterKeepsRegistry ==
    ASSUME IInv, RInv, NEW c \in Conns, RegistDeviceInner(c)
    PROVE  RInv'
<1> USE DEF registry, identity, closing, requests
<1> DEFINE o == UserFor(c)
           e == devMap[o][deviceId[c]]
<1>t. /\ rd \in [Conns -> ReaderPcs] /\ wsOpen \in [Conns -> BOOLEAN]
      /\ users \in [Users -> 0 .. objects] /\ objects \in Nat /\ o \in Objects
      /\ devMap \in [Objects -> [Devices -> Conns \cup {None}]]
      /\ MaxObjects \in Nat /\ None \notin Conns
  BY BoundsAssumption, NoneAssumption DEF RegistDeviceInner, IInv, TypeOK
<1>r. Distinct /\ Entries /\ Current /\ YoungOpen /\ Named /\ Stale /\ PanicNeedsSibling
  BY DEF RInv
<1>c. /\ rd[c] = "register" /\ Young(c) /\ ~Known(c) /\ wsOpen[c] /\ ~isClosed[c]
      /\ u[c] \in Users /\ deviceId[c] \in Devices /\ shakes[c] >= 1
  BY <1>r DEF RegistDeviceInner, Young, Known, YoungOpen, IInv, Identified
<1>u. /\ UNCHANGED <<u, deviceId, shakes, isClosed, writeMsg, wr, sending, panicked>>
      /\ rd' = [rd EXCEPT ![c] = "answer"]
      /\ users' = [users EXCEPT ![u[c]] = o]
      /\ objects' = IF users[u[c]] # 0 THEN objects ELSE objects + 1
      /\ wsOpen' = [x \in Conns |-> wsOpen[x] /\ x # e]
      /\ devMap' = [devMap EXCEPT ![o][deviceId[c]] = c]
  BY DEF RegistDeviceInner, RegistDevice
<1>o. o \in Nat /\ o > 0
  BY <1>t DEF Objects
\* The object is the user's own, or a new one that holds nothing.
<1>f. \/ users[u[c]] = o
      \/ users[u[c]] = 0 /\ o = objects + 1 /\ \A d \in Devices : devMap[o][d] = None
  <2>1. CASE users[u[c]] # 0
    BY <2>1 DEF UserFor
  <2>2. CASE users[u[c]] = 0
    <3>1. o = objects + 1
      BY <2>2 DEF UserFor
    <3> HIDE DEF o
    <3> QED
      BY <1>t, <1>r, <2>2, <3>1 DEF Distinct
  <2> QED
    BY <2>1, <2>2
<1>e. \A d \in Devices : devMap'[o][d] = (IF d = deviceId[c] THEN c ELSE devMap[o][d])
  BY <1>t, <1>c, <1>u
<1>g. \A q \in Objects \ {o}, d \in Devices : devMap'[q][d] = devMap[q][d]
  BY <1>t, <1>c, <1>u
<1>h. users'[u[c]] = o /\ \A m \in Users \ {u[c]} : users'[m] = users[m] /\ users[m] # o
  <2>1. users'[u[c]] = o /\ \A m \in Users \ {u[c]} : users'[m] = users[m]
    BY <1>t, <1>c, <1>u
  <2>2. ASSUME NEW m \in Users \ {u[c]} PROVE users[m] # o
    <3>1. users[m] \in Nat /\ users[m] <= objects
      BY <1>t
    <3> HIDE DEF o
    <3> QED
      BY <1>t, <1>c, <1>r, <1>f, <1>o, <3>1 DEF Distinct
  <2> QED
    BY <2>1, <2>2
\* Whoever is replaced is of the same user and device.
<1>x. e \in Conns => Known(e) /\ u[e] = u[c] /\ deviceId[e] = deviceId[c] /\ e # c
  <2>1. ASSUME e \in Conns PROVE Known(e) /\ deviceId[e] = deviceId[c]
    BY <1>t, <1>c, <1>r, <2>1 DEF Entries
  <2>2. ASSUME e \in Conns PROVE u[e] = u[c]
    BY <1>t, <1>c, <1>r, <1>f, <1>o, <2>2 DEF Current
  <2> QED
    BY <2>1, <2>2, <1>c
<1> HIDE DEF o, e
<1>k. \A y \in Conns : Known(y)' <=> y = c \/ Known(y)
  BY <1>t, <1>c, <1>u DEF Known
<1>y. \A y \in Conns : Young(y)' => y # c /\ Young(y) /\ ~Known(y) /\ rd'[y] = rd[y]
  BY <1>t, <1>u DEF Young, Known
<1>1. Distinct'
  <2>1. ASSUME NEW n \in Users, NEW m \in Users, users'[n] # 0, users'[n] = users'[m] PROVE n = m
    BY <1>r, <1>h, <2>1 DEF Distinct
  <2>2. ASSUME NEW q \in Objects, NEW d \in Devices, q > objects' PROVE devMap'[q][d] = None
    <3>1. q \in Nat
      BY DEF Objects
    <3>2. objects' \in Nat /\ objects <= objects' /\ o <= objects'
      <4>1. users[u[c]] \in Nat /\ users[u[c]] <= objects
        BY <1>t, <1>c
      <4> QED
        BY <1>t, <1>u, <1>f, <1>o, <4>1
    <3>3. q # o /\ q > objects
      BY <1>t, <1>o, <3>1, <3>2, <2>2
    <3> QED
      BY <1>r, <1>g, <3>3 DEF Distinct
  <2> QED
    BY <2>1, <2>2 DEF Distinct
<1>2. Entries'
  <2> SUFFICES ASSUME NEW q \in Objects, NEW d \in Devices, NEW y \in Conns, devMap'[q][d] = y
               PROVE  Known(y)' /\ u'[y] \in Users /\ deviceId'[y] = d
    BY DEF Entries
  <2>1. CASE q = o /\ d = deviceId[c]
    BY <1>c, <1>u, <1>e, <1>k, <2>1
  <2>2. CASE ~(q = o /\ d = deviceId[c])
    <3>1. devMap[q][d] = y
      BY <1>e, <1>g, <2>2
    <3> QED
      BY <1>r, <1>u, <1>k, <3>1 DEF Entries
  <2> QED
    BY <2>1, <2>2
<1>3. Current'
  <2> SUFFICES ASSUME NEW n \in Users, NEW d \in Devices, NEW y \in Conns,
                      users'[n] # 0, devMap'[users'[n]][d] = y
               PROVE  u[y] = n /\ ~isClosed[y] /\ wsOpen[y] /\ y # e
    <3>1. \A y \in Conns : wsOpen[y] /\ y # e => wsOpen'[y]
      BY <1>u
    <3> QED
      BY <1>u, <3>1 DEF Current
  <2>1. CASE n = u[c] /\ d = deviceId[c]
    BY <1>c, <1>e, <1>h, <1>x, <2>1
  <2>2. CASE n = u[c] /\ d # deviceId[c]
    <3>1. devMap[o][d] = y
      BY <1>e, <1>h, <2>2
    <3>2. users[n] = o
      BY <1>t, <1>f, <2>2, <3>1
    <3>3. deviceId[y] = d
      BY <1>t, <1>r, <3>1 DEF Entries
    <3> QED
      BY <1>o, <1>r, <1>x, <2>2, <3>1, <3>2, <3>3 DEF Current
  <2>3. CASE n # u[c]
    <3>1. users[n] = users'[n] /\ users[n] # o /\ users[n] # 0
      BY <1>h, <2>3
    <3>2. users[n] \in Objects
      <4>1. users[n] \in Nat /\ users[n] <= objects /\ objects <= MaxObjects
        BY <1>t DEF IInv, TypeOK
      <4> QED
        BY <1>t, <3>1, <4>1 DEF Objects
    <3>3. devMap[users[n]][d] = y
      BY <1>g, <3>1, <3>2
    <3> QED
      BY <1>r, <1>x, <2>3, <3>1, <3>3 DEF Current
  <2> QED
    BY <2>1, <2>2, <2>3
<1>4. YoungOpen'
  <2>1. ASSUME NEW y \in Conns, Young(y)' PROVE wsOpen'[y] <=> wsOpen[y]
    BY <1>u, <1>x, <1>y, <2>1
  <2> QED
    BY <1>r, <1>u, <1>y, <2>1 DEF YoungOpen
<1>5. Named'
  <2>1. \A y \in Conns : rd'[y] = "off" => rd[y] = "off"
    BY <1>t, <1>u
  <2> QED
    <3>1. ASSUME NEW y \in Conns PROVE u[y] # None => shakes[y] >= 1
      BY <1>r DEF Named
    <3>2. ASSUME NEW y \in Conns, Known(y)' PROVE u[y] \in Users /\ deviceId[y] \in Devices
      BY <1>c, <1>r, <1>k, <3>2 DEF Named
    <3>3. ASSUME NEW y \in Conns, rd'[y] = "off" PROVE shakes[y] = 0
      BY <1>r, <2>1, <3>3 DEF Named
    <3> QED
      BY <1>u, <3>1, <3>2, <3>3 DEF Named
<1>6. Stale'
  <2> SUFFICES ASSUME NEW q \in Objects, NEW d \in Devices, NEW y \in Conns,
                      devMap'[q][d] = y, users'[u[y]] # q
               PROVE  Sibling(y)'
    BY <1>u DEF Stale
  <2>1. ~(q = o /\ d = deviceId[c])
    BY <1>e, <1>h
  <2>2. devMap[q][d] = y
    BY <1>e, <1>g, <2>1
  <2>3. u[y] \in Users
    BY <1>r, <2>2 DEF Entries
  <2>4. users[u[y]] # q
    BY <1>f, <1>h, <2>3 DEF Objects
  <2>5. Sibling(y)
    BY <1>r, <2>2, <2>4 DEF Stale
  <2> QED
    BY <1>u, <1>k, <2>5 DEF Sibling
<1>7. PanicNeedsSibling'
  BY <1>r, <1>u DEF PanicNeedsSibling
<1> QED
  BY <1>1, <1>2, <1>3, <1>4, <1>5, <1>6, <1>7 DEF RInv

LEMMA CloseKeepsRegistry ==
    ASSUME IInv, RInv, NEW c \in Conns, ~Young(c), CloseConn(c),
           UNCHANGED <<objects, identity, writeMsg, sending>>,
           \A x \in Conns : Known(x)' <=> Known(x),
           \A x \in Conns : Young(x)' => Young(x) /\ x # c /\ rd'[x] = rd[x] /\ wr'[x] = wr[x],
           \A x \in Conns : rd'[x] \in {"answer", "read"} => rd[x] = rd'[x],
           \A x \in Conns : rd'[x] = "off" => rd[x] = "off"
    PROVE  RInv'
<1> USE DEF identity
<1> DEFINE e == Unregisters(c)
<1>t. /\ users \in [Users -> 0 .. objects] /\ objects \in Nat /\ MaxObjects \in Nat
      /\ objects <= MaxObjects /\ wsOpen \in [Conns -> BOOLEAN] /\ isClosed \in [Conns -> BOOLEAN]
      /\ devMap \in [Objects -> [Devices -> Conns \cup {None}]] /\ shakes \in [Conns -> Nat]
      /\ None \notin Conns /\ None \notin Users /\ None \notin Devices
      /\ u \in [Conns -> Users \cup {None}]
  BY BoundsAssumption, NoneAssumption DEF IInv, TypeOK
<1>r. Distinct /\ Entries /\ Current /\ YoungOpen /\ Named /\ Stale /\ PanicNeedsSibling
  BY DEF RInv
<1>n. Named'
  BY <1>r DEF Named
<1>1. CASE isClosed[c]
  <2>1. UNCHANGED <<isClosed, wsOpen, devMap, users, panicked>>
    BY <1>1 DEF CloseConn
  <2>2. YoungOpen'
    BY <1>r, <2>1 DEF YoungOpen
  <2>3. PanicNeedsSibling'
    BY <1>r, <2>1 DEF PanicNeedsSibling
  <2>4. \A x \in Conns : rd'[x] \in {"answer", "read"} /\ shakes[x] > 0 => Known(x)
    BY <1>t DEF Known
  <2> QED
    BY <1>n, <2>1, <2>2, <2>3, <2>4, RegistryLeft
<1>2. CASE ~isClosed[c]
  <2>c. /\ isClosed' = [isClosed EXCEPT ![c] = TRUE]
        /\ wsOpen' = [x \in Conns |-> wsOpen[x] /\ x \notin {c, e}]
        /\ devMap' = (IF e # None THEN [devMap EXCEPT ![users[u[c]]][deviceId[c]] = None] ELSE devMap)
        /\ users' = (IF u[c] # None THEN [users EXCEPT ![u[c]] = 0] ELSE users)
        /\ panicked' = panicked
    BY <1>2 DEF CloseConn
  <2>w. /\ \A x \in Conns : wsOpen'[x] <=> wsOpen[x] /\ x # c /\ x # e
        /\ \A x \in Conns : isClosed'[x] <=> isClosed[x] \/ x = c
    BY <1>t, <2>c
  <2>u. \A n \in Users : users'[n] = (IF n = u[c] THEN 0 ELSE users[n])
    BY <1>t, <2>c
  <2>x. e \in Conns => Known(e) /\ u[e] = u[c] /\ deviceId[e] = deviceId[c] /\ u[c] \in Users
    <3> SUFFICES ASSUME e \in Conns
                 PROVE  Known(e) /\ u[e] = u[c] /\ deviceId[e] = deviceId[c] /\ u[c] \in Users
      OBVIOUS
    <3>1. /\ e = devMap[users[u[c]]][deviceId[c]] /\ u[c] \in Users /\ users[u[c]] # 0
          /\ deviceId[c] # None
      BY <1>t DEF Unregisters
    <3>2. deviceId[c] \in Devices
      BY <3>1 DEF IInv, TypeOK
    <3>3. users[u[c]] \in Objects
      <4>1. users[u[c]] \in Nat /\ users[u[c]] <= objects
        BY <1>t, <3>1
      <4> QED
        BY <1>t, <3>1, <4>1 DEF Objects
    <3> HIDE DEF e
    <3>4. Known(e) /\ deviceId[e] = deviceId[c]
      BY <1>r, <3>1, <3>2, <3>3 DEF Entries
    <3>5. u[e] = u[c]
      BY <1>r, <3>1, <3>2 DEF Current
    <3> QED
      BY <3>1, <3>4, <3>5
  \* The entry under the id of c is gone, all others are left.
  <2>d. \A q \in Objects, d \in Devices : devMap'[q][d] \in {None, devMap[q][d]}
    BY <1>t, <2>c
  <2>m. \A q \in Objects, d \in Devices :
            u[c] \in Users => (q = users[u[c]] /\ d = deviceId[c] => devMap'[q][d] = None)
                              /\ (~(q = users[u[c]] /\ d = deviceId[c]) => devMap'[q][d] = devMap[q][d])
    <3> SUFFICES ASSUME NEW q \in Objects, NEW d \in Devices, u[c] \in Users
                 PROVE  /\ q = users[u[c]] /\ d = deviceId[c] => devMap'[q][d] = None
                        /\ ~(q = users[u[c]] /\ d = deviceId[c]) => devMap'[q][d] = devMap[q][d]
      OBVIOUS
    <3>1. q # 0 /\ d # None
      BY <1>t DEF Objects
    <3>2. CASE e = None
      <4>1. q = users[u[c]] /\ d = deviceId[c] => devMap[q][d] = None
        BY <1>t, <3>1, <3>2 DEF Unregisters
      <4> QED
        BY <2>c, <3>2, <4>1
    <3>3. CASE e # None
      <4>1. devMap' = [devMap EXCEPT ![users[u[c]]][deviceId[c]] = None]
        BY <2>c, <3>3
      <4> QED
        BY <1>t, <4>1
    <3> QED
      BY <3>2, <3>3
  <2>o. u[c] \notin Users => devMap' = devMap /\ users' = users /\ ~Known(c)
    BY <1>t, <1>r, <2>c DEF Unregisters, Named
  <2>k. u[c] \in Users => Known(c) /\ deviceId[c] \in Devices
    <3>1. u[c] \in Users => Known(c)
      BY <1>t, <1>r DEF Named, Known, Young
    <3> QED
      BY <1>r, <3>1 DEF Named
  <2> HIDE DEF e
  <2>1. Distinct'
    <3>1. ASSUME NEW n \in Users, NEW m \in Users, users'[n] # 0, users'[n] = users'[m] PROVE n = m
      BY <1>r, <2>u, <3>1 DEF Distinct
    <3>2. ASSUME NEW q \in Objects, NEW d \in Devices, q > objects PROVE devMap'[q][d] = None
      BY <1>r, <2>d, <3>2 DEF Distinct
    <3> QED
      BY <3>1, <3>2 DEF Distinct
  <2>2. Entries'
    <3> SUFFICES ASSUME NEW q \in Objects, NEW d \in Devices, NEW y \in Conns, devMap'[q][d] = y
                 PROVE  Known(y) /\ u[y] \in Users /\ deviceId[y] = d
      BY DEF Entries
    <3>1. devMap[q][d] = y
      BY <1>t, <2>d
    <3> QED
      BY <1>r, <3>1 DEF Entries
  <2>3. Current'
    <3> SUFFICES ASSUME NEW n \in Users, NEW d \in Devices, NEW y \in Conns,
                        users'[n] # 0, devMap'[users'[n]][d] = y
                 PROVE  u[y] = n /\ ~isClosed'[y] /\ wsOpen'[y]
      BY DEF Current
    <3>1. n # u[c] /\ users'[n] = users[n] /\ users[n] # 0
      BY <2>u
    <3>2. users[n] \in Objects
      <4>1. users[n] \in Nat /\ users[n] <= objects
        BY <1>t
      <4> QED
        BY <1>t, <3>1, <4>1 DEF Objects
    <3>3. devMap[users[n]][d] = y
      BY <1>t, <2>d, <3>1, <3>2
    <3>4. u[y] = n /\ ~isClosed[y] /\ wsOpen[y]
      BY <1>r, <3>1, <3>3 DEF Current
    <3> QED
      BY <2>w, <2>x, <3>1, <3>4
  <2>4. YoungOpen'
    <3>1. \A y \in Conns : Young(y)' => Young(y) /\ ~Known(y) /\ y # c
      BY <1>t DEF Young, Known
    <3>2. \A y \in Conns : Young(y)' => (wsOpen'[y] <=> wsOpen[y]) /\ (isClosed'[y] <=> isClosed[y])
      BY <2>w, <2>x, <3>1
    <3> QED
      BY <1>r, <3>1, <3>2 DEF YoungOpen
  <2>5. Stale'
    <3> SUFFICES ASSUME NEW q \in Objects, NEW d \in Devices, NEW y \in Conns,
                        devMap'[q][d] = y, users'[u[y]] # q
                 PROVE  Sibling(y)
      BY DEF Stale, Sibling
    <3>1. devMap[q][d] = y
      BY <1>t, <2>d
    <3>2. u[y] \in Users /\ deviceId[y] = d
      BY <1>r, <3>1 DEF Entries
    <3>3. CASE users[u[y]] # q
      BY <1>r, <3>1, <3>3 DEF Stale
    <3>4. CASE users[u[y]] = q
      <4>1. u[y] = u[c]
        BY <2>u, <3>2, <3>4
      <4>2. deviceId[c] # d
        BY <1>t, <2>m, <3>2, <3>4, <4>1
      <4> QED
        BY <2>k, <3>2, <4>1, <4>2 DEF Sibling
    <3> QED
      BY <3>3, <3>4
  <2>6. PanicNeedsSibling'
    BY <1>r, <2>c DEF PanicNeedsSibling
  <2> QED
    BY <1>n, <2>1, <2>2, <2>3, <2>4, <2>5, <2>6 DEF RInv
<1> QED
  BY <1>1, <1>2

LEMMA BusKeepsRegistry ==
    ASSUME IInv, RInv, NEW c \in Conns, Bus(c)
    PROVE  RInv'
<1> USE DEF registry, identity, closing, requests
<1>t. rd \in [Conns -> ReaderPcs] /\ wr \in [Conns -> WriterPcs]
  BY DEF IInv, TypeOK
<1>1. CASE CloseForReader(c)
  <2>1. /\ rd[c] = "closing" /\ rd' = [rd EXCEPT ![c] = "gone"]
        /\ UNCHANGED <<objects, u, deviceId, shakes, writeMsg, sending, wr>> /\ CloseConn(c)
    BY <1>1 DEF CloseForReader
  <2>2. ~Young(c)
    BY <2>1 DEF Young
  <2>3. \A x \in Conns : Known(x)' <=> Known(x)
    BY <1>t, <2>1 DEF Known
  <2>4. \A x \in Conns : Young(x)' => Young(x) /\ x # c /\ rd'[x] = rd[x] /\ wr'[x] = wr[x]
    BY <1>t, <2>1 DEF Young
  <2>5. \A x \in Conns : rd'[x] \in {"answer", "read", "off"} => rd[x] = rd'[x]
    BY <1>t, <2>1
  <2> QED
    BY <2>1, <2>2, <2>3, <2>4, <2>5, CloseKeepsRegistry
<1>2. CASE CloseForWriter(c)
  <2>1. /\ wr[c] = "closing" /\ wr' = [wr EXCEPT ![c] = "gone"]
        /\ UNCHANGED <<objects, u, deviceId, shakes, writeMsg, sending, rd>> /\ CloseConn(c)
    BY <1>2 DEF CloseForWriter
  <2>2. ~Young(c)
    BY <2>1 DEF RInv, YoungOpen
  <2>3. \A x \in Conns : Known(x)' <=> Known(x)
    BY <2>1 DEF Known
  <2>4. \A x \in Conns : Young(x)' => Young(x) /\ x # c /\ rd'[x] = rd[x] /\ wr'[x] = wr[x]
    BY <1>t, <2>1, <2>2 DEF Young
  <2> QED
    BY <2>1, <2>2, <2>3, <2>4, CloseKeepsRegistry
<1> QED
  BY <1>1, <1>2, RegisterKeepsRegistry DEF Bus

LEMMA RequestsKeepRegistry ==
    ASSUME IInv, RInv, panicked = "no",
           (\E n \in Users, d \in Devices : RequestControlInner(n, d)) \/ Process \/ Send
    PROVE  RInv'
<1> USE DEF registry, identity, closing, requests
<1>t. /\ shakes \in [Conns -> Nat] /\ None \notin Conns /\ None \notin Users
      /\ DOMAIN writeMsg = Conns
  BY NoneAssumption DEF IInv, TypeOK
<1>r. Distinct /\ Entries /\ Current /\ YoungOpen /\ Named /\ Stale /\ PanicNeedsSibling
  BY DEF RInv
<1>u. UNCHANGED <<users, devMap, objects, isClosed, wsOpen, u, deviceId, shakes, rd, wr>>
  BY DEF RequestControlInner, Process, Send
<1>n. Named'
  BY <1>r, <1>u DEF Named, Known
<1>k. \A x \in Conns : rd[x] \in {"answer", "read"} /\ shakes[x] > 0 => Known(x)
  BY <1>t DEF Known
<1>y. \A x \in Conns : (Young(x)' <=> Young(x)) /\ (Known(x)' <=> Known(x))
                       /\ (Young(x) => ~Known(x))
  BY <1>t, <1>u DEF Young, Known
<1>1. ASSUME NEW n \in Users, NEW d \in Devices, RequestControlInner(n, d)
      PROVE  YoungOpen' /\ PanicNeedsSibling'
  BY <1>r, <1>u, <1>y, <1>1 DEF RequestControlInner, YoungOpen, PanicNeedsSibling
<1>2. CASE Process
  <2> DEFINE h == Head(queue)
             c == devMap[h.user][h.device]
  <2>1. h.user \in Objects /\ h.device \in Devices
    <3>1. queue \in Seq([user : Objects, device : Devices]) /\ queue # <<>>
      BY <1>2 DEF Process, IInv, TypeOK
    <3>2. h \in [user : Objects, device : Devices]
      BY <3>1, TakeFirst
    <3> QED
      BY <3>2
  <2>2. c \in Conns => Known(c) /\ u[c] \in Users
    BY <1>r, <2>1 DEF Entries
  <2>3. UNCHANGED writeMsg
    BY <1>2 DEF Process
  <2>4. CASE c # None /\ isClosed[c]
    <3>1. UNCHANGED sending
      BY <1>2, <2>4 DEF Process
    <3>2. c \in Conns
      BY <2>1, <2>4 DEF IInv, TypeOK
    <3>3. users[u[c]] # h.user
      <4>1. h.user # 0
        BY <2>1 DEF Objects
      <4> QED
        BY <1>r, <2>1, <2>2, <2>4, <3>2, <4>1 DEF Current
    <3>4. Sibling(c)
      BY <1>r, <2>1, <3>2, <3>3 DEF Stale
    <3>5. PanicNeedsSibling'
      <4>1. PICK x \in Conns : Known(x) /\ u[x] = u[c] /\ deviceId[x] # deviceId[c]
        BY <3>4 DEF Sibling
      <4>2. deviceId[x] \in Devices /\ deviceId[c] \in Devices
        BY <1>r, <2>2, <3>2, <4>1 DEF Named
      <4> HIDE DEF c
      <4> QED
        BY <1>t, <1>u, <2>2, <3>2, <4>1, <4>2 DEF PanicNeedsSibling
    <3>6. YoungOpen'
      BY <1>r, <1>u, <1>y, <2>3, <3>1 DEF YoungOpen
    <3> QED
      BY <1>u, <1>n, <1>k, <1>y, <3>5, <3>6, RegistryLeft
  <2>5. CASE ~(c # None /\ isClosed[c])
    <3>1. sending' = c /\ UNCHANGED panicked
      BY <1>2, <2>5 DEF Process
    <3>2. \A x \in Conns : Young(x) => x # c
      BY <1>y, <2>2
    <3>3. YoungOpen'
      BY <1>r, <1>u, <1>y, <2>3, <3>1, <3>2 DEF YoungOpen
    <3>4. PanicNeedsSibling'
      BY <3>1 DEF PanicNeedsSibling
    <3> QED
      BY <1>u, <1>n, <1>k, <1>y, <3>3, <3>4, RegistryLeft
  <2> QED
    BY <2>4, <2>5
<1>3. CASE Send
  <2>1. /\ sending' = None /\ UNCHANGED panicked
        /\ writeMsg' = [writeMsg EXCEPT ![sending] = Append(@, Request)]
    BY <1>3 DEF Send
  <2>2. YoungOpen'
    BY <1>t, <1>r, <1>u, <1>y, <2>1 DEF YoungOpen
  <2>3. PanicNeedsSibling'
    BY <2>1 DEF PanicNeedsSibling
  <2> QED
    BY <1>u, <1>n, <1>k, <1>y, <2>2, <2>3, RegistryLeft
<1> QED
  BY <1>u, <1>n, <1>k, <1>y, <1>1, <1>2, <1>3, RegistryLeft

LEMMA StepRInv ==
    ASSUME OneHandshake
    PROVE  IInv /\ RInv /\ [Next]_vars => RInv'
<1>1. ASSUME IInv, RInv, UNCHANGED vars PROVE RInv'
  <2>1. UNCHANGED <<users, devMap, objects, isClosed, wsOpen, u, deviceId, shakes, rd, wr,
                    writeMsg, sending, panicked>>
    BY <1>1 DEF vars, registry, identity, closing, requests
  <2>2. \A x \in Conns : (Young(x)' <=> Young(x)) /\ (Known(x)' <=> Known(x))
    BY <2>1 DEF Young, Known
  <2>3. YoungOpen' /\ Named' /\ PanicNeedsSibling'
    BY <1>1, <2>1, <2>2 DEF RInv, YoungOpen, Named, PanicNeedsSibling
  <2>4. \A x \in Conns : rd[x] \in {"answer", "read"} /\ shakes[x] > 0 => Known(x)
    BY <1>1 DEF Known, IInv, TypeOK
  <2> QED
    BY <1>1, <2>1, <2>2, <2>3, <2>4, RegistryLeft
<1>2. ASSUME IInv, RInv, panicked = "no", Live PROVE RInv'
  BY <1>2, PumpsKeepRegistry, BusKeepsRegistry, RequestsKeepRegistry DEF Live
<1> QED
  BY <1>1, <1>2 DEF Next, Dead

\* Connections that send one handshake each: however they reconnect, and in
\* whatever order the bus takes their calls, a user's object leads to open
\* connections only (usermgr.go, mainchannel.go:47-71).
THEOREM RegistryLeadsToOpen ==
    ASSUME OneHandshake PROVE Spec => []RegisteredIsOpen
<1>1. IInv /\ RInv => RegisteredIsOpen
  <2> SUFFICES ASSUME IInv, RInv, NEW n \in Users, NEW d \in Devices,
                      users[n] # 0, devMap[users[n]][d] # None
               PROVE  ~isClosed[devMap[users[n]][d]] /\ wsOpen[devMap[users[n]][d]]
    BY DEF RegisteredIsOpen, Registered
  <2>1. users[n] \in Objects
    <3>1. users[n] \in Nat /\ users[n] <= objects /\ objects <= MaxObjects
          /\ objects \in Nat /\ MaxObjects \in Nat
      BY BoundsAssumption DEF IInv, TypeOK
    <3> QED
      BY <3>1 DEF Objects
  <2>2. devMap[users[n]][d] \in Conns
    BY <2>1 DEF IInv, TypeOK
  <2> QED
    BY <2>2 DEF RInv, Current
<1> QED
  BY InitIInv, StepIInv, InitRInv, StepRInv, <1>1, PTL DEF Spec

\* A step in which a registered connection stops being registered.
LEMMA PlaceLost ==
    ASSUME IInv, RInv, Next, NEW c \in Registered \ Registered'
    PROVE  \/ \E x \in Registered' : u[x] = u[c] /\ deviceId[x] = deviceId[c]
           \/ \E x \in Conns : u[x] = u[c] /\ ~isClosed[x] /\ isClosed'[x]
<1> USE DEF registry, identity, closing, requests
<1>t. /\ users \in [Users -> 0 .. objects] /\ objects \in Nat /\ MaxObjects \in Nat
      /\ objects <= MaxObjects /\ isClosed \in [Conns -> BOOLEAN]
      /\ devMap \in [Objects -> [Devices -> Conns \cup {None}]]
      /\ None \notin Conns /\ None \notin Users /\ None \notin Devices
      /\ u \in [Conns -> Users \cup {None}]
  BY BoundsAssumption, NoneAssumption DEF IInv, TypeOK
<1>r. Entries /\ Current
  BY DEF RInv
<1>1. PICK n \in Users, d \in Devices : users[n] # 0 /\ devMap[users[n]][d] = c /\ c # None
  BY DEF Registered
<1>2. users[n] \in Objects
  <2>1. users[n] \in Nat /\ users[n] <= objects
    BY <1>t
  <2> QED
    BY <1>t, <1>1, <2>1 DEF Objects
<1>3. c \in Conns /\ u[c] = n /\ deviceId[c] = d
  <2>1. c \in Conns
    BY <1>t, <1>1, <1>2
  <2> QED
    BY <1>r, <1>1, <1>2, <2>1 DEF Entries, Current
<1>4. ~(users'[n] # 0 /\ devMap'[users'[n]][d] = c)
  BY <1>1 DEF Registered
<1>5. ~UNCHANGED <<users, devMap>>
  BY <1>1, <1>4
<1>6. PICK x \in Conns : RegistDeviceInner(x) \/ CloseForReader(x) \/ CloseForWriter(x)
  <2>1. Live
    BY <1>5 DEF Next, Dead, vars
  <2> QED
    BY <1>5, <2>1 DEF Live, Bus, Connect, Break, ReadHandshake, Reader, SetDeviceId, AnswerHandshake,
       ReadFails, Writer, WriteMessage, WriteFails, RequestControlInner, Process, Send
<1>7. CASE RegistDeviceInner(x)
  <2>1. /\ u[x] \in Users /\ deviceId[x] \in Devices /\ UserFor(x) \in Objects
        /\ users' = [users EXCEPT ![u[x]] = UserFor(x)]
        /\ devMap' = [devMap EXCEPT ![UserFor(x)][deviceId[x]] = x]
    BY <1>7 DEF RegistDeviceInner, RegistDevice, IInv, Identified
  <2>2. UserFor(x) # 0 /\ users'[u[x]] = UserFor(x) /\ devMap'[UserFor(x)][deviceId[x]] = x
    BY <1>t, <2>1 DEF Objects
  <2>3. x \in Registered'
    BY <1>t, <2>1, <2>2 DEF Registered
  <2>4. users'[n] = users[n]
    <3>1. CASE n = u[x]
      BY <1>1, <2>2, <3>1 DEF UserFor
    <3>2. CASE n # u[x]
      BY <1>t, <2>1, <3>2
    <3> QED
      BY <3>1, <3>2
  <2>5. users[n] = UserFor(x) /\ d = deviceId[x]
    BY <1>1, <1>t, <1>2, <1>4, <2>1, <2>4
  <2>6. u[x] = n
    BY <1>t, <1>1, <2>1, <2>5 DEF RInv, Distinct, UserFor, Objects
  <2> QED
    BY <1>3, <2>3, <2>5, <2>6
<1>8. CASE CloseForReader(x) \/ CloseForWriter(x)
  <2>1. CloseConn(x) /\ ~isClosed[x]
    BY <1>5, <1>8 DEF CloseForReader, CloseForWriter, CloseConn
  <2>2. /\ isClosed'[x]
        /\ devMap' = (IF Unregisters(x) # None
                      THEN [devMap EXCEPT ![users[u[x]]][deviceId[x]] = None] ELSE devMap)
        /\ users' = (IF u[x] # None THEN [users EXCEPT ![u[x]] = 0] ELSE users)
    BY <1>t, <2>1 DEF CloseConn
  <2>3. u[x] = n
    <3>1. ASSUME u[x] # n PROVE FALSE
      <4>1. users'[n] = users[n]
        BY <1>t, <2>2, <3>1
      <4>2. Unregisters(x) # None /\ users[n] = users[u[x]] /\ u[x] # None
        BY <1>t, <1>1, <1>2, <1>4, <2>2, <4>1 DEF Unregisters
      <4> QED
        BY <1>t, <1>1, <3>1, <4>2 DEF RInv, Distinct
    <3> QED
      BY <3>1
  <2> QED
    BY <1>3, <2>1, <2>2, <2>3
<1> QED
  BY <1>6, <1>7, <1>8

\* For such connections, a place in the registry is lost only to a later connection
\* of the device or to the first close of a connection of its user, one loss for
\* the two pumps that ask (mainchannel.go:49-58, usermgr.go:65-72).
THEOREM PlacesLost ==
    ASSUME OneHandshake PROVE Spec => LostOnlyByClosing
<1> DEFINE A == \A c \in Registered \ Registered' :
                  \/ \E x \in Registered' : u[x] = u[c] /\ deviceId[x] = deviceId[c]
                  \/ \E x \in Conns : u[x] = u[c] /\ ~isClosed[x] /\ isClosed'[x]
<1>1. IInv /\ RInv /\ [Next]_vars => [A]_vars
  <2> SUFFICES ASSUME IInv, RInv, Next, NEW c \in Registered \ Registered'
               PROVE  \/ \E x \in Registered' : u[x] = u[c] /\ deviceId[x] = deviceId[c]
                      \/ \E x \in Conns : u[x] = u[c] /\ ~isClosed[x] /\ isClosed'[x]
    OBVIOUS
  <2> QED
    BY PlaceLost
<1> QED
  BY InitIInv, StepIInv, InitRInv, StepRInv, <1>1, PTL DEF Spec, LostOnlyByClosing

\* For such connections, the bus sends on a closed channel only where two devices
\* of one user were connected (bus.go:72, mainchannel.go:58).
THEOREM PanicTakesSibling ==
    ASSUME OneHandshake PROVE Spec => []PanicNeedsSibling
<1>1. RInv => PanicNeedsSibling
  BY DEF RInv
<1> QED
  BY InitIInv, StepIInv, InitRInv, StepRInv, <1>1, PTL DEF Spec
===============================================================================
