----------------------------- MODULE VncProofs -----------------------------
(***************************************************************************)
(* Proofs about modules VncPage and VncInput.  Of the page: that of all the*)
(* sessions it has made only the last one has a connection, that it shows  *)
(* its state, and that a session that was disconnected is not reported as  *)
(* failed later.  Of the input: that no key, modifier or button is held at *)
(* the server that the user does not hold, and the other way round.        *)
(*                                                                         *)
(* The argument about the page is about two relations.  Happening(q, r)    *)
(* says what an event of the object q's own timers or websocket may make of*)
(* it and may tell the page; every handler is shown to be one.  Told then  *)
(* says what the page makes of what it is told.  An event that tells the   *)
(* page nothing (Silent) leaves the password, and the timer that is to     *)
(* look at it, so a password just sent is not forgotten unseen.            *)
(*                                                                         *)
(* The argument about the keyboard follows the user's keys through the     *)
(* queue: while the focus has changed only with no key held, the events in *)
(* the queue lead, one by one, from the keys the entries of track stand for*)
(* to the keys that are held (Chain), so passing on any part of the queue  *)
(* keeps the two in step.  A key has one id for as long as it is held only *)
(* while no letter has changed its name (KeyId), which the chain assumes.  *)
(***************************************************************************)
EXTENDS VncPage, VncInput, WellFoundedInduction, TLAPS

SocketStates == {"none", "connecting", "open", "closing", "closed"}
Over == {"failed", "disconnected"}
\* states that only a password leads out of
Stuck == Over \cup {"password", "disconnect"}
Labels == {"connect", "setPassword", "none"}
\* states from before the server's security scheme is known
Early == {"connect", "ProtocolVersion", "Security"}
\* an object whose scheme asks for a password
Keyed(r) == r.scheme \in {2, 22}
Past(r) == Keyed(r) /\ r.state \notin Early

SessionRecord ==
    [state : States, version : {0, server.version}, scheme : {0, server.scheme, 2},
     password : BOOLEAN, on : SUBSET Handlers, ws : SocketStates, deaf : BOOLEAN,
     grabbed : BOOLEAN, msgTimer : BOOLEAN, disconn : {"none", "pending", "fired"},
     lost : Nat, fails : Nat, asks : Nat, sent : Nat, told : Seq(States), blank : BOOLEAN]
PageRecord ==
    [rfb : Nat, rfb_state : States, panel : BOOLEAN, button : Labels, late : BOOLEAN]

\* a session that is over has let its connection go and waits for no timer of
\* a disconnect; input is taken in state 'normal'
Sound(r) ==
    /\ r.state \in Over => ~Live(r) /\ r.disconn = "none"
    /\ r.grabbed /\ ~r.blank => r.state = "normal"
SessionOK(r) == r \in SessionRecord /\ Sound(r) /\ r.told = <<>>

\* what the page shows of the session r
Shows(state, r) == state = r.state \/ (state = "disconnected" /\ r.state = "failed")
ShownOK(pg, r) ==
    /\ \/ Shows(pg.rfb_state, r)
       \/ r.state = "Authentication" /\ pg.button = "none" /\ (r.asks > 0 \/ r.password)
    /\ pg.rfb_state # "loaded"
    /\ pg.button = "connect" /\ pg.panel => pg.rfb_state \in Over
    /\ pg.button = "setPassword" => r.blank \/ r.state \in Stuck
    /\ (r.asks > 0 => pg.button # "connect") /\ (pg.button # "connect" => Past(r))

PageInv ==
    /\ page \in PageRecord /\ server \in Servers /\ s \in Seq(SessionRecord)
    /\ Len(s) <= MaxSessions /\ page.rfb = Len(s)
    /\ \A i \in Sessions : SessionOK(s[i])
    /\ ~page.late =>
          /\ \A i \in Sessions : i # page.rfb => s[i].state \in Over /\ s[i].asks = 0
          /\ page.rfb = 0 => page.rfb_state = "loaded" /\ page.button = "connect"
          /\ page.rfb # 0 => ShownOK(page, s[page.rfb])

(***************************************************************************)
(* The fields an assignment changes                                        *)
(***************************************************************************)
\* the fields the invariant is about
Alike(q, r) ==
    /\ q.state = r.state /\ q.ws = r.ws /\ q.disconn = r.disconn /\ q.grabbed = r.grabbed
    /\ q.blank = r.blank /\ q.told = r.told /\ q.password = r.password /\ q.asks = r.asks
    /\ q.lost = r.lost /\ q.scheme = r.scheme

LEMMA AlikeType ==
  ASSUME NEW r \in SessionRecord
  PROVE  /\ r.state \in States /\ r.told \in Seq(States) /\ r.lost \in Nat /\ r.asks \in Nat
         /\ r.ws \in SocketStates /\ r.on \in SUBSET Handlers
         /\ r.disconn \in {"none", "pending", "fired"} /\ r.fails \in Nat
         /\ r.version \in {0, server.version} /\ r.scheme \in {0, server.scheme, 2}
  BY Zenon DEF SessionRecord
LEMMA AlikeBooleans ==
  ASSUME NEW r \in SessionRecord
  PROVE  r.grabbed \in BOOLEAN /\ r.blank \in BOOLEAN /\ r.password \in BOOLEAN
  BY Zenon DEF SessionRecord

LEMMA MinorTypes ==
  ASSUME NEW r \in SessionRecord
  PROVE  /\ [r EXCEPT !.version = server.version] \in SessionRecord
         /\ [r EXCEPT !.scheme = server.scheme] \in SessionRecord
         /\ [r EXCEPT !.scheme = 2] \in SessionRecord
         /\ \A h \in SUBSET Handlers : [r EXCEPT !.on = h] \in SessionRecord
         /\ \A b \in BOOLEAN : [r EXCEPT !.deaf = b] \in SessionRecord
         /\ \A b \in BOOLEAN : [r EXCEPT !.msgTimer = b] \in SessionRecord
         /\ \A n \in Nat : [r EXCEPT !.fails = n] \in SessionRecord
<1>1. [r EXCEPT !.version = server.version] \in SessionRecord
  BY Zenon DEF SessionRecord
<1>2. [r EXCEPT !.scheme = server.scheme] \in SessionRecord
  BY Zenon DEF SessionRecord
<1>3. [r EXCEPT !.scheme = 2] \in SessionRecord
  BY Zenon DEF SessionRecord
<1>4. \A h \in SUBSET Handlers : [r EXCEPT !.on = h] \in SessionRecord
  BY Zenon DEF SessionRecord
<1>5. \A b \in BOOLEAN : [r EXCEPT !.deaf = b] \in SessionRecord
  BY Zenon DEF SessionRecord
<1>6. \A b \in BOOLEAN : [r EXCEPT !.msgTimer = b] \in SessionRecord
  BY Zenon DEF SessionRecord
<1>7. \A n \in Nat : [r EXCEPT !.fails = n] \in SessionRecord
  BY Zenon DEF SessionRecord
<1> QED BY <1>1, <1>2, <1>3, <1>4, <1>5, <1>6, <1>7, Zenon

LEMMA MajorTypes ==
  ASSUME NEW r \in SessionRecord
  PROVE  /\ \A t \in States : [r EXCEPT !.state = t] \in SessionRecord
         /\ \A w \in SocketStates : [r EXCEPT !.ws = w] \in SessionRecord
         /\ \A d \in {"none", "pending", "fired"} : [r EXCEPT !.disconn = d] \in SessionRecord
         /\ \A b \in BOOLEAN : [r EXCEPT !.grabbed = b] \in SessionRecord
         /\ \A b \in BOOLEAN : [r EXCEPT !.blank = b] \in SessionRecord
         /\ \A b \in BOOLEAN : [r EXCEPT !.password = b] \in SessionRecord
         /\ \A t \in Seq(States) : [r EXCEPT !.told = t] \in SessionRecord
         /\ \A n \in Nat : [r EXCEPT !.asks = n] \in SessionRecord
         /\ \A n \in Nat : [r EXCEPT !.lost = n] \in SessionRecord
<1>1. \A t \in States : [r EXCEPT !.state = t] \in SessionRecord
  BY Zenon DEF SessionRecord
<1>2. \A w \in SocketStates : [r EXCEPT !.ws = w] \in SessionRecord
  BY Zenon DEF SessionRecord
<1>3. \A d \in {"none", "pending", "fired"} : [r EXCEPT !.disconn = d] \in SessionRecord
  BY Zenon DEF SessionRecord
<1>4. \A b \in BOOLEAN : [r EXCEPT !.grabbed = b] \in SessionRecord
  BY Zenon DEF SessionRecord
<1>5. \A b \in BOOLEAN : [r EXCEPT !.blank = b] \in SessionRecord
  BY Zenon DEF SessionRecord
<1>6. \A b \in BOOLEAN : [r EXCEPT !.password = b] \in SessionRecord
  BY Zenon DEF SessionRecord
<1>7. \A t \in Seq(States) : [r EXCEPT !.told = t] \in SessionRecord
  BY Zenon DEF SessionRecord
<1>8. \A n \in Nat : [r EXCEPT !.asks = n] \in SessionRecord
  BY Zenon DEF SessionRecord
<1>9. \A n \in Nat : [r EXCEPT !.lost = n] \in SessionRecord
  BY Zenon DEF SessionRecord
<1> QED BY <1>1, <1>2, <1>3, <1>4, <1>5, <1>6, <1>7, <1>8, <1>9, Zenon

LEMMA MinorFields ==
  ASSUME NEW r \in SessionRecord, NEW v
  PROVE  /\ Alike([r EXCEPT !.version = v], r)
         /\ Alike([r EXCEPT !.on = v], r) /\ Alike([r EXCEPT !.deaf = v], r)
         /\ Alike([r EXCEPT !.msgTimer = v], r) /\ Alike([r EXCEPT !.fails = v], r)
<1>1. Alike([r EXCEPT !.version = v], r)
  BY SMT DEF Alike, SessionRecord
<1>2. Alike([r EXCEPT !.on = v], r) /\ Alike([r EXCEPT !.deaf = v], r)
  BY SMT DEF Alike, SessionRecord
<1>3. Alike([r EXCEPT !.msgTimer = v], r) /\ Alike([r EXCEPT !.fails = v], r)
  BY SMT DEF Alike, SessionRecord
<1> QED BY <1>1, <1>2, <1>3

LEMMA StateField ==
  ASSUME NEW r \in SessionRecord, NEW v
  PROVE  LET q == [r EXCEPT !.state = v]
         IN /\ q.state = v
            /\ q.ws = r.ws /\ q.disconn = r.disconn /\ q.grabbed = r.grabbed
            /\ q.blank = r.blank /\ q.told = r.told /\ q.password = r.password /\ q.asks = r.asks
            /\ q.scheme = r.scheme
            /\ q.lost = r.lost
  BY SMT DEF SessionRecord
LEMMA WsField ==
  ASSUME NEW r \in SessionRecord, NEW v
  PROVE  LET q == [r EXCEPT !.ws = v]
         IN /\ q.ws = v
            /\ q.state = r.state /\ q.disconn = r.disconn /\ q.grabbed = r.grabbed
            /\ q.blank = r.blank /\ q.told = r.told /\ q.password = r.password /\ q.asks = r.asks
            /\ q.scheme = r.scheme
            /\ q.lost = r.lost
  BY SMT DEF SessionRecord
LEMMA DisconnField ==
  ASSUME NEW r \in SessionRecord, NEW v
  PROVE  LET q == [r EXCEPT !.disconn = v]
         IN /\ q.disconn = v
            /\ q.state = r.state /\ q.ws = r.ws /\ q.grabbed = r.grabbed
            /\ q.blank = r.blank /\ q.told = r.told /\ q.password = r.password /\ q.asks = r.asks
            /\ q.scheme = r.scheme
            /\ q.lost = r.lost
  BY SMT DEF SessionRecord
LEMMA GrabbedField ==
  ASSUME NEW r \in SessionRecord, NEW v
  PROVE  LET q == [r EXCEPT !.grabbed = v]
         IN /\ q.grabbed = v
            /\ q.state = r.state /\ q.ws = r.ws /\ q.disconn = r.disconn
            /\ q.blank = r.blank /\ q.told = r.told /\ q.password = r.password /\ q.asks = r.asks
            /\ q.scheme = r.scheme
            /\ q.lost = r.lost
  BY SMT DEF SessionRecord
LEMMA BlankField ==
  ASSUME NEW r \in SessionRecord, NEW v
  PROVE  LET q == [r EXCEPT !.blank = v]
         IN /\ q.blank = v
            /\ q.state = r.state /\ q.ws = r.ws /\ q.disconn = r.disconn /\ q.grabbed = r.grabbed
            /\ q.told = r.told /\ q.password = r.password /\ q.asks = r.asks
            /\ q.scheme = r.scheme /\ q.lost = r.lost
  BY SMT DEF SessionRecord
LEMMA ToldField ==
  ASSUME NEW r \in SessionRecord, NEW v
  PROVE  LET q == [r EXCEPT !.told = v]
         IN /\ q.told = v
            /\ q.state = r.state /\ q.ws = r.ws /\ q.disconn = r.disconn /\ q.grabbed = r.grabbed
            /\ q.blank = r.blank /\ q.password = r.password /\ q.asks = r.asks
            /\ q.scheme = r.scheme /\ q.lost = r.lost
  BY SMT DEF SessionRecord
LEMMA SchemeField ==
  ASSUME NEW r \in SessionRecord, NEW v
  PROVE  LET q == [r EXCEPT !.scheme = v]
         IN /\ q.scheme = v
            /\ q.state = r.state /\ q.ws = r.ws /\ q.disconn = r.disconn /\ q.grabbed = r.grabbed
            /\ q.blank = r.blank /\ q.told = r.told /\ q.password = r.password /\ q.asks = r.asks
            /\ q.lost = r.lost
  BY SMT DEF SessionRecord
LEMMA SentField ==
  ASSUME NEW r \in SessionRecord, NEW v \in Nat
  PROVE  [r EXCEPT !.sent = v] \in SessionRecord /\ Alike([r EXCEPT !.sent = v], r)
<1>1. [r EXCEPT !.sent = v] \in SessionRecord
  BY Zenon DEF SessionRecord
<1>2. Alike([r EXCEPT !.sent = v], r)
  BY SMT DEF Alike, SessionRecord
<1> QED BY <1>1, <1>2
LEMMA PasswordField ==
  ASSUME NEW r \in SessionRecord, NEW v
  PROVE  LET q == [r EXCEPT !.password = v]
         IN /\ q.password = v
            /\ q.state = r.state /\ q.ws = r.ws /\ q.disconn = r.disconn /\ q.grabbed = r.grabbed
            /\ q.blank = r.blank /\ q.told = r.told /\ q.asks = r.asks
            /\ q.scheme = r.scheme /\ q.lost = r.lost
  BY SMT DEF SessionRecord
LEMMA AsksField ==
  ASSUME NEW r \in SessionRecord, NEW v
  PROVE  LET q == [r EXCEPT !.asks = v]
         IN /\ q.asks = v
            /\ q.state = r.state /\ q.ws = r.ws /\ q.disconn = r.disconn /\ q.grabbed = r.grabbed
            /\ q.blank = r.blank /\ q.told = r.told /\ q.password = r.password /\ q.lost = r.lost
            /\ q.scheme = r.scheme
  BY SMT DEF SessionRecord
LEMMA LostField ==
  ASSUME NEW r \in SessionRecord, NEW v
  PROVE  LET q == [r EXCEPT !.lost = v]
         IN /\ q.lost = v
            /\ q.state = r.state /\ q.ws = r.ws /\ q.disconn = r.disconn /\ q.grabbed = r.grabbed
            /\ q.blank = r.blank /\ q.told = r.told /\ q.password = r.password /\ q.asks = r.asks
            /\ q.scheme = r.scheme
  BY SMT DEF SessionRecord

(***************************************************************************)
(* _updateState                                                            *)
(***************************************************************************)
\* all but the state of the websocket, the grab and the timers
Keeps(q, r) ==
    q.blank = r.blank /\ q.password = r.password /\ q.asks = r.asks /\ q.scheme = r.scheme

LEMMA Cleaned ==
  ASSUME NEW r \in SessionRecord
  PROVE  LET c == cleanupSocket(r)
         IN /\ c \in SessionRecord /\ ~Live(c) /\ c.grabbed = FALSE
            /\ c.state = r.state /\ c.told = r.told /\ c.disconn = r.disconn
            /\ Keeps(c, r)
<1> DEFINE q1 == [r EXCEPT !.msgTimer = FALSE]
           q2 == [q1 EXCEPT !.grabbed = FALSE]
           d == r.ws # "none"
           q3 == [q2 EXCEPT !.deaf = d]
           w == IF r.ws \in {"connecting", "open"} THEN "closing" ELSE r.ws
           q4 == [q3 EXCEPT !.ws = w]
<1>0. cleanupSocket(r) = q4
  <2>1. cleanupSocket(r) = [q3 EXCEPT !.ws = IF q3.ws \in {"connecting", "open"} THEN "closing" ELSE q3.ws]
    BY Zenon DEF cleanupSocket
  <2>2. q3.ws = r.ws
    BY SMT DEF SessionRecord
  <2> QED BY <2>1, <2>2, Zenon
<1>d. d \in BOOLEAN /\ w \in SocketStates /\ w \notin {"connecting", "open"}
  BY AlikeType DEF SocketStates
<1> HIDE DEF d, w
<1>1. q1 \in SessionRecord /\ Alike(q1, r)
  BY MinorTypes, MinorFields, Zenon
<1> HIDE DEF q1
<1>2. q2 \in SessionRecord
  BY <1>1, MajorTypes, Zenon
<1>3. /\ q2.grabbed = FALSE /\ q2.state = q1.state /\ q2.disconn = q1.disconn
      /\ q2.blank = q1.blank /\ q2.told = q1.told /\ q2.password = q1.password
      /\ q2.asks = q1.asks /\ q2.scheme = q1.scheme
  BY <1>1, GrabbedField, Zenon
<1> HIDE DEF q2
<1>4. q3 \in SessionRecord /\ Alike(q3, q2)
  BY <1>2, <1>d, MinorTypes, MinorFields, Zenon
<1> HIDE DEF q3
<1>5. q4 \in SessionRecord
  BY <1>4, <1>d, MajorTypes, Zenon
<1>6. /\ q4.ws = w /\ q4.grabbed = q3.grabbed /\ q4.state = q3.state /\ q4.disconn = q3.disconn
      /\ q4.blank = q3.blank /\ q4.told = q3.told /\ q4.password = q3.password
      /\ q4.asks = q3.asks /\ q4.scheme = q3.scheme
  BY <1>4, WsField, ZenonT(40)
<1> HIDE DEF q4
<1>7. ~Live(q4)
  BY <1>6, <1>d, Zenon DEF Live
<1>8. /\ q4.grabbed = FALSE /\ q4.state = r.state /\ q4.told = r.told /\ q4.disconn = r.disconn
      /\ Keeps(q4, r)
  BY <1>1, <1>3, <1>4, <1>6, Zenon DEF Alike, Keeps
<1> QED BY <1>0, <1>5, <1>7, <1>8, Zenon

LEMMA UntrackedFields ==
  ASSUME NEW r \in SessionRecord
  PROVE  LET c == Untracked(r)
         IN /\ c \in SessionRecord /\ c.disconn = "none"
            /\ c.ws = r.ws /\ c.grabbed = r.grabbed /\ c.state = r.state /\ c.told = r.told
            /\ Keeps(c, r)
<1> DEFINE q1 == [r EXCEPT !.disconn = "none"]
           h == r.on \ {"close"}
           q2 == [q1 EXCEPT !.on = h]
<1>0. Untracked(r) = q2
  <2>1. Untracked(r) = [q1 EXCEPT !.on = q1.on \ {"close"}]
    BY Zenon DEF Untracked
  <2>2. q1.on = r.on
    BY SMT DEF SessionRecord
  <2> QED BY <2>1, <2>2, Zenon
<1>h. h \in SUBSET Handlers
  BY AlikeType
<1> HIDE DEF h
<1>1. q1 \in SessionRecord
  BY MajorTypes, Zenon
<1>2. /\ q1.disconn = "none" /\ q1.ws = r.ws /\ q1.grabbed = r.grabbed /\ q1.state = r.state
      /\ q1.blank = r.blank /\ q1.told = r.told /\ q1.password = r.password /\ q1.asks = r.asks
      /\ q1.scheme = r.scheme
  BY DisconnField, Zenon
<1> HIDE DEF q1
<1>3. q2 \in SessionRecord /\ Alike(q2, q1)
  BY <1>1, <1>h, MinorTypes, MinorFields, Zenon
<1> HIDE DEF q2
<1> QED BY <1>0, <1>2, <1>3, Zenon DEF Alike, Keeps

LEMMA Entered ==
  ASSUME NEW r \in SessionRecord, NEW st \in States, NEW told \in Seq(States)
  PROVE  LET n == [r EXCEPT !.state = st, !.told = told]
         IN /\ n \in SessionRecord /\ n.state = st /\ n.told = told
            /\ n.ws = r.ws /\ n.grabbed = r.grabbed /\ n.disconn = r.disconn
            /\ Keeps(n, r)
<1> DEFINE q1 == [r EXCEPT !.state = st]
           q2 == [q1 EXCEPT !.told = told]
<1>1. q1 \in SessionRecord
  BY MajorTypes, Zenon
<1>2. /\ q1.state = st /\ q1.ws = r.ws /\ q1.grabbed = r.grabbed /\ q1.disconn = r.disconn
      /\ q1.blank = r.blank /\ q1.password = r.password /\ q1.asks = r.asks /\ q1.scheme = r.scheme
  BY StateField, Zenon
<1> HIDE DEF q1
<1>3. q2 \in SessionRecord
  BY <1>1, MajorTypes, Zenon
<1>4. /\ q2.told = told /\ q2.state = q1.state /\ q2.ws = q1.ws /\ q2.grabbed = q1.grabbed
      /\ q2.disconn = q1.disconn
      /\ q2.blank = q1.blank /\ q2.password = q1.password /\ q2.asks = q1.asks
      /\ q2.scheme = q1.scheme
  BY <1>1, ToldField, Zenon
<1>5. [r EXCEPT !.state = st, !.told = told] = q2
  BY Zenon DEF q1
<1> HIDE DEF q2
<1> QED BY <1>2, <1>3, <1>4, <1>5, Zenon DEF Keeps

\* the last step of _updateState
Ended(n, st) ==
    CASE st = "connect" -> [n EXCEPT !.ws = "connecting", !.deaf = FALSE]
      [] st = "disconnect" -> DisconnTimer(n)
      [] st = "failed" -> [n EXCEPT !.fails = @ + 1]
      [] OTHER -> n
LEMMA EndedFields ==
  ASSUME NEW n \in SessionRecord, NEW st \in States
  PROVE  LET u == Ended(n, st)
         IN /\ u \in SessionRecord /\ u.state = n.state /\ u.told = n.told
            /\ u.grabbed = n.grabbed /\ Keeps(u, n)
            /\ st # "connect" => u.ws = n.ws
            /\ st # "disconnect" => u.disconn = n.disconn
<1>1. CASE st = "connect"
  <2> DEFINE q1 == [n EXCEPT !.ws = "connecting"]
             q2 == [q1 EXCEPT !.deaf = FALSE]
  <2>0. Ended(n, st) = q2
    BY <1>1, Zenon DEF Ended
  <2>1. q1 \in SessionRecord
    BY MajorTypes, Zenon DEF SocketStates
  <2>2. /\ q1.state = n.state /\ q1.told = n.told /\ q1.grabbed = n.grabbed /\ q1.disconn = n.disconn
        /\ q1.blank = n.blank /\ q1.password = n.password /\ q1.asks = n.asks
        /\ q1.scheme = n.scheme
    BY WsField, Zenon
  <2> HIDE DEF q1
  <2>3. q2 \in SessionRecord /\ Alike(q2, q1)
    BY <2>1, MinorTypes, MinorFields, Zenon
  <2> HIDE DEF q2
  <2> QED BY <1>1, <2>0, <2>2, <2>3, Zenon DEF Alike, Keeps
<1>2. CASE st = "disconnect"
  <2> DEFINE q1 == [n EXCEPT !.disconn = "pending"]
             l == IF n.disconn = "pending" THEN n.lost + 1 ELSE n.lost
             q2 == [q1 EXCEPT !.lost = l]
  <2>0. Ended(n, st) = q2
    <3>1. Ended(n, st) = [q1 EXCEPT !.lost = IF n.disconn = "pending" THEN q1.lost + 1 ELSE q1.lost]
      BY <1>2, Zenon DEF Ended, DisconnTimer
    <3>2. q1.lost = n.lost
      BY DisconnField, Zenon
    <3> QED BY <3>1, <3>2, Zenon
  <2>l. l \in Nat
    BY AlikeType
  <2> HIDE DEF l
  <2>1. q1 \in SessionRecord
    BY MajorTypes, Zenon
  <2>2. /\ q1.state = n.state /\ q1.told = n.told /\ q1.grabbed = n.grabbed /\ q1.ws = n.ws
        /\ q1.blank = n.blank /\ q1.password = n.password /\ q1.asks = n.asks
        /\ q1.scheme = n.scheme
    BY DisconnField, Zenon
  <2> HIDE DEF q1
  <2>3. q2 \in SessionRecord
    BY <2>1, <2>l, MajorTypes, Zenon
  <2>4. /\ q2.state = q1.state /\ q2.told = q1.told /\ q2.grabbed = q1.grabbed /\ q2.ws = q1.ws
        /\ q2.blank = q1.blank /\ q2.password = q1.password /\ q2.asks = q1.asks
        /\ q2.scheme = q1.scheme
    BY <2>1, LostField, Zenon
  <2> HIDE DEF q2
  <2> QED BY <1>2, <2>0, <2>2, <2>3, <2>4, Zenon DEF Keeps
<1>3. CASE st = "failed"
  <2> DEFINE f == n.fails + 1
             q1 == [n EXCEPT !.fails = f]
  <2>0. Ended(n, st) = q1
    BY <1>3, Zenon DEF Ended
  <2>f. f \in Nat
    BY AlikeType
  <2> HIDE DEF f
  <2>1. q1 \in SessionRecord /\ Alike(q1, n)
    BY <2>f, MinorTypes, MinorFields, Zenon
  <2> HIDE DEF q1
  <2> QED BY <1>3, <2>0, <2>1, Zenon DEF Alike, Keeps
<1>4. CASE st \notin {"connect", "disconnect", "failed"}
  <2>1. Ended(n, st) = n
    BY <1>4, Zenon DEF Ended
  <2> QED BY <2>1, Zenon DEF Keeps
<1> QED BY <1>1, <1>2, <1>3, <1>4, Zenon

\* What _updateState(st) makes of an object
LEMMA Update ==
  ASSUME NEW r \in SessionRecord, NEW st \in States
  PROVE  LET u == updateState(r, st)
         IN /\ u \in SessionRecord /\ Keeps(u, r)
            /\ u.state = IF r.state = "failed" /\ st = "disconnected" THEN "failed" ELSE st
            /\ u.told = Append(r.told, st)
            /\ st \in Down \ {"connect"} => ~Live(u)
            /\ st \in Down => u.grabbed = FALSE
            /\ st \notin Down => u.grabbed = r.grabbed
            /\ st # "disconnect" => u.disconn = "none"
<1> DEFINE c == IF st \in Down THEN cleanupSocket(r) ELSE r
           next == IF r.state = "failed" /\ st = "disconnected" THEN "failed" ELSE st
           d == IF c.disconn # "none" /\ next # "disconnect" THEN Untracked(c) ELSE c
           told == Append(r.told, st)
           n == [d EXCEPT !.state = next, !.told = told]
           u == Ended(n, st)
<1>0. updateState(r, st) = u
  BY Zenon DEF updateState, Ended, Told
<1>t. told \in Seq(States) /\ next \in States /\ (next = "disconnect" <=> st = "disconnect")
  BY AlikeType DEF States, Down
<1>1. /\ c \in SessionRecord /\ Keeps(c, r) /\ c.disconn = r.disconn
      /\ st \in Down => ~Live(c) /\ c.grabbed = FALSE
      /\ st \notin Down => c.grabbed = r.grabbed
  BY Cleaned, Zenon DEF Keeps
<1> HIDE DEF c, next, told
<1>2. /\ d \in SessionRecord /\ Keeps(d, r) /\ d.ws = c.ws /\ d.grabbed = c.grabbed
      /\ st # "disconnect" => d.disconn = "none"
  BY <1>1, <1>t, UntrackedFields, Zenon DEF Keeps
<1> HIDE DEF d
<1>3. /\ n \in SessionRecord /\ n.state = next /\ n.told = told
      /\ n.ws = d.ws /\ n.grabbed = d.grabbed /\ n.disconn = d.disconn /\ Keeps(n, d)
  BY <1>2, <1>t, Entered, Zenon
<1> HIDE DEF n
<1>4. /\ u \in SessionRecord /\ u.state = n.state /\ u.told = n.told
      /\ u.grabbed = n.grabbed /\ Keeps(u, n)
      /\ st # "connect" => u.ws = n.ws
      /\ st # "disconnect" => u.disconn = n.disconn
  BY <1>3, EndedFields, Zenon
<1> HIDE DEF u
<1>5. u.state = next /\ u.told = told /\ Keeps(u, r)
  BY <1>2, <1>3, <1>4, Zenon DEF Keeps
<1>6. /\ st \in Down \ {"connect"} => ~Live(u)
      /\ st \in Down => u.grabbed = FALSE
      /\ st \notin Down => u.grabbed = r.grabbed
      /\ st # "disconnect" => u.disconn = "none"
  BY <1>1, <1>2, <1>3, <1>4, Zenon DEF Live
<1> QED BY <1>0, <1>4, <1>5, <1>6, Zenon DEF next, told

(***************************************************************************)
(* What an object may tell                                                 *)
(***************************************************************************)
Among(t, S) == \E n \in 1..Len(t) : t[n] \in S
Asked(t) == Among(t, {"password"})

LEMMA Appended ==
  ASSUME NEW t \in Seq(States), NEW st \in States, NEW a, a = Append(t, st)
  PROVE  /\ a # <<>> /\ a[Len(a)] = st
         /\ \A S : Among(a, S) <=> Among(t, S) \/ st \in S
<1>1. /\ a # <<>> /\ a[Len(a)] = st /\ Len(a) = Len(t) + 1 /\ Len(t) \in Nat
      /\ \A n \in 1..Len(t) : a[n] = t[n]
  OBVIOUS
<1>2. ASSUME NEW S PROVE Among(a, S) <=> Among(t, S) \/ st \in S
  <2>1. Among(t, S) \/ st \in S => Among(a, S)
    BY <1>1 DEF Among
  <2>2. ASSUME NEW n \in 1..Len(a), a[n] \in S PROVE Among(t, S) \/ st \in S
    <3>1. CASE n = Len(a)
      BY <3>1, <1>1, <2>2
    <3>2. CASE n \in 1..Len(t)
      BY <3>2, <1>1, <2>2 DEF Among
    <3> QED BY <3>1, <3>2, <1>1
  <2> QED BY <2>1, <2>2 DEF Among
<1> QED BY <1>1, <1>2

LEMMA Untold == ASSUME NEW S PROVE ~Among(<<>>, S)
  BY DEF Among

\* what an event of object q may make of it, and may tell
Happening(q, r) ==
    /\ r \in SessionRecord /\ Sound(r)
    /\ (q.blank => r.blank) /\ (Past(q) => Past(r)) /\ (r.asks > 0 => q.asks > 0)
    /\ r.told = <<>> => r.state = q.state
    /\ r.told # <<>> => Shows(r.told[Len(r.told)], r)
    /\ ~Among(r.told, {"loaded"})
    /\ Among(r.told, Over) => r.told[Len(r.told)] \in Over
    /\ q.state \in Over => ~Among(r.told, States \ Over)
    /\ q.state \in Stuck => r.state \in Stuck
    /\ Asked(r.told) => Past(r) /\ (r.blank \/ r.state = "password")

\* an event the page is not told of leaves the password, and a timer that is to look
\* at one that is missing
Silent(q, r) ==
    r.told = <<>> =>
       /\ r.password = q.password
       /\ q.state = "Authentication" /\ Keyed(q) /\ ~q.password => r.asks = q.asks

\* how far an event may have come
Said(q, r) ==
    /\ r \in SessionRecord
    /\ (q.blank => r.blank) /\ (Past(q) \/ Asked(r.told) => Past(r)) /\ r.asks = q.asks
    /\ r.told = <<>> => r.state = q.state
    /\ r.told # <<>> => r.told[Len(r.told)] = r.state
    /\ ~Among(r.told, {"loaded"}) /\ ~Among(r.told, Over)
    /\ Asked(r.told) => r.blank
Going(q, r) ==
    Said(q, r) /\ (r.grabbed => r.blank) /\ q.state \notin Stuck /\ r.state \notin Over

LEMMA SaidNothing ==
  ASSUME NEW q \in SessionRecord, NEW r \in SessionRecord, Keeps(r, q), r.state = q.state,
         r.told = <<>>
  PROVE  Said(q, r)
<1>1. ~Among(r.told, {"loaded"}) /\ ~Among(r.told, Over) /\ ~Asked(r.told)
  BY Untold, Zenon DEF Asked
<1>2. Past(q) => Past(r)
  BY Zenon DEF Past, Keyed, Keeps
<1> QED BY <1>1, <1>2, Zenon DEF Said, Keeps
LEMMA Stays ==
  ASSUME NEW q \in SessionRecord, NEW r \in SessionRecord, r.state = q.state, r.told = <<>>,
         q.blank => r.blank, r.scheme = q.scheme, r.asks > 0 => q.asks > 0, Sound(r)
  PROVE  Happening(q, r)
<1>1. ~Among(r.told, {"loaded"}) /\ ~Among(r.told, Over) /\ ~Among(r.told, States \ Over)
      /\ ~Asked(r.told)
  BY Untold, Zenon DEF Asked
<1>2. Past(q) => Past(r)
  BY Zenon DEF Past, Keyed
<1> QED BY <1>1, <1>2, Zenon DEF Happening
LEMMA AlikeSaid ==
  ASSUME NEW q, NEW r, NEW x \in SessionRecord, Alike(x, r)
  PROVE  (Said(q, r) => Said(q, x)) /\ (Going(q, r) => Going(q, x))
<1>1. Past(r) => Past(x)
  BY Zenon DEF Past, Keyed, Alike
<1>2. Said(q, r) => Said(q, x)
  BY <1>1, Zenon DEF Said, Alike
<1> QED BY <1>2, Zenon DEF Going, Alike

LEMMA GoingEvent ==
  ASSUME NEW q \in SessionRecord, NEW r, Going(q, r)
  PROVE  Happening(q, r)
<1>1. Sound(r)
  BY Zenon DEF Going, Sound
<1>2. q.state \notin Over
  BY Zenon DEF Going, Stuck
<1>3. r.asks > 0 => q.asks > 0
  BY Zenon DEF Going, Said
<1> QED BY <1>1, <1>2, <1>3, Zenon DEF Going, Said, Happening, Shows

\* an object ends, or is told to end
LEMMA Ends ==
  ASSUME NEW q \in SessionRecord, NEW r, Said(q, r), NEW st \in Over \cup {"disconnect"},
         q.state \notin Over \/ (r.told = <<>> /\ st \in Over)
  PROVE  Happening(q, updateState(r, st))
<1> DEFINE u == updateState(r, st)
<1>0. st \in States /\ st \in Down \ {"connect"} /\ st \in Stuck /\ st \notin {"loaded"}
      /\ st \notin {"password"} /\ (st = "disconnect" <=> st \notin Over) /\ st # "loaded"
  BY DEF States, Down, Over, Stuck
<1>e. st \notin Early /\ "failed" \notin Early
  BY DEF Over, Early
<1>1. /\ u \in SessionRecord /\ Keeps(u, r)
      /\ u.state = IF r.state = "failed" /\ st = "disconnected" THEN "failed" ELSE st
      /\ u.told = Append(r.told, st) /\ ~Live(u) /\ u.grabbed = FALSE
      /\ st # "disconnect" => u.disconn = "none"
  BY <1>0, Update, Zenon DEF Said
<1>2. r.told \in Seq(States)
  BY AlikeType, Zenon DEF Said
<1> HIDE DEF u
<1>3. /\ u.told # <<>> /\ u.told[Len(u.told)] = st
      /\ \A S : Among(u.told, S) <=> Among(r.told, S) \/ st \in S
  <2>1. u.told = Append(r.told, st)
    BY <1>1, Zenon
  <2>2. st \in States
    BY <1>0, Zenon
  <2> QED BY <2>1, <2>2, <1>2, Appended, Zenon
<1>4. u.state \in Stuck /\ Shows(st, u) /\ (st \in Over => u.state \in Over)
      /\ (u.state \in Over => st # "disconnect")
  BY <1>0, <1>1 DEF Shows, Over, Stuck
<1>5. Sound(u)
  BY <1>1, <1>4, Zenon DEF Sound
<1>6. /\ (q.blank => u.blank) /\ (u.asks > 0 => q.asks > 0)
      /\ Past(r) => Past(u)
  BY <1>e, <1>1, Zenon DEF Keeps, Said, Past, Keyed
<1>7. ~Among(u.told, {"loaded"}) /\ (Among(u.told, Over) => st \in Over)
  BY <1>0, <1>3, Zenon DEF Said
<1>8. (Past(q) \/ Asked(u.told) => Past(u)) /\ (Asked(u.told) => u.blank)
  BY <1>0, <1>1, <1>3, <1>6, Zenon DEF Said, Asked, Keeps
<1>9. q.state \in Over => ~Among(u.told, States \ Over)
  BY <1>3, Untold, Zenon
<1>10. u.told # <<>> /\ Shows(u.told[Len(u.told)], u)
  BY <1>3, <1>4, Zenon
<1>11. Among(u.told, Over) => u.told[Len(u.told)] \in Over
  BY <1>3, <1>7, Zenon
<1>12. (Past(q) => Past(u)) /\ (Asked(u.told) => Past(u) /\ (u.blank \/ u.state = "password"))
  BY <1>8, Zenon
<1>13. Happening(q, u)
  BY <1>1, <1>4, <1>5, <1>6, <1>7, <1>9, <1>10, <1>11, <1>12, Zenon DEF Happening
<1> QED BY <1>13 DEF u

\* a step of the handshake
Handshake == {"ProtocolVersion", "Security", "Authentication", "SecurityResult",
              "ClientInitialisation", "ServerInitialisation"}
LEMMA Goes ==
  ASSUME NEW q \in SessionRecord, NEW r, Going(q, r), NEW st \in Handshake,
         st \in Early => q.state \in Early /\ r.told = <<>>
  PROVE  Going(q, updateState(r, st)) /\ Happening(q, updateState(r, st))
<1> DEFINE u == updateState(r, st)
<1>0. st \in States /\ st \notin Down /\ st \notin {"loaded"} /\ st \notin {"password"}
      /\ st \notin Over /\ ~(r.state = "failed" /\ st = "disconnected")
  BY DEF States, Down, Over, Handshake
<1>1. /\ u \in SessionRecord /\ Keeps(u, r) /\ u.state = st
      /\ u.told = Append(r.told, st) /\ u.grabbed = r.grabbed
  BY <1>0, Update, Zenon DEF Said, Going
<1>2. r.told \in Seq(States)
  BY AlikeType, Zenon DEF Said, Going
<1> HIDE DEF u
<1>3. /\ u.told # <<>> /\ u.told[Len(u.told)] = st
      /\ \A S : Among(u.told, S) <=> Among(r.told, S) \/ st \in S
  <2>1. u.told = Append(r.told, st)
    BY <1>1, Zenon
  <2>2. st \in States
    BY <1>0, Zenon
  <2> QED BY <2>1, <2>2, <1>2, Appended, Zenon
<1>6. Past(q) \/ Asked(u.told) => Past(u)
  <2>1. Asked(u.told) => Asked(r.told)
    BY <1>0, <1>3, Zenon DEF Asked
  <2>2. Past(r) /\ st \notin Early => Past(u)
    BY <1>1, Zenon DEF Past, Keyed, Keeps
  <2>3. CASE st \in Early
    <3>1. ~Past(q) /\ ~Asked(r.told)
      BY <2>3, Untold, Zenon DEF Past, Asked
    <3> QED BY <2>1, <3>1, Zenon
  <2>4. CASE st \notin Early
    BY <2>1, <2>2, <2>4, Zenon DEF Said, Going
  <2> QED BY <2>3, <2>4, Zenon
<1>4. Said(q, u)
  <2>1. (q.blank => u.blank) /\ u.asks = q.asks /\ (Asked(u.told) => u.blank)
    BY <1>0, <1>1, <1>3, Zenon DEF Keeps, Said, Going, Asked
  <2>2. ~Among(u.told, {"loaded"}) /\ ~Among(u.told, Over)
    BY <1>0, <1>3, Zenon DEF Said, Going
  <2> QED BY <1>1, <1>3, <1>6, <2>1, <2>2, Zenon DEF Said
<1>5. Going(q, u)
  BY <1>0, <1>1, <1>4, Zenon DEF Keeps, Going
<1> QED BY <1>5, GoingEvent, Zenon DEF u

LEMMA GoesNormal ==
  ASSUME NEW q \in SessionRecord, NEW r, Said(q, r), q.state \notin Stuck
  PROVE  Happening(q, updateState(r, "normal"))
<1> DEFINE u == updateState(r, "normal")
<1>0. "normal" \in States /\ "normal" \notin Over /\ "normal" # "disconnected"
      /\ "normal" \notin {"loaded"} /\ "normal" \notin {"password"} /\ "normal" # "disconnect"
      /\ "normal" \notin Early
  BY DEF States, Over, Early
<1>1. /\ u \in SessionRecord /\ Keeps(u, r) /\ u.state = "normal"
      /\ u.told = Append(r.told, "normal")
  BY <1>0, Update, Zenon DEF Said
<1>2. r.told \in Seq(States)
  BY AlikeType, Zenon DEF Said
<1> HIDE DEF u
<1>3. /\ u.told # <<>> /\ u.told[Len(u.told)] = "normal"
      /\ \A S : Among(u.told, S) <=> Among(r.told, S) \/ "normal" \in S
  <2>1. u.told = Append(r.told, "normal")
    BY <1>1, Zenon
  <2>2. "normal" \in States
    BY <1>0, Zenon
  <2> QED BY <2>1, <2>2, <1>2, Appended, Zenon
<1>4. Sound(u) /\ Shows("normal", u)
  BY <1>0, <1>1, Zenon DEF Sound, Shows
<1>5. q.state \notin Over
  BY Zenon DEF Stuck
<1>6. /\ (q.blank => u.blank) /\ (u.asks > 0 => q.asks > 0)
      /\ Past(r) => Past(u)
  BY <1>0, <1>1, Zenon DEF Keeps, Said, Past, Keyed
<1>7. ~Among(u.told, {"loaded"}) /\ ~Among(u.told, Over)
  BY <1>0, <1>3, Zenon DEF Said
<1>8. (Past(q) => Past(u)) /\ (Asked(u.told) => Past(u) /\ (u.blank \/ u.state = "password"))
  BY <1>0, <1>1, <1>3, <1>6, Zenon DEF Said, Asked, Keeps
<1>9. Happening(q, u)
  BY <1>1, <1>3, <1>4, <1>5, <1>6, <1>7, <1>8, Zenon DEF Happening
<1> QED BY <1>9 DEF u

\* the page is asked for the password
LEMMA Asks ==
  ASSUME NEW q \in SessionRecord, NEW r, Going(q, r), Keyed(r)
  PROVE  LET a == updateState(r, "password")
         IN Happening(q, a) /\ a \in SessionRecord /\ Going(q, [a EXCEPT !.blank = TRUE])
<1> DEFINE a == updateState(r, "password")
           b == [a EXCEPT !.blank = TRUE]
<1>0. "password" \in States /\ "password" \notin Over /\ "password" # "disconnected"
      /\ "password" \notin {"loaded"} /\ "password" \in {"password"} /\ "password" # "disconnect"
      /\ "password" \notin Down
  BY DEF States, Over, Down
<1>e. "password" \notin Early
  BY DEF Early
<1>1. /\ a \in SessionRecord /\ Keeps(a, r) /\ a.state = "password"
      /\ a.told = Append(r.told, "password") /\ a.grabbed = r.grabbed
  BY <1>0, Update, Zenon DEF Said, Going
<1>2. r.told \in Seq(States)
  BY AlikeType, Zenon DEF Said, Going
<1> HIDE DEF a
<1>3. /\ a.told # <<>> /\ a.told[Len(a.told)] = "password"
      /\ \A S : Among(a.told, S) <=> Among(r.told, S) \/ "password" \in S
  <2>1. a.told = Append(r.told, "password")
    BY <1>1, Zenon
  <2>2. "password" \in States
    BY <1>0, Zenon
  <2> QED BY <2>1, <2>2, <1>2, Appended, Zenon
<1>4. Sound(a) /\ Shows("password", a)
  BY <1>0, <1>1, Zenon DEF Sound, Shows, Going, Keeps
<1>5. q.state \notin Over /\ q.state \notin Stuck
  BY Zenon DEF Stuck, Going
<1>6. /\ (q.blank => a.blank) /\ (a.asks > 0 => q.asks > 0) /\ Past(a)
  BY <1>e, <1>1, Zenon DEF Keeps, Said, Going, Past, Keyed
<1>7. ~Among(a.told, {"loaded"}) /\ ~Among(a.told, Over)
  BY <1>0, <1>3, Zenon DEF Said, Going
<1>8. Happening(q, a)
  <2>1. a.told # <<>> /\ Shows(a.told[Len(a.told)], a)
    BY <1>3, <1>4, Zenon
  <2>2. Asked(a.told) => Past(a) /\ (a.blank \/ a.state = "password")
    BY <1>1, <1>6, Zenon
  <2> QED BY <1>1, <1>4, <1>5, <1>6, <1>7, <2>1, <2>2, Zenon DEF Happening
<1>9. /\ b.state = a.state /\ b.grabbed = a.grabbed /\ b.blank = TRUE /\ b.told = a.told
      /\ b.scheme = a.scheme /\ b.asks = a.asks
  BY <1>1, BlankField, Zenon
<1>10. b \in SessionRecord
  BY <1>1, MajorTypes, Zenon
<1> HIDE DEF b
<1>11. Said(q, b)
  <2>1. b.asks = q.asks /\ Past(b)
    BY <1>1, <1>6, <1>9, Zenon DEF Said, Going, Keeps, Past, Keyed
  <2> QED BY <1>1, <1>3, <1>7, <1>9, <1>10, <2>1, Zenon DEF Said
<1>12. Going(q, b)
  BY <1>0, <1>1, <1>5, <1>9, <1>11, Zenon DEF Going
<1> QED BY <1>1, <1>8, <1>12, Zenon DEF a, b

(***************************************************************************)
(* The handlers of messages                                                *)
(***************************************************************************)
LEMMA Fails ==
  ASSUME NEW q \in SessionRecord, NEW r, Said(q, r), q.state \notin Over \/ r.told = <<>>
  PROVE  Happening(q, fail(r))
<1>1. "failed" \in Over
  BY DEF Over
<1> QED BY <1>1, Ends, Zenon DEF fail

LEMMA GoingFails ==
  ASSUME NEW q \in SessionRecord, NEW r, Going(q, r)
  PROVE  Happening(q, fail(r))
  BY Fails, Zenon DEF Going, Stuck

LEMMA Blanks ==
  ASSUME NEW q, NEW r, Going(q, r), NEW b \in BOOLEAN, r.blank => b
  PROVE  Going(q, [r EXCEPT !.blank = b])
<1> DEFINE x == [r EXCEPT !.blank = b]
<1>1. r \in SessionRecord
  BY Zenon DEF Going, Said
<1>2. /\ x.blank = b /\ x.state = r.state /\ x.grabbed = r.grabbed /\ x.told = r.told
      /\ x.scheme = r.scheme /\ x.asks = r.asks
  BY <1>1, BlankField, Zenon
<1>3. x \in SessionRecord
  BY <1>1, MajorTypes, Zenon
<1> HIDE DEF x
<1>6. Past(r) => Past(x)
  BY <1>2, Zenon DEF Past, Keyed
<1>4. Said(q, x)
  BY <1>2, <1>3, <1>6, Zenon DEF Going, Said
<1>5. Going(q, x)
  BY <1>2, <1>4, Zenon DEF Going
<1> QED BY <1>5 DEF x

LEMMA HandshakeStates ==
  /\ "Security" \in Handshake /\ "Authentication" \in Handshake /\ "SecurityResult" \in Handshake
  /\ "ClientInitialisation" \in Handshake /\ "ServerInitialisation" \in Handshake
  /\ "ProtocolVersion" \in Handshake
  /\ "Authentication" \notin Early /\ "SecurityResult" \notin Early
  /\ "ClientInitialisation" \notin Early /\ "ServerInitialisation" \notin Early
  BY DEF Handshake, Early

LEMMA ServerInitialisationEvent ==
  ASSUME NEW q \in SessionRecord, NEW r, Going(q, r)
  PROVE  \A x \in ServerInitialisation(r) : Happening(q, x)
<1>1. Going(q, updateState(r, "ClientInitialisation"))
  BY Goes, HandshakeStates, Zenon
<1>2. Happening(q, updateState(updateState(r, "ClientInitialisation"), "ServerInitialisation"))
  BY <1>1, Goes, HandshakeStates, Zenon
<1> QED BY <1>2 DEF ServerInitialisation

LEMMA stdVncAuthEvent ==
  ASSUME NEW q \in SessionRecord, NEW r, Going(q, r), Keyed(r)
  PROVE  \A x \in stdVncAuth(r) : Happening(q, x)
<1> DEFINE a == IF r.password THEN r ELSE updateState(r, "password")
           k == a.blank \/ ~r.password
           b == [a EXCEPT !.blank = k]
<1>1. r.password \in BOOLEAN /\ r \in SessionRecord
  BY AlikeBooleans, Zenon DEF Going, Said
<1>2. Happening(q, a) /\ Going(q, b)
  <2>1. CASE r.password
    <3>1. a = r
      BY <2>1, Zenon
    <3>2. k \in BOOLEAN /\ (r.blank => k)
      BY <3>1, Zenon
    <3> HIDE DEF a, k
    <3> QED BY <3>1, <3>2, GoingEvent, Blanks, Zenon
  <2>2. CASE ~r.password
    <3>1. a = updateState(r, "password")
      BY <2>2, Zenon
    <3>2. k = TRUE
      BY <2>2, Zenon
    <3> HIDE DEF a, k
    <3> QED BY <3>1, <3>2, Asks, Zenon
  <2> QED BY <1>1, <2>1, <2>2, Zenon
<1>3. Happening(q, updateState(b, "SecurityResult"))
  BY <1>2, Goes, HandshakeStates, Zenon
<1>4. stdVncAuth(r) = {a, updateState(b, "SecurityResult")}
  BY Zenon DEF stdVncAuth
<1> HIDE DEF a, b
<1> QED BY <1>2, <1>3, <1>4

\* the scheme, or the password, is another one
LEMMA SchemeGoing ==
  ASSUME NEW q, NEW r, Going(q, r), NEW x \in SessionRecord,
         x.state = r.state, x.grabbed = r.grabbed, x.blank = r.blank, x.told = r.told,
         x.asks = r.asks, Keyed(x) \/ (q.state \in Early /\ r.told = <<>>)
  PROVE  Going(q, x)
<1>1. Past(q) \/ Asked(x.told) => Past(x)
  <2>1. CASE Keyed(x)
    BY <2>1, Zenon DEF Going, Said, Past
  <2>2. CASE q.state \in Early /\ r.told = <<>>
    <3>1. ~Past(q) /\ ~Asked(x.told)
      BY <2>2, Untold, Zenon DEF Past, Asked
    <3> QED BY <3>1, Zenon
  <2> QED BY <2>1, <2>2, Zenon
<1>2. Said(q, x)
  BY <1>1, Zenon DEF Going, Said
<1> QED BY <1>2, Zenon DEF Going

Chosen(r) == [r EXCEPT !.scheme = 2]
LastPart(r, left) == [r EXCEPT !.scheme = 2, !.password = left]
LEMMA ChosenFields ==
  ASSUME NEW r \in SessionRecord
  PROVE  LET x == Chosen(r)
         IN /\ x \in SessionRecord /\ Keyed(x)
            /\ x.state = r.state /\ x.grabbed = r.grabbed /\ x.blank = r.blank
            /\ x.told = r.told /\ x.asks = r.asks /\ x.password = r.password
<1>1. /\ Chosen(r).scheme = 2 /\ Chosen(r).state = r.state /\ Chosen(r).grabbed = r.grabbed
      /\ Chosen(r).blank = r.blank /\ Chosen(r).told = r.told /\ Chosen(r).asks = r.asks
      /\ Chosen(r).password = r.password
  BY SchemeField, Zenon DEF Chosen
<1>2. Chosen(r) \in SessionRecord
  BY MinorTypes, Zenon DEF Chosen
<1>3. Keyed(Chosen(r))
  BY <1>1 DEF Keyed
<1> QED BY <1>1, <1>2, <1>3, Zenon
LEMMA LastPartFields ==
  ASSUME NEW r \in SessionRecord, NEW left \in BOOLEAN
  PROVE  LET y == LastPart(r, left)
         IN /\ y \in SessionRecord /\ Keyed(y)
            /\ y.state = r.state /\ y.grabbed = r.grabbed /\ y.blank = r.blank
            /\ y.told = r.told /\ y.asks = r.asks /\ y.password = left
<1> DEFINE x == Chosen(r)
           y == [x EXCEPT !.password = left]
<1>0. LastPart(r, left) = y
  BY Zenon DEF LastPart, Chosen
<1>1. /\ x \in SessionRecord /\ Keyed(x)
      /\ x.state = r.state /\ x.grabbed = r.grabbed /\ x.blank = r.blank
      /\ x.told = r.told /\ x.asks = r.asks
  BY ChosenFields, Zenon
<1> HIDE DEF x
<1>2. /\ y.password = left /\ y.scheme = x.scheme /\ y.state = x.state
      /\ y.grabbed = x.grabbed /\ y.blank = x.blank /\ y.told = x.told /\ y.asks = x.asks
  BY <1>1, PasswordField, Zenon
<1>3. y \in SessionRecord
  BY <1>1, MajorTypes, Zenon
<1> HIDE DEF y
<1>4. Keyed(y)
  BY <1>1, <1>2, Zenon DEF Keyed
<1> QED BY <1>0, <1>1, <1>2, <1>3, <1>4, Zenon

LEMMA AskedScheme ==
  ASSUME NEW q, NEW r, Going(q, r)
  PROVE  Going(q, Chosen(r)) /\ \A left \in BOOLEAN : Going(q, LastPart(r, left))
<1>1. r \in SessionRecord
  BY Zenon DEF Going, Said
<1>2. Going(q, Chosen(r))
  <2>1. /\ Chosen(r) \in SessionRecord /\ Keyed(Chosen(r))
        /\ Chosen(r).state = r.state /\ Chosen(r).grabbed = r.grabbed
        /\ Chosen(r).blank = r.blank /\ Chosen(r).told = r.told /\ Chosen(r).asks = r.asks
    BY <1>1, ChosenFields, Zenon
  <2> QED BY <2>1, SchemeGoing, Zenon
<1>3. ASSUME NEW left \in BOOLEAN PROVE Going(q, LastPart(r, left))
  BY <1>1, LastPartFields, SchemeGoing, Zenon
<1> QED BY <1>2, <1>3, Zenon

LEMMA authenticationEvent ==
  ASSUME NEW q \in SessionRecord, NEW r, Going(q, r)
  PROVE  \A x \in authentication(r) : Happening(q, x)
<1>1. Happening(q, r) /\ Happening(q, fail(r)) /\ Happening(q, updateState(r, "SecurityResult"))
  BY GoingEvent, GoingFails, Goes, HandshakeStates, Zenon
<1>2. \A x \in ServerInitialisation(r) : Happening(q, x)
  BY ServerInitialisationEvent
<1>0. r \in SessionRecord /\ (r.scheme \in {2, 22} => Keyed(r))
  BY DEF Going, Said, Keyed
<1>3. Keyed(r) => \A x \in stdVncAuth(r) : Happening(q, x)
  BY stdVncAuthEvent, Zenon
<1>4. \A x \in stdVncAuth(Chosen(r)) : Happening(q, x)
  BY <1>0, AskedScheme, ChosenFields, stdVncAuthEvent, Zenon
<1>7. \A left \in BOOLEAN : \A x \in stdVncAuth(LastPart(r, left)) : Happening(q, x)
  BY <1>0, AskedScheme, LastPartFields, stdVncAuthEvent, Zenon
<1>5. \A x \in tightAuth(r) : Happening(q, x)
  BY <1>1, <1>4 DEF tightAuth, Chosen
<1>6. Keyed(r) => \A x \in xvpAuth(r) : Happening(q, x)
  <2>2. CASE r.password
    <3>1. xvpAuth(r) = UNION {stdVncAuth(LastPart(r, left)) : left \in BOOLEAN}
      BY <2>2, Zenon DEF xvpAuth, LastPart
    <3> QED BY <3>1, <1>7
  <2>3. CASE ~r.password
    <3>1. Keyed(r) => Happening(q, updateState(r, "password"))
      BY Asks, Zenon
    <3> QED BY <2>3, <3>1 DEF xvpAuth
  <2> QED BY <2>2, <2>3
<1> QED BY <1>0, <1>1, <1>2, <1>3, <1>5, <1>6 DEF authentication

LEMMA securityEvent ==
  ASSUME NEW q \in SessionRecord, Going(q, q), q.told = <<>>, q.state = "Security"
  PROVE  \A x \in security(q) : Happening(q, x)
<1> DEFINE v == [q EXCEPT !.scheme = server.scheme]
           a == updateState(v, "Authentication")
<1>1. /\ v.state = q.state /\ v.grabbed = q.grabbed /\ v.blank = q.blank /\ v.told = q.told
      /\ v.asks = q.asks
  BY SchemeField, Zenon
<1>2. v \in SessionRecord
  BY MinorTypes, Zenon
<1>5. q.state \in Early
  BY DEF Early
<1> HIDE DEF v
<1>6. Going(q, v)
  BY <1>1, <1>2, <1>5, SchemeGoing, Zenon
<1>7. Going(q, a)
  BY <1>6, Goes, HandshakeStates, Zenon
<1> HIDE DEF a
<1>8. \A x \in authentication(a) : Happening(q, x)
  BY <1>7, authenticationEvent
<1>3. Happening(q, q) /\ Happening(q, fail(q))
  BY GoingEvent, GoingFails
<1>4. security(q) = {q, fail(q)} \cup authentication(a)
  BY Zenon DEF security, a, v
<1> QED BY <1>8, <1>3, <1>4

LEMMA protocolVersionEvent ==
  ASSUME NEW q \in SessionRecord, Going(q, q), q.told = <<>>, q.state = "ProtocolVersion"
  PROVE  \A x \in protocolVersion(q) : Happening(q, x)
<1> DEFINE v == [q EXCEPT !.version = server.version]
<1>1. Happening(q, q) /\ Happening(q, fail(q))
  BY GoingEvent, GoingFails
<1>2. v \in SessionRecord /\ Alike(v, q)
  BY MinorTypes, MinorFields, Zenon
<1>3. protocolVersion(q) = {fail(q), q} \cup {updateState(v, "Security")}
  BY Zenon DEF protocolVersion
<1> HIDE DEF v
<1>4. Going(q, v) /\ v.told = <<>>
  BY <1>2, AlikeSaid, Zenon DEF Alike
<1>5. q.state \in Early
  BY DEF Early
<1>6. Happening(q, updateState(v, "Security"))
  BY <1>4, <1>5, Goes, HandshakeStates, Zenon
<1> QED BY <1>1, <1>3, <1>6

LEMMA serverInitEvent ==
  ASSUME NEW q \in SessionRecord, NEW r, Going(q, r)
  PROVE  \A x \in serverInit(r) : Happening(q, x)
<1> DEFINE g == [r EXCEPT !.grabbed = TRUE]
<1>1. r \in SessionRecord
  BY Zenon DEF Going, Said
<1>2. /\ g.state = r.state /\ g.blank = r.blank /\ g.told = r.told
      /\ g.scheme = r.scheme /\ g.asks = r.asks
  BY <1>1, GrabbedField, Zenon
<1>3. g \in SessionRecord
  BY <1>1, MajorTypes, Zenon
<1>4. serverInit(r) = {r, updateState(g, "normal")}
  BY Zenon DEF serverInit
<1> HIDE DEF g
<1>7. Past(r) => Past(g)
  BY <1>2, Zenon DEF Past, Keyed
<1>5. Said(q, g) /\ q.state \notin Stuck
  BY <1>2, <1>3, <1>7, Zenon DEF Said, Going
<1>6. Happening(q, updateState(g, "normal")) /\ Happening(q, r)
  BY <1>5, GoesNormal, GoingEvent
<1> QED BY <1>4, <1>6

LEMMA initMsgEvent ==
  ASSUME NEW q, SessionOK(q)
  PROVE  /\ \A x \in initMsg(q) : Happening(q, x)
         /\ q.state \in Over => initMsg(q) = {q}
<1>0. q \in SessionRecord /\ q.told = <<>> /\ Sound(q)
  BY DEF SessionOK
<1>1. Happening(q, q) /\ Said(q, q)
  BY <1>0, Stays, SaidNothing, Zenon DEF Keeps
<1>4. q.state \in Over => initMsg(q) = {q}
  BY DEF initMsg, Over
<1>5. SUFFICES \A x \in initMsg(q) : Happening(q, x)
  BY <1>4
<1>2. CASE q.state \in Handshake
  <2>1. q.state \notin Stuck /\ q.state \notin Over /\ q.state # "normal"
    BY <1>2 DEF Handshake, Stuck, Over
  <2>2. Going(q, q)
    BY <1>0, <1>1, <2>1, Zenon DEF Going, Sound
  <2>3. /\ q.state = "ProtocolVersion" => \A x \in protocolVersion(q) : Happening(q, x)
        /\ q.state = "Security" => \A x \in security(q) : Happening(q, x)
        /\ \A x \in authentication(q) : Happening(q, x)
        /\ \A x \in ServerInitialisation(q) : Happening(q, x)
        /\ \A x \in serverInit(q) : Happening(q, x)
        /\ Happening(q, fail(q))
    BY <1>0, <2>2, protocolVersionEvent, securityEvent, authenticationEvent,
       ServerInitialisationEvent, serverInitEvent, GoingFails
  <2> QED BY <1>1, <2>3 DEF initMsg
<1>3. CASE q.state \notin Handshake
  <2>1. initMsg(q) = {q}
    BY <1>3 DEF initMsg, Handshake
  <2> QED BY <1>1, <2>1
<1> QED BY <1>2, <1>3

LEMMA handleMessageEvent ==
  ASSUME NEW q, SessionOK(q)
  PROVE  /\ \A x \in handleMessage(q) : Happening(q, x)
         /\ q.state \in Over => handleMessage(q) = {q}
<1>0. q \in SessionRecord /\ q.told = <<>> /\ Sound(q)
  BY DEF SessionOK
<1>1. Happening(q, q) /\ Said(q, q)
  BY <1>0, Stays, SaidNothing, Zenon DEF Keeps
<1>2. q.state \in Over => handleMessage(q) = {q}
  BY DEF handleMessage, Over
<1>3. \A x \in initMsg(q) : Happening(q, x)
  BY initMsgEvent
<1>4. \A x \in normalMsg(q) : Happening(q, x)
  <2> DEFINE r == [q EXCEPT !.msgTimer = TRUE]
  <2>1. r \in SessionRecord /\ Alike(r, q)
    BY <1>0, MinorTypes, MinorFields, Zenon
  <2>2. Happening(q, fail(q))
    BY <1>0, <1>1, Fails
  <2>3. normalMsg(q) = {q, fail(q), r}
    BY Zenon DEF normalMsg
  <2> HIDE DEF r
  <2>4. Happening(q, r)
    BY <1>0, <2>1, Stays, Zenon DEF Alike, Sound, Live
  <2> QED BY <1>1, <2>2, <2>3, <2>4
<1> QED BY <1>1, <1>2, <1>3, <1>4 DEF handleMessage, Over

LEMMA UpdateTells ==
  ASSUME NEW r \in SessionRecord, NEW st \in States
  PROVE  updateState(r, st) \in SessionRecord /\ updateState(r, st).told # <<>>
<1>1. updateState(r, st) \in SessionRecord /\ updateState(r, st).told = Append(r.told, st)
  BY Update, Zenon
<1>2. r.told \in Seq(States)
  BY AlikeType
<1>3. Append(r.told, st) # <<>>
  BY <1>2
<1> QED BY <1>1, <1>3, Zenon

LEMMA StateNames ==
  /\ "password" \in States /\ "SecurityResult" \in States /\ "ClientInitialisation" \in States
  /\ "ServerInitialisation" \in States /\ "Authentication" \in States /\ "Security" \in States
  /\ "normal" \in States /\ "failed" \in States /\ "ProtocolVersion" \in States
  /\ "disconnected" \in States /\ "disconnect" \in States
  BY DEF States, Down

LEMMA stdVncAuthTells ==
  ASSUME NEW r \in SessionRecord
  PROVE  \A x \in stdVncAuth(r) : x.told # <<>> \/ (r.password /\ x = r)
<1> DEFINE a == IF r.password THEN r ELSE updateState(r, "password")
           k == a.blank \/ ~r.password
           b == [a EXCEPT !.blank = k]
<1>1. a \in SessionRecord
  BY UpdateTells, StateNames, Zenon
<1>2. (r.password /\ a = r) \/ a.told # <<>>
  BY UpdateTells, StateNames, Zenon
<1>3. stdVncAuth(r) = {a, updateState(b, "SecurityResult")}
  BY Zenon DEF stdVncAuth
<1>4. k \in BOOLEAN
  BY Zenon
<1> HIDE DEF a, k
<1>5. b \in SessionRecord
  BY <1>1, <1>4, MajorTypes, Zenon
<1> HIDE DEF b
<1>6. updateState(b, "SecurityResult").told # <<>>
  BY <1>5, UpdateTells, StateNames, Zenon
<1> QED BY <1>2, <1>3, <1>6

LEMMA ServerInitialisationTells ==
  ASSUME NEW r \in SessionRecord
  PROVE  \A x \in ServerInitialisation(r) : x.told # <<>>
<1>1. updateState(r, "ClientInitialisation") \in SessionRecord
  BY UpdateTells, StateNames, Zenon
<1>2. updateState(updateState(r, "ClientInitialisation"), "ServerInitialisation").told # <<>>
  BY <1>1, UpdateTells, StateNames, Zenon
<1> QED BY <1>2 DEF ServerInitialisation

\* a message, or a look at the password, of which the page is told nothing
Left(r, x) == x.told # <<>> \/ (x.password = r.password /\ x.asks = r.asks)
LEMMA authenticationTells ==
  ASSUME NEW r \in SessionRecord
  PROVE  \A x \in authentication(r) :
            Left(r, x) /\ (Keyed(r) /\ ~r.password => x.told # <<>>)
<1> DEFINE v == Chosen(r)
           w(left) == LastPart(r, left)
<1>1. v \in SessionRecord /\ v.password = r.password /\ v.asks = r.asks
  BY ChosenFields, Zenon
<1>3. \A left \in BOOLEAN :
        w(left) \in SessionRecord /\ w(left).password = left /\ w(left).asks = r.asks
  BY LastPartFields, Zenon
<1>4. fail(r).told # <<>> /\ updateState(r, "SecurityResult").told # <<>>
      /\ updateState(r, "password").told # <<>>
  BY UpdateTells, StateNames, Zenon DEF fail
<1>5. \A x \in ServerInitialisation(r) : x.told # <<>>
  BY ServerInitialisationTells
<1>6. \A x \in stdVncAuth(r) : x.told # <<>> \/ (r.password /\ x = r)
  BY stdVncAuthTells
<1> HIDE DEF v, w
<1>7. \A x \in stdVncAuth(v) : x.told # <<>> \/ x = v
  BY <1>1, stdVncAuthTells
<1>8. \A left \in BOOLEAN : \A x \in stdVncAuth(w(left)) : x.told # <<>> \/ (left /\ x = w(left))
  BY <1>3, stdVncAuthTells, Zenon
<1>9. \A x \in tightAuth(r) : Left(r, x)
  <2>1. tightAuth(r) = {r, fail(r), updateState(r, "SecurityResult")} \cup stdVncAuth(v)
    BY Zenon DEF tightAuth, v, Chosen
  <2>2. \A x \in stdVncAuth(v) : Left(r, x)
    BY <1>1, <1>7, Zenon DEF Left
  <2> QED BY <1>4, <2>1, <2>2 DEF Left
<1>10. \A x \in xvpAuth(r) : Left(r, x) /\ (~r.password => x.told # <<>>)
  <2>1. CASE ~r.password
    BY <2>1, <1>4 DEF xvpAuth, Left
  <2>2. CASE r.password
    <3>1. xvpAuth(r) = UNION {stdVncAuth(w(left)) : left \in BOOLEAN}
      BY <2>2, Zenon DEF xvpAuth, LastPart, w
    <3>2. r.password = TRUE
      BY <2>2, AlikeBooleans
    <3>3. ASSUME NEW left \in BOOLEAN, NEW x \in stdVncAuth(w(left)) PROVE Left(r, x)
      <4>1. x.told # <<>> \/ (left = TRUE /\ x = w(left))
        BY <1>8, Zenon
      <4> QED BY <4>1, <1>3, <3>2, Zenon DEF Left
    <3>4. \A left \in BOOLEAN : \A x \in stdVncAuth(w(left)) : Left(r, x)
      BY <3>3
    <3> QED BY <2>2, <3>1, <3>4
  <2> QED BY <2>1, <2>2
<1>11. \A x \in stdVncAuth(r) : Left(r, x) /\ (~r.password => x.told # <<>>)
  BY <1>6, Zenon DEF Left
<1>12. Left(r, r) /\ Left(r, fail(r)) /\ Left(r, updateState(r, "SecurityResult"))
       /\ \A x \in ServerInitialisation(r) : Left(r, x)
  BY <1>4, <1>5, Zenon DEF Left
<1> QED BY <1>4, <1>5, <1>9, <1>10, <1>11, <1>12 DEF authentication, Keyed

LEMMA initMsgTells ==
  ASSUME NEW q \in SessionRecord
  PROVE  \A x \in initMsg(q) :
            /\ Left(q, x)
            /\ q.state = "Authentication" /\ Keyed(q) /\ ~q.password => x.told # <<>>
<1>1. Left(q, q) /\ Left(q, fail(q))
  BY UpdateTells, StateNames, Zenon DEF fail, Left
<1>2. \A x \in ServerInitialisation(q) : Left(q, x)
  BY ServerInitialisationTells, Zenon DEF Left
<1>3. \A x \in authentication(q) :
        Left(q, x) /\ (Keyed(q) /\ ~q.password => x.told # <<>>)
  BY authenticationTells
<1>4. \A x \in protocolVersion(q) : Left(q, x)
  <2> DEFINE v == [q EXCEPT !.version = server.version]
  <2>1. v \in SessionRecord
    BY MinorTypes, Zenon
  <2>2. protocolVersion(q) = {fail(q), q} \cup {updateState(v, "Security")}
    BY Zenon DEF protocolVersion
  <2> HIDE DEF v
  <2>3. Left(q, updateState(v, "Security"))
    BY <2>1, UpdateTells, StateNames, Zenon DEF Left
  <2> QED BY <1>1, <2>2, <2>3
<1>5. \A x \in security(q) : Left(q, x)
  <2> DEFINE v == [q EXCEPT !.scheme = server.scheme]
             a == updateState(v, "Authentication")
  <2>1. v \in SessionRecord /\ v.password = q.password /\ v.asks = q.asks
    BY MinorTypes, SchemeField, Zenon
  <2>2. security(q) = {q, fail(q)} \cup authentication(a)
    BY Zenon DEF security
  <2> HIDE DEF v
  <2>3. a \in SessionRecord /\ Keeps(a, v)
    BY <2>1, Update, StateNames, Zenon
  <2> HIDE DEF a
  <2>4. \A x \in authentication(a) : Left(a, x)
    BY <2>3, authenticationTells, Zenon
  <2>5. \A x : Left(a, x) => Left(q, x)
    BY <2>1, <2>3, Zenon DEF Left, Keeps
  <2> QED BY <1>1, <2>2, <2>4, <2>5
<1>6. \A x \in serverInit(q) : Left(q, x)
  <2> DEFINE g == [q EXCEPT !.grabbed = TRUE]
  <2>1. g \in SessionRecord
    BY MajorTypes, Zenon
  <2>2. serverInit(q) = {q, updateState(g, "normal")}
    BY Zenon DEF serverInit
  <2> HIDE DEF g
  <2>3. Left(q, updateState(g, "normal"))
    BY <2>1, UpdateTells, StateNames, Zenon DEF Left
  <2> QED BY <1>1, <2>2, <2>3
<1> QED BY <1>1, <1>2, <1>3, <1>4, <1>5, <1>6 DEF initMsg

LEMMA handleMessageTells ==
  ASSUME NEW q \in SessionRecord
  PROVE  \A x \in handleMessage(q) : Left(q, x)
<1>1. \A x \in initMsg(q) : Left(q, x)
  BY initMsgTells
<1>2. \A x \in normalMsg(q) : Left(q, x)
  <2> DEFINE r == [q EXCEPT !.msgTimer = TRUE]
  <2>1. r \in SessionRecord /\ Alike(r, q)
    BY MinorTypes, MinorFields, Zenon
  <2>2. normalMsg(q) = {q, fail(q), r}
    BY Zenon DEF normalMsg
  <2> HIDE DEF r
  <2>3. Left(q, q) /\ Left(q, fail(q)) /\ Left(q, r)
    BY <2>1, UpdateTells, StateNames, Zenon DEF Left, Alike, fail
  <2> QED BY <2>2, <2>3
<1>3. Left(q, q)
  BY Zenon DEF Left
<1> QED BY <1>1, <1>2, <1>3 DEF handleMessage

LEMMA LeftSilent ==
  ASSUME NEW q, NEW r, Left(q, r)
  PROVE  Silent(q, r)
  BY Zenon DEF Left, Silent

(***************************************************************************)
(* What the page makes of what it is told                                  *)
(***************************************************************************)
LEMMA SetInduction ==
  ASSUME NEW S, 0 \in S, \A n \in Nat : n \in S => n + 1 \in S
  PROVE  Nat \subseteq S
<1> SUFFICES ASSUME Nat \ S # {} PROVE FALSE
  OBVIOUS
<1>1. IsWellFoundedOn(OpToRel(<, Nat), Nat)
  BY NatLessThanWellFounded
<1>2. \E x \in Nat \ S : \A y \in Nat \ S : <<y, x>> \notin OpToRel(<, Nat)
  BY <1>1, WFMin
<1>3. PICK x \in Nat \ S : \A y \in Nat \ S : ~(y < x)
  BY <1>2 DEF OpToRel
<1>4. x # 0 /\ x - 1 \in Nat
  BY <1>3
<1> QED BY <1>3, <1>4

LEMMA PageTypes ==
  ASSUME NEW p \in PageRecord
  PROVE  /\ \A b \in BOOLEAN : [p EXCEPT !.panel = b] \in PageRecord
         /\ \A b \in BOOLEAN : [p EXCEPT !.late = b] \in PageRecord
         /\ \A t \in States : [p EXCEPT !.rfb_state = t] \in PageRecord
         /\ \A b \in Labels : [p EXCEPT !.button = b] \in PageRecord
         /\ \A n \in Nat : [p EXCEPT !.rfb = n] \in PageRecord
<1>1. \A b \in BOOLEAN : [p EXCEPT !.panel = b] \in PageRecord
  BY Zenon DEF PageRecord
<1>2. \A b \in BOOLEAN : [p EXCEPT !.late = b] \in PageRecord
  BY Zenon DEF PageRecord
<1>3. \A t \in States : [p EXCEPT !.rfb_state = t] \in PageRecord
  BY Zenon DEF PageRecord
<1>4. \A b \in Labels : [p EXCEPT !.button = b] \in PageRecord
  BY Zenon DEF PageRecord
<1>5. \A n \in Nat : [p EXCEPT !.rfb = n] \in PageRecord
  BY Zenon DEF PageRecord
<1> QED BY <1>1, <1>2, <1>3, <1>4, <1>5, Zenon

LEMMA PanelField ==
  ASSUME NEW p \in PageRecord, NEW v
  PROVE  LET q == [p EXCEPT !.panel = v]
         IN /\ q.panel = v
            /\ q.rfb = p.rfb /\ q.rfb_state = p.rfb_state /\ q.button = p.button /\ q.late = p.late
  BY SMT DEF PageRecord
LEMMA LateField ==
  ASSUME NEW p \in PageRecord, NEW v
  PROVE  LET q == [p EXCEPT !.late = v]
         IN /\ q.late = v
            /\ q.rfb = p.rfb /\ q.rfb_state = p.rfb_state /\ q.panel = p.panel /\ q.button = p.button
  BY SMT DEF PageRecord
LEMMA ShownField ==
  ASSUME NEW p \in PageRecord, NEW v
  PROVE  LET q == [p EXCEPT !.rfb_state = v]
         IN /\ q.rfb_state = v
            /\ q.rfb = p.rfb /\ q.panel = p.panel /\ q.button = p.button /\ q.late = p.late
  BY SMT DEF PageRecord
LEMMA ButtonField ==
  ASSUME NEW p \in PageRecord, NEW v
  PROVE  LET q == [p EXCEPT !.button = v]
         IN /\ q.button = v
            /\ q.rfb = p.rfb /\ q.rfb_state = p.rfb_state /\ q.panel = p.panel /\ q.late = p.late
  BY SMT DEF PageRecord
LEMMA RfbField ==
  ASSUME NEW p \in PageRecord, NEW v
  PROVE  LET q == [p EXCEPT !.rfb = v]
         IN /\ q.rfb = v
            /\ q.rfb_state = p.rfb_state /\ q.panel = p.panel /\ q.button = p.button /\ q.late = p.late
  BY SMT DEF PageRecord

LEMMA Toggled ==
  ASSUME NEW p \in PageRecord
  PROVE  LET q == togglePanel(p)
         IN /\ q \in PageRecord /\ q.rfb = p.rfb /\ q.rfb_state = p.rfb_state
            /\ q.button = p.button /\ q.late = p.late /\ (q.panel <=> ~p.panel)
<1> DEFINE b == ~p.panel
           q == [p EXCEPT !.panel = b]
<1>1. togglePanel(p) = q
  BY Zenon DEF togglePanel
<1>2. b \in BOOLEAN
  BY Zenon
<1>b. b <=> ~p.panel
  BY Zenon
<1> HIDE DEF b
<1>3. q \in PageRecord
  BY <1>2, PageTypes, Zenon
<1>4. q.panel = b /\ q.rfb = p.rfb /\ q.rfb_state = p.rfb_state /\ q.button = p.button /\ q.late = p.late
  BY PanelField, Zenon
<1> HIDE DEF q
<1>5. q.panel <=> b
  BY <1>4, Zenon
<1> QED BY <1>1, <1>3, <1>4, <1>5, <1>b, Zenon

LEMMA ShownFields ==
  ASSUME NEW p \in PageRecord, NEW st \in States
  PROVE  LET q == Shown(p, st)
         IN /\ q \in PageRecord /\ q.rfb = p.rfb /\ q.late = p.late /\ q.rfb_state = st
            /\ q.button = IF st = "password" THEN "setPassword" ELSE p.button
            /\ q.panel /\ st # "password" => p.panel \/ st \in Over
<1> DEFINE a == [p EXCEPT !.rfb_state = st]
           t == togglePanel(a)
           b == [t EXCEPT !.button = "setPassword"]
           c == [a EXCEPT !.panel = TRUE]
<1>0. Shown(p, st) = IF st = "password" THEN b ELSE IF st \in Over THEN c ELSE a
  BY Zenon DEF Shown, Over
<1>t. a \in PageRecord
  BY PageTypes, Zenon
<1>f. a.rfb = p.rfb /\ a.late = p.late /\ a.rfb_state = st /\ a.button = p.button /\ a.panel = p.panel
  BY ShownField, Zenon
<1> HIDE DEF a
<1>1. /\ a \in PageRecord /\ a.rfb = p.rfb /\ a.late = p.late /\ a.rfb_state = st
      /\ a.button = p.button /\ a.panel = p.panel
  BY <1>t, <1>f
<1>2. /\ t \in PageRecord /\ t.rfb = a.rfb /\ t.late = a.late /\ t.rfb_state = a.rfb_state
  BY <1>1, Toggled, Zenon
<1> HIDE DEF t
<1>l. "setPassword" \in Labels
  BY DEF Labels
<1>3. /\ b \in PageRecord /\ b.rfb = t.rfb /\ b.late = t.late /\ b.rfb_state = t.rfb_state
      /\ b.button = "setPassword"
  <2>1. b \in PageRecord
    BY <1>2, <1>l, PageTypes, Zenon
  <2> QED BY <2>1, <1>2, ButtonField, Zenon
<1>4. /\ c \in PageRecord /\ c.rfb = a.rfb /\ c.late = a.late /\ c.rfb_state = a.rfb_state
      /\ c.button = a.button
  <2>1. c \in PageRecord
    BY <1>1, PageTypes, Zenon
  <2> QED BY <2>1, <1>1, PanelField, Zenon
<1> HIDE DEF b, c
<1>5. CASE st = "password"
  BY <1>0, <1>1, <1>2, <1>3, <1>5, Zenon
<1>6. CASE st # "password" /\ st \in Over
  BY <1>0, <1>1, <1>4, <1>6, Zenon
<1>7. CASE st # "password" /\ st \notin Over
  BY <1>0, <1>1, <1>7, Zenon
<1> QED BY <1>5, <1>6, <1>7, Zenon

\* show of Tell, as a relation
Showing(f, p, t) == f = [n \in 0..Len(t) |-> IF n = 0 THEN p ELSE Shown(f[n - 1], t[n])]
LEMMA ShowingExists ==
  ASSUME NEW p, NEW t \in Seq(States)
  PROVE  \E f : Showing(f, p, t)
<1> DEFINE F(f, k) == f = [n \in 0..k |-> IF n = 0 THEN p ELSE Shown(f[n - 1], t[n])]
           S == {k \in Nat : \E f : F(f, k)}
<1>1. 0 \in S
  <2> DEFINE f == [n \in 0..0 |-> p]
  <2>1. F(f, 0)
    OBVIOUS
  <2> HIDE DEF f
  <2>2. \E x : F(x, 0)
    BY <2>1, Zenon
  <2> HIDE DEF F
  <2> QED BY <2>2
<1>2. ASSUME NEW k \in Nat, k \in S PROVE k + 1 \in S
  <2>1. PICK f : F(f, k)
    BY <1>2
  <2> DEFINE g == [n \in 0..k + 1 |-> IF n = k + 1 THEN Shown(f[k], t[k + 1]) ELSE f[n]]
  <2>2. F(g, k + 1)
    BY <2>1
  <2> HIDE DEF g
  <2>3. \E x : F(x, k + 1)
    BY <2>2, Zenon
  <2> HIDE DEF F
  <2> QED BY <2>3
<1> HIDE DEF S
<1>3. Nat \subseteq S
  BY <1>1, <1>2, SetInduction, Zenon
<1>4. Len(t) \in S
  BY <1>3
<1> QED BY <1>4 DEF S, Showing

\* the page g, before told p, after it was told t
PageTold(p, t, g) ==
    /\ g \in PageRecord /\ g.rfb = p.rfb /\ g.late = p.late
    /\ t = <<>> => g.rfb_state = p.rfb_state
    /\ t # <<>> => g.rfb_state = t[Len(t)]
    /\ Asked(t) => g.button = "setPassword"
    /\ ~Asked(t) => g.button = p.button
    /\ ~Asked(t) /\ g.panel => p.panel \/ Among(t, Over)

LEMMA ShowingTells ==
  ASSUME NEW p \in PageRecord, NEW t \in Seq(States), NEW f, Showing(f, p, t)
  PROVE  PageTold(p, t, f[Len(t)])
<1> DEFINE Upto(k, S) == \E n \in 1..k : t[n] \in S
           C(k) == /\ f[k] \in PageRecord /\ f[k].rfb = p.rfb /\ f[k].late = p.late
                   /\ k = 0 => f[k].rfb_state = p.rfb_state
                   /\ k > 0 => f[k].rfb_state = t[k]
                   /\ Upto(k, {"password"}) => f[k].button = "setPassword"
                   /\ ~Upto(k, {"password"}) => f[k].button = p.button
                   /\ ~Upto(k, {"password"}) /\ f[k].panel => p.panel \/ Upto(k, Over)
           S == {k \in Nat : k <= Len(t) => C(k)}
<1>0. Len(t) \in Nat
  OBVIOUS
<1>a. \A k \in Nat : \A X : Upto(k + 1, X) <=> Upto(k, X) \/ t[k + 1] \in X
  <2> TAKE k \in Nat
  <2> TAKE X
  <2>1. ASSUME NEW n \in 1..k + 1, t[n] \in X PROVE Upto(k, X) \/ t[k + 1] \in X
    <3>1. n = k + 1 \/ n \in 1..k
      OBVIOUS
    <3> QED BY <2>1, <3>1
  <2>2. Upto(k, X) \/ t[k + 1] \in X => Upto(k + 1, X)
    <3>1. \A n \in 1..k : n \in 1..k + 1
      OBVIOUS
    <3>2. k + 1 \in 1..k + 1
      OBVIOUS
    <3> QED BY <3>1, <3>2
  <2> QED BY <2>1, <2>2
<1>b. \A X : ~Upto(0, X)
  OBVIOUS
<1>1. 0 \in S
  <2>1. f[0] = p
    BY <1>0 DEF Showing
  <2> HIDE DEF Upto
  <2>2. C(0)
    BY <1>b, <2>1
  <2> QED BY <2>2
<1>2. ASSUME NEW k \in Nat, k \in S PROVE k + 1 \in S
  <2> SUFFICES ASSUME k + 1 <= Len(t) PROVE C(k + 1)
    OBVIOUS
  <2> DEFINE st == t[k + 1]
             g == f[k]
             h == f[k + 1]
  <2>1. C(k)
    BY <1>0, <1>2
  <2>2. h = Shown(g, st) /\ st \in States
    <3>1. k + 1 \in 0..Len(t) /\ k + 1 # 0 /\ (k + 1) - 1 = k /\ k + 1 \in 1..Len(t)
      BY <1>0
    <3>2. f[k + 1] = IF k + 1 = 0 THEN p ELSE Shown(f[(k + 1) - 1], t[k + 1])
      BY <3>1, Zenon DEF Showing
    <3>3. f[k + 1] = Shown(f[k], t[k + 1])
      BY <3>1, <3>2, Zenon
    <3>4. t[k + 1] \in States
      BY <3>1
    <3> QED BY <3>3, <3>4, Zenon
  <2>g. g \in PageRecord
    BY <2>1, Zenon
  <2> HIDE DEF g, h, st
  <2>3. /\ h \in PageRecord /\ h.rfb = g.rfb /\ h.late = g.late /\ h.rfb_state = st
        /\ h.button = IF st = "password" THEN "setPassword" ELSE g.button
        /\ h.panel /\ st # "password" => g.panel \/ st \in Over
    BY <2>g, <2>2, ShownFields, Zenon
  <2>4. /\ Upto(k + 1, {"password"}) <=> Upto(k, {"password"}) \/ st = "password"
        /\ Upto(k + 1, Over) <=> Upto(k, Over) \/ st \in Over
    BY <1>a DEF st
  <2>5. k + 1 # 0 /\ k + 1 > 0
    OBVIOUS
  <2> HIDE DEF Upto
  <2>6. /\ g.rfb = p.rfb /\ g.late = p.late
        /\ Upto(k, {"password"}) => g.button = "setPassword"
        /\ ~Upto(k, {"password"}) => g.button = p.button
        /\ ~Upto(k, {"password"}) /\ g.panel => p.panel \/ Upto(k, Over)
    BY <2>1 DEF g
  <2>7. /\ h.rfb = p.rfb /\ h.late = p.late
        /\ Upto(k + 1, {"password"}) => h.button = "setPassword"
        /\ ~Upto(k + 1, {"password"}) => h.button = p.button
        /\ ~Upto(k + 1, {"password"}) /\ h.panel => p.panel \/ Upto(k + 1, Over)
    BY <2>3, <2>4, <2>6, Zenon
  <2> QED BY <2>3, <2>5, <2>7, Zenon DEF h, st
<1> HIDE DEF S
<1>3. Nat \subseteq S
  BY <1>1, <1>2, SetInduction, Zenon
<1>c. C(Len(t))
  <2>1. Len(t) \in S
    BY <1>0, <1>3
  <2> QED BY <1>0, <2>1 DEF S
<1>4. (t = <<>> => Len(t) = 0) /\ (t # <<>> => Len(t) > 0)
  OBVIOUS
<1> QED BY <1>c, <1>4 DEF PageTold, Asked, Among

LEMMA TellPage ==
  ASSUME page \in PageRecord, NEW i, NEW r \in SessionRecord, NEW late \in BOOLEAN,
         Tell(i, r, late)
  PROVE  LET l == page.late \/ (late /\ r.told # <<>>)
         IN PageTold([page EXCEPT !.late = l], r.told, page')
<1> DEFINE p == [page EXCEPT !.late = @ \/ (late /\ r.told # <<>>)]
           t == r.told
           l == page.late \/ (late /\ r.told # <<>>)
<1>1. t \in Seq(States)
  BY AlikeType
<1>2. p = [page EXCEPT !.late = l]
  BY Zenon
<1>l. l \in BOOLEAN
  BY Zenon
<1>3. p \in PageRecord
  <2> HIDE DEF l
  <2> QED BY <1>2, <1>l, PageTypes, Zenon
<1>4. page' = (CHOOSE f : f = [n \in 0..Len(t) |-> IF n = 0 THEN p ELSE Shown(f[n - 1], t[n])])[Len(t)]
  BY Zenon DEF Tell
<1> HIDE DEF p, t
<1> DEFINE f == CHOOSE f : Showing(f, p, t)
<1>5. page' = f[Len(t)]
  BY <1>4, Zenon DEF Showing
<1>6. Showing(f, p, t)
  BY <1>1, ShowingExists, Zenon
<1> HIDE DEF f
<1>7. PageTold(p, t, page')
  BY <1>1, <1>3, <1>5, <1>6, ShowingTells
<1> QED BY <1>2, <1>7, Zenon DEF t

(***************************************************************************)
(* The steps                                                               *)
(***************************************************************************)
LEMMA LastAmong ==
  ASSUME NEW t \in Seq(States), t # <<>>, NEW S, t[Len(t)] \in S
  PROVE  Among(t, S)
<1>1. Len(t) \in 1..Len(t)
  OBVIOUS
<1> QED BY <1>1, Zenon DEF Among

\* the page shows its session still, after an event of it
LEMMA ShownTold ==
  ASSUME NEW q \in SessionRecord, NEW r, Happening(q, r), Silent(q, r),
         NEW p, NEW g, PageTold(p, r.told, g), ShownOK(p, q)
  PROVE  ShownOK(g, r)
<1> DEFINE t == r.told
           last == t[Len(t)]
<1>0. t \in Seq(States) /\ r \in SessionRecord
  BY AlikeType, Zenon DEF Happening
<1>1. t = <<>> => ~Asked(t) /\ ~Among(t, Over)
  BY Untold, Zenon DEF Asked
<1>2. t # <<>> => last \in States
  BY <1>0
<1>3. \A S : t # <<>> /\ last \in S => Among(t, S)
  BY <1>0, LastAmong, Zenon
<1>4. /\ t = <<>> => r.state = q.state
      /\ t # <<>> => Shows(last, r)
      /\ ~Among(t, {"loaded"})
      /\ Among(t, Over) => last \in Over
      /\ q.state \in Over => ~Among(t, States \ Over)
      /\ q.state \in Stuck => r.state \in Stuck
      /\ Asked(t) => Past(r) /\ (r.blank \/ r.state = "password")
      /\ (q.blank => r.blank) /\ (Past(q) => Past(r)) /\ (r.asks > 0 => q.asks > 0)
  BY Zenon DEF Happening
<1>7. t = <<>> =>
         /\ r.password = q.password
         /\ q.state = "Authentication" /\ Past(q) /\ ~q.password => r.asks = q.asks
  BY Zenon DEF Silent, Past
<1>5. /\ t = <<>> => g.rfb_state = p.rfb_state
      /\ t # <<>> => g.rfb_state = last
      /\ Asked(t) => g.button = "setPassword"
      /\ ~Asked(t) => g.button = p.button
      /\ ~Asked(t) /\ g.panel => p.panel \/ Among(t, Over)
  BY Zenon DEF PageTold
<1> HIDE DEF t, last
<1>6. /\ \/ Shows(p.rfb_state, q)
         \/ q.state = "Authentication" /\ p.button = "none" /\ (q.asks > 0 \/ q.password)
      /\ p.rfb_state # "loaded"
      /\ p.button = "connect" /\ p.panel => p.rfb_state \in Over
      /\ p.button = "setPassword" => q.blank \/ q.state \in Stuck
      /\ (q.asks > 0 => p.button # "connect") /\ (p.button # "connect" => Past(q))
  BY Zenon DEF ShownOK
<1>a. \/ Shows(g.rfb_state, r)
      \/ r.state = "Authentication" /\ g.button = "none" /\ (r.asks > 0 \/ r.password)
  <2>1. CASE t # <<>>
    BY <2>1, <1>4, <1>5, Zenon
  <2>2. CASE t = <<>>
    <3>1. g.rfb_state = p.rfb_state /\ g.button = p.button /\ r.state = q.state
      BY <2>2, <1>1, <1>4, <1>5, Zenon
    <3>2. CASE Shows(p.rfb_state, q)
      BY <3>1, <3>2, Zenon DEF Shows
    <3>3. CASE q.state = "Authentication" /\ p.button = "none" /\ (q.asks > 0 \/ q.password)
      <4>1. Past(q)
        <5>1. "none" # "connect"
          OBVIOUS
        <5> QED BY <5>1, <3>3, <1>6, Zenon
      <4>2. r.asks > 0 \/ r.password
        BY <4>1, <2>2, <3>3, <1>7, Zenon
      <4> QED BY <4>2, <3>1, <3>3, Zenon
    <3> QED BY <3>2, <3>3, <1>6, Zenon
  <2> QED BY <2>1, <2>2
<1>b. g.rfb_state # "loaded"
  <2>1. "loaded" \in {"loaded"}
    OBVIOUS
  <2> QED BY <1>3, <1>4, <1>5, <1>6, <2>1, Zenon
<1>c. ASSUME g.button = "connect", g.panel PROVE g.rfb_state \in Over
  <2>1. ~Asked(t) /\ p.button = "connect" /\ "connect" # "none"
    BY <1>c, <1>5, Zenon
  <2>2. CASE Among(t, Over)
    BY <2>2, <1>1, <1>4, <1>5, Zenon
  <2>3. CASE ~Among(t, Over)
    <3>1. p.rfb_state \in Over
      BY <2>1, <2>3, <1>c, <1>5, <1>6, Zenon
    <3>2. q.state \in Over
      <4>1. Shows(p.rfb_state, q)
        BY <2>1, <1>6, Zenon
      <4>2. "failed" \in Over
        BY DEF Over
      <4> QED BY <3>1, <4>1, <4>2, Zenon DEF Shows
    <3>3. CASE t = <<>>
      BY <3>1, <3>3, <1>5, Zenon
    <3>4. CASE t # <<>>
      <4>1. last \notin States \ Over
        BY <3>2, <3>4, <1>3, <1>4, Zenon
      <4> QED BY <3>4, <4>1, <1>2, <1>5
    <3> QED BY <3>3, <3>4
  <2> QED BY <2>2, <2>3
<1>d. g.button = "setPassword" => r.blank \/ r.state \in Stuck
  <2>1. "password" \in Stuck
    BY DEF Stuck
  <2> QED BY <2>1, <1>4, <1>5, <1>6, Zenon
<1>e. (r.asks > 0 => g.button # "connect") /\ (g.button # "connect" => Past(r))
  <2>1. "setPassword" # "connect"
    OBVIOUS
  <2> QED BY <2>1, <1>4, <1>5, <1>6, Zenon
<1> QED BY <1>a, <1>b, <1>c, <1>d, <1>e, Zenon DEF ShownOK

LEMMA ShownAlike ==
  ASSUME NEW g, NEW r, NEW z, z.state = r.state, z.password = r.password, z.blank = r.blank,
         z.asks = r.asks, z.scheme = r.scheme, ShownOK(g, r)
  PROVE  ShownOK(g, z)
<1>1. Past(r) => Past(z)
  BY Zenon DEF Past, Keyed
<1> QED BY <1>1, Zenon DEF ShownOK, Shows

LEMMA Replaced ==
  ASSUME NEW S, NEW t \in Seq(S), NEW i \in 1..Len(t), NEW x \in S, NEW u, u = [t EXCEPT ![i] = x]
  PROVE  /\ u \in Seq(S) /\ Len(u) = Len(t) /\ u[i] = x
         /\ \A j \in 1..Len(t) : j # i => u[j] = t[j]
  OBVIOUS

LEMMA RecordKept == ASSUME server' = server PROVE SessionRecord' = SessionRecord
  BY Zenon DEF SessionRecord

\* a session when the page was told
LEMMA Stored ==
  ASSUME NEW q, NEW r, Happening(q, r)
  PROVE  LET z == [r EXCEPT !.told = <<>>]
         IN /\ SessionOK(z) /\ z.state = r.state /\ z.password = r.password
            /\ z.blank = r.blank /\ z.asks = r.asks /\ z.scheme = r.scheme
<1> DEFINE z == [r EXCEPT !.told = <<>>]
<1>1. r \in SessionRecord /\ Sound(r)
  BY Zenon DEF Happening
<1>2. /\ z.told = <<>> /\ z.state = r.state /\ z.ws = r.ws /\ z.disconn = r.disconn
      /\ z.grabbed = r.grabbed /\ z.blank = r.blank /\ z.password = r.password
      /\ z.asks = r.asks /\ z.scheme = r.scheme
  BY <1>1, ToldField, Zenon
<1>3. z \in SessionRecord
  <2>1. <<>> \in Seq(States)
    OBVIOUS
  <2> QED BY <1>1, <2>1, MajorTypes, Zenon
<1> HIDE DEF z
<1>4. Sound(z)
  BY <1>1, <1>2, Zenon DEF Sound, Live
<1> QED BY <1>2, <1>3, <1>4, Zenon DEF SessionOK, z

\* the invariant, when session i has become z and the page pg
LEMMA OneStep ==
  ASSUME PageInv, ~page.late, server' = server, NEW i \in Sessions, NEW z, SessionOK(z),
         s' = [s EXCEPT ![i] = z], page' \in PageRecord, page'.rfb = page.rfb,
         ~page'.late =>
            /\ i # page.rfb => z.state \in Over /\ z.asks = 0
            /\ i = page.rfb => ShownOK(page', z)
            /\ i # page.rfb => ShownOK(page', s[page.rfb])
  PROVE  PageInv'
<1>1. s \in Seq(SessionRecord) /\ page.rfb = Len(s) /\ Len(s) <= MaxSessions /\ server \in Servers
  BY Zenon DEF PageInv
<1>2. z \in SessionRecord
  BY Zenon DEF SessionOK
<1>3. /\ s' \in Seq(SessionRecord) /\ Len(s') = Len(s) /\ s'[i] = z
      /\ \A j \in 1..Len(s) : j # i => s'[j] = s[j]
  <2>1. i \in 1..Len(s)
    BY DEF Sessions
  <2> QED BY <1>1, <1>2, <2>1, Replaced
<1>4. SessionRecord' = SessionRecord
  BY RecordKept
<1>5. \A j \in 1..Len(s) : SessionOK(s'[j])
  BY <1>3, Zenon DEF PageInv, Sessions
<1>6. \A j \in Sessions' : SessionOK(s[j])'
  <2>1. Sessions' = 1..Len(s)
    BY <1>3, Zenon DEF Sessions
  <2>2. ASSUME NEW j \in 1..Len(s)
        PROVE  s'[j] \in SessionRecord' /\ Sound(s'[j]) /\ s'[j].told = <<>>
    BY <1>4, <1>5, Zenon DEF SessionOK
  <2> QED BY <2>1, <2>2, Zenon DEF SessionOK
<1>7. Len(s) # 0 /\ page.rfb \in 1..Len(s) /\ page'.rfb # 0
  BY <1>1 DEF Sessions
<1>8. ASSUME ~page'.late
      PROVE  /\ \A j \in 1..Len(s) : j # page.rfb => s'[j].state \in Over /\ s'[j].asks = 0
             /\ ShownOK(page', s'[page.rfb])
  <2>1. \A j \in 1..Len(s) : j # page.rfb => s[j].state \in Over /\ s[j].asks = 0
    BY Zenon DEF PageInv, Sessions
  <2>2. ASSUME NEW j \in 1..Len(s), j # page.rfb PROVE s'[j].state \in Over /\ s'[j].asks = 0
    BY <2>1, <2>2, <1>3, <1>8, Zenon
  <2>3. ShownOK(page', s'[page.rfb])
    BY <1>3, <1>7, <1>8, Zenon
  <2> QED BY <2>2, <2>3
<1> QED BY <1>1, <1>3, <1>4, <1>6, <1>7, <1>8, Zenon DEF PageInv, Sessions

LEMMA TellInv ==
  ASSUME PageInv, ~page.late, NEW i \in Sessions, NEW r, Happening(s[i], r), Silent(s[i], r),
         NEW late \in BOOLEAN, Tell(i, r, late),
         i = page.rfb => ~late, i # page.rfb => late \/ r.told = <<>>
  PROVE  PageInv'
<1> DEFINE z == [r EXCEPT !.told = <<>>]
           l == page.late \/ (late /\ r.told # <<>>)
           p == [page EXCEPT !.late = l]
<1>1. r \in SessionRecord /\ page \in PageRecord /\ page.rfb = Len(s) /\ s \in Seq(SessionRecord)
  BY Zenon DEF PageInv, Happening
<1>2. PageTold(p, r.told, page')
  BY <1>1, TellPage, Zenon
<1>l. l <=> late /\ r.told # <<>>
  BY Zenon
<1> HIDE DEF l
<1>3. /\ p.late = l /\ p.rfb = page.rfb /\ p.rfb_state = page.rfb_state
      /\ p.button = page.button /\ p.panel = page.panel
  BY <1>1, LateField, Zenon
<1>4. s' = [s EXCEPT ![i] = z] /\ server' = server
  BY Zenon DEF Tell
<1>5. /\ SessionOK(z) /\ z.state = r.state /\ z.password = r.password
      /\ z.blank = r.blank /\ z.asks = r.asks /\ z.scheme = r.scheme
  BY Stored, Zenon
<1> HIDE DEF z, p
<1>6. page' \in PageRecord /\ page'.rfb = page.rfb /\ (page'.late <=> l)
  BY <1>2, <1>3, Zenon DEF PageTold
<1>7. page.rfb # 0 /\ page.rfb \in Sessions
  BY <1>1 DEF Sessions
<1>8. ShownOK(page, s[page.rfb])
  BY <1>7, Zenon DEF PageInv
<1>9. ShownOK(p, s[page.rfb])
  BY <1>3, <1>8, Zenon DEF ShownOK
<1>10. CASE i = page.rfb
  <2>1. ShownOK(page', z)
    <3>1. s[i] \in SessionRecord
      BY <1>1 DEF Sessions
    <3>2. ShownOK(page', r)
      BY <3>1, <1>2, <1>9, <1>10, ShownTold, Zenon
    <3> QED BY <3>2, <1>5, ShownAlike, Zenon
  <2> QED BY <2>1, <1>10, <1>4, <1>5, <1>6, OneStep, Zenon
<1>11. CASE i # page.rfb
  <2> SUFFICES ASSUME ~page'.late
               PROVE  z.state \in Over /\ z.asks = 0 /\ ShownOK(page', s[page.rfb])
    BY <1>4, <1>5, <1>6, <1>11, OneStep, Zenon
  <2>1. r.told = <<>>
    BY <1>6, <1>11, <1>l, Zenon
  <2>2. s[i].state \in Over /\ s[i].asks = 0
    BY <1>11, Zenon DEF PageInv
  <2>3. z.state \in Over
    BY <2>1, <2>2, <1>5, Zenon DEF Happening
  <2>4. z.asks = 0
    <3>1. r.asks \in Nat /\ ~(r.asks > 0)
      BY <1>1, <2>2, AlikeType DEF Happening
    <3> QED BY <3>1, <1>5
  <2>5. /\ page'.rfb_state = p.rfb_state /\ page'.button = p.button
        /\ page'.panel => p.panel
    BY <1>2, <2>1, Untold, Zenon DEF PageTold, Asked
  <2>6. ShownOK(page', s[page.rfb])
    BY <1>9, <2>5, Zenon DEF ShownOK
  <2> QED BY <2>3, <2>4, <2>6
<1> QED BY <1>10, <1>11

LEMMA AlikeEvent ==
  ASSUME NEW q, NEW r, Happening(q, r), NEW x \in SessionRecord, Alike(x, r)
  PROVE  Happening(q, x)
<1>1. Sound(x)
  BY Zenon DEF Happening, Alike, Sound, Live
<1>2. x.told = r.told /\ x.state = r.state
  BY Zenon DEF Alike
<1>3. \A st : Shows(st, r) => Shows(st, x)
  BY <1>2, Zenon DEF Shows
<1>4. Past(r) => Past(x)
  BY Zenon DEF Past, Keyed, Alike
<1> QED BY <1>1, <1>2, <1>3, <1>4, Zenon DEF Happening, Alike

\* an object as a handler finds it
LEMMA Found ==
  ASSUME PageInv, ~page.late, NEW i \in Sessions
  PROVE  /\ s[i] \in SessionRecord /\ SessionOK(s[i]) /\ s[i].told = <<>> /\ Sound(s[i])
         /\ Said(s[i], s[i]) /\ Happening(s[i], s[i])
         /\ Live(s[i]) \/ s[i].disconn # "none" => i = page.rfb /\ s[i].state \notin Over
         /\ i # page.rfb => s[i].state \in Over /\ s[i].asks = 0
<1>1. SessionOK(s[i])
  BY Zenon DEF PageInv
<1>2. s[i] \in SessionRecord /\ s[i].told = <<>> /\ Sound(s[i])
  BY <1>1, Zenon DEF SessionOK
<1>3. i # page.rfb => s[i].state \in Over /\ s[i].asks = 0
  BY Zenon DEF PageInv
<1>4. Said(s[i], s[i]) /\ Happening(s[i], s[i])
  BY <1>2, SaidNothing, Stays, Zenon DEF Keeps
<1> QED BY <1>1, <1>2, <1>3, <1>4, Zenon DEF Sound

\* session i has an event and tells the page of it; one that was disconnected
\* does not fail
Final(q, r) == q.state = "disconnected" /\ q.lost = 0 => r.state # "failed"
Happens(i) ==
    \E r : \E late \in BOOLEAN :
       /\ Happening(s[i], r) /\ Tell(i, r, late) /\ Final(s[i], r) /\ Silent(s[i], r)
       /\ i = page.rfb => ~late
       /\ i # page.rfb => late \/ r.told = <<>>

LEMMA NotOver ==
  ASSUME NEW q, q.state \notin Over, NEW r
  PROVE  Final(q, r)
<1>1. "disconnected" \in Over
  BY DEF Over
<1> QED BY <1>1, Zenon DEF Final

LEMMA WsOpenHappens ==
  ASSUME PageInv, ~page.late, NEW i \in Sessions, WsOpen(i)
  PROVE  Happens(i)
<1> DEFINE q == s[i]
           r == [q EXCEPT !.ws = "open"]
           x == IF "open" \notin r.on THEN r
                ELSE IF r.state = "connect" THEN updateState(r, "ProtocolVersion") ELSE fail(r)
<1>1. q.ws = "connecting" /\ Tell(i, x, FALSE)
  BY Zenon DEF WsOpen
<1>2. /\ q \in SessionRecord /\ q.told = <<>> /\ Sound(q) /\ Said(q, q)
      /\ i = page.rfb /\ q.state \notin Over
  BY <1>1, Found, Zenon DEF Live
<1> HIDE DEF q
<1>3. r \in SessionRecord
  BY <1>2, MajorTypes, Zenon DEF SocketStates
<1>4. /\ r.state = q.state /\ r.told = q.told /\ r.grabbed = q.grabbed /\ r.blank = q.blank
      /\ r.password = q.password /\ r.asks = q.asks /\ r.scheme = q.scheme
  BY <1>2, WsField, Zenon
<1> HIDE DEF r
<1>5. Said(q, r) /\ Happening(q, r)
  BY <1>2, <1>3, <1>4, SaidNothing, Stays, Zenon DEF Keeps, Sound
<1>6. Happening(q, fail(r))
  BY <1>2, <1>5, Fails
<1>7. ASSUME r.state = "connect" PROVE Happening(q, updateState(r, "ProtocolVersion"))
  <2>1. "connect" \notin Stuck /\ "connect" # "normal"
    BY DEF Stuck, Over
  <2>2. Going(q, r)
    BY <1>2, <1>4, <1>5, <1>7, <2>1, Zenon DEF Going, Sound
  <2>3. "connect" \in Early
    BY DEF Early
  <2> QED BY <1>2, <1>4, <1>7, <2>2, <2>3, Goes, HandshakeStates, Zenon
<1>8. Happening(q, x)
  BY <1>5, <1>6, <1>7, Zenon
<1>10. Silent(q, x)
  <2>1. Left(q, r)
    BY <1>4, Zenon DEF Left
  <2>2. Left(q, fail(r)) /\ (r.state = "connect" => Left(q, updateState(r, "ProtocolVersion")))
    BY <1>3, UpdateTells, StateNames, Zenon DEF Left, fail
  <2>3. Left(q, x)
    BY <2>1, <2>2, Zenon
  <2> QED BY <2>3, LeftSilent, Zenon
<1> HIDE DEF x
<1>9. Final(q, x)
  BY <1>2, NotOver
<1> QED BY <1>1, <1>2, <1>8, <1>9, <1>10, Zenon DEF q, Happens

LEMMA WsMessageHappens ==
  ASSUME PageInv, ~page.late, NEW i \in Sessions, WsMessage(i)
  PROVE  Happens(i)
<1>1. PICK r \in handleMessage(s[i]) : Tell(i, r, FALSE)
  BY Zenon DEF WsMessage
<1>2. i = page.rfb /\ SessionOK(s[i]) /\ s[i].state \notin Over
  BY Found, Zenon DEF WsMessage, Live
<1>3. Happening(s[i], r)
  BY <1>2, handleMessageEvent, Zenon
<1>4. Final(s[i], r)
  BY <1>2, NotOver
<1>5. Silent(s[i], r)
  BY <1>1, <1>2, handleMessageTells, LeftSilent, Zenon DEF SessionOK
<1> QED BY <1>1, <1>2, <1>3, <1>4, <1>5, Zenon DEF Happens

LEMMA WsCloseHappens ==
  ASSUME PageInv, ~page.late, NEW i \in Sessions, WsClose(i)
  PROVE  Happens(i)
<1> DEFINE q == s[i]
           r == [q EXCEPT !.ws = "closed"]
           heard == IF r.state = "disconnect" THEN updateState(r, "disconnected")
                    ELSE IF r.state \in {"failed", "disconnected"} THEN r ELSE fail(r)
           h == heard.on \ {"close"}
           z == [heard EXCEPT !.on = h]
           x == IF "close" \in r.on THEN z ELSE r
<1>1. Tell(i, x, FALSE)
  BY Zenon DEF WsClose
<1>2. /\ q \in SessionRecord /\ q.told = <<>> /\ Sound(q) /\ Said(q, q)
      /\ i # page.rfb => q.state \in Over
  BY Found, Zenon
<1> HIDE DEF q
<1>3. r \in SessionRecord
  BY <1>2, MajorTypes, Zenon DEF SocketStates
<1>4. /\ r.ws = "closed" /\ r.state = q.state /\ r.told = q.told /\ r.grabbed = q.grabbed
      /\ r.blank = q.blank /\ r.password = q.password /\ r.asks = q.asks /\ r.disconn = q.disconn
      /\ r.scheme = q.scheme
  BY <1>2, WsField, Zenon
<1> HIDE DEF r
<1>5. ~Live(r) /\ Sound(r)
  <2>1. ~Live(r)
    BY <1>4 DEF Live
  <2> QED BY <2>1, <1>2, <1>4, Zenon DEF Sound
<1>6. Said(q, r) /\ Happening(q, r)
  BY <1>2, <1>3, <1>4, <1>5, SaidNothing, Stays, Zenon DEF Keeps
<1>7. Happening(q, heard)
  <2>1. CASE r.state = "disconnect"
    <3>1. q.state \notin Over /\ "disconnected" \in Over
      BY <2>1, <1>4 DEF Over
    <3>2. Happening(q, updateState(r, "disconnected"))
      BY <1>2, <1>6, <3>1, Ends, Zenon
    <3> QED BY <2>1, <3>2, Zenon
  <2>2. CASE r.state \in {"failed", "disconnected"}
    <3>1. r.state # "disconnect"
      BY <2>2
    <3> QED BY <2>2, <3>1, <1>6, Zenon
  <2>3. CASE r.state # "disconnect" /\ r.state \notin {"failed", "disconnected"}
    <3>1. Happening(q, fail(r))
      BY <1>2, <1>4, <1>6, Fails, Zenon
    <3> QED BY <2>3, <3>1, Zenon
  <2> QED BY <2>1, <2>2, <2>3, Zenon
<1>17. Left(q, r) /\ Left(q, heard)
  <2>1. Left(q, r)
    BY <1>4, Zenon DEF Left
  <2>2. Left(q, fail(r)) /\ Left(q, updateState(r, "disconnected"))
    BY <1>3, UpdateTells, StateNames, Zenon DEF Left, fail
  <2> QED BY <2>1, <2>2, Zenon
<1>8. i # page.rfb => heard = r
  <2>1. q.state \in Over => r.state \in {"failed", "disconnected"} /\ r.state # "disconnect"
    BY <1>4 DEF Over
  <2> QED BY <2>1, <1>2, Zenon
<1>15. q.state = "disconnected" => heard.state # "failed" /\ r.state # "failed"
  <2> SUFFICES ASSUME q.state = "disconnected" PROVE heard.state # "failed" /\ r.state # "failed"
    OBVIOUS
  <2>1. r.state = "disconnected" /\ r.state # "disconnect" /\ r.state # "failed"
        /\ r.state \in {"failed", "disconnected"}
    BY <1>4
  <2> QED BY <2>1, Zenon
<1> HIDE DEF heard
<1>9. heard \in SessionRecord
  BY <1>7, Zenon DEF Happening
<1>10. h \in SUBSET Handlers
  BY <1>9, AlikeType
<1> HIDE DEF h
<1>11. z \in SessionRecord /\ Alike(z, heard)
  BY <1>9, <1>10, MinorTypes, MinorFields, Zenon
<1> HIDE DEF z
<1>12. Happening(q, z)
  BY <1>7, <1>11, AlikeEvent, Zenon
<1>13. Happening(q, x)
  BY <1>6, <1>12, Zenon
<1>14. i # page.rfb => x.told = <<>>
  BY <1>2, <1>4, <1>8, <1>11, Zenon DEF Alike
<1>16. Final(q, x)
  BY <1>11, <1>15, Zenon DEF Final, Alike
<1>18. Silent(q, x)
  <2>1. Left(q, z)
    BY <1>11, <1>17, Zenon DEF Left, Alike
  <2>2. Left(q, x)
    BY <1>17, <2>1, Zenon
  <2> QED BY <2>2, LeftSilent, Zenon
<1> HIDE DEF x
<1> QED BY <1>1, <1>13, <1>14, <1>16, <1>18, Zenon DEF q, Happens

LEMMA DisconnTimeoutHappens ==
  ASSUME PageInv, ~page.late, NEW i \in Sessions, DisconnTimeout(i)
  PROVE  Happens(i)
<1> DEFINE q == s[i]
           f == [q EXCEPT !.disconn = "fired"]
           l == q.lost - 1
           g == [q EXCEPT !.lost = l]
           late == i # page.rfb
<1>1. /\ q \in SessionRecord /\ q.told = <<>> /\ Sound(q) /\ Said(q, q)
      /\ q.disconn # "none" => i = page.rfb /\ q.state \notin Over
  BY Found, Zenon
<1>2. CASE q.disconn = "pending" /\ Tell(i, fail(f), FALSE)
  <2> HIDE DEF q
  <2>1. f \in SessionRecord
    BY <1>1, MajorTypes, Zenon
  <2>2. /\ f.state = q.state /\ f.told = q.told /\ f.blank = q.blank
        /\ f.password = q.password /\ f.asks = q.asks /\ f.scheme = q.scheme
    BY <1>1, DisconnField, Zenon
  <2> HIDE DEF f
  <2>3. Said(q, f) /\ f.told = <<>>
    BY <1>1, <2>1, <2>2, SaidNothing, Zenon DEF Keeps
  <2>4. Happening(q, fail(f))
    BY <1>1, <2>3, Fails
  <2>5. i = page.rfb
    BY <1>1, <1>2
  <2>6. Final(q, fail(f))
    <3>1. q.state \notin Over
      BY <1>1, <1>2
    <3> QED BY <3>1, NotOver
  <2>7. Silent(q, fail(f))
    BY <2>1, UpdateTells, StateNames, Zenon DEF fail, Silent
  <2> QED BY <1>2, <2>4, <2>5, <2>6, <2>7, Zenon DEF q, Happens
<1>3. CASE q.lost > 0 /\ Tell(i, fail(g), late)
  <2>0. late \in BOOLEAN
    BY Zenon
  <2>l. l \in Nat
    BY <1>1, <1>3, AlikeType
  <2> HIDE DEF q, l
  <2>1. g \in SessionRecord
    BY <1>1, <2>l, MajorTypes, Zenon
  <2>2. /\ g.state = q.state /\ g.told = q.told /\ g.blank = q.blank
        /\ g.password = q.password /\ g.asks = q.asks /\ g.scheme = q.scheme
    BY <1>1, LostField, Zenon
  <2> HIDE DEF g
  <2>3. Said(q, g) /\ g.told = <<>>
    BY <1>1, <2>1, <2>2, SaidNothing, Zenon DEF Keeps
  <2>4. Happening(q, fail(g))
    BY <1>1, <2>3, Fails
  <2>5. (i = page.rfb => ~late) /\ (i # page.rfb => late)
    BY Zenon
  <2> HIDE DEF late
  <2>6. Final(q, fail(g))
    BY <1>3 DEF Final
  <2>7. Silent(q, fail(g))
    BY <2>1, UpdateTells, StateNames, Zenon DEF fail, Silent
  <2> QED BY <1>3, <2>0, <2>4, <2>5, <2>6, <2>7, Zenon DEF q, Happens
<1> QED BY <1>2, <1>3, Zenon DEF DisconnTimeout

LEMMA FailTimerHappens ==
  ASSUME PageInv, ~page.late, NEW i \in Sessions, FailTimer(i)
  PROVE  Happens(i)
<1> DEFINE q == s[i]
           n == q.fails - 1
           f == [q EXCEPT !.fails = n]
           late == i # page.rfb
<1>1. q \in SessionRecord /\ q.told = <<>> /\ Sound(q) /\ Said(q, q)
  BY Found, Zenon
<1>2. q.fails > 0 /\ Tell(i, updateState(f, "disconnected"), late)
  BY Zenon DEF FailTimer
<1>n. n \in Nat
  BY <1>1, <1>2, AlikeType
<1>l. late \in BOOLEAN /\ (i = page.rfb => ~late) /\ (i # page.rfb => late)
  BY Zenon
<1> HIDE DEF q, n
<1>3. f \in SessionRecord /\ Alike(f, q)
  BY <1>1, <1>n, MinorTypes, MinorFields, Zenon
<1> HIDE DEF f
<1>4. Said(q, f) /\ f.told = <<>>
  BY <1>1, <1>3, AlikeSaid, Zenon DEF Alike
<1>5. "disconnected" \in Over
  BY DEF Over
<1>6. Happening(q, updateState(f, "disconnected"))
  BY <1>1, <1>4, <1>5, Ends, Zenon
<1>7. Final(q, updateState(f, "disconnected"))
  <2>1. f.state = q.state /\ "disconnected" \in States /\ "disconnected" # "failed"
    BY <1>3 DEF Alike, States, Down
  <2> QED BY <2>1, <1>3, Update, Zenon DEF Final
<1>8. Silent(q, updateState(f, "disconnected"))
  BY <1>3, UpdateTells, StateNames, Zenon DEF Silent
<1> HIDE DEF late
<1> QED BY <1>2, <1>6, <1>7, <1>8, <1>l, Zenon DEF q, Happens

LEMMA PasswordTimerHappens ==
  ASSUME PageInv, ~page.late, NEW i \in Sessions, PasswordTimer(i)
  PROVE  Happens(i)
<1> DEFINE q == s[i]
           n == q.asks - 1
           f == [q EXCEPT !.asks = n]
<1>1. /\ q \in SessionRecord /\ q.told = <<>> /\ Sound(q)
      /\ i # page.rfb => q.asks = 0
  BY Found, Zenon
<1>2. q.asks > 0
  BY Zenon DEF PasswordTimer
<1>3. PICK r \in initMsg(f) : Tell(i, r, FALSE)
  BY Zenon DEF PasswordTimer
<1>n. n \in Nat /\ i = page.rfb
  BY <1>1, <1>2, AlikeType
<1> HIDE DEF q, n
<1>4. f \in SessionRecord
  BY <1>1, <1>n, MajorTypes, Zenon
<1>5. /\ f.state = q.state /\ f.told = q.told /\ f.blank = q.blank /\ f.ws = q.ws
      /\ f.disconn = q.disconn /\ f.grabbed = q.grabbed /\ f.password = q.password
      /\ f.scheme = q.scheme
  BY <1>1, AsksField, Zenon
<1> HIDE DEF f
<1>6. SessionOK(f)
  BY <1>1, <1>4, <1>5, Zenon DEF SessionOK, Sound, Live
<1>7. Happening(f, r)
  BY <1>3, <1>6, initMsgEvent
<1>8. Happening(q, r)
  <2>1. Past(q) => Past(f)
    BY <1>5, Zenon DEF Past, Keyed
  <2> QED BY <1>2, <1>5, <1>7, <2>1, Zenon DEF Happening
<1>10. Silent(q, r)
  <2>1. /\ Left(f, r)
        /\ f.state = "Authentication" /\ Keyed(f) /\ ~f.password => r.told # <<>>
    BY <1>3, <1>4, initMsgTells, Zenon
  <2>2. Keyed(q) => Keyed(f)
    BY <1>5, Zenon DEF Keyed
  <2> QED BY <1>5, <2>1, <2>2, Zenon DEF Left, Silent
<1>9. Final(q, r)
  <2>1. f.state \in Over => r = f
    BY <1>3, <1>6, initMsgEvent
  <2>2. "disconnected" \in Over /\ "disconnected" # "failed"
    BY DEF Over
  <2> QED BY <2>1, <2>2, <1>5, Zenon DEF Final
<1> QED BY <1>3, <1>8, <1>9, <1>10, <1>n, Zenon DEF q, Happens

LEMMA MsgTimerHappens ==
  ASSUME PageInv, ~page.late, NEW i \in Sessions, MsgTimer(i)
  PROVE  Happens(i)
<1> DEFINE q == s[i]
           f == [q EXCEPT !.msgTimer = FALSE]
<1>1. /\ q \in SessionRecord /\ q.told = <<>> /\ Sound(q)
      /\ i # page.rfb => q.state \in Over
  BY Found, Zenon
<1>2. PICK r \in handleMessage(f) : Tell(i, r, FALSE)
  BY Zenon DEF MsgTimer
<1> HIDE DEF q
<1>3. f \in SessionRecord /\ Alike(f, q)
  BY <1>1, MinorTypes, MinorFields, Zenon
<1> HIDE DEF f
<1>4. SessionOK(f)
  BY <1>1, <1>3, Zenon DEF SessionOK, Sound, Live, Alike
<1>5. Happening(f, r) /\ (f.state \in Over => r = f)
  <2>1. /\ \A x \in handleMessage(f) : Happening(f, x)
        /\ f.state \in Over => handleMessage(f) = {f}
    BY <1>4, handleMessageEvent
  <2> QED BY <1>2, <2>1
<1>6. Happening(q, r)
  <2>1. Past(q) => Past(f)
    BY <1>3, Zenon DEF Past, Keyed, Alike
  <2> QED BY <1>3, <1>5, <2>1, Zenon DEF Happening, Alike
<1>9. Silent(q, r)
  <2>1. Left(f, r)
    BY <1>2, <1>3, handleMessageTells, Zenon
  <2>2. Left(q, r)
    BY <1>3, <2>1, Zenon DEF Left, Alike
  <2> QED BY <2>2, LeftSilent, Zenon
<1>7. i # page.rfb => r.told = <<>>
  BY <1>1, <1>3, <1>5, Zenon DEF Alike
<1>8. Final(q, r)
  <2>1. "disconnected" \in Over /\ "disconnected" # "failed"
    BY DEF Over
  <2> QED BY <2>1, <1>3, <1>5, Zenon DEF Final, Alike
<1> QED BY <1>2, <1>6, <1>7, <1>8, <1>9, Zenon DEF q, Happens

\* the session of the page
LEMMA Current ==
  ASSUME PageInv, ~page.late, page.rfb # 0
  PROVE  page.rfb \in Sessions /\ ShownOK(page, s[page.rfb])
<1>1. page.rfb = Len(s) /\ Len(s) \in Nat
  BY DEF PageInv
<1>2. page.rfb \in Sessions
  BY <1>1 DEF Sessions
<1> QED BY <1>2, Zenon DEF PageInv

LEMMA ClickDisconnectHappens ==
  ASSUME PageInv, ~page.late, ClickDisconnect
  PROVE  Happens(page.rfb) /\ page.rfb \in Sessions
<1> DEFINE i == page.rfb
           q == s[i]
           d == updateState(q, "disconnect")
           h == d.on \cap {"close"}
           x == [d EXCEPT !.on = h]
<1>1. ~ConnectShown /\ i # 0 /\ Tell(i, x, FALSE)
  BY Zenon DEF ClickDisconnect
<1>2. i \in Sessions /\ ShownOK(page, q)
  BY <1>1, Current, Zenon
<1>3. q \in SessionRecord /\ q.told = <<>> /\ Said(q, q)
  BY <1>2, Found, Zenon
<1>4. q.state \notin Over
  BY <1>1, <1>2 DEF ConnectShown, ShownOK, Shows, Over
<1> HIDE DEF q
<1>5. Happening(q, d)
  BY <1>3, <1>4, Ends, Zenon
<1> HIDE DEF d
<1>6. d \in SessionRecord
  BY <1>5, Zenon DEF Happening
<1>7. h \in SUBSET Handlers
  BY <1>6, AlikeType
<1> HIDE DEF h
<1>8. x \in SessionRecord /\ Alike(x, d)
  BY <1>6, <1>7, MinorTypes, MinorFields, Zenon
<1> HIDE DEF x
<1>9. Happening(q, x)
  BY <1>5, <1>8, AlikeEvent, Zenon
<1>10. Final(q, x)
  BY <1>4, NotOver
<1>11. Silent(q, x)
  <2>1. d.told # <<>>
    BY <1>3, UpdateTells, StateNames, Zenon DEF d
  <2> QED BY <1>8, <2>1, Zenon DEF Silent, Alike
<1> QED BY <1>1, <1>2, <1>9, <1>10, <1>11, Zenon DEF q, Happens

\* an object that was given a password, usable or not
WithPassword(q, usable) ==
    [q EXCEPT !.password = usable, !.state = "Authentication", !.asks = @ + 1, !.sent = @ + 1]
LEMMA WithPasswordFields ==
  ASSUME NEW q \in SessionRecord, NEW usable \in BOOLEAN
  PROVE  LET z == WithPassword(q, usable)
         IN /\ z \in SessionRecord /\ z.state = "Authentication" /\ z.asks > 0
            /\ z.grabbed = q.grabbed /\ z.blank = q.blank /\ z.told = q.told
            /\ z.scheme = q.scheme
<1> DEFINE a == [q EXCEPT !.password = usable]
           b == [a EXCEPT !.state = "Authentication"]
           n == q.asks + 1
           c == [b EXCEPT !.asks = n]
           m == q.sent + 1
           z == [c EXCEPT !.sent = m]
<1>0. WithPassword(q, usable) = z
  <2>1. b.asks = q.asks /\ c.sent = q.sent
    BY SMT DEF SessionRecord
  <2> QED BY <2>1, Zenon DEF WithPassword
<1>n. n \in Nat /\ m \in Nat /\ n > 0
  BY DEF SessionRecord
<1>s. "Authentication" \in States
  BY DEF States
<1> HIDE DEF n, m
<1>1. a \in SessionRecord
  BY MajorTypes, Zenon
<1>2. a.grabbed = q.grabbed /\ a.blank = q.blank /\ a.told = q.told /\ a.scheme = q.scheme
  BY PasswordField, Zenon
<1> HIDE DEF a
<1>3. b \in SessionRecord
  BY <1>1, <1>s, MajorTypes, Zenon
<1>4. /\ b.state = "Authentication" /\ b.grabbed = a.grabbed /\ b.blank = a.blank
      /\ b.told = a.told /\ b.scheme = a.scheme
  BY <1>1, StateField, Zenon
<1> HIDE DEF b
<1>5. c \in SessionRecord
  BY <1>3, <1>n, MajorTypes, Zenon
<1>6. /\ c.asks = n /\ c.state = b.state /\ c.grabbed = b.grabbed /\ c.blank = b.blank
      /\ c.told = b.told /\ c.scheme = b.scheme
  BY <1>3, AsksField, Zenon
<1> HIDE DEF c
<1>7. z \in SessionRecord /\ Alike(z, c)
  BY <1>5, <1>n, SentField, Zenon
<1> HIDE DEF z
<1>8. z.asks > 0
  <2>1. z.asks = n
    BY <1>6, <1>7, Zenon DEF Alike
  <2> QED BY <2>1, <1>n
<1>9. /\ z.state = "Authentication" /\ z.grabbed = q.grabbed /\ z.blank = q.blank
      /\ z.told = q.told /\ z.scheme = q.scheme
  BY <1>2, <1>4, <1>6, <1>7, Zenon DEF Alike
<1> QED BY <1>0, <1>7, <1>8, <1>9, Zenon

LEMMA PasswordState ==
  ASSUME NEW q \in SessionRecord, NEW usable \in BOOLEAN
  PROVE  WithPassword(q, usable).state = "Authentication"
  BY WithPasswordFields, Zenon

LEMMA ClickPasswordInv ==
  ASSUME PageInv, ~page.late, ClickPassword
  PROVE  PageInv'
<1> DEFINE i == page.rfb
           q == s[i]
           t == togglePanel(page)
           g == [t EXCEPT !.button = "none"]
<1>1. page.button = "setPassword" /\ page' = g /\ server' = server
  BY Zenon DEF ClickPassword
<1>2. i \in Sessions /\ ShownOK(page, q)
  <2>1. i # 0
    BY <1>1 DEF PageInv
  <2> QED BY <2>1, Current, Zenon
<1>3. q \in SessionRecord /\ q.told = <<>> /\ Sound(q)
  BY <1>2, Found, Zenon
<1>4. PICK usable \in BOOLEAN : s' = [s EXCEPT ![i] = WithPassword(q, usable)]
  BY Zenon DEF ClickPassword, WithPassword
<1> DEFINE z == WithPassword(q, usable)
<1>5. (q.state \in Stuck \/ q.blank) /\ Past(q)
  <2>1. "setPassword" # "connect"
    OBVIOUS
  <2> QED BY <2>1, <1>1, <1>2, Zenon DEF ShownOK
<1>s. "Authentication" \notin Over /\ "normal" \notin Stuck /\ "Authentication" \notin Early
  BY DEF Stuck, Over, Early
<1>11. /\ z \in SessionRecord /\ z.state = "Authentication" /\ z.asks > 0
       /\ z.grabbed = q.grabbed /\ z.blank = q.blank /\ z.told = q.told /\ z.scheme = q.scheme
  BY <1>3, WithPasswordFields, Zenon
<1>a. s' = [s EXCEPT ![i] = z]
  BY <1>4, Zenon
<1> HIDE DEF q, z
<1>12. Sound(z)
  BY <1>3, <1>5, <1>11, <1>s, Zenon DEF Sound
<1>13. SessionOK(z)
  BY <1>3, <1>11, <1>12, Zenon DEF SessionOK
<1>14. page \in PageRecord
  BY Zenon DEF PageInv
<1>15. t \in PageRecord /\ t.rfb = page.rfb /\ t.rfb_state = page.rfb_state /\ t.late = page.late
  BY <1>14, Toggled, Zenon
<1> HIDE DEF t
<1>16. g \in PageRecord
  BY <1>15, PageTypes, Zenon DEF Labels
<1>17. g.button = "none" /\ g.rfb = t.rfb /\ g.rfb_state = t.rfb_state /\ g.late = t.late
  BY <1>15, ButtonField, Zenon
<1> HIDE DEF g
<1>18. ShownOK(g, z)
  <2>1. "none" # "connect" /\ "none" # "setPassword"
    OBVIOUS
  <2>2. page.rfb_state # "loaded"
    BY <1>2, Zenon DEF ShownOK
  <2>3. Past(z)
    BY <1>5, <1>11, <1>s, Zenon DEF Past, Keyed
  <2> QED BY <2>1, <2>2, <2>3, <1>11, <1>15, <1>17, Zenon DEF ShownOK
<1> QED BY <1>1, <1>2, <1>a, <1>13, <1>15, <1>16, <1>17, <1>18, OneStep, Zenon

LEMMA ClickPanelInv ==
  ASSUME PageInv, ~page.late, ClickPanel
  PROVE  PageInv'
<1>1. ConnectShown /\ page' = togglePanel(page) /\ s' = s /\ server' = server
  BY DEF ClickPanel
<1>2. page \in PageRecord
  BY Zenon DEF PageInv
<1>3. /\ page' \in PageRecord /\ page'.rfb = page.rfb /\ page'.rfb_state = page.rfb_state
      /\ page'.button = page.button /\ page'.late = page.late
  BY <1>1, <1>2, Toggled, Zenon
<1>4. page.rfb # 0 => ShownOK(page, s[page.rfb])
  BY Current, Zenon
<1>5. page.rfb # 0 => ShownOK(page', s[page.rfb])
  <2>1. page.rfb_state # "loaded" => page.rfb_state \in Over
    BY <1>1 DEF ConnectShown, Over
  <2> QED BY <1>3, <1>4, <2>1, Zenon DEF ShownOK
<1>6. SessionRecord' = SessionRecord
  BY <1>1, RecordKept
<1>7. Sessions' = Sessions /\ \A i \in Sessions : SessionOK(s[i])'
  <2>1. Sessions' = Sessions
    BY <1>1, Zenon DEF Sessions
  <2>2. ASSUME NEW i \in Sessions PROVE SessionOK(s[i])'
    <3>1. SessionOK(s[i])
      BY Zenon DEF PageInv
    <3> QED BY <3>1, <1>1, <1>6, Zenon DEF SessionOK
  <2> QED BY <2>1, <2>2
<1> QED BY <1>1, <1>3, <1>5, <1>6, <1>7, Zenon DEF PageInv

LEMMA NewOK ==
  /\ NewRFB \in SessionRecord /\ NewRFB.told = <<>> /\ NewRFB.asks = 0 /\ NewRFB.grabbed = FALSE
<1>1. <<>> \in Seq(States)
  OBVIOUS
<1>2. "disconnected" \in States /\ "none" \in SocketStates /\ Handlers \in SUBSET Handlers
  BY DEF States, Down, SocketStates
<1>3. NewRFB \in SessionRecord
  BY <1>1, <1>2, Zenon DEF NewRFB, SessionRecord
<1>4. NewRFB.told = <<>> /\ NewRFB.asks = 0 /\ NewRFB.grabbed = FALSE
  BY DEF NewRFB
<1> QED BY <1>3, <1>4

LEMMA ClickConnectInv ==
  ASSUME PageInv, ~page.late, ClickConnect
  PROVE  PageInv'
<1> DEFINE made == updateState(NewRFB, "loaded")
           L == Len(s) + 1
           t == togglePanel(page)
           a == [t EXCEPT !.rfb = L]
           b == Shown(a, "loaded")
           g == Shown(b, "connect")
<1>1. /\ page.panel /\ page.button = "connect" /\ Len(s) < MaxSessions /\ server' = server
      /\ page' = g
  BY Zenon DEF ClickConnect
<1>2. PICK password \in BOOLEAN :
        s' = Append(s, [updateState([made EXCEPT !.password = password], "connect")
                          EXCEPT !.told = <<>>])
  BY Zenon DEF ClickConnect
<1> DEFINE m == [made EXCEPT !.password = password]
           r == updateState(m, "connect")
           z == [r EXCEPT !.told = <<>>]
<1>3. s' = Append(s, z)
  BY <1>2, Zenon
<1>s. /\ "loaded" \in States /\ "connect" \in States /\ "connect" \in Down /\ "connect" # "password"
      /\ "connect" \notin Over /\ "loaded" \notin Over /\ "loaded" # "password" /\ "connect" # "disconnect"
      /\ "connect" # "disconnected" /\ "connect" # "loaded" /\ "connect" # "none"
      /\ "connect" # "setPassword" /\ "loaded" # "disconnected" /\ <<>> \in Seq(States)
  BY DEF States, Down, Over
<1>4. made \in SessionRecord /\ made.asks = 0
  BY <1>s, NewOK, Update, Zenon DEF Keeps
<1> HIDE DEF made
<1>5. m \in SessionRecord /\ m.asks = 0
  BY <1>4, MajorTypes, PasswordField, Zenon
<1> HIDE DEF m
<1>6. r \in SessionRecord /\ r.asks = 0 /\ r.grabbed = FALSE /\ r.state = "connect"
  BY <1>5, <1>s, Update, Zenon DEF Keeps
<1> HIDE DEF r
<1>7. z \in SessionRecord
  BY <1>6, <1>s, MajorTypes, Zenon
<1>8. /\ z.told = <<>> /\ z.asks = 0 /\ z.grabbed = FALSE /\ z.state = "connect"
  BY <1>6, ToldField, Zenon
<1> HIDE DEF z
<1>9. SessionOK(z)
  BY <1>7, <1>8, <1>s, Zenon DEF SessionOK, Sound
<1>10. /\ page \in PageRecord /\ s \in Seq(SessionRecord) /\ page.rfb = Len(s)
       /\ server \in Servers
  BY Zenon DEF PageInv
<1>11. L \in Nat /\ L <= MaxSessions /\ L # 0
  BY <1>1, <1>10, PageAssumption
<1>12. /\ t \in PageRecord /\ t.button = page.button /\ (t.panel <=> ~page.panel)
       /\ t.late = page.late
  BY <1>10, Toggled, Zenon
<1> HIDE DEF t
<1>13. a \in PageRecord
  BY <1>11, <1>12, PageTypes, Zenon
<1>14. a.rfb = L /\ a.button = t.button /\ a.panel = t.panel /\ a.late = t.late
  BY <1>12, RfbField, Zenon
<1> HIDE DEF a
<1>15. /\ b \in PageRecord /\ b.rfb = a.rfb /\ b.late = a.late /\ b.button = a.button
       /\ b.panel => a.panel
  BY <1>13, <1>s, ShownFields, Zenon
<1> HIDE DEF b
<1>16. /\ g \in PageRecord /\ g.rfb = b.rfb /\ g.late = b.late /\ g.rfb_state = "connect"
       /\ g.button = b.button
       /\ g.panel => b.panel
  BY <1>15, <1>s, ShownFields, Zenon
<1> HIDE DEF g
<1> HIDE DEF L
<1>17. g.rfb = L /\ g.button = "connect" /\ ~g.panel /\ ~g.late
  <2>1. t.button = "connect" /\ ~t.panel /\ ~t.late
    BY <1>1, <1>12, Zenon
  <2>2. a.rfb = L /\ a.button = "connect" /\ ~a.panel /\ ~a.late
    BY <2>1, <1>14, Zenon
  <2>3. b.rfb = L /\ b.button = "connect" /\ ~b.panel /\ ~b.late
    BY <2>2, <1>15, Zenon
  <2> QED BY <2>3, <1>16, Zenon
<1>18. ShownOK(g, z)
  <2>1. ~(z.asks > 0)
    BY <1>8
  <2> QED BY <2>1, <1>8, <1>16, <1>17, <1>s, Zenon DEF ShownOK, Shows
<1>19. /\ s' \in Seq(SessionRecord) /\ Len(s') = L /\ s'[L] = z
       /\ \A j \in 1..Len(s) : s'[j] = s[j]
  BY <1>3, <1>7, <1>10 DEF L
<1>20. \A j \in 1..L : j = L \/ j \in 1..Len(s)
  BY <1>10 DEF L
<1>21. \A j \in 1..Len(s) : SessionOK(s[j]) /\ s[j].state \in Over /\ s[j].asks = 0
  <2> SUFFICES ASSUME NEW j \in 1..Len(s)
               PROVE  SessionOK(s[j]) /\ s[j].state \in Over /\ s[j].asks = 0
    OBVIOUS
  <2>1. j \in Sessions
    BY DEF Sessions
  <2>2. SessionOK(s[j])
    BY <2>1, Zenon DEF PageInv
  <2>3. CASE j # page.rfb
    BY <2>1, <2>2, <2>3, Zenon DEF PageInv
  <2>4. CASE j = page.rfb
    <3>1. ShownOK(page, s[j])
      <4>1. page.rfb # 0
        BY <2>4
      <4> QED BY <4>1, <2>4, Current, Zenon
    <3>2. ~(s[j].asks > 0)
      BY <3>1, <1>1, <1>s, Zenon DEF ShownOK
    <3>3. s[j].asks \in Nat
      BY <2>2, AlikeType DEF SessionOK
    <3>4. s[j].state \in Over
      <4>1. "failed" \in Over
        BY DEF Over
      <4> QED BY <3>1, <4>1, <1>1, <1>s, Zenon DEF ShownOK, Shows
    <3> QED BY <2>2, <3>2, <3>3, <3>4
  <2> QED BY <2>3, <2>4
<1>22. SessionRecord' = SessionRecord
  BY <1>1, RecordKept
<1>23. Sessions' = 1..L /\ \A j \in 1..L : SessionOK(s[j])'
  <2>1. Sessions' = 1..L
    BY <1>19, Zenon DEF Sessions
  <2>2. ASSUME NEW j \in 1..L PROVE SessionOK(s'[j])
    BY <1>9, <1>19, <1>20, <1>21, Zenon
  <2>3. ASSUME NEW j \in 1..L PROVE SessionOK(s[j])'
    BY <2>2, <1>22, Zenon DEF SessionOK
  <2> QED BY <2>1, <2>3
<1>24. \A j \in 1..L : j # L => s'[j].state \in Over /\ s'[j].asks = 0
  BY <1>19, <1>20, <1>21, Zenon
<1>25. page' \in PageRecord /\ page'.rfb = L /\ ShownOK(page', s'[L])
  BY <1>1, <1>16, <1>17, <1>18, <1>19, Zenon
<1> QED BY <1>1, <1>10, <1>11, <1>19, <1>22, <1>23, <1>24, <1>25, Zenon DEF PageInv

LEMMA PageInitInv == PageInit => PageInv
<1> SUFFICES ASSUME PageInit PROVE PageInv
  OBVIOUS
<1>1. /\ server \in Servers /\ s = <<>>
      /\ page = [rfb |-> 0, rfb_state |-> "loaded", panel |-> TRUE, button |-> "connect",
                 late |-> FALSE]
  BY DEF PageInit
<1>2. page \in PageRecord
  <2>1. "loaded" \in States /\ "connect" \in Labels /\ 0 \in Nat
    BY DEF States, Down, Labels
  <2> QED BY <1>1, <2>1, Zenon DEF PageRecord
<1>3. page.rfb = 0 /\ page.rfb_state = "loaded" /\ page.button = "connect"
  BY <1>1
<1>4. /\ s \in Seq(SessionRecord) /\ Len(s) = 0 /\ Sessions = {} /\ Len(s) <= MaxSessions
  BY <1>1, PageAssumption DEF Sessions
<1> QED BY <1>1, <1>2, <1>3, <1>4, Zenon DEF PageInv

\* a step of PageNext: a click that makes a session or gives the password, or
\* an event of a session that tells the page
Steps ==
    ClickConnect \/ ClickPassword \/ ClickPanel \/ \E i \in Sessions : Happens(i)
LEMMA NextHappens ==
  ASSUME PageInv, PageNext
  PROVE  Steps /\ ~page.late
<1>1. ~page.late
  BY Zenon DEF PageNext
<1>2. CASE ClickDisconnect
  BY <1>1, <1>2, ClickDisconnectHappens DEF Steps
<1>3. ASSUME NEW i \in Sessions,
             \/ WsOpen(i) \/ WsMessage(i) \/ WsClose(i) \/ DisconnTimeout(i)
             \/ FailTimer(i) \/ PasswordTimer(i) \/ MsgTimer(i)
      PROVE  Happens(i)
  BY <1>1, <1>3, WsOpenHappens, WsMessageHappens, WsCloseHappens, DisconnTimeoutHappens,
     FailTimerHappens, PasswordTimerHappens, MsgTimerHappens
<1> QED BY <1>1, <1>2, <1>3, Zenon DEF PageNext, Steps

LEMMA PageNextInv == PageInv /\ [PageNext]_pageVars => PageInv'
<1> SUFFICES ASSUME PageInv, [PageNext]_pageVars PROVE PageInv'
  OBVIOUS
<1>1. CASE UNCHANGED pageVars
  <2>1. s' = s /\ page' = page /\ server' = server
    BY <1>1 DEF pageVars
  <2>2. SessionRecord' = SessionRecord
    BY <2>1, RecordKept
  <2> QED BY <2>1, <2>2, Zenon DEF PageInv, SessionOK, Sessions
<1>2. CASE PageNext
  <2>1. Steps /\ ~page.late
    BY <1>2, NextHappens
  <2>2. ASSUME NEW i \in Sessions, Happens(i) PROVE PageInv'
    <3>1. PICK r : \E late \in BOOLEAN :
             /\ Happening(s[i], r) /\ Tell(i, r, late) /\ Final(s[i], r) /\ Silent(s[i], r)
             /\ i = page.rfb => ~late
             /\ i # page.rfb => late \/ r.told = <<>>
      BY <2>2, Zenon DEF Happens
    <3> QED BY <2>1, <3>1, TellInv, Zenon
  <2> QED BY <2>1, <2>2, ClickConnectInv, ClickPasswordInv, ClickPanelInv, Zenon DEF Steps
<1> QED BY <1>1, <1>2

LEMMA StepIsFinal ==
  ASSUME PageInv, [PageNext]_pageVars, NEW i \in Sessions,
         s[i].state = "disconnected", s[i].lost = 0
  PROVE  s'[i].state # "failed"
<1>0. "disconnected" # "failed" /\ s \in Seq(SessionRecord) /\ i \in 1..Len(s)
  BY DEF PageInv, Sessions
<1>1. CASE UNCHANGED pageVars
  BY <1>0, <1>1 DEF pageVars
<1>2. CASE PageNext
  <2>1. CASE ClickConnect
    <3>1. PICK z : s' = Append(s, z)
      BY <2>1, Zenon DEF ClickConnect
    <3>2. s'[i] = s[i]
      BY <3>1, <1>0
    <3> QED BY <3>2, <1>0
  <2>2. CASE ClickPassword
    <3>0. PICK usable \in BOOLEAN : s' = [s EXCEPT ![page.rfb] = WithPassword(s[page.rfb], usable)]
      BY <2>2, Zenon DEF ClickPassword, WithPassword
    <3> DEFINE z == WithPassword(s[page.rfb], usable)
    <3>1. s' = [s EXCEPT ![page.rfb] = z]
      BY <3>0
    <3>2. CASE i # page.rfb
      <4> HIDE DEF z
      <4>1. s'[i] = s[i]
        BY <1>0, <3>1, <3>2
      <4> QED BY <4>1, <1>0
    <3>3. CASE i = page.rfb
      <4>1. s[page.rfb] \in SessionRecord
        BY <1>0, <3>3
      <4>2. z.state = "Authentication"
        BY <4>1, PasswordState
      <4> HIDE DEF z
      <4>3. s'[i] = z
        BY <1>0, <3>1, <3>3
      <4> QED BY <4>2, <4>3
    <3> QED BY <3>2, <3>3
  <2>3. CASE ClickPanel
    BY <1>0, <2>3 DEF ClickPanel
  <2>4. CASE \E j \in Sessions : Happens(j)
    <3>1. PICK j \in Sessions : Happens(j)
      BY <2>4
    <3>2. PICK r : \E late \in BOOLEAN :
             /\ Happening(s[j], r) /\ Tell(j, r, late) /\ Final(s[j], r) /\ Silent(s[j], r)
             /\ j = page.rfb => ~late
             /\ j # page.rfb => late \/ r.told = <<>>
      BY <3>1, Zenon DEF Happens
    <3> DEFINE z == [r EXCEPT !.told = <<>>]
    <3>3. s' = [s EXCEPT ![j] = z]
      BY <3>2, Zenon DEF Tell
    <3>4. z.state = r.state
      BY <3>2, Stored, Zenon
    <3>5. i = j => r.state # "failed"
      BY <3>2, Zenon DEF Final
    <3> HIDE DEF z
    <3>6. i = j => s'[i] = z
      BY <1>0, <3>3
    <3>7. i # j => s'[i] = s[i]
      BY <1>0, <3>3
    <3> QED BY <1>0, <3>4, <3>5, <3>6, <3>7
  <2>5. Steps
    BY <1>2, NextHappens
  <2> QED BY <2>1, <2>2, <2>3, <2>4, <2>5, Zenon DEF Steps
<1> QED BY <1>1, <1>2

(***************************************************************************)
(* The theorems                                                            *)
(***************************************************************************)
LEMMA PageInvOneSession == PageInv => OneSession
<1> SUFFICES ASSUME PageInv PROVE OneSession
  OBVIOUS
<1>1. page \in PageRecord /\ page.rfb = Len(s) /\ Len(s) <= MaxSessions /\ s \in Seq(SessionRecord)
  BY Zenon DEF PageInv
<1>2. \A i \in Sessions : s[i] \in SessionRecord /\ Sound(s[i]) /\ s[i].told = <<>>
  BY Zenon DEF PageInv, SessionOK
<1>3. PageTypeOK
  <2>1. page.rfb \in 0..MaxSessions /\ page.rfb <= Len(s)
    BY <1>1, PageAssumption
  <2>2. page.rfb_state \in States /\ page.button \in Labels /\ page.panel \in BOOLEAN
    BY <1>1, Zenon DEF PageRecord
  <2>3. ASSUME NEW i \in Sessions
        PROVE  /\ s[i].state \in States /\ s[i].told = <<>> /\ s[i].on \subseteq Handlers
               /\ s[i].ws \in SocketStates
               /\ s[i].disconn \in {"none", "pending", "fired"}
               /\ s[i].version \in {0, server.version} /\ s[i].scheme \in {0, server.scheme, 2}
    BY <1>2, AlikeType
  <2> QED BY <2>1, <2>2, <2>3, Zenon DEF PageTypeOK, Labels, SocketStates
<1>4. OneLive
  BY <1>2, Zenon DEF OneLive, PageInv, Sound
<1>5. InputOnlyWhenNormal
  BY <1>2, Zenon DEF InputOnlyWhenNormal, Sound
<1> QED BY <1>3, <1>4, <1>5 DEF OneSession

LEMMA PageInvTells == PageInv => PageTellsCurrent
<1> SUFFICES ASSUME PageInv, ~page.late, page.rfb # 0
             PROVE  LET st == s[page.rfb].state
                    IN \/ page.rfb_state = st
                       \/ page.rfb_state = "disconnected" /\ st = "failed"
                       \/ /\ st = "Authentication" /\ page.button = "none"
                          /\ s[page.rfb].asks > 0 \/ s[page.rfb].password
  BY Zenon DEF PageTellsCurrent
<1>1. ShownOK(page, s[page.rfb])
  BY Current, Zenon
<1> QED BY <1>1, Zenon DEF ShownOK, Shows

\* Of all the sessions the page has made only its own has a live connection, unless
\* a late timer misled the page, and only one in state 'normal' has the keyboard and
\* the mouse, unless its password was asked for too late: for every server, and any
\* number of clicks on Connect (cleanupSocket and _updateState in rfb.js).
THEOREM SessionsSafe == PageSpec => []OneSession
<1>1. PageInit => PageInv
  BY PageInitInv
<1>2. PageInv /\ [PageNext]_pageVars => PageInv'
  BY PageNextInv
<1>3. PageInv => OneSession
  BY PageInvOneSession
<1> QED BY <1>1, <1>2, <1>3, PTL DEF PageSpec

\* As long as no session it has left spoke to it, the page shows the state of its
\* session, a failure after the end apart and a password just sent, until the object
\* has looked at it: one it cannot use is asked for again, and the page says so
\* (ui.js 571-581 and 620-656; rfb.js 297-302 and 774-802).
THEOREM PageTells == PageSpec => []PageTellsCurrent
<1>1. PageInit => PageInv
  BY PageInitInv
<1>2. PageInv /\ [PageNext]_pageVars => PageInv'
  BY PageNextInv
<1>3. PageInv => PageTellsCurrent
  BY PageInvTells
<1> QED BY <1>1, <1>2, <1>3, PTL DEF PageSpec

\* A session that was disconnected is not reported as failed afterwards, unless a
\* second click on Disconnect lost the first one's timer (rfb.js 551-558).
THEOREM DisconnectFinal == PageSpec => DisconnectedIsFinal
<1>1. PageInit => PageInv
  BY PageInitInv
<1>2. PageInv /\ [PageNext]_pageVars => PageInv'
  BY PageNextInv
<1>3. PageInv /\ [PageNext]_pageVars
      => [\A i \in Sessions :
            s[i].state = "disconnected" /\ s[i].lost = 0 => s'[i].state # "failed"]_pageVars
  BY StepIsFinal
<1> QED BY <1>1, <1>2, <1>3, PTL DEF PageSpec, DisconnectedIsFinal

(***************************************************************************)
(* The keyboard and the mouse                                              *)
(***************************************************************************)
Ids == Syms \cup {NoSym, CharId}
EventTypes == {"keydown", "keypress", "keyup", "releaseall", "stall"}
EventRecord == [type : EventTypes, id : Ids, sym : Syms \cup {NoSym}, escape : BOOLEAN]
EntryRecord == [id : Ids, syms : SUBSET Syms, ignore : BOOLEAN]
BehindRecord == [track : Seq(EntryRecord), down : SUBSET Syms, spoilt : BOOLEAN]
MouseRecord ==
    [captured : BOOLEAN, mask : SUBSET (Buttons \cup {Wheel}), drag : BOOLEAN,
     dragging : BOOLEAN, told : SUBSET (Buttons \cup {Wheel})]

SymsOf(t) == UNION {t[i].syms : i \in DOMAIN t}
Distinct(h) == \A i, j \in DOMAIN h : h[i] = h[j] => i = j

\* sequences of the ids of keys
Apart(h) == \A i, j \in DOMAIN h : h[i].key = h[j].key => i = j
KeysOf(h) == {h[i].key : i \in DOMAIN h}
\* the id of key k, and those of the keys h, in a browser of sort n (as names is)
IdOf(n, k, h) == Sym(k, IF n = "codes" THEN "plain" ELSE Level(k, h))
KeepIds(n, h, w) ==
    \A j \in ToSet(h) : j \in ToSet(w) => IdOf(n, j, ToSet(w)) = IdOf(n, j, ToSet(h))
Named(n, h) == [i \in 1..Len(h) |-> IdOf(n, h[i], ToSet(h))]

\* what waits: keydowns of plain or shifted keysyms, each keypress behind its keydown;
\* one that the keydown did not foresee is of the third level
QueueOK(q) ==
    /\ q \in Seq(EventRecord)
    /\ \A i \in DOMAIN q :
           /\ q[i].type = "keydown" => ~q[i].escape /\ q[i].sym.level # "third"
           /\ q[i].type = "keypress" =>
                 /\ q[i].sym \in Syms /\ i > 1 /\ q[i - 1].type = "keydown"
                 /\ q[i].escape /\ q[i].sym.level # "third" => q[i - 1].sym = q[i].sym

\* characters of the third level are escaped
Lifts(q) ==
    \A i \in DOMAIN q :
        q[i].type = "keypress" /\ q[i].sym.level = "third" => q[i].escape

\* what the server has been told is recorded, but for a char modifier that was redone
BehindOK(b) == b \in BehindRecord /\ b.down \subseteq EscapeSyms \cup SymsOf(b.track)

\* the modifiers are told as the user holds them, at least when a character is typed
Known == ~across \/ ToSet(CharModifier) \subseteq Flagged

FreshOK ==
    fresh # NoKey =>
        /\ fresh \in Letters /\ Seen /\ held # <<>> /\ Last(held) = fresh
        /\ \A m \in Flagged : mods[m] = Holds(m)
        /\ timer => /\ queue # <<>> /\ Last(queue).type = "keydown"
                    /\ activeCharModifier(mods) => Last(queue).sym = Guess(fresh, ToSet(held))
        /\ ~timer => track # <<>> /\ (activeCharModifier(mods) => Last(track).ignore)

AwayOK ==
    focus = "away" =>
        IF timer THEN queue # <<>> /\ Last(queue).type = "releaseall" ELSE track = <<>>

(***************************************************************************)
(* While the focus has only changed with nothing held and no letter has    *)
(* changed its name, the entries of track are the keys held, in their      *)
(* order, once the queue has been passed on.  h, h2: the ids of keys held. *)
(***************************************************************************)
\* the entries are of the keys with ids h, and record what the server has been told
Matches(b, h) ==
    /\ BehindOK(b) /\ h \in Seq(Syms) /\ Apart(h) /\ Len(b.track) = Len(h)
    /\ \A i \in DOMAIN h :
           /\ b.track[i].id = h[i]
           /\ \A sym \in b.track[i].syms : sym.key = h[i].key
           /\ h[i].key \in Modifiers => Sym(h[i].key, "plain") \in b.track[i].syms
    /\ b.down = SymsOf(b.track)

\* event e, the keys held being h, leads to h2
Leads(h, e, h2) ==
    /\ h2 \in Seq(Syms)
    /\ \/ e.type = "stall" /\ h2 = h
       \/ /\ e.type = "keydown" /\ e.id \in Syms
          /\ \/ h # <<>> /\ Last(h) = e.id /\ h2 = h
             \/ e.id.key \notin KeysOf(h) /\ h2 = Append(h, e.id)
          /\ e.sym = NoSym \/ (e.sym \in Syms /\ e.sym.key = e.id.key)
          /\ e.id.key \in Modifiers => e.sym = Sym(e.id.key, "plain")
          /\ e.escape => ToSet(CharModifier) \subseteq KeysOf(h2)
       \/ /\ e.type = "keypress" /\ h # <<>> /\ h2 = h /\ e.sym \in Syms
          /\ e.sym.key = Last(h).key /\ Last(h).key \in Letters
          /\ e.escape => ToSet(CharModifier) \subseteq KeysOf(h)
       \/ e.type = "keyup" /\ \E i \in DOMAIN h : h[i] = e.id /\ h2 = RemoveAt(h, i)
       \/ e.type = "releaseall" /\ h2 = <<>>

Chain(q, hs) ==
    /\ hs \in [0..Len(q) -> Seq(Syms)]
    /\ \A i \in DOMAIN q : Leads(hs[i - 1], q[i], hs[i])

\* events q lead from h to h2; those that wait lead from what track records to h
Moves(q, h, h2) == \E hs : Chain(q, hs) /\ hs[0] = h /\ hs[Len(q)] = h2
Follows(q, b, h) == \E hs : Chain(q, hs) /\ Matches(b, hs[0]) /\ hs[Len(q)] = h

KnownHeld == IF Seen THEN held ELSE <<>>
KnownIds == Named(names, KnownHeld)

Tuned ==
    ~across =>
        /\ \A m \in Modifiers : mods[m] = (m \in ToSet(KnownHeld))
        /\ names # "changed" => Follows(queue, Behind, KnownIds)
        /\ ~Seen /\ unseen = 0 => held = <<>>

\* the mask is what the user holds, while no second button was
MouseOK ==
    ~across /\ ~chord =>
        /\ \A a, b \in pressed : a = b
        /\ Seen => /\ mouse.mask = pressed /\ (pressed # {} => mouse.captured)
                   /\ mouse.told \subseteq pressed /\ (~mouse.dragging => mouse.told = pressed)
        /\ ~Seen => mouse.mask = {} /\ mouse.told = {}

KeyTypes ==
    /\ mods \in [Modifiers -> BOOLEAN] /\ timer \in BOOLEAN /\ fresh \in Letters \cup {NoKey}
    /\ held \in Seq(Keys) /\ Distinct(held) /\ unseen \in Nat
    /\ names \in {"codes", "kept", "changed"}

KeyInv ==
    /\ KeyTypes /\ QueueOK(queue) /\ BehindOK(Behind)
    /\ Len(queue) <= MaxQueue /\ (queue # <<>> => timer)
    /\ FreshOK /\ AwayOK /\ Tuned
    /\ Known => ~spoilt /\ Lifts(queue)

MouseInv == mouse \in MouseRecord /\ pressed \subseteq Buttons /\ MouseOK

LEMMA KeyFacts ==
  /\ NoKey \notin Keys /\ "char" \notin Keys /\ Wheel \notin Buttons
  /\ NoSym \notin Syms /\ EscapeSyms \subseteq Syms
  /\ Modifiers \subseteq Keys /\ Letters \subseteq Keys /\ Letters \cap Modifiers = {}
  /\ Flagged \subseteq Modifiers /\ ToSet(CharModifier) \subseteq Modifiers
<1>1. NoKey \notin Keys /\ "char" \notin Keys /\ Wheel \notin Buttons
  BY InputAssumption, Zenon DEF NoKey, Wheel
<1>2. /\ Modifiers \subseteq Keys /\ Letters \subseteq Keys /\ Letters \cap Modifiers = {}
      /\ Flagged \subseteq Modifiers /\ ToSet(CharModifier) \subseteq Modifiers
  BY InputAssumption, Zenon DEF Keys
<1>3. NoSym \notin Syms
  BY <1>1 DEF NoSym, Syms
<1>4. EscapeSyms \subseteq Syms
  BY <1>2 DEF EscapeSyms, Sym, Syms
<1> QED BY <1>1, <1>2, <1>3, <1>4

LEMMA ConcatFacts ==
  ASSUME NEW S, NEW l \in Seq(S), NEW r \in Seq(S)
  PROVE  /\ l \o r \in Seq(S) /\ Len(l \o r) = Len(l) + Len(r)
         /\ \A j \in 1..Len(l) : (l \o r)[j] = l[j]
         /\ \A j \in 1..Len(r) : (l \o r)[Len(l) + j] = r[j]
OBVIOUS

LEMMA RemoveAtFacts ==
  ASSUME NEW S, NEW q \in Seq(S), NEW i \in 1..Len(q)
  PROVE  /\ RemoveAt(q, i) \in Seq(S) /\ Len(RemoveAt(q, i)) = Len(q) - 1
         /\ \A j \in 1..Len(q) - 1 : RemoveAt(q, i)[j] = IF j < i THEN q[j] ELSE q[j + 1]
<1> DEFINE l == SubSeq(q, 1, i - 1)
           r == SubSeq(q, i + 1, Len(q))
<1>1. RemoveAt(q, i) = l \o r
  BY Zenon DEF RemoveAt
<1>2. l \in Seq(S) /\ Len(l) = i - 1 /\ \A j \in 1..i - 1 : l[j] = q[j]
  OBVIOUS
<1>3. r \in Seq(S) /\ Len(r) = Len(q) - i /\ \A j \in 1..Len(q) - i : r[j] = q[i + j]
  OBVIOUS
<1> HIDE DEF l, r
<1>0. Len(q) \in Nat /\ i \in Nat /\ 1 <= i /\ i <= Len(q)
  OBVIOUS
<1>4. l \o r \in Seq(S) /\ Len(l \o r) = Len(q) - 1
  <2>1. l \o r \in Seq(S) /\ Len(l \o r) = Len(l) + Len(r)
    BY <1>2, <1>3, ConcatFacts, Zenon
  <2> QED BY <1>0, <1>2, <1>3, <2>1
<1>5. ASSUME NEW j \in 1..Len(q) - 1 PROVE (l \o r)[j] = IF j < i THEN q[j] ELSE q[j + 1]
  <2>1. CASE j < i
    BY <1>2, <1>3, <2>1
  <2>2. CASE ~(j < i)
    <3>0. j \in Nat /\ i <= j /\ j <= Len(q) - 1 /\ j - (i - 1) \in 1..Len(q) - i
      BY <1>0, <2>2
    <3>1. (l \o r)[j] = r[j - (i - 1)]
      BY <1>0, <1>2, <1>3, <3>0
    <3>2. r[j - (i - 1)] = q[i + (j - (i - 1))] /\ i + (j - (i - 1)) = j + 1
      BY <1>0, <1>3, <3>0
    <3> QED BY <2>2, <3>1, <3>2
  <2> QED BY <2>1, <2>2
<1> QED BY <1>1, <1>4, <1>5

LEMMA AppendFacts ==
  ASSUME NEW S, NEW q \in Seq(S), NEW x \in S
  PROVE  /\ Append(q, x) \in Seq(S) /\ Len(Append(q, x)) = Len(q) + 1
         /\ Append(q, x) # <<>> /\ Last(Append(q, x)) = x
         /\ Append(q, x)[Len(q) + 1] = x /\ \A j \in 1..Len(q) : Append(q, x)[j] = q[j]
         /\ ToSet(Append(q, x)) = ToSet(q) \cup {x}
<1>1. /\ Append(q, x) \in Seq(S) /\ Len(Append(q, x)) = Len(q) + 1
      /\ Append(q, x)[Len(q) + 1] = x /\ \A j \in 1..Len(q) : Append(q, x)[j] = q[j]
  OBVIOUS
<1>2. Append(q, x) # <<>> /\ Last(Append(q, x)) = x
  BY <1>1 DEF Last
<1>3. DOMAIN Append(q, x) = 1..Len(q) + 1 /\ DOMAIN q = 1..Len(q) /\ Len(q) \in Nat
  OBVIOUS
<1>4. ToSet(Append(q, x)) = ToSet(q) \cup {x}
  <2> DEFINE r == Append(q, x)
  <2>1. ASSUME NEW y \in ToSet(r) PROVE y \in ToSet(q) \cup {x}
    BY <1>1, <1>3 DEF ToSet
  <2>2. ASSUME NEW y \in ToSet(q) PROVE y \in ToSet(r)
    BY <1>1, <1>3 DEF ToSet
  <2>3. x \in ToSet(r)
    BY <1>1, <1>3 DEF ToSet
  <2> QED BY <2>1, <2>2, <2>3
<1> QED BY <1>1, <1>2, <1>4

LEMMA BehindTypes ==
  ASSUME NEW b \in BehindRecord
  PROVE  b.track \in Seq(EntryRecord) /\ b.down \in SUBSET Syms /\ b.spoilt \in BOOLEAN
BY DEF BehindRecord

LEMMA EventTypesOf ==
  ASSUME NEW e \in EventRecord
  PROVE  /\ e.type \in EventTypes /\ e.id \in Ids /\ e.sym \in Syms \cup {NoSym}
         /\ e.escape \in BOOLEAN
BY DEF EventRecord

LEMMA EntryTypes ==
  ASSUME NEW n \in EntryRecord
  PROVE  n.id \in Ids /\ n.syms \in SUBSET Syms /\ n.ignore \in BOOLEAN
BY DEF EntryRecord

LEMMA LevelOf ==
  ASSUME NEW sym \in Syms \cup {NoSym}
  PROVE  sym.level \in {"plain", "shift", "third"}
BY DEF Syms, NoSym

LEMMA PutTrack ==
  ASSUME NEW b \in BehindRecord, NEW t \in Seq(EntryRecord)
  PROVE  /\ [b EXCEPT !.track = t] \in BehindRecord /\ [b EXCEPT !.track = t].track = t
         /\ [b EXCEPT !.track = t].down = b.down /\ [b EXCEPT !.track = t].spoilt = b.spoilt
BY DEF BehindRecord

LEMMA PutDown ==
  ASSUME NEW b \in BehindRecord, NEW d \in SUBSET Syms
  PROVE  /\ [b EXCEPT !.down = d] \in BehindRecord /\ [b EXCEPT !.down = d].track = b.track
         /\ [b EXCEPT !.down = d].down = d /\ [b EXCEPT !.down = d].spoilt = b.spoilt
BY DEF BehindRecord

\* what a keysym that is sent does: told with, or without, the char modifier redone
Sends(b, n, sym, escape) ==
    /\ n \in BehindRecord /\ n.track = b.track
    /\ n.down = b.down \cup {sym} \cup (IF escape THEN EscapeSyms ELSE {})
    /\ ~b.spoilt /\ (sym.level = "third" <=> escape) => ~n.spoilt

LEMMA SentKeyFields ==
  ASSUME NEW b \in BehindRecord, NEW sym \in Syms, NEW lifted \in BOOLEAN
  PROVE  /\ SentKey(b, sym, lifted) \in BehindRecord /\ SentKey(b, sym, lifted).track = b.track
         /\ SentKey(b, sym, lifted).down = b.down \cup {sym}
         /\ SentKey(b, sym, lifted).spoilt =
                (b.spoilt \/ IF sym.level = "third" THEN b.down \cap EscapeSyms # {} ELSE lifted)
<1>1. b.down \cup {sym} \in SUBSET Syms
  BY BehindTypes
<1> DEFINE p == (b.spoilt \/ IF sym.level = "third" THEN b.down \cap EscapeSyms # {} ELSE lifted)
           n == [b EXCEPT !.down = b.down \cup {sym}, !.spoilt = p]
<1>2. p \in BOOLEAN
  BY BehindTypes, Zenon
<1>3. SentKey(b, sym, lifted) = n
  BY Zenon DEF SentKey
<1> HIDE DEF p
<1>4. n \in BehindRecord /\ n.track = b.track /\ n.down = b.down \cup {sym} /\ n.spoilt = p
  BY <1>1, <1>2, Zenon DEF BehindRecord
<1> QED BY <1>3, <1>4, Zenon DEF p

LEMMA EscapedSends ==
  ASSUME NEW b \in BehindRecord, NEW e, e.sym \in Syms, e.escape \in BOOLEAN
  PROVE  Sends(b, Escaped(b, e), e.sym, e.escape)
<1> DEFINE n == Escaped(b, e)
           sym == e.sym
           escape == e.escape
<1>0. /\ b.down \subseteq Syms /\ b.spoilt \in BOOLEAN /\ EscapeSyms \subseteq Syms
      /\ sym \in Syms /\ escape \in BOOLEAN
  BY BehindTypes, KeyFacts, Zenon
<1>1. CASE e.escape
  <2> DEFINE lifted == TRUE
             d == b.down \ EscapeSyms
             bare == [b EXCEPT !.down = d]
             k == SentKey(bare, sym, lifted)
             d2 == k.down \cup EscapeSyms
  <2>1. n = [k EXCEPT !.down = d2] /\ lifted \in BOOLEAN /\ lifted /\ escape
    BY <1>1, Zenon DEF Escaped
  <2>2. d \in SUBSET Syms
    BY <1>0
  <2> HIDE DEF sym, escape, lifted
  <2>3. /\ bare \in BehindRecord /\ bare.track = b.track /\ bare.down = d
        /\ bare.spoilt = b.spoilt
    <3> HIDE DEF d
    <3> QED BY <2>2, PutDown, Zenon
  <2> HIDE DEF bare
  <2>4. /\ k \in BehindRecord /\ k.track = bare.track /\ k.down = bare.down \cup {sym}
        /\ k.spoilt = (bare.spoilt \/ IF sym.level = "third" THEN bare.down \cap EscapeSyms # {} ELSE lifted)
    BY <1>0, <2>1, <2>3, SentKeyFields, Zenon
  <2> HIDE DEF k
  <2>5. d2 \in SUBSET Syms
    BY <1>0, <2>4, BehindTypes
  <2>6. n \in BehindRecord /\ n.track = k.track /\ n.down = d2 /\ n.spoilt = k.spoilt
    <3> HIDE DEF d2, n
    <3> QED BY <2>1, <2>4, <2>5, PutDown, Zenon
  <2> HIDE DEF n
  <2>7. n.down = b.down \cup {sym} \cup EscapeSyms
    BY <2>6, <2>4, <2>3
  <2>8. ~b.spoilt /\ (sym.level = "third" <=> escape) => ~n.spoilt
    BY <2>1, <2>6, <2>4, <2>3
  <2>9. Sends(b, n, sym, escape)
    BY <2>1, <2>3, <2>4, <2>6, <2>7, <2>8, Zenon DEF Sends
  <2> QED BY <2>9, Zenon DEF n, sym, escape
<1>2. CASE ~e.escape
  <2> DEFINE lifted == FALSE
  <2>0. n = SentKey(b, sym, lifted)
    BY <1>2, Zenon DEF Escaped
  <2>1. ~lifted /\ ~escape
    BY <1>2
  <2>2. lifted \in BOOLEAN
    OBVIOUS
  <2>a. sym \in Syms
    BY <1>0
  <2> DEFINE k == SentKey(b, sym, lifted)
  <2> HIDE DEF lifted, n, sym, escape
  <2>3. /\ k \in BehindRecord /\ k.track = b.track /\ k.down = b.down \cup {sym}
        /\ k.spoilt = (b.spoilt \/ IF sym.level = "third" THEN b.down \cap EscapeSyms # {} ELSE lifted)
    BY <2>a, <2>2, SentKeyFields, SMTT(30)
  <2> HIDE DEF k
  <2>4. /\ n \in BehindRecord /\ n.track = b.track /\ n.down = b.down \cup {sym}
        /\ n.spoilt = (b.spoilt \/ IF sym.level = "third" THEN b.down \cap EscapeSyms # {} ELSE lifted)
    BY <2>0, <2>3 DEF k
  <2>5. ~b.spoilt /\ (sym.level = "third" <=> escape) => ~n.spoilt
    BY <2>1, <2>4
  <2>6. n.down = b.down \cup {sym} \cup (IF escape THEN EscapeSyms ELSE {})
    BY <2>1, <2>4
  <2>7. Sends(b, n, sym, escape)
    BY <2>4, <2>5, <2>6, Zenon DEF Sends
  <2> QED BY <2>7, Zenon DEF n, sym, escape
<1> QED BY <1>1, <1>2

\* the last entry of b has got the keysym, and it has been sent
Records(b, n, sym, escape, ignore) ==
    /\ n \in BehindRecord /\ Len(n.track) = Len(b.track)
    /\ \A i \in DOMAIN b.track : n.track[i].id = b.track[i].id
    /\ \A i \in DOMAIN b.track : i # Len(b.track) => n.track[i] = b.track[i]
    /\ n.track[Len(b.track)].syms = b.track[Len(b.track)].syms \cup {sym}
    /\ n.track[Len(b.track)].ignore = (b.track[Len(b.track)].ignore \/ ignore)
    /\ n.down = b.down \cup {sym} \cup (IF escape THEN EscapeSyms ELSE {})
    /\ ~b.spoilt /\ (sym.level = "third" <=> escape) => ~n.spoilt

LEMMA RecordedRecords ==
  ASSUME NEW b \in BehindRecord, b.track # <<>>, NEW e, e.sym \in Syms, e.escape \in BOOLEAN,
         NEW ignore \in BOOLEAN
  PROVE  Records(b, Recorded(b, e, ignore), e.sym, e.escape, ignore)
<1> DEFINE L == Len(b.track)
           old == b.track[L]
           sy == old.syms \cup {e.sym}
           ig == (old.ignore \/ ignore)
           entry == [old EXCEPT !.syms = sy, !.ignore = ig]
           t == [b.track EXCEPT ![L] = entry]
           m == [b EXCEPT !.track = t]
           n == Recorded(b, e, ignore)
           sym == e.sym
           escape == e.escape
<1>1. n = Escaped(m, e)
  <2> DEFINE x == [b EXCEPT !.track[L].syms = @ \cup {e.sym}, !.track[L].ignore = @ \/ ignore]
  <2>1. n = Escaped(x, e)
    BY Zenon DEF Recorded
  <2>2. x = m
    BY Zenon
  <2> QED BY <2>1, <2>2, Zenon
<1>2. b.track \in Seq(EntryRecord) /\ L \in Nat /\ L \in 1..L /\ DOMAIN b.track = 1..L
  BY BehindTypes
<1>3. old \in EntryRecord
  BY <1>2
<1>4. sy \in SUBSET Syms /\ ig \in BOOLEAN
  BY <1>3, EntryTypes
<1>5. entry \in EntryRecord /\ entry.id = old.id /\ entry.syms = sy /\ entry.ignore = ig
  <2> HIDE DEF old, sy, ig
  <2> QED BY <1>3, <1>4, Zenon DEF EntryRecord
<1>6. /\ t \in Seq(EntryRecord) /\ Len(t) = L /\ t[L] = entry /\ DOMAIN t = 1..L
      /\ \A i \in 1..L : i # L => t[i] = b.track[i]
  <2> HIDE DEF entry
  <2> QED BY <1>2, <1>5
<1>7. m \in BehindRecord /\ m.track = t /\ m.down = b.down /\ m.spoilt = b.spoilt
  <2> HIDE DEF t
  <2> QED BY <1>6, PutTrack, Zenon
<1> HIDE DEF m, t, entry, sy, ig
<1>8. Sends(m, Escaped(m, e), e.sym, e.escape)
  BY <1>7, EscapedSends, Zenon
<1>9. Sends(m, n, sym, escape)
  BY <1>1, <1>8
<1> HIDE DEF n, sym, escape
<1>10. /\ n \in BehindRecord /\ n.track = t
       /\ n.down = b.down \cup {sym} \cup (IF escape THEN EscapeSyms ELSE {})
       /\ ~b.spoilt /\ (sym.level = "third" <=> escape) => ~n.spoilt
  BY <1>7, <1>9, Zenon DEF Sends
<1>11. \A i \in 1..L : n.track[i].id = b.track[i].id
  BY <1>2, <1>5, <1>6, <1>10
<1>12. n.track[L].syms = old.syms \cup {sym} /\ n.track[L].ignore = (old.ignore \/ ignore)
  BY <1>5, <1>6, <1>10, Zenon DEF sy, ig, sym
<1>13. Records(b, n, sym, escape, ignore)
  BY <1>2, <1>6, <1>10, <1>11, <1>12, Zenon DEF Records
<1> QED BY <1>13, Zenon DEF n, sym, escape

LEMMA SymsOfAppend ==
  ASSUME NEW t \in Seq(EntryRecord), NEW id \in Ids
  PROVE  /\ NewEntry(id) \in EntryRecord /\ NewEntry(id).syms = {} /\ NewEntry(id).id = id
         /\ ~NewEntry(id).ignore /\ SymsOf(Append(t, NewEntry(id))) = SymsOf(t)
<1> DEFINE no == FALSE
           x == [id |-> id, syms |-> {}, ignore |-> no]
<1>1. no \in BOOLEAN /\ ~no /\ NewEntry(id) = x
  BY Zenon DEF NewEntry
<1> HIDE DEF no
<1>2. x \in EntryRecord /\ x.syms = {} /\ x.id = id /\ x.ignore = no
  BY <1>1 DEF EntryRecord
<1> HIDE DEF x
<1>3. SymsOf(Append(t, x)) = SymsOf(t)
  <2>1. /\ DOMAIN Append(t, x) = 1..Len(t) + 1 /\ DOMAIN t = 1..Len(t) /\ Len(t) \in Nat
        /\ Append(t, x)[Len(t) + 1] = x /\ \A j \in 1..Len(t) : Append(t, x)[j] = t[j]
    BY <1>2
  <2>2. ASSUME NEW y PROVE y \in SymsOf(Append(t, x)) <=> y \in SymsOf(t)
    BY <1>2, <2>1 DEF SymsOf
  <2> QED BY <2>2
<1> QED BY <1>1, <1>2, <1>3

LEMMA SymsOfRecords ==
  ASSUME NEW b \in BehindRecord, b.track # <<>>, NEW n, NEW sym, NEW escape, NEW ignore,
         Records(b, n, sym, escape, ignore)
  PROVE  SymsOf(n.track) = SymsOf(b.track) \cup {sym}
<1>1. /\ b.track \in Seq(EntryRecord) /\ n.track \in Seq(EntryRecord)
      /\ Len(b.track) \in Nat /\ Len(b.track) \in 1..Len(b.track)
      /\ Len(n.track) = Len(b.track) /\ DOMAIN b.track = 1..Len(b.track) /\ DOMAIN n.track = DOMAIN b.track
  BY BehindTypes DEF Records
<1>2. ASSUME NEW y \in SymsOf(n.track) PROVE y \in SymsOf(b.track) \cup {sym}
  <2>1. PICK i \in DOMAIN b.track : y \in n.track[i].syms
    BY <1>1, <1>2 DEF SymsOf
  <2>2. CASE i = Len(b.track)
    BY <1>1, <2>1, <2>2, Zenon DEF Records, SymsOf
  <2>3. CASE i # Len(b.track)
    BY <1>1, <2>1, <2>3, Zenon DEF Records, SymsOf
  <2> QED BY <2>2, <2>3
<1>3. ASSUME NEW y \in SymsOf(b.track) PROVE y \in SymsOf(n.track)
  <2>1. PICK i \in DOMAIN b.track : y \in b.track[i].syms
    BY <1>3 DEF SymsOf
  <2>2. y \in n.track[i].syms
    BY <2>1, Zenon DEF Records
  <2> QED BY <1>1, <2>1, <2>2 DEF SymsOf
<1>4. sym \in SymsOf(n.track)
  <2>1. sym \in n.track[Len(b.track)].syms
    BY Zenon DEF Records
  <2> QED BY <1>1, <2>1 DEF SymsOf
<1> QED BY <1>2, <1>3, <1>4

\* the entry that a keydown goes to: the last one, or a new one
LEMMA DownEntry ==
  ASSUME NEW b \in BehindRecord, NEW id \in Ids
  PROVE  LET known == b.track # <<>> /\ id # NoSym /\ Last(b.track).id = id
             t == IF known THEN b ELSE [b EXCEPT !.track = Append(b.track, NewEntry(id))]
         IN  /\ t \in BehindRecord /\ t.track # <<>> /\ Last(t.track).id = id
             /\ t.down = b.down /\ t.spoilt = b.spoilt /\ SymsOf(t.track) = SymsOf(b.track)
<1> DEFINE known == b.track # <<>> /\ id # NoSym /\ Last(b.track).id = id
           a == Append(b.track, NewEntry(id))
           m == [b EXCEPT !.track = a]
           t == IF known THEN b ELSE m
           T(x) == /\ x \in BehindRecord /\ x.track # <<>> /\ Last(x.track).id = id
                   /\ x.down = b.down /\ x.spoilt = b.spoilt /\ SymsOf(x.track) = SymsOf(b.track)
<1>1. b.track \in Seq(EntryRecord)
  BY BehindTypes
<1>2. NewEntry(id) \in EntryRecord /\ NewEntry(id).id = id /\ SymsOf(a) = SymsOf(b.track)
  BY <1>1, SymsOfAppend, Zenon
<1>3. a \in Seq(EntryRecord) /\ a # <<>> /\ Last(a) = NewEntry(id)
  <2> DEFINE x == NewEntry(id)
             old == b.track
  <2>1. x \in EntryRecord /\ old \in Seq(EntryRecord)
    BY <1>1, <1>2
  <2> HIDE DEF x, old
  <2>2. Append(old, x) \in Seq(EntryRecord) /\ Append(old, x) # <<>> /\ Last(Append(old, x)) = x
    BY <2>1, AppendFacts
  <2> QED BY <2>2 DEF x, old
<1> HIDE DEF a
<1>4. m \in BehindRecord /\ m.track = a /\ m.down = b.down /\ m.spoilt = b.spoilt
  BY <1>3, PutTrack, Zenon
<1> HIDE DEF m
<1>5. T(m)
  BY <1>2, <1>3, <1>4, Zenon
<1>6. known => T(b)
  BY Zenon
<1>7. T(t)
  BY <1>5, <1>6, Zenon
<1> QED BY <1>7, Zenon DEF m, a

LEMMA RecordsOK ==
  ASSUME NEW b, BehindOK(b), b.track # <<>>, NEW n, NEW sym \in Syms, NEW escape \in BOOLEAN,
         NEW ignore \in BOOLEAN, Records(b, n, sym, escape, ignore)
  PROVE  /\ BehindOK(n) /\ n.track # <<>> /\ Last(n.track).id = Last(b.track).id
         /\ ignore => Last(n.track).ignore
<1>1. b \in BehindRecord /\ b.down \subseteq EscapeSyms \cup SymsOf(b.track)
  BY Zenon DEF BehindOK
<1>2. SymsOf(n.track) = SymsOf(b.track) \cup {sym}
  BY <1>1, SymsOfRecords, Zenon
<1>3. /\ n \in BehindRecord /\ n.down = b.down \cup {sym} \cup (IF escape THEN EscapeSyms ELSE {})
      /\ Len(n.track) = Len(b.track)
  BY Zenon DEF Records
<1>4. BehindOK(n)
  <2>1. n.down \subseteq EscapeSyms \cup SymsOf(n.track)
    BY <1>1, <1>2, <1>3
  <2> QED BY <1>3, <2>1, Zenon DEF BehindOK
<1>5. /\ b.track \in Seq(EntryRecord) /\ n.track \in Seq(EntryRecord)
      /\ Len(b.track) \in 1..Len(b.track) /\ DOMAIN b.track = 1..Len(b.track)
  BY <1>1, <1>3, BehindTypes
<1>6. n.track # <<>> /\ Last(n.track) = n.track[Len(b.track)] /\ Last(b.track) = b.track[Len(b.track)]
  BY <1>3, <1>5 DEF Last
<1>7. /\ n.track[Len(b.track)].id = b.track[Len(b.track)].id
      /\ n.track[Len(b.track)].ignore = (b.track[Len(b.track)].ignore \/ ignore)
  BY <1>5, Zenon DEF Records
<1> QED BY <1>4, <1>6, <1>7, Zenon

LEMMA TrackDownKeeps ==
  ASSUME NEW b, BehindOK(b), NEW e \in EventRecord
  PROVE  /\ BehindOK(TrackDown(b, e)) /\ TrackDown(b, e).track # <<>>
         /\ e.sym # NoSym => Last(TrackDown(b, e).track).ignore
         /\ ~b.spoilt /\ (e.sym = NoSym \/ (e.sym.level = "third" <=> e.escape))
               => ~TrackDown(b, e).spoilt
<1> DEFINE id == e.id
           known == b.track # <<>> /\ id # NoSym /\ Last(b.track).id = id
           t == IF known THEN b ELSE [b EXCEPT !.track = Append(b.track, NewEntry(id))]
           n == TrackDown(b, e)
           yes == TRUE
<1>1. b \in BehindRecord /\ b.down \subseteq EscapeSyms \cup SymsOf(b.track) /\ id \in Ids
  BY EventTypesOf, Zenon DEF BehindOK
<1>2. n = IF e.sym = NoSym THEN t ELSE Recorded(t, e, yes)
  BY Zenon DEF TrackDown
<1>3. /\ t \in BehindRecord /\ t.track # <<>> /\ t.down = b.down /\ t.spoilt = b.spoilt
      /\ SymsOf(t.track) = SymsOf(b.track)
  <2> HIDE DEF id
  <2> QED BY <1>1, DownEntry, Zenon
<1> HIDE DEF t, id
<1>4. BehindOK(t)
  BY <1>1, <1>3, Zenon DEF BehindOK
<1>5. CASE e.sym = NoSym
  BY <1>2, <1>3, <1>4, <1>5, Zenon
<1>6. CASE e.sym # NoSym
  <2>1. e.sym \in Syms /\ e.escape \in BOOLEAN
    BY <1>6, EventTypesOf
  <2>2. yes \in BOOLEAN /\ yes
    OBVIOUS
  <2> HIDE DEF yes
  <2>3. Records(t, Recorded(t, e, yes), e.sym, e.escape, yes)
    BY <1>3, <2>1, <2>2, RecordedRecords, Zenon
  <2> DEFINE sym == e.sym
             escape == e.escape
  <2>4. Records(t, n, sym, escape, yes) /\ sym \in Syms /\ escape \in BOOLEAN
    BY <1>2, <1>6, <2>1, <2>3
  <2> HIDE DEF n, sym, escape
  <2>5. BehindOK(n) /\ n.track # <<>> /\ (yes => Last(n.track).ignore)
    <3>1. yes \in BOOLEAN
      BY <2>2
    <3>2. BehindOK(n) /\ n.track # <<>>
      BY <1>3, <1>4, <2>4, <3>1, RecordsOK, Zenon
    <3>3. yes => Last(n.track).ignore
      BY <1>3, <1>4, <2>4, <3>1, RecordsOK, Zenon
    <3> QED BY <3>2, <3>3, Zenon
  <2>6. ~t.spoilt /\ (sym.level = "third" <=> escape) => ~n.spoilt
    BY <2>4, Zenon DEF Records
  <2> QED BY <1>3, <1>6, <2>2, <2>5, <2>6, Zenon DEF n, sym, escape
<1> QED BY <1>5, <1>6

\* the entry that a keypress goes to: the last one, if there is one
LEMMA PressEntry ==
  ASSUME NEW b, BehindOK(b), NEW id \in Ids
  PROVE  LET t == IF b.track = <<>> THEN [b EXCEPT !.track = <<NewEntry(id)>>] ELSE b
         IN  BehindOK(t) /\ t.track # <<>> /\ t.spoilt = b.spoilt /\ (b.track # <<>> => t = b)
<1> DEFINE a == <<NewEntry(id)>>
           m == [b EXCEPT !.track = a]
<1>1. b \in BehindRecord /\ b.down \subseteq EscapeSyms \cup SymsOf(b.track)
  BY Zenon DEF BehindOK
<1>2. CASE b.track = <<>>
  <2>1. <<>> \in Seq(EntryRecord)
    OBVIOUS
  <2>2. NewEntry(id) \in EntryRecord /\ SymsOf(Append(<<>>, NewEntry(id))) = SymsOf(<<>>)
    BY <2>1, SymsOfAppend, Zenon
  <2>3. a = Append(<<>>, NewEntry(id)) /\ a # <<>> /\ a \in Seq(EntryRecord)
    <3> DEFINE x == NewEntry(id)
    <3> HIDE DEF x
    <3>1. <<x>> = Append(<<>>, x) /\ <<x>> # <<>> /\ (x \in EntryRecord => <<x>> \in Seq(EntryRecord))
      OBVIOUS
    <3> QED BY <2>2, <3>1, Zenon DEF x
  <2>4. SymsOf(a) = SymsOf(b.track)
    BY <1>2, <2>2, <2>3, Zenon
  <2> HIDE DEF a
  <2>5. m \in BehindRecord /\ m.track = a /\ m.down = b.down /\ m.spoilt = b.spoilt
    BY <1>1, <2>3, PutTrack, Zenon
  <2> HIDE DEF m
  <2>6. BehindOK(m) /\ m.track # <<>>
    BY <1>1, <2>3, <2>4, <2>5, Zenon DEF BehindOK
  <2> QED BY <1>2, <2>5, <2>6, Zenon DEF m, a
<1>3. CASE b.track # <<>>
  BY <1>3, Zenon
<1> QED BY <1>2, <1>3

LEMMA TrackPressKeeps ==
  ASSUME NEW b, BehindOK(b), NEW e \in EventRecord, e.sym \in Syms
  PROVE  /\ BehindOK(TrackPress(b, e))
         /\ ~b.spoilt /\ (\/ b.track # <<>> /\ Last(b.track).ignore
                          \/ (e.sym.level = "third" <=> e.escape))
               => ~TrackPress(b, e).spoilt
<1> DEFINE id == e.id
           t == IF b.track = <<>> THEN [b EXCEPT !.track = <<NewEntry(id)>>] ELSE b
           n == TrackPress(b, e)
           no == FALSE
<1>1. id \in Ids /\ e.sym \in Syms /\ e.escape \in BOOLEAN
  BY EventTypesOf, Zenon
<1>2. n = IF Last(t.track).ignore THEN t ELSE Recorded(t, e, no)
  BY Zenon DEF TrackPress
<1>3. BehindOK(t) /\ t.track # <<>> /\ t.spoilt = b.spoilt /\ (b.track # <<>> => t = b)
  <2> HIDE DEF id
  <2> QED BY <1>1, PressEntry, Zenon
<1> HIDE DEF t, id
<1>4. CASE Last(t.track).ignore
  BY <1>2, <1>3, <1>4, Zenon
<1>5. CASE ~Last(t.track).ignore
  <2>1. no \in BOOLEAN /\ t \in BehindRecord
    BY <1>3 DEF BehindOK
  <2> HIDE DEF no
  <2>3. Records(t, Recorded(t, e, no), e.sym, e.escape, no)
    BY <1>1, <1>3, <2>1, RecordedRecords, Zenon
  <2> DEFINE sym == e.sym
             escape == e.escape
  <2>4. Records(t, n, sym, escape, no) /\ sym \in Syms /\ escape \in BOOLEAN
    BY <1>1, <1>2, <1>5, <2>3
  <2> HIDE DEF n, sym, escape
  <2>5. BehindOK(n)
    BY <1>3, <2>1, <2>4, RecordsOK, Zenon
  <2>6. ~t.spoilt /\ (sym.level = "third" <=> escape) => ~n.spoilt
    BY <2>4, Zenon DEF Records
  <2> QED BY <1>3, <1>5, <2>5, <2>6, Zenon DEF n, sym, escape
<1> QED BY <1>4, <1>5

LEMMA LeastNat ==
  ASSUME NEW S, S \subseteq Nat, S # {}
  PROVE  \E i \in S : \A j \in S : i <= j
<1>1. IsWellFoundedOn(OpToRel(<, Nat), Nat)
  BY NatLessThanWellFounded
<1>2. \E x \in S : \A y \in S : <<y, x>> \notin OpToRel(<, Nat)
  BY <1>1, WFMin
<1>3. PICK x \in S : \A y \in S : ~(y < x)
  BY <1>2 DEF OpToRel
<1>4. \A y \in S : x <= y
  BY <1>3
<1> QED BY <1>4

LEMMA MatchedEntry ==
  ASSUME NEW t \in Seq(EntryRecord), t # <<>>, NEW e
  PROVE  /\ Matched(t, e) \in 1..Len(t)
         /\ (\E i \in DOMAIN t : t[i].id = e.id) => t[Matched(t, e)].id = e.id
<1> DEFINE same == {i \in DOMAIN t : t[i].id = e.id}
           m == CHOOSE i \in same : \A j \in same : i <= j
<1>0. Matched(t, e) = IF same = {} THEN Len(t) ELSE m
  BY Zenon DEF Matched
<1>1. Len(t) \in 1..Len(t) /\ DOMAIN t = 1..Len(t) /\ same \subseteq Nat
  OBVIOUS
<1>2. CASE same = {}
  BY <1>0, <1>1, <1>2
<1>3. CASE same # {}
  <2> HIDE DEF same
  <2>1. \E i \in same : \A j \in same : i <= j
    BY <1>1, <1>3, LeastNat, Zenon
  <2>2. m \in same
    BY <2>1, Zenon
  <2> QED BY <1>0, <1>1, <1>3, <2>2, Zenon DEF same
<1> QED BY <1>2, <1>3

\* what is left of the entries when one is taken out
LEMMA SymsOfRemove ==
  ASSUME NEW t \in Seq(EntryRecord), NEW k \in 1..Len(t)
  PROVE  /\ RemoveAt(t, k) \in Seq(EntryRecord)
         /\ SymsOf(t) = SymsOf(RemoveAt(t, k)) \cup t[k].syms
<1> DEFINE r == RemoveAt(t, k)
<1>1. /\ r \in Seq(EntryRecord) /\ Len(r) = Len(t) - 1
      /\ \A j \in 1..Len(t) - 1 : r[j] = IF j < k THEN t[j] ELSE t[j + 1]
  BY RemoveAtFacts, Zenon
<1> HIDE DEF r
<1>2. Len(t) \in Nat /\ DOMAIN t = 1..Len(t) /\ DOMAIN r = 1..Len(t) - 1
  BY <1>1
<1>3. ASSUME NEW y \in SymsOf(t) PROVE y \in SymsOf(r) \cup t[k].syms
  <2>1. PICK i \in 1..Len(t) : y \in t[i].syms
    BY <1>2, <1>3 DEF SymsOf
  <2>2. CASE i < k
    <3>1. i \in 1..Len(t) - 1 /\ r[i] = t[i]
      BY <1>1, <2>2
    <3> QED BY <1>2, <2>1, <3>1 DEF SymsOf
  <2>3. CASE i > k
    <3>1. i - 1 \in 1..Len(t) - 1 /\ r[i - 1] = t[i]
      BY <1>1, <2>3
    <3> QED BY <1>2, <2>1, <3>1 DEF SymsOf
  <2>4. CASE i = k
    BY <2>1, <2>4
  <2> QED BY <2>2, <2>3, <2>4
<1>4. ASSUME NEW y \in SymsOf(r) PROVE y \in SymsOf(t)
  <2>1. PICK i \in 1..Len(t) - 1 : y \in r[i].syms
    BY <1>2, <1>4 DEF SymsOf
  <2>2. i \in DOMAIN t /\ i + 1 \in DOMAIN t
    BY <1>2
  <2>3. r[i] = t[i] \/ r[i] = t[i + 1]
    BY <1>1, Zenon
  <2> QED BY <2>1, <2>2, <2>3, Zenon DEF SymsOf
<1>5. t[k].syms \subseteq SymsOf(t)
  BY <1>2 DEF SymsOf
<1> QED BY <1>1, <1>3, <1>4, <1>5 DEF r

LEMMA TrackUpKeeps ==
  ASSUME NEW b, BehindOK(b), NEW e
  PROVE  /\ BehindOK(TrackUp(b, e)) /\ TrackUp(b, e).spoilt = b.spoilt
         /\ b.track # <<>> =>
               /\ TrackUp(b, e).track = RemoveAt(b.track, Matched(b.track, e))
               /\ TrackUp(b, e).down = b.down \ b.track[Matched(b.track, e)].syms
<1>0. /\ b \in BehindRecord /\ b.down \subseteq EscapeSyms \cup SymsOf(b.track)
      /\ b.track \in Seq(EntryRecord) /\ b.down \subseteq Syms
  BY BehindTypes, Zenon DEF BehindOK
<1>1. CASE b.track = <<>>
  BY <1>1, Zenon DEF TrackUp
<1>2. CASE b.track # <<>>
  <2> DEFINE k == Matched(b.track, e)
             r == RemoveAt(b.track, k)
             d == b.down \ b.track[k].syms
             m == [b EXCEPT !.down = d]
             n == [m EXCEPT !.track = r]
  <2>1. TrackUp(b, e) = [b EXCEPT !.down = d, !.track = r]
    BY <1>2, Zenon DEF TrackUp
  <2>2. k \in 1..Len(b.track)
    BY <1>0, <1>2, MatchedEntry, Zenon
  <2> HIDE DEF k
  <2>3. r \in Seq(EntryRecord) /\ SymsOf(b.track) = SymsOf(r) \cup b.track[k].syms
    BY <1>0, <2>2, SymsOfRemove, Zenon
  <2> HIDE DEF r
  <2>4. d \in SUBSET Syms /\ d \subseteq EscapeSyms \cup SymsOf(r)
    BY <1>0, <2>3
  <2> HIDE DEF d
  <2>5. m \in BehindRecord /\ m.track = b.track /\ m.down = d /\ m.spoilt = b.spoilt
    BY <1>0, <2>4, PutDown, Zenon
  <2>6. [b EXCEPT !.down = d, !.track = r] = n
    BY Zenon
  <2> HIDE DEF m
  <2>7. n \in BehindRecord /\ n.track = r /\ n.down = m.down /\ n.spoilt = m.spoilt
    BY <2>3, <2>5, PutTrack, Zenon
  <2> HIDE DEF n
  <2>8. TrackUp(b, e) = n
    BY <2>1, <2>6, Zenon
  <2>9. BehindOK(n)
    BY <2>4, <2>5, <2>7, Zenon DEF BehindOK
  <2> QED BY <2>5, <2>7, <2>8, <2>9, Zenon DEF r, d, k
<1> QED BY <1>1, <1>2

LEMMA ReleaseAllKeeps ==
  ASSUME NEW b, BehindOK(b)
  PROVE  /\ BehindOK(ReleaseAll(b)) /\ ReleaseAll(b).spoilt = b.spoilt
         /\ ReleaseAll(b).track = <<>> /\ ReleaseAll(b).down = b.down \ SymsOf(b.track)
<1>0. /\ b \in BehindRecord /\ b.down \subseteq EscapeSyms \cup SymsOf(b.track)
      /\ b.down \subseteq Syms
  BY BehindTypes, Zenon DEF BehindOK
<1> DEFINE r == <<>>
           d == b.down \ SymsOf(b.track)
           m == [b EXCEPT !.down = d]
           n == [m EXCEPT !.track = r]
<1>1. ReleaseAll(b) = [b EXCEPT !.down = d, !.track = r]
  BY Zenon DEF ReleaseAll, SymsOf
<1>2. r \in Seq(EntryRecord) /\ r = <<>>
  OBVIOUS
<1> HIDE DEF r
<1>3. d \in SUBSET Syms /\ d \subseteq EscapeSyms
  BY <1>0
<1> HIDE DEF d
<1>5. m \in BehindRecord /\ m.track = b.track /\ m.down = d /\ m.spoilt = b.spoilt
  BY <1>0, <1>3, PutDown, Zenon
<1>6. [b EXCEPT !.down = d, !.track = r] = n
  BY Zenon
<1> HIDE DEF m
<1>7. n \in BehindRecord /\ n.track = r /\ n.down = m.down /\ n.spoilt = m.spoilt
  BY <1>2, <1>5, PutTrack, Zenon
<1> HIDE DEF n
<1>8. ReleaseAll(b) = n
  BY <1>1, <1>6, Zenon
<1>9. BehindOK(n)
  BY <1>3, <1>5, <1>7, Zenon DEF BehindOK
<1> QED BY <1>2, <1>5, <1>7, <1>8, <1>9, Zenon DEF d

LEMMA TrackedKeeps ==
  ASSUME NEW b, BehindOK(b), NEW e \in EventRecord, e.type # "stall",
         e.type = "keypress" => e.sym \in Syms
  PROVE  /\ BehindOK(Tracked(b, e))
         /\ e.type = "keydown" => /\ Tracked(b, e).track # <<>>
                                  /\ e.sym # NoSym => Last(Tracked(b, e).track).ignore
         /\ e.type = "releaseall" => Tracked(b, e).track = <<>>
         /\ /\ ~b.spoilt
            /\ e.type = "keydown" => e.sym = NoSym \/ (e.sym.level = "third" <=> e.escape)
            /\ e.type = "keypress" => (e.sym.level = "third" <=> e.escape)
            => ~Tracked(b, e).spoilt
<1>0. e.type \in EventTypes
  BY EventTypesOf, Zenon
<1>1. CASE e.type = "keydown"
  <2>1. Tracked(b, e) = TrackDown(b, e)
    BY <1>1 DEF Tracked
  <2> QED BY <1>1, <2>1, TrackDownKeeps
<1>2. CASE e.type = "keypress"
  <2>1. Tracked(b, e) = TrackPress(b, e)
    BY <1>2 DEF Tracked
  <2> QED BY <1>2, <2>1, TrackPressKeeps
<1>3. CASE e.type = "keyup"
  <2>1. Tracked(b, e) = TrackUp(b, e)
    BY <1>3 DEF Tracked
  <2> QED BY <1>3, <2>1, TrackUpKeeps
<1>4. CASE e.type = "releaseall"
  <2>1. Tracked(b, e) = ReleaseAll(b)
    BY <1>4 DEF Tracked
  <2> QED BY <1>4, <2>1, ReleaseAllKeeps
<1> QED BY <1>0, <1>1, <1>2, <1>3, <1>4 DEF EventTypes

LEMMA MergedFields ==
  ASSUME NEW e \in EventRecord, NEW f \in EventRecord
  PROVE  /\ Merged(e, f) \in EventRecord /\ Merged(e, f).type = e.type /\ Merged(e, f).id = e.id
         /\ Merged(e, f).sym = f.sym
         /\ Merged(e, f).escape = (e.escape \/ (f.escape /\ e.sym # f.sym))
<1> DEFINE p == (e.escape \/ (f.escape /\ e.sym # f.sym))
           sym == f.sym
           n == [e EXCEPT !.escape = p, !.sym = sym]
<1>1. p \in BOOLEAN /\ sym \in Syms \cup {NoSym}
  BY EventTypesOf
<1>2. Merged(e, f) = n
  BY Zenon DEF Merged
<1> HIDE DEF p, sym
<1>3. n \in EventRecord /\ n.type = e.type /\ n.id = e.id /\ n.sym = sym /\ n.escape = p
  BY <1>1, Zenon DEF EventRecord
<1> QED BY <1>2, <1>3, Zenon DEF p, sym

LEMMA StallFacts ==
  ASSUME NEW q \in Seq(EventRecord)
  PROVE  /\ NextStall(q) \in 1..Len(q) + 1
         /\ \A i \in 1..NextStall(q) - 1 : q[i].type # "stall"
         /\ Stalls(q) = {} <=> NextStall(q) = Len(q) + 1
         /\ Stalls(q) # {} => NextStall(q) \in 1..Len(q) /\ q[NextStall(q)].type = "stall"
<1> DEFINE m == CHOOSE i \in Stalls(q) : \A j \in Stalls(q) : i <= j
<1>1. NextStall(q) = IF Stalls(q) = {} THEN Len(q) + 1 ELSE m
  BY Zenon DEF NextStall
<1>2. /\ Len(q) \in Nat /\ DOMAIN q = 1..Len(q) /\ Stalls(q) \subseteq 1..Len(q)
      /\ Stalls(q) \subseteq Nat
      /\ \A i \in 1..Len(q) : i \in Stalls(q) <=> q[i].type = "stall"
  BY DEF Stalls
<1>3. CASE Stalls(q) = {}
  BY <1>1, <1>2, <1>3
<1>4. CASE Stalls(q) # {}
  <2>1. \E i \in Stalls(q) : \A j \in Stalls(q) : i <= j
    BY <1>2, <1>4, LeastNat, Zenon
  <2>2. m \in Stalls(q) /\ \A j \in Stalls(q) : m <= j
    BY <2>1, Zenon
  <2> HIDE DEF m
  <2> QED BY <1>1, <1>2, <1>4, <2>2
<1> QED BY <1>3, <1>4

\* what every event that is passed on leads to, in its turn
LEMMA PassedReaches ==
  ASSUME NEW q \in Seq(EventRecord), NEW P, NEW b \in P[0],
         \A i \in 1..NextStall(q) - 1 : \A x \in P[i - 1] : Handled(q, i, x) \in P[i]
  PROVE  /\ Passed(q, b).s \in P[NextStall(q) - 1]
         /\ Passed(q, b).queue = SubSeq(q, NextStall(q) + 1, Len(q))
         /\ Passed(q, b).timer = (Stalls(q) # {})
<1> DEFINE n == NextStall(q) - 1
           F(d, k) == d = [i \in 0..k |-> IF i = 0 THEN b ELSE Handled(q, i, d[i - 1])]
           S == {k \in Nat : \E d : F(d, k)}
<1>0. n \in Nat
  BY StallFacts
<1>1. 0 \in S
  <2> DEFINE d == [i \in 0..0 |-> b]
  <2>1. F(d, 0)
    OBVIOUS
  <2> HIDE DEF d
  <2>2. \E x : F(x, 0)
    BY <2>1, Zenon
  <2> HIDE DEF F
  <2> QED BY <2>2
<1>2. ASSUME NEW k \in Nat, k \in S PROVE k + 1 \in S
  <2>1. PICK d : F(d, k)
    BY <1>2
  <2> DEFINE v == Handled(q, k + 1, d[k])
             g == [i \in 0..k + 1 |-> IF i = k + 1 THEN v ELSE d[i]]
  <2>2. F(g, k + 1)
    BY <2>1
  <2> HIDE DEF g
  <2>3. \E x : F(x, k + 1)
    BY <2>2, Zenon
  <2> HIDE DEF F
  <2> QED BY <2>3
<1> HIDE DEF S
<1>3. Nat \subseteq S
  BY <1>1, <1>2, SetInduction, Zenon
<1> HIDE DEF n
<1>4. \E d : F(d, n)
  BY <1>0, <1>3 DEF S
<1> DEFINE d == CHOOSE d : F(d, n)
<1>5. F(d, n)
  BY <1>4, Zenon
<1>6. Passed(q, b) = [queue |-> SubSeq(q, NextStall(q) + 1, Len(q)), timer |-> Stalls(q) # {},
                      s |-> d[n]]
  BY Zenon DEF Passed, n
<1> HIDE DEF d
<1> DEFINE T == {k \in Nat : k <= n => d[k] \in P[k]}
<1>7. 0 \in T
  BY <1>0, <1>5
<1>8. ASSUME NEW k \in Nat, k \in T PROVE k + 1 \in T
  <2> SUFFICES ASSUME k + 1 <= n PROVE d[k + 1] \in P[k + 1]
    OBVIOUS
  <2>1. d[k] \in P[k] /\ d[k + 1] = Handled(q, k + 1, d[k])
    BY <1>0, <1>5, <1>8
  <2>2. k + 1 \in 1..n /\ (k + 1) - 1 = k
    BY <1>0
  <2>3. \A x \in P[k] : Handled(q, k + 1, x) \in P[k + 1]
    BY <2>2 DEF n
  <2> QED BY <2>1, <2>3
<1> HIDE DEF T
<1>9. Nat \subseteq T
  BY <1>7, <1>8, SetInduction, Zenon
<1>10. d[n] \in P[n]
  BY <1>0, <1>9 DEF T
<1> DEFINE rest == SubSeq(q, NextStall(q) + 1, Len(q))
           tm == (Stalls(q) # {})
           v == d[n]
           r == [queue |-> rest, timer |-> tm, s |-> v]
<1>11. Passed(q, b) = r
  BY <1>6, Zenon
<1>12. r.queue = rest /\ r.timer = tm /\ r.s = v
  <2> HIDE DEF rest, tm, v
  <2> QED BY Zenon
<1> HIDE DEF r
<1> QED BY <1>10, <1>11, <1>12, Zenon DEF n

LEMMA HandledKeeps ==
  ASSUME NEW q, QueueOK(q), NEW i \in DOMAIN q, q[i].type # "stall", NEW b, BehindOK(b)
  PROVE  /\ BehindOK(Handled(q, i, b))
         /\ i = Len(q) /\ q[i].type = "keydown" =>
               /\ Handled(q, i, b).track # <<>>
               /\ q[i].sym # NoSym => Last(Handled(q, i, b).track).ignore
         /\ i = Len(q) /\ q[i].type = "releaseall" => Handled(q, i, b).track = <<>>
         /\ ~b.spoilt /\ Lifts(q) => ~Handled(q, i, b).spoilt
<1>0. /\ q \in Seq(EventRecord) /\ Len(q) \in Nat /\ i \in 1..Len(q)
      /\ DOMAIN q = 1..Len(q) /\ q[i] \in EventRecord
  BY DEF QueueOK
<1>1. /\ q[i].type = "keydown" => ~q[i].escape /\ q[i].sym.level # "third"
      /\ q[i].type = "keypress" => q[i].sym \in Syms /\ i > 1 /\ q[i - 1].type = "keydown"
  BY DEF QueueOK
<1>2. CASE q[i].type = "keypress"
  BY <1>1, <1>2 DEF Handled
<1>3. CASE q[i].type = "keydown" /\ i < Len(q) /\ q[i + 1].type = "keypress"
  <2> DEFINE a == q[i]
             c == q[i + 1]
             e == Merged(a, c)
             n == Tracked(b, e)
  <2>1. Handled(q, i, b) = n
    BY <1>3 DEF Handled
  <2>2. i + 1 \in DOMAIN q /\ (i + 1) - 1 = i /\ i # Len(q)
    BY <1>0, <1>3
  <2>3. /\ c \in EventRecord /\ c.sym \in Syms
        /\ c.escape /\ c.sym.level # "third" => a.sym = c.sym
    BY <1>3, <2>2 DEF QueueOK
  <2>4. a \in EventRecord /\ a.type = "keydown" /\ ~a.escape /\ a.sym.level # "third"
    BY <1>0, <1>1, <1>3
  <2>5. Lifts(q) => (c.sym.level = "third" => c.escape)
    BY <1>3, <2>2 DEF Lifts
  <2> HIDE DEF a, c
  <2>6. /\ e \in EventRecord /\ e.type = a.type /\ e.id = a.id /\ e.sym = c.sym
        /\ e.escape = (a.escape \/ (c.escape /\ a.sym # c.sym))
    BY <2>3, <2>4, MergedFields, Zenon
  <2> HIDE DEF e
  <2>7. /\ BehindOK(n)
        /\ ~b.spoilt /\ (e.sym.level = "third" <=> e.escape) => ~n.spoilt
    <3>1. e.type # "stall" /\ e.type # "keypress"
      BY <2>4, <2>6
    <3> QED BY <2>6, <3>1, TrackedKeeps
  <2>8. Lifts(q) => (e.sym.level = "third" <=> e.escape)
    BY <2>3, <2>4, <2>5, <2>6
  <2> QED BY <2>1, <2>2, <2>7, <2>8
<1>4. CASE ~(q[i].type = "keypress") /\ ~(q[i].type = "keydown" /\ i < Len(q) /\ q[i + 1].type = "keypress")
  <2> DEFINE e == q[i]
  <2>1. Handled(q, i, b) = Tracked(b, e)
    BY <1>4 DEF Handled
  <2>2. /\ e \in EventRecord /\ e.type # "keypress" /\ e.type # "stall"
        /\ e.type = "keydown" => ~e.escape /\ e.sym.level # "third"
    BY <1>0, <1>1, <1>4
  <2> HIDE DEF e
  <2>3. /\ BehindOK(Tracked(b, e))
        /\ e.type = "keydown" => /\ Tracked(b, e).track # <<>>
                                 /\ e.sym # NoSym => Last(Tracked(b, e).track).ignore
        /\ e.type = "releaseall" => Tracked(b, e).track = <<>>
        /\ ~b.spoilt => ~Tracked(b, e).spoilt
    BY <2>2, TrackedKeeps
  <2> QED BY <2>1, <2>3 DEF e
<1> QED BY <1>2, <1>3, <1>4

LEMMA EmptySub ==
  ASSUME NEW S, NEW q \in Seq(S), NEW m \in Nat, m > Len(q)
  PROVE  SubSeq(q, m, Len(q)) = <<>>
OBVIOUS

LEMMA RestOfQueue ==
  ASSUME NEW q, QueueOK(q)
  PROVE  LET r == SubSeq(q, NextStall(q) + 1, Len(q))
         IN  /\ QueueOK(r) /\ (Lifts(q) => Lifts(r)) /\ Len(r) <= Len(q)
             /\ Stalls(q) = {} => r = <<>>
             /\ Stalls(q) # {} => /\ Len(r) = Len(q) - NextStall(q)
                                  /\ \A j \in DOMAIN r : r[j] = q[NextStall(q) + j]
                                  /\ q # <<>> /\ Last(q).type # "stall" => r # <<>> /\ Last(r) = Last(q)
<1> DEFINE n == NextStall(q)
           r == SubSeq(q, n + 1, Len(q))
<1>0. q \in Seq(EventRecord) /\ Len(q) \in Nat /\ DOMAIN q = 1..Len(q)
  BY DEF QueueOK
<1>1. /\ n \in 1..Len(q) + 1 /\ (Stalls(q) = {} <=> n = Len(q) + 1)
      /\ Stalls(q) # {} => n \in 1..Len(q) /\ q[n].type = "stall"
  BY <1>0, StallFacts, Zenon
<1> HIDE DEF n
<1>2. CASE Stalls(q) = {}
  <2>0. n + 1 \in Nat /\ n + 1 > Len(q)
    BY <1>0, <1>1, <1>2
  <2>1. r = <<>>
    BY <1>0, <2>0, EmptySub, Zenon
  <2> HIDE DEF r
  <2>1a. Len(r) = 0 /\ DOMAIN r = {} /\ r \in Seq(EventRecord)
    BY <2>1
  <2>2. QueueOK(r) /\ Lifts(r)
    BY <2>1a DEF QueueOK, Lifts
  <2> QED BY <1>0, <1>2, <2>1, <2>1a, <2>2 DEF n, r
<1>3. CASE Stalls(q) # {}
  <2>0. n \in 1..Len(q) /\ q[n].type = "stall"
    BY <1>1, <1>3
  <2>1. /\ r \in Seq(EventRecord) /\ Len(r) = Len(q) - n /\ DOMAIN r = 1..Len(q) - n
        /\ \A j \in 1..Len(q) - n : r[j] = q[n + j]
    BY <1>0, <2>0
  <2> HIDE DEF r
  <2>2. \A j \in DOMAIN r : n + j \in DOMAIN q /\ r[j] = q[n + j]
    BY <1>0, <2>0, <2>1
  <2>3. ASSUME NEW j \in DOMAIN r
        PROVE  /\ r[j].type = "keydown" => ~r[j].escape /\ r[j].sym.level # "third"
               /\ r[j].type = "keypress" =>
                     /\ r[j].sym \in Syms /\ j > 1 /\ r[j - 1].type = "keydown"
                     /\ r[j].escape /\ r[j].sym.level # "third" => r[j - 1].sym = r[j].sym
    <3>1. n + j \in DOMAIN q /\ r[j] = q[n + j] /\ n + j \in Nat
      BY <1>0, <2>2
    <3>2. r[j].type = "keydown" => ~r[j].escape /\ r[j].sym.level # "third"
      BY <3>1 DEF QueueOK
    <3>3. ASSUME r[j].type = "keypress"
          PROVE  /\ r[j].sym \in Syms /\ j > 1 /\ r[j - 1].type = "keydown"
                 /\ r[j].escape /\ r[j].sym.level # "third" => r[j - 1].sym = r[j].sym
      <4>1. /\ r[j].sym \in Syms /\ q[(n + j) - 1].type = "keydown"
            /\ r[j].escape /\ r[j].sym.level # "third" => q[(n + j) - 1].sym = r[j].sym
        BY <3>1, <3>3 DEF QueueOK
      <4>2. j # 1
        BY <2>0, <4>1
      <4>3. j - 1 \in DOMAIN r /\ j > 1 /\ (n + j) - 1 = n + (j - 1)
        BY <1>0, <2>0, <2>1, <4>2
      <4>4. r[j - 1] = q[(n + j) - 1]
        BY <2>2, <4>3
      <4> QED BY <4>1, <4>3, <4>4
    <3> QED BY <3>2, <3>3
  <2>4. QueueOK(r)
    BY <2>1, <2>3, Zenon DEF QueueOK
  <2>5. Lifts(q) => Lifts(r)
    BY <2>2 DEF Lifts
  <2>6. q # <<>> /\ Last(q).type # "stall" => r # <<>> /\ Last(r) = Last(q)
    <3> SUFFICES ASSUME q # <<>>, Last(q).type # "stall" PROVE r # <<>> /\ Last(r) = Last(q)
      OBVIOUS
    <3>1. n # Len(q)
      BY <2>0 DEF Last
    <3>2. Len(q) - n \in 1..Len(q) - n /\ n + (Len(q) - n) = Len(q) /\ Len(q) - n > 0
      <4> DEFINE L == Len(q)
      <4>1. L \in Nat /\ n \in 1..L /\ n # L
        BY <1>0, <2>0, <3>1
      <4> HIDE DEF L
      <4>2. L - n \in 1..L - n /\ n + (L - n) = L /\ L - n > 0
        BY <4>1
      <4> QED BY <4>2 DEF L
    <3>3. r[Len(q) - n] = q[Len(q)] /\ r # <<>>
      BY <2>1, <3>2
    <3> QED BY <2>1, <3>3 DEF Last
  <2>7. Len(r) <= Len(q)
    BY <1>0, <2>0, <2>1
  <2> QED BY <1>3, <2>1, <2>2, <2>4, <2>5, <2>6, <2>7 DEF n, r
<1> QED BY <1>2, <1>3

LEMMA PassedKeeps ==
  ASSUME NEW q, QueueOK(q), NEW b, BehindOK(b)
  PROVE  /\ BehindOK(Passed(q, b).s) /\ QueueOK(Passed(q, b).queue)
         /\ ~b.spoilt /\ Lifts(q) => ~Passed(q, b).s.spoilt /\ Lifts(Passed(q, b).queue)
         /\ Len(Passed(q, b).queue) <= Len(q)
         /\ Passed(q, b).timer \in BOOLEAN /\ (Passed(q, b).queue # <<>> => Passed(q, b).timer)
         /\ q # <<>> /\ Last(q).type \in {"keydown", "releaseall"} =>
               IF Passed(q, b).timer
               THEN Passed(q, b).queue # <<>> /\ Last(Passed(q, b).queue) = Last(q)
               ELSE /\ Last(q).type = "keydown" =>
                          /\ Passed(q, b).s.track # <<>>
                          /\ Last(q).sym # NoSym => Last(Passed(q, b).s.track).ignore
                    /\ Last(q).type = "releaseall" => Passed(q, b).s.track = <<>>
<1> DEFINE n == NextStall(q)
           r == SubSeq(q, n + 1, Len(q))
           p == Passed(q, b)
           A(i, x) == i = Len(q) /\ i # 0 =>
                        /\ q[i].type = "keydown" =>
                              x.track # <<>> /\ (q[i].sym # NoSym => Last(x.track).ignore)
                        /\ q[i].type = "releaseall" => x.track = <<>>
           P == [i \in 0..Len(q) |-> {x \in BehindRecord :
                    BehindOK(x) /\ (~b.spoilt /\ Lifts(q) => ~x.spoilt) /\ A(i, x)}]
<1>0. q \in Seq(EventRecord) /\ Len(q) \in Nat /\ DOMAIN q = 1..Len(q)
  BY DEF QueueOK
<1>1. /\ n \in 1..Len(q) + 1 /\ \A i \in 1..n - 1 : q[i].type # "stall"
      /\ Stalls(q) = {} <=> n = Len(q) + 1
  BY <1>0, StallFacts
<1>2. b \in P[0]
  BY <1>0 DEF BehindOK
<1>3. ASSUME NEW i \in 1..n - 1, NEW x \in P[i - 1] PROVE Handled(q, i, x) \in P[i]
  <2>1. i \in DOMAIN q /\ i \in 0..Len(q) /\ i - 1 \in 0..Len(q) /\ q[i].type # "stall"
    BY <1>0, <1>1
  <2>2. BehindOK(x) /\ (~b.spoilt /\ Lifts(q) => ~x.spoilt)
    BY <2>1, <1>3
  <2> DEFINE y == Handled(q, i, x)
  <2>3. /\ BehindOK(y) /\ (~x.spoilt /\ Lifts(q) => ~y.spoilt)
        /\ i = Len(q) /\ q[i].type = "keydown" =>
               y.track # <<>> /\ (q[i].sym # NoSym => Last(y.track).ignore)
        /\ i = Len(q) /\ q[i].type = "releaseall" => y.track = <<>>
    BY <2>1, <2>2, HandledKeeps, Zenon
  <2> HIDE DEF y
  <2>4. A(i, y) /\ y \in BehindRecord
    BY <2>3 DEF BehindOK
  <2>5. y \in P[i]
    <3> HIDE DEF A
    <3> QED BY <2>1, <2>2, <2>3, <2>4
  <2> QED BY <2>5 DEF y
<1> HIDE DEF P
<1>4. /\ p.s \in P[n - 1] /\ p.queue = r /\ p.timer = (Stalls(q) # {})
  BY <1>0, <1>2, <1>3, PassedReaches, Zenon
<1>5. n - 1 \in 0..Len(q)
  BY <1>0, <1>1
<1>6. BehindOK(p.s) /\ (~b.spoilt /\ Lifts(q) => ~p.s.spoilt) /\ A(n - 1, p.s)
  BY <1>4, <1>5, Zenon DEF P
<1>7. /\ QueueOK(r) /\ (Lifts(q) => Lifts(r)) /\ Len(r) <= Len(q)
      /\ Stalls(q) = {} => r = <<>>
      /\ Stalls(q) # {} => (q # <<>> /\ Last(q).type # "stall" => r # <<>> /\ Last(r) = Last(q))
  BY RestOfQueue, Zenon
<1> HIDE DEF p, r, n
<1>8. CASE Stalls(q) # {}
  <2>1. p.timer
    BY <1>4, <1>8, Zenon
  <2>2. q # <<>> /\ Last(q).type \in {"keydown", "releaseall"} =>
            p.queue # <<>> /\ Last(p.queue) = Last(q)
    BY <1>4, <1>7, <1>8
  <2> QED BY <1>4, <1>6, <1>7, <2>1, <2>2, Zenon DEF p
<1>9. CASE Stalls(q) = {}
  <2>1. p.queue = <<>> /\ ~p.timer
    BY <1>4, <1>7, <1>9, Zenon
  <2>2. n - 1 = Len(q)
    BY <1>0, <1>1, <1>9
  <2>3. q # <<>> => Last(q) = q[Len(q)] /\ Len(q) # 0
    BY <1>0 DEF Last
  <2>4. q # <<>> =>
           /\ Last(q).type = "keydown" =>
                  p.s.track # <<>> /\ (Last(q).sym # NoSym => Last(p.s.track).ignore)
           /\ Last(q).type = "releaseall" => p.s.track = <<>>
    BY <1>6, <2>2, <2>3
  <2> QED BY <1>4, <1>6, <1>7, <2>1, <2>4, Zenon DEF p
<1> QED BY <1>8, <1>9

\* Matches, but for the last entry's modifier
Near(b, h) ==
    /\ BehindOK(b) /\ h \in Seq(Syms) /\ Apart(h) /\ Len(b.track) = Len(h)
    /\ \A i \in DOMAIN h :
           /\ b.track[i].id = h[i]
           /\ \A sym \in b.track[i].syms : sym.key = h[i].key
           /\ i # Len(h) /\ h[i].key \in Modifiers => Sym(h[i].key, "plain") \in b.track[i].syms
    /\ b.down = SymsOf(b.track)

LEMMA MatchesIsNear == ASSUME NEW b, NEW h, Matches(b, h) PROVE Near(b, h)
BY Zenon DEF Matches, Near

LEMMA NearMatches ==
  ASSUME NEW b, NEW h, Near(b, h), h # <<>> => Last(h).key \notin Modifiers
  PROVE  Matches(b, h)
<1>1. h \in Seq(Syms)
  BY DEF Near
<1>2. ASSUME NEW i \in DOMAIN h, h[i].key \in Modifiers PROVE i # Len(h)
  BY <1>1, <1>2 DEF Last
<1> QED BY <1>2, Zenon DEF Matches, Near

LEMMA RecordsMatches ==
  ASSUME NEW b, NEW h, Near(b, h), h # <<>>,
         NEW n, NEW sym \in Syms, NEW escape \in BOOLEAN, NEW ignore \in BOOLEAN,
         Records(b, n, sym, escape, ignore),
         sym.key = Last(h).key, escape => ToSet(CharModifier) \subseteq KeysOf(h),
         \/ Last(h).key \in Modifiers => sym = Sym(Last(h).key, "plain")
         \/ Matches(b, h)
  PROVE  Matches(n, h)
<1> DEFINE L == Len(h)
<1>0. /\ BehindOK(b) /\ h \in Seq(Syms) /\ Apart(h) /\ Len(b.track) = L /\ b.down = SymsOf(b.track)
      /\ b \in BehindRecord
  BY Zenon DEF Near, BehindOK
<1>1. /\ b.track \in Seq(EntryRecord) /\ DOMAIN h = 1..L /\ L \in 1..L /\ L \in Nat /\ Last(h) = h[L]
      /\ DOMAIN b.track = 1..L /\ b.track # <<>>
  BY <1>0, BehindTypes DEF Last
<1> HIDE DEF L
<1>2. BehindOK(n)
  BY <1>0, <1>1, RecordsOK, Zenon
<1>3. /\ n \in BehindRecord /\ Len(n.track) = L
      /\ \A i \in 1..L : n.track[i].id = b.track[i].id
      /\ \A i \in 1..L : i # L => n.track[i] = b.track[i]
      /\ n.track[L].syms = b.track[L].syms \cup {sym}
      /\ n.down = b.down \cup {sym} \cup (IF escape THEN EscapeSyms ELSE {})
  BY <1>0, <1>1, Zenon DEF Records
<1>4. /\ n.track \in Seq(EntryRecord) /\ DOMAIN n.track = 1..L
  BY <1>3, BehindTypes
<1>5. \A i \in 1..L : n.track[i].id = h[i]
  BY <1>1, <1>3, Zenon DEF Near
<1>6. ASSUME NEW i \in 1..L, NEW y \in n.track[i].syms PROVE y.key = h[i].key
  <2>1. CASE i = L
    <3>1. y \in b.track[L].syms \/ y = sym
      BY <1>3, <1>6, <2>1
    <3> QED BY <1>1, <2>1, <3>1, Zenon DEF Near
  <2>2. CASE i # L
    BY <1>1, <1>3, <1>6, <2>2, Zenon DEF Near
  <2> QED BY <2>1, <2>2
<1>7. ASSUME NEW i \in 1..L, h[i].key \in Modifiers PROVE Sym(h[i].key, "plain") \in n.track[i].syms
  <2>1. CASE i = L
    <3>1. sym = Sym(h[i].key, "plain") \/ Sym(h[i].key, "plain") \in b.track[L].syms
      BY <1>1, <1>7, <2>1, Zenon DEF Matches
    <3> QED BY <1>3, <2>1, <3>1
  <2>2. CASE i # L
    <3>1. Sym(h[i].key, "plain") \in b.track[i].syms
      BY <1>1, <1>7, <2>2, Zenon DEF Near, L
    <3> QED BY <1>3, <2>2, <3>1
  <2> QED BY <2>1, <2>2
<1>8. SymsOf(n.track) = SymsOf(b.track) \cup {sym}
  BY <1>0, <1>1, SymsOfRecords, Zenon
<1>9. escape => EscapeSyms \subseteq SymsOf(n.track)
  <2> SUFFICES ASSUME escape, NEW m \in ToSet(CharModifier)
               PROVE  Sym(m, "plain") \in SymsOf(n.track)
    BY DEF EscapeSyms
  <2>1. m \in KeysOf(h) /\ m \in Modifiers
    BY KeyFacts
  <2>2. PICK i \in 1..L : h[i].key = m
    BY <1>1, <2>1 DEF KeysOf
  <2>3. Sym(m, "plain") \in n.track[i].syms
    BY <1>7, <2>1, <2>2
  <2> QED BY <1>4, <2>3 DEF SymsOf
<1>10. n.down = SymsOf(n.track)
  BY <1>0, <1>3, <1>8, <1>9
<1> QED BY <1>0, <1>1, <1>2, <1>3, <1>5, <1>6, <1>7, <1>10, Zenon DEF Matches, L

LEMMA TrackDownMatches ==
  ASSUME NEW b, NEW h, Matches(b, h), NEW e \in EventRecord, NEW h2 \in Seq(Syms),
         e.id \in Syms,
         \/ h # <<>> /\ Last(h) = e.id /\ h2 = h
         \/ e.id.key \notin KeysOf(h) /\ h2 = Append(h, e.id),
         e.sym = NoSym \/ (e.sym \in Syms /\ e.sym.key = e.id.key),
         e.id.key \in Modifiers => e.sym = Sym(e.id.key, "plain"),
         e.escape => ToSet(CharModifier) \subseteq KeysOf(h2)
  PROVE  Matches(TrackDown(b, e), h2)
<1> DEFINE id == e.id
           known == b.track # <<>> /\ id # NoSym /\ Last(b.track).id = id
           t == IF known THEN b ELSE [b EXCEPT !.track = Append(b.track, NewEntry(id))]
           n == TrackDown(b, e)
           yes == TRUE
<1>1. /\ b \in BehindRecord /\ BehindOK(b) /\ h \in Seq(Syms) /\ Apart(h) /\ Len(b.track) = Len(h)
      /\ b.down = SymsOf(b.track) /\ b.down \subseteq EscapeSyms \cup SymsOf(b.track)
  BY Zenon DEF Matches, BehindOK
<1>2. /\ b.track \in Seq(EntryRecord) /\ Len(h) \in Nat /\ DOMAIN h = 1..Len(h)
      /\ DOMAIN b.track = 1..Len(h) /\ id \in Syms /\ id \in Ids /\ id # NoSym
  BY <1>1, BehindTypes, KeyFacts DEF Ids
<1>3. \A i \in 1..Len(h) : /\ b.track[i].id = h[i] /\ \A sym \in b.track[i].syms : sym.key = h[i].key
                           /\ h[i].key \in Modifiers => Sym(h[i].key, "plain") \in b.track[i].syms
  BY <1>2, Zenon DEF Matches
<1>4. n = IF e.sym = NoSym THEN t ELSE Recorded(t, e, yes)
  BY Zenon DEF TrackDown
<1>5. /\ t \in BehindRecord /\ t.track # <<>> /\ t.down = b.down /\ t.spoilt = b.spoilt
      /\ SymsOf(t.track) = SymsOf(b.track)
  <2> HIDE DEF id
  <2> QED BY <1>1, <1>2, DownEntry, Zenon
<1>6. BehindOK(t)
  <2> HIDE DEF t
  <2> QED BY <1>1, <1>5, Zenon DEF BehindOK
<1>7. /\ Near(t, h2) /\ h2 # <<>> /\ Last(h2) = id
      /\ Matches(t, h2) \/ (id.key \in Modifiers => e.sym = Sym(id.key, "plain"))
  <2>1. CASE h # <<>> /\ Last(h) = id /\ h2 = h
    <3>0. Len(h) \in 1..Len(h) /\ Last(h) = h[Len(h)]
      BY <1>1, <2>1 DEF Last
    <3>1. known
      <4>1. b.track # <<>> /\ Last(b.track) = b.track[Len(h)]
        BY <1>1, <1>2, <3>0 DEF Last
      <4>2. b.track[Len(h)].id = id
        BY <1>3, <2>1, <3>0
      <4> QED BY <1>2, <4>1, <4>2
    <3> QED BY <2>1, <3>1, MatchesIsNear, Zenon
  <2>2. CASE id.key \notin KeysOf(h) /\ h2 = Append(h, id)
    <3>1. \A i \in 1..Len(h) : h[i].key # id.key
      BY <1>2, <2>2 DEF KeysOf
    <3>2. ~known
      BY <1>1, <1>2, <1>3, <3>1 DEF Last
    <3> DEFINE x == NewEntry(id)
               a == Append(b.track, x)
    <3>3. t = [b EXCEPT !.track = a]
      BY <3>2, Zenon
    <3>4. x \in EntryRecord /\ x.id = id /\ x.syms = {}
      BY <1>2, SymsOfAppend, Zenon
    <3> HIDE DEF x
    <3>5. /\ a \in Seq(EntryRecord) /\ Len(a) = Len(h) + 1 /\ a[Len(h) + 1] = x
          /\ \A j \in 1..Len(h) : a[j] = b.track[j]
      BY <1>1, <1>2, <3>4, AppendFacts
    <3> HIDE DEF a
    <3>6. t.track = a
      <4>1. [b EXCEPT !.track = a].track = a
        BY <1>1, <3>5, PutTrack, Zenon
      <4> QED BY <3>3, <4>1, Zenon
    <3> DEFINE g == Append(h, id)
    <3> HIDE DEF t, id
    <3>7a. /\ g \in Seq(Syms) /\ Len(g) = Len(h) + 1 /\ g[Len(h) + 1] = id /\ g # <<>> /\ Last(g) = id
           /\ \A j \in 1..Len(h) : g[j] = h[j]
      <4>1. h \in Seq(Syms) /\ id \in Syms
        BY <1>1, <1>2
      <4> QED BY <4>1, AppendFacts
    <3> HIDE DEF g
    <3>7. /\ h2 \in Seq(Syms) /\ Len(h2) = Len(h) + 1 /\ h2[Len(h) + 1] = id /\ h2 # <<>> /\ Last(h2) = id
          /\ \A j \in 1..Len(h) : h2[j] = h[j]
      <4>1. h2 = g
        BY <2>2, Zenon DEF g
      <4> QED BY <3>7a, <4>1
    <3>8. DOMAIN h2 = 1..Len(h) + 1 /\ \A i \in 1..Len(h) + 1 : i # Len(h) + 1 => i \in 1..Len(h)
      BY <1>2, <3>7
    <3>9. ASSUME NEW i \in DOMAIN h2
          PROVE  /\ t.track[i].id = h2[i] /\ \A sym \in t.track[i].syms : sym.key = h2[i].key
                 /\ i # Len(h2) /\ h2[i].key \in Modifiers => Sym(h2[i].key, "plain") \in t.track[i].syms
      <4>1. CASE i = Len(h) + 1
        BY <3>4, <3>5, <3>6, <3>7, <4>1
      <4>2. CASE i # Len(h) + 1
        BY <1>3, <3>5, <3>6, <3>7, <3>8, <4>2
      <4> QED BY <4>1, <4>2
    <3>10. Apart(h2)
      BY <1>1, <1>2, <3>1, <3>7, <3>8 DEF Apart
    <3>11. Near(t, h2)
      BY <1>1, <1>5, <1>6, <3>5, <3>6, <3>7, <3>9, <3>10, Zenon DEF Near
    <3> QED BY <3>7, <3>11 DEF id
  <2> QED BY <2>1, <2>2
<1> HIDE DEF t, known
<1>8. CASE e.sym = NoSym
  <2>1. id.key \notin Modifiers \/ Matches(t, h2)
    BY <1>7, <1>8, KeyFacts DEF NoSym, Sym, NoKey
  <2>2. Matches(t, h2)
    BY <1>7, <2>1, NearMatches, Zenon
  <2> QED BY <1>4, <1>8, <2>2, Zenon
<1>9. CASE e.sym # NoSym
  <2>1. e.sym \in Syms /\ e.escape \in BOOLEAN /\ e.sym.key = id.key
    BY <1>9, EventTypesOf
  <2>2. yes \in BOOLEAN
    OBVIOUS
  <2> HIDE DEF yes
  <2>3. Records(t, Recorded(t, e, yes), e.sym, e.escape, yes)
    BY <1>5, <2>1, <2>2, RecordedRecords, Zenon
  <2> DEFINE sym == e.sym
             escape == e.escape
  <2>4. /\ Records(t, n, sym, escape, yes) /\ sym \in Syms /\ escape \in BOOLEAN /\ sym.key = Last(h2).key
        /\ escape => ToSet(CharModifier) \subseteq KeysOf(h2)
    BY <1>4, <1>7, <1>9, <2>1, <2>3
  <2>5. \/ Last(h2).key \in Modifiers => sym = Sym(Last(h2).key, "plain")
        \/ Matches(t, h2)
    BY <1>7, Zenon
  <2> HIDE DEF n, sym, escape
  <2>6. Matches(n, h2)
    BY <1>7, <2>2, <2>4, <2>5, RecordsMatches
  <2> QED BY <2>6 DEF n
<1> QED BY <1>8, <1>9

LEMMA TrackPressMatches ==
  ASSUME NEW b, NEW h, Matches(b, h), NEW e \in EventRecord, h # <<>>,
         e.sym \in Syms, e.sym.key = Last(h).key, Last(h).key \in Letters,
         e.escape => ToSet(CharModifier) \subseteq KeysOf(h)
  PROVE  Matches(TrackPress(b, e), h)
<1> DEFINE n == TrackPress(b, e)
           no == FALSE
<1>1. b \in BehindRecord /\ h \in Seq(Syms) /\ Len(b.track) = Len(h)
  BY Zenon DEF Matches, BehindOK
<1>2. b.track # <<>>
  BY <1>1, BehindTypes
<1>3. n = IF Last(b.track).ignore THEN b ELSE Recorded(b, e, no)
  BY <1>2, Zenon DEF TrackPress
<1>4. CASE Last(b.track).ignore
  BY <1>3, <1>4, Zenon
<1>5. CASE ~Last(b.track).ignore
  <2>1. e.sym \in Syms /\ e.escape \in BOOLEAN
    BY EventTypesOf, Zenon
  <2>2. no \in BOOLEAN
    OBVIOUS
  <2> HIDE DEF no
  <2>3. Records(b, Recorded(b, e, no), e.sym, e.escape, no)
    BY <1>1, <1>2, <2>1, <2>2, RecordedRecords, Zenon
  <2> DEFINE sym == e.sym
             escape == e.escape
  <2>4. /\ Records(b, n, sym, escape, no) /\ sym \in Syms /\ escape \in BOOLEAN /\ sym.key = Last(h).key
        /\ escape => ToSet(CharModifier) \subseteq KeysOf(h)
    BY <1>3, <1>5, <2>1, <2>3
  <2>5. Near(b, h)
    BY MatchesIsNear, Zenon
  <2> HIDE DEF n, sym, escape
  <2>6. Matches(n, h)
    BY <2>2, <2>4, <2>5, RecordsMatches
  <2> QED BY <2>6 DEF n
<1> QED BY <1>4, <1>5

LEMMA DistinctRemove ==
  ASSUME NEW h \in Seq(Keys), Distinct(h), NEW k \in 1..Len(h)
  PROVE  /\ Distinct(RemoveAt(h, k)) /\ RemoveAt(h, k) \in Seq(Keys)
         /\ ToSet(RemoveAt(h, k)) = ToSet(h) \ {h[k]}
<1> DEFINE r == RemoveAt(h, k)
<1>1. /\ r \in Seq(Keys) /\ Len(r) = Len(h) - 1
      /\ \A j \in 1..Len(h) - 1 : r[j] = IF j < k THEN h[j] ELSE h[j + 1]
  BY RemoveAtFacts, Zenon
<1> HIDE DEF r
<1>2. DOMAIN r = 1..Len(h) - 1 /\ DOMAIN h = 1..Len(h) /\ Len(h) \in Nat /\ k \in Nat /\ k <= Len(h)
  BY <1>1
<1>3. ASSUME NEW i \in DOMAIN r, NEW j \in DOMAIN r, r[i] = r[j] PROVE i = j
  <2> DEFINE f(x) == IF x < k THEN x ELSE x + 1
  <2>1. f(i) \in DOMAIN h /\ f(j) \in DOMAIN h
    BY <1>2
  <2>2. r[i] = h[f(i)] /\ r[j] = h[f(j)]
    BY <1>1, <1>2
  <2>3. f(i) = f(j)
    <3> HIDE DEF f
    <3> QED BY <1>3, <2>1, <2>2 DEF Distinct
  <2>4. i \in Nat /\ j \in Nat
    BY <1>2
  <2> QED BY <1>2, <2>3, <2>4
<1>4. ASSUME NEW y \in ToSet(r) PROVE y \in ToSet(h) /\ y # h[k]
  <2>1. PICK j \in 1..Len(h) - 1 : r[j] = y
    BY <1>2, <1>4 DEF ToSet
  <2> DEFINE x == IF j < k THEN j ELSE j + 1
  <2>2. x \in DOMAIN h /\ x # k /\ y = h[x]
    BY <1>1, <1>2, <2>1
  <2> HIDE DEF x
  <2> QED BY <1>2, <2>2 DEF ToSet, Distinct
<1>5. ASSUME NEW y \in ToSet(h), y # h[k] PROVE y \in ToSet(r)
  <2>1. PICK j \in 1..Len(h) : h[j] = y
    BY <1>2, <1>5 DEF ToSet
  <2>2. j # k
    BY <1>5, <2>1
  <2>3. CASE j < k
    <3>1. j \in DOMAIN r /\ r[j] = y
      BY <1>1, <1>2, <2>1, <2>3
    <3> QED BY <3>1 DEF ToSet
  <2>4. CASE j > k
    <3>1. j - 1 \in DOMAIN r /\ r[j - 1] = y
      BY <1>1, <1>2, <2>1, <2>4
    <3> QED BY <3>1 DEF ToSet
  <2> QED BY <1>2, <2>2, <2>3, <2>4
<1> QED BY <1>1, <1>3, <1>4, <1>5 DEF Distinct, r

LEMMA ApartRemove ==
  ASSUME NEW h \in Seq(Syms), Apart(h), NEW k \in 1..Len(h)
  PROVE  /\ Apart(RemoveAt(h, k)) /\ RemoveAt(h, k) \in Seq(Syms)
<1> DEFINE r == RemoveAt(h, k)
<1>1. /\ r \in Seq(Syms) /\ Len(r) = Len(h) - 1
      /\ \A j \in 1..Len(h) - 1 : r[j] = IF j < k THEN h[j] ELSE h[j + 1]
  BY RemoveAtFacts, Zenon
<1> HIDE DEF r
<1>2. DOMAIN r = 1..Len(h) - 1 /\ DOMAIN h = 1..Len(h) /\ Len(h) \in Nat /\ k \in Nat /\ k <= Len(h)
  BY <1>1
<1>3. ASSUME NEW i \in DOMAIN r, NEW j \in DOMAIN r, r[i].key = r[j].key PROVE i = j
  <2> DEFINE f(x) == IF x < k THEN x ELSE x + 1
  <2>1. f(i) \in DOMAIN h /\ f(j) \in DOMAIN h
    BY <1>2
  <2>2. r[i] = h[f(i)] /\ r[j] = h[f(j)]
    BY <1>1, <1>2
  <2>3. f(i) = f(j)
    <3> HIDE DEF f
    <3> QED BY <1>3, <2>1, <2>2 DEF Apart
  <2>4. i \in Nat /\ j \in Nat
    BY <1>2
  <2> QED BY <1>2, <2>3, <2>4
<1> QED BY <1>1, <1>3 DEF Apart, r

LEMMA TrackUpMatches ==
  ASSUME NEW b, NEW h, Matches(b, h), NEW e \in EventRecord, NEW k \in DOMAIN h, h[k] = e.id
  PROVE  Matches(TrackUp(b, e), RemoveAt(h, k))
<1> DEFINE n == TrackUp(b, e)
           h2 == RemoveAt(h, k)
           L == Len(h)
<1>0. /\ BehindOK(b) /\ b \in BehindRecord /\ h \in Seq(Syms) /\ Apart(h) /\ Len(b.track) = L
      /\ b.down = SymsOf(b.track)
  BY Zenon DEF Matches, BehindOK
<1>1. /\ b.track \in Seq(EntryRecord) /\ L \in Nat /\ DOMAIN h = 1..L /\ DOMAIN b.track = 1..L
      /\ k \in 1..L /\ k \in Nat /\ b.track # <<>>
  BY <1>0, BehindTypes
<1>2. \A i \in 1..L : /\ b.track[i].id = h[i] /\ \A sym \in b.track[i].syms : sym.key = h[i].key
                      /\ h[i].key \in Modifiers => Sym(h[i].key, "plain") \in b.track[i].syms
  BY <1>1, Zenon DEF Matches
<1>3. Matched(b.track, e) = k
  <2> DEFINE m == Matched(b.track, e)
  <2>1. m \in 1..L /\ ((\E i \in 1..L : b.track[i].id = e.id) => b.track[m].id = e.id)
    BY <1>0, <1>1, MatchedEntry
  <2> HIDE DEF m
  <2>2. h[m] = h[k]
    BY <1>1, <1>2, <2>1
  <2>3. m = k
    BY <1>0, <1>1, <2>1, <2>2 DEF Apart
  <2> QED BY <2>3 DEF m
<1> DEFINE r == RemoveAt(b.track, k)
<1>4. BehindOK(n) /\ n.track = r /\ n.down = b.down \ b.track[k].syms
  <2>1. /\ BehindOK(n) /\ n.track = RemoveAt(b.track, Matched(b.track, e))
        /\ n.down = b.down \ b.track[Matched(b.track, e)].syms
    BY <1>0, <1>1, TrackUpKeeps, Zenon
  <2> HIDE DEF n
  <2> QED BY <1>3, <2>1
<1>5. /\ r \in Seq(EntryRecord) /\ Len(r) = L - 1
      /\ \A j \in 1..L - 1 : r[j] = IF j < k THEN b.track[j] ELSE b.track[j + 1]
  <2> DEFINE t == b.track
  <2>1. t \in Seq(EntryRecord) /\ Len(t) = L /\ k \in 1..Len(t)
    BY <1>0, <1>1
  <2> HIDE DEF t, L
  <2>2. /\ RemoveAt(t, k) \in Seq(EntryRecord) /\ Len(RemoveAt(t, k)) = Len(t) - 1
        /\ \A j \in 1..Len(t) - 1 : RemoveAt(t, k)[j] = IF j < k THEN t[j] ELSE t[j + 1]
    BY <2>1, RemoveAtFacts, Zenon
  <2> QED BY <2>1, <2>2, Zenon DEF t
<1>6. SymsOf(b.track) = SymsOf(r) \cup b.track[k].syms
  BY <1>0, <1>1, SymsOfRemove
<1>7. /\ h2 \in Seq(Syms) /\ Len(h2) = L - 1
      /\ \A j \in 1..L - 1 : h2[j] = IF j < k THEN h[j] ELSE h[j + 1]
  BY <1>0, <1>1, RemoveAtFacts
<1>8. Apart(h2)
  BY <1>0, <1>1, ApartRemove
<1> HIDE DEF n, r, h2, L
<1>9. DOMAIN h2 = 1..L - 1 /\ DOMAIN r = 1..L - 1
  BY <1>1, <1>5, <1>7
<1>10. \A j \in 1..L - 1 : \E i \in 1..L : i # k /\ r[j] = b.track[i] /\ h2[j] = h[i]
  <2> TAKE j \in 1..L - 1
  <2>1. CASE j < k
    <3>1. j \in 1..L /\ j # k /\ r[j] = b.track[j] /\ h2[j] = h[j]
      BY <1>1, <1>5, <1>7, <2>1
    <3> QED BY <3>1
  <2>2. CASE ~(j < k)
    <3>1. j + 1 \in 1..L /\ j + 1 # k /\ r[j] = b.track[j + 1] /\ h2[j] = h[j + 1]
      BY <1>1, <1>5, <1>7, <2>2
    <3> QED BY <3>1
  <2> QED BY <2>1, <2>2
<1>11. \A i \in DOMAIN h2 :
          /\ n.track[i].id = h2[i] /\ \A sym \in n.track[i].syms : sym.key = h2[i].key
          /\ h2[i].key \in Modifiers => Sym(h2[i].key, "plain") \in n.track[i].syms
  <2> TAKE j \in DOMAIN h2
  <2>1. PICK i \in 1..L : i # k /\ r[j] = b.track[i] /\ h2[j] = h[i]
    BY <1>9, <1>10
  <2> QED BY <1>2, <1>4, <2>1, Zenon
<1>12. ASSUME NEW y \in SymsOf(r) PROVE y \notin b.track[k].syms
  <2>1. PICK j \in 1..L - 1 : y \in r[j].syms
    BY <1>9, <1>12 DEF SymsOf
  <2>2. PICK i \in 1..L : i # k /\ r[j] = b.track[i]
    BY <1>10
  <2>3. y.key = h[i].key /\ h[i].key # h[k].key
    <3>1. y \in b.track[i].syms
      BY <2>1, <2>2
    <3> QED BY <1>0, <1>1, <1>2, <2>2, <3>1, Zenon DEF Apart
  <2> QED BY <1>1, <1>2, <2>3, Zenon
<1>13. n.down = SymsOf(n.track)
  BY <1>0, <1>4, <1>6, <1>12
<1>14. Len(n.track) = Len(h2)
  BY <1>4, <1>5, <1>7
<1> QED BY <1>4, <1>7, <1>8, <1>11, <1>13, <1>14, Zenon DEF Matches, n, h2

LEMMA ReleaseAllMatches ==
  ASSUME NEW b, NEW h, Matches(b, h)
  PROVE  Matches(ReleaseAll(b), <<>>)
<1> DEFINE n == ReleaseAll(b)
           none == <<>>
<1>0. BehindOK(b) /\ b.down = SymsOf(b.track)
  BY Zenon DEF Matches
<1>1. BehindOK(n) /\ n.track = none /\ n.down = b.down \ SymsOf(b.track)
  BY <1>0, ReleaseAllKeeps, Zenon
<1>2. none \in Seq(Syms) /\ DOMAIN none = {} /\ Apart(none) /\ SymsOf(none) = {}
  BY DEF Apart, SymsOf
<1>3. n.down = SymsOf(n.track)
  BY <1>0, <1>1, <1>2
<1> HIDE DEF n, none
<1>4. Matches(n, none)
  BY <1>1, <1>2, <1>3, Zenon DEF Matches
<1> QED BY <1>4, Zenon DEF n, none

LEMMA TrackedMatches ==
  ASSUME NEW b, NEW h, Matches(b, h), NEW e \in EventRecord, NEW h2, Leads(h, e, h2),
         e.type # "stall"
  PROVE  Matches(Tracked(b, e), h2)
<1>1. CASE e.type = "keydown"
  <2>1. Tracked(b, e) = TrackDown(b, e)
    BY <1>1 DEF Tracked
  <2>2. /\ h2 \in Seq(Syms) /\ e.id \in Syms
        /\ \/ h # <<>> /\ Last(h) = e.id /\ h2 = h
           \/ e.id.key \notin KeysOf(h) /\ h2 = Append(h, e.id)
        /\ e.sym = NoSym \/ (e.sym \in Syms /\ e.sym.key = e.id.key)
        /\ e.id.key \in Modifiers => e.sym = Sym(e.id.key, "plain")
        /\ e.escape => ToSet(CharModifier) \subseteq KeysOf(h2)
    BY <1>1 DEF Leads
  <2>3. Matches(TrackDown(b, e), h2)
    BY <2>2, TrackDownMatches
  <2> QED BY <2>1, <2>3
<1>2. CASE e.type = "keypress"
  <2>1. Tracked(b, e) = TrackPress(b, e)
    BY <1>2 DEF Tracked
  <2>2. /\ h # <<>> /\ h2 = h /\ e.sym \in Syms
        /\ e.sym.key = Last(h).key /\ Last(h).key \in Letters
        /\ e.escape => ToSet(CharModifier) \subseteq KeysOf(h)
    BY <1>2 DEF Leads
  <2> QED BY <2>1, <2>2, TrackPressMatches
<1>3. CASE e.type = "keyup"
  <2>1. Tracked(b, e) = TrackUp(b, e)
    BY <1>3 DEF Tracked
  <2>2. PICK i \in DOMAIN h : h[i] = e.id /\ h2 = RemoveAt(h, i)
    BY <1>3 DEF Leads
  <2> QED BY <2>1, <2>2, TrackUpMatches
<1>4. CASE e.type = "releaseall"
  <2>1. Tracked(b, e) = ReleaseAll(b) /\ h2 = <<>>
    BY <1>4 DEF Tracked, Leads
  <2> QED BY <2>1, ReleaseAllMatches
<1> QED BY <1>1, <1>2, <1>3, <1>4 DEF Leads

LEMMA MergedLeads ==
  ASSUME NEW h \in Seq(Syms), NEW e \in EventRecord, NEW f \in EventRecord, NEW h2, NEW h3,
         e.type = "keydown", ~e.escape, f.type = "keypress", Leads(h, e, h2), Leads(h2, f, h3)
  PROVE  Leads(h, Merged(e, f), h2)
<1> DEFINE m == Merged(e, f)
<1>1. /\ m.type = e.type /\ m.id = e.id /\ m.sym = f.sym
      /\ m.escape = (e.escape \/ (f.escape /\ e.sym # f.sym))
  BY MergedFields, Zenon
<1> HIDE DEF m
<1>2. /\ h2 \in Seq(Syms) /\ e.id \in Syms
      /\ \/ h # <<>> /\ Last(h) = e.id /\ h2 = h
         \/ e.id.key \notin KeysOf(h) /\ h2 = Append(h, e.id)
  BY DEF Leads
<1>3. /\ h2 # <<>> /\ h3 = h2 /\ f.sym \in Syms
      /\ f.sym.key = Last(h2).key /\ Last(h2).key \in Letters
      /\ f.escape => ToSet(CharModifier) \subseteq KeysOf(h2)
  BY DEF Leads
<1>4. Last(h2) = e.id
  <2>1. CASE h2 = Append(h, e.id)
    <3>1. Last(Append(h, e.id)) = e.id
      BY <1>2, AppendFacts
    <3> QED BY <2>1, <3>1
  <2> QED BY <1>2, <2>1
<1>5. e.id.key \notin Modifiers
  BY <1>3, <1>4, KeyFacts
<1>6. m.escape => ToSet(CharModifier) \subseteq KeysOf(h2)
  BY <1>1, <1>3
<1> QED BY <1>1, <1>2, <1>3, <1>4, <1>5, <1>6 DEF Leads, m

LEMMA HandledMatches ==
  ASSUME NEW q, QueueOK(q), NEW hs, Chain(q, hs), NEW i \in DOMAIN q, q[i].type # "stall",
         NEW b, Matches(b, hs[i - 1])
  PROVE  Matches(Handled(q, i, b), hs[i])
<1>0. /\ q \in Seq(EventRecord) /\ Len(q) \in Nat /\ i \in 1..Len(q) /\ DOMAIN q = 1..Len(q)
      /\ q[i] \in EventRecord /\ hs[i - 1] \in Seq(Syms) /\ hs[i] \in Seq(Syms)
  <2>1. /\ q \in Seq(EventRecord) /\ Len(q) \in Nat /\ i \in 1..Len(q) /\ DOMAIN q = 1..Len(q)
    BY DEF QueueOK
  <2>2. hs \in [0..Len(q) -> Seq(Syms)]
    BY DEF Chain
  <2> QED BY <2>1, <2>2
<1>1. Leads(hs[i - 1], q[i], hs[i])
  BY DEF Chain
<1>2. CASE q[i].type = "keypress"
  <2>1. i > 1 /\ q[i - 1].type = "keydown"
    BY <1>2 DEF QueueOK
  <2>2. Handled(q, i, b) = b
    BY <1>2, <2>1 DEF Handled
  <2>3. hs[i] = hs[i - 1]
    BY <1>1, <1>2 DEF Leads
  <2> QED BY <2>2, <2>3
<1>3. CASE q[i].type = "keydown" /\ i < Len(q) /\ q[i + 1].type = "keypress"
  <2> DEFINE a == q[i]
             c == q[i + 1]
             g == hs[i - 1]
             h == hs[i]
             h3 == hs[i + 1]
             e == Merged(a, c)
  <2>1. Handled(q, i, b) = Tracked(b, e)
    BY <1>3 DEF Handled
  <2>2. i + 1 \in DOMAIN q /\ (i + 1) - 1 = i
    BY <1>0, <1>3
  <2>3. Leads(h, c, h3)
    BY <2>2 DEF Chain
  <2>4. /\ a \in EventRecord /\ c \in EventRecord /\ a.type = "keydown" /\ c.type = "keypress" /\ ~a.escape
        /\ g \in Seq(Syms) /\ Leads(g, a, h) /\ Matches(b, g)
    BY <1>0, <1>1, <1>3, <2>2 DEF QueueOK
  <2> HIDE DEF a, c, g, h, h3
  <2>5. Leads(g, e, h)
    BY <2>3, <2>4, MergedLeads
  <2>6. e \in EventRecord /\ e.type = a.type
    BY <2>4, MergedFields, Zenon
  <2> HIDE DEF e
  <2>7. Matches(Tracked(b, e), h)
    BY <2>4, <2>5, <2>6, TrackedMatches
  <2> QED BY <2>1, <2>7 DEF h
<1>4. CASE ~(q[i].type = "keypress") /\ ~(q[i].type = "keydown" /\ i < Len(q) /\ q[i + 1].type = "keypress")
  <2> DEFINE e == q[i]
             g == hs[i - 1]
             h == hs[i]
  <2>1. Handled(q, i, b) = Tracked(b, e)
    BY <1>4 DEF Handled
  <2>2. e \in EventRecord /\ e.type # "stall" /\ Leads(g, e, h) /\ Matches(b, g)
    BY <1>0, <1>1
  <2> HIDE DEF e, g, h
  <2>3. Matches(Tracked(b, e), h)
    BY <2>2, TrackedMatches
  <2> QED BY <2>1, <2>3 DEF h
<1> QED BY <1>2, <1>3, <1>4

LEMMA PassedMatches ==
  ASSUME NEW q, QueueOK(q), NEW hs, Chain(q, hs), NEW b, Matches(b, hs[0])
  PROVE  \E hs2 : /\ Chain(Passed(q, b).queue, hs2) /\ Matches(Passed(q, b).s, hs2[0])
                  /\ hs2[Len(Passed(q, b).queue)] = hs[Len(q)]
<1> DEFINE n == NextStall(q)
           r == SubSeq(q, n + 1, Len(q))
           p == Passed(q, b)
           P == [i \in 0..Len(q) |-> {x \in BehindRecord : Matches(x, hs[i])}]
<1>0. /\ q \in Seq(EventRecord) /\ Len(q) \in Nat /\ DOMAIN q = 1..Len(q)
      /\ hs \in [0..Len(q) -> Seq(Syms)] /\ \A i \in 1..Len(q) : Leads(hs[i - 1], q[i], hs[i])
  <2>1. q \in Seq(EventRecord)
    BY DEF QueueOK
  <2>2. Len(q) \in Nat /\ DOMAIN q = 1..Len(q)
    BY <2>1
  <2>3. hs \in [0..Len(q) -> Seq(Syms)] /\ \A i \in DOMAIN q : Leads(hs[i - 1], q[i], hs[i])
    BY Zenon DEF Chain
  <2> QED BY <2>1, <2>2, <2>3
<1>1. /\ n \in 1..Len(q) + 1 /\ \A i \in 1..n - 1 : q[i].type # "stall"
      /\ Stalls(q) = {} <=> n = Len(q) + 1
      /\ Stalls(q) # {} => n \in 1..Len(q) /\ q[n].type = "stall"
  BY <1>0, StallFacts
<1>2. b \in P[0]
  BY <1>0 DEF Matches, BehindOK
<1>3. ASSUME NEW i \in 1..n - 1, NEW x \in P[i - 1] PROVE Handled(q, i, x) \in P[i]
  <2>1. i \in DOMAIN q /\ i \in 0..Len(q) /\ i - 1 \in 0..Len(q) /\ q[i].type # "stall"
    BY <1>0, <1>1
  <2>2. Matches(x, hs[i - 1])
    BY <2>1, <1>3
  <2> DEFINE y == Handled(q, i, x)
  <2>3. Matches(y, hs[i])
    BY <2>1, <2>2, HandledMatches, Zenon
  <2> HIDE DEF y
  <2>4. y \in BehindRecord
    BY <2>3, Zenon DEF Matches, BehindOK
  <2>5. y \in P[i]
    BY <2>1, <2>3, <2>4
  <2> QED BY <2>5 DEF y
<1> HIDE DEF P
<1>4. p.s \in P[n - 1] /\ p.queue = r
  BY <1>0, <1>2, <1>3, PassedReaches, Zenon
<1>5. n - 1 \in 0..Len(q)
  BY <1>0, <1>1
<1>6. Matches(p.s, hs[n - 1])
  BY <1>4, <1>5, Zenon DEF P
<1>7. /\ Stalls(q) = {} => r = <<>>
      /\ Stalls(q) # {} => Len(r) = Len(q) - n /\ \A j \in DOMAIN r : r[j] = q[n + j]
  BY RestOfQueue, Zenon
<1>7a. r \in Seq(EventRecord)
  BY RestOfQueue, Zenon DEF QueueOK
<1> DEFINE k == IF Stalls(q) = {} THEN Len(q) ELSE n
           hs2 == [j \in 0..Len(r) |-> hs[k + j]]
<1>8. /\ k \in 0..Len(q) /\ Len(r) = Len(q) - k /\ Len(r) \in Nat /\ DOMAIN r = 1..Len(r)
      /\ \A j \in 1..Len(r) : k + j \in 1..Len(q) /\ r[j] = q[k + j]
      /\ hs[k] = hs[n - 1]
  <2>1. CASE Stalls(q) = {}
    <3>1. n - 1 = Len(q) /\ k = Len(q) /\ r = <<>>
      BY <1>0, <1>1, <1>7, <2>1
    <3> HIDE DEF r, k, n
    <3>2. Len(r) = 0 /\ DOMAIN r = 1..Len(r)
      BY <3>1
    <3> QED BY <1>0, <3>1, <3>2
  <2>2. CASE Stalls(q) # {}
    <3>1. k = n /\ n \in 1..Len(q) /\ q[n].type = "stall" /\ Len(r) = Len(q) - n
          /\ \A j \in DOMAIN r : r[j] = q[n + j]
      BY <1>1, <1>7, <2>2
    <3>2. hs[n] = hs[n - 1]
      BY <1>0, <3>1 DEF Leads
    <3> HIDE DEF r, k, n
    <3>3. DOMAIN r = 1..Len(r) /\ Len(r) \in Nat
      BY <1>7a
    <3>4. \A j \in 1..Len(r) : n + j \in 1..Len(q)
      BY <1>0, <3>1, <3>3
    <3> QED BY <1>0, <3>1, <3>2, <3>3, <3>4
  <2> QED BY <2>1, <2>2
<1> HIDE DEF r, k, n, p
<1>9. \A j \in 0..Len(r) : hs2[j] = hs[k + j] /\ k + j \in 0..Len(q)
  BY <1>0, <1>8
<1>10. hs2 \in [0..Len(r) -> Seq(Syms)]
  BY <1>0, <1>9
<1>11. hs2[0] = hs[k] /\ hs2[Len(r)] = hs[Len(q)]
  BY <1>0, <1>8, <1>9
<1>12. \A j \in DOMAIN r : Leads(hs2[j - 1], r[j], hs2[j])
  <2> TAKE j \in DOMAIN r
  <2>1. j \in 1..Len(r) /\ k + j \in 1..Len(q) /\ r[j] = q[k + j] /\ (k + j) - 1 = k + (j - 1)
        /\ j \in 0..Len(r) /\ j - 1 \in 0..Len(r)
    BY <1>0, <1>8
  <2>2. hs2[j] = hs[k + j] /\ hs2[j - 1] = hs[(k + j) - 1]
    BY <1>9, <2>1
  <2>3. Leads(hs[(k + j) - 1], q[k + j], hs[k + j])
    BY <1>0, <2>1
  <2> QED BY <2>1, <2>2, <2>3
<1> HIDE DEF hs2
<1>13. Chain(r, hs2)
  BY <1>10, <1>12 DEF Chain
<1>14. Chain(p.queue, hs2) /\ Matches(p.s, hs2[0]) /\ hs2[Len(p.queue)] = hs[Len(q)]
  BY <1>4, <1>6, <1>8, <1>11, <1>13
<1> QED BY <1>14, Zenon DEF p

\* events without a keypress
Made(q) ==
    /\ q \in Seq(EventRecord)
    /\ \A i \in DOMAIN q : /\ q[i].type # "keypress"
                           /\ q[i].type = "keydown" => ~q[i].escape /\ q[i].sym.level # "third"

LEMMA MadeOK == ASSUME NEW q, Made(q) PROVE QueueOK(q) /\ Lifts(q)
BY Zenon DEF Made, QueueOK, Lifts

LEMMA MadeNone == Made(<<>>)
BY DEF Made

LEMMA MadeOne ==
  ASSUME NEW e \in EventRecord, e.type # "keypress",
         e.type = "keydown" => ~e.escape /\ e.sym.level # "third"
  PROVE  Made(<<e>>)
<1>1. <<e>> \in Seq(EventRecord) /\ DOMAIN <<e>> = {1} /\ <<e>>[1] = e
  OBVIOUS
<1> QED BY <1>1 DEF Made

LEMMA MadeBoth ==
  ASSUME NEW q, NEW r, Made(q), Made(r)
  PROVE  Made(q \o r)
<1> DEFINE w == q \o r
<1>1. q \in Seq(EventRecord) /\ r \in Seq(EventRecord)
  BY DEF Made
<1>2. /\ w \in Seq(EventRecord) /\ Len(w) = Len(q) + Len(r)
      /\ \A j \in 1..Len(q) : w[j] = q[j]
      /\ \A j \in 1..Len(r) : w[Len(q) + j] = r[j]
  BY <1>1, ConcatFacts
<1> HIDE DEF w
<1>3. ASSUME NEW i \in DOMAIN w
      PROVE  (\E j \in DOMAIN q : w[i] = q[j]) \/ (\E j \in DOMAIN r : w[i] = r[j])
  <2>1. /\ i \in 1..Len(q) + Len(r) /\ Len(q) \in Nat /\ Len(r) \in Nat /\ DOMAIN q = 1..Len(q)
        /\ DOMAIN r = 1..Len(r)
    BY <1>1, <1>2
  <2>2. i \in 1..Len(q) \/ (i - Len(q) \in 1..Len(r) /\ Len(q) + (i - Len(q)) = i)
    BY <2>1
  <2> QED BY <1>2, <2>1, <2>2
<1>4. \A i \in DOMAIN w : /\ w[i].type # "keypress"
                          /\ w[i].type = "keydown" => ~w[i].escape /\ w[i].sym.level # "third"
  BY <1>3, Zenon DEF Made
<1> QED BY <1>2, <1>4, Zenon DEF Made, w

LEMMA ConcatQueue ==
  ASSUME NEW q, QueueOK(q), NEW r, Made(r)
  PROVE  /\ QueueOK(q \o r) /\ (Lifts(q) => Lifts(q \o r))
         /\ r # <<>> => q \o r # <<>> /\ Last(q \o r) = Last(r)
<1> DEFINE w == q \o r
<1>1. q \in Seq(EventRecord) /\ r \in Seq(EventRecord)
  BY DEF Made, QueueOK
<1>2. /\ w \in Seq(EventRecord) /\ Len(w) = Len(q) + Len(r)
      /\ \A j \in 1..Len(q) : w[j] = q[j]
      /\ \A j \in 1..Len(r) : w[Len(q) + j] = r[j]
  BY <1>1, ConcatFacts
<1> HIDE DEF w
<1>3. /\ DOMAIN w = 1..Len(q) + Len(r) /\ Len(q) \in Nat /\ Len(r) \in Nat /\ DOMAIN q = 1..Len(q)
      /\ DOMAIN r = 1..Len(r)
  BY <1>1, <1>2
<1>4. \A i \in DOMAIN w : i \in DOMAIN q \/ \E j \in DOMAIN r : w[i] = r[j]
  <2> TAKE i \in DOMAIN w
  <2>1. i \in 1..Len(q) \/ (i - Len(q) \in 1..Len(r) /\ Len(q) + (i - Len(q)) = i)
    BY <1>3
  <2> QED BY <1>2, <1>3, <2>1
<1>5. ASSUME NEW i \in DOMAIN w
      PROVE  /\ w[i].type = "keydown" => ~w[i].escape /\ w[i].sym.level # "third"
             /\ w[i].type = "keypress" =>
                   /\ w[i].sym \in Syms /\ i > 1 /\ w[i - 1].type = "keydown"
                   /\ w[i].escape /\ w[i].sym.level # "third" => w[i - 1].sym = w[i].sym
  <2>1. CASE i \in DOMAIN q
    <3>1. w[i] = q[i]
      BY <1>2, <1>3, <2>1
    <3>2. i > 1 => w[i - 1] = q[i - 1]
      BY <1>2, <1>3, <2>1
    <3> QED BY <2>1, <3>1, <3>2 DEF QueueOK
  <2>2. CASE \E j \in DOMAIN r : w[i] = r[j]
    BY <2>2, Zenon DEF Made
  <2> QED BY <1>4, <2>1, <2>2, Zenon
<1>6. QueueOK(w)
  BY <1>2, <1>5, Zenon DEF QueueOK
<1>7. Lifts(q) => Lifts(w)
  <2> SUFFICES ASSUME Lifts(q), NEW i \in DOMAIN w, w[i].type = "keypress", w[i].sym.level = "third"
               PROVE  w[i].escape
    BY DEF Lifts
  <2>1. CASE i \in DOMAIN q
    BY <1>2, <1>3, <2>1 DEF Lifts
  <2>2. CASE \E j \in DOMAIN r : w[i] = r[j]
    BY <2>2, Zenon DEF Made
  <2> QED BY <1>4, <2>1, <2>2, Zenon
<1>8. r # <<>> => w # <<>> /\ Last(w) = Last(r)
  <2> SUFFICES ASSUME r # <<>> PROVE w # <<>> /\ Last(w) = Last(r)
    OBVIOUS
  <2>1. Len(r) \in 1..Len(r) /\ Len(w) \in DOMAIN w
    BY <1>1, <1>2, <1>3
  <2>2. w[Len(w)] = r[Len(r)]
    BY <1>2, <2>1, Zenon
  <2> QED BY <2>1, <2>2 DEF Last
<1> QED BY <1>6, <1>7, <1>8 DEF w

LEMMA ConcatChain ==
  ASSUME NEW q \in Seq(EventRecord), NEW r \in Seq(EventRecord), NEW hs, Chain(q, hs), NEW gs, Chain(r, gs),
         hs[Len(q)] = gs[0]
  PROVE  \E w : Chain(q \o r, w) /\ w[0] = hs[0] /\ w[Len(q \o r)] = gs[Len(r)]
<1> DEFINE Q == Len(q)
           R == Len(r)
           v == q \o r
           w == [i \in 0..Q + R |-> IF i <= Q THEN hs[i] ELSE gs[i - Q]]
<1>1. Q \in Nat /\ R \in Nat /\ DOMAIN q = 1..Q /\ DOMAIN r = 1..R
  OBVIOUS
<1>2. /\ v \in Seq(EventRecord) /\ Len(v) = Q + R
      /\ \A j \in 1..Q : v[j] = q[j]
      /\ \A j \in 1..R : v[Q + j] = r[j]
  BY ConcatFacts
<1>3. /\ hs \in [0..Q -> Seq(Syms)] /\ \A i \in 1..Q : Leads(hs[i - 1], q[i], hs[i])
      /\ gs \in [0..R -> Seq(Syms)] /\ \A i \in 1..R : Leads(gs[i - 1], r[i], gs[i])
  BY <1>1, Zenon DEF Chain
<1>4. hs[Q] = gs[0]
  OBVIOUS
<1> HIDE DEF Q, R, v
<1>5. DOMAIN v = 1..Q + R
  BY <1>2
<1>6. /\ \A i \in 0..Q : w[i] = hs[i] 
      /\ \A j \in 0..R : w[Q + j] = gs[j]
  <2>1. \A i \in 0..Q : w[i] = hs[i]
    BY <1>1
  <2>2. ASSUME NEW j \in 0..R PROVE w[Q + j] = gs[j]
    <3>1. CASE j = 0
      BY <1>1, <1>4, <3>1
    <3>2. CASE j # 0
      <4>1. Q + j \in 0..Q + R /\ ~(Q + j <= Q) /\ (Q + j) - Q = j
        BY <1>1, <3>2
      <4> QED BY <4>1
    <3> QED BY <3>1, <3>2
  <2> QED BY <2>1, <2>2
<1>7. w \in [0..Q + R -> Seq(Syms)]
  <2>1. ASSUME NEW i \in 0..Q + R PROVE w[i] \in Seq(Syms)
    <3>1. CASE i <= Q
      <4>1. i \in 0..Q
        BY <1>1, <3>1
      <4> QED BY <1>3, <1>6, <4>1
    <3>2. CASE ~(i <= Q)
      <4>1. i - Q \in 0..R /\ Q + (i - Q) = i
        BY <1>1, <3>2
      <4>2. w[i] = gs[i - Q]
        BY <1>6, <4>1
      <4> QED BY <1>3, <4>1, <4>2
    <3> QED BY <3>1, <3>2
  <2> QED BY <2>1
<1> HIDE DEF w
<1>8. ASSUME NEW i \in 1..Q + R PROVE Leads(w[i - 1], v[i], w[i])
  <2>1. CASE i <= Q
    <3>1. i \in 1..Q /\ i \in 0..Q /\ i - 1 \in 0..Q
      BY <1>1, <2>1
    <3>2. w[i] = hs[i] /\ w[i - 1] = hs[i - 1] /\ v[i] = q[i]
      BY <1>2, <1>6, <3>1
    <3> QED BY <1>3, <3>1, <3>2
  <2>2. CASE ~(i <= Q)
    <3> DEFINE j == i - Q
    <3>1. j \in 1..R /\ j \in 0..R /\ j - 1 \in 0..R /\ i = Q + j /\ i - 1 = Q + (j - 1)
      BY <1>1, <2>2
    <3> HIDE DEF j
    <3>2. w[i] = gs[j] /\ w[i - 1] = gs[j - 1] /\ v[i] = r[j]
      BY <1>2, <1>6, <3>1
    <3> QED BY <1>3, <3>1, <3>2
  <2> QED BY <2>1, <2>2
<1>9. Chain(v, w)
  <2>1. 0..Len(v) = 0..Q + R
    BY <1>2
  <2> QED BY <1>5, <1>7, <1>8, <2>1, Zenon DEF Chain
<1>10. w[0] = hs[0] /\ w[Len(v)] = gs[R]
  <2>1. 0 \in 0..Q /\ R \in 0..R
    BY <1>1
  <2> QED BY <1>2, <1>6, <2>1, Zenon
<1> QED BY <1>9, <1>10, Zenon DEF v, R

LEMMA PassedOne ==
  ASSUME NEW e \in EventRecord, e.type # "stall", NEW b
  PROVE  /\ Passed(<<e>>, b).s = Tracked(b, e)
         /\ Passed(<<e>>, b).queue = <<>> /\ ~Passed(<<e>>, b).timer
<1> DEFINE q == <<e>>
           P == [i \in {0, 1} |-> IF i = 0 THEN {b} ELSE {Tracked(b, e)}]
<1>1. q \in Seq(EventRecord) /\ Len(q) = 1 /\ DOMAIN q = {1} /\ q[1] = e
  OBVIOUS
<1> HIDE DEF q
<1>2. Stalls(q) = {}
  BY <1>1 DEF Stalls
<1>3. NextStall(q) = 2
  <2>1. NextStall(q) = Len(q) + 1
    BY <1>1, <1>2, StallFacts
  <2> QED BY <1>1, <2>1
<1>4. ASSUME NEW x PROVE Handled(q, 1, x) = Tracked(x, e)
  <2>1. ~(1 > 1) /\ ~(1 < Len(q))
    BY <1>1
  <2> QED BY <1>1, <2>1 DEF Handled
<1>5. b \in P[0] /\ P[1] = {Tracked(b, e)} /\ \A x \in P[0] : x = b
  OBVIOUS
<1> HIDE DEF P
<1>6. \A i \in 1..NextStall(q) - 1 : \A x \in P[i - 1] : Handled(q, i, x) \in P[i]
  <2>1. \A i \in 1..NextStall(q) - 1 : i = 1 /\ i - 1 = 0
    BY <1>3
  <2> QED BY <1>4, <1>5, <2>1
<1> DEFINE p == Passed(q, b)
<1>7. /\ p.s \in P[NextStall(q) - 1]
      /\ p.queue = SubSeq(q, NextStall(q) + 1, Len(q))
      /\ p.timer = (Stalls(q) # {})
  BY <1>1, <1>5, <1>6, PassedReaches, Zenon
<1> HIDE DEF p
<1>8. p.s = Tracked(b, e)
  <2>1. NextStall(q) - 1 = 1
    BY <1>3
  <2> QED BY <1>5, <1>7, <2>1
<1>9. p.queue = <<>>
  <2>1. NextStall(q) + 1 \in Nat /\ NextStall(q) + 1 > Len(q)
    BY <1>1, <1>3
  <2> QED BY <1>1, <1>7, <2>1, EmptySub, Zenon
<1>10. ~p.timer
  BY <1>2, <1>7, Zenon
<1> QED BY <1>8, <1>9, <1>10, Zenon DEF p, q

LEMMA BecomesRecord ==
  ASSUME NEW p, Becomes(p), p.s \in BehindRecord
  PROVE  Behind' = p.s /\ queue' = p.queue /\ timer' = p.timer
<1>1. /\ queue' = p.queue /\ timer' = p.timer
      /\ track' = p.s.track /\ down' = p.s.down /\ spoilt' = p.s.spoilt
  BY Zenon DEF Becomes
<1>2. Behind' = [track |-> track', down |-> down', spoilt |-> spoilt']
  BY Zenon DEF Behind
<1> DEFINE b == p.s
<1>3. b = [track |-> b.track, down |-> b.down, spoilt |-> b.spoilt]
  <2> HIDE DEF b
  <2> QED BY DEF BehindRecord, b
<1> HIDE DEF b
<1>4. track' = b.track /\ down' = b.down /\ spoilt' = b.spoilt
  BY <1>1, Zenon DEF b
<1>5. Behind' = b
  BY <1>2, <1>3, <1>4, Zenon
<1> QED BY <1>1, <1>5, Zenon DEF b

LEMMA BehindFields ==
  Behind.track = track /\ Behind.down = down /\ Behind.spoilt = spoilt
BY DEF Behind

LEMMA BehindPrimed ==
  Behind'.track = track' /\ Behind'.down = down' /\ Behind'.spoilt = spoilt'
BY DEF Behind

\* events that wait are put behind those that do; others are passed on
LEMMA OfferedCases ==
  ASSUME NEW q, Offered(q), BehindOK(Behind), timer \in BOOLEAN,
         ~timer => Passed(q, Behind).s \in BehindRecord
  PROVE  /\ Len(queue) + Len(q) <= MaxQueue
         /\ timer => queue' = queue \o q /\ timer' /\ Behind' = Behind
         /\ ~timer => /\ queue' = Passed(q, Behind).queue /\ timer' = Passed(q, Behind).timer
                      /\ Behind' = Passed(q, Behind).s
<1> DEFINE yes == TRUE
           w == queue \o q
           p == [queue |-> w, timer |-> yes, s |-> Behind]
           r == Passed(q, Behind)
<1>1. Len(queue) + Len(q) <= MaxQueue /\ Becomes(IF timer THEN p ELSE r)
  BY Zenon DEF Offered
<1>2. CASE timer
  <2>1. Becomes(p)
    BY <1>1, <1>2, Zenon
  <2>2. yes
    OBVIOUS
  <2> HIDE DEF yes, w
  <2>3. p.queue = w /\ p.timer = yes /\ p.s = Behind
    BY Zenon
  <2> HIDE DEF p
  <2>4. p.s \in BehindRecord
    BY <2>3, Zenon DEF BehindOK
  <2>5. Behind' = p.s /\ queue' = p.queue /\ timer' = p.timer
    BY <2>1, <2>4, BecomesRecord, Zenon
  <2> QED BY <1>1, <1>2, <2>2, <2>3, <2>5, Zenon DEF w
<1>3. CASE ~timer
  <2>1. Becomes(r)
    BY <1>1, <1>3, Zenon
  <2> HIDE DEF r
  <2>2. r.s \in BehindRecord
    BY <1>3, Zenon DEF r
  <2>3. Behind' = r.s /\ queue' = r.queue /\ timer' = r.timer
    BY <2>1, <2>2, BecomesRecord, Zenon
  <2> QED BY <1>1, <1>3, <2>3, Zenon DEF r
<1> QED BY <1>2, <1>3

\* the part of the invariant about the four stages alone
StagesOK ==
    /\ timer \in BOOLEAN /\ QueueOK(queue) /\ BehindOK(Behind)
    /\ Len(queue) <= MaxQueue /\ (queue # <<>> => timer)

\* the last event offered is in the queue w, or in the track t
Arrived(e, waits, w, t) ==
    IF waits THEN w # <<>> /\ Last(w) = e
    ELSE /\ e.type = "keydown" => t # <<>> /\ (e.sym # NoSym => Last(t).ignore)
         /\ e.type = "releaseall" => t = <<>>

LEMMA MaxQueueNat == MaxQueue \in Nat
BY InputAssumption

LEMMA OfferedMade ==
  ASSUME StagesOK, NEW q, Made(q), Offered(q)
  PROVE  /\ StagesOK'
         /\ ~spoilt /\ Lifts(queue) => ~spoilt' /\ Lifts(queue')
         /\ q # <<>> /\ Last(q).type \in {"keydown", "releaseall"} =>
               Arrived(Last(q), timer', queue', track')
<1>0. /\ timer \in BOOLEAN /\ QueueOK(queue) /\ BehindOK(Behind) /\ (queue # <<>> => timer)
      /\ QueueOK(q) /\ Lifts(q)
  BY MadeOK, Zenon DEF StagesOK
<1> DEFINE p == Passed(q, Behind)
           K == IF p.timer
               THEN p.queue # <<>> /\ Last(p.queue) = Last(q)
               ELSE /\ Last(q).type = "keydown" =>
                          /\ p.s.track # <<>>
                          /\ Last(q).sym # NoSym => Last(p.s.track).ignore
                    /\ Last(q).type = "releaseall" => p.s.track = <<>>
<1>1. /\ BehindOK(p.s) /\ QueueOK(p.queue)
      /\ ~Behind.spoilt /\ Lifts(q) => ~p.s.spoilt /\ Lifts(p.queue)
      /\ Len(p.queue) <= Len(q)
      /\ p.timer \in BOOLEAN /\ (p.queue # <<>> => p.timer)
      /\ q # <<>> /\ Last(q).type \in {"keydown", "releaseall"} => K
  BY <1>0, PassedKeeps, Zenon
<1> HIDE DEF p
<1>2. p.s \in BehindRecord
  BY <1>1, Zenon DEF BehindOK
<1>3. /\ Len(queue) + Len(q) <= MaxQueue
      /\ timer => queue' = queue \o q /\ timer' /\ Behind' = Behind
      /\ ~timer => queue' = p.queue /\ timer' = p.timer /\ Behind' = p.s
  BY <1>0, <1>2, OfferedCases, Zenon DEF p
<1>4. Len(queue) \in Nat /\ Len(q) \in Nat /\ MaxQueue \in Nat
  <2>1. queue \in Seq(EventRecord) /\ q \in Seq(EventRecord)
    BY <1>0, Zenon DEF QueueOK
  <2> QED BY <2>1, MaxQueueNat
<1>5. CASE timer
  <2>1. queue' = queue \o q /\ timer' /\ Behind' = Behind
    BY <1>3, <1>5, Zenon
  <2>2. /\ QueueOK(queue \o q) /\ (Lifts(queue) => Lifts(queue \o q))
        /\ q # <<>> => queue \o q # <<>> /\ Last(queue \o q) = Last(q)
    BY <1>0, ConcatQueue
  <2>3. Len(queue') <= MaxQueue
    <3>1. queue \in Seq(EventRecord) /\ q \in Seq(EventRecord)
      BY <1>0, Zenon DEF QueueOK
    <3>2. Len(queue \o q) = Len(queue) + Len(q)
      BY <3>1
    <3> QED BY <1>3, <2>1, <3>2
  <2>4. StagesOK'
    BY <1>0, <2>1, <2>2, <2>3 DEF StagesOK
  <2>5. spoilt' = spoilt
    BY <2>1, BehindFields, BehindPrimed
  <2> QED BY <2>1, <2>2, <2>4, <2>5 DEF Arrived
<1>6. CASE ~timer
  <2>1. queue' = p.queue /\ timer' = p.timer /\ Behind' = p.s
    BY <1>3, <1>6, Zenon
  <2>2. Len(queue') <= MaxQueue
    <3>1. Len(p.queue) <= MaxQueue
      <4>1. p.queue \in Seq(EventRecord)
        BY <1>1, Zenon DEF QueueOK
      <4> QED BY <1>1, <1>3, <1>4, <4>1
    <3> QED BY <2>1, <3>1
  <2>3. StagesOK'
    BY <1>1, <2>1, <2>2 DEF StagesOK
  <2>4. Behind.spoilt = spoilt /\ spoilt' = p.s.spoilt /\ track' = p.s.track
    BY <2>1, BehindFields, BehindPrimed
  <2>5. Lifts(queue') = Lifts(p.queue)
    BY <2>1
  <2>6. q # <<>> /\ Last(q).type \in {"keydown", "releaseall"} =>
            Arrived(Last(q), timer', queue', track')
    BY <1>1, <2>1, <2>4, Zenon DEF Arrived
  <2> QED BY <1>0, <1>1, <2>3, <2>4, <2>5, <2>6, Zenon
<1> QED BY <1>0, <1>5, <1>6

LEMMA MovesNone ==
  ASSUME NEW h \in Seq(Syms)
  PROVE  Moves(<<>>, h, h)
<1> DEFINE q == <<>>
           hs == [i \in {0} |-> h]
<1>1. q \in Seq(EventRecord) /\ Len(q) = 0 /\ DOMAIN q = {} /\ 0..Len(q) = {0}
  OBVIOUS
<1> HIDE DEF q
<1>2. hs \in [{0} -> Seq(Syms)] /\ hs[0] = h
  OBVIOUS
<1> HIDE DEF hs
<1>3. Chain(q, hs)
  BY <1>1, <1>2 DEF Chain
<1> QED BY <1>1, <1>2, <1>3 DEF Moves, q

LEMMA MovesOne ==
  ASSUME NEW h \in Seq(Syms), NEW e \in EventRecord, NEW h2, Leads(h, e, h2)
  PROVE  Moves(<<e>>, h, h2)
<1> DEFINE q == <<e>>
           hs == [i \in 0..1 |-> IF i = 0 THEN h ELSE h2]
<1>1. q \in Seq(EventRecord) /\ Len(q) = 1 /\ DOMAIN q = {1} /\ q[1] = e
  OBVIOUS
<1> HIDE DEF q
<1>2. h2 \in Seq(Syms)
  BY DEF Leads
<1>3. hs \in [0..1 -> Seq(Syms)] /\ hs[0] = h /\ hs[1] = h2
  BY <1>2
<1> HIDE DEF hs
<1>4. \A i \in DOMAIN q : Leads(hs[i - 1], q[i], hs[i])
  <2>1. \A i \in DOMAIN q : i = 1 /\ i - 1 = 0
    BY <1>1
  <2> QED BY <1>1, <1>3, <2>1
<1>5. Chain(q, hs)
  BY <1>1, <1>3, <1>4 DEF Chain
<1> QED BY <1>1, <1>3, <1>5 DEF Moves, q

LEMMA MovesBoth ==
  ASSUME NEW q \in Seq(EventRecord), NEW r \in Seq(EventRecord), NEW h, NEW h2, NEW h3,
         Moves(q, h, h2), Moves(r, h2, h3)
  PROVE  Moves(q \o r, h, h3)
<1>1. PICK hs : Chain(q, hs) /\ hs[0] = h /\ hs[Len(q)] = h2
  BY Zenon DEF Moves
<1>2. PICK gs : Chain(r, gs) /\ gs[0] = h2 /\ gs[Len(r)] = h3
  BY Zenon DEF Moves
<1>3. hs[Len(q)] = gs[0]
  BY <1>1, <1>2
<1>4. \E w : Chain(q \o r, w) /\ w[0] = hs[0] /\ w[Len(q \o r)] = gs[Len(r)]
  <2>1. Chain(q, hs) /\ Chain(r, gs)
    BY <1>1, <1>2
  <2> QED BY <1>3, <2>1, ConcatChain
<1> QED BY <1>1, <1>2, <1>4, Zenon DEF Moves

\* the events that join the queue move its end
LEMMA ConcatFollows ==
  ASSUME NEW q \in Seq(EventRecord), NEW r \in Seq(EventRecord), NEW b, NEW h, NEW h2,
         Follows(q, b, h), Moves(r, h, h2)
  PROVE  Follows(q \o r, b, h2)
<1>1. PICK hs : Chain(q, hs) /\ Matches(b, hs[0]) /\ hs[Len(q)] = h
  BY Zenon DEF Follows
<1>2. PICK gs : Chain(r, gs) /\ gs[0] = h /\ gs[Len(r)] = h2
  BY Zenon DEF Moves
<1>3. hs[Len(q)] = gs[0]
  BY <1>1, <1>2
<1>4. \E w : Chain(q \o r, w) /\ w[0] = hs[0] /\ w[Len(q \o r)] = gs[Len(r)]
  <2>1. Chain(q, hs) /\ Chain(r, gs)
    BY <1>1, <1>2
  <2> QED BY <1>3, <2>1, ConcatChain
<1> QED BY <1>1, <1>2, <1>4, Zenon DEF Follows

LEMMA PassedFollows ==
  ASSUME NEW q, QueueOK(q), NEW b, NEW h, Follows(q, b, h)
  PROVE  Follows(Passed(q, b).queue, Passed(q, b).s, h)
<1>1. PICK hs : Chain(q, hs) /\ Matches(b, hs[0]) /\ hs[Len(q)] = h
  BY Zenon DEF Follows
<1>2. \E hs2 : /\ Chain(Passed(q, b).queue, hs2) /\ Matches(Passed(q, b).s, hs2[0])
               /\ hs2[Len(Passed(q, b).queue)] = hs[Len(q)]
  BY <1>1, PassedMatches, Zenon
<1> QED BY <1>1, <1>2, Zenon DEF Follows

LEMMA EmptyFollows ==
  ASSUME NEW b, NEW h
  PROVE  /\ Matches(b, h) => Follows(<<>>, b, h)
         /\ Follows(<<>>, b, h) => Matches(b, h)
<1>0. Len(<<>>) = 0
  OBVIOUS
<1>1. ASSUME Matches(b, h) PROVE Follows(<<>>, b, h)
  <2>1. h \in Seq(Syms)
    BY <1>1, Zenon DEF Matches
  <2>2. Moves(<<>>, h, h)
    BY <2>1, MovesNone, Zenon
  <2> QED BY <1>1, <2>2, Zenon DEF Moves, Follows
<1>2. ASSUME Follows(<<>>, b, h) PROVE Matches(b, h)
  <2> DEFINE q == <<>>
  <2> HIDE DEF q
  <2>1. PICK hs : Matches(b, hs[0]) /\ hs[Len(q)] = h
    BY <1>2, Zenon DEF Follows, q
  <2>2. Len(q) = 0
    BY DEF q
  <2> QED BY <2>1, <2>2
<1> QED BY <1>1, <1>2

\* events offered straight on from what track records
LEMMA MovedFollows ==
  ASSUME NEW q, Made(q), NEW b, NEW h, NEW h2, Matches(b, h), Moves(q, h, h2)
  PROVE  Follows(q, b, h2)
BY Zenon DEF Moves, Follows

LEMMA OfferedFollows ==
  ASSUME StagesOK, NEW q, Made(q), NEW h, NEW h2, Follows(queue, Behind, h), Moves(q, h, h2),
         Offered(q)
  PROVE  Follows(queue', Behind', h2)
<1>0. /\ timer \in BOOLEAN /\ QueueOK(queue) /\ BehindOK(Behind) /\ (queue # <<>> => timer)
      /\ QueueOK(q) /\ queue \in Seq(EventRecord) /\ q \in Seq(EventRecord)
  BY MadeOK, Zenon DEF StagesOK, QueueOK
<1> DEFINE p == Passed(q, Behind)
<1>1. BehindOK(p.s)
  BY <1>0, PassedKeeps, Zenon
<1>2. p.s \in BehindRecord
  BY <1>1, Zenon DEF BehindOK
<1>3. CASE timer
  <2>1. queue' = queue \o q /\ Behind' = Behind
    BY <1>0, <1>3, OfferedCases, Zenon
  <2>2. Follows(queue \o q, Behind, h2)
    BY <1>0, ConcatFollows, Zenon
  <2> QED BY <2>1, <2>2, Zenon
<1>4. CASE ~timer
  <2>1. queue' = p.queue /\ Behind' = p.s
    BY <1>0, <1>2, <1>4, OfferedCases, Zenon
  <2>2. queue = <<>>
    BY <1>0, <1>4
  <2>3. Matches(Behind, h)
    <3>1. Follows(<<>>, Behind, h)
      BY <2>2, Zenon
    <3> QED BY <3>1, EmptyFollows, Zenon
  <2>4. Follows(q, Behind, h2)
    BY <2>3, MovedFollows, Zenon
  <2>5. Follows(p.queue, p.s, h2)
    BY <1>0, <2>4, PassedFollows, Zenon
  <2> QED BY <2>1, <2>5, Zenon
<1> QED BY <1>0, <1>3, <1>4

LEMMA SyncedFacts ==
  ASSUME NEW ms \in [Modifiers -> BOOLEAN], NEW k, NEW h
  PROVE  /\ Synced(ms, k, h) \in [Modifiers -> BOOLEAN]
         /\ \A m \in Modifiers :
                Synced(ms, k, h)[m] = IF m \in Flagged /\ m # k THEN m \in h ELSE ms[m]
<1> DEFINE f == [m \in Modifiers |-> IF m \in Flagged /\ m # k THEN m \in h ELSE ms[m]]
<1>1. Synced(ms, k, h) = f
  BY Zenon DEF Synced
<1>2. \A m \in Modifiers : f[m] = IF m \in Flagged /\ m # k THEN m \in h ELSE ms[m]
  BY Zenon
<1>3. \A m \in Modifiers : ms[m] \in BOOLEAN /\ (m \in h) \in BOOLEAN
  OBVIOUS
<1>4. \A m \in Modifiers : (IF m \in Flagged /\ m # k THEN m \in h ELSE ms[m]) \in BOOLEAN
  BY <1>3, Zenon
<1>5. f \in [Modifiers -> BOOLEAN]
  BY <1>4, Zenon
<1> QED BY <1>1, <1>2, <1>5, Zenon

LEMMA EventMade ==
  ASSUME NEW type \in EventTypes, type # "keypress", NEW id \in Ids,
         NEW sym \in Syms \cup {NoSym}, sym.level # "third"
  PROVE  /\ Event(type, id, sym, FALSE) \in EventRecord /\ Made(<<Event(type, id, sym, FALSE)>>)
         /\ Event(type, id, sym, FALSE).type = type /\ Event(type, id, sym, FALSE).id = id
         /\ Event(type, id, sym, FALSE).sym = sym /\ ~Event(type, id, sym, FALSE).escape
<1> DEFINE no == FALSE
           e == [type |-> type, id |-> id, sym |-> sym, escape |-> no]
<1>1. Event(type, id, sym, no) = e
  BY Zenon DEF Event
<1>2. no \in BOOLEAN
  OBVIOUS
<1>2a. ~no
  OBVIOUS
<1> HIDE DEF no
<1>3. e \in EventRecord
  BY <1>2, Zenon DEF EventRecord
<1>4. e.type = type /\ e.id = id /\ e.sym = sym /\ e.escape = no
  BY Zenon
<1> HIDE DEF e
<1>5. e.type # "keypress" /\ ~e.escape /\ e.sym.level # "third"
  BY <1>4, <1>2a, Zenon
<1>6. Made(<<e>>)
  BY <1>3, <1>5, MadeOne, Zenon
<1> QED BY <1>1, <1>2a, <1>3, <1>4, <1>6, Zenon DEF no

LEMMA SymFacts ==
  ASSUME NEW k \in Keys
  PROVE  /\ Sym(k, "plain") \in Syms /\ Sym(k, "plain").key = k /\ Sym(k, "plain").level = "plain"
         /\ Sym(k, "shift") \in Syms /\ Sym(k, "shift").key = k /\ Sym(k, "shift").level = "shift"
         /\ Sym(k, "third") \in Syms /\ Sym(k, "third").key = k /\ Sym(k, "third").level = "third"
BY DEF Sym, Syms

LEMMA GuessFacts ==
  ASSUME NEW k \in Keys, NEW h
  PROVE  /\ Guess(k, h) \in Syms /\ Guess(k, h).key = k /\ Guess(k, h).level # "third"
         /\ Guess(k, h) # NoSym /\ (k \notin Letters => Guess(k, h) = Sym(k, "plain"))
<1>1. Guess(k, h) \in {Sym(k, "shift"), Sym(k, "plain")}
      /\ (k \notin Letters => Guess(k, h) = Sym(k, "plain"))
  BY Zenon DEF Guess
<1>2. Guess(k, h) \in Syms /\ Guess(k, h).key = k /\ Guess(k, h).level # "third"
  BY <1>1, SymFacts
<1> QED BY <1>1, <1>2, KeyFacts

LEMMA NoSymLevel == NoSym.level = "plain"
BY DEF NoSym

LEMMA SyncEventMade ==
  ASSUME NEW m, NEW ms, NEW k, NEW h
  PROVE  /\ Made(SyncEvent(m, ms, k, h))
         /\ (m \in Modifiers => Synced(ms, k, h)[m] = ms[m]) => SyncEvent(m, ms, k, h) = <<>>
<1> DEFINE type == IF m \in h THEN "keydown" ELSE "keyup"
<1>1. CASE m \notin Modifiers \/ Synced(ms, k, h)[m] = ms[m]
  <2>1. SyncEvent(m, ms, k, h) = <<>>
    BY <1>1, Zenon DEF SyncEvent
  <2> QED BY <2>1, MadeNone, Zenon
<1>2. CASE ~(m \notin Modifiers \/ Synced(ms, k, h)[m] = ms[m])
  <2>1. SyncEvent(m, ms, k, h) = <<Event(type, NoSym, Sym(m, "plain"), FALSE)>>
    BY <1>2, Zenon DEF SyncEvent
  <2>2. type \in EventTypes /\ type # "keypress"
    BY DEF EventTypes
  <2> DEFINE sym == Sym(m, "plain")
  <2>3. sym \in Syms \cup {NoSym} /\ sym.level # "third" /\ NoSym \in Ids
    <3>1. m \in Keys
      BY <1>2, KeyFacts
    <3> QED BY <3>1, SymFacts DEF Ids
  <2> HIDE DEF type, sym
  <2>4. Made(<<Event(type, NoSym, sym, FALSE)>>)
    BY <2>2, <2>3, EventMade, Zenon
  <2> QED BY <1>2, <2>1, <2>4, Zenon DEF sym
<1> QED BY <1>1, <1>2

LEMMA SyncEventsMade ==
  ASSUME NEW ms, NEW k, NEW h
  PROVE  /\ Made(SyncEvents(ms, k, h))
         /\ (\A m \in Modifiers : Synced(ms, k, h)[m] = ms[m]) => SyncEvents(ms, k, h) = <<>>
<1> DEFINE a == SyncEvent("Ctrl", ms, k, h)
           b == SyncEvent("Alt", ms, k, h)
           c == SyncEvent("AltGr", ms, k, h)
           d == SyncEvent("Shift", ms, k, h)
<1>1. SyncEvents(ms, k, h) = a \o b \o c \o d
  BY Zenon DEF SyncEvents
<1>2. Made(a) /\ Made(b) /\ Made(c) /\ Made(d)
  BY SyncEventMade, Zenon
<1>3. (\A m \in Modifiers : Synced(ms, k, h)[m] = ms[m])
         => a = <<>> /\ b = <<>> /\ c = <<>> /\ d = <<>>
  BY SyncEventMade, Zenon
<1> HIDE DEF a, b, c, d
<1>4. Made(a \o b)
  BY <1>2, MadeBoth, Zenon
<1>5. Made(a \o b \o c)
  BY <1>2, <1>4, MadeBoth, Zenon
<1>6. Made(a \o b \o c \o d)
  BY <1>2, <1>5, MadeBoth, Zenon
<1>7. <<>> \o <<>> = <<>>
  OBVIOUS
<1> QED BY <1>1, <1>3, <1>6, <1>7, Zenon

LEMMA KeyStages ==
  ASSUME KeyInv
  PROVE  KeyTypes /\ StagesOK /\ FreshOK /\ AwayOK /\ Tuned /\ (Known => ~spoilt /\ Lifts(queue))
BY Zenon DEF KeyInv, StagesOK, KeyTypes

LEMMA KeyIdIs == ASSUME NEW k, NEW h PROVE KeyId(k, h) = IdOf(names, k, h)
BY Zenon DEF KeyId, IdOf

LEMMA IdOfFacts ==
  ASSUME NEW n, NEW k \in Keys, NEW h
  PROVE  IdOf(n, k, h) \in Syms /\ IdOf(n, k, h).key = k
<1>1. Level(k, h) \in {"plain", "shift", "third"}
  BY DEF Level
<1>2. IdOf(n, k, h) \in {Sym(k, "plain"), Sym(k, "shift"), Sym(k, "third")}
  BY <1>1, Zenon DEF IdOf
<1> QED BY <1>2, SymFacts

LEMMA NamedFacts ==
  ASSUME NEW n, NEW h \in Seq(Keys), Distinct(h)
  PROVE  /\ Named(n, h) \in Seq(Syms) /\ Len(Named(n, h)) = Len(h) /\ Apart(Named(n, h))
         /\ \A i \in 1..Len(h) : Named(n, h)[i] = IdOf(n, h[i], ToSet(h)) /\ Named(n, h)[i].key = h[i]
         /\ KeysOf(Named(n, h)) = ToSet(h)
         /\ h # <<>> => /\ Named(n, h) # <<>> /\ Last(Named(n, h)).key = Last(h)
                        /\ Last(Named(n, h)) = IdOf(n, Last(h), ToSet(h))
<1> DEFINE w == Named(n, h)
           L == Len(h)
           K(i) == IdOf(n, h[i], ToSet(h))
<1>1. L \in Nat /\ DOMAIN h = 1..L /\ \A i \in 1..L : h[i] \in Keys
  OBVIOUS
<1>2. w = [i \in 1..L |-> K(i)]
  BY Zenon DEF Named
<1>3. \A i \in 1..L : K(i) \in Syms /\ K(i).key = h[i]
  BY <1>1, IdOfFacts, Zenon
<1> HIDE DEF w, K
<1>4. /\ w \in Seq(Syms) /\ Len(w) = L /\ DOMAIN w = 1..L
      /\ \A i \in 1..L : w[i] = K(i) /\ w[i].key = h[i]
  BY <1>1, <1>2, <1>3
<1>5. Apart(w)
  BY <1>1, <1>4 DEF Apart, Distinct
<1>6. KeysOf(w) = ToSet(h)
  BY <1>1, <1>4 DEF KeysOf, ToSet
<1>7. ASSUME h # <<>> PROVE w # <<>> /\ Last(w).key = Last(h) /\ Last(w) = IdOf(n, Last(h), ToSet(h))
  <2>1. w # <<>> /\ Last(w) = w[L] /\ Last(h) = h[L] /\ L \in 1..L
    BY <1>1, <1>4, <1>7 DEF Last
  <2> QED BY <1>4, <2>1 DEF K
<1> QED BY <1>4, <1>5, <1>6, <1>7 DEF w, K

\* no letter is a modifier, so a letter that goes up keeps its name
LEMMA OwnName ==
  ASSUME NEW n, NEW k \in Keys, NEW h
  PROVE  IdOf(n, k, h \ {k}) = IdOf(n, k, h)
<1>1. CASE k \in Letters
  <2>1. k \notin ToSet(CharModifier) /\ k # "Shift"
    BY <1>1, KeyFacts, InputAssumption
  <2>2. ToSet(CharModifier) \subseteq h \ {k} <=> ToSet(CharModifier) \subseteq h
    BY <2>1
  <2>3. "Shift" \in h \ {k} <=> "Shift" \in h
    BY <2>1
  <2>4. Level(k, h \ {k}) = Level(k, h)
    BY <2>2, <2>3, Zenon DEF Level
  <2> QED BY <2>4, Zenon DEF IdOf
<1>2. CASE k \notin Letters
  <2>1. k \notin Thirds
    BY <1>2, InputAssumption
  <2>2. Level(k, h \ {k}) = "plain" /\ Level(k, h) = "plain"
    BY <1>2, <2>1, Zenon DEF Level
  <2> QED BY <2>2, Zenon DEF IdOf
<1> QED BY <1>1, <1>2

\* unless a name is said to have changed, the keys that stay down keep theirs
LEMMA NamesKept ==
  ASSUME names \in {"codes", "kept", "changed"}, Renamed, names' # "changed"
  PROVE  /\ names' = names
         /\ KeepIds(names, held, held')
<1> DEFINE c == names = "kept" /\ \E j \in Letters : Holds(j) /\ j \in ToSet(held')
                    /\ Level(j, ToSet(held)) # Level(j, ToSet(held'))
<1>1. names' = IF c THEN "changed" ELSE names
  BY Zenon DEF Renamed
<1>2. ~c /\ names' = names
  BY <1>1, Zenon
<1>3. names = "codes" \/ names = "kept"
  BY <1>2
<1>4. ASSUME NEW k \in ToSet(held), k \in ToSet(held')
      PROVE  IdOf(names, k, ToSet(held')) = IdOf(names, k, ToSet(held))
  <2>1. CASE names = "codes"
    BY <2>1, Zenon DEF IdOf
  <2>2. CASE names = "kept"
    <3>1. Level(k, ToSet(held)) = Level(k, ToSet(held'))
      <4>1. CASE k \in Letters
        BY <1>2, <1>4, <2>2, <4>1, Zenon DEF Holds
      <4>2. CASE k \notin Letters
        <5>1. k \notin Thirds
          BY <4>2, InputAssumption
        <5> QED BY <4>2, <5>1, Zenon DEF Level
      <4> QED BY <4>1, <4>2
    <3> QED BY <3>1, Zenon DEF IdOf
  <2> QED BY <1>3, <2>1, <2>2
<1> QED BY <1>2, <1>4 DEF KeepIds

LEMMA NamesTyped ==
  ASSUME names \in {"codes", "kept", "changed"}, Renamed
  PROVE  names' \in {"codes", "kept", "changed"} /\ (names' = "changed" \/ names' = names)
<1>1. names' = "changed" \/ names' = names
  BY Zenon DEF Renamed
<1> QED BY <1>1

LEMMA NamedNone == ASSUME NEW n PROVE Named(n, <<>>) = <<>>
<1> DEFINE none == <<>>
           K(i) == IdOf(n, none[i], ToSet(none))
<1>1. Named(n, none) = [i \in 1..Len(none) |-> K(i)]
  BY Zenon DEF Named
<1> HIDE DEF K
<1>2. 1..Len(none) = {}
  OBVIOUS
<1>3. [i \in 1..Len(none) |-> K(i)] = <<>>
  BY <1>2
<1> QED BY <1>1, <1>3

LEMMA NamedMore ==
  ASSUME NEW n, NEW h \in Seq(Keys), NEW k \in Keys,
         KeepIds(n, h, Append(h, k))
  PROVE  Named(n, Append(h, k)) = Append(Named(n, h), IdOf(n, k, ToSet(Append(h, k))))
<1> DEFINE w == Append(h, k)
           L == Len(h)
           A(i) == IdOf(n, w[i], ToSet(w))
           B(i) == IdOf(n, h[i], ToSet(h))
           x == IdOf(n, k, ToSet(w))
           a == Named(n, w)
           b == Named(n, h)
<1>1. /\ L \in Nat /\ DOMAIN h = 1..L /\ w \in Seq(Keys) /\ Len(w) = L + 1 /\ DOMAIN w = 1..L + 1
      /\ w[L + 1] = k /\ \A j \in 1..L : w[j] = h[j]
  OBVIOUS
<1>11. \A j \in ToSet(h) : j \in ToSet(w) => IdOf(n, j, ToSet(w)) = IdOf(n, j, ToSet(h))
  BY DEF KeepIds
<1> HIDE DEF w
<1>2. a = [i \in 1..Len(w) |-> A(i)] /\ b = [i \in 1..L |-> B(i)]
  BY Zenon DEF Named
<1>3. \A i \in 1..L : A(i) = B(i)
  <2> TAKE i \in 1..L
  <2>1. h[i] \in ToSet(h) /\ h[i] \in ToSet(w) /\ w[i] = h[i]
    <3>1. i \in 1..L + 1
      BY <1>1
    <3> QED BY <1>1, <3>1 DEF ToSet
  <2> QED BY <1>11, <2>1, Zenon
<1>4. A(L + 1) = x
  BY <1>1
<1>5. ASSUME NEW i \in 1..L PROVE B(i) \in Syms
  <2>1. h[i] \in Keys
    BY <1>1
  <2> QED BY <2>1, IdOfFacts, Zenon
<1>6. x \in Syms
  BY IdOfFacts, Zenon
<1> HIDE DEF A, B, x, a, b
<1>7. b \in Seq(Syms) /\ Len(b) = L /\ \A i \in 1..L : b[i] = B(i)
  BY <1>1, <1>2, <1>5
<1>8. DOMAIN a = 1..L + 1 /\ \A i \in 1..L + 1 : a[i] = A(i)
  BY <1>1, <1>2
<1>9. \A i \in 1..L + 1 : i \in 1..L \/ i = L + 1
  BY <1>1
<1>10. a = Append(b, x)
  <2>1. a = [i \in 1..L + 1 |-> A(i)]
    BY <1>1, <1>2
  <2>2. \A i \in 1..L + 1 : Append(b, x)[i] = A(i)
    <3>1. /\ \A i \in 1..L : Append(b, x)[i] = b[i]
          /\ Append(b, x)[L + 1] = x
      BY <1>1, <1>6, <1>7
    <3>2. \A i \in 1..L : Append(b, x)[i] = A(i)
      BY <1>3, <1>7, <3>1, Zenon
    <3>3. Append(b, x)[L + 1] = A(L + 1)
      BY <1>4, <3>1, Zenon
    <3> DEFINE c == Append(b, x)
    <3>4. (\A i \in 1..L : c[i] = A(i)) /\ c[L + 1] = A(L + 1)
      BY <3>2, <3>3
    <3> HIDE DEF c
    <3>5. ASSUME NEW i \in 1..L + 1 PROVE c[i] = A(i)
      <4>1. CASE i \in 1..L
        BY <3>4, <4>1
      <4>2. CASE i = L + 1
        BY <3>4, <4>2
      <4> QED BY <1>9, <4>1, <4>2
    <3> QED BY <3>5 DEF c
  <2> DEFINE c == Append(b, x)
  <2>3. c = [i \in 1..L + 1 |-> c[i]]
    <3>1. c \in Seq(Syms) /\ Len(c) = Len(b) + 1
      BY <1>6, <1>7, AppendFacts, Zenon
    <3> HIDE DEF c
    <3> QED BY <1>1, <1>7, <3>1
  <2>4. \A i \in 1..L + 1 : c[i] = A(i)
    BY <2>2
  <2> HIDE DEF c
  <2>5. a = c
    BY <2>1, <2>3, <2>4
  <2> QED BY <2>5 DEF c
<1> QED BY <1>10 DEF a, b, x, w

LEMMA PressedNamed ==
  ASSUME KeyTypes, NEW k \in Keys, KeepIds(names, held, Append(held, k))
  PROVE  Named(names, Append(held, k))
           = Append(Named(names, held), IdOf(names, k, ToSet(Append(held, k))))
<1>1. held \in Seq(Keys)
  BY DEF KeyTypes
<1> QED BY <1>1, NamedMore, Zenon

LEMMA NamedLess ==
  ASSUME NEW n, NEW h \in Seq(Keys), NEW i \in 1..Len(h), NEW w, w = RemoveAt(h, i), KeepIds(n, h, w)
  PROVE  Named(n, w) = RemoveAt(Named(n, h), i)
<1> DEFINE L == Len(h)
           A(j) == IdOf(n, w[j], ToSet(w))
           B(j) == IdOf(n, h[j], ToSet(h))
           a == Named(n, w)
           b == Named(n, h)
           r == RemoveAt(b, i)
<1>1. L \in Nat /\ DOMAIN h = 1..L /\ i \in 1..L
  OBVIOUS
<1>2. /\ w \in Seq(Keys) /\ Len(w) = L - 1
      /\ \A j \in 1..L - 1 : w[j] = IF j < i THEN h[j] ELSE h[j + 1]
  BY RemoveAtFacts
<1>3. DOMAIN w = 1..L - 1
  BY <1>1, <1>2
<1>4. a = [j \in 1..Len(w) |-> A(j)] /\ b = [j \in 1..L |-> B(j)]
  BY Zenon DEF Named
<1>5. \A j \in 1..L - 1 : A(j) = IF j < i THEN B(j) ELSE B(j + 1)
  <2> TAKE j \in 1..L - 1
  <2> DEFINE m == IF j < i THEN j ELSE j + 1
  <2>1. m \in 1..L /\ w[j] = h[m]
    BY <1>1, <1>2
  <2>2. h[m] \in ToSet(h) /\ h[m] \in ToSet(w)
    BY <1>1, <1>3, <2>1 DEF ToSet
  <2>3. A(j) = B(m)
    BY <2>1, <2>2, Zenon DEF KeepIds
  <2> HIDE DEF A, B
  <2> QED BY <2>3
<1>6. ASSUME NEW j \in 1..L PROVE B(j) \in Syms
  <2>1. h[j] \in Keys
    BY <1>1
  <2> QED BY <2>1, IdOfFacts, Zenon
<1> HIDE DEF A, B, a, b, r
<1>7. b \in Seq(Syms) /\ Len(b) = L /\ \A j \in 1..L : b[j] = B(j)
  BY <1>1, <1>4, <1>6
<1>8. /\ r \in Seq(Syms) /\ Len(r) = L - 1
      /\ \A j \in 1..L - 1 : r[j] = IF j < i THEN b[j] ELSE b[j + 1]
  <2>1. i \in 1..Len(b)
    BY <1>7
  <2>2. /\ RemoveAt(b, i) \in Seq(Syms) /\ Len(RemoveAt(b, i)) = Len(b) - 1
        /\ \A j \in 1..Len(b) - 1 : RemoveAt(b, i)[j] = IF j < i THEN b[j] ELSE b[j + 1]
    BY <1>7, <2>1, RemoveAtFacts, Zenon
  <2> QED BY <1>7, <2>2 DEF r
<1>9. \A j \in 1..L - 1 : r[j] = A(j)
  <2> TAKE j \in 1..L - 1
  <2>1. CASE j < i
    <3>1. j \in 1..L
      BY <1>1
    <3> QED BY <1>5, <1>7, <1>8, <2>1, <3>1
  <2>2. CASE ~(j < i)
    <3>1. j + 1 \in 1..L
      BY <1>1
    <3> QED BY <1>5, <1>7, <1>8, <2>2, <3>1
  <2> QED BY <2>1, <2>2
<1>10. a = r
  <2>1. a = [j \in 1..L - 1 |-> A(j)]
    BY <1>2, <1>4
  <2>2. r = [j \in 1..L - 1 |-> r[j]]
    BY <1>1, <1>8
  <2> QED BY <1>9, <2>1, <2>2
<1> QED BY <1>10 DEF a, b, r

LEMMA KnownIdsFacts ==
  ASSUME KeyTypes
  PROVE  /\ KnownIds \in Seq(Syms) /\ KeysOf(KnownIds) = ToSet(KnownHeld)
         /\ KnownHeld \in Seq(Keys) /\ Len(KnownIds) = Len(KnownHeld)
         /\ \A i \in 1..Len(KnownHeld) : KnownIds[i].key = KnownHeld[i]
<1>1. held \in Seq(Keys) /\ Distinct(held)
  BY DEF KeyTypes
<1>2. <<>> \in Seq(Keys) /\ Distinct(<<>>)
  BY DEF Distinct
<1>3. KnownHeld \in Seq(Keys) /\ Distinct(KnownHeld)
  BY <1>1, <1>2, Zenon DEF KnownHeld
<1> QED BY <1>3, NamedFacts, Zenon DEF KnownIds

\* what a step of the decoder leaves to be seen to
LEMMA OfferedKeyInv ==
  ASSUME KeyInv, NEW q, Made(q), Offered(q), across => across', KeyTypes', FreshOK', AwayOK',
         ~across' => /\ \A m \in Modifiers : mods'[m] = (m \in ToSet(KnownHeld'))
                     /\ names' = "changed" \/ (names' = names /\ Moves(q, KnownIds, KnownIds'))
                     /\ ~Seen' /\ unseen' = 0 => held' = <<>>
  PROVE  KeyInv'
<1>0. KeyTypes /\ StagesOK /\ Tuned /\ (Known => ~spoilt /\ Lifts(queue))
  BY KeyStages, Zenon
<1>1. StagesOK' /\ (~spoilt /\ Lifts(queue) => ~spoilt' /\ Lifts(queue'))
  BY <1>0, OfferedMade, Zenon
<1>2. Known' => ~spoilt' /\ Lifts(queue')
  <2>1. Known' => Known
    BY Zenon DEF Known
  <2> QED BY <1>0, <1>1, <2>1, Zenon
<1>3. Tuned'
  <2>1. SUFFICES ASSUME ~across'
                 PROVE  /\ \A m \in Modifiers : mods'[m] = (m \in ToSet(KnownHeld'))
                        /\ names' # "changed" => Follows(queue', Behind', KnownIds')
                        /\ ~Seen' /\ unseen' = 0 => held' = <<>>
    BY Zenon DEF Tuned
  <2>2. ~across
    BY <2>1
  <2>3. ASSUME names' # "changed" PROVE Follows(queue', Behind', KnownIds')
    <3> DEFINE h2 == KnownIds'
    <3>1. names' = names /\ Moves(q, KnownIds, h2)
      BY <2>1, <2>3
    <3>2. Follows(queue, Behind, KnownIds)
      BY <1>0, <2>2, <2>3, <3>1, Zenon DEF Tuned
    <3> HIDE DEF h2
    <3>3. Follows(queue', Behind', h2)
      BY <1>0, <3>1, <3>2, OfferedFollows, Zenon
    <3> QED BY <3>3, Zenon DEF h2
  <2> QED BY <2>1, <2>3, Zenon
<1>4. KeyTypes' /\ StagesOK' /\ FreshOK' /\ AwayOK' /\ Tuned' /\ (Known' => ~spoilt' /\ Lifts(queue'))
  BY <1>1, <1>2, <1>3
<1> QED BY <1>4, Zenon DEF KeyInv, StagesOK

\* the events of a modifier's change, when the modifiers are known
LEMMA NothingToSync ==
  ASSUME NEW ms \in [Modifiers -> BOOLEAN], NEW k, NEW h, \A m \in Modifiers : ms[m] = (m \in h)
  PROVE  SyncEvents(ms, k, h) = <<>> /\ \A m \in Modifiers : Synced(ms, k, h)[m] = (m \in h)
<1>1. \A m \in Modifiers : Synced(ms, k, h)[m] = IF m \in Flagged /\ m # k THEN m \in h ELSE ms[m]
  BY SyncedFacts
<1>2. \A m \in Modifiers : Synced(ms, k, h)[m] = (m \in h)
  BY <1>1, Zenon
<1>3. \A m \in Modifiers : Synced(ms, k, h)[m] = ms[m]
  BY <1>2, Zenon
<1> QED BY <1>2, <1>3, SyncEventsMade, Zenon

LEMMA PutModifier ==
  ASSUME NEW ms \in [Modifiers -> BOOLEAN], NEW k, NEW on \in BOOLEAN
  PROVE  LET own == IF k \in Modifiers THEN [ms EXCEPT ![k] = on] ELSE ms
         IN  /\ own \in [Modifiers -> BOOLEAN]
             /\ \A m \in Modifiers : own[m] = IF m = k THEN on ELSE ms[m]
OBVIOUS

\* the last event, and those before it
LEMMA LastMade ==
  ASSUME NEW q, Made(q), NEW r, Made(r), NEW e \in EventRecord, Made(<<e>>)
  PROVE  /\ Made(q \o r \o <<e>>) /\ q \o r \o <<e>> # <<>> /\ Last(q \o r \o <<e>>) = e
<1>1. Made(q \o r)
  BY MadeBoth, Zenon
<1> DEFINE w == q \o r
<1> HIDE DEF w
<1>2. Made(w)
  BY <1>1, Zenon DEF w
<1>3. Made(w \o <<e>>)
  BY <1>2, MadeBoth, Zenon
<1>4. QueueOK(w)
  BY <1>2, MadeOK, Zenon
<1>5. <<e>> # <<>> /\ Last(<<e>>) = e
  BY DEF Last
<1>6. <<e>> # <<>> => w \o <<e>> # <<>> /\ Last(w \o <<e>>) = Last(<<e>>)
  BY <1>4, ConcatQueue, Zenon
<1> QED BY <1>3, <1>5, <1>6, Zenon DEF w

LEMMA StallMade ==
  Stall \in EventRecord /\ Made(<<Stall>>) /\ Stall.type = "stall"
<1> DEFINE type == "stall"
           id == NoSym
           sym == NoSym
           e == Event(type, id, sym, FALSE)
<1>1. type \in EventTypes /\ type # "keypress" /\ id \in Ids /\ sym \in Syms \cup {NoSym}
      /\ sym.level # "third"
  BY NoSymLevel DEF EventTypes, Ids
<1>2. type = "stall"
  OBVIOUS
<1>3. Stall = e
  BY DEF Stall
<1> HIDE DEF type, id, sym
<1> DEFINE N == Event(type, id, sym, FALSE)
<1>4. N \in EventRecord
  BY <1>1, EventMade, Zenon
<1>5. Made(<<N>>)
  BY <1>1, EventMade, Zenon
<1>6. N.type = type
  BY Zenon DEF Event
<1> HIDE DEF e
<1> QED BY <1>2, <1>3, <1>4, <1>5, <1>6, Zenon DEF e

LEMMA KeydownInv ==
  ASSUME KeyInv, NEW k \in Keys, fresh = NoKey, Seen, NEW h, keydown(k, h),
         held' \in Seq(Keys), Distinct(held'), held' # <<>>, Last(held') = k, h = ToSet(held'),
         \/ k \notin ToSet(held) /\ held' = Append(held, k)
         \/ held # <<>> /\ held' = held /\ k \notin Modifiers,
         ToSet(held') = ToSet(held) \cup {k},
         focus' = focus, across' = across, unseen' = unseen,
         names' \in {"codes", "kept", "changed"},
         names' # "changed" =>
             /\ names' = names
             /\ KeepIds(names, held, held')
  PROVE  KeyInv'
<1> DEFINE own == IF k \in Modifiers THEN [mods EXCEPT ![k] = TRUE] ELSE mods
           ms == Synced(own, k, h)
           active == activeCharModifier(ms)
           shortcut == hasShortcutModifier(ms)
           sym == IF k \notin Letters \/ shortcut \/ active THEN Guess(k, h) ELSE NoSym
           stall == IF active /\ k \in Letters THEN <<Stall>> ELSE <<>>
           id == KeyId(k, h)
           e == Event("keydown", id, sym, FALSE)
           sync == SyncEvents(own, k, h)
           q == sync \o stall \o <<e>>
<1>1. /\ mods' = ms /\ Offered(q)
      /\ fresh' = IF k \in Letters /\ ~shortcut THEN k ELSE NoKey
  BY Zenon DEF keydown
<1>2. KeyTypes /\ StagesOK /\ Tuned
  BY KeyStages, Zenon
<1>3. /\ mods \in [Modifiers -> BOOLEAN] /\ TRUE \in BOOLEAN /\ unseen \in Nat
      /\ held \in Seq(Keys) /\ Distinct(held)
  BY <1>2 DEF KeyTypes
<1>4. own \in [Modifiers -> BOOLEAN] /\ \A m \in Modifiers : own[m] = IF m = k THEN TRUE ELSE mods[m]
  BY <1>3, PutModifier, ZenonT(60)
<1>5. Made(sync)
  BY SyncEventsMade, Zenon
<1>6. /\ sym \in Syms \cup {NoSym} /\ sym.level # "third"
      /\ sym # NoSym => sym \in Syms /\ sym.key = k
      /\ active => sym = Guess(k, h) /\ sym # NoSym
      /\ k \notin Letters => sym = Sym(k, "plain")
  <2>1. CASE k \notin Letters \/ shortcut \/ active
    <3>1. sym = Guess(k, h)
      BY <2>1, Zenon
    <3> HIDE DEF sym
    <3> QED BY <3>1, GuessFacts
  <2>2. CASE ~(k \notin Letters \/ shortcut \/ active)
    <3>1. sym = NoSym
      BY <2>2, Zenon
    <3> HIDE DEF sym
    <3>2. NoSym.level # "third"
      BY NoSymLevel
    <3> QED BY <2>2, <3>1, <3>2
  <2> QED BY <2>1, <2>2
<1>21. id = IdOf(names, k, h) /\ id \in Syms /\ id.key = k
  BY KeyIdIs, IdOfFacts, Zenon
<1> HIDE DEF sym, id
<1>7. /\ e \in EventRecord /\ Made(<<e>>)
      /\ e.type = "keydown" /\ e.id = id /\ e.sym = sym /\ ~e.escape
  <2> DEFINE type == "keydown"
  <2>1. type \in EventTypes /\ type # "keypress" /\ id \in Ids
    BY <1>21 DEF EventTypes, Ids
  <2>2. type = "keydown"
    OBVIOUS
  <2> HIDE DEF type
  <2>3. e = Event(type, id, sym, FALSE)
    BY <2>2
  <2> DEFINE e2 == Event(type, id, sym, FALSE)
  <2>4. /\ e2 \in EventRecord /\ Made(<<e2>>)
        /\ e2.type = type /\ e2.id = id /\ e2.sym = sym /\ ~e2.escape
    <3>1. sym \in Syms \cup {NoSym} /\ sym.level # "third"
      BY <1>6
    <3>2. Made(<<e2>>)
      BY <2>1, <3>1, EventMade, Zenon
    <3>3. e2 \in EventRecord
      BY <2>1, <3>1, EventMade, Zenon
    <3>4. e2.type = type /\ e2.id = id /\ e2.sym = sym /\ ~e2.escape
      BY Zenon DEF Event
    <3> QED BY <3>2, <3>3, <3>4
  <2> QED BY <2>2, <2>3, <2>4, Zenon
<1> HIDE DEF e
<1>8. Stall \in EventRecord /\ Made(<<Stall>>) /\ Stall.type = "stall"
  BY StallMade, Zenon
<1>9. Made(stall)
  BY <1>8, MadeNone, Zenon
<1> HIDE DEF stall, sync, own
<1>10. Made(q) /\ q # <<>> /\ Last(q) = e
  BY <1>5, <1>7, <1>9, LastMade, Zenon
<1> HIDE DEF q
<1>11. ms \in [Modifiers -> BOOLEAN]
       /\ \A m \in Modifiers : ms[m] = IF m \in Flagged /\ m # k THEN m \in h ELSE own[m]
  BY <1>4, SyncedFacts
<1> HIDE DEF ms
<1>12. StagesOK' /\ Arrived(e, timer', queue', track')
  <2>1. Last(q).type \in {"keydown", "releaseall"}
    BY <1>7, <1>10
  <2>2. StagesOK' /\ (q # <<>> /\ Last(q).type \in {"keydown", "releaseall"} =>
                         Arrived(Last(q), timer', queue', track'))
    BY <1>1, <1>2, <1>10, OfferedMade
  <2> QED BY <1>10, <2>1, <2>2, Zenon
<1>13. focus' = "canvas" /\ focus = "canvas"
  BY DEF Seen
<1>14. KeyTypes'
  <2>1. timer' \in BOOLEAN
    BY <1>12 DEF StagesOK
  <2>2. fresh' \in Letters \cup {NoKey}
    BY <1>1, Zenon
  <2> QED BY <1>1, <1>3, <1>11, <2>1, <2>2 DEF KeyTypes
<1>15. AwayOK'
  BY <1>13 DEF AwayOK
<1>16. FreshOK'
  <2> SUFFICES ASSUME fresh' # NoKey PROVE FreshOK'
    BY Zenon DEF FreshOK
  <2>1. fresh' = k /\ k \in Letters /\ k \notin Modifiers
    BY <1>1, KeyFacts
  <2>2. \A m \in Flagged : mods'[m] = Holds(m)'
    <3> TAKE m \in Flagged
    <3>1. m \in Modifiers /\ m # k
      BY <2>1, KeyFacts
    <3>2. ms[m] = (m \in h)
      BY <1>11, <3>1
    <3> QED BY <1>1, <3>2 DEF Holds
  <2>3. timer' => /\ queue' # <<>> /\ Last(queue').type = "keydown"
                  /\ activeCharModifier(mods') => Last(queue').sym = Guess(fresh', ToSet(held'))
    <3>1. timer' => queue' # <<>> /\ Last(queue') = e
      BY <1>12, Zenon DEF Arrived
    <3>2. activeCharModifier(mods') => e.sym = Guess(fresh', ToSet(held'))
      BY <1>1, <1>6, <1>7, <2>1
    <3> QED BY <1>7, <3>1, <3>2
  <2>4. ~timer' => track' # <<>> /\ (activeCharModifier(mods') => Last(track').ignore)
    <3>1. ~timer' => track' # <<>> /\ (e.sym # NoSym => Last(track').ignore)
      BY <1>7, <1>12, Zenon DEF Arrived
    <3>2. activeCharModifier(mods') => e.sym # NoSym
      BY <1>1, <1>6, <1>7
    <3> QED BY <3>1, <3>2
  <2> QED BY <1>13, <2>1, <2>2, <2>3, <2>4 DEF FreshOK, Seen
<1>17. ASSUME ~across'
       PROVE  /\ \A m \in Modifiers : mods'[m] = (m \in ToSet(KnownHeld'))
              /\ names' = "changed" \/ (names' = names /\ Moves(q, KnownIds, KnownIds'))
              /\ ~Seen' /\ unseen' = 0 => held' = <<>>
  <2>1. KnownHeld = held /\ KnownHeld' = held'
    BY <1>13 DEF KnownHeld, Seen
  <2>2. \A m \in Modifiers : mods[m] = (m \in ToSet(held))
    BY <1>2, <1>17, <2>1, Zenon DEF Tuned
  <2>3. ASSUME NEW m \in Modifiers PROVE own[m] = (m \in h)
    <3>1. CASE m = k
      BY <1>4, <3>1
    <3>2. CASE m # k
      <4>1. own[m] = mods[m] /\ (m \in h <=> m \in ToSet(held))
        BY <1>4, <3>2
      <4>2. own[m] = (m \in ToSet(held))
        BY <2>2, <4>1, Zenon
      <4> QED BY <4>1, <4>2
    <3> QED BY <3>1, <3>2
  <2>4. sync = <<>> /\ \A m \in Modifiers : ms[m] = (m \in h)
    <3>1. \A m \in Modifiers : own[m] = (m \in h)
      BY <2>3
    <3>2. SyncEvents(own, k, h) = <<>> /\ \A m \in Modifiers : Synced(own, k, h)[m] = (m \in h)
      BY <1>4, <3>1, NothingToSync
    <3> QED BY <3>2, Zenon DEF sync, ms
  <2>5. ASSUME names' # "changed" PROVE names' = names /\ Moves(q, KnownIds, KnownIds')
    <3> DEFINE a == Named(names, held)
               a2 == Named(names, held')
    <3>1. names' = names /\ KnownIds = a /\ KnownIds' = a2
      BY <2>1, <2>5, Zenon DEF KnownIds
    <3>2. /\ a \in Seq(Syms) /\ KeysOf(a) = ToSet(held)
          /\ held # <<>> => a # <<>> /\ Last(a) = IdOf(names, Last(held), ToSet(held))
      BY <1>3, NamedFacts, Zenon
    <3>3. a2 \in Seq(Syms)
      <4> DEFINE h2 == held'
      <4>1. h2 \in Seq(Keys) /\ Distinct(h2)
        OBVIOUS
      <4> HIDE DEF h2
      <4>2. Named(names, h2) \in Seq(Syms)
        BY <4>1, NamedFacts, Zenon
      <4> QED BY <4>2 DEF h2
    <3>4. \/ a # <<>> /\ Last(a) = e.id /\ a2 = a
          \/ e.id.key \notin KeysOf(a) /\ a2 = Append(a, e.id)
      <4>1. CASE k \notin ToSet(held) /\ held' = Append(held, k)
        <5> DEFINE w == held'
        <5>1. KeepIds(names, held, w)
          BY <2>5
        <5>2. w = Append(held, k)
          BY <4>1
        <5>6. h = ToSet(w)
          OBVIOUS
        <5> HIDE DEF w
        <5>3. Named(names, w) = Append(a, IdOf(names, k, ToSet(w)))
          <6>1. KeepIds(names, held, Append(held, k))
            BY <5>1, <5>2
          <6>2. Named(names, Append(held, k))
                  = Append(Named(names, held), IdOf(names, k, ToSet(Append(held, k))))
            BY <1>2, <6>1, PressedNamed, Zenon
          <6> QED BY <5>2, <6>2, Zenon
        <5>4. Named(names, w) = Append(a, e.id)
          BY <1>7, <1>21, <5>3, <5>6, Zenon
        <5>5. e.id.key \notin KeysOf(a)
          BY <1>7, <1>21, <3>2, <4>1, Zenon
        <5> QED BY <5>4, <5>5, Zenon DEF w
      <4>2. CASE held # <<>> /\ held' = held /\ k \notin Modifiers
        <5>1. Last(held) = k /\ h = ToSet(held)
          BY <4>2
        <5>2. a # <<>> /\ Last(a) = e.id
          BY <1>7, <1>21, <3>2, <4>2, <5>1, Zenon
        <5> QED BY <4>2, <5>2, Zenon
      <4> QED BY <4>1, <4>2
    <3> HIDE DEF a, a2
    <3>5. Leads(a, e, a2)
      <4>1. e.sym = NoSym \/ (e.sym \in Syms /\ e.sym.key = e.id.key)
        BY <1>6, <1>7, <1>21
      <4>2. e.id.key \in Modifiers => e.sym = Sym(e.id.key, "plain")
        BY <1>6, <1>7, <1>21, KeyFacts
      <4>3. e.type = "keydown" /\ e.id \in Syms /\ ~e.escape
        BY <1>7, <1>21
      <4> QED BY <3>3, <3>4, <4>1, <4>2, <4>3, Zenon DEF Leads
    <3>6. Moves(stall, a, a)
      <4>1. CASE stall = <<>>
        BY <3>2, <4>1, MovesNone, Zenon
      <4>2. CASE stall = <<Stall>>
        <5>1. Leads(a, Stall, a)
          BY <1>8, <3>2 DEF Leads
        <5>2. Moves(<<Stall>>, a, a)
          BY <1>8, <3>2, <5>1, MovesOne
        <5> QED BY <4>2, <5>2, Zenon
      <4> QED BY <4>1, <4>2 DEF stall
    <3>7. Moves(<<e>>, a, a2)
      BY <1>7, <3>2, <3>5, MovesOne
    <3>8. stall \in Seq(EventRecord) /\ <<e>> \in Seq(EventRecord)
      BY <1>7, <1>9, Zenon DEF Made
    <3>9. Moves(stall \o <<e>>, a, a2)
      <4> DEFINE r == <<e>>
      <4>1. Moves(r, a, a2) /\ r \in Seq(EventRecord)
        BY <3>7, <3>8
      <4> HIDE DEF r
      <4>2. Moves(stall \o r, a, a2)
        BY <3>6, <3>8, <4>1, MovesBoth
      <4> QED BY <4>2 DEF r
    <3>10. q = stall \o <<e>>
      <4>1. <<>> \o stall = stall
        BY <3>8
      <4> QED BY <2>4, <4>1 DEF q
    <3> QED BY <3>1, <3>9, <3>10, Zenon
  <2> QED BY <1>1, <1>13, <2>1, <2>4, <2>5 DEF Seen
<1> QED BY <1>1, <1>10, <1>14, <1>15, <1>16, <1>17, OfferedKeyInv

LEMMA KeyupInv ==
  ASSUME KeyInv, NEW k \in Keys, fresh = NoKey, Seen, NEW h, keyup(k, h),
         NEW i \in DOMAIN held, held[i] = k, held' = RemoveAt(held, i), h = ToSet(held) \ {k},
         focus' = focus, across' = across, unseen' = unseen,
         names' \in {"codes", "kept", "changed"},
         names' # "changed" =>
             /\ names' = names
             /\ KeepIds(names, held, held')
  PROVE  KeyInv'
<1> DEFINE own == IF k \in Modifiers THEN [mods EXCEPT ![k] = FALSE] ELSE mods
           ms == Synced(own, k, h)
           id == KeyId(k, h)
           e == Event("keyup", id, Guess(k, h), FALSE)
           sync == SyncEvents(own, k, h)
           q == sync \o <<e>>
<1>1. mods' = ms /\ Offered(q) /\ fresh' = fresh
  BY Zenon DEF keyup
<1>2. KeyTypes /\ StagesOK /\ Tuned
  BY KeyStages, Zenon
<1>3. mods \in [Modifiers -> BOOLEAN] /\ FALSE \in BOOLEAN /\ unseen \in Nat /\ held \in Seq(Keys)
      /\ Distinct(held)
  BY <1>2 DEF KeyTypes
<1>4. own \in [Modifiers -> BOOLEAN] /\ \A m \in Modifiers : own[m] = IF m = k THEN FALSE ELSE mods[m]
  BY <1>3, PutModifier, ZenonT(60)
<1>5. Made(sync)
  BY SyncEventsMade, Zenon
<1>15. id = IdOf(names, k, ToSet(held)) /\ id \in Syms
  <2> DEFINE w == ToSet(held)
  <2>1. h = w \ {k}
    OBVIOUS
  <2> HIDE DEF w
  <2>2. id = IdOf(names, k, h) /\ id \in Syms
    BY KeyIdIs, IdOfFacts, Zenon
  <2>3. IdOf(names, k, w \ {k}) = IdOf(names, k, w)
    BY OwnName, Zenon
  <2> QED BY <2>1, <2>2, <2>3, Zenon DEF w
<1> HIDE DEF id
<1>6. e \in EventRecord /\ Made(<<e>>) /\ e.type = "keyup" /\ e.id = id
  <2> DEFINE type == "keyup"
             sym == Guess(k, h)
  <2>1. type \in EventTypes /\ type # "keypress" /\ id \in Ids
    BY <1>15 DEF EventTypes, Ids
  <2>2. type = "keyup"
    OBVIOUS
  <2>3. sym \in Syms \cup {NoSym} /\ sym.level # "third"
    BY GuessFacts
  <2> HIDE DEF type, sym
  <2>4. e = Event(type, id, sym, FALSE)
    BY <2>2 DEF sym
  <2> DEFINE e2 == Event(type, id, sym, FALSE)
  <2>5. Made(<<e2>>)
    BY <2>1, <2>3, EventMade, Zenon
  <2>6. e2 \in EventRecord
    BY <2>1, <2>3, EventMade, Zenon
  <2>7. e2.type = type /\ e2.id = id
    BY Zenon DEF Event
  <2> QED BY <2>2, <2>4, <2>5, <2>6, <2>7, Zenon
<1> HIDE DEF e, sync, own
<1>7. Made(q)
  BY <1>5, <1>6, MadeBoth, Zenon
<1> HIDE DEF q
<1>8. ms \in [Modifiers -> BOOLEAN]
  BY <1>4, SyncedFacts
<1> HIDE DEF ms
<1>9. StagesOK'
  BY <1>1, <1>2, <1>7, OfferedMade, Zenon
<1>10. focus' = "canvas" /\ focus = "canvas"
  BY DEF Seen
<1>11. held' \in Seq(Keys) /\ Distinct(held') /\ ToSet(held') = h
  <2>1. i \in 1..Len(held)
    BY <1>3
  <2> DEFINE h2 == RemoveAt(held, i)
  <2>2. Distinct(h2) /\ h2 \in Seq(Keys) /\ ToSet(h2) = ToSet(held) \ {held[i]}
    BY <1>3, <2>1, DistinctRemove
  <2> HIDE DEF h2
  <2>3. held' = h2
    BY DEF h2
  <2>4. Distinct(held')
    BY <2>2, <2>3, Zenon
  <2> QED BY <2>2, <2>3, <2>4
<1>12. KeyTypes'
  <2>1. timer' \in BOOLEAN
    BY <1>9 DEF StagesOK
  <2> QED BY <1>1, <1>3, <1>8, <1>11, <2>1 DEF KeyTypes
<1>13. AwayOK' /\ FreshOK'
  BY <1>1, <1>10 DEF AwayOK, FreshOK
<1>14. ASSUME ~across'
       PROVE  /\ \A m \in Modifiers : mods'[m] = (m \in ToSet(KnownHeld'))
              /\ names' = "changed" \/ (names' = names /\ Moves(q, KnownIds, KnownIds'))
              /\ ~Seen' /\ unseen' = 0 => held' = <<>>
  <2>1. KnownHeld = held /\ KnownHeld' = held'
    BY <1>10 DEF KnownHeld, Seen
  <2>2. \A m \in Modifiers : mods[m] = (m \in ToSet(held))
    BY <1>2, <1>14, <2>1, Zenon DEF Tuned
  <2>3. ASSUME NEW m \in Modifiers PROVE own[m] = (m \in h)
    <3>1. CASE m = k
      <4>1. m \notin h
        BY <3>1
      <4>2. own[m] = FALSE
        BY <1>4, <3>1
      <4>3. (m \in h) = FALSE
        BY <4>1
      <4> QED BY <4>2, <4>3
    <3>2. CASE m # k
      <4>1. own[m] = mods[m] /\ (m \in h <=> m \in ToSet(held))
        BY <1>4, <3>2
      <4>2. own[m] = (m \in ToSet(held))
        BY <2>2, <4>1, Zenon
      <4> QED BY <4>1, <4>2
    <3> QED BY <3>1, <3>2
  <2>4. sync = <<>> /\ \A m \in Modifiers : ms[m] = (m \in h)
    <3>1. \A m \in Modifiers : own[m] = (m \in h)
      BY <2>3
    <3>2. SyncEvents(own, k, h) = <<>> /\ \A m \in Modifiers : Synced(own, k, h)[m] = (m \in h)
      BY <1>4, <3>1, NothingToSync
    <3> QED BY <3>2, Zenon DEF sync, ms
  <2>5. ASSUME names' # "changed" PROVE names' = names /\ Moves(q, KnownIds, KnownIds')
    <3> DEFINE a == Named(names, held)
               a2 == Named(names, held')
    <3>1. names' = names /\ KnownIds = a /\ KnownIds' = a2
      BY <2>1, <2>5, Zenon DEF KnownIds
    <3>2. /\ a \in Seq(Syms) /\ Len(a) = Len(held)
          /\ \A j \in 1..Len(held) : a[j] = IdOf(names, held[j], ToSet(held))
      BY <1>3, NamedFacts, Zenon
    <3>3. i \in 1..Len(held) /\ DOMAIN a = 1..Len(held)
      BY <1>3, <3>2
    <3>4. a2 = RemoveAt(a, i)
      <4> DEFINE w == held'
      <4>1. KeepIds(names, held, w)
        BY <2>5
      <4>2. w = RemoveAt(held, i)
        OBVIOUS
      <4> HIDE DEF w
      <4>3. Named(names, w) = RemoveAt(a, i)
        BY <1>3, <3>3, <4>1, <4>2, NamedLess, Zenon
      <4> QED BY <4>3, Zenon DEF w
    <3>5. a[i] = e.id
      BY <1>6, <1>15, <3>2, <3>3, Zenon
    <3> HIDE DEF a, a2
    <3>6. a2 \in Seq(Syms)
      <4>1. i \in 1..Len(a)
        BY <3>2, <3>3
      <4>2. RemoveAt(a, i) \in Seq(Syms)
        BY <3>2, <4>1, RemoveAtFacts, Zenon
      <4> QED BY <3>4, <4>2
    <3>7. Leads(a, e, a2)
      <4>1. i \in DOMAIN a
        BY <3>3, Zenon
      <4> QED BY <1>6, <3>4, <3>5, <3>6, <4>1, Zenon DEF Leads
    <3>8. Moves(<<e>>, a, a2)
      BY <1>6, <3>2, <3>7, MovesOne
    <3>9. q = <<e>>
      <4>1. <<>> \o <<e>> = <<e>>
        OBVIOUS
      <4> QED BY <2>4, <4>1 DEF q
    <3> QED BY <3>1, <3>8, <3>9, Zenon
  <2> QED BY <1>1, <1>10, <1>11, <2>1, <2>4, <2>5 DEF Seen
<1> QED BY <1>1, <1>7, <1>12, <1>13, <1>14, OfferedKeyInv

LEMMA NotifyInv ==
  ASSUME KeyInv, fresh = NoKey, Seen, Notify,
         held' = held, focus' = focus, across' = across, unseen' = unseen, names' = names
  PROVE  KeyInv'
<1> DEFINE h == ToSet(held)
           ms == Synced(mods, NoKey, h)
           q == SyncEvents(mods, NoKey, h)
<1>1. mods' = ms /\ Offered(q) /\ fresh' = fresh
  BY Zenon DEF Notify
<1>2. KeyTypes /\ StagesOK /\ Tuned
  BY KeyStages, Zenon
<1>3. mods \in [Modifiers -> BOOLEAN] /\ unseen \in Nat /\ held \in Seq(Keys) /\ Distinct(held)
  BY <1>2 DEF KeyTypes
<1>4. Made(q)
  BY SyncEventsMade, Zenon
<1>5. ms \in [Modifiers -> BOOLEAN]
  BY <1>3, SyncedFacts
<1> HIDE DEF q, ms, h
<1>6. StagesOK'
  BY <1>1, <1>2, <1>4, OfferedMade, Zenon
<1>7. focus' = "canvas" /\ focus = "canvas"
  BY DEF Seen
<1>8. KeyTypes'
  <2>1. timer' \in BOOLEAN
    BY <1>6 DEF StagesOK
  <2>2. Distinct(held')
    BY <1>3, Zenon
  <2>3. names' \in {"codes", "kept", "changed"}
    BY <1>2 DEF KeyTypes
  <2> QED BY <1>1, <1>3, <1>5, <2>1, <2>2, <2>3 DEF KeyTypes
<1>9. AwayOK' /\ FreshOK'
  BY <1>1, <1>7 DEF AwayOK, FreshOK
<1>10. ASSUME ~across'
       PROVE  /\ \A m \in Modifiers : mods'[m] = (m \in ToSet(KnownHeld'))
              /\ names' = "changed" \/ (names' = names /\ Moves(q, KnownIds, KnownIds'))
              /\ ~Seen' /\ unseen' = 0 => held' = <<>>
  <2>1. KnownHeld = held /\ KnownHeld' = held
    BY <1>7 DEF KnownHeld, Seen
  <2>2. \A m \in Modifiers : mods[m] = (m \in ToSet(held))
    BY <1>2, <1>10, <2>1, Zenon DEF Tuned
  <2>3. q = <<>> /\ \A m \in Modifiers : ms[m] = (m \in h)
    <3>1. \A m \in Modifiers : mods[m] = (m \in h)
      BY <2>2 DEF h
    <3>2. SyncEvents(mods, NoKey, h) = <<>> /\ \A m \in Modifiers : Synced(mods, NoKey, h)[m] = (m \in h)
      BY <1>3, <3>1, NothingToSync
    <3> QED BY <3>2, Zenon DEF q, ms
  <2>4. Moves(q, KnownIds, KnownIds')
    <3>1. KnownIds \in Seq(Syms)
      BY <1>2, KnownIdsFacts, Zenon
    <3>2. KnownIds' = KnownIds
      BY <2>1, Zenon DEF KnownIds
    <3> QED BY <2>3, <3>1, <3>2, MovesNone, Zenon
  <2> QED BY <1>1, <1>7, <2>1, <2>3, <2>4 DEF Seen, h
<1> QED BY <1>1, <1>4, <1>8, <1>9, <1>10, OfferedKeyInv

\* a step that leaves the four stages alone
LEMMA StillKeyInv ==
  ASSUME KeyInv, UNCHANGED <<queue, timer, track, down, spoilt>>, across => across',
         KeyTypes', FreshOK', AwayOK',
         ~across' => /\ mods' = mods /\ KnownHeld' = KnownHeld
                     /\ names' = "changed" \/ names' = names
                     /\ ~Seen' /\ unseen' = 0 => held' = <<>>
  PROVE  KeyInv'
<1>0. KeyTypes /\ StagesOK /\ Tuned /\ (Known => ~spoilt /\ Lifts(queue))
  BY KeyStages, Zenon
<1>1. Behind' = Behind /\ queue' = queue /\ timer' = timer /\ spoilt' = spoilt
  BY DEF Behind
<1>2. StagesOK'
  BY <1>0, <1>1 DEF StagesOK
<1>3. Known' => ~spoilt' /\ Lifts(queue')
  <2>1. Known' => Known
    BY Zenon DEF Known
  <2>2. Lifts(queue) => Lifts(queue')
    BY <1>1, Zenon
  <2>3. ~spoilt => ~spoilt'
    BY <1>1
  <2> QED BY <1>0, <2>1, <2>2, <2>3
<1>4. Tuned'
  <2>1. SUFFICES ASSUME ~across'
                 PROVE  /\ \A m \in Modifiers : mods'[m] = (m \in ToSet(KnownHeld'))
                        /\ names' # "changed" => Follows(queue', Behind', KnownIds')
                        /\ ~Seen' /\ unseen' = 0 => held' = <<>>
    BY Zenon DEF Tuned
  <2>2. ~across
    BY <2>1
  <2>3. /\ names # "changed" => Follows(queue, Behind, KnownIds)
        /\ \A m \in Modifiers : mods[m] = (m \in ToSet(KnownHeld))
    BY <1>0, <2>2, Zenon DEF Tuned
  <2>4. ASSUME names' # "changed" PROVE Follows(queue', Behind', KnownIds')
    <3>1. names' = names /\ KnownHeld' = KnownHeld
      BY <2>1, <2>4
    <3>2. KnownIds' = KnownIds
      BY <3>1, Zenon DEF KnownIds
    <3> QED BY <1>1, <2>3, <2>4, <3>1, <3>2, Zenon
  <2> QED BY <2>1, <2>3, <2>4
<1>5. KeyTypes' /\ StagesOK' /\ FreshOK' /\ AwayOK' /\ Tuned' /\ (Known' => ~spoilt' /\ Lifts(queue'))
  BY <1>2, <1>3, <1>4
<1> QED BY <1>5, Zenon DEF KeyInv, StagesOK

\* the char modifier as the decoder and as the user has it
LEMMA ActiveKnown ==
  ASSUME NEW h, NEW ms \in [Modifiers -> BOOLEAN], \A m \in ToSet(CharModifier) : ms[m] = (m \in h)
  PROVE  activeCharModifier(ms) <=> CharModifier # <<>> /\ ToSet(CharModifier) \subseteq h
<1>1. ToSet(CharModifier) \subseteq Modifiers
  BY KeyFacts
<1>2. \A m \in ToSet(CharModifier) : m \in DownIn(ms) <=> ms[m]
  BY <1>1, Zenon DEF DownIn
<1>3. \A m \in ToSet(CharModifier) : ms[m] <=> m \in h
  BY Zenon
<1>4. ToSet(CharModifier) \subseteq DownIn(ms) <=> ToSet(CharModifier) \subseteq h
  BY <1>2, <1>3, Zenon
<1> QED BY <1>4, Zenon DEF activeCharModifier

LEMMA TypedFacts ==
  ASSUME KeyInv, fresh # NoKey, NEW c \in CharsOf(fresh)
  PROVE  /\ c \in Syms /\ c.key = fresh
         /\ c.level # "third" => c = Guess(fresh, ToSet(held))
         /\ Known /\ c.level = "third" => activeCharModifier(mods)
         /\ ~across /\ activeCharModifier(mods) => ToSet(CharModifier) \subseteq ToSet(held)
<1>0. KeyTypes /\ FreshOK /\ Tuned
  BY KeyStages, Zenon
<1>1. fresh \in Letters /\ Seen /\ \A m \in Flagged : mods[m] = Holds(m)
  BY <1>0, Zenon DEF FreshOK
<1>2. mods \in [Modifiers -> BOOLEAN] /\ fresh \in Keys
  BY <1>0, <1>1, KeyFacts DEF KeyTypes
<1>3. c = Guess(fresh, ToSet(held)) \/
      (c = Sym(fresh, "third") /\ CharModifier # <<>> /\ ToSet(CharModifier) \subseteq ToSet(held))
  BY Zenon DEF CharsOf
<1>4. c \in Syms /\ c.key = fresh /\ (c.level # "third" => c = Guess(fresh, ToSet(held)))
  <2>1. CASE c = Guess(fresh, ToSet(held))
    BY <1>2, <2>1, GuessFacts
  <2>2. CASE c = Sym(fresh, "third")
    BY <1>2, <2>2, SymFacts
  <2> QED BY <1>3, <2>1, <2>2
<1>5. c.level = "third" => CharModifier # <<>> /\ ToSet(CharModifier) \subseteq ToSet(held)
  BY <1>2, <1>3, GuessFacts
<1>6. ASSUME Known PROVE \A m \in ToSet(CharModifier) : mods[m] = (m \in ToSet(held))
  <2>1. CASE ~across
    <3>1. \A m \in Modifiers : mods[m] = (m \in ToSet(KnownHeld))
      BY <1>0, <2>1, Zenon DEF Tuned
    <3>2. KnownHeld = held
      BY <1>1, Zenon DEF KnownHeld
    <3> QED BY <3>1, <3>2, KeyFacts
  <2>2. CASE ToSet(CharModifier) \subseteq Flagged
    BY <1>1, <2>2, Zenon DEF Holds
  <2> QED BY <1>6, <2>1, <2>2 DEF Known
<1>7. Known => (activeCharModifier(mods) <=> CharModifier # <<>> /\ ToSet(CharModifier) \subseteq ToSet(held))
  BY <1>2, <1>6, ActiveKnown
<1>8. ~across => Known
  BY DEF Known
<1> QED BY <1>4, <1>5, <1>7, <1>8

LEMMA AppendPress ==
  ASSUME NEW q, QueueOK(q), q # <<>>, Last(q).type = "keydown",
         NEW e \in EventRecord, e.type = "keypress", e.sym \in Syms,
         e.escape /\ e.sym.level # "third" => Last(q).sym = e.sym
  PROVE  QueueOK(q \o <<e>>) /\ (Lifts(q) /\ (e.sym.level = "third" => e.escape) => Lifts(q \o <<e>>))
<1> DEFINE w == q \o <<e>>
           n == Len(q)
<1>1. q \in Seq(EventRecord) /\ n \in Nat /\ n >= 1 /\ DOMAIN q = 1..n /\ Last(q) = q[n]
  <2>1. q \in Seq(EventRecord)
    BY DEF QueueOK
  <2> QED BY <2>1 DEF Last
<1>2. /\ w \in Seq(EventRecord) /\ DOMAIN w = 1..n + 1 /\ w[n + 1] = e
      /\ \A j \in 1..n : w[j] = q[j]
  BY <1>1
<1> HIDE DEF w, n
<1>3. ASSUME NEW i \in DOMAIN w
      PROVE  /\ w[i].type = "keydown" => ~w[i].escape /\ w[i].sym.level # "third"
             /\ w[i].type = "keypress" =>
                   /\ w[i].sym \in Syms /\ i > 1 /\ w[i - 1].type = "keydown"
                   /\ w[i].escape /\ w[i].sym.level # "third" => w[i - 1].sym = w[i].sym
  <2>1. CASE i \in 1..n
    <3>1. w[i] = q[i] /\ i \in DOMAIN q
      BY <1>1, <1>2, <2>1
    <3>2. i > 1 => w[i - 1] = q[i - 1]
      BY <1>1, <1>2, <2>1
    <3> QED BY <3>1, <3>2 DEF QueueOK
  <2>2. CASE i = n + 1
    <3>1. w[i] = e /\ w[i - 1] = Last(q) /\ i > 1
      BY <1>1, <1>2, <2>2
    <3> QED BY <3>1
  <2> QED BY <1>1, <1>2, <2>1, <2>2
<1>4. QueueOK(w)
  BY <1>2, <1>3, Zenon DEF QueueOK
<1>5. ASSUME Lifts(q), e.sym.level = "third" => e.escape PROVE Lifts(w)
  <2>1. ASSUME NEW i \in DOMAIN w, w[i].type = "keypress", w[i].sym.level = "third" PROVE w[i].escape
    <3>1. CASE i \in 1..n
      <4>1. w[i] = q[i] /\ i \in DOMAIN q
        BY <1>1, <1>2, <3>1
      <4> QED BY <1>5, <2>1, <4>1 DEF Lifts
    <3>2. CASE i = n + 1
      BY <1>2, <1>5, <2>1, <3>2
    <3> QED BY <1>1, <1>2, <3>1, <3>2
  <2> QED BY <2>1, Zenon DEF Lifts
<1> QED BY <1>4, <1>5 DEF w

LEMMA KeyPressInv ==
  ASSUME KeyInv, KeyPress
  PROVE  KeyInv'
<1>0. KeyTypes /\ StagesOK /\ FreshOK /\ Tuned /\ (Known => ~spoilt /\ Lifts(queue))
  BY KeyStages, Zenon
<1> DEFINE active == activeCharModifier(mods)
<1>1. PICK c \in CharsOf(fresh) : Offered(<<Event("keypress", CharId, c, active)>>)
  BY Zenon DEF KeyPress
<1>2. /\ fresh # NoKey /\ fresh' = NoKey /\ mods' = mods /\ held' = held /\ focus' = focus
      /\ across' = across /\ unseen' = unseen /\ names' = names
  BY Zenon DEF KeyPress, userVars
<1> DEFINE e == Event("keypress", CharId, c, active)
           q == <<e>>
<1>3. /\ c \in Syms /\ c.key = fresh
      /\ c.level # "third" => c = Guess(fresh, ToSet(held))
      /\ Known /\ c.level = "third" => active
      /\ ~across /\ active => ToSet(CharModifier) \subseteq ToSet(held)
  BY <1>2, TypedFacts
<1>4. active \in BOOLEAN
  BY DEF activeCharModifier
<1> HIDE DEF active
<1>5. e \in EventRecord /\ e.type = "keypress" /\ e.sym = c /\ e.escape = active
  <2>1. e.type = "keypress" /\ e.sym = c /\ e.escape = active
    BY Zenon DEF Event
  <2>2. "keypress" \in EventTypes /\ CharId \in Ids /\ c \in Syms \cup {NoSym}
    BY <1>3 DEF EventTypes, Ids
  <2>3. e \in EventRecord
    BY <1>4, <2>2, Zenon DEF Event, EventRecord
  <2> QED BY <2>1, <2>3
<1>6. Offered(q)
  BY <1>1
<1> HIDE DEF e
<1>7. /\ fresh \in Letters /\ Seen /\ held # <<>> /\ Last(held) = fresh
      /\ timer => /\ queue # <<>> /\ Last(queue).type = "keydown"
                  /\ active => Last(queue).sym = Guess(fresh, ToSet(held))
      /\ ~timer => track # <<>> /\ (active => Last(track).ignore)
  BY <1>0, <1>2, Zenon DEF FreshOK, active
<1>8. /\ mods \in [Modifiers -> BOOLEAN] /\ unseen \in Nat /\ held \in Seq(Keys) /\ Distinct(held)
      /\ timer \in BOOLEAN
  BY <1>0 DEF KeyTypes
<1>9. QueueOK(queue) /\ BehindOK(Behind) /\ (queue # <<>> => timer) /\ Len(queue) <= MaxQueue
  BY <1>0, Zenon DEF StagesOK
<1>10. Known' <=> Known
  BY <1>2 DEF Known
<1> DEFINE Plain == ~across /\ names # "changed"
           a == KnownIds
<1>17. a \in Seq(Syms) /\ a # <<>> /\ Last(a).key = fresh /\ KeysOf(a) = ToSet(held)
  <2>1. a = Named(names, held)
    BY <1>7, Zenon DEF KnownHeld, KnownIds
  <2>2. /\ Named(names, held) \in Seq(Syms) /\ KeysOf(Named(names, held)) = ToSet(held)
        /\ held # <<>> => /\ Named(names, held) # <<>>
                          /\ Last(Named(names, held)).key = Last(held)
    BY <1>8, NamedFacts, Zenon
  <2> HIDE DEF a
  <2> QED BY <1>7, <2>1, <2>2, Zenon
<1>11. ASSUME Plain PROVE Leads(a, e, a) /\ Follows(queue, Behind, a)
  <2>1. Follows(queue, Behind, a)
    BY <1>0, <1>11, Zenon DEF Tuned
  <2> HIDE DEF a
  <2>2. Leads(a, e, a)
    BY <1>3, <1>5, <1>7, <1>8, <1>11, <1>17, Zenon DEF Leads
  <2> QED BY <2>1, <2>2
<1>18. Plain => ~across
  OBVIOUS
<1> HIDE DEF a, Plain
<1>12. StagesOK' /\ (Known' => ~spoilt' /\ Lifts(queue')) /\ (Plain => Follows(queue', Behind', a))
  <2>1. CASE timer
    <3>1. queue' = queue \o q /\ timer' /\ Behind' = Behind /\ Len(queue) + Len(q) <= MaxQueue
      BY <1>6, <1>8, <1>9, <2>1, OfferedCases, Zenon
    <3>2. e.escape /\ e.sym.level # "third" => Last(queue).sym = e.sym
      BY <1>3, <1>5, <1>7, <2>1
    <3>3. QueueOK(queue \o q) /\ (Lifts(queue) /\ (e.sym.level = "third" => e.escape) => Lifts(queue \o q))
      BY <1>3, <1>5, <1>7, <1>9, <2>1, <3>2, AppendPress
    <3>4. queue \in Seq(EventRecord) /\ q \in Seq(EventRecord)
      BY <1>5, <1>9 DEF QueueOK
    <3>5. Len(queue') <= MaxQueue
      <4>1. Len(queue \o q) = Len(queue) + Len(q)
        BY <3>4
      <4> QED BY <3>1, <4>1
    <3>6. spoilt' = spoilt
      BY <3>1, BehindFields, BehindPrimed
    <3>7. StagesOK'
      BY <1>9, <3>1, <3>3, <3>5 DEF StagesOK
    <3>8. Known' => ~spoilt' /\ Lifts(queue')
      BY <1>0, <1>3, <1>5, <1>10, <3>1, <3>3, <3>6
    <3>9. ASSUME Plain PROVE Follows(queue', Behind', a)
      <4>1. Moves(q, a, a)
        BY <1>5, <1>11, <1>17, <3>9, MovesOne
      <4>2. Follows(queue \o q, Behind, a)
        BY <1>11, <3>4, <3>9, <4>1, ConcatFollows, Zenon
      <4> QED BY <3>1, <4>2, Zenon
    <3> QED BY <3>7, <3>8, <3>9
  <2>2. CASE ~timer
    <3> DEFINE p == Passed(q, Behind)
    <3>1. p.s = Tracked(Behind, e) /\ p.queue = <<>> /\ ~p.timer
      BY <1>5, PassedOne
    <3>2. Tracked(Behind, e) = TrackPress(Behind, e)
      BY <1>5 DEF Tracked
    <3> HIDE DEF p
    <3>3. /\ BehindOK(TrackPress(Behind, e))
          /\ ~Behind.spoilt /\ (\/ Behind.track # <<>> /\ Last(Behind.track).ignore
                                \/ (e.sym.level = "third" <=> e.escape))
               => ~TrackPress(Behind, e).spoilt
      BY <1>3, <1>5, <1>9, TrackPressKeeps
    <3>4. p.s \in BehindRecord
      BY <3>1, <3>2, <3>3 DEF BehindOK
    <3>5. /\ queue' = p.queue /\ timer' = p.timer /\ Behind' = p.s
      BY <1>6, <1>8, <1>9, <2>2, <3>4, OfferedCases, Zenon DEF p
    <3>6. queue' = <<>> /\ ~timer' /\ timer' \in BOOLEAN /\ Behind' = TrackPress(Behind, e)
      <4>1. p.timer \in BOOLEAN
        <5>1. q \in Seq(EventRecord)
          BY <1>5
        <5>2. \E x : p.timer = (x # {})
          <6>1. p.timer = (Stalls(q) # {})
            BY Zenon DEF Passed, p
          <6> QED BY <6>1, Zenon
        <5> QED BY <5>2
      <4> QED BY <3>1, <3>2, <3>5, <4>1
    <3>7. QueueOK(<<>>) /\ Lifts(<<>>) /\ Len(<<>>) <= MaxQueue
      <4>1. Len(<<>>) = 0
        OBVIOUS
      <4> QED BY <4>1, MadeNone, MadeOK, MaxQueueNat
    <3>8. StagesOK'
      BY <3>3, <3>6, <3>7 DEF StagesOK
    <3>9. Known' => ~spoilt' /\ Lifts(queue')
      <4>1. Behind.track = track /\ Behind.spoilt = spoilt /\ Behind'.spoilt = spoilt'
        BY BehindFields, BehindPrimed
      <4>2. Known => ~TrackPress(Behind, e).spoilt
        <5>1. CASE active
          BY <1>0, <1>7, <2>2, <3>3, <4>1, <5>1
        <5>2. CASE ~active
          BY <1>0, <1>3, <1>5, <3>3, <4>1, <5>2
        <5> QED BY <5>1, <5>2
      <4> QED BY <1>10, <3>6, <3>7, <4>1, <4>2
    <3>10. ASSUME Plain PROVE Follows(queue', Behind', a)
      <4>0. queue = <<>>
        BY <1>9, <2>2
      <4>1. Matches(Behind, a)
        <5>1. Follows(<<>>, Behind, a)
          BY <1>11, <3>10, <4>0, Zenon
        <5> QED BY <5>1, EmptyFollows, Zenon
      <4>2. e.escape => ToSet(CharModifier) \subseteq KeysOf(a)
        BY <1>3, <1>5, <1>17, <1>18, <3>10
      <4>3. e.sym \in Syms /\ e.sym.key = Last(a).key /\ Last(a).key \in Letters
        BY <1>3, <1>5, <1>7, <1>17
      <4>4. Matches(TrackPress(Behind, e), a)
        BY <1>5, <1>17, <4>1, <4>2, <4>3, TrackPressMatches
      <4>5. Follows(<<>>, TrackPress(Behind, e), a)
        BY <4>4, EmptyFollows, Zenon
      <4> QED BY <3>6, <4>5, Zenon
    <3> QED BY <3>8, <3>9, <3>10
  <2> QED BY <1>8, <2>1, <2>2
<1>13. KeyTypes'
  <2>1. timer' \in BOOLEAN
    BY <1>12 DEF StagesOK
  <2>2. Distinct(held')
    BY <1>2, <1>8, Zenon
  <2>3. names' \in {"codes", "kept", "changed"}
    BY <1>0, <1>2 DEF KeyTypes
  <2> QED BY <1>2, <1>8, <2>1, <2>2, <2>3 DEF KeyTypes
<1>14. AwayOK' /\ FreshOK'
  BY <1>2, <1>7 DEF AwayOK, FreshOK, Seen
<1>15. Tuned'
  <2>1. Seen' /\ KnownHeld = held /\ KnownHeld' = held
    BY <1>2, <1>7 DEF KnownHeld, Seen
  <2> SUFFICES ASSUME ~across' PROVE Tuned'
    BY Zenon DEF Tuned
  <2>2. ~across
    BY <1>2
  <2>3. \A m \in Modifiers : mods'[m] = (m \in ToSet(KnownHeld'))
    <3>1. \A m \in Modifiers : mods[m] = (m \in ToSet(KnownHeld))
      BY <1>0, <2>2, Zenon DEF Tuned
    <3> QED BY <1>2, <2>1, <3>1
  <2>4. ASSUME names' # "changed" PROVE Follows(queue', Behind', KnownIds')
    <3>1. KnownIds' = a
      BY <1>2, <2>1, Zenon DEF KnownIds, a
    <3>2. Plain
      BY <1>2, <2>2, <2>4 DEF Plain
    <3> QED BY <1>12, <3>1, <3>2, Zenon
  <2> QED BY <2>1, <2>3, <2>4, Zenon DEF Tuned
<1>16. KeyTypes' /\ StagesOK' /\ FreshOK' /\ AwayOK' /\ Tuned' /\ (Known' => ~spoilt' /\ Lifts(queue'))
  BY <1>12, <1>13, <1>14, <1>15
<1> QED BY <1>16, Zenon DEF KeyInv, StagesOK

\* a step of the user or of the mouse that the keyboard does not see
LEMMA KeyStutter ==
  ASSUME KeyInv, UNCHANGED keyVars, UNCHANGED <<held, focus, across, unseen, names>>
  PROVE  KeyInv'
<1>0. KeyTypes /\ StagesOK /\ FreshOK /\ AwayOK /\ Tuned /\ (Known => ~spoilt /\ Lifts(queue))
  BY KeyStages, Zenon
<1>1. /\ mods' = mods /\ queue' = queue /\ timer' = timer /\ track' = track /\ down' = down
      /\ spoilt' = spoilt /\ fresh' = fresh /\ held' = held /\ focus' = focus
      /\ across' = across /\ unseen' = unseen /\ names' = names
  BY Zenon DEF keyVars
<1>2. KeyTypes'
  BY <1>0, <1>1 DEF KeyTypes, Distinct
<1>3. FreshOK'
  <2>1. Seen' <=> Seen
    BY <1>1 DEF Seen
  <2>2. \A m : Holds(m)' <=> Holds(m)
    BY <1>1 DEF Holds
  <2> QED BY <1>0, <1>1, <2>1, <2>2 DEF FreshOK, Holds
<1>4. AwayOK'
  BY <1>0, <1>1 DEF AwayOK
<1>5. ~across' => mods' = mods /\ KnownHeld' = KnownHeld /\ (~Seen' /\ unseen' = 0 => held' = <<>>)
  <2>1. Seen' <=> Seen
    BY <1>1 DEF Seen
  <2>2. KnownHeld' = KnownHeld
    BY <1>1, <2>1 DEF KnownHeld
  <2>3. ~across => (~Seen /\ unseen = 0 => held = <<>>)
    BY <1>0, Zenon DEF Tuned
  <2> QED BY <1>1, <2>1, <2>2, <2>3
<1> QED BY <1>1, <1>2, <1>3, <1>4, <1>5, StillKeyInv

LEMMA NoKeyPressInv ==
  ASSUME KeyInv, NoKeyPress
  PROVE  KeyInv'
<1>0. KeyTypes /\ FreshOK /\ AwayOK /\ Tuned
  BY KeyStages, Zenon
<1>1. /\ fresh # NoKey /\ fresh' = NoKey /\ mods' = mods /\ queue' = queue /\ timer' = timer
      /\ track' = track /\ down' = down /\ spoilt' = spoilt
      /\ held' = held /\ focus' = focus /\ across' = across /\ unseen' = unseen
      /\ names' = names
  BY Zenon DEF NoKeyPress, userVars
<1>2. KeyTypes'
  BY <1>0, <1>1 DEF KeyTypes, Distinct
<1>3. FreshOK' /\ AwayOK'
  BY <1>0, <1>1 DEF FreshOK, AwayOK
<1>4. Seen /\ Seen' /\ KnownHeld' = KnownHeld
  <2>1. Seen
    BY <1>0, <1>1, Zenon DEF FreshOK
  <2> QED BY <1>1, <2>1 DEF Seen, KnownHeld
<1> QED BY <1>1, <1>2, <1>3, <1>4, StillKeyInv

LEMMA StallTimerInv ==
  ASSUME KeyInv, StallTimer
  PROVE  KeyInv'
<1>0. /\ KeyTypes /\ StagesOK /\ FreshOK /\ AwayOK /\ Tuned /\ (Known => ~spoilt /\ Lifts(queue))
      /\ QueueOK(queue) /\ BehindOK(Behind) /\ Len(queue) <= MaxQueue
  BY KeyStages, Zenon DEF StagesOK
<1> DEFINE p == Passed(queue, Behind)
           K == IF p.timer
               THEN p.queue # <<>> /\ Last(p.queue) = Last(queue)
               ELSE /\ Last(queue).type = "keydown" =>
                          /\ p.s.track # <<>>
                          /\ Last(queue).sym # NoSym => Last(p.s.track).ignore
                    /\ Last(queue).type = "releaseall" => p.s.track = <<>>
<1>1. /\ BehindOK(p.s) /\ QueueOK(p.queue)
      /\ ~Behind.spoilt /\ Lifts(queue) => ~p.s.spoilt /\ Lifts(p.queue)
      /\ Len(p.queue) <= Len(queue)
      /\ p.timer \in BOOLEAN /\ (p.queue # <<>> => p.timer)
      /\ queue # <<>> /\ Last(queue).type \in {"keydown", "releaseall"} => K
  BY <1>0, PassedKeeps, Zenon
<1>2. timer /\ Becomes(p)
  BY Zenon DEF StallTimer
<1>3. /\ mods' = mods /\ fresh' = fresh /\ held' = held /\ focus' = focus /\ across' = across
      /\ unseen' = unseen /\ names' = names
  BY Zenon DEF StallTimer, userVars
<1> HIDE DEF p
<1>4. p.s \in BehindRecord
  BY <1>1, Zenon DEF BehindOK
<1>5. Behind' = p.s /\ queue' = p.queue /\ timer' = p.timer
  BY <1>2, <1>4, BecomesRecord, Zenon
<1>6. track' = p.s.track /\ spoilt' = p.s.spoilt /\ Behind.spoilt = spoilt
  BY <1>5, BehindFields, BehindPrimed
<1>7. Len(queue') <= MaxQueue
  <2>1. Len(p.queue) \in Nat /\ Len(queue) \in Nat
    <3>1. p.queue \in Seq(EventRecord) /\ queue \in Seq(EventRecord)
      BY <1>0, <1>1, Zenon DEF QueueOK
    <3> QED BY <3>1
  <2>2. Len(p.queue) <= MaxQueue
    BY <1>0, <1>1, <2>1, MaxQueueNat
  <2> QED BY <1>5, <2>2
<1>8. StagesOK'
  BY <1>1, <1>5, <1>7 DEF StagesOK
<1>9. KeyTypes'
  BY <1>0, <1>1, <1>3, <1>5 DEF KeyTypes, Distinct
<1>10. FreshOK'
  <2> SUFFICES ASSUME fresh' # NoKey PROVE FreshOK'
    BY Zenon DEF FreshOK
  <2>1. /\ fresh \in Letters /\ Seen /\ held # <<>> /\ Last(held) = fresh
        /\ \A m \in Flagged : mods[m] = Holds(m)
        /\ queue # <<>> /\ Last(queue).type = "keydown"
        /\ activeCharModifier(mods) => Last(queue).sym = Guess(fresh, ToSet(held))
    BY <1>0, <1>2, <1>3, Zenon DEF FreshOK
  <2>2. activeCharModifier(mods) => Last(queue).sym # NoSym
    BY <2>1, GuessFacts, KeyFacts
  <2>3. K
    BY <1>1, <2>1, Zenon
  <2>4. timer' => queue' # <<>> /\ Last(queue') = Last(queue)
    BY <1>5, <2>3, Zenon
  <2>5. ~timer' => track' # <<>> /\ (Last(queue).sym # NoSym => Last(track').ignore)
    BY <1>5, <1>6, <2>1, <2>3
  <2>6. /\ fresh' = fresh /\ held' = held /\ mods' = mods /\ (Seen' <=> Seen)
        /\ \A m : Holds(m)' <=> Holds(m)
    BY <1>3 DEF Seen, Holds
  <2> QED BY <2>1, <2>2, <2>4, <2>5, <2>6 DEF FreshOK, Holds
<1>11. AwayOK'
  <2> SUFFICES ASSUME focus' = "away" PROVE AwayOK'
    BY Zenon DEF AwayOK
  <2>1. queue # <<>> /\ Last(queue).type = "releaseall"
    BY <1>0, <1>2, <1>3, Zenon DEF AwayOK
  <2>2. K
    BY <1>1, <2>1
  <2> QED BY <1>5, <1>6, <2>1, <2>2 DEF AwayOK
<1>12. Known' => ~spoilt' /\ Lifts(queue')
  <2>1. Known' <=> Known
    BY <1>3 DEF Known
  <2> QED BY <1>0, <1>1, <1>5, <1>6, <2>1
<1>13. Tuned'
  <2> SUFFICES ASSUME ~across' PROVE Tuned'
    BY Zenon DEF Tuned
  <2>1. /\ names # "changed" => Follows(queue, Behind, KnownIds)
        /\ \A m \in Modifiers : mods[m] = (m \in ToSet(KnownHeld))
        /\ ~Seen /\ unseen = 0 => held = <<>>
    BY <1>0, <1>3, Zenon DEF Tuned
  <2>2. names # "changed" => Follows(p.queue, p.s, KnownIds)
    BY <1>0, <2>1, PassedFollows, Zenon DEF p
  <2>3. (Seen' <=> Seen) /\ KnownHeld' = KnownHeld
    BY <1>3 DEF Seen, KnownHeld
  <2>4. names' # "changed" => Follows(queue', Behind', KnownIds')
    <3>1. KnownIds' = KnownIds
      BY <1>3, <2>3, Zenon DEF KnownIds
    <3> QED BY <1>3, <1>5, <2>2, <3>1, Zenon
  <2>5. \A m \in Modifiers : mods'[m] = (m \in ToSet(KnownHeld'))
    BY <1>3, <2>1, <2>3
  <2>6. ~Seen' /\ unseen' = 0 => held' = <<>>
    BY <1>3, <2>1, <2>3
  <2> QED BY <2>4, <2>5, <2>6, Zenon DEF Tuned
<1>14. KeyTypes' /\ StagesOK' /\ FreshOK' /\ AwayOK' /\ Tuned' /\ (Known' => ~spoilt' /\ Lifts(queue'))
  BY <1>8, <1>9, <1>10, <1>11, <1>12, <1>13
<1> QED BY <1>14, Zenon DEF KeyInv, StagesOK

LEMMA LoseFocusInv ==
  ASSUME KeyInv, NEW to \in {"away", "field"}, LoseFocus(to)
  PROVE  KeyInv'
<1>0. KeyTypes /\ StagesOK /\ Tuned
  BY KeyStages, Zenon
<1>1. /\ fresh = NoKey /\ Seen /\ focus' = to /\ across' = (across \/ held # <<>> \/ pressed # {})
      /\ mods' = mods /\ fresh' = fresh /\ held' = held /\ unseen' = unseen
      /\ names' = names
  BY Zenon DEF LoseFocus
<1>2. across => across'
  BY <1>1
<1>3. ASSUME ~across'
      PROVE  /\ held = <<>> /\ KnownHeld = <<>> /\ KnownHeld' = <<>>
             /\ \A m \in Modifiers : mods[m] = (m \in ToSet(<<>>))
  <2>1. held = <<>> /\ ~across
    BY <1>1, <1>3
  <2>2. KnownHeld = <<>> /\ KnownHeld' = <<>>
    BY <1>1, <2>1 DEF KnownHeld
  <2>3. \A m \in Modifiers : mods[m] = (m \in ToSet(KnownHeld))
    BY <1>0, <2>1, Zenon DEF Tuned
  <2> QED BY <2>1, <2>2, <2>3
<1>4. CASE to = "away"
  <2> DEFINE e == Event("releaseall", NoSym, NoSym, FALSE)
  <2>1. Offered(<<e>>)
    BY <1>4, Zenon DEF LoseFocus
  <2>2. e \in EventRecord /\ Made(<<e>>) /\ e.type = "releaseall"
    <3> DEFINE type == "releaseall"
    <3>1. type \in EventTypes /\ type # "keypress" /\ NoSym \in Ids /\ NoSym \in Syms \cup {NoSym}
          /\ NoSym.level # "third"
      BY NoSymLevel DEF EventTypes, Ids
    <3>2. type = "releaseall"
      OBVIOUS
    <3> HIDE DEF type
    <3>3. e = Event(type, NoSym, NoSym, FALSE)
      BY <3>2
    <3> DEFINE e2 == Event(type, NoSym, NoSym, FALSE)
    <3>4. e2 \in EventRecord /\ Made(<<e2>>)
      BY <3>1, EventMade, Zenon
    <3>5. e2.type = type
      BY Zenon DEF Event
    <3> QED BY <3>2, <3>3, <3>4, <3>5, Zenon
  <2> HIDE DEF e
  <2> DEFINE q == <<e>>
  <2>3. q # <<>> /\ Last(q) = e
    BY DEF Last
  <2>4. Made(q) /\ Offered(q)
    BY <2>1, <2>2
  <2>5. StagesOK' /\ (q # <<>> /\ Last(q).type \in {"keydown", "releaseall"} =>
                          Arrived(Last(q), timer', queue', track'))
    BY <1>0, <2>4, OfferedMade
  <2>6. Arrived(e, timer', queue', track')
    <3>1. Last(q).type \in {"keydown", "releaseall"}
      BY <2>2, <2>3
    <3> QED BY <2>3, <2>5, <3>1, Zenon
  <2>7. KeyTypes'
    <3>1. timer' \in BOOLEAN
      BY <2>5 DEF StagesOK
    <3> QED BY <1>0, <1>1, <3>1 DEF KeyTypes, Distinct
  <2>8. FreshOK'
    BY <1>1 DEF FreshOK
  <2>9. AwayOK'
    BY <2>2, <2>6 DEF AwayOK, Arrived
  <2>10. ASSUME ~across'
         PROVE  /\ \A m \in Modifiers : mods'[m] = (m \in ToSet(KnownHeld'))
                /\ names' = "changed" \/ (names' = names /\ Moves(q, KnownIds, KnownIds'))
                /\ ~Seen' /\ unseen' = 0 => held' = <<>>
    <3>1. <<>> \in Seq(Syms)
      OBVIOUS
    <3>2. Leads(<<>>, e, <<>>)
      BY <2>2, <3>1, Zenon DEF Leads
    <3> DEFINE none == <<>>
    <3>3. none \in Seq(Syms) /\ Leads(none, e, none)
      BY <3>1, <3>2
    <3> HIDE DEF none
    <3>4. Moves(q, none, none)
      BY <2>2, <3>3, MovesOne
    <3>5. KnownIds = none /\ KnownIds' = none
      BY <1>3, <2>10, NamedNone, Zenon DEF none, KnownIds
    <3>6. Moves(q, KnownIds, KnownIds')
      BY <3>4, <3>5, Zenon
    <3> QED BY <1>1, <1>3, <2>10, <3>6
  <2> HIDE DEF q
  <2> QED BY <1>2, <2>4, <2>7, <2>8, <2>9, <2>10, OfferedKeyInv
<1>5. CASE to # "away"
  <2>1. UNCHANGED <<queue, timer, track, down, spoilt>>
    BY <1>5, Zenon DEF LoseFocus
  <2>2. KeyTypes'
    BY <1>0, <1>1, <2>1 DEF KeyTypes, Distinct
  <2>3. FreshOK' /\ AwayOK'
    BY <1>1, <1>5 DEF FreshOK, AwayOK
  <2>4. ~across' => mods' = mods /\ KnownHeld' = KnownHeld /\ (~Seen' /\ unseen' = 0 => held' = <<>>)
    BY <1>1, <1>3
  <2>5. names' = names
    BY <1>1
  <2> QED BY <1>2, <2>1, <2>2, <2>3, <2>4, <2>5, StillKeyInv
<1> QED BY <1>4, <1>5

LEMMA GetFocusInv ==
  ASSUME KeyInv, GetFocus
  PROVE  KeyInv'
<1>0. KeyTypes /\ Tuned
  BY KeyStages, Zenon
<1>1. /\ fresh = NoKey /\ ~Seen /\ focus' = "canvas"
      /\ across' = (across \/ held # <<>> \/ pressed # {})
      /\ mods' = mods /\ queue' = queue /\ timer' = timer
      /\ track' = track /\ down' = down /\ spoilt' = spoilt /\ fresh' = fresh
      /\ held' = held /\ unseen' = unseen /\ names' = names
  BY Zenon DEF GetFocus, keyVars
<1>2. across => across'
  BY <1>1
<1>3. KeyTypes'
  BY <1>0, <1>1 DEF KeyTypes, Distinct
<1>4. FreshOK' /\ AwayOK'
  BY <1>1 DEF FreshOK, AwayOK
<1>5. Seen'
  BY <1>1 DEF Seen
<1>6. ~across' => KnownHeld' = KnownHeld
  BY <1>1, <1>5 DEF KnownHeld
<1> QED BY <1>1, <1>2, <1>3, <1>4, <1>5, <1>6, StillKeyInv

LEMMA HeldMore ==
  ASSUME NEW h \in Seq(Keys), Distinct(h), NEW k \in Keys, k \notin ToSet(h)
  PROVE  /\ Append(h, k) \in Seq(Keys) /\ Distinct(Append(h, k)) /\ Append(h, k) # <<>>
         /\ Last(Append(h, k)) = k /\ ToSet(Append(h, k)) = ToSet(h) \cup {k}
<1> DEFINE w == Append(h, k)
<1>1. /\ w \in Seq(Keys) /\ Len(w) = Len(h) + 1 /\ w # <<>> /\ Last(w) = k
      /\ w[Len(h) + 1] = k /\ \A j \in 1..Len(h) : w[j] = h[j]
      /\ ToSet(w) = ToSet(h) \cup {k}
  BY AppendFacts
<1>2. Len(h) \in Nat /\ DOMAIN h = 1..Len(h) /\ \A j \in DOMAIN h : h[j] # k
  BY DEF ToSet
<1> HIDE DEF w
<1>3. DOMAIN w = 1..Len(h) + 1
  BY <1>1
<1>4. Distinct(w)
  <2> SUFFICES ASSUME NEW i \in DOMAIN w, NEW j \in DOMAIN w, w[i] = w[j] PROVE i = j
    BY Zenon DEF Distinct
  <2>1. CASE i \in 1..Len(h) /\ j \in 1..Len(h)
    <3>1. h[i] = h[j] /\ i \in DOMAIN h /\ j \in DOMAIN h
      BY <1>1, <1>2, <2>1
    <3> QED BY <3>1, Zenon DEF Distinct
  <2>2. CASE i = Len(h) + 1 \/ j = Len(h) + 1
    <3>1. \A x \in DOMAIN w : x # Len(h) + 1 => w[x] # k
      BY <1>1, <1>2, <1>3
    <3> QED BY <1>1, <2>2, <3>1
  <2> QED BY <1>2, <1>3, <2>1, <2>2
<1> QED BY <1>1, <1>4 DEF w

LEMMA PressInv ==
  ASSUME KeyInv, NEW k \in Keys, Press(k)
  PROVE  KeyInv'
<1>0. KeyTypes /\ Tuned
  BY KeyStages, Zenon
<1>1. /\ fresh = NoKey /\ ~Holds(k) /\ held' = Append(held, k)
      /\ IF Seen THEN keydown(k, ToSet(held) \cup {k}) ELSE UNCHANGED keyVars
      /\ unseen' = IF Seen THEN unseen ELSE unseen + 1
      /\ focus' = focus /\ across' = across /\ Renamed
  BY Zenon DEF Press
<1>8. names \in {"codes", "kept", "changed"}
  BY <1>0 DEF KeyTypes
<1>9. /\ names' \in {"codes", "kept", "changed"} /\ (names' = "changed" \/ names' = names)
      /\ names' # "changed" =>
             /\ names' = names
             /\ KeepIds(names, held, held')
  BY <1>1, <1>8, NamesKept, NamesTyped, Zenon
<1>2. held \in Seq(Keys) /\ Distinct(held) /\ unseen \in Nat /\ k \notin ToSet(held)
  BY <1>0, <1>1 DEF KeyTypes, Holds
<1> DEFINE w == Append(held, k)
<1>3. /\ w \in Seq(Keys) /\ Distinct(w) /\ w # <<>> /\ Last(w) = k
      /\ ToSet(w) = ToSet(held) \cup {k}
  BY <1>2, HeldMore, Zenon
<1> HIDE DEF w
<1>4. held' = w
  BY <1>1 DEF w
<1>5. Distinct(held')
  BY <1>3, <1>4, Zenon
<1>6. CASE Seen
  <2> DEFINE h == ToSet(held) \cup {k}
  <2>1. keydown(k, h) /\ unseen' = unseen
    BY <1>1, <1>6, Zenon
  <2>2. h = ToSet(held') /\ ToSet(held') = ToSet(held) \cup {k}
    BY <1>3, <1>4
  <2> HIDE DEF h
  <2>3. \/ k \notin ToSet(held) /\ held' = Append(held, k)
        \/ held # <<>> /\ held' = held /\ k \notin Modifiers
    BY <1>1, <1>2
  <2>4. held' \in Seq(Keys) /\ held' # <<>> /\ Last(held') = k
    BY <1>3, <1>4
  <2>5. focus' = focus /\ across' = across /\ fresh = NoKey
    BY <1>1
  <2> QED BY <1>5, <1>6, <2>1, <2>2, <2>3, <2>4, <2>5, <1>9, KeydownInv
<1>7. CASE ~Seen
  <2>1. /\ mods' = mods /\ queue' = queue /\ timer' = timer /\ track' = track /\ down' = down
        /\ spoilt' = spoilt /\ fresh' = fresh /\ unseen' = unseen + 1
    BY <1>1, <1>7, Zenon DEF keyVars
  <2>2. KeyTypes'
    <3>1. unseen' \in Nat
      BY <1>2, <2>1
    <3> QED BY <1>0, <1>3, <1>4, <1>5, <1>9, <2>1, <3>1 DEF KeyTypes
  <2>3. ~Seen' /\ KnownHeld' = KnownHeld
    BY <1>1, <1>7 DEF Seen, KnownHeld
  <2>4. FreshOK' /\ AwayOK'
    <3>1. AwayOK
      BY KeyStages, Zenon
    <3> QED BY <1>1, <2>1, <3>1 DEF FreshOK, AwayOK
  <2>5. unseen' # 0
    BY <1>2, <2>1
  <2> QED BY <1>1, <1>9, <2>1, <2>2, <2>3, <2>4, <2>5, StillKeyInv
<1> QED BY <1>6, <1>7

LEMMA RepeatInv ==
  ASSUME KeyInv, Repeat
  PROVE  KeyInv'
<1>0. KeyTypes
  BY KeyStages, Zenon
<1>1. /\ fresh = NoKey /\ Seen /\ held # <<>> /\ Last(held) \notin Modifiers
      /\ keydown(Last(held), ToSet(held))
      /\ held' = held /\ focus' = focus /\ across' = across /\ unseen' = unseen
      /\ names' = names
  BY Zenon DEF Repeat, userVars
<1>2. held \in Seq(Keys) /\ Distinct(held)
  BY <1>0 DEF KeyTypes
<1> DEFINE k == Last(held)
           h == ToSet(held)
<1>3. k \in Keys /\ k \in ToSet(held)
  <2>1. Len(held) \in DOMAIN held /\ held[Len(held)] \in Keys
    BY <1>1, <1>2
  <2> QED BY <2>1 DEF Last, ToSet
<1>4. /\ h = ToSet(held') /\ ToSet(held') = ToSet(held) \cup {k}
      /\ held' \in Seq(Keys) /\ held' # <<>> /\ Last(held') = k
  <2>1. ToSet(held) = ToSet(held) \cup {k}
    BY <1>3
  <2> QED BY <1>1, <1>2, <2>1
<1>5. Distinct(held')
  BY <1>1, <1>2, Zenon
<1>9. names' \in {"codes", "kept", "changed"}
  BY <1>0, <1>1 DEF KeyTypes
<1>10. /\ names' = names
       /\ KeepIds(names, held, held')
  BY <1>1, Zenon DEF KeepIds
<1>6. keydown(k, h) /\ k \notin Modifiers
  BY <1>1
<1> HIDE DEF h, k
<1>7. \/ k \notin ToSet(held) /\ held' = Append(held, k)
      \/ held # <<>> /\ held' = held /\ k \notin Modifiers
  BY <1>1, <1>6
<1>8. fresh = NoKey /\ Seen /\ focus' = focus /\ across' = across /\ unseen' = unseen
  BY <1>1
<1> QED BY <1>3, <1>4, <1>5, <1>6, <1>7, <1>8, <1>9, <1>10, KeydownInv

LEMMA ReleaseInv ==
  ASSUME KeyInv, NEW k \in Keys, Release(k)
  PROVE  KeyInv'
<1>0. KeyTypes /\ Tuned
  BY KeyStages, Zenon
<1>1. PICK i \in DOMAIN held : held[i] = k /\ held' = RemoveAt(held, i)
  BY Zenon DEF Release
<1>6. Renamed /\ names \in {"codes", "kept", "changed"}
  BY <1>0, Zenon DEF Release, KeyTypes
<1>7. /\ names' \in {"codes", "kept", "changed"} /\ (names' = "changed" \/ names' = names)
      /\ names' # "changed" =>
             /\ names' = names
             /\ KeepIds(names, held, held')
  BY <1>6, NamesKept, NamesTyped, Zenon
<1>2. /\ fresh = NoKey /\ focus' = focus /\ across' = across /\ unseen' = unseen
      /\ IF Seen THEN keyup(k, ToSet(held) \ {k}) ELSE UNCHANGED keyVars
  BY Zenon DEF Release
<1>3. held \in Seq(Keys) /\ Distinct(held) /\ unseen \in Nat
  BY <1>0 DEF KeyTypes
<1>4. CASE Seen
  <2> DEFINE h == ToSet(held) \ {k}
  <2>1. keyup(k, h) /\ h = ToSet(held) \ {k}
    BY <1>2, <1>4
  <2> HIDE DEF h
  <2>2. fresh = NoKey /\ focus' = focus /\ across' = across /\ unseen' = unseen
    BY <1>2
  <2> QED BY <1>1, <1>4, <1>7, <2>1, <2>2, KeyupInv
<1>5. CASE ~Seen
  <2>1. /\ mods' = mods /\ queue' = queue /\ timer' = timer /\ track' = track /\ down' = down
        /\ spoilt' = spoilt /\ fresh' = fresh
    BY <1>2, <1>5, Zenon DEF keyVars
  <2>2. held' \in Seq(Keys) /\ Distinct(held')
    <3>1. i \in 1..Len(held)
      BY <1>3
    <3> DEFINE h2 == RemoveAt(held, i)
    <3>2. Distinct(h2) /\ h2 \in Seq(Keys)
      BY <1>3, <3>1, DistinctRemove
    <3> HIDE DEF h2
    <3>3. held' = h2
      BY <1>1 DEF h2
    <3>4. Distinct(held')
      BY <3>2, <3>3, Zenon
    <3> QED BY <3>2, <3>3, <3>4
  <2>3. KeyTypes'
    BY <1>0, <1>2, <1>7, <2>1, <2>2 DEF KeyTypes
  <2>4. ~Seen' /\ KnownHeld' = KnownHeld
    BY <1>2, <1>5 DEF Seen, KnownHeld
  <2>5. FreshOK' /\ AwayOK'
    <3>1. AwayOK
      BY KeyStages, Zenon
    <3> QED BY <1>2, <2>1, <3>1 DEF FreshOK, AwayOK
  <2>6. ~across' => unseen' # 0
    <3>1. ~across => (~Seen /\ unseen = 0 => held = <<>>)
      BY <1>0, Zenon DEF Tuned
    <3>2. held # <<>>
      BY <1>1
    <3> QED BY <1>2, <1>5, <3>1, <3>2
  <2> QED BY <1>2, <1>7, <2>1, <2>3, <2>4, <2>5, <2>6, StillKeyInv
<1> QED BY <1>4, <1>5

LEMMA MouseKeyInv ==
  ASSUME KeyInv, MouseNext
  PROVE  KeyInv'
<1> DEFINE Same == held' = held /\ focus' = focus /\ across' = across /\ unseen' = unseen /\ names' = names
           Reported == Notify /\ Seen /\ fresh = NoKey
           Quiet == UNCHANGED keyVars
<1>1. Same /\ (Reported \/ Quiet)
  <2>1. ASSUME NEW b \in Buttons, MouseDown(b) PROVE Same /\ (Reported \/ Quiet)
    BY <2>1, Zenon DEF MouseDown
  <2>2. ASSUME NEW b \in Buttons, MouseUp(b) PROVE Same /\ (Reported \/ Quiet)
    BY <2>2, Zenon DEF MouseUp
  <2>3. ASSUME MouseMove \/ MouseWheel PROVE Same /\ (Reported \/ Quiet)
    BY <2>3, Zenon DEF MouseMove, MouseWheel, userVars
  <2>4. ASSUME toggleViewDrag \/ updateViewDrag PROVE Same /\ (Reported \/ Quiet)
    BY <2>4, Zenon DEF toggleViewDrag, updateViewDrag, userVars
  <2> QED BY <2>1, <2>2, <2>3, <2>4, Zenon DEF MouseNext
<1> QED BY <1>1, NotifyInv, KeyStutter

LEMMA KeyInit == InputInit => KeyInv
<1> SUFFICES ASSUME InputInit PROVE KeyInv
  OBVIOUS
<1>1. /\ mods = [m \in Modifiers |-> FALSE] /\ queue = <<>> /\ timer = FALSE
      /\ track = <<>> /\ down = {} /\ spoilt = FALSE /\ fresh = NoKey
      /\ held = <<>> /\ focus = "canvas" /\ unseen = 0
      /\ names \in {"codes", "kept"}
  BY Zenon DEF InputInit
<1>2. Seen /\ KnownHeld = <<>> /\ <<>> \in Seq(Syms) /\ Apart(<<>>)
  BY <1>1 DEF Seen, KnownHeld, Apart
<1>3. KeyTypes
  <2>1. <<>> \in Seq(Keys) /\ Distinct(<<>>)
    BY DEF Distinct
  <2> QED BY <1>1, <2>1 DEF KeyTypes
<1>4. Matches(Behind, <<>>) /\ BehindOK(Behind)
  <2> DEFINE no == FALSE
             none == {}
             b == [track |-> <<>>, down |-> none, spoilt |-> no]
  <2>1. no \in BOOLEAN /\ none \subseteq Syms /\ <<>> \in Seq(EntryRecord)
    OBVIOUS
  <2>2. none = {}
    OBVIOUS
  <2>3. Behind = b
    BY <1>1 DEF Behind
  <2> HIDE DEF no, none
  <2>4. b \in BehindRecord
    BY <2>1, Zenon DEF BehindRecord
  <2>5. b.track = <<>> /\ b.down = {}
    BY <2>2
  <2> HIDE DEF b
  <2>6. SymsOf(<<>>) = {}
    BY DEF SymsOf
  <2>7. BehindOK(b)
    BY <2>4, <2>5, <2>6 DEF BehindOK
  <2>8. Matches(b, <<>>)
    BY <1>2, <2>5, <2>6, <2>7 DEF Matches
  <2> QED BY <2>3, <2>7, <2>8
<1>5. QueueOK(queue) /\ Lifts(queue) /\ Len(queue) <= MaxQueue
  <2>1. Len(<<>>) = 0
    OBVIOUS
  <2> QED BY <1>1, <2>1, MadeNone, MadeOK, MaxQueueNat
<1>6. Tuned
  <2>1. Follows(<<>>, Behind, <<>>)
    BY <1>4, EmptyFollows, Zenon
  <2>2. Follows(queue, Behind, KnownIds)
    <3>1. KnownIds = <<>>
      BY <1>2, NamedNone, Zenon DEF KnownIds
    <3> QED BY <1>1, <2>1, <3>1, Zenon
  <2>3. \A m \in Modifiers : mods[m] = (m \in ToSet(KnownHeld))
    <3>1. \A m \in Modifiers : m \notin ToSet(KnownHeld)
      BY <1>2 DEF ToSet
    <3>2. \A m \in Modifiers : mods[m] = FALSE /\ (m \in ToSet(KnownHeld)) = FALSE
      BY <1>1, <3>1
    <3> QED BY <3>2
  <2> QED BY <1>2, <2>2, <2>3, Zenon DEF Tuned
<1>7. FreshOK /\ AwayOK
  BY <1>1 DEF FreshOK, AwayOK
<1>8. ~spoilt /\ (queue # <<>> => timer)
  BY <1>1
<1> QED BY <1>3, <1>4, <1>5, <1>6, <1>7, <1>8, Zenon DEF KeyInv

\* each step keeps the keyboard's half of the invariant
LEMMA KeyStep == KeyInv /\ [InputNext]_inputVars => KeyInv'
<1> SUFFICES ASSUME KeyInv, [InputNext]_inputVars PROVE KeyInv'
  OBVIOUS
<1>1. ASSUME NEW k \in Keys, Press(k) PROVE KeyInv'
  BY <1>1, PressInv
<1>2. ASSUME NEW k \in Keys, Release(k) PROVE KeyInv'
  BY <1>2, ReleaseInv
<1>3. CASE Repeat
  BY <1>3, RepeatInv
<1>4. CASE KeyPress
  BY <1>4, KeyPressInv
<1>5. CASE NoKeyPress
  BY <1>5, NoKeyPressInv
<1>6. CASE StallTimer
  BY <1>6, StallTimerInv
<1>7. CASE MouseNext
  BY <1>7, MouseKeyInv
<1>8. CASE FocusNext
  BY <1>8, LoseFocusInv, GetFocusInv, Zenon DEF FocusNext
<1>9. CASE UNCHANGED inputVars
  <2>1. UNCHANGED keyVars /\ UNCHANGED <<held, focus, across, unseen, names>>
    BY <1>9, Zenon DEF inputVars, userVars
  <2> QED BY <2>1, KeyStutter
<1> QED BY <1>1, <1>2, <1>3, <1>4, <1>5, <1>6, <1>7, <1>8, <1>9, Zenon DEF InputNext, KeyboardNext

LEMMA MouseFields ==
  ASSUME NEW n \in MouseRecord
  PROVE  /\ n.captured \in BOOLEAN /\ n.mask \in SUBSET (Buttons \cup {Wheel}) /\ n.drag \in BOOLEAN
         /\ n.dragging \in BOOLEAN /\ n.told \in SUBSET (Buttons \cup {Wheel})
BY Zenon DEF MouseRecord

\* n is the mouse before, w the one after a button goes down or up; the mask then is m
Pushed(n, w, isDown, m) ==
    /\ w \in MouseRecord /\ w.captured = n.captured /\ w.mask = m
    /\ IF n.drag /\ isDown /\ ~n.dragging THEN w.dragging /\ w.told = n.told ELSE w.told = m

LEMMA MouseButtonFields ==
  ASSUME NEW n \in MouseRecord, NEW isDown \in BOOLEAN, NEW b \in Buttons \cup {Wheel}
  PROVE  Pushed(n, mouseButton(n, isDown, b), isDown,
                IF isDown THEN n.mask \cup {b} ELSE Flip(n.mask, {b}))
<1> DEFINE mask == IF isDown THEN n.mask \cup {b} ELSE Flip(n.mask, {b})
<1> DEFINE yes == TRUE
           still == n.dragging /\ ~n.drag
           r == [n EXCEPT !.mask = mask, !.dragging = yes]
           final == [n EXCEPT !.mask = mask, !.dragging = still, !.told = mask]
<1>1. mouseButton(n, isDown, b) = IF n.drag /\ isDown /\ ~n.dragging THEN r ELSE final
  BY Zenon DEF mouseButton
<1>2. /\ n.captured \in BOOLEAN /\ n.mask \in SUBSET (Buttons \cup {Wheel}) /\ n.drag \in BOOLEAN
      /\ n.dragging \in BOOLEAN /\ n.told \in SUBSET (Buttons \cup {Wheel})
  BY MouseFields, Zenon
<1>3. mask \in SUBSET (Buttons \cup {Wheel})
  BY <1>2 DEF Flip
<1>4. yes \in BOOLEAN /\ still \in BOOLEAN
  OBVIOUS
<1>5. yes
  OBVIOUS
<1> HIDE DEF yes, still, mask
<1>6. /\ r \in MouseRecord /\ r.captured = n.captured /\ r.drag = n.drag /\ r.mask = mask
      /\ r.dragging = yes /\ r.told = n.told
  BY <1>3, <1>4, Zenon DEF MouseRecord
<1>7. /\ final \in MouseRecord /\ final.captured = n.captured /\ final.drag = n.drag /\ final.mask = mask
      /\ final.told = mask
  BY <1>3, <1>4, Zenon DEF MouseRecord
<1> HIDE DEF r, final
<1>8. CASE n.drag /\ isDown /\ ~n.dragging
  <2>1. mouseButton(n, isDown, b) = r
    BY <1>1, <1>8, Zenon
  <2>2. Pushed(n, r, isDown, mask)
    BY <1>5, <1>6, <1>8 DEF Pushed
  <2> QED BY <2>1, <2>2, Zenon DEF mask
<1>9. CASE ~(n.drag /\ isDown /\ ~n.dragging)
  <2>1. mouseButton(n, isDown, b) = final
    BY <1>1, <1>9, Zenon
  <2>2. Pushed(n, final, isDown, mask)
    BY <1>7, <1>9 DEF Pushed
  <2> QED BY <2>1, <2>2, Zenon DEF mask
<1> QED BY <1>8, <1>9

LEMMA MouseInit == InputInit => MouseInv
<1> SUFFICES ASSUME InputInit PROVE MouseInv
  OBVIOUS
<1> DEFINE no == FALSE
           none == {}
           n == [captured |-> no, mask |-> none, drag |-> no, dragging |-> no, told |-> none]
<1>1. mouse = n /\ pressed = {}
  BY DEF InputInit
<1>2. no \in BOOLEAN /\ none \in SUBSET (Buttons \cup {Wheel})
  OBVIOUS
<1>3. none = {}
  OBVIOUS
<1> HIDE DEF no, none
<1>4. n \in MouseRecord
  BY <1>2, Zenon DEF MouseRecord
<1>5. n.mask = {} /\ n.told = {}
  BY <1>3
<1> HIDE DEF n
<1> QED BY <1>1, <1>4, <1>5 DEF MouseInv, MouseOK

\* n is the mouse after a button goes down or up, but for what is captured
LEMMA CapturedFields ==
  ASSUME NEW n \in MouseRecord, NEW c \in BOOLEAN
  PROVE  /\ [n EXCEPT !.captured = c] \in MouseRecord
         /\ [n EXCEPT !.captured = c].captured = c /\ [n EXCEPT !.captured = c].mask = n.mask
         /\ [n EXCEPT !.captured = c].told = n.told /\ [n EXCEPT !.captured = c].dragging = n.dragging
BY Zenon DEF MouseRecord

LEMMA MouseDownInv ==
  ASSUME MouseInv, NEW b \in Buttons, MouseDown(b)
  PROVE  MouseInv'
<1>0. mouse \in MouseRecord /\ pressed \subseteq Buttons /\ MouseOK
  BY DEF MouseInv
<1>1. /\ focus' = focus /\ across' = across /\ b \notin pressed /\ pressed' = pressed \cup {b}
      /\ chord' = (chord \/ pressed # {})
  BY Zenon DEF MouseDown
<1>2. Seen' <=> Seen
  BY <1>1 DEF Seen
<1> DEFINE yes == TRUE
<1>3. yes /\ yes \in BOOLEAN
  OBVIOUS
<1>4. b \in Buttons \cup {Wheel}
  OBVIOUS
<1>5. CASE Seen
  <2> DEFINE n == mouseButton(mouse, yes, b)
             m == mouse.mask \cup {b}
             r == [n EXCEPT !.captured = yes]
  <2>1. mouse' = r
    BY <1>5, Zenon DEF MouseDown
  <2>2. m = mouse.mask \cup {b}
    OBVIOUS
  <2> HIDE DEF yes, m
  <2>3. /\ n \in MouseRecord /\ n.mask = m
        /\ IF mouse.drag /\ yes /\ ~mouse.dragging THEN n.dragging /\ n.told = mouse.told ELSE n.told = m
    <3>1. mouse \in MouseRecord
      BY <1>0
    <3>2. yes \in BOOLEAN
      BY <1>3
    <3>3. Pushed(mouse, n, yes, IF yes THEN mouse.mask \cup {b} ELSE Flip(mouse.mask, {b}))
      BY <1>4, <3>1, <3>2, MouseButtonFields, Zenon
    <3>4. Pushed(mouse, n, yes, m)
      BY <1>3, <2>2, <3>3, Zenon
    <3> QED BY <3>4, Zenon DEF Pushed
  <2> HIDE DEF n
  <2>4. /\ r \in MouseRecord /\ r.captured = yes /\ r.mask = n.mask /\ r.told = n.told
        /\ r.dragging = n.dragging
    BY <1>3, <2>3, CapturedFields, Zenon
  <2> HIDE DEF r
  <2>5. ASSUME ~across', ~chord' PROVE MouseOK'
    <3>1. ~across /\ ~chord /\ pressed = {} /\ pressed' = {b}
      BY <1>1, <2>5
    <3>2. mouse.mask = {} /\ mouse.told = {}
      BY <1>0, <1>5, <3>1 DEF MouseOK
    <3>3. r.mask = {b} /\ r.told \subseteq {b} /\ (~r.dragging => r.told = {b}) /\ r.captured
      BY <1>3, <2>2, <2>3, <2>4, <3>2
    <3> QED BY <1>2, <1>5, <2>1, <3>1, <3>3 DEF MouseOK
  <2>6. MouseOK'
    BY <2>5 DEF MouseOK
  <2> QED BY <1>0, <1>1, <2>1, <2>4, <2>6 DEF MouseInv
<1>6. CASE ~Seen
  <2> DEFINE r == [mouse EXCEPT !.captured = yes]
  <2>1. mouse' = r
    BY <1>6, Zenon DEF MouseDown
  <2> HIDE DEF yes
  <2>2. r \in MouseRecord /\ r.mask = mouse.mask /\ r.told = mouse.told
    BY <1>0, <1>3, CapturedFields, Zenon
  <2> HIDE DEF r
  <2>3. MouseOK'
    <3> SUFFICES ASSUME ~across', ~chord' PROVE MouseOK'
      BY DEF MouseOK
    <3>1. ~across /\ ~chord /\ pressed' = {b}
      BY <1>1
    <3>2. mouse.mask = {} /\ mouse.told = {}
      BY <1>0, <1>6, <3>1 DEF MouseOK
    <3> QED BY <1>2, <1>6, <2>1, <2>2, <3>1, <3>2 DEF MouseOK
  <2> QED BY <1>0, <1>1, <2>1, <2>2, <2>3 DEF MouseInv
<1> QED BY <1>5, <1>6

LEMMA MouseUpInv ==
  ASSUME MouseInv, NEW b \in Buttons, MouseUp(b)
  PROVE  MouseInv'
<1>0. mouse \in MouseRecord /\ pressed \subseteq Buttons /\ MouseOK
  BY DEF MouseInv
<1>1. /\ focus' = focus /\ across' = across /\ b \in pressed /\ pressed' = pressed \ {b}
      /\ chord' = chord
  BY Zenon DEF MouseUp
<1>2. Seen' <=> Seen
  BY <1>1 DEF Seen
<1>3. ~across' /\ ~chord' => ~across /\ ~chord /\ pressed = {b} /\ pressed' = {}
  BY <1>0, <1>1 DEF MouseOK
<1>4. CASE mouse.captured /\ Seen
  <2> DEFINE no == FALSE
             n == mouseButton(mouse, no, b)
             m == Flip(mouse.mask, {b})
             r == [n EXCEPT !.captured = no]
  <2>1. mouse' = r
    BY <1>4, Zenon DEF MouseUp
  <2>2. m = Flip(mouse.mask, {b})
    OBVIOUS
  <2>3. no \in BOOLEAN /\ b \in Buttons \cup {Wheel}
    OBVIOUS
  <2>4. ~no
    OBVIOUS
  <2> HIDE DEF no, m
  <2>5. /\ n \in MouseRecord /\ n.mask = m
        /\ IF mouse.drag /\ no /\ ~mouse.dragging THEN n.dragging /\ n.told = mouse.told ELSE n.told = m
    <3>1. mouse \in MouseRecord
      BY <1>0
    <3>2. Pushed(mouse, n, no, IF no THEN mouse.mask \cup {b} ELSE Flip(mouse.mask, {b}))
      BY <2>3, <3>1, MouseButtonFields, Zenon
    <3>3. Pushed(mouse, n, no, m)
      BY <2>2, <2>4, <3>2, Zenon
    <3> QED BY <3>3, Zenon DEF Pushed
  <2> HIDE DEF n
  <2>6. r \in MouseRecord /\ r.mask = n.mask /\ r.told = n.told
    BY <2>3, <2>5, CapturedFields, Zenon
  <2> HIDE DEF r
  <2>7. r.mask = m /\ r.told = m
    BY <2>4, <2>5, <2>6
  <2>8. MouseOK'
    <3> SUFFICES ASSUME ~across', ~chord' PROVE MouseOK'
      BY DEF MouseOK
    <3>1. mouse.mask = {b} /\ pressed' = {}
      BY <1>0, <1>3, <1>4 DEF MouseOK
    <3>2. m = {}
      BY <3>1 DEF m, Flip
    <3> QED BY <1>2, <1>4, <2>1, <2>7, <3>1, <3>2 DEF MouseOK
  <2> QED BY <1>0, <1>1, <2>1, <2>6, <2>8 DEF MouseInv
<1>5. CASE ~(mouse.captured /\ Seen)
  <2> DEFINE c == mouse.captured /\ focus = "away"
             r == [mouse EXCEPT !.captured = c]
  <2>1. mouse' = r
    BY <1>5, Zenon DEF MouseUp
  <2>2. c \in BOOLEAN
    OBVIOUS
  <2> HIDE DEF c
  <2>3. r \in MouseRecord /\ r.mask = mouse.mask /\ r.told = mouse.told
    BY <1>0, <2>2, CapturedFields, Zenon
  <2> HIDE DEF r
  <2>4. MouseOK'
    <3> SUFFICES ASSUME ~across', ~chord' PROVE MouseOK'
      BY DEF MouseOK
    <3>1. ~Seen /\ pressed' = {}
      BY <1>0, <1>3, <1>5 DEF MouseOK
    <3>2. mouse.mask = {} /\ mouse.told = {}
      BY <1>0, <1>3, <3>1 DEF MouseOK
    <3> QED BY <1>2, <2>1, <2>3, <3>1, <3>2 DEF MouseOK
  <2> QED BY <1>0, <1>1, <2>1, <2>3, <2>4 DEF MouseInv
<1> QED BY <1>4, <1>5

\* a turn of the wheel leaves the mask as it is, and tells it
LEMMA WheelFields ==
  ASSUME NEW n \in MouseRecord
  PROVE  LET w == mouseButton(mouseButton(n, TRUE, Wheel), FALSE, Wheel)
         IN  /\ w \in MouseRecord /\ w.captured = n.captured
             /\ n.mask \subseteq Buttons => w.mask = n.mask /\ w.told = n.mask
<1> DEFINE yes == TRUE
           no == FALSE
           m == n.mask \cup {Wheel}
           a == mouseButton(n, yes, Wheel)
           m2 == Flip(m, {Wheel})
           w == mouseButton(a, no, Wheel)
<1>1. yes \in BOOLEAN /\ no \in BOOLEAN /\ Wheel \in Buttons \cup {Wheel}
  OBVIOUS
<1>2. ~no
  OBVIOUS
<1>3. yes
  OBVIOUS
<1>4. m = n.mask \cup {Wheel} /\ m2 = Flip(m, {Wheel})
  OBVIOUS
<1>5. n.mask \subseteq Buttons => m2 = n.mask
  BY KeyFacts DEF Flip
<1> HIDE DEF yes, no, m, m2
<1>6. a \in MouseRecord /\ a.mask = m /\ a.captured = n.captured
  <2>1. Pushed(n, a, yes, IF yes THEN n.mask \cup {Wheel} ELSE Flip(n.mask, {Wheel}))
    BY <1>1, MouseButtonFields, Zenon
  <2>2. Pushed(n, a, yes, m)
    BY <1>3, <1>4, <2>1, Zenon
  <2> QED BY <2>2, Zenon DEF Pushed
<1> HIDE DEF a
<1>7. w \in MouseRecord /\ w.captured = a.captured /\ w.mask = m2 /\ w.told = m2
  <2>1. Pushed(a, w, no, IF no THEN a.mask \cup {Wheel} ELSE Flip(a.mask, {Wheel}))
    BY <1>1, <1>6, MouseButtonFields, Zenon
  <2>2. Pushed(a, w, no, m2)
    BY <1>2, <1>4, <1>6, <2>1, Zenon
  <2> QED BY <1>2, <2>2, Zenon DEF Pushed
<1> HIDE DEF w
<1>9. /\ w \in MouseRecord /\ w.captured = n.captured
      /\ n.mask \subseteq Buttons => w.mask = n.mask /\ w.told = n.mask
  BY <1>5, <1>6, <1>7
<1> QED BY <1>9, Zenon DEF w, a, yes, no

LEMMA MouseStep == MouseInv /\ [InputNext]_inputVars => MouseInv'
<1> SUFFICES ASSUME MouseInv, [InputNext]_inputVars PROVE MouseInv'
  OBVIOUS
<1>0. mouse \in MouseRecord /\ pressed \subseteq Buttons /\ MouseOK
  BY DEF MouseInv
<1> DEFINE Same == pressed' = pressed /\ focus' = focus /\ across' = across /\ chord' = chord
           Put(n) == /\ mouse' = n /\ n \in MouseRecord
                     /\ n.mask = mouse.mask /\ n.told = mouse.told
                     /\ n.captured = mouse.captured /\ n.dragging = mouse.dragging
           Sent(n) == /\ Seen /\ mouse' = n /\ n \in MouseRecord /\ n.captured = mouse.captured
                      /\ mouse.mask \subseteq Buttons => n.mask = mouse.mask /\ n.told = mouse.mask
<1>1. ASSUME Same, NEW n, Put(n) PROVE MouseInv'
  <2>1. Seen' <=> Seen
    BY <1>1 DEF Seen
  <2>2. MouseOK'
    BY <1>0, <1>1, <2>1 DEF MouseOK
  <2> QED BY <1>0, <1>1, <2>2 DEF MouseInv
<1>1a. Put(mouse) <=> mouse' = mouse
  BY <1>0
<1>1b. ASSUME Same, NEW n, Sent(n) PROVE MouseInv'
  <2>1. Seen'
    BY <1>1b DEF Seen
  <2>2. ASSUME ~across', ~chord' PROVE MouseOK'
    <3>1. /\ pressed' = pressed /\ mouse.mask = pressed /\ (pressed # {} => mouse.captured)
          /\ \A a, b \in pressed : a = b
      BY <1>0, <1>1b, <2>2 DEF MouseOK
    <3>2. mouse'.mask = pressed /\ mouse'.told = pressed /\ mouse'.captured = mouse.captured
      BY <1>0, <1>1b, <3>1
    <3> QED BY <2>1, <3>1, <3>2 DEF MouseOK
  <2>3. MouseOK'
    BY <2>2 DEF MouseOK
  <2> QED BY <1>0, <1>1b, <2>3 DEF MouseInv
<1> HIDE DEF Put, Sent
<1>2. ASSUME NEW k \in Keys, Press(k) \/ Release(k) PROVE MouseInv'
  BY <1>1, <1>1a, <1>2, Zenon DEF Press, Release
<1>3. CASE Repeat \/ KeyPress \/ NoKeyPress \/ StallTimer \/ UNCHANGED inputVars
  BY <1>1, <1>1a, <1>3, Zenon DEF Repeat, KeyPress, NoKeyPress, StallTimer, inputVars, userVars
<1>4. ASSUME NEW b \in Buttons, MouseDown(b) PROVE MouseInv'
  BY <1>4, MouseDownInv
<1>5. ASSUME NEW b \in Buttons, MouseUp(b) PROVE MouseInv'
  BY <1>5, MouseUpInv
<1>6. CASE MouseWheel
  <2> DEFINE w == mouseButton(mouseButton(mouse, TRUE, Wheel), FALSE, Wheel)
  <2>1. mouse' = w /\ Same /\ Seen
    BY <1>6, Zenon DEF MouseWheel, userVars
  <2>2. /\ w \in MouseRecord /\ w.captured = mouse.captured
        /\ mouse.mask \subseteq Buttons => w.mask = mouse.mask /\ w.told = mouse.mask
    BY <1>0, WheelFields
  <2> HIDE DEF w
  <2> QED BY <1>1b, <2>1, <2>2 DEF Sent
<1>7. CASE MouseMove
  <2> DEFINE n == [mouse EXCEPT !.told = mouse.mask]
  <2>1. Same /\ Seen /\ mouse' = IF mouse.dragging THEN mouse ELSE n
    BY <1>7, Zenon DEF MouseMove, userVars
  <2>2. mouse.mask \in SUBSET (Buttons \cup {Wheel})
    BY <1>0, MouseFields
  <2>3. n \in MouseRecord /\ n.captured = mouse.captured /\ n.mask = mouse.mask /\ n.told = mouse.mask
    BY <1>0, <2>2, Zenon DEF MouseRecord
  <2> HIDE DEF n
  <2>4. CASE mouse.dragging
    <3>1. mouse' = mouse
      BY <2>1, <2>4, Zenon
    <3> QED BY <1>1, <1>1a, <2>1, <3>1
  <2>5. CASE ~mouse.dragging
    <3>1. mouse' = n
      BY <2>1, <2>5, Zenon
    <3>2. Sent(n)
      BY <2>1, <2>3, <3>1 DEF Sent
    <3> QED BY <1>1b, <2>1, <3>2
  <2> QED BY <2>4, <2>5
<1>8. CASE toggleViewDrag \/ updateViewDrag
  <2>1. PICK d \in BOOLEAN : mouse' = [mouse EXCEPT !.drag = d]
    <3>1. CASE toggleViewDrag
      <4>1. mouse' = [mouse EXCEPT !.drag = ~mouse.drag]
        BY <3>1, Zenon DEF toggleViewDrag
      <4> DEFINE d == ~mouse.drag
      <4>2. d \in BOOLEAN
        OBVIOUS
      <4> QED BY <4>1, <4>2
    <3>2. CASE updateViewDrag
      <4> DEFINE d == FALSE
      <4>1. mouse' = [mouse EXCEPT !.drag = d]
        BY <3>2, Zenon DEF updateViewDrag
      <4>2. d \in BOOLEAN
        OBVIOUS
      <4> HIDE DEF d
      <4> QED BY <4>1, <4>2
    <3> QED BY <1>8, <3>1, <3>2
  <2> DEFINE n == [mouse EXCEPT !.drag = d]
  <2>2. /\ n \in MouseRecord /\ n.mask = mouse.mask /\ n.told = mouse.told
        /\ n.captured = mouse.captured /\ n.dragging = mouse.dragging
    BY <1>0, Zenon DEF MouseRecord
  <2>3. mouse' = n
    BY <2>1
  <2> HIDE DEF n
  <2>4. Same
    BY <1>8, Zenon DEF toggleViewDrag, updateViewDrag, userVars
  <2> QED BY <1>1, <2>2, <2>3, <2>4 DEF Put
<1>9. CASE FocusNext
  <2> DEFINE Moved == /\ mouse' = mouse /\ pressed' = pressed /\ chord' = chord
                      /\ across' = (across \/ held # <<>> \/ pressed # {})
                      /\ (Seen' /\ ~Seen) \/ (Seen /\ ~Seen')
  <2>1. Moved
    <3>1. ASSUME NEW to \in {"away", "field"}, LoseFocus(to) PROVE Moved
      <4>1. /\ mouse' = mouse /\ pressed' = pressed /\ chord' = chord
            /\ across' = (across \/ held # <<>> \/ pressed # {}) /\ focus' = to /\ Seen
        BY <3>1, Zenon DEF LoseFocus
      <4> QED BY <4>1 DEF Seen
    <3>2. CASE GetFocus
      <4>1. /\ mouse' = mouse /\ pressed' = pressed /\ chord' = chord
            /\ across' = (across \/ held # <<>> \/ pressed # {}) /\ focus' = "canvas" /\ ~Seen
        BY <3>2, Zenon DEF GetFocus
      <4> QED BY <4>1 DEF Seen
    <3> QED BY <1>9, <3>1, <3>2 DEF FocusNext
  <2>2. ASSUME ~across', ~chord' PROVE MouseOK'
    <3>1. ~across /\ ~chord /\ pressed = {}
      BY <2>1, <2>2
    <3>2. mouse.mask = {} /\ mouse.told = {}
      BY <1>0, <3>1 DEF MouseOK
    <3> QED BY <2>1, <3>1, <3>2 DEF MouseOK
  <2>3. MouseOK'
    BY <2>2 DEF MouseOK
  <2> QED BY <1>0, <2>1, <2>3 DEF MouseInv
<1> QED BY <1>2, <1>3, <1>4, <1>5, <1>6, <1>7, <1>8, <1>9, Zenon DEF InputNext, KeyboardNext, MouseNext

\* at rest, the entries of track are the keys known to be held
LEMMA RestMatches ==
  ASSUME KeyInv, AtRest, ~across, names # "changed"
  PROVE  /\ Matches(Behind, KnownIds) /\ down = SymsOf(track)
         /\ \A i \in DOMAIN KnownHeld : i \in DOMAIN track
         /\ \A i \in DOMAIN track :
                /\ i \in DOMAIN KnownHeld
                /\ \A sym \in track[i].syms : sym.key = KnownHeld[i]
                /\ KnownHeld[i] \in Modifiers => Sym(KnownHeld[i], "plain") \in track[i].syms
<1>1. Tuned /\ queue = <<>>
  BY KeyStages, Zenon DEF AtRest
<1>2. Follows(<<>>, Behind, KnownIds)
  BY <1>1, Zenon DEF Tuned
<1>3. Matches(Behind, KnownIds)
  BY <1>2, EmptyFollows, Zenon
<1>8. KeyTypes
  BY KeyStages, Zenon
<1>9. /\ KnownHeld \in Seq(Keys) /\ Len(KnownIds) = Len(KnownHeld)
      /\ \A i \in 1..Len(KnownHeld) : KnownIds[i].key = KnownHeld[i]
  BY <1>8, KnownIdsFacts, Zenon
<1> DEFINE h == KnownIds
           b == Behind
<1>4. b.track = track /\ b.down = down
  BY BehindFields
<1> HIDE DEF h, b
<1>5. Matches(b, h)
  BY <1>3 DEF h, b
<1>6. /\ h \in Seq(Syms) /\ b \in BehindRecord /\ Len(b.track) = Len(h)
      /\ \A i \in DOMAIN h :
           /\ b.track[i].id = h[i]
           /\ \A sym \in b.track[i].syms : sym.key = h[i].key
           /\ h[i].key \in Modifiers => Sym(h[i].key, "plain") \in b.track[i].syms
      /\ b.down = SymsOf(b.track)
  BY <1>5, Zenon DEF Matches, BehindOK
<1>7. DOMAIN b.track = DOMAIN h
  <2>1. b.track \in Seq(EntryRecord)
    BY <1>6, BehindTypes
  <2> QED BY <1>6, <2>1
<1>10. DOMAIN h = DOMAIN KnownHeld /\ \A i \in DOMAIN h : h[i].key = KnownHeld[i]
  <2>1. Len(h) = Len(KnownHeld) /\ \A i \in 1..Len(KnownHeld) : h[i].key = KnownHeld[i]
    BY <1>9 DEF h
  <2> QED BY <1>6, <1>9, <2>1
<1> QED BY <1>3, <1>4, <1>6, <1>7, <1>10, Zenon DEF h

LEMMA InputInvSafe == KeyInv /\ MouseInv => InputPaired
<1> SUFFICES ASSUME KeyInv, MouseInv PROVE InputPaired
  OBVIOUS
<1>0. /\ KeyTypes /\ BehindOK(Behind) /\ Len(queue) <= MaxQueue /\ (queue # <<>> => timer)
      /\ AwayOK /\ Tuned /\ (Known => ~spoilt)
  BY Zenon DEF KeyInv
<1>1. Behind.track \in Seq(EntryRecord) /\ Behind.down \in SUBSET Syms
      /\ Behind.down \subseteq EscapeSyms \cup SymsOf(Behind.track)
  BY <1>0, BehindTypes DEF BehindOK
<1>2. track \in Seq(EntryRecord) /\ down \subseteq Syms /\ down \subseteq EscapeSyms \cup SymsOf(track)
  BY <1>1, BehindFields
<1>3. /\ mouse.mask \in SUBSET (Buttons \cup {Wheel}) /\ mouse.told \in SUBSET (Buttons \cup {Wheel})
      /\ MouseOK
  BY MouseFields DEF MouseInv
<1>4. InputTypeOK
  <2>1. ASSUME NEW i \in DOMAIN track
        PROVE  track[i].syms \subseteq Syms /\ track[i].id \in Syms \cup {NoSym, CharId}
    <3>1. track[i] \in EntryRecord
      BY <1>2
    <3> QED BY <3>1, EntryTypes DEF Ids
  <2>2. mods \in [Modifiers -> BOOLEAN] /\ timer \in BOOLEAN
    BY <1>0 DEF KeyTypes
  <2>3. mouse.mask \cup mouse.told \subseteq Buttons \cup {Wheel}
    BY <1>3
  <2> QED BY <1>0, <1>2, <2>1, <2>2, <2>3, Zenon DEF InputTypeOK
<1>5. NothingStuck
  <2> SUFFICES ASSUME AtRest, ~across, names # "changed", NEW sym \in down PROVE Holds(sym.key)
    BY Zenon DEF NothingStuck
  <2>1. PICK i \in DOMAIN track : sym \in track[i].syms
    BY RestMatches DEF SymsOf
  <2>2. i \in DOMAIN KnownHeld /\ sym.key = KnownHeld[i]
    <3>1. \A j \in DOMAIN track : /\ j \in DOMAIN KnownHeld
                                  /\ \A known \in track[j].syms : known.key = KnownHeld[j]
      BY RestMatches, Zenon
    <3> QED BY <2>1, <3>1, Zenon
  <2>3. KnownHeld = held
    BY <2>2 DEF KnownHeld
  <2> QED BY <2>2, <2>3 DEF Holds, ToSet
<1>6. ModifiersKnown
  <2> SUFFICES ASSUME AtRest, unseen = 0, ~across, names # "changed", NEW m \in Modifiers, Holds(m)
               PROVE  Sym(m, "plain") \in down
    BY Zenon DEF ModifiersKnown
  <2>1. PICK i \in DOMAIN held : held[i] = m
    BY DEF Holds, ToSet
  <2>2. Seen
    <3>1. ~Seen => held = <<>>
      BY <1>0, Zenon DEF Tuned
    <3> QED BY <2>1, <3>1
  <2>3. KnownHeld = held
    BY <2>2 DEF KnownHeld
  <2>4. i \in DOMAIN track /\ Sym(m, "plain") \in track[i].syms
    BY <2>1, <2>3, RestMatches
  <2>5. down = SymsOf(track)
    BY RestMatches
  <2> QED BY <2>4, <2>5 DEF SymsOf
<1>7. AwayReleases
  <2> SUFFICES ASSUME AtRest, focus = "away" PROVE down \subseteq EscapeSyms
    BY Zenon DEF AwayReleases
  <2>1. track = <<>>
    BY <1>0, Zenon DEF AwayOK, AtRest
  <2>2. SymsOf(track) = {}
    BY <2>1 DEF SymsOf
  <2> QED BY <1>2, <2>2
<1>8. BareOrWhole
  BY <1>0, Zenon DEF BareOrWhole, Known
<1>9. ButtonsTold
  BY <1>3 DEF ButtonsTold, MouseOK
<1> QED BY <1>4, <1>5, <1>6, <1>7, <1>8, <1>9, Zenon DEF InputPaired

\* Once no event is under way the server is told to be down what the user holds, unless a key
\* or a button was held while the focus changed or a letter changed its name while it was
\* held; a lost window focus releases all that is
\* recorded; a character reaches the server with the modifiers it is to have; clicks, drags and
\* turns of the wheel leave the mask of buttons right: for any keys, modifiers and buttons
\* (keyboard.js 286-543, input.js 259-294, rfb.js 637-682).
THEOREM InputHolds == InputSpec => []InputPaired
<1>1. InputInit => KeyInv /\ MouseInv
  BY KeyInit, MouseInit
<1>2. KeyInv /\ MouseInv /\ [InputNext]_inputVars => (KeyInv /\ MouseInv)'
  BY KeyStep, MouseStep
<1> QED BY <1>1, <1>2, InputInvSafe, PTL DEF InputSpec
=============================================================================
