------------------------------ MODULE VncPage ------------------------------
(***************************************************************************)
(* The VNC page: the connect panel and the status it shows                 *)
(* (include/ui.js) over the sessions it makes, one RFB object for each     *)
(* click on Connect (include/rfb.js), and their websockets                 *)
(* (include/websock.js).                                                   *)
(*                                                                         *)
(* An RFB object lives on when the page has made the next one: its timers  *)
(* and the events of its websocket still arrive, and all objects tell the  *)
(* same page of their state.  s[i] is the i-th object; page is the UI      *)
(* object with what it shows.  The messages of the handshake are here what *)
(* they do to the state; their bytes are in module RfbWire.                *)
(*                                                                         *)
(* Fields no handler reads: page.late (an object other than the page's     *)
(* told it something, by the 50 ms timer or by a disconnect timer that a   *)
(* second click had lost), s[i].blank (the challenge was answered without  *)
(* a password).                                                            *)
(*                                                                         *)
(* s[i].password: the object has a password its scheme can use, not an     *)
(* empty one or, for XVP, one of fewer than three parts.                   *)
(***************************************************************************)
EXTENDS Integers, Sequences, FiniteSets

CONSTANTS Servers,       \* the server: its version (33, 37, 38) and the security scheme it
                         \* offers (1 none, 2 VNC, 16 Tight, 22 XVP, others)
          MaxSessions,   \* bound: clicks on Connect
          MaxClicks,     \* bound: clicks on Connect and Send Password
          MaxLost        \* bound: disconnect timers lost by second clicks

ASSUME PageAssumption ==
    /\ Servers \subseteq [version : {33, 37, 38}, scheme : Nat]
    /\ {MaxSessions, MaxClicks, MaxLost} \subseteq Nat

VARIABLES s, page, server
pageVars == <<s, page, server>>

Handlers == {"open", "message", "close"}
\* the states in which _updateState cleans up first
Down == {"disconnected", "loaded", "connect", "disconnect", "failed", "fatal"}
Sessions == 1..Len(s)

(***************************************************************************)
(* The page                                                                *)
(***************************************************************************)
togglePanel(p) == [p EXCEPT !.panel = ~@]

\* UI.updateState: whichever object tells
Shown(p, state) ==
    LET q == [p EXCEPT !.rfb_state = state]
    IN IF state = "password" THEN [togglePanel(q) EXCEPT !.button = "setPassword"]
       ELSE IF state \in {"failed", "disconnected"} THEN [q EXCEPT !.panel = TRUE] ELSE q

\* the buttons of the tool bar
ConnectShown == page.rfb_state \in {"loaded", "failed", "disconnected"}

(***************************************************************************)
(* RFB._updateState.  An object is changed first; what it tells the page   *)
(* is collected in told.                                                   *)
(***************************************************************************)
cleanupLeavesSocket(r) == [r EXCEPT !.msgTimer = FALSE, !.grabbed = FALSE]
cleanupKeepsGrab(r) ==
    [r EXCEPT !.msgTimer = FALSE, !.deaf = r.ws # "none",
              !.ws = IF @ \in {"connecting", "open"} THEN "closing" ELSE @]
cleanupSocket(r) ==
    [r EXCEPT !.msgTimer = FALSE, !.grabbed = FALSE, !.deaf = r.ws # "none",
              !.ws = IF @ \in {"connecting", "open"} THEN "closing" ELSE @]

\* the disconnect timer is forgotten, and with it the close event
UntrackedRuns(r) == [r EXCEPT !.on = @ \ {"close"}]
Untracked(r) == [r EXCEPT !.disconn = "none", !.on = @ \ {"close"}]

NoTimer(r) == r
\* a second disconnect overwrites the handle of the first one's timer
DisconnTimer(r) ==
    [r EXCEPT !.disconn = "pending", !.lost = IF r.disconn = "pending" THEN @ + 1 ELSE @]

\* onUpdateState, called last
ToldWithMessage(r, state) ==
    IF state \in {"connect", "SecurityResult"} THEN r.told ELSE Append(r.told, state)
Told(r, state) == Append(r.told, state)

updateState(r, state) ==
    LET c == IF state \in Down THEN cleanupSocket(r) ELSE r
        next == IF r.state = "failed" /\ state = "disconnected" THEN "failed" ELSE state
        d == IF c.disconn # "none" /\ next # "disconnect" THEN Untracked(c) ELSE c
        n == [d EXCEPT !.state = next, !.told = Told(r, state)]
    IN CASE state = "connect" -> [n EXCEPT !.ws = "connecting", !.deaf = FALSE]
         [] state = "disconnect" -> DisconnTimer(n)
         [] state = "failed" -> [n EXCEPT !.fails = @ + 1]
         [] OTHER -> n
fail(r) == updateState(r, "failed")

NewRFB == [state |-> "disconnected", version |-> 0, scheme |-> 0,
           password |-> FALSE, on |-> Handlers, ws |-> "none", deaf |-> FALSE,
           grabbed |-> FALSE, msgTimer |-> FALSE, disconn |-> "none",
           lost |-> 0, fails |-> 0, asks |-> 0, sent |-> 0, told |-> <<>>, blank |-> FALSE]

(***************************************************************************)
(* The handshake: what one message may do in each state.  A handler that   *)
(* lacks bytes leaves the object as it is.                                 *)
(***************************************************************************)
\* an UltraVNC repeater is answered and the version expected again
protocolVersion(r) ==
    {fail(r), r} \cup
    {updateState([r EXCEPT !.version = server.version], "Security")}

\* the comment above _updateState spells the state like this
ServerInitialization(r) ==
    {updateState(updateState(r, "ClientInitialisation"), "ServerInitialization")}
ServerInitialisation(r) == {updateState(updateState(r, "ClientInitialisation"), "ServerInitialisation")}

\* without a password the page is asked for one; a challenge that is already
\* there is answered all the same
stdVncAuth(r) ==
    LET a == IF r.password THEN r ELSE updateState(r, "password")
    IN {a, updateState([a EXCEPT !.blank = @ \/ ~r.password], "SecurityResult")}

\* the last of the three parts, which is the password proper, may be empty
xvpAuth(r) ==
    IF ~r.password THEN {updateState(r, "password")}
    ELSE UNION {stdVncAuth([r EXCEPT !.scheme = 2, !.password = left]) : left \in BOOLEAN}

tightAuth(r) ==
    {r, fail(r), updateState(r, "SecurityResult")} \cup stdVncAuth([r EXCEPT !.scheme = 2])

authentication(r) ==
    CASE r.scheme = 0 -> {r, fail(r)}
      [] r.scheme = 1 -> IF r.version >= 38 THEN {updateState(r, "SecurityResult")}
                         ELSE ServerInitialisation(r)
      [] r.scheme = 2 -> stdVncAuth(r)
      [] r.scheme = 16 -> tightAuth(r)
      [] r.scheme = 22 -> xvpAuth(r)
      [] OTHER -> {fail(r)}

\* up to 3.3 the server decides; later it is asked for the highest it offers
security(r) ==
    {r, fail(r)} \cup
    authentication(updateState([r EXCEPT !.scheme = server.scheme], "Authentication"))

serverInit(r) == {r, updateState([r EXCEPT !.grabbed = TRUE], "normal")}

initMsg(r) ==
    CASE r.state = "ProtocolVersion" -> protocolVersion(r)
      [] r.state = "Security" -> security(r)
      [] r.state = "Authentication" -> authentication(r)
      [] r.state = "SecurityResult" -> {r, fail(r)} \cup ServerInitialisation(r)
      [] r.state = "ServerInitialisation" -> serverInit(r)
      [] OTHER -> {r}

\* a normal message is handled, illegal, or only partly there; what is left in
\* the queue waits for a timer
normalMsg(r) == {r, fail(r), [r EXCEPT !.msgTimer = TRUE]}

handleMessage(r) ==
    IF r.state \in {"disconnected", "failed"} THEN {r}
    ELSE IF r.state = "normal" THEN normalMsg(r) ELSE initMsg(r)

(***************************************************************************)
(* Steps                                                                   *)
(***************************************************************************)
\* the page hears what the object i told it
Tell(i, r, late) ==
    LET p == [page EXCEPT !.late = @ \/ (late /\ r.told # <<>>)]
        show[n \in 0..Len(r.told)] == IF n = 0 THEN p ELSE Shown(show[n - 1], r.told[n])
    IN /\ UNCHANGED server
       /\ s' = [s EXCEPT ![i] = [r EXCEPT !.told = <<>>]]
       /\ page' = show[Len(r.told)]

PageInit ==
    /\ server \in Servers
    /\ s = <<>>
    /\ page = [rfb |-> 0, rfb_state |-> "loaded", panel |-> TRUE, button |-> "connect",
               late |-> FALSE]

\* UI.connect: a new object each time
ClickConnect ==
    /\ page.panel /\ page.button = "connect" /\ Len(s) < MaxSessions /\ UNCHANGED server
    /\ \E password \in BOOLEAN :
         LET made == updateState(NewRFB, "loaded")
             r == updateState([made EXCEPT !.password = password], "connect")
         IN /\ s' = Append(s, [r EXCEPT !.told = <<>>])
            /\ page' = Shown(Shown([togglePanel(page) EXCEPT !.rfb = Len(s) + 1], "loaded"), "connect")

\* UI.disconnect
ClickDisconnect ==
    /\ ~ConnectShown /\ page.rfb # 0
    /\ s[page.rfb].lost < MaxLost \/ s[page.rfb].disconn # "pending"
    /\ Tell(page.rfb, [updateState(s[page.rfb], "disconnect") EXCEPT !.on = @ \cap {"close"}], FALSE)

\* Faulty variant: the password is taken, but not looked at until the server speaks.
ClickPasswordWaits ==
    /\ page.panel /\ page.button = "setPassword"
    /\ s[page.rfb].asks < 1 /\ Len(s) + s[page.rfb].sent < MaxClicks
    /\ \E usable \in BOOLEAN :
         s' = [s EXCEPT ![page.rfb] =
                [s[page.rfb] EXCEPT !.password = usable, !.state = "Authentication", !.sent = @ + 1]]
    /\ page' = [togglePanel(page) EXCEPT !.button = "none"]
    /\ UNCHANGED server

\* UI.setPassword, with whatever the field holds: the state is set without telling the
\* page; the button, whose "reset" gives it UI.Connect, which does not exist, does
\* nothing any more, unless a password is asked for again
ClickPassword ==
    /\ page.panel /\ page.button = "setPassword"
    /\ s[page.rfb].asks < 1                   \* bound: one password timer at a time
    /\ Len(s) + s[page.rfb].sent < MaxClicks
    /\ \E usable \in BOOLEAN :
         s' = [s EXCEPT ![page.rfb] =
                [s[page.rfb] EXCEPT !.password = usable, !.state = "Authentication",
                                !.asks = @ + 1, !.sent = @ + 1]]
    /\ page' = [togglePanel(page) EXCEPT !.button = "none"]
    /\ UNCHANGED server

ClickPanel == ConnectShown /\ page' = togglePanel(page) /\ UNCHANGED <<s, server>>

WsOpen(i) ==
    LET r == [s[i] EXCEPT !.ws = "open"]
    IN /\ s[i].ws = "connecting"
       /\ Tell(i, IF "open" \notin r.on THEN r
                  ELSE IF r.state = "connect" THEN updateState(r, "ProtocolVersion") ELSE fail(r),
               FALSE)

WsMessage(i) ==
    /\ s[i].ws = "open" /\ ~s[i].deaf /\ "message" \in s[i].on
    /\ \E r \in handleMessage(s[i]) : Tell(i, r, FALSE)

\* by the server, by the network or as the answer to close()
WsClose(i) ==
    LET r == [s[i] EXCEPT !.ws = "closed"]
        heard == IF r.state = "disconnect" THEN updateState(r, "disconnected")
                 ELSE IF r.state \in {"failed", "disconnected"} THEN r ELSE fail(r)
    IN /\ s[i].ws \in {"connecting", "open", "closing"}
       /\ Tell(i, IF "close" \in r.on THEN [heard EXCEPT !.on = @ \ {"close"}] ELSE r, FALSE)

DisconnTimeout(i) ==
    \/ /\ s[i].disconn = "pending"
       /\ Tell(i, fail([s[i] EXCEPT !.disconn = "fired"]), FALSE)
    \/ /\ s[i].lost > 0
       /\ Tell(i, fail([s[i] EXCEPT !.lost = @ - 1]), i # page.rfb)

FailTimer(i) ==
    /\ s[i].fails > 0
    /\ Tell(i, updateState([s[i] EXCEPT !.fails = @ - 1], "disconnected"), i # page.rfb)

PasswordTimer(i) ==
    /\ s[i].asks > 0
    /\ \E r \in initMsg([s[i] EXCEPT !.asks = @ - 1]) : Tell(i, r, FALSE)

MsgTimer(i) ==
    /\ s[i].msgTimer
    /\ \E r \in handleMessage([s[i] EXCEPT !.msgTimer = FALSE]) : Tell(i, r, FALSE)

\* bound: nothing is explored once a late timer has spoken
PageNext ==
    /\ ~page.late
    /\ \/ ClickConnect \/ ClickDisconnect \/ ClickPassword \/ ClickPanel
       \/ \E i \in Sessions : \/ WsOpen(i) \/ WsMessage(i) \/ WsClose(i)
                              \/ DisconnTimeout(i) \/ FailTimer(i)
                              \/ PasswordTimer(i) \/ MsgTimer(i)

\* the browser runs every timer that is due
TimersRun == \A i \in 1..MaxSessions : WF_pageVars(~page.late /\ i \in Sessions /\ DisconnTimeout(i))
PageSpec == PageInit /\ [][PageNext]_pageVars /\ TimersRun

(***************************************************************************)
(* Properties                                                              *)
(***************************************************************************)
States == Down \cup {"ProtocolVersion", "Security", "Authentication", "password", "SecurityResult",
                     "ClientInitialisation", "ServerInitialisation", "normal"}
StateOf(i) == IF i \in Sessions THEN s[i].state ELSE "none"
Live(r) == r.ws \in {"connecting", "open"}

PageTypeOK ==
    /\ page.rfb \in 0..MaxSessions /\ page.rfb <= Len(s) /\ page.rfb_state \in States
    /\ page.button \in {"connect", "setPassword", "none"} /\ page.panel \in BOOLEAN
    /\ \A i \in Sessions :
          /\ s[i].state \in States /\ s[i].told = <<>> /\ s[i].on \subseteq Handlers
          /\ s[i].ws \in {"none", "connecting", "open", "closing", "closed"}
          /\ s[i].disconn \in {"none", "pending", "fired"}
          /\ s[i].version \in {0, server.version} /\ s[i].scheme \in {0, server.scheme, 2}

(* Only the session the page knows has a live connection, whatever was     *)
(* clicked in whatever order, unless a late timer of an older session made *)
(* the page believe that nothing is connected (updateState, ui.js 620-656).*)
OneLive == ~page.late => \A i \in Sessions : Live(s[i]) => i = page.rfb

(* The keyboard and the mouse belong to a session in state 'normal' only   *)
(* (grab in _negotiate_server_init, ungrab in _cleanupSocket), unless the  *)
(* password was asked for too late.                                        *)
InputOnlyWhenNormal ==
    \A i \in Sessions : s[i].grabbed /\ ~s[i].blank => s[i].state = "normal"

(* The page shows the state of its session: after 'disconnected' the       *)
(* object may stay 'failed', and a password is sent without telling, so    *)
(* the page is behind until the timer has looked at it and, if it could    *)
(* be used, until the server answers; if not it is asked for again         *)
(* (_updateState, rfb.js 581-585; sendPassword, 297-302 and 774-802;       *)
(* ui.js 571-581 and 620-656).                                             *)
PageTellsCurrent ==
    ~page.late /\ page.rfb # 0 =>
       LET st == s[page.rfb].state
       IN \/ page.rfb_state = st
          \/ page.rfb_state = "disconnected" /\ st = "failed"
          \/ /\ st = "Authentication" /\ page.button = "none"
             /\ s[page.rfb].asks > 0 \/ s[page.rfb].password

(* A session that was disconnected is not reported as failed afterwards,   *)
(* unless a second click on Disconnect lost the first one's timer          *)
(* (_updateState, rfb.js 531-536 and 551-558).                             *)
DisconnectedIsFinal ==
    [][\A i \in Sessions :
          s[i].state = "disconnected" /\ s[i].lost = 0 => s'[i].state # "failed"]_pageVars

(* A disconnect ends: by the close event or, three seconds later, by its   *)
(* timer (rfb.js 229-249 and 551-558).  So a moment always comes again     *)
(* at which no session is disconnecting.                                   *)
DisconnectEnds ==
    []<>(page.late \/ \A i \in 1..MaxSessions : StateOf(i) # "disconnect")

(* Of the sessions a page has made one at most has the connection, the     *)
(* keyboard and the mouse, and gives them up in every way it can end.      *)
OneSession == PageTypeOK /\ OneLive /\ InputOnlyWhenNormal

(* A disconnect ends, and for good.                                        *)
DisconnectsHold == DisconnectedIsFinal /\ DisconnectEnds
=============================================================================
