# A verification project for routercenter

routercenter is a relay server: routers ("devices") behind NAT keep one
websocket open to it, browsers log in and ask it for a tunnel to a TCP port in
a device's network, and the server passes the request to the device over the
device's websocket, waits for the answer, and then relays the bytes. What runs in
the browser at the other end of such a tunnel is a telnet terminal or a VNC client. The
server is the Go package `src/src/server` (about 1650 lines, started by
`src/src/main.go`), the clients are the scripts under `src/statics`.

This directory holds TLA+ modules of the server's own logic and of the two
clients, TLC configurations that check them on small instances, and TLAPS proofs
about the server, the terminal's parser and mouse and the VNC page for every value of the constants. `PROJECT.json` lists, by
module, the source lines each definition models, the mutants each property is
known to reject, the hazards, the disagreements found and the theorems.

    tlc -workers 2 -config MCBusLap.cfg MCBus     # one run
    tlc -workers 2 -config MCTerm.cfg MCTerm      # another
    tlapm VncProofs.tla                           # one module's proofs

In this text `term.js` stands for `src/statics/telnet/term.js`, `rfb.js`, `ui.js`,
`websock.js`, `keyboard.js` and `input.js` for the files in `src/statics/include`,
and a Go file for the one in `src/src/server`.

## 1. Inventory

### 1.1 The parts and the state they keep

| part | source | state | operations |
|---|---|---|---|
| request table | `seqmap.go` | `index2obj`, `seq2index`, `pos`, `curr_seq` | `NewSeq`, `GetData`, `DelSeq` |
| message bus | `bus.go`, `msg.go`, `proto.go` | the table, `expiredList`, `timer`, `nextTick`, channels `calls`, `seqMsg`, `resp`, the map `users` | `Run` (a select over four channels), `RequestControl`, `Call`, `CallNoWait`, `CheckLogin` |
| device connections | `mainchannel.go`, `usermgr.go` | per connection `isClosed`, `writeMsg`, `wsMap`; per user `devMap`, `sessionId` | `readPump`, `writePump`, `CloseInner`, `RegistDeviceInner`, `RegistDevice`, `UnregistDevice`, `NewUser`, `NewUserConn`, `RegistConn`, `UnregistConn` |
| tunnels | `clientchannel.go` | per tunnel two websockets, `clientMsg`, `tunnelMsg`, `isClosed` | `serveTunnel`, `serveClientChannel`, four pumps, `UpdateUserConn`, `CloseInner` |
| publish-subscribe | `pubsub.go` | the registry `topics` and `revTopics` | `Sub`, `SubOnce`, `AddSub`, `Pub`, `Unsub`, `Close`, `Shutdown` |
| telnet terminal | `term.js`, `telnet.html` | the lines with scrollback, cursor, margins, tab stops, modes; the parser's place in a sequence; the alternate screen; the reply queue; selection, visual and search mode; the document's listeners | `write` (the parser and the handlers of its sequences), `resize`, `refresh`, `send`, `keyDown`, `keyPress`, the keys of the three modes, the mouse and focus listeners |
| VNC client | `rfb.js`, `ui.js`, `websock.js`, `keyboard.js`, `input.js` | the session's state and timers; the receive and send queues with the frame being read; the page's panels and its current session; modifiers, keys held, the keyboard's stalled queue; the button mask | `UI.connect`, `disconnect`, `setPassword`, `_updateState`, the websocket's events, `_normal_msg` and the handshake's and encodings' handlers, the four stages of a key event, the mouse handlers |
| web front end | `http.go`, `util.go` | the session cookie | `serveLogin`, routes, `inet_aton`, `checkSameOrigin` |
| start-up and logging | `main.go`, `common.go`, `config.go`, `serverlog.go` | configuration, `logNo` | read the configuration, write log lines |
| web pages | `template/`, the rest of `statics/` | none of its own | drawing, inflating, DES, style sheets, a second terminal no page loads |

### 1.2 How they interact

Everything shared in the server is owned by one goroutine, the bus. Other goroutines
reach it by sending a function on the unbuffered channel `calls` (`Call` waits for the
result, `CallNoWait` only until the bus has taken the call), or a message on
the buffered channel `resp`. A browser's request travels like this:

    serveTunnel --calls--> bus: RequestControlInner --seqMsg--> bus: NewSeq, expired list
       ^                                                             |
       |                                                        writeMsg
       |                                                             v
       +--msg.resp-- bus: GetData, DelSeq <--resp-- readPump     writePump --> device

and, if the device does not answer, a timer's tick reaches the bus through a
forwarder goroutine (`timer.C`, then `tCh`) and the bus sends `errMessage` on
`msg.resp` itself. The bus therefore sends on four channels: `seqMsg`, which it
alone drains; `writeMsg`, which a connection's `writePump` drains; `msg.resp`,
which the requester receives from once; and `call.Ok`. Every one of these sends
may block, and while one does nothing else in the server moves.

A browser runs one callback at a time, and each to its end. The terminal is driven by
`write()` with the chunks the host sends, by key and mouse events, and by its own
timers (cursor, replies, Ctrl-C, copy). What it tells the host goes through `send()`'s
queue or straight to the connection. The VNC page makes one RFB object for each click on
Connect; each object has a `Websock` and up to four timers, all of which outlive
the page's interest in it, and all objects call back the same page. Keyboard and
mouse belong to the page's canvas and are grabbed and given up by the session.

### 1.3 What is hard here

* The bus must not block, and sends on channels whose receivers wait for it.
* Numbers in the request table are reused; answers carry nothing but a number.
* Answer, timeout and eviction of one request race, each cleaning up its own
  part of table, list and requester.
* Ticks can be late, early (idle) or stale (left over after a `Reset`).
* A connection has two pumps which end independently and both ask the bus to
  close it, while requests for it are queued and a new connection of the same
  device may already have been registered.
* A host's or a server's bytes are cut into chunks anywhere: what a parser
  keeps in local variables is gone at the end of a chunk, what it keeps in the object
  must be what the next chunk needs.
* Terminal handlers change lines, cursor, margins, the view and the rows to repaint
  together, with the view scrolled back, another screen shown, the size changed.
* Timers of the browser come late: after the mode they were set in, or after the
  session they belong to.
* Key events are matched by guess: not every keypress has a keydown, modifiers are
  synchronised from flags, and what happens while the focus is elsewhere is unseen.

The hazards in `PROJECT.json` give these with their lines.

## 2. The modules

| module | models | extends |
|---|---|---|
| `SeqMap` | the request table | |
| `SeqMapClient` | the table under a caller that may lap outstanding requests, and under a careful one | `SeqMap` |
| `PendingMap` | abstract: a partial map from numbers to requests | |
| `SeqMapLemmas`, `SeqMapProofs` | theorems about the table | |
| `Bus` | the bus, its requesters, the timer, one device connection | `SeqMap` |
| `MCBus` | `Bus` with a symmetry for TLC | `Bus` |
| `BusProofs` | theorems about the bus | `SeqMapLemmas`, `Bus` |
| `MainChannel` | device connections, the registry of users and devices | |
| `MCMainChannel` | `MainChannel` with the handshakes sent | `MainChannel` |
| `MainChannelProofs` | theorems about it | `MainChannel` |
| `PubSub` | the publish-subscribe registry and its callers | |
| `MCPubSub` | `PubSub` with topic lists and a symmetry | `PubSub` |
| `PubSubProofs` | theorems about it | `PubSub` |
| `TermScreen` | the terminal's buffer, screens, modes, resize, repainting | |
| `ScreenProofs` | theorems about it | `TermScreen` |
| `TermParser` | the automaton of `write()` and the reply queue | |
| `TermKeys` | the key modes: prefix, selection, visual, search | |
| `TermMouse` | mouse and focus reports | |
| `TermProofs` | theorems about the parser, the keys and the mouse | `TermParser`, `TermMouse`, `TermKeys` |
| `MCTerm` | instances of the four | all four |
| `VncPage` | the page, its sessions, their websockets and timers | |
| `VncInput` | keyboard and mouse of a session | |
| `VncProofs` | theorems about the two | `VncPage`, `VncInput` |
| `RfbWire` | one session's reading and sending of bytes | |
| `MCVnc` | instances of the three, with the servers' conversations | all three |

### 2.1 SeqMap

`NewSeq`, `GetData` and `DelSeq` are operators over the table's four fields, so
that any module that owns a table can use them; a request's number is a field
of the message (`Message.Seq`), kept in `requestId`. A panic is a value of
`panicked`: the call's other effects do not happen, and no step follows (a
panic in the bus goroutine is not recovered and ends the process). The
dereferences that the code does without a test (the evicted request in
`NewSeq`, the last request in `DelSeq`) raise a panic in the model, and it is a
theorem that they never do.

`SeqMapClient` calls it in any order. Its `careful`, chosen at the start, says
whether this caller issues only when the next number is free: that is the bus as long as
no request outlives 10239 later ones. `PendingMap` is what the table promises a
careful caller.

### 2.2 Bus

One action per step of the bus goroutine between two points where it can block;
`busPc` names the point:

| `busPc` | the bus is at | leaves by |
|---|---|---|
| `select` | the select of `Run` | `RequestControlInner`, `TakeMsg`, `TakeResp`, `TakeTick`, `RegistDeviceInner`, `CloseInner` |
| `push` | `bus.seqMsg <- msg` | `Push` |
| `refuse` | `msg.resp <- errMessage`, user unknown | `Refuse` |
| `evict` | `oldData.Fire(MessageEventErr)` | `Evict` |
| `track` | after `NewSeq` | `Track` |
| `write` | `devConn.writeMsg <- bytes` | `Write` |
| `reply` | `PutResp` | `Reply` |
| `tick` | the head of the loop over the expired list | `ExpireFront`, `KeepFront`, `EndTick` |
| `expire` | `Fire(MessageEventTimeout)` | `Expire` |

Requesters are `idle`, `calling` (blocked in `CallNoWait`), `waiting` (blocked
on `msg.resp`), `done`. Buffered channels are bounded sequences; a send on an
unbuffered channel is one step of both sides. Time is a number that may advance
between any two steps; `timerAt`, `timerC` and `fwd` are the running timer, the
one place of `timer.C` and the tick the forwarder holds. The duration constants
stand for 15 minutes and 10 seconds. The 1 µs that the code adds to `now` makes
its `Before` a "not later than", which is how `ExpireFront` reads.

A request keeps the `*User` it was looked up with. When the connection is
closed that `*User` leaves the bus's map, and a later connection makes a new
one; requests queued across this find no device (`orphans`).

Three variables are history that no action reads: `issued` and `issueNo` count the
numbers handed out, so that "a lap of the ring ago" can be said, and `slow` is
the time that went by inside the handler of the last tick.

### 2.3 MainChannel

`Bus` has one connection, whose pump is reduced to what the bus waits for.
`MainChannel` turns this round: several connections, both pumps of each, and the
bus reduced to the calls they make (`RegistDeviceInner`, `CloseInner`) and to
the requests that look a connection up. The place of `readPump` is `rd`, of
`writePump` `wr`; a pump in `closing` waits in `CallNoWait`.

* A request keeps the `*User` it found, so `User` objects have numbers: `users`
  maps a name to the current object, `devMap` belongs to the object. `CloseInner`
  drops the object from `users`, a later handshake makes a new one, and requests
  in `queue` go on using the old.
* `u` and `deviceId` are written by the reader outside the bus, which reads them
  in `CloseInner`. The two writes are two steps (`ReadHandshake`,
  `SetDeviceId`), so the bus may see either, both or none.
* Closing `writeMsg` is `isClosed`: the code closes it right after the swap. A
  closed channel still yields what is in it. After that `writePump` goes round
  without end (`mainchannel.go:105`), which changes nothing and has no step.
* A send on a closed channel is a panic, in `readPump` or in the bus; a panic
  ends the process.
* `RegistConn` has no caller, so `wsMap` is empty and its loops are left out.

`Script` gives the handshakes of each connection. The configurations have one
per connection: with more, `RegisteredIsOpen` does not hold (section 4).

### 2.4 PubSub

A command is handed over on an unbuffered channel, so a caller has at most one
(`call`) and taking it is one step of both sides. All commands but `Pub` run to
their end within that step. `Pub` is a loop over topics (`rest`), and over the
channels of a topic in any order (`todo`, `at`), with a send that may block.
Both maps of the registry are kept, because the code updates one and decides by
the other when to close. `owed` computes, at the moment a publication is taken
and without the loop, what each channel ought to be sent; `Served`
compares the two.

### 2.5 The telnet terminal

The `Terminal` object is too large for one state space, and its parts meet in few
places. Four modules take a part each; `MCTerm` instantiates them together, and its
variable `part`, chosen at the start, says which of them a behaviour is about. The
others do not move.

* `TermScreen`: the object is a record, a handler an operator from one record to
  the next, a step one handler. `write()` is the bracket `BeginWrite`,
  handlers, `EndWrite`: nothing else runs before it returns, and it
  repaints `refreshStart` to `refreshEnd` at its end. A line is known by its number of
  cells, because what goes wrong in this code is that a line is missing or of the
  wrong length; which rows have changed since they were painted is the history
  field `dirty`. `Families` splits the handlers (typing and erasing; lines inserted, deleted
  and scrolled; the two screens; tab stops and moves along a line; modes and
  character sets), to keep the state space in reach; handlers that several of
  them lean on, line feeds, resets and resizes, are in several.
* `TermParser`: the automaton over characters, with everything that survives
  from one character to the next. `skip` stands for the `i++` with which the loop
  passes over a character, which is lost at the end of a chunk. `call` is the
  handler that was called and its arguments; `csi` is, for the properties, what came since
  `ESC [`. `send()` and its timer are here too.
* `TermKeys`: lines with their cells, because the modes select, search and copy
  text. All nested modes, their saved places, the prompt that borrows cells of
  the buffer, and the Ctrl-C timer. A line is a function from columns to cells and not a
  sequence: a prompt that goes on behind the last column on another row, the view having been scrolled,
  leaves a hole in it.
* `TermMouse`: the modes the host sets, what is written in each coding, and the
  listeners on the document, which outlive the mode they were set in.

Fields that no handler reads (each module's head names them) record what the
properties need: what the buffer held before, what was promised to the host.

### 2.6 The VNC client

`MCVnc` composes three modules in the same way.

* `VncPage`: a sequence of RFB objects `s`, the page's current one in `page.rfb`.
  `_updateState` is one operator with all its transitions, its clean-up, and the
  page's callback in order (`Shown`). The handshake's messages are what they
  do to the state. A password the user sends is one the scheme can use or not
  (`ClickPassword`); for one it cannot use the object asks again. All timers of all objects, and the websocket's events, arrive
  in any order that the code leaves them. The exploration of a behaviour ends with
  `page.late`: a session other than the page's has spoken to it (section 4).
* `RfbWire`: bytes. The queue grows by whatever arrives; a handler that finds too
  few gives back what it had read and is called again, so each is a function of the
  object and its queue. `Scripts` (in `MCVnc`) gives the servers' conversations as
  messages with their bytes; a byte that is only there to be skipped is `Filler`,
  which would be a bell if it were taken for a message, so that any
  misreading shows in what is handled. What is drawn is not modelled; how many bytes it takes is.
* `VncInput`: an event's four stages, the stall timer, the server's set of keysyms
  held down, and the mouse. The user presses and releases as he likes, also while
  the window or the canvas does not see it. `names` says what tells a key from
  another: its code only, or, in a browser whose events have `key`, the name too
  (`getKey`), which changes for a letter when Shift or the char modifier comes or goes.

## 3. What is checked

| run | module, configuration | checks | shows |
|---|---|---|---|
| `seqmap` | `SeqMapClient`, `MCSeqMap.cfg` | `Consistent`, `OnlyFullPanics`, `FullMeansFull`, `ImplementsPendingMap` | A ring of three numbers under every order of issues, evictions and deletions, for a caller that lets the ring lap outstanding requests and for one that does not: the arrays stay dense and consistent and no panic but that of a full table is raised; for the careful caller no slot leaks, the table is full only when every number is outstanding, and it implements the partial map PendingMap. |
| `seqmap_evict` | `SeqMapClient`, `MCSeqMapEvict.cfg` | `EvictedIsForgotten` (violated) | An evicted request keeps its slot, and a later deletion that moves the slot makes the request reachable by its number again. |
| `bus_lap` | `MCBus`, `MCBusLap.cfg` | `TypeOK`, `AnswersMatch`, `WaitingIsFound`, `WaitingIsTracked`, `NoEarlyTimeout`, `ExpiryInTime`, `TableSpec` | Three requests over a ring of two numbers, with evictions, late answers, a full table, lost connections and ticks at any moment: answers go astray only across laps, no requester is forgotten or told of a timeout too early, a tick is always coming and later than a request expires only by what the last tick's handler took, the channels keep their bounds and the table's terms of use are kept. |
| `bus_ends` | `MCBus`, `MCBusEnds.cfg` | `WaitingEnds` | Under fair scheduling every waiting requester gets an answer or an error, by answer, refusal, lost device or timeout, unless the bus stops for one of the five causes that are named: the timeout of a requester that has gone, the loop over an unexpired request, a full seqMsg or writeMsg of its own making, a panic. |
| `bus_gone` | `MCBus`, `MCBusGone.cfg` | `NobodyGone` (violated) | A request that has been answered stays in the expired list; when it expires the bus sends errMessage to a requester that has gone, and is blocked for ever. |
| `bus_spin` | `MCBus`, `MCBusSpin.cfg` | `TickEnds` (violated) | A tick that finds a request which has not expired goes round the loop for ever, under fair scheduling. |
| `main_shared` | `MCMainChannel`, `MCMainShared.cfg` | `TypeOK`, `RegisteredIsOpen`, `PanicNeedsSibling`, `LostOnlyByClosing` | A device that reconnects and a second device of the same user, each connection breaking at any moment: the registry never leads to a closed connection; a connection leaves it only for a later one of its device or with the first close of a connection of its user, be it its own predecessor's, never with the second pump's call; and the bus sends on a closed channel only where two devices of one user were. |
| `main_closes` | `MCMainChannel`, `MCMainCloses.cfg` | `BrokenIsClosed` | Under fair scheduling, as long as the bus comes back to its select every broken connection is closed. |
| `pubsub_all` | `MCPubSub`, `MCPubSubAll.cfg` | `TypeOK`, `Served`, `ClosedWhenLeft`, `NoPanic` | Every operation but AddSub, at once, on full channels: everyone gets every message owed, SubOnce one message, a channel is closed exactly when its last topic goes, and nothing panics. |
| `pubsub_calls` | `MCPubSub`, `MCPubSubCalls.cfg` | `CallsReturn` | If a subscriber goes on reading while it waits for the registry, every caller gets on until the registry is shut down or panics. |
| `terminal` | `MCTerm`, `MCTerm.cfg` | `ScreenHolds`, `Repainted`, `SequencesRead`, `SelectionHolds`, `SearchFinds`, `CopiesSelection`, `ReportsPaired`, `MainScreenKept`, `BelRecovers`, `RepliesSent`, `ModesRestore` | A small screen under every order of the handlers of five families of sequences, with resizes, scrolled views and chunk boundaries; the parser under two alphabets cut into chunks anywhere, with late timers; every order of keys of three users in the selection modes while the host writes; every order of mouse modes, codings, buttons and focus changes. |
| `vnc` | `MCVnc`, `MCVnc.cfg` | `OneSession`, `PageTellsCurrent`, `StreamRead`, `NobodyWaits`, `NeverHungUp`, `InputPaired`, `DisconnectsHold` | Two sessions of one page against every kind of server, each breaking at any moment, with the user's clicks, passwords that can be used or not, and all timers in any order: one live connection, input grabbed by a running session only, a page that shows its session's state, disconnects that end. And one session's reading of conversations with every message and encoding, delivered in pieces of any of several sizes: each message is understood once, nothing waits, and a session is failed only for something the protocol forbids or one of the named things the client declines. And one session's keys and buttons, pressed, repeated and let go in any order, also while the canvas is without the focus, by a browser with key names or without: the server is told of the end of everything it was told of, unless a letter changed its name while it was held. |

### 3.1 What the composite properties say

A property that is a conjunction has named parts, so that a counterexample can be
narrowed down and a part be cited in a proof.

| property | its parts |
|---|---|
| `Consistent` | `TypeOK`; `SlotsPacked`: the filled slots are the first ones; `NumbersResolve`: a number in use leads to the request that carries it |
| `ExpiryInTime` | `ListSorted`: the expired list is in the order of expiry; `TickComing`: a tick is always on its way; `TickInTime`: not later than the front expires, but for `slow` |
| `Served` | `EveryoneServed`: each channel gets what `owed` says, in order; `OnlyOnce`: a SubOnce gets one message |
| `ScreenHolds` | types; `RowsOnScreen` (the cursor's row and the margins; of the column nothing is said, see 4.2); `BufferFits` (as many lines as screen and scrollback call for); `MainScreenFits` (the screen put aside too); `LinesComplete` (a line has all its cells); `NoThrow` (no handler reads a line that is not there); `CharsetCurrent` |
| `Repainted` | `Painted`: between chunks every row that changed has been painted; `OneCursor` |
| `SequencesRead` | types; `CsiSpelled`: the parameters and the prefix are those spelled since `ESC [`, by a reference that reads the whole sequence; `NothingLeaks`: nothing of one sequence is left for the next |
| `RepliesSent` | `RepliesInOrder`: what leaves is what was asked, in order; `RepliesLeave`: it leaves |
| `ModesRestore` | `SelectLeavesNoTrace`: leaving the selection mode shows the screen as it was entered; `AnchorStays`: a selection's fixed end does not move |
| `SelectionHolds` | types and nesting; `PromptGone`; `SelectionShown`: the cells marked are those between the ends; `KeysNeverThrow`: no key ends in a TypeError, but after `parked`, `stale`, or in a prompt longer than the row |
| `SearchFinds` | `LandsOnMatch`; `MissIsAbsent`: a search for a single character that gives up has nothing to find |
| `ReportsPaired` | types; `EveryPressReleased`; `MotionEnds`; `FocusTold`; `PlacesToldApart`: two places are never reported alike |
| `OneSession` | types; `OneLive`: at most one session has a connection; `InputOnlyWhenNormal`: only a session in state 'normal' has grabbed the input, unless it was given its password too late (`blank`) |
| `StreamRead` | types; `Understood`: what was handled is a prefix of what the server sent, rectangles and their pieces included |
| `NobodyWaits` | `NothingWaits`: what has arrived whole has been handled; `HandshakeMoves`; `SendsLeave`; `OneRequestEach`: one request for each finished update |
| `DisconnectsHold` | `DisconnectedIsFinal`; `DisconnectEnds` |
| `InputPaired` | types; `NothingStuck`: the server is told to hold nothing the user does not, unless a letter changed its name while it was held; `ModifiersKnown`: it knows the modifiers the user holds; `AwayReleases`: a lost window focus releases what is recorded, whatever the names; `BareOrWhole`: a character reaches the server with the modifiers it is to have; `ButtonsTold` |

Two properties of the registry are not composite but need a word. `LostOnlyByClosing`
is about every step: a connection leaves the registry only for a later one of its
device, or in the step that closes, for the first time, it or another connection of its
user, be it its own predecessor's late close. So the second of the two calls
that each connection's pumps make takes nothing from anybody. `PanicNeedsSibling` is about
the bus's send on a closed channel: a device that is alone with its user, however often it
reconnects and whatever is queued for it, does not bring it about.

Parts that the code keeps only under a condition have it as a hypothesis (`~t.wild`,
`~page.late`, `unseen = 0`, ...). Each such condition is a history field set by the one
step that breaks it, and section 4 lists the step.

### 3.2 Bounds

* Table: three numbers, four requests. A lap, an eviction, a deletion that
  moves the evicted request's slot, and a full table all occur. The code's
  10240 numbers only make these longer.
* Bus: `MaxSize` 2 with three requests lets the ring lap while a request is
  outstanding, and the table fill; channels of one and two places are
  full, just full and never full. In `bus_lap` requests can be made at four times
  (`LastCall` 3), a request expires after one unit and the idle tick comes after two, so that
  it falls inside the time a request is outstanding; a request made
  after a slow tick meets a timer that was set too late. In `bus_ends` there are
  two requests, one of which names a device that is not connected (`Lost`), and
  a request outlives two units. Two requests over two numbers evict nobody, so `WaitingEnds`
  says nothing of evictions: that an evicted requester is in the bus's hand until it has been told
  is `WaitingIsTracked` in `bus_lap`. All channels have one place there, and of the stops that
  `WaitingEnds` names, the run reaches those of `bus_gone` and `bus_spin` and a full `seqMsg`;
  the writer's (3 in section 4) and a panic need more requests. `MaxTime`
  stops the clock once every request can have expired. Until `LastCall` the bus
  may be arbitrarily slow with respect to the clock; after it, the clock waits
  until the bus has tracked what it was given (`Tock`), so that `MaxTime`
  suffices. Nothing is lost by it: a bus that is slow later only shifts times.
* Connections: a device that reconnects (`c1`, `c2`) and another device of the
  same user. Three connections are the fewest with which a
  replaced connection, its replacement and a sibling exist together. `MaxObjects`
  3 is one `User` per connection, the most there can be; one queued request is
  enough to hold an old object; `WRITE_SIZE` 1 (100 in the code) makes full
  channels common. `main_closes` has one device and two connections because of
  the cost of the liveness check; a sibling changes nothing in who waits for whom.
* Publish-subscribe: two subscribers, two topics, one publisher, channels of one
  place, two publications; lists of none, one and two topics, so that one
  publication meets a channel twice. Subscribing and unsubscribing are not
  bounded. The liveness run has one subscriber and the publisher, which also
  closes topics and shuts down.
* Terminal, screen: opened with two columns and two rows, resized to 2x1 and 3x2
  and back, "132 columns" being three, tab stops every second column, a scrollback of three. Margins, a line feed at
  the bottom and above it, a full and a half-full scrollback and a scrolled view
  all occur. `MaxLines` 6 and `MaxX` 3 only cut behaviours that are longer copies.
* Terminal, parser: an alphabet of 17 characters reaches every state, one of 9
  the replies and status strings; at most four characters inside one CSI sequence,
  one inside a string; two replies and two timers, so that one is late.
* Terminal, keys: a screen of 3 by 2, with one line of scrollback and with none; two texts, chosen so
  that a match wraps, overlaps a partial one, and begins on the cursor's row; three
  users, because all keys at once are out of reach: one moves and selects, one
  searches, one uses Ctrl-C and its timer. A prompt of length one stands for
  `Search: `, so that a word of three characters is longer than the row; `MaxColumn` 4 lets the
  cursor follow it, and stay behind when a backspace fails.
* Terminal, mouse: places on both sides of the limits of the codings (127, 191, 2047 after
  the 32 that is added); no modifier, shift, and control.
* VNC page: two sessions, three clicks on Connect and Send Password together (`MaxClicks`), so that a
  password is refused and asked for again, one disconnect timer lost by a second click on
  Disconnect; protocol versions 3.8 and 3.3 with schemes for the branches of the negotiation.
* VNC bytes: every message and encoding, each session of a handshake and at most two messages, delivered in
  pieces of 1, 2, 5, 13 bytes or all at once in any mixture, so that every length
  arithmetic is cut in the middle; `RQmax` 60 (10000 in the code) makes the queue be
  compacted in the middle of messages. The exploration of a behaviour ends when the
  place in the stream is lost (`rfb.lost`, section 4).
* VNC input: control, alt and shift, one letter with a character at the third level, Enter,
  the char modifier of Windows (Alt+Ctrl; that of Linux, AltGr, is a change of a constant);
  three keys held, four events stalled, three entries of tracked keys; two buttons and
  the wheel; one loss of focus and one key pressed meanwhile. Once a letter that was held has changed its name
  no further key is pressed; those held are still repeated and let go, which is what shows.

### 3.3 Fairness

Only the runs `bus_ends`, `bus_spin`, `main_closes`, `pubsub_calls`, `terminal`
and `vnc` assume any. Goroutines that can run eventually do (weak
fairness of the handlers, of the forwarder, of the pump, of the clock and the
timer). `select` picks among the ready cases at random, so a case that is ready
again and again is taken: strong fairness of each case. A pump's write ends, in
success or failure, because of the 10-second write deadline. Nothing makes a
browser ask, a device answer, or a connection break.

`WaitingEnds` cannot say that every requester gets its answer: `bus_gone` and `bus_spin` show
that the bus may stop. It names the five ways it may (`Stopped`): a send to a requester that has gone,
the loop over an unexpired front, a bus and a writer that wait for each other, a full `seqMsg` that only the
bus drains, a panic. Everything else has to end: whatever the order of
answers, refusals, timeouts, stale ticks and lost connections, no requester
is left behind. `BrokenIsClosed` is conditional on the bus coming back to its select infinitely often,
and on the process not having panicked.

In `PubSub` the goroutine is weakly fair, each caller that waits to hand over a
command strongly (Go serves senders on an unbuffered channel in turn), and a
subscriber that has something to read reads it: an assumption about the users of
the library, without which any full channel stops it.

In the browser a timer that was set fires: weak fairness of `Flush` (the terminal's
replies) and of `DisconnTimeout` (the VNC disconnect timer). Nothing else is assumed
of hosts, servers and users.

## 4. What the code does not keep

`bus.go:68` says "Cannot block in bus thread!". Two runs show
where it does, and `Bus` holds two more places:

1. `bus_gone`. An answered request is removed from the table but not from the
   expired list (`bus.go:169`). Ten seconds later its timeout is fired to a
   requester that is gone, and the send never ends. One answered request is
   enough to stop the server.
2. `bus_spin`. The loop over the expired list has no exit for a front that has
   not expired (`bus.go:191`), and `now` is not read again. A request made in
   the ten seconds before the idle tick, or two made at different times, are
   enough.
3. `processHandler` waits for room in `writeMsg` (`bus.go:73`) while
   the `writePump` that should make it waits for the bus to take its `Close`
   (`busPc = "write"` with `writeMsg` full and the writer in `closers`; no run).
4. `RequestControlInner` sends to `seqMsg` from the goroutine that drains it
   (`bus.go:79`; `busPc = "push"` with `seqMsg` full; no run). It takes more than 1024
   requests whose calls the select happens to prefer to their messages, so it
   is unlikely, but nothing excludes it.

`seqmap_evict`: "Remove old seq" (`seqmap.go:43`) frees the number of an evicted
request but not its slot. The slot is never given back, and a later deletion
that moves it makes the number lead to the evicted request again.

The rest of this section lists other things the models show. No document of the repository
says otherwise of most of them, so that no run reports them; the
model follows the code, and the properties have the exception as a condition.

### 4.1 The server

* The timer is set to `nextTick` less a reading of the clock taken before the
  handler's sends (`bus.go:201`): when those block, the next tick comes late by as much.
  `ExpiryInTime` bounds the delay by `slow`.
* A user with two devices, both registered, and a request queued for the second.
  The first device's connection closes and takes the `User` out of `users`; the
  second's closes and, finding no `User`, leaves its entry in the old `devMap`;
  the queued request finds it there and the bus sends on a closed channel, which
  ends the process. `PanicNeedsSibling` says that it takes two such devices.
* When one of a user's devices goes, the others stay connected and cannot be
  reached until they reconnect.
* A device that reconnects while its old connection lingers is unregistered, and
  its websocket closed, when the old one's close is taken (`mainchannel.go:57`). So a device that is
  alone can lose its place too; besides these two, its own close and a later connection nothing takes it
  (`LostOnlyByClosing`).
* The answer to a handshake is sent on a channel that the bus may just have
  closed for the writer (`mainchannel.go:163`): a panic.
* A device that repeats its handshake on one connection closes its own
  websocket (`usermgr.go:68`).
* A `writePump` whose channel is closed never returns (`mainchannel.go:105`).
* The publish-subscribe goroutine blocks on a full channel (`pubsub.go:168`) whose
  subscriber waits for it in `Unsub` and so does not read: both wait for ever.
  `CallsReturn` holds only if subscribers read while they call (`ReadsInCall`).
* `AddSub` on a channel that the registry has closed makes the next `Pub` panic,
  and after `Shutdown` every call blocks for ever.

### 4.2 The terminal (`term.js`)

* Screen: nothing keeps the cursor's column on the screen. It rests behind the last one after a character was
  typed there, CHA puts it anywhere (3406), and resize leaves tab stops behind a smaller screen's last column
  (2747). Only rows are bounded (`RowsOnScreen`), and the handlers are shown to bear any column.
* DECSTBM takes margins beyond the last row (4007), and a saved cursor is
  restored after the screen has shrunk (4024): the next line feed or print reads a line that
  does not exist. Both set `wild`, after which a behaviour is not followed.
* ICH, DCH, ECH and REP (3364, 3462, 3479, 4098), and RI above the top margin
  (2945), do not extend the rows to repaint: what they changed shows later. A reset, resize or
  exchange of screens in the middle of a chunk draws the cursor, and the end of the chunk a second one.
* resize sets the new tab stops by the old number of columns (2795, 2838). A full reset
  (2964) leaves the mouse modes and the saved cursor, and empties the reply queue under
  its timer; the reply then queued leaves with the old timer, in order.
  HVP with one parameter makes the column `NaN` (3606), although a comment above it speaks
  of the defaults. `CSI ? 1049 ; n h` clears the prefix before the second parameter is looked at (3705).
* Parser: what follows a character that is passed over (`i++` after ESC, `ESC %`, `ESC #`,
  the charset `/`) is read as text when the chunk ends there (1769, 1785, 2318, 2404). `ESC N O n o | } ~` do not return to normal
  (1646-1677). The private branch of the device status report cannot be reached (1939).
* Replies: what the user types overtakes queued replies (2653, 2709).
* Selection mode replaces `write` by a function that does nothing: what the host sends
  meanwhile is lost (4648). Ctrl-C leaves the visual mode in a timer (2602), also one
  that was entered since. With the cursor behind the last column, `v` and `b` read a cell that
  is not there (4671, 5176); so does a backspace in a search prompt longer than the row, when the view
  was scrolled while it was typed (5541), and the cursor stays one column too far right. Scrolling by key moves the row without the selection
  (2474). The search passes over a match that begins within a partial one (5483).
  `k` after the prefix destroys the terminal (4957). A pending copy takes the focus back later (594).
* Mouse: when the host takes `normalMouse` back between a press and its release, the
  listener for motion stays for good (1112, 1118). In the plain coding all places
  behind column 95 are reported alike (887). Modifiers are moved by two bits although the
  comment gives them their final places (1017, 1037). A place may lie one column beyond the last (1077).
* `destroy()` leaves the document's listeners. `telnet.html` handles a websocket's close
  before its open as if the terminal existed.

### 4.3 The VNC client

* The 50 ms timer from 'failed' to 'disconnected' (`rfb.js:570`), and a disconnect timer lost
  by a second click, speak to the page on behalf of a session it has left:
  `updateState` ignores whose call it is (`ui.js:620`). The page then offers Connect
  while a session runs.
* After asking for the password the code falls through and answers the challenge without it
  (`_negotiate_std_vnc_auth`). An empty password, or for XVP one of fewer than three parts, is sent on like any other:
  the object asks again (774, 796), and until its 1 ms timer has looked at it the page shows nothing of the
  'Authentication' it is in; `sendPassword` sets 'Authentication' from any state
  (`rfb.js:298`); the button "Send Password" stays after a failure.
* 'connect' has no timeout. `disconnect` takes the handlers off, so a session cannot be used twice.
* Reading: a version that arrives in pieces is a failure (691); bytes that come with the
  server's initialisation wait for the next event (621); the header of a colour map is not
  waited for (1087); a refused desktop size loses the place in the stream
  (1972-1992); a tight rectangle with the copy filter given explicitly throws (1901); encodings
  that have a name and no handler, JPEG quality and compression among them, throw (1228); the reason of a refusal is read without waiting for it.
* Legal servers that are hung up on, which `NeverHungUp` names (`declined`): one whose Tight authentication lists no types
  (887), although the protocol means by it that none is needed; one that sends TIGHT_PNG in a session with few
  colours, which is offered all the same (1384), only TIGHT being left out: the session is failed (1660), and
  the rectangle read to its end because no return follows; a raw hextile with all the
  other flags set (1543). A version that the code does not list is failed too (711); the runs have only listed ones.
* Where the browser's events have `key`, a key is told by name and code (`keyboard.js:153`), and a letter's name
  changes with Shift. Shift, A, Shift up, the repeat `a`, A up: the repeat makes a second entry (449), the keyup
  takes that one, and "A" stays down at the server while nothing is held. The comment on `TrackKeyState` (436) says that
  repeats are merged and that a keyup releases all its key sent, which is true of a browser without `key` only.
  `NothingStuck` and `ModifiersKnown` leave out behaviours in which a held letter changed its name (`names`); a lost
  window focus still releases all that is recorded (`AwayReleases`). After such a change a modifier can stay down too: a keyup
  that finds no entry takes the last one, Ctrl's for instance, and an escaped character redoes Ctrl without one. The run
  does not go there.
* A key that is down when the page's text field takes the focus stays down at the server.
  A char modifier held while the window loses the focus is still taken to be down,
  and the next character of the third level presses it again without
  a release to come. A made-up modifier event has no key, so its keyup takes the
  first entry without one, or the last. A repeat of a key not pressed last would leave
  an entry behind. The left and the right Shift are one key.
* Linux's char modifier, AltGr, has no flag in the events the page sees. Pressed or let go
  while the canvas does not see it, with a key held at a change of the focus, it is not known, and a
  character may be escaped that should not be, or the other way round; `BareOrWhole` leaves
  that case out.
* Two mouse buttons: the first release ends the capture, the second is not seen. An up whose
  down was not seen sets the button's bit, because the mask is toggled. A resize during a
  drag of the viewport leaves it on, and moves are not sent until the mode is used again.

## 5. What is proved

All proofs are for every value of the constants, from the assumptions named in
the modules: the ring fits the 16-bit field (`SizeAssumption`), `Nil` is no
request, the error reply is neither a request nor `Nil` (`ErrAssumption`), capacities and
durations are positive. No proof assumes fairness.

* `SeqMapLemmas`: `SeqInv` (types, `SlotsPacked`, `NumbersResolve`) is kept by
  one `NewSeq` and one `DelSeq`. The three parts need each other: a deletion
  moves the last slot, so slots must be packed; it rewrites that request's
  number, so numbers must resolve. `NewSeqFree` and `DelSeqReached` add that, as long as
  no number is taken from an outstanding request, every filled slot stays reachable. `TableSafe` is a theorem about any
  caller that keeps to `TableSpec` (no request is put in twice).
* `SeqMapProofs`: the properties of `SeqMapClient` as theorems of `Spec`. With a careful
  caller slots are reachable, which with packing gives that a full table has all
  its numbers in use (a pigeonhole argument), and the refinement of `PendingMap`
  step by step.
* `BusProofs`: the inductive invariant `IInv` of the bus. Its heart is `Once`: a
  requester that has not been taken is not queued and has no number; a queued
  request has no number and is queued once; a request without a number is not
  in the table. From it `KeepsToTable`, that the bus implements `TableSpec`, and
  by composition with `TableSafe` that the table inside the bus is consistent
  (`TableOfBusSafe`). `TypeCorrect` includes the bounds of the channels.
  Further `NobodyForgotten` (`WaitingIsTracked`, strengthened by what the
  bus holds in its hand when it refuses), `TickAlwaysComing`, and `ExpiredFoundInTime`
  (`ExpiryInTime`). Its invariant `EInv` says of each place in the tick's loop
  what has been looked at, and of the timer and its two stages by when a tick
  will have been seen.
* `BusProofs`, answers: every requester gets the answer to its own request unless the ring came round
  (`AnswersAreOnesOwn`), until then the answer finds it (`WaitingFound`), and nobody
  is told of a timeout too early (`NobodyTimedOutEarly`). `AInv`
  adds to `IInv` where numbers are: those of the last lap lie just behind `curr_seq`
  (`LastLap`), two requests that share a number are `MaxSize` apart (`SharedApart`), and whatever
  travels or is found by a number has that number (`Sent`, `Found`, `Handed`). `WInv` adds
  that during the first lap nothing is evicted, so every slot is reachable, a tracked request is listed
  once with its time, and one that is told of an error is out of the table.
  With this every invariant of the run `bus_lap`, and its refinement, is a theorem.
* `MainChannelProofs`: types by an invariant of the pumps' places
  and closes (`IInv`); for connections that send one handshake each (`OneHandshake`)
  that the registry leads to open connections (`RegistryLeadsToOpen`), what takes a connection's
  place in it (`PlacesLost`, for `LostOnlyByClosing`), and that the bus's panic takes two devices of one user
  (`PanicTakesSibling`, for `PanicNeedsSibling`). `RInv` relates the two unsynchronised
  fields, the `User` objects past and present, and the entries in their maps: which
  objects may still hold an entry of a closed connection (`Stale`), and that such an object
  is not current.
* `PubSubProofs`: without `AddSub`, for any numbers of subscribers, publishers
  and topics and any capacity, `TypeOK`, `NoPanic` and `ClosedWhenLeft` always
  hold. The invariant adds that the two maps agree (`Mirrored`), that every
  subscription still to be served in a publication is one that exists and that
  they are of different channels (`Serving`: so ending one SubOnce does not
  touch the others), and what commands a caller can be waiting with (`Offers`).
  `EverySubscriptionServed` (`Served`), again without `AddSub`:
  `SInv` splits what is owed in the middle of a publication into what has been sent and
  what the loop still will (`OnItsWay`), and says that a SubOnce owes one
  message at most (`OneKind`, `Fresh`).
* `ScreenProofs`: the terminal object holds together (`TerminalHolds`, for `ScreenHolds`), the page
  shows it (`PageRepainted`, for `Repainted`), and the main screen put aside comes back as it was
  (`AsideKept`, for `MainScreenKept`), for every size of screen and scrollback, all sizes it is resized to and all
  parameters. `ScreenInv` strengthens `ScreenHolds` by the types of all fields, by the same facts about the
  main screen put aside (they are needed when it returns), and, within a chunk, by `Ranged`:
  the rows that changed, and those that show a cursor, lie in the range to repaint, and that
  range on the screen. `Ranged` is what `Painted` and `OneCursor` (`Rested`) need of the
  chunk to hold after it. Each handler is a composition of few assignments, and has a lemma of its own. The
  arithmetic is in the scrollback: that cutting it to its newer half leaves as many lines as `ybase` and the
  rows call for, that IL, DL, SU and SD exchange lines one by one however often they are repeated, and that
  `resize` adds or takes away the lines that are missing or left over. All of it is under `~t.wild`, with which section 4.2 begins:
  of a host
  that puts a margin off the screen only what does not depend on it is claimed: types, complete lines, a view
  within the scrollback, and the current character set.
* `TermProofs`, parser: that what the parser reads is what the host spelled (`ReadsSafe`). The invariant
  is `Sound`: in the middle of a CSI sequence `params`, `currentParam` and
  `prefix` are what the characters so far spell (`Reads`), nothing belongs to a sequence outside it
  (`Leakless`), and the handler last called was given what was spelled (`Spells`).
  `Reads` needs more than the property: that the reference counts nothing for parameters
  not yet begun, or a semicolon could not start one at 0. The reference is a recursive
  function over the characters; `RefParamAppend` says what one more character
  makes of it. With it `BelAlwaysRecovers` and `RepliesOrdered`.
* `TermProofs`, keys: `SelectionsHold`, `SearchesFind`, `ModesUndo` and `CopiesTrue`. The record is passed through the
  handlers, so the proof is about records: `KeysOK` is the invariant of one, and `Lawful(s, n)` says what a
  key may make of `s`: a record for which it holds, with what was saved still there (`Kept`), the screen restored
  if the mode was left (`Restored`), the fixed end where it was (`AnchorKept`), and the outcome of a search told
  truly (`FoundOK`). Each handler has a lemma that its result is lawful, and `LawfulFrom` composes them.
  `KeysOK` needs that the buffer is what the host wrote except under a prompt (`Clean`), that a prompt
  takes no cell away (`Whole`), and that the marked cells are the region of `sel` (`SelOK`); otherwise
  a mode that is left has nothing right to restore. A motion is shown to stay on the screen and in the view
  whatever the text (`Moves`), and not behind the last column unless it began there. For the search,
  `RowSearched` says where the tries along a row end up, by induction on the columns left of it
  (`TriesExist`), and `TriedRows` that every row is tried from column 0.
  `CopiesTrue` (`CopiesSelection`) needs of `SelOK` that while the visual mode is on both ends are on lines
  that exist and before the column behind the last (`Inside`), or there is no cell to copy. `GrabLoop` follows
  `grabText` along a row, by induction on its cells: `out` is the part without its blank end, `buf` the blanks
  behind it, which the newline throws away. `RegionRows` and `SpanRowsIn` say which rows and cells that are,
  `CutIs` when the last newline goes. That no other key sets what the copy is compared with is a
  lemma for each handler (`HasRef`).
* `TermProofs`, mouse: `ReportsSafe` (`ReportsPaired`). `MouseInv` says that at most one tracking mode is
  set and `mouseEvents` tells whether one is; that as many releases are owed as
  listeners wait for one, and that a motion listener without one of these is one the host
  took the mode from; and that the focus reports alternate, the last one true.
* `VncProofs`: of the sessions a page has made one has a live connection (`SessionsSafe`), the
  page shows the state of that one (`PageTells`), but for a failure after the end and a password just sent, and a
  session that was disconnected is not reported as failed later (`DisconnectFinal`).
  Two relations carry the proof: `Happening(q, r)`, what an event of the object's own timers or websocket may
  make of it and tell the page, which every handler is shown to be, and `Told`, what the page
  makes of it. `PageInv` adds to the properties that a session the page has left is over
  and waits for no timer, as long as no late timer misled the page, and that an event of which the page is not
  told leaves the password and a timer that is to look at it (`Silent`), or a password sent would be
  forgotten with the page none the wiser.
* `VncProofs`, input: `InputHolds` (`InputPaired`). What is hard is the queue of
  `VerifyCharModifier`: a key that was let go is still down at the server while its keyup waits
  behind a stall. `KeyInv` therefore follows the keys through the queue: as long as the
  focus changed only with nothing held, its events lead, one by one, from the keys that the entries of
  `track` stand for to the keys the user holds (`Chain`), so passing on any part of it keeps the two
  in step (`PassedReaches`), and an empty queue leaves them equal. Of each keydown with an `escape` it says that
  the char modifier is down at the server by then (`Lifts`); of each modifier, that the state `sync` keeps is the user's
  (`Tuned`). What follows a focus change with a key held has a weaker part of its own (`AwayOK`).
  `MouseInv` says what the mask, and the mask last sent, have to do with the buttons that are pressed.
  The names of keys enter through `KeyId`: while no letter has changed its name, a key has one id while it is held.
  `Passed` is a recursive function over the queue. The induction along it is over a set of numbers
  (`SetInduction`, from the library's theorem on least elements), since the theorem that takes a
  predicate cannot be instantiated.

Only model-checked are:

* liveness under fairness (`WaitingEnds`, `BrokenIsClosed`, `CallsReturn`, and the temporal
  parts of `RepliesSent` and `DisconnectsHold`), which TLAPS does not prove;
* the receive queue of the VNC client (`StreamRead`, `NobodyWaits`, `NeverHungUp`), whose module
  reads messages with recursive operators, which no proof can reach.

## 6. What is not modelled, and why

* The bytes of a server message (`ToBytes`, the header's fields other than the number):
  no property depends on them.
* The package `rcenter` does not compile at this commit. `usermgr.go` gives four of `User`'s five fields (41) and
  names fields that `UserConn` has not got (`v.ws` at 78, `conn.ws` at 105); so does `mainchannel.go`
  (`v.ws`, `v.writeMsg`, 63-64), which also makes `wsMap` with keys of another type than the field's (181);
  `http.go` imports six packages it does not use. All of these concern the tunnels that a device carries: `sessionId`, whose
  omission can only mean 0, numbers them, and the loops over `wsMap` run over a map that nothing fills. Whatever repairs
  them, the registry, the pumps and the bus read as they are modelled.
* `clientchannel.go`, the tunnels, does not compile either, and there it matters (`devConn` at lines 64, 111 and
  `port`, `d` at 236, 245 are not defined; `deviceId` and `sessionId` are not
  fields of `UserConn`; `v.ws` and `v.writeMsg` are not fields either;
  `mux`, `strings`, `strconv`, `errors` are not imported), although a route
  leads to it (`http.go:103`). There is no behaviour to be faithful to: who closes which channel,
  the interesting question, hangs on what `devConn` was meant to be.
* `RegistConn` and `UnregistConn` have no callers; `NewUserConn` is called by the tunnels only.
* `Call`'s error for a wrong number of parameters (`bus.go:136`): every caller outside
  `clientchannel.go` passes the right number.
* `http.go`, `util.go`: `CheckLogin` is one call on the bus that compares a password;
  `inet_aton` and `checkSameOrigin` are pure functions that no state depends on. `inet_aton`
  indexes four parts of a string that may have fewer; a test reaches that.
* Start-up, configuration and logging: sequential I/O.
* Of the terminal: wide characters in a selection or a search, colours and attributes of cells, the drawing of
  rows, title and window reports, the context menu and paste, touch events, printing.
* Of the VNC client: drawing (`display.js`), inflating (`jsunzip.js`), DES (`des.js`),
  the table of keysyms, touch events, the settings panel, the clipboard's text.
* `VT100.js` is loaded by no page; the remaining files under `statics/` and `template/`
  are copies, shims, style sheets and pages without state of their own.

## 7. What is left

1. The tunnels, once `clientchannel.go` compiles: four pumps of a tunnel, its close by
   any of them while others write, the attachment of the device's side by
   session number; composed with `MainChannel`.
2. A `MainChannel` in which one connection sends several handshakes: the registry's
   property (`Script` may list several for a connection; `TypeOK` is proved of any) then needs the code of `usermgr.go:68` to tell a device's own repetition from
   another connection.
3. The composition of `MainChannel` with `Bus`, so that the send of a request and the
   close of its connection meet with the timer running; each is checked with
   the other reduced to what it calls.
4. A `RfbWire` whose reading of messages is written with recursive functions, so that what it
   understands can be proved and not only checked.
