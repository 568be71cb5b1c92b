------------------------------ MODULE VncInput ------------------------------
(***************************************************************************)
(* The keyboard and the mouse of a VNC session: include/keyboard.js, the   *)
(* classes of include/input.js and the two handlers of include/rfb.js that *)
(* they call.                                                              *)
(*                                                                         *)
(* A DOM event goes through four stages: KeyEventDecoder (which keysym,    *)
(* and is a modifier out of step), VerifyCharModifier (a queue and a 5 ms  *)
(* timer, to see whether a keypress follows), TrackKeyState (which keys    *)
(* the server has been told are down) and EscapeModifiers.  The server's   *)
(* side is the set of keysyms it has been told are down.                   *)
(*                                                                         *)
(* The user presses and releases keys and buttons as they please, also     *)
(* while the window or the canvas is without the focus and sees nothing of *)
(* it.  The one assumption about the browser is that keydown and keypress  *)
(* of a key come with no other event between them, only timers.            *)
(*                                                                         *)
(* A key is told from another by its key code and, where the browser's     *)
(* events have one, its name, which for a letter changes with the          *)
(* modifiers ('a' and 'A').                                                *)
(***************************************************************************)
EXTENDS Integers, Sequences, FiniteSets, SequencesExt

CONSTANTS
    Modifiers,     \* of Ctrl, Alt, AltGr and Shift, those used
    Letters,       \* keys that make characters
    Thirds,        \* those of them with a character at the char modifier's level
    Specials,      \* keys that make none: Enter, Tab, ...
    CharModifier,  \* the char modifier of the platform, a sequence of modifiers
    Flagged,       \* the modifiers an event carries a flag for
    Buttons,       \* mouse buttons
    MaxHeld,       \* bound: keys held at once
    MaxQueue,      \* bound: events that wait for the stall timer
    MaxTrack,      \* bound: entries in track
    MaxGaps,       \* bound: times the canvas loses the focus
    MaxUnseen      \* bound: keys pressed while it has not got it

Keys == Letters \cup Specials \cup Modifiers

ASSUME InputAssumption ==
    /\ Modifiers \subseteq {"Ctrl", "Alt", "AltGr", "Shift"}
    /\ Thirds \subseteq Letters /\ Letters \cap (Specials \cup Modifiers) = {}
    /\ {"none", "char"} \cap Keys = {} /\ "Shift" \notin Letters /\ "wheel" \notin Buttons
    /\ Flagged \subseteq Modifiers
    /\ CharModifier \in Seq(Modifiers) /\ ToSet(CharModifier) \subseteq Modifiers \ {"Shift"}
    /\ {MaxHeld, MaxQueue, MaxTrack, MaxGaps, MaxUnseen} \subseteq Nat

VARIABLES
    mods,      \* ModifierSync: which modifiers it takes to be down
    queue,     \* VerifyCharModifier: events it has not passed on
    timer,     \* its timer is set
    track,     \* TrackKeyState: entries [id, syms, ignore]
    down,      \* the keysyms the server has been told are down
    spoilt,    \* a character was sent with the char modifier down that should have
               \* been sent without, or the other way round
    fresh,     \* the key whose keydown may be followed by a keypress, or NoKey
    mouse,     \* captured, mask, drag (viewportDrag), dragging; told: the mask last sent
    held,      \* the keys the user holds, in the order they were pressed
    pressed,   \* the buttons the user holds
    focus,     \* where keys go: "canvas", "field" (keyboard and mouse set_focused(FALSE)),
               \* or "away" (the window has lost the focus)
    gaps,      \* how often the focus has been lost
    unseen,    \* how many keys were pressed without it
    across,    \* a key or a button was held when the focus changed
    names,     \* "codes": the browser's events have no key names; "kept": they have, and
               \* no letter has got another name while it was held; else "changed"
    chord      \* two buttons have been held at once

keyVars == <<mods, queue, timer, track, down, spoilt, fresh>>
userVars == <<held, pressed, focus, gaps, unseen, across, names, chord>>
inputVars == <<keyVars, mouse, userVars>>

NoKey == "none"
NoSym == [key |-> NoKey, level |-> "plain"]
Sym(k, level) == [key |-> k, level |-> level]
CharId == Sym("char", "plain")
Holds(k) == k \in ToSet(held)

InputInit ==
    /\ mods = [m \in Modifiers |-> FALSE] /\ queue = <<>> /\ timer = FALSE
    /\ track = <<>> /\ down = {} /\ spoilt = FALSE /\ fresh = NoKey
    /\ mouse = [captured |-> FALSE, mask |-> {}, drag |-> FALSE, dragging |-> FALSE, told |-> {}]
    /\ held = <<>> /\ pressed = {} /\ focus = "canvas" /\ gaps = 0
    /\ unseen = 0 /\ across = FALSE /\ chord = FALSE /\ names \in {"codes", "kept"}

(***************************************************************************)
(* EscapeModifiers and the session: s is [track, down, spoilt].            *)
(***************************************************************************)
EscapeSyms == {Sym(m, "plain") : m \in ToSet(CharModifier)}

\* lifted: the char modifier has been undone for it
SentKey(s, sym, lifted) ==
    [s EXCEPT !.down = @ \cup {sym},
              !.spoilt = @ \/ IF sym.level = "third" THEN s.down \cap EscapeSyms # {} ELSE lifted]

\* Faulty variant: the modifiers are not redone.
EscapedForGood(s, e) ==
    IF e.escape
    THEN SentKey([s EXCEPT !.down = @ \ EscapeSyms], e.sym, TRUE)
    ELSE SentKey(s, e.sym, FALSE)

\* undo the modifiers, send the character, redo them
Escaped(s, e) ==
    IF e.escape
    THEN LET bare == [s EXCEPT !.down = @ \ EscapeSyms]
         IN  [SentKey(bare, e.sym, TRUE) EXCEPT !.down = @ \cup EscapeSyms]
    ELSE SentKey(s, e.sym, FALSE)

(***************************************************************************)
(* TrackKeyState                                                           *)
(***************************************************************************)
NewEntry(id) == [id |-> id, syms |-> {}, ignore |-> FALSE]

\* the last entry gets the keysym, and the event goes on
Recorded(s, e, ignore) ==
    LET i == Len(s.track)
    IN  Escaped([s EXCEPT !.track[i].syms = @ \cup {e.sym}, !.track[i].ignore = @ \/ ignore], e)

\* Faulty variant: a repeated keydown is a new entry.
TrackDownAnew(s, e) ==
    LET t == [s EXCEPT !.track = Append(@, NewEntry(e.id))]
    IN  IF e.sym = NoSym THEN t ELSE Recorded(t, e, TRUE)

TrackDown(s, e) ==
    LET known == s.track # <<>> /\ e.id # NoSym /\ Last(s.track).id = e.id
        t == IF known THEN s ELSE [s EXCEPT !.track = Append(@, NewEntry(e.id))]
    IN  IF e.sym = NoSym THEN t ELSE Recorded(t, e, TRUE)

TrackPress(s, e) ==
    LET t == IF s.track = <<>> THEN [s EXCEPT !.track = <<NewEntry(e.id)>>] ELSE s
    IN  IF Last(t.track).ignore THEN t ELSE Recorded(t, e, FALSE)

\* the entry of that key, else the last one
Matched(t, e) ==
    LET same == {i \in DOMAIN t : t[i].id = e.id}
    IN  IF same = {} THEN Len(t) ELSE CHOOSE i \in same : \A j \in same : i <= j

\* Faulty variant: the keysym of the event instead of those of the entry.
TrackUpAsIs(s, e) ==
    IF s.track = <<>> THEN s
    ELSE [s EXCEPT !.down = @ \ {e.sym}, !.track = RemoveAt(s.track, Matched(s.track, e))]

TrackUp(s, e) ==
    IF s.track = <<>> THEN s
    ELSE LET i == Matched(s.track, e)
         IN  [s EXCEPT !.down = @ \ s.track[i].syms, !.track = RemoveAt(s.track, i)]

\* Faulty variant: one keysym of each entry.
ReleaseFirst(s) ==
    [s EXCEPT !.down = @ \ {CHOOSE y \in s.track[i].syms : TRUE :
                                i \in {i \in DOMAIN s.track : s.track[i].syms # {}}},
              !.track = <<>>]

ReleaseAll(s) ==
    [s EXCEPT !.down = @ \ UNION {s.track[i].syms : i \in DOMAIN s.track}, !.track = <<>>]

Tracked(s, e) ==
    CASE e.type = "keydown"    -> TrackDown(s, e)
      [] e.type = "keypress"   -> TrackPress(s, e)
      [] e.type = "keyup"      -> TrackUp(s, e)
      [] e.type = "releaseall" -> ReleaseAll(s)

(***************************************************************************)
(* VerifyCharModifier                                                      *)
(***************************************************************************)
\* Faulty variant: every keypress with the char modifier down is escaped.
MergedAlways(a, b) == [a EXCEPT !.escape = @ \/ b.escape, !.sym = b.sym]

\* A keydown with the keypress that follows it: a keypress that says what the
\* keydown said was not changed by the modifier, and is not escaped.
Merged(a, b) == [a EXCEPT !.escape = @ \/ (b.escape /\ a.sym # b.sym), !.sym = b.sym]

\* Event i of q on its own, or with the keypress behind it, which then is done.
Handled(q, i, s) ==
    IF q[i].type = "keypress" /\ i > 1 /\ q[i - 1].type = "keydown" THEN s
    ELSE IF q[i].type = "keydown" /\ i < Len(q) /\ q[i + 1].type = "keypress"
    THEN Tracked(s, Merged(q[i], q[i + 1]))
    ELSE Tracked(s, q[i])

\* what is passed on of q up to the next stall, and what is left
Stalls(q) == {i \in DOMAIN q : q[i].type = "stall"}
NextStall(q) ==
    IF Stalls(q) = {} THEN Len(q) + 1 ELSE CHOOSE i \in Stalls(q) : \A j \in Stalls(q) : i <= j
Passed(q, s) ==
    LET after[i \in 0..NextStall(q) - 1] == IF i = 0 THEN s ELSE Handled(q, i, after[i - 1])
    IN  [queue |-> SubSeq(q, NextStall(q) + 1, Len(q)), timer |-> Stalls(q) # {},
         s |-> after[NextStall(q) - 1]]

Behind == [track |-> track, down |-> down, spoilt |-> spoilt]
Becomes(p) ==
    /\ queue' = p.queue /\ timer' = p.timer
    /\ track' = p.s.track /\ down' = p.s.down /\ spoilt' = p.s.spoilt

\* The decoder's events join the queue; they go on unless the timer is set.
Offered(events) ==
    /\ Len(queue) + Len(events) <= MaxQueue
    /\ Becomes(IF timer THEN [queue |-> queue \o events, timer |-> TRUE, s |-> Behind]
               ELSE Passed(events, Behind))

StallTimer ==
    /\ timer /\ Becomes(Passed(queue, Behind))
    /\ UNCHANGED <<mods, fresh, mouse, userVars>>

(***************************************************************************)
(* KeyEventDecoder                                                         *)
(***************************************************************************)
Event(type, id, sym, escape) == [type |-> type, id |-> id, sym |-> sym, escape |-> escape]
Stall == Event("stall", NoSym, NoSym, FALSE)

\* ModifierSync.sync, for an event of key k (NoKey for the mouse): a modifier that
\* is not as the event's flags say, and is not k, is set right by a made-up event.
Synced(ms, k, h) ==
    [m \in Modifiers |-> IF m \in Flagged /\ m # k THEN m \in h ELSE ms[m]]
SyncEvent(m, ms, k, h) ==
    IF m \notin Modifiers \/ Synced(ms, k, h)[m] = ms[m] THEN <<>>
    ELSE <<Event(IF m \in h THEN "keydown" ELSE "keyup", NoSym, Sym(m, "plain"), FALSE)>>
SyncEvents(ms, k, h) ==
    SyncEvent("Ctrl", ms, k, h) \o SyncEvent("Alt", ms, k, h)
        \o SyncEvent("AltGr", ms, k, h) \o SyncEvent("Shift", ms, k, h)

DownIn(ms) == {m \in Modifiers : ms[m]}
activeCharModifier(ms) == CharModifier # <<>> /\ ToSet(CharModifier) \subseteq DownIn(ms)
hasShortcutModifier(ms) ==
    Cardinality(DownIn(ms) \ {"Shift"}) > (IF activeCharModifier(ms) THEN Len(CharModifier) ELSE 0)

\* keysymFromKeyCode
Guess(k, h) == IF k \in Letters /\ "Shift" \in h THEN Sym(k, "shift") ELSE Sym(k, "plain")

\* which character the key stands for while h are held
Level(k, h) ==
    IF k \in Thirds /\ CharModifier # <<>> /\ ToSet(CharModifier) \subseteq h THEN "third"
    ELSE IF k \in Letters /\ "Shift" \in h THEN "shift" ELSE "plain"

\* getKey: the key code, with the name if there is one
KeyId(k, h) == Sym(k, IF names = "codes" THEN "plain" ELSE Level(k, h))

\* A key goes down (or repeats); h are the keys then held.
keydown(k, h) ==
    LET own == IF k \in Modifiers THEN [mods EXCEPT ![k] = TRUE] ELSE mods
        ms == Synced(own, k, h)
        active == activeCharModifier(ms)
        shortcut == hasShortcutModifier(ms)
        sym == IF k \notin Letters \/ shortcut \/ active THEN Guess(k, h) ELSE NoSym
        stall == IF active /\ k \in Letters THEN <<Stall>> ELSE <<>>
    IN  /\ mods' = ms
        /\ Offered(SyncEvents(own, k, h) \o stall \o <<Event("keydown", KeyId(k, h), sym, FALSE)>>)
        /\ fresh' = IF k \in Letters /\ ~shortcut THEN k ELSE NoKey

keyup(k, h) ==
    LET own == IF k \in Modifiers THEN [mods EXCEPT ![k] = FALSE] ELSE mods
    IN  /\ mods' = Synced(own, k, h)
        /\ Offered(SyncEvents(own, k, h) \o <<Event("keyup", KeyId(k, h), Guess(k, h), FALSE)>>)
        /\ UNCHANGED fresh

\* the characters the browser may report: with the char modifier down, that of the
\* third level if there is one, or, in Firefox, the plain one
CharsOf(k) ==
    IF ToSet(CharModifier) \subseteq ToSet(held) /\ CharModifier # <<>>
    THEN (IF k \in Thirds THEN {Sym(k, "third")} ELSE {}) \cup {Guess(k, ToSet(held))}
    ELSE {Guess(k, ToSet(held))}

\* keydown was not suppressed and a keypress comes, or does not.
KeyPress ==
    /\ fresh # NoKey
    /\ \E c \in CharsOf(fresh) :
           Offered(<<Event("keypress", CharId, c, activeCharModifier(mods))>>)
    /\ fresh' = NoKey /\ UNCHANGED <<mods, mouse, userVars>>
NoKeyPress ==
    /\ fresh # NoKey /\ fresh' = NoKey
    /\ UNCHANGED <<mods, queue, timer, track, down, spoilt, mouse, userVars>>

(***************************************************************************)
(* The user's keys                                                         *)
(***************************************************************************)
Seen == focus = "canvas"

\* held letters may get another name when a modifier comes or goes
Renamed ==
    names' = IF names = "kept" /\ \E k \in Letters : Holds(k) /\ k \in ToSet(held')
                    /\ Level(k, ToSet(held)) # Level(k, ToSet(held'))
             THEN "changed" ELSE names

Press(k) ==
    /\ fresh = NoKey /\ ~Holds(k) /\ Len(held) < MaxHeld /\ Len(track) < MaxTrack
    /\ Seen \/ unseen < MaxUnseen
    /\ held' = Append(held, k) /\ Renamed
    /\ IF Seen THEN keydown(k, ToSet(held) \cup {k}) ELSE UNCHANGED keyVars
    /\ unseen' = IF Seen THEN unseen ELSE unseen + 1
    /\ UNCHANGED <<mouse, pressed, focus, gaps, across, chord>>

\* the key pressed last repeats; modifiers do not
Repeat ==
    /\ fresh = NoKey /\ Seen /\ held # <<>> /\ Len(track) < MaxTrack /\ Last(held) \notin Modifiers
    /\ keydown(Last(held), ToSet(held))
    /\ UNCHANGED <<mouse, userVars>>

Release(k) ==
    /\ fresh = NoKey
    /\ \E i \in DOMAIN held : held[i] = k /\ held' = RemoveAt(held, i)
    /\ Renamed
    /\ IF Seen THEN keyup(k, ToSet(held) \ {k}) ELSE UNCHANGED keyVars
    /\ UNCHANGED <<mouse, pressed, focus, gaps, unseen, across, chord>>

\* The window's blur (allKeysUp); the clipboard field takes the focus (displayBlur).
LoseFocus(to) ==
    /\ fresh = NoKey /\ Seen /\ gaps < MaxGaps
    /\ focus' = to /\ gaps' = gaps + 1
    /\ across' = (across \/ held # <<>> \/ pressed # {})
    /\ IF to = "away"
       THEN Offered(<<Event("releaseall", NoSym, NoSym, FALSE)>>)
       ELSE UNCHANGED <<queue, timer, track, down, spoilt>>
    /\ UNCHANGED <<mods, fresh, mouse, held, pressed, unseen, names, chord>>

\* The window is back, or the field gives the focus back (displayFocus).
GetFocus ==
    /\ fresh = NoKey /\ ~Seen /\ focus' = "canvas"
    /\ across' = (across \/ held # <<>> \/ pressed # {})
    /\ UNCHANGED <<keyVars, mouse, held, pressed, gaps, unseen, names, chord>>

(***************************************************************************)
(* Mouse                                                                   *)
(***************************************************************************)
Wheel == "wheel"
Flip(a, b) == (a \ b) \cup (b \ a)

\* Faulty variant: the press that begins a drag is told the server.
mouseButtonSent(ms, isDown, b) ==
    LET mask == IF isDown THEN ms.mask \cup {b} ELSE Flip(ms.mask, {b})
    IN  [ms EXCEPT !.mask = mask, !.told = IF isDown THEN mask ELSE @]

\* RFB._handleMouseButton
mouseButton(ms, isDown, b) ==
    LET mask == IF isDown THEN ms.mask \cup {b} ELSE Flip(ms.mask, {b})
    IN  IF ms.drag /\ isDown /\ ~ms.dragging
        THEN [ms EXCEPT !.mask = mask, !.dragging = TRUE]
        ELSE [ms EXCEPT !.mask = mask, !.dragging = @ /\ ~ms.drag, !.told = mask]

\* notify: every mouse event the canvas sees brings the modifiers up to date
Notify ==
    /\ mods' = Synced(mods, NoKey, ToSet(held))
    /\ Offered(SyncEvents(mods, NoKey, ToSet(held)))
    /\ UNCHANGED fresh

MouseDown(b) ==
    /\ fresh = NoKey /\ focus # "away" /\ b \notin pressed
    /\ pressed' = pressed \cup {b}
    /\ IF Seen THEN Notify /\ mouse' = [mouseButton(mouse, TRUE, b) EXCEPT !.captured = TRUE]
       ELSE UNCHANGED keyVars /\ mouse' = [mouse EXCEPT !.captured = TRUE]
    /\ chord' = (chord \/ pressed # {})
    /\ UNCHANGED <<held, focus, gaps, unseen, across, names>>

\* The first release lets the capture go: later ones are disregarded.
MouseUp(b) ==
    /\ fresh = NoKey /\ b \in pressed
    /\ pressed' = pressed \ {b}
    /\ IF mouse.captured /\ Seen
       THEN Notify /\ mouse' = [mouseButton(mouse, FALSE, b) EXCEPT !.captured = FALSE]
       ELSE UNCHANGED keyVars /\ mouse' = [mouse EXCEPT !.captured = @ /\ focus = "away"]
    /\ UNCHANGED <<held, focus, gaps, unseen, across, names, chord>>

\* a turn of the wheel is a button that goes down and up
MouseWheel ==
    /\ fresh = NoKey /\ Seen /\ Notify
    /\ mouse' = mouseButton(mouseButton(mouse, TRUE, Wheel), FALSE, Wheel)
    /\ UNCHANGED userVars

MouseMove ==
    /\ fresh = NoKey /\ Seen /\ Notify
    /\ mouse' = IF mouse.dragging THEN mouse ELSE [mouse EXCEPT !.told = mouse.mask]
    /\ UNCHANGED userVars

\* the button of the page; the host's resize takes the drag mode back, also during a drag
toggleViewDrag ==
    /\ fresh = NoKey /\ pressed = {} /\ mouse' = [mouse EXCEPT !.drag = ~@]
    /\ UNCHANGED <<keyVars, userVars>>
updateViewDrag ==
    /\ mouse.drag /\ mouse' = [mouse EXCEPT !.drag = FALSE]
    /\ UNCHANGED <<keyVars, userVars>>

KeyboardNext ==
    \/ \E k \in Keys : Press(k) \/ Release(k)
    \/ Repeat \/ KeyPress \/ NoKeyPress \/ StallTimer
MouseNext ==
    \/ \E b \in Buttons : MouseDown(b) \/ MouseUp(b)
    \/ MouseMove \/ MouseWheel \/ toggleViewDrag \/ updateViewDrag
FocusNext == (\E to \in {"away", "field"} : LoseFocus(to)) \/ GetFocus

InputNext == KeyboardNext \/ MouseNext \/ FocusNext

InputSpec == InputInit /\ [][InputNext]_inputVars

(***************************************************************************)
(* Properties                                                              *)
(***************************************************************************)
AtRest == fresh = NoKey /\ ~timer /\ queue = <<>>

Syms == [key : Keys, level : {"plain", "shift", "third"}]

\* Type invariant of the four stages and the mouse; the queue holds events only
\* while its timer is set (keyboard.js:382-432).
InputTypeOK ==
    /\ mods \in [Modifiers -> BOOLEAN] /\ down \subseteq Syms /\ timer \in BOOLEAN
    /\ \A i \in DOMAIN track :
           track[i].syms \subseteq Syms /\ track[i].id \in Syms \cup {NoSym, CharId}
    /\ Len(queue) <= MaxQueue /\ (queue # <<>> => timer)
    /\ mouse.mask \cup mouse.told \subseteq Buttons \cup {Wheel}

\* A keyup releases every keysym that its key's keydowns, repeats and keypresses
\* have sent; so once the user holds nothing, neither does the server
\* (keyboard.js:478-506), unless a letter got another name while it was held: its
\* keydowns and its keyup are then told apart like those of two keys.
NothingStuck == AtRest /\ ~across /\ names # "changed" => \A sym \in down : Holds(sym.key)

\* After every character, escaped or not, the server has the modifiers the user
\* holds (keyboard.js:530-540); a keyup that finds no entry takes the last one, which
\* may be a modifier's.
ModifiersKnown ==
    AtRest /\ unseen = 0 /\ ~across /\ names # "changed" =>
        \A m \in Modifiers : Holds(m) => Sym(m, "plain") \in down

\* The window's blur releases whatever the server has been told of, except a char
\* modifier that was redone while no entry recorded it (keyboard.js:507-516).
AwayReleases == AtRest /\ focus = "away" => down \subseteq EscapeSyms

\* A character of the third level reaches the server with the char modifier lifted,
\* a shortcut with all its modifiers, whether or not the keypress comes within the
\* 5 ms and whatever the user lets go meanwhile (keyboard.js:407-419).  A char
\* modifier that events carry no flag for, and that went down or up unseen, is not known.
BareOrWhole == ~across \/ ToSet(CharModifier) \subseteq Flagged => ~spoilt

\* Clicks, turns of the wheel and drags of the viewport in any order leave no button
\* down that the user does not hold, nor, but for what began as a drag, the other way
\* round (rfb.js:637-661, input.js:259-294).
ButtonsTold ==
    ~across /\ ~chord =>
        /\ mouse.told \subseteq pressed
        /\ Seen /\ ~mouse.drag /\ ~mouse.dragging => mouse.told = pressed

\* What the server has been told is down is what the user holds.
InputPaired ==
    InputTypeOK /\ NothingStuck /\ ModifiersKnown /\ AwayReleases /\ BareOrWhole
        /\ ButtonsTold
=============================================================================
