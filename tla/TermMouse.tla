----------------------------- MODULE TermMouse -----------------------------
(***************************************************************************)
(* Focus and mouse of the telnet page's terminal (telnet/term.js): the     *)
(* host chooses which mouse events it wants and how they are written, the  *)
(* user presses, moves, releases and scrolls, and the document's listeners *)
(* come and go.                                                            *)
(*                                                                         *)
(* m is the Terminal object as far as this goes, with the listeners its    *)
(* closure has on the document: moving (sendMove on mousemove) and ups     *)
(* (the one-shot mouseup listeners, one for each press).  Fields no        *)
(* handler reads: owed (presses reported that await a release), orphan     *)
(* (the host took normalMouse back between a press and its release),       *)
(* told (what the host last heard of the focus).  A place is a column and  *)
(* a row, each with the 32 of getCoords already added; modifier keys are   *)
(* numbers as in getButton.                                                *)
(***************************************************************************)
EXTENDS Integers, Sequences, FiniteSets, SequencesExt

CONSTANTS Places,      \* where the pointer can be, <<x, y>> with 32 added
          Mods,        \* modifier keys held: 4 shift, 8 meta, 16 control, and sums
          MaxUps       \* bound: releases awaited at the same time

ASSUME MouseAssumption ==
    /\ Places \subseteq (32..2047) \X (32..2047) /\ Mods \subseteq 0..28 /\ MaxUps \in Nat

VARIABLE m
mouseVars == <<m>>

Buttons == 0..2
TrackModes == {9, 1000, 1002, 1003}     \* DECSET numbers that ask for reports
Codings == {"utfMouse", "sgrMouse", "urxvtMouse"}

(***************************************************************************)
(* What is written for a button at a place                                 *)
(***************************************************************************)
\* shift, meta and control, moved two bits to the left
getButton(s, type, b, mod) ==
    LET base == IF type = "mousedown" THEN b ELSE 3
        kept == IF s.vt200Mouse THEN IF mod >= 16 THEN 16 ELSE 0
                ELSE IF s.normalMouse THEN mod ELSE 0
    IN 32 + 4 * kept + base

encodeShort(s, ch) ==
    IF "utfMouse" \in s.coding /\ ch >= 127 THEN <<192 + ch \div 128, 128 + (ch % 64)>> ELSE <<ch>>
encode(s, ch) ==
    IF "utfMouse" \notin s.coding
    THEN IF ch = 255 THEN <<0>> ELSE IF ch > 127 THEN <<127>> ELSE <<ch>>
    ELSE IF ch = 2047 THEN <<0>>
    ELSE IF ch < 127 THEN <<ch>> ELSE <<192 + ch \div 64, 128 + (ch % 64)>>

\* vt300Mouse and decLocator are never set
sendEvent(s, button, place) ==
    IF "urxvtMouse" \in s.coding
    THEN <<"[", button, ";", place[1] - 31, ";", place[2] - 31, "M">>
    ELSE IF "sgrMouse" \in s.coding
    THEN LET release == button % 4 = 3
         IN <<"[<", IF release THEN button - 3 ELSE button, ";",
              place[1] - 32, ";", place[2] - 32, IF release THEN "m" ELSE "M">>
    ELSE <<"[M">> \o encode(s, button) \o encode(s, place[1]) \o encode(s, place[2])

(***************************************************************************)
(* Focus                                                                   *)
(***************************************************************************)
focusAgain(s) ==
    [s EXCEPT !.told = IF s.sendFocus THEN Append(@, "I") ELSE @, !.focused = TRUE]
focus(s) ==
    IF s.focused THEN s
    ELSE [s EXCEPT !.told = IF s.sendFocus THEN Append(@, "I") ELSE @, !.focused = TRUE]
blur(s) ==
    IF ~s.focused THEN s
    ELSE [s EXCEPT !.told = IF s.sendFocus THEN Append(@, "O") ELSE @, !.focused = FALSE]

(***************************************************************************)
(* Presses, motion, releases                                               *)
(***************************************************************************)
FreshMouse == [x10Mouse |-> FALSE, vt200Mouse |-> FALSE, normalMouse |-> FALSE,
               mouseEvents |-> FALSE, sendFocus |-> FALSE, coding |-> {},
               pressed |-> 32, moving |-> FALSE, ups |-> 0,
               focused |-> TRUE, owed |-> 0, orphan |-> FALSE, told |-> <<>>,
               stray |-> FALSE, refocus |-> FALSE]

\* one button report; pressed follows presses and releases
Report(s, type, b, mod) ==
    LET button == getButton(s, type, b, mod)
    IN [s EXCEPT !.pressed = IF type = "mousedown" THEN button ELSE 32,
                 !.owed = IF type = "mouseup" THEN @ - 1 ELSE IF s.x10Mouse THEN @ ELSE @ + 1]

BoundX10(s) == [s EXCEPT !.moving = @ \/ s.normalMouse, !.ups = @ + 1]
Bound(s) == [s EXCEPT !.moving = @ \/ s.normalMouse, !.ups = IF s.x10Mouse THEN @ ELSE @ + 1]

\* a press on the terminal: the focus first, then the report; vt200Mouse adds
\* the release at once
mousedown(s, b, mod) ==
    LET f == focus(s)
        r == Report(f, "mousedown", b, mod)
    IN IF ~s.mouseEvents THEN f
       ELSE IF s.vt200Mouse THEN Report(r, "mouseup", b, mod)
       ELSE Bound(r)

\* every mouseup listener reports and removes itself
mouseupKeepsMove(s) ==
    [Report([s EXCEPT !.owed = @ - (s.ups - 1)], "mouseup", 0, 0) EXCEPT !.ups = 0]
mouseup(s) ==
    [Report([s EXCEPT !.owed = @ - (s.ups - 1)], "mouseup", 0, 0) EXCEPT
        !.ups = 0, !.moving = @ /\ ~s.normalMouse, !.orphan = s.moving /\ ~s.normalMouse,
        !.stray = FALSE]

(***************************************************************************)
(* Steps                                                                   *)
(***************************************************************************)
MouseInit == m = FreshMouse

\* CSI ? h with one of TrackModes
SetMouse(p) ==
    m' = [m EXCEPT !.x10Mouse = (p = 9), !.vt200Mouse = (p = 1000), !.normalMouse = (p > 1000),
                   !.mouseEvents = TRUE]
ResetMouseKeepsEvents ==
    m' = [m EXCEPT !.x10Mouse = FALSE, !.vt200Mouse = FALSE, !.normalMouse = FALSE]
ResetMouse ==
    m' = [m EXCEPT !.x10Mouse = FALSE, !.vt200Mouse = FALSE, !.normalMouse = FALSE,
                   !.mouseEvents = FALSE]
\* CSI ? 1005, 1006, 1015 h and l, 1004
SetCoding(c) == m' = [m EXCEPT !.coding = IF c \in @ THEN @ \ {c} ELSE @ \cup {c}]
SetFocus == m' = [m EXCEPT !.sendFocus = ~@, !.told = <<>>]

MouseDown(b, mod) ==
    /\ m.ups < MaxUps
    /\ m' = mousedown(m, b, mod)
MouseUp == m.ups > 0 /\ m' = mouseup(m)
Move == m.moving /\ m' = [m EXCEPT !.stray = (m.ups = 0)]

\* a click outside the terminal; the copy listener takes the focus back later
Elsewhere == m' = blur(m)
Copy == m.focused /\ ~m.refocus /\ m' = [m EXCEPT !.refocus = TRUE]
Refocus == m.refocus /\ m' = [focus(m) EXCEPT !.refocus = FALSE]

FocusBound == Len(m.told) < 3     \* bound: focus reports since 1004 was set

MouseNext ==
    \/ \E p \in TrackModes : SetMouse(p)
    \/ ResetMouse
    \/ \E c \in Codings : SetCoding(c)
    \/ SetFocus
    \/ FocusBound /\ \E b \in Buttons, mod \in Mods : MouseDown(b, mod)
    \/ MouseUp
    \/ Move
    \/ FocusBound /\ Elsewhere
    \/ Copy
    \/ FocusBound /\ Refocus

MouseSpec == MouseInit /\ [][MouseNext]_mouseVars

(***************************************************************************)
(* Properties                                                              *)
(***************************************************************************)
MouseTypeOK ==
    /\ m \in [x10Mouse : BOOLEAN, vt200Mouse : BOOLEAN, normalMouse : BOOLEAN,
              mouseEvents : BOOLEAN, sendFocus : BOOLEAN, coding : SUBSET Codings,
              pressed : 32..255, moving : BOOLEAN,
              ups : 0..MaxUps, focused : BOOLEAN, owed : 0..MaxUps, orphan : BOOLEAN,
              told : Seq({"I", "O"}), stray : BOOLEAN, refocus : BOOLEAN]
    /\ m.mouseEvents <=> m.x10Mouse \/ m.vt200Mouse \/ m.normalMouse

(* Every press the host is told of is followed by exactly one release,     *)
(* unless it asked for none (X10): a host that changes or ends its mouse   *)
(* mode between the two still gets the release, and no listener is left    *)
(* over (bindMouse, the function up, term.js 1117-1125).                   *)
EveryPressReleased == m.owed = m.ups

(* Motion is reported with no release to come only when the host took      *)
(* normalMouse back while a button was down: then the mousemove listener   *)
(* stays on the document for good (term.js 1112 and 1119).                 *)
MotionEnds == m.stray => m.orphan

(* What the host hears of the focus alternates, and the last of it is true *)
(* (focus and blur, term.js 415-452), the late focus of a copy included.   *)
FocusTold ==
    /\ \A i \in 1..Len(m.told) - 1 : m.told[i] # m.told[i + 1]
    /\ m.told # <<>> => (Last(m.told) = "I") = m.focused

(* In each coding reports of two places differ, so the host can tell them  *)
(* apart; only the plain one folds what lies behind column 95 together     *)
(* (encode and sendEvent, term.js 884-983; the size of the page's terminal *)
(* is 180 by 50).                                                          *)
PlacesToldApart ==
    LET exact == {q \in Places : m.coding # {} \/ (q[1] <= 127 /\ q[2] <= 127)}
    IN Cardinality({sendEvent(m, 32, q) : q \in exact}) = Cardinality(exact)

(* Presses, motion and focus are reported to the end, whichever modes the  *)
(* host sets and resets between their two halves, and with their place.    *)
ReportsPaired ==
    MouseTypeOK /\ EveryPressReleased /\ MotionEnds /\ FocusTold /\ PlacesToldApart
=============================================================================
