----------------------------- MODULE TermScreen -----------------------------
(***************************************************************************)
(* The screen buffer of the telnet page's terminal (telnet/term.js).       *)
(*                                                                         *)
(* The Terminal object is the record t: the cursor, the margins, the       *)
(* buffer (each line is known by its number of cells), the view on it, the *)
(* saved cursor, the main screen kept while the alternate one is shown,    *)
(* the modes and the rows to repaint.  A handler of the code is an         *)
(* operator that maps one such record to the next; a step of the           *)
(* specification is one handler.  write() is the bracket BeginWrite,       *)
(* handlers, EndWrite: nothing else runs before it returns.                *)
(*                                                                         *)
(* Fields no handler reads: dirty (rows changed since they were painted),  *)
(* edited (those changed by ICH, DCH, ECH, REP or RI out of range), shown  *)
(* (rows that show a cursor), early (those where it was drawn before its   *)
(* chunk had ended),                                                       *)
(* wild (a margin or a saved cursor beyond the screen was used).           *)
(***************************************************************************)
EXTENDS Integers, Sequences, SequencesExt

CONSTANTS Cols,         \* columns and rows of the terminal when it is opened
          Rows,
          Scrollback,   \* lines kept above the screen
          TabWidth,     \* distance of the initial tab stops (8 in the code)
          WideCols,     \* the columns of "132 column mode"
          Sizes,        \* the sizes resize() is called with
          MaxParam,     \* bound: the largest parameter of a sequence
          MaxLines,     \* bound: lines in the buffer
          MaxX,         \* bound: the cursor's column
          Families      \* which handlers the host's program uses

ASSUME ScreenAssumption ==
    /\ Cols \in Nat \ {0} /\ Rows \in Nat \ {0} /\ Scrollback \in Nat \ {0, 1}
    /\ WideCols \in Nat \ {0} /\ TabWidth \in Nat \ {0}
    /\ Sizes \subseteq Nat \X Nat
    /\ MaxParam \in Nat

VARIABLES t, busy, family
vars == <<t, busy, family>>

Min2(a, b) == IF a < b THEN a ELSE b
Max2(a, b) == IF a > b THEN a ELSE b
NaN == -1                         \* no column of the code is negative
Columns == Nat \cup {NaN}
Plus(a, b) == IF a = NaN THEN NaN ELSE a + b
ParamOr1(p) == IF p < 1 THEN 1 ELSE p

\* Array.prototype.splice for one element, indexes from 0 as in the code
SpliceIn(s, i, w) == InsertAt(s, Min2(i, Len(s)) + 1, w)
SpliceOut(s, i) == IF i < Len(s) THEN RemoveAt(s, i + 1) ELSE s
NewestTooMany(s, n) == SubSeq(s, Max2(Len(s) - n - 1, 0) + 1, Len(s))
Newest(s, n) == SubSeq(s, Max2(Len(s) - n, 0) + 1, Len(s))    \* slice(-n)
Repeat(n, f, s) == LET done[i \in 0..n] == IF i = 0 THEN s ELSE f[done[i - 1]] IN done[n]

Stops(from, cols) == {i \in from..cols - 1 : (i - from) % TabWidth = 0}

\* what the constructor assigns: also run by a full reset, which leaves the
\* saved cursor, the saved columns and the mouse modes as they are
Constructed(s) ==
    [s EXCEPT !.ybase = 0, !.ydisp = 0, !.x = 0, !.y = 0, !.cursorState = FALSE,
              !.scrollTop = 0, !.scrollBottom = s.rows - 1,
              !.modes = @ \ {"cursorHidden", "applicationKeypad", "applicationCursor",
                             "originMode", "insertMode", "wraparoundMode"},
              !.normal = <<>>, !.glevel = 0, !.charset = "none",
              !.charsets = [g \in 0..3 |-> "none"], !.prefix = "",
              !.lines = [i \in 1..s.rows |-> s.cols],
              !.tabs = Stops(0, s.cols)]

(***************************************************************************)
(* Painting.  refresh() draws the rows a..b of the view; it throws when a  *)
(* row has no line, no element of the page, or too few cells.              *)
(***************************************************************************)
Drawable(s, r) ==
    /\ r < s.rows
    /\ r + s.ydisp < Len(s.lines)
    /\ s.lines[r + s.ydisp + 1] >= s.cols

CursorDrawn(s) ==
    /\ s.cursorState /\ s.ydisp = s.ybase /\ "cursorHidden" \notin s.modes
    /\ s.x \in 0..s.cols - 1

refresh(s, a, b) ==
    LET rows == a..Min2(b, Len(s.lines) - 1)
        cursor == IF CursorDrawn(s) THEN {s.y} \cap rows ELSE {}
    IN IF \A r \in rows : Drawable(s, r)
       THEN [s EXCEPT !.dirty = @ \ rows, !.edited = @ \ rows,
                      !.shown = (@ \ rows) \cup cursor, !.early = (@ \ rows) \cup cursor]
       ELSE [s EXCEPT !.thrown = TRUE]

updateRangeDown(s, r) == [s EXCEPT !.to = Max2(@, r)]
updateRange(s, r) == [s EXCEPT !.from = Min2(@, r), !.to = Max2(@, r)]
maxRange(s) == [s EXCEPT !.from = 0, !.to = s.rows - 1]
Changed(s, a, b) == [s EXCEPT !.dirty = @ \cup (Min2(a, b)..Max2(a, b))]

showCursor(s) ==
    IF s.cursorState THEN s
    ELSE refresh([s EXCEPT !.cursorState = TRUE], s.y, s.y)

reset(s) == LET c == Constructed(s)
            IN refresh(Changed(c, 0, c.rows - 1), 0, c.rows - 1)

scrollDisp(s, disp) ==
    refresh([s EXCEPT !.ydisp = Max2(0, Min2(s.ydisp + disp, s.ybase))], 0, s.rows - 1)

(***************************************************************************)
(* Lines                                                                   *)
(***************************************************************************)
\* one line enters at the bottom margin; the top line goes to the scrollback,
\* or, below a top margin, is removed; a full scrollback loses its older half
scroll(s) ==
    LET full  == s.ybase + 1 = Scrollback
        yb    == IF full THEN (s.ybase + 1) \div 2 ELSE s.ybase + 1
        kept  == IF full THEN Newest(s.lines, yb + s.rows - 1)
                 ELSE s.lines
        grown == SpliceIn(kept, yb + s.scrollBottom, s.cols)
        up    == IF s.scrollTop # 0 /\ yb # 0 THEN yb - 1 ELSE yb
        l     == IF s.scrollTop # 0 THEN SpliceOut(grown, up + s.scrollTop) ELSE grown
        n     == [s EXCEPT !.ybase = up, !.ydisp = up, !.lines = l]
    IN Changed(updateRange(updateRange(n, s.scrollTop), s.scrollBottom),
               s.scrollTop, s.scrollBottom)

lineFeedLate(s) ==
    IF s.y > s.scrollBottom THEN scroll(s) ELSE [s EXCEPT !.y = @ + 1]
lineFeed(s) ==
    IF s.y + 1 > s.scrollBottom THEN scroll(s) ELSE [s EXCEPT !.y = @ + 1]

reverseIndex(s) ==
    IF s.y - 1 >= s.scrollTop THEN [s EXCEPT !.y = @ - 1]
    ELSE LET l == SpliceOut(SpliceIn(s.lines, s.y + s.ybase, s.cols),
                            s.ybase + s.scrollBottom + 1)
             \* above the top margin the cursor's row moves, unnoticed by the range
             n == [s EXCEPT !.lines = l, !.edited = @ \cup (s.y..s.scrollTop - 1)]
         IN Changed(updateRange(updateRange(n, s.scrollTop), s.scrollBottom),
                    s.y, s.scrollBottom)

insertLines(s, p) ==
    LET one == [l \in Seq(Nat) |->
                   SpliceOut(SpliceIn(l, s.y + s.ybase, s.cols), s.ybase + s.scrollBottom + 1)]
        n == [s EXCEPT !.lines = Repeat(ParamOr1(p), one, s.lines)]
    IN Changed(updateRange(updateRange(n, s.y), s.scrollBottom), s.y, s.scrollBottom)

deleteLines(s, p) ==
    LET one == [l \in Seq(Nat) |->
                   SpliceOut(SpliceIn(l, s.ybase + s.scrollBottom + 1, s.cols), s.y + s.ybase)]
        n == [s EXCEPT !.lines = Repeat(ParamOr1(p), one, s.lines)]
    IN Changed(updateRange(updateRange(n, s.y), s.scrollBottom), s.y, s.scrollBottom)

scrollUp(s, p) ==
    LET one == [l \in Seq(Nat) |->
                   SpliceIn(SpliceOut(l, s.ybase + s.scrollTop), s.ybase + s.scrollBottom, s.cols)]
        n == [s EXCEPT !.lines = Repeat(ParamOr1(p), one, s.lines)]
    IN Changed(updateRange(updateRange(n, s.scrollTop), s.scrollBottom),
               s.scrollTop, s.scrollBottom)

scrollDown(s, p) ==
    LET one == [l \in Seq(Nat) |->
                   SpliceIn(SpliceOut(l, s.ybase + s.scrollBottom), s.ybase + s.scrollTop, s.cols)]
        n == [s EXCEPT !.lines = Repeat(ParamOr1(p), one, s.lines)]
    IN Changed(updateRange(updateRange(n, s.scrollTop), s.scrollBottom),
               s.scrollTop, s.scrollBottom)

setScrollRegion(s, top, bottom) ==
    LET b == (IF bottom = 0 THEN s.rows ELSE bottom) - 1
    IN [s EXCEPT !.scrollTop = ParamOr1(top) - 1, !.scrollBottom = b, !.x = 0, !.y = 0,
                 !.wild = @ \/ ParamOr1(top) > s.rows \/ b >= s.rows]

(***************************************************************************)
(* Cells: a write beyond the end of a line lengthens it, and a row without *)
(* a line throws.                                                          *)
(***************************************************************************)
HasLine(s, r) == s.ybase + r + 1 \in DOMAIN s.lines
WithWidth(s, r, w) ==
    LET i == s.ybase + r + 1
    IN [s EXCEPT !.lines = [s.lines EXCEPT ![i] = Max2(s.lines[i], w)]]
Throw(s) == [s EXCEPT !.thrown = TRUE]

Graphic(s, wide) ==
    LET w == IF s.x >= s.cols THEN lineFeed([s EXCEPT !.x = 0]) ELSE s
        \* a wide character takes the next cell too, if there is one
        n == IF wide /\ w.cols >= 2 /\ w.x # NaN /\ w.x + 1 < w.cols THEN 2 ELSE 1
        q == Plus(w.x, n)
    IN IF ~HasLine(w, w.y) THEN Throw(w)
       ELSE Changed(updateRange([WithWidth(w, w.y, q) EXCEPT !.x = q], w.y), w.y, w.y)

eraseRight(s, x, r) ==
    IF ~HasLine(s, r) /\ x # NaN /\ x < s.cols THEN Throw(s)
    ELSE Changed(updateRange(IF x # NaN /\ x < s.cols THEN WithWidth(s, r, s.cols) ELSE s, r), r, r)

eraseLeft(s, x, r) ==
    IF ~HasLine(s, r) /\ x # NaN THEN Throw(s)
    ELSE Changed(updateRange(IF x # NaN THEN WithWidth(s, r, x + 1) ELSE s, r), r, r)

\* eraseRight from column 0 of the rows a to b; where one of these has no line
\* it throws, with only the rows on its way erased, in the cells they have anyway
EraseRows(s, a, b) ==
    LET erased == [i \in DOMAIN s.lines |->
                     IF i - s.ybase - 1 \in a..b THEN Max2(s.lines[i], s.cols) ELSE s.lines[i]]
    IN IF s.thrown \/ a > b THEN s
       ELSE IF \E r \in a..b : ~HasLine(s, r) THEN Throw(s)
       ELSE Changed(updateRange(updateRange([s EXCEPT !.lines = erased], a), b), a, b)

eraseInDisplay(s, p) ==
    CASE p = 0 -> EraseRows(eraseRight(s, s.x, s.y), s.y + 1, s.rows - 1)
      [] p = 1 -> EraseRows(eraseLeft(s, s.x, s.y), 0, s.y - 1)
      [] p = 2 -> EraseRows(s, 0, s.rows - 1)
      [] OTHER -> s

eraseInLine(s, p) ==
    CASE p = 0 -> eraseRight(s, s.x, s.y)
      [] p = 1 -> eraseLeft(s, s.x, s.y)
      [] p = 2 -> eraseRight(s, 0, s.y)
      [] OTHER -> s

\* ICH, DCH, ECH and REP change the cursor's row and never call updateRange
Edited(s) == [s EXCEPT !.dirty = @ \cup {s.y}, !.edited = @ \cup {s.y}]

insertChars(s, p) ==
    IF s.x = NaN \/ s.x >= s.cols THEN s
    ELSE IF ~HasLine(s, s.y) THEN Throw(s) ELSE Edited(s)

deleteChars(s, p) ==
    LET w == s.lines[s.ybase + s.y + 1]
        w2 == IF s.x < w THEN w ELSE Min2(w + ParamOr1(p), s.x + 1)
    IN IF ~HasLine(s, s.y) THEN Throw(s) ELSE Edited(WithWidth(s, s.y, w2))

eraseChars(s, p) == insertChars(s, p)

repeatPrecedingCharacter(s, p) ==
    LET q == Plus(s.x, ParamOr1(p))
    IN IF ~HasLine(s, s.y) THEN Throw(s) ELSE Edited([WithWidth(s, s.y, q) EXCEPT !.x = q])

(***************************************************************************)
(* The cursor                                                              *)
(***************************************************************************)
ClampX(s, x) == IF x >= s.cols THEN s.cols - 1 ELSE x
ClampY(s, y) == IF y >= s.rows THEN s.rows - 1 ELSE y

cursorUpUnchecked(s, p) == [s EXCEPT !.y = s.y - ParamOr1(p)]
cursorUp(s, p) == [s EXCEPT !.y = Max2(0, s.y - ParamOr1(p))]
cursorDown(s, p) == [s EXCEPT !.y = ClampY(s, s.y + ParamOr1(p))]
cursorForward(s, p) == [s EXCEPT !.x = ClampX(s, Plus(s.x, ParamOr1(p)))]
cursorBackward(s, p) ==
    [s EXCEPT !.x = IF s.x = NaN THEN NaN ELSE Max2(0, s.x - ParamOr1(p))]
cursorNextLine(s, p) == [cursorDown(s, p) EXCEPT !.x = 0]
cursorPrecedingLine(s, p) == [cursorUp(s, p) EXCEPT !.x = 0]
cursorCharAbsolute(s, p) == [s EXCEPT !.x = ParamOr1(p) - 1]
charPosAbsolute(s, p) == [s EXCEPT !.x = ClampX(s, ParamOr1(p) - 1)]
linePosAbsolute(s, p) == [s EXCEPT !.y = ClampY(s, ParamOr1(p) - 1)]
cursorPos(s, p, q) ==
    [s EXCEPT !.y = ClampY(s, ParamOr1(p) - 1), !.x = ClampX(s, ParamOr1(q) - 1)]

\* CSI row ; column f; without a second parameter the column is undefined - 1
HVPosition(s, ps) ==
    [s EXCEPT !.y = ClampY(s, ParamOr1(ps[1]) - 1),
              !.x = IF Len(ps) < 2 THEN NaN ELSE ClampX(s, ParamOr1(ps[2]) - 1)]

saveCursor(s) == [s EXCEPT !.savedX = s.x, !.savedY = s.y]
restoreCursor(s) == [s EXCEPT !.x = IF s.savedX = NaN THEN 0 ELSE s.savedX, !.y = s.savedY,
                              !.wild = @ \/ s.savedY >= s.rows]

(***************************************************************************)
(* Tab stops                                                               *)
(***************************************************************************)
prevStop(tabs, cols, x) ==
    IF x = NaN THEN NaN
    ELSE LET below == {i \in tabs : i < x}
             p == IF below = {} THEN 0 ELSE CHOOSE i \in below : \A j \in below : j <= i
         IN Min2(p, cols - 1)

nextStop(tabs, cols, x) ==
    IF x = NaN THEN NaN
    ELSE LET above == {i \in tabs : i > x}
             n == IF above = {} THEN cols ELSE CHOOSE i \in above : \A j \in above : i <= j
         IN Min2(n, cols - 1)

setupStops(tabs, cols, i) ==
    tabs \cup Stops(IF i \in tabs THEN i ELSE prevStop(tabs, cols, i), cols)

tabForward(s, n) ==
    LET one == [x \in Columns |-> nextStop(s.tabs, s.cols, x)]
    IN [s EXCEPT !.x = Repeat(n, one, s.x)]
tabBackward(s, n) ==
    LET one == [x \in Columns |-> prevStop(s.tabs, s.cols, x)]
    IN [s EXCEPT !.x = Repeat(n, one, s.x)]
tabSet(s) == IF s.x = NaN THEN s ELSE [s EXCEPT !.tabs = @ \cup {s.x}]
tabClear(s, p) ==
    IF p <= 0 THEN [s EXCEPT !.tabs = @ \ {s.x}]
    ELSE IF p = 3 THEN [s EXCEPT !.tabs = {}] ELSE s

(***************************************************************************)
(* Size.  The stops of the new columns are set up before cols is assigned, *)
(* so with the old number of columns.                                      *)
(***************************************************************************)
FitColsShrink(s, x) == [i \in DOMAIN s.lines |-> Min2(s.lines[i], x)]

FitCols(s, x) ==
    [i \in DOMAIN s.lines |->
        IF s.cols < x THEN Max2(s.lines[i], x)
        ELSE IF s.cols > x THEN Min2(s.lines[i], x) ELSE s.lines[i]]

FitRowsShrink(s, l, x, y) == SubSeq(l, 1, Min2(Len(l), y + s.ybase))

\* one line at most is added or taken away per row added or taken away
FitRows(s, l, x, y) ==
    LET more == IF s.rows < y THEN Max2(0, Min2(y - s.rows, y + s.ybase - Len(l))) ELSE 0
        less == IF s.rows > y THEN Max2(0, Min2(s.rows - y, Len(l) - (y + s.ybase))) ELSE 0
    IN SubSeq(l, 1, Len(l) - less) \o [i \in 1..more |-> x]

Reshaped(s, x, y) ==
    [s EXCEPT !.lines = FitRows(s, FitCols(s, x), x, y), !.tabs = setupStops(@, s.cols, s.cols),
              !.cols = x, !.rows = y,
              !.y = IF @ >= y THEN y - 1 ELSE @,
              !.x = IF @ >= x THEN x - 1 ELSE @,
              !.scrollTop = 0, !.scrollBottom = y - 1,
              !.dirty = {r \in @ : r < y}, !.edited = {r \in @ : r < y},
              !.shown = {r \in @ : r < y}]

resizeKeepsMain(s, x0, y0) ==
    LET x == Max2(1, x0)
        y == Max2(1, y0)
    IN refresh(Changed(Reshaped(s, x, y), 0, y - 1), 0, y - 1)

resize(s, x0, y0) ==
    LET x == Max2(1, x0)
        y == Max2(1, y0)
    IN refresh(Changed([Reshaped(s, x, y) EXCEPT !.normal = <<>>], 0, y - 1), 0, y - 1)

(***************************************************************************)
(* Modes: the parameters of one CSI Pm h or CSI Pm l are set one by one,   *)
(* under a prefix that a reset on the way forgets.                         *)
(***************************************************************************)
Kept(s) == [lines |-> s.lines, ybase |-> s.ybase, ydisp |-> s.ydisp, x |-> s.x, y |-> s.y,
            scrollTop |-> s.scrollTop, scrollBottom |-> s.scrollBottom, tabs |-> s.tabs]
MouseParams == {9, 1000, 1002, 1003}
AlternateParams == {47, 1047, 1049}
MouseModes == {"x10Mouse", "vt200Mouse", "normalMouse", "mouseEvents"}
Flag(p) == CASE p = 1 -> "applicationCursor" [] p = 6 -> "originMode"
             [] p = 7 -> "wraparoundMode" [] p = 66 -> "applicationKeypad"
             [] p = 1004 -> "sendFocus" [] p = 1005 -> "utfMouse"
             [] p = 1006 -> "sgrMouse" [] p = 1015 -> "urxvtMouse" [] OTHER -> "none"
MouseFlag(p) == IF p = 9 THEN "x10Mouse" ELSE IF p = 1000 THEN "vt200Mouse" ELSE "normalMouse"

setgCharsetOnly(s, g, cs) == [s EXCEPT !.charsets[g] = cs]
setgCharset(s, g, cs) ==
    [s EXCEPT !.charsets[g] = cs, !.charset = IF s.glevel = g THEN cs ELSE @]
setgLevel(s, g) == [s EXCEPT !.glevel = g, !.charset = s.charsets[g]]

AlternateScreenAgain(s) ==
    showCursor([reset(s) EXCEPT !.normal = <<Kept(s)>>])

AlternateScreen(s) ==
    IF s.normal # <<>> THEN s
    ELSE showCursor([reset(s) EXCEPT !.normal = <<Kept(s)>>])

setMode(s, p) ==
    CASE s.prefix = "" /\ p = 4 -> [s EXCEPT !.modes = @ \cup {"insertMode"}]
      [] s.prefix = "?" /\ p = 2 -> [s EXCEPT !.charsets = [g \in 0..3 |-> "US"], !.charset = "US"]
      [] s.prefix = "?" /\ p = 3 -> resize([s EXCEPT !.savedCols = s.cols], WideCols, s.rows)
      [] s.prefix = "?" /\ p = 25 -> [s EXCEPT !.modes = @ \ {"cursorHidden"}]
      [] s.prefix = "?" /\ p \in MouseParams ->
            [s EXCEPT !.modes = (@ \ MouseModes) \cup {MouseFlag(p), "mouseEvents"}]
      [] s.prefix = "?" /\ p \in AlternateParams -> AlternateScreen(s)
      [] s.prefix = "?" /\ Flag(p) # "none" -> [s EXCEPT !.modes = @ \cup {Flag(p)}]
      [] OTHER -> s

MainScreen(s) ==
    IF s.normal = <<>> THEN s
    ELSE LET m == s.normal[1]
             n == [s EXCEPT !.lines = m.lines, !.ybase = m.ybase, !.ydisp = m.ydisp, !.x = m.x,
                            !.y = m.y, !.scrollTop = m.scrollTop, !.scrollBottom = m.scrollBottom,
                            !.tabs = m.tabs, !.normal = <<>>]
         IN showCursor(refresh(Changed(n, 0, s.rows - 1), 0, s.rows - 1))

resetMode(s, p) ==
    CASE s.prefix = "" /\ p = 4 -> [s EXCEPT !.modes = @ \ {"insertMode"}]
      [] s.prefix = "?" /\ p = 3 ->
            LET back == IF s.cols = WideCols /\ s.savedCols # 0
                        THEN resize(s, s.savedCols, s.rows) ELSE s
            IN [back EXCEPT !.savedCols = 0]
      [] s.prefix = "?" /\ p = 25 -> [s EXCEPT !.modes = @ \cup {"cursorHidden"}]
      [] s.prefix = "?" /\ p \in MouseParams -> [s EXCEPT !.modes = @ \ MouseModes]
      [] s.prefix = "?" /\ p \in AlternateParams -> MainScreen(s)
      [] s.prefix = "?" /\ Flag(p) # "none" -> [s EXCEPT !.modes = @ \ {Flag(p)}]
      [] OTHER -> s

softReset(s) ==
    [s EXCEPT !.modes = @ \ {"cursorHidden", "insertMode", "originMode", "wraparoundMode",
                             "applicationKeypad", "applicationCursor"},
              !.scrollTop = 0, !.scrollBottom = s.rows - 1, !.x = 0, !.y = 0,
              !.charset = "none", !.glevel = 0, !.charsets = [g \in 0..3 |-> "none"]]

(***************************************************************************)
(* Steps.  An exception leaves write() at once, without its repaint.       *)
(***************************************************************************)
Terminal0 ==
    Constructed([cols |-> Cols, rows |-> Rows, x |-> 0, y |-> 0, ybase |-> 0, ydisp |-> 0,
                 lines |-> <<>>, scrollTop |-> 0, scrollBottom |-> 0, tabs |-> {},
                 cursorState |-> FALSE, modes |-> {}, normal |-> <<>>, prefix |-> "",
                 charset |-> "none", glevel |-> 0, charsets |-> <<>>,
                 savedX |-> 0, savedY |-> 0, savedCols |-> 0, from |-> 0, to |-> 0,
                 dirty |-> {}, edited |-> {}, shown |-> {}, early |-> {}, wild |-> FALSE,
                 thrown |-> FALSE])

\* the cursor stays where the last repaint drew it
Settled(s) == [s EXCEPT !.early = @ \ {s.y}]

\* open() draws the empty screen and takes the focus, which shows the cursor
Init == /\ t = Settled(showCursor(refresh(Terminal0, 0, Rows - 1)))
        /\ busy = FALSE
        /\ family \in Families

\* no parameter, the first row or column, one beyond the last
Params == {0, 1, MaxParam}
Bounded(s) == Len(s.lines) <= MaxLines /\ s.x <= MaxX

BeginWriteEmptyRange ==
    /\ ~busy /\ ~t.wild
    /\ LET s == [t EXCEPT !.from = t.rows, !.to = 0, !.thrown = FALSE]
       IN t' = IF t.ybase # t.ydisp THEN maxRange([s EXCEPT !.ydisp = t.ybase]) ELSE s
    /\ busy' = TRUE
    /\ UNCHANGED family

BeginWrite ==
    /\ ~busy
    /\ ~t.wild          \* bound: no chunk is explored after one with a wild margin
    /\ LET s == [t EXCEPT !.from = t.y, !.to = t.y, !.thrown = FALSE]
       IN t' = IF t.ybase # t.ydisp THEN maxRange([s EXCEPT !.ydisp = t.ybase]) ELSE s
    /\ busy' = TRUE
    /\ UNCHANGED family

EndWrite ==
    /\ busy
    /\ t' = LET s == updateRange(t, t.y) IN Settled(refresh(s, s.from, s.to))
    /\ busy' = FALSE
    /\ UNCHANGED family

\* one character or sequence of the chunk, handled by a program of this family
Handle(f, s) ==
    /\ busy /\ f /\ Bounded(s)
    /\ t' = [s EXCEPT !.prefix = ""]
    /\ busy' = ~s.thrown
    /\ UNCHANGED family

On(names) == family \in names

Typing ==
    \/ \E wide \in BOOLEAN : Handle(On({"edit"}), Graphic(t, wide))
    \/ Handle(On({"edit", "lines", "screens"}), lineFeed(t))
    \/ Handle(On({"edit", "tabs"}), [t EXCEPT !.x = 0])
    \/ Handle(On({"edit"}), [t EXCEPT !.x = IF @ > 0 THEN @ - 1 ELSE @])
    \/ Handle(On({"tabs"}), tabForward(t, 1))

Editing == \E p \in Params :
    \/ Handle(On({"edit"}), eraseInDisplay(t, p))
    \/ Handle(On({"edit"}), eraseInLine(t, p))
    \/ Handle(On({"edit"}), insertChars(t, p))
    \/ Handle(On({"edit"}), deleteChars(t, p))
    \/ Handle(On({"edit"}), eraseChars(t, p))
    \/ Handle(On({"edit"}), repeatPrecedingCharacter(t, p))

\* inside the screen and beyond it
Corners == {<<0, MaxParam>>, <<MaxParam, 1>>}

Along(p) ==
    \/ Handle(On({"lines"}), cursorUp(t, p))
    \/ Handle(On({"lines"}), cursorDown(t, p))
    \/ Handle(On({"tabs"}), cursorForward(t, p))
    \/ Handle(On({"tabs"}), cursorBackward(t, p))
    \/ Handle(On({"lines"}), cursorNextLine(t, p))
    \/ Handle(On({"lines"}), cursorPrecedingLine(t, p))
    \/ Handle(On({"edit", "tabs"}), cursorCharAbsolute(t, p))
    \/ Handle(On({"tabs"}), charPosAbsolute(t, p))
    \/ Handle(On({"lines"}), linePosAbsolute(t, p))
    \/ Handle(On({"edit"}), HVPosition(t, <<p>>))

Moving ==
    \/ \E q \in Corners : Handle(On({"edit"}), cursorPos(t, q[1], q[2]))
    \/ \E q \in Corners : Handle(On({"edit"}), HVPosition(t, q))
    \/ Handle(On({"screens"}), saveCursor(t))
    \/ Handle(On({"screens"}), restoreCursor(t))
    \/ \E p \in Params : Along(p)

Scrolling == \E p \in Params :
    \/ Handle(On({"lines"}), reverseIndex(t))
    \/ Handle(On({"lines"}), insertLines(t, p))
    \/ Handle(On({"lines"}), deleteLines(t, p))
    \/ Handle(On({"lines"}), scrollUp(t, p))
    \/ Handle(On({"lines"}), scrollDown(t, p))
    \/ \E q \in 0..MaxParam : Handle(On({"lines"}), setScrollRegion(t, q, p))

Tabbing == \E p \in Params :
    \/ Handle(On({"tabs"}), tabForward(t, ParamOr1(p)))
    \/ Handle(On({"tabs"}), tabBackward(t, ParamOr1(p)))
    \/ Handle(On({"tabs"}), tabSet(t))
    \/ Handle(On({"tabs"}), tabClear(t, p))

\* what CSI Pm h and CSI Pm l are sent with: one mode, or two at once
ModeLists ==
    CASE family = "screens" -> {<<3>>, <<47>>, <<1049, 25>>}
      [] family = "modes"   -> {<<2>>, <<4>>, <<6, 7>>, <<9>>, <<1000>>, <<1049, 1>>}
      [] OTHER             -> {}

EachMode(mode(_, _), s, ps) ==
    IF Len(ps) = 1 THEN mode(s, ps[1]) ELSE mode(mode(s, ps[1]), ps[2])

Modes ==
    \/ \E ps \in ModeLists, pre \in {"", "?"} :
         \/ Handle(On({"screens", "modes"}), EachMode(setMode, [t EXCEPT !.prefix = pre], ps))
         \/ Handle(On({"screens", "modes"}), EachMode(resetMode, [t EXCEPT !.prefix = pre], ps))
    \/ Handle(On({"modes", "lines"}), softReset(t))
    \/ Handle(On({"screens", "modes", "tabs"}), reset(t))
    \/ \E g \in {0, 2}, cs \in {"US", "SCLD"} : Handle(On({"modes"}), setgCharset(t, g, cs))
    \/ \E g \in {0, 2} : Handle(On({"modes"}), setgLevel(t, g))

\* between two chunks: the page's own calls and the user's
Outside(s) == ~busy /\ t' = Settled(s) /\ UNCHANGED <<busy, family>>

Resize == /\ On({"screens", "tabs"})
          /\ \E sz \in Sizes : Outside(resize([t EXCEPT !.thrown = FALSE], sz[1], sz[2]))
ScrollView == On({"lines"}) /\ \E d \in {-1, 1} : Outside(scrollDisp([t EXCEPT !.thrown = FALSE], d))
KeyPressed == Outside(showCursor([t EXCEPT !.thrown = FALSE]))
Blur == Outside(refresh([t EXCEPT !.cursorState = FALSE, !.thrown = FALSE], t.y, t.y))

Next ==
    \/ BeginWrite \/ EndWrite
    \/ Typing \/ Editing \/ Moving \/ Scrolling \/ Tabbing \/ Modes
    \/ Resize \/ ScrollView \/ KeyPressed \/ Blur

Spec == Init /\ [][Next]_vars

(***************************************************************************)
(* Properties                                                              *)
(***************************************************************************)
Flags == {"cursorHidden", "insertMode", "applicationCursor", "originMode", "wraparoundMode",
          "applicationKeypad", "sendFocus", "utfMouse", "sgrMouse", "urxvtMouse"} \cup MouseModes
Charsets == {"none", "US", "SCLD"}

\* the fields of the terminal object keep the types the handlers rely on
TypeOK ==
    /\ t.cols \in Nat \ {0} /\ t.rows \in Nat \ {0}
    /\ t.x \in Nat \cup {NaN} /\ t.y \in Nat /\ t.ybase \in Nat /\ t.ydisp \in Nat
    /\ t.scrollTop \in Nat /\ t.scrollBottom \in Nat
    /\ \A i \in DOMAIN t.lines : t.lines[i] \in Nat
    /\ \A i \in t.tabs : i \in Nat
    /\ t.modes \subseteq Flags /\ t.charset \in Charsets
    /\ t.charsets \in [0..3 -> Charsets] /\ t.glevel \in 0..3
    /\ t.savedX \in Nat \cup {NaN} /\ t.savedY \in Nat
    /\ Len(t.normal) <= 1 /\ t.prefix = ""
    /\ t.cursorState \in BOOLEAN /\ t.wild \in BOOLEAN /\ t.thrown \in BOOLEAN
    /\ busy \in BOOLEAN /\ family \in Families

\* as long as the host keeps margins and saved cursors inside the screen, no
\* sequence of cursor, scroll, mode and resize handlers takes the cursor's row or a
\* margin off it.  Of columns nothing is said: CHA puts the cursor behind the last one
\* (term.js:3406), HVP with one parameter makes it NaN (3606), and resize leaves
\* tab stops behind a smaller screen's last column (2747)
RowsOnScreen ==
    ~t.wild => /\ t.y < t.rows
               /\ t.scrollTop < t.rows
               /\ t.scrollBottom < t.rows

\* the buffer is the scrollback and one line per row of the screen, whatever
\* was inserted, deleted, scrolled, cut off at the scrollback's limit, resized
\* or exchanged for the alternate screen; the view stays inside it
BufferFits ==
    /\ ~t.wild => Len(t.lines) = t.ybase + t.rows
    /\ t.ydisp <= t.ybase
    /\ t.ybase < Scrollback

\* the main screen put aside fits the terminal it will return to: resize drops
\* it, and neither the margins nor the cursor in it may lie off the screen
MainScreenFits ==
    ~t.wild /\ t.normal # <<>> =>
       LET m == t.normal[1]
       IN /\ Len(m.lines) = m.ybase + t.rows /\ m.y < t.rows
          /\ m.scrollBottom < t.rows
          /\ \A i \in DOMAIN m.lines : m.lines[i] >= t.cols

\* every line has a cell for every column, so that refresh and the editing
\* handlers never read beyond its end
LinesComplete == \A i \in DOMAIN t.lines : t.lines[i] >= t.cols

\* no handler and no repaint dereferences a line that does not exist
NoThrow == ~t.wild => ~t.thrown

\* when write() has returned every changed row was repainted, those excepted
\* that ICH, DCH, ECH, REP or RI above the top margin changed: these do not
\* extend the refresh range
Painted == ~busy /\ ~t.wild => t.dirty \subseteq t.edited

\* between two chunks no row but the cursor's shows a cursor, those excepted
\* where a reset, a resize or a change of screen drew it before its chunk ended
OneCursor == ~busy /\ ~t.wild => t.shown \subseteq {t.y} \cup t.early

\* the set characters are translated with is the one designated to the level
\* in use, however designations, shifts and resets are mixed
CharsetCurrent == t.charset = t.charsets[t.glevel]

\* the main screen put aside is not replaced while the alternate one is shown,
\* also when a program asks for the alternate screen twice
MainScreenKept ==
    [][t.normal # <<>> /\ t'.normal # <<>> => t'.normal = t.normal]_vars

\* the terminal object holds together: the cursor's row, the margins and the view
\* stay on the screen and in the buffer, the buffer has the lines that scrollback and
\* screen call for, each with all its cells, the main screen put aside fits too, and
\* no handler runs into a line that is not there, whatever column it is given
ScreenHolds ==
    /\ TypeOK /\ RowsOnScreen /\ BufferFits /\ MainScreenFits
    /\ LinesComplete /\ NoThrow /\ CharsetCurrent

\* what the page shows between two chunks is the buffer, with one cursor
Repainted == Painted /\ OneCursor
=============================================================================
