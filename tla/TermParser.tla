----------------------------- MODULE TermParser -----------------------------
(***************************************************************************)
(* The control-sequence automaton of write() in telnet/term.js, with the   *)
(* replies it queues.                                                      *)
(*                                                                         *)
(* The record p holds what survives from one character to the next: the    *)
(* state, the parameters, the prefix, the character set being designated.  *)
(* A character is a string ("ESC", "BEL", "GRAVE" and so on are names).    *)
(* skip stands for the i++ with which the loop passes over a character: i  *)
(* is a local variable of write(), so that at the end of a chunk nothing   *)
(* is passed over.                                                         *)
(*                                                                         *)
(* call is the handler the last character called, with its arguments (the  *)
(* screen they act on is TermScreen); csi is, for the properties, what     *)
(* came since ESC [.                                                       *)
(***************************************************************************)
EXTENDS Integers, Sequences, FiniteSets, SequencesExt

CONSTANTS Hosts,        \* what hosts send: for each, a set of characters
          MaxSeq,       \* bound: characters of one CSI sequence
          MaxText,      \* bound: characters of one DCS string
          MaxReplies,   \* bound: replies sent
          MaxTimers     \* bound: timers set at once

ASSUME ParserAssumption == /\ MaxSeq \in Nat /\ MaxText \in Nat /\ MaxReplies \in Nat /\ MaxTimers \in Nat

VARIABLES host,     \* the characters this host sends
          p,        \* the parser's part of the Terminal object
          writing,     \* inside write()
          queue,    \* replies that wait for the timer
          timers,   \* timers set by send() that have not fired
          asked,    \* history: replies in the order send() was called
          out       \* history: replies handed to the connection
parserVars == <<host, p, writing, queue, timers, asked, out>>

None == [name |-> "none", params |-> <<>>, prefix |-> <<>>]
Call(n, s) == [name |-> n, params |-> s.params, prefix |-> s.prefix]

\* as many of the ten digits as the runs need
Digits == {"0", "1", "4", "5", "6", "7"}
Value(c) == CASE c = "0" -> 0 [] c = "1" -> 1 [] c = "4" -> 4 [] c = "5" -> 5
              [] c = "6" -> 6 [] OTHER -> 7
EndsWithEsc(c) == c = "ESC"
Ends(c) == c \in {"ESC", "BEL"}          \* ends an OSC, DCS, APC or PM string
To(s, st) == [s EXCEPT !.state = st]
Calls(s, n) == [To(s, "normal") EXCEPT !.call = Call(n, s)]

\* the fields Terminal() assigns; reset() runs it
Fresh == [state |-> "normal", params |-> <<>>, cur |-> 0, text |-> <<>>, prefix |-> <<>>,
          postfix |-> <<>>, gcharset |-> -1, skip |-> FALSE, call |-> None, csi |-> <<>>]

normal(s, c) ==
    CASE c = "ESC" -> To(s, "escaped")
      [] c = "BEL" -> Calls(s, "bell")
      [] c = "\n"  -> Calls(s, "lineFeed")
      [] c = "SO"  -> Calls(s, "setgLevel 1")
      [] c = "SI"  -> Calls(s, "setgLevel 0")
      [] OTHER     -> Calls(s, "print")

StartsSequence == [c \in {"[", "]", "P"} |->
                     CASE c = "[" -> "csi" [] c = "]" -> "osc" [] OTHER -> "dcs"]
DesignatesFromOne == [c \in {"(", ")", "*", "+", "-", "."} |->
                 CASE c = "(" -> 1 [] c \in {")", "-"} -> 2 [] c \in {"*", "."} -> 3 [] OTHER -> 4]
Designates == [c \in {"(", ")", "*", "+", "-", "."} |->
                 CASE c = "(" -> 0 [] c \in {")", "-"} -> 1 [] c \in {"*", "."} -> 2 [] OTHER -> 3]
\* a single or a locking shift does not leave the state: the next character is
\* read as another ESC sequence
Shifts == [c \in {"N", "O", "n", "o", "|", "}", "~"} |->
             CASE c \in {"n", "}"} -> "setgLevel 2" [] c \in {"o", "|"} -> "setgLevel 3"
               [] c = "~" -> "setgLevel 1" [] OTHER -> "none"]
\* these set the state themselves or in the handler they call
Simple == [c \in {"E", "D", "M", "H", "7", "8", "=", ">"} |->
             CASE c \in {"E", "D"} -> "index" [] c = "M" -> "reverseIndex" [] c = "H" -> "tabSet"
               [] c = "7" -> "saveCursor" [] c = "8" -> "restoreCursor" [] OTHER -> "keypad"]

\* the characters of the set ESC / designates are read from the '/' on: i--
charset(s, c) ==
    [Calls(s, "setgCharset") EXCEPT !.gcharset = -1, !.skip = c = "/",
        !.call = [None EXCEPT !.name = "setgCharset", !.params = <<s.gcharset>>, !.prefix = <<c>>]]

escaped(s, c) ==
    CASE c \in DOMAIN StartsSequence ->
            [To(s, StartsSequence[c]) EXCEPT !.params = <<>>, !.cur = 0, !.text = <<>>,
                                             !.csi = <<>>]
      [] c \in {"_", "^"} -> To(s, "ignore")
      [] c = "c" -> [Fresh EXCEPT !.call = [None EXCEPT !.name = "reset"]]
      [] c \in {"%", "#"} ->
            [Calls(s, IF c = "%" THEN "setgCharset" ELSE "none") EXCEPT !.skip = TRUE]
      [] c \in DOMAIN Designates -> [To(s, "charset") EXCEPT !.gcharset = Designates[c]]
      [] c = "/" -> charset([s EXCEPT !.gcharset = 3], "/")
      [] c \in DOMAIN Shifts -> [s EXCEPT !.call = [None EXCEPT !.name = Shifts[c]]]
      [] c \in DOMAIN Simple -> Calls(s, Simple[c])
      [] OTHER -> Calls(s, "unknown")

\* the first parameter is a number, the second any text: of the title only
\* whether it is empty matters (cur is 1 when it is not)
osc(s, c) ==
    LET titled == s.params # <<>> /\ Head(s.params) \in {0, 1, 2} /\ s.cur = 1
    IN IF Ends(c) THEN [Calls(s, IF titled THEN "title" ELSE "none") EXCEPT
                          !.params = <<>>, !.cur = 0, !.skip = c = "ESC"]
       ELSE IF s.params # <<>> THEN [s EXCEPT !.cur = 1]
       ELSE IF c \in Digits THEN [s EXCEPT !.cur = @ * 10 + Value(c)]
       ELSE IF c = ";" THEN [s EXCEPT !.params = <<s.cur>>, !.cur = 0]
       ELSE s

\* the handlers of the final characters, in the three groups of the code
Vt100Finals == [c \in {"A", "B", "C", "D", "H", "J", "K", "m", "n"} |->
    CASE c = "A" -> "cursorUp" [] c = "B" -> "cursorDown" [] c = "C" -> "cursorForward"
      [] c = "D" -> "cursorBackward" [] c = "H" -> "cursorPos" [] c = "J" -> "eraseInDisplay"
      [] c = "K" -> "eraseInLine" [] c = "m" -> "charAttributes" [] OTHER -> "deviceStatus"]
AdditionalFinals ==
    [c \in {"@", "E", "F", "G", "L", "M", "P", "X", "GRAVE", "a", "c", "d", "e", "f", "h", "l",
            "r", "s", "u"} |->
    CASE c = "@" -> "insertChars" [] c = "E" -> "cursorNextLine" [] c = "F" -> "cursorPrecedingLine"
      [] c = "G" -> "cursorCharAbsolute" [] c = "L" -> "insertLines" [] c = "M" -> "deleteLines"
      [] c = "P" -> "deleteChars" [] c = "X" -> "eraseChars" [] c = "GRAVE" -> "charPosAbsolute"
      [] c = "a" -> "HPositionRelative" [] c = "c" -> "sendDeviceAttributes"
      [] c = "d" -> "linePosAbsolute" [] c = "e" -> "VPositionRelative" [] c = "f" -> "HVPosition"
      [] c = "h" -> "setMode" [] c = "l" -> "resetMode" [] c = "r" -> "setScrollRegion"
      [] c = "s" -> "saveCursor" [] OTHER -> "restoreCursor"]
LesserUsedFinals == [c \in {"I", "S", "T", "Z", "b", "g", "p"} |->
    CASE c = "I" -> "cursorForwardTab" [] c = "S" -> "scrollUp" [] c = "T" -> "scrollDown"
      [] c = "Z" -> "cursorBackwardTab" [] c = "b" -> "repeatPrecedingCharacter"
      [] c = "g" -> "tabClear" [] OTHER -> "softReset"]
Finals == Vt100Finals @@ AdditionalFinals @@ LesserUsedFinals

\* under some prefixes a sequence is read and nothing is called
Applies(s, c) ==
    /\ c \in {"m", "n"} => s.prefix = <<>>
    /\ c = "T" => s.prefix = <<>> /\ Len(s.params) < 2
    /\ c = "p" => s.prefix = <<"!">>

\* mode 47 starts from a full reset, unless the alternate screen is shown
AlternateScreenSet(s, c) ==
    c = "h" /\ s.prefix = <<"?">> /\ ToSet(s.params) \cap {47, 1047, 1049} # {}

PushKeepsNumber(s) == [s EXCEPT !.params = Append(@, s.cur)]
PushParam(s) == [s EXCEPT !.params = Append(@, s.cur), !.cur = 0]
DispatchedKeepsPrefix(s) == [s EXCEPT !.postfix = <<>>]
Dispatched(s) == [s EXCEPT !.prefix = <<>>, !.postfix = <<>>]

PrefixChars == {"?", ">", "!"}
csi(s, c) ==
    LET a == [s EXCEPT !.csi = Append(@, c)]
    IN IF c \in PrefixChars THEN [a EXCEPT !.prefix = <<c>>]
       ELSE IF c \in Digits THEN [a EXCEPT !.cur = @ * 10 + Value(c)]
       ELSE IF c \in {"$", "QUOTE", "SPACE", "APOS"} THEN [a EXCEPT !.postfix = <<c>>]
       ELSE LET b == PushParam(a)
                h == IF c \in DOMAIN Finals /\ Applies(b, c) THEN Finals[c] ELSE "none"
            IN IF c = ";" THEN b
               ELSE Dispatched(Calls(b, h))

dcs(s, c) ==
    IF Ends(c)
    THEN [Calls(s, CASE s.prefix = <<"$", "q">> -> "requestStatus"
                     [] s.prefix = <<"+", "q">> -> "requestTermcap"
                     [] OTHER -> "none") EXCEPT
            !.cur = 0, !.text = <<>>, !.prefix = <<>>, !.skip = c = "ESC"]
    ELSE IF s.text # <<>> \/ (s.prefix = <<>> /\ c \notin {"$", "+"}) \/ Len(s.prefix) = 2
    THEN [s EXCEPT !.text = Append(@, c)]
    ELSE [s EXCEPT !.prefix = Append(@, c)]

ignore(s, c) == IF Ends(c) THEN [To(s, "normal") EXCEPT !.skip = c = "ESC"] ELSE s

\* one turn of the loop
Feed(s0, c) ==
    LET s == [s0 EXCEPT !.call = None, !.skip = FALSE, !.csi = IF s0.state = "csi" THEN @ ELSE <<>>]
    IN IF s0.skip THEN s
       ELSE CASE s.state = "normal"  -> normal(s, c)
              [] s.state = "escaped" -> escaped(s, c)
              [] s.state = "charset" -> charset(s, c)
              [] s.state = "osc"     -> osc(s, c)
              [] s.state = "csi"     -> csi(s, c)
              [] s.state = "dcs"     -> dcs(s, c)
              [] OTHER               -> ignore(s, c)

(***************************************************************************)
(* Replies.  send() appends to a queue; the first of a batch sets a timer  *)
(* that hands the queue over as a whole.                                   *)
(***************************************************************************)
First(call) == IF call.params = <<>> THEN -1 ELSE Head(call.params)

deviceStatus(call) ==
    CASE call.prefix = <<>> /\ First(call) = 5 -> "ok"
      [] call.prefix = <<>> /\ First(call) = 6 -> "cursor"
      [] call.prefix = <<"?">> /\ First(call) = 6 -> "?cursor"
      [] OTHER -> "none"

sendDeviceAttributes(call) ==
    CASE First(call) > 0 -> "none"
      [] First(call) <= 0 /\ call.prefix = <<>> -> "primary"
      [] First(call) <= 0 /\ call.prefix = <<">">> -> "secondary"
      [] OTHER -> "none"

Reply(call) ==
    CASE call.name = "deviceStatus" -> deviceStatus(call)
      [] call.name = "sendDeviceAttributes" -> sendDeviceAttributes(call)
      [] call.name \in {"requestStatus", "requestTermcap"} -> call.name
      [] OTHER -> "none"

sendLate(r) ==
    /\ Len(asked) < MaxReplies /\ timers < MaxTimers
    /\ timers' = IF Append(queue, r) = <<>> THEN timers + 1 ELSE timers
    /\ queue' = Append(queue, r)
    /\ asked' = Append(asked, r)

send(r) ==
    /\ Len(asked) < MaxReplies /\ timers < MaxTimers          \* bounds
    /\ timers' = IF queue = <<>> THEN timers + 1 ELSE timers
    /\ queue' = Append(queue, r)
    /\ asked' = Append(asked, r)

FlushKeepsQueue == /\ timers > 0 /\ timers' = timers - 1
                   /\ out' = out \o queue
                   /\ UNCHANGED <<host, p, writing, queue, asked>>

Flush == /\ timers > 0 /\ timers' = timers - 1
         /\ out' = out \o queue
         /\ queue' = <<>>
         /\ UNCHANGED <<host, p, writing, asked>>

(***************************************************************************)
(* Steps                                                                   *)
(***************************************************************************)
ParserInit == /\ host \in Hosts /\ p = Fresh /\ writing = FALSE
        /\ queue = <<>> /\ timers = 0 /\ asked = <<>> /\ out = <<>>

ChunkArrives == ~writing /\ writing' = TRUE /\ UNCHANGED <<host, p, queue, timers, asked, out>>

ChunkDone == /\ writing /\ writing' = FALSE
            /\ p' = [p EXCEPT !.skip = FALSE]
            /\ UNCHANGED <<host, queue, timers, asked, out>>

Within(s) == Len(s.csi) <= MaxSeq /\ Len(s.text) <= MaxText /\ s.cur < 100

\* what the handler called does to the reply queue: a full reset empties it,
\* the timer stays set
Effect(call, s) ==
    IF call.name = "reset"
    THEN queue' = <<>> /\ asked' = out /\ UNCHANGED timers
    ELSE IF Reply(call) # "none" THEN send(Reply(call)) ELSE UNCHANGED <<queue, timers, asked>>

Char(c) ==
    /\ writing
    /\ LET s == Feed(p, c)
       IN /\ Within(s)
          \* setMode may start from a full reset, as far as the parser goes too
          /\ \/ p' = s /\ Effect(s.call, s)
             \/ /\ s.call.name = "setMode" /\ AlternateScreenSet(s.call, c)
                /\ p' = [Fresh EXCEPT !.call = s.call, !.csi = s.csi]
                /\ Effect([None EXCEPT !.name = "reset"], s)
    /\ UNCHANGED <<host, writing, out>>

ParserNext == ChunkArrives \/ ChunkDone \/ Flush \/ \E c \in host : Char(c)

\* a timer that was set fires
ParserSpec == ParserInit /\ [][ParserNext]_parserVars /\ WF_parserVars(Flush)

(***************************************************************************)
(* Properties                                                              *)
(***************************************************************************)
\* the states are those of the switch in write() and the fields have the types
\* it tests
ParserTypeOK ==
    /\ p.state \in {"normal", "escaped", "charset", "osc", "csi", "dcs", "ignore"}
    /\ p.params \in Seq(Nat) /\ p.cur \in Nat /\ p.gcharset \in -1..3 /\ p.skip \in BOOLEAN
    /\ host \in Hosts /\ writing \in BOOLEAN /\ timers \in 0..MaxTimers
    /\ Len(queue) <= MaxReplies

\* the reference for CSI sequences: a digit belongs to the parameter that the
\* semicolons before it count to, a parameter is the number its digits spell, and
\* the last prefix character counts
FieldOf(cs, i) == Cardinality({j \in 1..i - 1 : cs[j] = ";"}) + 1
RefParam(cs, n) ==
    LET spelled[i \in 0..Len(cs)] ==
            IF i = 0 THEN 0
            ELSE IF cs[i] \in Digits /\ FieldOf(cs, i) = n THEN spelled[i - 1] * 10 + Value(cs[i])
            ELSE spelled[i - 1]
    IN spelled[Len(cs)]
RefParams(cs) == [n \in 1..FieldOf(cs, Len(cs) + 1) |-> RefParam(cs, n)]
RefPrefix(cs) ==
    LET at == {i \in 1..Len(cs) : cs[i] \in PrefixChars}
    IN IF at = {} THEN <<>> ELSE <<cs[Max(at)]>>

\* whatever came before and however it was cut into chunks, a CSI sequence
\* calls its handler with the parameters and the prefix that it spells
CsiSpelled ==
    p.state = "normal" /\ p.csi # <<>> =>
       /\ p.call.params = RefParams(p.csi)
       /\ p.call.prefix = RefPrefix(p.csi)

\* no prefix, postfix or designation outlives its sequence: the next one would
\* be taken for a private one, or change the wrong character set
NothingLeaks ==
    /\ p.state \notin {"csi", "dcs"} => p.prefix = <<>> /\ p.postfix = <<>>
    /\ p.gcharset # -1 <=> p.state = "charset"

\* a BEL that is not passed over brings the parser back to normal from
\* wherever a broken sequence left it
BelRecovers == [][Char("BEL") /\ ~p.skip => p'.state = "normal"]_parserVars

\* replies leave once each, in the order in which the host's requests asked
\* for them, those excepted that a full reset discarded before their timer
RepliesInOrder == out \o queue = asked

\* no reply waits for ever: there is a timer for every batch, also when a
\* reset emptied the queue under an older timer
RepliesLeave == queue # <<>> ~> queue = <<>>

\* the parser's fields carry over from chunk to chunk what belongs to the
\* sequence being read, and nothing else
SequencesRead == ParserTypeOK /\ CsiSpelled /\ NothingLeaks

\* every reply leaves, once and in order
RepliesSent == []RepliesInOrder /\ RepliesLeave
=============================================================================
