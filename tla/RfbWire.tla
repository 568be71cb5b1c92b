------------------------------ MODULE RfbWire ------------------------------
(***************************************************************************)
(* What an RFB object makes of the bytes its server sends: the handshake,  *)
(* the messages of a session and the rectangles of an update               *)
(* (include/rfb.js), read from the receive queue of include/websock.js.    *)
(*                                                                         *)
(* The queue grows by whatever the network delivers at a time.  A handler  *)
(* that finds too few bytes gives back what it had read and is called      *)
(* again from the start, so each of them is here a function of the object  *)
(* and its queue.  A byte that only fills its place is Filler, which would *)
(* be a bell if it were taken for a message.                               *)
(*                                                                         *)
(* Fields no handler reads: log and cur (the messages and rectangles       *)
(* handled), short (the version came in pieces), lost (the place in the    *)
(* stream is no longer known), threw, glued (bytes that came with the      *)
(* server's initialisation wait for the next event), declined (the session *)
(* was failed for something the protocol allows the server).               *)
(***************************************************************************)
EXTENDS Integers, Sequences, FiniteSets

LOCAL INSTANCE SequencesExt   \* IsPrefix

CONSTANTS Scripts,    \* conversations: the server's messages (steps), whether the user
                      \* wants true colour and what password he typed first
          Chunks,     \* bound: sizes in which bytes arrive, besides all at once
          RQmax       \* size from which the queue is compacted (10000 in the code)

ASSUME WireAssumption == Chunks \subseteq Nat \ {0} /\ RQmax \in Nat

VARIABLES rfb,        \* the object with its Websock
          net,        \* bytes on their way
          todo,       \* what the server has still to send
          script      \* the whole conversation, for the properties
wireVars == <<rfb, net, todo, script>>

Filler == 2
Fill(n) == [k \in 1..n |-> Filler]
U16(n) == <<n \div 256, n % 256>>
U32(n) == <<0, 0>> \o U16(n)
Bit(n, k) == (n \div 2^k) % 2 = 1

(***************************************************************************)
(* Websock: the receive and the send queue.  i is _rQi.                    *)
(***************************************************************************)
rQlen(r) == Len(r.q) - r.i
rQpeek8(r, k) == r.q[r.i + 1 + k]
rQpeek16(r, k) == 256 * rQpeek8(r, k) + rQpeek8(r, k + 1)
rQskipBytes(r, n) == [r EXCEPT !.i = @ + n]

\* need more data: back to where the handler began
rQwaitHere(r, goback) == [r EXCEPT !.ret = FALSE]
rQwait(r, goback) == [r EXCEPT !.i = @ - goback, !.ret = FALSE]
Yes(r) == [r EXCEPT !.ret = TRUE]
No(r) == [r EXCEPT !.ret = FALSE]

\* concat and flush: a socket with too much buffered sends later, a closed one drops it
send(r, what) ==
    IF r.state = "failed" THEN r
    ELSE IF r.full THEN [r EXCEPT !.sQ = Append(@, what)]
    ELSE [r EXCEPT !.sQ = <<>>, !.out = @ \o Append(r.sQ, what)]

compactKeepsIndex(r) == IF Len(r.q) > RQmax THEN [r EXCEPT !.q = SubSeq(@, r.i + 1, Len(@))] ELSE r
compact(r) ==
    IF Len(r.q) > RQmax THEN [r EXCEPT !.q = SubSeq(@, r.i + 1, Len(@)), !.i = 0] ELSE r

(***************************************************************************)
(* The handshake                                                           *)
(***************************************************************************)
goTo(r, state) == [r EXCEPT !.state = state]
failed(r) == [r EXCEPT !.state = "failed", !.ret = FALSE, !.msgTimer = FALSE, !.sendTimer = FALSE]

\* the timer that flushes the send queue
neverFlushed(r) == r
everyFifty(r) == [r EXCEPT !.sendTimer = TRUE]

negotiate_protocol_version(r) ==
    IF rQlen(r) < 12 THEN [failed(r) EXCEPT !.short = TRUE]
    ELSE LET v == rQpeek8(r, 11)
             s == rQskipBytes(r, 12)
         IN IF v = 0 THEN Yes(send(s, "repeaterID"))
            ELSE IF v \notin {33, 37, 38} THEN failed(s)
            ELSE goTo(send(everyFifty([s EXCEPT !.version = v]), "version"), "Security")

negotiate_std_vnc_auth(r) ==
    IF rQlen(r) >= 16
    THEN Yes(goTo(send(rQskipBytes(r, 16), "response"), "SecurityResult"))
    ELSE rQwait(IF r.password = "none" THEN goTo(r, "password") ELSE r, 0)

negotiate_xvp_auth(r) ==
    IF r.password # "xvp" THEN No(goTo(r, "password"))
    ELSE negotiate_std_vnc_auth(
             [send(r, "credentials") EXCEPT !.password = "plain", !.scheme = 2])

\* the last tunnel of code 0 counts; 1 in the last byte is the right signature
negotiate_tight_tunnels(r, n) ==
    LET plain == {k \in 1..n : rQpeek8(r, 16 * k - 13) = 0}
        s == rQskipBytes(r, 16 * n)
    IN IF plain # {} /\ rQpeek8(r, 16 * (CHOOSE k \in plain : \A j \in plain : j <= k) - 1) = 1
       THEN No(send(s, "tunnel")) ELSE failed(s)

sub_auth(r) ==
    LET n == rQpeek16(r, 2)
        s == rQskipBytes(r, 4)
        types == {rQpeek8(s, 16 * k - 1) : k \in 1..n}
        t == rQskipBytes(s, 16 * n)
    IN IF rQlen(r) < 4 THEN rQwait(r, 0)
       ELSE IF rQlen(s) < 16 * n THEN rQwait(s, 4)
       ELSE IF 1 \in types THEN Yes(goTo(send(t, "subauth"), "SecurityResult"))
       ELSE IF 2 \in types THEN negotiate_std_vnc_auth([send(t, "subauth") EXCEPT !.scheme = 2])
       ELSE failed([t EXCEPT !.declined = n = 0])

negotiate_tight_auth(r) ==
    LET n == rQpeek16(r, 2)
        s == rQskipBytes(r, 4)
    IN IF r.tight THEN sub_auth(r)
       ELSE IF rQlen(r) < 4 THEN rQwait(r, 0)
       ELSE IF n > 0 /\ rQlen(s) < 16 * n THEN rQwait(s, 4)
       ELSE IF n > 0 THEN negotiate_tight_tunnels([s EXCEPT !.tight = TRUE], n)
       ELSE sub_auth([s EXCEPT !.tight = TRUE])

\* 'ClientInitialisation' is left at once
clientInit(r) == Yes(goTo(send(r, "clientInit"), "ServerInitialisation"))

negotiate_authentication(r) ==
    CASE r.scheme = 0 -> IF rQlen(r) < 4 THEN rQwait(r, 0) ELSE failed(r)
      [] r.scheme = 1 -> IF r.version >= 38 THEN Yes(goTo(r, "SecurityResult")) ELSE clientInit(r)
      [] r.scheme = 22 -> negotiate_xvp_auth(r)
      [] r.scheme = 2 -> negotiate_std_vnc_auth(r)
      [] r.scheme = 16 -> negotiate_tight_auth(r)
      [] OTHER -> failed(r)

Highest(types) == IF types = {} THEN 0 ELSE CHOOSE t \in types : \A u \in types : u <= t
HighestOfAll(types) == Highest(types)
HighestTo16(types) == Highest({t \in types : t <= 16})
HighestType(types) == Highest({t \in types : t <= 16 \/ t = 22})

negotiate_security(r) ==
    LET n == rQpeek8(r, 0)
        s == rQskipBytes(r, 1)
        best == HighestType({rQpeek8(s, k) : k \in 0..(n - 1)})
        t == rQskipBytes(s, n)
    IN IF r.version >= 37 /\ rQlen(s) < n THEN rQwait(s, 1)
       ELSE IF r.version >= 37 /\ (n = 0 \/ best = 0) THEN failed(t)
       ELSE IF r.version < 37 /\ rQlen(r) < 4 THEN rQwait(r, 0)
       ELSE negotiate_authentication(goTo(
               IF r.version >= 37 THEN send([t EXCEPT !.scheme = best], "type")
               ELSE [rQskipBytes(r, 4) EXCEPT !.scheme = rQpeek8(r, 3)], "Authentication"))

\* the length of the reason is read without waiting for it
handle_security_result(r) ==
    LET code == rQpeek8(r, 3)
        s == rQskipBytes(r, 4)
    IN IF rQlen(r) < 4 THEN rQwait(r, 0)
       ELSE CASE code = 0 -> clientInit(s)
              [] code = 1 /\ r.version >= 38 /\ rQlen(s) >= 4
                          /\ rQlen(s) - 4 < rQpeek16(s, 2) -> rQwait(rQskipBytes(s, 4), 8)
              [] code \in {1, 2} -> failed(s)
              [] OTHER -> No(s)

\* pixel format, encodings and the first request are sent together
negotiate_server_init(r) ==
    LET s == rQskipBytes(r, 24)
        name == rQpeek16(r, 22)
        t == rQskipBytes(s, name)
        u == rQskipBytes(t, 8)
        caps == 16 * (rQpeek16(t, 0) + rQpeek16(t, 2) + rQpeek16(t, 4))
        end == IF r.tight THEN rQskipBytes(u, caps) ELSE t
        bpp == IF r.true_color THEN 4 ELSE 1
    IN IF rQlen(r) < 24 THEN rQwait(r, 0)
       ELSE IF rQlen(s) < name THEN rQwait(s, 24)
       ELSE IF r.tight /\ rQlen(t) < 8 THEN rQwait(t, 24 + name)
       ELSE IF r.tight /\ rQlen(u) < caps THEN rQwait(u, 32 + name)
       ELSE No(goTo([send(end, "setup") EXCEPT !.bpp = bpp, !.requests = 1,
                                               !.log = Append(@, [m |-> "init", n |-> name])],
                    "normal"))

\* nothing for 'password', 'connect', 'disconnect'
init_msg(r) ==
    CASE r.state = "ProtocolVersion" -> negotiate_protocol_version(r)
      [] r.state = "Security" -> negotiate_security(r)
      [] r.state = "Authentication" -> negotiate_authentication(r)
      [] r.state = "SecurityResult" -> handle_security_result(r)
      [] r.state = "ServerInitialisation" -> negotiate_server_init(r)
      [] OTHER -> No(r)

(***************************************************************************)
(* The rectangles of an update (RFB.encodingHandlers).  bytes is what the  *)
(* next piece needs at least.                                              *)
(***************************************************************************)
Encodings == {"raw", "copyrect", "rre", "hextile", "tight", "tight_png", "DesktopSize",
              "Cursor", "last_rect", "ExtendedDesktopSize"}
\* the last byte of the encoding's number stands for it; JPEG_quality_med,
\* compress_hi and xvp have a name, but no handler
EncodingOf == [b \in 0..255 |->
    CASE b = 0 -> "raw" [] b = 1 -> "copyrect" [] b = 2 -> "rre" [] b = 5 -> "hextile"
      [] b = 7 -> "tight" [] b = 252 -> "tight_png" [] b = 33 -> "DesktopSize"
      [] b = 17 -> "Cursor" [] b = 32 -> "last_rect" [] b = 204 -> "ExtendedDesktopSize"
      [] b \in {230, 9, 203} -> "unhandled"
      [] OTHER -> "unknown"]

needs(r, n) == [r EXCEPT !.bytes = n]
rectDone(r, n) ==
    [r EXCEPT !.rects = @ - 1, !.bytes = 0, !.ret = TRUE,
              !.cur = Append(@, [enc |-> r.enc, w |-> r.w, h |-> r.h, n |-> n])]
Least(a, b) == IF a < b THEN a ELSE b

\* as many whole lines as there are; they must follow those drawn before
RAW(r) ==
    LET lines == IF r.lines = 0 THEN r.h ELSE r.lines
        line == r.w * r.bpp
        s == needs([r EXCEPT !.lines = lines], line)
        n == Least(lines, rQlen(r) \div line)
        t == [rQskipBytes(s, n * line) EXCEPT
                 !.lines = lines - n,
                 !.drawn = IF @ = r.h - lines THEN @ + n ELSE -1]
    IN IF rQlen(r) < line THEN rQwait(s, 0)
       ELSE IF lines > n THEN Yes(t) ELSE rectDone([t EXCEPT !.drawn = 0], t.drawn)

COPYRECT(r) ==
    IF rQlen(r) < 4 THEN rQwait(needs(r, 4), 0) ELSE rectDone(rQskipBytes(r, 4), 0)

\* subrectangles one by one, but waited for a hundred at a time
RRE_chunk_sz == 100
RRE(r) ==
    LET size == r.bpp + 8
        s == IF r.subrects > 0 THEN r
             ELSE [rQskipBytes(r, 4 + r.bpp) EXCEPT !.subrects = rQpeek16(r, 2)]
        n == Least(s.subrects, rQlen(s) \div size)
        t == [rQskipBytes(s, n * size) EXCEPT !.subrects = @ - n, !.drawn = @ + n]
    IN IF r.subrects = 0 /\ rQlen(r) < 4 + r.bpp THEN rQwait(needs(r, 4 + r.bpp), 0)
       ELSE IF t.subrects > 0 THEN Yes(needs(t, size * Least(RRE_chunk_sz, t.subrects)))
       ELSE rectDone([t EXCEPT !.drawn = 0], t.drawn)

\* subencoding: 1 raw, 2 background, 4 foreground, 8 subrects, 16 coloured
tileHead(sub, bpp) == 1 + (IF Bit(sub, 1) THEN bpp ELSE 0) + (IF Bit(sub, 2) THEN bpp ELSE 0)
tileBytes(r, sub, area) ==
    LET head == tileHead(sub, r.bpp)
    IN IF Bit(sub, 0) THEN 1 + area * r.bpp
       ELSE IF ~Bit(sub, 3) THEN head
       ELSE IF rQlen(r) < head + 1 THEN head + 1
       ELSE head + 1 + rQpeek8(r, head) * (IF Bit(sub, 4) THEN r.bpp + 2 ELSE 2)

RECURSIVE hextileTiles(_)
hextileTiles(r) ==
    LET across == (r.w + 15) \div 16
        tile == across * ((r.h + 15) \div 16) - r.tiles
        area == Least(16, r.w - 16 * (tile % across)) * Least(16, r.h - 16 * (tile \div across))
        sub == rQpeek8(r, 0)
        n == tileBytes(r, sub, area)
    IN IF r.tiles = 0 THEN rectDone([r EXCEPT !.drawn = 0], r.drawn)
       ELSE IF rQlen(r) < 1 THEN rQwait(needs(r, 1), 0)
       ELSE IF sub > 30 THEN failed([r EXCEPT !.declined = Bit(sub, 0)])
       ELSE IF rQlen(r) < n THEN rQwait(needs(r, n), 0)
       ELSE hextileTiles([rQskipBytes(r, n) EXCEPT !.tiles = @ - 1, !.bytes = 0,
                                                   !.drawn = @ + 1])
HEXTILE(r) ==
    hextileTiles([r EXCEPT !.tiles =
        IF @ > 0 THEN @ ELSE ((r.w + 15) \div 16) * ((r.h + 15) \div 16)])

\* the length that follows k bytes, as far as its bytes are there: <<size, length>>
getTightCLength(r, k) ==
    LET b(j) == IF rQlen(r) > k + j THEN rQpeek8(r, k + j) ELSE 0
    IN IF b(0) < 128 THEN <<1, b(0)>>
       ELSE IF b(1) < 128 THEN <<2, (b(0) % 128) + (b(1) % 128) * 128>>
       ELSE <<3, (b(0) % 128) + (b(1) % 128) * 128 + b(2) * 16384>>

\* head bytes, then data of this size: as it is when short, compressed otherwise
tightData(r, head, size) ==
    LET c == IF size < 12 THEN <<0, size>> ELSE getTightCLength(r, head)
        n == head + c[1] + c[2]
    IN IF rQlen(r) < n THEN rQwait(needs(r, n), 0) ELSE rectDone(rQskipBytes(r, n), c[2])

\* _fb_depth: the bytes of a colour without padding
depth(r) == IF r.bpp = 1 THEN 1 ELSE 3
handleCopy(r) == tightData(r, 1, r.w * r.h * depth(r))
handlePalette(r) ==
    LET colors == rQpeek8(r, 2) + 1
        row == IF colors <= 2 THEN (r.w + 7) \div 8 ELSE r.w
        head == 3 + depth(r) * colors
    IN IF rQlen(r) < head THEN rQwait(needs(r, head), 0) ELSE tightData(r, head, row * r.h)
tightImage(r) ==
    LET c == getTightCLength(r, 1)
        n == 1 + c[1] + c[2]
    IN IF rQlen(r) < n THEN rQwait(needs(r, n), 0) ELSE rectDone(rQskipBytes(r, n), c[2])

\* a filter other than the palette is thrown out of the handler
tightRect(r, png) ==
    LET ctl == rQpeek8(r, 0) \div 16
        fill == ctl = 8
        image == ctl \in {9, 10}
        filter == (ctl \div 4) % 2 = 1 /\ ~fill /\ ~image
        copy == ctl < 4
        head == 1 + (IF fill THEN depth(r) ELSE IF image THEN 3 ELSE IF filter THEN 2 ELSE 0)
    IN IF rQlen(r) < 1 THEN rQwait(needs(r, 1), 0)
       ELSE IF ~(fill \/ image \/ filter \/ copy) \/ (png /\ (filter \/ copy)) THEN failed(r)
       ELSE IF rQlen(r) < head THEN rQwait(needs(r, head), 0)
       ELSE IF fill THEN rectDone(rQskipBytes(r, head), depth(r))
       ELSE IF image THEN tightImage(r)
       ELSE IF copy THEN handleCopy(r)
       ELSE IF rQpeek8(r, 1) = 1 THEN handlePalette(r)
       ELSE [No(needs(r, head)) EXCEPT !.threw = TRUE]

\* with few colours the session is failed, and the rectangle read all the same;
\* of the two encodings only "tight" is then not offered to the server
display_tight(r, png) ==
    tightRect(IF r.bpp = 1 THEN [failed(r) EXCEPT !.declined = png] ELSE r, png)

handle_FB_resize(r, n) == rectDone([r EXCEPT !.width = r.w, !.height = r.h], n)

\* a refused request leaves the rectangle and its bytes: the place is lost
ExtendedDesktopSize(r) ==
    LET n == 4 + 16 * rQpeek8(r, 0)
    IN IF rQlen(r) < 1 THEN rQwait(needs(r, 1), 0)
       ELSE IF rQlen(r) < n THEN rQwait(needs(r, n), 0)
       ELSE IF r.refused THEN [Yes(needs(rQskipBytes(r, n), n)) EXCEPT !.lost = TRUE]
       ELSE handle_FB_resize(rQskipBytes(r, n), rQpeek8(r, 0))

Cursor(r) ==
    LET n == r.w * r.h * r.bpp + ((r.w + 7) \div 8) * r.h
    IN IF rQlen(r) < n THEN rQwait(needs(r, n), 0) ELSE rectDone(rQskipBytes(r, n), 0)

last_rect(r) == [r EXCEPT !.rects = 0, !.ret = TRUE]

encHandler(r) ==
    CASE r.enc = "raw" -> RAW(r)
      [] r.enc = "copyrect" -> COPYRECT(r)
      [] r.enc = "rre" -> RRE(r)
      [] r.enc = "hextile" -> HEXTILE(r)
      [] r.enc = "tight" -> display_tight(r, FALSE)
      [] r.enc = "tight_png" -> display_tight(r, TRUE)
      [] r.enc = "DesktopSize" -> handle_FB_resize(r, 0)
      [] r.enc = "ExtendedDesktopSize" -> ExtendedDesktopSize(r)
      [] r.enc = "Cursor" -> Cursor(r)
      [] r.enc = "last_rect" -> last_rect(r)

(***************************************************************************)
(* The messages of a session                                               *)
(***************************************************************************)
rectHeader(r) ==
    [rQskipBytes(r, 12) EXCEPT
        !.w = rQpeek16(r, 4), !.h = rQpeek16(r, 6), !.enc = EncodingOf[rQpeek8(r, 11)],
        !.refused = rQpeek16(r, 0) = 1 /\ rQpeek16(r, 2) # 0]

handled(r, m) == Yes([r EXCEPT !.log = Append(@, m)])

\* the handlers of the rectangles, one after the other; what is thrown leaves a
\* rectangle counted whose header is gone
encoded(h) ==
    CASE h.enc = "unknown" -> failed(h)
      [] h.enc = "unhandled" -> [No(h) EXCEPT !.threw = TRUE, !.lost = TRUE]
      [] OTHER -> encHandler(h)
RECURSIVE rectangles(_)
unlessDone(e) == IF e.ret /\ ~e.lost THEN rectangles(e) ELSE e
rectangles(r) ==
    IF r.rects = 0 THEN handled([r EXCEPT !.cur = <<>>], [m |-> "fbu", rects |-> r.cur])
    ELSE IF r.state # "normal" THEN No(r)
    ELSE IF rQlen(r) < r.bytes \/ (r.bytes = 0 /\ rQlen(r) < 12) THEN rQwait(r, 0)
    ELSE unlessDone(encoded(IF r.bytes = 0 THEN rectHeader(r) ELSE r))

framebufferUpdate(r) ==
    IF r.rects = 0 /\ rQlen(r) < 3 THEN rQwait(r, 1)
    ELSE rectangles(IF r.rects > 0 THEN r
                    ELSE rQskipBytes([r EXCEPT !.rects = rQpeek16(r, 1), !.bytes = 0], 3))

\* the header of six bytes is read without waiting for it
handle_set_colour_map_msg(r) ==
    LET n == rQpeek16(r, 3)
        s == rQskipBytes(r, 5)
    IN IF rQlen(r) < 5 THEN Yes([s EXCEPT !.lost = TRUE])
       ELSE IF rQlen(s) < 6 * n THEN rQwait(s, 6)
       ELSE handled(rQskipBytes(s, 6 * n), [m |-> "colours", n |-> n])

handle_server_cut_text(r) ==
    LET n == rQpeek16(r, 5)
        s == rQskipBytes(r, 7)
    IN IF rQlen(r) < 7 THEN rQwait(r, 1)
       ELSE IF rQlen(s) < n THEN rQwait(s, 8)
       ELSE handled(rQskipBytes(s, n), [m |-> "cut", n |-> n])

handle_xvp_msg(r) ==
    LET op == rQpeek8(r, 2)
        s == handled(rQskipBytes(r, 3), [m |-> "xvp", n |-> op])
    IN IF rQlen(r) < 3 THEN rQwait(r, 1) ELSE IF op \in {0, 1} THEN s ELSE Yes(failed(s))

\* a finished update asks for the next one
askAlways(u) == send([u EXCEPT !.requests = @ + 1], "request")
askNext(u) == IF u.ret /\ ~u.lost THEN send([u EXCEPT !.requests = @ + 1], "request") ELSE u

normal_msg(r) ==
    LET type == IF r.rects > 0 THEN 0 ELSE rQpeek8(r, 0)
        s == IF r.rects > 0 THEN r ELSE rQskipBytes(r, 1)
    IN CASE type = 0 -> askNext(framebufferUpdate(s))
         [] type = 1 -> handle_set_colour_map_msg(s)
         [] type = 2 -> handled(s, [m |-> "bell"])
         [] type = 3 -> handle_server_cut_text(s)
         [] type = 250 -> handle_xvp_msg(s)
         [] OTHER -> Yes(failed(s))

\* what is left in the queue is handled 10 ms later; after the handshake it
\* waits for the next event
laterIfDone(n) == [n EXCEPT !.glued = FALSE, !.msgTimer = @ \/ (n.ret /\ n.rects = 0 /\ rQlen(n) > 12)]
later(n) == [n EXCEPT !.glued = FALSE, !.msgTimer = @ \/ (n.ret /\ rQlen(n) > 0)]
afterInit(m) == [m EXCEPT !.glued = m.state = "normal" /\ rQlen(m) > 0]

handle_message(r) ==
    IF rQlen(r) = 0 \/ r.state \in {"disconnected", "failed"} THEN r
    ELSE IF r.state = "normal" THEN later(normal_msg(r)) ELSE afterInit(init_msg(r))

(***************************************************************************)
(* Steps                                                                   *)
(***************************************************************************)
NewWire(password, true_color) ==
    [state |-> "ProtocolVersion", version |-> 0, scheme |-> 0, tight |-> FALSE,
     password |-> password, true_color |-> true_color, bpp |-> 4, q |-> <<>>, i |-> 0,
     ret |-> FALSE, sQ |-> <<>>, out |-> <<>>, full |-> FALSE, sendTimer |-> FALSE,
     msgTimer |-> FALSE, askTimer |-> FALSE, rects |-> 0, bytes |-> 0, lines |-> 0,
     subrects |-> 0, tiles |-> 0, drawn |-> 0, w |-> 0, h |-> 0, enc |-> "unknown",
     refused |-> FALSE, width |-> 0, height |-> 0, requests |-> 0, log |-> <<>>,
     cur |-> <<>>, short |-> FALSE, lost |-> FALSE, threw |-> FALSE, glued |-> FALSE,
     declined |-> FALSE]

WireInit ==
    \E c \in Scripts :
       /\ script = c.steps /\ todo = c.steps /\ net = <<>>
       /\ rfb = NewWire(c.password, c.true_color)

Updates(steps) == Len(SelectSeq(steps, LAMBDA x : x.msg.m = "fbu"))
Requests(out) == Len(SelectSeq(out, LAMBDA x : x \in {"setup", "request"}))

\* the server waits for its turn in the handshake, and for a request before
\* it sends an update
ServersTurn ==
    /\ todo # <<>> /\ rfb.state # "failed"
    /\ Len(rfb.out) >= Head(todo).after
    /\ Head(todo).msg.m = "fbu" => Requests(rfb.out) > Updates(script) - Updates(todo)
ServerSends ==
    /\ ServersTurn
    /\ net' = net \o Head(todo).bytes /\ todo' = Tail(todo)
    /\ UNCHANGED <<rfb, script>>

recv_message ==
    /\ rfb.state # "failed"
    /\ \E n \in (Chunks \cap 1..Len(net)) \cup ({Len(net)} \ {0}) :
          /\ LET r == handle_message([rfb EXCEPT !.q = @ \o SubSeq(net, 1, n)])
             IN rfb' = IF r.threw THEN r ELSE compact(r)
          /\ net' = SubSeq(net, n + 1, Len(net))
    /\ UNCHANGED <<todo, script>>

MoreTimer ==
    /\ rfb.msgTimer
    /\ rfb' = handle_message([rfb EXCEPT !.msgTimer = FALSE])
    /\ UNCHANGED <<net, todo, script>>

sendPassword ==
    /\ rfb.state = "password"
    /\ \E p \in {"plain", "xvp"} :
          rfb' = [rfb EXCEPT !.password = p, !.state = "Authentication", !.askTimer = TRUE]
    /\ UNCHANGED <<net, todo, script>>

AskTimer ==
    /\ rfb.askTimer
    /\ rfb' = init_msg([rfb EXCEPT !.askTimer = FALSE])
    /\ UNCHANGED <<net, todo, script>>

\* more than 200 bytes are unsent: the repeater's identifier is that long, and
\* so is what the user's input adds up to
SocketFills ==
    /\ ~rfb.full /\ Requests(rfb.out) + Len(SelectSeq(rfb.out, LAMBDA x : x = "repeaterID")) > 0
    /\ rfb' = [rfb EXCEPT !.full = TRUE]
    /\ UNCHANGED <<net, todo, script>>
SocketDrains ==
    /\ rfb.full
    /\ rfb' = [rfb EXCEPT !.full = FALSE]
    /\ UNCHANGED <<net, todo, script>>

\* every 50 ms
flush ==
    /\ rfb.sendTimer /\ ~rfb.full /\ rfb.sQ # <<>>
    /\ rfb' = [rfb EXCEPT !.sQ = <<>>, !.out = @ \o rfb.sQ]
    /\ UNCHANGED <<net, todo, script>>

\* bound: nothing is explored once the place in the stream is lost
WireNext ==
    /\ ~rfb.lost
    /\ \/ ServerSends \/ recv_message \/ MoreTimer \/ sendPassword \/ AskTimer
       \/ SocketFills \/ SocketDrains \/ flush

WireSpec == WireInit /\ [][WireNext]_wireVars

(***************************************************************************)
(* Properties                                                              *)
(***************************************************************************)
Sent(steps) ==
    LET session == SelectSeq(steps, LAMBDA x : x.msg.m \in {"init", "bell", "cut", "xvp",
                                                           "colours", "fbu"})
    IN [k \in 1..Len(session) |-> session[k].msg]
Quiet == net = <<>> /\ ~ServersTurn /\ ~rfb.msgTimer /\ ~rfb.askTimer /\ rfb.sQ = <<>>

WireTypeOK ==
    /\ rfb.i \in 0..Len(rfb.q) \/ rfb.lost
    /\ rfb.state \in {"ProtocolVersion", "Security", "Authentication", "password",
                      "SecurityResult", "ServerInitialisation", "normal", "failed"}
    /\ rfb.rects \in Nat /\ rfb.bytes \in Nat /\ rfb.lines \in Nat
    /\ rfb.subrects \in Nat /\ rfb.tiles \in Nat

(* In whatever pieces the bytes arrive, the messages and rectangles that   *)
(* are handled are those the server sent, with every line, subrectangle    *)
(* and tile once and in order (rfb.js 1146-1279, 1460-2010).               *)
Understood == ~rfb.lost => IsPrefix(rfb.log, Sent(script))

(* Nothing that has arrived is left waiting, unless it came together with  *)
(* the server's initialisation or a handler threw (_handle_message, the 10 *)
(* ms timer).                                                              *)
NothingWaits ==
    Quiet /\ rfb.state = "normal" /\ ~rfb.lost /\ ~rfb.glued /\ ~rfb.threw =>
       rfb.log = Sent(script)

(* A server that keeps to the protocol is never hung up on, unless its     *)
(* version arrived in pieces, it lists no types of authentication within   *)
(* the Tight one (rfb.js 887), it sends a rectangle in TIGHT_PNG, which is *)
(* offered with few colours too (1384, 1660), or a raw hextile with all    *)
(* flags set (1543): _negotiate_*, _fail and the handlers.                 *)
NeverHungUp ==
    rfb.state = "failed" =>
       rfb.short \/ rfb.declined \/ \E k \in 1..Len(script) : ~script[k].legal

(* The server is asked once for every update it has finished, so that it   *)
(* neither starves nor is flooded (_normal_msg, fbUpdateRequests).         *)
OneRequestEach ==
    rfb.state = "normal" /\ ~rfb.lost =>
       rfb.requests = 1 + Len(SelectSeq(rfb.log, LAMBDA x : x.m = "fbu"))

(* What had to wait for the socket is sent by the timer, which exists      *)
(* whenever something waits (websock.js 171-192, rfb.js 730).              *)
SendsLeave == rfb.sQ # <<>> /\ rfb.state # "failed" => rfb.sendTimer

(* In every wait of the handshake somebody else is to move: the server,    *)
(* the network, the user or a timer (rfb.js 690-1084).                     *)
HandshakeMoves ==
    Quiet /\ (\A k \in 1..Len(script) : script[k].legal) =>
       rfb.state \in {"normal", "failed", "password"}

(* The queue and the counters lead through every message, whatever pieces  *)
(* it comes in.                                                            *)
StreamRead == WireTypeOK /\ Understood

(* Neither side waits for the other: what has arrived is handled, what is  *)
(* to be sent is sent, every update finished is answered by one request.   *)
NobodyWaits == NothingWaits /\ HandshakeMoves /\ SendsLeave /\ OneRequestEach
=============================================================================
