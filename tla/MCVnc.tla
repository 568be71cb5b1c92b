------------------------------- MODULE MCVnc -------------------------------
(***************************************************************************)
(* Instances of the VNC client: the page with its sessions (VncPage), one  *)
(* session's reading of the server's bytes (RfbWire), and its keyboard and *)
(* mouse (VncInput).  part says which of these a behaviour is about; the   *)
(* others do not move.                                                     *)
(*                                                                         *)
(* The servers below are the other side of RfbWire: what each may send,    *)
(* when, and as which bytes.  after is the number of the client's messages *)
(* that must have come before.                                             *)
(***************************************************************************)
EXTENDS VncPage, RfbWire, VncInput

Step(m, after, bytes) == <<[msg |-> m, after |-> after, bytes |-> bytes, legal |-> TRUE]>>
Wrong(m, after, bytes) == <<[msg |-> m, after |-> after, bytes |-> bytes, legal |-> FALSE]>>

(***************************************************************************)
(* The handshake                                                           *)
(***************************************************************************)
version(v, after) == Step([m |-> "version"], after, Fill(11) \o <<v>>)
types(list, after) == Step([m |-> "types"], after, <<Len(list)>> \o list)
scheme(n, after) == Step([m |-> "scheme"], after, U32(n))
challenge(after) == Step([m |-> "challenge"], after, Fill(16))
tunnels(n, after) ==
    Step([m |-> "tunnels"], after, U32(n) \o (IF n = 0 THEN <<>> ELSE U32(0) \o Fill(11) \o <<1>>))
subauths(t, after) == Step([m |-> "subauths"], after, U32(1) \o Fill(15) \o <<t>>)
noSubauths(after) == Step([m |-> "subauths"], after, U32(0))
result(after) == Step([m |-> "result"], after, U32(0))
init(name, after) ==
    Step([m |-> "init", n |-> name], after, Fill(20) \o U32(name) \o Fill(name))
initTight(after) ==
    Step([m |-> "init", n |-> 1], after,
         Fill(20) \o U32(1) \o Fill(1) \o U16(1) \o U16(0) \o U16(0) \o U16(0) \o Fill(16))

Shortest == version(33, 0) \o scheme(1, 1) \o init(1, 2)
Handshakes ==
    { Shortest,
      version(38, 0) \o types(<<1>>, 1) \o result(2) \o init(2, 3),
      version(38, 0) \o types(<<1, 30, 2>>, 1) \o challenge(2) \o result(3) \o init(1, 4),
      version(33, 0) \o scheme(2, 1) \o challenge(1) \o result(2) \o init(1, 3),
      version(37, 0) \o types(<<1>>, 1) \o init(1, 3),
      version(38, 0) \o types(<<16, 2>>, 1) \o tunnels(1, 2) \o subauths(1, 3) \o result(4)
          \o initTight(5),
      version(38, 0) \o types(<<16>>, 1) \o tunnels(0, 2) \o subauths(2, 2) \o challenge(3)
          \o result(4) \o initTight(5),
      version(38, 0) \o types(<<16>>, 1) \o tunnels(0, 2) \o noSubauths(2) \o result(2),
      version(38, 0) \o types(<<22, 2>>, 1) \o challenge(3) \o result(4) \o init(1, 5),
      version(0, 0) \o version(38, 1) \o types(<<1>>, 2) \o result(3) \o init(1, 4) }
Refusals ==
    { version(38, 0) \o types(<<1>>, 1) \o Wrong([m |-> "result"], 2, U32(1) \o U32(2) \o Fill(2)),
      version(37, 0) \o types(<<2>>, 1) \o challenge(2) \o Wrong([m |-> "result"], 3, U32(1)),
      version(38, 0) \o Wrong([m |-> "types"], 1, <<0>> \o U32(2) \o Fill(2)),
      version(38, 0) \o Wrong([m |-> "types"], 1, <<1, 30>>),
      version(33, 0) \o Wrong([m |-> "scheme"], 1, U32(0) \o U32(2) \o Fill(2)),
      Wrong([m |-> "version"], 0, Fill(11) \o <<90>>) }

(***************************************************************************)
(* The session                                                             *)
(***************************************************************************)
bell == Step([m |-> "bell"], 2, <<2>>)
cut(n) == Step([m |-> "cut", n |-> n], 2, <<3>> \o Fill(3) \o U32(n) \o Fill(n))
xvp(op) == Step([m |-> "xvp", n |-> op], 2, <<250, Filler, 1, op>>)
colours(n) ==
    Step([m |-> "colours", n |-> n], 2, <<1, Filler>> \o U16(0) \o U16(n) \o Fill(6 * n))

\* a rectangle: what it is when handled, and its bytes
rect(enc, number, x, y, w, h, n, body) ==
    [r |-> [enc |-> enc, w |-> w, h |-> h, n |-> n],
     bytes |-> U16(x) \o U16(y) \o U16(w) \o U16(h) \o Fill(3) \o <<number>> \o body]
raw(w, h, bpp) == rect("raw", 0, 0, 0, w, h, h, Fill(w * h * bpp))
copyrect == rect("copyrect", 1, 0, 0, 1, 1, 0, Fill(4))
rre(n, bpp) == rect("rre", 2, 0, 0, 2, 2, n, U32(n) \o Fill(bpp + n * (bpp + 8)))
\* two tiles: subrects of one colour, or coloured ones, then a raw tile
hextile(bpp) ==
    rect("hextile", 5, 0, 0, 17, 1, 2, <<14>> \o Fill(2 * bpp) \o <<1>> \o Fill(2) \o <<1>> \o Fill(bpp))
hextileColoured(bpp) ==
    rect("hextile", 5, 0, 0, 17, 1, 2, <<24, 2>> \o Fill(2 * (bpp + 2)) \o <<0>>)
tightFill == rect("tight", 7, 0, 0, 2, 2, 3, <<128>> \o Fill(3))
tightJpeg(n) == rect("tight", 7, 0, 0, 2, 2, n, <<144, 128 + (n % 128), n \div 128>> \o Fill(n))
tightShort == rect("tight", 7, 0, 0, 1, 1, 3, <<0>> \o Fill(3))
tightCopy(n) == rect("tight", 7, 0, 0, 2, 2, n, <<0, n>> \o Fill(n))
tightPalette == rect("tight", 7, 0, 0, 3, 2, 2, <<64, 1, 1>> \o Fill(6) \o Fill(2))
tightPng(n) == rect("tight_png", 252, 0, 0, 2, 2, n, <<160, n>> \o Fill(n))
pngFill(bytes) == rect("tight_png", 252, 0, 0, 2, 2, bytes, <<128>> \o Fill(bytes))
\* a raw tile, whose other flags the protocol leaves free
hextileFlags == rect("hextile", 5, 0, 0, 1, 1, 1, <<31>> \o Fill(4))
tightCopyFilter == rect("tight", 7, 0, 0, 1, 1, 3, <<64, 0>> \o Fill(3))
desktopSize == rect("DesktopSize", 33, 0, 0, 3, 3, 0, <<>>)
extended(x, y) == rect("ExtendedDesktopSize", 204, x, y, 3, 3, 1, <<1>> \o Fill(3 + 16))
cursor(bpp) == rect("Cursor", 17, 0, 0, 1, 2, 0, Fill(2 * bpp + 2))

RECURSIVE Bytes(_)
Bytes(rects) == IF rects = <<>> THEN <<>> ELSE Head(rects).bytes \o Bytes(Tail(rects))
fbu(rects) ==
    Step([m |-> "fbu", rects |-> [k \in 1..Len(rects) |-> rects[k].r]], 2,
         <<0, Filler>> \o U16(Len(rects)) \o Bytes(rects))
\* more rectangles announced than come: ended by last_rect
fbuOpen(rects) ==
    Step([m |-> "fbu", rects |-> [k \in 1..Len(rects) |-> rects[k].r]], 2,
         <<0, Filler, 255, 255>> \o Bytes(rects) \o U16(0) \o U16(0) \o U16(0) \o U16(0)
            \o Fill(3) \o <<32>>)

TrueColour ==
    { bell, cut(2), xvp(1), fbu(<<>>), fbu(<<raw(1, 2, 4)>>), fbu(<<rre(2, 4), copyrect>>),
      fbu(<<hextile(4)>>), fbu(<<hextileColoured(4), desktopSize>>),
      fbu(<<tightFill, tightShort>>), fbu(<<tightCopy(2), tightPalette>>),
      fbu(<<tightPng(3)>>), fbuOpen(<<cursor(4)>>), fbu(<<extended(0, 0)>>) }
FewColours ==
    { colours(1), fbu(<<raw(2, 2, 1)>>), fbu(<<rre(1, 1), hextile(1)>>),
      fbu(<<tightPng(3)>>), fbu(<<pngFill(1), raw(1, 1, 1)>>) }
Illegal ==
    { Wrong([m |-> "bell"], 2, <<9>>), Wrong([m |-> "xvp", n |-> 5], 2, <<250, Filler, 1, 5>>),
      Wrong([m |-> "fbu", rects |-> <<>>], 2, <<0, Filler>> \o U16(1) \o Fill(8) \o U32(6)),
      Wrong([m |-> "fbu", rects |-> <<>>], 2,
            <<0, Filler>> \o U16(1) \o Fill(4) \o U16(1) \o U16(1) \o Fill(3) \o <<5, 32>>),
      Wrong([m |-> "fbu", rects |-> <<>>], 2, <<0, Filler>> \o U16(1) \o Fill(8) \o U32(230)) }

MCServers ==
    [version : {38}, scheme : {5, 16, 22}] \cup [version : {33}, scheme : {0, 1}]

Said(password, true_color, conversations) ==
    [password : password, true_color : true_color, steps : conversations]
MCScripts ==
    Said({"none", "plain", "xvp"}, {TRUE}, Handshakes)
    \cup Said({"plain"}, {TRUE}, Refusals)
    \cup Said({"plain"}, {TRUE}, {Shortest \o a \o b : a, b \in TrueColour})
    \cup Said({"plain"}, {FALSE}, {Shortest \o a \o b : a \in FewColours, b \in {bell} \cup FewColours})
    \cup Said({"plain"}, {TRUE}, {Shortest \o fbu(<<extended(1, 1)>>)})
    \cup Said({"plain"}, {TRUE},
              {Shortest \o a \o bell : a \in Illegal \cup
                  {fbu(<<tightJpeg(130)>>), fbu(<<tightCopyFilter>>), fbu(<<extended(1, 1)>>),
                   fbu(<<hextileFlags>>)}})

(***************************************************************************)
(* All parts                                                               *)
(***************************************************************************)
Windows == <<"Alt", "Ctrl">>

VARIABLE part   \* what this behaviour is about
vncVars == <<part, pageVars, wireVars, inputVars>>

VncInit ==
    /\ part \in {"page", "wire", "keys", "mouse"} /\ PageInit /\ WireInit /\ InputInit
    /\ part # "wire" => LET c == CHOOSE c \in Scripts : TRUE
                        IN script = c.steps /\ rfb = NewWire(c.password, c.true_color)
    /\ part # "page" => server = CHOOSE v \in Servers : TRUE
    /\ part # "keys" => names = "codes"
VncNext ==
    /\ UNCHANGED part
    /\ \/ part = "page" /\ PageNext /\ UNCHANGED <<wireVars, inputVars>>
       \/ part = "wire" /\ WireNext /\ UNCHANGED <<pageVars, inputVars>>
       \/ /\ part = "keys" /\ (KeyboardNext \/ FocusNext \/ MouseMove)
          \* bound: no key is pressed once a letter has changed its name
          /\ names = "changed" => Len(held') <= Len(held)
          /\ UNCHANGED <<pageVars, wireVars>>
       \/ part = "mouse" /\ (MouseNext \/ FocusNext) /\ UNCHANGED <<pageVars, wireVars>>
VncSpec == VncInit /\ [][VncNext]_vncVars /\ TimersRun
=============================================================================
