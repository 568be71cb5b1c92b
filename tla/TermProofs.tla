----------------------------- MODULE TermProofs -----------------------------
(***************************************************************************)
(* Proofs about three parts of telnet/term.js.                             *)
(*                                                                         *)
(* The control-sequence parser (TermParser), for any characters the hosts  *)
(* send and any bounds: a CSI sequence calls its handler with the          *)
(* parameters and the prefix it spells, however it was cut into chunks; no *)
(* prefix, postfix or designation outlives its sequence; replies leave in  *)
(* the order they were asked for; a BEL recovers from a broken sequence.   *)
(* The argument is one invariant of the parser's record: in the middle of  *)
(* a CSI sequence its fields are what the characters so far spell (Reads), *)
(* a statement about the reference RefParam that one more character        *)
(* extends.  The rest is that each state's function keeps it.              *)
(*                                                                         *)
(* The mouse reports (TermMouse), for any bounds on the listeners and the  *)
(* focus reports.  Every handler is written as a few assignments           *)
(* (With...), and what each of them keeps is a lemma.  The invariant       *)
(* MouseInv relates the modes the host has set to the listeners on the     *)
(* document and to the press that is still to be released.  That two       *)
(* places are told apart is arithmetic.                                    *)
(*                                                                         *)
(* The keyboard modes (TermKeys), for any screen, buffer, search and user. *)
(* The invariant KeysInv says what each mode has put aside for its end and *)
(* where the ends of the selection may be.  A handler is Lawful when it    *)
(* keeps it, undoes what it must and finds what is there; each handler has *)
(* a lemma that says so.  Every motion, whatever it looks for, only moves  *)
(* the cursor within the screen (Moves), and the selection follows any     *)
(* such move (FollowOK).  That a search passes over no match is an         *)
(* induction on the columns left (RowSearched); that y copies what it      *)
(* should is one on the cells of a row (GrabLoop).                         *)
(***************************************************************************)
EXTENDS TermParser, TermMouse, TermKeys,
        SequenceTheorems, FiniteSetTheorems, WellFoundedInduction, TLAPS

\* the characters that hosts send, and the one that recovers
Chars == (UNION Hosts) \cup {"BEL"}
States == {"normal", "escaped", "charset", "osc", "csi", "dcs", "ignore"}

(***************************************************************************)
(* The parser's record, written out by its fields: what an EXCEPT on it is. *)
(***************************************************************************)
Rec(st, pa, cu, te, pr, po, gc, sk, ca, cs) ==
    [state |-> st, params |-> pa, cur |-> cu, text |-> te, prefix |-> pr, postfix |-> po,
     gcharset |-> gc, skip |-> sk, call |-> ca, csi |-> cs]

IsParser(s) ==
    /\ s = Rec(s.state, s.params, s.cur, s.text, s.prefix, s.postfix, s.gcharset, s.skip,
               s.call, s.csi)
    /\ s.state \in States /\ s.params \in Seq(Nat) /\ s.cur \in Nat /\ s.text \in Seq(Chars)
    /\ s.prefix \in Seq(Chars) /\ s.postfix \in Seq(Chars) /\ s.gcharset \in -1..3
    /\ s.skip \in BOOLEAN /\ s.csi \in Seq(Chars)

LEMMA RecFields ==
  ASSUME NEW st, NEW pa, NEW cu, NEW te, NEW pr, NEW po, NEW gc, NEW sk, NEW ca, NEW cs
  PROVE  LET r == Rec(st, pa, cu, te, pr, po, gc, sk, ca, cs)
         IN /\ r.state = st /\ r.params = pa /\ r.cur = cu /\ r.text = te /\ r.prefix = pr
            /\ r.postfix = po /\ r.gcharset = gc /\ r.skip = sk /\ r.call = ca /\ r.csi = cs
  BY SMT DEF Rec

LEMMA RecType ==
  ASSUME NEW st \in States, NEW pa \in Seq(Nat), NEW cu \in Nat, NEW te \in Seq(Chars),
         NEW pr \in Seq(Chars), NEW po \in Seq(Chars), NEW gc \in -1..3, NEW sk \in BOOLEAN,
         NEW ca, NEW cs \in Seq(Chars)
  PROVE  IsParser(Rec(st, pa, cu, te, pr, po, gc, sk, ca, cs))
<1> DEFINE r == Rec(st, pa, cu, te, pr, po, gc, sk, ca, cs)
<1>1. /\ r.state = st /\ r.params = pa /\ r.cur = cu /\ r.text = te /\ r.prefix = pr
      /\ r.postfix = po /\ r.gcharset = gc /\ r.skip = sk /\ r.call = ca /\ r.csi = cs
  BY RecFields
<1>2. r = Rec(st, pa, cu, te, pr, po, gc, sk, ca, cs)
  OBVIOUS
<1> HIDE DEF r
<1> QED BY <1>1, <1>2, Zenon DEF IsParser, r

LEMMA IsRec ==
  ASSUME NEW s, IsParser(s)
  PROVE  s = Rec(s.state, s.params, s.cur, s.text, s.prefix, s.postfix, s.gcharset, s.skip,
                 s.call, s.csi)
  BY Zenon DEF IsParser

LEMMA FieldTypes ==
  ASSUME NEW s, IsParser(s)
  PROVE  /\ s.state \in States /\ s.params \in Seq(Nat) /\ s.cur \in Nat /\ s.text \in Seq(Chars)
         /\ s.prefix \in Seq(Chars) /\ s.postfix \in Seq(Chars) /\ s.gcharset \in -1..3
         /\ s.skip \in BOOLEAN /\ s.csi \in Seq(Chars)
  BY Zenon DEF IsParser

\* one field at a time
LEMMA Setstate ==
  ASSUME NEW st, NEW pa, NEW cu, NEW te, NEW pr, NEW po, NEW gc, NEW sk, NEW ca, NEW cs, NEW v
  PROVE  [Rec(st, pa, cu, te, pr, po, gc, sk, ca, cs) EXCEPT !.state = v]
           = Rec(v, pa, cu, te, pr, po, gc, sk, ca, cs)
  BY SMT DEF Rec

LEMMA Setparams ==
  ASSUME NEW st, NEW pa, NEW cu, NEW te, NEW pr, NEW po, NEW gc, NEW sk, NEW ca, NEW cs, NEW v
  PROVE  [Rec(st, pa, cu, te, pr, po, gc, sk, ca, cs) EXCEPT !.params = v]
           = Rec(st, v, cu, te, pr, po, gc, sk, ca, cs)
  BY SMT DEF Rec

LEMMA Setcur ==
  ASSUME NEW st, NEW pa, NEW cu, NEW te, NEW pr, NEW po, NEW gc, NEW sk, NEW ca, NEW cs, NEW v
  PROVE  [Rec(st, pa, cu, te, pr, po, gc, sk, ca, cs) EXCEPT !.cur = v]
           = Rec(st, pa, v, te, pr, po, gc, sk, ca, cs)
  BY SMT DEF Rec

LEMMA Settext ==
  ASSUME NEW st, NEW pa, NEW cu, NEW te, NEW pr, NEW po, NEW gc, NEW sk, NEW ca, NEW cs, NEW v
  PROVE  [Rec(st, pa, cu, te, pr, po, gc, sk, ca, cs) EXCEPT !.text = v]
           = Rec(st, pa, cu, v, pr, po, gc, sk, ca, cs)
  BY SMT DEF Rec

LEMMA Setprefix ==
  ASSUME NEW st, NEW pa, NEW cu, NEW te, NEW pr, NEW po, NEW gc, NEW sk, NEW ca, NEW cs, NEW v
  PROVE  [Rec(st, pa, cu, te, pr, po, gc, sk, ca, cs) EXCEPT !.prefix = v]
           = Rec(st, pa, cu, te, v, po, gc, sk, ca, cs)
  BY SMT DEF Rec

LEMMA Setpostfix ==
  ASSUME NEW st, NEW pa, NEW cu, NEW te, NEW pr, NEW po, NEW gc, NEW sk, NEW ca, NEW cs, NEW v
  PROVE  [Rec(st, pa, cu, te, pr, po, gc, sk, ca, cs) EXCEPT !.postfix = v]
           = Rec(st, pa, cu, te, pr, v, gc, sk, ca, cs)
  BY SMT DEF Rec

LEMMA Setgcharset ==
  ASSUME NEW st, NEW pa, NEW cu, NEW te, NEW pr, NEW po, NEW gc, NEW sk, NEW ca, NEW cs, NEW v
  PROVE  [Rec(st, pa, cu, te, pr, po, gc, sk, ca, cs) EXCEPT !.gcharset = v]
           = Rec(st, pa, cu, te, pr, po, v, sk, ca, cs)
  BY SMT DEF Rec

LEMMA Setskip ==
  ASSUME NEW st, NEW pa, NEW cu, NEW te, NEW pr, NEW po, NEW gc, NEW sk, NEW ca, NEW cs, NEW v
  PROVE  [Rec(st, pa, cu, te, pr, po, gc, sk, ca, cs) EXCEPT !.skip = v]
           = Rec(st, pa, cu, te, pr, po, gc, v, ca, cs)
  BY SMT DEF Rec

LEMMA Setcall ==
  ASSUME NEW st, NEW pa, NEW cu, NEW te, NEW pr, NEW po, NEW gc, NEW sk, NEW ca, NEW cs, NEW v
  PROVE  [Rec(st, pa, cu, te, pr, po, gc, sk, ca, cs) EXCEPT !.call = v]
           = Rec(st, pa, cu, te, pr, po, gc, sk, v, cs)
  BY SMT DEF Rec

LEMMA Setcsi ==
  ASSUME NEW st, NEW pa, NEW cu, NEW te, NEW pr, NEW po, NEW gc, NEW sk, NEW ca, NEW cs, NEW v
  PROVE  [Rec(st, pa, cu, te, pr, po, gc, sk, ca, cs) EXCEPT !.csi = v]
           = Rec(st, pa, cu, te, pr, po, gc, sk, ca, v)
  BY SMT DEF Rec

\* the updates that the automaton makes
LEMMA ToIs ==
  ASSUME NEW s, IsParser(s), NEW st
  PROVE  To(s, st) = Rec(st, s.params, s.cur, s.text, s.prefix, s.postfix, s.gcharset, s.skip,
    s.call, s.csi)
<1>0. s = Rec(s.state, s.params, s.cur, s.text, s.prefix, s.postfix, s.gcharset, s.skip, s.call,
          s.csi)
  BY IsRec
<1> DEFINE q1 == Rec(st, s.params, s.cur, s.text, s.prefix, s.postfix, s.gcharset, s.skip,
             s.call, s.csi)
<1>1. [s EXCEPT !.state = st] = q1
  BY <1>0, Setstate
<1> QED BY <1>1, Zenon DEF To

LEMMA CallsIs ==
  ASSUME NEW s, IsParser(s), NEW n
  PROVE  Calls(s, n) = Rec("normal", s.params, s.cur, s.text, s.prefix, s.postfix, s.gcharset,
    s.skip, Call(n, s), s.csi)
<1>0. s = Rec(s.state, s.params, s.cur, s.text, s.prefix, s.postfix, s.gcharset, s.skip, s.call,
          s.csi)
  BY IsRec
<1> DEFINE q1 == Rec("normal", s.params, s.cur, s.text, s.prefix, s.postfix, s.gcharset,
             s.skip, s.call, s.csi)
           q2 == Rec("normal", s.params, s.cur, s.text, s.prefix, s.postfix,
             s.gcharset, s.skip, Call(n, s), s.csi)
<1>1. [s EXCEPT !.state = "normal"] = q1
  BY <1>0, Setstate
<1>2. [q1 EXCEPT !.call = Call(n, s)] = q2
  BY Setcall
<1> HIDE DEF q1
<1> QED BY <1>1, <1>2, Zenon DEF Calls, To

LEMMA StartsIs ==
  ASSUME NEW s, IsParser(s), NEW st
  PROVE  [To(s, st) EXCEPT !.params = <<>>, !.cur = 0, !.text = <<>>, !.csi = <<>>] = Rec(st,
    <<>>, 0, <<>>, s.prefix, s.postfix, s.gcharset, s.skip, s.call, <<>>)
<1>0. s = Rec(s.state, s.params, s.cur, s.text, s.prefix, s.postfix, s.gcharset, s.skip, s.call,
          s.csi)
  BY IsRec
<1> DEFINE q1 == Rec(st, s.params, s.cur, s.text, s.prefix, s.postfix, s.gcharset, s.skip,
             s.call, s.csi)
           q2 == Rec(st, <<>>, s.cur, s.text, s.prefix, s.postfix, s.gcharset,
             s.skip, s.call, s.csi)
           q3 == Rec(st, <<>>, 0, s.text, s.prefix, s.postfix, s.gcharset, s.skip,
             s.call, s.csi)
           q4 == Rec(st, <<>>, 0, <<>>, s.prefix, s.postfix, s.gcharset, s.skip,
             s.call, s.csi)
           q5 == Rec(st, <<>>, 0, <<>>, s.prefix, s.postfix, s.gcharset, s.skip,
             s.call, <<>>)
<1>1. [s EXCEPT !.state = st] = q1
  BY <1>0, Setstate
<1>2. [q1 EXCEPT !.params = <<>>] = q2
  BY Setparams
<1>3. [q2 EXCEPT !.cur = 0] = q3
  BY Setcur
<1>4. [q3 EXCEPT !.text = <<>>] = q4
  BY Settext
<1>5. [q4 EXCEPT !.csi = <<>>] = q5
  BY Setcsi
<1> HIDE DEF q1, q2, q3, q4
<1> QED BY <1>1, <1>2, <1>3, <1>4, <1>5, Zenon DEF To

LEMMA PassesIs ==
  ASSUME NEW s, IsParser(s), NEW n, NEW b
  PROVE  [Calls(s, n) EXCEPT !.skip = b] = Rec("normal", s.params, s.cur, s.text, s.prefix,
    s.postfix, s.gcharset, b, Call(n, s), s.csi)
<1>0. s = Rec(s.state, s.params, s.cur, s.text, s.prefix, s.postfix, s.gcharset, s.skip, s.call,
          s.csi)
  BY IsRec
<1> DEFINE q1 == Rec("normal", s.params, s.cur, s.text, s.prefix, s.postfix, s.gcharset,
             s.skip, s.call, s.csi)
           q2 == Rec("normal", s.params, s.cur, s.text, s.prefix, s.postfix,
             s.gcharset, s.skip, Call(n, s), s.csi)
           q3 == Rec("normal", s.params, s.cur, s.text, s.prefix, s.postfix,
             s.gcharset, b, Call(n, s), s.csi)
<1>1. [s EXCEPT !.state = "normal"] = q1
  BY <1>0, Setstate
<1>2. [q1 EXCEPT !.call = Call(n, s)] = q2
  BY Setcall
<1>3. [q2 EXCEPT !.skip = b] = q3
  BY Setskip
<1> HIDE DEF q1, q2
<1> QED BY <1>1, <1>2, <1>3, Zenon DEF Calls, To

LEMMA DesignatesIs ==
  ASSUME NEW s, IsParser(s), NEW d
  PROVE  [To(s, "charset") EXCEPT !.gcharset = d] = Rec("charset", s.params, s.cur, s.text,
    s.prefix, s.postfix, d, s.skip, s.call, s.csi)
<1>0. s = Rec(s.state, s.params, s.cur, s.text, s.prefix, s.postfix, s.gcharset, s.skip, s.call,
          s.csi)
  BY IsRec
<1> DEFINE q1 == Rec("charset", s.params, s.cur, s.text, s.prefix, s.postfix, s.gcharset,
             s.skip, s.call, s.csi)
           q2 == Rec("charset", s.params, s.cur, s.text, s.prefix, s.postfix, d,
             s.skip, s.call, s.csi)
<1>1. [s EXCEPT !.state = "charset"] = q1
  BY <1>0, Setstate
<1>2. [q1 EXCEPT !.gcharset = d] = q2
  BY Setgcharset
<1> HIDE DEF q1
<1> QED BY <1>1, <1>2, Zenon DEF To

LEMMA CharsetIs ==
  ASSUME NEW s, IsParser(s), NEW c
  PROVE  charset(s, c) = Rec("normal", s.params, s.cur, s.text, s.prefix, s.postfix, -1, c =
    "/", [None EXCEPT !.name = "setgCharset", !.params = <<s.gcharset>>, !.prefix = <<c>>],
    s.csi)
<1>0. s = Rec(s.state, s.params, s.cur, s.text, s.prefix, s.postfix, s.gcharset, s.skip, s.call,
          s.csi)
  BY IsRec
<1> DEFINE q1 == Rec("normal", s.params, s.cur, s.text, s.prefix, s.postfix, s.gcharset,
             s.skip, s.call, s.csi)
           q2 == Rec("normal", s.params, s.cur, s.text, s.prefix, s.postfix,
             s.gcharset, s.skip, Call("setgCharset", s), s.csi)
           q3 == Rec("normal", s.params, s.cur, s.text, s.prefix, s.postfix, -1,
             s.skip, Call("setgCharset", s), s.csi)
           q4 == Rec("normal", s.params, s.cur, s.text, s.prefix, s.postfix, -1, c =
             "/", Call("setgCharset", s), s.csi)
           q5 == Rec("normal", s.params, s.cur, s.text, s.prefix, s.postfix, -1, c =
             "/", [None EXCEPT !.name = "setgCharset", !.params = <<s.gcharset>>, !.prefix =
             <<c>>], s.csi)
<1>1. [s EXCEPT !.state = "normal"] = q1
  BY <1>0, Setstate
<1>2. [q1 EXCEPT !.call = Call("setgCharset", s)] = q2
  BY Setcall
<1>3. [q2 EXCEPT !.gcharset = -1] = q3
  BY Setgcharset
<1>4. [q3 EXCEPT !.skip = c = "/"] = q4
  BY Setskip
<1>5. [q4 EXCEPT !.call = [None EXCEPT !.name = "setgCharset", !.params = <<s.gcharset>>, !.prefix = <<c>>]] = q5
  BY Setcall
<1> HIDE DEF q1, q2, q3, q4
<1> QED BY <1>1, <1>2, <1>3, <1>4, <1>5, Zenon DEF charset, Calls, To

LEMMA OscEndsIs ==
  ASSUME NEW s, IsParser(s), NEW n, NEW b
  PROVE  [Calls(s, n) EXCEPT !.params = <<>>, !.cur = 0, !.skip = b] = Rec("normal", <<>>, 0,
    s.text, s.prefix, s.postfix, s.gcharset, b, Call(n, s), s.csi)
<1>0. s = Rec(s.state, s.params, s.cur, s.text, s.prefix, s.postfix, s.gcharset, s.skip, s.call,
          s.csi)
  BY IsRec
<1> DEFINE q1 == Rec("normal", s.params, s.cur, s.text, s.prefix, s.postfix, s.gcharset,
             s.skip, s.call, s.csi)
           q2 == Rec("normal", s.params, s.cur, s.text, s.prefix, s.postfix,
             s.gcharset, s.skip, Call(n, s), s.csi)
           q3 == Rec("normal", <<>>, s.cur, s.text, s.prefix, s.postfix, s.gcharset,
             s.skip, Call(n, s), s.csi)
           q4 == Rec("normal", <<>>, 0, s.text, s.prefix, s.postfix, s.gcharset,
             s.skip, Call(n, s), s.csi)
           q5 == Rec("normal", <<>>, 0, s.text, s.prefix, s.postfix, s.gcharset, b,
             Call(n, s), s.csi)
<1>1. [s EXCEPT !.state = "normal"] = q1
  BY <1>0, Setstate
<1>2. [q1 EXCEPT !.call = Call(n, s)] = q2
  BY Setcall
<1>3. [q2 EXCEPT !.params = <<>>] = q3
  BY Setparams
<1>4. [q3 EXCEPT !.cur = 0] = q4
  BY Setcur
<1>5. [q4 EXCEPT !.skip = b] = q5
  BY Setskip
<1> HIDE DEF q1, q2, q3, q4
<1> QED BY <1>1, <1>2, <1>3, <1>4, <1>5, Zenon DEF Calls, To

LEMMA PushedIs ==
  ASSUME NEW s, IsParser(s), NEW v
  PROVE  [s EXCEPT !.params = v, !.cur = 0] = Rec(s.state, v, 0, s.text, s.prefix, s.postfix,
    s.gcharset, s.skip, s.call, s.csi)
<1>0. s = Rec(s.state, s.params, s.cur, s.text, s.prefix, s.postfix, s.gcharset, s.skip, s.call,
          s.csi)
  BY IsRec
<1> DEFINE q1 == Rec(s.state, v, s.cur, s.text, s.prefix, s.postfix, s.gcharset, s.skip,
             s.call, s.csi)
           q2 == Rec(s.state, v, 0, s.text, s.prefix, s.postfix, s.gcharset, s.skip,
             s.call, s.csi)
<1>1. [s EXCEPT !.params = v] = q1
  BY <1>0, Setparams
<1>2. [q1 EXCEPT !.cur = 0] = q2
  BY Setcur
<1> HIDE DEF q1
<1> QED BY <1>1, <1>2, Zenon

LEMMA DispatchedIs ==
  ASSUME NEW s, IsParser(s)
  PROVE  Dispatched(s) = Rec(s.state, s.params, s.cur, s.text, <<>>, <<>>, s.gcharset, s.skip,
    s.call, s.csi)
<1>0. s = Rec(s.state, s.params, s.cur, s.text, s.prefix, s.postfix, s.gcharset, s.skip, s.call,
          s.csi)
  BY IsRec
<1> DEFINE q1 == Rec(s.state, s.params, s.cur, s.text, <<>>, s.postfix, s.gcharset, s.skip,
             s.call, s.csi)
           q2 == Rec(s.state, s.params, s.cur, s.text, <<>>, <<>>, s.gcharset,
             s.skip, s.call, s.csi)
<1>1. [s EXCEPT !.prefix = <<>>] = q1
  BY <1>0, Setprefix
<1>2. [q1 EXCEPT !.postfix = <<>>] = q2
  BY Setpostfix
<1> HIDE DEF q1
<1> QED BY <1>1, <1>2, Zenon DEF Dispatched

LEMMA DcsEndsIs ==
  ASSUME NEW s, IsParser(s), NEW n, NEW b
  PROVE  [Calls(s, n) EXCEPT !.cur = 0, !.text = <<>>, !.prefix = <<>>, !.skip = b] =
    Rec("normal", s.params, 0, <<>>, <<>>, s.postfix, s.gcharset, b, Call(n, s), s.csi)
<1>0. s = Rec(s.state, s.params, s.cur, s.text, s.prefix, s.postfix, s.gcharset, s.skip, s.call,
          s.csi)
  BY IsRec
<1> DEFINE q1 == Rec("normal", s.params, s.cur, s.text, s.prefix, s.postfix, s.gcharset,
             s.skip, s.call, s.csi)
           q2 == Rec("normal", s.params, s.cur, s.text, s.prefix, s.postfix,
             s.gcharset, s.skip, Call(n, s), s.csi)
           q3 == Rec("normal", s.params, 0, s.text, s.prefix, s.postfix, s.gcharset,
             s.skip, Call(n, s), s.csi)
           q4 == Rec("normal", s.params, 0, <<>>, s.prefix, s.postfix, s.gcharset,
             s.skip, Call(n, s), s.csi)
           q5 == Rec("normal", s.params, 0, <<>>, <<>>, s.postfix, s.gcharset,
             s.skip, Call(n, s), s.csi)
           q6 == Rec("normal", s.params, 0, <<>>, <<>>, s.postfix, s.gcharset, b,
             Call(n, s), s.csi)
<1>1. [s EXCEPT !.state = "normal"] = q1
  BY <1>0, Setstate
<1>2. [q1 EXCEPT !.call = Call(n, s)] = q2
  BY Setcall
<1>3. [q2 EXCEPT !.cur = 0] = q3
  BY Setcur
<1>4. [q3 EXCEPT !.text = <<>>] = q4
  BY Settext
<1>5. [q4 EXCEPT !.prefix = <<>>] = q5
  BY Setprefix
<1>6. [q5 EXCEPT !.skip = b] = q6
  BY Setskip
<1> HIDE DEF q1, q2, q3, q4, q5
<1> QED BY <1>1, <1>2, <1>3, <1>4, <1>5, <1>6, Zenon DEF Calls, To

LEMMA IgnoreEndsIs ==
  ASSUME NEW s, IsParser(s), NEW b
  PROVE  [To(s, "normal") EXCEPT !.skip = b] = Rec("normal", s.params, s.cur, s.text, s.prefix,
    s.postfix, s.gcharset, b, s.call, s.csi)
<1>0. s = Rec(s.state, s.params, s.cur, s.text, s.prefix, s.postfix, s.gcharset, s.skip, s.call,
          s.csi)
  BY IsRec
<1> DEFINE q1 == Rec("normal", s.params, s.cur, s.text, s.prefix, s.postfix, s.gcharset,
             s.skip, s.call, s.csi)
           q2 == Rec("normal", s.params, s.cur, s.text, s.prefix, s.postfix,
             s.gcharset, b, s.call, s.csi)
<1>1. [s EXCEPT !.state = "normal"] = q1
  BY <1>0, Setstate
<1>2. [q1 EXCEPT !.skip = b] = q2
  BY Setskip
<1> HIDE DEF q1
<1> QED BY <1>1, <1>2, Zenon DEF To

LEMMA TurnIs ==
  ASSUME NEW s, IsParser(s), NEW b, NEW v
  PROVE  [s EXCEPT !.call = None, !.skip = b, !.csi = v] = Rec(s.state, s.params, s.cur,
    s.text, s.prefix, s.postfix, s.gcharset, b, None, v)
<1>0. s = Rec(s.state, s.params, s.cur, s.text, s.prefix, s.postfix, s.gcharset, s.skip, s.call,
          s.csi)
  BY IsRec
<1> DEFINE q1 == Rec(s.state, s.params, s.cur, s.text, s.prefix, s.postfix, s.gcharset, s.skip,
             None, s.csi)
           q2 == Rec(s.state, s.params, s.cur, s.text, s.prefix, s.postfix,
             s.gcharset, b, None, s.csi)
           q3 == Rec(s.state, s.params, s.cur, s.text, s.prefix, s.postfix,
             s.gcharset, b, None, v)
<1>1. [s EXCEPT !.call = None] = q1
  BY <1>0, Setcall
<1>2. [q1 EXCEPT !.skip = b] = q2
  BY Setskip
<1>3. [q2 EXCEPT !.csi = v] = q3
  BY Setcsi
<1> HIDE DEF q1, q2
<1> QED BY <1>1, <1>2, <1>3, Zenon

LEMMA CallOnlyIs ==
  ASSUME NEW s, IsParser(s), NEW v
  PROVE  [s EXCEPT !.call = v] = Rec(s.state, s.params, s.cur, s.text, s.prefix, s.postfix,
    s.gcharset, s.skip, v, s.csi)
<1>0. s = Rec(s.state, s.params, s.cur, s.text, s.prefix, s.postfix, s.gcharset, s.skip, s.call,
          s.csi)
  BY IsRec
<1> DEFINE q1 == Rec(s.state, s.params, s.cur, s.text, s.prefix, s.postfix, s.gcharset, s.skip,
             v, s.csi)
<1>1. [s EXCEPT !.call = v] = q1
  BY <1>0, Setcall
<1> QED BY <1>1, Zenon

LEMMA CurIs ==
  ASSUME NEW s, IsParser(s), NEW v
  PROVE  [s EXCEPT !.cur = v] = Rec(s.state, s.params, v, s.text, s.prefix, s.postfix,
    s.gcharset, s.skip, s.call, s.csi)
<1>0. s = Rec(s.state, s.params, s.cur, s.text, s.prefix, s.postfix, s.gcharset, s.skip, s.call,
          s.csi)
  BY IsRec
<1> DEFINE q1 == Rec(s.state, s.params, v, s.text, s.prefix, s.postfix, s.gcharset, s.skip,
             s.call, s.csi)
<1>1. [s EXCEPT !.cur = v] = q1
  BY <1>0, Setcur
<1> QED BY <1>1, Zenon

LEMMA TextIs ==
  ASSUME NEW s, IsParser(s), NEW v
  PROVE  [s EXCEPT !.text = v] = Rec(s.state, s.params, s.cur, v, s.prefix, s.postfix,
    s.gcharset, s.skip, s.call, s.csi)
<1>0. s = Rec(s.state, s.params, s.cur, s.text, s.prefix, s.postfix, s.gcharset, s.skip, s.call,
          s.csi)
  BY IsRec
<1> DEFINE q1 == Rec(s.state, s.params, s.cur, v, s.prefix, s.postfix, s.gcharset, s.skip,
             s.call, s.csi)
<1>1. [s EXCEPT !.text = v] = q1
  BY <1>0, Settext
<1> QED BY <1>1, Zenon

LEMMA PrefixIs ==
  ASSUME NEW s, IsParser(s), NEW v
  PROVE  [s EXCEPT !.prefix = v] = Rec(s.state, s.params, s.cur, s.text, v, s.postfix,
    s.gcharset, s.skip, s.call, s.csi)
<1>0. s = Rec(s.state, s.params, s.cur, s.text, s.prefix, s.postfix, s.gcharset, s.skip, s.call,
          s.csi)
  BY IsRec
<1> DEFINE q1 == Rec(s.state, s.params, s.cur, s.text, v, s.postfix, s.gcharset, s.skip,
             s.call, s.csi)
<1>1. [s EXCEPT !.prefix = v] = q1
  BY <1>0, Setprefix
<1> QED BY <1>1, Zenon

LEMMA CsiIs ==
  ASSUME NEW s, IsParser(s), NEW v
  PROVE  [s EXCEPT !.csi = v] = Rec(s.state, s.params, s.cur, s.text, s.prefix, s.postfix,
    s.gcharset, s.skip, s.call, v)
<1>0. s = Rec(s.state, s.params, s.cur, s.text, s.prefix, s.postfix, s.gcharset, s.skip, s.call,
          s.csi)
  BY IsRec
<1> DEFINE q1 == Rec(s.state, s.params, s.cur, s.text, s.prefix, s.postfix, s.gcharset, s.skip,
             s.call, v)
<1>1. [s EXCEPT !.csi = v] = q1
  BY <1>0, Setcsi
<1> QED BY <1>1, Zenon

LEMMA SkipIs ==
  ASSUME NEW s, IsParser(s), NEW v
  PROVE  [s EXCEPT !.skip = v] = Rec(s.state, s.params, s.cur, s.text, s.prefix, s.postfix,
    s.gcharset, v, s.call, s.csi)
<1>0. s = Rec(s.state, s.params, s.cur, s.text, s.prefix, s.postfix, s.gcharset, s.skip, s.call,
          s.csi)
  BY IsRec
<1> DEFINE q1 == Rec(s.state, s.params, s.cur, s.text, s.prefix, s.postfix, s.gcharset, v,
             s.call, s.csi)
<1>1. [s EXCEPT !.skip = v] = q1
  BY <1>0, Setskip
<1> QED BY <1>1, Zenon

LEMMA GcharsetIs ==
  ASSUME NEW s, IsParser(s), NEW v
  PROVE  [s EXCEPT !.gcharset = v] = Rec(s.state, s.params, s.cur, s.text, s.prefix, s.postfix,
    v, s.skip, s.call, s.csi)
<1>0. s = Rec(s.state, s.params, s.cur, s.text, s.prefix, s.postfix, s.gcharset, s.skip, s.call,
          s.csi)
  BY IsRec
<1> DEFINE q1 == Rec(s.state, s.params, s.cur, s.text, s.prefix, s.postfix, v, s.skip, s.call,
             s.csi)
<1>1. [s EXCEPT !.gcharset = v] = q1
  BY <1>0, Setgcharset
<1> QED BY <1>1, Zenon

(***************************************************************************)
(* The reference: what one more character makes of it.                     *)
(***************************************************************************)
LEMMA SetInduction ==
  ASSUME NEW S, 0 \in S, \A n \in Nat : n \in S => n + 1 \in S
  PROVE  Nat \subseteq S
<1> SUFFICES ASSUME Nat \ S # {} PROVE FALSE
  OBVIOUS
<1>1. IsWellFoundedOn(OpToRel(<, Nat), Nat)
  BY NatLessThanWellFounded
<1>2. \E x \in Nat \ S : \A y \in Nat \ S : <<y, x>> \notin OpToRel(<, Nat)
  BY <1>1, WFMin
<1>3. PICK x \in Nat \ S : \A y \in Nat \ S : ~(y < x)
  BY <1>2 DEF OpToRel
<1>4. x # 0 /\ x - 1 \in Nat
  BY <1>3
<1> QED BY <1>3, <1>4

\* The values of one parameter after each character, as a relation.
Spelled(f, cs, n) ==
    f = [i \in 0..Len(cs) |->
            IF i = 0 THEN 0
            ELSE IF cs[i] \in Digits /\ FieldOf(cs, i) = n THEN f[i - 1] * 10 + Value(cs[i])
            ELSE f[i - 1]]

LEMMA SpelledExists ==
  ASSUME NEW cs, Len(cs) \in Nat, NEW n
  PROVE  \E f : Spelled(f, cs, n)
<1> DEFINE F(f, z) ==
              f = [i \in 0..z |->
                    IF i = 0 THEN 0
                    ELSE IF cs[i] \in Digits /\ FieldOf(cs, i) = n THEN f[i - 1] * 10 + Value(cs[i])
                    ELSE f[i - 1]]
           S == {z \in Nat : \E f : F(f, z)}
<1>1. 0 \in S
  <2> DEFINE f == [i \in 0..0 |-> 0]
  <2>1. F(f, 0)
    OBVIOUS
  <2> HIDE DEF f
  <2>2. \E x : F(x, 0)
    BY <2>1, Zenon
  <2> HIDE DEF F
  <2> QED BY <2>2
<1>2. ASSUME NEW z \in Nat, z \in S PROVE z + 1 \in S
  <2>1. PICK f : F(f, z)
    BY <1>2
  <2> DEFINE v == IF cs[z + 1] \in Digits /\ FieldOf(cs, z + 1) = n
                  THEN f[z] * 10 + Value(cs[z + 1]) ELSE f[z]
             g == [i \in 0..z + 1 |-> IF i = z + 1 THEN v ELSE f[i]]
  <2>2. F(g, z + 1)
    BY <2>1
  <2> HIDE DEF g
  <2>3. \E x : F(x, z + 1)
    BY <2>2, Zenon
  <2> HIDE DEF F
  <2> QED BY <2>3
<1> HIDE DEF S
<1>3. Nat \subseteq S
  BY <1>1, <1>2, SetInduction, Zenon
<1>4. Len(cs) \in S
  BY <1>3
<1> QED BY <1>4 DEF S, Spelled

LEMMA RefParamSpelled ==
  ASSUME NEW cs, Len(cs) \in Nat, NEW n
  PROVE  \E f : Spelled(f, cs, n) /\ RefParam(cs, n) = f[Len(cs)]
<1> DEFINE f == CHOOSE f : Spelled(f, cs, n)
<1>1. Spelled(f, cs, n)
  BY SpelledExists, Zenon
<1>2. RefParam(cs, n) = f[Len(cs)]
  BY Zenon DEF RefParam, Spelled
<1> HIDE DEF f
<1> QED BY <1>1, <1>2, Zenon

LEMMA FieldAppend ==
  ASSUME NEW C, NEW cs \in Seq(C), NEW c \in C, NEW i \in 1..Len(cs) + 1
  PROVE  FieldOf(Append(cs, c), i) = FieldOf(cs, i)
<1>1. \A j \in 1..i - 1 : Append(cs, c)[j] = cs[j]
  <2>1. \A j \in 1..i - 1 : j \in 1..Len(cs)
    BY LenProperties
  <2> QED BY <2>1, AppendProperties
<1>2. {j \in 1..i - 1 : Append(cs, c)[j] = ";"} = {j \in 1..i - 1 : cs[j] = ";"}
  BY <1>1, Zenon
<1> QED BY <1>2, Zenon DEF FieldOf

LEMMA FieldNat ==
  ASSUME NEW cs, NEW i \in Nat
  PROVE  FieldOf(cs, i) \in Nat \ {0}
<1> DEFINE S == {j \in 1..i - 1 : cs[j] = ";"}
<1>0. i - 1 \in Int /\ 1 \in Int
  OBVIOUS
<1>1. S \subseteq 1..i - 1 /\ IsFiniteSet(1..i - 1)
  BY <1>0, FS_Interval, Zenon
<1>2. Cardinality(S) \in Nat
  BY <1>1, FS_Subset, FS_CardinalityType, Zenon
<1>3. FieldOf(cs, i) = Cardinality(S) + 1
  BY Zenon DEF FieldOf
<1> HIDE DEF S
<1> QED BY <1>2, <1>3

LEMMA FieldNext ==
  ASSUME NEW cs, NEW i \in Nat \ {0}
  PROVE  FieldOf(cs, i + 1) = FieldOf(cs, i) + (IF cs[i] = ";" THEN 1 ELSE 0)
<1> DEFINE S == {j \in 1..i - 1 : cs[j] = ";"}
           T == {j \in 1..(i + 1) - 1 : cs[j] = ";"}
<1>1. IsFiniteSet(S)
  <2>0. i - 1 \in Int /\ 1 \in Int
    OBVIOUS
  <2>1. S \subseteq 1..i - 1 /\ IsFiniteSet(1..i - 1)
    BY <2>0, FS_Interval, Zenon
  <2> QED BY <2>1, FS_Subset, Zenon
<1>2. T = IF cs[i] = ";" THEN S \cup {i} ELSE S
  <2>1. \A j : j \in 1..(i + 1) - 1 <=> j \in 1..i - 1 \/ j = i
    OBVIOUS
  <2> QED BY <2>1, Zenon
<1>f. FieldOf(cs, i) = Cardinality(S) + 1 /\ FieldOf(cs, i + 1) = Cardinality(T) + 1
  BY Zenon DEF FieldOf
<1>3. i \notin S
  <2>1. i \notin 1..i - 1
    OBVIOUS
  <2> QED BY <2>1, Zenon
<1> HIDE DEF S, T
<1>4. Cardinality(S) \in Nat
  BY <1>1, FS_CardinalityType
<1>5. Cardinality(S \cup {i}) = Cardinality(S) + 1
  BY <1>1, <1>3, FS_AddElement
<1> HIDE DEF S, T
<1>6. CASE cs[i] = ";"
  <2>1. T = S \cup {i}
    BY <1>2, <1>6, Zenon
  <2> QED BY <1>4, <1>5, <1>6, <1>f, <2>1
<1>7. CASE cs[i] # ";"
  <2>1. T = S
    BY <1>2, <1>7, Zenon
  <2>2. FieldOf(cs, i + 1) = FieldOf(cs, i)
    BY <1>f, <2>1, Zenon
  <2>3. FieldOf(cs, i) + 0 = FieldOf(cs, i)
    BY <1>4, <1>f
  <2> QED BY <1>7, <2>2, <2>3, Zenon
<1> QED BY <1>6, <1>7

\* The digits of a sequence go on, one character more or not.
LEMMA SpelledAppend ==
  ASSUME NEW C, NEW cs \in Seq(C), NEW c \in C, NEW n, NEW f, NEW g,
         Spelled(f, cs, n), Spelled(g, Append(cs, c), n)
  PROVE  /\ g[Len(cs)] = f[Len(cs)]
         /\ g[Len(cs) + 1] =
              IF c \in Digits /\ FieldOf(cs, Len(cs) + 1) = n
              THEN g[Len(cs)] * 10 + Value(c) ELSE g[Len(cs)]
<1> DEFINE d == Append(cs, c)
           S == {z \in Nat : z <= Len(cs) => g[z] = f[z]}
<1>0. Len(cs) \in Nat /\ Len(d) = Len(cs) + 1 /\ d[Len(cs) + 1] = c
      /\ \A i \in 1..Len(cs) : d[i] = cs[i]
  BY AppendProperties, LenProperties
<1>f. \A i \in 1..Len(cs) + 1 : FieldOf(d, i) = FieldOf(cs, i)
  BY FieldAppend
<1> HIDE DEF d
<1>g. g = [i \in 0..Len(cs) + 1 |->
            IF i = 0 THEN 0
            ELSE IF d[i] \in Digits /\ FieldOf(d, i) = n THEN g[i - 1] * 10 + Value(d[i])
            ELSE g[i - 1]]
  BY <1>0, Zenon DEF Spelled, d
<1>h. f = [i \in 0..Len(cs) |->
            IF i = 0 THEN 0
            ELSE IF cs[i] \in Digits /\ FieldOf(cs, i) = n THEN f[i - 1] * 10 + Value(cs[i])
            ELSE f[i - 1]]
  BY Zenon DEF Spelled
<1>1. 0 \in S
  <2>1. g[0] = 0
    BY <1>0, <1>g
  <2>2. f[0] = 0
    BY <1>0, <1>h
  <2> QED BY <2>1, <2>2
<1>2. ASSUME NEW z \in Nat, z \in S PROVE z + 1 \in S
  <2> SUFFICES ASSUME z + 1 <= Len(cs) PROVE g[z + 1] = f[z + 1]
    OBVIOUS
  <2>1. g[z] = f[z]
    BY <1>0, <1>2
  <2>2. z + 1 \in 0..Len(cs) /\ z + 1 \in 1..Len(cs) /\ z + 1 \in 0..Len(cs) + 1 /\ z + 1 # 0 /\ (z + 1) - 1 = z
    BY <1>0
  <2>3. g[z + 1] = IF d[z + 1] \in Digits /\ FieldOf(d, z + 1) = n THEN g[z] * 10 + Value(d[z + 1])
                   ELSE g[z]
    BY <1>g, <2>2
  <2>4. f[z + 1] = IF cs[z + 1] \in Digits /\ FieldOf(cs, z + 1) = n THEN f[z] * 10 + Value(cs[z + 1])
                   ELSE f[z]
    BY <1>h, <2>2
  <2>5. d[z + 1] = cs[z + 1] /\ FieldOf(d, z + 1) = FieldOf(cs, z + 1)
    BY <1>0, <1>f, <2>2
  <2> QED BY <2>1, <2>3, <2>4, <2>5
<1> HIDE DEF S
<1>3. Nat \subseteq S
  BY <1>1, <1>2, SetInduction, Zenon
<1>4. g[Len(cs)] = f[Len(cs)]
  BY <1>0, <1>3 DEF S
<1>5. Len(cs) + 1 \in 0..Len(cs) + 1 /\ Len(cs) + 1 # 0 /\ (Len(cs) + 1) - 1 = Len(cs)
      /\ Len(cs) + 1 \in 1..Len(cs) + 1
  BY <1>0
<1>6. g[Len(cs) + 1] = IF d[Len(cs) + 1] \in Digits /\ FieldOf(d, Len(cs) + 1) = n
                       THEN g[Len(cs)] * 10 + Value(d[Len(cs) + 1]) ELSE g[Len(cs)]
  BY <1>5, <1>g
<1> QED BY <1>0, <1>4, <1>5, <1>6, <1>f

LEMMA RefParamAppend ==
  ASSUME NEW C, NEW cs \in Seq(C), NEW c \in C, NEW n
  PROVE  RefParam(Append(cs, c), n) =
            IF c \in Digits /\ FieldOf(cs, Len(cs) + 1) = n
            THEN RefParam(cs, n) * 10 + Value(c) ELSE RefParam(cs, n)
<1> DEFINE d == Append(cs, c)
<1>1. Len(cs) \in Nat /\ Len(d) = Len(cs) + 1 /\ Len(d) \in Nat
  OBVIOUS
<1>2. PICK f : Spelled(f, cs, n) /\ RefParam(cs, n) = f[Len(cs)]
  BY <1>1, RefParamSpelled
<1>3. PICK g : Spelled(g, d, n) /\ RefParam(d, n) = g[Len(d)]
  BY <1>1, RefParamSpelled
<1>4. /\ g[Len(cs)] = f[Len(cs)]
      /\ g[Len(cs) + 1] =
              IF c \in Digits /\ FieldOf(cs, Len(cs) + 1) = n
              THEN g[Len(cs)] * 10 + Value(c) ELSE g[Len(cs)]
  BY <1>2, <1>3, SpelledAppend
<1> QED BY <1>1, <1>2, <1>3, <1>4, Zenon

LEMMA RefParamEmpty ==
  ASSUME NEW n
  PROVE  RefParam(<<>>, n) = 0
<1>1. Len(<<>>) = 0
  OBVIOUS
<1>2. PICK f : Spelled(f, <<>>, n) /\ RefParam(<<>>, n) = f[0]
  BY <1>1, RefParamSpelled
<1>3. f[0] = 0
  BY <1>1, <1>2 DEF Spelled
<1> QED BY <1>2, <1>3

\* A finite set of places has a last one.
LEMMA MaxPlace ==
  ASSUME NEW n \in Nat, NEW S \in SUBSET (1..n), S # {}
  PROVE  Max(S) \in S /\ \A i \in S : Max(S) >= i
<1> DEFINE N == {z \in Nat : \A T \in SUBSET (1..z) : T # {} => \E x \in T : \A y \in T : x >= y}
<1>1. 0 \in N
  <2>1. 1..0 = {}
    OBVIOUS
  <2>2. \A T \in SUBSET (1..0) : T = {}
    BY <2>1, Zenon
  <2> QED BY <2>2
<1>2. ASSUME NEW z \in Nat, z \in N PROVE z + 1 \in N
  <2> SUFFICES ASSUME NEW T \in SUBSET (1..z + 1), T # {}
               PROVE  \E x \in T : \A y \in T : x >= y
    OBVIOUS
  <2>1. CASE z + 1 \in T
    BY <2>1
  <2>2. CASE z + 1 \notin T
    <3>1. T \in SUBSET (1..z)
      BY <2>2
    <3> QED BY <3>1, <1>2
  <2> QED BY <2>1, <2>2
<1> HIDE DEF N
<1>3. Nat \subseteq N
  BY <1>1, <1>2, SetInduction, Zenon
<1>4. \E x \in S : \A y \in S : x >= y
  BY <1>3 DEF N
<1> QED BY <1>4, Zenon DEF Max

LEMMA RefPrefixAppend ==
  ASSUME NEW C, NEW cs \in Seq(C), NEW c \in C
  PROVE  RefPrefix(Append(cs, c)) = IF c \in PrefixChars THEN <<c>> ELSE RefPrefix(cs)
<1> DEFINE d == Append(cs, c)
           A == {i \in 1..Len(cs) : cs[i] \in PrefixChars}
           B == {i \in 1..Len(d) : d[i] \in PrefixChars}
<1>0. Len(cs) \in Nat /\ Len(d) = Len(cs) + 1 /\ d[Len(cs) + 1] = c
      /\ \A i \in 1..Len(cs) : d[i] = cs[i]
  BY AppendProperties, LenProperties
<1> HIDE DEF d
<1>1. B = IF c \in PrefixChars THEN A \cup {Len(cs) + 1} ELSE A
  BY <1>0
<1>2. A \in SUBSET (1..Len(cs)) /\ B \in SUBSET (1..Len(d)) /\ Len(d) \in Nat
  BY <1>0
<1>3. RefPrefix(d) = (IF B = {} THEN <<>> ELSE <<d[Max(B)]>>)
      /\ RefPrefix(cs) = (IF A = {} THEN <<>> ELSE <<cs[Max(A)]>>)
  BY DEF RefPrefix
<1> HIDE DEF A, B
<1>4. CASE c \in PrefixChars
  <2>1. B # {} /\ Len(cs) + 1 \in B
    BY <1>1, <1>4
  <2>2. Max(B) \in B /\ \A i \in B : Max(B) >= i
    BY <1>2, <2>1, MaxPlace
  <2>3. Max(B) = Len(cs) + 1
    <3>1. Max(B) \in 1..Len(cs) + 1 /\ Max(B) >= Len(cs) + 1
      BY <1>0, <1>2, <2>1, <2>2
    <3> QED BY <1>0, <3>1
  <2> QED BY <1>0, <1>3, <1>4, <2>1, <2>3 DEF d
<1>5. CASE c \notin PrefixChars
  <2>1. B = A
    BY <1>1, <1>5
  <2>2. CASE A = {}
    BY <1>3, <1>5, <2>1, <2>2 DEF d
  <2>3. CASE A # {}
    <3>1. Max(A) \in A
      BY <1>0, <1>2, <2>3, MaxPlace
    <3>2. d[Max(A)] = cs[Max(A)]
      BY <1>0, <1>2, <3>1
    <3> QED BY <1>3, <1>5, <2>1, <2>3, <3>2 DEF d
  <2> QED BY <2>2, <2>3
<1> QED BY <1>4, <1>5

LEMMA RefPrefixEmpty == RefPrefix(<<>>) = <<>>
  BY DEF RefPrefix

LEMMA ValueNat == \A c : Value(c) \in Nat
  BY DEF Value

(***************************************************************************)
(* In the middle of a CSI sequence: params, currentParam and prefix are    *)
(* what the characters read so far spell, and no number has been started   *)
(* beyond the current one.                                                 *)
(***************************************************************************)
Current(cs) == FieldOf(cs, Len(cs) + 1)
Reads(pa, cu, pr, cs) ==
    /\ Len(pa) = Current(cs) - 1
    /\ \A i \in 1..Current(cs) - 1 : pa[i] = RefParam(cs, i)
    /\ cu = RefParam(cs, Current(cs))
    /\ \A i \in Nat : i > Current(cs) => RefParam(cs, i) = 0
    /\ pr = RefPrefix(cs)

LEMMA Sums ==
  /\ \A n \in Nat : n + 0 = n
  /\ \A n \in Nat : n + 1 \in Nat /\ (n + 1) - 1 = n /\ n + 1 > n
  /\ \A n \in Nat : \A i \in Nat : i > n + 1 => i > n
  OBVIOUS

LEMMA CurrentAppend ==
  ASSUME NEW C, NEW cs \in Seq(C), NEW c \in C
  PROVE  /\ Current(cs) \in Nat \ {0}
         /\ Current(Append(cs, c)) = Current(cs) + (IF c = ";" THEN 1 ELSE 0)
<1> DEFINE d == Append(cs, c)
<1>1. /\ Len(cs) \in Nat /\ Len(d) = Len(cs) + 1 /\ d[Len(cs) + 1] = c
      /\ Len(cs) + 1 \in 1..Len(cs) + 1 /\ Len(cs) + 1 \in Nat \ {0}
  BY AppendProperties, LenProperties
<1>2. FieldOf(d, Len(cs) + 1) = FieldOf(cs, Len(cs) + 1)
  BY <1>1, FieldAppend, Zenon
<1> HIDE DEF d
<1>3. FieldOf(d, Len(cs) + 1 + 1) = FieldOf(d, Len(cs) + 1) + (IF d[Len(cs) + 1] = ";" THEN 1 ELSE 0)
  BY <1>1, FieldNext, Zenon
<1>4. FieldOf(cs, Len(cs) + 1) \in Nat \ {0}
  BY <1>1, FieldNat, Zenon
<1> QED BY <1>1, <1>2, <1>3, <1>4, Zenon DEF Current, d

\* The next character does not matter to the parameters, or is one more digit.
LEMMA ReadsOther ==
  ASSUME NEW C, NEW cs \in Seq(C), NEW c \in C, NEW pa, NEW cu, NEW pr, Reads(pa, cu, pr, cs),
         c \notin Digits, c # ";", c \notin PrefixChars
  PROVE  Reads(pa, cu, pr, Append(cs, c))
<1> DEFINE d == Append(cs, c)
<1>1. \A n : RefParam(d, n) = RefParam(cs, n)
  BY RefParamAppend, Zenon
<1>2. RefPrefix(d) = RefPrefix(cs)
  BY RefPrefixAppend, Zenon
<1>3. Current(d) = Current(cs) + 0 /\ Current(cs) \in Nat
  BY CurrentAppend, Zenon
<1> HIDE DEF d
<1>4. Current(d) = Current(cs)
  BY <1>3, Sums, Zenon
<1> QED BY <1>1, <1>2, <1>4, Zenon DEF Reads, d

LEMMA ReadsPrefix ==
  ASSUME NEW C, NEW cs \in Seq(C), NEW c \in C, NEW pa, NEW cu, NEW pr, Reads(pa, cu, pr, cs),
         c \in PrefixChars
  PROVE  Reads(pa, cu, <<c>>, Append(cs, c))
<1> DEFINE d == Append(cs, c)
<1>0. c \notin Digits /\ c # ";"
  BY DEF Digits, PrefixChars
<1>1. \A n : RefParam(d, n) = RefParam(cs, n)
  BY <1>0, RefParamAppend, Zenon
<1>2. RefPrefix(d) = <<c>>
  BY RefPrefixAppend, Zenon
<1>3. Current(d) = Current(cs) + 0 /\ Current(cs) \in Nat
  BY <1>0, CurrentAppend, Zenon
<1> HIDE DEF d
<1>4. Current(d) = Current(cs)
  BY <1>3, Sums, Zenon
<1> QED BY <1>1, <1>2, <1>4, Zenon DEF Reads, d

LEMMA ReadsDigit ==
  ASSUME NEW C, NEW cs \in Seq(C), NEW c \in C, NEW pa, NEW cu, NEW pr, Reads(pa, cu, pr, cs),
         c \in Digits
  PROVE  Reads(pa, cu * 10 + Value(c), pr, Append(cs, c))
<1> DEFINE d == Append(cs, c)
<1>0. c # ";" /\ c \notin PrefixChars
  BY DEF Digits, PrefixChars
<1>1. \A n : RefParam(d, n) = IF n = Current(cs) THEN RefParam(cs, n) * 10 + Value(c) ELSE RefParam(cs, n)
  BY RefParamAppend, Zenon DEF Current
<1>2. RefPrefix(d) = RefPrefix(cs)
  BY <1>0, RefPrefixAppend, Zenon
<1>3. Current(d) = Current(cs) + 0 /\ Current(cs) \in Nat
  BY <1>0, CurrentAppend, Zenon
<1> HIDE DEF d
<1>4. Current(d) = Current(cs)
  BY <1>3, Sums, Zenon
<1>5. \A i \in 1..Current(cs) - 1 : i # Current(cs)
  BY <1>3
<1>6. \A i \in Nat : i > Current(cs) => i # Current(cs)
  BY <1>3
<1> QED BY <1>1, <1>2, <1>4, <1>5, <1>6, Zenon DEF Reads, d

\* A semicolon or a final character ends the current parameter.
LEMMA PushedParams ==
  ASSUME NEW C, NEW cs \in Seq(C), NEW c \in C, NEW pa \in Seq(Nat), NEW cu \in Nat, NEW pr,
         Reads(pa, cu, pr, cs), c \notin Digits, c \notin PrefixChars
  PROVE  LET d == Append(cs, c)
             b == Append(pa, cu)
         IN /\ Len(b) = Current(cs) /\ pr = RefPrefix(d)
            /\ \A i \in 1..Current(cs) : b[i] = RefParam(d, i)
            /\ \A i \in Nat : i > Current(cs) => RefParam(d, i) = 0
<1> DEFINE d == Append(cs, c)
           b == Append(pa, cu)
<1>1. \A n : RefParam(d, n) = RefParam(cs, n)
  BY RefParamAppend, Zenon
<1>2. RefPrefix(d) = RefPrefix(cs)
  BY RefPrefixAppend, Zenon
<1>3. Current(cs) \in Nat \ {0}
  BY CurrentAppend, Zenon
<1>4. /\ Len(b) = Len(pa) + 1 /\ b[Len(pa) + 1] = cu
      /\ \A i \in 1..Len(pa) : b[i] = pa[i]
  BY AppendProperties
<1>5. Len(pa) = Current(cs) - 1
  BY Zenon DEF Reads
<1> HIDE DEF b, d
<1>6. Len(b) = Current(cs) /\ Len(pa) + 1 = Current(cs)
  BY <1>3, <1>4, <1>5
<1>7. ASSUME NEW i \in 1..Current(cs) PROVE b[i] = RefParam(d, i)
  <2>1. CASE i = Current(cs)
    BY <1>1, <1>4, <1>6, <2>1, Zenon DEF Reads
  <2>2. CASE i # Current(cs)
    <3>1. i \in 1..Current(cs) - 1 /\ i \in 1..Len(pa)
      BY <1>3, <1>5, <2>2
    <3> QED BY <1>1, <1>4, <3>1, Zenon DEF Reads
  <2> QED BY <2>1, <2>2
<1>8. pr = RefPrefix(d) /\ \A i \in Nat : i > Current(cs) => RefParam(d, i) = 0
  BY <1>1, <1>2, Zenon DEF Reads
<1> QED BY <1>6, <1>7, <1>8, Zenon DEF b, d

LEMMA ReadsNext ==
  ASSUME NEW C, NEW cs \in Seq(C), NEW c \in C, NEW pa \in Seq(Nat), NEW cu \in Nat, NEW pr,
         Reads(pa, cu, pr, cs), c = ";"
  PROVE  Reads(Append(pa, cu), 0, pr, Append(cs, c))
<1> DEFINE d == Append(cs, c)
           b == Append(pa, cu)
<1>1. c \notin Digits /\ c \notin PrefixChars
  BY DEF Digits, PrefixChars
<1>2. /\ Len(b) = Current(cs) /\ pr = RefPrefix(d)
      /\ \A i \in 1..Current(cs) : b[i] = RefParam(d, i)
  BY <1>1, PushedParams, ZenonT(40)
<1>a. \A i \in Nat : i > Current(cs) => RefParam(d, i) = 0
  BY <1>1, PushedParams, ZenonT(40)
<1>3. Current(d) = Current(cs) + 1 /\ Current(cs) \in Nat
  BY CurrentAppend, Zenon
<1> HIDE DEF b, d
<1>4. Current(d) - 1 = Current(cs) /\ Current(d) \in Nat /\ Current(d) > Current(cs)
  BY <1>3, Sums, Zenon
<1>5. \A i \in Nat : i > Current(cs) + 1 => i > Current(cs)
  BY <1>3, Sums, Zenon
<1>6. Current(cs) + 1 \in Nat /\ Current(cs) + 1 > Current(cs)
  BY <1>3, Sums, Zenon
<1>7. RefParam(d, Current(d)) = 0 /\ \A i \in Nat : i > Current(d) => RefParam(d, i) = 0
  BY <1>3, <1>5, <1>6, <1>a, Zenon
<1> QED BY <1>2, <1>4, <1>7, Zenon DEF Reads, b, d

LEMMA ReadsDone ==
  ASSUME NEW C, NEW cs \in Seq(C), NEW c \in C, NEW pa \in Seq(Nat), NEW cu \in Nat, NEW pr,
         Reads(pa, cu, pr, cs), c # ";", c \notin Digits, c \notin PrefixChars
  PROVE  Append(pa, cu) = RefParams(Append(cs, c)) /\ pr = RefPrefix(Append(cs, c))
<1> DEFINE d == Append(cs, c)
           b == Append(pa, cu)
<1>2. /\ Len(b) = Current(cs) /\ pr = RefPrefix(d)
      /\ \A i \in 1..Current(cs) : b[i] = RefParam(d, i)
  BY PushedParams, ZenonT(40)
<1>3. Current(d) = Current(cs) + 0 /\ Current(cs) \in Nat
  BY CurrentAppend, Zenon
<1>b. b \in Seq(Nat)
  BY AppendProperties
<1> HIDE DEF b, d
<1>4. Current(d) = Current(cs)
  BY <1>3, Sums, Zenon
<1>5. b = [i \in 1..Current(cs) |-> b[i]]
  <2>1. b \in [1..Len(b) -> Nat]
    BY <1>b, LenProperties
  <2> QED BY <1>2, <2>1
<1>6. [i \in 1..Current(cs) |-> b[i]] = [i \in 1..Current(cs) |-> RefParam(d, i)]
  BY <1>2, Zenon
<1>7. RefParams(d) = [i \in 1..Current(d) |-> RefParam(d, i)]
  BY Zenon DEF RefParams, Current
<1> QED BY <1>2, <1>4, <1>5, <1>6, <1>7, Zenon DEF b, d

LEMMA ReadsNothing == Reads(<<>>, 0, <<>>, <<>>)
<1>1. Len(<<>>) = 0
  OBVIOUS
<1>2. Current(<<>>) = 1
  <2>1. {j \in 1..(0 + 1) - 1 : <<>>[j] = ";"} = {}
    <3>1. 1..(0 + 1) - 1 = {}
      OBVIOUS
    <3> QED BY <3>1, Zenon
  <2>2. Cardinality({}) = 0
    BY FS_EmptySet
  <2>3. Current(<<>>) = 0 + 1
    BY <1>1, <2>1, <2>2, Zenon DEF Current, FieldOf
  <2> QED BY <2>3
<1>3. 1..Current(<<>>) - 1 = {} /\ Len(<<>>) = Current(<<>>) - 1
  BY <1>1, <1>2
<1> QED BY <1>3, RefParamEmpty, RefPrefixEmpty, Zenon DEF Reads

(***************************************************************************)
(* The parser's fields between two characters.  Leakless: prefix, postfix, *)
(* designation and i++ belong to a sequence that is being read.            *)
(***************************************************************************)
Leakless(q) ==
    /\ q.skip => q.state = "normal"
    /\ q.state \notin {"csi", "dcs"} => q.prefix = <<>>
    /\ q.state # "csi" => q.postfix = <<>>
    /\ q.gcharset # -1 <=> q.state = "charset"
InCsi(q) == q.state = "csi" => Reads(q.params, q.cur, q.prefix, q.csi)
Spells(q) ==
    q.state = "normal" /\ q.csi # <<>> =>
        q.call.params = RefParams(q.csi) /\ q.call.prefix = RefPrefix(q.csi)
Sound(q) == IsParser(q) /\ Leakless(q) /\ InCsi(q) /\ Spells(q)

\* when a character is read
Ready(s) == IsParser(s) /\ Leakless(s) /\ InCsi(s) /\ (s.state # "csi" => s.csi = <<>>)

LEMMA RecSound ==
  ASSUME NEW st \in States, NEW pa \in Seq(Nat), NEW cu \in Nat, NEW te \in Seq(Chars),
         NEW pr \in Seq(Chars), NEW po \in Seq(Chars), NEW gc \in -1..3, NEW sk \in BOOLEAN,
         NEW ca, NEW cs \in Seq(Chars),
         sk => st = "normal", st \notin {"csi", "dcs"} => pr = <<>>, st # "csi" => po = <<>>,
         gc # -1 <=> st = "charset", st = "csi" => Reads(pa, cu, pr, cs),
         st = "normal" /\ cs # <<>> => ca.params = RefParams(cs) /\ ca.prefix = RefPrefix(cs)
  PROVE  Sound(Rec(st, pa, cu, te, pr, po, gc, sk, ca, cs))
<1> DEFINE q == Rec(st, pa, cu, te, pr, po, gc, sk, ca, cs)
<1>1. IsParser(q)
  BY RecType, Zenon
<1>2. /\ q.state = st /\ q.params = pa /\ q.cur = cu /\ q.prefix = pr
      /\ q.postfix = po /\ q.gcharset = gc /\ q.skip = sk /\ q.call = ca /\ q.csi = cs
  BY RecFields
<1> HIDE DEF q
<1>3. Leakless(q)
  BY <1>2, Zenon DEF Leakless
<1>4. InCsi(q) /\ Spells(q)
  BY <1>2, Zenon DEF InCsi, Spells
<1> QED BY <1>1, <1>3, <1>4, Zenon DEF Sound, q

LEMMA ReadyFields ==
  ASSUME NEW s, Ready(s)
  PROVE  /\ IsParser(s)
         /\ s.state \in States /\ s.params \in Seq(Nat) /\ s.cur \in Nat /\ s.text \in Seq(Chars)
         /\ s.prefix \in Seq(Chars) /\ s.postfix \in Seq(Chars) /\ s.gcharset \in -1..3
         /\ s.skip \in BOOLEAN /\ s.csi \in Seq(Chars)
         /\ s.state # "csi" => s.csi = <<>>
  BY FieldTypes, Zenon DEF Ready

LEMMA ReadyLeakless ==
  ASSUME NEW s, Ready(s)
  PROVE  /\ s.skip => s.state = "normal"
         /\ s.state \notin {"csi", "dcs"} => s.prefix = <<>>
         /\ s.state # "csi" => s.postfix = <<>>
         /\ s.gcharset # -1 <=> s.state = "charset"
         /\ s.state = "csi" => Reads(s.params, s.cur, s.prefix, s.csi)
  BY Zenon DEF Ready, Leakless, InCsi

LEMMA CallFields ==
  ASSUME NEW s, NEW n
  PROVE  Call(n, s).params = s.params /\ Call(n, s).prefix = s.prefix
  BY DEF Call

LEMMA Empties == <<>> \in Seq(Nat) /\ <<>> \in Seq(Chars) /\ 0 \in Nat /\ -1 \in -1..3
                 /\ "normal" \in States
  BY EmptySeq DEF States

\* Back to normal from states without parameters of their own.
LEMMA CallsSound ==
  ASSUME NEW s, Ready(s), s.state \notin {"csi", "dcs", "charset"}, NEW n
  PROVE  Sound(Calls(s, n))
<1>1. IsParser(s) /\ s.csi = <<>> /\ s.prefix = <<>> /\ s.postfix = <<>> /\ s.gcharset = -1
  BY ReadyFields, ReadyLeakless, Zenon
<1>3. Sound(Rec("normal", s.params, s.cur, s.text, s.prefix, s.postfix, s.gcharset, s.skip,
                Call(n, s), s.csi))
  BY <1>1, ReadyFields, RecSound, Empties, Zenon
<1> QED BY <1>1, <1>3, CallsIs, Zenon

LEMMA PassesSound ==
  ASSUME NEW s, Ready(s), s.state \notin {"csi", "dcs", "charset"}, NEW n,
         NEW b \in BOOLEAN
  PROVE  Sound([Calls(s, n) EXCEPT !.skip = b])
<1>1. IsParser(s) /\ s.csi = <<>> /\ s.prefix = <<>> /\ s.postfix = <<>> /\ s.gcharset = -1
  BY ReadyFields, ReadyLeakless, Zenon
<1>3. Sound(Rec("normal", s.params, s.cur, s.text, s.prefix, s.postfix, s.gcharset, b,
                Call(n, s), s.csi))
  BY <1>1, ReadyFields, RecSound, Empties, Zenon
<1> QED BY <1>1, <1>3, PassesIs, Zenon

LEMMA ToSound ==
  ASSUME NEW s, Ready(s), s.state \notin {"csi", "dcs", "charset"}, ~s.skip,
         NEW st \in {"escaped", "ignore"}
  PROVE  Sound(To(s, st))
<1>1. IsParser(s) /\ s.csi = <<>> /\ s.prefix = <<>> /\ s.postfix = <<>> /\ s.gcharset = -1
  BY ReadyFields, ReadyLeakless, Zenon
<1>2. st \in States /\ st # "normal" /\ st # "csi" /\ st # "charset"
  BY DEF States
<1>3. Sound(Rec(st, s.params, s.cur, s.text, s.prefix, s.postfix, s.gcharset, s.skip,
                s.call, s.csi))
  BY <1>1, <1>2, ReadyFields, RecSound, ZenonT(40)
<1> QED BY <1>1, <1>3, ToIs, Zenon

LEMMA normalSound ==
  ASSUME NEW s, Ready(s), s.state = "normal", ~s.skip, NEW c
  PROVE  Sound(normal(s, c))
<1>0. s.state \notin {"csi", "dcs", "charset"}
  OBVIOUS
<1>1. CASE c = "ESC"
  <2>1. normal(s, c) = To(s, "escaped")
    BY <1>1, Zenon DEF normal
  <2> QED BY <1>0, <2>1, ToSound, Zenon
<1>2. CASE c # "ESC"
  <2> DEFINE n == CASE c = "BEL" -> "bell" [] c = "\n" -> "lineFeed" [] c = "SO" -> "setgLevel 1"
                    [] c = "SI" -> "setgLevel 0" [] OTHER -> "print"
  <2>2. normal(s, c) = Calls(s, n)
    BY <1>2 DEF normal
  <2> HIDE DEF n
  <2> QED BY <1>0, <2>2, CallsSound, Zenon
<1> QED BY <1>1, <1>2, Zenon

LEMMA charsetSound ==
  ASSUME NEW s, IsParser(s), s.csi = <<>>, s.prefix = <<>>, s.postfix = <<>>, NEW c
  PROVE  Sound(charset(s, c))
<1> DEFINE b == c = "/"
           z == [None EXCEPT !.name = "setgCharset", !.params = <<s.gcharset>>, !.prefix = <<c>>]
<1>1. charset(s, c) = Rec("normal", s.params, s.cur, s.text, s.prefix, s.postfix, -1, b, z, s.csi)
  BY CharsetIs, Zenon
<1>2. b \in BOOLEAN
  BY Zenon
<1> HIDE DEF b, z
<1>3. /\ s.params \in Seq(Nat) /\ s.cur \in Nat /\ s.text \in Seq(Chars)
      /\ s.prefix \in Seq(Chars) /\ s.postfix \in Seq(Chars) /\ s.csi \in Seq(Chars)
  BY FieldTypes, Zenon
<1>4. Sound(Rec("normal", s.params, s.cur, s.text, s.prefix, s.postfix, -1, b, z, s.csi))
  BY <1>2, <1>3, RecSound, Empties, Zenon
<1> QED BY <1>1, <1>4, Zenon

LEMMA FreshCall ==
  ASSUME NEW v, NEW cs \in Seq(Chars)
  PROVE  /\ [Fresh EXCEPT !.call = v] = Rec("normal", <<>>, 0, <<>>, <<>>, <<>>, -1, FALSE, v, <<>>)
         /\ [Fresh EXCEPT !.call = v, !.csi = cs]
              = Rec("normal", <<>>, 0, <<>>, <<>>, <<>>, -1, FALSE, v, cs)
<1>1. Fresh = Rec("normal", <<>>, 0, <<>>, <<>>, <<>>, -1, FALSE, None, <<>>)
  BY Zenon DEF Fresh, Rec
<1> DEFINE b == FALSE
           r == Rec("normal", <<>>, 0, <<>>, <<>>, <<>>, -1, b, v, <<>>)
<1>b. b = FALSE
  OBVIOUS
<1> HIDE DEF b
<1>2. [Rec("normal", <<>>, 0, <<>>, <<>>, <<>>, -1, b, None, <<>>) EXCEPT !.call = v] = r
  BY Setcall
<1>3. [r EXCEPT !.csi = cs] = Rec("normal", <<>>, 0, <<>>, <<>>, <<>>, -1, b, v, cs)
  BY Setcsi
<1> HIDE DEF r
<1>4. [Fresh EXCEPT !.call = v] = r
  BY <1>1, <1>2, <1>b, Zenon
<1>5. [Fresh EXCEPT !.call = v, !.csi = cs] = [r EXCEPT !.csi = cs]
  BY <1>4, Zenon
<1> QED BY <1>3, <1>4, <1>5, <1>b, Zenon DEF r

\* escaped() as cases that exclude each other.
Started(s, st) ==
    [To(s, st) EXCEPT !.params = <<>>, !.cur = 0, !.text = <<>>, !.csi = <<>>]
Designating(s, d) == [To(s, "charset") EXCEPT !.gcharset = d]
Shifted(s, n) == [s EXCEPT !.call = [None EXCEPT !.name = n]]

LEMMA escapedCases ==
  ASSUME NEW s, NEW c
  PROVE  /\ c \in DOMAIN StartsSequence =>
                escaped(s, c) = Started(s, StartsSequence[c])
         /\ c \in {"_", "^"} => escaped(s, c) = To(s, "ignore")
         /\ c = "c" => escaped(s, c) = [Fresh EXCEPT !.call = [None EXCEPT !.name = "reset"]]
         /\ c \in {"%", "#"} =>
                escaped(s, c) = [Calls(s, IF c = "%" THEN "setgCharset" ELSE "none")
                                    EXCEPT !.skip = TRUE]
         /\ c \in DOMAIN Designates =>
                escaped(s, c) = Designating(s, Designates[c])
         /\ c = "/" => escaped(s, c) = charset([s EXCEPT !.gcharset = 3], "/")
         /\ c \in DOMAIN Shifts => escaped(s, c) = Shifted(s, Shifts[c])
         /\ c \in DOMAIN Simple => escaped(s, c) = Calls(s, Simple[c])
         /\ /\ c \notin DOMAIN StartsSequence \cup {"_", "^", "c", "%", "#", "/"}
            /\ c \notin DOMAIN Designates \cup DOMAIN Shifts \cup DOMAIN Simple
            => escaped(s, c) = Calls(s, "unknown")
<1> DEFINE e1 == [To(s, StartsSequence[c]) EXCEPT !.params = <<>>, !.cur = 0, !.text = <<>>,
                                                  !.csi = <<>>]
           e2 == To(s, "ignore")
           e3 == [Fresh EXCEPT !.call = [None EXCEPT !.name = "reset"]]
           e4 == [Calls(s, IF c = "%" THEN "setgCharset" ELSE "none") EXCEPT !.skip = TRUE]
           e5 == [To(s, "charset") EXCEPT !.gcharset = Designates[c]]
           e6 == charset([s EXCEPT !.gcharset = 3], "/")
           e7 == [s EXCEPT !.call = [None EXCEPT !.name = Shifts[c]]]
           e8 == Calls(s, Simple[c])
           e9 == Calls(s, "unknown")
<1>1. escaped(s, c) = CASE c \in DOMAIN StartsSequence -> e1 [] c \in {"_", "^"} -> e2
                        [] c = "c" -> e3 [] c \in {"%", "#"} -> e4 [] c \in DOMAIN Designates -> e5
                        [] c = "/" -> e6 [] c \in DOMAIN Shifts -> e7 [] c \in DOMAIN Simple -> e8
                        [] OTHER -> e9
  BY DEF escaped
<1>2. /\ DOMAIN StartsSequence = {"[", "]", "P"}
      /\ DOMAIN Designates = {"(", ")", "*", "+", "-", "."}
      /\ DOMAIN Shifts = {"N", "O", "n", "o", "|", "}", "~"}
      /\ DOMAIN Simple = {"E", "D", "M", "H", "7", "8", "=", ">"}
  BY DEF StartsSequence, Designates, Shifts, Simple
<1> HIDE DEF e1, e2, e3, e4, e5, e6, e7, e8, e9
<1>3. /\ c \in DOMAIN StartsSequence => escaped(s, c) = e1
      /\ c \in {"_", "^"} => escaped(s, c) = e2
      /\ c = "c" => escaped(s, c) = e3
      /\ c \in {"%", "#"} => escaped(s, c) = e4
      /\ c \in DOMAIN Designates => escaped(s, c) = e5
      /\ c = "/" => escaped(s, c) = e6
      /\ c \in DOMAIN Shifts => escaped(s, c) = e7
      /\ c \in DOMAIN Simple => escaped(s, c) = e8
      /\ /\ c \notin DOMAIN StartsSequence \cup {"_", "^", "c", "%", "#", "/"}
         /\ c \notin DOMAIN Designates \cup DOMAIN Shifts \cup DOMAIN Simple
         => escaped(s, c) = e9
  BY <1>1, <1>2
<1>4. /\ e1 = Started(s, StartsSequence[c]) /\ e5 = Designating(s, Designates[c])
      /\ e7 = Shifted(s, Shifts[c])
  BY Zenon DEF e1, e5, e7, Started, Designating, Shifted
<1> QED BY <1>3, <1>4, Zenon DEF e2, e3, e4, e6, e8, e9

LEMMA escapedSound ==
  ASSUME NEW s, Ready(s), s.state = "escaped", ~s.skip, NEW c
  PROVE  Sound(escaped(s, c))
<1>0. s.state \notin {"csi", "dcs", "charset"} /\ s.state # "normal"
  OBVIOUS
<1>s. /\ IsParser(s) /\ s.csi = <<>> /\ s.prefix = <<>> /\ s.postfix = <<>> /\ s.gcharset = -1
      /\ s.skip = FALSE
  BY <1>0, ReadyFields, ReadyLeakless, Zenon
<1>1. CASE c \in DOMAIN StartsSequence
  <2> DEFINE st == StartsSequence[c]
  <2>1. escaped(s, c) = Started(s, st)
    BY <1>1, escapedCases, Zenon
  <2>2. st \in States /\ st \notin {"normal", "charset"}
    BY <1>1 DEF StartsSequence, States
  <2> HIDE DEF st
  <2>3. escaped(s, c) = Rec(st, <<>>, 0, <<>>, s.prefix, s.postfix, s.gcharset, s.skip, s.call, <<>>)
    BY <1>s, <2>1, StartsIs, Zenon DEF Started
  <2>4. Sound(Rec(st, <<>>, 0, <<>>, s.prefix, s.postfix, s.gcharset, s.skip, s.call, <<>>))
    BY <1>s, <2>2, ReadyFields, RecSound, Empties, ReadsNothing, Zenon
  <2> QED BY <2>3, <2>4, Zenon
<1>2. CASE c \in {"_", "^"}
  <2>1. escaped(s, c) = To(s, "ignore")
    BY <1>2, escapedCases, Zenon
  <2> QED BY <1>0, <2>1, ToSound, Zenon
<1>3. CASE c = "c"
  <2> DEFINE v == [None EXCEPT !.name = "reset"]
  <2>1. escaped(s, c) = [Fresh EXCEPT !.call = v]
    BY <1>3, escapedCases, Zenon
  <2> HIDE DEF v
  <2>2. escaped(s, c) = Rec("normal", <<>>, 0, <<>>, <<>>, <<>>, -1, FALSE, v, <<>>)
    BY <2>1, Empties, FreshCall, Zenon
  <2> QED BY <2>2, RecSound, Empties, Zenon
<1>4. CASE c \in {"%", "#"}
  <2> DEFINE n == IF c = "%" THEN "setgCharset" ELSE "none"
             b == TRUE
  <2>1. escaped(s, c) = [Calls(s, n) EXCEPT !.skip = b]
    BY <1>4, escapedCases, Zenon
  <2>2. b \in BOOLEAN
    BY Zenon
  <2> HIDE DEF n, b
  <2>3. Sound([Calls(s, n) EXCEPT !.skip = b])
    BY <1>0, <2>2, PassesSound
  <2> QED BY <2>1, <2>3, Zenon
<1>5. CASE c \in DOMAIN Designates
  <2> DEFINE d == Designates[c]
  <2>1. escaped(s, c) = [To(s, "charset") EXCEPT !.gcharset = d]
    BY <1>5, escapedCases, Zenon DEF Designating
  <2>2. d \in -1..3 /\ d # -1
    BY <1>5 DEF Designates
  <2> HIDE DEF d
  <2>3. escaped(s, c) = Rec("charset", s.params, s.cur, s.text, s.prefix, s.postfix, d, s.skip,
                            s.call, s.csi)
    BY <1>s, <2>1, DesignatesIs, Zenon
  <2>4. "charset" \in States
    BY DEF States
  <2>5. Sound(Rec("charset", s.params, s.cur, s.text, s.prefix, s.postfix, d, s.skip,
                            s.call, s.csi))
    BY <1>s, <2>2, <2>4, ReadyFields, RecSound, Zenon
  <2> QED BY <2>3, <2>5, Zenon
<1>6. CASE c = "/"
  <2> DEFINE t == [s EXCEPT !.gcharset = 3]
  <2>1. escaped(s, c) = charset(t, c)
    BY <1>6, escapedCases, Zenon
  <2>2. t = Rec(s.state, s.params, s.cur, s.text, s.prefix, s.postfix, 3, s.skip, s.call, s.csi)
    BY <1>s, GcharsetIs, Zenon
  <2>3. 3 \in -1..3
    OBVIOUS
  <2> HIDE DEF t
  <2>4. IsParser(t)
    BY <1>s, <2>2, <2>3, RecType, FieldTypes, Zenon
  <2>5. t.csi = <<>> /\ t.prefix = <<>> /\ t.postfix = <<>>
    BY <1>s, <2>2, RecFields
  <2> QED BY <2>1, <2>4, <2>5, charsetSound, Zenon
<1>7. CASE c \in DOMAIN Shifts
  <2> DEFINE v == [None EXCEPT !.name = Shifts[c]]
  <2>1. escaped(s, c) = [s EXCEPT !.call = v]
    BY <1>7, escapedCases, Zenon DEF Shifted
  <2> HIDE DEF v
  <2>2. escaped(s, c) = Rec(s.state, s.params, s.cur, s.text, s.prefix, s.postfix, s.gcharset,
                            s.skip, v, s.csi)
    BY <1>s, <2>1, CallOnlyIs, Zenon
  <2>3. Sound(Rec(s.state, s.params, s.cur, s.text, s.prefix, s.postfix, s.gcharset,
                            s.skip, v, s.csi))
    BY <1>0, <1>s, ReadyFields, RecSound, Zenon
  <2> QED BY <2>2, <2>3, Zenon
<1>8. CASE c \in DOMAIN Simple
  <2>1. escaped(s, c) = Calls(s, Simple[c])
    BY <1>8, escapedCases, Zenon
  <2> QED BY <1>0, <2>1, CallsSound, Zenon
<1>9. CASE /\ c \notin DOMAIN StartsSequence \cup {"_", "^", "c", "%", "#", "/"}
           /\ c \notin DOMAIN Designates \cup DOMAIN Shifts \cup DOMAIN Simple
  <2>1. escaped(s, c) = Calls(s, "unknown")
    BY <1>9, escapedCases, Zenon
  <2> QED BY <1>0, <2>1, CallsSound, Zenon
<1> QED BY <1>1, <1>2, <1>3, <1>4, <1>5, <1>6, <1>7, <1>8, <1>9, Zenon

LEMMA Tens == \A n \in Nat : \A c : n * 10 + Value(c) \in Nat
  BY ValueNat

LEMMA oscSound ==
  ASSUME NEW s, Ready(s), s.state = "osc", ~s.skip, NEW c
  PROVE  Sound(osc(s, c))
<1>0. s.state \notin {"csi", "dcs", "charset"} /\ s.state # "normal"
  OBVIOUS
<1>s. /\ IsParser(s) /\ s.csi = <<>> /\ s.prefix = <<>> /\ s.postfix = <<>> /\ s.gcharset = -1
      /\ s.skip = FALSE
  BY <1>0, ReadyFields, ReadyLeakless, Zenon
<1>c. ASSUME NEW v \in Nat PROVE Sound([s EXCEPT !.cur = v])
  <2>1. Sound(Rec(s.state, s.params, v, s.text, s.prefix, s.postfix, s.gcharset, s.skip,
                  s.call, s.csi))
    BY <1>0, <1>s, ReadyFields, RecSound, Zenon
  <2> QED BY <1>s, <2>1, CurIs, Zenon
<1>1. CASE Ends(c)
  <2> DEFINE titled == s.params # <<>> /\ Head(s.params) \in {0, 1, 2} /\ s.cur = 1
             n == IF titled THEN "title" ELSE "none"
             b == c = "ESC"
  <2>1. osc(s, c) = [Calls(s, n) EXCEPT !.params = <<>>, !.cur = 0, !.skip = b]
    BY <1>1, Zenon DEF osc
  <2>2. b \in BOOLEAN
    BY Zenon
  <2> HIDE DEF n, b
  <2>3. osc(s, c) = Rec("normal", <<>>, 0, s.text, s.prefix, s.postfix, s.gcharset, b, Call(n, s),
                        s.csi)
    BY <1>s, <2>1, OscEndsIs, Zenon
  <2>4. Sound(Rec("normal", <<>>, 0, s.text, s.prefix, s.postfix, s.gcharset, b, Call(n, s), s.csi))
    BY <1>s, <2>2, ReadyFields, RecSound, Empties, Zenon
  <2> QED BY <2>3, <2>4, Zenon
<1>2. CASE ~Ends(c) /\ s.params # <<>>
  <2>1. osc(s, c) = [s EXCEPT !.cur = 1]
    BY <1>2, Zenon DEF osc
  <2>2. 1 \in Nat
    OBVIOUS
  <2> QED BY <1>c, <2>1, <2>2, Zenon
<1>3. CASE ~Ends(c) /\ s.params = <<>> /\ c \in Digits
  <2>1. osc(s, c) = [s EXCEPT !.cur = s.cur * 10 + Value(c)]
    BY <1>3, Zenon DEF osc
  <2>2. s.cur * 10 + Value(c) \in Nat
    BY <1>s, FieldTypes, Tens, Zenon
  <2> QED BY <1>c, <2>1, <2>2, Zenon
<1>4. CASE ~Ends(c) /\ s.params = <<>> /\ c \notin Digits /\ c = ";"
  <2> DEFINE v == <<s.cur>>
  <2>1. osc(s, c) = [s EXCEPT !.params = v, !.cur = 0]
    BY <1>4, Zenon DEF osc
  <2>2. v \in Seq(Nat)
    BY <1>s, FieldTypes
  <2> HIDE DEF v
  <2>3. osc(s, c) = Rec(s.state, v, 0, s.text, s.prefix, s.postfix, s.gcharset, s.skip, s.call, s.csi)
    BY <1>s, <2>1, PushedIs, Zenon
  <2>4. Sound(Rec(s.state, v, 0, s.text, s.prefix, s.postfix, s.gcharset, s.skip, s.call, s.csi))
    BY <1>0, <1>s, <2>2, Empties, ReadyFields, RecSound, Zenon
  <2> QED BY <2>3, <2>4, Zenon
<1>5. CASE ~Ends(c) /\ s.params = <<>> /\ c \notin Digits /\ c # ";"
  <2>1. osc(s, c) = s
    BY <1>5, Zenon DEF osc
  <2> QED BY <1>0, <2>1, Zenon DEF Ready, Sound, Spells
<1> QED BY <1>1, <1>2, <1>3, <1>4, <1>5, Zenon

LEMMA ignoreSound ==
  ASSUME NEW s, Ready(s), s.state = "ignore", ~s.skip, NEW c
  PROVE  Sound(ignore(s, c))
<1>0. s.state \notin {"csi", "dcs", "charset"} /\ s.state # "normal"
  OBVIOUS
<1>s. /\ IsParser(s) /\ s.csi = <<>> /\ s.prefix = <<>> /\ s.postfix = <<>> /\ s.gcharset = -1
  BY <1>0, ReadyFields, ReadyLeakless, Zenon
<1>1. CASE Ends(c)
  <2> DEFINE b == c = "ESC"
  <2>1. ignore(s, c) = [To(s, "normal") EXCEPT !.skip = b]
    BY <1>1, Zenon DEF ignore
  <2>2. b \in BOOLEAN
    BY Zenon
  <2> HIDE DEF b
  <2>3. ignore(s, c) = Rec("normal", s.params, s.cur, s.text, s.prefix, s.postfix, s.gcharset, b,
                           s.call, s.csi)
    BY <1>s, <2>1, IgnoreEndsIs, Zenon
  <2>4. Sound(Rec("normal", s.params, s.cur, s.text, s.prefix, s.postfix, s.gcharset, b, s.call, s.csi))
    BY <1>s, <2>2, ReadyFields, RecSound, Empties, Zenon
  <2> QED BY <2>3, <2>4, Zenon
<1>2. CASE ~Ends(c)
  <2>1. ignore(s, c) = s
    BY <1>2, Zenon DEF ignore
  <2> QED BY <1>0, <2>1, Zenon DEF Ready, Sound, Spells
<1> QED BY <1>1, <1>2, Zenon

LEMMA dcsSound ==
  ASSUME NEW s, Ready(s), s.state = "dcs", ~s.skip, NEW c \in Chars
  PROVE  Sound(dcs(s, c))
<1>0. s.state \notin {"csi", "charset"} /\ s.state # "normal"
  OBVIOUS
<1>s. IsParser(s) /\ s.csi = <<>> /\ s.postfix = <<>> /\ s.gcharset = -1 /\ s.skip = FALSE
  BY <1>0, ReadyFields, ReadyLeakless, Zenon
<1> DEFINE more == s.text # <<>> \/ (s.prefix = <<>> /\ c \notin {"$", "+"}) \/ Len(s.prefix) = 2
<1>1. CASE Ends(c)
  <2> DEFINE n == CASE s.prefix = <<"$", "q">> -> "requestStatus"
                    [] s.prefix = <<"+", "q">> -> "requestTermcap"
                    [] OTHER -> "none"
             b == c = "ESC"
  <2>1. dcs(s, c) = [Calls(s, n) EXCEPT !.cur = 0, !.text = <<>>, !.prefix = <<>>, !.skip = b]
    BY <1>1, Zenon DEF dcs
  <2>2. b \in BOOLEAN
    BY Zenon
  <2> HIDE DEF n, b
  <2>3. dcs(s, c) = Rec("normal", s.params, 0, <<>>, <<>>, s.postfix, s.gcharset, b, Call(n, s), s.csi)
    BY <1>s, <2>1, DcsEndsIs, Zenon
  <2>4. Sound(Rec("normal", s.params, 0, <<>>, <<>>, s.postfix, s.gcharset, b, Call(n, s), s.csi))
    BY <1>s, <2>2, ReadyFields, RecSound, Empties, Zenon
  <2> QED BY <2>3, <2>4, Zenon
<1>2. CASE ~Ends(c) /\ more
  <2> DEFINE v == Append(s.text, c)
  <2>1. dcs(s, c) = [s EXCEPT !.text = v]
    BY <1>2, Zenon DEF dcs
  <2>2. v \in Seq(Chars)
    BY <1>s, FieldTypes, AppendProperties, Zenon
  <2> HIDE DEF v
  <2>3. dcs(s, c) = Rec(s.state, s.params, s.cur, v, s.prefix, s.postfix, s.gcharset, s.skip, s.call,
                        s.csi)
    BY <1>s, <2>1, TextIs, Zenon
  <2>4. Sound(Rec(s.state, s.params, s.cur, v, s.prefix, s.postfix, s.gcharset, s.skip, s.call, s.csi))
    BY <1>0, <1>s, <2>2, ReadyFields, RecSound, Zenon
  <2> QED BY <2>3, <2>4, Zenon
<1>3. CASE ~Ends(c) /\ ~more
  <2> DEFINE v == Append(s.prefix, c)
  <2>1. dcs(s, c) = [s EXCEPT !.prefix = v]
    BY <1>3, Zenon DEF dcs
  <2>2. v \in Seq(Chars)
    BY <1>s, FieldTypes, AppendProperties, Zenon
  <2> HIDE DEF v
  <2>3. dcs(s, c) = Rec(s.state, s.params, s.cur, s.text, v, s.postfix, s.gcharset, s.skip, s.call,
                        s.csi)
    BY <1>s, <2>1, PrefixIs, Zenon
  <2>4. Sound(Rec(s.state, s.params, s.cur, s.text, v, s.postfix, s.gcharset, s.skip, s.call, s.csi))
    BY <1>0, <1>s, <2>2, ReadyFields, RecSound, Zenon
  <2> QED BY <2>3, <2>4, Zenon
<1> QED BY <1>1, <1>2, <1>3, Zenon

\* the characters that end a CSI sequence
Final(c) == c \notin PrefixChars \cup Digits \cup {"$", "QUOTE", "SPACE", "APOS", ";"}

LEMMA csiSound ==
  ASSUME NEW s, Ready(s), s.state = "csi", ~s.skip, NEW c \in Chars
  PROVE  Sound(csi(s, c)) /\ (Final(c) => csi(s, c).state = "normal")
<1>0. s.state \notin {"dcs", "charset"} /\ s.state # "normal"
  OBVIOUS
<1>s. IsParser(s) /\ s.gcharset = -1 /\ s.skip = FALSE
      /\ Reads(s.params, s.cur, s.prefix, s.csi)
  BY <1>0, ReadyFields, ReadyLeakless, Zenon
<1>t. /\ s.state \in States /\ s.params \in Seq(Nat) /\ s.cur \in Nat /\ s.text \in Seq(Chars)
      /\ s.prefix \in Seq(Chars) /\ s.postfix \in Seq(Chars) /\ s.csi \in Seq(Chars)
  BY <1>s, FieldTypes, Zenon
<1> DEFINE d == Append(s.csi, c)
           a == [s EXCEPT !.csi = d]
           b == PushParam(a)
           h == IF c \in DOMAIN Finals /\ Applies(b, c) THEN Finals[c] ELSE "none"
           pa == Append(s.params, s.cur)
           co == <<c>>
<1>d. d \in Seq(Chars) /\ pa \in Seq(Nat) /\ co \in Seq(Chars)
  BY <1>t, AppendProperties
<1>c. csi(s, c) = IF c \in PrefixChars THEN [a EXCEPT !.prefix = co]
                  ELSE IF c \in Digits THEN [a EXCEPT !.cur = a.cur * 10 + Value(c)]
                  ELSE IF c \in {"$", "QUOTE", "SPACE", "APOS"} THEN [a EXCEPT !.postfix = co]
                  ELSE IF c = ";" THEN b ELSE Dispatched(Calls(b, h))
  BY Zenon DEF csi
<1>r1. c \in PrefixChars => Reads(s.params, s.cur, co, d)
  BY <1>s, <1>t, ReadsPrefix, Zenon
<1>r2. c \in Digits => Reads(s.params, s.cur * 10 + Value(c), s.prefix, d)
  BY <1>s, <1>t, ReadsDigit, Zenon
<1>r3. c \notin Digits /\ c # ";" /\ c \notin PrefixChars => Reads(s.params, s.cur, s.prefix, d)
  BY <1>s, <1>t, ReadsOther, Zenon
<1>r4. c = ";" => Reads(pa, 0, s.prefix, d)
  BY <1>s, <1>t, ReadsNext, Zenon
<1>r5. c \notin Digits /\ c # ";" /\ c \notin PrefixChars
          => pa = RefParams(d) /\ s.prefix = RefPrefix(d)
  <2> SUFFICES ASSUME c \notin Digits, c # ";", c \notin PrefixChars
               PROVE  pa = RefParams(d) /\ s.prefix = RefPrefix(d)
    BY Zenon
  <2> DEFINE x == s.params
             y == s.cur
             z == s.prefix
             w == s.csi
  <2>1. x \in Seq(Nat) /\ y \in Nat /\ w \in Seq(Chars) /\ Reads(x, y, z, w)
    BY <1>s, <1>t, Zenon
  <2>2. pa = Append(x, y) /\ d = Append(w, c) /\ z = s.prefix
    BY Zenon
  <2> HIDE DEF d, pa, a, b, h, x, y, z, w
  <2>3. Append(x, y) = RefParams(Append(w, c)) /\ z = RefPrefix(Append(w, c))
    BY <2>1, ReadsDone, ZenonT(40)
  <2> QED BY <2>2, <2>3, Zenon
<1> HIDE DEF d, pa, co
<1>a. a = Rec(s.state, s.params, s.cur, s.text, s.prefix, s.postfix, s.gcharset, s.skip, s.call, d)
  BY <1>s, CsiIs, Zenon
<1> HIDE DEF a
<1>p. IsParser(a)
  BY <1>a, <1>d, <1>t, <1>s, RecType, FieldTypes, Zenon
<1>f. /\ a.state = s.state /\ a.params = s.params /\ a.cur = s.cur /\ a.text = s.text
      /\ a.prefix = s.prefix /\ a.postfix = s.postfix /\ a.gcharset = s.gcharset
      /\ a.skip = s.skip /\ a.call = s.call /\ a.csi = d
  BY <1>a, RecFields
<1>1. ASSUME c \in PrefixChars PROVE Sound(csi(s, c))
  <2>1. csi(s, c) = Rec(s.state, s.params, s.cur, s.text, co, s.postfix, s.gcharset, s.skip, s.call, d)
    <3>1. csi(s, c) = [a EXCEPT !.prefix = co]
      BY <1>1, <1>c, Zenon
    <3> QED BY <3>1, <1>a, Setprefix
  <2>2. Sound(Rec(s.state, s.params, s.cur, s.text, co, s.postfix, s.gcharset, s.skip, s.call, d))
    BY <1>0, <1>1, <1>s, <1>t, <1>d, <1>r1, RecSound, FieldTypes, Zenon
  <2> QED BY <2>1, <2>2, Zenon
<1>2. ASSUME c \notin PrefixChars, c \in Digits PROVE Sound(csi(s, c))
  <2> DEFINE v == s.cur * 10 + Value(c)
  <2>1. v \in Nat
    BY <1>t, Tens, Zenon
  <2>2. Reads(s.params, v, s.prefix, d)
    BY <1>2, <1>r2, Zenon
  <2>3. csi(s, c) = [a EXCEPT !.cur = v]
    BY <1>2, <1>c, <1>f, Zenon
  <2> HIDE DEF v
  <2>4. csi(s, c) = Rec(s.state, s.params, v, s.text, s.prefix, s.postfix, s.gcharset, s.skip, s.call, d)
    BY <2>3, <1>a, Setcur
  <2>5. Sound(Rec(s.state, s.params, v, s.text, s.prefix, s.postfix, s.gcharset, s.skip, s.call, d))
    BY <1>0, <1>s, <1>t, <1>d, <2>1, <2>2, RecSound, FieldTypes, Zenon
  <2> QED BY <2>4, <2>5, Zenon
<1>3. ASSUME c \notin PrefixChars, c \notin Digits, c \in {"$", "QUOTE", "SPACE", "APOS"}
      PROVE  Sound(csi(s, c))
  <2>1. csi(s, c) = Rec(s.state, s.params, s.cur, s.text, s.prefix, co, s.gcharset, s.skip, s.call, d)
    <3>1. csi(s, c) = [a EXCEPT !.postfix = co]
      BY <1>3, <1>c, Zenon
    <3> QED BY <3>1, <1>a, Setpostfix
  <2>2. c # ";"
    BY <1>3
  <2>3. Sound(Rec(s.state, s.params, s.cur, s.text, s.prefix, co, s.gcharset, s.skip, s.call, d))
    BY <1>0, <1>3, <2>2, <1>s, <1>t, <1>d, <1>r3, RecSound, FieldTypes, Zenon
  <2> QED BY <2>1, <2>3, Zenon
<1>b. b = Rec(s.state, pa, 0, s.text, s.prefix, s.postfix, s.gcharset, s.skip, s.call, d)
  <2>1. b = [a EXCEPT !.params = pa, !.cur = 0]
    BY <1>f, Zenon DEF PushParam, pa
  <2> DEFINE a1 == [a EXCEPT !.params = pa]
  <2>2. a1 = Rec(s.state, pa, s.cur, s.text, s.prefix, s.postfix, s.gcharset, s.skip, s.call, d)
    BY <1>a, Setparams
  <2> HIDE DEF a1
  <2>3. [a1 EXCEPT !.cur = 0]
          = Rec(s.state, pa, 0, s.text, s.prefix, s.postfix, s.gcharset, s.skip, s.call, d)
    BY <2>2, Setcur
  <2> HIDE DEF b
  <2> QED BY <2>1, <2>3, Zenon DEF a1
<1>4. ASSUME c = ";" PROVE Sound(csi(s, c))
  <2>1. csi(s, c) = b
    BY <1>4, <1>c DEF PrefixChars, Digits
  <2>2. Sound(Rec(s.state, pa, 0, s.text, s.prefix, s.postfix, s.gcharset, s.skip, s.call, d))
    BY <1>0, <1>4, <1>s, <1>t, <1>d, <1>r4, Empties, RecSound, FieldTypes, Zenon
  <2> QED BY <1>b, <2>1, <2>2, Zenon
<1>5. ASSUME Final(c)
      PROVE  Sound(csi(s, c)) /\ csi(s, c).state = "normal"
  <2> HIDE DEF b, h
  <2>1. csi(s, c) = Dispatched(Calls(b, h))
    BY <1>5, <1>c, Zenon DEF Final
  <2>2. IsParser(b)
    BY <1>b, <1>d, <1>t, <1>s, Empties, RecType, FieldTypes, Zenon
  <2>3. /\ b.params = pa /\ b.cur = 0 /\ b.text = s.text /\ b.prefix = s.prefix
        /\ b.postfix = s.postfix /\ b.gcharset = s.gcharset /\ b.skip = s.skip /\ b.csi = d
    BY <1>b, RecFields
  <2> DEFINE z == Call(h, b)
             e == Calls(b, h)
  <2>4. z.params = pa /\ z.prefix = s.prefix
    BY <2>3, CallFields, Zenon
  <2> HIDE DEF z
  <2>5. e = Rec("normal", pa, 0, s.text, s.prefix, s.postfix, s.gcharset, s.skip, z, d)
    BY <2>2, <2>3, CallsIs, Zenon DEF z
  <2> HIDE DEF e
  <2>6. IsParser(e)
    BY <2>5, <1>d, <1>t, <1>s, Empties, RecType, FieldTypes, Zenon
  <2>7. /\ e.state = "normal" /\ e.params = pa /\ e.cur = 0 /\ e.text = s.text
        /\ e.gcharset = s.gcharset /\ e.skip = s.skip /\ e.call = z /\ e.csi = d
    BY <2>5, RecFields
  <2>8. Dispatched(e) = Rec("normal", pa, 0, s.text, <<>>, <<>>, s.gcharset, s.skip, z, d)
    BY <2>6, <2>7, DispatchedIs, Zenon
  <2>9. c \notin Digits /\ c # ";" /\ c \notin PrefixChars
    BY <1>5, Zenon DEF Final
  <2>10. Sound(Rec("normal", pa, 0, s.text, <<>>, <<>>, s.gcharset, s.skip, z, d))
    BY <1>s, <1>t, <1>d, <2>4, <2>9, <1>r5, Empties, RecSound, FieldTypes, Zenon
  <2>11. Rec("normal", pa, 0, s.text, <<>>, <<>>, s.gcharset, s.skip, z, d).state = "normal"
    BY RecFields
  <2> QED BY <2>1, <2>8, <2>10, <2>11, Zenon DEF e
<1> QED BY <1>1, <1>2, <1>3, <1>4, <1>5, Zenon DEF Final

\* One turn of the loop: what is read, and with which fields.
Turn(s0) ==
    [s0 EXCEPT !.call = None, !.skip = FALSE, !.csi = IF s0.state = "csi" THEN s0.csi ELSE <<>>]

LEMMA TurnFields ==
  ASSUME NEW s0, Sound(s0)
  PROVE  /\ Turn(s0).skip = FALSE /\ Turn(s0).state = s0.state /\ Turn(s0).call = None
         /\ s0.skip => Turn(s0).state = "normal" /\ Turn(s0).csi = <<>>
         /\ Ready(Turn(s0))
<1> DEFINE b == FALSE
           v == IF s0.state = "csi" THEN s0.csi ELSE <<>>
           s == [s0 EXCEPT !.call = None, !.skip = b, !.csi = v]
<1>1. b = FALSE /\ b \in BOOLEAN
  BY Zenon
<1>2. IsParser(s0) /\ Leakless(s0) /\ InCsi(s0)
  BY Zenon DEF Sound
<1>3. /\ s0.state \in States /\ s0.params \in Seq(Nat) /\ s0.cur \in Nat /\ s0.text \in Seq(Chars)
      /\ s0.prefix \in Seq(Chars) /\ s0.postfix \in Seq(Chars) /\ s0.gcharset \in -1..3
      /\ s0.skip \in BOOLEAN /\ s0.csi \in Seq(Chars)
  BY <1>2, FieldTypes, Zenon
<1>4. v \in Seq(Chars) /\ (s0.state = "csi" => v = s0.csi) /\ (s0.state # "csi" => v = <<>>)
  BY <1>3, Empties, Zenon
<1>5. Turn(s0) = s
  BY Zenon DEF Turn
<1> HIDE DEF b, v
<1>6. s = Rec(s0.state, s0.params, s0.cur, s0.text, s0.prefix, s0.postfix, s0.gcharset, b, None, v)
  BY <1>2, TurnIs, Zenon
<1> HIDE DEF s
<1>7. IsParser(s)
  BY <1>1, <1>3, <1>4, <1>6, RecType, Zenon
<1>8. /\ s.state = s0.state /\ s.params = s0.params /\ s.cur = s0.cur /\ s.text = s0.text
      /\ s.prefix = s0.prefix /\ s.postfix = s0.postfix /\ s.gcharset = s0.gcharset
      /\ s.skip = b /\ s.csi = v /\ s.call = None
  BY <1>6, RecFields
<1>9. Leakless(s) /\ InCsi(s)
  BY <1>1, <1>2, <1>4, <1>8, Zenon DEF Leakless, InCsi
<1>10. s.state # "csi" => s.csi = <<>>
  BY <1>4, <1>8, Zenon
<1>11. s0.skip => s0.state = "normal"
  BY <1>2, Zenon DEF Leakless
<1>12. "normal" # "csi"
  OBVIOUS
<1> QED BY <1>1, <1>5, <1>7, <1>8, <1>9, <1>10, <1>11, <1>12, Zenon DEF Ready

LEMMA FeedCases ==
  ASSUME NEW s0, NEW c
  PROVE  LET s == Turn(s0)
         IN /\ s0.skip => Feed(s0, c) = s
            /\ ~s0.skip /\ s.state = "normal" => Feed(s0, c) = normal(s, c)
            /\ ~s0.skip /\ s.state = "escaped" => Feed(s0, c) = escaped(s, c)
            /\ ~s0.skip /\ s.state = "charset" => Feed(s0, c) = charset(s, c)
            /\ ~s0.skip /\ s.state = "osc" => Feed(s0, c) = osc(s, c)
            /\ ~s0.skip /\ s.state = "csi" => Feed(s0, c) = csi(s, c)
            /\ ~s0.skip /\ s.state = "dcs" => Feed(s0, c) = dcs(s, c)
            /\ ~s0.skip /\ s.state = "ignore" => Feed(s0, c) = ignore(s, c)
<1> DEFINE s == Turn(s0)
           a1 == normal(s, c)
           a2 == escaped(s, c)
           a3 == charset(s, c)
           a4 == osc(s, c)
           a5 == csi(s, c)
           a6 == dcs(s, c)
           a7 == ignore(s, c)
<1>1. Feed(s0, c) = IF s0.skip THEN s
                    ELSE CASE s.state = "normal" -> a1 [] s.state = "escaped" -> a2
                           [] s.state = "charset" -> a3 [] s.state = "osc" -> a4
                           [] s.state = "csi" -> a5 [] s.state = "dcs" -> a6 [] OTHER -> a7
  BY Zenon DEF Feed, Turn
<1> HIDE DEF s, a1, a2, a3, a4, a5, a6, a7
<1>2. /\ s0.skip => Feed(s0, c) = s
      /\ ~s0.skip /\ s.state = "normal" => Feed(s0, c) = a1
      /\ ~s0.skip /\ s.state = "escaped" => Feed(s0, c) = a2
      /\ ~s0.skip /\ s.state = "charset" => Feed(s0, c) = a3
      /\ ~s0.skip /\ s.state = "osc" => Feed(s0, c) = a4
      /\ ~s0.skip /\ s.state = "csi" => Feed(s0, c) = a5
      /\ ~s0.skip /\ s.state = "dcs" => Feed(s0, c) = a6
      /\ ~s0.skip /\ s.state = "ignore" => Feed(s0, c) = a7
  BY <1>1
<1> QED BY <1>2, Zenon DEF s, a1, a2, a3, a4, a5, a6, a7

LEMMA FeedSound ==
  ASSUME NEW s0, Sound(s0), NEW c \in Chars
  PROVE  Sound(Feed(s0, c))
<1> DEFINE s == Turn(s0)
<1>1. s.skip = FALSE /\ Ready(s) /\ (s0.skip => s.state = "normal" /\ s.csi = <<>>)
  BY TurnFields, Zenon
<1>2. s.state \in States
  BY <1>1, ReadyFields, Zenon
<1>c. /\ s0.skip => Feed(s0, c) = s
      /\ ~s0.skip /\ s.state = "normal" => Feed(s0, c) = normal(s, c)
      /\ ~s0.skip /\ s.state = "escaped" => Feed(s0, c) = escaped(s, c)
      /\ ~s0.skip /\ s.state = "charset" => Feed(s0, c) = charset(s, c)
      /\ ~s0.skip /\ s.state = "osc" => Feed(s0, c) = osc(s, c)
      /\ ~s0.skip /\ s.state = "csi" => Feed(s0, c) = csi(s, c)
      /\ ~s0.skip /\ s.state = "dcs" => Feed(s0, c) = dcs(s, c)
      /\ ~s0.skip /\ s.state = "ignore" => Feed(s0, c) = ignore(s, c)
  BY FeedCases, Zenon
<1> HIDE DEF s
<1>3. CASE s0.skip
  <2>1. Sound(s)
    BY <1>1, <1>3, Zenon DEF Ready, Sound, Spells
  <2> QED BY <1>3, <1>c, <2>1, Zenon
<1>4. CASE ~s0.skip
  <2>1. CASE s.state = "normal"
    BY <1>1, <1>4, <1>c, <2>1, normalSound, Zenon
  <2>2. CASE s.state = "escaped"
    BY <1>1, <1>4, <1>c, <2>2, escapedSound, Zenon
  <2>3. CASE s.state = "charset"
    <3>1. IsParser(s) /\ s.csi = <<>> /\ s.prefix = <<>> /\ s.postfix = <<>>
      <4>1. s.state \notin {"csi", "dcs"} /\ s.state # "csi"
        BY <2>3
      <4> QED BY <1>1, <4>1, ReadyFields, ReadyLeakless, Zenon
    <3> QED BY <1>4, <1>c, <2>3, <3>1, charsetSound, Zenon
  <2>4. CASE s.state = "osc"
    BY <1>1, <1>4, <1>c, <2>4, oscSound, Zenon
  <2>5. CASE s.state = "csi"
    BY <1>1, <1>4, <1>c, <2>5, csiSound, Zenon
  <2>6. CASE s.state = "dcs"
    BY <1>1, <1>4, <1>c, <2>6, dcsSound, Zenon
  <2>7. CASE s.state = "ignore"
    BY <1>1, <1>4, <1>c, <2>7, ignoreSound, Zenon
  <2> QED BY <1>2, <2>1, <2>2, <2>3, <2>4, <2>5, <2>6, <2>7, Zenon DEF States
<1> QED BY <1>3, <1>4, Zenon

\* A string in progress calls nothing, its end brings the parser to normal.
LEMMA oscEnds ==
  ASSUME NEW s, IsParser(s), s.call = None, NEW c
  PROVE  /\ Ends(c) => osc(s, c).state = "normal"
         /\ ~Ends(c) /\ c # ";" => osc(s, c).call = None
<1>1. ASSUME Ends(c) PROVE osc(s, c).state = "normal"
  <2> DEFINE titled == s.params # <<>> /\ Head(s.params) \in {0, 1, 2} /\ s.cur = 1
             n == IF titled THEN "title" ELSE "none"
             b == c = "ESC"
  <2>1. osc(s, c) = [Calls(s, n) EXCEPT !.params = <<>>, !.cur = 0, !.skip = b]
    BY <1>1, Zenon DEF osc
  <2> HIDE DEF n, b
  <2>2. osc(s, c) = Rec("normal", <<>>, 0, s.text, s.prefix, s.postfix, s.gcharset, b, Call(n, s),
                        s.csi)
    BY <2>1, OscEndsIs, Zenon
  <2> QED BY <2>2, RecFields
<1>2. ASSUME ~Ends(c), c # ";" PROVE osc(s, c).call = None
  <2>1. ASSUME NEW v PROVE [s EXCEPT !.cur = v].call = None
    <3>1. [s EXCEPT !.cur = v] = Rec(s.state, s.params, v, s.text, s.prefix, s.postfix, s.gcharset,
                                     s.skip, s.call, s.csi)
      BY CurIs, Zenon
    <3> QED BY <3>1, RecFields
  <2> DEFINE v2 == s.cur * 10 + Value(c)
  <2>2. \/ osc(s, c) = s
        \/ osc(s, c) = [s EXCEPT !.cur = 1]
        \/ osc(s, c) = [s EXCEPT !.cur = v2]
    BY <1>2, Zenon DEF osc
  <2> HIDE DEF v2
  <2>3. [s EXCEPT !.cur = 1].call = None /\ [s EXCEPT !.cur = v2].call = None
    BY <2>1
  <2> QED BY <2>2, <2>3
<1> QED BY <1>1, <1>2, Zenon

LEMMA dcsEnds ==
  ASSUME NEW s, IsParser(s), s.call = None, NEW c
  PROVE  /\ Ends(c) => dcs(s, c).state = "normal"
         /\ ~Ends(c) => dcs(s, c).call = None
<1>1. ASSUME Ends(c) PROVE dcs(s, c).state = "normal"
  <2> DEFINE n == CASE s.prefix = <<"$", "q">> -> "requestStatus"
                    [] s.prefix = <<"+", "q">> -> "requestTermcap"
                    [] OTHER -> "none"
             b == c = "ESC"
  <2>1. dcs(s, c) = [Calls(s, n) EXCEPT !.cur = 0, !.text = <<>>, !.prefix = <<>>, !.skip = b]
    BY <1>1, Zenon DEF dcs
  <2> HIDE DEF n, b
  <2>2. dcs(s, c) = Rec("normal", s.params, 0, <<>>, <<>>, s.postfix, s.gcharset, b, Call(n, s), s.csi)
    BY <2>1, DcsEndsIs, Zenon
  <2> QED BY <2>2, RecFields
<1>2. ASSUME ~Ends(c) PROVE dcs(s, c).call = None
  <2> DEFINE t == Append(s.text, c)
             v == Append(s.prefix, c)
  <2>1. dcs(s, c) = [s EXCEPT !.text = t] \/ dcs(s, c) = [s EXCEPT !.prefix = v]
    BY <1>2, Zenon DEF dcs
  <2> HIDE DEF t, v
  <2>2. [s EXCEPT !.text = t].call = None
    <3>1. [s EXCEPT !.text = t] = Rec(s.state, s.params, s.cur, t, s.prefix, s.postfix, s.gcharset,
                                      s.skip, s.call, s.csi)
      BY TextIs, Zenon
    <3> QED BY <3>1, RecFields
  <2>3. [s EXCEPT !.prefix = v].call = None
    <3>1. [s EXCEPT !.prefix = v] = Rec(s.state, s.params, s.cur, s.text, v, s.postfix, s.gcharset,
                                        s.skip, s.call, s.csi)
      BY PrefixIs, Zenon
    <3> QED BY <3>1, RecFields
  <2> QED BY <2>1, <2>2, <2>3, Zenon
<1> QED BY <1>1, <1>2, Zenon

\* These characters bring every state back to normal, or call nothing.
LEMMA Recovers ==
  ASSUME NEW s0, Sound(s0), NEW c \in Chars, c \in {"h", "BEL"}
  PROVE  /\ c = "h" => Feed(s0, c).state = "normal" \/ Feed(s0, c).call = None
         /\ c = "BEL" /\ ~s0.skip => Feed(s0, c).state = "normal"
<1> DEFINE s == Turn(s0)
<1>1. s.skip = FALSE /\ Ready(s) /\ s.call = None /\ (s0.skip => s.state = "normal")
  BY TurnFields, Zenon
<1>2. s.state \in States /\ IsParser(s)
  BY <1>1, ReadyFields, Zenon
<1>c. /\ s0.skip => Feed(s0, c) = s
      /\ ~s0.skip /\ s.state = "normal" => Feed(s0, c) = normal(s, c)
      /\ ~s0.skip /\ s.state = "escaped" => Feed(s0, c) = escaped(s, c)
      /\ ~s0.skip /\ s.state = "charset" => Feed(s0, c) = charset(s, c)
      /\ ~s0.skip /\ s.state = "osc" => Feed(s0, c) = osc(s, c)
      /\ ~s0.skip /\ s.state = "csi" => Feed(s0, c) = csi(s, c)
      /\ ~s0.skip /\ s.state = "dcs" => Feed(s0, c) = dcs(s, c)
      /\ ~s0.skip /\ s.state = "ignore" => Feed(s0, c) = ignore(s, c)
  BY FeedCases, Zenon
<1> HIDE DEF s
<1>n. ASSUME NEW n PROVE Calls(s, n).state = "normal"
  <2>1. Calls(s, n) = Rec("normal", s.params, s.cur, s.text, s.prefix, s.postfix, s.gcharset,
                          s.skip, Call(n, s), s.csi)
    BY <1>2, CallsIs, Zenon
  <2> QED BY <2>1, RecFields
<1>e. (Ends(c) <=> c = "BEL") /\ (c = "h" <=> ~Ends(c))
  BY DEF Ends
<1>3. CASE s0.skip
  BY <1>1, <1>3, <1>c, Zenon
<1>4. CASE ~s0.skip
  <2>1. CASE s.state = "normal"
    <3>1. normal(s, c) = Calls(s, IF c = "h" THEN "print" ELSE "bell")
      BY DEF normal
    <3> QED BY <1>4, <1>c, <1>n, <2>1, <3>1, Zenon
  <2>2. CASE s.state = "escaped"
    <3>1. /\ c \notin DOMAIN StartsSequence \cup {"_", "^", "c", "%", "#", "/"}
          /\ c \notin DOMAIN Designates \cup DOMAIN Shifts \cup DOMAIN Simple
      BY DEF StartsSequence, Designates, Shifts, Simple
    <3>2. escaped(s, c) = Calls(s, "unknown")
      BY <3>1, escapedCases, Zenon
    <3> QED BY <1>4, <1>c, <1>n, <2>2, <3>2, Zenon
  <2>3. CASE s.state = "charset"
    <3> DEFINE b == c = "/"
               z == [None EXCEPT !.name = "setgCharset", !.params = <<s.gcharset>>, !.prefix = <<c>>]
    <3>1. charset(s, c) = Rec("normal", s.params, s.cur, s.text, s.prefix, s.postfix, -1, b, z, s.csi)
      BY <1>2, CharsetIs, Zenon
    <3> HIDE DEF b, z
    <3>2. charset(s, c).state = "normal"
      BY <3>1, RecFields
    <3> QED BY <1>4, <1>c, <2>3, <3>2, Zenon
  <2>4. CASE s.state = "osc"
    <3>1. c # ";"
      OBVIOUS
    <3> QED BY <1>4, <1>c, <1>e, <2>4, <1>1, <1>2, <3>1, oscEnds, Zenon
  <2>5. CASE s.state = "csi"
    <3>1. Final(c)
      BY DEF Final, PrefixChars, Digits
    <3>2. ~s.skip
      BY <1>1
    <3> QED BY <1>1, <1>4, <1>c, <2>5, <3>1, <3>2, csiSound, Zenon
  <2>6. CASE s.state = "dcs"
    BY <1>4, <1>c, <1>e, <2>6, <1>1, <1>2, dcsEnds, Zenon
  <2>7. CASE s.state = "ignore"
    <3>1. CASE ~Ends(c)
      <4>1. ignore(s, c) = s
        BY <3>1, Zenon DEF ignore
      <4> QED BY <1>1, <1>4, <1>c, <1>e, <2>7, <3>1, <4>1, Zenon
    <3>2. CASE Ends(c)
      <4> DEFINE b == c = "ESC"
      <4>1. ignore(s, c) = [To(s, "normal") EXCEPT !.skip = b]
        BY <3>2, Zenon DEF ignore
      <4> HIDE DEF b
      <4>2. ignore(s, c) = Rec("normal", s.params, s.cur, s.text, s.prefix, s.postfix, s.gcharset, b,
                               s.call, s.csi)
        BY <1>2, <4>1, IgnoreEndsIs, Zenon
      <4>3. ignore(s, c).state = "normal"
        BY <4>2, RecFields
      <4> QED BY <1>4, <1>c, <1>e, <2>7, <4>3, Zenon
    <3> QED BY <3>1, <3>2, Zenon
  <2> QED BY <1>2, <2>1, <2>2, <2>3, <2>4, <2>5, <2>6, <2>7, Zenon DEF States
<1> QED BY <1>3, <1>4, Zenon

(***************************************************************************)
(* The inductive invariant of the specification.                           *)
(***************************************************************************)
Replies == {"ok", "cursor", "?cursor", "primary", "secondary", "requestStatus", "requestTermcap"}
QueueInv ==
    /\ timers \in 0..MaxTimers
    /\ queue \in Seq(Replies) /\ out \in Seq(Replies) /\ out \o queue = asked
    /\ Len(asked) <= MaxReplies
ParserInv == Sound(p) /\ host \in Hosts /\ writing \in BOOLEAN /\ QueueInv

LEMMA ReplyType == \A call : Reply(call) \in Replies \cup {"none"}
<1> SUFFICES ASSUME NEW call PROVE Reply(call) \in Replies \cup {"none"}
  OBVIOUS
<1>1. deviceStatus(call) \in {"ok", "cursor", "?cursor", "none"}
  BY Zenon DEF deviceStatus
<1>2. sendDeviceAttributes(call) \in {"primary", "secondary", "none"}
  <2> DEFINE g1 == First(call) > 0
             g2 == First(call) <= 0 /\ call.prefix = <<>>
             g3 == First(call) <= 0 /\ call.prefix = <<">">>
  <2>1. sendDeviceAttributes(call) = CASE g1 -> "none" [] g2 -> "primary" [] g3 -> "secondary"
                                       [] OTHER -> "none"
    BY Zenon DEF sendDeviceAttributes
  <2> HIDE DEF g1, g2, g3
  <2> QED BY <2>1
<1> DEFINE d == deviceStatus(call)
           a == sendDeviceAttributes(call)
           n == call.name
<1>3. Reply(call) = CASE n = "deviceStatus" -> d [] n = "sendDeviceAttributes" -> a
                      [] n \in {"requestStatus", "requestTermcap"} -> n [] OTHER -> "none"
  BY Zenon DEF Reply
<1> HIDE DEF d, a, n
<1>4. d \in Replies \cup {"none"} /\ a \in Replies \cup {"none"}
  BY <1>1, <1>2, Zenon DEF d, a, Replies
<1>5. "requestStatus" \in Replies \cup {"none"} /\ "requestTermcap" \in Replies \cup {"none"}
      /\ "none" \in Replies \cup {"none"}
  BY Zenon DEF Replies
<1> QED BY <1>3, <1>4, <1>5

\* Joining what was sent and what waits.
LEMMA Joined ==
  ASSUME NEW S, NEW o \in Seq(S), NEW q \in Seq(S)
  PROVE  /\ o \o q \in Seq(S) /\ Len(o \o q) = Len(o) + Len(q) /\ Len(o) \in Nat /\ Len(q) \in Nat
         /\ o \o <<>> = o
  OBVIOUS

LEMMA JoinedAppend ==
  ASSUME NEW S, NEW o \in Seq(S), NEW q \in Seq(S), NEW r \in S
  PROVE  o \o Append(q, r) = Append(o \o q, r)
  OBVIOUS

LEMMA SendQueue ==
  ASSUME QueueInv, NEW r \in Replies, send(r), out' = out
  PROVE  QueueInv'
<1>1. /\ Len(asked) < MaxReplies /\ timers < MaxTimers
      /\ timers' = (IF queue = <<>> THEN timers + 1 ELSE timers)
      /\ queue' = Append(queue, r) /\ asked' = Append(asked, r)
  BY Zenon DEF send
<1>2. /\ timers \in 0..MaxTimers /\ queue \in Seq(Replies) /\ out \in Seq(Replies)
      /\ out \o queue = asked
  BY Zenon DEF QueueInv
<1>a. asked \in Seq(Replies)
  BY <1>2, Joined, Zenon
<1>b. out \o Append(queue, r) = Append(out \o queue, r)
  BY <1>2, JoinedAppend
<1>3. asked \in Seq(Replies) /\ out \o Append(queue, r) = Append(asked, r)
  BY <1>2, <1>a, <1>b, Zenon
<1>4. timers' \in 0..MaxTimers
  BY <1>1, <1>2, ParserAssumption
<1>5. queue' \in Seq(Replies) /\ Len(asked') <= MaxReplies
  BY <1>1, <1>2, <1>3, ParserAssumption, AppendProperties, LenProperties
<1> QED BY <1>1, <1>2, <1>3, <1>4, <1>5, Zenon DEF QueueInv

LEMMA ResetQueue ==
  ASSUME QueueInv, queue' = <<>>, asked' = out, timers' = timers, out' = out
  PROVE  QueueInv'
<1>1. /\ timers \in 0..MaxTimers /\ queue \in Seq(Replies) /\ out \in Seq(Replies)
      /\ out \o queue = asked /\ Len(asked) <= MaxReplies
  BY Zenon DEF QueueInv
<1>2. /\ out \o <<>> = out /\ Len(asked) = Len(out) + Len(queue)
      /\ Len(out) \in Nat /\ Len(queue) \in Nat
  BY <1>1, Joined, Zenon
<1>3. Len(out) <= MaxReplies
  BY <1>1, <1>2, ParserAssumption
<1>4. <<>> \in Seq(Replies)
  BY EmptySeq
<1> QED BY <1>1, <1>2, <1>3, <1>4, Zenon DEF QueueInv

LEMMA FlushQueue ==
  ASSUME QueueInv, Flush
  PROVE  QueueInv'
<1>1. /\ timers \in 0..MaxTimers /\ queue \in Seq(Replies) /\ out \in Seq(Replies)
      /\ out \o queue = asked /\ Len(asked) <= MaxReplies
  BY Zenon DEF QueueInv
<1>2. /\ timers > 0 /\ timers' = timers - 1 /\ out' = out \o queue /\ queue' = <<>>
      /\ asked' = asked
  BY Zenon DEF Flush
<1>3. asked \in Seq(Replies) /\ <<>> \in Seq(Replies)
  BY <1>1, Joined, EmptySeq, Zenon
<1>4. asked \o <<>> = asked
  BY <1>3, Joined, Zenon
<1>5. timers' \in 0..MaxTimers
  BY <1>1, <1>2, ParserAssumption
<1> QED BY <1>1, <1>2, <1>3, <1>4, <1>5, Zenon DEF QueueInv

LEMMA EffectQueue ==
  ASSUME QueueInv, NEW call, NEW s, Effect(call, s), out' = out
  PROVE  QueueInv'
<1>1. CASE call.name = "reset"
  <2>1. queue' = <<>> /\ asked' = out /\ timers' = timers
    BY <1>1, Zenon DEF Effect
  <2> QED BY <2>1, ResetQueue, Zenon
<1>2. CASE call.name # "reset" /\ Reply(call) # "none"
  <2>1. send(Reply(call))
    BY <1>2, Zenon DEF Effect
  <2>2. Reply(call) \in Replies
    BY <1>2, ReplyType, Zenon
  <2> QED BY <2>1, <2>2, SendQueue, Zenon
<1>3. CASE call.name # "reset" /\ Reply(call) = "none"
  <2>1. queue' = queue /\ asked' = asked /\ timers' = timers
    BY <1>3, Zenon DEF Effect
  <2> QED BY <2>1, Zenon DEF QueueInv
<1> QED BY <1>1, <1>2, <1>3, Zenon

\* The parser after one character: the automaton's record, or the one a full
\* reset leaves for the alternate screen.
LEMMA CharSteps ==
  ASSUME NEW c, Char(c)
  PROVE  /\ writing' = writing /\ host' = host /\ out' = out
         /\ \E call : Effect(call, Feed(p, c))
         /\ \/ p' = Feed(p, c)
            \/ /\ Feed(p, c).call.name = "setMode" /\ c = "h"
               /\ p' = [Fresh EXCEPT !.call = Feed(p, c).call, !.csi = Feed(p, c).csi]
<1> DEFINE s == Feed(p, c)
<1>1. /\ \/ p' = s /\ Effect(s.call, s)
         \/ /\ s.call.name = "setMode" /\ AlternateScreenSet(s.call, c)
            /\ p' = [Fresh EXCEPT !.call = s.call, !.csi = s.csi]
            /\ Effect([None EXCEPT !.name = "reset"], s)
      /\ host' = host /\ writing' = writing /\ out' = out
  BY Zenon DEF Char
<1>2. AlternateScreenSet(s.call, c) => c = "h"
  BY ZenonT(40) DEF AlternateScreenSet
<1> HIDE DEF s
<1> QED BY <1>1, <1>2, Zenon DEF s

LEMMA CharSound ==
  ASSUME Sound(p), host \in Hosts, NEW c \in host, Char(c)
  PROVE  Sound(p')
<1> DEFINE s == Feed(p, c)
<1>1. c \in Chars
  BY Zenon DEF Chars
<1>2. Sound(s)
  BY <1>1, FeedSound, Zenon
<1>3. CASE p' = s
  BY <1>2, <1>3, Zenon
<1>4. CASE /\ s.call.name = "setMode" /\ c = "h"
           /\ p' = [Fresh EXCEPT !.call = s.call, !.csi = s.csi]
  <2>1. None.name = "none"
    BY DEF None
  <2>2. s.call # None
    BY <1>4, <2>1
  <2>3. s.state = "normal"
    <3>1. c \in {"h", "BEL"}
      BY <1>4, Zenon
    <3> QED BY <1>1, <1>4, <2>2, <3>1, Recovers, Zenon
  <2> HIDE DEF s
  <2>4. s.csi \in Seq(Chars)
    BY <1>2, FieldTypes, Zenon DEF Sound
  <2>5. s.csi # <<>> => s.call.params = RefParams(s.csi) /\ s.call.prefix = RefPrefix(s.csi)
    BY <1>2, <2>3, Zenon DEF Sound, Spells
  <2> DEFINE b == FALSE
             ca == s.call
             cs == s.csi
  <2>6. b \in BOOLEAN /\ b = FALSE /\ ~b
    BY Zenon
  <2>7. p' = [Fresh EXCEPT !.call = ca, !.csi = cs] /\ cs \in Seq(Chars)
        /\ (cs # <<>> => ca.params = RefParams(cs) /\ ca.prefix = RefPrefix(cs))
    BY <1>4, <2>4, <2>5, Zenon
  <2> HIDE DEF b, ca, cs
  <2>8. p' = Rec("normal", <<>>, 0, <<>>, <<>>, <<>>, -1, b, ca, cs)
    BY <2>6, <2>7, FreshCall, Zenon
  <2>9. "normal" \notin {"csi", "dcs"} /\ "normal" # "csi" /\ "normal" # "charset"
    OBVIOUS
  <2>10. Sound(Rec("normal", <<>>, 0, <<>>, <<>>, <<>>, -1, b, ca, cs))
    BY <2>6, <2>7, <2>9, Empties, RecSound, Zenon
  <2> QED BY <2>8, <2>10, Zenon
<1> HIDE DEF s
<1> QED BY <1>3, <1>4, CharSteps, Zenon DEF s

LEMMA ChunkSound ==
  ASSUME Sound(p), p' = [p EXCEPT !.skip = FALSE]
  PROVE  Sound(p')
<1> DEFINE b == FALSE
<1>1. b \in BOOLEAN /\ ~b
  BY Zenon
<1>2. p' = [p EXCEPT !.skip = b]
  BY Zenon
<1>3. IsParser(p) /\ Leakless(p) /\ InCsi(p) /\ Spells(p)
  BY Zenon DEF Sound
<1> HIDE DEF b
<1>4. p' = Rec(p.state, p.params, p.cur, p.text, p.prefix, p.postfix, p.gcharset, b, p.call, p.csi)
  BY <1>2, <1>3, SkipIs, Zenon
<1>5. Sound(Rec(p.state, p.params, p.cur, p.text, p.prefix, p.postfix, p.gcharset, b, p.call, p.csi))
  <2>1. /\ p.state \in States /\ p.params \in Seq(Nat) /\ p.cur \in Nat /\ p.text \in Seq(Chars)
        /\ p.prefix \in Seq(Chars) /\ p.postfix \in Seq(Chars) /\ p.gcharset \in -1..3
        /\ p.csi \in Seq(Chars)
    BY <1>3, FieldTypes, Zenon
  <2>2. /\ p.state \notin {"csi", "dcs"} => p.prefix = <<>>
        /\ p.state # "csi" => p.postfix = <<>>
        /\ p.gcharset # -1 <=> p.state = "charset"
        /\ p.state = "csi" => Reads(p.params, p.cur, p.prefix, p.csi)
    BY <1>3, Zenon DEF Leakless, InCsi
  <2>3. p.state = "normal" /\ p.csi # <<>> =>
          p.call.params = RefParams(p.csi) /\ p.call.prefix = RefPrefix(p.csi)
    BY <1>3, Zenon DEF Spells
  <2> QED BY <1>1, <2>1, <2>2, <2>3, RecSound, Zenon
<1> QED BY <1>4, <1>5, Zenon

LEMMA FreshSound == Sound(Fresh)
<1> DEFINE b == FALSE
           ca == None
<1>1. b \in BOOLEAN /\ ~b /\ b = FALSE
  BY Zenon
<1>2. Fresh = Rec("normal", <<>>, 0, <<>>, <<>>, <<>>, -1, FALSE, ca, <<>>)
  BY Zenon DEF Fresh, Rec
<1> HIDE DEF b, ca
<1>3. "normal" \notin {"csi", "dcs"} /\ "normal" # "csi" /\ "normal" # "charset"
  OBVIOUS
<1>4. Sound(Rec("normal", <<>>, 0, <<>>, <<>>, <<>>, -1, b, ca, <<>>))
  BY <1>1, <1>3, Empties, RecSound, Zenon
<1> QED BY <1>1, <1>2, <1>4, Zenon

LEMMA ParserInvInit == ParserInit => ParserInv
<1> SUFFICES ASSUME ParserInit PROVE ParserInv
  OBVIOUS
<1>1. /\ host \in Hosts /\ p = Fresh /\ writing = FALSE /\ queue = <<>> /\ timers = 0
      /\ asked = <<>> /\ out = <<>>
  BY Zenon DEF ParserInit
<1>2. QueueInv
  BY <1>1, ParserAssumption DEF QueueInv
<1> QED BY <1>1, <1>2, FreshSound, Zenon DEF ParserInv

LEMMA ParserInvNext == ParserInv /\ [ParserNext]_parserVars => ParserInv'
<1> SUFFICES ASSUME ParserInv, [ParserNext]_parserVars PROVE ParserInv'
  OBVIOUS
<1>0. Sound(p) /\ host \in Hosts /\ writing \in BOOLEAN /\ QueueInv
  BY Zenon DEF ParserInv
<1>1. CASE ChunkArrives
  BY <1>0, <1>1, Zenon DEF ChunkArrives, ParserInv, QueueInv
<1>2. CASE ChunkDone
  <2>1. /\ writing' = FALSE /\ p' = [p EXCEPT !.skip = FALSE] /\ host' = host /\ queue' = queue
        /\ timers' = timers /\ asked' = asked /\ out' = out
    BY <1>2, Zenon DEF ChunkDone
  <2>2. Sound(p')
    BY <1>0, <2>1, ChunkSound, Zenon
  <2>3. QueueInv'
    BY <1>0, <2>1, Zenon DEF QueueInv
  <2> QED BY <1>0, <2>1, <2>2, <2>3, Zenon DEF ParserInv
<1>3. CASE Flush
  <2>1. QueueInv'
    BY <1>0, <1>3, FlushQueue, Zenon
  <2>2. p' = p /\ host' = host /\ writing' = writing
    BY <1>3, Zenon DEF Flush
  <2> QED BY <1>0, <2>1, <2>2, Zenon DEF ParserInv
<1>4. ASSUME NEW c \in host, Char(c) PROVE ParserInv'
  <2>1. writing' = writing /\ host' = host /\ out' = out /\ \E call : Effect(call, Feed(p, c))
    BY <1>4, CharSteps, Zenon
  <2>2. Sound(p')
    BY <1>0, <1>4, CharSound, Zenon
  <2>3. QueueInv'
    BY <1>0, <2>1, EffectQueue, Zenon
  <2> QED BY <1>0, <2>1, <2>2, <2>3, Zenon DEF ParserInv
<1>5. CASE UNCHANGED parserVars
  BY <1>0, <1>5, Zenon DEF parserVars, ParserInv, QueueInv
<1> QED BY <1>1, <1>2, <1>3, <1>4, <1>5, Zenon DEF ParserNext

LEMMA ParserInvHolds == ParserSpec => []ParserInv
  BY ParserInvInit, ParserInvNext, PTL DEF ParserSpec

\* Whatever a host sends and however it is cut into chunks, what write() keeps
\* from one character to the next has the types its switch tests, a CSI sequence
\* calls its handler with the parameters and the prefix it spells, and no
\* prefix, postfix or designation outlives its sequence.
THEOREM ReadsSafe == ParserSpec => []SequencesRead
<1>1. ParserInv => SequencesRead
  <2> SUFFICES ASSUME ParserInv PROVE SequencesRead
    OBVIOUS
  <2>0. Sound(p) /\ host \in Hosts /\ writing \in BOOLEAN /\ QueueInv
    BY Zenon DEF ParserInv
  <2>1. IsParser(p) /\ Leakless(p) /\ Spells(p)
    BY <2>0, Zenon DEF Sound
  <2>2. /\ p.state \in States /\ p.params \in Seq(Nat) /\ p.cur \in Nat /\ p.gcharset \in -1..3
        /\ p.skip \in BOOLEAN
    BY <2>1, FieldTypes, Zenon
  <2>3. /\ timers \in 0..MaxTimers /\ queue \in Seq(Replies) /\ out \in Seq(Replies)
        /\ out \o queue = asked /\ Len(asked) <= MaxReplies
    BY <2>0, Zenon DEF QueueInv
  <2>4. Len(asked) = Len(out) + Len(queue) /\ Len(out) \in Nat /\ Len(queue) \in Nat
    BY <2>3, Joined, Zenon
  <2>5. Len(queue) <= MaxReplies
    BY <2>3, <2>4, ParserAssumption
  <2>6. ParserTypeOK
    BY <2>0, <2>2, <2>3, <2>5, Zenon DEF ParserTypeOK, States
  <2>7. CsiSpelled
    BY <2>1, Zenon DEF CsiSpelled, Spells
  <2>8. NothingLeaks
    <3>1. p.state \notin {"csi", "dcs"} => p.state # "csi"
      OBVIOUS
    <3> QED BY <2>1, <3>1, Zenon DEF NothingLeaks, Leakless
  <2> QED BY <2>6, <2>7, <2>8, Zenon DEF SequencesRead
<1> QED BY <1>1, ParserInvHolds, PTL

\* The replies a host is owed leave in the order in which it asked for them,
\* each once: what was handed to the connection, then what waits for the timer
\* of send(), is what was asked.
THEOREM RepliesOrdered == ParserSpec => []RepliesInOrder
<1>1. ParserInv => RepliesInOrder
  BY Zenon DEF ParserInv, QueueInv, RepliesInOrder
<1> QED BY <1>1, ParserInvHolds, PTL

\* From whatever state a broken sequence left the parser in, a BEL that is not
\* passed over brings it back to normal.
THEOREM BelAlwaysRecovers == ParserSpec => BelRecovers
<1>1. ParserInv /\ [ParserNext]_parserVars
        => [Char("BEL") /\ ~p.skip => p'.state = "normal"]_parserVars
  <2> SUFFICES ASSUME ParserInv, [ParserNext]_parserVars, Char("BEL"), ~p.skip,
                      ~UNCHANGED parserVars
               PROVE  p'.state = "normal"
    BY Zenon
  <2>0. Sound(p)
    BY Zenon DEF ParserInv
  <2>1. "BEL" # "h" /\ "BEL" \in {"h", "BEL"}
    OBVIOUS
  <2>2. p' = Feed(p, "BEL")
    BY <2>1, CharSteps, Zenon
  <2>3. "BEL" \in Chars
    BY Zenon DEF Chars
  <2> QED BY <2>0, <2>1, <2>2, <2>3, Recovers, Zenon
<1> QED BY <1>1, ParserInvHolds, PTL DEF ParserSpec, BelRecovers

(***************************************************************************)
(* The mouse reports.                                                      *)
(***************************************************************************)
\* what getButton can give
PressCodes == 32..255
MouseRecord ==
    [x10Mouse : BOOLEAN, vt200Mouse : BOOLEAN, normalMouse : BOOLEAN,
     mouseEvents : BOOLEAN, sendFocus : BOOLEAN, coding : SUBSET Codings,
     pressed : PressCodes, moving : BOOLEAN,
     ups : 0..MaxUps, focused : BOOLEAN, owed : 0..MaxUps, orphan : BOOLEAN,
     told : Seq({"I", "O"}), stray : BOOLEAN, refocus : BOOLEAN]

SameModes(q, r) ==
    /\ q.x10Mouse = r.x10Mouse /\ q.vt200Mouse = r.vt200Mouse /\ q.normalMouse = r.normalMouse
    /\ q.mouseEvents = r.mouseEvents
SameFocus(q, r) == q.sendFocus = r.sendFocus /\ q.focused = r.focused /\ q.told = r.told
SameReports(q, r) ==
    /\ q.moving = r.moving /\ q.ups = r.ups /\ q.owed = r.owed
    /\ q.orphan = r.orphan /\ q.stray = r.stray /\ q.pressed = r.pressed

WithModes(r, a, b, c, d) ==
    [r EXCEPT !.x10Mouse = a, !.vt200Mouse = b, !.normalMouse = c, !.mouseEvents = d]
WithFocus(r, told, focused) == [r EXCEPT !.told = told, !.focused = focused]
WithPress(r, pressed, owed) == [r EXCEPT !.pressed = pressed, !.owed = owed]
WithOwed(r, owed) == [r EXCEPT !.owed = owed]
WithBound(r, moving, ups) == [r EXCEPT !.moving = moving, !.ups = ups]
WithUp(r, ups, moving, orphan, stray) ==
    [r EXCEPT !.ups = ups, !.moving = moving, !.orphan = orphan, !.stray = stray]

LEMMA ModesType ==
  ASSUME NEW r \in MouseRecord, NEW a \in BOOLEAN, NEW b \in BOOLEAN, NEW c \in BOOLEAN,
         NEW d \in BOOLEAN
  PROVE  WithModes(r, a, b, c, d) \in MouseRecord
<1> DEFINE r1 == [r EXCEPT !.x10Mouse = a]
           r2 == [r1 EXCEPT !.vt200Mouse = b]
           r3 == [r2 EXCEPT !.normalMouse = c]
           r4 == [r3 EXCEPT !.mouseEvents = d]
<1>1. r1 \in MouseRecord
  BY Zenon DEF MouseRecord
<1> HIDE DEF r1
<1>2. r2 \in MouseRecord
  BY <1>1, Zenon DEF MouseRecord
<1> HIDE DEF r2
<1>3. r3 \in MouseRecord
  BY <1>2, Zenon DEF MouseRecord
<1> HIDE DEF r3
<1>4. r4 \in MouseRecord
  BY <1>3, Zenon DEF MouseRecord
<1> QED BY <1>4, Zenon DEF r1, r2, r3, r4, WithModes

LEMMA FocusType ==
  ASSUME NEW r \in MouseRecord, NEW told \in Seq({"I", "O"}), NEW focused \in BOOLEAN
  PROVE  WithFocus(r, told, focused) \in MouseRecord
  BY Zenon DEF WithFocus, MouseRecord
LEMMA OneFieldType ==
  ASSUME NEW r \in MouseRecord
  PROVE  /\ \A c \in SUBSET Codings : [r EXCEPT !.coding = c] \in MouseRecord
         /\ \A b \in BOOLEAN : [r EXCEPT !.refocus = b] \in MouseRecord
         /\ \A b \in BOOLEAN : [r EXCEPT !.stray = b] \in MouseRecord
         /\ \A b \in BOOLEAN : [r EXCEPT !.sendFocus = b] \in MouseRecord
         /\ \A t \in Seq({"I", "O"}) : [r EXCEPT !.told = t] \in MouseRecord
<1>1. \A c \in SUBSET Codings : [r EXCEPT !.coding = c] \in MouseRecord
  BY Zenon DEF MouseRecord
<1>2. \A b \in BOOLEAN : [r EXCEPT !.refocus = b] \in MouseRecord
  BY Zenon DEF MouseRecord
<1>3. \A b \in BOOLEAN : [r EXCEPT !.stray = b] \in MouseRecord
  BY Zenon DEF MouseRecord
<1>4. \A b \in BOOLEAN : [r EXCEPT !.sendFocus = b] \in MouseRecord
  BY Zenon DEF MouseRecord
<1>5. \A t \in Seq({"I", "O"}) : [r EXCEPT !.told = t] \in MouseRecord
  BY Zenon DEF MouseRecord
<1> QED BY <1>1, <1>2, <1>3, <1>4, <1>5
LEMMA PressType ==
  ASSUME NEW r \in MouseRecord, NEW pressed \in PressCodes, NEW owed \in 0..MaxUps
  PROVE  WithPress(r, pressed, owed) \in MouseRecord
  BY Zenon DEF WithPress, MouseRecord
LEMMA BoundType ==
  ASSUME NEW r \in MouseRecord, NEW moving \in BOOLEAN, NEW ups \in 0..MaxUps
  PROVE  WithBound(r, moving, ups) \in MouseRecord
  BY Zenon DEF WithBound, MouseRecord
LEMMA UpType ==
  ASSUME NEW r \in MouseRecord, NEW ups \in 0..MaxUps, NEW moving \in BOOLEAN,
         NEW orphan \in BOOLEAN, NEW stray \in BOOLEAN
  PROVE  WithUp(r, ups, moving, orphan, stray) \in MouseRecord
<1> DEFINE r1 == [r EXCEPT !.ups = ups, !.moving = moving]
           r2 == [r1 EXCEPT !.orphan = orphan, !.stray = stray]
<1>1. r1 \in MouseRecord
  BY Zenon DEF MouseRecord
<1> HIDE DEF r1
<1>2. r2 \in MouseRecord
  BY <1>1, Zenon DEF MouseRecord
<1> QED BY <1>2, Zenon DEF r1, r2, WithUp

LEMMA ModesFields ==
  ASSUME NEW r \in MouseRecord, NEW a, NEW b, NEW c, NEW d
  PROVE  LET q == WithModes(r, a, b, c, d)
         IN /\ SameFocus(q, r) /\ SameReports(q, r)
            /\ q.x10Mouse = a /\ q.vt200Mouse = b /\ q.normalMouse = c /\ q.mouseEvents = d
  BY SMT DEF MouseRecord, WithModes, SameFocus, SameReports
LEMMA FocusFields ==
  ASSUME NEW r \in MouseRecord, NEW told, NEW focused
  PROVE  LET q == WithFocus(r, told, focused)
         IN /\ SameModes(q, r) /\ SameReports(q, r) /\ q.sendFocus = r.sendFocus
            /\ q.told = told /\ q.focused = focused
  BY SMT DEF MouseRecord, WithFocus, SameModes, SameReports
LEMMA PressFields ==
  ASSUME NEW r \in MouseRecord, NEW pressed, NEW owed
  PROVE  LET q == WithPress(r, pressed, owed)
         IN /\ SameModes(q, r) /\ SameFocus(q, r)
            /\ q.moving = r.moving /\ q.ups = r.ups /\ q.orphan = r.orphan /\ q.stray = r.stray
            /\ q.pressed = pressed /\ q.owed = owed
  BY SMT DEF MouseRecord, WithPress, SameModes, SameFocus
LEMMA BoundFields ==
  ASSUME NEW r \in MouseRecord, NEW moving, NEW ups
  PROVE  LET q == WithBound(r, moving, ups)
         IN /\ SameModes(q, r) /\ SameFocus(q, r)
            /\ q.owed = r.owed /\ q.orphan = r.orphan /\ q.stray = r.stray /\ q.pressed = r.pressed
            /\ q.moving = moving /\ q.ups = ups
  BY SMT DEF MouseRecord, WithBound, SameModes, SameFocus
LEMMA UpFields ==
  ASSUME NEW r \in MouseRecord, NEW ups, NEW moving, NEW orphan, NEW stray
  PROVE  LET q == WithUp(r, ups, moving, orphan, stray)
         IN /\ SameModes(q, r) /\ SameFocus(q, r)
            /\ q.owed = r.owed /\ q.pressed = r.pressed
            /\ q.ups = ups /\ q.moving = moving /\ q.orphan = orphan /\ q.stray = stray
  BY SMT DEF MouseRecord, WithUp, SameModes, SameFocus
LEMMA OwedFields ==
  ASSUME NEW r \in MouseRecord, NEW owed \in 0..MaxUps
  PROVE  LET q == WithOwed(r, owed)
         IN /\ q \in MouseRecord /\ SameModes(q, r) /\ SameFocus(q, r)
            /\ q.moving = r.moving /\ q.ups = r.ups /\ q.orphan = r.orphan /\ q.stray = r.stray
            /\ q.pressed = r.pressed /\ q.owed = owed
<1>1. WithOwed(r, owed) \in MouseRecord
  BY Zenon DEF WithOwed, MouseRecord
<1> QED BY <1>1, SMT DEF MouseRecord, WithOwed, SameModes, SameFocus

(***************************************************************************)
(* The invariant                                                           *)
(***************************************************************************)
ModesOK(r) ==
    /\ r.mouseEvents <=> r.x10Mouse \/ r.vt200Mouse \/ r.normalMouse
    /\ ~(r.x10Mouse /\ r.vt200Mouse) /\ ~(r.x10Mouse /\ r.normalMouse)
    /\ ~(r.vt200Mouse /\ r.normalMouse)
ReportsOK(r) ==
    r.owed = r.ups /\ (r.stray => r.orphan) /\ (r.moving /\ r.ups = 0 => r.orphan)
Alternate(t) == \A i \in 1..Len(t) - 1 : t[i] # t[i + 1]
FocusOK(r) ==
    /\ Alternate(r.told)
    /\ r.told # <<>> => (Last(r.told) = "I" <=> r.focused)
    /\ ~r.sendFocus => r.told = <<>>

MouseInv == m \in MouseRecord /\ ModesOK(m) /\ ReportsOK(m) /\ FocusOK(m)

LEMMA ModesKept == ASSUME NEW q, NEW r, SameModes(q, r), ModesOK(r) PROVE ModesOK(q)
  BY SMT DEF SameModes, ModesOK
LEMMA FocusKept == ASSUME NEW q, NEW r, SameFocus(q, r), FocusOK(r) PROVE FocusOK(q)
  BY SMT DEF SameFocus, FocusOK
LEMMA ReportsKept == ASSUME NEW q, NEW r, SameReports(q, r), ReportsOK(r) PROVE ReportsOK(q)
  BY SMT DEF SameReports, ReportsOK

LEMMA MouseInitInv == MouseInit => MouseInv
<1> SUFFICES ASSUME MouseInit PROVE MouseInv
  OBVIOUS
<1>1. m \in MouseRecord
  BY MouseAssumption DEF MouseInit, FreshMouse, MouseRecord, PressCodes
<1>2. ModesOK(m) /\ ReportsOK(m)
  BY DEF MouseInit, FreshMouse, ModesOK, ReportsOK
<1>3. FocusOK(m)
  BY DEF MouseInit, FreshMouse, FocusOK, Alternate
<1> QED BY <1>1, <1>2, <1>3 DEF MouseInv

LEMMA SetMouseInv ==
  ASSUME MouseInv, NEW md \in TrackModes, SetMouse(md)
  PROVE  MouseInv'
<1> DEFINE a == md = 9 b == md = 1000 c == md > 1000 d == TRUE
<1>a. a \in BOOLEAN /\ b \in BOOLEAN /\ c \in BOOLEAN /\ d \in BOOLEAN
  BY DEF TrackModes
<1>b. m' = WithModes(m, a, b, c, d)
  BY DEF SetMouse, WithModes
<1>c. (d <=> a \/ b \/ c) /\ ~(a /\ b) /\ ~(a /\ c) /\ ~(b /\ c)
  BY DEF TrackModes
<1> HIDE DEF a, b, c, d
<1>1. m' \in MouseRecord
  BY <1>a, <1>b, ModesType, SMT DEF MouseInv
<1>2. /\ SameFocus(m', m) /\ SameReports(m', m)
      /\ m'.x10Mouse = a /\ m'.vt200Mouse = b /\ m'.normalMouse = c /\ m'.mouseEvents = d
  BY <1>b, ModesFields, SMT DEF MouseInv
<1>3. ModesOK(m')
  BY <1>2, <1>c, SMT DEF ModesOK
<1>4. FocusOK(m') /\ ReportsOK(m')
  BY <1>2, FocusKept, ReportsKept, Zenon DEF MouseInv
<1> QED BY <1>1, <1>3, <1>4 DEF MouseInv

LEMMA ResetMouseInv == ASSUME MouseInv, ResetMouse PROVE MouseInv'
<1> DEFINE n == FALSE
<1>a. n \in BOOLEAN
  OBVIOUS
<1>b. m' = WithModes(m, n, n, n, n)
  BY DEF ResetMouse, WithModes
<1>c. ~n
  OBVIOUS
<1> HIDE DEF n
<1>1. m' \in MouseRecord
  BY <1>a, <1>b, ModesType, SMT DEF MouseInv
<1>2. /\ SameFocus(m', m) /\ SameReports(m', m)
      /\ m'.x10Mouse = n /\ m'.vt200Mouse = n /\ m'.normalMouse = n /\ m'.mouseEvents = n
  BY <1>b, ModesFields, SMT DEF MouseInv
<1>3. ModesOK(m')
  BY <1>2, <1>c, SMT DEF ModesOK
<1> QED BY <1>1, <1>2, <1>3, FocusKept, ReportsKept, Zenon DEF MouseInv

LEMMA SetCodingInv == ASSUME MouseInv, NEW c \in Codings, SetCoding(c) PROVE MouseInv'
<1> DEFINE z == IF c \in m.coding THEN m.coding \ {c} ELSE m.coding \cup {c}
<1>a. m.coding \in SUBSET Codings
  BY SMT DEF MouseInv, MouseRecord
<1>b. z \in SUBSET Codings
  BY <1>a, Zenon
<1>c. m' = [m EXCEPT !.coding = z]
  BY DEF SetCoding
<1> HIDE DEF z
<1>1. m' \in MouseRecord
  BY <1>b, <1>c, OneFieldType, Zenon DEF MouseInv
<1>2. SameModes(m', m) /\ SameFocus(m', m) /\ SameReports(m', m)
  BY <1>c, SMT DEF MouseInv, MouseRecord, SameModes, SameFocus, SameReports
<1> QED BY <1>1, <1>2, ModesKept, FocusKept, ReportsKept, Zenon DEF MouseInv

LEMMA SetFocusInv == ASSUME MouseInv, SetFocus PROVE MouseInv'
<1> DEFINE z == ~m.sendFocus
<1>a. z \in BOOLEAN
  OBVIOUS
<1>b. m' = [m EXCEPT !.sendFocus = z, !.told = <<>>]
  BY DEF SetFocus
<1>c. <<>> \in Seq({"I", "O"})
  OBVIOUS
<1> HIDE DEF z
<1>1. m' \in MouseRecord
  <2> DEFINE none == <<>>
             q == [m EXCEPT !.sendFocus = z]
  <2>1. q \in MouseRecord
    BY <1>a, OneFieldType, Zenon DEF MouseInv
  <2>2. m' = [q EXCEPT !.told = none]
    BY <1>b, Zenon
  <2>3. none \in Seq({"I", "O"})
    BY <1>c
  <2> HIDE DEF q, none
  <2> QED BY <2>1, <2>2, <2>3, OneFieldType, Zenon
<1>2. SameModes(m', m) /\ SameReports(m', m) /\ m'.told = <<>>
  BY <1>b, SMT DEF MouseInv, MouseRecord, SameModes, SameReports
<1>3. FocusOK(m')
  BY <1>2, SMT DEF FocusOK, Alternate
<1> QED BY <1>1, <1>2, <1>3, ModesKept, ReportsKept, Zenon DEF MouseInv

(***************************************************************************)
(* Focus                                                                   *)
(***************************************************************************)
LEMMA ToldMore ==
  ASSUME NEW t \in Seq({"I", "O"}), Alternate(t), NEW x \in {"I", "O"},
         t # <<>> => Last(t) # x
  PROVE  Alternate(Append(t, x)) /\ Append(t, x) # <<>> /\ Last(Append(t, x)) = x
         /\ Append(t, x) \in Seq({"I", "O"})
<1>1. /\ Len(Append(t, x)) = Len(t) + 1 /\ Append(t, x)[Len(t) + 1] = x
      /\ \A i \in 1..Len(t) : Append(t, x)[i] = t[i]
      /\ Append(t, x) \in Seq({"I", "O"})
  OBVIOUS
<1>2. Append(t, x) # <<>> /\ Last(Append(t, x)) = x
  BY <1>1 DEF Last
<1>3. ASSUME NEW i \in 1..Len(Append(t, x)) - 1
      PROVE  Append(t, x)[i] # Append(t, x)[i + 1]
  <2>1. CASE i = Len(t)
    <3>1. t # <<>> /\ t[i] = Last(t)
      BY <2>1, <1>3, <1>1 DEF Last
    <3> QED BY <3>1, <2>1, <1>1, <1>3
  <2>2. CASE i # Len(t)
    BY <2>2, <1>1, <1>3 DEF Alternate
  <2> QED BY <2>1, <2>2
<1> QED BY <1>1, <1>2, <1>3 DEF Alternate

LEMMA FocusIs ==
  ASSUME NEW r \in MouseRecord, FocusOK(r)
  PROVE  /\ focus(r) \in MouseRecord /\ FocusOK(focus(r))
         /\ SameModes(focus(r), r) /\ SameReports(focus(r), r)
<1>1. CASE r.focused
  BY <1>1 DEF focus, SameModes, SameReports
<1>2. CASE ~r.focused
  <2> DEFINE t == IF r.sendFocus THEN Append(r.told, "I") ELSE r.told
             yes == TRUE
  <2>1. focus(r) = WithFocus(r, t, yes)
    BY <1>2 DEF focus, WithFocus
  <2>2. r.told \in Seq({"I", "O"}) /\ Alternate(r.told) /\ (~r.sendFocus => r.told = <<>>)
    BY SMT DEF MouseRecord, FocusOK
  <2>3. r.told # <<>> => Last(r.told) # "I"
    BY <1>2 DEF FocusOK
  <2>4. /\ t \in Seq({"I", "O"}) /\ Alternate(t)
        /\ (t # <<>> => Last(t) = "I") /\ (~r.sendFocus => t = <<>>)
    BY <2>2, <2>3, ToldMore
  <2>5. yes \in BOOLEAN
    OBVIOUS
  <2>y. yes = TRUE
    OBVIOUS
  <2> HIDE DEF t, yes
  <2>6. focus(r) \in MouseRecord
    BY <2>1, <2>4, <2>5, FocusType, SMT
  <2>7. /\ SameModes(focus(r), r) /\ SameReports(focus(r), r)
        /\ focus(r).sendFocus = r.sendFocus /\ focus(r).told = t /\ focus(r).focused = yes
    BY <2>1, FocusFields, SMT
  <2>z. focus(r).focused
    BY <2>y, <2>7, SMT
  <2>8. FocusOK(focus(r))
    BY <2>4, <2>z, <2>7, SMT DEF FocusOK
  <2> QED BY <2>6, <2>7, <2>8
<1> QED BY <1>1, <1>2

LEMMA BlurIs ==
  ASSUME NEW r \in MouseRecord, FocusOK(r)
  PROVE  /\ blur(r) \in MouseRecord /\ FocusOK(blur(r))
         /\ SameModes(blur(r), r) /\ SameReports(blur(r), r)
<1>1. CASE ~r.focused
  BY <1>1 DEF blur, SameModes, SameReports
<1>2. CASE r.focused
  <2> DEFINE t == IF r.sendFocus THEN Append(r.told, "O") ELSE r.told
             no == FALSE
  <2>1. blur(r) = WithFocus(r, t, no)
    BY <1>2 DEF blur, WithFocus
  <2>2. r.told \in Seq({"I", "O"}) /\ Alternate(r.told) /\ (~r.sendFocus => r.told = <<>>)
    BY SMT DEF MouseRecord, FocusOK
  <2>3. r.told # <<>> => Last(r.told) # "O"
    BY <1>2 DEF FocusOK
  <2>4. /\ t \in Seq({"I", "O"}) /\ Alternate(t)
        /\ (t # <<>> => Last(t) # "I") /\ (~r.sendFocus => t = <<>>)
    BY <2>2, <2>3, ToldMore
  <2>5. no \in BOOLEAN /\ ~no
    OBVIOUS
  <2> HIDE DEF t, no
  <2>6. blur(r) \in MouseRecord
    BY <2>1, <2>4, <2>5, FocusType, SMT
  <2>7. /\ SameModes(blur(r), r) /\ SameReports(blur(r), r)
        /\ blur(r).sendFocus = r.sendFocus /\ blur(r).told = t /\ blur(r).focused = no
    BY <2>1, FocusFields, SMT
  <2>8. FocusOK(blur(r))
    BY <2>4, <2>5, <2>7, SMT DEF FocusOK
  <2> QED BY <2>6, <2>7, <2>8
<1> QED BY <1>1, <1>2

LEMMA ElsewhereInv == ASSUME MouseInv, Elsewhere PROVE MouseInv'
<1>1. m \in MouseRecord /\ FocusOK(m) /\ ModesOK(m) /\ ReportsOK(m)
  BY DEF MouseInv
<1>2. m' \in MouseRecord /\ FocusOK(m') /\ SameModes(m', m) /\ SameReports(m', m)
  BY <1>1, BlurIs DEF Elsewhere
<1> QED BY <1>1, <1>2, ModesKept, ReportsKept, Zenon DEF MouseInv

LEMMA CopyInv == ASSUME MouseInv, Copy PROVE MouseInv'
<1> DEFINE yes == TRUE
<1>a. yes \in BOOLEAN
  OBVIOUS
<1>b. m' = [m EXCEPT !.refocus = yes]
  BY DEF Copy
<1> HIDE DEF yes
<1>1. m' \in MouseRecord
  BY <1>a, <1>b, OneFieldType, Zenon DEF MouseInv
<1>2. SameModes(m', m) /\ SameFocus(m', m) /\ SameReports(m', m)
  BY <1>b, SMT DEF MouseInv, MouseRecord, SameModes, SameFocus, SameReports
<1> QED BY <1>1, <1>2, ModesKept, FocusKept, ReportsKept, Zenon DEF MouseInv

LEMMA RefocusInv == ASSUME MouseInv, Refocus PROVE MouseInv'
<1> DEFINE no == FALSE
           f == focus(m)
<1>a. no \in BOOLEAN
  OBVIOUS
<1>b. m' = [f EXCEPT !.refocus = no]
  BY DEF Refocus
<1>c. f \in MouseRecord /\ FocusOK(f) /\ SameModes(f, m) /\ SameReports(f, m)
  BY FocusIs DEF MouseInv
<1> HIDE DEF no, f
<1>1. m' \in MouseRecord
  BY <1>a, <1>b, <1>c, OneFieldType, Zenon
<1>2. SameModes(m', f) /\ SameFocus(m', f) /\ SameReports(m', f)
  BY <1>b, <1>c, SMT DEF MouseRecord, SameModes, SameFocus, SameReports
<1>3. ModesOK(f) /\ ReportsOK(f)
  BY <1>c, ModesKept, ReportsKept, Zenon DEF MouseInv
<1> QED BY <1>1, <1>2, <1>3, <1>c, ModesKept, FocusKept, ReportsKept, Zenon DEF MouseInv

(***************************************************************************)
(* Presses, motion, releases                                               *)
(***************************************************************************)
LEMMA ButtonCode ==
  ASSUME NEW s, NEW type, NEW b \in Buttons, NEW mod \in Mods
  PROVE  getButton(s, type, b, mod) \in PressCodes
  BY MouseAssumption DEF getButton, Buttons, PressCodes

LEMMA PressIs ==
  ASSUME NEW s, NEW b, NEW mod
  PROVE  Report(s, "mousedown", b, mod)
           = WithPress(s, getButton(s, "mousedown", b, mod), IF s.x10Mouse THEN s.owed ELSE s.owed + 1)
  BY DEF Report, WithPress
LEMMA ReleaseIs ==
  ASSUME NEW s, NEW b, NEW mod
  PROVE  Report(s, "mouseup", b, mod) = WithPress(s, 32, s.owed - 1)
  BY DEF Report, WithPress
LEMMA BoundIs ==
  ASSUME NEW s
  PROVE  Bound(s) = WithBound(s, s.moving \/ s.normalMouse, IF s.x10Mouse THEN s.ups ELSE s.ups + 1)
  BY DEF Bound, WithBound

\* A press, the release that follows at once in the vt200 mode, the listener
\* that waits for it in the others: each press told of stays matched.
LEMMA MouseDownInv ==
  ASSUME MouseInv, NEW b \in Buttons, NEW mod \in Mods, MouseDown(b, mod)
  PROVE  MouseInv'
<1> DEFINE f == focus(m)
           r == Report(f, "mousedown", b, mod)
<1>1. /\ m.ups < MaxUps
      /\ m' = IF ~m.mouseEvents THEN f
              ELSE IF m.vt200Mouse THEN Report(r, "mouseup", b, mod) ELSE Bound(r)
  BY DEF MouseDown, mousedown
<1>2. /\ f \in MouseRecord /\ FocusOK(f) /\ ModesOK(f) /\ ReportsOK(f)
      /\ f.ups = m.ups /\ f.mouseEvents = m.mouseEvents /\ f.vt200Mouse = m.vt200Mouse
  <2>1. f \in MouseRecord /\ FocusOK(f) /\ SameModes(f, m) /\ SameReports(f, m)
    BY FocusIs DEF MouseInv
  <2> QED BY <2>1, ModesKept, ReportsKept DEF MouseInv, SameReports, SameModes
<1>f. f \in MouseRecord
  BY <1>2
<1> HIDE DEF f
<1>3. CASE ~f.mouseEvents
  <2>1. m' = f
    BY <1>1, <1>2, <1>3
  <2> QED BY <2>1, <1>2, Zenon DEF MouseInv
<1>4. CASE f.mouseEvents
  <2> DEFINE button == getButton(f, "mousedown", b, mod)
             owed == IF f.x10Mouse THEN f.owed ELSE f.owed + 1
  <2>1. r = WithPress(f, button, owed)
    BY PressIs
  <2>2. button \in PressCodes
    BY ButtonCode
  <2>3. f.owed \in 0..MaxUps /\ f.ups \in 0..MaxUps /\ f.owed = f.ups /\ f.ups < MaxUps
    BY <1>1, <1>2, SMT DEF MouseRecord, ReportsOK
  <2>4. owed \in 0..MaxUps
    BY <2>3, MouseAssumption
  <2>o. owed = IF f.x10Mouse THEN f.owed ELSE f.owed + 1
    OBVIOUS
  <2> HIDE DEF button, owed, r
  <2>5. r \in MouseRecord
    BY <2>1, <2>2, <2>4, <1>f, PressType
  <2>6. /\ SameModes(r, f) /\ SameFocus(r, f)
        /\ r.moving = f.moving /\ r.ups = f.ups /\ r.orphan = f.orphan /\ r.stray = f.stray
        /\ r.owed = owed
    BY <2>1, <1>2, PressFields, SMT
  <2>7. ModesOK(r) /\ FocusOK(r)
    BY <2>6, <1>2, ModesKept, FocusKept, Zenon
  <2>8. CASE f.vt200Mouse
    <3>1. m' = WithPress(r, 32, r.owed - 1)
      BY <1>1, <1>2, <1>4, <2>8, ReleaseIs
    <3>2. ~f.x10Mouse
      BY <2>8, <1>2 DEF ModesOK
    <3>3. r.owed = f.owed + 1 /\ r.owed - 1 = f.owed
      BY <3>2, <2>6, <2>o, <2>3
    <3>4. m' \in MouseRecord
      <4>1. 32 \in PressCodes
        BY DEF PressCodes
      <4> QED BY <3>1, <3>3, <2>3, <2>5, <4>1, PressType, SMT
    <3>5. /\ SameModes(m', r) /\ SameFocus(m', r)
          /\ m'.moving = r.moving /\ m'.ups = r.ups /\ m'.orphan = r.orphan /\ m'.stray = r.stray
          /\ m'.owed = f.owed
      BY <3>1, <3>3, <2>5, PressFields, SMT
    <3>6. SameReports(m', f) \/ ReportsOK(m')
      BY <3>5, <2>6, <1>2, SMT DEF ReportsOK
    <3>7. ReportsOK(m')
      BY <3>6, <1>2, ReportsKept, Zenon
    <3> QED BY <3>4, <3>5, <3>7, <2>7, ModesKept, FocusKept, Zenon DEF MouseInv
  <2>9. CASE ~f.vt200Mouse
    <3> DEFINE moving == r.moving \/ r.normalMouse
               ups == IF r.x10Mouse THEN r.ups ELSE r.ups + 1
    <3>1. m' = WithBound(r, moving, ups)
      BY <1>1, <1>2, <1>4, <2>9, BoundIs
    <3>2. moving \in BOOLEAN
      OBVIOUS
    <3>3. ups \in 0..MaxUps
      BY <2>3, <2>6, MouseAssumption
    <3>4. ups = IF r.x10Mouse THEN r.ups ELSE r.ups + 1
      OBVIOUS
    <3>5. moving <=> r.moving \/ r.normalMouse
      OBVIOUS
    <3> HIDE DEF moving, ups
    <3>6. m' \in MouseRecord
      BY <3>1, <3>2, <3>3, <2>5, BoundType, SMT
    <3>7. /\ SameModes(m', r) /\ SameFocus(m', r)
          /\ m'.owed = r.owed /\ m'.orphan = r.orphan /\ m'.stray = r.stray
          /\ m'.moving = moving /\ m'.ups = ups
      BY <3>1, <2>5, BoundFields, SMT
    <3>8. r.x10Mouse <=> f.x10Mouse
      BY <2>6 DEF SameModes
    <3>9. m'.owed = m'.ups /\ (m'.stray => m'.orphan)
      BY <3>4, <3>7, <3>8, <2>6, <2>o, <2>3, <1>2, SMT DEF ReportsOK
    <3>10. m'.moving /\ m'.ups = 0 => m'.orphan
      <4>1. CASE r.x10Mouse
        <5>1. ~r.normalMouse
          BY <4>1, <2>7 DEF ModesOK
        <5> QED BY <5>1, <4>1, <3>4, <3>5, <3>7, <2>6, <1>2, SMT DEF ReportsOK
      <4>2. CASE ~r.x10Mouse
        BY <4>2, <3>4, <3>7, <2>3, <2>6, SMT
      <4> QED BY <4>1, <4>2
    <3>11. ReportsOK(m')
      BY <3>9, <3>10 DEF ReportsOK
    <3> QED BY <3>6, <3>7, <3>11, <2>7, ModesKept, FocusKept, Zenon DEF MouseInv
  <2> QED BY <2>8, <2>9
<1> QED BY <1>3, <1>4

\* The listeners of all presses report and go, and with them what was owed.
LEMMA MouseUpInv == ASSUME MouseInv, MouseUp PROVE MouseInv'
<1> DEFINE s == WithOwed(m, m.owed - (m.ups - 1))
           r == Report(s, "mouseup", 0, 0)
           moving == m.moving /\ ~m.normalMouse
           no == FALSE
<1>1. m.ups > 0 /\ m' = mouseup(m)
  BY DEF MouseUp
<1>2. m \in MouseRecord /\ ModesOK(m) /\ ReportsOK(m) /\ FocusOK(m)
  BY DEF MouseInv
<1>3. m.owed \in 0..MaxUps /\ m.ups \in 0..MaxUps /\ m.owed = m.ups
  BY <1>2, SMT DEF MouseRecord, ReportsOK
<1>4. m.owed - (m.ups - 1) = 1 /\ 1 \in 0..MaxUps
  BY <1>1, <1>3, MouseAssumption
<1>5. r = WithPress(s, 32, s.owed - 1)
  BY ReleaseIs
<1>6. /\ s \in MouseRecord /\ SameModes(s, m) /\ SameFocus(s, m) /\ s.owed = 1
      /\ s.moving = m.moving
  BY <1>2, <1>4, OwedFields, SMT
<1>b. moving \in BOOLEAN /\ no \in BOOLEAN
  OBVIOUS
<1>n. ~no
  OBVIOUS
<1>7. /\ s.normalMouse = m.normalMouse
      /\ mouseup(m) = [r EXCEPT !.ups = 0, !.moving = r.moving /\ ~m.normalMouse,
                                !.orphan = moving, !.stray = no]
  BY <1>6 DEF mouseup, SameModes, WithOwed
<1>8. s.owed - 1 = 0 /\ 0 \in 0..MaxUps /\ 32 \in PressCodes
  BY <1>6, MouseAssumption DEF PressCodes
<1> HIDE DEF s, no
<1>9. r \in MouseRecord
  BY <1>5, <1>6, <1>8, PressType, SMT
<1>10. SameModes(r, s) /\ SameFocus(r, s) /\ r.moving = s.moving /\ r.owed = 0
  BY <1>5, <1>6, <1>8, PressFields, SMT
<1>11. (r.moving /\ ~m.normalMouse) = moving
  BY <1>10, <1>6
<1> HIDE DEF r, moving
<1>12. m' = WithUp(r, 0, moving, moving, no)
  BY <1>1, <1>7, <1>11 DEF WithUp
<1>13. m' \in MouseRecord
  BY <1>12, <1>9, <1>b, <1>8, UpType, SMT
<1>14. /\ SameModes(m', r) /\ SameFocus(m', r) /\ m'.owed = r.owed
       /\ m'.ups = 0 /\ m'.moving = moving /\ m'.orphan = moving /\ m'.stray = no
  BY <1>12, <1>9, UpFields, SMT
<1>15. ReportsOK(m')
  BY <1>14, <1>10, <1>n, SMT DEF ReportsOK
<1>16. ModesOK(s) /\ FocusOK(s)
  BY <1>2, <1>6, ModesKept, FocusKept, Zenon
<1>17. ModesOK(r) /\ FocusOK(r)
  BY <1>16, <1>10, ModesKept, FocusKept, Zenon
<1> QED BY <1>13, <1>14, <1>15, <1>17, ModesKept, FocusKept, Zenon DEF MouseInv

LEMMA MoveInv == ASSUME MouseInv, Move PROVE MouseInv'
<1> DEFINE late == m.ups = 0
<1>a. late \in BOOLEAN
  OBVIOUS
<1>b. m' = [m EXCEPT !.stray = late]
  BY DEF Move
<1>m. m.moving
  BY DEF Move
<1>l. late <=> m.ups = 0
  OBVIOUS
<1> HIDE DEF late
<1>1. m' \in MouseRecord
  BY <1>a, <1>b, OneFieldType, Zenon DEF MouseInv
<1>2. /\ SameModes(m', m) /\ SameFocus(m', m) /\ m'.moving = m.moving /\ m'.ups = m.ups
      /\ m'.owed = m.owed /\ m'.orphan = m.orphan /\ m'.stray = late
  BY <1>b, SMT DEF MouseInv, MouseRecord, SameModes, SameFocus
<1>3. ReportsOK(m')
  BY <1>2, <1>l, <1>m, SMT DEF ReportsOK, MouseInv
<1> QED BY <1>1, <1>2, <1>3, ModesKept, FocusKept, Zenon DEF MouseInv

LEMMA MouseNextInv == MouseInv /\ [MouseNext]_mouseVars => MouseInv'
<1> SUFFICES ASSUME MouseInv, [MouseNext]_mouseVars PROVE MouseInv'
  OBVIOUS
<1>1. CASE \E md \in TrackModes : SetMouse(md)
  BY <1>1, SetMouseInv
<1>2. CASE \E c \in Codings : SetCoding(c)
  BY <1>2, SetCodingInv
<1>3. CASE \E b \in Buttons, mod \in Mods : MouseDown(b, mod)
  BY <1>3, MouseDownInv
<1>4. CASE ResetMouse \/ SetFocus \/ MouseUp \/ Move \/ Elsewhere \/ Copy \/ Refocus
  BY <1>4, ResetMouseInv, SetFocusInv, MouseUpInv, MoveInv, ElsewhereInv, CopyInv, RefocusInv
<1>5. CASE UNCHANGED mouseVars
  <2>1. m' = m
    BY <1>5 DEF mouseVars
  <2> QED BY <2>1, Zenon DEF MouseInv
<1>6. CASE MouseNext
  <2>1. \/ \E md \in TrackModes : SetMouse(md)
        \/ \E c \in Codings : SetCoding(c)
        \/ \E b \in Buttons, mod \in Mods : MouseDown(b, mod)
        \/ ResetMouse \/ SetFocus \/ MouseUp \/ Move \/ Elsewhere \/ Copy \/ Refocus
    BY <1>6, Zenon DEF MouseNext
  <2> QED BY <2>1, <1>1, <1>2, <1>3, <1>4, Zenon
<1> QED BY <1>5, <1>6

(***************************************************************************)
(* The places of a report                                                  *)
(***************************************************************************)
Coords == 32..2047
LEMMA CoordsFinite == IsFiniteSet(Coords)
<1>1. \A a, b \in Int : IsFiniteSet(a..b)
  BY FS_Interval
<1>2. PICK lo \in Int, hi \in Int : lo = 32 /\ hi = 2047
  OBVIOUS
<1>3. IsFiniteSet(lo..hi)
  BY <1>1
<1> QED BY <1>2, <1>3, SMT DEF Coords

\* The bytes of a coordinate: how many there are shows in the first.
Told(s, ch) == (s.coding = {} => ch <= 127) /\ (s.coding # {} => "utfMouse" \in s.coding)
LEMMA EncodeIs ==
  ASSUME NEW s, NEW ch \in Coords, Told(s, ch)
  PROVE  /\ encode(s, ch) \in Seq(Nat) /\ Len(encode(s, ch)) \in {1, 2}
         /\ Len(encode(s, ch)) = 2 <=> encode(s, ch)[1] >= 192
<1>1. CASE "utfMouse" \notin s.coding
  BY <1>1, SMTT(30) DEF encode, Told, Coords
<1>2. CASE "utfMouse" \in s.coding
  BY <1>2 DEF encode, Coords
<1> QED BY <1>1, <1>2

LEMMA EncodeUtf ==
  ASSUME NEW s, NEW ch \in Coords, "utfMouse" \in s.coding
  PROVE  LET e == encode(s, ch)
         IN \/ ch = 2047 /\ Len(e) = 1 /\ e[1] = 0
            \/ ch < 127 /\ Len(e) = 1 /\ e[1] = ch
            \/ /\ ch >= 127 /\ ch < 2047
               /\ Len(e) = 2 /\ e[1] = 192 + ch \div 64 /\ e[2] = 128 + (ch % 64)
<1>1. CASE ch = 2047
  <2>1. encode(s, ch) = <<0>>
    BY <1>1, SMT DEF encode
  <2> QED BY <1>1, <2>1
<1>2. CASE ch < 127
  <2>1. encode(s, ch) = <<ch>>
    BY <1>2, SMT DEF encode, Coords
  <2> QED BY <1>2, <2>1
<1>3. CASE ch >= 127 /\ ch < 2047
  <2>1. encode(s, ch) = <<192 + ch \div 64, 128 + (ch % 64)>>
    BY <1>3, SMT DEF encode, Coords
  <2> QED BY <1>3, <2>1
<1> QED BY <1>1, <1>2, <1>3, SMTT(30) DEF Coords

LEMMA EncodeApart ==
  ASSUME NEW s, NEW c \in Coords, NEW d \in Coords, Told(s, c), Told(s, d),
         encode(s, c)[1] = encode(s, d)[1],
         Len(encode(s, c)) = 2 => encode(s, c)[2] = encode(s, d)[2]
  PROVE  c = d
<1>1. CASE "utfMouse" \notin s.coding
  BY <1>1 DEF encode, Told, Coords
<1>2. CASE "utfMouse" \in s.coding
  <2> DEFINE e == encode(s, c)
             f == encode(s, d)
  <2>1. \/ c = 2047 /\ Len(e) = 1 /\ e[1] = 0
        \/ c < 127 /\ Len(e) = 1 /\ e[1] = c
        \/ /\ c >= 127 /\ c < 2047
           /\ Len(e) = 2 /\ e[1] = 192 + c \div 64 /\ e[2] = 128 + (c % 64)
    BY <1>2, EncodeUtf
  <2>2. \/ d = 2047 /\ Len(f) = 1 /\ f[1] = 0
        \/ d < 127 /\ Len(f) = 1 /\ f[1] = d
        \/ /\ d >= 127 /\ d < 2047
           /\ Len(f) = 2 /\ f[1] = 192 + d \div 64 /\ f[2] = 128 + (d % 64)
    BY <1>2, EncodeUtf
  <2>3. e[1] = f[1] /\ (Len(e) = 2 => e[2] = f[2])
    OBVIOUS
  <2>4. /\ c = 64 * (c \div 64) + (c % 64) /\ c \div 64 \in Nat /\ c % 64 \in Nat
        /\ d = 64 * (d \div 64) + (d % 64) /\ d \div 64 \in Nat /\ d % 64 \in Nat
        /\ c \in Nat /\ d \in Nat /\ c >= 32 /\ d >= 32
    BY SMT DEF Coords
  <2> HIDE DEF e, f
  <2> QED BY <2>1, <2>2, <2>3, <2>4, SMT
<1> QED BY <1>1, <1>2

LEMMA JoinedReports ==
  ASSUME NEW T, NEW h \in Seq(T), NEW a \in Seq(T)
  PROVE  /\ h \o a \in Seq(T) /\ Len(h \o a) = Len(h) + Len(a)
         /\ \A i \in 1..Len(h) : (h \o a)[i] = h[i]
         /\ \A i \in 1..Len(a) : (h \o a)[Len(h) + i] = a[i]
  OBVIOUS

Three(h, a, b) == h \o a \o b
LEMMA Split ==
  ASSUME NEW T, NEW h \in Seq(T), NEW a \in Seq(T), NEW b \in Seq(T),
         Len(h) = 2, Len(a) \in {1, 2}, Len(b) \in {1, 2}
  PROVE  /\ Three(h, a, b)[3] = a[1] /\ (Len(a) = 2 => Three(h, a, b)[4] = a[2])
         /\ Three(h, a, b)[Len(a) + 3] = b[1]
         /\ (Len(b) = 2 => Three(h, a, b)[Len(a) + 4] = b[2])
<1> DEFINE t == h \o a
           s == t \o b
<1>1. /\ t \in Seq(T) /\ Len(t) = Len(h) + Len(a)
      /\ \A i \in 1..Len(a) : t[Len(h) + i] = a[i]
  BY JoinedReports, SMTT(30)
<1> HIDE DEF t
<1>2. /\ \A i \in 1..Len(t) : s[i] = t[i]
      /\ \A i \in 1..Len(b) : s[Len(t) + i] = b[i]
  BY <1>1, JoinedReports
<1> HIDE DEF s
<1>3. t[3] = a[1] /\ (Len(a) = 2 => t[4] = a[2]) /\ Len(t) = 2 + Len(a)
  BY <1>1
<1>4. s[3] = a[1] /\ (Len(a) = 2 => s[4] = a[2])
  BY <1>2, <1>3
<1>5. s[Len(a) + 3] = b[1] /\ (Len(b) = 2 => s[Len(a) + 4] = b[2])
  BY <1>2, <1>3
<1> QED BY <1>4, <1>5 DEF s, t, Three

LEMMA SendUrxvt ==
  ASSUME NEW s, NEW x, NEW y, "urxvtMouse" \in s.coding
  PROVE  sendEvent(s, 32, <<x, y>>) = <<"[", 32, ";", x - 31, ";", y - 31, "M">>
  BY DEF sendEvent
LEMMA SendSgr ==
  ASSUME NEW s, NEW x, NEW y, "urxvtMouse" \notin s.coding, "sgrMouse" \in s.coding
  PROVE  sendEvent(s, 32, <<x, y>>) = <<"[<", 32, ";", x - 32, ";", y - 32, "M">>
<1>1. ~(32 % 4 = 3)
  OBVIOUS
<1> QED BY <1>1, Zenon DEF sendEvent
LEMMA SendPlain ==
  ASSUME NEW s, NEW x, NEW y, "urxvtMouse" \notin s.coding, "sgrMouse" \notin s.coding
  PROVE  sendEvent(s, 32, <<x, y>>) = <<"[M">> \o encode(s, 32) \o encode(s, x) \o encode(s, y)
  BY DEF sendEvent
LEMMA SevenApart ==
  ASSUME NEW h, NEW x, NEW y, NEW z, NEW w,
         <<h, 32, ";", x, ";", y, "M">> = <<h, 32, ";", z, ";", w, "M">>
  PROVE  x = z /\ y = w
  OBVIOUS

ToldExactly(s, x, y) == s.coding # {} \/ (x <= 127 /\ y <= 127)
SameReport(s, x, y, z, w) == sendEvent(s, 32, <<x, y>>) = sendEvent(s, 32, <<z, w>>)
CodingsOnly(s) == s.coding \in SUBSET Codings

LEMMA SendApart ==
  ASSUME NEW s, NEW x \in Coords, NEW y \in Coords, NEW z \in Coords, NEW w \in Coords,
         CodingsOnly(s), ToldExactly(s, x, y), ToldExactly(s, z, w),
         SameReport(s, x, y, z, w)
  PROVE  x = z /\ y = w
<1>1. CASE "urxvtMouse" \in s.coding
  <2>a. /\ sendEvent(s, 32, <<x, y>>) = <<"[", 32, ";", x - 31, ";", y - 31, "M">>
        /\ sendEvent(s, 32, <<z, w>>) = <<"[", 32, ";", z - 31, ";", w - 31, "M">>
    BY <1>1, SendUrxvt, Zenon
  <2>1. <<"[", 32, ";", x - 31, ";", y - 31, "M">>
          = <<"[", 32, ";", z - 31, ";", w - 31, "M">>
    BY <2>a, Zenon DEF SameReport
  <2>2. x - 31 = z - 31 /\ y - 31 = w - 31
    BY <2>1, SevenApart, Zenon
  <2> QED BY <2>2 DEF Coords
<1>2. CASE "urxvtMouse" \notin s.coding /\ "sgrMouse" \in s.coding
  <2>a. /\ sendEvent(s, 32, <<x, y>>) = <<"[<", 32, ";", x - 32, ";", y - 32, "M">>
        /\ sendEvent(s, 32, <<z, w>>) = <<"[<", 32, ";", z - 32, ";", w - 32, "M">>
    BY <1>2, SendSgr, Zenon
  <2>1. <<"[<", 32, ";", x - 32, ";", y - 32, "M">>
          = <<"[<", 32, ";", z - 32, ";", w - 32, "M">>
    BY <2>a, Zenon DEF SameReport
  <2>2. x - 32 = z - 32 /\ y - 32 = w - 32
    BY <2>1, SevenApart, Zenon
  <2> QED BY <2>2 DEF Coords
<1>3. CASE "urxvtMouse" \notin s.coding /\ "sgrMouse" \notin s.coding
  <2> DEFINE T == Nat \cup {"[M"}
             h == <<"[M">> \o encode(s, 32)
             e(c) == encode(s, c)
  <2>1. s.coding # {} => "utfMouse" \in s.coding
    BY <1>3 DEF CodingsOnly, Codings
  <2>2. Told(s, x) /\ Told(s, y) /\ Told(s, z) /\ Told(s, w)
    BY <2>1, Zenon DEF Told, ToldExactly
  <2>3. encode(s, 32) = <<32>>
    BY DEF encode
  <2>4. h \in Seq(T) /\ Len(h) = 2
    <3>1. <<"[M">> \in Seq(T) /\ <<32>> \in Seq(T) /\ Len(<<"[M">>) = 1 /\ Len(<<32>>) = 1
      OBVIOUS
    <3>2. h = <<"[M">> \o <<32>>
      BY <2>3
    <3> HIDE DEF T, h
    <3>3. h \in Seq(T) /\ Len(h) = 1 + 1
      BY <3>1, <3>2, JoinedReports
    <3> QED BY <3>3
  <2>s. \A c : c \in Seq(Nat) => c \in Seq(T)
    OBVIOUS
  <2>5. \A c \in {x, y, z, w} :
           /\ e(c) \in Seq(T) /\ Len(e(c)) \in {1, 2} /\ (Len(e(c)) = 2 <=> e(c)[1] >= 192)
    <3> SUFFICES ASSUME NEW c \in {x, y, z, w}
                 PROVE  e(c) \in Seq(T) /\ Len(e(c)) \in {1, 2} /\ (Len(e(c)) = 2 <=> e(c)[1] >= 192)
      OBVIOUS
    <3>1. c \in Coords /\ Told(s, c)
      BY <2>2
    <3>2. /\ e(c) \in Seq(Nat) /\ Len(e(c)) \in {1, 2}
          /\ Len(e(c)) = 2 <=> e(c)[1] >= 192
      BY <3>1, EncodeIs
    <3> QED BY <3>2, <2>s
  <2>6. h \o e(x) \o e(y) = h \o e(z) \o e(w)
    <3>1. sendEvent(s, 32, <<x, y>>) = h \o e(x) \o e(y)
      BY <1>3, SendPlain, Zenon
    <3>2. sendEvent(s, 32, <<z, w>>) = h \o e(z) \o e(w)
      BY <1>3, SendPlain, Zenon
    <3>3. sendEvent(s, 32, <<x, y>>) = sendEvent(s, 32, <<z, w>>)
      BY Zenon DEF SameReport
    <3> HIDE DEF h, e
    <3> QED BY <3>1, <3>2, <3>3, Zenon
  <2> HIDE DEF h, T, e
  <2> DEFINE v == Three(h, e(x), e(y))
  <2>v. v = Three(h, e(x), e(y)) /\ v = Three(h, e(z), e(w))
    BY <2>6 DEF Three
  <2> HIDE DEF v
  <2>l. /\ (Len(e(x)) = 2 <=> e(x)[1] >= 192) /\ (Len(e(y)) = 2 <=> e(y)[1] >= 192)
        /\ (Len(e(z)) = 2 <=> e(z)[1] >= 192) /\ (Len(e(w)) = 2 <=> e(w)[1] >= 192)
    BY <2>5, Zenon
  <2>x. e(x) \in Seq(T) /\ Len(e(x)) \in {1, 2} /\ e(y) \in Seq(T) /\ Len(e(y)) \in {1, 2}
    BY <2>5
  <2>z. e(z) \in Seq(T) /\ Len(e(z)) \in {1, 2} /\ e(w) \in Seq(T) /\ Len(e(w)) \in {1, 2}
    BY <2>5
  <2>7. /\ v[3] = e(x)[1] /\ (Len(e(x)) = 2 => v[4] = e(x)[2])
        /\ v[Len(e(x)) + 3] = e(y)[1]
        /\ (Len(e(y)) = 2 => v[Len(e(x)) + 4] = e(y)[2])
    <3>1. /\ Three(h, e(x), e(y))[3] = e(x)[1]
          /\ (Len(e(x)) = 2 => Three(h, e(x), e(y))[4] = e(x)[2])
          /\ Three(h, e(x), e(y))[Len(e(x)) + 3] = e(y)[1]
          /\ (Len(e(y)) = 2 => Three(h, e(x), e(y))[Len(e(x)) + 4] = e(y)[2])
      BY <2>4, <2>x, Split
    <3> QED BY <3>1, <2>v
  <2>8. /\ v[3] = e(z)[1] /\ (Len(e(z)) = 2 => v[4] = e(z)[2])
        /\ v[Len(e(z)) + 3] = e(w)[1]
        /\ (Len(e(w)) = 2 => v[Len(e(z)) + 4] = e(w)[2])
    <3>1. /\ Three(h, e(z), e(w))[3] = e(z)[1]
          /\ (Len(e(z)) = 2 => Three(h, e(z), e(w))[4] = e(z)[2])
          /\ Three(h, e(z), e(w))[Len(e(z)) + 3] = e(w)[1]
          /\ (Len(e(w)) = 2 => Three(h, e(z), e(w))[Len(e(z)) + 4] = e(w)[2])
      BY <2>4, <2>z, Split
    <3> QED BY <3>1, <2>v
  <2>9. /\ e(x)[1] = e(z)[1] /\ Len(e(x)) = Len(e(z))
        /\ Len(e(x)) = 2 => e(x)[2] = e(z)[2]
    <3>1. e(x)[1] = e(z)[1]
      BY <2>7, <2>8, Zenon
    <3>2. Len(e(x)) = 2 <=> Len(e(z)) = 2
      BY <3>1, <2>l, Zenon
    <3> QED BY <3>1, <3>2, <2>7, <2>8, <2>x, <2>z
  <2>10. /\ e(y)[1] = e(w)[1] /\ Len(e(y)) = Len(e(w))
         /\ Len(e(y)) = 2 => e(y)[2] = e(w)[2]
    <3> DEFINE len == Len(e(x))
    <3>0. v[len + 3] = e(y)[1] /\ (Len(e(y)) = 2 => v[len + 4] = e(y)[2])
      BY <2>7, Zenon
    <3>a. Len(e(z)) = len
      BY <2>9, Zenon
    <3>b. v[len + 3] = e(w)[1] /\ (Len(e(w)) = 2 => v[len + 4] = e(w)[2])
      BY <3>a, <2>8, Zenon
    <3>1. e(y)[1] = e(w)[1]
      BY <3>0, <3>b, Zenon
    <3>2. Len(e(y)) = 2 <=> Len(e(w)) = 2
      BY <3>1, <2>l, Zenon
    <3>3. Len(e(y)) = Len(e(w))
      BY <3>2, <2>x, <2>z
    <3>4. Len(e(y)) = 2 => e(y)[2] = e(w)[2]
      BY <3>3, <3>0, <3>b, Zenon
    <3> QED BY <3>1, <3>3, <3>4, Zenon
  <2>11. x = z
    BY <2>2, <2>9, EncodeApart, Zenon DEF e
  <2>12. y = w
    BY <2>2, <2>10, EncodeApart, Zenon DEF e
  <2> QED BY <2>11, <2>12
<1> QED BY <1>1, <1>2, <1>3

LEMMA PlacesApart == CodingsOnly(m) => PlacesToldApart
<1> SUFFICES ASSUME CodingsOnly(m) PROVE PlacesToldApart
  OBVIOUS
<1> DEFINE All == (Coords) \X (Coords)
           exact == {q \in Places : m.coding # {} \/ (q[1] <= 127 /\ q[2] <= 127)}
           told == {sendEvent(m, 32, q) : q \in exact}
           f == [q \in exact |-> sendEvent(m, 32, q)]
<1>1. exact \in SUBSET All
  BY MouseAssumption DEF Coords
<1>2. IsFiniteSet(exact)
  <2>1. IsFiniteSet(All)
    BY CoordsFinite, FS_Product, Zenon
  <2> QED BY <2>1, <1>1, FS_Subset
<1>3. f \in Bijection(exact, told)
  <2>1. ASSUME NEW q \in exact, NEW r \in exact, f[q] = f[r] PROVE q = r
    <3>1. PICK x \in Coords, y \in Coords :
             q = <<x, y>> /\ ToldExactly(m, x, y)
      BY <1>1 DEF ToldExactly
    <3>2. PICK z \in Coords, w \in Coords :
             r = <<z, w>> /\ ToldExactly(m, z, w)
      BY <1>1 DEF ToldExactly
    <3>3. SameReport(m, x, y, z, w)
      BY <2>1, <3>1, <3>2, Zenon DEF SameReport
    <3>4. x = z /\ y = w
      BY <3>1, <3>2, <3>3, SendApart
    <3> QED BY <3>1, <3>2, <3>4
  <2> QED BY <2>1 DEF Bijection, Injection, IsInjective, Surjection
<1>4. ExistsBijection(exact, told)
  BY <1>3 DEF ExistsBijection
<1>5. Cardinality(told) = Cardinality(exact)
  BY <1>2, <1>4, FS_Bijection
<1> QED BY <1>5 DEF PlacesToldApart

(***************************************************************************)
(* The theorem                                                             *)
(***************************************************************************)
LEMMA MouseInvReports == MouseInv => ReportsPaired
<1> SUFFICES ASSUME MouseInv PROVE ReportsPaired
  OBVIOUS
<1>1. MouseTypeOK
  BY DEF MouseInv, MouseRecord, ModesOK, MouseTypeOK, PressCodes
<1>2. EveryPressReleased /\ MotionEnds
  BY DEF MouseInv, ReportsOK, EveryPressReleased, MotionEnds
<1>3. FocusTold
  <2>1. /\ Alternate(m.told) /\ (m.told # <<>> => (Last(m.told) = "I" <=> m.focused))
        /\ m.focused \in BOOLEAN
    BY DEF MouseInv, FocusOK, MouseRecord
  <2> QED BY <2>1 DEF FocusTold, Alternate
<1>4. PlacesToldApart
  <2>1. CodingsOnly(m)
    BY DEF MouseInv, MouseRecord, CodingsOnly
  <2> QED BY <2>1, PlacesApart
<1> QED BY <1>1, <1>2, <1>3, <1>4 DEF ReportsPaired

\* Whatever modes and codings the host sets and resets in whatever order, and
\* whatever the user does in between: every press told of is released once,
\* motion ends with the release unless the host took the mode back, the focus
\* is told truly, and reports of two places differ.
THEOREM ReportsSafe == MouseSpec => []ReportsPaired
<1>1. MouseInit => MouseInv
  BY MouseInitInv
<1>2. MouseInv /\ [MouseNext]_mouseVars => MouseInv'
  BY MouseNextInv
<1>3. MouseInv => ReportsPaired
  BY MouseInvReports
<1> QED BY <1>1, <1>2, <1>3, PTL DEF MouseSpec

(***************************************************************************)
(* Keys: the invariant of the terminal's record                            *)
(***************************************************************************)
KeysFields ==
    {"x", "y", "ydisp", "lines", "text", "marked", "sel", "prefixMode", "selectMode",
     "visualMode", "searchMode", "searchDown", "entry", "real", "preVisual", "preSearch",
     "timers", "alive", "thrown", "parked", "stale", "before", "found", "copied", "ref"}

\* the fields that the handlers' guards read
Switches(s) ==
    /\ s.prefixMode \in BOOLEAN /\ s.selectMode \in BOOLEAN /\ s.visualMode \in BOOLEAN
    /\ s.searchMode \in BOOLEAN /\ s.thrown \in BOOLEAN /\ s.parked \in BOOLEAN
    /\ s.stale \in BOOLEAN

\* the view and the cursor, outside of a search
ViewOK(s) == s.text \in Texts /\ s.ydisp \in 0..ybase(s) /\ s.y \in 0..Height - 1
CursorOK(s) ==
    /\ s.entry \in Seq(Printing)
    /\ IF s.searchMode THEN s.x \in Int /\ s.x >= PromptLen + Len(s.entry)
       ELSE s.x \in 0..Width
    /\ ~s.parked /\ s.selectMode /\ ~s.searchMode => s.x # Width

\* what the modes have put aside for their end
Kept(s) ==
    /\ s.selectMode <=> s.real # <<>>
    /\ s.selectMode => LET r == s.real[1]
                       IN /\ r.x \in 0..Width /\ r.y \in 0..Height - 1 /\ r.ydisp \in 0..ybase(s)
                          /\ r.lines = s.text
                          /\ s.before = <<r.x, r.y, r.ydisp, r.lines>>
    /\ s.preVisual # <<>> => s.selectMode /\ s.preVisual[1] = s.text
    /\ s.searchMode <=> s.preSearch # <<>>
    /\ s.searchMode => LET q == s.preSearch[1]
                       IN /\ q.x \in 0..Width /\ q.y \in 0..Height - 1 /\ q.lines = s.text
                          /\ ~s.parked => q.x # Width
Nested(s) ==
    /\ s.visualMode => s.preVisual # <<>> /\ ~s.searchMode /\ ~s.stale
    /\ s.searchMode => s.selectMode
    /\ s.prefixMode => ~s.selectMode

\* the buffer is what the host wrote; a prompt only overwrites cells or adds some
Whole(lines, text) ==
    \A i \in 1..Len(text) : i \in DOMAIN lines /\ 1..Width \subseteq DOMAIN lines[i]
Clean(s) ==
    /\ ~s.searchMode /\ (s.stale => ~s.selectMode) => s.lines = s.text
    /\ s.searchMode /\ ~s.stale => Whole(s.lines, s.text)

EndsOK(e) == e.x1 \in 0..Width /\ e.x2 \in 0..Width /\ e.y1 \in Nat /\ e.y2 \in Nat
\* a selection on the first h rows; one begun behind the last column, which no
\* key ends and every key that selects runs into
Inside(e, h) == e.x1 # Width /\ e.x2 # Width /\ e.y1 < h /\ e.y2 < h
Stuck(e) == e.x1 = Width /\ e.x2 = Width /\ e.y1 = e.y2
SelOK(s) ==
    /\ s.sel # <<>> => EndsOK(s.sel[1])
    /\ s.visualMode => s.sel # <<>> /\ s.x # Width /\ Inside(s.sel[1], Len(s.text))
    /\ ~s.visualMode /\ s.sel # <<>> => Stuck(s.sel[1])
    /\ ~s.parked =>
        /\ ~s.visualMode => s.sel = <<>> /\ s.marked = {}
        /\ s.visualMode => s.marked = Region(s.sel[1])

KeysOK(s) ==
    /\ DOMAIN s = KeysFields /\ Switches(s) /\ ViewOK(s) /\ CursorOK(s)
    /\ Kept(s) /\ Nested(s) /\ Clean(s) /\ SelOK(s)
Excused(s) == s.parked \/ s.stale \/ Overlong(s)
KeysInv == KeysOK(k) /\ (k.thrown => Excused(k))

(***************************************************************************)
(* Least and greatest elements, and the sizes of the screen                *)
(***************************************************************************)
LEMMA LeastOf ==
  ASSUME NEW S \in SUBSET Nat, S # {}
  PROVE  Min(S) \in S /\ \A y \in S : Min(S) <= y
<1>1. IsWellFoundedOn(OpToRel(<, Nat), Nat)
  BY NatLessThanWellFounded
<1>2. \E x \in S : \A y \in S : <<y, x>> \notin OpToRel(<, Nat)
  BY <1>1, WFMin
<1>3. PICK x \in S : \A y \in S : ~(y < x)
  BY <1>2 DEF OpToRel
<1>4. \A y \in S : x <= y
  BY <1>3
<1> QED BY <1>4, Zenon DEF Min

LEMMA GreatestOf ==
  ASSUME NEW n \in Nat, NEW S \in SUBSET (0..n), S # {}
  PROVE  Max(S) \in S /\ \A y \in S : Max(S) >= y
<1> DEFINE T == {n - y : y \in S}
<1>a. \A y \in S : n - y \in Nat
  OBVIOUS
<1>1. T \in SUBSET Nat /\ T # {}
  BY <1>a, Zenon
<1>2. PICK mid \in T : \A y \in T : mid <= y
  BY <1>1, LeastOf
<1>3. PICK x \in S : mid = n - x
  BY <1>2
<1>4. \A y \in S : x >= y
  BY <1>2, <1>3
<1> QED BY <1>3, <1>4, Zenon DEF Max

LEMMA KeysSizes ==
  /\ Width \in Nat /\ Width > 0 /\ Height \in Nat /\ Height > 1 /\ PromptLen \in Nat
  /\ \A t \in Texts : Len(t) \in Nat /\ Len(t) >= Height
  BY KeysAssumption

\* n is s but for the fields fs
Frame(s, n, fs) == DOMAIN n = KeysFields /\ \A f \in KeysFields \ fs : n[f] = s[f]
Viewing(s) == DOMAIN s = KeysFields /\ ViewOK(s) /\ s.x \in 0..Width

\* n is s with the cursor moved or the view scrolled
Moves(s, n) ==
    /\ Frame(s, n, {"x", "y", "ydisp"})
    /\ n.ydisp \in 0..ybase(s) /\ n.y \in 0..Height - 1 /\ n.x \in 0..Width
    /\ s.x # Width => n.x # Width

LEMMA PlacedMoves ==
  ASSUME NEW s, Viewing(s), NEW x \in 0..Width, NEW y \in 0..Height - 1, NEW d \in 0..ybase(s),
         s.x # Width => x # Width
  PROVE  Moves(s, [s EXCEPT !.x = x, !.y = y, !.ydisp = d])
<1> DEFINE n == [s EXCEPT !.x = x, !.y = y, !.ydisp = d]
<1>1. /\ DOMAIN n = KeysFields /\ n.x = x /\ n.y = y /\ n.ydisp = d
      /\ \A f \in KeysFields \ {"x", "y", "ydisp"} : n[f] = s[f]
  BY Zenon DEF Viewing, KeysFields
<1> HIDE DEF n
<1>2. Moves(s, n)
  BY <1>1, Zenon DEF Moves, Frame
<1> QED BY <1>2, Zenon DEF n

LEMMA KeepsPlace ==
  ASSUME NEW s, Viewing(s)
  PROVE  /\ s.x \in 0..Width /\ s.y \in 0..Height - 1 /\ s.ydisp \in 0..ybase(s)
         /\ Width \in Nat /\ Width > 0 /\ Height \in Nat /\ Height > 1
         /\ ybase(s) \in Nat /\ LastRow(s) = ybase(s) + Height - 1 /\ Row(s) = s.ydisp + s.y
         /\ Row(s) \in 0..LastRow(s) /\ LastRow(s) \in Nat
<1>1. /\ s.x \in 0..Width /\ s.y \in 0..Height - 1 /\ s.ydisp \in 0..ybase(s)
      /\ Len(s.text) \in Nat /\ Len(s.text) >= Height
  BY KeysSizes DEF Viewing, ViewOK
<1>2. ybase(s) \in Nat /\ LastRow(s) = ybase(s) + Height - 1
  BY <1>1, KeysSizes DEF ybase, LastRow
<1> QED BY <1>1, <1>2, KeysSizes DEF Row

LEMMA XMoves ==
  ASSUME NEW s, Viewing(s), NEW x \in 0..Width, s.x # Width => x # Width
  PROVE  Moves(s, [s EXCEPT !.x = x])
<1> DEFINE n == [s EXCEPT !.x = x]
<1>1. /\ DOMAIN n = KeysFields /\ n.x = x /\ n.y = s.y /\ n.ydisp = s.ydisp
      /\ \A f \in KeysFields \ {"x", "y", "ydisp"} : n[f] = s[f]
  BY Zenon DEF Viewing, KeysFields
<1> HIDE DEF n
<1>2. Moves(s, n)
  BY <1>1, KeepsPlace, Zenon DEF Moves, Frame
<1> QED BY <1>2, Zenon DEF n

LEMMA YMoves ==
  ASSUME NEW s, Viewing(s), NEW y \in 0..Height - 1
  PROVE  Moves(s, [s EXCEPT !.y = y])
<1> DEFINE n == [s EXCEPT !.y = y]
<1>1. /\ DOMAIN n = KeysFields /\ n.x = s.x /\ n.y = y /\ n.ydisp = s.ydisp
      /\ \A f \in KeysFields \ {"x", "y", "ydisp"} : n[f] = s[f]
  BY Zenon DEF Viewing, KeysFields
<1> HIDE DEF n
<1>2. Moves(s, n)
  BY <1>1, KeepsPlace, Zenon DEF Moves, Frame
<1> QED BY <1>2, Zenon DEF n

LEMMA XYMoves ==
  ASSUME NEW s, Viewing(s), NEW x \in 0..Width, NEW y \in 0..Height - 1, s.x # Width => x # Width
  PROVE  Moves(s, [s EXCEPT !.x = x, !.y = y])
<1> DEFINE n == [s EXCEPT !.x = x, !.y = y]
<1>1. /\ DOMAIN n = KeysFields /\ n.x = x /\ n.y = y /\ n.ydisp = s.ydisp
      /\ \A f \in KeysFields \ {"x", "y", "ydisp"} : n[f] = s[f]
  BY Zenon DEF Viewing, KeysFields
<1> HIDE DEF n
<1>2. Moves(s, n)
  BY <1>1, KeepsPlace, Zenon DEF Moves, Frame
<1> QED BY <1>2, Zenon DEF n

LEMMA ScrollMoves ==
  ASSUME NEW s, Viewing(s), NEW d \in Int
  PROVE  Moves(s, scrollView(s, d))
<1> DEFINE e == Clip(s.ydisp + d, 0, ybase(s))
           n == [s EXCEPT !.ydisp = e]
<1>1. e \in 0..ybase(s)
  BY KeepsPlace DEF Clip, MinOf, MaxOf
<1>2. scrollView(s, d) = n
  BY Zenon DEF scrollView
<1> HIDE DEF e
<1>3. /\ DOMAIN n = KeysFields /\ n.x = s.x /\ n.y = s.y /\ n.ydisp = e
      /\ \A f \in KeysFields \ {"x", "y", "ydisp"} : n[f] = s[f]
  BY Zenon DEF Viewing, KeysFields
<1> HIDE DEF n
<1> QED BY <1>1, <1>2, <1>3, KeepsPlace, Zenon DEF Moves, Frame

LEMMA AtMoves ==
  ASSUME NEW s, Viewing(s), NEW r \in 0..LastRow(s), NEW x \in 0..Width, s.x # Width => x # Width
  PROVE  Moves(s, At(s, r, x)) /\ Row(At(s, r, x)) = r /\ At(s, r, x).x = x
<1> DEFINE d == IF r < s.ydisp THEN r ELSE MaxOf(s.ydisp, r - Height + 1)
           n == [s EXCEPT !.x = x, !.y = r - d, !.ydisp = d]
<1>1. At(s, r, x) = n
  BY DEF At
<1>2. d \in 0..ybase(s) /\ r - d \in 0..Height - 1 /\ d + (r - d) = r
  BY KeepsPlace DEF MaxOf
<1> HIDE DEF d
<1>3. Moves(s, n)
  BY <1>2, PlacedMoves
<1>4. n.x = x /\ n.y = r - d /\ n.ydisp = d
  BY Zenon DEF Viewing, KeysFields
<1> QED BY <1>1, <1>2, <1>3, <1>4, Zenon DEF Row

\* two motions in one
LEMMA MovesTwice ==
  ASSUME NEW s, NEW n, NEW q, Viewing(s), Moves(s, n), Viewing(n), Moves(n, q)
  PROVE  Moves(s, q)
<1>1. n.text = s.text
  BY Zenon DEF Moves, Frame, KeysFields
<1>2. ybase(n) = ybase(s)
  BY <1>1, Zenon DEF ybase
<1> QED BY <1>2, Zenon DEF Moves, Frame

LEMMA MovesViewing ==
  ASSUME NEW s, NEW n, Viewing(s), Moves(s, n)
  PROVE  Viewing(n) /\ ybase(n) = ybase(s) /\ LastRow(n) = LastRow(s) /\ n.text = s.text
<1>1. n.text = s.text
  BY Zenon DEF Moves, Frame, KeysFields
<1>2. ybase(n) = ybase(s) /\ LastRow(n) = LastRow(s)
  BY <1>1, Zenon DEF ybase, LastRow
<1> QED BY <1>1, <1>2, Zenon DEF Moves, Frame, Viewing, ViewOK
(***************************************************************************)
(* Each motion moves the cursor or the view                                *)
(***************************************************************************)
LEMMA HalvesMove ==
  ASSUME NEW s, Viewing(s)
  PROVE  Moves(s, HalfDown(s)) /\ Moves(s, HalfUp(s))
<1> DEFINE h == (Height - 1) \div 2
           j == Height \div 2
           a == MinOf(s.y + h, Height - 1)
           b == MaxOf(s.y - j, 0)
<1>1. h \in Int /\ -h \in Int /\ a \in 0..Height - 1 /\ b \in 0..Height - 1
  BY KeepsPlace DEF MinOf, MaxOf
<1>2. Moves(s, scrollView(s, h)) /\ Moves(s, scrollView(s, -h))
  BY <1>1, ScrollMoves, Zenon
<1>3. Moves(s, [s EXCEPT !.y = a]) /\ Moves(s, [s EXCEPT !.y = b])
  BY <1>1, YMoves, Zenon
<1>4. HalfDown(s) = IF s.ydisp = ybase(s) THEN [s EXCEPT !.y = a] ELSE scrollView(s, h)
  BY Zenon DEF HalfDown
<1>5. HalfUp(s) = IF s.ydisp = 0 THEN [s EXCEPT !.y = b] ELSE scrollView(s, -h)
  BY Zenon DEF HalfUp
<1> HIDE DEF a, b, h
<1> QED BY <1>2, <1>3, <1>4, <1>5, Zenon

LEMMA UpDownMove ==
  ASSUME NEW s, Viewing(s)
  PROVE  Moves(s, Up(s)) /\ Moves(s, Down(s))
<1> DEFINE a == s.y - 1
           b == s.y + 1
           c == Height - 1
           n == [s EXCEPT !.y = c]
<1>1. c \in 0..Height - 1 /\ 1 \in Int /\ -1 \in Int
  BY KeepsPlace
<1>u. Up(s) = IF s.y = 0 THEN scrollView(s, -1) ELSE [s EXCEPT !.y = a]
  BY Zenon DEF Up
<1>d. Down(s) = IF s.y + 1 >= Height THEN scrollView(n, 1) ELSE [s EXCEPT !.y = b]
  BY Zenon DEF Down
<1>2. ASSUME s.y = 0 PROVE Moves(s, Up(s))
  <2>1. Moves(s, scrollView(s, -1))
    BY <1>1, ScrollMoves
  <2> QED BY <1>2, <1>u, <2>1, Zenon
<1>3. ASSUME s.y # 0 PROVE Moves(s, Up(s))
  <2>1. a \in 0..Height - 1
    BY <1>3, KeepsPlace
  <2>2. Moves(s, [s EXCEPT !.y = a])
    BY <2>1, YMoves, Zenon
  <2> QED BY <1>3, <1>u, <2>2, Zenon
<1>4. ASSUME s.y + 1 >= Height PROVE Moves(s, Down(s))
  <2>1. Moves(s, n)
    BY <1>1, YMoves, Zenon
  <2>2. Viewing(n)
    BY <2>1, MovesViewing
  <2>3. Moves(n, scrollView(n, 1))
    BY <1>1, <2>2, ScrollMoves
  <2>4. Moves(s, scrollView(n, 1))
    BY <2>1, <2>2, <2>3, MovesTwice
  <2> QED BY <1>4, <1>d, <2>4, Zenon
<1>5. ASSUME ~(s.y + 1 >= Height) PROVE Moves(s, Down(s))
  <2>1. b \in 0..Height - 1
    BY <1>5, KeepsPlace
  <2>2. Moves(s, [s EXCEPT !.y = b])
    BY <2>1, YMoves, Zenon
  <2> QED BY <1>5, <1>d, <2>2, Zenon
<1>6. Moves(s, Up(s))
  BY <1>2, <1>3
<1>7. Moves(s, Down(s))
  BY <1>4, <1>5
<1> QED BY <1>6, <1>7

\* places of the buffer are numbered row by row
LEMMA PlaceOf ==
  ASSUME NEW n \in Nat, NEW pt \in 0..n * Width - 1
  PROVE  pt \div Width \in 0..n - 1 /\ pt % Width \in 0..Width - 1
<1>0. Width \in Nat /\ Width > 0 /\ n * Width \in Nat
  BY KeysSizes
<1>1. pt \in Nat /\ pt < n * Width
  BY <1>0
<1> DEFINE q == pt \div Width
           r == pt % Width
<1>2. pt = Width * q + r /\ r \in 0..Width - 1 /\ q \in Int
  BY <1>0, <1>1
<1> HIDE DEF q, r
<1>3. q >= 0
  <2> SUFFICES ASSUME q <= -1 PROVE FALSE
    BY <1>2
  <2>1. Width * q <= Width * (-1)
    BY <1>0, <1>2
  <2> QED BY <1>0, <1>1, <1>2, <2>1
<1>4. q <= n - 1
  <2> SUFFICES ASSUME q >= n PROVE FALSE
    BY <1>2
  <2>1. Width * q >= Width * n /\ Width * n = n * Width
    BY <1>0, <1>2
  <2> QED BY <1>0, <1>1, <1>2, <2>1
<1> QED BY <1>2, <1>3, <1>4 DEF q, r

LEMMA NextWordMoves ==
  ASSUME NEW s, Viewing(s)
  PROVE  Moves(s, NextWord(s))
<1> DEFINE p0 == Row(s) * Width + s.x
           blank(pt) == Blank(s, pt \div Width, pt % Width)
           first == IF s.x >= Width THEN p0 - 1 ELSE p0
           n == LastRow(s) + 1
           stops == {pt \in first..(LastRow(s) + 1) * Width - 1 :
                        /\ ~blank(pt)
                        /\ pt % Width = Width - 1 \/ \E b \in p0..pt - 1 : blank(b)}
           r == Min(stops) \div Width
           c == Min(stops) % Width
<1>1. NextWord(s) = IF stops = {} THEN At(s, LastRow(s), s.x) ELSE At(s, r, c)
  BY Zenon DEF NextWord
<1>2. Moves(s, At(s, LastRow(s), s.x))
  <2>1. LastRow(s) \in 0..LastRow(s) /\ s.x \in 0..Width
    BY KeepsPlace
  <2> QED BY <2>1, AtMoves
<1>3. ASSUME stops # {} PROVE Moves(s, At(s, r, c))
  <2>1. Row(s) * Width \in Nat
    BY KeepsPlace
  <2>2. first \in Nat /\ n \in Nat /\ n - 1 = LastRow(s)
    BY <2>1, KeepsPlace
  <2>3. stops \in SUBSET Nat /\ stops \subseteq 0..n * Width - 1
    <3> HIDE DEF first
    <3> QED BY <2>2
  <2> HIDE DEF stops
  <2>4. Min(stops) \in 0..n * Width - 1
    BY <1>3, <2>3, LeastOf
  <2> HIDE DEF n
  <2>5. r \in 0..LastRow(s) /\ c \in 0..Width - 1
    BY <2>2, <2>4, PlaceOf
  <2> HIDE DEF r, c
  <2>6. c \in 0..Width /\ c # Width
    BY <2>5, KeysSizes
  <2> QED BY <2>5, <2>6, AtMoves
<1> HIDE DEF stops, r, c
<1> QED BY <1>1, <1>2, <1>3, Zenon
LEMMA WordEndMoves ==
  ASSUME NEW s, Viewing(s)
  PROVE  Moves(s, WordEnd(s))
<1> DEFINE p0 == Row(s) * Width + MinOf(s.x + 1, Width - 1)
           blank(pt) == Blank(s, pt \div Width, pt % Width)
           n == LastRow(s) + 1
           stops == {pt \in p0..(LastRow(s) + 1) * Width - 1 :
                        /\ ~blank(pt)
                        /\ pt % Width = Width - 1 \/ blank(pt + 1)}
           r == Min(stops) \div Width
           c == Min(stops) % Width
<1>1. WordEnd(s) = IF stops = {} THEN At(s, LastRow(s), 0) ELSE At(s, r, c)
  BY Zenon DEF WordEnd
<1>2. Moves(s, At(s, LastRow(s), 0))
  <2>1. LastRow(s) \in 0..LastRow(s) /\ 0 \in 0..Width /\ 0 # Width
    BY KeepsPlace
  <2> QED BY <2>1, AtMoves
<1>3. ASSUME stops # {} PROVE Moves(s, At(s, r, c))
  <2>1. Row(s) * Width \in Nat
    BY KeepsPlace
  <2>2. p0 \in Nat /\ n \in Nat /\ n - 1 = LastRow(s)
    BY <2>1, KeepsPlace DEF MinOf
  <2>3. stops \in SUBSET Nat /\ stops \subseteq 0..n * Width - 1
    <3> HIDE DEF p0
    <3> QED BY <2>2
  <2> HIDE DEF stops
  <2>4. Min(stops) \in 0..n * Width - 1
    BY <1>3, <2>3, LeastOf
  <2> HIDE DEF n
  <2>5. r \in 0..LastRow(s) /\ c \in 0..Width - 1
    BY <2>2, <2>4, PlaceOf
  <2> HIDE DEF r, c
  <2>6. c \in 0..Width /\ c # Width
    BY <2>5, KeysSizes
  <2> QED BY <2>5, <2>6, AtMoves
<1> HIDE DEF stops, r, c
<1> QED BY <1>1, <1>2, <1>3, Zenon

LEMMA PreviousWordMoves ==
  ASSUME NEW s, Viewing(s)
  PROVE  IF s.x >= Width THEN PreviousWord(s) = Thrown(s) ELSE Moves(s, PreviousWord(s))
<1> DEFINE from(r) == IF r = Row(s) THEN s.x ELSE Width - 1
           inside(r) == LET x == from(r) IN x > 0 /\ ~Blank(s, r, x) /\ ~Blank(s, r, x - 1)
           starts(r) == {c \in 0..from(r) :
                           /\ ~Blank(s, r, c) /\ (c = 0 \/ Blank(s, r, c - 1))
                           /\ inside(r) \/ \E b \in c + 1..from(r) : Blank(s, r, b)}
           rows == {r \in 0..Row(s) : starts(r) # {}}
           mid == Max(rows)
           c == Max(starts(mid))
<1>1. PreviousWord(s) = IF s.x >= Width THEN Thrown(s)
                        ELSE IF rows = {} THEN At(s, 0, 0) ELSE At(s, mid, c)
  BY Zenon DEF PreviousWord
<1>2. Moves(s, At(s, 0, 0))
  <2>1. 0 \in 0..LastRow(s) /\ 0 \in 0..Width /\ 0 # Width
    BY KeepsPlace
  <2> QED BY <2>1, AtMoves
<1>3. ASSUME rows # {}, ~(s.x >= Width) PROVE Moves(s, At(s, mid, c))
  <2>1. rows \in SUBSET (0..Row(s)) /\ Row(s) \in Nat
    BY KeepsPlace
  <2>2. mid \in rows
    <3> HIDE DEF rows
    <3> QED BY <1>3, <2>1, GreatestOf
  <2>3. mid \in 0..Row(s) /\ starts(mid) # {}
    BY <2>2, Zenon
  <2> HIDE DEF mid
  <2>4. from(mid) \in 0..Width - 1 /\ from(mid) \in Nat
    BY <1>3, KeepsPlace
  <2>5. starts(mid) \in SUBSET (0..from(mid))
    BY Zenon
  <2> HIDE DEF starts, from
  <2>6. c \in 0..from(mid)
    BY <2>3, <2>4, <2>5, GreatestOf
  <2> HIDE DEF c
  <2>7. mid \in 0..LastRow(s) /\ c \in 0..Width /\ c # Width
    BY <2>3, <2>4, <2>6, KeepsPlace
  <2> QED BY <2>7, AtMoves
<1> HIDE DEF rows, mid, c
<1> QED BY <1>1, <1>2, <1>3, Zenon

LEMMA ParagraphMoves ==
  ASSUME NEW s, Viewing(s), NEW up
  PROVE  Moves(s, Paragraph(s, up))
<1> DEFINE start == IF up THEN MaxOf(Row(s) - 1, 0) ELSE MinOf(Row(s) + 1, LastRow(s))
           scanned == IF up THEN 0..start ELSE start..LastRow(s)
           gaps == {r \in scanned : BlankRow(s, r) /\
                       \E f \in IF up THEN r + 1..start ELSE start..r - 1 : ~BlankRow(s, f)}
           none == IF up THEN 0 ELSE LastRow(s)
           some == IF up THEN Max(gaps) ELSE Min(gaps)
<1>1. Paragraph(s, up) = IF gaps = {} THEN At(s, none, 0) ELSE At(s, some, 0)
  BY Zenon DEF Paragraph
<1>0. 0 \in 0..Width /\ 0 # Width /\ LastRow(s) \in Nat
  BY KeepsPlace
<1>2. Moves(s, At(s, none, 0))
  <2>1. none \in 0..LastRow(s)
    BY <1>0
  <2> HIDE DEF none
  <2> QED BY <1>0, <2>1, AtMoves
<1>3. ASSUME gaps # {} PROVE Moves(s, At(s, some, 0))
  <2>1. start \in 0..LastRow(s)
    BY KeepsPlace DEF MaxOf, MinOf
  <2>2. gaps \in SUBSET scanned
    BY Zenon
  <2> HIDE DEF gaps, start
  <2>3. gaps \in SUBSET (0..LastRow(s)) /\ gaps \in SUBSET Nat
    BY <1>0, <2>1, <2>2
  <2>4. Max(gaps) \in gaps
    BY <1>0, <1>3, <2>3, GreatestOf, Zenon
  <2>4a. Min(gaps) \in gaps
    BY <1>3, <2>3, LeastOf, Zenon
  <2>5. some \in 0..LastRow(s)
    BY <2>3, <2>4, <2>4a, Zenon
  <2> HIDE DEF some
  <2> QED BY <1>0, <2>5, AtMoves
<1> HIDE DEF gaps, none, some
<1> QED BY <1>1, <1>2, <1>3, Zenon

LEMMA InkIn ==
  ASSUME NEW s, Viewing(s)
  PROVE  FirstInk(s) \in 0..Width - 1 /\ LastInk(s) \in 0..Width - 1
<1> DEFINE ink == {c \in 0..Width - 1 : ~Blank(s, Row(s), c)}
<1>1. ink \in SUBSET (0..Width - 1) /\ Width - 1 \in Nat /\ Width - 1 \in 0..Width - 1
  BY KeysSizes
<1>2. /\ FirstInk(s) = IF ink = {} THEN Width - 1 ELSE Min(ink)
      /\ LastInk(s) = IF ink = {} THEN 0
                      ELSE IF s.visualMode /\ Max(ink) < Width - 1 THEN Max(ink) + 1 ELSE Max(ink)
  BY Zenon DEF FirstInk, LastInk
<1> HIDE DEF ink
<1>1a. ink \in SUBSET Nat
  BY <1>1
<1>3. ASSUME ink # {} PROVE Min(ink) \in 0..Width - 1 /\ Max(ink) \in 0..Width - 1
  <2>1. Min(ink) \in ink
    BY <1>3, <1>1a, LeastOf, Zenon
  <2>2. Max(ink) \in ink
    BY <1>3, <1>1, GreatestOf, Zenon
  <2> QED BY <1>1, <2>1, <2>2, Zenon
<1> QED BY <1>1, <1>2, <1>3, KeysSizes
LEMMA MovedMoves ==
  ASSUME NEW s, Viewing(s), NEW key
  PROVE  Moves(s, Moved(s, key)) \/ (s.x = Width /\ Moved(s, key) = Thrown(s))
<1> DEFINE left == MaxOf(s.x - 1, 0)
           right == MinOf(s.x + 1, Width - 1)
           top == 0
           middle == Height \div 2
           bottom == Height - 1
           back == -(Height - 1)
           first == FirstInk(s)
           last == LastInk(s)
           d == ybase(s)
<1>1. /\ left \in 0..Width /\ (s.x # Width => left # Width)
      /\ right \in 0..Width /\ right # Width
      /\ top \in 0..Width /\ top # Width /\ top \in 0..Height - 1 /\ top \in 0..ybase(s)
      /\ middle \in 0..Height - 1 /\ bottom \in 0..Height - 1 /\ d \in 0..ybase(s)
      /\ bottom \in Int /\ back \in Int
  BY KeepsPlace DEF MaxOf, MinOf
<1>2. first \in 0..Width /\ first # Width /\ last \in 0..Width /\ last # Width
  BY InkIn, KeysSizes
<1>3. top = 0
  OBVIOUS
<1> HIDE DEF left, right, top, middle, bottom, back, first, last, d
<1>4. /\ Moves(s, scrollView(s, bottom)) /\ Moves(s, scrollView(s, back))
  BY <1>1, ScrollMoves, Zenon
<1>5. /\ Moves(s, [s EXCEPT !.x = left]) /\ Moves(s, [s EXCEPT !.x = right])
      /\ Moves(s, [s EXCEPT !.x = first]) /\ Moves(s, [s EXCEPT !.x = top])
      /\ Moves(s, [s EXCEPT !.x = last])
  BY <1>1, <1>2, XMoves, Zenon
<1>6. /\ Moves(s, [s EXCEPT !.x = top, !.y = top])
      /\ Moves(s, [s EXCEPT !.x = top, !.y = middle])
      /\ Moves(s, [s EXCEPT !.x = top, !.y = bottom])
  BY <1>1, XYMoves, Zenon
<1>7. /\ Moves(s, [s EXCEPT !.x = top, !.y = top, !.ydisp = top])
      /\ Moves(s, [s EXCEPT !.x = top, !.y = bottom, !.ydisp = d])
  BY <1>1, PlacedMoves, Zenon
<1>8. Moves(s, NextWord(s)) /\ Moves(s, WordEnd(s)) /\ Moves(s, Paragraph(s, key = "{"))
  BY NextWordMoves, WordEndMoves, ParagraphMoves, Zenon
<1>9. Moves(s, PreviousWord(s)) \/ (s.x = Width /\ PreviousWord(s) = Thrown(s))
  BY PreviousWordMoves, KeepsPlace
<1>10. /\ Moves(s, HalfDown(s)) /\ Moves(s, HalfUp(s)) /\ Moves(s, Up(s)) /\ Moves(s, Down(s))
  BY HalvesMove, UpDownMove, Zenon
<1>11. Moves(s, Right(s))
  BY <1>5, Zenon DEF Right, right
<1> DEFINE a1 == scrollView(s, bottom)
           a2 == scrollView(s, back)
           a3 == [s EXCEPT !.x = left]
           a4 == [s EXCEPT !.x = first]
           a5 == [s EXCEPT !.x = top]
           a6 == [s EXCEPT !.x = last]
           a7 == [s EXCEPT !.x = top, !.y = top, !.ydisp = top]
           a8 == [s EXCEPT !.x = top, !.y = bottom, !.ydisp = d]
           a9 == [s EXCEPT !.x = top, !.y = top]
           a10 == [s EXCEPT !.x = top, !.y = middle]
           a11 == [s EXCEPT !.x = top, !.y = bottom]
           a12 == Paragraph(s, key = "{")
           N == Moved(s, key)
<1>12. \/ N = a1 \/ N = a2 \/ N = a3 \/ N = a4 \/ N = a5 \/ N = a6 \/ N = a7 \/ N = a8
       \/ N = a9 \/ N = a10 \/ N = a11 \/ N = a12
       \/ N = HalfDown(s) \/ N = HalfUp(s) \/ N = Up(s) \/ N = Down(s) \/ N = Right(s)
       \/ N = NextWord(s) \/ N = PreviousWord(s) \/ N = WordEnd(s)
  <2> HIDE DEF a1, a2, a3, a4, a5, a6, a7, a8, a9, a10, a11, a12
  <2>1. N =
    CASE key = "^D" -> HalfDown(s)
      [] key = "^U" -> HalfUp(s)
      [] key = "^F" -> a1
      [] key = "^B" -> a2
      [] key = "k" -> Up(s)
      [] key = "j" -> Down(s)
      [] key = "h" -> a3
      [] key = "l" -> Right(s)
      [] key = "w" -> NextWord(s)
      [] key = "b" -> PreviousWord(s)
      [] key = "e" -> WordEnd(s)
      [] key = "^" -> a4
      [] key = "0" -> a5
      [] key = "$" -> a6
      [] key = "g" -> a7
      [] key = "G" -> a8
      [] key = "H" -> a9
      [] key = "M" -> a10
      [] key = "L" -> a11
      [] OTHER -> a12
    BY Zenon DEF Moved, N, a1, a2, a3, a4, a5, a6, a7, a8, a9, a10, a11, a12, left, top, middle,
                 bottom, back, first, last, d
  <2> HIDE DEF N
  <2> QED BY <2>1, Zenon
<1> HIDE DEF a12
<1>13. Moves(s, a12)
  BY <1>8, Zenon DEF a12
<1> QED BY <1>4, <1>5, <1>6, <1>7, <1>8, <1>9, <1>10, <1>11, <1>12, <1>13, Zenon
(***************************************************************************)
(* Selections                                                              *)
(***************************************************************************)
LEMMA Only == ASSUME NEW z PROVE <<z>> # <<>> /\ <<z>>[1] = z
  OBVIOUS

LEMMA RegionInside ==
  ASSUME NEW e, EndsOK(e), e.x1 # Width, e.x2 # Width
  PROVE  OffLine(Region(e)) = {}
<1> DEFINE swap == e.y2 < e.y1 \/ (e.y1 = e.y2 /\ e.x2 < e.x1)
           a == IF swap THEN <<e.y2, e.x2>> ELSE <<e.y1, e.x1>>
           b == IF swap THEN <<e.y1, e.x1>> ELSE <<e.y2, e.x2>>
           A == a[2]
           B == b[2]
<1>1. Region(e) = {q \in (a[1]..b[1]) \X (0..Width) :
                      /\ q[1] = a[1] => q[2] >= A
                      /\ IF q[1] = b[1] THEN q[2] <= B ELSE q[2] < Width}
  BY Zenon DEF Region
<1>2. e.x1 \in Nat /\ e.x2 \in Nat /\ e.x1 < Width /\ e.x2 < Width /\ Width \in Nat
  BY KeysSizes DEF EndsOK
<1>3. B \in Nat /\ B < Width
  BY <1>2
<1>4. \A q \in Region(e) : q[2] \in 0..Width /\ (q[2] <= B \/ q[2] < Width)
  <2> HIDE DEF a, b, A, B
  <2> QED BY <1>1
<1> HIDE DEF B
<1>5. \A q \in Region(e) : ~(q[2] >= Width)
  BY <1>2, <1>3, <1>4
<1> QED BY <1>5 DEF OffLine

LEMMA RegionStuck ==
  ASSUME NEW e, EndsOK(e), Stuck(e)
  PROVE  OffLine(Region(e)) # {}
<1> DEFINE q == <<e.y1, e.x1>>
<1>1. e.x1 = Width /\ e.x2 = Width /\ e.y1 = e.y2 /\ e.y1 \in Nat /\ Width \in Nat
  BY KeysSizes, Zenon DEF EndsOK, Stuck
<1>2. q[1] = e.y1 /\ q[2] = Width /\ q \in (e.y1..e.y1) \X (0..Width)
  BY <1>1
<1> HIDE DEF q
<1>3. ~(e.y2 < e.y1) /\ ~(e.x2 < e.x1)
  BY <1>1
<1>4. <<e.y1, e.x1>>[1] = e.y1 /\ <<e.y2, e.x2>>[1] = e.y1
      /\ <<e.y1, e.x1>>[2] = Width /\ <<e.y2, e.x2>>[2] = Width
  BY <1>1
<1>5. Width >= Width /\ Width <= Width
  BY <1>1
<1>6. q \in Region(e)
  BY <1>2, <1>3, <1>4, <1>5, Zenon DEF Region
<1> QED BY <1>2, <1>5, <1>6, Zenon DEF OffLine

\* r is s with the cells selected from the old end, or x1, y1, to x2, y2
Selects(s, x1, x2, y1, y2, r) ==
    /\ Frame(s, r, {"sel", "marked", "thrown"})
    /\ r.thrown = s.thrown \/ r.thrown = TRUE
    /\ r.sel # <<>> /\ EndsOK(r.sel[1])
    /\ s.sel # <<>> /\ s.sel[1].y1 < s.ydisp + Height =>
         r.sel[1].x1 = s.sel[1].x1 /\ r.sel[1].y1 = s.sel[1].y1
    /\ /\ x1 # Width /\ x2 # Width
       /\ s.sel # <<>> => s.sel[1].x1 # Width /\ s.sel[1].x2 # Width
       => /\ r.thrown = s.thrown /\ Inside(r.sel[1], s.ydisp + Height)
          /\ s.marked = (IF s.sel = <<>> THEN {} ELSE Region(s.sel[1])) =>
               r.marked = Region(r.sel[1])
    /\ (IF s.sel = <<>> THEN x1 = Width /\ x2 = Width /\ y1 = y2 ELSE Stuck(s.sel[1]))
       => r.thrown = TRUE /\ Stuck(r.sel[1])

LEMMA SelectText ==
  ASSUME NEW s, DOMAIN s = KeysFields, s.ydisp \in Nat, s.sel # <<>> => EndsOK(s.sel[1]),
         NEW x1 \in 0..Width, NEW x2 \in 0..Width, NEW y1 \in Int, NEW y2 \in Int
  PROVE  Selects(s, x1, x2, y1, y2, selectText(s, x1, x2, y1, y2))
<1> DEFINE bottom == s.ydisp + Height - 1
           old == IF s.sel = <<>> THEN {} ELSE Region(s.sel[1])
           a == Anchor(s, x1, y1)
           ya == Clip(a[2], 0, bottom)
           yb == Clip(y2, 0, bottom)
           xa == a[1]
           new == [x1 |-> xa, y1 |-> ya, x2 |-> x2, y2 |-> yb]
           cells == Region(new)
           left == s.marked \ old
           now == left \cup (cells \ OffLine(cells))
           sel == <<new>>
           yes == TRUE
           unmarked == [s EXCEPT !.marked = left]
           done == [unmarked EXCEPT !.sel = sel, !.marked = now]
           bad1 == [unmarked EXCEPT !.thrown = yes]
           bad2 == [done EXCEPT !.thrown = yes]
           r == selectText(s, x1, x2, y1, y2)
<1>1. r = IF OffLine(old) # {} THEN bad1 ELSE IF OffLine(cells) # {} THEN bad2 ELSE done
  <2> DEFINE d1 == [unmarked EXCEPT !.sel = sel, !.marked = @ \cup (cells \ OffLine(cells))]
  <2>1. r = IF OffLine(old) # {} THEN Thrown(unmarked)
            ELSE IF OffLine(cells) # {} THEN Thrown(d1) ELSE d1
    BY Zenon DEF selectText, Unmark
  <2>2. Thrown(unmarked) = bad1
    BY Zenon DEF Thrown
  <2>3. unmarked.marked = left
    BY Zenon DEF KeysFields
  <2>4. d1 = done
    <3> DEFINE u == [unmarked EXCEPT !.sel = sel]
    <3>1. u.marked = left
      BY Zenon DEF KeysFields
    <3> HIDE DEF left, cells, sel
    <3> QED BY <3>1, Zenon
  <2>5. Thrown(d1) = bad2
    BY <2>4, Zenon DEF Thrown
  <2> QED BY <2>1, <2>2, <2>4, <2>5, Zenon
<1>2. /\ Width \in Nat /\ Height \in Nat /\ Height > 1
  BY KeysSizes
<1>3. s.sel # <<>> => EndsOK(s.sel[1])
  OBVIOUS
<1>4. /\ xa = IF s.sel = <<>> THEN x1 ELSE s.sel[1].x1
      /\ a[2] = IF s.sel = <<>> THEN y1 ELSE s.sel[1].y1
  BY DEF Anchor
<1>5. /\ xa \in 0..Width /\ a[2] \in Int /\ (s.sel # <<>> => a[2] \in Nat)
      /\ s.sel # <<>> => s.sel[1].x1 \in 0..Width /\ s.sel[1].y1 \in Nat
  <2> HIDE DEF xa, a
  <2> QED BY <1>3, <1>4 DEF EndsOK
<1>6. /\ ya \in Nat /\ yb \in Nat /\ (s.sel # <<>> /\ a[2] < s.ydisp + Height => ya = a[2])
      /\ ya < s.ydisp + Height /\ yb < s.ydisp + Height
      /\ s.sel = <<>> /\ y1 = y2 => ya = yb
  <2>1. s.sel = <<>> => a[2] = y1
    BY <1>4, Zenon
  <2> HIDE DEF a
  <2> QED BY <1>2, <1>5, <2>1, SMTT(30) DEF Clip, MinOf, MaxOf
<1> HIDE DEF xa, a, ya, yb
<1>7. new.x1 = xa /\ new.y1 = ya /\ new.x2 = x2 /\ new.y2 = yb
  OBVIOUS
<1> HIDE DEF new
<1>8. EndsOK(new)
  BY <1>5, <1>6, <1>7 DEF EndsOK
<1>9. sel # <<>> /\ sel[1] = new
  BY Only
<1>10. yes = TRUE
  OBVIOUS
<1> HIDE DEF sel, yes, left, now, old, cells
<1>11. /\ Frame(s, bad1, {"sel", "marked", "thrown"}) /\ bad1.thrown = yes /\ bad1.sel = s.sel
  BY Zenon DEF Frame, KeysFields
<1>12. /\ Frame(s, done, {"sel", "marked", "thrown"}) /\ done.thrown = s.thrown
       /\ done.sel = sel /\ done.marked = now
  BY Zenon DEF Frame, KeysFields
<1>13. /\ Frame(s, bad2, {"sel", "marked", "thrown"}) /\ bad2.thrown = yes /\ bad2.sel = sel
  BY Zenon DEF Frame, KeysFields
<1> HIDE DEF bad1, bad2, done
<1>14. OffLine(old) # {} => s.sel # <<>>
  BY DEF old, OffLine
<1>15. s.sel # <<>> /\ s.sel[1].y1 < s.ydisp + Height =>
         sel[1].x1 = s.sel[1].x1 /\ sel[1].y1 = s.sel[1].y1
  BY <1>4, <1>6, <1>7, <1>9
<1> HIDE DEF r
<1>16. /\ Frame(s, r, {"sel", "marked", "thrown"})
       /\ r.thrown = s.thrown \/ r.thrown = TRUE
       /\ r.sel # <<>> /\ EndsOK(r.sel[1])
       /\ s.sel # <<>> /\ s.sel[1].y1 < s.ydisp + Height =>
            r.sel[1].x1 = s.sel[1].x1 /\ r.sel[1].y1 = s.sel[1].y1
  <2>1. CASE OffLine(old) # {}
    BY <1>1, <1>3, <1>10, <1>11, <1>14, <2>1, Zenon
  <2>2. CASE OffLine(old) = {} /\ OffLine(cells) # {}
    BY <1>1, <1>8, <1>9, <1>10, <1>13, <1>15, <2>2, Zenon
  <2>3. CASE OffLine(old) = {} /\ OffLine(cells) = {}
    BY <1>1, <1>8, <1>9, <1>12, <1>15, <2>3, Zenon
  <2> QED BY <2>1, <2>2, <2>3, Zenon
<1>17. ASSUME x1 # Width, x2 # Width,
              s.sel # <<>> => s.sel[1].x1 # Width /\ s.sel[1].x2 # Width
       PROVE  /\ r.thrown = s.thrown /\ Inside(r.sel[1], s.ydisp + Height)
              /\ s.marked = (IF s.sel = <<>> THEN {} ELSE Region(s.sel[1])) =>
                   r.marked = Region(r.sel[1])
  <2>1. OffLine(old) = {}
    <3>1. s.sel # <<>> => OffLine(Region(s.sel[1])) = {}
      BY <1>3, <1>17, RegionInside, Zenon
    <3>2. OffLine({}) = {}
      BY DEF OffLine
    <3> QED BY <3>1, <3>2, Zenon DEF old
  <2>2. xa # Width
    BY <1>4, <1>17
  <2>3. OffLine(Region(new)) = {}
    BY <1>7, <1>8, <1>17, <2>2, RegionInside, Zenon
  <2>4. r = done
    BY <1>1, <2>1, <2>3, Zenon DEF cells
  <2>5. s.marked = old => left = {}
    BY DEF left
  <2>6. s.marked = old => now = Region(new)
    BY <2>3, <2>5 DEF now, cells
  <2>7. Inside(new, s.ydisp + Height)
    BY <1>6, <1>7, <1>17, <2>2, Zenon DEF Inside
  <2> QED BY <1>9, <1>12, <2>4, <2>6, <2>7, Zenon DEF old
<1>18. ASSUME IF s.sel = <<>> THEN x1 = Width /\ x2 = Width /\ y1 = y2 ELSE Stuck(s.sel[1])
       PROVE  r.thrown = TRUE /\ Stuck(r.sel[1])
  <2>1. CASE s.sel = <<>>
    <3>1. Stuck(new)
      BY <1>4, <1>6, <1>7, <1>18, <2>1, Zenon DEF Stuck
    <3>2. OffLine(Region(new)) # {}
      BY <1>8, <3>1, RegionStuck, Zenon
    <3>4. OffLine(old) = {}
      BY <1>14, <2>1, Zenon
    <3>5. r = bad2
      BY <1>1, <3>2, <3>4, Zenon DEF cells
    <3> QED BY <1>9, <1>10, <1>13, <3>1, <3>5, Zenon
  <2>2. CASE s.sel # <<>>
    <3>1. Stuck(s.sel[1])
      BY <1>18, <2>2, Zenon
    <3>2. OffLine(Region(s.sel[1])) # {}
      BY <1>3, <2>2, <3>1, RegionStuck, Zenon
    <3>3. r = bad1
      BY <1>1, <2>2, <3>2, Zenon DEF old
    <3> QED BY <1>10, <1>11, <3>1, <3>3, Zenon
  <2> QED BY <2>1, <2>2
<1> QED BY <1>16, <1>17, <1>18, Zenon DEF r, Selects
(***************************************************************************)
(* What y copies                                                           *)
(***************************************************************************)
Space == " "

\* in a line, the place behind the last character among columns a to b
InkEnd(l, a, b) ==
    LET ink == {c \in a..b : l[c + 1] # Space} IN IF ink = {} THEN a ELSE Max(ink) + 1

LEMMA InkIs ==
  ASSUME NEW l, NEW a \in Nat, NEW b \in Int, NEW ink, ink = {c \in a..b : l[c + 1] # Space}
  PROVE  ink # {} => Max(ink) \in ink /\ \A c \in ink : Max(ink) >= c
<1> SUFFICES ASSUME ink # {} PROVE Max(ink) \in ink /\ \A c \in ink : Max(ink) >= c
  OBVIOUS
<1>1. b \in Nat
  OBVIOUS
<1>2. ink \in SUBSET (0..b)
  OBVIOUS
<1> QED BY <1>1, <1>2, GreatestOf, Zenon

LEMMA InkNone == ASSUME NEW l, NEW a \in Nat PROVE InkEnd(l, a, a - 1) = a
<1>1. {c \in a..a - 1 : l[c + 1] # Space} = {}
  OBVIOUS
<1> QED BY <1>1, Zenon DEF InkEnd

LEMMA InkRange ==
  ASSUME NEW l, NEW a \in Nat, NEW n \in Nat
  PROVE  InkEnd(l, a, a + n - 1) \in a..a + n
<1> DEFINE b == a + n - 1
           ink == {c \in a..b : l[c + 1] # Space}
<1>1. b \in Int
  OBVIOUS
<1>2. ink # {} => Max(ink) \in ink /\ \A c \in ink : Max(ink) >= c
  <2> HIDE DEF b
  <2> QED BY <1>1, InkIs, Zenon
<1>3. ink # {} => Max(ink) \in a..a + n - 1
  BY <1>2
<1>4. InkEnd(l, a, b) = IF ink = {} THEN a ELSE Max(ink) + 1
  BY Zenon DEF InkEnd
<1> HIDE DEF ink
<1> QED BY <1>3, <1>4

LEMMA InkStep ==
  ASSUME NEW l, NEW a \in Nat, NEW n \in Nat
  PROVE  /\ l[a + n + 1] = Space => InkEnd(l, a, a + n) = InkEnd(l, a, a + n - 1)
         /\ l[a + n + 1] # Space => InkEnd(l, a, a + n) = a + n + 1
<1> DEFINE ink(b) == {c \in a..b : l[c + 1] # Space}
<1>0. \A b : InkEnd(l, a, b) = IF ink(b) = {} THEN a ELSE Max(ink(b)) + 1
  BY Zenon DEF InkEnd
<1>1. CASE l[a + n + 1] = Space
  <2>1. ink(a + n) = ink(a + n - 1)
    BY <1>1
  <2> HIDE DEF ink
  <2> QED BY <1>0, <1>1, <2>1, Zenon
<1>2. CASE l[a + n + 1] # Space
  <2> DEFINE b == a + n
  <2>1. b \in ink(b) /\ b \in Int
    BY <1>2
  <2>2. Max(ink(b)) \in ink(b) /\ \A c \in ink(b) : Max(ink(b)) >= c
    <3> HIDE DEF b
    <3>1. ink(b) # {}
      BY <2>1
    <3> QED BY <2>1, <3>1, InkIs, Zenon
  <2>3. Max(ink(b)) = b
    BY <2>1, <2>2
  <2> HIDE DEF ink
  <2>4. InkEnd(l, a, b) = b + 1
    BY <1>0, <2>1, <2>3
  <2> QED BY <1>2, <2>4, Zenon
<1> QED BY <1>1, <1>2

LEMMA TrimmedIs ==
  ASSUME NEW lines, NEW r, NEW a \in Nat, NEW b \in Int, NEW l \in Seq(STRING),
         lines[r + 1] = l, b < Len(l)
  PROVE  Trimmed(lines, r, a, b) = SubSeq(l, a + 1, InkEnd(l, a, b))
<1> DEFINE ink == {c \in a..b : l[c + 1] # Space}
<1>1. Trimmed(lines, r, a, b) = IF ink = {} THEN <<>> ELSE SubSeq(l, a + 1, Max(ink) + 1)
  BY Zenon DEF Trimmed, Space
<1>2. InkEnd(l, a, b) = IF ink = {} THEN a ELSE Max(ink) + 1
  BY Zenon DEF InkEnd
<1>3. SubSeq(l, a + 1, a) = <<>>
  BY SubSeqEmpty
<1> HIDE DEF ink
<1> QED BY <1>1, <1>2, <1>3, Zenon

\* the loop of grabRow: what a cell adds, the loop as a relation, and what it
\* has after n cells
GrabCell(was, ch) ==
    IF ch = Space THEN [out |-> was.out, buf |-> Append(was.buf, ch)]
    ELSE [out |-> was.out \o was.buf \o <<ch>>, buf |-> <<>>]
Grabs(s, r, a, b, got) ==
    got = [n \in 0..b - a + 1 |-> IF n = 0 THEN [out |-> <<>>, buf |-> <<>>]
                                  ELSE GrabCell(got[n - 1], Cell(s, r, a + n - 1))]
Grabbed(l, a, n) ==
    [out |-> SubSeq(l, a + 1, InkEnd(l, a, a + n - 1)),
     buf |-> SubSeq(l, InkEnd(l, a, a + n - 1) + 1, a + n)]
GrabsOn(s, r, a, b, l) ==
    \A n \in 0..b - a : Grabbed(l, a, n + 1) = GrabCell(Grabbed(l, a, n), Cell(s, r, a + n))

LEMMA GrabNone ==
  ASSUME NEW l \in Seq(STRING), NEW a \in Nat
  PROVE  Grabbed(l, a, 0) = [out |-> <<>>, buf |-> <<>>]
<1>1. a + 0 - 1 = a - 1 /\ a + 0 = a
  OBVIOUS
<1>2. InkEnd(l, a, a + 0 - 1) = a
  BY <1>1, InkNone, Zenon
<1>3. SubSeq(l, a + 1, a) = <<>>
  BY SubSeqEmpty
<1> QED BY <1>1, <1>2, <1>3, Zenon DEF Grabbed

LEMMA GrabLoop ==
  ASSUME NEW s, NEW r, NEW a \in Nat, NEW b \in Nat, a <= b, NEW l \in Seq(STRING),
         s.lines[r + 1] = l, b < Len(l)
  PROVE  GrabsOn(s, r, a, b, l)
<1> DEFINE end(n) == InkEnd(l, a, a + n - 1)
           taken(n) == SubSeq(l, a + 1, end(n))
           held(n) == SubSeq(l, end(n) + 1, a + n)
<1>3. ASSUME NEW n \in 0..b - a
      PROVE  IF Cell(s, r, a + n) = Space
             THEN taken(n + 1) = taken(n) /\ held(n + 1) = Append(held(n), Cell(s, r, a + n))
             ELSE taken(n + 1) = taken(n) \o held(n) \o <<Cell(s, r, a + n)>> /\ held(n + 1) = <<>>
  <2> DEFINE ch == l[a + n + 1]
  <2>1. Cell(s, r, a + n) = ch
    BY Zenon DEF Cell
  <2>2. n \in Nat /\ a + n + 1 \in 1..Len(l) /\ a + (n + 1) - 1 = a + n
    OBVIOUS
  <2>3. /\ end(n) \in a..a + n
        /\ end(n + 1) = IF ch = Space THEN end(n) ELSE a + n + 1
    <3>0. n \in Nat
      BY <2>2, Zenon
    <3>1. InkEnd(l, a, a + n - 1) \in a..a + n
      BY <3>0, InkRange, Zenon
    <3>2. /\ ch = Space => InkEnd(l, a, a + n) = InkEnd(l, a, a + n - 1)
          /\ ch # Space => InkEnd(l, a, a + n) = a + n + 1
      BY <3>0, InkStep, Zenon
    <3> QED BY <2>2, <3>1, <3>2, Zenon
  <2> HIDE DEF end
  <2>r. ASSUME NEW i \in Nat, i <= a + n, i >= a
        PROVE  SubSeq(l, i + 1, a + n + 1) = SubSeq(l, i + 1, a + n) \o <<ch>>
    <3> DEFINE mm == i + 1
               nn == a + n + 1
    <3>1. mm \in 1..Len(l) /\ nn \in mm..Len(l) /\ nn - 1 = a + n
      BY <2>2, <2>r
    <3> HIDE DEF mm, nn
    <3>2. SubSeq(l, mm, nn) = SubSeq(l, mm, nn - 1) \o <<l[nn]>>
      BY <3>1, SubSeqRecursiveSecond, Zenon
    <3> QED BY <3>1, <3>2, Zenon DEF mm, nn
  <2>4. ch \in STRING
    BY <2>2
  <2>5. CASE ch = Space
    <3>1. end(n + 1) = end(n)
      BY <2>3, <2>5
    <3>2. SubSeq(l, end(n) + 1, a + n + 1) = SubSeq(l, end(n) + 1, a + n) \o <<ch>>
      <4>1. end(n) \in Nat /\ end(n) <= a + n /\ end(n) >= a
        BY <2>3
      <4> QED BY <4>1, <2>r, Zenon
    <3>3. held(n) \in Seq(STRING)
      BY <2>2, <2>3, SubSeqProperties
    <3>4. Append(held(n), ch) = held(n) \o <<ch>>
      <4> HIDE DEF held
      <4> QED BY <2>4, <3>3
    <3>5. taken(n + 1) = taken(n) /\ held(n + 1) = SubSeq(l, end(n) + 1, a + n + 1)
      <4>1. a + (n + 1) = a + n + 1
        OBVIOUS
      <4> QED BY <3>1, <4>1, Zenon
    <3> HIDE DEF taken, ch
    <3> QED BY <2>1, <2>5, <3>2, <3>4, <3>5, Zenon
  <2>6. CASE ch # Space
    <3>1. end(n + 1) = a + n + 1
      BY <2>3, <2>6
    <3>2. taken(n) \o held(n) = SubSeq(l, a + 1, a + n)
      <4> DEFINE mm == a + 1
                 kk == end(n)
                 nn == a + n
      <4>1. mm \in 1..Len(l) + 1 /\ kk \in mm - 1..Len(l) /\ nn \in kk..Len(l)
        BY <2>2, <2>3
      <4> HIDE DEF mm, kk, nn
      <4>2. SubSeq(l, mm, kk) \o SubSeq(l, kk + 1, nn) = SubSeq(l, mm, nn)
        BY <4>1, ConcatAdjacentSubSeq, Zenon
      <4> QED BY <4>2, Zenon DEF mm, kk, nn
    <3>3. SubSeq(l, a + 1, a + n + 1) = SubSeq(l, a + 1, a + n) \o <<ch>>
      <4>1. a \in Nat /\ a <= a + n /\ a >= a
        BY <2>2
      <4> QED BY <4>1, <2>r, Zenon
    <3>4. SubSeq(l, a + n + 2, a + n + 1) = <<>>
      BY SubSeqEmpty
    <3>5. held(n + 1) = <<>>
      BY <3>1, <3>4
    <3> QED BY <2>1, <2>6, <3>1, <3>2, <3>3, <3>5
  <2> QED BY <2>5, <2>6
<1>4. \A n : Grabbed(l, a, n) = [out |-> taken(n), buf |-> held(n)]
  BY Zenon DEF Grabbed
<1> HIDE DEF end, taken, held
<1>5. ASSUME NEW n \in 0..b - a
      PROVE  Grabbed(l, a, n + 1) = GrabCell(Grabbed(l, a, n), Cell(s, r, a + n))
  <2> DEFINE was == Grabbed(l, a, n)
             ch == Cell(s, r, a + n)
  <2>0. was = [out |-> taken(n), buf |-> held(n)]
    BY <1>4, Zenon
  <2>1. was.out = taken(n) /\ was.buf = held(n)
    <3> HIDE DEF was
    <3> QED BY <2>0, Zenon
  <2>2. Grabbed(l, a, n + 1) = [out |-> taken(n + 1), buf |-> held(n + 1)]
    BY <1>4, Zenon
  <2> HIDE DEF was
  <2>3. GrabCell(was, ch) = IF ch = Space THEN [out |-> taken(n), buf |-> Append(held(n), ch)]
                            ELSE [out |-> taken(n) \o held(n) \o <<ch>>, buf |-> <<>>]
    BY <2>1, Zenon DEF GrabCell
  <2>4. IF ch = Space THEN taken(n + 1) = taken(n) /\ held(n + 1) = Append(held(n), ch)
        ELSE taken(n + 1) = taken(n) \o held(n) \o <<ch>> /\ held(n + 1) = <<>>
    BY <1>3, Zenon
  <2> HIDE DEF ch
  <2>5. CASE ch = Space
    BY <2>2, <2>3, <2>4, <2>5, Zenon DEF was, ch
  <2>6. CASE ch # Space
    BY <2>2, <2>3, <2>4, <2>6, Zenon DEF was, ch
  <2> QED BY <2>5, <2>6
<1> QED BY <1>5, Zenon DEF GrabsOn

\* a row of the selection is its line without the blank end
LEMMA RowGrabbed ==
  ASSUME NEW s, NEW r, NEW a \in Nat, NEW b \in Nat, a <= b, NEW l \in Seq(STRING),
         s.lines[r + 1] = l, b < Len(l)
  PROVE  grabRow(s, r, a, b) = Append(Trimmed(s.lines, r, a, b), "\n")
<1> DEFINE N == b - a + 1
           closed(n) == Grabbed(l, a, n)
           first == [out |-> <<>>, buf |-> <<>>]
           next(was, ch) == GrabCell(was, ch)
           body(g, n) == IF n = 0 THEN first ELSE next(g[n - 1], Cell(s, r, a + n - 1))
           got == CHOOSE g : Grabs(s, r, a, b, g)
           S == {n \in Nat : n <= N => got[n] = closed(n)}
<1>0. N \in Nat /\ N > 0 /\ 0 \in 0..N /\ N \in 0..N /\ a + N - 1 = b
  OBVIOUS
<1>1. closed(0) = first /\ \A n \in 0..b - a : closed(n + 1) = next(closed(n), Cell(s, r, a + n))
  <2> HIDE DEF N, got, S, body
  <2>1. Grabbed(l, a, 0) = [out |-> <<>>, buf |-> <<>>]
    BY GrabNone, Zenon
  <2>2. \A n \in 0..b - a :
             Grabbed(l, a, n + 1) = GrabCell(Grabbed(l, a, n), Cell(s, r, a + n))
    <3>1. GrabsOn(s, r, a, b, l)
      BY GrabLoop, Zenon
    <3> QED BY <3>1, Zenon DEF GrabsOn
  <2> QED BY <2>1, <2>2, Zenon
<1> HIDE DEF closed, first, next
<1>2. ASSUME NEW n \in 0..N, n # 0
      PROVE  closed(n) = next(closed(n - 1), Cell(s, r, a + n - 1)) /\ n - 1 \in 0..N
  <2> DEFINE i == n - 1
  <2>1. i \in 0..b - a /\ i \in 0..N /\ i + 1 = n /\ a + i = a + n - 1
    BY <1>0, <1>2
  <2> HIDE DEF i, N
  <2>2. closed(n) = next(closed(i), Cell(s, r, a + n - 1))
    BY <1>1, <2>1, Zenon
  <2> QED BY <2>1, <2>2, Zenon DEF i
<1>3. \A g : Grabs(s, r, a, b, g) <=> g = [n \in 0..N |-> body(g, n)]
  BY Zenon DEF Grabs, first, next
<1> HIDE DEF N
<1>4. \E g : Grabs(s, r, a, b, g)
  <2> DEFINE g == [n \in 0..N |-> closed(n)]
  <2>1. ASSUME NEW n \in 0..N PROVE closed(n) = body(g, n)
    <3>1. CASE n = 0
      BY <1>1, <3>1, Zenon
    <3>2. CASE n # 0
      <4>1. n - 1 \in 0..N /\ closed(n) = next(closed(n - 1), Cell(s, r, a + n - 1))
        BY <1>2, <3>2, Zenon
      <4>2. g[n - 1] = closed(n - 1)
        BY <4>1, Zenon
      <4> HIDE DEF g
      <4> QED BY <3>2, <4>1, <4>2, Zenon
    <3> QED BY <3>1, <3>2
  <2>2. g = [n \in 0..N |-> body(g, n)]
    <3> DEFINE h(n) == body(g, n)
    <3>1. \A n \in 0..N : closed(n) = h(n)
      BY <2>1, Zenon
    <3> HIDE DEF h
    <3>2. [n \in 0..N |-> closed(n)] = [n \in 0..N |-> h(n)]
      BY <3>1
    <3> QED BY <3>2, Zenon DEF h
  <2> HIDE DEF g
  <2> QED BY <1>3, <2>2, Zenon
<1>5. got = [n \in 0..N |-> body(got, n)]
  BY <1>3, <1>4, Zenon
<1> HIDE DEF got
<1>6. \A n \in 0..N : got[n] = body(got, n)
  BY <1>5, Zenon
<1>7. 0 \in S
  <2>1. got[0] = closed(0)
    BY <1>0, <1>1, <1>6, Zenon
  <2> QED BY <2>1
<1>8. ASSUME NEW n \in Nat, n \in S PROVE n + 1 \in S
  <2> SUFFICES ASSUME n + 1 <= N PROVE got[n + 1] = closed(n + 1)
    OBVIOUS
  <2> DEFINE i == n + 1
  <2>1. i \in 0..N /\ i # 0 /\ i - 1 = n /\ n <= N
    BY <1>0
  <2>2. got[n] = closed(n)
    BY <1>8, <2>1
  <2> HIDE DEF i, S
  <2>3. got[i] = next(got[i - 1], Cell(s, r, a + i - 1))
    BY <1>6, <2>1, Zenon
  <2>4. closed(i) = next(closed(i - 1), Cell(s, r, a + i - 1))
    BY <1>2, <2>1, Zenon
  <2>5. got[i] = closed(i)
    BY <2>1, <2>2, <2>3, <2>4, Zenon
  <2> QED BY <2>5, Zenon DEF i
<1> HIDE DEF S
<1>9. got[N] = closed(N)
  <2>1. N \in S
    BY <1>0, <1>7, <1>8, SetInduction
  <2> QED BY <1>0, <2>1 DEF S
<1>10. grabRow(s, r, a, b) = Append(got[N].out, "\n")
  BY Zenon DEF grabRow, Grabs, GrabCell, Space, got, N
<1>11. closed(N).out = SubSeq(l, a + 1, InkEnd(l, a, b))
  BY <1>0, Zenon DEF closed, Grabbed
<1>12. Trimmed(s.lines, r, a, b) = SubSeq(l, a + 1, InkEnd(l, a, b))
  <2>1. b \in Int
    OBVIOUS
  <2> QED BY <2>1, TrimmedIs, ZenonT(40)
<1> QED BY <1>9, <1>10, <1>11, <1>12, Zenon

\* every row from one end of a selection to the other has cells in it
LEMMA RegionRows ==
  ASSUME NEW e, EndsOK(e), e.x1 # Width, e.x2 # Width, NEW h \in Nat, e.y1 < h, e.y2 < h
  PROVE  /\ {q[1] : q \in Region(e)} # {} /\ {q[1] : q \in Region(e)} \subseteq 0..h - 1
         /\ \A r, s \in {q[1] : q \in Region(e)} : \A i \in r..s : i \in {q[1] : q \in Region(e)}
         /\ \A r : Span(e, r) \subseteq 0..Width - 1
         /\ \A r \in {q[1] : q \in Region(e)} : Span(e, r) # {}
<1> DEFINE swap == e.y2 < e.y1 \/ (e.y1 = e.y2 /\ e.x2 < e.x1)
           a == IF swap THEN <<e.y2, e.x2>> ELSE <<e.y1, e.x1>>
           b == IF swap THEN <<e.y1, e.x1>> ELSE <<e.y2, e.x2>>
           A1 == a[1]
           A2 == a[2]
           B1 == b[1]
           B2 == b[2]
           rows == {q[1] : q \in Region(e)}
<1>1. Region(e) = {q \in (A1..B1) \X (0..Width) :
                      /\ q[1] = A1 => q[2] >= A2
                      /\ IF q[1] = B1 THEN q[2] <= B2 ELSE q[2] < Width}
  BY Zenon DEF Region
<1>2. /\ e.x1 \in Nat /\ e.x2 \in Nat /\ e.x1 < Width /\ e.x2 < Width /\ Width \in Nat
      /\ e.y1 \in Nat /\ e.y2 \in Nat
  BY KeysSizes DEF EndsOK
<1>3. /\ A1 \in Nat /\ A2 \in Nat /\ B1 \in Nat /\ B2 \in Nat /\ A2 < Width /\ B2 < Width
      /\ A1 <= B1 /\ B1 < h /\ (A1 = B1 => A2 <= B2)
  BY <1>2
<1> HIDE DEF A1, A2, B1, B2
<1>4. ASSUME NEW q \in Region(e) PROVE q[1] \in A1..B1 /\ q[2] \in 0..Width - 1 /\ q = <<q[1], q[2]>>
  <2>1. /\ q \in (A1..B1) \X (0..Width)
        /\ IF q[1] = B1 THEN q[2] <= B2 ELSE q[2] < Width
    BY <1>1, <1>4, Zenon
  <2> QED BY <1>2, <1>3, <2>1
<1>5. ASSUME NEW r \in A1..B1 PROVE \E c : <<r, c>> \in Region(e)
  <2> DEFINE c == IF r = A1 THEN A2 ELSE 0
  <2>1. /\ <<r, c>> \in (A1..B1) \X (0..Width)
        /\ <<r, c>>[1] = A1 => <<r, c>>[2] >= A2
        /\ IF <<r, c>>[1] = B1 THEN <<r, c>>[2] <= B2 ELSE <<r, c>>[2] < Width
    BY <1>2, <1>3
  <2> HIDE DEF c
  <2> QED BY <1>1, <2>1, Zenon
<1>6. rows = A1..B1
  <2>1. rows \subseteq A1..B1
    BY <1>4, Zenon
  <2>2. ASSUME NEW r \in A1..B1 PROVE r \in rows
    <3>1. PICK c : <<r, c>> \in Region(e)
      BY <1>5, Zenon
    <3>2. r = <<r, c>>[1]
      OBVIOUS
    <3> QED BY <3>1, <3>2, Zenon
  <2> HIDE DEF rows
  <2> QED BY <2>1, <2>2
<1>7. \A r : Span(e, r) \subseteq 0..Width - 1
  BY <1>4, Zenon DEF Span
<1>8. ASSUME NEW r \in A1..B1 PROVE Span(e, r) # {}
  <2>1. PICK c : <<r, c>> \in Region(e)
    BY <1>5, Zenon
  <2>2. r = <<r, c>>[1]
    OBVIOUS
  <2>3. <<r, c>>[2] \in Span(e, r)
    BY <2>1, <2>2, Zenon DEF Span
  <2> QED BY <2>3
<1> HIDE DEF rows
<1>9. rows # {} /\ rows \subseteq 0..h - 1 /\ \A r, s \in rows : \A i \in r..s : i \in rows
  <2>1. A1 \in A1..B1 /\ A1..B1 \subseteq 0..h - 1
    BY <1>3
  <2>2. \A r, s \in A1..B1 : \A i \in r..s : i \in A1..B1
    BY <1>3
  <2> QED BY <1>6, <2>1, <2>2, Zenon
<1> QED BY <1>6, <1>7, <1>8, <1>9, Zenon DEF rows

LEMMA SpanRowsIn ==
  ASSUME NEW e, EndsOK(e), e.x1 # Width, e.x2 # Width, NEW h \in Nat, e.y1 < h, e.y2 < h
  PROVE  LET rows == SpanRows(e)
         IN /\ Last(rows) \in {rows[i] : i \in DOMAIN rows}
            /\ \A i \in DOMAIN rows :
                 /\ rows[i] \in 0..h - 1
                 /\ Min(Span(e, rows[i])) \in 0..Width - 1 /\ Max(Span(e, rows[i])) \in 0..Width - 1
                 /\ Min(Span(e, rows[i])) <= Max(Span(e, rows[i]))
<1> DEFINE R == {q[1] : q \in Region(e)}
           rows == SpanRows(e)
           lo == Min(R)
           hi == Max(R)
<1>1. /\ R # {} /\ R \subseteq 0..h - 1
      /\ \A r, s \in R : \A i \in r..s : i \in R
      /\ \A r : Span(e, r) \subseteq 0..Width - 1
      /\ \A r \in R : Span(e, r) # {}
  BY RegionRows, Zenon
<1>2. rows = [i \in 1..hi - lo + 1 |-> lo + i - 1]
  BY Zenon DEF SpanRows
<1> HIDE DEF R, rows
<1>3. lo \in R /\ hi \in R /\ lo <= hi /\ lo \in Nat /\ hi \in Nat
  <2>1. R \in SUBSET Nat /\ R # {}
    BY <1>1
  <2>2. lo \in R /\ \A r \in R : lo <= r
    BY <2>1, LeastOf, Zenon
  <2>3. R \in SUBSET (0..h)
    BY <1>1
  <2>4. hi \in R
    BY <2>1, <2>3, GreatestOf, Zenon
  <2> HIDE DEF lo, hi
  <2> QED BY <2>1, <2>2, <2>4
<1> HIDE DEF lo, hi
<1>4. DOMAIN rows = 1..hi - lo + 1 /\ hi - lo + 1 \in Nat /\ hi - lo + 1 > 0
  BY <1>2, <1>3
<1>5. \A i \in DOMAIN rows : rows[i] \in R
  <2> SUFFICES ASSUME NEW i \in DOMAIN rows PROVE rows[i] \in R
    OBVIOUS
  <2>1. rows[i] = lo + i - 1 /\ lo + i - 1 \in lo..hi
    BY <1>2, <1>3, <1>4
  <2> QED BY <1>1, <1>3, <2>1
<1>6. Last(rows) \in {rows[i] : i \in DOMAIN rows}
  <2>1. rows = [i \in 1..hi - lo + 1 |-> rows[i]]
    BY <1>2, <1>4
  <2>2. Len(rows) = hi - lo + 1
    BY <1>4, <2>1
  <2>3. Len(rows) \in DOMAIN rows
    BY <1>4, <2>2
  <2> QED BY <2>3, Zenon DEF Last
<1>7. ASSUME NEW r \in R
      PROVE  /\ r \in 0..h - 1
             /\ Min(Span(e, r)) \in 0..Width - 1 /\ Max(Span(e, r)) \in 0..Width - 1
             /\ Min(Span(e, r)) <= Max(Span(e, r))
  <2> DEFINE S == Span(e, r)
             w == Width - 1
  <2>1. S # {} /\ S \in SUBSET (0..w) /\ S \in SUBSET Nat /\ w \in Nat
    BY <1>1, <1>7, KeysSizes
  <2> HIDE DEF S, w
  <2>2. Min(S) \in S /\ \A y \in S : Min(S) <= y
    BY <2>1, LeastOf, Zenon
  <2>3. Max(S) \in S
    BY <2>1, GreatestOf, Zenon
  <2>4. Min(S) \in 0..w /\ Max(S) \in 0..w /\ Min(S) <= Max(S)
    BY <2>1, <2>2, <2>3, Zenon
  <2>5. r \in 0..h - 1
    BY <1>1, <1>7, Zenon
  <2> QED BY <2>4, <2>5, Zenon DEF S, w
<1> QED BY <1>5, <1>6, <1>7, Zenon DEF rows

LEMMA CutIs ==
  ASSUME NEW s, NEW all, NEW r, NEW c \in 0..Width - 1,
         s.lines[r + 1] \in Seq(STRING), Len(s.lines[r + 1]) = Width
  PROVE  CutNewline(s, all, r, c) =
           IF Trimmed(s.lines, r, c, Width - 1) = <<>> THEN all ELSE Front(all)
<1> DEFINE l == s.lines[r + 1]
           ink == {i \in c..Width - 1 : l[i + 1] # Space}
           top == Max(ink)
<1>1. CutNewline(s, all, r, c) = IF \E i \in c..Width - 1 : l[i + 1] # Space THEN Front(all) ELSE all
  BY Zenon DEF CutNewline, Blank, Cell, Space
<1>2. Trimmed(s.lines, r, c, Width - 1) = IF ink = {} THEN <<>> ELSE SubSeq(l, c + 1, top + 1)
  BY Zenon DEF Trimmed, Space
<1>l. l \in Seq(STRING) /\ Len(l) = Width
  OBVIOUS
<1> HIDE DEF l
<1>3. ink # {} => SubSeq(l, c + 1, top + 1) # <<>>
  <2> SUFFICES ASSUME ink # {} PROVE SubSeq(l, c + 1, top + 1) # <<>>
    OBVIOUS
  <2>1. c \in Nat /\ Width - 1 \in Int /\ Width \in Nat
    BY KeysSizes
  <2>2. top \in ink
    <3> DEFINE w == Width - 1
               ik == {i \in c..w : l[i + 1] # Space}
    <3>1. w \in Int
      BY <2>1
    <3>2. ik # {}
      OBVIOUS
    <3> HIDE DEF w
    <3>3. ik # {} => Max(ik) \in ik /\ \A i \in ik : Max(ik) >= i
      BY <2>1, <3>1, InkIs, Zenon
    <3> QED BY <3>2, <3>3, Zenon DEF w
  <2>3. top \in c..Width - 1
    BY <2>2
  <2> HIDE DEF top
  <2>4. c + 1 \in 1..Len(l) + 1 /\ top + 1 \in c..Len(l) /\ top + 1 - (c + 1) + 1 # 0 /\ c + 1 <= top + 1
    BY <1>l, <2>1, <2>3
  <2>5. Len(SubSeq(l, c + 1, top + 1)) # 0
    BY <1>l, <2>1, <2>3, <2>4, SubSeqProperties
  <2>6. Len(<<>>) = 0
    OBVIOUS
  <2> QED BY <2>5, <2>6, Zenon
<1> HIDE DEF top
<1>4. ink = {} <=> ~ \E i \in c..Width - 1 : l[i + 1] # Space
  OBVIOUS
<1> HIDE DEF ink
<1> QED BY <1>1, <1>2, <1>3, <1>4, Zenon

\* y copies the text of the selected cells, without the blank ends of its lines
LEMMA GrabIsRef ==
  ASSUME NEW s, NEW e, EndsOK(e), e.x1 # Width, e.x2 # Width, s.lines \in Texts,
         e.y1 < Len(s.lines), e.y2 < Len(s.lines)
  PROVE  grabText(s, e) = RefText(e, s.lines)
<1> DEFINE rows == SpanRows(e)
           h == Len(s.lines)
           from(r) == Min(Span(e, r))
           to(r) == Max(Span(e, r))
           mine == [i \in DOMAIN rows |-> grabRow(s, rows[i], from(rows[i]), to(rows[i]))]
           ref == [i \in DOMAIN rows |->
                     Append(Trimmed(s.lines, rows[i], from(rows[i]), to(rows[i])), "\n")]
           end == Last(rows)
<1>1. /\ h \in Nat /\ Width \in Nat
      /\ \A r \in 0..h - 1 : s.lines[r + 1] \in Seq(STRING) /\ Len(s.lines[r + 1]) = Width
  BY KeysAssumption
<1>2. /\ end \in {rows[i] : i \in DOMAIN rows}
      /\ \A i \in DOMAIN rows :
           /\ rows[i] \in 0..h - 1
           /\ from(rows[i]) \in 0..Width - 1 /\ to(rows[i]) \in 0..Width - 1
           /\ from(rows[i]) <= to(rows[i])
  <2> HIDE DEF h
  <2>1. e.y1 < h /\ e.y2 < h
    BY Zenon DEF h
  <2> QED BY <1>1, <2>1, SpanRowsIn, Zenon
<1> HIDE DEF rows, h, from, to
<1>3. ASSUME NEW i \in DOMAIN rows
      PROVE  grabRow(s, rows[i], from(rows[i]), to(rows[i])) =
               Append(Trimmed(s.lines, rows[i], from(rows[i]), to(rows[i])), "\n")
  <2> DEFINE r == rows[i]
             a == from(rows[i])
             b == to(rows[i])
             l == s.lines[r + 1]
  <2>1. r \in 0..h - 1 /\ a \in 0..Width - 1 /\ b \in 0..Width - 1 /\ a <= b
    BY <1>2, Zenon
  <2> HIDE DEF r, a, b
  <2>2. l \in Seq(STRING) /\ Len(l) = Width
    BY <1>1, <2>1, Zenon
  <2>3. s.lines[r + 1] = l
    OBVIOUS
  <2> HIDE DEF l
  <2>4. a \in Nat /\ b \in Nat /\ b < Len(l)
    BY <1>1, <2>1, <2>2
  <2>5. grabRow(s, r, a, b) = Append(Trimmed(s.lines, r, a, b), "\n")
    BY <2>1, <2>2, <2>3, <2>4, RowGrabbed, Zenon
  <2> QED BY <2>5, Zenon DEF r, a, b
<1>4. mine = ref
  BY <1>3, Zenon
<1>5. CutNewline(s, FlattenSeq(ref), end, to(end)) =
        IF Trimmed(s.lines, end, to(end), Width - 1) = <<>> THEN FlattenSeq(ref)
        ELSE Front(FlattenSeq(ref))
  <2> DEFINE c == to(end)
             l == s.lines[end + 1]
             all == FlattenSeq(ref)
  <2>1. end \in 0..h - 1 /\ c \in 0..Width - 1
    <3> HIDE DEF end
    <3>1. PICK i \in DOMAIN rows : end = rows[i]
      BY <1>2, Zenon
    <3> QED BY <1>2, <3>1, Zenon
  <2> HIDE DEF end, c, all
  <2>2. l \in Seq(STRING) /\ Len(l) = Width
    BY <1>1, <2>1, Zenon
  <2>3. CutNewline(s, all, end, c) =
          IF Trimmed(s.lines, end, c, Width - 1) = <<>> THEN all ELSE Front(all)
    BY <2>1, <2>2, CutIs, Zenon
  <2> QED BY <2>3, Zenon DEF all, c
<1>6. grabText(s, e) = CutNewline(s, FlattenSeq(mine), end, to(end))
  BY Zenon DEF grabText, rows, from, to
<1>7. RefText(e, s.lines) =
        IF Trimmed(s.lines, end, to(end), Width - 1) = <<>> THEN FlattenSeq(ref)
        ELSE Front(FlattenSeq(ref))
  BY Zenon DEF RefText, rows, from, to
<1> HIDE DEF mine, ref, end
<1> QED BY <1>4, <1>5, <1>6, <1>7, Zenon

(***************************************************************************)
(* What one key does: s is the terminal before, n after it                 *)
(***************************************************************************)
FoundOK(n) ==
    /\ n.found = "yes" =>
         \A j \in DOMAIN n.entry : Cell(n, Row(n), n.x + j - 1) = n.entry[j]
    /\ n.found = "no" /\ Len(n.entry) = 1 =>
         \A r \in 0..LastRow(n), c \in 0..Width - 1 : Cell(n, r, c) # n.entry[1]
Restored(s, n) ==
    s.selectMode /\ ~n.selectMode =>
        <<n.x, n.y, n.ydisp, n.lines>> = s.before /\ n.marked = {}
AnchorKept(s, n) ==
    s.visualMode /\ n.visualMode /\ s.sel[1].y1 < n.ydisp + Height =>
        n.sel[1].x1 = s.sel[1].x1 /\ n.sel[1].y1 = s.sel[1].y1
Lawful(s, n) ==
    /\ KeysOK(n) /\ (n.thrown => Excused(n)) /\ FoundOK(n)
    /\ Restored(s, n) /\ AnchorKept(s, n) /\ (s.selectMode => n.before = s.before)

\* a terminal at the start of a step
Calmed(s) ==
    KeysOK(s) /\ s.thrown = FALSE /\ s.found = "none" /\ (s.stale => s.selectMode)

\* the fields that no guard reads
SideFields == {"timers", "alive", "copied", "ref", "searchDown", "thrown", "found"}

LEMMA SideFrame ==
  ASSUME NEW s, NEW n, NEW fs \in SUBSET SideFields, Frame(s, n, fs)
  PROVE  /\ DOMAIN n = KeysFields /\ n.x = s.x /\ n.y = s.y /\ n.ydisp = s.ydisp
         /\ n.lines = s.lines /\ n.text = s.text /\ n.marked = s.marked /\ n.sel = s.sel
         /\ n.prefixMode = s.prefixMode /\ n.selectMode = s.selectMode
         /\ n.visualMode = s.visualMode /\ n.searchMode = s.searchMode
         /\ n.entry = s.entry /\ n.real = s.real /\ n.preVisual = s.preVisual
         /\ n.preSearch = s.preSearch /\ n.parked = s.parked /\ n.stale = s.stale
         /\ n.before = s.before
<1>1. \A f \in KeysFields \ SideFields : n[f] = s[f]
  BY Zenon DEF Frame
<1> QED BY <1>1, Zenon DEF Frame, KeysFields, SideFields

LEMMA SideOK ==
  ASSUME NEW s, NEW n, KeysOK(s), NEW fs \in SUBSET SideFields, Frame(s, n, fs),
         n.thrown \in BOOLEAN
  PROVE  KeysOK(n)
<1>1. /\ n.x = s.x /\ n.y = s.y /\ n.ydisp = s.ydisp
      /\ n.lines = s.lines /\ n.text = s.text /\ n.marked = s.marked /\ n.sel = s.sel
      /\ n.prefixMode = s.prefixMode /\ n.selectMode = s.selectMode
      /\ n.visualMode = s.visualMode /\ n.searchMode = s.searchMode
      /\ n.entry = s.entry /\ n.real = s.real /\ n.preVisual = s.preVisual
      /\ n.preSearch = s.preSearch /\ n.parked = s.parked /\ n.stale = s.stale
      /\ n.before = s.before
  BY SideFrame
<1>2. Switches(n) /\ DOMAIN n = KeysFields
  BY <1>1, Zenon DEF KeysOK, Switches, Frame
<1>3. ybase(n) = ybase(s)
  BY <1>1, Zenon DEF ybase
<1>4. ViewOK(n)
  BY <1>1, <1>3, Zenon DEF KeysOK, ViewOK
<1>5. CursorOK(n)
  BY <1>1, SMT DEF KeysOK, CursorOK
<1>6. Kept(n)
  BY <1>1, <1>3, SMT DEF KeysOK, Kept
<1>7. Nested(n)
  BY <1>1, Zenon DEF KeysOK, Nested
<1>8. Clean(n)
  BY <1>1, Zenon DEF KeysOK, Clean
<1>9. SelOK(n)
  BY <1>1, SMT DEF KeysOK, SelOK
<1> QED BY <1>2, <1>4, <1>5, <1>6, <1>7, <1>8, <1>9, Zenon DEF KeysOK

LEMMA CalmCalmed ==
  ASSUME NEW s, KeysOK(s)
  PROVE  LET c == Calm(s)
         IN /\ Calmed(c) /\ Frame(s, c, {"stale", "before", "thrown", "found", "copied", "ref"})
            /\ s.selectMode => c.before = s.before
            /\ c.stale = (s.stale /\ s.selectMode)
<1> DEFINE st == s.stale /\ s.selectMode
           be == IF s.selectMode THEN s.before ELSE <<>>
           no == FALSE
           none == <<>>
           non == "none"
           c == [s EXCEPT !.stale = st, !.before = be, !.thrown = no, !.found = non,
                          !.copied = none, !.ref = none]
<1>0. Calm(s) = c
  BY Zenon DEF Calm
<1>1. st \in BOOLEAN /\ no \in BOOLEAN /\ (s.selectMode => be = s.before) /\ no = FALSE
  OBVIOUS
<1>1a. non = "none"
  OBVIOUS
<1>2. st = (s.stale /\ s.selectMode)
  BY Zenon
<1> HIDE DEF st, be, no, none, non
<1>3. /\ DOMAIN c = KeysFields /\ c.x = s.x /\ c.y = s.y /\ c.ydisp = s.ydisp
      /\ c.lines = s.lines /\ c.text = s.text /\ c.marked = s.marked /\ c.sel = s.sel
      /\ c.prefixMode = s.prefixMode /\ c.selectMode = s.selectMode
      /\ c.visualMode = s.visualMode /\ c.searchMode = s.searchMode
      /\ c.entry = s.entry /\ c.real = s.real /\ c.preVisual = s.preVisual
      /\ c.preSearch = s.preSearch /\ c.parked = s.parked /\ c.stale = st
      /\ c.before = be /\ c.thrown = no /\ c.found = non
  BY Zenon DEF KeysOK, KeysFields
<1>4. Frame(s, c, {"stale", "before", "thrown", "found", "copied", "ref"})
  BY Zenon DEF Frame, KeysOK, KeysFields
<1> HIDE DEF c
<1>5. ybase(c) = ybase(s)
  BY <1>3, Zenon DEF ybase
<1>6. Switches(c)
  BY <1>1, <1>3, Zenon DEF KeysOK, Switches
<1>7. ViewOK(c)
  BY <1>3, <1>5, Zenon DEF KeysOK, ViewOK
<1>8. CursorOK(c)
  BY <1>3, SMT DEF KeysOK, CursorOK
<1>9. Kept(c)
  BY <1>1, <1>3, <1>5, Zenon DEF KeysOK, Kept
<1>10. Nested(c)
  BY <1>2, <1>3, Zenon DEF KeysOK, Nested
<1>11. Clean(c)
  <2>1. s.searchMode => s.selectMode
    BY Zenon DEF KeysOK, Nested
  <2> QED BY <1>2, <1>3, <2>1, Zenon DEF KeysOK, Clean
<1>12. SelOK(c)
  BY <1>3, SMT DEF KeysOK, SelOK
<1>13. KeysOK(c)
  BY <1>3, <1>6, <1>7, <1>8, <1>9, <1>10, <1>11, <1>12, Zenon DEF KeysOK
<1> QED BY <1>0, <1>1, <1>1a, <1>2, <1>3, <1>4, <1>13, Zenon DEF Calmed
LEMMA SideLawful ==
  ASSUME NEW s, Calmed(s), NEW n, NEW fs \in SUBSET (SideFields \ {"thrown", "found"}),
         Frame(s, n, fs)
  PROVE  Lawful(s, n)
<1>1. fs \in SUBSET SideFields
  OBVIOUS
<1>2. n.thrown = s.thrown /\ n.found = s.found
  BY Zenon DEF Frame, KeysFields
<1>3. n.thrown = FALSE /\ n.found = "none"
  BY <1>2, Zenon DEF Calmed
<1>4. KeysOK(n)
  BY <1>1, <1>2, SideOK, Zenon DEF Calmed, KeysOK, Switches
<1>5. n.selectMode = s.selectMode /\ n.sel = s.sel /\ n.before = s.before
  BY <1>1, SideFrame
<1>6. FoundOK(n)
  BY <1>3, Zenon DEF FoundOK
<1> QED BY <1>3, <1>4, <1>5, <1>6, Zenon DEF Lawful, Restored, AnchorKept

LEMMA ThrownLawful ==
  ASSUME NEW s, Calmed(s), s.parked
  PROVE  Lawful(s, Thrown(s))
<1> DEFINE yes == TRUE
           n == [s EXCEPT !.thrown = yes]
           fs == {"thrown"}
<1>1. Thrown(s) = n
  BY Zenon DEF Thrown
<1>2. yes \in BOOLEAN
  OBVIOUS
<1> HIDE DEF yes
<1>3. Frame(s, n, fs) /\ n.thrown = yes /\ n.found = s.found
  BY Zenon DEF Calmed, KeysOK, Frame, KeysFields
<1>4. fs \in SUBSET SideFields
  BY DEF SideFields
<1> HIDE DEF n, fs
<1>5. KeysOK(n)
  BY <1>2, <1>3, <1>4, SideOK, Zenon DEF Calmed
<1>6. n.selectMode = s.selectMode /\ n.sel = s.sel /\ n.before = s.before /\ n.parked = s.parked
  BY <1>3, <1>4, SideFrame
<1>7. FoundOK(n)
  BY <1>3, Zenon DEF FoundOK, Calmed
<1> QED BY <1>1, <1>5, <1>6, <1>7, Zenon DEF Lawful, Excused, Restored, AnchorKept

LEMMA ScrollLawful ==
  ASSUME NEW s, Calmed(s), NEW d \in Int
  PROVE  Lawful(s, scrollView(s, d))
<1> DEFINE e == Clip(s.ydisp + d, 0, ybase(s))
           n == [s EXCEPT !.ydisp = e]
<1>1. s.ydisp \in 0..ybase(s) /\ ybase(s) \in Nat
  <2>1. s.text \in Texts /\ s.ydisp \in 0..ybase(s)
    BY Zenon DEF Calmed, KeysOK, ViewOK
  <2> QED BY <2>1, KeysSizes DEF ybase
<1>2. e \in 0..ybase(s)
  BY <1>1 DEF Clip, MinOf, MaxOf
<1>3. scrollView(s, d) = n
  BY Zenon DEF scrollView
<1> HIDE DEF e
<1>4. /\ DOMAIN n = KeysFields /\ n.x = s.x /\ n.y = s.y /\ n.ydisp = e
      /\ n.lines = s.lines /\ n.text = s.text /\ n.marked = s.marked /\ n.sel = s.sel
      /\ n.prefixMode = s.prefixMode /\ n.selectMode = s.selectMode
      /\ n.visualMode = s.visualMode /\ n.searchMode = s.searchMode
      /\ n.entry = s.entry /\ n.real = s.real /\ n.preVisual = s.preVisual
      /\ n.preSearch = s.preSearch /\ n.parked = s.parked /\ n.stale = s.stale
      /\ n.before = s.before /\ n.thrown = s.thrown /\ n.found = s.found
  BY Zenon DEF Calmed, KeysOK, KeysFields
<1> HIDE DEF n
<1>5. KeysOK(s) /\ s.thrown = FALSE /\ s.found = "none"
  BY Zenon DEF Calmed
<1>6. ybase(n) = ybase(s)
  BY <1>4, Zenon DEF ybase
<1>7. Switches(n)
  BY <1>4, <1>5, Zenon DEF KeysOK, Switches
<1>8. ViewOK(n)
  BY <1>2, <1>4, <1>5, <1>6, Zenon DEF KeysOK, ViewOK
<1>9. CursorOK(n)
  BY <1>4, <1>5, SMT DEF KeysOK, CursorOK
<1>10. Kept(n)
  BY <1>4, <1>5, <1>6, SMT DEF KeysOK, Kept
<1>11. Nested(n) /\ Clean(n)
  BY <1>4, <1>5, Zenon DEF KeysOK, Nested, Clean
<1>12. SelOK(n)
  BY <1>4, <1>5, SMT DEF KeysOK, SelOK
<1>13. KeysOK(n)
  BY <1>4, <1>7, <1>8, <1>9, <1>10, <1>11, <1>12, Zenon DEF KeysOK
<1>14. FoundOK(n)
  BY <1>4, <1>5, Zenon DEF FoundOK
<1> QED BY <1>3, <1>4, <1>5, <1>13, <1>14, Zenon DEF Lawful, Restored, AnchorKept

\* the selection follows the cursor from s to n
LEMMA FollowOK ==
  ASSUME NEW s, KeysOK(s), s.selectMode, ~s.searchMode, ~s.stale, NEW n,
         Frame(s, n, {"x", "y", "ydisp", "found"}),
         n.ydisp \in 0..ybase(s), n.y \in 0..Height - 1, n.x \in 0..Width,
         s.x # Width => n.x # Width
  PROVE  LET r == Follow(s, n, s.x)
         IN /\ KeysOK(r) /\ Frame(n, r, {"sel", "marked", "thrown"}) /\ AnchorKept(s, r)
            /\ s.parked \/ r.thrown = s.thrown
<1>0. /\ DOMAIN n = KeysFields
      /\ n.lines = s.lines /\ n.text = s.text /\ n.marked = s.marked /\ n.sel = s.sel
      /\ n.prefixMode = s.prefixMode /\ n.selectMode = s.selectMode
      /\ n.visualMode = s.visualMode /\ n.searchMode = s.searchMode
      /\ n.entry = s.entry /\ n.real = s.real /\ n.preVisual = s.preVisual
      /\ n.preSearch = s.preSearch /\ n.parked = s.parked /\ n.stale = s.stale
      /\ n.before = s.before /\ n.thrown = s.thrown
  BY Zenon DEF Frame, KeysFields
<1>1. ybase(n) = ybase(s)
  BY <1>0, Zenon DEF ybase
<1>2. s.x \in 0..Width /\ (~s.parked => s.x # Width)
  BY Zenon DEF KeysOK, CursorOK
<1>3. Switches(n)
  BY <1>0, Zenon DEF KeysOK, Switches
<1>4. ViewOK(n)
  BY <1>0, <1>1, Zenon DEF KeysOK, ViewOK
<1>5. CursorOK(n)
  BY <1>0, <1>2, SMT DEF KeysOK, CursorOK
<1>6. Kept(n)
  BY <1>0, <1>1, SMT DEF KeysOK, Kept
<1>7. Nested(n) /\ Clean(n)
  BY <1>0, Zenon DEF KeysOK, Nested, Clean
<1>8. SelOK(n)
  BY <1>0, SMT DEF KeysOK, SelOK
<1>9. KeysOK(n)
  BY <1>0, <1>3, <1>4, <1>5, <1>6, <1>7, <1>8, Zenon DEF KeysOK
<1>10. CASE ~s.visualMode
  <2>1. Follow(s, n, s.x) = n
    BY <1>10, Zenon DEF Follow
  <2>2. Frame(n, n, {"sel", "marked", "thrown"}) /\ AnchorKept(s, n)
    BY <1>0, <1>10, Zenon DEF Frame, AnchorKept
  <2> QED BY <1>0, <1>9, <2>1, <2>2, Zenon
<1>11. CASE s.visualMode
  <2> DEFINE r == selectText(n, s.x, n.x, Row(s), Row(n))
  <2>1. Follow(s, n, s.x) = r
    BY <1>11, Zenon DEF Follow
  <2>2. /\ s.sel # <<>> /\ EndsOK(s.sel[1]) /\ s.x # Width /\ n.x # Width
        /\ s.sel[1].x1 # Width /\ s.sel[1].x2 # Width
        /\ ~s.parked => s.marked = Region(s.sel[1])
    BY <1>11, Zenon DEF KeysOK, SelOK, Inside
  <2>3. n.ydisp \in Nat /\ Row(s) \in Int /\ Row(n) \in Int
    <3>1. s.y \in Int /\ s.ydisp \in Int
      BY KeysSizes DEF KeysOK, ViewOK
    <3> QED BY <3>1 DEF Row
  <2> DEFINE y1 == Row(s)
             y2 == Row(n)
  <2> HIDE DEF y1, y2
  <2>4. Selects(n, s.x, n.x, y1, y2, selectText(n, s.x, n.x, y1, y2))
    <3>1. y1 \in Int /\ y2 \in Int
      BY <2>3 DEF y1, y2
    <3>2. DOMAIN n = KeysFields /\ (n.sel # <<>> => EndsOK(n.sel[1]))
      BY <1>0, <2>2, Zenon
    <3> QED BY <1>2, <2>3, <3>1, <3>2, SelectText
  <2>5. /\ Frame(n, r, {"sel", "marked", "thrown"})
        /\ r.thrown = n.thrown \/ r.thrown = TRUE
        /\ r.sel # <<>> /\ EndsOK(r.sel[1])
        /\ s.sel[1].y1 < n.ydisp + Height =>
             r.sel[1].x1 = s.sel[1].x1 /\ r.sel[1].y1 = s.sel[1].y1
        /\ r.thrown = n.thrown /\ Inside(r.sel[1], n.ydisp + Height)
        /\ ~s.parked => r.marked = Region(r.sel[1])
    BY <1>0, <2>2, <2>4, Zenon DEF y1, y2, Selects
  <2> HIDE DEF r
  <2>6. /\ DOMAIN r = KeysFields /\ r.x = n.x /\ r.y = n.y /\ r.ydisp = n.ydisp
        /\ r.lines = n.lines /\ r.text = n.text
        /\ r.prefixMode = n.prefixMode /\ r.selectMode = n.selectMode
        /\ r.visualMode = n.visualMode /\ r.searchMode = n.searchMode
        /\ r.entry = n.entry /\ r.real = n.real /\ r.preVisual = n.preVisual
        /\ r.preSearch = n.preSearch /\ r.parked = n.parked /\ r.stale = n.stale
        /\ r.before = n.before
    BY <2>5, Zenon DEF Frame, KeysFields
  <2>7. ybase(r) = ybase(n)
    BY <2>6, Zenon DEF ybase
  <2>8. Switches(r)
    BY <1>3, <2>5, <2>6, Zenon DEF Switches
  <2>9. ViewOK(r)
    BY <1>4, <2>6, <2>7, Zenon DEF ViewOK
  <2>10. CursorOK(r)
    BY <1>5, <2>6, SMT DEF CursorOK
  <2>11. Kept(r)
    BY <1>6, <2>6, <2>7, SMT DEF Kept
  <2>12. Nested(r) /\ Clean(r)
    BY <1>7, <2>6, Zenon DEF Nested, Clean
  <2>13. SelOK(r)
    <3>1. Inside(r.sel[1], Len(s.text))
      <4> DEFINE e == r.sel[1]
      <4>1. /\ EndsOK(e) /\ Inside(e, n.ydisp + Height)
        BY <2>5, Zenon
      <4> HIDE DEF e
      <4>2. n.ydisp + Height <= Len(s.text) /\ n.ydisp \in Nat /\ Len(s.text) \in Nat
        <5>1. s.text \in Texts
          BY Zenon DEF KeysOK, ViewOK
        <5> QED BY <5>1, KeysSizes DEF ybase
      <4>3. Inside(e, Len(s.text))
        BY <4>1, <4>2, KeysSizes, SMTT(30) DEF Inside, EndsOK
      <4> QED BY <4>3, Zenon DEF e
    <3> QED BY <1>0, <1>11, <2>2, <2>5, <2>6, <3>1, Zenon DEF SelOK
  <2>14. KeysOK(r)
    BY <2>6, <2>8, <2>9, <2>10, <2>11, <2>12, <2>13, Zenon DEF KeysOK
  <2>15. AnchorKept(s, r)
    BY <2>5, <2>6, Zenon DEF AnchorKept
  <2> QED BY <1>0, <2>1, <2>5, <2>14, <2>15, Zenon
<1> QED BY <1>10, <1>11
(***************************************************************************)
(* The search                                                              *)
(***************************************************************************)
\* i cells from column x on match the entry
Agrees(s, r, x, i) ==
    \A j \in 0..i - 1 : x + j < Width /\ Cell(s, r, x + j) = s.entry[j + 1]

LEMMA MatchedMost ==
  ASSUME NEW s, s.entry \in Seq(Printing), NEW r, NEW x \in Nat
  PROVE  /\ Matched(s, r, x) \in 0..Len(s.entry) /\ Agrees(s, r, x, Matched(s, r, x))
         /\ \A i \in 0..Len(s.entry) : Agrees(s, r, x, i) => i <= Matched(s, r, x)
<1> DEFINE M == {i \in 0..Len(s.entry) : Agrees(s, r, x, i)}
<1>1. Matched(s, r, x) = Max(M)
  BY Zenon DEF Matched, Agrees
<1>2. Len(s.entry) \in Nat /\ M \in SUBSET (0..Len(s.entry))
  OBVIOUS
<1>3. 0 \in M
  BY <1>2 DEF Agrees
<1>4. Max(M) \in M /\ \A i \in M : Max(M) >= i
  <2> HIDE DEF M
  <2>1. M # {}
    BY <1>3
  <2> QED BY <1>2, <2>1, GreatestOf, Zenon
<1>5. \A i \in M : i <= Max(M)
  BY <1>2, <1>4
<1> QED BY <1>1, <1>4, <1>5, Zenon

\* the next try after one that failed is in the table
LEMMA TryNext ==
  ASSUME NEW s, s.entry \in Seq(Printing), NEW r, NEW x \in 0..Width - 1
  PROVE  /\ x + Matched(s, r, x) + 1 \in x + 1..Width + Len(s.entry)
         /\ Matched(s, r, x) \in Nat
<1>1. Matched(s, r, x) \in 0..Len(s.entry) /\ Len(s.entry) \in Nat
  BY MatchedMost
<1> QED BY <1>1, KeysSizes

\* try is what FindInRow makes of each column
Tries(s, r, try) ==
    try = [x \in 0..2 * Width + Len(s.entry) |->
              IF x >= Width THEN -1
              ELSE IF Matched(s, r, x) = Len(s.entry) THEN x
              ELSE try[x + Matched(s, r, x) + 1]]

LEMMA TriesExist ==
  ASSUME NEW s, s.entry \in Seq(Printing), NEW r
  PROVE  \E try : Tries(s, r, try)
<1> DEFINE l == Len(s.entry)
           N == 2 * Width + l
           body(f, x) == IF x >= Width THEN -1
                         ELSE IF Matched(s, r, x) = Len(s.entry) THEN x
                         ELSE f[x + Matched(s, r, x) + 1]
           Upto(f, n) == DOMAIN f = 0..N /\ f = [x \in 0..N |-> f[x]]
                         /\ \A x \in 0..N : x >= N - n => f[x] = body(f, x)
           S == {n \in Nat : n <= N => \E f : Upto(f, n)}
<1>l. l \in Nat
  OBVIOUS
<1> HIDE DEF l
<1>0. l \in Nat /\ N \in Nat /\ Width \in Nat /\ Width > 0 /\ N >= Width + l
  BY <1>l, KeysSizes
<1> HIDE DEF N
<1>1. 0 \in S
  <2> DEFINE f == [x \in 0..N |-> -1]
  <2>1. Upto(f, 0)
    BY <1>0
  <2> HIDE DEF f, Upto
  <2> QED BY <2>1
<1>2. ASSUME NEW n \in Nat, n \in S PROVE n + 1 \in S
  <2> SUFFICES ASSUME n + 1 <= N PROVE \E f : Upto(f, n + 1)
    OBVIOUS
  <2>1. PICK f : Upto(f, n)
    <3> HIDE DEF Upto
    <3> QED BY <1>0, <1>2
  <2> DEFINE mid == N - (n + 1)
             v == body(f, mid)
             g == [x \in 0..N |-> IF x = mid THEN v ELSE f[x]]
  <2>2. mid \in 0..N
    BY <1>0
  <2>3. ASSUME NEW x \in 0..N, x >= mid PROVE body(g, x) = body(f, x)
    <3>1. CASE x >= Width
      BY <3>1, Zenon
    <3>2. CASE ~(x >= Width)
      <4> DEFINE y == x + Matched(s, r, x) + 1
      <4>0. x \in 0..Width - 1
        BY <1>0, <3>2
      <4>1. y \in x + 1..Width + l
        BY <4>0, TryNext, Zenon DEF l
      <4>2. y \in 0..N /\ y # mid
        BY <1>0, <2>2, <2>3, <4>1
      <4> HIDE DEF y, v
      <4>3. g[y] = f[y]
        BY <4>2
      <4> QED BY <3>2, <4>3, Zenon DEF y
    <3> QED BY <3>1, <3>2, Zenon
  <2>4. ASSUME NEW x \in 0..N, x >= N - (n + 1) PROVE g[x] = body(g, x)
    <3>1. body(g, x) = body(f, x)
      BY <2>3, <2>4, Zenon
    <3>2. CASE x = mid
      <4> HIDE DEF body
      <4> QED BY <2>4, <3>1, <3>2
    <3>3. CASE x # mid
      <4>1. x >= N - n
        BY <1>0, <2>4, <3>3
      <4>2. f[x] = body(f, x)
        BY <2>1, <4>1, Zenon
      <4> HIDE DEF body, v
      <4> QED BY <2>4, <3>1, <3>3, <4>2
    <3> QED BY <3>2, <3>3
  <2>5. DOMAIN g = 0..N /\ g = [x \in 0..N |-> g[x]]
    <3> HIDE DEF v, mid
    <3> QED OBVIOUS
  <2>6. Upto(g, n + 1)
    BY <2>4, <2>5, Zenon
  <2> HIDE DEF Upto, g
  <2> QED BY <2>6, Zenon
<1> HIDE DEF S
<1>3. Nat \subseteq S
  BY <1>1, <1>2, SetInduction, Zenon
<1>4. PICK f : Upto(f, N)
  <2>1. N \in S
    BY <1>0, <1>3
  <2> HIDE DEF Upto
  <2> QED BY <1>0, <2>1 DEF S
<1>5. \A x \in 0..N : f[x] = body(f, x)
  <2>1. \A x \in 0..N : x >= N - N
    BY <1>0
  <2> QED BY <1>4, <2>1, Zenon
<1>6. f = [x \in 0..N |-> body(f, x)]
  <2> HIDE DEF body
  <2> QED BY <1>4, <1>5
<1>7. Tries(s, r, f)
  BY <1>6, Zenon DEF Tries, N, l
<1> QED BY <1>7, Zenon
\* c is the first column from x on where the entry is found
LandsIn(s, r, x, c) ==
    /\ c = -1 \/ (c \in x..Width - 1 /\ Matched(s, r, c) = Len(s.entry))
    /\ c = -1 /\ Len(s.entry) = 1 => \A b \in x..Width - 1 : Matched(s, r, b) # 1

LEMMA RowSearched ==
  ASSUME NEW s, s.entry \in Seq(Printing), NEW r, NEW x0 \in 0..Width + 1
  PROVE  LandsIn(s, r, x0, FindInRow(s, r, x0))
<1> DEFINE try == CHOOSE f : Tries(s, r, f)
           l == Len(s.entry)
           N == 2 * Width + l
           S == {n \in Nat : \A x \in 0..N : Width - x <= n => LandsIn(s, r, x, try[x])}
<1>1. FindInRow(s, r, x0) = try[x0]
  BY Zenon DEF FindInRow, Tries
<1>2. Tries(s, r, try)
  BY TriesExist, Zenon
<1> HIDE DEF try
<1>3. \A x \in 0..N : try[x] = IF x >= Width THEN -1
                               ELSE IF Matched(s, r, x) = Len(s.entry) THEN x
                               ELSE try[x + Matched(s, r, x) + 1]
  BY <1>2, Zenon DEF Tries
<1>l. l \in Nat
  OBVIOUS
<1> HIDE DEF l
<1>4. l \in Nat /\ N \in Nat /\ Width \in Nat /\ Width > 0 /\ N >= Width + l /\ N >= Width + 1 + l
  BY <1>l, KeysSizes
<1> HIDE DEF N
<1>5. ASSUME NEW x \in 0..N, x >= Width PROVE LandsIn(s, r, x, try[x])
  <2>1. try[x] = -1
    BY <1>3, <1>5, Zenon
  <2>2. x..Width - 1 = {}
    BY <1>4, <1>5
  <2> QED BY <2>1, <2>2, Zenon DEF LandsIn
<1>6. 0 \in S
  <2>1. \A x \in 0..N : Width - x <= 0 => x >= Width
    BY <1>4
  <2> QED BY <1>5, <2>1
<1>7. ASSUME NEW n \in Nat, n \in S PROVE n + 1 \in S
  <2> SUFFICES ASSUME NEW x \in 0..N, Width - x <= n + 1 PROVE LandsIn(s, r, x, try[x])
    OBVIOUS
  <2>1. CASE x >= Width
    BY <1>5, <2>1, Zenon
  <2>2. CASE ~(x >= Width) /\ Matched(s, r, x) = Len(s.entry)
    <3>1. try[x] = x
      BY <1>3, <2>2, Zenon
    <3>2. x \in x..Width - 1 /\ x # -1
      BY <1>4, <2>2
    <3> QED BY <2>2, <3>1, <3>2 DEF LandsIn
  <2>3. CASE ~(x >= Width) /\ Matched(s, r, x) # Len(s.entry)
    <3> DEFINE mid == Matched(s, r, x)
               y == x + mid + 1
    <3>0. x \in 0..Width - 1
      BY <1>4, <2>3
    <3>1. y \in x + 1..Width + l /\ mid \in Nat
      BY <3>0, TryNext, Zenon DEF l
    <3>2. try[x] = try[y]
      BY <1>3, <2>3, Zenon
    <3>3. mid \in 0..l /\ mid # l
      BY <3>0, <2>3, MatchedMost DEF l
    <3> HIDE DEF mid
    <3>4. y \in 0..N /\ Width - y <= n
      BY <1>4, <3>1
    <3>5. LandsIn(s, r, y, try[y])
      BY <1>7, <3>4
    <3>6. y..Width - 1 \subseteq x..Width - 1
      BY <1>4, <3>1
    <3>7. ASSUME l = 1 PROVE mid = 0 /\ \A b \in x..Width - 1 : b = x \/ b \in y..Width - 1
      BY <1>4, <3>1, <3>3, <3>7
    <3> DEFINE z == try[y]
    <3> HIDE DEF y, z
    <3>8. z = -1 \/ (z \in x..Width - 1 /\ Matched(s, r, z) = Len(s.entry))
      BY <3>5, <3>6, Zenon DEF LandsIn, z
    <3>9. ASSUME z = -1, Len(s.entry) = 1, NEW b \in x..Width - 1 PROVE Matched(s, r, b) # 1
      <4>1. l = 1
        BY <3>9, Zenon DEF l
      <4>2. CASE b = x
        BY <3>7, <4>1, <4>2 DEF mid
      <4>3. CASE b \in y..Width - 1
        BY <3>5, <3>9, <4>3, Zenon DEF LandsIn, z
      <4> QED BY <3>7, <4>1, <4>2, <4>3, Zenon
    <3> QED BY <3>2, <3>8, <3>9, Zenon DEF LandsIn, z
  <2> QED BY <2>1, <2>2, <2>3, Zenon
<1> HIDE DEF S
<1>8. Nat \subseteq S
  BY <1>6, <1>7, SetInduction, Zenon
<1>9. Width \in S /\ x0 \in 0..N /\ Width - x0 <= Width
  BY <1>4, <1>8
<1> QED BY <1>1, <1>9, Zenon DEF S
LEMMA SearchLeft ==
  ASSUME NEW s, Calmed(s), s.selectMode, s.stale => s.searchMode
  PROVE  LET n == leaveSearch(s)
         IN /\ Calmed(n) /\ n.searchMode = FALSE /\ n.stale = FALSE /\ n.selectMode
            /\ n.sel = s.sel /\ n.visualMode = s.visualMode /\ n.before = s.before
            /\ n.parked = s.parked
<1> DEFINE q == s.preSearch[1]
           no == FALSE
           none == <<>>
           n1 == [s EXCEPT !.searchMode = no]
           n2 == [s EXCEPT !.searchMode = no, !.lines = q.lines, !.x = q.x, !.y = q.y,
                           !.preSearch = none, !.stale = no]
<1>1. leaveSearch(s) = IF s.preSearch = <<>> THEN n1 ELSE n2
  BY Zenon DEF leaveSearch
<1>2. no \in BOOLEAN /\ no = FALSE /\ none = <<>>
  OBVIOUS
<1> HIDE DEF q, no, none
<1>3. KeysOK(s) /\ s.thrown = FALSE /\ s.found = "none"
  BY Zenon DEF Calmed
<1>4. (s.searchMode <=> s.preSearch # <<>>) /\ s.searchMode \in BOOLEAN /\ s.stale \in BOOLEAN
  BY <1>3, Zenon DEF KeysOK, Kept, Switches
<1>5. CASE s.preSearch = <<>>
  <2>1. s.searchMode = FALSE /\ s.stale = FALSE
    BY <1>4, <1>5
  <2>2. /\ DOMAIN n1 = KeysFields /\ n1.x = s.x /\ n1.y = s.y /\ n1.ydisp = s.ydisp
        /\ n1.lines = s.lines /\ n1.text = s.text /\ n1.marked = s.marked /\ n1.sel = s.sel
        /\ n1.prefixMode = s.prefixMode /\ n1.selectMode = s.selectMode
        /\ n1.visualMode = s.visualMode /\ n1.searchMode = no
        /\ n1.entry = s.entry /\ n1.real = s.real /\ n1.preVisual = s.preVisual
        /\ n1.preSearch = s.preSearch /\ n1.parked = s.parked /\ n1.stale = s.stale
        /\ n1.before = s.before /\ n1.thrown = s.thrown /\ n1.found = s.found
    BY <1>3, Zenon DEF KeysOK, KeysFields
  <2> HIDE DEF n1
  <2>3. ybase(n1) = ybase(s)
    BY <2>2, Zenon DEF ybase
  <2>4. no = s.searchMode
    BY <1>2, <2>1, Zenon
  <2>5. /\ Switches(n1) /\ ViewOK(n1) /\ Nested(n1) /\ Clean(n1)
    BY <1>3, <2>2, <2>3, <2>4, Zenon DEF KeysOK, Switches, ViewOK, Nested, Clean
  <2>6. CursorOK(n1)
    BY <1>3, <2>2, <2>4, SMT DEF KeysOK, CursorOK
  <2>7. Kept(n1)
    BY <1>3, <2>2, <2>3, <2>4, SMT DEF KeysOK, Kept
  <2>8. SelOK(n1)
    BY <1>3, <2>2, SMT DEF KeysOK, SelOK
  <2>9. KeysOK(n1)
    BY <2>2, <2>5, <2>6, <2>7, <2>8, Zenon DEF KeysOK
  <2>10. leaveSearch(s) = n1
    BY <1>1, <1>5, Zenon
  <2> QED BY <1>2, <1>3, <2>1, <2>2, <2>9, <2>10, Zenon DEF Calmed
<1>6. CASE s.preSearch # <<>>
  <2>0. s.searchMode /\ s.visualMode = FALSE
    BY <1>3, <1>4, <1>6, Zenon DEF KeysOK, Nested, Switches
  <2>1. /\ q.x \in 0..Width /\ q.y \in 0..Height - 1 /\ q.lines = s.text
        /\ ~s.parked => q.x # Width
    BY <1>3, <2>0, Zenon DEF KeysOK, Kept, q
  <2>2. /\ DOMAIN n2 = KeysFields /\ n2.x = q.x /\ n2.y = q.y /\ n2.ydisp = s.ydisp
        /\ n2.lines = q.lines /\ n2.text = s.text /\ n2.marked = s.marked /\ n2.sel = s.sel
        /\ n2.prefixMode = s.prefixMode /\ n2.selectMode = s.selectMode
        /\ n2.visualMode = s.visualMode /\ n2.searchMode = no
        /\ n2.entry = s.entry /\ n2.real = s.real /\ n2.preVisual = s.preVisual
        /\ n2.preSearch = none /\ n2.parked = s.parked /\ n2.stale = no
        /\ n2.before = s.before /\ n2.thrown = s.thrown /\ n2.found = s.found
    BY <1>3, Zenon DEF KeysOK, KeysFields
  <2> HIDE DEF n2
  <2>3. ybase(n2) = ybase(s)
    BY <2>2, Zenon DEF ybase
  <2>5. /\ Switches(n2) /\ ViewOK(n2) /\ Nested(n2) /\ Clean(n2)
    BY <1>2, <1>3, <2>0, <2>1, <2>2, <2>3, Zenon
       DEF KeysOK, Switches, ViewOK, Nested, Clean
  <2>6. CursorOK(n2)
    BY <1>2, <1>3, <2>1, <2>2, SMT DEF KeysOK, CursorOK
  <2>7. Kept(n2)
    BY <1>2, <1>3, <2>2, <2>3, SMT DEF KeysOK, Kept
  <2>8. SelOK(n2)
    BY <1>3, <2>0, <2>2, SMT DEF KeysOK, SelOK
  <2>9. KeysOK(n2)
    BY <2>2, <2>5, <2>6, <2>7, <2>8, Zenon DEF KeysOK
  <2>10. leaveSearch(s) = n2
    BY <1>1, <1>6, Zenon
  <2> QED BY <1>2, <1>3, <2>0, <2>2, <2>9, <2>10, Zenon DEF Calmed
<1> QED BY <1>5, <1>6
\* every row of the buffer is tried from its first column on
LEMMA TriedRows ==
  ASSUME NEW s, Viewing(s), NEW up
  PROVE  LET rows == RowsTried(s, up)
         IN /\ \E n \in Nat : DOMAIN rows = 1..n
            /\ \A i \in DOMAIN rows : rows[i] \in 0..LastRow(s)
            /\ \A r \in 0..LastRow(s) : \E i \in DOMAIN rows : i # 1 /\ rows[i] = r
<1> DEFINE R == Row(s)
           l == LastRow(s)
           mid == IF up THEN R + 1 ELSE l - R + 1
           a == [i \in 1..mid |-> IF up THEN R + 1 - i ELSE R + i - 1]
           b == [i \in 1..l + 1 |-> IF up THEN l + 1 - i ELSE i - 1]
           rows == a \o b
<1>1. R \in 0..l /\ l \in Nat
  BY KeepsPlace
<1>2. RowsTried(s, up) = rows
  <2>1. CASE up
    <3>1. a = [i \in 1..R + 1 |-> R + 1 - i] /\ b = [i \in 1..l + 1 |-> l + 1 - i]
      BY <2>1, Zenon
    <3> HIDE DEF a, b
    <3> QED BY <2>1, <3>1, Zenon DEF RowsTried, R, l
  <2>2. CASE ~up
    <3>1. a = [i \in 1..l - R + 1 |-> R + i - 1] /\ b = [i \in 1..l + 1 |-> i - 1]
      BY <2>2, Zenon
    <3> HIDE DEF a, b
    <3> QED BY <2>2, <3>1, Zenon DEF RowsTried, R, l
  <2> QED BY <2>1, <2>2
<1> HIDE DEF R, l
<1>3. mid \in Nat /\ mid >= 1
  BY <1>1
<1>4. a \in Seq(0..l) /\ b \in Seq(0..l) /\ Len(a) = mid /\ Len(b) = l + 1
  BY <1>1, <1>3
<1>5. \A r \in 0..l : \E i \in 1..l + 1 : b[i] = r
  <2> TAKE r \in 0..l
  <2> DEFINE i == IF up THEN l + 1 - r ELSE r + 1
  <2>1. i \in 1..l + 1 /\ b[i] = r
    BY <1>1
  <2> QED BY <2>1
<1> HIDE DEF a, b, mid
<1>6. /\ rows \in Seq(0..l) /\ Len(rows) = mid + (l + 1)
      /\ \A i \in 1..mid + (l + 1) : rows[i] = IF i <= mid THEN a[i] ELSE b[i - mid]
  <2>1. /\ rows \in Seq(0..l) /\ Len(rows) = Len(a) + Len(b)
        /\ \A i \in 1..Len(a) + Len(b) : rows[i] = IF i <= Len(a) THEN a[i] ELSE b[i - Len(a)]
    BY <1>4, ConcatProperties, Zenon
  <2> HIDE DEF rows
  <2> QED BY <1>4, <2>1, Zenon
<1> HIDE DEF rows
<1>7. \A i \in 1..l + 1 : rows[mid + i] = b[i] /\ mid + i # 1 /\ mid + i \in 1..mid + (l + 1)
  <2> TAKE i \in 1..l + 1
  <2>1. /\ mid + i \in 1..mid + (l + 1) /\ mid + i # 1
        /\ ~(mid + i <= mid) /\ (mid + i) - mid = i
    BY <1>1, <1>3
  <2> QED BY <1>6, <2>1, Zenon
<1>8. DOMAIN rows = 1..mid + (l + 1) /\ mid + (l + 1) \in Nat
  BY <1>1, <1>3, <1>6
<1>9. \A i \in DOMAIN rows : rows[i] \in 0..l
  <2>1. rows \in Seq(0..l)
    BY <1>6
  <2>2. \A i \in 1..Len(rows) : rows[i] \in 0..l
    BY <2>1, ElementOfSeq, Zenon
  <2> QED BY <1>6, <1>8, <2>2, Zenon
<1>10. \A r \in 0..l : \E i \in DOMAIN rows : i # 1 /\ rows[i] = r
  BY <1>5, <1>7, <1>8, Zenon
<1> QED BY <1>2, <1>8, <1>9, <1>10, Zenon DEF l

LEMMA ShowMoves ==
  ASSUME NEW s, Viewing(s), NEW r \in 0..LastRow(s), NEW x \in 0..Width - 1
  PROVE  LET n == Show(s, r, x) IN Moves(s, n) /\ Row(n) = r /\ n.x = x
<1> DEFINE d == MinOf(r, ybase(s))
           y == r - d
           n == [s EXCEPT !.x = x, !.y = y, !.ydisp = d]
<1>1. Show(s, r, x) = n
  BY Zenon DEF Show
<1>2. d \in 0..ybase(s) /\ y \in 0..Height - 1 /\ d + y = r
  BY KeepsPlace DEF MinOf
<1>3. x \in 0..Width /\ x # Width
  BY KeepsPlace
<1> HIDE DEF d, y
<1>4. Moves(s, n)
  BY <1>2, <1>3, PlacedMoves, Zenon
<1>5. n.x = x /\ n.y = y /\ n.ydisp = d
  BY Zenon DEF Viewing, KeysFields
<1> QED BY <1>1, <1>2, <1>4, <1>5, Zenon DEF Row

\* a column that the search stops at, and one that it passes
LEMMA MatchIs ==
  ASSUME NEW s, s.entry \in Seq(Printing), NEW r, NEW c \in Nat, Matched(s, r, c) = Len(s.entry)
  PROVE  \A j \in DOMAIN s.entry : Cell(s, r, c + j - 1) = s.entry[j]
<1>1. Agrees(s, r, c, Len(s.entry))
  BY MatchedMost
<1> DEFINE l == Len(s.entry)
<1>2. l \in Nat /\ DOMAIN s.entry = 1..l
  OBVIOUS
<1> HIDE DEF l
<1> TAKE j \in DOMAIN s.entry
<1> DEFINE i == j - 1
<1>3. i \in 0..l - 1 /\ i + 1 = j /\ c + i = c + j - 1
  BY <1>2
<1> HIDE DEF i
<1>4. Cell(s, r, c + i) = s.entry[i + 1]
  BY <1>1, <1>3, Zenon DEF Agrees, l
<1> QED BY <1>3, <1>4, Zenon

LEMMA MissIs ==
  ASSUME NEW s, s.entry \in Seq(Printing), Len(s.entry) = 1, NEW r, NEW c \in 0..Width - 1,
         Matched(s, r, c) # 1
  PROVE  Cell(s, r, c) # s.entry[1]
<1> SUFFICES ASSUME Cell(s, r, c) = s.entry[1] PROVE FALSE
  OBVIOUS
<1>1. c \in Nat /\ c < Width
  BY KeysSizes
<1>2. Agrees(s, r, c, 1)
  <2> SUFFICES ASSUME NEW j \in 0..1 - 1
               PROVE c + j < Width /\ Cell(s, r, c + j) = s.entry[j + 1]
    BY DEF Agrees
  <2>1. j = 0 /\ c + j = c /\ j + 1 = 1
    BY <1>1
  <2> QED BY <1>1, <2>1, Zenon
<1> DEFINE mid == Matched(s, r, c)
           l == Len(s.entry)
<1>3. mid \in 0..l /\ \A i \in 0..l : Agrees(s, r, c, i) => i <= mid
  BY <1>1, MatchedMost, Zenon
<1>4. l = 1 /\ mid # 1
  OBVIOUS
<1> HIDE DEF mid, l
<1>5. 1 \in 0..l
  BY <1>4
<1>6. 1 <= mid
  BY <1>2, <1>3, <1>5, Zenon
<1> QED BY <1>3, <1>4, <1>6

LEMMA SearchLawful ==
  ASSUME NEW s, Calmed(s), s.selectMode, ~s.searchMode, ~s.stale, NEW up
  PROVE  Lawful(s, search(s, up))
<1> DEFINE rows == RowsTried(s, up)
           col(i) == FindInRow(s, rows[i], IF i = 1 THEN s.x + 1 ELSE 0)
           hits == {i \in DOMAIN rows : col(i) >= 0}
           i0 == Min(hits)
           r0 == rows[i0]
           c0 == col(i0)
           mid == Show(s, r0, c0)
           yes == "yes"
           no == "no"
           n == [mid EXCEPT !.found = yes]
           z == [s EXCEPT !.found = no]
           q == Follow(s, n, s.x)
<1>1. search(s, up) = IF hits = {} THEN z ELSE q
  BY Zenon DEF search
<1>2. /\ KeysOK(s) /\ s.thrown = FALSE /\ DOMAIN s = KeysFields
      /\ s.entry \in Seq(Printing) /\ s.x \in 0..Width
  BY Zenon DEF Calmed, KeysOK, CursorOK
<1>3. Viewing(s)
  BY <1>2, Zenon DEF Viewing, KeysOK
<1>4. /\ \E k1 \in Nat : DOMAIN rows = 1..k1
      /\ \A i \in DOMAIN rows : rows[i] \in 0..LastRow(s)
      /\ \A r \in 0..LastRow(s) : \E i \in DOMAIN rows : i # 1 /\ rows[i] = r
  BY <1>3, TriedRows
<1> HIDE DEF rows
<1>5. /\ yes = "yes" /\ yes # "no" /\ no = "no" /\ no # "yes"
  OBVIOUS
<1> HIDE DEF yes, no
<1>w. Width \in Nat /\ Width > 0
  BY KeysSizes
<1>6. ASSUME hits = {} PROVE Lawful(s, z)
  <2> DEFINE fs == {"found"}
  <2>1. Frame(s, z, fs) /\ z.found = no /\ z.thrown = s.thrown
    BY <1>2, Zenon DEF Frame, KeysFields
  <2>2. fs \in SUBSET SideFields
    BY DEF SideFields
  <2> HIDE DEF z, fs
  <2>3. KeysOK(z)
    BY <1>2, <2>1, <2>2, SideOK, Zenon DEF KeysOK, Switches
  <2>4. /\ z.selectMode = s.selectMode /\ z.sel = s.sel /\ z.before = s.before
        /\ z.ydisp = s.ydisp /\ z.lines = s.lines /\ z.entry = s.entry /\ z.text = s.text
    BY <2>1, <2>2, SideFrame, ZenonT(40)
  <2>5. ASSUME Len(z.entry) = 1, NEW r \in 0..LastRow(s), NEW c \in 0..Width - 1
        PROVE  Cell(z, r, c) # z.entry[1]
    <3>1. PICK i \in DOMAIN rows : i # 1 /\ rows[i] = r
      BY <1>4, Zenon
    <3>2. 0 \in 0..Width + 1
      BY <1>w
    <3>3. LandsIn(s, r, 0, FindInRow(s, r, 0))
      BY <1>2, <3>2, RowSearched, Zenon
    <3>4. col(i) = FindInRow(s, r, 0)
      BY <3>1, Zenon
    <3> DEFINE f == FindInRow(s, r, 0)
    <3>5. ~(f >= 0)
      BY <1>6, <3>4
    <3> HIDE DEF f, col
    <3>6. f = -1
      <4>1. f = -1 \/ f \in 0..Width - 1
        BY <3>3, Zenon DEF LandsIn, f
      <4> QED BY <1>w, <3>5, <4>1
    <3>7. Matched(s, r, c) # 1
      BY <2>4, <2>5, <3>3, <3>6, Zenon DEF LandsIn, f
    <3>8. Cell(s, r, c) # s.entry[1]
      BY <1>2, <2>4, <2>5, <3>7, MissIs, Zenon
    <3> QED BY <2>4, <3>8, Zenon DEF Cell
  <2>6. LastRow(z) = LastRow(s)
    BY <2>4, Zenon DEF LastRow
  <2>7. FoundOK(z)
    BY <1>5, <2>1, <2>5, <2>6, Zenon DEF FoundOK
  <2> QED BY <1>2, <2>1, <2>3, <2>4, <2>7, Zenon DEF Lawful, Restored, AnchorKept
<1>7. ASSUME hits # {} PROVE Lawful(s, q)
  <2>1. i0 \in DOMAIN rows /\ c0 >= 0
    <3>1. hits \in SUBSET Nat
      <4> HIDE DEF col
      <4> QED BY <1>4
    <3>2. i0 \in hits
      <4> HIDE DEF hits
      <4> QED BY <1>7, <3>1, LeastOf, Zenon
    <3> HIDE DEF i0, col
    <3> QED BY <3>2, Zenon
  <2> DEFINE x0 == IF i0 = 1 THEN s.x + 1 ELSE 0
  <2>2. x0 \in 0..Width + 1
    BY <1>w, <1>2
  <2>3. LandsIn(s, r0, x0, FindInRow(s, r0, x0))
    <3> HIDE DEF x0, r0
    <3> QED BY <1>2, <2>2, RowSearched, Zenon
  <2>4. c0 = FindInRow(s, r0, x0)
    BY Zenon
  <2> HIDE DEF c0, x0
  <2>5. c0 \in 0..Width - 1 /\ Matched(s, r0, c0) = Len(s.entry)
    <3>1. c0 # -1
      BY <2>1
    <3>2. c0 \in x0..Width - 1 /\ Matched(s, r0, c0) = Len(s.entry)
      BY <2>3, <2>4, <3>1, Zenon DEF LandsIn
    <3> QED BY <1>w, <2>2, <3>2
  <2>6. r0 \in 0..LastRow(s)
    BY <1>4, <2>1, Zenon
  <2> HIDE DEF r0, i0
  <2>7. Moves(s, mid) /\ Row(mid) = r0 /\ mid.x = c0
    BY <1>3, <2>5, <2>6, ShowMoves, Zenon
  <2> HIDE DEF mid
  <2>8. /\ Frame(s, n, {"x", "y", "ydisp", "found"})
        /\ n.x = mid.x /\ n.y = mid.y /\ n.ydisp = mid.ydisp /\ n.found = yes /\ n.entry = s.entry
        /\ n.lines = s.lines
    BY <2>7, Zenon DEF Moves, Frame, KeysFields
  <2> HIDE DEF n
  <2>9. Row(n) = r0 /\ n.x = c0
    BY <2>7, <2>8, Zenon DEF Row
  <2>10. /\ n.ydisp \in 0..ybase(s) /\ n.y \in 0..Height - 1 /\ n.x \in 0..Width
         /\ s.x # Width => n.x # Width
    BY <2>7, <2>8, Zenon DEF Moves
  <2>11. /\ KeysOK(q) /\ Frame(n, q, {"sel", "marked", "thrown"}) /\ AnchorKept(s, q)
         /\ s.parked \/ q.thrown = s.thrown
    BY <1>2, <2>8, <2>10, FollowOK, Zenon
  <2> HIDE DEF q
  <2>12. /\ q.x = n.x /\ q.y = n.y /\ q.ydisp = n.ydisp /\ q.found = n.found
         /\ q.entry = n.entry /\ q.lines = n.lines
         /\ q.selectMode = s.selectMode /\ q.parked = s.parked /\ q.before = s.before
    BY <2>8, <2>11, Zenon DEF Frame, KeysFields
  <2>13. Row(q) = r0
    BY <2>9, <2>12, Zenon DEF Row
  <2>14. c0 \in Nat
    BY <2>5
  <2>15. \A j \in DOMAIN s.entry : Cell(s, r0, c0 + j - 1) = s.entry[j]
    BY <1>2, <2>5, <2>14, MatchIs, Zenon
  <2>16. \A j \in DOMAIN q.entry : Cell(q, Row(q), q.x + j - 1) = q.entry[j]
    <3> TAKE j \in DOMAIN q.entry
    <3>1. j \in DOMAIN s.entry /\ q.entry[j] = s.entry[j]
      BY <2>8, <2>12, Zenon
    <3>2. q.lines = s.lines /\ q.x = c0
      BY <2>8, <2>9, <2>12, Zenon
    <3>3. Cell(q, Row(q), q.x + j - 1) = Cell(s, r0, c0 + j - 1)
      BY <2>13, <3>2, Zenon DEF Cell
    <3> QED BY <2>15, <3>1, <3>3, Zenon
  <2>17. FoundOK(q)
    BY <1>5, <2>8, <2>12, <2>16, Zenon DEF FoundOK
  <2> QED BY <1>2, <2>11, <2>12, <2>17, Zenon DEF Lawful, Excused, Restored
<1> HIDE DEF hits, z, q
<1> QED BY <1>1, <1>6, <1>7, Zenon

LEMMA LawfulFrom ==
  ASSUME NEW s, NEW mid, NEW n, Lawful(mid, n), mid.selectMode = s.selectMode,
         mid.visualMode = s.visualMode, mid.sel = s.sel, mid.before = s.before
  PROVE  Lawful(s, n)
  BY Zenon DEF Lawful, Restored, AnchorKept

LEMMA SameLawful ==
  ASSUME NEW s, Calmed(s)
  PROVE  Lawful(s, s)
<1>1. Frame(s, s, {})
  BY Zenon DEF Frame, Calmed, KeysOK
<1> QED BY <1>1, SideLawful

LEMMA LeftLawful ==
  ASSUME NEW s, Calmed(s), s.selectMode, s.stale => s.searchMode
  PROVE  Lawful(s, leaveSearch(s))
<1> DEFINE mid == leaveSearch(s)
<1>1. /\ Calmed(mid) /\ mid.selectMode
      /\ mid.sel = s.sel /\ mid.visualMode = s.visualMode /\ mid.before = s.before
  BY SearchLeft, Zenon
<1>2. Lawful(mid, mid)
  BY <1>1, SameLawful, Zenon
<1>3. mid.selectMode = s.selectMode
  BY <1>1, Zenon DEF Calmed, KeysOK, Switches
<1> HIDE DEF mid
<1>4. Lawful(s, mid)
  BY <1>1, <1>2, <1>3, LawfulFrom, Zenon
<1> QED BY <1>4, Zenon DEF mid

(***************************************************************************)
(* The prompt.  Typing into it removes no cell; the one a backspace misses *)
(* lies behind the last column.                                            *)
(***************************************************************************)
LEMMA TypedWhole ==
  ASSUME NEW s, NEW c, NEW ch, Whole(s.lines, s.text)
  PROVE  Whole(Typed(s, c, ch), s.text)
<1> DEFINE l == s.lines
           o == Bottom(s)
           put == PutCell(l[o], c, ch)
           n == [l EXCEPT ![o] = put]
<1>1. Typed(s, c, ch) = n
  BY Zenon DEF Typed
<1>2. \A z \in DOMAIN l[o] : z \in DOMAIN put
  BY Zenon DEF PutCell
<1> HIDE DEF l, o, put
<1>3. \A i \in DOMAIN l : i \in DOMAIN n /\ (n[i] = IF i = o THEN put ELSE l[i])
  BY Zenon
<1> HIDE DEF n
<1>4. ASSUME NEW i \in 1..Len(s.text)
      PROVE  i \in DOMAIN n /\ 1..Width \subseteq DOMAIN n[i]
  <2>1. i \in DOMAIN l /\ 1..Width \subseteq DOMAIN l[i]
    BY Zenon DEF Whole, l
  <2>2. CASE i = o
    BY <1>2, <1>3, <2>1, <2>2, Zenon
  <2>3. CASE i # o
    BY <1>3, <2>1, <2>3, Zenon
  <2> QED BY <2>2, <2>3
<1> QED BY <1>1, <1>4, Zenon DEF Whole

LEMMA PromptedWhole ==
  ASSUME NEW s, s.text \in Texts, s.lines = s.text
  PROVE  Whole(Prompted(s), s.text)
<1> DEFINE l == s.text
           o == Bottom(s)
           put == PromptLine(l[o])
           n == [l EXCEPT ![o] = put]
<1>1. Prompted(s) = n
  BY Zenon DEF Prompted
<1>2. \A z \in DOMAIN l[o] : z \in DOMAIN put
  BY Zenon DEF PromptLine
<1>3. \A i \in 1..Len(l) : i \in DOMAIN l /\ DOMAIN l[i] = 1..Width
  BY KeysAssumption
<1> HIDE DEF o, put
<1>4. \A i \in DOMAIN l : i \in DOMAIN n /\ (n[i] = IF i = o THEN put ELSE l[i])
  BY Zenon
<1> HIDE DEF n
<1>5. ASSUME NEW i \in 1..Len(l) PROVE i \in DOMAIN n /\ 1..Width \subseteq DOMAIN n[i]
  <2>1. CASE i = o
    BY <1>2, <1>3, <1>4, <2>1, Zenon
  <2>2. CASE i # o
    BY <1>3, <1>4, <2>2, Zenon
  <2> QED BY <2>1, <2>2
<1> QED BY <1>1, <1>5, Zenon DEF Whole

LEMMA MissingBehind ==
  ASSUME NEW s, ViewOK(s), Whole(s.lines, s.text), NEW c \in Int, c >= 0,
         c + 1 \notin DOMAIN s.lines[Bottom(s)]
  PROVE  c >= Width
<1> DEFINE h == Len(s.text)
           o == Bottom(s)
<1>1. h \in Nat /\ s.ydisp \in 0..h - Height
  <2>1. s.text \in Texts
    BY Zenon DEF ViewOK
  <2> QED BY <2>1, KeysSizes DEF ViewOK, ybase
<1>2. o = s.ydisp + Height
  BY Zenon DEF Bottom
<1> HIDE DEF h, o
<1>3. o \in 1..h
  BY <1>1, <1>2, KeysSizes
<1>4. 1..Width \subseteq DOMAIN s.lines[o]
  BY <1>3, Zenon DEF Whole, h
<1>5. c + 1 \notin 1..Width
  BY <1>4, Zenon DEF o
<1> QED BY <1>5, KeysSizes

\* the prompt has changed and the entry accordingly
LEMMA EntryLawful ==
  ASSUME NEW s, Calmed(s), s.searchMode, NEW n,
         Frame(s, n, {"lines", "entry", "x", "thrown"}), n.entry \in Seq(Printing),
         n.x \in Int, n.x >= PromptLen + Len(n.entry), Whole(n.lines, s.text),
         n.thrown \in BOOLEAN, n.thrown => Overlong(n)
  PROVE  Lawful(s, n)
<1>1. KeysOK(s) /\ s.thrown = FALSE /\ s.found = "none"
  BY Zenon DEF Calmed
<1>2. /\ DOMAIN n = KeysFields /\ n.y = s.y /\ n.ydisp = s.ydisp
      /\ n.text = s.text /\ n.marked = s.marked /\ n.sel = s.sel
      /\ n.prefixMode = s.prefixMode /\ n.selectMode = s.selectMode
      /\ n.visualMode = s.visualMode /\ n.searchMode = s.searchMode
      /\ n.real = s.real /\ n.preVisual = s.preVisual
      /\ n.preSearch = s.preSearch /\ n.parked = s.parked /\ n.stale = s.stale
      /\ n.before = s.before /\ n.found = s.found
  BY <1>1, Zenon DEF KeysOK, Frame, KeysFields
<1>3. ybase(n) = ybase(s)
  BY <1>2, Zenon DEF ybase
<1>4. Switches(n) /\ ViewOK(n) /\ Nested(n) /\ Clean(n)
  BY <1>1, <1>2, <1>3, Zenon DEF KeysOK, Switches, ViewOK, Nested, Clean
<1>5. CursorOK(n)
  BY <1>1, <1>2, Zenon DEF KeysOK, CursorOK
<1>6. Kept(n)
  BY <1>1, <1>2, <1>3, SMT DEF KeysOK, Kept
<1>7. SelOK(n)
  <2>1. s.visualMode = FALSE
    BY <1>1, Zenon DEF KeysOK, Nested, Switches
  <2> QED BY <1>1, <1>2, <2>1, Zenon DEF KeysOK, SelOK
<1>8. KeysOK(n)
  BY <1>2, <1>4, <1>5, <1>6, <1>7, Zenon DEF KeysOK
<1>9. FoundOK(n)
  BY <1>1, <1>2, Zenon DEF FoundOK
<1> QED BY <1>1, <1>2, <1>8, <1>9, Zenon DEF Lawful, Excused, Restored, AnchorKept

LEMMA BackspaceLawful ==
  ASSUME NEW s, Calmed(s), s.searchMode, ~s.stale, s.entry # <<>>
  PROVE  LET c == PromptLen + Len(s.entry) - 1
         IN Lawful(s, IF c + 1 \notin DOMAIN s.lines[Bottom(s)]
                      THEN Thrown([s EXCEPT !.entry = Front(s.entry)])
                      ELSE [s EXCEPT !.lines = Typed(s, c, " "), !.entry = Front(s.entry),
                                     !.x = s.x - 1])
<1> DEFINE h == Len(s.entry)
           back == Front(s.entry)
           g == Len(back)
           c == PromptLen + h - 1
           l == Typed(s, c, " ")
           x == s.x - 1
           yes == TRUE
           mid == [s EXCEPT !.entry = back]
           a == [mid EXCEPT !.thrown = yes]
           b == [s EXCEPT !.lines = l, !.entry = back, !.x = x]
           missing == c + 1 \notin DOMAIN s.lines[Bottom(s)]
           n == IF missing THEN a ELSE b
<1>0. yes \in BOOLEAN
  OBVIOUS
<1>1. /\ KeysOK(s) /\ s.thrown = FALSE /\ s.entry \in Seq(Printing) /\ s.x \in Int
      /\ Whole(s.lines, s.text) /\ ViewOK(s)
  BY Zenon DEF Calmed, KeysOK, CursorOK, Clean
<1>2. back \in Seq(Printing) /\ g = h - 1 /\ h \in Nat
  BY <1>1 DEF Front
<1>3. g \in Nat
  BY <1>1, <1>2 DEF Front
<1>4. s.x >= PromptLen + h
  BY <1>1, Zenon DEF KeysOK, CursorOK
<1>5. Whole(l, s.text)
  BY <1>1, TypedWhole, Zenon
<1>6. missing => c >= Width
  <2>1. c \in Int /\ c >= 0
    <3> HIDE DEF h, g
    <3> QED BY <1>2, <1>3, KeysSizes
  <2> HIDE DEF c
  <2> QED BY <1>1, <2>1, MissingBehind, Zenon
<1> HIDE DEF h, l, yes, missing, back
<1>7. x \in Int /\ x >= PromptLen + g /\ s.x >= PromptLen + g /\ c = PromptLen + g
  <2> HIDE DEF g
  <2> QED BY <1>1, <1>2, <1>3, <1>4, KeysSizes
<1> HIDE DEF x, c
<1>8. ASSUME missing PROVE Lawful(s, a)
  <2>1. /\ Frame(s, a, {"lines", "entry", "x", "thrown"}) /\ a.entry = back /\ a.x = s.x
        /\ a.lines = s.lines /\ a.thrown = yes /\ a.searchMode = s.searchMode
    BY <1>1, Zenon DEF KeysOK, Frame, KeysFields
  <2> HIDE DEF a
  <2>2. PromptLen + Len(a.entry) >= Width
    BY <1>6, <1>7, <1>8, <2>1, Zenon DEF g
  <2>3. Overlong(a)
    BY <2>1, <2>2, Zenon DEF Overlong
  <2>4. a.x \in Int /\ a.x >= PromptLen + Len(a.entry)
    BY <1>1, <1>7, <2>1, Zenon DEF g
  <2> QED BY <1>0, <1>1, <1>2, <2>1, <2>3, <2>4, EntryLawful, Zenon
<1>9. Lawful(s, b)
  <2>1. /\ Frame(s, b, {"lines", "entry", "x", "thrown"}) /\ b.entry = back /\ b.x = x
        /\ b.lines = l /\ b.thrown = s.thrown
    BY <1>1, Zenon DEF KeysOK, Frame, KeysFields
  <2> HIDE DEF b
  <2>2. b.x \in Int /\ b.x >= PromptLen + Len(b.entry)
    BY <1>7, <2>1, Zenon DEF g
  <2>3. b.thrown = FALSE
    BY <1>1, <2>1, Zenon
  <2> QED BY <1>2, <1>5, <2>1, <2>2, <2>3, EntryLawful, Zenon
<1>10. Lawful(s, n)
  <2> HIDE DEF a, b
  <2> QED BY <1>8, <1>9, Zenon
<1> QED BY <1>10, Zenon DEF n, a, b, mid, missing, l, c, h, x, back, yes, Thrown

LEMMA TypedLawful ==
  ASSUME NEW s, Calmed(s), s.searchMode, ~s.stale, NEW key \in Printing
  PROVE  Lawful(s, [s EXCEPT !.lines = Typed(s, PromptLen + Len(s.entry), key),
                             !.entry = Append(s.entry, key), !.x = s.x + 1])
<1> DEFINE h == Len(s.entry)
           more == Append(s.entry, key)
           g == Len(more)
           l == Typed(s, PromptLen + h, key)
           x == s.x + 1
           n == [s EXCEPT !.lines = l, !.entry = more, !.x = x]
<1>1. /\ KeysOK(s) /\ s.thrown = FALSE /\ s.entry \in Seq(Printing) /\ s.x \in Int
      /\ Whole(s.lines, s.text)
  BY Zenon DEF Calmed, KeysOK, CursorOK, Clean
<1>2. more \in Seq(Printing) /\ g = h + 1 /\ h \in Nat
  BY <1>1
<1>3. s.x >= PromptLen + h
  BY <1>1, Zenon DEF KeysOK, CursorOK
<1>4. Whole(l, s.text)
  BY <1>1, TypedWhole, Zenon
<1> HIDE DEF h, l, more
<1>5. x \in Int /\ x >= PromptLen + g
  <2> HIDE DEF g
  <2> QED BY <1>1, <1>2, <1>3, KeysSizes
<1> HIDE DEF x
<1>6. /\ Frame(s, n, {"lines", "entry", "x", "thrown"}) /\ n.entry = more /\ n.x = x
      /\ n.lines = l /\ n.thrown = s.thrown
  BY <1>1, Zenon DEF KeysOK, Frame, KeysFields
<1> HIDE DEF n
<1>7. n.x \in Int /\ n.x >= PromptLen + Len(n.entry) /\ n.thrown = FALSE
  BY <1>1, <1>5, <1>6, Zenon DEF g
<1>8. Lawful(s, n)
  BY <1>2, <1>4, <1>6, <1>7, EntryLawful, Zenon
<1> QED BY <1>8, Zenon DEF n, l, h, more, x

LEMMA KeySearchLawful ==
  ASSUME NEW s, Calmed(s), s.selectMode, NEW key, s.searchMode \/ key \in {"n", "N"},
         s.stale => s.searchMode /\ key = "ESC"
  PROVE  Lawful(s, keySearch(s, key))
<1> DEFINE left == leaveSearch(s)
           up == IF key = "N" THEN s.searchDown ELSE ~s.searchDown
           a == IF s.entry = <<>> THEN left ELSE search(left, up)
           c == PromptLen + Len(s.entry) - 1
           nb == IF c + 1 \notin DOMAIN s.lines[Bottom(s)]
                 THEN Thrown([s EXCEPT !.entry = Front(s.entry)])
                 ELSE [s EXCEPT !.lines = Typed(s, c, " "), !.entry = Front(s.entry),
                                !.x = s.x - 1]
           b == IF s.entry = <<>> THEN s ELSE nb
           nc == [s EXCEPT !.lines = Typed(s, PromptLen + Len(s.entry), key),
                           !.entry = Append(s.entry, key), !.x = s.x + 1]
           n == keySearch(s, key)
<1>1. n = CASE key = "ESC" -> left
            [] key = "CR" \/ (~s.searchMode /\ key \in {"n", "N"}) -> a
            [] key = "BS" -> b
            [] s.searchMode /\ key \in Printing -> nc
            [] OTHER -> s
  BY Zenon DEF keySearch
<1>2. s.searchMode \in BOOLEAN /\ s.stale \in BOOLEAN
  BY Zenon DEF Calmed, KeysOK, Switches
<1>3. Lawful(s, left)
  BY LeftLawful, Zenon
<1>4. ASSUME key # "ESC" PROVE Lawful(s, a)
  <2>1. CASE s.entry = <<>>
    BY <1>3, <2>1, Zenon
  <2>2. CASE s.entry # <<>>
    <3>1. /\ Calmed(left) /\ left.searchMode = FALSE /\ left.stale = FALSE /\ left.selectMode
          /\ left.sel = s.sel /\ left.visualMode = s.visualMode /\ left.before = s.before
      BY <1>4, SearchLeft, Zenon
    <3>2. left.selectMode = s.selectMode
      BY <3>1, Zenon DEF Calmed, KeysOK, Switches
    <3> HIDE DEF left, up
    <3>3. Lawful(left, search(left, up))
      BY <3>1, SearchLawful, Zenon
    <3> DEFINE f == search(left, up)
    <3>4. a = f
      BY <2>2, Zenon
    <3> HIDE DEF f
    <3>5. Lawful(s, f)
      BY <3>1, <3>2, <3>3, LawfulFrom, Zenon DEF f
    <3> QED BY <3>4, <3>5, Zenon
  <2> QED BY <2>1, <2>2
<1>5. ASSUME key = "BS" PROVE Lawful(s, b)
  <2>1. CASE s.entry = <<>>
    BY <2>1, SameLawful, Zenon
  <2>2. CASE s.entry # <<>>
    <3>1. s.searchMode /\ ~s.stale
      BY <1>5
    <3>2. Lawful(s, nb)
      BY <2>2, <3>1, BackspaceLawful, Zenon
    <3> HIDE DEF nb
    <3> QED BY <2>2, <3>2, Zenon
  <2> QED BY <2>1, <2>2
<1>6. ASSUME s.searchMode, key \in Printing PROVE Lawful(s, nc)
  <2>1. ~s.stale
    BY <1>6 DEF Printing
  <2> QED BY <1>6, <2>1, TypedLawful, Zenon
<1>7. Lawful(s, s)
  BY SameLawful
<1> HIDE DEF left, a, b, nc, n
<1>8. \/ n = left \/ (key # "ESC" /\ n = a) \/ (key = "BS" /\ n = b)
      \/ (s.searchMode /\ key \in Printing /\ n = nc) \/ n = s
  <2>1. key = "CR" => key # "ESC"
    OBVIOUS
  <2>2. key \in {"n", "N"} => key # "ESC"
    OBVIOUS
  <2> QED BY <1>1, <2>1, <2>2, Zenon DEF Printing
<1>9. Lawful(s, n)
  BY <1>3, <1>4, <1>5, <1>6, <1>7, <1>8, Zenon
<1> QED BY <1>9, Zenon DEF n

(***************************************************************************)
(* Entering and leaving the modes                                          *)
(***************************************************************************)
LEMMA PrefixCalmed ==
  ASSUME NEW s, Calmed(s), NEW pt \in BOOLEAN, pt => ~s.selectMode
  PROVE  LET n == [s EXCEPT !.prefixMode = pt]
         IN /\ Calmed(n) /\ n.prefixMode = pt
            /\ n.selectMode = s.selectMode /\ n.visualMode = s.visualMode /\ n.sel = s.sel
            /\ n.before = s.before
<1> DEFINE n == [s EXCEPT !.prefixMode = pt]
<1>1. KeysOK(s)
  BY Zenon DEF Calmed
<1>2. /\ DOMAIN n = KeysFields /\ n.x = s.x /\ n.y = s.y /\ n.ydisp = s.ydisp
      /\ n.lines = s.lines /\ n.text = s.text /\ n.marked = s.marked /\ n.sel = s.sel
      /\ n.prefixMode = pt /\ n.selectMode = s.selectMode /\ n.visualMode = s.visualMode
      /\ n.searchMode = s.searchMode /\ n.entry = s.entry /\ n.real = s.real
      /\ n.preVisual = s.preVisual /\ n.preSearch = s.preSearch /\ n.parked = s.parked
      /\ n.stale = s.stale /\ n.before = s.before /\ n.thrown = s.thrown /\ n.found = s.found
  BY <1>1, Zenon DEF KeysOK, KeysFields
<1> HIDE DEF n
<1>3. ybase(n) = ybase(s)
  BY <1>2, Zenon DEF ybase
<1>4. Switches(n) /\ ViewOK(n) /\ Clean(n) /\ Nested(n)
  BY <1>1, <1>2, <1>3, Zenon DEF KeysOK, Switches, ViewOK, Clean, Nested
<1>5. CursorOK(n)
  BY <1>1, <1>2, SMT DEF KeysOK, CursorOK
<1>6. Kept(n)
  BY <1>1, <1>2, <1>3, SMT DEF KeysOK, Kept
<1>7. SelOK(n)
  BY <1>1, <1>2, SMT DEF KeysOK, SelOK
<1>8. KeysOK(n)
  BY <1>2, <1>4, <1>5, <1>6, <1>7, Zenon DEF KeysOK
<1>9. Calmed(n)
  BY <1>2, <1>8, Zenon DEF Calmed
<1>10. /\ Calmed(n) /\ n.prefixMode = pt
       /\ n.selectMode = s.selectMode /\ n.visualMode = s.visualMode /\ n.sel = s.sel
       /\ n.before = s.before
  BY <1>2, <1>9, Zenon
<1> QED BY <1>10, Zenon DEF n

LEMMA EnterSelectLawful ==
  ASSUME NEW s, Calmed(s), ~s.selectMode, s.prefixMode = FALSE
  PROVE  Lawful(s, enterSelect(s))
<1> DEFINE r == [x |-> s.x, y |-> s.y, ydisp |-> s.ydisp, lines |-> s.lines]
           real == <<r>>
           before == <<s.x, s.y, s.ydisp, s.lines>>
           parked == s.parked \/ s.x = Width
           yes == TRUE
           no == FALSE
           n == [s EXCEPT !.real = real, !.before = before, !.parked = parked,
                          !.selectMode = yes, !.visualMode = no]
<1>0. /\ yes = TRUE /\ no = FALSE /\ real # <<>> /\ real[1] = r
      /\ r.x = s.x /\ r.y = s.y /\ r.ydisp = s.ydisp /\ r.lines = s.lines
      /\ parked \in BOOLEAN
  OBVIOUS
<1>b. before = <<r.x, r.y, r.ydisp, r.lines>>
  BY <1>0, Zenon
<1>p. ~parked => ~s.parked /\ s.x # Width
  OBVIOUS
<1> HIDE DEF r, real, before, parked, yes, no
<1>1. KeysOK(s) /\ s.thrown = FALSE /\ s.found = "none" /\ ~s.stale /\ s.stale \in BOOLEAN
  BY Zenon DEF Calmed, KeysOK, Switches
<1>2. /\ ~s.searchMode /\ ~s.visualMode /\ s.preVisual = <<>> /\ s.preSearch = <<>>
      /\ s.lines = s.text
  BY <1>1, Zenon DEF KeysOK, Nested, Kept, Clean
<1>3. /\ DOMAIN n = KeysFields /\ n.x = s.x /\ n.y = s.y /\ n.ydisp = s.ydisp
      /\ n.lines = s.lines /\ n.text = s.text /\ n.marked = s.marked /\ n.sel = s.sel
      /\ n.prefixMode = s.prefixMode /\ n.selectMode = yes /\ n.visualMode = no
      /\ n.searchMode = s.searchMode /\ n.entry = s.entry /\ n.real = real
      /\ n.preVisual = s.preVisual /\ n.preSearch = s.preSearch /\ n.parked = parked
      /\ n.stale = s.stale /\ n.before = before /\ n.thrown = s.thrown /\ n.found = s.found
  BY <1>1, Zenon DEF KeysOK, KeysFields
<1>e. enterSelect(s) = n
  <2>1. n = [s EXCEPT !.real = real, !.before = before, !.parked = s.parked \/ s.x = Width,
                      !.selectMode = yes, !.visualMode = no]
    BY Zenon DEF parked
  <2>2. enterSelect(s) = [s EXCEPT !.real = real, !.before = before,
                                   !.parked = s.parked \/ s.x = Width,
                                   !.selectMode = TRUE, !.visualMode = FALSE]
    BY Zenon DEF enterSelect, real, r, before
  <2> QED BY <1>0, <2>1, <2>2, Zenon
<1> HIDE DEF n
<1>4. ybase(n) = ybase(s)
  BY <1>3, Zenon DEF ybase
<1>5. Switches(n)
  BY <1>0, <1>1, <1>3, Zenon DEF KeysOK, Switches
<1>6. ViewOK(n) /\ Clean(n)
  BY <1>1, <1>2, <1>3, <1>4, Zenon DEF KeysOK, ViewOK, Clean
<1>7. Nested(n)
  BY <1>0, <1>1, <1>2, <1>3, Zenon DEF KeysOK, Nested
<1>8. s.x \in 0..Width /\ s.y \in 0..Height - 1 /\ s.ydisp \in 0..ybase(s)
  BY <1>1, <1>2, Zenon DEF KeysOK, CursorOK, ViewOK
<1>9. CursorOK(n)
  BY <1>1, <1>2, <1>3, <1>8, <1>p, Zenon DEF KeysOK, CursorOK
<1>10. Kept(n)
  BY <1>0, <1>2, <1>3, <1>4, <1>8, <1>b, Zenon DEF Kept
<1>11. SelOK(n)
  BY <1>0, <1>1, <1>2, <1>3, <1>p, Zenon DEF KeysOK, SelOK
<1>12. KeysOK(n)
  BY <1>3, <1>5, <1>6, <1>7, <1>9, <1>10, <1>11, Zenon DEF KeysOK
<1>13. FoundOK(n)
  BY <1>1, <1>3, Zenon DEF FoundOK
<1>14. Lawful(s, n)
  BY <1>1, <1>2, <1>3, <1>12, <1>13, Zenon DEF Lawful, Restored, AnchorKept
<1> QED BY <1>14, <1>e, Zenon

LEMMA LeaveSelectLawful ==
  ASSUME NEW s, Calmed(s), s.selectMode, ~s.searchMode, ~s.visualMode
  PROVE  Lawful(s, leaveSelect(s))
<1> DEFINE r == s.real[1]
           none == <<>>
           empty == {}
           no == FALSE
           n == [s EXCEPT !.x = r.x, !.y = r.y, !.ydisp = r.ydisp, !.lines = r.lines,
                          !.marked = empty, !.real = none, !.preVisual = none,
                          !.selectMode = no, !.visualMode = no, !.stale = no]
<1>0. none = <<>> /\ empty = {} /\ no = FALSE /\ no \in BOOLEAN
  OBVIOUS
<1>e. leaveSelect(s) = n
  BY Zenon DEF leaveSelect
<1> HIDE DEF none, empty, no, r
<1>1. KeysOK(s) /\ s.thrown = FALSE /\ s.found = "none"
  BY Zenon DEF Calmed
<1>2. /\ r.x \in 0..Width /\ r.y \in 0..Height - 1 /\ r.ydisp \in 0..ybase(s)
      /\ r.lines = s.text /\ s.before = <<r.x, r.y, r.ydisp, r.lines>>
      /\ s.preSearch = <<>> /\ s.entry \in Seq(Printing)
  BY <1>1, Zenon DEF KeysOK, Kept, CursorOK, r
<1>3. /\ DOMAIN n = KeysFields /\ n.x = r.x /\ n.y = r.y /\ n.ydisp = r.ydisp
      /\ n.lines = r.lines /\ n.text = s.text /\ n.marked = empty /\ n.sel = s.sel
      /\ n.prefixMode = s.prefixMode /\ n.selectMode = no /\ n.visualMode = no
      /\ n.searchMode = s.searchMode /\ n.entry = s.entry /\ n.real = none
      /\ n.preVisual = none /\ n.preSearch = s.preSearch /\ n.parked = s.parked /\ n.stale = no
      /\ n.before = s.before /\ n.thrown = s.thrown /\ n.found = s.found
  BY <1>1, Zenon DEF KeysOK, KeysFields
<1> HIDE DEF n
<1>4. ybase(n) = ybase(s)
  BY <1>3, Zenon DEF ybase
<1>5. Switches(n)
  BY <1>0, <1>1, <1>3, Zenon DEF KeysOK, Switches
<1>6. ViewOK(n) /\ Clean(n) /\ Nested(n)
  BY <1>0, <1>1, <1>2, <1>3, <1>4, Zenon DEF KeysOK, ViewOK, Clean, Nested
<1>7. CursorOK(n)
  BY <1>0, <1>1, <1>2, <1>3, Zenon DEF KeysOK, CursorOK
<1>8. Kept(n)
  BY <1>0, <1>2, <1>3, <1>4, Zenon DEF Kept
<1>9. SelOK(n)
  BY <1>0, <1>1, <1>3, Zenon DEF KeysOK, SelOK
<1>10. KeysOK(n)
  BY <1>3, <1>5, <1>6, <1>7, <1>8, <1>9, Zenon DEF KeysOK
<1>11. FoundOK(n)
  BY <1>1, <1>3, Zenon DEF FoundOK
<1>12. Lawful(s, n)
  BY <1>0, <1>1, <1>2, <1>3, <1>10, <1>11, Zenon DEF Lawful, Restored, AnchorKept
<1> QED BY <1>12, <1>e, Zenon

LEMMA EnterVisualLawful ==
  ASSUME NEW s, Calmed(s), s.selectMode, ~s.searchMode, ~s.visualMode, ~s.stale
  PROVE  Lawful(s, enterVisual(s))
<1> DEFINE kept == <<s.lines>>
           mid == [s EXCEPT !.preVisual = kept]
           n == selectText(mid, s.x, s.x, Row(s), Row(s))
           on == ~n.thrown
           r == [n EXCEPT !.visualMode = on]
<1>e. enterVisual(s) = r
  BY Zenon DEF enterVisual
<1>1. KeysOK(s) /\ s.thrown = FALSE /\ s.found = "none"
  BY Zenon DEF Calmed
<1>2. s.lines = s.text /\ s.x \in 0..Width /\ (~s.parked => s.x # Width)
  BY <1>1, Zenon DEF KeysOK, Clean, CursorOK
<1>3. kept # <<>> /\ kept[1] = s.lines
  BY Only
<1>4. mid.sel = s.sel /\ mid.marked = s.marked /\ mid.thrown = s.thrown /\ mid.ydisp = s.ydisp
      /\ DOMAIN mid = KeysFields
      /\ \A f \in KeysFields \ {"preVisual"} : mid[f] = s[f]
  BY <1>1, Zenon DEF KeysOK, KeysFields
<1>5. mid.preVisual = kept
  BY <1>1, Zenon DEF KeysOK, KeysFields
<1> HIDE DEF mid, kept
<1>6. s.ydisp \in Nat /\ Row(s) \in Int
  <2>1. s.y \in Int /\ s.ydisp \in Nat
    BY <1>1, KeysSizes DEF KeysOK, ViewOK
  <2> QED BY <2>1 DEF Row
<1> DEFINE y1 == Row(s)
<1> HIDE DEF y1
<1>7. Selects(mid, s.x, s.x, y1, y1, selectText(mid, s.x, s.x, y1, y1))
  <2>1. mid.sel # <<>> => EndsOK(mid.sel[1])
    BY <1>1, <1>4, Zenon DEF KeysOK, SelOK
  <2> QED BY <1>2, <1>4, <1>6, <2>1, SelectText, Zenon DEF y1
<1>8. /\ ~s.parked => s.sel = <<>> /\ s.marked = {}
      /\ s.sel # <<>> => Stuck(s.sel[1])
  BY <1>1, Zenon DEF KeysOK, SelOK
<1>9. /\ Frame(mid, n, {"sel", "marked", "thrown"})
      /\ n.thrown = s.thrown \/ n.thrown = TRUE
      /\ n.sel # <<>> /\ EndsOK(n.sel[1])
      /\ s.sel = <<>> /\ s.x # Width =>
           /\ n.thrown = s.thrown /\ Inside(n.sel[1], s.ydisp + Height)
           /\ s.marked = {} => n.marked = Region(n.sel[1])
      /\ s.sel # <<>> \/ s.x = Width => n.thrown = TRUE /\ Stuck(n.sel[1])
  BY <1>4, <1>7, <1>8, Zenon DEF y1, Selects
<1> HIDE DEF n
<1>t. n.thrown => s.parked
  BY <1>1, <1>2, <1>8, <1>9, Zenon
<1>10. n.thrown \in BOOLEAN /\ on \in BOOLEAN
  BY <1>1, <1>9
<1> HIDE DEF on
<1>m. /\ DOMAIN mid = KeysFields /\ mid.x = s.x /\ mid.y = s.y /\ mid.ydisp = s.ydisp
      /\ mid.lines = s.lines /\ mid.text = s.text /\ mid.marked = s.marked /\ mid.sel = s.sel
      /\ mid.prefixMode = s.prefixMode /\ mid.selectMode = s.selectMode
      /\ mid.visualMode = s.visualMode /\ mid.searchMode = s.searchMode /\ mid.entry = s.entry
      /\ mid.real = s.real /\ mid.preVisual = kept /\ mid.preSearch = s.preSearch
      /\ mid.parked = s.parked /\ mid.stale = s.stale /\ mid.before = s.before /\ mid.thrown = s.thrown
      /\ mid.found = s.found
  BY <1>4, <1>5, Zenon DEF KeysFields
<1>n. /\ DOMAIN n = KeysFields /\ n.x = mid.x /\ n.y = mid.y /\ n.ydisp = mid.ydisp
      /\ n.lines = mid.lines /\ n.text = mid.text /\ n.prefixMode = mid.prefixMode
      /\ n.selectMode = mid.selectMode /\ n.visualMode = mid.visualMode
      /\ n.searchMode = mid.searchMode /\ n.entry = mid.entry /\ n.real = mid.real
      /\ n.preVisual = mid.preVisual /\ n.preSearch = mid.preSearch /\ n.parked = mid.parked
      /\ n.stale = mid.stale /\ n.before = mid.before /\ n.found = mid.found
  BY <1>9, Zenon DEF Frame, KeysFields
<1>11. /\ DOMAIN r = KeysFields /\ r.x = s.x /\ r.y = s.y /\ r.ydisp = s.ydisp
       /\ r.lines = s.lines /\ r.text = s.text /\ r.marked = n.marked /\ r.sel = n.sel
       /\ r.prefixMode = s.prefixMode /\ r.selectMode = s.selectMode /\ r.visualMode = on
       /\ r.searchMode = s.searchMode /\ r.entry = s.entry /\ r.real = s.real
       /\ r.preVisual = kept /\ r.preSearch = s.preSearch /\ r.parked = s.parked
       /\ r.stale = s.stale /\ r.before = s.before /\ r.thrown = n.thrown /\ r.found = s.found
  <2>1. /\ DOMAIN r = KeysFields /\ r.x = n.x /\ r.y = n.y /\ r.ydisp = n.ydisp
        /\ r.lines = n.lines /\ r.text = n.text /\ r.marked = n.marked /\ r.sel = n.sel
        /\ r.prefixMode = n.prefixMode /\ r.selectMode = n.selectMode /\ r.visualMode = on
        /\ r.searchMode = n.searchMode /\ r.entry = n.entry /\ r.real = n.real
        /\ r.preVisual = n.preVisual /\ r.preSearch = n.preSearch /\ r.parked = n.parked
        /\ r.stale = n.stale /\ r.before = n.before /\ r.thrown = n.thrown /\ r.found = n.found
    BY <1>n, Zenon DEF KeysFields
  <2> HIDE DEF r
  <2> QED BY <1>m, <1>n, <2>1, ZenonT(40)
<1> HIDE DEF r
<1>12. ybase(r) = ybase(s)
  BY <1>11, Zenon DEF ybase
<1>13. Switches(r)
  BY <1>1, <1>10, <1>11, Zenon DEF KeysOK, Switches
<1>14. ViewOK(r) /\ Clean(r)
  BY <1>1, <1>2, <1>11, <1>12, Zenon DEF KeysOK, ViewOK, Clean
<1>15. CursorOK(r)
  BY <1>1, <1>11, SMT DEF KeysOK, CursorOK
<1>16. Nested(r)
  BY <1>1, <1>3, <1>11, Zenon DEF KeysOK, Nested
<1>17. Kept(r)
  <2>1. s.selectMode = TRUE /\ s.real # <<>> /\ s.preSearch = <<>>
    BY <1>1, Zenon DEF KeysOK, Kept, Switches
  <2> QED BY <1>1, <1>2, <1>3, <1>11, <1>12, <2>1, Zenon DEF KeysOK, Kept
<1>18. SelOK(r)
  <2>1. on <=> s.sel = <<>> /\ s.x # Width
    BY <1>1, <1>9, Zenon DEF on
  <2>2. s.sel = <<>> /\ s.x # Width => Inside(n.sel[1], Len(s.text))
    <3> SUFFICES ASSUME s.sel = <<>>, s.x # Width PROVE Inside(n.sel[1], Len(s.text))
      OBVIOUS
    <3> DEFINE e == n.sel[1]
    <3>1. EndsOK(e) /\ Inside(e, s.ydisp + Height)
      BY <1>9, Zenon
    <3> HIDE DEF e
    <3>2. s.ydisp + Height <= Len(s.text) /\ s.ydisp \in Nat /\ Len(s.text) \in Nat
      BY <1>1, KeysSizes DEF KeysOK, ViewOK, ybase
    <3>3. Inside(e, Len(s.text))
      BY <3>1, <3>2, KeysSizes DEF Inside, EndsOK
    <3> QED BY <3>3, Zenon DEF e
  <2>3. ~s.parked => s.sel = <<>> /\ s.marked = {} /\ s.x # Width
    BY <1>2, <1>8, Zenon
  <2> QED BY <1>9, <1>11, <2>1, <2>2, <2>3, Zenon DEF SelOK
<1>19. KeysOK(r)
  BY <1>11, <1>13, <1>14, <1>15, <1>16, <1>17, <1>18, Zenon DEF KeysOK
<1>20. FoundOK(r)
  BY <1>1, <1>11, Zenon DEF FoundOK
<1>21. Lawful(s, r)
  BY <1>1, <1>t, <1>11, <1>19, <1>20, Zenon DEF Lawful, Excused, Restored, AnchorKept
<1> QED BY <1>21, <1>e, Zenon

\* the end of the visual mode, by a key or by a timer that came too late
LEMMA LeaveVisualLawful ==
  ASSUME NEW s, KeysOK(s), s.thrown = FALSE, s.found = "none", s.visualMode \/ s.stale
  PROVE  Lawful(s, leaveVisual(s))
<1> DEFINE none == <<>>
           empty == {}
           yes == TRUE
           no == FALSE
           kept == s.preVisual[1]
           a == [s EXCEPT !.thrown = yes]
           b == [s EXCEPT !.lines = none, !.sel = none, !.visualMode = no, !.thrown = yes]
           c == [s EXCEPT !.lines = kept, !.marked = empty, !.preVisual = none,
                          !.sel = none, !.visualMode = no]
<1>0. none = <<>> /\ empty = {} /\ no = FALSE /\ yes = TRUE /\ no \in BOOLEAN /\ yes \in BOOLEAN
  OBVIOUS
<1>e. leaveVisual(s) = IF s.real = <<>> THEN a ELSE IF s.preVisual = <<>> THEN b ELSE c
  <2> DEFINE b0 == [s EXCEPT !.lines = none, !.sel = none, !.visualMode = no]
  <2>1. Thrown(s) = a /\ Thrown(b0) = b
    BY Zenon DEF Thrown
  <2> QED BY <2>1, Zenon DEF leaveVisual
<1> HIDE DEF none, empty, yes, no, kept
<1>1. /\ s.visualMode => s.selectMode /\ s.real # <<>> /\ s.preVisual # <<>> /\ ~s.searchMode
      /\ s.preVisual # <<>> => s.selectMode /\ kept = s.text
      /\ s.selectMode <=> s.real # <<>>
      /\ s.visualMode \in BOOLEAN
  BY Zenon DEF KeysOK, Kept, Nested, Switches, kept
<1>2. ASSUME s.real = <<>> PROVE Lawful(s, a)
  <2> DEFINE fs == {"thrown"}
  <2>1. Frame(s, a, fs) /\ a.thrown = yes /\ a.found = s.found
    BY Zenon DEF KeysOK, Frame, KeysFields
  <2>2. fs \in SUBSET SideFields
    BY DEF SideFields
  <2> HIDE DEF a, fs
  <2>3. KeysOK(a)
    BY <1>0, <2>1, <2>2, SideOK, Zenon
  <2>4. a.selectMode = s.selectMode /\ a.visualMode = s.visualMode /\ a.stale = s.stale
        /\ a.before = s.before
    BY <2>1, <2>2, SideFrame, ZenonT(40)
  <2>5. FoundOK(a)
    BY <2>1, Zenon DEF FoundOK
  <2> QED BY <1>1, <1>2, <2>1, <2>3, <2>4, <2>5, Zenon DEF Lawful, Excused, Restored, AnchorKept
<1>3. ASSUME s.real # <<>>, s.preVisual = <<>> PROVE Lawful(s, b)
  <2>1. /\ DOMAIN b = KeysFields /\ b.x = s.x /\ b.y = s.y /\ b.ydisp = s.ydisp
        /\ b.lines = none /\ b.text = s.text /\ b.marked = s.marked /\ b.sel = none
        /\ b.prefixMode = s.prefixMode /\ b.selectMode = s.selectMode /\ b.visualMode = no
        /\ b.searchMode = s.searchMode /\ b.entry = s.entry /\ b.real = s.real
        /\ b.preVisual = s.preVisual /\ b.preSearch = s.preSearch /\ b.parked = s.parked
        /\ b.stale = s.stale /\ b.before = s.before /\ b.thrown = yes /\ b.found = s.found
    BY Zenon DEF KeysOK, KeysFields
  <2> HIDE DEF b
  <2>2. ybase(b) = ybase(s)
    BY <2>1, Zenon DEF ybase
  <2>3. s.selectMode /\ s.stale /\ ~s.visualMode
    BY <1>1, <1>3, Zenon
  <2>4. Switches(b)
    BY <1>0, <2>1, Zenon DEF KeysOK, Switches
  <2>5. ViewOK(b) /\ Nested(b) /\ Clean(b)
    BY <1>0, <2>1, <2>2, <2>3, Zenon DEF KeysOK, ViewOK, Nested, Clean
  <2>6. CursorOK(b)
    BY <2>1, SMT DEF KeysOK, CursorOK
  <2>7. Kept(b)
    BY <2>1, <2>2, SMT DEF KeysOK, Kept
  <2>8. SelOK(b)
    BY <1>0, <2>1, <2>3, Zenon DEF KeysOK, SelOK
  <2>9. KeysOK(b)
    BY <2>1, <2>4, <2>5, <2>6, <2>7, <2>8, Zenon DEF KeysOK
  <2>10. FoundOK(b)
    BY <2>1, Zenon DEF FoundOK
  <2> QED BY <2>1, <2>3, <2>9, <2>10, Zenon DEF Lawful, Excused, Restored, AnchorKept
<1>4. ASSUME s.real # <<>>, s.preVisual # <<>> PROVE Lawful(s, c)
  <2>1. /\ DOMAIN c = KeysFields /\ c.x = s.x /\ c.y = s.y /\ c.ydisp = s.ydisp
        /\ c.lines = kept /\ c.text = s.text /\ c.marked = empty /\ c.sel = none
        /\ c.prefixMode = s.prefixMode /\ c.selectMode = s.selectMode /\ c.visualMode = no
        /\ c.searchMode = s.searchMode /\ c.entry = s.entry /\ c.real = s.real
        /\ c.preVisual = none /\ c.preSearch = s.preSearch /\ c.parked = s.parked
        /\ c.stale = s.stale /\ c.before = s.before /\ c.thrown = s.thrown /\ c.found = s.found
    BY Zenon DEF KeysOK, KeysFields
  <2> HIDE DEF c
  <2>2. ybase(c) = ybase(s)
    BY <2>1, Zenon DEF ybase
  <2>3. Switches(c)
    BY <1>0, <2>1, Zenon DEF KeysOK, Switches
  <2>4. ViewOK(c) /\ Nested(c) /\ Clean(c)
    BY <1>0, <1>1, <1>4, <2>1, <2>2, Zenon DEF KeysOK, ViewOK, Nested, Clean
  <2>5. CursorOK(c)
    BY <2>1, SMT DEF KeysOK, CursorOK
  <2>6. Kept(c)
    BY <1>0, <2>1, <2>2, Zenon DEF KeysOK, Kept
  <2>7. SelOK(c)
    BY <1>0, <2>1, Zenon DEF KeysOK, SelOK
  <2>8. KeysOK(c)
    BY <2>1, <2>3, <2>4, <2>5, <2>6, <2>7, Zenon DEF KeysOK
  <2>9. FoundOK(c)
    BY <2>1, Zenon DEF FoundOK
  <2> QED BY <1>0, <2>1, <2>8, <2>9, Zenon DEF Lawful, Restored, AnchorKept
<1> HIDE DEF a, b, c
<1> QED BY <1>e, <1>2, <1>3, <1>4, Zenon

LEMMA EnterSearchLawful ==
  ASSUME NEW s, Calmed(s), s.selectMode, ~s.searchMode, ~s.visualMode, ~s.stale, NEW down
  PROVE  Lawful(s, enterSearch(s, down))
<1> DEFINE q == [lines |-> s.lines, x |-> s.x, y |-> s.y]
           kept == <<q>>
           none == <<>>
           yes == TRUE
           l == Prompted(s)
           y == Height - 1
           n == [s EXCEPT !.lines = l, !.entry = none, !.searchMode = yes, !.searchDown = down,
                          !.preSearch = kept, !.y = y, !.x = PromptLen]
<1>0. /\ yes = TRUE /\ none = <<>> /\ none \in Seq(Printing) /\ Len(none) = 0
      /\ kept # <<>> /\ kept[1] = q /\ q.lines = s.lines /\ q.x = s.x /\ q.y = s.y
  OBVIOUS
<1>y. y \in 0..Height - 1 /\ PromptLen >= PromptLen + 0 /\ PromptLen \in Int
  BY KeysSizes
<1>e. enterSearch(s, down) = n
  BY Zenon DEF enterSearch
<1> HIDE DEF q, kept, none, yes, l, y
<1>1. KeysOK(s) /\ s.thrown = FALSE /\ s.found = "none"
  BY Zenon DEF Calmed
<1>2. /\ s.lines = s.text /\ s.x \in 0..Width /\ (~s.parked => s.x # Width)
      /\ s.y \in 0..Height - 1 /\ s.text \in Texts
  BY <1>1, Zenon DEF KeysOK, Clean, CursorOK, ViewOK
<1>l. Whole(l, s.text)
  BY <1>2, PromptedWhole, Zenon DEF l
<1>3. /\ DOMAIN n = KeysFields /\ n.x = PromptLen /\ n.y = y /\ n.ydisp = s.ydisp
      /\ n.lines = l /\ n.text = s.text /\ n.marked = s.marked /\ n.sel = s.sel
      /\ n.prefixMode = s.prefixMode /\ n.selectMode = s.selectMode
      /\ n.visualMode = s.visualMode /\ n.searchMode = yes /\ n.entry = none /\ n.real = s.real
      /\ n.preVisual = s.preVisual /\ n.preSearch = kept /\ n.parked = s.parked
      /\ n.stale = s.stale /\ n.before = s.before /\ n.thrown = s.thrown /\ n.found = s.found
  BY <1>1, Zenon DEF KeysOK, KeysFields
<1> HIDE DEF n
<1>4. ybase(n) = ybase(s)
  BY <1>3, Zenon DEF ybase
<1>5. Switches(n)
  BY <1>0, <1>1, <1>3, Zenon DEF KeysOK, Switches
<1>6. ViewOK(n) /\ Nested(n) /\ Clean(n)
  BY <1>0, <1>1, <1>3, <1>4, <1>y, <1>l, Zenon DEF KeysOK, ViewOK, Nested, Clean
<1>7. CursorOK(n)
  BY <1>0, <1>3, <1>y, Zenon DEF CursorOK
<1>8. Kept(n)
  BY <1>0, <1>1, <1>2, <1>3, <1>4, Zenon DEF KeysOK, Kept
<1>9. SelOK(n)
  BY <1>1, <1>3, SMT DEF KeysOK, SelOK
<1>10. KeysOK(n)
  BY <1>3, <1>5, <1>6, <1>7, <1>8, <1>9, Zenon DEF KeysOK
<1>11. FoundOK(n)
  BY <1>1, <1>3, Zenon DEF FoundOK
<1>12. Lawful(s, n)
  BY <1>1, <1>3, <1>10, <1>11, Zenon DEF Lawful, Restored, AnchorKept
<1> QED BY <1>12, <1>e, Zenon

(***************************************************************************)
(* A key                                                                   *)
(***************************************************************************)
LEMMA MotionLawful ==
  ASSUME NEW s, Calmed(s), s.selectMode, ~s.searchMode, ~s.stale, NEW key
  PROVE  Lawful(s, LET n == Moved(s, key) IN IF n.thrown THEN n ELSE Follow(s, n, s.x))
<1> DEFINE n == Moved(s, key)
           q == Follow(s, n, s.x)
           r == IF n.thrown THEN n ELSE q
<1>1. /\ KeysOK(s) /\ s.thrown = FALSE /\ s.found = "none" /\ DOMAIN s = KeysFields
      /\ s.x \in 0..Width /\ (~s.parked => s.x # Width)
  BY Zenon DEF Calmed, KeysOK, CursorOK
<1>2. Viewing(s)
  BY <1>1, Zenon DEF Viewing, KeysOK
<1>3. Moves(s, n) \/ (s.x = Width /\ n = Thrown(s))
  BY <1>2, MovedMoves, Zenon
<1>4. Thrown(s).thrown = TRUE
  BY <1>1, Zenon DEF Thrown, KeysFields
<1> HIDE DEF n
<1>5. ASSUME s.x = Width, n = Thrown(s) PROVE Lawful(s, r)
  <2>1. s.parked /\ r = Thrown(s)
    BY <1>1, <1>4, <1>5, Zenon DEF KeysOK, Switches
  <2> HIDE DEF r
  <2> QED BY <2>1, ThrownLawful, Zenon
<1>6. ASSUME Moves(s, n) PROVE Lawful(s, r)
  <2>1. n.thrown = s.thrown /\ n.found = s.found
    BY <1>6, Zenon DEF Moves, Frame, KeysFields
  <2>2. r = q
    BY <1>1, <2>1, Zenon
  <2>3. Frame(s, n, {"x", "y", "ydisp", "found"})
    BY <1>6, Zenon DEF Moves, Frame
  <2>4. /\ KeysOK(q) /\ Frame(n, q, {"sel", "marked", "thrown"}) /\ AnchorKept(s, q)
        /\ s.parked \/ q.thrown = s.thrown
    BY <1>1, <1>6, <2>3, FollowOK, Zenon DEF Moves
  <2> HIDE DEF q, r
  <2>5. q.found = n.found /\ q.selectMode = n.selectMode /\ q.parked = n.parked
        /\ q.before = n.before
    BY <2>4, Zenon DEF Frame, KeysFields
  <2>6. n.selectMode = s.selectMode /\ n.parked = s.parked /\ n.before = s.before
    BY <1>6, Zenon DEF Moves, Frame, KeysFields
  <2>7. FoundOK(q)
    BY <1>1, <2>1, <2>5, Zenon DEF FoundOK
  <2>8. Lawful(s, q)
    BY <1>1, <2>4, <2>5, <2>6, <2>7, Zenon DEF Lawful, Excused, Restored
  <2> QED BY <2>2, <2>8, Zenon
<1>7. Lawful(s, r)
  BY <1>3, <1>5, <1>6, Zenon
<1> QED BY <1>7, Zenon DEF n, q, r

LEMMA CopyLawful ==
  ASSUME NEW s, Calmed(s), s.visualMode, NEW g, NEW w
  PROVE  Lawful(s, leaveVisual([s EXCEPT !.copied = g, !.ref = w]))
<1> DEFINE mid == [s EXCEPT !.copied = g, !.ref = w]
           fs == {"copied", "ref"}
<1>1. KeysOK(s) /\ s.thrown = FALSE /\ s.found = "none"
  BY Zenon DEF Calmed
<1>2. Frame(s, mid, fs) /\ mid.thrown = s.thrown /\ mid.found = s.found
  BY <1>1, Zenon DEF KeysOK, Frame, KeysFields
<1>3. fs \in SUBSET SideFields
  BY DEF SideFields
<1> HIDE DEF mid, fs
<1>4. KeysOK(mid)
  BY <1>1, <1>2, <1>3, SideOK, Zenon DEF KeysOK, Switches
<1>5. mid.selectMode = s.selectMode /\ mid.visualMode = s.visualMode /\ mid.sel = s.sel
      /\ mid.before = s.before
  BY <1>2, <1>3, SideFrame, Zenon
<1>6. Lawful(mid, leaveVisual(mid))
  BY <1>1, <1>2, <1>4, <1>5, LeaveVisualLawful, Zenon
<1>7. Lawful(s, leaveVisual(mid))
  BY <1>5, <1>6, LawfulFrom, Zenon
<1> QED BY <1>7, Zenon DEF mid

LEMMA KeySelectLawful ==
  ASSUME NEW s, Calmed(s), s.selectMode, NEW key,
         s.stale => key = IF s.searchMode THEN "ESC" ELSE "q"
  PROVE  Lawful(s, keySelect(s, key))
<1> DEFINE g == grabText(s, s.sel[1])
           w == <<s.sel[1], s.lines>>
           a == keySearch(s, key)
           b == LET n == Moved(s, key) IN IF n.thrown THEN n ELSE Follow(s, n, s.x)
           c == IF s.visualMode THEN leaveVisual(s) ELSE enterVisual(s)
           d == leaveVisual([s EXCEPT !.copied = g, !.ref = w])
           e == IF s.visualMode THEN leaveVisual(s) ELSE leaveSelect(s)
           f == enterSearch(s, key = "/")
           r == keySelect(s, key)
<1>1. r = CASE s.searchMode \/ key \in {"n", "N"} -> a
            [] ~s.searchMode /\ key \in Motions -> b
            [] ~s.searchMode /\ key = "v" -> c
            [] ~s.searchMode /\ key = "y" /\ s.visualMode -> d
            [] ~s.searchMode /\ key \in {"q", "ESC"} -> e
            [] ~s.searchMode /\ key \in {"/", "?"} /\ ~s.visualMode -> f
            [] OTHER -> s
  BY Zenon DEF keySelect
<1>2. KeysOK(s) /\ s.thrown = FALSE /\ s.found = "none"
  BY Zenon DEF Calmed
<1>k. "n" # "q" /\ "N" # "q" /\ "v" # "q" /\ "/" # "q" /\ "?" # "q"
  OBVIOUS
<1>m. "q" \notin Motions
  BY DEF Motions
<1>3. ASSUME s.searchMode \/ key \in {"n", "N"} PROVE Lawful(s, a)
  <2>1. s.stale => s.searchMode /\ key = "ESC"
    BY <1>3, <1>k, Zenon
  <2> QED BY <1>3, <2>1, KeySearchLawful, Zenon
<1>4. ASSUME ~s.searchMode, key \in Motions PROVE Lawful(s, b)
  <2>1. ~s.stale
    BY <1>4, <1>m, Zenon
  <2> HIDE DEF b
  <2>2. Lawful(s, b)
    BY <1>4, <2>1, MotionLawful, Zenon DEF b
  <2> QED BY <2>2
<1>5. ASSUME s.visualMode PROVE Lawful(s, leaveVisual(s))
  BY <1>2, <1>5, LeaveVisualLawful, Zenon
<1>6. ASSUME ~s.searchMode, key = "v" PROVE Lawful(s, c)
  <2>1. ~s.stale
    BY <1>6, <1>k, Zenon
  <2>2. ~s.visualMode => Lawful(s, enterVisual(s))
    BY <1>6, <2>1, EnterVisualLawful, Zenon
  <2> QED BY <1>5, <2>2, Zenon
<1>7. ASSUME s.visualMode PROVE Lawful(s, d)
  <2> HIDE DEF g, w
  <2> QED BY <1>7, CopyLawful, Zenon
<1>8. ASSUME ~s.searchMode PROVE Lawful(s, e)
  <2>1. ~s.visualMode => Lawful(s, leaveSelect(s))
    BY <1>8, LeaveSelectLawful, Zenon
  <2> QED BY <1>5, <2>1, Zenon
<1>9. ASSUME ~s.searchMode, key \in {"/", "?"}, ~s.visualMode PROVE Lawful(s, f)
  <2>1. ~s.stale
    BY <1>9, <1>k, Zenon
  <2> DEFINE down == key = "/"
  <2> HIDE DEF down
  <2>2. Lawful(s, enterSearch(s, down))
    BY <1>9, <2>1, EnterSearchLawful, Zenon
  <2> QED BY <2>2, Zenon DEF down
<1>10. Lawful(s, s)
  BY SameLawful
<1> HIDE DEF a, b, c, d, e, f, r
<1>11. \/ (s.searchMode \/ key \in {"n", "N"}) /\ r = a
       \/ ~s.searchMode /\ key \in Motions /\ r = b
       \/ ~s.searchMode /\ key = "v" /\ r = c
       \/ s.visualMode /\ r = d
       \/ ~s.searchMode /\ r = e
       \/ ~s.searchMode /\ key \in {"/", "?"} /\ ~s.visualMode /\ r = f
       \/ r = s
  BY <1>1
<1>12. Lawful(s, r)
  BY <1>3, <1>4, <1>6, <1>7, <1>8, <1>9, <1>10, <1>11, Zenon
<1> QED BY <1>12, Zenon DEF r

LEMMA PressedLawful ==
  ASSUME NEW s, Calmed(s), NEW key, s.stale => key = IF s.searchMode THEN "ESC" ELSE "q"
  PROVE  Lawful(s, Pressed(s, key))
<1> DEFINE no == FALSE
           yes == TRUE
           n == [s EXCEPT !.prefixMode = no]
           dead == [n EXCEPT !.alive = no]
           a == keyPrefix(n, key)
           b == [s EXCEPT !.prefixMode = yes]
           t == IF s.visualMode THEN s.timers + 1 ELSE s.timers
           c == [s EXCEPT !.timers = t]
           d == keySelect(s, key)
           r == Pressed(s, key)
<1>1. /\ r = IF s.prefixMode /\ key # "^C" THEN IF key \in ByKeyDown THEN n ELSE a
             ELSE IF key = "^A" /\ ~s.selectMode THEN b
             ELSE IF key = "^C" /\ (s.prefixMode \/ s.selectMode) THEN c
             ELSE IF s.selectMode THEN d ELSE s
      /\ a = CASE key = "k" -> dead [] key = "[" -> enterSelect(n) [] OTHER -> n
  BY Zenon DEF Pressed, keyPrefix
<1>0. yes \in BOOLEAN /\ no \in BOOLEAN /\ yes = TRUE /\ no = FALSE
  OBVIOUS
<1> HIDE DEF yes, no, t
<1>2. KeysOK(s) /\ (s.prefixMode => ~s.selectMode) /\ s.selectMode \in BOOLEAN
  BY Zenon DEF Calmed, KeysOK, Nested, Switches
<1>3. /\ Calmed(n) /\ n.prefixMode = no /\ n.selectMode = s.selectMode
      /\ n.visualMode = s.visualMode /\ n.sel = s.sel /\ n.before = s.before
  BY <1>0, PrefixCalmed, Zenon
<1> HIDE DEF n
<1>4. Lawful(s, n)
  BY <1>3, SameLawful, LawfulFrom, Zenon
<1>5. ASSUME s.prefixMode PROVE Lawful(s, a)
  <2>1. Lawful(n, dead)
    <3> DEFINE fs == {"alive"}
    <3>1. Frame(n, dead, fs)
      BY <1>3, Zenon DEF Calmed, KeysOK, Frame, KeysFields
    <3>2. fs \in SUBSET (SideFields \ {"thrown", "found"})
      BY DEF SideFields
    <3> HIDE DEF dead, fs
    <3> QED BY <1>3, <3>1, <3>2, SideLawful, Zenon
  <2>2. Lawful(n, enterSelect(n))
    BY <1>0, <1>2, <1>3, <1>5, EnterSelectLawful, Zenon
  <2>3. Lawful(s, dead) /\ Lawful(s, enterSelect(n))
    <3> HIDE DEF dead
    <3> QED BY <1>3, <2>1, <2>2, LawfulFrom, Zenon
  <2> HIDE DEF dead, a
  <2> QED BY <1>1, <1>4, <2>3, Zenon
<1>6. ASSUME ~s.selectMode PROVE Lawful(s, b)
  <2>1. /\ Calmed(b) /\ b.selectMode = s.selectMode
        /\ b.visualMode = s.visualMode /\ b.sel = s.sel /\ b.before = s.before
    BY <1>0, <1>6, PrefixCalmed, Zenon
  <2> HIDE DEF b
  <2> QED BY <2>1, SameLawful, LawfulFrom, Zenon
<1>7. Lawful(s, c)
  <2> DEFINE fs == {"timers"}
  <2>1. Frame(s, c, fs)
    BY <1>2, Zenon DEF KeysOK, Frame, KeysFields
  <2>2. fs \in SUBSET (SideFields \ {"thrown", "found"})
    BY DEF SideFields
  <2> HIDE DEF c, fs
  <2> QED BY <2>1, <2>2, SideLawful, Zenon
<1>8. ASSUME s.selectMode PROVE Lawful(s, d)
  BY <1>8, KeySelectLawful, Zenon
<1>9. Lawful(s, s)
  BY SameLawful
<1>c. c = [s EXCEPT !.timers = t]
  OBVIOUS
<1> HIDE DEF a, b, c, d, r
<1>10. Lawful(s, r)
  BY <1>1, <1>4, <1>5, <1>6, <1>7, <1>8, <1>9, Zenon
<1> QED BY <1>10, Zenon DEF r

(***************************************************************************)
(* Every step                                                              *)
(***************************************************************************)
KeysIInv == KeysInv /\ FoundOK(k)

LEMMA TimerLawful ==
  ASSUME NEW s, Calmed(s), NEW t
  PROVE  Lawful(s, leaveVisual([s EXCEPT !.timers = t, !.stale = ~s.visualMode]))
<1> DEFINE b == ~s.visualMode
           n == [s EXCEPT !.timers = t, !.stale = b]
<1>1. KeysOK(s) /\ s.thrown = FALSE /\ s.found = "none" /\ (s.stale => s.selectMode)
  BY Zenon DEF Calmed
<1>2. b \in BOOLEAN /\ s.visualMode \in BOOLEAN /\ b = ~s.visualMode
  BY <1>1, Zenon DEF KeysOK, Switches
<1> HIDE DEF b
<1>3. /\ DOMAIN n = KeysFields /\ n.x = s.x /\ n.y = s.y /\ n.ydisp = s.ydisp
      /\ n.lines = s.lines /\ n.text = s.text /\ n.marked = s.marked /\ n.sel = s.sel
      /\ n.prefixMode = s.prefixMode /\ n.selectMode = s.selectMode
      /\ n.visualMode = s.visualMode /\ n.searchMode = s.searchMode /\ n.entry = s.entry
      /\ n.real = s.real /\ n.preVisual = s.preVisual /\ n.preSearch = s.preSearch
      /\ n.parked = s.parked /\ n.stale = b /\ n.before = s.before /\ n.thrown = s.thrown
      /\ n.found = s.found
  BY <1>1, Zenon DEF KeysOK, KeysFields
<1> HIDE DEF n
<1>4. ybase(n) = ybase(s)
  BY <1>3, Zenon DEF ybase
<1>5. Switches(n) /\ ViewOK(n)
  BY <1>1, <1>2, <1>3, <1>4, Zenon DEF KeysOK, Switches, ViewOK
<1>6. Nested(n)
  BY <1>1, <1>2, <1>3, Zenon DEF KeysOK, Nested
<1>7. Clean(n)
  <2>1. s.visualMode => s.selectMode /\ ~s.stale
    BY <1>1, Zenon DEF KeysOK, Nested, Kept
  <2> QED BY <1>1, <1>2, <1>3, <2>1, Zenon DEF KeysOK, Clean
<1>8. CursorOK(n)
  BY <1>1, <1>3, SMT DEF KeysOK, CursorOK
<1>9. Kept(n)
  BY <1>1, <1>3, <1>4, SMT DEF KeysOK, Kept
<1>10. SelOK(n)
  BY <1>1, <1>3, SMT DEF KeysOK, SelOK
<1>11. KeysOK(n)
  BY <1>3, <1>5, <1>6, <1>7, <1>8, <1>9, <1>10, Zenon DEF KeysOK
<1>12. Lawful(n, leaveVisual(n))
  BY <1>1, <1>2, <1>3, <1>11, LeaveVisualLawful, Zenon
<1>13. Lawful(s, leaveVisual(n))
  BY <1>3, <1>12, LawfulFrom, Zenon
<1> QED BY <1>13, Zenon DEF n, b

LEMMA OutputLawful ==
  ASSUME NEW s, Calmed(s), ~s.selectMode, NEW txt \in Texts, NEW x \in {0, Width},
         NEW pt \in {s.prefixMode, FALSE}
  PROVE  Lawful(s, [s EXCEPT !.lines = txt, !.text = txt, !.ydisp = Len(txt) - Height,
                             !.x = x, !.y = Height - 1, !.prefixMode = pt])
<1> DEFINE d == Len(txt) - Height
           y == Height - 1
           n == [s EXCEPT !.lines = txt, !.text = txt, !.ydisp = d, !.x = x, !.y = y,
                          !.prefixMode = pt]
<1>0. x \in 0..Width /\ y \in 0..Height - 1 /\ d \in 0..d
  BY KeysSizes
<1>1. /\ KeysOK(s) /\ s.thrown = FALSE /\ s.found = "none"
      /\ ~s.stale /\ ~s.searchMode /\ ~s.visualMode /\ pt \in BOOLEAN
  BY Zenon DEF Calmed, KeysOK, Switches, Nested, Kept
<1> HIDE DEF y
<1>2. /\ DOMAIN n = KeysFields /\ n.x = x /\ n.y = y /\ n.ydisp = d /\ n.lines = txt
      /\ n.text = txt /\ n.marked = s.marked /\ n.sel = s.sel /\ n.prefixMode = pt
      /\ n.selectMode = s.selectMode /\ n.visualMode = s.visualMode
      /\ n.searchMode = s.searchMode /\ n.entry = s.entry /\ n.real = s.real
      /\ n.preVisual = s.preVisual /\ n.preSearch = s.preSearch /\ n.parked = s.parked
      /\ n.stale = s.stale /\ n.before = s.before /\ n.thrown = s.thrown /\ n.found = s.found
  BY <1>1, Zenon DEF KeysOK, KeysFields
<1> HIDE DEF n
<1>3. ybase(n) = d
  BY <1>2, Zenon DEF ybase
<1> HIDE DEF d
<1>4. Switches(n) /\ ViewOK(n) /\ Nested(n) /\ Clean(n)
  BY <1>0, <1>1, <1>2, <1>3, Zenon DEF KeysOK, Switches, ViewOK, Nested, Clean
<1>5. CursorOK(n)
  BY <1>0, <1>1, <1>2, Zenon DEF KeysOK, CursorOK
<1>6. Kept(n)
  BY <1>1, <1>2, Zenon DEF KeysOK, Kept
<1>7. SelOK(n)
  BY <1>1, <1>2, SMT DEF KeysOK, SelOK
<1>8. KeysOK(n)
  BY <1>2, <1>4, <1>5, <1>6, <1>7, Zenon DEF KeysOK
<1>9. FoundOK(n)
  BY <1>1, <1>2, Zenon DEF FoundOK
<1>10. Lawful(s, n)
  BY <1>1, <1>2, <1>8, <1>9, Zenon DEF Lawful, Restored, AnchorKept
<1> QED BY <1>10, Zenon DEF n, d, y

LEMMA StepLawful ==
  ASSUME KeysIInv, KeysNext
  PROVE  Lawful(Calm(k), k')
<1> DEFINE c == Calm(k)
<1>1. /\ Calmed(c) /\ c.stale = (k.stale /\ k.selectMode)
      /\ Frame(k, c, {"stale", "before", "thrown", "found", "copied", "ref"})
  BY CalmCalmed, Zenon DEF KeysIInv, KeysInv
<1>2. /\ c.searchMode = k.searchMode /\ c.selectMode = k.selectMode
      /\ c.visualMode = k.visualMode /\ c.prefixMode = k.prefixMode /\ c.timers = k.timers
  BY <1>1, Zenon DEF Frame, KeysFields
<1> HIDE DEF c
<1>3. ASSUME NEW key, c.stale => key = IF k.searchMode THEN "ESC" ELSE "q",
             k' = Pressed(c, key)
      PROVE  Lawful(c, k')
  BY <1>1, <1>2, <1>3, PressedLawful, Zenon
<1>4. ASSUME Key PROVE Lawful(c, k')
  BY <1>3, <1>4, Zenon DEF Key, KeyStep, c
<1>5. ASSUME ScrollKey PROVE Lawful(c, k')
  <2>1. PICK d \in {-1, 1} : k' = scrollView(c, d)
    BY <1>5, Zenon DEF ScrollKey, KeyStep, c
  <2>2. d \in Int
    BY <2>1
  <2> QED BY <1>1, <2>1, <2>2, ScrollLawful, Zenon
<1>6. ASSUME CopyTimer PROVE Lawful(c, k')
  <2> DEFINE t == k.timers - 1
  <2>1. k' = leaveVisual([c EXCEPT !.timers = t, !.stale = ~c.visualMode])
    BY <1>2, <1>6, Zenon DEF CopyTimer, KeyStep, c
  <2> HIDE DEF t
  <2> QED BY <1>1, <2>1, TimerLawful, Zenon
<1>7. ASSUME HostOutput PROVE Lawful(c, k')
  <2>1. PICK txt \in Texts, x \in {0, Width}, pt \in {c.prefixMode, FALSE} :
          k' = [c EXCEPT !.lines = txt, !.text = txt, !.ydisp = Len(txt) - Height,
                         !.x = x, !.y = Height - 1, !.prefixMode = pt]
    BY <1>2, <1>7, Zenon DEF HostOutput, KeyStep, c
  <2>2. ~c.selectMode
    BY <1>2, <1>7, Zenon DEF HostOutput
  <2> QED BY <1>1, <2>1, <2>2, OutputLawful, Zenon
<1> QED BY <1>4, <1>5, <1>6, <1>7, Zenon DEF KeysNext, c

LEMMA StepKeeps ==
  ASSUME KeysIInv, KeysNext
  PROVE  /\ KeysIInv' /\ Restored(k, k') /\ AnchorKept(k, k')
         /\ k.selectMode => k'.before = k.before
<1> DEFINE c == Calm(k)
<1>1. Lawful(c, k')
  BY StepLawful, Zenon
<1>2. /\ Frame(k, c, {"stale", "before", "thrown", "found", "copied", "ref"})
      /\ k.selectMode => c.before = k.before
  BY CalmCalmed, Zenon DEF KeysIInv, KeysInv
<1>3. c.selectMode = k.selectMode /\ c.visualMode = k.visualMode /\ c.sel = k.sel
  BY <1>2, Zenon DEF Frame, KeysFields
<1> HIDE DEF c
<1>4. KeysIInv'
  BY <1>1, Zenon
     DEF KeysIInv, KeysInv, Lawful, KeysOK, FoundOK, Switches, ViewOK, CursorOK, Kept, Nested,
         Clean, Whole, SelOK, Excused, Overlong
<1>5. Restored(k, k') /\ AnchorKept(k, k')
  BY <1>1, <1>2, <1>3, Zenon DEF Lawful, Restored, AnchorKept
<1>6. k.selectMode => k'.before = k.before
  BY <1>1, <1>2, <1>3, Zenon DEF Lawful
<1> QED BY <1>4, <1>5, <1>6

LEMMA KeysStart == KeysInit => KeysIInv
<1> SUFFICES ASSUME KeysInit PROVE KeysIInv
  OBVIOUS
<1> DEFINE no == FALSE
           yes == TRUE
           none == <<>>
           empty == {}
           zero == 0
           notyet == "none"
<1>1. PICK txt \in Texts :
        k = [x |-> zero, y |-> zero, ydisp |-> Len(txt) - Height, lines |-> txt, text |-> txt,
             marked |-> empty, sel |-> none, prefixMode |-> no, selectMode |-> no,
             visualMode |-> no, searchMode |-> no, searchDown |-> no,
             entry |-> none, real |-> none, preVisual |-> none, preSearch |-> none,
             timers |-> zero, alive |-> yes, thrown |-> no, parked |-> no,
             stale |-> no, before |-> none, found |-> notyet, copied |-> none, ref |-> none]
  BY Zenon DEF KeysInit
<1> DEFINE d == Len(txt) - Height
<1>2. /\ no \in BOOLEAN /\ no = FALSE /\ none = <<>> /\ none \in Seq(Printing) /\ empty = {}
      /\ notyet # "yes" /\ notyet # "no"
  OBVIOUS
<1>3. zero \in 0..Width /\ zero \in 0..Height - 1 /\ d \in 0..d
  BY KeysSizes
<1> HIDE DEF no, yes, none, empty, zero, notyet, d
<1>4. /\ DOMAIN k = KeysFields /\ k.x = zero /\ k.y = zero /\ k.ydisp = d /\ k.lines = txt
      /\ k.text = txt /\ k.marked = empty /\ k.sel = none /\ k.prefixMode = no
      /\ k.selectMode = no /\ k.visualMode = no /\ k.searchMode = no /\ k.entry = none
      /\ k.real = none /\ k.preVisual = none /\ k.preSearch = none /\ k.parked = no
      /\ k.stale = no /\ k.thrown = no /\ k.found = notyet
  BY <1>1 DEF d, KeysFields
<1>5. ybase(k) = d
  BY <1>4, Zenon DEF ybase, d
<1>6. Switches(k) /\ ViewOK(k) /\ Nested(k) /\ Clean(k)
  BY <1>2, <1>3, <1>4, <1>5, Zenon DEF Switches, ViewOK, Nested, Clean
<1>7. CursorOK(k)
  BY <1>2, <1>3, <1>4, Zenon DEF CursorOK
<1>8. Kept(k)
  BY <1>2, <1>4, Zenon DEF Kept
<1>9. SelOK(k)
  BY <1>2, <1>4, Zenon DEF SelOK
<1>10. FoundOK(k)
  BY <1>2, <1>4, Zenon DEF FoundOK
<1> QED BY <1>2, <1>4, <1>6, <1>7, <1>8, <1>9, <1>10, Zenon DEF KeysIInv, KeysInv, KeysOK

LEMMA KeysHold == KeysSpec => []KeysIInv
<1>1. KeysIInv /\ [KeysNext]_keysVars => KeysIInv'
  <2>1. ASSUME KeysIInv, KeysNext PROVE KeysIInv'
    BY <2>1, StepKeeps
  <2>2. ASSUME KeysIInv, UNCHANGED keysVars PROVE KeysIInv'
    <3>1. k' = k
      BY <2>2 DEF keysVars
    <3> QED BY <2>2, <3>1, ZenonT(40)
           DEF KeysIInv, KeysInv, KeysOK, FoundOK, Switches, ViewOK, CursorOK, Kept, Nested,
               Clean, Whole, SelOK, Excused, Overlong
  <2> QED BY <2>1, <2>2, Zenon
<1> QED BY KeysStart, <1>1, PTL DEF KeysSpec

LEMMA KeysSelections == KeysIInv => SelectionHolds
<1> SUFFICES ASSUME KeysIInv PROVE SelectionHolds
  OBVIOUS
<1>1. /\ Switches(k) /\ ViewOK(k) /\ CursorOK(k) /\ Kept(k) /\ Nested(k) /\ Clean(k) /\ SelOK(k)
      /\ (k.thrown => Excused(k))
  BY Zenon DEF KeysIInv, KeysInv, KeysOK
<1>2. KeysTypeOK
  BY <1>1, Zenon DEF KeysTypeOK, ViewOK, CursorOK, Kept, Nested
<1>3. PromptGone
  BY <1>1, Zenon DEF PromptGone, Clean
<1>4. SelectionShown
  BY <1>1, Zenon DEF SelectionShown, SelOK
<1> QED BY <1>1, <1>2, <1>3, <1>4, Zenon DEF SelectionHolds, KeysNeverThrow, Excused

\* no motion, search or scroll takes the cursor or the view off the buffer, the
\* cells shown as selected are those between the selection's ends, no prompt is
\* left in the buffer, and no key but in three known cases ends in a TypeError
THEOREM SelectionsHold == KeysSpec => []SelectionHolds
  BY KeysHold, KeysSelections, PTL

\* a search that succeeds puts the cursor on a match; one for a single character
\* that fails has missed none, in any buffer
THEOREM SearchesFind == KeysSpec => []SearchFinds
<1>1. KeysIInv => SearchFinds
  BY Zenon DEF KeysIInv, FoundOK, SearchFinds, LandsOnMatch, MissIsAbsent
<1> QED BY <1>1, KeysHold, PTL

\* leaving the selection mode shows the screen as it was entered, and the end
\* where the selection was begun stays, after any keys in between
THEOREM ModesUndo == KeysSpec => ModesRestore
<1>1. KeysIInv /\ [KeysNext]_keysVars =>
        /\ [k.selectMode /\ ~k'.selectMode =>
              /\ <<k'.x, k'.y, k'.ydisp, k'.lines>> = k'.before
              /\ k'.marked = {}]_keysVars
        /\ [k.visualMode /\ k'.visualMode /\ k.sel[1].y1 < k'.ydisp + Height =>
              /\ k'.sel[1].x1 = k.sel[1].x1
              /\ k'.sel[1].y1 = k.sel[1].y1]_keysVars
  <2>1. ASSUME KeysIInv, KeysNext PROVE Restored(k, k') /\ AnchorKept(k, k')
    BY <2>1, StepKeeps
  <2>2. ASSUME KeysIInv, KeysNext
        PROVE  /\ k.selectMode /\ ~k'.selectMode =>
                     /\ <<k'.x, k'.y, k'.ydisp, k'.lines>> = k'.before
                     /\ k'.marked = {}
               /\ k.visualMode /\ k'.visualMode /\ k.sel[1].y1 < k'.ydisp + Height =>
                     /\ k'.sel[1].x1 = k.sel[1].x1
                     /\ k'.sel[1].y1 = k.sel[1].y1
    <3>1. k.selectMode => k'.before = k.before
      BY <2>2, StepKeeps
    <3> QED BY <2>1, <2>2, <3>1, Zenon DEF Restored, AnchorKept
  <2> QED BY <2>2, Zenon
<1> QED BY <1>1, KeysHold, PTL DEF KeysSpec, ModesRestore, SelectLeavesNoTrace, AnchorStays

(***************************************************************************)
(* Only y sets what the copy is compared with                              *)
(***************************************************************************)
HasRef(s, n) == DOMAIN s = KeysFields => DOMAIN n = KeysFields /\ n.ref = s.ref

LEMMA HasRefTwice ==
  ASSUME NEW s, NEW n, NEW r, HasRef(s, n), HasRef(n, r)
  PROVE  HasRef(s, r)
  BY Zenon DEF HasRef

LEMMA FrameRef ==
  ASSUME NEW s, NEW n, NEW fs, "ref" \notin fs, Frame(s, n, fs)
  PROVE  HasRef(s, n)
  BY Zenon DEF HasRef, Frame, KeysFields

LEMMA ThrownRef == ASSUME NEW s PROVE HasRef(s, Thrown(s))
<1> DEFINE yes == TRUE
           n == [s EXCEPT !.thrown = yes]
<1>1. HasRef(s, n)
  <2> HIDE DEF yes
  <2> QED BY Zenon DEF HasRef, KeysFields
<1> QED BY <1>1, Zenon DEF Thrown

LEMMA ThrownFrom == ASSUME NEW s, NEW n, HasRef(s, n) PROVE HasRef(s, Thrown(n))
<1>1. HasRef(n, Thrown(n))
  BY ThrownRef
<1> QED BY <1>1, HasRefTwice, Zenon

LEMMA SelectTextRef ==
  ASSUME NEW s, NEW x1, NEW x2, NEW y1, NEW y2
  PROVE  HasRef(s, selectText(s, x1, x2, y1, y2))
<1> DEFINE bottom == s.ydisp + Height - 1
           old == IF s.sel = <<>> THEN {} ELSE Region(s.sel[1])
           a == Anchor(s, x1, y1)
           new == [x1 |-> a[1], y1 |-> Clip(a[2], 0, bottom), x2 |-> x2, y2 |-> Clip(y2, 0, bottom)]
           cells == Region(new)
           one == <<new>>
           left == s.marked \ old
           unmarked == [s EXCEPT !.marked = left]
           all == unmarked.marked \cup (cells \ OffLine(cells))
           done == [unmarked EXCEPT !.sel = one, !.marked = all]
           r == selectText(s, x1, x2, y1, y2)
<1>1. r = Thrown(unmarked) \/ r = Thrown(done) \/ r = done
  <2> DEFINE d1 == [unmarked EXCEPT !.sel = one, !.marked = @ \cup (cells \ OffLine(cells))]
  <2>1. r = Thrown(unmarked) \/ r = Thrown(d1) \/ r = d1
    BY Zenon DEF selectText, Unmark
  <2>2. d1 = done
    <3> DEFINE u == [unmarked EXCEPT !.sel = one]
    <3>1. "marked" # "sel"
      OBVIOUS
    <3>2. u.marked = unmarked.marked
      <4> HIDE DEF unmarked, one
      <4> QED BY <3>1
    <3> HIDE DEF unmarked, cells, one
    <3> QED BY <3>2, Zenon
  <2> QED BY <2>1, <2>2, Zenon
<1> HIDE DEF left, one
<1>2. HasRef(s, unmarked)
  BY Zenon DEF HasRef, KeysFields
<1> HIDE DEF unmarked, all
<1>3. HasRef(unmarked, done)
  BY Zenon DEF HasRef, KeysFields
<1> HIDE DEF done, r
<1>4. HasRef(s, done)
  BY <1>2, <1>3, HasRefTwice, Zenon
<1>5. HasRef(s, Thrown(unmarked)) /\ HasRef(s, Thrown(done))
  BY <1>2, <1>4, ThrownFrom, Zenon
<1>6. HasRef(s, r)
  BY <1>1, <1>4, <1>5, Zenon
<1> QED BY <1>6, Zenon DEF r

LEMMA FollowRef == ASSUME NEW s, NEW n, NEW x PROVE HasRef(n, Follow(s, n, x))
<1>1. HasRef(n, n)
  BY Zenon DEF HasRef
<1> QED BY <1>1, SelectTextRef, Zenon DEF Follow

LEMMA SearchRef == ASSUME NEW s, NEW up PROVE HasRef(s, search(s, up))
<1> DEFINE yes == "yes"
           no == "no"
           z == [s EXCEPT !.found = no]
           mid(r, x) == [s EXCEPT !.x = x, !.y = r - MinOf(r, ybase(s)),
                                  !.ydisp = MinOf(r, ybase(s))]
           n(r, x) == [mid(r, x) EXCEPT !.found = yes]
<1>1. search(s, up) = z \/ \E r, x : search(s, up) = Follow(s, n(r, x), s.x)
  BY Zenon DEF search, Show
<1> HIDE DEF yes, no
<1>2. HasRef(s, z)
  BY Zenon DEF HasRef, KeysFields
<1>3. ASSUME NEW r, NEW x PROVE HasRef(s, n(r, x))
  BY Zenon DEF HasRef, KeysFields
<1> HIDE DEF z, n
<1> QED BY <1>1, <1>2, <1>3, FollowRef, HasRefTwice, Zenon

LEMMA LeaveSearchRef == ASSUME NEW s PROVE HasRef(s, leaveSearch(s))
<1> DEFINE no == FALSE
           none == <<>>
           q == s.preSearch[1]
           a == [s EXCEPT !.searchMode = no]
           b == [s EXCEPT !.searchMode = no, !.lines = q.lines, !.x = q.x, !.y = q.y,
                          !.preSearch = none, !.stale = no]
<1>1. leaveSearch(s) = a \/ leaveSearch(s) = b
  BY Zenon DEF leaveSearch
<1> HIDE DEF no, none, q
<1>2. HasRef(s, a) /\ HasRef(s, b)
  BY Zenon DEF HasRef, KeysFields
<1> HIDE DEF a, b
<1> QED BY <1>1, <1>2, Zenon

LEMMA KeySearchRef == ASSUME NEW s, NEW key PROVE HasRef(s, keySearch(s, key))
<1> DEFINE left == leaveSearch(s)
           up == IF key = "N" THEN s.searchDown ELSE ~s.searchDown
           a == IF s.entry = <<>> THEN left ELSE search(left, up)
           c == PromptLen + Len(s.entry) - 1
           e == Front(s.entry)
           l == Typed(s, c, " ")
           w == [s EXCEPT !.entry = e]
           nb == [s EXCEPT !.lines = l, !.entry = e, !.x = s.x - 1]
           b == IF s.entry = <<>> THEN s
                ELSE IF c + 1 \notin DOMAIN s.lines[Bottom(s)] THEN Thrown(w) ELSE nb
           l1 == Typed(s, PromptLen + Len(s.entry), key)
           e1 == Append(s.entry, key)
           d == [s EXCEPT !.lines = l1, !.entry = e1, !.x = s.x + 1]
           n == keySearch(s, key)
<1>1. n = CASE key = "ESC" -> left
            [] key = "CR" \/ (~s.searchMode /\ key \in {"n", "N"}) -> a
            [] key = "BS" -> b
            [] s.searchMode /\ key \in Printing -> d
            [] OTHER -> s
  BY Zenon DEF keySearch
<1> HIDE DEF e, l, l1, e1, up
<1>2. HasRef(s, s) /\ HasRef(s, w) /\ HasRef(s, nb) /\ HasRef(s, d)
  BY Zenon DEF HasRef, KeysFields
<1>3. HasRef(s, left)
  BY LeaveSearchRef, Zenon
<1> HIDE DEF w, nb, d, left, n
<1>4. HasRef(s, search(left, up))
  <2>1. HasRef(left, search(left, up))
    BY SearchRef, Zenon
  <2> QED BY <1>3, <2>1, HasRefTwice, Zenon
<1>5. HasRef(s, Thrown(w))
  BY <1>2, ThrownFrom, Zenon
<1>6. HasRef(s, a) /\ HasRef(s, b)
  BY <1>2, <1>3, <1>4, <1>5, Zenon
<1> HIDE DEF a, b
<1>7. n = left \/ n = a \/ n = b \/ n = d \/ n = s
  BY <1>1
<1>8. HasRef(s, n)
  BY <1>2, <1>3, <1>6, <1>7, Zenon
<1> QED BY <1>8, Zenon DEF n

LEMMA LeaveVisualRef == ASSUME NEW s PROVE HasRef(s, leaveVisual(s))
<1> DEFINE none == <<>>
           empty == {}
           no == FALSE
           kept == s.preVisual[1]
           b == [s EXCEPT !.lines = none, !.sel = none, !.visualMode = no]
           c == [s EXCEPT !.lines = kept, !.marked = empty, !.preVisual = none,
                          !.sel = none, !.visualMode = no]
           n == leaveVisual(s)
<1>1. n = Thrown(s) \/ n = Thrown(b) \/ n = c
  BY Zenon DEF leaveVisual
<1> HIDE DEF none, empty, no, kept
<1>2. HasRef(s, b) /\ HasRef(s, c)
  BY Zenon DEF HasRef, KeysFields
<1> HIDE DEF b, c, n
<1>3. HasRef(s, Thrown(s)) /\ HasRef(s, Thrown(b))
  BY <1>2, ThrownRef, ThrownFrom, Zenon
<1>4. HasRef(s, n)
  BY <1>1, <1>2, <1>3, Zenon
<1> QED BY <1>4, Zenon DEF n

LEMMA EnterVisualRef == ASSUME NEW s PROVE HasRef(s, enterVisual(s))
<1> DEFINE kept == <<s.lines>>
           mid == [s EXCEPT !.preVisual = kept]
           n == selectText(mid, s.x, s.x, Row(s), Row(s))
           on == ~n.thrown
           r == [n EXCEPT !.visualMode = on]
<1>1. enterVisual(s) = r
  BY Zenon DEF enterVisual
<1> HIDE DEF kept
<1>2. HasRef(s, mid)
  BY Zenon DEF HasRef, KeysFields
<1> HIDE DEF mid
<1>3. HasRef(mid, n)
  BY SelectTextRef, Zenon
<1> HIDE DEF n, on
<1>4. HasRef(n, r)
  BY Zenon DEF HasRef, KeysFields
<1> QED BY <1>1, <1>2, <1>3, <1>4, HasRefTwice, Zenon

LEMMA EnterLeaveRef ==
  ASSUME NEW s, NEW down
  PROVE  HasRef(s, leaveSelect(s)) /\ HasRef(s, enterSelect(s)) /\ HasRef(s, enterSearch(s, down))
<1> DEFINE no == FALSE
           yes == TRUE
           none == <<>>
           empty == {}
           q == s.real[1]
           kept == <<[x |-> s.x, y |-> s.y, ydisp |-> s.ydisp, lines |-> s.lines]>>
           be == <<s.x, s.y, s.ydisp, s.lines>>
           park == s.parked \/ s.x = Width
           pr == Prompted(s)
           h == Height - 1
           pre == <<[lines |-> s.lines, x |-> s.x, y |-> s.y]>>
           a == [s EXCEPT !.x = q.x, !.y = q.y, !.ydisp = q.ydisp, !.lines = q.lines,
                          !.marked = empty, !.real = none, !.preVisual = none,
                          !.selectMode = no, !.visualMode = no, !.stale = no]
           b == [s EXCEPT !.real = kept, !.before = be, !.parked = park, !.selectMode = yes,
                          !.visualMode = no]
           c == [s EXCEPT !.lines = pr, !.entry = none, !.searchMode = yes, !.searchDown = down,
                          !.preSearch = pre, !.y = h, !.x = PromptLen]
<1>1. leaveSelect(s) = a
  BY Zenon DEF leaveSelect
<1>2. enterSelect(s) = b
  <2> DEFINE b0 == [s EXCEPT !.real = kept, !.before = be]
             b1 == [b0 EXCEPT !.parked = @ \/ s.x = Width]
  <2>1. enterSelect(s) = [b1 EXCEPT !.selectMode = yes, !.visualMode = no]
    BY Zenon DEF enterSelect
  <2>2. "parked" # "real" /\ "parked" # "before"
    OBVIOUS
  <2>3. b0.parked = s.parked
    <3> HIDE DEF kept, be
    <3> QED BY <2>2
  <2> HIDE DEF kept, be
  <2>4. b1 = [b0 EXCEPT !.parked = park]
    <3> HIDE DEF b0
    <3> QED BY <2>3, Zenon
  <2> QED BY <2>1, <2>4, Zenon
<1>3. enterSearch(s, down) = c
  BY Zenon DEF enterSearch
<1> HIDE DEF no, yes, none, empty, q, kept, be, park, pr, h, pre
<1>4. HasRef(s, a) /\ HasRef(s, b) /\ HasRef(s, c)
  BY Zenon DEF HasRef, KeysFields
<1> HIDE DEF a, b, c
<1> QED BY <1>1, <1>2, <1>3, <1>4, Zenon

LEMMA MotionRef ==
  ASSUME NEW s, Viewing(s), NEW key
  PROVE  HasRef(s, LET n == Moved(s, key) IN IF n.thrown THEN n ELSE Follow(s, n, s.x))
<1> DEFINE n == Moved(s, key)
           r == IF n.thrown THEN n ELSE Follow(s, n, s.x)
           fs == {"x", "y", "ydisp"}
<1>1. Moves(s, n) \/ n = Thrown(s)
  BY MovedMoves, Zenon
<1> HIDE DEF n
<1>2. "ref" \notin fs
  OBVIOUS
<1>3. Moves(s, n) => Frame(s, n, fs)
  BY Zenon DEF Moves
<1> HIDE DEF fs
<1>4. HasRef(s, n)
  BY <1>1, <1>2, <1>3, FrameRef, ThrownRef, Zenon
<1>5. HasRef(s, r)
  BY <1>4, FollowRef, HasRefTwice, Zenon
<1> QED BY <1>5, Zenon DEF n

\* what y does to s
Copied(s) == leaveVisual([s EXCEPT !.copied = grabText(s, s.sel[1]), !.ref = <<s.sel[1], s.lines>>])

LEMMA KeySelectRef ==
  ASSUME NEW s, KeysOK(s), NEW key
  PROVE  \/ HasRef(s, keySelect(s, key))
         \/ key = "y" /\ s.visualMode /\ keySelect(s, key) = Copied(s)
<1> DEFINE a == keySearch(s, key)
           b == LET n == Moved(s, key) IN IF n.thrown THEN n ELSE Follow(s, n, s.x)
           lv == leaveVisual(s)
           ev == enterVisual(s)
           ls == leaveSelect(s)
           c == IF s.visualMode THEN lv ELSE ev
           d == Copied(s)
           e == IF s.visualMode THEN lv ELSE ls
           down == key = "/"
           f == enterSearch(s, down)
           r == keySelect(s, key)
<1>1. r = CASE s.searchMode \/ key \in {"n", "N"} -> a
            [] ~s.searchMode /\ key \in Motions -> b
            [] ~s.searchMode /\ key = "v" -> c
            [] ~s.searchMode /\ key = "y" /\ s.visualMode -> d
            [] ~s.searchMode /\ key \in {"q", "ESC"} -> e
            [] ~s.searchMode /\ key \in {"/", "?"} /\ ~s.visualMode -> f
            [] OTHER -> s
  BY Zenon DEF keySelect, Copied
<1> HIDE DEF down
<1>2. HasRef(s, a)
  BY KeySearchRef, Zenon
<1>3. ASSUME ~s.searchMode PROVE HasRef(s, b)
  <2>1. Viewing(s)
    BY <1>3, Zenon DEF Viewing, KeysOK, CursorOK
  <2> HIDE DEF b
  <2>2. HasRef(s, b)
    BY <2>1, MotionRef, Zenon DEF b
  <2> QED BY <2>2
<1>4. HasRef(s, lv) /\ HasRef(s, ev) /\ HasRef(s, ls) /\ HasRef(s, f)
  BY LeaveVisualRef, EnterVisualRef, EnterLeaveRef, Zenon
<1>5. HasRef(s, s)
  BY Zenon DEF HasRef
<1> HIDE DEF a, b, lv, ev, ls, d, f, r
<1>6. HasRef(s, c) /\ HasRef(s, e)
  BY <1>4, Zenon
<1> HIDE DEF c, e
<1>7. \/ r = a \/ (~s.searchMode /\ r = b) \/ r = c \/ (key = "y" /\ s.visualMode /\ r = d)
      \/ r = e \/ r = f \/ r = s
  BY <1>1
<1>8. HasRef(s, r) \/ (key = "y" /\ s.visualMode /\ r = d)
  BY <1>2, <1>3, <1>4, <1>5, <1>6, <1>7, Zenon
<1> QED BY <1>8, Zenon DEF d, r

LEMMA PressedRef ==
  ASSUME NEW s, KeysOK(s), NEW key
  PROVE  \/ HasRef(s, Pressed(s, key))
         \/ key = "y" /\ s.visualMode /\ Pressed(s, key) = Copied(s)
<1> DEFINE no == FALSE
           yes == TRUE
           n == [s EXCEPT !.prefixMode = no]
           dead == [n EXCEPT !.alive = no]
           es == enterSelect(n)
           a == keyPrefix(n, key)
           b == [s EXCEPT !.prefixMode = yes]
           t == IF s.visualMode THEN s.timers + 1 ELSE s.timers
           c == [s EXCEPT !.timers = t]
           d == keySelect(s, key)
           w == Copied(s)
           r == Pressed(s, key)
<1>1. /\ r = IF s.prefixMode /\ key # "^C" THEN IF key \in ByKeyDown THEN n ELSE a
             ELSE IF key = "^A" /\ ~s.selectMode THEN b
             ELSE IF key = "^C" /\ (s.prefixMode \/ s.selectMode) THEN c
             ELSE IF s.selectMode THEN d ELSE s
      /\ a = CASE key = "k" -> dead [] key = "[" -> es [] OTHER -> n
  BY Zenon DEF Pressed, keyPrefix
<1> HIDE DEF no, yes, t
<1>2. HasRef(s, n) /\ HasRef(s, b) /\ HasRef(s, c) /\ HasRef(s, s)
  BY Zenon DEF HasRef, KeysFields
<1> HIDE DEF n
<1>3. HasRef(n, dead)
  BY Zenon DEF HasRef, KeysFields
<1>4. HasRef(n, es)
  BY EnterLeaveRef, Zenon
<1> HIDE DEF dead, es
<1>5. HasRef(s, dead) /\ HasRef(s, es)
  BY <1>2, <1>3, <1>4, HasRefTwice, Zenon
<1> HIDE DEF a
<1>6. HasRef(s, a)
  BY <1>1, <1>2, <1>5, Zenon
<1>7. HasRef(s, d) \/ (key = "y" /\ s.visualMode /\ d = w)
  BY KeySelectRef, Zenon
<1> HIDE DEF b, c, d, w, r
<1>8. r = n \/ r = a \/ r = b \/ r = c \/ r = d \/ r = s
  BY <1>1, Zenon
<1>9. HasRef(s, r) \/ (key = "y" /\ s.visualMode /\ r = w)
  BY <1>2, <1>6, <1>7, <1>8, Zenon
<1> QED BY <1>9, Zenon DEF w, r

LEMMA CopiedRight ==
  ASSUME NEW s, KeysOK(s), s.visualMode
  PROVE  /\ Copied(s).ref = <<s.sel[1], s.lines>>
         /\ Copied(s).copied = RefText(s.sel[1], s.lines)
<1> DEFINE e == s.sel[1]
           g == grabText(s, e)
           w == <<e, s.lines>>
           mid == [s EXCEPT !.copied = g, !.ref = w]
           none == <<>>
           empty == {}
           no == FALSE
           kept == s.preVisual[1]
           n == [mid EXCEPT !.lines = kept, !.marked = empty, !.preVisual = none,
                            !.sel = none, !.visualMode = no]
<1>1. /\ ~s.searchMode /\ ~s.stale /\ s.preVisual # <<>> /\ s.real # <<>>
      /\ EndsOK(e) /\ Inside(e, Len(s.text)) /\ s.text \in Texts /\ s.lines = s.text
      /\ DOMAIN s = KeysFields
  BY Zenon DEF KeysOK, Nested, Kept, SelOK, ViewOK, Clean
<1>2. g = RefText(e, s.lines)
  BY <1>1, GrabIsRef, Zenon DEF Inside
<1>3. Copied(s) = leaveVisual(mid)
  BY Zenon DEF Copied
<1> HIDE DEF g, w
<1>4. /\ mid.copied = g /\ mid.ref = w /\ mid.real = s.real /\ mid.preVisual = s.preVisual
      /\ DOMAIN mid = KeysFields
  BY <1>1, Zenon DEF KeysFields
<1> HIDE DEF mid
<1>5. leaveVisual(mid) = n
  BY <1>1, <1>4, Zenon DEF leaveVisual
<1> HIDE DEF none, empty, no, kept
<1>6. n.copied = g /\ n.ref = w
  BY <1>4, Zenon DEF KeysFields
<1> HIDE DEF n
<1> QED BY <1>2, <1>3, <1>5, <1>6, Zenon DEF w

LEMMA CalmRef ==
  ASSUME NEW s, DOMAIN s = KeysFields
  PROVE  DOMAIN Calm(s) = KeysFields /\ Calm(s).ref = <<>>
<1> DEFINE a == s.stale /\ s.selectMode
           b == IF s.selectMode THEN s.before ELSE <<>>
           no == FALSE
           notyet == "none"
           none == <<>>
           n == [s EXCEPT !.stale = a, !.before = b, !.thrown = no, !.found = notyet,
                          !.copied = none, !.ref = none]
<1>1. Calm(s) = n
  BY Zenon DEF Calm
<1> HIDE DEF a, b, no, notyet
<1>2. DOMAIN n = KeysFields /\ n.ref = none
  <2> HIDE DEF none
  <2> QED BY Zenon DEF KeysFields
<1> QED BY <1>1, <1>2, Zenon

LEMMA StepCopies ==
  ASSUME KeysIInv, KeysNext
  PROVE  CopiesSelection'
<1> DEFINE c == Calm(k)
           right == k'.ref # <<>> => k'.copied = RefText(k'.ref[1], k'.ref[2])
<1>1. /\ Calmed(c) /\ KeysOK(c) /\ DOMAIN c = KeysFields
      /\ Frame(k, c, {"stale", "before", "thrown", "found", "copied", "ref"})
  BY CalmCalmed, Zenon DEF KeysIInv, KeysInv, Calmed, KeysOK
<1>2. c.ref = <<>>
  BY CalmRef, Zenon DEF KeysIInv, KeysInv, KeysOK
<1>3. c.visualMode = k.visualMode /\ c.prefixMode = k.prefixMode
  BY <1>1, Zenon DEF Frame, KeysFields
<1> HIDE DEF c
<1>4. ASSUME HasRef(c, k') PROVE right
  BY <1>1, <1>2, <1>4, Zenon DEF HasRef
<1>5. ASSUME NEW key, k' = Pressed(c, key) PROVE right
  <2>1. CASE HasRef(c, k')
    BY <1>4, <2>1
  <2>2. CASE c.visualMode /\ k' = Copied(c)
    <3> DEFINE w == <<c.sel[1], c.lines>>
    <3>1. k'.ref = w /\ k'.copied = RefText(c.sel[1], c.lines)
      BY <1>1, <2>2, CopiedRight, Zenon
    <3>2. w[1] = c.sel[1] /\ w[2] = c.lines
      OBVIOUS
    <3> HIDE DEF w
    <3> QED BY <3>1, <3>2, Zenon
  <2> QED BY <1>1, <1>5, <2>1, <2>2, PressedRef, Zenon
<1>6. ASSUME Key PROVE right
  BY <1>5, <1>6, Zenon DEF Key, KeyStep, c
<1>7. ASSUME ScrollKey PROVE right
  <2>1. PICK d \in {-1, 1} : k' = scrollView(c, d)
    BY <1>7, Zenon DEF ScrollKey, KeyStep, c
  <2> DEFINE v == Clip(c.ydisp + d, 0, ybase(c))
             n == [c EXCEPT !.ydisp = v]
  <2>2. scrollView(c, d) = n
    BY Zenon DEF scrollView
  <2> HIDE DEF v
  <2>3. HasRef(c, n)
    BY Zenon DEF HasRef, KeysFields
  <2> QED BY <1>4, <2>1, <2>2, <2>3, Zenon
<1>8. ASSUME CopyTimer PROVE right
  <2> DEFINE t == k.timers - 1
             b == ~k.visualMode
             u == [c EXCEPT !.timers = t, !.stale = b]
  <2>1. k' = leaveVisual(u)
    <3> DEFINE t0 == c.timers - 1
    <3>1. c.timers = k.timers
      BY <1>1, Zenon DEF Frame, KeysFields
    <3>2. k' = leaveVisual([c EXCEPT !.timers = t0, !.stale = b])
      BY <1>8, Zenon DEF CopyTimer, KeyStep, c
    <3> QED BY <3>1, <3>2, Zenon
  <2> HIDE DEF t, b
  <2>2. HasRef(c, u)
    BY Zenon DEF HasRef, KeysFields
  <2> HIDE DEF u
  <2>3. HasRef(u, leaveVisual(u))
    BY LeaveVisualRef, Zenon
  <2> QED BY <1>4, <2>1, <2>2, <2>3, HasRefTwice, Zenon
<1>9. ASSUME HostOutput PROVE right
  <2>1. PICK txt \in Texts, x \in {0, Width}, pt \in {c.prefixMode, FALSE} :
          k' = [c EXCEPT !.lines = txt, !.text = txt, !.ydisp = Len(txt) - Height,
                         !.x = x, !.y = Height - 1, !.prefixMode = pt]
    BY <1>3, <1>9, Zenon DEF HostOutput, KeyStep, c
  <2> DEFINE d == Len(txt) - Height
             y == Height - 1
             n == [c EXCEPT !.lines = txt, !.text = txt, !.ydisp = d, !.x = x, !.y = y,
                            !.prefixMode = pt]
  <2>2. k' = n
    BY <2>1, Zenon
  <2> HIDE DEF d, y
  <2>3. HasRef(c, n)
    BY Zenon DEF HasRef, KeysFields
  <2> QED BY <1>4, <2>2, <2>3, Zenon
<1>10. right
  BY <1>6, <1>7, <1>8, <1>9, Zenon DEF KeysNext
<1> QED BY <1>10, Zenon DEF CopiesSelection

LEMMA CopiesStart == KeysInit => CopiesSelection
<1> SUFFICES ASSUME KeysInit PROVE CopiesSelection
  OBVIOUS
<1>1. k.ref = <<>>
  BY DEF KeysInit
<1> QED BY <1>1, Zenon DEF CopiesSelection

\* y copies the selected part of each line without its blank end, a newline
\* behind each but the last when that line goes on, whichever end of the
\* selection comes first and however the modes and searches were combined
THEOREM CopiesTrue == KeysSpec => []CopiesSelection
<1>1. KeysIInv /\ CopiesSelection /\ [KeysNext]_keysVars => CopiesSelection'
  <2>1. ASSUME KeysIInv, KeysNext PROVE CopiesSelection'
    BY <2>1, StepCopies
  <2>2. ASSUME CopiesSelection, UNCHANGED keysVars PROVE CopiesSelection'
    <3>1. k' = k
      BY <2>2 DEF keysVars
    <3> QED BY <2>2, <3>1, Zenon DEF CopiesSelection
  <2> QED BY <2>1, <2>2, Zenon
<1> QED BY KeysHold, CopiesStart, <1>1, PTL DEF KeysSpec
=============================================================================
