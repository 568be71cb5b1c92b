------------------------------- MODULE MCTerm -------------------------------
(***************************************************************************)
(* The four parts of the terminal, each on its own: the screen, the parser *)
(* of the host's output, the keys, the mouse.  The part is chosen at the   *)
(* start, the others stay as they are.                                     *)
(***************************************************************************)
EXTENDS TermScreen, TermParser, TermKeys, TermMouse

VARIABLE part

MCSizes == {<<2, 1>>, <<3, 2>>}

MCHosts == {{"ESC", "BEL", "[", "]", "P", "_", "(", "/", "n", "7", "4", ";", "?", "$", "+", "h", "E"},
            {"ESC", "BEL", "[", "P", "c", "n", "6", "$", "q"}}

MCTexts == {<<<<"a", " ", "b">>, <<" ", " ", " ">>, <<"a", "a", "b">>>>,
            <<<<"b", " ", " ">>, <<" ", " ", "a">>>>}
MCEntries == {<<>>, <<"a">>, <<"a", "b">>, <<"a", "b", "b">>}
MCUsers == {{"^A", "[", "v", "y", "q"} \cup Motions,
            {"^A", "[", "q", "v", "/", "n", "N", "CR", "BS", "a", "b"},
            {"^A", "^C", "^V", "[", "k", "v", "y", "q", "ESC", "?"}}

\* both sides of the limits of encode: 127 and 2047, and of its two bytes, 191
MCPlaces == {<<32, 32>>, <<126, 60>>, <<127, 60>>, <<128, 60>>, <<191, 60>>, <<192, 60>>, <<211, 80>>}

TermInit ==
    /\ part \in {"screen", "parser", "keys", "mouse"}
    /\ Init /\ ParserInit /\ KeysInit /\ MouseInit
    /\ part # "screen" => family = CHOOSE f \in Families : TRUE
    /\ part # "parser" => host = CHOOSE h \in Hosts : TRUE
    /\ part # "keys" => k.text = (CHOOSE x \in Texts : TRUE) /\ user = CHOOSE u \in Users : TRUE

TermNext ==
    /\ UNCHANGED part
    /\ \/ part = "screen" /\ Next /\ UNCHANGED <<parserVars, keysVars, mouseVars>>
       \/ part = "parser" /\ ParserNext /\ UNCHANGED <<vars, keysVars, mouseVars>>
       \/ part = "keys" /\ KeysNext /\ UNCHANGED <<vars, parserVars, mouseVars>>
       \/ part = "mouse" /\ MouseNext /\ UNCHANGED <<vars, parserVars, keysVars>>

TermSpec ==
    /\ TermInit /\ [][TermNext]_<<part, vars, parserVars, keysVars, mouseVars>>
    /\ WF_parserVars(Flush)
=============================================================================
