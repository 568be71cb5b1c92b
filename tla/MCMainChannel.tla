---------------------------- MODULE MCMainChannel ----------------------------
(***************************************************************************)
(* Device connections on small instances: which handshakes are sent.       *)
(***************************************************************************)
EXTENDS MainChannel

CONSTANTS c1, c2, c3, u1, u2, d1, d2

\* A device that reconnects, and a second device of the same user.
SharedUser ==
    [c \in Conns |-> << [user |-> u1, device |-> IF c = c3 THEN d2 ELSE d1] >>]
===============================================================================
