------------------------------- MODULE MCPubSub -------------------------------
(***************************************************************************)
(* The publish-subscribe registry on small instances.                      *)
(***************************************************************************)
EXTENDS PubSub, TLC

CONSTANTS s1, s2, p1, t1, t2

\* No topic, one, and two in the order in which a publication goes through them.
Lists == {<<>>, <<t1>>, <<t1, t2>>}

Symmetry == Permutations(Chans)
===============================================================================
