------------------------------ MODULE PendingMap ------------------------------
(***************************************************************************)
(* What the table of outstanding requests promises its caller: a partial   *)
(* map from sequence numbers to requests, whose numbers are handed out     *)
(* round the ring 0 .. MaxSize - 1, one after the other.  An operation     *)
(* touches one number only, and no request is under two numbers.           *)
(***************************************************************************)
EXTENDS Integers

CONSTANTS MaxSize, Data, Nil

VARIABLES pending, next

vars == <<pending, next>>

Seqs == 0 .. MaxSize - 1

Init ==
    /\ pending = [s \in Seqs |-> Nil]
    /\ next = 1 % MaxSize

Put(d) ==
    /\ pending[next] = Nil
    /\ \A s \in Seqs : pending[s] # d
    /\ pending' = [pending EXCEPT ![next] = d]
    /\ next' = (next + 1) % MaxSize

Remove(s) ==
    /\ pending[s] # Nil
    /\ pending' = [pending EXCEPT ![s] = Nil]
    /\ UNCHANGED next

Next == (\E d \in Data : Put(d)) \/ (\E s \in Seqs : Remove(s))

Spec == Init /\ [][Next]_vars
===============================================================================
