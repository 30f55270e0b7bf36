--------------------------- MODULE DeliveryOrder ---------------------------
(***************************************************************************)
(* What the messaging module promises of every reply: its parts reach the  *)
(* user at least once and in order; a part is repeated only as long as it  *)
(* has not been confirmed, and nothing else of the reply comes meanwhile.  *)
(***************************************************************************)
EXTENDS Integers

CONSTANTS Turns, MaxParts
VARIABLES size, last, confirmed
\* parts of the reply, the part that reached the user last, and how many are confirmed

vars == <<size, last, confirmed>>

Init ==
    /\ size = [q \in Turns |-> 0]
    /\ last = [q \in Turns |-> 0] /\ confirmed = [q \in Turns |-> 0]

Publish(q) ==
    /\ size[q] = 0
    /\ \E n \in 1..MaxParts : size' = [size EXCEPT ![q] = n]
    /\ UNCHANGED <<last, confirmed>>

Deliver(q) ==
    /\ confirmed[q] < size[q]
    /\ last' = [last EXCEPT ![q] = confirmed[q] + 1]
    /\ UNCHANGED <<size, confirmed>>

Confirm(q) ==
    /\ last[q] = confirmed[q] + 1
    /\ confirmed' = [confirmed EXCEPT ![q] = last[q]]
    /\ UNCHANGED <<size, last>>

Next == \E q \in Turns : Publish(q) \/ Deliver(q) \/ Confirm(q)
Spec == Init /\ [][Next]_vars
=============================================================================
