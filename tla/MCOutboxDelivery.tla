-------------------------- MODULE MCOutboxDelivery --------------------------
(* Instances of OutboxDelivery: incarnations that overlap, and their credentials. *)
EXTENDS OutboxDelivery

CONSTANTS p1, p2

TwoProcs == {p1, p2}
OwnCredentials == [p \in TwoProcs |-> IF p = p1 THEN "a" ELSE "b"]
OneProc == {p1}
SameCredentials == [p \in OneProc |-> "a"]
=============================================================================
