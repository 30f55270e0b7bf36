------------------------- MODULE MCProviderAccounts -------------------------
(* Instances of ProviderAccounts. *)
EXTENDS ProviderAccounts, TLC

CONSTANTS r1, r2, o1, o2, c1, c2

Symmetry == Permutations(Requests) \cup Permutations(Logins) \cup Permutations(Choosers)
=============================================================================
