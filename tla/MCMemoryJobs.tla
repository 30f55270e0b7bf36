---------------------------- MODULE MCMemoryJobs ----------------------------
(* Instances of MemoryJobs: one user. *)
EXTENDS MemoryJobs, TLC

CONSTANTS u1, s1, s2, p1, p2

OneOwner == [s \in {s1, s2} |-> u1]

\* Sessions of one user are alike, and so are incarnations.
Symmetry == Permutations({s1, s2}) \cup Permutations({p1, p2})
=============================================================================
