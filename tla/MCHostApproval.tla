---------------------------- MODULE MCHostApproval ----------------------------
(* Small instances of HostApproval for TLC. *)
EXTENDS HostApproval

CONSTANTS r1, r2, u1, u2, d1, d2

Symmetric == Permutations(Reqs) \cup Permutations(Turns) \cup Permutations(Deciders)
===============================================================================
