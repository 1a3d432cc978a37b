------------------------- MODULE MCProviderRouting ----------------------------
(* Small instances of ProviderRouting for TLC: one provider. *)
EXTENDS ProviderRouting, TLC

CONSTANTS p1, m1, m2, k1, k2, t1, t2

OneProvider == [x \in Targets \cup Keys |-> p1]
Symmetric == Permutations(Targets) \cup Permutations(Keys)
===============================================================================
