------------------------ MODULE MCWeb3Transactions ------------------------
(* Small instances of Web3Transactions for TLC. *)
EXTENDS Web3Transactions, TLC

CONSTANTS x1, x2, t1, t2, r1, r2

\* Every slot carries the same permitted request of one unit.
OneUnit == [x \in Txs |-> [from |-> "wallet", to |-> "dest", value |-> 1,
                           gas |-> 1, hasData |-> FALSE, chain |-> 1]]
Chains == {1}

Symmetric == Permutations(Threads) \cup Permutations(Raws) \cup Permutations(Txs)
============================================================================
