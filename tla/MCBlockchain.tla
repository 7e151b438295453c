---------------------------- MODULE MCBlockchain ----------------------------
(* Instances of Blockchain for TLC. *)
EXTENDS Blockchain

\* Two conflicting spends of a's first coins, and a chain of dependent ones.
Tx(f, t, amt, k) == [from |-> f, to |-> t, amount |-> amt, nonce |-> k, time |-> 0]

SelfTxs   == {Tx("a", "a", 1, 1)}
ForkTxs   == {Tx("a", "b", 2, 1), Tx("b", "a", 1, 1)}
\* b can pay only with what a sends; a may burn a coin instead.
RelayTxs  == {Tx("a", "b", 2, 1), Tx("a", "b", 1, 2), Tx("b", "a", 1, 1),
              Tx("b", "b", 2, 2), Tx("a", NoAddress, 1, 2)}
ConflictTxs == {Tx("a", "b", 2, 1), Tx("a", "c", 2, 1)}

SameDifficulty == [n \in Nodes |-> 1]
NoSkew == [n \in Nodes |-> 0]
\* Only one node has the right time; the others lag behind it.
OneLags == LET first == CHOOSE n \in Nodes : TRUE
           IN  [n \in Nodes |-> IF n = first THEN 0 ELSE -1]

NodeSymmetry == Permutations(Nodes)
=============================================================================
