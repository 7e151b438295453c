----------------------------- MODULE MCNetwork -----------------------------
(* Instances of Network for TLC. *)
EXTENDS Network, TLC

OneDifficulty == [n \in Nodes |-> 1]
SameClock == [n \in Nodes |-> 0]

Pair     == {<<2, 1>>}
Triangle == {<<1, 2>>, <<2, 3>>, <<1, 3>>}

\* Two nodes mine, each for itself, so that they make different blocks.
OwnMiner == [n \in Nodes |-> IF n = 1 THEN {"a"} ELSE IF n = 2 THEN {"b"} ELSE {}]

OneTx == {[from |-> "a", to |-> "b", amount |-> 1, nonce |-> 1, time |-> 0]}
=============================================================================
