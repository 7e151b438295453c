------------------------------- MODULE MCPeer -------------------------------
(* Instances of Peer for TLC. *)
EXTENDS Peer

TwoEnds == [e \in Ends |-> CHOOSE f \in Ends : f # e]

\* One end fills its write queue, so that there may be no room for its answer to
\* the message of the other.
BothSend == [e \in Ends |-> IF e = 1 THEN MaxWriteQueue ELSE 1]
=============================================================================
