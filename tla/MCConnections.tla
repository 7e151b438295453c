--------------------------- MODULE MCConnections ---------------------------
(* Instances of Connections for TLC. *)
EXTENDS Connections, TLC

\* One other node listens; what is told are its name and one of the names from
\* which it connects.
Listener == {<<"h", 1>>}
SomeTold == {<<"h", 1>>, <<"h", 11>>}
QuickRetry == [k \in 0..MaxRetries |-> {1}]
=============================================================================
