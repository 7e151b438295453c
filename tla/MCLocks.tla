------------------------------ MODULE MCLocks -------------------------------
(* Instances of Locks for TLC: a node has at least two threads. *)
EXTENDS Locks
=============================================================================
