---------------------------- MODULE LongestChain ----------------------------
(***************************************************************************)
(* What the replicas of a chain promise, without transactions, validation, *)
(* clocks, mempools, disks or restarts: a replica only ever extends its    *)
(* own chain by one block, or adopts a strictly longer chain that another  *)
(* replica made.  "Longest valid chain wins" (pow_engine.h, replaceChain). *)
(* Blockchain implements this specification (module NetworkProofs).        *)
(***************************************************************************)
EXTENDS Integers, SequencesExt

CONSTANT Nodes

VARIABLES
  view,        \* view[n]: the chain replica n holds
  published    \* every chain a replica has held

Init ==
  /\ published = {view[n] : n \in Nodes}
  /\ \A n \in Nodes : Len(view[n]) = 1

\* Replica n makes a block on top of its own chain.
Extend(n) ==
  /\ Len(view'[n]) = Len(view[n]) + 1
  /\ \A i \in 1..Len(view[n]) : view'[n][i] = view[n][i]
  /\ published' = published \cup {view'[n]}

\* Replica n takes over a longer chain.
Adopt(n) ==
  /\ view'[n] \in published
  /\ Len(view'[n]) > Len(view[n])
  /\ published' = published

Next ==
  \E n \in Nodes : /\ Extend(n) \/ Adopt(n)
                   /\ view' = [view EXCEPT ![n] = view'[n]]

Spec == Init /\ [][Next]_<<view, published>>

=============================================================================
