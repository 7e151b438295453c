--------------------------- MODULE OrderedChannel ---------------------------
(***************************************************************************)
(* What a connection promises to the two nodes at its ends: what an end    *)
(* has read is the beginning of what the other end accepted for sending.   *)
(* Messages may be late, and everything from some message on may never     *)
(* arrive, but none is changed, repeated, overtaken, or lost in between.   *)
(* Module Peer implements this specification.                              *)
(***************************************************************************)
EXTENDS Naturals, Sequences

CONSTANTS Ends, Messages

VARIABLES accepted,   \* accepted[e]: what e accepted for sending
          received    \* received[e]: what has been read of it at the other end

Init == accepted = [e \in Ends |-> <<>>] /\ received = [e \in Ends |-> <<>>]

\* One more message, any message, is accepted at e.
Accept(e) ==
  /\ Len(accepted'[e]) = Len(accepted[e]) + 1
  /\ LET m == accepted'[e][Len(accepted'[e])]
     IN  m \in Messages /\ accepted' = [accepted EXCEPT ![e] = Append(@, m)]
  /\ UNCHANGED received

Deliver(e) ==
  /\ Len(received[e]) < Len(accepted[e])
  /\ received' = [received EXCEPT ![e] = Append(@, accepted[e][Len(@) + 1])]
  /\ UNCHANGED accepted

Next == \E e \in Ends : Accept(e) \/ Deliver(e)

Spec == Init /\ [][Next]_<<accepted, received>>
=============================================================================
