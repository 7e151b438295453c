----------------------------- MODULE AtomicFiles -----------------------------
(***************************************************************************)
(* What LevelDBManager promises of its files as long as no system call     *)
(* fails: a crash at any moment leaves in each file the content before the *)
(* running write or the content being written, never anything else, and a  *)
(* write that returns true is there to stay.                               *)
(***************************************************************************)
CONSTANTS
  Files,
  Values,     \* what may be written
  Absent      \* nothing, or nothing that can be read

VARIABLES
  content,    \* content[f]: what a start of the process would find now
  before,     \* before[f]: what the last finished write, or crash, left
  pending,    \* pending[f]: the value being written, or Absent
  failed      \* a system call has failed

Nothing == [f \in Files |-> Absent]

Init == content = Nothing /\ before = Nothing /\ pending = Nothing /\ failed = FALSE

Begin(f) ==
  /\ pending = Nothing
  /\ \E v \in Values : pending' = [pending EXCEPT ![f] = v]
  /\ UNCHANGED <<content, before>>

\* A crash from here on would leave the other one of the two contents.
Switch(f) ==
  /\ pending[f] # Absent
  /\ \E c \in {before[f], pending[f]} : content' = [content EXCEPT ![f] = c]
  /\ UNCHANGED <<before, pending>>

Succeed(f) ==
  /\ pending[f] # Absent
  /\ content' = [content EXCEPT ![f] = pending[f]]
  /\ before' = [before EXCEPT ![f] = pending[f]]
  /\ pending' = Nothing

Crash == before' = content /\ pending' = Nothing /\ content' = content

\* From here on nothing is promised.
Fail == failed' = TRUE

Next ==
  \/ Fail
  \/ /\ failed' = FALSE
     /\ (\E f \in Files : Begin(f) \/ Switch(f) \/ Succeed(f)) \/ Crash

Spec == Init /\ [][Next]_<<content, before, pending, failed>>

=============================================================================
