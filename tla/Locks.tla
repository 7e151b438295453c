------------------------------- MODULE Locks --------------------------------
(***************************************************************************)
(* The threads of one node (src/main.cpp) and the mutexes they share.      *)
(* Each thread runs the handlers of the io_context one after the other,    *)
(* the signal handler stops the io_context, and the main thread, once it   *)
(* has joined all others, writes the chain.                                *)
(***************************************************************************)
EXTENDS LockScripts

CONSTANTS
  Threads,    \* the threads that call ioContext.run()
  Main        \* the one that runs main()

ASSUME ThreadsAssumption == Main \in Threads

VARIABLES
  op,         \* op[t]: the handler that t runs, or "none"
  pc,         \* pc[t]: the step of its script that comes next
  stopped,    \* ioContext.stop() was called
  phase       \* of main(): "run", "persist", "exit"

vars == <<op, pc, stopped, phase>>

Busy(t) == op[t] # "none"

\* HeldAt[o][k]: the mutexes that are locked and not unlocked before step k.
HeldAt ==
  [o \in DOMAIN Scripts |->
     [k \in 1..(Len(Scripts[o]) + 1) |->
        {Scripts[o][i].mutex : i \in
           {i \in 1..(k - 1) :
              /\ Scripts[o][i].does = "lock"
              /\ \A j \in i..(k - 1) :
                   Scripts[o][j] # [does |-> "unlock", mutex |-> Scripts[o][i].mutex]}}]]

Held(t) == IF Busy(t) THEN {m \in HeldAt[op[t]][pc[t]] : m \in Mutexes} ELSE {}

\* The mutex that a thread locks next, if its next step is to lock one.
Wanted(t) ==
  IF Busy(t) /\ pc[t] \in DOMAIN Scripts[op[t]] /\ Scripts[op[t]][pc[t]].does = "lock"
  THEN {Scripts[op[t]][pc[t]].mutex} ELSE {}

-----------------------------------------------------------------------------
\* Mutation: handlers are started after the signal, too.
StartAlways(t) ==
  /\ phase = "run" /\ ~Busy(t)
  /\ \E o \in DOMAIN Scripts \ {"persistChain"} : op' = [op EXCEPT ![t] = o]
  /\ pc' = [pc EXCEPT ![t] = 1]
  /\ UNCHANGED <<stopped, phase>>

\* run() takes the next handler.
Start(t) ==
  /\ phase = "run" /\ ~stopped /\ ~Busy(t)
  /\ \E o \in DOMAIN Scripts \ {"persistChain"} : op' = [op EXCEPT ![t] = o]
  /\ pc' = [pc EXCEPT ![t] = 1]
  /\ UNCHANGED <<stopped, phase>>

\* std::mutex is not recursive: who locks it twice waits for himself.
Step(t) ==
  /\ Busy(t) /\ pc[t] \in DOMAIN Scripts[op[t]]
  /\ \A u \in Threads : Wanted(t) \cap Held(u) = {}
  /\ pc' = [pc EXCEPT ![t] = @ + 1]
  /\ UNCHANGED <<op, stopped, phase>>

\* A handler may return early, but never in a section: that would unlock.
Return(t) ==
  /\ Busy(t) /\ Held(t) = {}
  /\ op[t] = "persistChain" => pc[t] \notin DOMAIN Scripts[op[t]]
  /\ op' = [op EXCEPT ![t] = "none"]
  /\ pc' = [pc EXCEPT ![t] = 1]
  /\ phase' = IF op[t] = "persistChain" THEN "exit" ELSE phase
  /\ UNCHANGED stopped

signalHandler ==
  /\ ~stopped
  /\ stopped' = TRUE
  /\ UNCHANGED <<op, pc, phase>>

\* run() has returned in every thread, and all have been joined.
JoinAndPersist ==
  /\ phase = "run" /\ stopped
  /\ \A t \in Threads : ~Busy(t)
  /\ phase' = "persist"
  /\ op' = [op EXCEPT ![Main] = "persistChain"]
  /\ pc' = [pc EXCEPT ![Main] = 1]
  /\ UNCHANGED stopped

Init ==
  /\ op = [t \in Threads |-> "none"] /\ pc = [t \in Threads |-> 1]
  /\ stopped = FALSE /\ phase = "run"

Next ==
  \/ \E t \in Threads : Start(t) \/ Step(t) \/ Return(t)
  \/ signalHandler
  \/ JoinAndPersist

Spec == Init /\ [][Next]_vars

\* A thread that can go on does, and main goes on after the joins.
FairSpec ==
  /\ Spec
  /\ \A t \in Threads : WF_vars(Step(t) \/ Return(t))
  /\ WF_vars(JoinAndPersist)

-----------------------------------------------------------------------------
(* Properties *)

Blocked(t) == \E u \in Threads : Wanted(t) \cap Held(u) # {}
Relocks(t) == Wanted(t) \cap Held(t) # {}

\* A handler locks only mutexes of a higher rank than the ones it holds, or one
\* that it holds itself.
Ordered(o) ==
  \A k \in DOMAIN Scripts[o] :
    Scripts[o][k].does = "lock"
      => \A h \in HeldAt[o][k] : \/ h = Scripts[o][k].mutex
                                  \/ Rank[h] < Rank[Scripts[o][k].mutex]

\* Whatever a thread runs, through every callback from Blockchain into Node, it
\* takes the mutexes in the order of their ranks.
LockOrder == \A t \in Threads : Busy(t) => Ordered(op[t])

\* Threads never wait for each other in a circle: when a thread waits, some
\* thread can go on, unless one waits for a mutex that it holds itself.
OnlySelfDeadlock ==
  (\E t \in Threads : Blocked(t))
     => \E t \in Threads : Relocks(t) \/ (Busy(t) /\ ~Blocked(t))

\* Only a message on a connection of a banned peer, by way of removePeer, makes
\* a thread lock a mutex it holds.
OnlyBannedHangs == \A t \in Threads : Relocks(t) => op[t] = "messageFromBanned"

\* After a signal the chain is written and the process ends ("Signal sets
\* atomic -> io_context stops -> threads join -> persistChain() from main
\* thread", analyse.md), whatever the handlers are doing at that moment,
\* unless one of them hangs in removePeer.
ShutdownPersists ==
  stopped ~> (phase = "exit" \/ \E t \in Threads : Relocks(t))
=============================================================================
