-------------------------------- MODULE Peer --------------------------------
(***************************************************************************)
(* One connection between two nodes: the Peer object at each end, with its *)
(* write queue, write loop, read loop and rate window (src/network/peer),  *)
(* and the TCP connection between them.                                    *)
(*                                                                         *)
(* send is called by many threads: the handlers of other connections, the  *)
(* timers, the HTTP server.  What it does is done under writeMutex_, and   *)
(* so is the completion of a write; both are one action.  The bytes of a   *)
(* write reach the other end before its completion runs.  A read loop has  *)
(* one read or one handler at a time, and goes on only when the handler    *)
(* returns.  After a handler has hung, the other threads go on until they  *)
(* need the mutex it holds: here, as long as they like.                    *)
(***************************************************************************)
EXTENDS Naturals, Sequences, FiniteSets

CONSTANTS
  Ends,            \* the two ends of the connection
  Other,           \* Other[e]: the end opposite e
  Kinds,           \* kinds of messages that are sent, of those below
  MaxWriteQueue,   \* MAX_WRITE_QUEUE
  MaxPerSecond,    \* argument of isRateLimited
  Second,          \* ticks in one second
  WireCapacity,    \* messages that the sockets of one direction hold
  MaxSends,        \* MaxSends[e]: bound on the messages e sends of its own accord
  MaxTime          \* bound on time

\* A request is answered (PING, REQUEST_...), a notice is not, an oversize
\* message is longer than 10 MB, an unknown one does not parse, and a mistyped
\* one parses but has another payload than its type's.
AllKinds == {"request", "notice", "oversize", "unknown", "mistyped"}

ASSUME PeerAssumption ==
  /\ Other \in [Ends -> Ends]
  /\ \A e \in Ends : Other[e] # e /\ Other[Other[e]] = e
  /\ Kinds \subseteq AllKinds
  /\ MaxWriteQueue \in Nat \ {0} /\ WireCapacity \in Nat \ {0}
  /\ MaxPerSecond \in Nat /\ Second \in Nat /\ MaxTime \in Nat
  /\ MaxSends \in [Ends -> Nat]

Messages == [kind : AllKinds, id : Nat]
Nothing == [kind |-> "none", id |-> 0]

VARIABLES
  writeQueue,     \* writeQueue_
  writing,        \* writing_
  inFlight,       \* number of async_writes whose bytes are not all sent yet
  completed,      \* number of async_writes sent, with the handler still to run
  wire,           \* wire[e]: messages of e in the sockets, complete
  open,           \* open[e]: socket_.is_open() at e
  up,             \* the TCP connection exists
  handling,       \* the message that messageHandler_ is running for
  process,        \* whether the process at e runs, has a hung read loop, or is dead
  messageTimes,   \* messageTimes_
  now,
  sends,          \* history: how often send was called at e
  accepted,       \* history: the messages send put in the queue
  received,       \* history: received[e]: those of them read at the other end
  processed       \* history: when messages passed the rate limit at e

writeVars == <<writeQueue, writing, inFlight, completed>>
readVars == <<handling, process, messageTimes, received, processed>>
vars == <<writeVars, wire, open, up, readVars, now, sends, accepted>>

-----------------------------------------------------------------------------
(* The write loop *)

\* Mutation: the queue may grow by one more.
fullOffByOne(e) == Len(writeQueue[e]) > MaxWriteQueue

\* Messages are dropped if the write queue is too large.
full(e) == Len(writeQueue[e]) >= MaxWriteQueue

\* Mutation: writing_ is not looked at.
startWriteAlways(e) ==
  /\ writing' = [writing EXCEPT ![e] = TRUE]
  /\ inFlight' = [inFlight EXCEPT ![e] = @ + 1]

\* doWrite, unless a write is under way.
startWrite(e) ==
  /\ writing' = [writing EXCEPT ![e] = TRUE]
  /\ inFlight' = [inFlight EXCEPT ![e] = IF writing[e] THEN @ ELSE @ + 1]

\* Mutation: the newest message is put in front.
enqueueFirst(e, m) == writeQueue' = [writeQueue EXCEPT ![e] = <<m>> \o @]

enqueue(e, m) == writeQueue' = [writeQueue EXCEPT ![e] = Append(@, m)]

send(e, kind) ==
  LET m == [kind |-> kind, id |-> sends[e]]
  IN  /\ sends' = [sends EXCEPT ![e] = @ + 1]
      /\ \/ /\ full(e)
            /\ UNCHANGED <<writeQueue, writing, inFlight, accepted>>
         \/ /\ ~full(e)
            /\ enqueue(e, m)
            /\ startWrite(e)
            /\ accepted' = [accepted EXCEPT ![e] = Append(@, m)]
      /\ UNCHANGED completed

\* A thread other than the read loop sends something.
sendOther(e, kind) ==
  /\ process[e] # "dead"
  /\ sends[e] < MaxSends[e]
  /\ send(e, kind)
  /\ UNCHANGED <<wire, open, up, readVars, now>>

\* The socket takes the front of the queue.  When the connection is gone the
\* bytes may still be taken, and are lost.
transmit(e) ==
  /\ inFlight[e] > 0 /\ open[e]
  /\ \/ up /\ Len(wire[e]) < WireCapacity
        /\ wire' = [wire EXCEPT ![e] = Append(@, Head(writeQueue[e]))]
     \/ ~up /\ UNCHANGED wire
  /\ inFlight' = [inFlight EXCEPT ![e] = @ - 1]
  /\ completed' = [completed EXCEPT ![e] = @ + 1]
  /\ UNCHANGED <<writeQueue, writing, open, up, readVars, now, sends, accepted>>

\* The handler of a write that succeeded.
writeDone(e) ==
  LET rest == Tail(writeQueue[e])
  IN  /\ completed[e] > 0
      /\ completed' = [completed EXCEPT ![e] = @ - 1]
      /\ writeQueue' = [writeQueue EXCEPT ![e] = rest]
      /\ writing' = [writing EXCEPT ![e] = rest # <<>>]
      /\ inFlight' = [inFlight EXCEPT ![e] = IF rest # <<>> THEN @ + 1 ELSE @]
      /\ UNCHANGED <<wire, open, up, readVars, now, sends, accepted>>

WriteFailed(e) ==
  /\ inFlight[e] > 0 /\ (~up \/ ~open[e])
  /\ inFlight' = [inFlight EXCEPT ![e] = @ - 1]
  /\ writeQueue' = [writeQueue EXCEPT ![e] = <<>>]


\* The handler of a write that failed.  The connection is not closed here.
writeError(e) ==
  /\ WriteFailed(e)
  /\ writing' = [writing EXCEPT ![e] = FALSE]
  /\ UNCHANGED <<completed, wire, open, up, readVars, now, sends, accepted>>

-----------------------------------------------------------------------------
(* The end of the connection *)

\* A connection that ends loses any part of what is under way.
Cut == \E n \in [Ends -> 0..WireCapacity] :
         wire' = [e \in Ends |-> IF n[e] < Len(wire[e]) THEN SubSeq(wire[e], 1, n[e]) ELSE wire[e]]

\* close(): by Node, or after an error of the read loop.
Closed(e) == open' = [open EXCEPT ![e] = FALSE] /\ up' = FALSE /\ Cut

close(e) ==
  /\ open[e]
  /\ Closed(e)
  /\ UNCHANGED <<writeVars, readVars, now, sends, accepted>>

\* The network, or the process at one end, ends the connection.
Disconnect ==
  /\ up
  /\ up' = FALSE
  /\ Cut
  /\ UNCHANGED <<writeVars, open, readVars, now, sends, accepted>>

-----------------------------------------------------------------------------
(* The read loop: doReadHeader, doReadBody, messageHandler_, doReadHeader  *)

CanRead(e) == open[e] /\ handling[e] = Nothing /\ process[e] = "running"


\* A whole message is read; a malformed one reaches no handler.
readMessage(e) ==
  LET f == Other[e]
      m == Head(wire[f])
  IN  /\ CanRead(e) /\ wire[f] # <<>>
      /\ m.kind # "oversize"
      /\ wire' = [wire EXCEPT ![f] = Tail(@)]
      /\ received' = [received EXCEPT ![f] = Append(@, m)]
      /\ handling' = [handling EXCEPT ![e] = IF m.kind = "unknown" THEN Nothing ELSE m]
      /\ UNCHANGED <<writeVars, open, up, process, messageTimes, processed, now, sends, accepted>>

\* The header announces more than 10 MB.
rejectOversize(e) ==
  /\ CanRead(e) /\ wire[Other[e]] # <<>> /\ Head(wire[Other[e]]).kind = "oversize"
  /\ Closed(e)
  /\ UNCHANGED <<writeVars, readVars, now, sends, accepted>>

\* End of file, a reset, or an incomplete message.
readError(e) ==
  /\ CanRead(e) /\ ~up /\ wire[Other[e]] = <<>>
  /\ Closed(e)
  /\ UNCHANGED <<writeVars, readVars, now, sends, accepted>>

\* Mutation: what is exactly one second old is forgotten too.
oldClosed(times) == {i \in DOMAIN times : \A j \in 1..i : times[j] + Second <= now}

\* The entries at the front that are older than one second.
old(times) == {i \in DOMAIN times : \A j \in 1..i : times[j] + Second < now}

\* messageTimes_ without them.
recent(times) == SubSeq(times, Cardinality(old(times)) + 1, Len(times))

isRateLimited(e) == Len(recent(Append(messageTimes[e], now))) > MaxPerSecond

\* payload.value() throws when the payload is no object, or a member has another
\* type: NODE_ANNOUNCE and REGISTER_NODE do not catch that.
throws(e) == handling[e].kind = "mistyped" /\ ~isRateLimited(e)

\* handleMessage: a message over the limit is only held against the sender; of
\* the others, the ones that ask for something are answered.  Then the read
\* loop goes on.
handleMessage(e) ==
  /\ handling[e] # Nothing /\ process[e] = "running" /\ ~throws(e)
  /\ handling' = [handling EXCEPT ![e] = Nothing]
  /\ messageTimes' = [messageTimes EXCEPT ![e] = recent(Append(@, now))]
  /\ processed' = [processed EXCEPT ![e] = IF isRateLimited(e) THEN @ ELSE Append(@, now)]
  /\ IF ~isRateLimited(e) /\ handling[e].kind = "request"
     THEN send(e, "notice")
     ELSE UNCHANGED <<writeVars, sends, accepted>>
  /\ UNCHANGED <<wire, open, up, process, received, now>>

\* handleMessage for a message of a banned peer: removePeer does not return.
handlerHangs(e) ==
  /\ handling[e] # Nothing /\ process[e] = "running"
  /\ process' = [process EXCEPT ![e] = "hung"]
  /\ UNCHANGED <<writeVars, wire, open, up, handling, messageTimes, received, processed,
                 now, sends, accepted>>

\* The exception leaves io_context::run, and no thread of main catches it: the
\* process ends with all that is queued, and its sockets are closed.
handlerThrows(e) ==
  /\ handling[e] # Nothing /\ process[e] = "running" /\ throws(e)
  /\ process' = [process EXCEPT ![e] = "dead"]
  /\ handling' = [handling EXCEPT ![e] = Nothing]
  /\ writeQueue' = [writeQueue EXCEPT ![e] = <<>>]
  /\ writing' = [writing EXCEPT ![e] = FALSE]
  /\ inFlight' = [inFlight EXCEPT ![e] = 0]
  /\ completed' = [completed EXCEPT ![e] = 0]
  /\ Closed(e)
  /\ UNCHANGED <<messageTimes, received, processed, now, sends, accepted>>

Tick ==
  /\ now < MaxTime
  /\ now' = now + 1
  /\ UNCHANGED <<writeVars, wire, open, up, readVars, sends, accepted>>

-----------------------------------------------------------------------------
Init ==
  /\ writeQueue = [e \in Ends |-> <<>>] /\ writing = [e \in Ends |-> FALSE]
  /\ inFlight = [e \in Ends |-> 0] /\ completed = [e \in Ends |-> 0]
  /\ wire = [e \in Ends |-> <<>>] /\ open = [e \in Ends |-> TRUE] /\ up = TRUE
  /\ handling = [e \in Ends |-> Nothing]
  /\ process = [e \in Ends |-> "running"] /\ messageTimes = [e \in Ends |-> <<>>]
  /\ now = 0 /\ sends = [e \in Ends |-> 0]
  /\ accepted = [e \in Ends |-> <<>>] /\ received = [e \in Ends |-> <<>>]
  /\ processed = [e \in Ends |-> <<>>]

Next ==
  \/ \E e \in Ends :
       \/ \E kind \in Kinds : sendOther(e, kind)
       \/ transmit(e) \/ writeDone(e) \/ writeError(e)
       \/ close(e) \/ readMessage(e) \/ rejectOversize(e) \/ readError(e)
       \/ handleMessage(e) \/ handlerHangs(e) \/ handlerThrows(e)
  \/ Disconnect
  \/ Tick

Spec == Init /\ [][Next]_vars

\* Handlers that are due run, they return, hang or throw, and TCP transmits while
\* it is up.
Fairness ==
  \A e \in Ends :
    /\ WF_vars(transmit(e) \/ writeError(e)) /\ WF_vars(writeDone(e))
    /\ WF_vars(readMessage(e) \/ rejectOversize(e) \/ readError(e))
    /\ WF_vars(handleMessage(e) \/ handlerHangs(e) \/ handlerThrows(e))

FairSpec == Spec /\ Fairness

-----------------------------------------------------------------------------
(* Properties *)

\* Every variable has its type, and a write queue never holds more than
\* MAX_WRITE_QUEUE messages.
TypeOK ==
  /\ writeQueue \in [Ends -> Seq(Messages)]
  /\ \A e \in Ends : Len(writeQueue[e]) <= MaxWriteQueue
  /\ writing \in [Ends -> BOOLEAN]
  /\ inFlight \in [Ends -> Nat] /\ completed \in [Ends -> Nat]
  /\ wire \in [Ends -> Seq(Messages)]
  /\ open \in [Ends -> BOOLEAN] /\ up \in BOOLEAN
  /\ handling \in [Ends -> Messages \cup {Nothing}]
  /\ process \in [Ends -> {"running", "hung", "dead"}]
  /\ messageTimes \in [Ends -> Seq(Nat)]
  /\ now \in Nat /\ sends \in [Ends -> Nat]
  /\ accepted \in [Ends -> Seq(Messages)] /\ received \in [Ends -> Seq(Messages)]
  /\ processed \in [Ends -> Seq(Nat)]

\* Whatever threads send and whenever writes complete or fail, there is one
\* async_write at a time, and there is one exactly while messages are queued:
\* two at once would mix their bytes, none would leave the queue for ever.
OneWrite ==
  \A e \in Ends :
    /\ inFlight[e] + completed[e] = IF writing[e] THEN 1 ELSE 0
    /\ writing[e] <=> writeQueue[e] # <<>>

\* No peer has more than maxPerSecond messages processed within a second, at
\* whatever moments they come; a second includes both its ends.
RateBounded ==
  \A e \in Ends : \A i \in DOMAIN processed[e] :
    i + MaxPerSecond \in DOMAIN processed[e]
      => processed[e][i + MaxPerSecond] > processed[e][i] + Second

\* What the read loop gets is the beginning of what send accepted at the other
\* end ("ordered delivery", GUIDE.md), also when writes fail, the connection
\* ends, or either end closes it.
Channel == INSTANCE OrderedChannel
RefinesOrderedChannel == Channel!Spec



=============================================================================
