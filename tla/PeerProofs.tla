----------------------------- MODULE PeerProofs -----------------------------
(***************************************************************************)
(* One connection, for any sizes of the write queue and of the sockets,    *)
(* any senders, and any failures: its write loop has one write at a time,  *)
(* and what arrives is what was accepted for sending, in order.            *)
(***************************************************************************)
EXTENDS Peer, Integers, FiniteSetTheorems, TLAPS

-----------------------------------------------------------------------------
(* The invariant *)

\* A closed socket ends the connection.
ClosedIsDown == \A e \in Ends : ~open[e] => ~up

\* Messages of e that were read, are in the sockets, are queued, were accepted.
Read(e) == Len(received[e])
OnWire(e) == Len(wire[e])
Queued(e) == Len(writeQueue[e])
Accepted(e) == Len(accepted[e])

\* What is in the sockets follows, in what was accepted, what has been read.
WireInv ==
  \A e \in Ends :
    /\ Read(e) + OnWire(e) <= Accepted(e)
    /\ \A i \in 1..OnWire(e) : wire[e][i] = accepted[e][Read(e) + i]

\* The part of the queue that is not written yet follows what is in the sockets
\* and is the end of what was accepted, as long as the connection exists.
QueueInv ==
  up => \A e \in Ends :
    LET sent == Read(e) + OnWire(e) - completed[e]
    IN  /\ Accepted(e) = sent + Queued(e)
        /\ \A i \in 1..Queued(e) :
             i > completed[e] => writeQueue[e][i] = accepted[e][sent + i]

PeerInv == TypeOK /\ OneWrite /\ ClosedIsDown /\ WireInv /\ QueueInv

\* The counts follow the sequences.
LEMMA SameCounts ==
  ASSUME NEW e \in Ends
  PROVE  /\ received'[e] = received[e] => Read(e)' = Read(e)
         /\ wire'[e] = wire[e] => OnWire(e)' = OnWire(e)
         /\ writeQueue'[e] = writeQueue[e] => Queued(e)' = Queued(e)
         /\ accepted'[e] = accepted[e] => Accepted(e)' = Accepted(e)
BY DEF Read, OnWire, Queued, Accepted

LEMMA AppendProps ==
  ASSUME NEW S, NEW q \in Seq(S), NEW m \in S
  PROVE  /\ Append(q, m) \in Seq(S)
         /\ Len(q) \in Nat /\ Len(Append(q, m)) = Len(q) + 1
         /\ \A i \in 1..Len(q) : Append(q, m)[i] = q[i]
         /\ Append(q, m)[Len(q) + 1] = m
         /\ Append(q, m) # <<>>
OBVIOUS

LEMMA TailProps ==
  ASSUME NEW S, NEW q \in Seq(S), q # <<>>
  PROVE  /\ Tail(q) \in Seq(S) /\ Head(q) \in S /\ Head(q) = q[1]
         /\ Len(q) \in Nat /\ Len(q) > 0 /\ Len(Tail(q)) = Len(q) - 1
         /\ \A i \in 1..Len(Tail(q)) : Tail(q)[i] = q[i + 1]
OBVIOUS

LEMMA EmptyLen == \A S : \A q \in Seq(S) : q = <<>> <=> Len(q) = 0
OBVIOUS

\* From here on messages are only members of a set.
LEMMA QueueTypes ==
  ASSUME TypeOK, NEW e \in Ends
  PROVE  /\ writeQueue[e] \in Seq(Messages) /\ wire[e] \in Seq(Messages)
         /\ accepted[e] \in Seq(Messages) /\ received[e] \in Seq(Messages)
BY DEF TypeOK

LEMMA Counts ==
  ASSUME TypeOK, NEW e \in Ends
  PROVE  /\ inFlight[e] \in Nat /\ completed[e] \in Nat /\ writing[e] \in BOOLEAN
         /\ Queued(e) \in Nat /\ OnWire(e) \in Nat
         /\ Accepted(e) \in Nat /\ Read(e) \in Nat
<1>1. inFlight[e] \in Nat /\ completed[e] \in Nat /\ writing[e] \in BOOLEAN
  BY DEF TypeOK
<1>2. \A q \in Seq(Messages) : Len(q) \in Nat
  OBVIOUS
<1> QED
  BY <1>1, <1>2, QueueTypes DEF Read, OnWire, Queued, Accepted

\* What the parts of the invariant say of one end.
LEMMA EndWrite ==
  ASSUME PeerInv, NEW e \in Ends
  PROVE  /\ inFlight[e] + completed[e] = IF writing[e] THEN 1 ELSE 0
         /\ writing[e] <=> writeQueue[e] # <<>>
BY DEF PeerInv, OneWrite

LEMMA EndLen ==
  ASSUME PeerInv, NEW e \in Ends
  PROVE  Read(e) + OnWire(e) <= Accepted(e)
BY DEF PeerInv, WireInv

LEMMA EndWire ==
  ASSUME PeerInv, NEW e \in Ends, NEW i \in 1..OnWire(e)
  PROVE  wire[e][i] = accepted[e][Read(e) + i]
BY DEF PeerInv, WireInv

LEMMA EndTotal ==
  ASSUME PeerInv, up, NEW e \in Ends
  PROVE  Accepted(e) =
           Read(e) + OnWire(e) - completed[e] + Queued(e)
BY DEF PeerInv, QueueInv

LEMMA EndQueue ==
  ASSUME PeerInv, up, NEW e \in Ends, NEW i \in 1..Queued(e), i > completed[e]
  PROVE  writeQueue[e][i] =
           accepted[e][Read(e) + OnWire(e) - completed[e] + i]
BY DEF PeerInv, QueueInv

-----------------------------------------------------------------------------
(* send *)

LEMMA SendType ==
  ASSUME TypeOK, NEW e \in Ends, NEW kind \in AllKinds, send(e, kind)
  PROVE  /\ writeQueue' \in [Ends -> Seq(Messages)]
         /\ \A f \in Ends : Len(writeQueue'[f]) <= MaxWriteQueue
         /\ writing' \in [Ends -> BOOLEAN]
         /\ inFlight' \in [Ends -> Nat] /\ completed' \in [Ends -> Nat]
         /\ sends' \in [Ends -> Nat] /\ accepted' \in [Ends -> Seq(Messages)]
<1> DEFINE m == [kind |-> kind, id |-> sends[e]]
<1>1. m \in Messages
  BY DEF TypeOK, Messages
<1>2. sends' \in [Ends -> Nat] /\ completed' \in [Ends -> Nat]
  BY DEF send, TypeOK
<1>3. CASE full(e) /\ UNCHANGED <<writeQueue, writing, inFlight, accepted>>
  BY <1>2, <1>3 DEF TypeOK
<1>4. CASE ~full(e) /\ enqueue(e, m) /\ startWrite(e)
           /\ accepted' = [accepted EXCEPT ![e] = Append(@, m)]
  <2> HIDE DEF m
  <2>1. /\ Append(writeQueue[e], m) \in Seq(Messages)
        /\ Len(Append(writeQueue[e], m)) = Len(writeQueue[e]) + 1
        /\ Append(accepted[e], m) \in Seq(Messages) /\ Len(writeQueue[e]) \in Nat
    BY <1>1, QueueTypes, AppendProps
  <2>2. accepted' \in [Ends -> Seq(Messages)] /\ writeQueue' \in [Ends -> Seq(Messages)]
    BY <1>4, <2>1 DEF enqueue, TypeOK
  <2>3. \A f \in Ends : Len(writeQueue'[f]) <= MaxWriteQueue
    BY <1>4, <2>1, PeerAssumption DEF enqueue, full, TypeOK
  <2>4. writing' \in [Ends -> BOOLEAN] /\ inFlight' \in [Ends -> Nat]
    BY <1>4 DEF startWrite, TypeOK
  <2> QED
    BY <1>2, <2>2, <2>3, <2>4
<1> QED
  BY <1>3, <1>4 DEF send

\* What send does to the queue of e and to what was accepted there.
LEMMA SendInv ==
  ASSUME PeerInv, NEW e \in Ends, NEW kind \in AllKinds, send(e, kind), TypeOK',
         UNCHANGED <<wire, open, up, received>>
  PROVE  PeerInv'
<1> DEFINE m == [kind |-> kind, id |-> sends[e]]
<1>1. m \in Messages
  BY DEF PeerInv, TypeOK, Messages
<1>2. CASE UNCHANGED <<writeQueue, writing, inFlight, accepted>>
  <2>1. completed' = completed
    BY DEF send
  <2>2. OneWrite'
    BY <1>2, <2>1 DEF PeerInv, OneWrite
  <2>3. ClosedIsDown'
    BY <1>2 DEF PeerInv, ClosedIsDown
  <2>4. \A f \in Ends : Read(f)' = Read(f) /\ OnWire(f)' = OnWire(f)
                         /\ Queued(f)' = Queued(f) /\ Accepted(f)' = Accepted(f)
    BY <1>2, SameCounts
  <2>5. WireInv'
    BY <1>2, <2>4 DEF PeerInv, WireInv
  <2>6. QueueInv'
    BY <1>2, <2>1, <2>4 DEF PeerInv, QueueInv
  <2> QED
    BY <2>2, <2>3, <2>5, <2>6 DEF PeerInv
<1>3. CASE enqueue(e, m) /\ startWrite(e) /\ accepted' = [accepted EXCEPT ![e] = Append(@, m)]
  <2> HIDE DEF m
  <2>1. /\ writeQueue'[e] = Append(writeQueue[e], m) /\ accepted'[e] = Append(accepted[e], m)
        /\ writing'[e] = TRUE /\ inFlight'[e] = IF writing[e] THEN inFlight[e] ELSE inFlight[e] + 1
        /\ completed' = completed
    BY <1>3 DEF enqueue, startWrite, send, PeerInv, TypeOK
  <2>2. ASSUME NEW f \in Ends, f # e
        PROVE  /\ writeQueue'[f] = writeQueue[f] /\ accepted'[f] = accepted[f]
               /\ writing'[f] = writing[f] /\ inFlight'[f] = inFlight[f]
    BY <1>3, <2>2 DEF enqueue, startWrite, PeerInv, TypeOK
  <2>3. /\ inFlight[e] \in Nat /\ completed[e] \in Nat /\ writing[e] \in BOOLEAN
        /\ Queued(e) \in Nat /\ OnWire(e) \in Nat
        /\ Accepted(e) \in Nat /\ Read(e) \in Nat
    BY Counts DEF PeerInv
  <2>4. /\ writeQueue'[e] # <<>>
        /\ Queued(e)' = Queued(e) + 1
        /\ Accepted(e)' = Accepted(e) + 1
        /\ \A i \in 1..Queued(e) : writeQueue'[e][i] = writeQueue[e][i]
        /\ \A i \in 1..Accepted(e) : accepted'[e][i] = accepted[e][i]
        /\ writeQueue'[e][Queued(e) + 1] = m
        /\ accepted'[e][Accepted(e) + 1] = m
    <3>1. writeQueue[e] \in Seq(Messages) /\ accepted[e] \in Seq(Messages)
      BY QueueTypes DEF PeerInv
    <3>2. /\ writeQueue'[e] # <<>> /\ Len(writeQueue'[e]) = Len(writeQueue[e]) + 1
          /\ \A i \in 1..Len(writeQueue[e]) : writeQueue'[e][i] = writeQueue[e][i]
          /\ writeQueue'[e][Len(writeQueue[e]) + 1] = m
      BY <1>1, <2>1, <3>1, AppendProps
    <3>3. /\ Len(accepted'[e]) = Len(accepted[e]) + 1
          /\ \A i \in 1..Len(accepted[e]) : accepted'[e][i] = accepted[e][i]
          /\ accepted'[e][Len(accepted[e]) + 1] = m
      BY <1>1, <2>1, <3>1, AppendProps
    <3> QED
      BY <3>2, <3>3 DEF Queued, Accepted
  <2>0. /\ \A f \in Ends : Read(f)' = Read(f) /\ OnWire(f)' = OnWire(f)
        /\ \A f \in Ends \ {e} : Queued(f)' = Queued(f) /\ Accepted(f)' = Accepted(f)
    BY <2>2, SameCounts
  <2>5. OneWrite'
    <3>1. inFlight[e] + completed[e] = IF writing[e] THEN 1 ELSE 0
      BY EndWrite
    <3>2. inFlight'[e] + completed'[e] = 1
      BY <2>1, <2>3, <3>1
    <3>3. writing'[e] /\ writeQueue'[e] # <<>>
      BY <2>1, <2>4
    <3>4. ASSUME NEW f \in Ends, f # e
          PROVE  /\ inFlight'[f] + completed'[f] = IF writing'[f] THEN 1 ELSE 0
                 /\ writing'[f] <=> writeQueue'[f] # <<>>
      BY <2>1, <2>2, <3>4, EndWrite
    <3> QED
      BY <3>2, <3>3, <3>4 DEF OneWrite
  <2>6. WireInv'
    <3>1. Read(e) + OnWire(e) <= Accepted(e)
      BY EndLen
    <3>2. Read(e) + OnWire(e) <= Accepted(e)'
      BY <2>3, <2>4, <3>1
    <3>3. ASSUME NEW i \in 1..OnWire(e)
          PROVE  wire[e][i] = accepted'[e][Read(e) + i]
      <4>1. Read(e) + i \in 1..Accepted(e)
        BY <2>3, <3>1
      <4>2. accepted'[e][Read(e) + i] = accepted[e][Read(e) + i]
        BY <2>4, <4>1
      <4> QED
        BY <4>2, EndWire
    <3>4. ASSUME NEW f \in Ends
          PROVE  /\ Read(f) + OnWire(f) <= Accepted(f)'
                 /\ \A i \in 1..OnWire(f) : wire[f][i] = accepted'[f][Read(f) + i]
      <4>1. CASE f = e
        BY <3>2, <3>3, <4>1
      <4>2. CASE f # e
        BY <2>0, <2>2, <4>2, EndLen, EndWire
      <4> QED
        BY <4>1, <4>2
    <3> QED
      BY <2>0, <3>4 DEF WireInv
  <2>7. QueueInv'
    <3> SUFFICES ASSUME up, NEW f \in Ends
                 PROVE  /\ Accepted(f)' = Read(f) + OnWire(f) - completed[f] + Queued(f)'
                        /\ \A i \in 1..Queued(f)' : i > completed[f] =>
                             writeQueue'[f][i] =
                               accepted'[f][Read(f) + OnWire(f) - completed[f] + i]
      BY <2>0, <2>1 DEF QueueInv
    <3>1. CASE f # e
      BY <2>0, <2>2, <3>1, EndTotal, EndQueue
    <3>2. CASE f = e
      <4> DEFINE sent == Read(e) + OnWire(e) - completed[e]
      <4>1. Accepted(e) = sent + Queued(e)
        BY EndTotal
      <4>2. sent \in Int /\ sent + completed[e] >= 0
        BY <2>3
      <4>3. ASSUME NEW i \in 1..Queued(e), i > completed[e]
            PROVE  writeQueue[e][i] = accepted[e][sent + i]
        BY <4>3, EndQueue
      <4> HIDE DEF sent
      <4>4. ASSUME NEW i \in 1..Queued(e)', i > completed[e]
            PROVE  writeQueue'[e][i] = accepted'[e][sent + i]
        <5>1. CASE i = Queued(e) + 1
          <6>1. sent + i = Accepted(e) + 1
            BY <2>3, <4>1, <4>2, <5>1
          <6> QED
            BY <2>4, <5>1, <6>1
        <5>2. CASE i # Queued(e) + 1
          <6>1. i \in 1..Queued(e)
            BY <2>3, <2>4, <5>2
          <6>2. sent + i \in 1..Accepted(e)
            BY <2>3, <4>1, <4>2, <4>4, <6>1
          <6>3. writeQueue'[e][i] = writeQueue[e][i]
            BY <2>4, <6>1
          <6>4. accepted'[e][sent + i] = accepted[e][sent + i]
            BY <2>4, <6>2
          <6> QED
            BY <4>3, <4>4, <6>1, <6>3, <6>4
        <5> QED
          BY <5>1, <5>2
      <4>5. Accepted(e)' = sent + Queued(e)'
        BY <2>3, <2>4, <4>1, <4>2
      <4> QED
        BY <3>2, <4>4, <4>5 DEF sent
    <3> QED
      BY <3>1, <3>2
  <2> QED
    BY <2>5, <2>6, <2>7 DEF PeerInv, ClosedIsDown
<1> QED
  BY <1>2, <1>3 DEF send

-----------------------------------------------------------------------------
(* The other steps *)

\* Front of the queue to the sockets.
LEMMA TransmitInv ==
  ASSUME PeerInv, NEW e \in Ends, transmit(e)
  PROVE  PeerInv'
<1> TypeOK
  BY DEF PeerInv
<1>0. /\ inFlight[e] \in Nat /\ completed[e] \in Nat /\ writing[e] \in BOOLEAN
      /\ Queued(e) \in Nat /\ OnWire(e) \in Nat
      /\ Accepted(e) \in Nat /\ Read(e) \in Nat
  BY Counts
<1>1. /\ inFlight[e] = 1 /\ completed[e] = 0 /\ writing[e] /\ writeQueue[e] # <<>>
  BY <1>0, EndWrite DEF transmit
<1>2. /\ inFlight' = [inFlight EXCEPT ![e] = @ - 1]
      /\ completed' = [completed EXCEPT ![e] = @ + 1]
      /\ inFlight'[e] = 0 /\ completed'[e] = 1
      /\ \A f \in Ends \ {e} : inFlight'[f] = inFlight[f] /\ completed'[f] = completed[f]
  BY <1>1 DEF transmit, PeerInv, TypeOK
<1>3. UNCHANGED <<writeQueue, writing, open, up, handling, process, messageTimes, received, processed,
                  now, sends, accepted>>
  BY DEF transmit, readVars
<1>4. /\ Head(writeQueue[e]) \in Messages /\ Head(writeQueue[e]) = writeQueue[e][1]
      /\ Queued(e) > 0
  BY <1>1, QueueTypes, TailProps DEF Queued
<1>5. inFlight' \in [Ends -> Nat] /\ completed' \in [Ends -> Nat]
  BY <1>0, <1>1, <1>2 DEF PeerInv, TypeOK
<1>6. OneWrite'
  <2>1. ASSUME NEW f \in Ends
        PROVE  /\ inFlight'[f] + completed'[f] = IF writing[f] THEN 1 ELSE 0
               /\ writing[f] <=> writeQueue[f] # <<>>
    <3>1. CASE f = e
      BY <1>1, <1>2, <3>1
    <3>2. CASE f # e
      BY <1>2, <3>2, EndWrite
    <3> QED
      BY <3>1, <3>2
  <2> QED
    BY <1>3, <2>1 DEF OneWrite
<1>7. ClosedIsDown'
  BY <1>3 DEF PeerInv, ClosedIsDown
<1>8. CASE ~up /\ UNCHANGED wire
  <2>1. TypeOK'
    BY <1>3, <1>5, <1>8 DEF PeerInv, TypeOK
  <2>2. WireInv'
    BY <1>3, <1>8 DEF PeerInv, WireInv, Read, OnWire, Accepted
  <2>3. QueueInv'
    BY <1>3, <1>8 DEF QueueInv
  <2> QED
    BY <1>6, <1>7, <2>1, <2>2, <2>3 DEF PeerInv
<1>9. CASE up /\ wire' = [wire EXCEPT ![e] = Append(@, Head(writeQueue[e]))]
  <2> DEFINE m == Head(writeQueue[e])
  <2> HIDE DEF m
  <2>1. /\ wire'[e] = Append(wire[e], m) /\ \A f \in Ends \ {e} : wire'[f] = wire[f]
        /\ m \in Messages /\ m = writeQueue[e][1]
    BY <1>4, <1>9 DEF m, PeerInv, TypeOK
  <2>2. /\ wire'[e] \in Seq(Messages) /\ OnWire(e)' = OnWire(e) + 1
        /\ \A i \in 1..OnWire(e) : wire'[e][i] = wire[e][i]
        /\ wire'[e][OnWire(e) + 1] = m
    BY <2>1, QueueTypes, AppendProps DEF OnWire
  <2>3. wire' \in [Ends -> Seq(Messages)]
    BY <1>9, <2>1, <2>2 DEF PeerInv, TypeOK, m
  <2>4. TypeOK'
    BY <1>3, <1>5, <2>3 DEF PeerInv, TypeOK
  <2> DEFINE sent == Read(e) + OnWire(e)
  <2>0. \A f \in Ends : /\ Read(f)' = Read(f) /\ Queued(f)' = Queued(f)
                         /\ Accepted(f)' = Accepted(f) /\ (f # e => OnWire(f)' = OnWire(f))
    BY <1>3, <2>1, SameCounts
  <2>5. Accepted(e) = sent + Queued(e) /\ sent \in Nat
    BY <1>0, <1>1, <1>9, EndTotal
  <2>6. ASSUME NEW i \in 1..Queued(e)
        PROVE  writeQueue[e][i] = accepted[e][sent + i]
    <3>1. i > completed[e]
      BY <1>1
    <3>2. Read(e) + OnWire(e) - completed[e] + i = sent + i
      BY <1>0, <1>1
    <3>3. writeQueue[e][i] = accepted[e][Read(e) + OnWire(e) - completed[e] + i]
      BY <1>9, <3>1, EndQueue
    <3> QED
      BY <3>2, <3>3
  <2>7. m = accepted[e][Read(e) + (OnWire(e) + 1)]
    <3>1. 1 \in 1..Queued(e)
      BY <1>0, <1>4
    <3>2. sent + 1 = Read(e) + (OnWire(e) + 1)
      BY <1>0
    <3>3. m = accepted[e][sent + 1]
      BY <2>1, <2>6, <3>1
    <3> QED
      BY <3>2, <3>3
  <2>8. WireInv'
    <3>1. Read(e) + OnWire(e)' <= Accepted(e)
      BY <1>0, <1>4, <2>2, <2>5
    <3>2. ASSUME NEW i \in 1..OnWire(e)'
          PROVE  wire'[e][i] = accepted[e][Read(e) + i]
      <4>1. CASE i = OnWire(e) + 1
        BY <2>2, <2>7, <4>1
      <4>2. CASE i # OnWire(e) + 1
        <5>1. i \in 1..OnWire(e)
          BY <1>0, <2>2, <4>2
        <5>2. wire'[e][i] = wire[e][i]
          BY <2>2, <5>1
        <5> QED
          BY <5>1, <5>2, EndWire
      <4> QED
        BY <4>1, <4>2
    <3>3. ASSUME NEW f \in Ends
          PROVE  /\ Read(f) + OnWire(f)' <= Accepted(f)
                 /\ \A i \in 1..OnWire(f)' : wire'[f][i] = accepted[f][Read(f) + i]
      <4>1. CASE f = e
        BY <3>1, <3>2, <4>1
      <4>2. CASE f # e
        BY <2>0, <2>1, <4>2, EndLen, EndWire
      <4> QED
        BY <4>1, <4>2
    <3> QED
      BY <1>3, <2>0, <3>3 DEF WireInv
  <2>9. QueueInv'
    <3>1. Read(e) + OnWire(e)' - completed'[e] = sent
      BY <1>0, <1>2, <2>2
    <3>2. ASSUME NEW f \in Ends
          PROVE  /\ Accepted(f) =
                      Read(f) + OnWire(f)' - completed'[f] + Queued(f)
                 /\ \A i \in 1..Queued(f) :
                      i > completed'[f] => writeQueue[f][i] =
                        accepted[f][Read(f) + OnWire(f)' - completed'[f] + i]
      <4> HIDE DEF sent
      <4>1. CASE f = e
        BY <2>5, <2>6, <3>1, <4>1
      <4>2. CASE f # e
        BY <1>2, <1>9, <2>0, <2>1, <4>2, EndTotal, EndQueue
      <4> QED
        BY <4>1, <4>2
    <3> QED
      BY <1>3, <2>0, <3>2 DEF QueueInv
  <2> QED
    BY <1>6, <1>7, <2>4, <2>8, <2>9 DEF PeerInv
<1> QED
  BY <1>8, <1>9 DEF transmit

\* The front of the queue has been written; the next one is started.
LEMMA WriteDoneInv ==
  ASSUME PeerInv, NEW e \in Ends, writeDone(e)
  PROVE  PeerInv'
<1> DEFINE rest == Tail(writeQueue[e])
<1> TypeOK
  BY DEF PeerInv
<1>0. /\ inFlight[e] \in Nat /\ completed[e] \in Nat /\ writing[e] \in BOOLEAN
      /\ Queued(e) \in Nat /\ OnWire(e) \in Nat
      /\ Accepted(e) \in Nat /\ Read(e) \in Nat
  BY Counts
<1>1. /\ inFlight[e] = 0 /\ completed[e] = 1 /\ writing[e] /\ writeQueue[e] # <<>>
  BY <1>0, EndWrite DEF writeDone
<1>2. /\ rest \in Seq(Messages) /\ Len(rest) = Len(writeQueue[e]) - 1
      /\ \A i \in 1..Len(rest) : rest[i] = writeQueue[e][i + 1]
      /\ Len(rest) \in Nat
  BY <1>1, QueueTypes, TailProps
<1>3. /\ completed' = [completed EXCEPT ![e] = @ - 1]
      /\ writeQueue' = [writeQueue EXCEPT ![e] = rest]
      /\ writing' = [writing EXCEPT ![e] = rest # <<>>]
      /\ inFlight' = [inFlight EXCEPT ![e] = IF rest # <<>> THEN @ + 1 ELSE @]
      /\ UNCHANGED <<wire, open, up, handling, process, messageTimes, received, processed, now, sends,
                     accepted>>
  BY DEF writeDone, readVars
<1> HIDE DEF rest
<1>4. /\ completed'[e] = 0 /\ writeQueue'[e] = rest /\ (writing'[e] <=> rest # <<>>)
      /\ inFlight'[e] = IF rest # <<>> THEN 1 ELSE 0
      /\ \A f \in Ends \ {e} :
           /\ completed'[f] = completed[f] /\ writeQueue'[f] = writeQueue[f]
           /\ writing'[f] = writing[f] /\ inFlight'[f] = inFlight[f]
  <2>1. /\ completed'[e] = 0 /\ writeQueue'[e] = rest
        /\ inFlight'[e] = IF rest # <<>> THEN 1 ELSE 0
    BY <1>1, <1>3 DEF TypeOK
  <2>2. writing'[e] = (rest # <<>>) /\ \A f \in Ends \ {e} : writing'[f] = writing[f]
    BY <1>3, Zenon DEF TypeOK
  <2>3. \A f \in Ends \ {e} :
          /\ completed'[f] = completed[f] /\ writeQueue'[f] = writeQueue[f]
          /\ inFlight'[f] = inFlight[f]
    BY <1>3 DEF TypeOK
  <2> QED
    BY <2>1, <2>2, <2>3, Zenon
<1>5. /\ Queued(e)' = Queued(e) - 1
      /\ \A i \in 1..Queued(e)' : writeQueue'[e][i] = writeQueue[e][i + 1]
  BY <1>2, <1>4 DEF Queued
<1>6. \A f \in Ends : /\ Read(f)' = Read(f) /\ OnWire(f)' = OnWire(f)
                       /\ Accepted(f)' = Accepted(f) /\ (f # e => Queued(f)' = Queued(f))
  BY <1>3, <1>4, SameCounts
<1>7. TypeOK'
  <2>1. completed' \in [Ends -> Nat] /\ inFlight' \in [Ends -> Nat]
    BY <1>1, <1>3 DEF TypeOK
  <2>2. writing' \in [Ends -> BOOLEAN] /\ writeQueue' \in [Ends -> Seq(Messages)]
    BY <1>2, <1>3 DEF TypeOK
  <2>3. ASSUME NEW f \in Ends PROVE Len(writeQueue'[f]) <= MaxWriteQueue
    <3>1. CASE f = e
      <4>1. Queued(e) <= MaxWriteQueue
        BY DEF TypeOK, Queued
      <4>2. Queued(e)' <= MaxWriteQueue
        BY <1>0, <1>5, <4>1, PeerAssumption
      <4> QED
        BY <3>1, <4>2 DEF Queued
    <3>2. CASE f # e
      BY <1>4, <3>2 DEF TypeOK
    <3> QED
      BY <3>1, <3>2
  <2> QED
    BY <1>3, <2>1, <2>2, <2>3 DEF TypeOK
<1>8. OneWrite'
  <2>1. ASSUME NEW f \in Ends
        PROVE  /\ inFlight'[f] + completed'[f] = IF writing'[f] THEN 1 ELSE 0
               /\ writing'[f] <=> writeQueue'[f] # <<>>
    <3>1. CASE f = e
      BY <1>4, <3>1
    <3>2. CASE f # e
      BY <1>4, <3>2, EndWrite
    <3> QED
      BY <3>1, <3>2
  <2> QED
    BY <2>1 DEF OneWrite
<1>9. ClosedIsDown' /\ WireInv'
  BY <1>3, <1>6 DEF PeerInv, ClosedIsDown, WireInv
<1>10. QueueInv'
  <2> SUFFICES ASSUME up, NEW f \in Ends
               PROVE  /\ Accepted(f) = Read(f) + OnWire(f) - completed'[f] + Queued(f)'
                      /\ \A i \in 1..Queued(f)' : i > completed'[f] =>
                           writeQueue'[f][i] =
                             accepted[f][Read(f) + OnWire(f) - completed'[f] + i]
    BY <1>3, <1>6 DEF QueueInv
  <2>1. CASE f # e
    BY <1>4, <1>6, <2>1, EndTotal, EndQueue
  <2>2. CASE f = e
    <3>1. Accepted(e) = Read(e) + OnWire(e) - completed[e] + Queued(e)
      BY EndTotal
    <3>2. Accepted(e) = Read(e) + OnWire(e) - completed'[e] + Queued(e)'
      BY <1>0, <1>1, <1>4, <1>5, <3>1
    <3>3. ASSUME NEW i \in 1..Queued(e)'
          PROVE  writeQueue'[e][i] = accepted[e][Read(e) + OnWire(e) - completed'[e] + i]
      <4>0. i \in 1..(Queued(e) - 1)
        BY <1>5
      <4>1. i + 1 \in 1..Queued(e) /\ i + 1 > completed[e]
        BY <1>0, <1>1, <4>0
      <4>2. Read(e) + OnWire(e) - completed[e] + (i + 1) = Read(e) + OnWire(e) - completed'[e] + i
        BY <1>0, <1>1, <1>4, <4>0
      <4>3. writeQueue[e][i + 1] = accepted[e][Read(e) + OnWire(e) - completed[e] + (i + 1)]
        BY <4>1, EndQueue
      <4> QED
        BY <1>5, <4>2, <4>3
    <3> QED
      BY <2>2, <3>2, <3>3
  <2> QED
    BY <2>1, <2>2
<1> QED
  BY <1>7, <1>8, <1>9, <1>10 DEF PeerInv

\* After an error the queue is given up; the connection is gone already.
LEMMA WriteErrorInv ==
  ASSUME PeerInv, NEW e \in Ends, writeError(e)
  PROVE  PeerInv'
<1> TypeOK
  BY DEF PeerInv
<1>0. inFlight[e] \in Nat /\ completed[e] \in Nat /\ writing[e] \in BOOLEAN
  BY Counts
<1>1. inFlight[e] = 1 /\ completed[e] = 0 /\ ~up
  BY <1>0, EndWrite DEF writeError, WriteFailed, PeerInv, ClosedIsDown
<1>2. /\ inFlight' = [inFlight EXCEPT ![e] = @ - 1]
      /\ writeQueue' = [writeQueue EXCEPT ![e] = <<>>]
      /\ writing' = [writing EXCEPT ![e] = FALSE]
      /\ UNCHANGED <<completed, wire, open, up, handling, process, messageTimes, received, processed,
                     now, sends, accepted>>
  BY DEF writeError, WriteFailed, readVars
<1>3. /\ writeQueue'[e] = <<>> /\ writing'[e] = FALSE /\ inFlight'[e] = 0
      /\ completed'[e] = 0
      /\ \A f \in Ends \ {e} :
           /\ completed'[f] = completed[f] /\ writeQueue'[f] = writeQueue[f]
           /\ writing'[f] = writing[f] /\ inFlight'[f] = inFlight[f]
  BY <1>1, <1>2 DEF TypeOK
<1>4. <<>> \in Seq(Messages) /\ Len(<<>>) = 0
  OBVIOUS
<1>5. TypeOK'
  <2>1. inFlight' \in [Ends -> Nat] /\ writing' \in [Ends -> BOOLEAN]
    BY <1>1, <1>2 DEF TypeOK
  <2>2. writeQueue' \in [Ends -> Seq(Messages)]
    BY <1>2, <1>4 DEF TypeOK
  <2>3. ASSUME NEW f \in Ends PROVE Len(writeQueue'[f]) <= MaxWriteQueue
    <3>1. CASE f = e
      BY <1>3, <1>4, <3>1, PeerAssumption
    <3>2. CASE f # e
      BY <1>3, <3>2 DEF TypeOK
    <3> QED
      BY <3>1, <3>2
  <2> QED
    BY <1>2, <2>1, <2>2, <2>3 DEF TypeOK
<1>6. OneWrite'
  <2>1. ASSUME NEW f \in Ends
        PROVE  /\ inFlight'[f] + completed'[f] = IF writing'[f] THEN 1 ELSE 0
               /\ writing'[f] <=> writeQueue'[f] # <<>>
    <3>1. CASE f = e
      BY <1>3, <3>1
    <3>2. CASE f # e
      BY <1>3, <3>2, EndWrite
    <3> QED
      BY <3>1, <3>2
  <2> QED
    BY <2>1 DEF OneWrite
<1>7. ClosedIsDown' /\ QueueInv'
  BY <1>1, <1>2 DEF PeerInv, ClosedIsDown, QueueInv
<1>8. WireInv'
  BY <1>2 DEF PeerInv, WireInv, Read, OnWire, Accepted
<1> QED
  BY <1>5, <1>6, <1>7, <1>8 DEF PeerInv

LEMMA PrefixProps ==
  ASSUME NEW S, NEW q \in Seq(S), NEW n \in Nat, n < Len(q)
  PROVE  /\ SubSeq(q, 1, n) \in Seq(S) /\ Len(SubSeq(q, 1, n)) = n
         /\ \A i \in 1..n : SubSeq(q, 1, n)[i] = q[i]
OBVIOUS

\* The connection ends: of what is in the sockets a beginning stays.
LEMMA CutWire ==
  ASSUME PeerInv, Cut, UNCHANGED <<received, accepted>>
  PROVE  wire' \in [Ends -> Seq(Messages)] /\ WireInv'
<1> TypeOK
  BY DEF PeerInv
<1>2. PICK n \in [Ends -> 0..WireCapacity] :
        wire' = [e \in Ends |->
          IF n[e] < Len(wire[e]) THEN SubSeq(wire[e], 1, n[e]) ELSE wire[e]]
  BY DEF Cut
<1>3. ASSUME NEW e \in Ends
      PROVE  /\ wire'[e] \in Seq(Messages) /\ OnWire(e)' \in Nat /\ OnWire(e)' <= OnWire(e)
             /\ \A i \in 1..OnWire(e)' : wire'[e][i] = wire[e][i]
  <2>0. wire[e] \in Seq(Messages) /\ Len(wire[e]) \in Nat
    BY QueueTypes
  <2>1. CASE n[e] < Len(wire[e])
    <3>1. n[e] \in Nat
      BY PeerAssumption
    <3>2. wire'[e] = SubSeq(wire[e], 1, n[e])
      BY <1>2, <2>1
    <3>3. /\ wire'[e] \in Seq(Messages) /\ Len(wire'[e]) = n[e]
          /\ \A i \in 1..n[e] : wire'[e][i] = wire[e][i]
      BY <2>0, <2>1, <3>1, <3>2, PrefixProps
    <3> QED
      BY <2>0, <2>1, <3>1, <3>3 DEF OnWire
  <2>2. CASE ~(n[e] < Len(wire[e]))
    <3>1. wire'[e] = wire[e]
      BY <1>2, <2>2
    <3> QED
      BY <2>0, <3>1 DEF OnWire
  <2> QED
    BY <2>1, <2>2
<1>6. WireInv'
  <2>1. \A e \in Ends : Read(e)' = Read(e) /\ Accepted(e)' = Accepted(e)
    BY SameCounts
  <2>2. ASSUME NEW e \in Ends
        PROVE  /\ Read(e) + OnWire(e)' <= Accepted(e)
               /\ \A i \in 1..OnWire(e)' : wire'[e][i] = accepted[e][Read(e) + i]
    <3>0. OnWire(e) \in Nat /\ Accepted(e) \in Nat /\ Read(e) \in Nat
      BY Counts
    <3>1. Read(e) + OnWire(e) <= Accepted(e)
      BY EndLen
    <3>2. OnWire(e)' \in Nat /\ OnWire(e)' <= OnWire(e)
      BY <1>3
    <3>3. Read(e) + OnWire(e)' <= Accepted(e)
      BY <3>0, <3>1, <3>2
    <3>4. ASSUME NEW i \in 1..OnWire(e)'
          PROVE  wire'[e][i] = accepted[e][Read(e) + i]
      <4>1. i \in 1..OnWire(e)
        BY <3>0, <3>2
      <4> QED
        BY <1>3, <4>1, EndWire
    <3> QED
      BY <3>3, <3>4
  <2> QED
    BY <2>1, <2>2 DEF WireInv
<1> QED
  BY <1>2, <1>3, <1>6

LEMMA CutInv ==
  ASSUME PeerInv, Cut, up' = FALSE, open' \in [Ends -> BOOLEAN],
         UNCHANGED <<writeVars, readVars, now, sends, accepted>>
  PROVE  PeerInv'
<1> TypeOK
  BY DEF PeerInv
<1>1. UNCHANGED <<writeQueue, writing, inFlight, completed, handling, process, messageTimes,
                  received, processed, now, sends, accepted>>
  BY DEF writeVars, readVars
<1>2. wire' \in [Ends -> Seq(Messages)] /\ WireInv'
  BY <1>1, CutWire
<1>3. TypeOK'
  BY <1>1, <1>2 DEF TypeOK
<1>4. OneWrite' /\ ClosedIsDown' /\ QueueInv'
  BY <1>1 DEF PeerInv, OneWrite, ClosedIsDown, QueueInv
<1> QED
  BY <1>2, <1>3, <1>4 DEF PeerInv

\* A process that dies takes its queue with it, and the connection.
LEMMA ThrowInv ==
  ASSUME PeerInv, NEW e \in Ends, handlerThrows(e)
  PROVE  PeerInv'
<1> TypeOK
  BY DEF PeerInv
<1>1. /\ Cut /\ up' = FALSE /\ open' = [open EXCEPT ![e] = FALSE]
      /\ process' = [process EXCEPT ![e] = "dead"]
      /\ handling' = [handling EXCEPT ![e] = Nothing]
      /\ writeQueue' = [writeQueue EXCEPT ![e] = <<>>]
      /\ writing' = [writing EXCEPT ![e] = FALSE]
      /\ inFlight' = [inFlight EXCEPT ![e] = 0]
      /\ completed' = [completed EXCEPT ![e] = 0]
      /\ UNCHANGED <<messageTimes, received, processed, now, sends, accepted>>
  BY DEF handlerThrows, Closed
<1>2. wire' \in [Ends -> Seq(Messages)] /\ WireInv'
  BY <1>1, CutWire
<1>3. /\ writeQueue'[e] = <<>> /\ writing'[e] = FALSE
      /\ inFlight'[e] = 0 /\ completed'[e] = 0
      /\ \A f \in Ends \ {e} :
           /\ completed'[f] = completed[f] /\ writeQueue'[f] = writeQueue[f]
           /\ writing'[f] = writing[f] /\ inFlight'[f] = inFlight[f]
  BY <1>1 DEF TypeOK
<1>4. <<>> \in Seq(Messages) /\ Len(<<>>) = 0
  OBVIOUS
<1>5. TypeOK'
  <2>1. /\ inFlight' \in [Ends -> Nat] /\ completed' \in [Ends -> Nat]
        /\ writing' \in [Ends -> BOOLEAN] /\ open' \in [Ends -> BOOLEAN]
        /\ handling' \in [Ends -> Messages \cup {Nothing}]
        /\ process' \in [Ends -> {"running", "hung", "dead"}]
    BY <1>1 DEF TypeOK
  <2>2. writeQueue' \in [Ends -> Seq(Messages)]
    BY <1>1, <1>4 DEF TypeOK
  <2>3. ASSUME NEW f \in Ends PROVE Len(writeQueue'[f]) <= MaxWriteQueue
    <3>1. CASE f = e
      BY <1>3, <1>4, <3>1, PeerAssumption
    <3>2. CASE f # e
      BY <1>3, <3>2 DEF TypeOK
    <3> QED
      BY <3>1, <3>2
  <2> QED
    BY <1>1, <1>2, <2>1, <2>2, <2>3 DEF TypeOK
<1>6. OneWrite'
  <2>1. ASSUME NEW f \in Ends
        PROVE  /\ inFlight'[f] + completed'[f] = IF writing'[f] THEN 1 ELSE 0
               /\ writing'[f] <=> writeQueue'[f] # <<>>
    <3>1. CASE f = e
      BY <1>3, <3>1
    <3>2. CASE f # e
      BY <1>3, <3>2, EndWrite
    <3> QED
      BY <3>1, <3>2
  <2> QED
    BY <2>1 DEF OneWrite
<1>7. ClosedIsDown' /\ QueueInv'
  BY <1>1 DEF ClosedIsDown, QueueInv
<1> QED
  BY <1>2, <1>5, <1>6, <1>7 DEF PeerInv

\* What is read is the next message of what was accepted.
LEMMA ReadNext ==
  ASSUME PeerInv, NEW f \in Ends, wire[f] # <<>>
  PROVE  /\ Head(wire[f]) \in Messages /\ Read(f) < Accepted(f)
         /\ Head(wire[f]) = accepted[f][Read(f) + 1]
<1> TypeOK
  BY DEF PeerInv
<1>0. OnWire(f) \in Nat /\ Accepted(f) \in Nat /\ Read(f) \in Nat
  BY Counts
<1>1. Head(wire[f]) \in Messages /\ Head(wire[f]) = wire[f][1] /\ OnWire(f) > 0
  BY QueueTypes, TailProps DEF OnWire
<1>2. Read(f) + OnWire(f) <= Accepted(f)
  BY EndLen
<1>3. 1 \in 1..OnWire(f) /\ Read(f) < Accepted(f)
  BY <1>0, <1>1, <1>2
<1> QED
  BY <1>1, <1>3, EndWire

LEMMA ReadInv ==
  ASSUME PeerInv, NEW e \in Ends, readMessage(e)
  PROVE  PeerInv'
<1> TypeOK
  BY DEF PeerInv
<1>1. PICK f \in Ends : f = Other[e] /\ wire[f] # <<>>
  BY PeerAssumption DEF readMessage
<1>3. PICK m \in Messages : /\ m = Head(wire[f])
                             /\ m = accepted[f][Read(f) + 1] /\ Read(f) < Accepted(f)
  BY <1>1, ReadNext
<1>2. /\ wire' = [wire EXCEPT ![f] = Tail(@)]
      /\ received' = [received EXCEPT ![f] = Append(@, m)]
      /\ handling' = [handling EXCEPT ![e] = IF m.kind = "unknown" THEN Nothing ELSE m]
      /\ UNCHANGED <<writeQueue, writing, inFlight, completed, open, up, process, messageTimes, processed,
                     now, sends, accepted>>
  BY <1>1, <1>3 DEF readMessage, writeVars
<1>4. /\ OnWire(f) \in Nat /\ Accepted(f) \in Nat /\ Read(f) \in Nat
      /\ Queued(f) \in Nat /\ completed[f] \in Nat
  BY <1>1, Counts
<1>5. /\ wire'[f] = Tail(wire[f]) /\ received'[f] = Append(received[f], m)
      /\ \A g \in Ends \ {f} : wire'[g] = wire[g] /\ received'[g] = received[g]
  BY <1>1, <1>2 DEF TypeOK
<1>6. /\ wire'[f] \in Seq(Messages) /\ OnWire(f)' = OnWire(f) - 1 /\ OnWire(f) > 0
      /\ \A i \in 1..OnWire(f)' : wire'[f][i] = wire[f][i + 1]
  BY <1>1, <1>5, QueueTypes, TailProps DEF OnWire
<1>7. received'[f] \in Seq(Messages) /\ Read(f)' = Read(f) + 1
  BY <1>1, <1>3, <1>5, QueueTypes, AppendProps DEF Read
<1>8. \A g \in Ends : /\ Queued(g)' = Queued(g) /\ Accepted(g)' = Accepted(g)
                       /\ (g # f => (Read(g)' = Read(g) /\ OnWire(g)' = OnWire(g)))
  BY <1>2, <1>5, SameCounts
<1>9. TypeOK'
  <2>1. wire' \in [Ends -> Seq(Messages)] /\ received' \in [Ends -> Seq(Messages)]
    BY <1>2, <1>5, <1>6, <1>7 DEF TypeOK
  <2>2. handling' \in [Ends -> Messages \cup {Nothing}]
    BY <1>2, <1>3 DEF TypeOK
  <2> QED
    BY <1>2, <2>1, <2>2 DEF TypeOK
<1>10. OneWrite' /\ ClosedIsDown'
  BY <1>2 DEF PeerInv, OneWrite, ClosedIsDown
<1>11. WireInv'
  <2>1. Read(f)' + OnWire(f)' <= Accepted(f)
    <3>1. Read(f) + OnWire(f) <= Accepted(f)
      BY <1>1, EndLen
    <3> QED
      BY <1>4, <1>6, <1>7, <3>1
  <2>2. ASSUME NEW i \in 1..OnWire(f)'
        PROVE  wire'[f][i] = accepted[f][Read(f)' + i]
    <3>1. i \in 1..(OnWire(f) - 1)
      BY <1>6
    <3>2. i + 1 \in 1..OnWire(f) /\ Read(f) + (i + 1) = Read(f)' + i
      BY <1>4, <1>7, <3>1
    <3>3. wire[f][i + 1] = accepted[f][Read(f) + (i + 1)]
      BY <1>1, <3>2, EndWire
    <3> QED
      BY <1>6, <3>2, <3>3
  <2>3. ASSUME NEW g \in Ends
        PROVE  /\ Read(g)' + OnWire(g)' <= Accepted(g)
               /\ \A i \in 1..OnWire(g)' : wire'[g][i] = accepted[g][Read(g)' + i]
    <3>1. CASE g = f
      BY <2>1, <2>2, <3>1
    <3>2. CASE g # f
      <4>1. wire'[g] = wire[g] /\ Read(g)' = Read(g) /\ OnWire(g)' = OnWire(g)
        BY <1>5, <1>8, <3>2
      <4>2. Read(g)' + OnWire(g)' <= Accepted(g)
        BY <4>1, EndLen
      <4>3. ASSUME NEW i \in 1..OnWire(g)' PROVE wire'[g][i] = accepted[g][Read(g)' + i]
        <5>1. i \in 1..OnWire(g)
          BY <4>1
        <5> QED
          BY <4>1, <5>1, EndWire
      <4> QED
        BY <4>2, <4>3
    <3> QED
      BY <3>1, <3>2
  <2> QED
    BY <1>2, <1>8, <2>3 DEF WireInv
<1>12. QueueInv'
  <2>1. ASSUME NEW g \in Ends
        PROVE  /\ Read(g)' + OnWire(g)' = Read(g) + OnWire(g)
               /\ Read(g)' \in Nat /\ OnWire(g)' \in Nat
    <3>1. CASE g = f
      <4>1. /\ Read(f)' + OnWire(f)' = Read(f) + OnWire(f)
            /\ Read(f)' \in Nat /\ OnWire(f)' \in Nat
        <5>1. OnWire(f)' = OnWire(f) - 1 /\ OnWire(f) > 0 /\ Read(f)' = Read(f) + 1
          BY <1>6, <1>7
        <5>2. OnWire(f) \in Nat /\ Read(f) \in Nat
          BY <1>4
        <5> QED
          BY <5>1, <5>2
      <4> QED
        BY <3>1, <4>1
    <3>2. CASE g # f
      BY <1>8, <3>2, Counts
    <3> QED
      BY <3>1, <3>2
  <2>2. ASSUME up, NEW g \in Ends
        PROVE  /\ Accepted(g) = Read(g)' + OnWire(g)' - completed[g] + Queued(g)
               /\ \A i \in 1..Queued(g) : i > completed[g] =>
                    writeQueue[g][i] = accepted[g][Read(g)' + OnWire(g)' - completed[g] + i]
    <3>1. /\ Read(g)' + OnWire(g)' = Read(g) + OnWire(g)
          /\ Read(g)' \in Nat /\ OnWire(g)' \in Nat
      BY <2>1
    <3>2. /\ Read(g) \in Nat /\ OnWire(g) \in Nat /\ completed[g] \in Nat
          /\ Queued(g) \in Nat
      BY Counts
    <3>3. Accepted(g) = Read(g)' + OnWire(g)' - completed[g] + Queued(g)
      <4>1. Accepted(g) = Read(g) + OnWire(g) - completed[g] + Queued(g)
        BY <2>2, EndTotal
      <4> QED
        BY <3>1, <3>2, <4>1
    <3>4. ASSUME NEW i \in 1..Queued(g), i > completed[g]
          PROVE  writeQueue[g][i] = accepted[g][Read(g)' + OnWire(g)' - completed[g] + i]
      <4>1. writeQueue[g][i] = accepted[g][Read(g) + OnWire(g) - completed[g] + i]
        BY <2>2, <3>4, EndQueue
      <4>2. Read(g)' + OnWire(g)' - completed[g] + i = Read(g) + OnWire(g) - completed[g] + i
        BY <3>1, <3>2
      <4> QED
        BY <4>1, <4>2
    <3> QED
      BY <3>3, <3>4
  <2> QED
    BY <1>2, <1>8, <2>2 DEF QueueInv
<1> QED
  BY <1>9, <1>10, <1>11, <1>12 DEF PeerInv

\* Leaving out the old entries leaves a queue of times.
LEMMA RecentType ==
  ASSUME NEW q \in Seq(Nat)
  PROVE  recent(q) \in Seq(Nat)
<1> DEFINE c == Cardinality(old(q))
<1>1. c \in Nat
  <2>1. IsFiniteSet(1..Len(q))
    BY FS_Interval
  <2>2. old(q) \subseteq 1..Len(q)
    BY DEF old
  <2>3. IsFiniteSet(old(q))
    BY <2>1, <2>2, FS_Subset
  <2> QED
    BY <2>3, FS_CardinalityType
<1> HIDE DEF c
<1>2. SubSeq(q, c + 1, Len(q)) \in Seq(Nat)
  BY <1>1
<1> QED
  BY <1>2 DEF recent, c

LEMMA HandleInv ==
  ASSUME PeerInv, NEW e \in Ends, handleMessage(e)
  PROVE  PeerInv'
<1> TypeOK
  BY DEF PeerInv
<1>1. /\ handling' = [handling EXCEPT ![e] = Nothing]
      /\ messageTimes' = [messageTimes EXCEPT ![e] = recent(Append(@, now))]
      /\ processed' = [processed EXCEPT ![e] = IF isRateLimited(e) THEN @ ELSE Append(@, now)]
      /\ UNCHANGED <<wire, open, up, process, received, now>>
  BY DEF handleMessage
<1>2. handling' \in [Ends -> Messages \cup {Nothing}]
  BY <1>1 DEF TypeOK
<1>3. messageTimes' \in [Ends -> Seq(Nat)]
  <2>1. Append(messageTimes[e], now) \in Seq(Nat)
    BY DEF TypeOK
  <2>2. recent(Append(messageTimes[e], now)) \in Seq(Nat)
    BY <2>1, RecentType
  <2> QED
    BY <1>1, <2>2 DEF TypeOK
<1>4. processed' \in [Ends -> Seq(Nat)]
  <2>1. Append(processed[e], now) \in Seq(Nat)
    BY DEF TypeOK
  <2> QED
    BY <1>1, <2>1 DEF TypeOK
<1>5. CASE send(e, "notice")
  <2>1. "notice" \in AllKinds
    BY DEF AllKinds
  <2>2. TypeOK'
    BY <1>1, <1>2, <1>3, <1>4, <1>5, <2>1, SendType DEF TypeOK
  <2> QED
    BY <1>1, <1>5, <2>1, <2>2, SendInv
<1>6. CASE UNCHANGED <<writeVars, sends, accepted>>
  <2>1. UNCHANGED <<writeQueue, writing, inFlight, completed, sends, accepted>>
    BY <1>6 DEF writeVars
  <2>2. TypeOK'
    BY <1>1, <1>2, <1>3, <1>4, <2>1 DEF TypeOK
  <2>3. OneWrite' /\ ClosedIsDown'
    BY <1>1, <2>1 DEF PeerInv, OneWrite, ClosedIsDown
  <2>4. \A f \in Ends : Read(f)' = Read(f) /\ OnWire(f)' = OnWire(f)
                         /\ Queued(f)' = Queued(f) /\ Accepted(f)' = Accepted(f)
    BY <1>1, <2>1, SameCounts
  <2>5. WireInv' /\ QueueInv'
    BY <1>1, <2>1, <2>4 DEF PeerInv, WireInv, QueueInv
  <2> QED
    BY <2>2, <2>3, <2>5 DEF PeerInv
<1> QED
  BY <1>5, <1>6 DEF handleMessage

LEMMA StillInv ==
  ASSUME PeerInv, Tick \/ UNCHANGED vars \/ \E e \in Ends : handlerHangs(e)
  PROVE  PeerInv'
<1> TypeOK
  BY DEF PeerInv
<1>1. /\ UNCHANGED <<writeQueue, writing, inFlight, completed, wire, open, up, handling,
                     messageTimes, received, processed, sends, accepted>>
      /\ now' \in Nat /\ process' \in [Ends -> {"running", "hung", "dead"}]
  <2>1. CASE Tick
    BY <2>1 DEF Tick, writeVars, readVars, TypeOK
  <2>2. CASE UNCHANGED vars
    BY <2>2 DEF vars, writeVars, readVars, TypeOK
  <2>3. ASSUME NEW e \in Ends, handlerHangs(e)
        PROVE  /\ UNCHANGED <<writeQueue, writing, inFlight, completed, wire, open, up, handling,
                              messageTimes, received, processed, sends, accepted>>
               /\ now' \in Nat /\ process' \in [Ends -> {"running", "hung", "dead"}]
    BY <2>3 DEF handlerHangs, writeVars, TypeOK
  <2> QED
    BY <2>1, <2>2, <2>3
<1>2. TypeOK'
  BY <1>1 DEF TypeOK
<1>3. OneWrite' /\ ClosedIsDown'
  BY <1>1 DEF PeerInv, OneWrite, ClosedIsDown
<1>4. \A f \in Ends : Read(f)' = Read(f) /\ OnWire(f)' = OnWire(f)
                       /\ Queued(f)' = Queued(f) /\ Accepted(f)' = Accepted(f)
  BY <1>1, SameCounts
<1>5. WireInv' /\ QueueInv'
  BY <1>1, <1>4 DEF PeerInv, WireInv, QueueInv
<1> QED
  BY <1>2, <1>3, <1>5 DEF PeerInv

LEMMA PeerInvNext == PeerInv /\ [Next]_vars => PeerInv'
<1> SUFFICES ASSUME PeerInv, [Next]_vars PROVE PeerInv'
  OBVIOUS
<1> TypeOK
  BY DEF PeerInv
<1>1. ASSUME NEW e \in Ends, NEW kind \in Kinds, sendOther(e, kind) PROVE PeerInv'
  <2>1. kind \in AllKinds /\ send(e, kind)
    BY <1>1, PeerAssumption DEF sendOther
  <2>2. UNCHANGED <<wire, open, up, handling, process, messageTimes, received, processed, now>>
    BY <1>1 DEF sendOther, readVars
  <2>3. TypeOK'
    BY <2>1, <2>2, SendType DEF TypeOK
  <2> QED
    BY <2>1, <2>2, <2>3, SendInv
<1>2. ASSUME NEW e \in Ends,
             \/ transmit(e) \/ writeDone(e) \/ writeError(e)
             \/ readMessage(e) \/ handleMessage(e) \/ handlerThrows(e)
      PROVE  PeerInv'
  BY <1>2, TransmitInv, WriteDoneInv, WriteErrorInv, ReadInv, HandleInv, ThrowInv
<1>3. ASSUME NEW e \in Ends, close(e) \/ rejectOversize(e) \/ readError(e) PROVE PeerInv'
  <2>1. /\ Cut /\ up' = FALSE /\ open' = [open EXCEPT ![e] = FALSE]
        /\ UNCHANGED <<writeVars, readVars, now, sends, accepted>>
    BY <1>3 DEF close, rejectOversize, readError, Closed
  <2>2. open' \in [Ends -> BOOLEAN]
    BY <2>1 DEF TypeOK
  <2> QED
    BY <2>1, <2>2, CutInv
<1>4. CASE Disconnect
  <2>1. open' \in [Ends -> BOOLEAN]
    BY <1>4 DEF Disconnect, TypeOK
  <2> QED
    BY <1>4, <2>1, CutInv DEF Disconnect
<1> QED
  BY <1>1, <1>2, <1>3, <1>4, StillInv DEF Next

LEMMA PeerInvInit == Init => PeerInv
<1> SUFFICES ASSUME Init PROVE PeerInv
  OBVIOUS
<1>1. <<>> \in Seq(Messages) /\ <<>> \in Seq(Nat) /\ Len(<<>>) = 0
  OBVIOUS
<1>2. ASSUME NEW e \in Ends
      PROVE  /\ writeQueue[e] = <<>> /\ Read(e) = 0 /\ OnWire(e) = 0 /\ Queued(e) = 0
             /\ Accepted(e) = 0 /\ completed[e] = 0 /\ inFlight[e] = 0 /\ writing[e] = FALSE
             /\ open[e] = TRUE
  BY <1>1 DEF Init, Read, OnWire, Queued, Accepted
<1>0. MaxWriteQueue \in Nat
  BY PeerAssumption
<1>3. TypeOK
  <2>1. ASSUME NEW e \in Ends PROVE Len(writeQueue[e]) <= MaxWriteQueue
    <3>1. Len(writeQueue[e]) = 0
      BY <1>1, <1>2
    <3> QED
      BY <1>0, <3>1
  <2>2. now \in Nat /\ up \in BOOLEAN
    BY DEF Init
  <2> QED
    BY <1>1, <2>1, <2>2 DEF Init, TypeOK
<1>4. OneWrite
  <2>1. ASSUME NEW e \in Ends
        PROVE  /\ inFlight[e] + completed[e] = IF writing[e] THEN 1 ELSE 0
               /\ writing[e] <=> writeQueue[e] # <<>>
    <3>1. inFlight[e] = 0 /\ completed[e] = 0 /\ ~writing[e] /\ writeQueue[e] = <<>>
      BY <1>2
    <3> QED
      BY <3>1
  <2> QED
    BY <2>1 DEF OneWrite
<1>7. ClosedIsDown
  BY <1>2 DEF ClosedIsDown
<1>5. WireInv
  <2>1. ASSUME NEW e \in Ends
        PROVE  /\ Read(e) + OnWire(e) <= Accepted(e)
               /\ \A i \in 1..OnWire(e) : wire[e][i] = accepted[e][Read(e) + i]
    <3>1. Read(e) = 0 /\ OnWire(e) = 0 /\ Accepted(e) = 0
      BY <1>2
    <3> QED
      BY <3>1
  <2> QED
    BY <2>1 DEF WireInv
<1>6. QueueInv
  <2>1. ASSUME NEW e \in Ends
        PROVE  /\ Accepted(e) = Read(e) + OnWire(e) - completed[e] + Queued(e)
               /\ \A i \in 1..Queued(e) : i > completed[e] =>
                    writeQueue[e][i] = accepted[e][Read(e) + OnWire(e) - completed[e] + i]
    <3>1. /\ Read(e) = 0 /\ OnWire(e) = 0 /\ Accepted(e) = 0
          /\ Queued(e) = 0 /\ completed[e] = 0
      BY <1>2
    <3> QED
      BY <3>1
  <2> QED
    BY <2>1 DEF QueueInv
<1> QED
  BY <1>3, <1>4, <1>5, <1>6, <1>7 DEF PeerInv

-----------------------------------------------------------------------------
(* The connection as an ordered channel *)

LEMMA AcceptStep ==
  ASSUME TypeOK, NEW e \in Ends, NEW kind \in AllKinds, send(e, kind), received' = received
  PROVE  Channel!Accept(e) \/ UNCHANGED <<accepted, received>>
<1> DEFINE m == [kind |-> kind, id |-> sends[e]]
<1>1. CASE accepted' = accepted
  BY <1>1
<1>2. CASE accepted' = [accepted EXCEPT ![e] = Append(@, m)]
  <2>1. m \in Messages
    BY DEF TypeOK, Messages
  <2> HIDE DEF m
  <2>2. accepted'[e] = Append(accepted[e], m) /\ accepted[e] \in Seq(Messages)
    BY <1>2 DEF TypeOK
  <2>3. Len(accepted'[e]) = Len(accepted[e]) + 1 /\ accepted'[e][Len(accepted'[e])] = m
    BY <2>1, <2>2, AppendProps
  <2> QED
    BY <1>2, <2>1, <2>3 DEF Channel!Accept
<1> QED
  BY <1>1, <1>2 DEF send

LEMMA ChannelStep == PeerInv /\ [Next]_vars => [Channel!Next]_<<accepted, received>>
<1> SUFFICES ASSUME PeerInv, [Next]_vars PROVE [Channel!Next]_<<accepted, received>>
  OBVIOUS
<1> TypeOK
  BY DEF PeerInv
<1>1. ASSUME NEW e \in Ends, NEW kind \in Kinds, sendOther(e, kind)
      PROVE  [Channel!Next]_<<accepted, received>>
  <2>1. kind \in AllKinds /\ send(e, kind) /\ received' = received
    BY <1>1, PeerAssumption DEF sendOther, readVars
  <2> QED
    BY <2>1, AcceptStep DEF Channel!Next
<1>2. ASSUME NEW e \in Ends, handleMessage(e)
      PROVE  [Channel!Next]_<<accepted, received>>
  <2>1. CASE send(e, "notice")
    BY <1>2, <2>1, AcceptStep DEF handleMessage, AllKinds, Channel!Next
  <2>2. CASE UNCHANGED accepted
    BY <1>2, <2>2 DEF handleMessage
  <2> QED
    BY <1>2, <2>1, <2>2 DEF handleMessage
<1>3. ASSUME NEW e \in Ends, readMessage(e)
      PROVE  [Channel!Next]_<<accepted, received>>
  <2> DEFINE f == Other[e]
  <2>1. f \in Ends /\ wire[f] # <<>>
    BY <1>3, PeerAssumption DEF readMessage
  <2>2. /\ received' = [received EXCEPT ![f] = Append(@, Head(wire[f]))]
        /\ accepted' = accepted
    BY <1>3 DEF readMessage
  <2> HIDE DEF f
  <2>3. Head(wire[f]) = accepted[f][Len(received[f]) + 1] /\ Len(received[f]) < Len(accepted[f])
    BY <2>1, ReadNext DEF Read, Accepted
  <2>4. Channel!Deliver(f)
    BY <2>2, <2>3 DEF Channel!Deliver
  <2> QED
    BY <2>1, <2>4 DEF Channel!Next
<1>4. ASSUME NEW e \in Ends,
             \/ transmit(e) \/ writeDone(e) \/ writeError(e) \/ close(e)
             \/ rejectOversize(e) \/ readError(e) \/ handlerHangs(e) \/ handlerThrows(e)
      PROVE  UNCHANGED <<accepted, received>>
  BY <1>4 DEF transmit, writeDone, writeError, close, rejectOversize, readError, handlerHangs,
              handlerThrows, readVars
<1>5. CASE Disconnect \/ Tick \/ UNCHANGED vars
  BY <1>5 DEF Disconnect, Tick, vars, readVars
<1> QED
  BY <1>1, <1>2, <1>3, <1>4, <1>5 DEF Next

-----------------------------------------------------------------------------
(* The rate window *)

\* The times in a window come in order, and none is later than time.
InTime(times, time) ==
  /\ \A i, j \in 1..Len(times) : i <= j => times[i] <= times[j]
  /\ \A i \in 1..Len(times) : times[i] <= time

\* What was processed within the second before time is covered by the window, counted
\* from the end of both: what was over the limit only adds to the window.
Covered(times, done, time) ==
  \A d \in 0..(Len(done) - 1) :
    done[Len(done) - d] + Second >= time
      => d < Len(times) /\ done[Len(done) - d] <= times[Len(times) - d]

\* A second has passed between one message and the one MaxPerSecond later.
Spaced(done) ==
  \A i \in DOMAIN done :
    i + MaxPerSecond \in DOMAIN done => done[i + MaxPerSecond] > done[i] + Second

RateInv ==
  \A e \in Ends : /\ InTime(messageTimes[e], now)
                  /\ Covered(messageTimes[e], processed[e], now)
                  /\ Spaced(processed[e])

LEMMA InTimeLater ==
  ASSUME NEW times \in Seq(Nat), NEW t \in Nat, NEW u \in Nat, t <= u, InTime(times, t)
  PROVE  InTime(times, u)
<1>1. \A i \in 1..Len(times) : times[i] \in Nat
  OBVIOUS
<1>2. \A i \in 1..Len(times) : times[i] <= u
  BY <1>1 DEF InTime
<1> QED
  BY <1>2 DEF InTime

LEMMA SuffixLen ==
  ASSUME NEW S, NEW q \in Seq(S), NEW c \in Nat, c <= Len(q)
  PROVE  Len(SubSeq(q, c + 1, Len(q))) = Len(q) - c
<1>1. PICK n \in Nat : n = Len(q)
  OBVIOUS
<1>2. CASE c = n
  BY <1>1, <1>2
<1>3. CASE c < n
  <2>1. c + 1 \in 1..n
    BY <1>3
  <2>2. Len(SubSeq(q, c + 1, n)) = n - (c + 1) + 1
    BY <1>1, <2>1
  <2> QED
    BY <1>1, <1>3, <2>2
<1> QED
  BY <1>1, <1>2, <1>3

\* What recent returns, seen from the end: a time that is not old is kept, and so
\* is all that follows it.
LEMMA RecentProps ==
  ASSUME NEW q \in Seq(Nat), now \in Nat
  PROVE  \E c \in 0..Len(q) :
           /\ Len(recent(q)) = Len(q) - c
           /\ \A k \in 1..(Len(q) - c) : recent(q)[k] = q[c + k]
           /\ \A i \in 1..Len(q) : q[i] + Second >= now => c < i
<1> DEFINE c == Cardinality(old(q))
<1>0. Len(q) \in Nat /\ DOMAIN q = 1..Len(q) /\ Second \in Nat
  BY PeerAssumption
<1>1. ASSUME NEW n \in 0..Len(q), old(q) \subseteq 1..n PROVE c \in Nat /\ c <= n
  <2>1. IsFiniteSet(1..n) /\ Cardinality(1..n) = n
    BY <1>0, FS_Interval
  <2>2. IsFiniteSet(old(q)) /\ Cardinality(old(q)) <= Cardinality(1..n)
    BY <1>1, <2>1, FS_Subset
  <2> QED
    BY <2>1, <2>2, FS_CardinalityType
<1>2. c \in Nat /\ c <= Len(q)
  <2>1. old(q) \subseteq 1..Len(q)
    BY DEF old
  <2> QED
    BY <1>0, <1>1, <2>1
<1>3. ASSUME NEW i \in 1..Len(q), q[i] + Second >= now PROVE c < i
  <2>1. ASSUME NEW k \in old(q) PROVE k \in 1..(i - 1)
    <3>1. k \in 1..Len(q) /\ \A j \in 1..k : q[j] + Second < now
      BY <1>0 DEF old
    <3>2. ~(i \in 1..k)
      <4>1. q[i] \in Nat
        OBVIOUS
      <4> QED
        BY <1>0, <1>3, <3>1, <4>1
    <3> QED
      BY <1>0, <3>1, <3>2
  <2>2. c <= i - 1
    BY <1>0, <1>1, <2>1
  <2> QED
    BY <1>2, <2>2
<1> HIDE DEF c
<1>4. recent(q) = SubSeq(q, c + 1, Len(q))
  BY DEF recent, c
<1>5. /\ Len(recent(q)) = Len(q) - c
      /\ \A k \in 1..(Len(q) - c) : recent(q)[k] = q[c + k]
  <2>1. c + 1 \in 1..(Len(q) + 1)
    BY <1>0, <1>2
  <2>2. Len(SubSeq(q, c + 1, Len(q))) = Len(q) - c
    BY <1>2, SuffixLen
  <2>3. ASSUME NEW k \in 1..(Len(q) - c) PROVE SubSeq(q, c + 1, Len(q))[k] = q[c + k]
    <3>1. SubSeq(q, c + 1, Len(q))[k] = q[(c + 1) + k - 1]
      BY <1>0, <1>2, <2>1
    <3>2. (c + 1) + k - 1 = c + k
      BY <1>2
    <3> QED
      BY <3>1, <3>2
  <2> QED
    BY <1>4, <2>2, <2>3
<1> QED
  BY <1>2, <1>3, <1>5

\* A time joins the window, and old ones leave it.
LEMMA WindowStep ==
  ASSUME NEW q \in Seq(Nat), now \in Nat, InTime(q, now)
  PROVE  LET new == recent(Append(q, now))
         IN  /\ InTime(new, now)
             /\ new \in Seq(Nat)
             /\ \A d \in Nat, x \in Nat :
                  d < Len(q) /\ x <= q[Len(q) - d] /\ x + Second >= now
                    => /\ d < Len(new) /\ x <= new[Len(new) - d]
                       /\ d + 1 < Len(new) /\ x <= new[Len(new) - (d + 1)]
             /\ 0 < Len(new) /\ new[Len(new)] = now
<1> DEFINE r == Append(q, now)
           n == Len(q)
<1>0. Second \in Nat
  BY PeerAssumption
<1>1. /\ r \in Seq(Nat) /\ n \in Nat /\ Len(r) = n + 1 /\ r[n + 1] = now
      /\ \A i \in 1..n : r[i] = q[i] /\ q[i] \in Nat
  BY AppendProps
<1>2. /\ \A i, j \in 1..(n + 1) : i <= j => r[i] <= r[j]
      /\ \A i \in 1..(n + 1) : r[i] <= now /\ r[i] \in Nat
  <2>1. \A i \in 1..(n + 1) : i \in 1..n \/ i = n + 1
    BY <1>1
  <2>2. \A i \in 1..(n + 1) : r[i] <= now /\ r[i] \in Nat
    BY <1>1, <2>1 DEF InTime
  <2>3. ASSUME NEW i \in 1..(n + 1), NEW j \in 1..(n + 1), i <= j PROVE r[i] <= r[j]
    <3>1. CASE j = n + 1
      BY <1>1, <2>2, <3>1
    <3>2. CASE j \in 1..n
      <4>1. i \in 1..n
        BY <1>1, <2>3, <3>2
      <4> QED
        BY <1>1, <2>3, <3>2, <4>1 DEF InTime
    <3> QED
      BY <2>1, <3>1, <3>2
  <2> QED
    BY <2>2, <2>3
<1> HIDE DEF r
<1> DEFINE new == recent(r)
<1>3. PICK c \in 0..Len(r) :
        /\ Len(new) = Len(r) - c
        /\ \A k \in 1..(Len(r) - c) : new[k] = r[c + k]
        /\ \A i \in 1..Len(r) : r[i] + Second >= now => c < i
  BY <1>1, RecentProps
<1>4. new \in Seq(Nat)
  BY <1>1, RecentType
<1> HIDE DEF new, n
<1>5. Len(new) = n + 1 - c /\ c \in Nat /\ c <= n
  <2>1. c < n + 1
    BY <1>0, <1>1, <1>3
  <2> QED
    BY <1>1, <1>3, <2>1
<1>6. \A k \in 1..Len(new) : new[k] = r[c + k] /\ c + k \in 1..(n + 1)
  BY <1>1, <1>3, <1>5
<1>7. InTime(new, now)
  <2>1. \A k \in 1..Len(new) : new[k] <= now
    BY <1>2, <1>6
  <2>2. ASSUME NEW i \in 1..Len(new), NEW j \in 1..Len(new), i <= j PROVE new[i] <= new[j]
    <3>1. c + i <= c + j
      BY <1>5, <2>2
    <3> QED
      BY <1>2, <1>6, <3>1
  <2> QED
    BY <2>1, <2>2 DEF InTime
<1>8. ASSUME NEW d \in Nat, NEW x \in Nat, d < n, x <= q[n - d], x + Second >= now
      PROVE  /\ d < Len(new) /\ x <= new[Len(new) - d]
             /\ d + 1 < Len(new) /\ x <= new[Len(new) - (d + 1)]
  <2>1. n - d \in 1..n /\ n - d \in 1..(n + 1) /\ (n - d) + 1 \in 1..(n + 1)
    BY <1>1, <1>8
  <2>2. r[n - d] = q[n - d] /\ r[n - d] \in Nat
    BY <1>1, <2>1
  <2>3. x <= r[n - d] /\ r[n - d] + Second >= now
    BY <1>0, <1>8, <2>2
  <2>4. c < n - d
    BY <1>1, <1>3, <2>1, <2>3
  <2>5. d < Len(new) /\ d + 1 < Len(new)
    BY <1>1, <1>5, <2>4
  <2>6. Len(new) - d \in 1..Len(new) /\ Len(new) - (d + 1) \in 1..Len(new)
    BY <1>1, <1>5, <2>4
  <2>7. c + (Len(new) - d) = (n - d) + 1 /\ c + (Len(new) - (d + 1)) = n - d
    BY <1>1, <1>5
  <2>8. new[Len(new) - d] = r[(n - d) + 1] /\ new[Len(new) - (d + 1)] = r[n - d]
    <3> \A k \in 1..Len(new) : new[k] = r[c + k]
      BY <1>6
    <3> QED
      BY <2>6, <2>7, Zenon
  <2>9. r[n - d] <= r[(n - d) + 1] /\ r[(n - d) + 1] \in Nat
    BY <1>2, <2>1
  <2> QED
    BY <2>2, <2>3, <2>5, <2>8, <2>9
<1>9. 0 < Len(new) /\ new[Len(new)] = now
  <2>1. Len(new) \in 1..Len(new) /\ c + Len(new) = n + 1 /\ 0 < Len(new)
    BY <1>1, <1>5
  <2>2. new[Len(new)] = r[c + Len(new)]
    BY <1>6, <2>1
  <2> QED
    BY <1>1, <2>1, <2>2
<1> QED
  BY <1>4, <1>7, <1>8, <1>9 DEF new, r, n

\* The window goes on covering what was processed, with the message or without.
LEMMA CoveredStep ==
  ASSUME NEW q \in Seq(Nat), NEW done \in Seq(Nat), now \in Nat, InTime(q, now), Covered(q, done, now)
  PROVE  LET new == recent(Append(q, now))
         IN  Covered(new, done, now) /\ Covered(new, Append(done, now), now)
<1> DEFINE new == recent(Append(q, now))
           more == Append(done, now)
           n == Len(done)
<1>0. Second \in Nat
  BY PeerAssumption
<1>1. /\ \A d \in Nat, x \in Nat :
           d < Len(q) /\ x <= q[Len(q) - d] /\ x + Second >= now
             => /\ d < Len(new) /\ x <= new[Len(new) - d]
                /\ d + 1 < Len(new) /\ x <= new[Len(new) - (d + 1)]
      /\ 0 < Len(new) /\ new[Len(new)] = now
  BY WindowStep
<1>2. /\ n \in Nat /\ Len(more) = n + 1 /\ more[n + 1] = now
      /\ \A i \in 1..n : more[i] = done[i] /\ done[i] \in Nat
  BY AppendProps
<1>3. new \in Seq(Nat) /\ Len(new) \in Nat
  BY WindowStep
<1> HIDE DEF new, more, n
<1>4. ASSUME NEW d \in 0..(n - 1), done[n - d] + Second >= now
      PROVE  /\ d < Len(new) /\ done[n - d] <= new[Len(new) - d]
             /\ d + 1 < Len(new) /\ done[n - d] <= new[Len(new) - (d + 1)]
  <2>1. d < Len(q) /\ done[n - d] <= q[Len(q) - d]
    BY <1>4 DEF Covered, n
  <2>2. n - d \in 1..n /\ d \in Nat
    BY <1>2
  <2>3. PICK x \in Nat : x = done[n - d]
    BY <1>2, <2>2
  <2> QED
    BY <1>1, <1>4, <2>1, <2>2, <2>3
<1>5. Covered(new, done, now)
  BY <1>4 DEF Covered, n
<1>6. Covered(new, more, now)
  <2> SUFFICES ASSUME NEW d \in 0..n, more[(n + 1) - d] + Second >= now
               PROVE  d < Len(new) /\ more[(n + 1) - d] <= new[Len(new) - d]
    <3>1. Len(more) = n + 1 /\ (n + 1) - 1 = n
      BY <1>2
    <3> QED
      BY <3>1 DEF Covered
  <2>1. CASE d = 0
    <3>1. (n + 1) - d = n + 1 /\ Len(new) - d = Len(new)
      BY <1>2, <1>3, <2>1
    <3> QED
      BY <1>1, <1>2, <2>1, <3>1
  <2>2. CASE d # 0
    <3>1. /\ d - 1 \in 0..(n - 1) /\ n - (d - 1) = (n + 1) - d /\ (n + 1) - d \in 1..n
          /\ (d - 1) + 1 = d
      BY <1>2, <2>2
    <3>2. more[(n + 1) - d] = done[n - (d - 1)]
      BY <1>2, <3>1
    <3>3. done[n - (d - 1)] + Second >= now
      BY <3>2
    <3>4. (d - 1) + 1 < Len(new) /\ done[n - (d - 1)] <= new[Len(new) - ((d - 1) + 1)]
      BY <1>4, <3>1, <3>3
    <3> QED
      BY <3>1, <3>2, <3>4
  <2> QED
    BY <2>1, <2>2
<1> QED
  BY <1>5, <1>6 DEF new, more

\* A message that passes the limit is more than a second later than the one
\* MaxPerSecond before it.
LEMMA SpacedStep ==
  ASSUME NEW q \in Seq(Nat), NEW done \in Seq(Nat), now \in Nat, Spaced(done),
         Covered(q, Append(done, now), now), Len(q) <= MaxPerSecond
  PROVE  Spaced(Append(done, now))
<1> DEFINE more == Append(done, now)
           n == Len(done)
<1>0. Second \in Nat /\ MaxPerSecond \in Nat /\ Len(q) \in Nat
  BY PeerAssumption
<1>1. /\ n \in Nat /\ Len(more) = n + 1 /\ more[n + 1] = now
      /\ \A i \in 1..n : more[i] = done[i] /\ done[i] \in Nat
      /\ DOMAIN more = 1..(n + 1) /\ DOMAIN done = 1..n
  BY AppendProps
<1> HIDE DEF more, n
<1> SUFFICES ASSUME NEW i \in 1..(n + 1), i + MaxPerSecond \in 1..(n + 1)
             PROVE  more[i + MaxPerSecond] > more[i] + Second
  BY <1>1 DEF Spaced, more
<1>2. CASE i + MaxPerSecond # n + 1
  <2>1. i \in 1..n /\ i + MaxPerSecond \in 1..n
    BY <1>0, <1>1, <1>2
  <2> QED
    BY <1>1, <2>1 DEF Spaced
<1>3. CASE i + MaxPerSecond = n + 1
  <2> SUFFICES ASSUME ~(more[i] + Second < now) PROVE FALSE
    <3>1. more[i] \in Nat
      <4>1. i \in 1..n \/ i = n + 1
        BY <1>1
      <4> QED
        BY <1>1, <4>1
    <3> QED
      BY <1>0, <1>1, <1>3, <3>1
  <2>1. MaxPerSecond \in 0..n /\ (n + 1) - MaxPerSecond = i
    BY <1>0, <1>1, <1>3
  <2>2. more[i] \in Nat
    <3>1. i \in 1..n \/ i = n + 1
      BY <1>1
    <3> QED
      BY <1>1, <3>1
  <2>3. more[Len(more) - MaxPerSecond] + Second >= now
    <3>1. Len(more) - MaxPerSecond = i
      BY <1>1, <2>1
    <3> QED
      BY <1>0, <2>2, <3>1
  <2>4. MaxPerSecond \in 0..(Len(more) - 1)
    BY <1>0, <1>1, <2>1
  <2>5. MaxPerSecond < Len(q)
    BY <2>3, <2>4 DEF Covered, more
  <2> QED
    BY <1>0, <2>5
<1> QED
  BY <1>2, <1>3

LEMMA RateInvNext == PeerInv /\ RateInv /\ [Next]_vars => RateInv'
<1> SUFFICES ASSUME PeerInv, RateInv, [Next]_vars PROVE RateInv'
  OBVIOUS
<1>0. now \in Nat /\ Second \in Nat /\ MaxPerSecond \in Nat
  BY PeerAssumption DEF PeerInv, TypeOK
<1>1. ASSUME NEW e \in Ends, handleMessage(e) PROVE RateInv'
  <2>1. /\ messageTimes' = [messageTimes EXCEPT ![e] = recent(Append(@, now))]
        /\ processed' = [processed EXCEPT ![e] = IF isRateLimited(e) THEN @ ELSE Append(@, now)]
        /\ now' = now
    BY <1>1 DEF handleMessage
  <2>2. /\ messageTimes \in [Ends -> Seq(Nat)] /\ processed \in [Ends -> Seq(Nat)]
    BY DEF PeerInv, TypeOK
  <2> DEFINE new == recent(Append(messageTimes[e], now))
  <2>3. InTime(new, now) /\ new \in Seq(Nat)
    BY <1>0, <2>2, WindowStep DEF RateInv
  <2>4. Covered(new, processed[e], now) /\ Covered(new, Append(processed[e], now), now)
    BY <1>0, <2>2, CoveredStep DEF RateInv
  <2>5. isRateLimited(e) <=> Len(new) > MaxPerSecond
    BY DEF isRateLimited
  <2>6. messageTimes'[e] = new
    BY <2>1, <2>2
  <2> HIDE DEF new
  <2>9. ASSUME /\ InTime(messageTimes'[e], now) /\ Covered(messageTimes'[e], processed'[e], now)
               /\ Spaced(processed'[e])
        PROVE  RateInv'
    <3>1. ASSUME NEW f \in Ends
          PROVE  /\ InTime(messageTimes'[f], now) /\ Covered(messageTimes'[f], processed'[f], now)
                 /\ Spaced(processed'[f])
      <4>1. CASE f = e
        BY <2>9, <4>1
      <4>2. CASE f # e
        <5>1. messageTimes'[f] = messageTimes[f] /\ processed'[f] = processed[f]
          BY <2>1, <2>2, <4>2
        <5> QED
          BY <5>1 DEF RateInv
      <4> QED
        BY <4>1, <4>2
    <3> QED
      BY <2>1, <3>1 DEF RateInv
  <2>7. CASE isRateLimited(e)
    <3>1. processed'[e] = processed[e]
      BY <2>1, <2>2, <2>7
    <3>2. Spaced(processed[e])
      BY DEF RateInv
    <3> QED
      BY <2>3, <2>4, <2>6, <2>9, <3>1, <3>2
  <2>8. CASE ~isRateLimited(e)
    <3>1. processed'[e] = Append(processed[e], now)
      BY <2>1, <2>2, <2>8
    <3>2. Len(new) <= MaxPerSecond
      BY <1>0, <2>3, <2>5, <2>8
    <3>3. Spaced(Append(processed[e], now))
      BY <1>0, <2>2, <2>3, <2>4, <3>2, SpacedStep DEF RateInv
    <3> QED
      BY <2>3, <2>4, <2>6, <2>9, <3>1, <3>3
  <2> QED
    BY <2>7, <2>8
<1>2. CASE UNCHANGED <<messageTimes, processed>> /\ now' \in Nat /\ now' >= now
  <2>1. ASSUME NEW e \in Ends
        PROVE  /\ InTime(messageTimes[e], now') /\ Covered(messageTimes[e], processed[e], now')
               /\ Spaced(processed[e])
    <3>1. messageTimes[e] \in Seq(Nat) /\ processed[e] \in Seq(Nat)
      BY DEF PeerInv, TypeOK
    <3>3. InTime(messageTimes[e], now) /\ Covered(messageTimes[e], processed[e], now)
          /\ Spaced(processed[e])
      BY DEF RateInv
    <3>4. InTime(messageTimes[e], now')
      BY <1>0, <1>2, <3>1, <3>3, InTimeLater
    <3>5. Covered(messageTimes[e], processed[e], now')
      <4>1. PICK n \in Nat : n = Len(processed[e])
        BY <3>1
      <4>2. \A d \in 0..(n - 1) : n - d \in 1..n
        OBVIOUS
      <4>3. \A d \in 0..(n - 1) : processed[e][n - d] \in Nat
        BY <3>1, <4>1, <4>2
      <4>4. \A d \in 0..(n - 1) : processed[e][n - d] + Second >= now'
                                   => processed[e][n - d] + Second >= now
        BY <1>0, <1>2, <4>3
      <4> QED
        BY <3>3, <4>1, <4>4 DEF Covered
    <3> QED
      BY <3>3, <3>4, <3>5
  <2> QED
    BY <1>2, <2>1 DEF RateInv
<1>3. ASSUME NEW e \in Ends, NEW kind \in Kinds, sendOther(e, kind)
      PROVE  UNCHANGED <<messageTimes, processed, now>>
  BY <1>3 DEF sendOther, readVars
<1>4. ASSUME NEW e \in Ends,
             \/ transmit(e) \/ writeDone(e) \/ writeError(e)
             \/ close(e) \/ readMessage(e) \/ rejectOversize(e) \/ readError(e)
             \/ handlerHangs(e) \/ handlerThrows(e)
      PROVE  UNCHANGED <<messageTimes, processed, now>>
  BY <1>4 DEF transmit, writeDone, writeError, close, readMessage, rejectOversize, readError,
     handlerHangs, handlerThrows, readVars
<1>5. CASE Disconnect \/ Tick \/ UNCHANGED vars
  <2>1. UNCHANGED <<messageTimes, processed>> /\ (now' = now \/ now' = now + 1)
    BY <1>5 DEF Disconnect, Tick, vars, readVars
  <2> QED
    BY <1>0, <1>2, <2>1
<1> QED
  BY <1>0, <1>1, <1>2, <1>3, <1>4, <1>5 DEF Next

LEMMA RateInvInit == Init => RateInv
<1> SUFFICES ASSUME Init, NEW e \in Ends
             PROVE  /\ InTime(messageTimes[e], now) /\ Covered(messageTimes[e], processed[e], now)
                    /\ Spaced(processed[e])
  BY DEF RateInv
<1>1. messageTimes[e] = <<>> /\ processed[e] = <<>> /\ Len(<<>>) = 0 /\ DOMAIN <<>> = {}
  BY DEF Init
<1> QED
  BY <1>1 DEF InTime, Covered, Spaced

-----------------------------------------------------------------------------
(* Theorems *)

\* Every variable keeps its type, and the write queue its bound, whoever sends.
THEOREM PeerTypeCorrect == Spec => []TypeOK
<1>1. PeerInv => TypeOK
  BY DEF PeerInv
<1> QED
  BY <1>1, PeerInvInit, PeerInvNext, PTL DEF Spec

\* There is one async_write exactly while messages are queued: the write loop
\* neither mixes two messages nor stops with messages in the queue.
THEOREM OneWriteAtATime == Spec => []OneWrite
<1>1. PeerInv => OneWrite
  BY DEF PeerInv
<1> QED
  BY <1>1, PeerInvInit, PeerInvNext, PTL DEF Spec

\* What a read loop gets is the beginning of what send accepted at the other end,
\* for any queue and socket sizes, failures and ends of the connection.
THEOREM PeerIsOrderedChannel == Spec => RefinesOrderedChannel
<1>1. Init => Channel!Init
  BY DEF Init, Channel!Init
<1> QED
  BY <1>1, PeerInvInit, PeerInvNext, ChannelStep, PTL
     DEF Spec, RefinesOrderedChannel, Channel!Spec

\* However the messages of a peer come, no more than MaxPerSecond of them are
\* processed within a second: the window that isRateLimited trims at each message
\* never forgets one that counts.
THEOREM RateLimitHolds == Spec => []RateBounded
<1>1. RateInv => RateBounded
  BY DEF RateInv, Spaced, RateBounded
<1> QED
  BY <1>1, PeerInvInit, PeerInvNext, RateInvInit, RateInvNext, PTL DEF Spec

=============================================================================
