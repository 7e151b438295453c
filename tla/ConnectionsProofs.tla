-------------------------- MODULE ConnectionsProofs -------------------------
(***************************************************************************)
(* The connections of one node, for any other nodes, limits, times and     *)
(* scores: variables keep their types, and the limit on inbound            *)
(* connections holds for those from names that nobody announced.           *)
(***************************************************************************)
EXTENDS Connections, TLAPS, FiniteSetTheorems

-----------------------------------------------------------------------------
(* Sequences of connections *)

PeerType == Connection \cup {Closed}

\* The names from which nodes connect and that were never announced; the others.
Untold(a) == {e \in Ephemeral : a[e] = 0}
Spoken(a) == Names \ Untold(a)

\* The open inbound connections of a list: each has an ephemeral name of its own, and
\* if that name is in F, it has a slot in sl under it, whatever the connection is
\* called now.
Seats(p) == {i \in DOMAIN p : p[i].open /\ p[i].dir = "in"}
Distinct(p) == \A i, j \in Seats(p) : Socket(p[i]) = Socket(p[j]) => i = j
Seat(name) == [name |-> name, dir |-> "in"]
Seated(p, F, sl) ==
  \A i \in Seats(p) : /\ Socket(p[i]) \in Ephemeral
                      /\ Socket(p[i]) \in F => Seat(Socket(p[i])) \in sl

\* q is p with connections closed or renamed.
Closes(p, q) ==
  /\ DOMAIN q = DOMAIN p
  /\ \A i \in DOMAIN p :
       q[i].open => p[i].open /\ Socket(q[i]) = Socket(p[i]) /\ q[i].dir = p[i].dir

LEMMA ClosesSeats ==
  ASSUME NEW p, NEW q, NEW F, NEW sl, Closes(p, q), Distinct(p), Seated(p, F, sl)
  PROVE  Distinct(q) /\ Seated(q, F, sl)
<1>1. ASSUME NEW i \in Seats(q) PROVE i \in Seats(p) /\ Socket(q[i]) = Socket(p[i])
  BY <1>1 DEF Closes, Seats
<1>2. Distinct(q)
  BY <1>1 DEF Distinct
<1>3. Seated(q, F, sl)
  BY <1>1 DEF Seated
<1> QED
  BY <1>2, <1>3

\* Induction along the erasing of closed connections.
Kept(base, c, x) ==
  /\ x \in Seq(PeerType)
  /\ \A i \in DOMAIN x : x[i].open /\ \E j \in DOMAIN c : c[j] = x[i]
  /\ Distinct(c) => Distinct(x)

OpenFold == INSTANCE FoldFacts WITH Op <- KeepOpen, Holds <- Kept

LEMMA OnlyOpenKeeps ==
  ASSUME NEW p \in Seq(PeerType)
  PROVE  Kept(<<>>, p, onlyOpen(p))
<1>1. onlyOpen(p) = OpenFold!Fold(<<>>, p)
  BY DEF onlyOpen, FoldLeft, MapThenFoldSet, Max,
         OpenFold!Fold, OpenFold!MapThenFoldSet, OpenFold!Max
<1>2. Kept(<<>>, <<>>, <<>>)
  BY DEF Kept
<1>3. ASSUME NEW c \in Seq(PeerType), NEW b \in PeerType, NEW x, Kept(<<>>, c, x)
      PROVE  Kept(<<>>, Append(c, b), KeepOpen(x, b))
  <2> DEFINE d == Append(c, b)
             y == KeepOpen(x, b)
  <2>1. /\ x \in Seq(PeerType)
        /\ \A i \in DOMAIN x : x[i].open /\ \E j \in DOMAIN c : c[j] = x[i]
    BY <1>3 DEF Kept
  <2>2. /\ DOMAIN d = DOMAIN c \cup {Len(c) + 1} /\ Len(c) + 1 \notin DOMAIN c
        /\ d[Len(c) + 1] = b /\ \A i \in DOMAIN c : d[i] = c[i]
    OBVIOUS
  <2>3. Distinct(d) => Distinct(c)
    <3>1. \A i \in Seats(c) : i \in Seats(d) /\ Socket(d[i]) = Socket(c[i])
      BY <2>2 DEF Seats
    <3> QED
      BY <3>1 DEF Distinct
  <2>4. CASE ~b.open
    BY <2>1, <2>2, <2>3, <2>4, <1>3 DEF Kept, KeepOpen
  <2>5. CASE b.open
    <3>1. y = Append(x, b)
      BY <2>5 DEF KeepOpen
    <3>2. /\ DOMAIN y = DOMAIN x \cup {Len(x) + 1} /\ y[Len(x) + 1] = b
          /\ \A i \in DOMAIN x : y[i] = x[i]
      BY <2>1, <3>1
    <3>3. y \in Seq(PeerType)
      BY <2>1, <3>1
    <3> HIDE DEF y, d
    <3>4. \A i \in DOMAIN y : y[i].open /\ \E j \in DOMAIN d : d[j] = y[i]
      BY <2>1, <2>2, <2>5, <3>2
    <3>5. ASSUME Distinct(d) PROVE Distinct(y)
      <4> SUFFICES ASSUME NEW i \in Seats(y), NEW j \in Seats(y), Socket(y[i]) = Socket(y[j])
                   PROVE  i = j
        BY DEF Distinct
      <4>1. Distinct(x)
        BY <1>3, <2>3, <3>5 DEF Kept
      <4>2. ASSUME NEW k \in DOMAIN x, x[k].open, x[k].dir = "in", b.dir = "in"
            PROVE  Socket(x[k]) # Socket(b)
        <5>1. PICK l \in DOMAIN c : c[l] = x[k]
          BY <2>1
        <5>2. l \in Seats(d) /\ Len(c) + 1 \in Seats(d) /\ l # Len(c) + 1
          BY <4>2, <5>1, <2>2, <2>5 DEF Seats
        <5>3. Socket(d[l]) # Socket(d[Len(c) + 1])
          BY <3>5, <5>2 DEF Distinct
        <5> QED
          BY <5>1, <5>3, <2>2
      <4>3. /\ i \in DOMAIN y /\ y[i].open /\ y[i].dir = "in"
            /\ j \in DOMAIN y /\ y[j].open /\ y[j].dir = "in"
        BY DEF Seats
      <4>4. CASE i \in DOMAIN x /\ j \in DOMAIN x
        BY <3>2, <4>1, <4>3, <4>4 DEF Distinct, Seats
      <4>5. CASE i \in DOMAIN x /\ j = Len(x) + 1
        BY <3>2, <4>2, <4>3, <4>5
      <4>6. CASE i = Len(x) + 1 /\ j \in DOMAIN x
        BY <3>2, <4>2, <4>3, <4>6
      <4> QED
        BY <3>2, <4>3, <4>4, <4>5, <4>6
    <3> QED
      BY <3>3, <3>4, <3>5 DEF Kept, y, d
  <2> QED
    BY <2>4, <2>5
<1>4. \A c \in Seq(PeerType) : Kept(<<>>, c, OpenFold!Fold(<<>>, c))
  BY <1>2, <1>3, OpenFold!FoldInduction
<1> QED
  BY <1>1, <1>4

\* Erasing closed connections takes nobody's place and gives nobody two.
LEMMA OnlyOpenSeats ==
  ASSUME NEW p \in Seq(PeerType), NEW F, NEW sl, Distinct(p), Seated(p, F, sl)
  PROVE  /\ onlyOpen(p) \in Seq(PeerType) /\ \A i \in DOMAIN onlyOpen(p) : onlyOpen(p)[i].open
         /\ Distinct(onlyOpen(p)) /\ Seated(onlyOpen(p), F, sl)
<1>1. Kept(<<>>, p, onlyOpen(p))
  BY OnlyOpenKeeps
<1>2. PICK x : x = onlyOpen(p)
  OBVIOUS
<1>3. Seated(x, F, sl)
  BY <1>1, <1>2 DEF Kept, Seated, Seats
<1> QED
  BY <1>1, <1>2, <1>3 DEF Kept

-----------------------------------------------------------------------------
(* The inbound limit *)

InSlots(sl) == {s \in sl : s.dir = "in"}

\* Every open inbound connection from a name that was never announced has its slot,
\* and there are not too many slots.  Slots are given back by name, but only under
\* names that have a score, and those were dialled or announced.
InboundInv ==
  /\ peers \in Seq(PeerType) /\ announced \in [Names -> Nat]
  /\ Distinct(peers) /\ Seated(peers, Untold(announced), slots)
  /\ DOMAIN scorer \subseteq Spoken(announced)
  /\ IsFiniteSet(InSlots(slots)) /\ Cardinality(InSlots(slots)) <= MaxInbound

\* Closing any connection, or none.
LEMMA CloseOne ==
  ASSUME NEW p \in Seq(PeerType), NEW x
  PROVE  LET q == [p EXCEPT ![x] = Closed] IN q \in Seq(PeerType) /\ Closes(p, q)
<1>1. PICK q : q = [p EXCEPT ![x] = Closed]
  OBVIOUS
<1>2. /\ DOMAIN q = DOMAIN p
      /\ \A i \in DOMAIN p : q[i] = IF i = x THEN Closed ELSE p[i]
  BY <1>1
<1>3. \A i \in DOMAIN p : p[i] \in PeerType
  OBVIOUS
<1>4. Closed \in PeerType /\ ~ Closed.open
  BY DEF PeerType, Closed
<1>5. q \in Seq(PeerType)
  <2>1. DOMAIN p = 1..Len(p) /\ Len(p) \in Nat
    OBVIOUS
  <2>2. q = [i \in 1..Len(p) |-> q[i]]
    BY <1>1, <1>2, <2>1
  <2> QED
    BY <1>2, <1>3, <1>4, <2>1, <2>2
<1>6. Closes(p, q)
  BY <1>2, <1>4 DEF Closes
<1> QED
  BY <1>1, <1>5, <1>6

LEMMA CloseNone ==
  ASSUME NEW p
  PROVE  Closes(p, p)
BY DEF Closes

LEMMA CloseFirst ==
  ASSUME peers \in Seq(PeerType), NEW e
  PROVE  closeFirst(e) \in Seq(PeerType) /\ Closes(peers, closeFirst(e))
BY CloseOne, CloseNone DEF closeFirst

LEMMA DropLowest ==
  ASSUME peers \in Seq(PeerType)
  PROVE  dropLowestScorePeer \in Seq(PeerType) /\ Closes(peers, dropLowestScorePeer)
BY CloseFirst, CloseNone DEF dropLowestScorePeer

LEMMA DialCloses ==
  ASSUME peers \in Seq(PeerType), NEW D, NEW k, connectToPeer(D, k)
  PROVE  peers' \in Seq(PeerType) /\ Closes(peers, peers')
BY DropLowest, CloseNone DEF connectToPeer

LEMMA ExpansionCloses ==
  ASSUME peers \in Seq(PeerType), NEW K, attemptRandomPeerExpansion(K)
  PROVE  peers' \in Seq(PeerType) /\ Closes(peers, peers')
<1>1. CASE UNCHANGED <<peers, dialing, dialAge>>
  BY <1>1, CloseNone
<1>2. CASE \E D : connectToPeer(D, 0)
  BY <1>2, DialCloses
<1> QED
  BY <1>1, <1>2 DEF attemptRandomPeerExpansion

\* A step that gives slots back under names with a score and keeps the others' seats.
LEMMA InboundGiveBack ==
  ASSUME InboundInv, peers' \in Seq(PeerType), Distinct(peers'),
         Seated(peers', Untold(announced), slots),
         DOMAIN scorer' \subseteq Spoken(announced), announced' = announced,
         NEW S, S \cap Untold(announced) = {}, slots' = unregister(S)
  PROVE  InboundInv'
<1>1. Seated(peers', Untold(announced), slots')
  BY DEF Seated, Seat, unregister
<1>2. InSlots(slots') \in SUBSET InSlots(slots)
  BY DEF InSlots, unregister
<1>3. IsFiniteSet(InSlots(slots')) /\ Cardinality(InSlots(slots')) <= Cardinality(InSlots(slots))
  BY <1>2, FS_Subset DEF InboundInv
<1>4. Cardinality(InSlots(slots)) \in Nat /\ Cardinality(InSlots(slots')) \in Nat
  BY <1>3, FS_CardinalityType DEF InboundInv
<1>5. Cardinality(InSlots(slots')) <= MaxInbound
  BY <1>3, <1>4, ConnectionsAssumption DEF InboundInv
<1> QED
  BY <1>1, <1>3, <1>5 DEF InboundInv

LEMMA InboundStep ==
  ASSUME InboundInv, peers' \in Seq(PeerType), Closes(peers, peers'),
         DOMAIN scorer' \subseteq Spoken(announced), announced' = announced,
         NEW S, S \cap Untold(announced) = {}, slots' = unregister(S)
  PROVE  InboundInv'
<1>1. Distinct(peers') /\ Seated(peers', Untold(announced), slots)
  BY ClosesSeats DEF InboundInv
<1> QED
  BY <1>1, InboundGiveBack

LEMMA InboundSame ==
  ASSUME InboundInv, peers' \in Seq(PeerType), Closes(peers, peers'),
         DOMAIN scorer' \subseteq Spoken(announced), announced' = announced, slots' = slots
  PROVE  InboundInv'
<1>1. slots' = unregister({})
  BY DEF unregister
<1> QED
  BY <1>1, InboundStep

\* What is known of the endpoints with a score.
LEMMA Scored ==
  /\ \A sc, e : DOMAIN markSeen(sc, e) = DOMAIN sc
  /\ \A sc, e : DOMAIN markPongReceived(sc, e) = DOMAIN sc
  /\ \A sc, e : DOMAIN rewardPeer(sc, e) = DOMAIN sc
  /\ \A sc, e, b : DOMAIN penalizePeer(sc, e, b) = DOMAIN sc
  /\ \A sc, e : DOMAIN addPeer(sc, e) = DOMAIN sc \cup {e}
  /\ \A sc : DOMAIN evictStalePeers(sc) \subseteq DOMAIN sc
BY DEF markSeen, markPongReceived, rewardPeer, penalizePeer, addPeer, evictStalePeers, Updated

LEMMA ScoredAdd ==
  ASSUME NEW sc, NEW S, DOMAIN sc \subseteq S, NEW e \in S
  PROVE  DOMAIN addPeer(sc, e) \subseteq S
BY DEF addPeer

LEMMA InboundConnected ==
  ASSUME InboundInv, NEW e, NEW k, connected(e, k)
  PROVE  InboundInv'
<1>1. /\ e \in Endpoints /\ e \in Names /\ e \notin Ephemeral /\ peers \in Seq(PeerType)
      /\ peers' = Append(peers, Outbound(e)) /\ slots' = register(e, "out")
      /\ scorer' = addPeer(scorer, e) /\ announced' = announced
  BY ConnectionsAssumption DEF connected, InboundInv, Ephemeral
<1>2. Outbound(e) \in PeerType /\ Outbound(e).dir = "out"
  BY <1>1 DEF Outbound, PeerType, Connection, Names
<1>3. peers' \in Seq(PeerType)
  BY <1>1, <1>2
<1>4. \A i \in Seats(peers') : i \in Seats(peers) /\ peers'[i] = peers[i]
  BY <1>1, <1>2 DEF Seats
<1>5. Distinct(peers')
  BY <1>4 DEF InboundInv, Distinct
<1>6. Seated(peers', Untold(announced), slots')
  <2>1. ASSUME NEW a \in Ephemeral, Seat(a) \in slots PROVE Seat(a) \in slots'
    BY <1>1, <2>1 DEF register, unregister, Seat
  <2> QED
    BY <1>4, <2>1 DEF InboundInv, Seated
<1>7. InSlots(slots') \in SUBSET InSlots(slots)
  BY <1>1 DEF InSlots, register, unregister
<1>8. /\ IsFiniteSet(InSlots(slots'))
      /\ Cardinality(InSlots(slots')) <= Cardinality(InSlots(slots))
  BY <1>7, FS_Subset DEF InboundInv
<1>9. Cardinality(InSlots(slots)) \in Nat /\ Cardinality(InSlots(slots')) \in Nat
  BY <1>8, FS_CardinalityType DEF InboundInv
<1>10. Cardinality(InSlots(slots')) <= MaxInbound
  BY <1>8, <1>9, ConnectionsAssumption DEF InboundInv
<1>11. DOMAIN scorer' \subseteq Spoken(announced)
  <2>1. e \in Spoken(announced)
    BY <1>1 DEF Spoken, Untold
  <2> QED
    BY <1>1, <2>1, ScoredAdd DEF InboundInv
<1> QED
  BY <1>1, <1>3, <1>5, <1>6, <1>8, <1>10, <1>11 DEF InboundInv

LEMMA InboundAccept ==
  ASSUME InboundInv, NEW e \in Ephemeral, doAccept(e)
  PROVE  InboundInv'
<1>0. /\ peers \in Seq(PeerType) /\ DOMAIN scorer' \subseteq Spoken(announced)
      /\ announced' = announced
  BY DEF InboundInv, doAccept
<1>1. CASE /\ canAccept("in") /\ peers' = Append(peers, Inbound(e))
           /\ slots' = register(e, "in")
  <2>1. Inbound(e) \in PeerType /\ Socket(Inbound(e)) = e
    BY DEF Inbound, PeerType, Connection, Names, Ephemeral, Socket
  <2>2. PICK n \in Nat : n = Len(peers) + 1
    BY <1>0
  <2>3. /\ peers' \in Seq(PeerType) /\ DOMAIN peers' = DOMAIN peers \cup {n}
        /\ peers'[n] = Inbound(e) /\ \A i \in DOMAIN peers : peers'[i] = peers[i]
    BY <1>0, <1>1, <2>1, <2>2
  <2>4. \A i \in Seats(peers) : Socket(peers[i]) # e
    BY DEF doAccept, OpenPeers, Seats
  <2>5. \A i \in Seats(peers') : \/ i \in Seats(peers) /\ Socket(peers'[i]) = Socket(peers[i])
                                 \/ i = n /\ Socket(peers'[i]) = e
    BY <2>1, <2>3 DEF Seats
  <2>6. Distinct(peers')
    BY <2>4, <2>5 DEF InboundInv, Distinct
  <2>7. Seat(e) \in slots' /\ \A a : Seat(a) \in slots => Seat(a) \in slots'
    BY <1>1 DEF register, unregister, Seat
  <2>8. Seated(peers', Untold(announced), slots')
    BY <2>5, <2>7 DEF InboundInv, Seated
  <2>9. InSlots(slots') \in SUBSET (InSlots(slots) \cup {Seat(e)})
    BY <1>1 DEF InSlots, register, unregister, Seat
  <2>10. PICK m \in Nat : m = Cardinality(InSlots(slots)) /\ m < MaxInbound
    BY <1>1, FS_CardinalityType, ConnectionsAssumption DEF InboundInv, canAccept, InSlots
  <2>11. /\ IsFiniteSet(InSlots(slots) \cup {Seat(e)})
         /\ Cardinality(InSlots(slots) \cup {Seat(e)}) \in {m, m + 1}
    BY <2>10, FS_AddElement DEF InboundInv
  <2>12. /\ IsFiniteSet(InSlots(slots'))
         /\ Cardinality(InSlots(slots')) <= Cardinality(InSlots(slots) \cup {Seat(e)})
    BY <2>9, <2>11, FS_Subset
  <2>13. Cardinality(InSlots(slots')) \in Nat
    BY <2>12, FS_CardinalityType
  <2>14. Cardinality(InSlots(slots')) <= MaxInbound
    BY <2>10, <2>11, <2>12, <2>13, ConnectionsAssumption
  <2> QED
    BY <1>0, <2>3, <2>6, <2>8, <2>12, <2>14 DEF InboundInv
<1>2. CASE peers' = dropLowestScorePeer /\ slots' = slots
  BY <1>0, <1>2, DropLowest, InboundSame
<1> QED
  BY <1>1, <1>2 DEF doAccept

\* An announcement changes the name of a connection, not its socket, and takes the
\* name it tells away from the untold ones.
LEMMA InboundAnnounce ==
  ASSUME InboundInv, NEW i \in DOMAIN peers, NEW e \in Told, NEW x, handleNodeAnnounce(i, e, x)
  PROVE  InboundInv'
<1>0. /\ peers \in Seq(PeerType) /\ DOMAIN scorer \subseteq Spoken(announced)
      /\ announced \in [Names -> Nat] /\ e \in Names
  BY ConnectionsAssumption DEF InboundInv
<1>1. /\ peers' = [peers EXCEPT ![i].listen = e[2]] /\ slots' = slots /\ peers[i].open
      /\ scorer' = addPeer(markSeen(scorer, getEndpoint(peers[i])), e)
      /\ announced' = [announced EXCEPT ![e] = @ + 1]
  BY DEF handleNodeAnnounce, Handling
<1>2. e[2] \in Ports
  BY <1>0 DEF Names
<1>3. peers' \in Seq(PeerType) /\ Closes(peers, peers')
  <2>1. /\ DOMAIN peers' = DOMAIN peers
        /\ \A j \in DOMAIN peers :
             peers'[j] = IF j = i THEN [peers[j] EXCEPT !.listen = e[2]] ELSE peers[j]
    BY <1>1
  <2>2. \A j \in DOMAIN peers : peers[j] \in PeerType
    BY <1>0
  <2>3. peers[i] \in Connection
    BY <1>1, <2>2 DEF PeerType, Closed
  <2>4. /\ peers'[i] \in Connection /\ Socket(peers'[i]) = Socket(peers[i])
        /\ peers'[i].dir = peers[i].dir
    BY <1>2, <2>1, <2>3 DEF Connection, Socket
  <2>5. DOMAIN peers = 1..Len(peers) /\ Len(peers) \in Nat
    BY <1>0
  <2>6. peers' = [j \in 1..Len(peers) |-> peers'[j]]
    BY <1>1, <2>1, <2>5
  <2>7. \A j \in 1..Len(peers) : peers'[j] \in PeerType
    BY <2>1, <2>2, <2>4, <2>5 DEF PeerType
  <2>8. peers' \in Seq(PeerType)
    BY <2>5, <2>6, <2>7
  <2>9. Closes(peers, peers')
    BY <1>1, <2>1, <2>4 DEF Closes
  <2> QED
    BY <2>8, <2>9
<1>4. announced' \in [Names -> Nat]
  BY <1>0, <1>1
<1>5. Untold(announced') \subseteq Untold(announced) /\ e \notin Untold(announced')
  BY <1>0, <1>1 DEF Untold, Ephemeral
<1>6. DOMAIN scorer' \subseteq Spoken(announced')
  <2>1. PICK sc : sc = markSeen(scorer, getEndpoint(peers[i]))
    OBVIOUS
  <2>2. DOMAIN sc \subseteq Spoken(announced') /\ e \in Spoken(announced')
    BY <1>0, <1>5, <2>1, Scored DEF Spoken
  <2> QED
    BY <1>1, <2>1, <2>2, ScoredAdd
<1>7. Distinct(peers') /\ Seated(peers', Untold(announced), slots)
  BY <1>3, ClosesSeats DEF InboundInv
<1>8. Seated(peers', Untold(announced'), slots')
  BY <1>1, <1>5, <1>7 DEF Seated
<1> QED
  BY <1>1, <1>3, <1>4, <1>6, <1>7, <1>8 DEF InboundInv

\* A message of a peer that is not banned.
LEMMA InboundMessage ==
  ASSUME InboundInv, NEW i \in DOMAIN peers,
         \/ close(i) \/ handlePong(i) \/ handleRequest(i) \/ handleValid(i)
         \/ \E x \in Told : handleRegisterNode(i, x)
  PROVE  InboundInv'
<1>0. peers \in Seq(PeerType) /\ DOMAIN scorer \subseteq Spoken(announced)
  BY DEF InboundInv
<1>1. CASE close(i)
  BY <1>0, <1>1, CloseOne, InboundSame DEF close
<1>2. CASE \/ handlePong(i) \/ handleRequest(i) \/ handleValid(i)
           \/ \E x \in Told : handleRegisterNode(i, x)
  <2>1. /\ peers' = peers /\ slots' = slots /\ DOMAIN scorer' = DOMAIN scorer
        /\ announced' = announced
    BY <1>2, Scored DEF handlePong, handleRegisterNode, handleRequest, handleValid
  <2> QED
    BY <1>0, <2>1, CloseNone, InboundSame
<1> QED
  BY <1>1, <1>2

LEMMA InboundBan ==
  ASSUME InboundInv, NEW i \in DOMAIN peers, NEW b, NEW seen,
         penalizePeerByEndpoint(i, b, seen)
  PROVE  InboundInv'
<1>0. peers \in Seq(PeerType) /\ DOMAIN scorer \subseteq Spoken(announced)
  BY DEF InboundInv
<1>1. PICK e : e = getEndpoint(peers[i])
  OBVIOUS
<1>2. PICK sc : sc = penalizePeer(IF seen THEN markSeen(scorer, e) ELSE scorer, e, b)
  OBVIOUS
<1>3. DOMAIN sc = DOMAIN scorer
  BY <1>2, Scored
<1>4. CASE e \in DOMAIN sc /\ sc[e].score <= BanThreshold
  <2>1. /\ peers' = closeFirst(e) /\ slots' = unregister({e}) /\ scorer' = sc
        /\ announced' = announced
    BY <1>1, <1>2, <1>4 DEF penalizePeerByEndpoint
  <2>2. {e} \cap Untold(announced) = {}
    BY <1>0, <1>3, <1>4 DEF Spoken
  <2> QED
    BY <1>0, <1>3, <2>1, <2>2, CloseFirst, InboundStep
<1>5. CASE ~ (e \in DOMAIN sc /\ sc[e].score <= BanThreshold)
  <2>1. /\ peers' = peers /\ slots' = slots /\ scorer' = sc
        /\ announced' = announced
    BY <1>1, <1>2, <1>5 DEF penalizePeerByEndpoint
  <2> QED
    BY <1>0, <1>3, <2>1, CloseNone, InboundSame
<1> QED
  BY <1>4, <1>5

LEMMA InboundRemove ==
  ASSUME InboundInv, NEW i \in DOMAIN peers, removePeer(i)
  PROVE  InboundInv'
<1>0. peers \in Seq(PeerType) /\ DOMAIN scorer \subseteq Spoken(announced)
  BY DEF InboundInv
<1>1. PICK e : e = getEndpoint(peers[i])
  OBVIOUS
<1>2. PICK q : q = [peers EXCEPT ![i] = Closed]
  OBVIOUS
<1>3. /\ e \in DOMAIN scorer /\ slots' = unregister({e}) /\ peers' = onlyOpen(q)
      /\ scorer' = scorer /\ announced' = announced
  BY <1>1, <1>2 DEF removePeer, isBanned
<1>4. q \in Seq(PeerType) /\ Distinct(q) /\ Seated(q, Untold(announced), slots)
  BY <1>0, <1>2, CloseOne, ClosesSeats DEF InboundInv
<1>5. peers' \in Seq(PeerType) /\ Distinct(peers') /\ Seated(peers', Untold(announced), slots)
  BY <1>3, <1>4, OnlyOpenSeats
<1>6. {e} \cap Untold(announced) = {}
  BY <1>0, <1>3 DEF Spoken
<1> QED
  BY <1>0, <1>3, <1>5, <1>6, InboundGiveBack

LEMMA InboundHeartbeat ==
  ASSUME InboundInv, heartbeat
  PROVE  InboundInv'
<1>0. peers \in Seq(PeerType) /\ DOMAIN scorer \subseteq Spoken(announced)
  BY DEF InboundInv
<1>1. PICK q : q = onlyOpen(peers)
  OBVIOUS
<1>2. /\ q \in Seq(PeerType) /\ Distinct(q) /\ Seated(q, Untold(announced), slots)
      /\ \A i \in DOMAIN q : q[i].open
  BY <1>0, <1>1, OnlyOpenSeats DEF InboundInv
<1>3. PICK late : /\ late \subseteq DOMAIN scorer /\ slots' = unregister(late \cup {Unknown})
                  /\ peers' = [i \in DOMAIN q |->
                                 IF getEndpoint(q[i]) \in late THEN Closed ELSE q[i]]
                  /\ DOMAIN scorer' = DOMAIN scorer /\ announced' = announced
  BY <1>1 DEF heartbeat
<1>4. \A i \in DOMAIN q : q[i] \in PeerType /\ q[i].open
  BY <1>2
<1>5. /\ \A i \in DOMAIN q : peers'[i] \in PeerType /\ peers'[i] \in {Closed, q[i]}
      /\ ~ Closed.open
  BY <1>3, <1>4 DEF PeerType, Closed
<1>6. DOMAIN q = 1..Len(q) /\ Len(q) \in Nat
  BY <1>2
<1>7. peers' \in Seq(PeerType) /\ Closes(q, peers')
  <2>1. DOMAIN peers' = DOMAIN q /\ peers' = [i \in 1..Len(q) |-> peers'[i]]
    BY <1>3, <1>6
  <2> QED
    BY <1>4, <1>5, <1>6, <2>1 DEF Closes
<1>8. Distinct(peers') /\ Seated(peers', Untold(announced), slots)
  BY <1>2, <1>7, ClosesSeats
<1>9. (late \cup {Unknown}) \cap Untold(announced) = {}
  BY <1>0, <1>3, ConnectionsAssumption DEF Spoken, Untold, Ephemeral
<1> QED
  BY <1>0, <1>3, <1>7, <1>8, <1>9, InboundGiveBack

LEMMA InboundInit ==
  ASSUME Init
  PROVE  InboundInv
<1>1. peers = <<>> /\ slots = {} /\ DOMAIN scorer = {}
  BY DEF Init
<1>2. peers \in Seq(PeerType) /\ Seats(peers) = {}
  BY <1>1 DEF Seats
<1>3. InSlots(slots) = {}
  BY <1>1 DEF InSlots
<1>4. IsFiniteSet(InSlots(slots)) /\ Cardinality(InSlots(slots)) <= MaxInbound
  BY <1>3, FS_EmptySet, ConnectionsAssumption
<1>5. announced \in [Names -> Nat]
  BY DEF Init
<1> QED
  BY <1>1, <1>2, <1>4, <1>5 DEF InboundInv, Distinct, Seated

LEMMA InboundNext ==
  ASSUME InboundInv, [Next]_vars
  PROVE  InboundInv'
<1>0. peers \in Seq(PeerType) /\ DOMAIN scorer \subseteq Spoken(announced)
  BY DEF InboundInv
<1>1. ASSUME NEW e, NEW k, connected(e, k) PROVE InboundInv'
  BY <1>1, InboundConnected
<1>2. ASSUME NEW e, NEW k, retryConnect(e, k) PROVE InboundInv'
  BY <1>0, <1>2, CloseNone, InboundSame DEF retryConnect
<1>3. ASSUME NEW t, retryTimer(t) PROVE InboundInv'
  BY <1>0, <1>3, DialCloses, InboundSame DEF retryTimer
<1>4. ASSUME NEW e \in Ephemeral, doAccept(e) PROVE InboundInv'
  BY <1>4, InboundAccept
<1>5. ASSUME NEW i \in DOMAIN peers,
             \/ close(i) \/ handlePong(i) \/ handleRequest(i) \/ handleValid(i)
             \/ \E x \in Told : handleRegisterNode(i, x)
      PROVE  InboundInv'
  BY <1>5, InboundMessage
<1>12. ASSUME NEW i \in DOMAIN peers, NEW e \in Told, NEW x \in Told, handleNodeAnnounce(i, e, x)
       PROVE  InboundInv'
  BY <1>12, InboundAnnounce
<1>6. ASSUME NEW i \in DOMAIN peers, removePeer(i) PROVE InboundInv'
  BY <1>6, InboundRemove
<1>7. ASSUME NEW i \in DOMAIN peers, NEW b, NEW seen, penalizePeerByEndpoint(i, b, seen)
      PROVE  InboundInv'
  BY <1>7, InboundBan
<1>8. ASSUME NEW i, NEW S, handleReceivedPeers(i, S) PROVE InboundInv'
  <2>1. DOMAIN scorer' = DOMAIN scorer /\ slots' = slots /\ announced' = announced
    BY <1>8, Scored DEF handleReceivedPeers
  <2>2. \E K : attemptRandomPeerExpansion(K)
    BY <1>8 DEF handleReceivedPeers
  <2> QED
    BY <1>0, <2>1, <2>2, ExpansionCloses, InboundSame
<1>9. CASE heartbeat
  BY <1>9, InboundHeartbeat
<1>10. CASE gossipTimer \/ peerRotationTimer
  <2>1. DOMAIN scorer' \subseteq DOMAIN scorer /\ slots' = slots /\ announced' = announced
    BY <1>10, Scored DEF gossipTimer, peerRotationTimer
  <2>2. attemptRandomPeerExpansion(known)
    BY <1>10 DEF gossipTimer, peerRotationTimer
  <2> QED
    BY <1>0, <2>1, <2>2, ExpansionCloses, InboundSame
<1>11. CASE Tick \/ UNCHANGED vars
  <2>1. /\ DOMAIN scorer' = DOMAIN scorer /\ slots' = slots /\ peers' = peers
        /\ announced' = announced
    BY <1>11 DEF Tick, vars
  <2> QED
    BY <1>0, <2>1, CloseNone, InboundSame
<1> QED
  BY <1>1, <1>2, <1>3, <1>4, <1>5, <1>6, <1>7, <1>8, <1>9, <1>10, <1>11,
     <1>12 DEF Next

\* One slot for each open inbound connection from a name never announced.
LEMMA SlotEach ==
  ASSUME InboundInv
  PROVE  InboundBounded
<1>0. PICK I : I = {i \in Seats(peers) : announced[Socket(peers[i])] = 0}
  OBVIOUS
<1> DEFINE f == [i \in I |-> Seat(Socket(peers[i]))]
<1>1. I = {i \in OpenInbound : announced[Socket(peers[i])] = 0}
  BY <1>0 DEF OpenInbound, OpenPeers, Seats
<1>2. f \in [I -> InSlots(slots)]
  BY <1>0 DEF InboundInv, Seated, Untold, InSlots, Seat
<1>3. \A i, j \in I : f[i] = f[j] => i = j
  BY <1>0 DEF InboundInv, Distinct, Seat
<1>4. f \in Injection(I, InSlots(slots))
  <2> HIDE DEF f
  <2> QED
    BY <1>2, <1>3 DEF Injection, IsInjective
<1>5. IsFiniteSet(I) /\ Cardinality(I) <= Cardinality(InSlots(slots))
  BY <1>4, FS_Injection DEF InboundInv
<1>6. Cardinality(I) \in Nat /\ Cardinality(InSlots(slots)) \in Nat
  BY <1>5, FS_CardinalityType DEF InboundInv
<1> QED
  BY <1>1, <1>5, <1>6, ConnectionsAssumption DEF InboundInv, InboundBounded

-----------------------------------------------------------------------------
(* Types *)

LEMMA MinMaxOfTwo ==
  ASSUME NEW a \in Int, NEW b \in Int
  PROVE  /\ Min({a, b}) = IF a <= b THEN a ELSE b
         /\ Max({a, b}) = IF a >= b THEN a ELSE b
<1>1. Min({a, b}) \in {a, b} /\ \A y \in {a, b} : Min({a, b}) <= y
  <2>1. \E x \in {a, b} : \A y \in {a, b} : x <= y
    OBVIOUS
  <2> QED
    BY <2>1 DEF Min
<1>2. Max({a, b}) \in {a, b} /\ \A y \in {a, b} : Max({a, b}) >= y
  <2>1. \E x \in {a, b} : \A y \in {a, b} : x >= y
    OBVIOUS
  <2> QED
    BY <2>1 DEF Max
<1> QED
  BY <1>1, <1>2

LEMMA Constants ==
  /\ MaxScore \in Nat /\ InitialScore \in Nat /\ InitialScore <= MaxScore
  /\ TxPenalty \in Nat /\ BlockPenalty \in Nat /\ RapidPenalty \in Nat /\ RapidCount \in Nat
  /\ HeartbeatInterval \in Nat /\ HeartbeatTimeout \in Nat /\ QuarantineTime \in Nat
  /\ Cooldown \in Nat /\ StaleTime \in Nat
BY ConnectionsAssumption

LEMMA ZerosTyped ==
  /\ 0 \in 0..(StaleTime + 1) /\ 0 \in 0..(HeartbeatTimeout + 1) /\ 0 \in 0..(RapidCount + 1)
BY Constants

ScoresTyped(sc) == \A e \in DOMAIN sc : sc[e] \in PeerInfo

\* What PeerScorer does to an entry, and to all of them.
LEMMA EntryTyped ==
  ASSUME NEW i \in PeerInfo, NEW b \in BOOLEAN
  PROVE  /\ [i EXCEPT !.seenAge = 0] \in PeerInfo
         /\ [i EXCEPT !.pending = FALSE, !.pingAge = 0, !.seenAge = 0] \in PeerInfo
         /\ Pinged(i) \in PeerInfo /\ Penalised(i, b) \in PeerInfo
<1>1. [i EXCEPT !.seenAge = 0] \in PeerInfo
  BY ZerosTyped DEF PeerInfo
<1>2. [i EXCEPT !.pending = FALSE, !.pingAge = 0, !.seenAge = 0] \in PeerInfo
  BY ZerosTyped DEF PeerInfo
<1>3. Pinged(i) \in PeerInfo
  BY ZerosTyped DEF PeerInfo, Pinged
<1>4. Penalised(i, b) \in PeerInfo
  <2>1. PICK n \in 0..(RapidCount + 1) :
               n = IF b THEN Min({i.blocks + 1, RapidCount + 1}) ELSE i.blocks
    <3>1. i.blocks \in 0..(RapidCount + 1) /\ RapidCount \in Nat
      BY ConnectionsAssumption DEF PeerInfo
    <3>2. Min({i.blocks + 1, RapidCount + 1}) \in 0..(RapidCount + 1)
      BY <3>1, MinMaxOfTwo
    <3> QED
      BY <3>1, <3>2
  <2>2. PICK s \in Int : /\ s = i.score - (IF b THEN BlockPenalty ELSE TxPenalty)
                                        - (IF b /\ n = RapidCount THEN RapidPenalty ELSE 0)
                         /\ s <= MaxScore
    <3>1. i.score \in Int /\ i.score <= MaxScore /\ MaxScore \in Nat
      BY ConnectionsAssumption DEF PeerInfo
    <3>2. BlockPenalty \in Nat /\ TxPenalty \in Nat /\ RapidPenalty \in Nat
      BY ConnectionsAssumption
    <3> QED
      BY <3>1, <3>2
  <2>3. Penalised(i, b) = [i EXCEPT !.score = s, !.blocks = n,
                                    !.banned = @ \/ s <= BanThreshold]
    BY <2>1, <2>2 DEF Penalised
  <2> QED
    BY <2>1, <2>2, <2>3 DEF PeerInfo
<1> QED
  BY <1>1, <1>2, <1>3, <1>4

LEMMA ScoresStay ==
  ASSUME NEW sc, ScoresTyped(sc), NEW e, NEW b \in BOOLEAN
  PROVE  /\ ScoresTyped(markSeen(sc, e)) /\ ScoresTyped(markPongReceived(sc, e))
         /\ ScoresTyped(rewardPeer(sc, e)) /\ ScoresTyped(penalizePeer(sc, e, b))
         /\ ScoresTyped(addPeer(sc, e)) /\ ScoresTyped(evictStalePeers(sc))
<1>1. ScoresTyped(markSeen(sc, e))
  BY EntryTyped DEF ScoresTyped, markSeen, Updated
<1>2. ScoresTyped(markPongReceived(sc, e))
  BY EntryTyped DEF ScoresTyped, markPongReceived, Updated
<1>3. ScoresTyped(rewardPeer(sc, e))
  <2>1. ASSUME NEW i \in PeerInfo
        PROVE  LET s == Min({i.score + 1, MaxScore})
               IN  /\ [i EXCEPT !.score = s, !.banned = FALSE, !.blocks = 0] \in PeerInfo
                   /\ [i EXCEPT !.score = s] \in PeerInfo
    <3>1. PICK s : s = Min({i.score + 1, MaxScore})
      OBVIOUS
    <3>2. i.score \in Int /\ MaxScore \in Nat
      BY ConnectionsAssumption DEF PeerInfo
    <3>3. s \in Int /\ s <= MaxScore
      BY <3>1, <3>2, MinMaxOfTwo
    <3> QED
      BY <3>1, <3>3, ZerosTyped DEF PeerInfo
  <2> QED
    BY <2>1 DEF ScoresTyped, rewardPeer, Updated
<1>4. ScoresTyped(penalizePeer(sc, e, b))
  BY EntryTyped DEF ScoresTyped, penalizePeer, Updated
<1>5. ScoresTyped(addPeer(sc, e))
  <2>1. Unscored \in PeerInfo
    BY ConnectionsAssumption DEF Unscored, PeerInfo
  <2> QED
    BY <2>1 DEF ScoresTyped, addPeer
<1>6. ScoresTyped(evictStalePeers(sc))
  BY DEF ScoresTyped, evictStalePeers
<1> QED
  BY <1>1, <1>2, <1>3, <1>4, <1>5, <1>6

\* A name has one slot at most.
SlotsTyped(sl) ==
  /\ sl \subseteq [name: Names, dir: {"in", "out"}]
  /\ \A s, t \in sl : s.name = t.name => s = t

LEMMA SlotsStay ==
  ASSUME SlotsTyped(slots)
  PROVE  /\ \A S : SlotsTyped(unregister(S))
         /\ \A e \in Names, d \in {"in", "out"} : SlotsTyped(register(e, d))
BY DEF SlotsTyped, unregister, register

\* The dials under way: none is counted below zero, and their sum is bounded.
DialsTyped ==
  /\ dialing \in [Names -> [0..MaxRetries -> 0..MaxDials]]
  /\ dialAge \in [Names -> 0..Cooldown]

LEMMA SumFunctionBounds ==
  ASSUME NEW S, IsFiniteSet(S), NEW x \in [S -> Nat], NEW a \in S
  PROVE  SumFunction(x) \in Nat /\ x[a] <= SumFunction(x)
<1>1. SumFunction(x) = OpenFold!Sum(x, S)
  <2>1. DOMAIN x = S
    OBVIOUS
  <2>2. SumFunction(x) = OpenFold!Sum(x, DOMAIN x)
    BY DEF SumFunction, SumFunctionOnSet, FoldFunctionOnSet, MapThenFoldSet, OpenFold!Sum,
       OpenFold!FoldFunctionOnSet, OpenFold!MapThenFoldSet
  <2> QED
    BY <2>1, <2>2
<1>2. OpenFold!IsFiniteSet(S)
  BY DEF IsFiniteSet, OpenFold!IsFiniteSet
<1> QED
  BY <1>1, <1>2, OpenFold!SumBounds

LEMMA DialsBound ==
  ASSUME DialsTyped, NEW e \in Names, NEW k \in 0..MaxRetries
  PROVE  Dials \in Nat /\ dialing[e][k] <= Dials
<1>1. ASSUME NEW d \in Names, NEW j \in 0..MaxRetries
      PROVE  SumFunction(dialing[d]) \in Nat /\ dialing[d][j] <= SumFunction(dialing[d])
  <2>1. dialing[d] \in [0..MaxRetries -> Nat]
    BY ConnectionsAssumption DEF DialsTyped
  <2>2. IsFiniteSet(0..MaxRetries)
    BY FS_Interval, ConnectionsAssumption
  <2> QED
    BY <2>1, <2>2, SumFunctionBounds
<1>2. PICK x : x = [d \in Names |-> SumFunction(dialing[d])]
  OBVIOUS
<1>3. x \in [Names -> Nat] /\ x[e] = SumFunction(dialing[e])
  <2>1. 0 \in 0..MaxRetries
    BY ConnectionsAssumption
  <2> QED
    BY <1>1, <1>2, <2>1
<1>4. SumFunction(x) \in Nat /\ x[e] <= SumFunction(x)
  BY <1>3, SumFunctionBounds, ConnectionsAssumption
<1>5. Dials = SumFunction(x)
  BY <1>2 DEF Dials
<1>6. dialing[e][k] \in Nat /\ dialing[e][k] <= x[e] /\ x[e] \in Nat
  <2>1. dialing[e][k] \in 0..MaxDials
    BY DEF DialsTyped
  <2>2. x[e] \in Nat
    BY <1>3
  <2>3. dialing[e][k] <= SumFunction(dialing[e])
    BY <1>1
  <2> QED
    BY <1>3, <2>1, <2>2, <2>3
<1> QED
  BY <1>4, <1>5, <1>6

LEMMA DialStays ==
  ASSUME DialsTyped, NEW D, IsFiniteSet(D), NEW k, connectToPeer(D, k)
  PROVE  DialsTyped'
<1>1. CASE UNCHANGED <<dialing, dialAge>>
  BY <1>1 DEF DialsTyped
<1>2. CASE /\ Dials + Cardinality({e \in D : mayDial(e)}) <= MaxDials
           /\ dialing' = [e \in Names |-> IF e \in {d \in D : mayDial(d)}
                                          THEN [dialing[e] EXCEPT ![k] = @ + 1]
                                          ELSE dialing[e]]
           /\ dialAge' = [e \in Names |-> IF e \in {d \in D : mayDial(d)} THEN 0 ELSE dialAge[e]]
  <2>1. PICK now : now = {e \in D : mayDial(e)}
    OBVIOUS
  <2>2. IsFiniteSet(now)
    BY <2>1, FS_Subset
  <2>3. ASSUME NEW e \in Names, e \in now
        PROVE  [dialing[e] EXCEPT ![k] = @ + 1] \in [0..MaxRetries -> 0..MaxDials]
    <3>1. Cardinality(now) \in Nat /\ Cardinality(now) # 0
      BY <2>2, <2>3, FS_CardinalityType, FS_EmptySet
    <3>2. dialing[e] \in [0..MaxRetries -> 0..MaxDials]
      BY DEF DialsTyped
    <3>3. CASE k \in 0..MaxRetries
      <4>1. Dials \in Nat /\ dialing[e][k] <= Dials /\ dialing[e][k] \in 0..MaxDials
        BY <3>2, <3>3, DialsBound
      <4>2. Dials + Cardinality(now) <= MaxDials /\ MaxDials \in Nat
        BY <1>2, <2>1, ConnectionsAssumption
      <4>3. dialing[e][k] + 1 \in 0..MaxDials
        BY <3>1, <4>1, <4>2
      <4> QED
        BY <3>2, <3>3, <4>3
    <3>4. CASE k \notin 0..MaxRetries
      BY <3>2, <3>4
    <3> QED
      BY <3>3, <3>4
  <2>4. dialing' \in [Names -> [0..MaxRetries -> 0..MaxDials]]
    BY <1>2, <2>1, <2>3 DEF DialsTyped
  <2>5. dialAge' \in [Names -> 0..Cooldown]
    BY <1>2, ConnectionsAssumption DEF DialsTyped
  <2> QED
    BY <2>4, <2>5 DEF DialsTyped
<1> QED
  BY <1>1, <1>2 DEF connectToPeer

LEMMA ExpansionStays ==
  ASSUME DialsTyped, NEW K, K \subseteq Names, attemptRandomPeerExpansion(K)
  PROVE  DialsTyped'
<1>1. CASE UNCHANGED <<peers, dialing, dialAge>>
  BY <1>1 DEF DialsTyped
<1>2. CASE \E D \in SUBSET Names : connectToPeer(D, 0)
  BY <1>2, FS_Subset, DialStays, ConnectionsAssumption
<1> QED
  BY <1>1, <1>2 DEF attemptRandomPeerExpansion, kSubset

TimersTyped(ts) == ts \subseteq [endpoint: Names, attempt: 0..MaxRetries, left: Nat]

\* What TypeOK says of the variables that InboundInv does not mention.
TypeInv ==
  /\ SlotsTyped(slots) /\ known \subseteq Names /\ DialsTyped /\ TimersTyped(timers)
  /\ quarantine \in [Names -> 0..QuarantineTime] /\ ScoresTyped(scorer)
  /\ heartbeatIn \in 0..HeartbeatInterval /\ hung \in BOOLEAN

LEMMA TypesFollow ==
  ASSUME TypeInv, InboundInv
  PROVE  TypeOK
<1>1. /\ \A i \in DOMAIN peers : peers[i] \in Connection \cup {Closed}
      /\ announced \in [Names -> Nat]
  BY DEF InboundInv, PeerType
<1>2. DOMAIN scorer \subseteq Names
  BY DEF InboundInv, Spoken
<1> QED
  BY <1>1, <1>2 DEF TypeOK, TypeInv, SlotsTyped, DialsTyped, TimersTyped, ScoresTyped

LEMMA TypeInit ==
  ASSUME Init
  PROVE  TypeInv
<1>1. SlotsTyped(slots) /\ known \subseteq Names /\ TimersTyped(timers) /\ hung \in BOOLEAN
  BY ConnectionsAssumption DEF Init, SlotsTyped, TimersTyped
<1>2. dialing \in [Names -> [0..MaxRetries -> 0..MaxDials]]
  BY ConnectionsAssumption DEF Init
<1>3. dialAge \in [Names -> 0..Cooldown] /\ quarantine \in [Names -> 0..QuarantineTime]
  BY Constants DEF Init
<1>4. ScoresTyped(scorer) /\ heartbeatIn \in 0..HeartbeatInterval
  BY Constants DEF Init, ScoresTyped
<1> QED
  BY <1>1, <1>2, <1>3, <1>4 DEF TypeInv, DialsTyped

\* The end of a dial.
LEMMA TypeDialled ==
  ASSUME TypeInv, NEW e \in Names, NEW k \in 0..MaxRetries,
         connected(e, k) \/ retryConnect(e, k)
  PROVE  TypeInv'
<1>1. dialing' \in [Names -> [0..MaxRetries -> 0..MaxDials]]
  <2>0. MaxDials \in Nat /\ dialing \in [Names -> [0..MaxRetries -> 0..MaxDials]]
    BY ConnectionsAssumption DEF TypeInv, DialsTyped
  <2>1. /\ dialing[e][k] > 0 /\ dialing[e][k] \in 0..MaxDials
        /\ dialing' = [dialing EXCEPT ![e][k] = @ - 1]
    BY <2>0 DEF connected, retryConnect, Dialled
  <2>2. dialing[e][k] - 1 \in 0..MaxDials
    BY <2>0, <2>1
  <2> QED
    BY <2>0, <2>1, <2>2
<1>2. DialsTyped'
  BY <1>1 DEF connected, retryConnect, TypeInv, DialsTyped
<1>3. CASE connected(e, k)
  <2>1. SlotsTyped(slots')
    BY <1>3, SlotsStay DEF connected, TypeInv
  <2>2. ScoresTyped(scorer')
    BY <1>3, ScoresStay DEF connected, TypeInv
  <2>3. known' \subseteq Names
    BY <1>3 DEF connected, TypeInv
  <2> QED
    BY <1>2, <1>3, <2>1, <2>2, <2>3 DEF connected, TypeInv
<1>4. CASE retryConnect(e, k)
  <2>1. quarantine' \in [Names -> 0..QuarantineTime]
    <3>1. QuarantineTime \in 0..QuarantineTime
      BY Constants
    <3> QED
      BY <1>4, <3>1 DEF retryConnect, TypeInv
  <2>2. TimersTyped(timers')
    <3>1. RetryDelays[k] \subseteq Nat
      BY ConnectionsAssumption
    <3> QED
      BY <1>4, <3>1 DEF retryConnect, TypeInv, TimersTyped
  <2> QED
    BY <1>2, <1>4, <2>1, <2>2 DEF retryConnect, TypeInv
<1> QED
  BY <1>3, <1>4

LEMMA TypeRetry ==
  ASSUME TypeInv, NEW t \in timers, retryTimer(t)
  PROVE  TypeInv'
<1>1. DialsTyped'
  BY FS_Singleton, DialStays DEF retryTimer, TypeInv
<1> QED
  BY <1>1 DEF retryTimer, TypeInv, TimersTyped

LEMMA TypeAccept ==
  ASSUME TypeInv, NEW e \in Ephemeral, doAccept(e)
  PROVE  TypeInv'
<1>1. SlotsTyped(slots') /\ known' \subseteq Names
  BY SlotsStay DEF doAccept, TypeInv, Ephemeral
<1> QED
  BY <1>1 DEF doAccept, TypeInv, DialsTyped

LEMMA TypeMessage ==
  ASSUME TypeInv, NEW i \in DOMAIN peers,
         \/ close(i) \/ handlePong(i) \/ handleRequest(i) \/ handleValid(i)
         \/ \E e, x \in Told : handleNodeAnnounce(i, e, x) \/ handleRegisterNode(i, x)
  PROVE  TypeInv'
<1>1. Told \subseteq Names
  BY ConnectionsAssumption
<1>2. known' \subseteq Names
  BY <1>1 DEF TypeInv, close, handleNodeAnnounce, handlePong, handleRegisterNode, handleRequest,
     handleValid
<1>3. ScoresTyped(scorer')
  BY ScoresStay DEF TypeInv, close, handleNodeAnnounce, handlePong, handleRegisterNode,
     handleRequest, handleValid
<1>4. UNCHANGED <<slots, dialing, timers, dialAge, quarantine, heartbeatIn, hung>>
  BY DEF close, handleNodeAnnounce, handlePong, handleRegisterNode, handleRequest, handleValid
<1> QED
  BY <1>2, <1>3, <1>4 DEF TypeInv, DialsTyped

LEMMA TypeBan ==
  ASSUME TypeInv, NEW i \in DOMAIN peers,
         \/ removePeer(i)
         \/ \E b, seen \in BOOLEAN : penalizePeerByEndpoint(i, b, seen)
  PROVE  TypeInv'
<1>1. QuarantineTime \in 0..QuarantineTime
  BY Constants
<1>2. \A e : [quarantine EXCEPT ![e] = QuarantineTime] \in [Names -> 0..QuarantineTime]
  BY <1>1 DEF TypeInv
<1>3. CASE removePeer(i)
  BY <1>2, <1>3, SlotsStay DEF removePeer, TypeInv, DialsTyped
<1>4. ASSUME NEW b \in BOOLEAN, NEW seen \in BOOLEAN, penalizePeerByEndpoint(i, b, seen)
      PROVE  TypeInv'
  <2>1. ScoresTyped(scorer')
    BY <1>4, ScoresStay DEF penalizePeerByEndpoint, TypeInv
  <2>2. quarantine' \in [Names -> 0..QuarantineTime] /\ SlotsTyped(slots')
    BY <1>2, <1>4, SlotsStay DEF penalizePeerByEndpoint, TypeInv
  <2> QED
    BY <1>4, <2>1, <2>2 DEF penalizePeerByEndpoint, TypeInv, DialsTyped
<1> QED
  BY <1>3, <1>4

LEMMA TypeExpand ==
  ASSUME TypeInv,
         \/ \E i \in DOMAIN peers, S \in SUBSET Told : handleReceivedPeers(i, S)
         \/ gossipTimer \/ peerRotationTimer
  PROVE  TypeInv'
<1>1. ASSUME NEW i \in DOMAIN peers, NEW S \in SUBSET Told, handleReceivedPeers(i, S)
      PROVE  TypeInv'
  <2>1. known' \subseteq Names /\ attemptRandomPeerExpansion(known')
    BY <1>1, ConnectionsAssumption DEF handleReceivedPeers, TypeInv
  <2>2. DialsTyped'
    BY <2>1, ExpansionStays DEF TypeInv
  <2>3. ScoresTyped(scorer')
    BY <1>1, ScoresStay DEF handleReceivedPeers, TypeInv
  <2> QED
    BY <1>1, <2>1, <2>2, <2>3 DEF handleReceivedPeers, TypeInv
<1>2. CASE gossipTimer \/ peerRotationTimer
  <2>1. DialsTyped'
    BY <1>2, ExpansionStays DEF gossipTimer, peerRotationTimer, TypeInv
  <2>2. ScoresTyped(scorer')
    BY <1>2, ScoresStay DEF gossipTimer, peerRotationTimer, TypeInv
  <2> QED
    BY <1>2, <2>1, <2>2 DEF gossipTimer, peerRotationTimer, TypeInv
<1> QED
  BY <1>1, <1>2

LEMMA TypeHeartbeat ==
  ASSUME TypeInv, heartbeat
  PROVE  TypeInv'
<1>1. ScoresTyped(scorer')
  BY EntryTyped DEF heartbeat, TypeInv, ScoresTyped
<1>2. SlotsTyped(slots')
  BY SlotsStay DEF heartbeat, TypeInv
<1>3. quarantine' \in [Names -> 0..QuarantineTime] /\ heartbeatIn' \in 0..HeartbeatInterval
  <2>1. /\ QuarantineTime \in 0..QuarantineTime
        /\ HeartbeatInterval \in 0..HeartbeatInterval
    BY Constants
  <2> QED
    BY <2>1 DEF heartbeat, TypeInv
<1> QED
  BY <1>1, <1>2, <1>3 DEF heartbeat, TypeInv, DialsTyped

\* Ages and times left stay within their limits.
LEMMA Clamps ==
  ASSUME NEW n \in Nat, NEW a \in 0..n
  PROVE  Max({a - 1, 0}) \in 0..n /\ Min({a + 1, n}) \in 0..n
<1>1. a - 1 \in Int /\ 0 \in Int /\ a + 1 \in Int /\ n \in Int
  OBVIOUS
<1>2. /\ Max({a - 1, 0}) = IF a - 1 >= 0 THEN a - 1 ELSE 0
      /\ Min({a + 1, n}) = IF a + 1 <= n THEN a + 1 ELSE n
  BY <1>1, MinMaxOfTwo
<1> QED
  BY <1>2

LEMMA TypeTick ==
  ASSUME TypeInv, Tick
  PROVE  TypeInv'
<1>1. heartbeatIn' \in 0..HeartbeatInterval
  BY Constants, Clamps DEF Tick, TypeInv
<1>2. TimersTyped(timers')
  <2>1. ASSUME NEW n \in Nat PROVE Max({n - 1, 0}) \in Nat
    <3>1. n \in 0..n
      OBVIOUS
    <3>2. Max({n - 1, 0}) \in 0..n
      BY <3>1, Clamps
    <3> QED
      BY <3>2
  <2> DEFINE T == [endpoint: Names, attempt: 0..MaxRetries, left: Nat]
             Aged(t) == [t EXCEPT !.left = Max({@ - 1, 0})]
  <2>2. ASSUME NEW t \in T PROVE Aged(t) \in T
    <3>1. Max({t.left - 1, 0}) \in Nat
      BY <2>1
    <3> QED
      BY <3>1
  <2>3. timers \subseteq T /\ timers' = {Aged(t) : t \in timers}
    BY DEF Tick, TypeInv, TimersTyped
  <2> HIDE DEF Aged, T
  <2>4. timers' \subseteq T
    BY <2>2, <2>3
  <2> QED
    BY <2>4 DEF TimersTyped, T
<1>3. dialAge' \in [Names -> 0..Cooldown]
  BY Constants, Clamps DEF Tick, TypeInv, DialsTyped
<1>4. quarantine' \in [Names -> 0..QuarantineTime]
  BY Constants, Clamps DEF Tick, TypeInv
<1>5. ScoresTyped(scorer')
  <2>1. ASSUME NEW i \in PeerInfo
        PROVE  [i EXCEPT !.pingAge = IF i.pending THEN Min({@ + 1, HeartbeatTimeout + 1}) ELSE 0,
                         !.seenAge = Min({@ + 1, StaleTime + 1})] \in PeerInfo
    <3>1. PICK n \in 0..(HeartbeatTimeout + 1) : n = Min({i.pingAge + 1, HeartbeatTimeout + 1})
      <4>1. HeartbeatTimeout + 1 \in Nat /\ i.pingAge \in 0..(HeartbeatTimeout + 1)
        BY Constants DEF PeerInfo
      <4> QED
        BY <4>1, Clamps
    <3>2. PICK m \in 0..(StaleTime + 1) : m = Min({i.seenAge + 1, StaleTime + 1})
      <4>1. StaleTime + 1 \in Nat /\ i.seenAge \in 0..(StaleTime + 1)
        BY Constants DEF PeerInfo
      <4> QED
        BY <4>1, Clamps
    <3> QED
      BY <3>1, <3>2, ZerosTyped DEF PeerInfo
  <2> QED
    BY <2>1 DEF Tick, TypeInv, ScoresTyped
<1> QED
  BY <1>1, <1>2, <1>3, <1>4, <1>5 DEF Tick, TypeInv, DialsTyped

LEMMA TypeNext ==
  ASSUME TypeInv, InboundInv, [Next]_vars
  PROVE  TypeInv'
<1>1. CASE UNCHANGED vars
  BY <1>1 DEF TypeInv, DialsTyped, vars
<1>2. CASE Next
  BY <1>2, TypeDialled, TypeRetry, TypeAccept, TypeMessage, TypeBan, TypeExpand, TypeHeartbeat,
     TypeTick DEF Next
<1> QED
  BY <1>1, <1>2

-----------------------------------------------------------------------------
(* Theorems *)

\* For any limit, other nodes, messages and times, at most MaxInbound connections are
\* open from names that nobody announced: ConnectionManager gives a slot back by the
\* name a connection has when it is cleaned up, banned or timed out, and that name,
\* when it is the one under which another inbound connection took its slot, was told
\* by some NODE_ANNOUNCE.
THEOREM InboundLimitHolds == Spec => []InboundBounded
<1>1. Init => InboundInv
  BY InboundInit
<1>2. InboundInv /\ [Next]_vars => InboundInv'
  BY InboundNext
<1>3. InboundInv => InboundBounded
  BY SlotEach
<1> QED
  BY <1>1, <1>2, <1>3, PTL DEF Spec

\* Every variable keeps its type: a name has one slot at most although slots are
\* registered and given back under changing names, scores are capped, the dials under
\* way are counted right, and times stay within their limits.
THEOREM ConnectionsTypeCorrect == Spec => []TypeOK
<1>1. Init => TypeInv /\ InboundInv
  BY TypeInit, InboundInit
<1>2. TypeInv /\ InboundInv /\ [Next]_vars => (TypeInv /\ InboundInv)'
  BY TypeNext, InboundNext
<1>3. TypeInv /\ InboundInv => TypeOK
  BY TypesFollow
<1> QED
  BY <1>1, <1>2, <1>3, PTL DEF Spec

=============================================================================
