---------------------------- MODULE Connections ----------------------------
(***************************************************************************)
(* How one node keeps its connections (src/network): dialling, retries and *)
(* quarantine (Node, PeerManager), slots (ConnectionManager), scores, bans *)
(* and heartbeats (PeerScorer).  The other nodes are the environment: they *)
(* connect, answer, misbehave, fall silent and go away as they like.       *)
(*                                                                         *)
(* A handler is one action: it takes the locks of these classes one after  *)
(* the other, but what it decides is decided under one of them.  Dialling  *)
(* is not: connectToPeer checks the limits, and the connection is added    *)
(* when async_connect completes.  Times are kept as ages and as time left, *)
(* and ages that have reached their limit stay there.  What a node says of *)
(* itself or of others is any name, true or not.  Once a thread is stuck   *)
(* in peersMutex_ the others follow it at their next use of the mutex;     *)
(* what they still do before that is left out.                             *)
(***************************************************************************)
EXTENDS Integers, SequencesExt

CONSTANTS
  Hosts, Ports,    \* addresses and ports
  Endpoints,       \* host:port on which the other nodes listen
  Told,            \* host:port that messages may name
  Unknown,         \* what getEndpoint returns for a closed socket
  MaxOutbound, MaxInbound,                \* maxOutboundPeers, maxInboundPeers
  InitialScore, MaxScore, UnbanScore,     \* INITIAL_SCORE, 200, BAN_THRESHOLD + 20
  TxPenalty, BlockPenalty, RapidPenalty,  \* what the PENALTY_ constants take off
  RapidCount,      \* the number of invalid blocks that is penalised once more
  HeartbeatInterval, HeartbeatTimeout, QuarantineTime, Cooldown, StaleTime,
  RetryDelays,     \* RetryDelays[k]: delays after attempt k, backoff and jitter
  MaxRetries,
  MaxPeers,        \* bound on the length of peers_
  MaxDials,        \* bound on the number of dials under way
  MaxTimers,       \* bound on the number of retries that wait when new dials begin
  MaxAnnounces     \* bound on how often a name is announced

\* makeEndpoint.
Names == Hosts \X Ports

\* A connection comes from a port on which nobody listens.
Ephemeral == Names \ Endpoints

BanThreshold == 0

ASSUME ConnectionsAssumption ==
  /\ Ports \subseteq Nat \ {0} /\ IsFiniteSet(Names)
  /\ Endpoints \subseteq Names /\ Told \subseteq Names /\ Unknown \notin Names
  /\ MaxOutbound \in Nat /\ MaxInbound \in Nat
  /\ InitialScore \in Nat \ {0} /\ MaxScore \in Nat /\ InitialScore <= MaxScore
  /\ {TxPenalty, BlockPenalty, RapidPenalty, RapidCount} \subseteq Nat
  /\ {HeartbeatInterval, HeartbeatTimeout, QuarantineTime, Cooldown, StaleTime} \subseteq Nat
  /\ MaxRetries \in Nat /\ MaxDials \in Nat
  /\ RetryDelays \in [0..MaxRetries -> SUBSET Nat]

VARIABLES
  peers,        \* peers_: every connection, closed ones too until a clean-up
  slots,        \* ConnectionManager::peers_: a set of names with directions
  known,        \* knownPeers_
  dialing,      \* dialing[e][k]: number of attempts k at e under way
  timers,       \* retry timers that are running
  dialAge,      \* time since lastDialAttempt_, Cooldown at most
  quarantine,   \* time left in quarantine
  scorer,       \* PeerScorer::peers_: a function on the endpoints registered
  heartbeatIn,  \* time until the heartbeat timer fires
  hung,         \* a thread waits for peersMutex_, which it holds itself
  announced     \* history: how often NODE_ANNOUNCE messages told each name

vars == <<peers, slots, known, dialing, timers, dialAge, quarantine, scorer,
          heartbeatIn, hung, announced>>

-----------------------------------------------------------------------------
(* Peer *)

\* host and port are those of the socket; listen is knownListenPort_, 0 at first.
Outbound(e) == [host |-> e[1], port |-> e[2], listen |-> e[2], dir |-> "out", open |-> TRUE]
Inbound(e) == [host |-> e[1], port |-> e[2], listen |-> 0, dir |-> "in", open |-> TRUE]

\* Nothing else is read of a peer that is not connected.
Closed == [open |-> FALSE]

Socket(p) == <<p.host, p.port>>

\* The listen port, once it is told, takes the place of the ephemeral one.  A
\* closed socket has no remote endpoint.
getEndpoint(p) ==
  IF ~p.open THEN Unknown ELSE <<p.host, IF p.listen > 0 THEN p.listen ELSE p.port>>

OpenPeers == {i \in DOMAIN peers : peers[i].open}
getPeerList == {getEndpoint(peers[i]) : i \in OpenPeers}

\* Only ports are compared.
isAlreadyConnected(e) ==
  \E i \in OpenPeers : e[2] \in {peers[i].port, peers[i].listen}

\* close() on the first peer of that name.
closeFirst(e) ==
  LET I == {i \in DOMAIN peers : getEndpoint(peers[i]) = e}
  IN  IF I = {} THEN peers ELSE [peers EXCEPT ![Min(I)] = Closed]

\* Erasing the closed ones.
KeepOpen(s, p) == IF p.open THEN Append(s, p) ELSE s
onlyOpen(s) == FoldLeft(KeepOpen, <<>>, s)

-----------------------------------------------------------------------------
(* ConnectionManager *)

\* Mutation: the limit is off by one.
canAcceptOneMore(dir) ==
  Cardinality({s \in slots : s.dir = dir}) <= IF dir = "in" THEN MaxInbound ELSE MaxOutbound

canAccept(dir) ==
  Cardinality({s \in slots : s.dir = dir}) < IF dir = "in" THEN MaxInbound ELSE MaxOutbound

unregister(S) == {s \in slots : s.name \notin S}
register(e, dir) == unregister({e}) \cup {[name |-> e, dir |-> dir]}

-----------------------------------------------------------------------------
(* PeerScorer *)

getScore(e) == IF e \in DOMAIN scorer THEN scorer[e].score ELSE 0
isBanned(e) == e \in DOMAIN scorer /\ scorer[e].banned

Unscored == [score |-> InitialScore, blocks |-> 0, banned |-> FALSE,
             pending |-> FALSE, pingAge |-> 0, seenAge |-> 0]

addPeer(sc, e) ==
  [x \in DOMAIN sc \cup {e} |-> IF x \in DOMAIN sc THEN sc[x] ELSE Unscored]

\* f applied to the entry of e, if there is one.
Updated(sc, e, f(_)) == [x \in DOMAIN sc |-> IF x = e THEN f(sc[x]) ELSE sc[x]]

markSeen(sc, e) == Updated(sc, e, LAMBDA i : [i EXCEPT !.seenAge = 0])

markPongReceived(sc, e) ==
  Updated(sc, e, LAMBDA i : [i EXCEPT !.pending = FALSE, !.pingAge = 0, !.seenAge = 0])

\* Mutation: every ping restarts the clock.
PingedAgain(i) == [i EXCEPT !.pending = TRUE, !.pingAge = 0]

\* A ping that is not answered yet keeps its time.
Pinged(i) == IF i.pending THEN i ELSE [i EXCEPT !.pending = TRUE, !.pingAge = 0]

\* Mutation: the score is not capped.
rewardPeerUncapped(sc, e) ==
  Updated(sc, e, LAMBDA i : [i EXCEPT !.score = @ + 1])

\* A banned peer may be unbanned here, but handleMessage no longer listens to it.
rewardPeer(sc, e) ==
  Updated(sc, e, LAMBDA i :
    LET s == Min({i.score + 1, MaxScore})
    IN  IF i.banned /\ s > UnbanScore
        THEN [i EXCEPT !.score = s, !.banned = FALSE, !.blocks = 0]
        ELSE [i EXCEPT !.score = s])

\* Counting stops one above RapidCount.
Penalised(i, block) ==
  LET n == IF block THEN Min({i.blocks + 1, RapidCount + 1}) ELSE i.blocks
      s == i.score - (IF block THEN BlockPenalty ELSE TxPenalty)
                   - (IF block /\ n = RapidCount THEN RapidPenalty ELSE 0)
  IN  [i EXCEPT !.score = s, !.blocks = n, !.banned = @ \/ s <= BanThreshold]

penalizePeer(sc, e, block) == Updated(sc, e, LAMBDA i : Penalised(i, block))

evictStalePeers(sc) == [e \in {x \in DOMAIN sc : sc[x].seenAge <= StaleTime} |-> sc[e]]

-----------------------------------------------------------------------------
(* Making room: the open peer with the lowest score is closed.  Its slot is *)
(* not given back.                                                         *)

LowestScore ==
  {i \in OpenPeers : \A j \in OpenPeers :
     getScore(getEndpoint(peers[i])) <= getScore(getEndpoint(peers[j]))}

dropLowestScorePeer ==
  IF OpenPeers = {} THEN peers ELSE closeFirst(getEndpoint(peers[Min(LowestScore)]))

-----------------------------------------------------------------------------
(* Dialling *)

\* The checks of connectToPeer before it looks for a slot.
mayDial(e) ==
  /\ ~isAlreadyConnected(e)
  /\ dialAge[e] >= Cooldown
  /\ quarantine[e] = 0
  /\ ~isBanned(e)

Dials == SumFunction([e \in Names |-> SumFunction(dialing[e])])

\* connectToPeer for attempt number k at each of the endpoints in D.
connectToPeer(D, k) ==
  LET now == {e \in D : mayDial(e)}
  IN  \/ /\ canAccept("out")
         /\ Dials + Cardinality(now) <= MaxDials
         /\ dialing' = [e \in Names |-> IF e \in now THEN [dialing[e] EXCEPT ![k] = @ + 1]
                                                   ELSE dialing[e]]
         /\ dialAge' = [e \in Names |-> IF e \in now THEN 0 ELSE dialAge[e]]
         /\ UNCHANGED peers
      \/ /\ ~canAccept("out")
         /\ peers' = IF now = {} THEN peers ELSE dropLowestScorePeer
         /\ UNCHANGED <<dialing, dialAge>>

\* attemptRandomPeerExpansion, with K known: dials under way have no slot yet.
attemptRandomPeerExpansion(K) ==
  LET out == Cardinality({s \in slots : s.dir = "out"})
      candidates == {e \in K \ getPeerList : quarantine[e] = 0}
      needed == Max({MaxOutbound - out, 2})
  IN  \/ out >= MaxOutbound /\ UNCHANGED <<peers, dialing, dialAge>>
      \/ /\ out < MaxOutbound /\ Cardinality(timers) < MaxTimers
         /\ \E D \in kSubset(Min({needed, Cardinality(candidates)}), candidates) :
              connectToPeer(D, 0)

Dialled(e, k) ==
  /\ dialing[e][k] > 0
  /\ dialing' = [dialing EXCEPT ![e][k] = @ - 1]

\* async_connect succeeds: only now does the connection take a slot.
connected(e, k) ==
  /\ ~hung
  /\ e \in Endpoints /\ Dialled(e, k) /\ Len(peers) < MaxPeers
  /\ scorer' = addPeer(scorer, e)
  /\ known' = known \cup {e}
  /\ peers' = Append(peers, Outbound(e))
  /\ slots' = register(e, "out")
  /\ UNCHANGED <<timers, dialAge, quarantine, heartbeatIn, hung, announced>>

\* async_resolve or async_connect fails: retryConnect.
retryConnect(e, k) ==
  /\ Dialled(e, k)
  /\ \/ /\ k >= MaxRetries
        /\ quarantine' = [quarantine EXCEPT ![e] = QuarantineTime]
        /\ UNCHANGED timers
     \/ /\ k < MaxRetries
        /\ \E d \in RetryDelays[k] :
             timers' = timers \cup {[endpoint |-> e, attempt |-> k, left |-> d]}
        /\ UNCHANGED quarantine
  /\ UNCHANGED <<peers, slots, known, dialAge, scorer, heartbeatIn, hung, announced>>

\* A retry that comes within the cooldown, or finds no slot, is the last one.
retryTimer(t) ==
  /\ ~hung
  /\ t.left = 0
  /\ timers' = timers \ {t}
  /\ connectToPeer({t.endpoint}, t.attempt + 1)
  /\ UNCHANGED <<slots, known, quarantine, scorer, heartbeatIn, hung, announced>>

-----------------------------------------------------------------------------
(* Connections of other nodes *)

\* doAccept, of a connection from e: the listen port has not been told yet.
doAccept(e) ==
  /\ ~hung
  /\ \A i \in OpenPeers : Socket(peers[i]) # e
  /\ \/ /\ canAccept("in") /\ Len(peers) < MaxPeers
        /\ peers' = Append(peers, Inbound(e))
        /\ known' = known \cup {e}
        /\ slots' = register(e, "in")
     \/ /\ ~canAccept("in")
        /\ peers' = dropLowestScorePeer
        /\ UNCHANGED <<known, slots>>
  /\ UNCHANGED <<dialing, timers, dialAge, quarantine, scorer, heartbeatIn, hung, announced>>

\* The other side, or the network, ends the connection; or a read fails.
close(i) ==
  /\ peers[i].open
  /\ peers' = [peers EXCEPT ![i] = Closed]
  /\ UNCHANGED <<slots, known, dialing, timers, dialAge, quarantine, scorer,
                 heartbeatIn, hung, announced>>

-----------------------------------------------------------------------------
(* handleMessage, for a message of peer i                                  *)

\* removePeer locks peersMutex_ and then calls refreshMetrics, which locks it
\* again: std::mutex is not recursive, so the thread never returns.  The
\* connection is not closed.
removePeer(i) ==
  LET e == getEndpoint(peers[i])
  IN  /\ ~hung
      /\ peers[i].open /\ isBanned(e)
      /\ quarantine' = [quarantine EXCEPT ![e] = QuarantineTime]
      /\ slots' = unregister({e})
      /\ peers' = onlyOpen([peers EXCEPT ![i] = Closed])
      /\ hung' = TRUE
      /\ UNCHANGED <<known, dialing, timers, dialAge, scorer, heartbeatIn, announced>>

Handling(i) == ~hung /\ peers[i].open /\ ~isBanned(getEndpoint(peers[i]))

\* publicIp:port is e and endpoint is x.  Neither is compared with the socket: from
\* now on the peer goes by the port of e, and e, which may be another name than
\* that, has a score.  Without publicIp or port only endpoint is remembered, and
\* without endpoint nothing: see handleRegisterNode and handleRequest.
handleNodeAnnounce(i, e, x) ==
  /\ Handling(i) /\ announced[e] < MaxAnnounces
  /\ peers' = [peers EXCEPT ![i].listen = e[2]]
  /\ scorer' = addPeer(markSeen(scorer, getEndpoint(peers[i])), e)
  /\ known' = known \cup {e, x}
  /\ announced' = [announced EXCEPT ![e] = @ + 1]
  /\ UNCHANGED <<slots, dialing, timers, dialAge, quarantine, heartbeatIn, hung>>

\* endpoint is x, which need not be the peer.
handleRegisterNode(i, x) ==
  /\ Handling(i)
  /\ scorer' = markSeen(scorer, getEndpoint(peers[i]))
  /\ known' = known \cup {x}
  /\ UNCHANGED <<peers, slots, dialing, timers, dialAge, quarantine,
                 heartbeatIn, hung, announced>>

handlePong(i) ==
  /\ Handling(i)
  /\ scorer' = markPongReceived(scorer, getEndpoint(peers[i]))
  /\ UNCHANGED <<peers, slots, known, dialing, timers, dialAge, quarantine,
                 heartbeatIn, hung, announced>>

\* A transaction or block that is accepted, a chain that is adopted.
handleValid(i) ==
  /\ Handling(i)
  /\ scorer' = rewardPeer(markSeen(scorer, getEndpoint(peers[i])), getEndpoint(peers[i]))
  /\ UNCHANGED <<peers, slots, known, dialing, timers, dialAge, quarantine,
                 heartbeatIn, hung, announced>>

\* PING and the requests only show that the peer is there.
handleRequest(i) ==
  /\ Handling(i)
  /\ scorer' = markSeen(scorer, getEndpoint(peers[i]))
  /\ UNCHANGED <<peers, slots, known, dialing, timers, dialAge, quarantine,
                 heartbeatIn, hung, announced>>

\* penalizePeerByEndpoint, for a transaction that is refused or does not parse, a
\* block or chain that does not parse (block), or too many messages (~seen).
penalizePeerByEndpoint(i, block, seen) ==
  LET e == getEndpoint(peers[i])
      sc == penalizePeer(IF seen THEN markSeen(scorer, e) ELSE scorer, e, block)
      ban == e \in DOMAIN sc /\ sc[e].score <= BanThreshold
  IN  /\ Handling(i)
      /\ scorer' = sc
      /\ peers' = IF ban THEN closeFirst(e) ELSE peers
      /\ quarantine' = IF ban THEN [quarantine EXCEPT ![e] = QuarantineTime] ELSE quarantine
      /\ slots' = IF ban THEN unregister({e}) ELSE slots
      /\ UNCHANGED <<known, dialing, timers, dialAge, heartbeatIn, hung, announced>>

\* A list of peers: new ones are remembered, and some are dialled.
handleReceivedPeers(i, S) ==
  LET K == known \cup {e \in S : ~isBanned(e) /\ quarantine[e] = 0}
  IN  /\ Handling(i)
      /\ scorer' = markSeen(scorer, getEndpoint(peers[i]))
      /\ known' = K
      /\ attemptRandomPeerExpansion(K)
      /\ UNCHANGED <<slots, timers, quarantine, heartbeatIn, hung, announced>>

-----------------------------------------------------------------------------
(* Timers *)

\* Closed connections are cleaned up, under the name they have now; the others
\* are pinged; who has not answered for too long is closed and quarantined.
heartbeat ==
  LET alive == onlyOpen(peers)
      sc == [e \in DOMAIN scorer |-> IF e \in getPeerList THEN Pinged(scorer[e]) ELSE scorer[e]]
      late == {e \in DOMAIN sc : sc[e].pending /\ sc[e].pingAge > HeartbeatTimeout}
  IN  /\ ~hung
      /\ heartbeatIn = 0
      /\ heartbeatIn' = HeartbeatInterval
      /\ scorer' = sc
      /\ peers' = [i \in DOMAIN alive |->
                     IF getEndpoint(alive[i]) \in late THEN Closed ELSE alive[i]]
      /\ slots' = unregister(late \cup {Unknown})
      /\ quarantine' = [e \in Names |-> IF e \in late \cap getPeerList THEN QuarantineTime
                                                                      ELSE quarantine[e]]
      /\ UNCHANGED <<known, dialing, timers, dialAge, hung, announced>>

gossipTimer ==
  /\ ~hung
  /\ attemptRandomPeerExpansion(known)
  /\ scorer' = evictStalePeers(scorer)
  /\ UNCHANGED <<slots, known, timers, quarantine, heartbeatIn, hung, announced>>

peerRotationTimer ==
  /\ ~hung
  /\ attemptRandomPeerExpansion(known)
  /\ UNCHANGED <<slots, known, timers, quarantine, scorer, heartbeatIn, hung, announced>>

\* Timers that are due run before time goes on.
Tick ==
  /\ heartbeatIn > 0 \/ hung
  /\ \A t \in timers : t.left > 0 \/ hung
  /\ heartbeatIn' = Max({heartbeatIn - 1, 0})
  /\ timers' = {[t EXCEPT !.left = Max({@ - 1, 0})] : t \in timers}
  /\ dialAge' = [e \in Names |-> Min({dialAge[e] + 1, Cooldown})]
  /\ quarantine' = [e \in Names |-> Max({quarantine[e] - 1, 0})]
  /\ scorer' = [e \in DOMAIN scorer |->
                  [scorer[e] EXCEPT !.pingAge = IF scorer[e].pending
                                                THEN Min({@ + 1, HeartbeatTimeout + 1}) ELSE 0,
                                    !.seenAge = Min({@ + 1, StaleTime + 1})]]
  /\ UNCHANGED <<peers, slots, known, dialing, hung, announced>>

-----------------------------------------------------------------------------
Init ==
  /\ peers = <<>> /\ slots = {} /\ timers = {} /\ hung = FALSE
  /\ known \in SUBSET Endpoints
  /\ dialing = [e \in Names |-> [k \in 0..MaxRetries |-> 0]]
  /\ dialAge = [e \in Names |-> Cooldown]
  /\ quarantine = [e \in Names |-> 0]
  /\ scorer = [e \in {} |-> Unscored]
  /\ heartbeatIn = HeartbeatInterval
  /\ announced = [e \in Names |-> 0]

Next ==
  \/ \E e \in Names, k \in 0..MaxRetries : connected(e, k) \/ retryConnect(e, k)
  \/ \E t \in timers : retryTimer(t)
  \/ \E e \in Ephemeral : doAccept(e)
  \/ \E i \in DOMAIN peers :
       \/ close(i) \/ removePeer(i) \/ handlePong(i) \/ handleRequest(i) \/ handleValid(i)
       \/ \E e, x \in Told : handleNodeAnnounce(i, e, x) \/ handleRegisterNode(i, x)
       \/ penalizePeerByEndpoint(i, TRUE, TRUE)
       \/ \E seen \in BOOLEAN : penalizePeerByEndpoint(i, FALSE, seen)
       \/ \E S \in SUBSET Told : handleReceivedPeers(i, S)
  \/ heartbeat \/ gossipTimer \/ peerRotationTimer \/ Tick

Spec == Init /\ [][Next]_vars

\* Timers fire, time passes, and a dial succeeds or fails in the end.  The other
\* nodes need not do anything.
Fairness ==
  /\ WF_vars(heartbeat)
  /\ WF_vars(Tick)
  /\ WF_vars(\E t \in timers : retryTimer(t))
  /\ WF_vars(\E e \in Names, k \in 0..MaxRetries : connected(e, k) \/ retryConnect(e, k))

FairSpec == Spec /\ Fairness

-----------------------------------------------------------------------------
(* Properties *)

Connection == [host: Hosts, port: Ports, listen: Ports \cup {0}, dir: {"in", "out"},
               open: {TRUE}]
PeerInfo == [score: {s \in Int : s <= MaxScore}, blocks: 0..(RapidCount + 1), banned: BOOLEAN,
             pending: BOOLEAN, pingAge: 0..(HeartbeatTimeout + 1), seenAge: 0..(StaleTime + 1)]

\* Every variable has its type: a name has one slot at most, scores are capped,
\* and no count of dials becomes negative.
TypeOK ==
  /\ \A i \in DOMAIN peers : peers[i] \in Connection \cup {Closed}
  /\ slots \subseteq [name: Names, dir: {"in", "out"}]
  /\ \A s, t \in slots : s.name = t.name => s = t
  /\ known \subseteq Names
  /\ dialing \in [Names -> [0..MaxRetries -> 0..MaxDials]]
  /\ timers \subseteq [endpoint: Names, attempt: 0..MaxRetries, left: Nat]
  /\ dialAge \in [Names -> 0..Cooldown]
  /\ quarantine \in [Names -> 0..QuarantineTime]
  /\ DOMAIN scorer \subseteq Names /\ \A e \in DOMAIN scorer : scorer[e] \in PeerInfo
  /\ heartbeatIn \in 0..HeartbeatInterval /\ hung \in BOOLEAN
  /\ announced \in [Names -> Nat]

OpenInbound == {i \in OpenPeers : peers[i].dir = "in"}

\* The limit on inbound connections holds for every connection from a name that
\* nobody announced: although connections change their names and slots are given
\* back by name, in clean-ups, bans and timeouts, such a connection keeps its slot
\* as long as it is open.  It is not a hard limit: when a peer announces the port of a
\* connection, its own or another's, and is then banned or times out under that
\* name, the slot is given back while the connection is open.
InboundBounded ==
  Cardinality({i \in OpenInbound : announced[Socket(peers[i])] = 0}) <= MaxInbound

Unanswered(e) == e \in DOMAIN scorer /\ scorer[e].pending

\* A ping that is not answered leads to the end of every connection of that name,
\* although new pings are sent before the time for the old one is up: unless an
\* answer comes, the entry is evicted as stale, or the connections take other
\* names.  Only names with a score are pinged for: an inbound peer that never
\* announces itself has none.
SilentPeersClosed ==
  \A e \in Names : (Unanswered(e) /\ e \in getPeerList)
    ~> (~Unanswered(e) \/ e \notin getPeerList \/ hung)

=============================================================================
