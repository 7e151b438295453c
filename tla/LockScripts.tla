---------------------------- MODULE LockScripts -----------------------------
(***************************************************************************)
(* The mutexes that each handler of the node takes, in the order of the    *)
(* code.  A script is a sequence of lock and unlock steps; every lock in   *)
(* the code is a lock_guard, so scripts are built from nested sections.    *)
(* What the handlers do with the data is in the other modules; a handler   *)
(* that takes one mutex several times in a row, or in a loop, has one      *)
(* section for it here, and the writeMutex_ and rateMutex_ of all peers,   *)
(* of which no thread ever holds two, are one mutex each.  Handlers that   *)
(* only take mutexes one by one, as others do, are not repeated.           *)
(***************************************************************************)
EXTENDS Naturals, Sequences

\* The deepest nesting allowed: a thread that holds a mutex may wait only for
\* mutexes of higher rank.  chain is Blockchain::mutex_; peers, seen, write
\* and rate are peersMutex_, seenMutex_, writeMutex_ and rateMutex_; mining is
\* miningMutex_; the others are the mutex_ of the class they are named after.
Rank == [chain |-> 1, storage |-> 2, seen |-> 2, state |-> 3, peers |-> 3,
         write |-> 4, rate |-> 4, scorer |-> 4, peerManager |-> 4,
         connections |-> 4, bootstrap |-> 4, identity |-> 4, mining |-> 4,
         wallet |-> 4]

Mutexes == DOMAIN Rank

In(m, section) == <<[does |-> "lock", mutex |-> m]>> \o section
                    \o <<[does |-> "unlock", mutex |-> m]>>
Take(m) == In(m, <<>>)

-----------------------------------------------------------------------------
(* Peer and Node *)

send == Take("write")
broadcast == In("peers", send)
broadcastBlock == Take("seen") \o broadcast
broadcastTransaction == Take("seen") \o broadcast

refreshMetrics == Take("peers") \o Take("peerManager") \o Take("scorer")
rewardPeerByEndpoint == Take("scorer") \o refreshMetrics

\* Mutation: refreshMetrics is called in the scope of the lock.
penalizeRefreshInside ==
  Take("scorer") \o In("peers", Take("peerManager") \o Take("connections") \o refreshMetrics)

penalizePeerByEndpoint ==
  Take("scorer") \o In("peers", Take("peerManager") \o Take("connections"))
    \o refreshMetrics

\* refreshMetrics is called in the scope of the lock.
removePeer ==
  Take("peerManager") \o Take("connections") \o In("peers", refreshMetrics)

connectedPeerScores == Take("peers") \o Take("scorer")
sendNodeAnnounce == Take("identity") \o send

connectToPeer ==
  Take("peers") \o Take("peerManager") \o Take("scorer") \o Take("connections")
    \o connectedPeerScores \o Take("peers") \o Take("connections") \o Take("peerManager")

connected ==
  Take("scorer") \o Take("peerManager") \o Take("bootstrap") \o Take("peers")
    \o Take("connections") \o sendNodeAnnounce \o refreshMetrics

doAccept ==
  Take("connections") \o connectedPeerScores \o Take("peers") \o Take("connections")
    \o Take("peerManager") \o Take("bootstrap") \o Take("connections") \o Take("peers")
    \o sendNodeAnnounce \o refreshMetrics

attemptRandomPeerExpansion ==
  Take("connections") \o Take("peers") \o Take("identity") \o Take("peerManager")
    \o connectToPeer

handleReceivedPeers ==
  Take("identity") \o Take("scorer") \o Take("peerManager") \o Take("bootstrap")
    \o attemptRandomPeerExpansion \o refreshMetrics

gossipTimer ==
  Take("identity") \o broadcast \o attemptRandomPeerExpansion \o Take("scorer")
    \o refreshMetrics

heartbeatTimer ==
  In("peers", Take("connections")) \o Take("scorer") \o send \o Take("scorer")
    \o In("peers", Take("peerManager") \o Take("connections")) \o refreshMetrics

-----------------------------------------------------------------------------
(* Blockchain, which calls the node back while it holds its mutex. StateManager *)
(* locks its own mutex in its readers and in rebuildState; applyBlockState, by  *)
(* which a block is added to the state, takes none.                             *)

readChain == Take("chain")
readState == In("chain", Take("state"))
addTransaction == In("chain", Take("state") \o broadcastTransaction)
minePendingTransactions == In("chain", Take("storage") \o broadcastBlock)
acceptBlock == In("chain", Take("storage"))
replaceChain == In("chain", Take("state") \o Take("storage"))
persistChain == In("chain", Take("storage") \o In("storage", Take("state")))

-----------------------------------------------------------------------------
(* handleMessage, by the type of the message *)

message(body) ==
  Take("scorer") \o Take("rate") \o Take("seen") \o Take("scorer") \o body \o refreshMetrics

messageFromBanned == Take("scorer") \o removePeer
messageOverLimit == Take("scorer") \o Take("rate") \o penalizePeerByEndpoint

newTransaction ==
  Take("seen") \o addTransaction \o rewardPeerByEndpoint \o broadcast
newTransactionRejected ==
  Take("seen") \o addTransaction \o penalizePeerByEndpoint

\* Mutation: seenMutex_ is held until the block is accepted.
newBlockHoldingSeen ==
  In("seen", readChain \o acceptBlock) \o rewardPeerByEndpoint \o broadcast

newBlock ==
  Take("seen") \o readChain \o acceptBlock \o rewardPeerByEndpoint \o broadcast

requestChain == readChain \o send
responseChain == replaceChain \o rewardPeerByEndpoint
registerNode == Take("bootstrap") \o Take("peerManager") \o Take("bootstrap") \o send
nodeAnnounce == Take("scorer") \o Take("peerManager") \o Take("bootstrap")
requestPeers == Take("peerManager") \o Take("identity") \o Take("bootstrap") \o send

-----------------------------------------------------------------------------
(* The routes of HttpServer *)

handleMine ==
  Take("mining") \o readChain \o minePendingTransactions \o Take("mining") \o readState
handleSendTransaction == readState \o addTransaction \o readChain \o readState
handleGetWallet == readState \o readChain
handleVerifyLogin == Take("wallet")
handleHealth == readChain \o Take("peers") \o readChain
handleNetworkStats == Take("identity") \o Take("connections") \o Take("peerManager")

Scripts ==
  [writeCompletion |-> send,
   connectToPeer |-> connectToPeer, connected |-> connected, doAccept |-> doAccept,
   gossipTimer |-> gossipTimer, heartbeatTimer |-> heartbeatTimer,
   messageFromBanned |-> messageFromBanned, messageOverLimit |-> messageOverLimit,
   newTransaction |-> message(newTransaction),
   newTransactionRejected |-> message(newTransactionRejected),
   newBlock |-> message(newBlock),
   requestChain |-> message(requestChain), responseChain |-> message(responseChain),
   registerNode |-> message(registerNode), nodeAnnounce |-> message(nodeAnnounce),
   requestPeers |-> message(requestPeers), ping |-> message(send),
   receivedPeers |-> message(handleReceivedPeers),
   handleMine |-> handleMine, handleSendTransaction |-> handleSendTransaction,
   handleGetWallet |-> handleGetWallet, handleVerifyLogin |-> handleVerifyLogin,
   handleHealth |-> handleHealth, handleNetworkStats |-> handleNetworkStats,
   persistChain |-> persistChain]
=============================================================================
