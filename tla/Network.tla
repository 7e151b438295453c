------------------------------ MODULE Network ------------------------------
(***************************************************************************)
(* Node (src/network/node.cpp): how blocks, transactions and chains travel *)
(* between the nodes of module Blockchain.  Where Blockchain offers every  *)
(* chain to every node at any time, here a node sees only what a peer sent *)
(* it, in order, and what its duplicate filters let through.               *)
(*                                                                         *)
(* The handlers of different connections run on different threads; those   *)
(* of one connection run one after the other.  A handler is split where it *)
(* holds no lock between two steps that matter: the chain it looked at may *)
(* have changed when acceptBlock runs, and other threads may broadcast     *)
(* before it forwards or replies.  Mining and submitting broadcast from    *)
(* callbacks that run under the Blockchain's mutex_.                       *)
(*                                                                         *)
(* Heartbeats, peer lists and scores do not touch the chain and are not    *)
(* here; what they do to a connection is in LoseConnection, and the rate   *)
(* limit is in DropMessage.                                                *)
(***************************************************************************)
EXTENDS Blockchain

CONSTANTS
  Links,         \* <<d, a>>: d knows the address of a and dials it
  MinersOf,      \* MinersOf[n]: the addresses clients of n mine for
  DedupWindow,   \* dedupWindowSec
  MaxSeen,       \* the cap of seenTxIDs_ and of seenBlockHashes_
  MaxQueue,      \* MAX_WRITE_QUEUE
  FailureKinds,  \* which of "restart", "disconnect" and "drop" may happen
  MaxFailures    \* bound on the number of failures

ASSUME NetworkAssumption ==
  /\ MinersOf \in [Nodes -> SUBSET Accounts]
  /\ Links \subseteq {l \in Nodes \X Nodes : l[1] # l[2]}
  /\ DedupWindow \in Nat /\ MaxSeen \in Nat /\ MaxQueue \in Nat /\ MaxFailures \in Nat

VARIABLES
  connected,    \* the links that are up
  channel,      \* channel[<<m, n>>]: what m sent to n and n has not handled yet
  seenTxs,      \* seenTxIDs_ of each node
  seenBlocks,   \* seenBlockHashes_ of each node
  dedup,        \* messageDedup_ of each node: messages and their age
  handler,      \* handler[<<n, m>>]: what n has still to do for a message of m
  asked,        \* asked[n]: the timer of Node::start has fired
  relayed,      \* history: blocks each node has sent to its peers since it started
  failures      \* how many there have been

sessionVars == <<connected, channel, seenTxs, seenBlocks, dedup, handler, asked, relayed>>
netVars == <<vars, sessionVars, failures>>

Pairs == Nodes \X Nodes

NewTransaction(tx) == [type |-> "NEW_TRANSACTION", tx |-> tx]
NewBlock(b)        == [type |-> "NEW_BLOCK", block |-> b]
RequestChain       == [type |-> "REQUEST_CHAIN"]
ResponseChain(c)   == [type |-> "RESPONSE_CHAIN", blocks |-> c]

Idle == [step |-> "idle"]

-----------------------------------------------------------------------------
(* Peer::send and Node::broadcast *)

peers(n) == {m \in Nodes : <<n, m>> \in connected \/ <<m, n>> \in connected}

\* A full write queue drops the message.
enqueue(queue, msg) == IF Len(queue) < MaxQueue THEN Append(queue, msg) ELSE queue

send(n, to, msg) ==
  channel' = [e \in Pairs |-> IF e[1] = n /\ e[2] \in to \cap peers(n)
                              THEN enqueue(channel[e], msg) ELSE channel[e]]

\* Inserting into a seen set that is full erases the smallest hash, which may
\* be any of them, the new one included.
inserted(seen, x) ==
  IF Cardinality(seen \cup {x}) <= MaxSeen
  THEN {seen \cup {x}}
  ELSE {(seen \cup {x}) \ {y} : y \in seen \cup {x}}

sendBlock(n, to, b) ==
  /\ send(n, to, NewBlock(b))
  /\ relayed' = [relayed EXCEPT ![n] = @ \cup {b}]

broadcastTransaction(n, tx) ==
  \/ tx \in seenTxs[n] /\ UNCHANGED <<seenTxs, channel>>
  \/ /\ tx \notin seenTxs[n]
     /\ \E S \in inserted(seenTxs[n], tx) : seenTxs' = [seenTxs EXCEPT ![n] = S]
     /\ send(n, Nodes, NewTransaction(tx))

broadcastBlock(n, b) ==
  \/ b \in seenBlocks[n] /\ UNCHANGED <<seenBlocks, channel, relayed>>
  \/ /\ b \notin seenBlocks[n]
     /\ \E S \in inserted(seenBlocks[n], b) : seenBlocks' = [seenBlocks EXCEPT ![n] = S]
     /\ sendBlock(n, Nodes, b)

-----------------------------------------------------------------------------
(* HTTP requests of clients *)

submitTransaction(n, tx) ==
  /\ addTransaction(n, tx)
  /\ broadcastTransaction(n, tx)
  /\ UNCHANGED <<connected, seenBlocks, dedup, handler, asked, relayed, failures>>

mine(n, miner) ==
  /\ minePendingTransactions(n, miner)
  /\ broadcastBlock(n, newBlock(n, miner))
  /\ UNCHANGED <<connected, seenTxs, dedup, handler, asked, failures>>

-----------------------------------------------------------------------------
(* handleMessage: the duplicate filter, then one handler per message type  *)

Received(n, m) == Head(channel[<<m, n>>])

\* A message of any peer with the same type and contents came less than
\* DedupWindow ago: every REQUEST_CHAIN is the same message.
duplicate(n, msg) == \E e \in dedup[n] : e.msg = msg

\* Old entries are purged when they no longer count; the code keeps them a second
\* longer.
young(D) == {e \in D : e.age < DedupWindow}
recorded(n, msg) == young(dedup[n] \cup {[msg |-> msg, age |-> 0]})

\* What every message does first: it leaves the channel and passes the filter.
take(n, m, type) ==
  /\ channel[<<m, n>>] # <<>>
  /\ handler[<<n, m>>] = Idle
  /\ Received(n, m).type = type
  /\ ~duplicate(n, Received(n, m))
  /\ dedup' = [dedup EXCEPT ![n] = recorded(n, Received(n, m))]
  /\ UNCHANGED <<connected, asked, failures>>

\* The message of m leaves the channel, and msg is sent to the peers in to.
popAndSend(n, m, to, msg) ==
  channel' = [e \in Pairs |->
                LET q == IF e = <<m, n>> THEN Tail(channel[e]) ELSE channel[e]
                IN  IF e[1] = n /\ e[2] \in to \cap peers(n) THEN enqueue(q, msg) ELSE q]

Pop(n, m) == channel' = [channel EXCEPT ![<<m, n>>] = Tail(@)]

continue(n, m, todo) == handler' = [handler EXCEPT ![<<n, m>>] = todo]

dropDuplicate(n, m) ==
  /\ channel[<<m, n>>] # <<>>
  /\ handler[<<n, m>>] = Idle
  /\ duplicate(n, Received(n, m))
  /\ Pop(n, m)
  /\ UNCHANGED <<vars, connected, seenTxs, seenBlocks, dedup, handler, asked,
                 relayed, failures>>

\* addTransaction calls broadcastTransaction back, which does nothing, except
\* when the full seen set S has just erased the transaction again.
handleNewTransaction(n, m) ==
  LET tx == Received(n, m).tx
  IN  /\ take(n, m, "NEW_TRANSACTION")
      /\ \/ /\ tx \in seenTxs[n]
            /\ Pop(n, m) /\ UNCHANGED <<vars, seenTxs, handler>>
         \/ /\ tx \notin seenTxs[n]
            /\ \E S \in inserted(seenTxs[n], tx) :
                 \/ /\ ~admissible(n, tx)
                    /\ seenTxs' = [seenTxs EXCEPT ![n] = S]
                    /\ Pop(n, m) /\ UNCHANGED <<vars, handler>>
                 \/ /\ addTransaction(n, tx)
                    /\ \/ tx \in S /\ seenTxs' = [seenTxs EXCEPT ![n] = S] /\ Pop(n, m)
                       \/ /\ tx \notin S
                          /\ \E S2 \in inserted(S, tx) : seenTxs' = [seenTxs EXCEPT ![n] = S2]
                          /\ popAndSend(n, m, Nodes, NewTransaction(tx))
                    /\ continue(n, m, [step |-> "forward", msg |-> NewTransaction(tx)])
      /\ UNCHANGED <<seenBlocks, relayed>>

\* Mutation: the chain is asked for only when a height is missing, and not when
\* the block belongs to another branch.
handleNewBlockGap(n, m) ==
  LET b == Received(n, m).block
  IN  /\ take(n, m, "NEW_BLOCK")
      /\ seenBlocks' = [seenBlocks EXCEPT ![n] = @ \cup {b}]
      /\ \/ /\ extendsTip(n, b)
            /\ Pop(n, m) /\ continue(n, m, [step |-> "accept", block |-> b])
         \/ /\ b.index > Len(chain[n])
            /\ popAndSend(n, m, {m}, RequestChain) /\ UNCHANGED handler
         \/ /\ ~extendsTip(n, b) /\ b.index <= Len(chain[n])
            /\ Pop(n, m) /\ UNCHANGED handler
      /\ UNCHANGED <<vars, seenTxs, relayed>>

\* The chain is copied and the block compared with the copy.
handleNewBlock(n, m) ==
  LET b == Received(n, m).block
  IN  /\ take(n, m, "NEW_BLOCK")
      /\ \/ b \in seenBlocks[n] /\ Pop(n, m) /\ UNCHANGED <<seenBlocks, handler>>
         \/ /\ b \notin seenBlocks[n]
            /\ \E S \in inserted(seenBlocks[n], b) : seenBlocks' = [seenBlocks EXCEPT ![n] = S]
            /\ \/ /\ extendsTip(n, b)
                  /\ Pop(n, m) /\ continue(n, m, [step |-> "accept", block |-> b])
               \/ /\ ~extendsTip(n, b) /\ b.index >= Len(chain[n])
                  /\ popAndSend(n, m, {m}, RequestChain) /\ UNCHANGED handler
               \/ /\ b.index < Len(chain[n])
                  /\ Pop(n, m) /\ UNCHANGED handler
      /\ UNCHANGED <<vars, seenTxs, relayed>>

\* Mutation: the genesis block is left out, every node having one.
handleRequestChainHeadless(n, m) ==
  /\ take(n, m, "REQUEST_CHAIN")
  /\ Pop(n, m)
  /\ continue(n, m, [step |-> "reply", msg |-> ResponseChain(Tail(chain[n]))])
  /\ UNCHANGED <<vars, seenTxs, seenBlocks, relayed>>

\* The whole chain is copied; it is sent in a later step.
handleRequestChain(n, m) ==
  /\ take(n, m, "REQUEST_CHAIN")
  /\ Pop(n, m)
  /\ continue(n, m, [step |-> "reply", msg |-> ResponseChain(chain[n])])
  /\ UNCHANGED <<vars, seenTxs, seenBlocks, relayed>>

\* A chain that is adopted is not announced to anyone.
handleResponseChain(n, m) ==
  LET c == Received(n, m).blocks
  IN  /\ take(n, m, "RESPONSE_CHAIN")
      /\ Pop(n, m)
      /\ replaceChain(n, c) \/ (~preferable(n, c) /\ UNCHANGED vars)
      /\ UNCHANGED <<seenTxs, seenBlocks, handler, relayed>>

-----------------------------------------------------------------------------
(* The rest of a handler *)

\* Mutation: a block is forwarded whether or not it was accepted.
finishAcceptForwards(n, m) ==
  LET h == handler[<<n, m>>]
  IN  /\ h.step = "accept"
      /\ acceptBlock(n, h.block) \/ (~acceptable(n, h.block) /\ UNCHANGED vars)
      /\ continue(n, m, [step |-> "forward", msg |-> NewBlock(h.block)])
      /\ UNCHANGED <<connected, channel, seenTxs, seenBlocks, dedup, asked, relayed, failures>>

\* Mutation: the block was compared with the copy of the chain, and that is enough.
finishAcceptUnchecked(n, m) ==
  LET h == handler[<<n, m>>]
  IN  /\ h.step = "accept"
      /\ chain' = [chain EXCEPT ![n] = Append(@, h.block)]
      /\ applyBlockState(n, h.block)
      /\ bumpVersion(n)
      /\ mempool' = [mempool EXCEPT ![n] = EraseAll(@, ToSet(h.block.transactions))]
      /\ disk' = [disk EXCEPT ![n] = appendBlock(@, h.block, TRUE)]
      /\ continue(n, m, [step |-> "forward", msg |-> NewBlock(h.block)])
      /\ UNCHANGED <<now, published, difficulty, connected, channel, seenTxs, seenBlocks,
                     dedup, asked, relayed, failures>>

finishAccept(n, m) ==
  LET h == handler[<<n, m>>]
  IN  /\ h.step = "accept"
      /\ \/ /\ acceptBlock(n, h.block)
            /\ continue(n, m, [step |-> "forward", msg |-> NewBlock(h.block)])
         \/ /\ ~acceptable(n, h.block) /\ UNCHANGED vars
            /\ continue(n, m, Idle)
      /\ UNCHANGED <<connected, channel, seenTxs, seenBlocks, dedup, asked, relayed, failures>>

finishForward(n, m) ==
  LET h == handler[<<n, m>>]
  IN  /\ h.step = "forward"
      /\ \/ h.msg.type = "NEW_BLOCK" /\ sendBlock(n, Nodes \ {m}, h.msg.block)
         \/ h.msg.type = "NEW_TRANSACTION" /\ send(n, Nodes \ {m}, h.msg) /\ UNCHANGED relayed
      /\ continue(n, m, Idle)
      /\ UNCHANGED <<vars, connected, seenTxs, seenBlocks, dedup, asked, failures>>

finishReply(n, m) ==
  /\ handler[<<n, m>>].step = "reply"
  /\ send(n, {m}, handler[<<n, m>>].msg)
  /\ continue(n, m, Idle)
  /\ UNCHANGED <<vars, connected, seenTxs, seenBlocks, dedup, asked, relayed, failures>>

-----------------------------------------------------------------------------
(* Connections, timers and failures *)

\* The dialling side asks for the chain; the accepting side does not.
connect(d, a) ==
  /\ <<d, a>> \in Links /\ a \notin peers(d)
  /\ connected' = connected \cup {<<d, a>>}
  /\ channel' = [channel EXCEPT ![<<d, a>>] = enqueue(@, RequestChain)]
  /\ UNCHANGED <<vars, seenTxs, seenBlocks, dedup, handler, asked, relayed, failures>>

\* The timer of Node::start, two seconds after the node started.
requestChainFromPeers(n) ==
  /\ ~asked[n]
  /\ asked' = [asked EXCEPT ![n] = TRUE]
  /\ send(n, Nodes, RequestChain)
  /\ UNCHANGED <<vars, connected, seenTxs, seenBlocks, dedup, handler, relayed, failures>>

Fail(kind) ==
  /\ kind \in FailureKinds
  /\ failures < MaxFailures /\ failures' = failures + 1

\* What was under way on the connections in the set Lost is gone; a handler
\* that is already accepting or forwarding goes on.
Disconnect(Lost) ==
  /\ connected' = connected \ Lost
  /\ channel' = [e \in Pairs |-> IF {e, <<e[2], e[1]>>} \cap Lost # {} THEN <<>> ELSE channel[e]]

Interrupted(Lost) ==
  [e \in Pairs |-> IF {e, <<e[2], e[1]>>} \cap Lost # {} /\ handler[e].step = "reply"
                   THEN Idle ELSE handler[e]]

LoseConnection(l) ==
  /\ l \in connected
  /\ Fail("disconnect")
  /\ Disconnect({l})
  /\ handler' = Interrupted({l})
  /\ UNCHANGED <<vars, seenTxs, seenBlocks, dedup, asked, relayed>>

\* More than 100 messages in a second: the message is discarded.
DropMessage(n, m) ==
  /\ channel[<<m, n>>] # <<>>
  /\ handler[<<n, m>>] = Idle
  /\ Fail("drop")
  /\ Pop(n, m)
  /\ UNCHANGED <<vars, connected, seenTxs, seenBlocks, dedup, handler, asked, relayed>>

Restart(n) ==
  LET lost == {l \in connected : n \in {l[1], l[2]}}
  IN  /\ Fail("restart")
      /\ CrashRestart(n) \/ GracefulRestart(n)
      /\ Disconnect(lost)
      /\ handler' = [e \in Pairs |-> IF e[1] = n THEN Idle ELSE Interrupted(lost)[e]]
      /\ seenTxs' = [seenTxs EXCEPT ![n] = {}]
      /\ seenBlocks' = [seenBlocks EXCEPT ![n] = {}]
      /\ dedup' = [dedup EXCEPT ![n] = {}]
      /\ asked' = [asked EXCEPT ![n] = FALSE]
      /\ relayed' = [relayed EXCEPT ![n] = {}]

NetTick == Tick /\ UNCHANGED <<sessionVars, failures>>

\* The filter goes by steady_clock, blocks go by the system's clock.
SteadyTick ==
  /\ dedup' = [n \in Nodes |-> young({[e EXCEPT !.age = @ + 1] : e \in dedup[n]})]
  /\ UNCHANGED <<vars, connected, channel, seenTxs, seenBlocks, handler, asked, relayed,
                 failures>>

-----------------------------------------------------------------------------
Quiet ==
  /\ channel = [e \in Pairs |-> <<>>]
  /\ seenTxs = [n \in Nodes |-> {}]
  /\ seenBlocks = [n \in Nodes |-> {}]
  /\ dedup = [n \in Nodes |-> {}]
  /\ handler = [e \in Pairs |-> Idle]
  /\ relayed = [n \in Nodes |-> {}]
  /\ failures = 0

NetInit == Init /\ Quiet /\ connected = {} /\ asked = [n \in Nodes |-> FALSE]

\* A network that has been up for a while before anyone mines: every link is
\* established, and the requests of the start have been answered.
SettledInit == Init /\ Quiet /\ connected = Links /\ asked = [n \in Nodes |-> TRUE]

\* What a node does with messages: nobody has to ask for these steps.
Handle(n, m) ==
  \/ dropDuplicate(n, m)
  \/ handleNewTransaction(n, m) \/ handleNewBlock(n, m)
  \/ handleRequestChain(n, m) \/ handleResponseChain(n, m)
  \/ finishAccept(n, m) \/ finishForward(n, m) \/ finishReply(n, m)

NetNext ==
  \/ \E n \in Nodes, tx \in Txs : submitTransaction(n, tx)
  \/ \E n \in Nodes : \E miner \in MinersOf[n] : mine(n, miner)
  \/ \E n, m \in Nodes : Handle(n, m)
  \/ \E d, a \in Nodes : connect(d, a)
  \/ \E n \in Nodes : requestChainFromPeers(n)
  \/ \E l \in Links : LoseConnection(l)
  \/ \E n, m \in Nodes : DropMessage(n, m)
  \/ \E n \in Nodes : Restart(n)
  \/ NetTick \/ SteadyTick

NetSpec == NetInit /\ [][NetNext]_netVars

SettledSpec == SettledInit /\ [][NetNext]_netVars

\* The threads of io_context run every handler that is ready, TCP delivers what
\* was sent on a connection that stays up, timers fire and time passes.  Nothing
\* makes clients mine or submit.
Fairness ==
  /\ \A n \in Nodes : \A m \in Nodes \ {n} : WF_netVars(Handle(n, m))
  /\ \A l \in Links : WF_netVars(connect(l[1], l[2]))
  /\ \A n \in Nodes : WF_netVars(requestChainFromPeers(n))
  /\ WF_netVars(NetTick)

FairSettledSpec == SettledSpec /\ Fairness

-----------------------------------------------------------------------------
(* Properties *)

Genuine ==
  {RequestChain}
    \cup {NewTransaction(tx) : tx \in Txs}
    \cup {NewBlock(Last(c)) : c \in published}
    \cup {ResponseChain(c) : c \in published}

HandlerStates ==
  {Idle}
    \cup {[step |-> "accept", block |-> Last(c)] : c \in published}
    \cup [step : {"forward", "reply"}, msg : Genuine]

\* The inductive invariant of the network: whatever is in a channel or in a
\* handler was made by a client or by a node, whole, although handlers keep
\* copies of blocks and chains that the node may have abandoned since.
NetInv ==
  /\ channel \in [Pairs -> Seq(Genuine)]
  /\ handler \in [Pairs -> HandlerStates]

\* Nodes that exchange messages do nothing that module Blockchain does not
\* allow, although a handler looks at the chain, lets go of the lock, and acts
\* later: every safety property of Blockchain holds of the network.
RefinesBlockchain == Spec

\* No gossip storm: a node sends a block to its peers at most once, even when
\* its seen set is full and forgets: only an accepted block is forwarded, and
\* no block is accepted twice.
RelayOnce ==
  [][\A e \in Pairs :
       /\ Len(channel'[e]) > Len(channel[e])
       /\ Last(channel'[e]).type = "NEW_BLOCK"
       => Last(channel'[e]).block \notin relayed[e[1]]]_netVars

\* The next message of some peer tells n of a block of height k, and the filter
\* lets it through.
Announced(n, k) ==
  \E m \in Nodes : LET q == channel[<<m, n>>]
                   IN  /\ q # <<>> /\ Head(q).type = "NEW_BLOCK" /\ Head(q).block.index = k
                       /\ ~duplicate(n, Head(q))

\* The next message a peer reads from n is a request for its chain, and the peer
\* has had one, from anybody, less than DedupWindow ago.
RequestIgnored(n) ==
  \E m \in Nodes : /\ channel[<<n, m>>] # <<>> /\ Received(m, n) = RequestChain
                   /\ duplicate(m, RequestChain)

\* A node that is told of a block of height k gets a chain of that height, by
\* appending the block or by asking its sender for the whole chain, although it
\* may be on another branch, its copy of the chain may be stale, and equal
\* messages are discarded.  While nothing fails, the one way to stay behind is
\* that the request itself is discarded, the peer having been asked by anybody
\* within dedupWindowSec.
CatchesUp ==
  \A n \in Nodes : \A k \in 1..(MaxChainLength - 1) :
    Announced(n, k) ~> (Len(chain[n]) > k \/ RequestIgnored(n) \/ failures > 0)

=============================================================================
