-------------------------------- MODULE Http --------------------------------
(***************************************************************************)
(* The HTTP server of one node (src/network/http_server), over module      *)
(* Blockchain.  Every thread of the node serves requests.  A handler is a  *)
(* list of steps, one for each call that locks something: the node may     *)
(* mine, accept a block, replace its chain or admit a transaction between  *)
(* any two steps of a handler.                                             *)
(*                                                                         *)
(* Requests that fail before they touch any state (no route, no JSON, bad  *)
(* hex digits, a missing field) are not modelled, nor are login            *)
(* challenges, which touch neither the chain nor another request.          *)
(***************************************************************************)
EXTENDS Blockchain

CONSTANTS
  Server,         \* the node that serves the requests
  Threads,        \* its threads
  RequestsOf,     \* RequestsOf[t]: the requests that reach thread t
  Reached,        \* the nodes that transfers reach otherwise, by gossip
  Miners,         \* the accounts that other nodes mine for
  Cooldown,       \* kMiningCooldownSeconds
  MaxUptime       \* bound on uptime

VARIABLES
  uptime,           \* the clock of the cooldowns
  request,          \* request[t]: the request that t serves
  answer,           \* the request that the last step completed, or Idle
  knownAddresses,   \* knownAddresses_
  lastMineAt,       \* lastMineAt_
  minedAt           \* history: minedAt[a]: when and where handleMine mined for a

serverVars == <<uptime, knownAddresses, lastMineAt>>
httpVars == <<vars, request, answer, serverVars, minedAt>>

-----------------------------------------------------------------------------
(* The routes *)

\* Mutation: the blocks are read before the length.
handleGetChainSwapped == <<"chain", "length">>

handleGetChain == <<"length", "chain">>

handleGetWalletBalance == <<"know", "balance", "nonce", "mempool">>

\* Mutation: the chain is read first.
handleGetWalletTransactionsChainFirst == <<"chain", "history", "mempool">>

handleGetWalletTransactions == <<"history", "mempool", "chain">>

\* Mutation: the time is not recorded.
handleMineUnrecorded == <<"cooldown", "mempool", "mine", "know", "balance">>

handleMine == <<"cooldown", "mempool", "mine", "record", "know", "balance">>

\* Mutation: the confirmed nonce is read before the mempool.
handleSendNonceFirst ==
  <<"receiver", "receiverHistory", "funds", "add", "nonce", "mempool", "balance">>

handleSendTransaction ==
  <<"receiver", "receiverHistory", "funds", "add", "mempool", "nonce", "balance">>

handleImportWallet == <<"know">>        \* and handleCreateWallet, handleWalletLogin

Steps ==
  [chain |-> handleGetChain, balance |-> handleGetWalletBalance,
   walletTransactions |-> handleGetWalletTransactions, mine |-> handleMine,
   send |-> handleSendTransaction, import |-> handleImportWallet]

\* What is asked for: an address and, where there is one, a transaction, which has
\* a receiver here: handleSendTransaction refuses the empty address at once.  The
\* default miner, GENESIS, behaves like an account that sends nothing.
NoTx == [from |-> "none"]
Requests ==
  [route : DOMAIN Steps \ {"send"}, address : Accounts, item : {NoTx}]
    \cup {[route |-> "send", address |-> tx.from, item |-> tx] :
            tx \in {x \in Txs : x.to # NoAddress}}

ASSUME ServerAssumption ==
  /\ Server \in Nodes /\ Reached \subseteq Nodes /\ Miners \subseteq Accounts
  /\ \A t \in Threads : RequestsOf[t] \subseteq Requests
  /\ Cooldown \in Nat /\ MaxUptime \in Nat

Idle == [route |-> "none"]

\* at is the next step; saw is what was read; reorganised tells that the chain
\* lost a block since the request came.
receive(t) ==
  /\ request[t] = Idle
  /\ \E r \in RequestsOf[t] :
       request' = [request EXCEPT ![t] =
         [route |-> r.route, address |-> r.address, item |-> r.item, at |-> 1,
          saw |-> <<>>, reorganised |-> FALSE]]
  /\ answer' = Idle
  /\ UNCHANGED <<vars, serverVars, minedAt>>

Serving(t) == request[t] # Idle

\* f[key] = value, for a map that may have no entry for key.
With(f, key, value) ==
  [k \in DOMAIN f \cup {key} |-> IF k = key THEN value ELSE f[k]]

\* Thread t is at this step of its handler.
AtStep(t, step) == Serving(t) /\ Steps[request[t].route][request[t].at] = step

\* The handler goes on with r, or is done and its answer is r.
goOnWith(t, r) ==
  LET done == r.at > Len(Steps[r.route])
  IN  /\ request' = [request EXCEPT ![t] = IF done THEN Idle ELSE r]
      /\ answer' = IF done THEN r ELSE Idle

goOn(t) == goOnWith(t, [request[t] EXCEPT !.at = @ + 1])

refuse(t) == request' = [request EXCEPT ![t] = Idle] /\ answer' = Idle

-----------------------------------------------------------------------------
(* Steps that read: each is a call of Blockchain under its mutex.          *)

Values(a) ==
  [length |-> Len(chain[Server]), chain |-> chain[Server], mempool |-> mempool[Server],
   balance |-> balances[Server][a], nonce |-> lastNonceMap[Server][a],
   history |-> history[Server][a]]

read(t) ==
  \E kind \in {"length", "chain", "mempool", "balance", "nonce", "history"} :
    /\ AtStep(t, kind)
    /\ goOnWith(t, [request[t] EXCEPT
                      !.at = @ + 1,
                      !.saw = With(@, kind, Values(request[t].address)[kind])])
    /\ UNCHANGED <<vars, serverVars, minedAt>>

\* knownAddresses_.insert: not under any mutex.
know(t) ==
  /\ AtStep(t, "know")
  /\ goOn(t)
  /\ knownAddresses' = knownAddresses \cup {request[t].address}
  /\ UNCHANGED <<vars, uptime, lastMineAt, minedAt>>

-----------------------------------------------------------------------------
(* handleMine *)

cooling(a) == a \in DOMAIN lastMineAt /\ uptime - lastMineAt[a] < Cooldown

checkCooldown(t) ==
  /\ AtStep(t, "cooldown")
  /\ IF cooling(request[t].address) THEN refuse(t) ELSE goOn(t)
  /\ UNCHANGED <<vars, serverVars, minedAt>>

mine(t) ==
  /\ AtStep(t, "mine")
  /\ minePendingTransactions(Server, request[t].address)
  /\ goOn(t)
  /\ minedAt' = [minedAt EXCEPT ![request[t].address] =
                    Append(@, [thread |-> t, at |-> uptime])]
  /\ UNCHANGED serverVars

recordMine(t) ==
  /\ AtStep(t, "record")
  /\ goOn(t)
  /\ lastMineAt' = With(lastMineAt, request[t].address, uptime)
  /\ UNCHANGED <<vars, uptime, knownAddresses, minedAt>>

-----------------------------------------------------------------------------
(* handleSendTransaction *)

\* walletExists: the address is known, has coins, or has a history.
checkReceiver(t) ==
  /\ AtStep(t, "receiver")
  /\ LET to == request[t].item.to
     IN  goOnWith(t, [request[t] EXCEPT !.at =
           IF to \in knownAddresses \/ balances[Server][to] > 0 THEN @ + 2 ELSE @ + 1])
  /\ UNCHANGED <<vars, serverVars, minedAt>>

checkReceiverHistory(t) ==
  /\ AtStep(t, "receiverHistory")
  /\ IF history[Server][request[t].item.to] # <<>> THEN goOn(t) ELSE refuse(t)
  /\ UNCHANGED <<vars, serverVars, minedAt>>

checkFunds(t) ==
  /\ AtStep(t, "funds")
  /\ IF balances[Server][request[t].address] >= request[t].item.amount
     THEN goOn(t) ELSE refuse(t)
  /\ UNCHANGED <<vars, serverVars, minedAt>>

add(t) ==
  /\ AtStep(t, "add")
  /\ \/ /\ addTransaction(Server, request[t].item)
        /\ goOn(t)
     \/ /\ ~admissible(Server, request[t].item)
        /\ refuse(t)
        /\ UNCHANGED vars
  /\ UNCHANGED <<serverVars, minedAt>>

-----------------------------------------------------------------------------
(* The node goes on meanwhile; what its peers and timers do is a step of   *)
(* module Blockchain, which also lets the clock of the blocks advance and  *)
(* other nodes restart: no answer depends on either.                       *)

Reorganised ==
  /\ request' = [t \in Threads |->
       IF Serving(t) /\ ~IsPrefix(chain[Server], chain'[Server])
       THEN [request[t] EXCEPT !.reorganised = TRUE] ELSE request[t]]
  /\ answer' = Idle

Elsewhere ==
  /\ \/ \E n \in Reached, tx \in Txs : addTransaction(n, tx)
     \/ \E n \in Nodes \ {Server}, miner \in Miners : minePendingTransactions(n, miner)
     \/ \E n \in Nodes, c \in published : acceptBlock(n, Last(c)) \/ replaceChain(n, c)
  /\ Reorganised
  /\ UNCHANGED <<serverVars, minedAt>>

\* The process of the server ends and starts again.
RestartServer ==
  /\ CrashRestart(Server) \/ GracefulRestart(Server)
  /\ request' = [t \in Threads |-> Idle] /\ answer' = Idle
  /\ knownAddresses' = {GENESIS} /\ lastMineAt' = <<>>
  /\ minedAt' = [a \in Addresses |-> <<>>]
  /\ UNCHANGED uptime

UptimeTick ==
  /\ uptime < MaxUptime
  /\ uptime' = uptime + 1
  /\ answer' = Idle
  /\ UNCHANGED <<vars, request, knownAddresses, lastMineAt, minedAt>>

HttpInit ==
  /\ Init
  /\ request = [t \in Threads |-> Idle] /\ answer = Idle
  /\ uptime = 0 /\ knownAddresses = {GENESIS} /\ lastMineAt = <<>>
  /\ minedAt = [a \in Addresses |-> <<>>]

HttpNext ==
  \/ \E t \in Threads :
       \/ receive(t) \/ read(t) \/ know(t)
       \/ checkCooldown(t) \/ mine(t) \/ recordMine(t)
       \/ checkReceiver(t) \/ checkReceiverHistory(t) \/ checkFunds(t) \/ add(t)
  \/ Elsewhere
  \/ RestartServer
  \/ UptimeTick

HttpSpec == HttpInit /\ [][HttpNext]_httpVars

-----------------------------------------------------------------------------
(* What the replies say *)

\* Mutation: the nonces of all senders count.
nextNonceOfAll(r) ==
  Max({r.saw.nonce} \cup {tx.nonce : tx \in ToSet(r.saw.mempool)}) + 1

nextNonce(r) ==
  Max({r.saw.nonce} \cup
      {tx.nonce : tx \in {x \in ToSet(r.saw.mempool) : x.from = r.address}}) + 1

ChainTxs(c) == UNION {ToSet(c[i].transactions) : i \in DOMAIN c}

-----------------------------------------------------------------------------
(* Properties *)

\* Every step of the server is a step of its node or leaves the chain, the
\* mempool and the account state alone.
RefinesBlockchain == Spec

\* The chain that is sent has at least the length that is sent with it, although
\* blocks come in between the two calls.
ChainReply == answer.route = "chain" => answer.saw.length <= Len(answer.saw.chain)

\* The nonce that a client is told to use after a transfer is never that of the
\* transfer again, although it may be mined while the answer is put together.
SendNonce ==
  answer.route = "send" /\ ~answer.reorganised
    => nextNonce(answer) > answer.item.nonce

\* The nonce that handleGetWalletBalance gives leaves no gap: addTransaction
\* expects it or has had it, unless the chain lost a block meanwhile.
NoNonceGap ==
  answer.route = "balance" /\ ~answer.reorganised
    => nextNonce(answer) <= highestSeenNonce(Server, answer.address) + 1

\* A confirmed transaction in the list of a wallet comes with its block, unless
\* the chain lost a block between the calls.
RowsPlaced ==
  answer.route = "walletTransactions" /\ ~answer.reorganised
    => ToSet(answer.saw.history) \subseteq ChainTxs(answer.saw.chain)

\* The cooldown of a miner bounds what it mines through the server, although it
\* is checked and recorded under separate locks: one block for each thread, for
\* requests that pass the check together, in any period of the cooldown.
CooldownBound ==
  \A a \in Addresses : \A i, j \in DOMAIN minedAt[a] :
    i < j /\ minedAt[a][i].thread = minedAt[a][j].thread
      => minedAt[a][j].at >= minedAt[a][i].at + Cooldown

=============================================================================
