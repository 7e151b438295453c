----------------------------- MODULE Blockchain -----------------------------
(***************************************************************************)
(* A network of nodes, each running one Blockchain object (src/core) over  *)
(* its StateManager, PoWEngine and LevelDBManager.  Every operation of the *)
(* class runs under mutex_, so each is one action.                         *)
(*                                                                         *)
(* The network is over-approximated: a node may at any time be offered any *)
(* block and any chain that some node ever had (published), and any client *)
(* may submit any transaction to any node at any time, which covers loss,  *)
(* duplication, delay and reordering of messages.  An operation the code   *)
(* rejects leaves the state alone and is not an action.                    *)
(***************************************************************************)
EXTENDS Consensus

CONSTANTS
  Nodes,
  MaxTxsPerBlock,      \* MAX_TXS_PER_BLOCK
  ExpiryWindow,        \* argument of isExpired
  InitialDifficulty,   \* the --difficulty each node was started with
  Skew,                \* Skew[n]: how far n's clock is ahead of real time
  WriteOutcomes,       \* what writing chain.json may return: {TRUE}, or BOOLEAN
                       \* when writes may fail
  StartTime,           \* real time when the nodes start; genesis is at time 0
  MaxChainLength,      \* bound on the length of the chains mined
  MaxPublished,        \* bound on the number of chains mined
  MaxTime              \* bound on real time

ASSUME NodesAssumption ==
  /\ MaxTxsPerBlock \in Nat /\ ExpiryWindow \in Nat
  /\ InitialDifficulty \in [Nodes -> Nat] /\ Skew \in [Nodes -> Int]
  /\ WriteOutcomes \subseteq BOOLEAN /\ WriteOutcomes # {}
  /\ StartTime \in Nat /\ MaxTime \in Nat
  /\ MaxChainLength \in Nat /\ MaxPublished \in Nat

\* The conditions under which a node never loses blocks: every write succeeds,
\* the clocks agree and are past the genesis timestamp, and the configured
\* difficulties are ones that validateBlock accepts.
Synchronised ==
  /\ WriteOutcomes = {TRUE}
  /\ \A m, n \in Nodes : Skew[m] = Skew[n]
  /\ \A n \in Nodes : StartTime + Skew[n] >= 0
  /\ \A n \in Nodes : InitialDifficulty[n] \in 1..MaxBlockDifficulty
  /\ MinDifficulty >= 1 /\ MaxDifficulty <= MaxBlockDifficulty

VARIABLES
  now,            \* real time
  published,      \* every chain some node has had, ever
  chain,          \* chain[n]: chain_
  mempool,        \* mempool[n]: mempool_
  spentTxIDs,     \* the StateManager of n: spentTxIDs_,
  balances,       \*   balances_,
  lastNonceMap,   \*   lastNonceMap_
  history,        \*   and transactionsByAddress_
  difficulty,     \* difficulty[n]: difficulty_
  version,        \* version[n]: chainUpdateVersion_
  disk            \* disk[n]: the blocks in chain.json, <<>> when there is no file

stateVars == <<spentTxIDs, balances, lastNonceMap, history>>
vars == <<now, published, chain, mempool, stateVars, difficulty, version, disk>>

clock(n) == now + Skew[n]

GenesisChain(n) == <<createGenesis(InitialDifficulty[n])>>

-----------------------------------------------------------------------------
(* Storage as Blockchain sees it: a write succeeds or leaves the old file. *)
(* Module Storage shows how far the files justify this.                    *)

saveChain(stored, c, ok) == IF ok THEN c ELSE stored

\* Mutations: the height is off by one, and no test at all.
extendsStoredOffByOne(stored, b) ==
  stored # <<>> => /\ b.index = Last(stored).index
                   /\ b.previousHash = Hash(Last(stored))
extendsStoredAlways(stored, b) == TRUE

\* appendBlock refuses a block that does not extend the stored tip, but
\* starts a new file when there is none.
extendsStored(stored, b) ==
  stored # <<>> => /\ b.index = Last(stored).index + 1
                   /\ b.previousHash = Hash(Last(stored))

appendBlock(stored, b, ok) ==
  IF ok /\ extendsStored(stored, b) THEN Append(stored, b) ELSE stored

-----------------------------------------------------------------------------
(* chainUpdateVersion_ and the StateManager *)

bumpVersion(n) == version' = [version EXCEPT ![n] = @ + 1]

applyBlockState(n, b) ==
  /\ spentTxIDs'   = [spentTxIDs   EXCEPT ![n] = ApplySpent(@, b)]
  /\ balances'     = [balances     EXCEPT ![n] = ApplyBalances(@, b)]
  /\ lastNonceMap' = [lastNonceMap EXCEPT ![n] = ApplyNonces(@, b)]
  /\ history'      = [history      EXCEPT ![n] = ApplyHistory(@, b)]

\* Mutation: clear() is not called first.
rebuildStateNoClear(n, c) ==
  /\ spentTxIDs'   = [spentTxIDs   EXCEPT ![n] = @ \cup RebuildSpent(c)]
  /\ balances'     = [balances     EXCEPT ![n] = FoldLeft(ApplyBalances, @, c)]
  /\ lastNonceMap' = [lastNonceMap EXCEPT ![n] = FoldLeft(ApplyNonces, @, c)]
  /\ history'      = [history      EXCEPT ![n] = FoldLeft(ApplyHistory, @, c)]

rebuildState(n, c) ==
  /\ spentTxIDs'   = [spentTxIDs   EXCEPT ![n] = RebuildSpent(c)]
  /\ balances'     = [balances     EXCEPT ![n] = RebuildBalances(c)]
  /\ lastNonceMap' = [lastNonceMap EXCEPT ![n] = RebuildNonces(c)]
  /\ history'      = [history      EXCEPT ![n] = RebuildHistory(c)]

-----------------------------------------------------------------------------
(* addTransaction *)

\* What transfers take from each address and bring to it.
Debit(sums, tx)  == [sums EXCEPT ![tx.from] = @ + tx.amount]
Credit(sums, tx) ==
  IF tx.to = NoAddress THEN sums ELSE [sums EXCEPT ![tx.to] = @ + tx.amount]

pendingOutgoing(n, a) == FoldLeft(Debit, NoBalances, mempool[n])[a]
pendingIncoming(n, a) == FoldLeft(Credit, NoBalances, mempool[n])[a]

highestSeenNonce(n, a) ==
  Max({lastNonceMap[n][a]} \cup
      {tx.nonce : tx \in {t \in ToSet(mempool[n]) : t.from = a}})

\* Mutation: what the sender has pending is not counted.
sufficientConfirmed(n, tx) ==
  balances[n][tx.from] + pendingIncoming(n, tx.from) >= tx.amount

sufficientBalance(n, tx) ==
  balances[n][tx.from] + pendingIncoming(n, tx.from)
     >= pendingOutgoing(n, tx.from) + tx.amount

\* Mutation: the rule "nonce >= lastNonce + 1" of WALLET_SYSTEM_UPGRADE.md.
expectedNonceLoose(n, tx) == tx.nonce >= lastNonceMap[n][tx.from] + 1

expectedNonce(n, tx) == tx.nonce = highestSeenNonce(n, tx.from) + 1

\* The checks of addTransaction, which returns false when one fails.
admissible(n, tx) ==
  /\ verify(tx)
  /\ sufficientBalance(n, tx)
  /\ expectedNonce(n, tx)
  /\ ~isExpired(tx, clock(n), ExpiryWindow)
  /\ tx \notin spentTxIDs[n]
  /\ tx \notin ToSet(mempool[n])

addTransaction(n, tx) ==
  /\ admissible(n, tx)
  /\ mempool' = [mempool EXCEPT ![n] = Append(@, tx)]
  /\ bumpVersion(n)
  /\ UNCHANGED <<now, published, chain, stateVars, difficulty, disk>>

-----------------------------------------------------------------------------
(* minePendingTransactions: the block is made from this node's own chain,  *)
(* clock and difficulty and is appended without being validated.           *)

txCount(n) == Min({Len(mempool[n]), MaxTxsPerBlock})

\* Mutation: the timestamp is in local time instead of UTC.
newBlockLocalTime(n, miner) ==
  Block(Len(chain[n]), Hash(Last(chain[n])),
        <<Coinbase(miner, clock(n))>> \o SubSeq(mempool[n], 1, txCount(n)),
        calculateNextDifficulty(chain[n], difficulty[n]),
        clock(n) + FutureLimit + 1)

newBlock(n, miner) ==
  Block(Len(chain[n]),
        Hash(Last(chain[n])),
        <<Coinbase(miner, clock(n))>> \o SubSeq(mempool[n], 1, txCount(n)),
        calculateNextDifficulty(chain[n], difficulty[n]),
        clock(n))

minePendingTransactions(n, miner) ==
  LET b == newBlock(n, miner)
      c == Append(chain[n], b)
  IN  /\ Len(chain[n]) < MaxChainLength
      /\ Cardinality(published \cup {c}) <= MaxPublished
      /\ difficulty' = [difficulty EXCEPT ![n] = b.difficulty]
      /\ chain' = [chain EXCEPT ![n] = c]
      /\ published' = published \cup {c}
      /\ applyBlockState(n, b)
      /\ bumpVersion(n)
      /\ mempool' = [mempool EXCEPT ![n] = SubSeq(@, txCount(n) + 1, Len(@))]
      /\ \E ok \in WriteOutcomes :
           disk' = [disk EXCEPT ![n] = appendBlock(@, b, ok)]
      /\ now' = now

-----------------------------------------------------------------------------
(* acceptBlock and replaceChain *)

\* Mutation: remove_if without erase.
EraseNothing(s, S) == s

\* std::remove_if: s without the members of S, in the same order.
EraseAll(s, S) ==
  LET kept[i \in 0..Len(s)] ==
        IF i = 0 THEN <<>>
        ELSE IF s[i] \in S THEN kept[i-1] ELSE Append(kept[i-1], s[i])
  IN  kept[Len(s)]

extendsTip(n, b) ==
  /\ b.index = Len(chain[n])
  /\ b.previousHash = Hash(Last(chain[n]))

\* The checks of acceptBlock and of replaceChain.
acceptable(n, b) ==
  /\ extendsTip(n, b)
  /\ validateChainAgainstConsensus(Append(chain[n], b), clock(n))

preferable(n, c) ==
  /\ shouldAcceptChain(chain[n], c)
  /\ validateChainAgainstConsensus(c, clock(n))

acceptBlock(n, b) ==
  /\ acceptable(n, b)
  /\ chain' = [chain EXCEPT ![n] = Append(@, b)]
  /\ applyBlockState(n, b)
  /\ bumpVersion(n)
  /\ mempool' = [mempool EXCEPT ![n] = EraseAll(@, ToSet(b.transactions))]
  /\ \E ok \in WriteOutcomes :
       disk' = [disk EXCEPT ![n] = appendBlock(@, b, ok)]
  /\ UNCHANGED <<now, published, difficulty>>

\* Transactions of abandoned blocks do not return to the mempool, and
\* difficulty_ keeps the value of the abandoned chain.
replaceChain(n, c) ==
  /\ preferable(n, c)
  /\ chain' = [chain EXCEPT ![n] = c]
  /\ rebuildState(n, c)
  /\ bumpVersion(n)
  /\ mempool' = [mempool EXCEPT ![n] = EraseAll(@, RebuildSpent(c))]
  /\ \E ok \in WriteOutcomes :
       disk' = [disk EXCEPT ![n] = saveChain(@, c, ok)]
  /\ UNCHANGED <<now, published, difficulty>>

-----------------------------------------------------------------------------
(* The process ends and starts again.  Its memory is lost; the constructor *)
(* takes the stored chain if it is valid now and otherwise starts over     *)
(* from the genesis block, overwriting the file.                           *)

construct(n, stored) ==
  /\ IF stored # <<>> /\ validateChainAgainstConsensus(stored, clock(n))
     THEN /\ chain' = [chain EXCEPT ![n] = stored]
          /\ rebuildState(n, stored)
          /\ disk' = [disk EXCEPT ![n] = stored]
     ELSE /\ chain' = [chain EXCEPT ![n] = GenesisChain(n)]
          /\ rebuildState(n, GenesisChain(n))
          /\ \E ok \in WriteOutcomes :
               disk' = [disk EXCEPT ![n] = saveChain(stored, GenesisChain(n), ok)]
  /\ mempool' = [mempool EXCEPT ![n] = <<>>]
  /\ difficulty' = [difficulty EXCEPT ![n] = InitialDifficulty[n]]
  /\ version' = [version EXCEPT ![n] = 1]
  /\ UNCHANGED <<now, published>>

CrashRestart(n) == construct(n, disk[n])

\* A signal: main() calls persistChain before the process ends.
GracefulRestart(n) ==
  \E ok \in WriteOutcomes : construct(n, saveChain(disk[n], chain[n], ok))

Tick ==
  /\ now < MaxTime
  /\ now' = now + 1
  /\ UNCHANGED <<published, chain, mempool, stateVars, difficulty, version, disk>>

-----------------------------------------------------------------------------
Init ==
  /\ now = StartTime
  /\ published = {GenesisChain(n) : n \in Nodes}
  /\ chain = [n \in Nodes |-> GenesisChain(n)]
  /\ mempool = [n \in Nodes |-> <<>>]
  /\ spentTxIDs = [n \in Nodes |-> RebuildSpent(GenesisChain(n))]
  /\ balances = [n \in Nodes |-> RebuildBalances(GenesisChain(n))]
  /\ lastNonceMap = [n \in Nodes |-> RebuildNonces(GenesisChain(n))]
  /\ history = [n \in Nodes |-> RebuildHistory(GenesisChain(n))]
  /\ difficulty = InitialDifficulty
  /\ version = [n \in Nodes |-> 1]
  /\ \E ok \in [Nodes -> WriteOutcomes] :
       disk = [n \in Nodes |-> saveChain(<<>>, GenesisChain(n), ok[n])]

Next ==
  \/ \E n \in Nodes, tx \in Txs : addTransaction(n, tx)
  \/ \E n \in Nodes, miner \in Accounts : minePendingTransactions(n, miner)
  \/ \E n \in Nodes, c \in published : acceptBlock(n, Last(c))
  \/ \E n \in Nodes, c \in published : replaceChain(n, c)
  \/ \E n \in Nodes : CrashRestart(n)
  \/ \E n \in Nodes : GracefulRestart(n)
  \/ Tick

Spec == Init /\ [][Next]_vars

-----------------------------------------------------------------------------
(* Properties *)

\* Every variable has the type of the member it models; what a node holds as
\* its chain is always a chain some node made.  (StateMatchesChain says more
\* than a type about the account state.)
TypeOK ==
  /\ now \in Nat
  /\ chain \in [Nodes -> published]
  /\ mempool \in [Nodes -> Seq(Txs)]
  /\ spentTxIDs \in [Nodes -> SUBSET Txs]
  /\ difficulty \in [Nodes -> Nat]
  /\ version \in [Nodes -> Nat \ {0}]

\* The account state a node keeps block by block is the one rebuildState would
\* compute from its chain, after any mix of mining, accepting, reorganising
\* and restarting: no path forgets to clear, to apply, or applies twice.
StateMatchesChain ==
  \A n \in Nodes : /\ spentTxIDs[n] = RebuildSpent(chain[n])
                    /\ balances[n] = RebuildBalances(chain[n])
                    /\ lastNonceMap[n] = RebuildNonces(chain[n])
                    /\ history[n] = RebuildHistory(chain[n])

\* Double-spend detection: no transfer is confirmed twice on any chain that any
\* node ever holds, although acceptBlock and replaceChain never look for
\* repeated transactions: only the mempool of the miner prevents them.
NoTxTwice ==
  \A c \in published : \A i, j \in DOMAIN c :
    \A p \in DOMAIN c[i].transactions, q \in DOMAIN c[j].transactions :
      /\ c[i].transactions[p] = c[j].transactions[q]
      /\ ~isCoinbase(c[i].transactions[p])
      => i = j /\ p = q

\* A pending transfer is neither confirmed already nor pending twice.
MempoolFresh ==
  \A n \in Nodes :
    /\ \A i, j \in DOMAIN mempool[n] : mempool[n][i] = mempool[n][j] => i = j
    /\ \A i \in DOMAIN mempool[n] : mempool[n][i] \notin spentTxIDs[n]

\* Even when writes fail, chain.json never mixes blocks of different chains: it
\* is the end of one chain that some node held.  (Not always the whole chain:
\* when the first write failed, appendBlock starts the file in the middle.)
DiskIsSegment ==
  \A n \in Nodes : disk[n] # <<>> =>
    \E c \in published : \E i \in 1..Len(c) : disk[n] = SubSeq(c, i, Len(c))

TxType == Txs \cup [from : {COINBASE}, to : Addresses, amount : Nat, nonce : Nat, time : Int]

\* Every chain a node made starts with a genesis block, and each block names
\* its predecessor and its height, so a tip determines the whole chain.
Linked(c) ==
  /\ c \in Seq(ToSet(c)) /\ c # <<>>
  /\ c[1].previousHash = ZeroHash
  /\ \A i \in 1..Len(c) : /\ c[i].index = i - 1
                          /\ c[i].transactions \in Seq(TxType)
                          /\ c[i].timestamp \in Int
                          /\ i > 1 => c[i].previousHash = Hash(c[i-1])

\* The inductive invariant behind NoTxTwice and TypeOK.
ChainInv ==
  /\ TypeOK
  /\ \A c \in published : Linked(c)
  /\ \A n \in Nodes : GenesisChain(n) \in published
  /\ \A n \in Nodes : spentTxIDs[n] = RebuildSpent(chain[n])
  /\ MempoolFresh
  /\ NoTxTwice
  /\ disk = [n \in Nodes |-> disk[n]] /\ DiskIsSegment

\* The chain a node holds passes the node's own validation, which acceptBlock
\* repeats for the whole chain at every block and the constructor at every
\* start.  minePendingTransactions does not validate what it appends.
OwnChainValid ==
  \A n \in Nodes : validateChainAgainstConsensus(chain[n], clock(n))

\* After every operation chain.json holds the node's chain.
DiskMatchesChain == \A n \in Nodes : disk[n] = chain[n]

\* Every chain is valid for every node, and none is from a node's future.
PublishedValid ==
  \A n \in Nodes : \A c \in published :
    /\ validateChainAgainstConsensus(c, clock(n))
    /\ \A i \in 1..Len(c) : c[i].timestamp <= clock(n)

\* The inductive invariant behind OwnChainValid, DiskMatchesChain, ChainNeverShrinks
\* and RefinesLongestChain, for networks that satisfy Synchronised.
ReplicaInv ==
  /\ ChainInv
  /\ DiskMatchesChain
  /\ PublishedValid
  /\ \A n \in Nodes : difficulty[n] \in 1..MaxBlockDifficulty
  /\ \A n \in Nodes : \A i \in DOMAIN mempool[n] : verify(mempool[n][i])

\* No step, restarts included, makes a node's chain shorter.
ChainNeverShrinks ==
  [][\A n \in Nodes : Len(chain'[n]) >= Len(chain[n])]_vars

TotalBalance(bal) == FoldFunctionOnSet(+, 0, bal, Addresses)

\* What transfers without a receiver take out of circulation, and what those of
\* chain c took.
Burn(sum, tx) == IF tx.to = NoAddress THEN sum + tx.amount ELSE sum
BurnBlock(sum, b) == FoldLeft(Burn, sum, b.transactions)
Burnt(c) == FoldLeft(BurnBlock, 0, c)

\* Coins are made by rewards only and lost only in transfers to the empty address:
\* the balances and the burnt coins add up to one reward per block.
SupplyConserved ==
  \A n \in Nodes : TotalBalance(balances[n]) + Burnt(chain[n]) = Reward * Len(chain[n])

\* What the mempool admitted together can be executed together: mining it in
\* order gives every address what the pending transfers bring it less what they
\* take, so that no debit is clipped at zero.
MempoolSolvent ==
  \A n \in Nodes, a \in Addresses :
    FoldLeft(Transfer, balances[n], mempool[n])[a] + pendingOutgoing(n, a)
      = balances[n][a] + pendingIncoming(n, a)

\* The nonces of a sender increase along every chain (replay protection).
NoncesIncrease ==
  \A c \in published : \A i, j \in DOMAIN c :
    \A p \in DOMAIN c[i].transactions, q \in DOMAIN c[j].transactions :
      LET s == c[i].transactions[p]
          t == c[j].transactions[q]
      IN  /\ i < j \/ (i = j /\ p < q)
          /\ ~isCoinbase(s) /\ s.from = t.from
          => s.nonce < t.nonce

\* A node behaves as a replica that extends its own chain or adopts a longer
\* one, crashes and restarts included.
Replica == INSTANCE LongestChain WITH view <- chain
RefinesLongestChain == Replica!Spec

=============================================================================
